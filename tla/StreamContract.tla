--------------------------- MODULE StreamContract ---------------------------
(* The payment streams of contracts/stream/src/lib.rs: deposits locked in    *)
(* the contract flow to a recipient second by second; the sender may pause,  *)
(* top up, split or cancel; a stream may renew itself when it ends.          *)
EXTENDS VestingMath, Fees, StreamPolicy, StreamIndex

CONSTANTS               \* what callers pass
    Senders, Recipients, Operators,
    Amounts, Durations, Cliffs, Locks, Nonces, RenewChoices, TerminationChoices,
    CancelAmounts, TopUps,
    Forwards,           \* sent back to the sender in on_stream_withdraw
    MaxStreams          \* bound on the streams ever created
ASSUME StreamInputs ==
    /\ Senders \cup Recipients \cup Operators \subseteq Users
    /\ Amounts \subseteq I128 /\ TopUps \subseteq I128 /\ CancelAmounts \subseteq I128
    /\ Durations \subseteq U64 /\ Cliffs \subseteq U64 /\ Locks \subseteq U64
    /\ RenewChoices \subseteq BOOLEAN /\ TerminationChoices \subseteq BOOLEAN
    /\ Forwards \subseteq Nat /\ MaxStreams \in Nat

VARIABLES
    streams,            \* stream id -> Stream
    delegate_of,        \* stream id -> operator
    nonces,             \* <<sender, nonce>> used by create_stream
    sender_ids, recipient_ids,  \* account -> index of its stream ids
    global_ids,         \* index of every stream id created
    escrow              \* observer: id -> what its tokens left in the contract

indexVars  == <<sender_ids, recipient_ids, global_ids>>
streamVars == <<streams, delegate_of, nonces, indexVars, escrow>>
vars == <<ledgerVars, adminVars, feeVars, policyVars, streamVars>>

Init ==
    /\ LedgerInit /\ AdminInit /\ FeesInit /\ PolicyInit
    /\ streams = <<>> /\ delegate_of = <<>> /\ nonces = {}
    /\ sender_ids = [u \in Users |-> EmptyIndex]
    /\ recipient_ids = [u \in Users |-> EmptyIndex]
    /\ global_ids = EmptyIndex /\ escrow = <<>>

(* A stream id is a SHA-256 prefix of these four; two ids are equal when all *)
(* four are.                                                                 *)
derive_stream_id(sender, recipient, start_time, nonce) ==
    <<sender, recipient, start_time, nonce>>

(* Mutant: a cancelled stream still counts as live.                         *)
NotCompleted(s) == s.status # "Completed"
Live(s) == s.status \in {"Active", "Paused"}

(* `now` of the operations that work on paused streams too.                  *)
StreamClock(s) == IF s.status = "Paused" THEN s.last_pause_time ELSE now

(* What integer division left of the deposit when the stream was made.       *)
Dust(s) == Saturated(s.deposit
                     - Saturated(s.flow_rate * saturating_sub(s.end_time, s.start_time)))

(* What a cancellation at time t can still take back: deposit less all that  *)
(* has been streamed by then, without the cap at end_time.                   *)
StreamedBy(s, t) == Checked(s.flow_rate * saturating_sub(t, s.start_time))
(* Mutant: what was earned and not yet withdrawn counts as remaining.        *)
RemainingUnpaid(s, t) == Saturated(s.deposit - s.total_withdrawn)
Remaining(s, t) == Saturated(s.deposit - StreamedBy(s, t))

(* What closing a stream gives back: all but what was withdrawn and what the *)
(* recipient gets now.                                                       *)
(* Mutants: the unstreamed part only; the withdrawn part once more.          *)
RefundOfUnstreamed(s, recipient_amount) ==
    compute_refund(s.deposit, s.flow_rate, StreamClock(s), s.end_time, s.start_time)
RefundForgettingWithdrawn(s, recipient_amount) == Saturated(s.deposit - recipient_amount)
Refund(s, recipient_amount) ==
    Saturated(Saturated(s.deposit - s.total_withdrawn) - recipient_amount)

(* Mutant: one stream more than the limit.                                   *)
UpToLimit(sender) == sender_ids[sender].count <= effective_sender_limit(sender)
BelowLimit(sender) == sender_ids[sender].count < effective_sender_limit(sender)

MayManage(id, caller) ==
    \/ caller = streams[id].sender
    \/ id \in DOMAIN delegate_of /\ caller = delegate_of[id]

SaveStream(id, s) == streams' = Put(streams, id, s)
IndexStream(id, s) ==
    /\ sender_ids' = [sender_ids EXCEPT ![s.sender] = Indexed(@, id)]
    /\ recipient_ids' = [recipient_ids EXCEPT ![s.recipient] = Indexed(@, id)]
    /\ global_ids' = Indexed(global_ids, id)
(* Mutant: the global list loses the id too.                                 *)
RemoveStreamEverywhere(id) ==
    /\ streams' = Drop(streams, id)
    /\ sender_ids' = [sender_ids EXCEPT ![streams[id].sender] = Unindexed(@, id)]
    /\ recipient_ids' = [recipient_ids EXCEPT ![streams[id].recipient] = Unindexed(@, id)]
    /\ global_ids' = Unindexed(global_ids, id)
RemoveStream(id) ==
    /\ streams' = Drop(streams, id)
    /\ sender_ids' = [sender_ids EXCEPT ![streams[id].sender] = Unindexed(@, id)]
    /\ recipient_ids' = [recipient_ids EXCEPT ![streams[id].recipient] = Unindexed(@, id)]
    /\ global_ids' = global_ids

(* The observer: the contract's income of this step is the stream's.         *)
Credit(f, id, n) == Put(f, id, n + (IF id \in DOMAIN f THEN f[id] ELSE 0))
Income(token) == bal'[token][Contract] - bal[token][Contract]
Book(id, token) == escrow' = Credit(escrow, id, Income(token))
-----------------------------------------------------------------------------
(* The rest of what the sender asks for.                                     *)
Terms == [duration_seconds : Durations, cliff_seconds : Cliffs, lock_until : Locks,
          auto_renew : RenewChoices, allow_recipient_termination : TerminationChoices]

create_stream(sender, recipient, token, amount, nonce, terms) ==
    LET duration_seconds == terms.duration_seconds
        flow_rate == compute_flow_rate(amount, duration_seconds)
        id == derive_stream_id(sender, recipient, now, nonce)
        charged == PayCreationFee(bal, sender)
        stream == [sender |-> sender, recipient |-> recipient, token |-> token,
                   deposit |-> amount, flow_rate |-> flow_rate,
                   start_time |-> now, cliff_time |-> now + terms.cliff_seconds,
                   lock_until |-> terms.lock_until, end_time |-> now + duration_seconds,
                   last_withdraw_time |-> now, status |-> "Active",
                   auto_renew |-> terms.auto_renew,
                   allow_recipient_termination |-> terms.allow_recipient_termination,
                   last_pause_time |-> 0, total_withdrawn |-> 0]
    IN  /\ NotPaused
        /\ <<sender, nonce>> \notin nonces
        /\ amount > 0 /\ terms.cliff_seconds < duration_seconds
        /\ MayReceive(recipient)
        /\ duration_seconds >= min_duration
        /\ flow_rate # 0
        /\ BelowLimit(sender)
        /\ now + duration_seconds <= U64_MAX
        /\ id \notin DOMAIN streams
        /\ CanPayCreationFee(bal, sender)
        /\ CanPay(charged, token, sender, amount)
        /\ nonces' = nonces \cup {<<sender, nonce>>}
        /\ bal' = Move(charged, token, sender, Contract, amount)
        /\ SaveStream(id, stream) /\ IndexStream(id, stream) /\ Book(id, token)
        /\ delegate_of' = delegate_of

(* What the recipient may withdraw, and the stream once it is withdrawn.     *)
Claimable(s, t) ==
    compute_claimable(s.flow_rate, t, s.cliff_time, s.end_time, s.last_withdraw_time)
(* Mutants: the amount is not counted; the time is not moved.                *)
ServedUncounted(s, claimable, t) ==
    [s EXCEPT !.last_withdraw_time = effective_now(t, s.end_time)]
ServedUntimed(s, claimable, t) == [s EXCEPT !.total_withdrawn = @ + claimable]
Served(s, claimable, t) ==
    [s EXCEPT !.total_withdrawn = @ + claimable,
              !.last_withdraw_time = effective_now(t, s.end_time)]

(* The balances once a claim is paid and the recipient, called back, has     *)
(* forwarded some of its tokens to the sender.                               *)
AfterClaim(s, claimable, forwarded) ==
    Move(PayClaim(bal, s.token, s.recipient, claimable,
                  ProtocolFee(claimable, s.recipient)),
         s.token, s.recipient, s.sender, forwarded)

(* The claim can be computed and paid, and its fee too.                      *)
ClaimPaid(s, claimable, forwarded) ==
    LET fee == ProtocolFee(claimable, s.recipient)
        paid == PayClaim(bal, s.token, s.recipient, claimable, fee)
    IN  /\ fee # None
        /\ Funded(paid, s.token)
        /\ CanPay(paid, s.token, s.recipient, forwarded)
        /\ claimable = 0 => forwarded = 0

(* The four ways a withdrawal leaves the stream, given the stream as served  *)
(* and the balances after the claim: still flowing, ...                      *)
KeepFlowing(id, served, paid) ==
    /\ now < served.end_time
    /\ bal' = paid
    /\ SaveStream(id, served) /\ UNCHANGED indexVars

(* ... ended: dust goes back to the sender, ...                              *)
Settle(id, served, paid) ==
    LET settled == PayOut(paid, served.token, served.sender, Dust(served))
    IN  /\ now >= served.end_time /\ ~served.auto_renew
        /\ Funded(settled, served.token)
        /\ bal' = settled
        /\ RemoveStream(id)

(* A stream that starts over where it ended.                                 *)
(* Mutant: what the last cycle paid is kept.                                 *)
RenewedKeepingPaid(s, new_end) ==
    [s EXCEPT !.start_time = s.end_time, !.end_time = new_end,
              !.last_withdraw_time = s.end_time]
Renewed(s, new_end) ==
    [s EXCEPT !.start_time = s.end_time, !.end_time = new_end,
              !.last_withdraw_time = s.end_time, !.total_withdrawn = 0]

(* ... renewed, with the sender's signature and a new full deposit, ...      *)
Renew(id, served, paid) ==
    LET new_end == served.end_time + (served.end_time - served.start_time)
    IN  /\ now >= served.end_time /\ served.auto_renew
        /\ CanPay(paid, served.token, served.sender, served.deposit)
        /\ new_end <= U64_MAX
        /\ bal' = Move(paid, served.token, served.sender, Contract, served.deposit)
        /\ SaveStream(id, Renewed(served, new_end))
        /\ UNCHANGED indexVars

(* ... or completed, and kept, because the sender cannot pay a new deposit.  *)
FailRenewal(id, served, paid) ==
    LET settled == PayOut(paid, served.token, served.sender, Dust(served))
    IN  /\ now >= served.end_time /\ served.auto_renew
        /\ ~CanPay(paid, served.token, served.sender, served.deposit)
        /\ Funded(settled, served.token)
        /\ bal' = settled
        /\ SaveStream(id, [served EXCEPT !.status = "Completed"])
        /\ UNCHANGED indexVars

(* Called by the recipient.                                                  *)
withdraw(id, forwarded) ==
    LET s == streams[id]
        claimable == Claimable(s, now)
        served == Served(s, claimable, now)
        paid == AfterClaim(s, claimable, forwarded)
    IN  /\ NotPaused
        /\ s.status = "Active"
        /\ now >= s.lock_until /\ CooldownOver(s.last_withdraw_time)
        /\ claimable # None
        /\ claimable > 0 => s.total_withdrawn + claimable <= s.deposit
        /\ ClaimPaid(s, claimable, forwarded)
        /\ \/ KeepFlowing(id, served, paid) \/ Settle(id, served, paid)
           \/ Renew(id, served, paid) \/ FailRenewal(id, served, paid)
        /\ Book(id, s.token)
        /\ UNCHANGED <<delegate_of, nonces>>
-----------------------------------------------------------------------------
(* Pays the recipient its part, the sender the whole remainder, and deletes  *)
(* the stream; its delegate entry stays.                                     *)
CloseOut(id, recipient_amount) ==
    LET s == streams[id]
        served == PayOut(bal, s.token, s.recipient, recipient_amount)
        closed == PayOut(served, s.token, s.sender, Refund(s, recipient_amount))
    IN  /\ recipient_amount # None
        /\ Funded(closed, s.token)
        /\ bal' = closed
        /\ RemoveStream(id) /\ Book(id, s.token)
        /\ UNCHANGED <<delegate_of, nonces>>

cancel_stream(id, caller) ==
    LET s == streams[id]
    IN  /\ MayManage(id, caller)
        /\ Live(s)
        /\ CloseOut(id, compute_earned(s.flow_rate, StreamClock(s), s.end_time,
                                       s.last_withdraw_time))
        /\ UNCHANGED pauseVars

(* Called by the recipient.                                                  *)
recipient_terminate(id) ==
    LET s == streams[id]
    IN  /\ NotPaused
        /\ s.allow_recipient_termination
        /\ Live(s)
        /\ CloseOut(id, Claimable(s, StreamClock(s)))

(* Called by the recipient, who is paid what it may withdraw first.          *)
transfer_recipient(id, new_recipient) ==
    LET s == streams[id]
        t == StreamClock(s)
        claimable == IF t >= s.lock_until THEN Claimable(s, t) ELSE 0
        served == IF claimable > 0 THEN Served(s, claimable, t) ELSE s
        unindexed == [recipient_ids EXCEPT ![s.recipient] = Unindexed(@, id)]
    IN  /\ NotPaused
        /\ Live(s)
        /\ claimable # None /\ served.total_withdrawn \in I128
        /\ ClaimPaid(s, claimable, 0)
        /\ bal' = AfterClaim(s, claimable, 0)
        /\ SaveStream(id, [served EXCEPT !.recipient = new_recipient])
        /\ recipient_ids' = [unindexed EXCEPT ![new_recipient] = Indexed(@, id)]
        /\ Book(id, s.token)
        /\ UNCHANGED <<sender_ids, global_ids, delegate_of, nonces>>

(* Splits the unstreamed remainder: cancel_amount goes back to the sender,   *)
(* the rest becomes a new stream at the same rate.  The time that counts is  *)
(* not capped at end_time here.                                              *)
partial_cancel_stream(id, caller, cancel_amount) ==
    LET s == streams[id]
        t == StreamClock(s)
        earned == Checked(s.flow_rate * saturating_sub(t, s.last_withdraw_time))
        new_deposit == Remaining(s, t) - cancel_amount
        new_end_time == t + new_deposit \div s.flow_rate
        new_id == derive_stream_id(s.sender, s.recipient, t, id)
        new_stream == [s EXCEPT !.deposit = new_deposit, !.start_time = t,
                                !.cliff_time = t, !.lock_until = t,
                                !.end_time = new_end_time,
                                !.last_withdraw_time = t, !.status = "Active",
                                !.last_pause_time = 0, !.total_withdrawn = 0]
        served == PayOut(bal, s.token, s.recipient, earned)
        split == Move(served, s.token, Contract, s.sender, cancel_amount)
    IN  /\ MayManage(id, caller)
        /\ Live(s)
        /\ cancel_amount > 0
        /\ earned # None /\ StreamedBy(s, t) # None
        /\ cancel_amount < Remaining(s, t) /\ new_deposit >= s.flow_rate
        /\ new_end_time <= U64_MAX
        /\ Funded(split, s.token)
        /\ bal' = split
        /\ streams' = Put(Put(streams, id, [s EXCEPT !.status = "Cancelled"]),
                          new_id, new_stream)
        /\ IndexStream(new_id, s)
        /\ escrow' = Credit(Credit(escrow, id, Income(s.token) - new_deposit),
                            new_id, new_deposit)
        /\ UNCHANGED <<delegate_of, nonces, pauseVars>>

(* Paid by the caller, in whole seconds of flow.                             *)
top_up(id, caller, token, amount) ==
    LET s == streams[id]
        effective_amount == amount - (amount % s.flow_rate)
        extra_seconds == effective_amount \div s.flow_rate
    IN  /\ NotPaused
        /\ MayManage(id, caller)
        /\ s.token = token
        /\ Live(s)
        /\ amount > 0 /\ effective_amount > 0
        /\ CanPay(bal, token, caller, effective_amount)
        /\ s.end_time + extra_seconds <= U64_MAX
        /\ s.deposit + effective_amount \in I128
        /\ bal' = Move(bal, token, caller, Contract, effective_amount)
        /\ SaveStream(id, [s EXCEPT !.end_time = @ + extra_seconds,
                                    !.deposit = @ + effective_amount])
        /\ Book(id, token)
        /\ UNCHANGED <<delegate_of, nonces, indexVars>>

(* Mutant: the time of the pause is not kept.                                *)
pause_stream_untimed(id) ==
    /\ NotPaused
    /\ streams[id].status = "Active"
    /\ SaveStream(id, [streams[id] EXCEPT !.status = "Paused"])
    /\ UNCHANGED <<bal, delegate_of, nonces, indexVars, escrow>>

(* Called by the sender, as are the next four.                               *)
pause_stream(id) ==
    /\ NotPaused
    /\ streams[id].status = "Active"
    /\ SaveStream(id, [streams[id] EXCEPT !.status = "Paused", !.last_pause_time = now])
    /\ UNCHANGED <<bal, delegate_of, nonces, indexVars, escrow>>

(* Every time of the stream moves by the length of the pause.                *)
resume_stream(id) ==
    LET s == streams[id]
        Later(t) == saturating_add(t, saturating_sub(now, s.last_pause_time))
    IN  /\ NotPaused
        /\ s.status = "Paused"
        /\ SaveStream(id, [s EXCEPT !.end_time = Later(@), !.cliff_time = Later(@),
                                    !.start_time = Later(@),
                                    !.last_withdraw_time = Later(@),
                                    !.lock_until = Later(@),
                                    !.status = "Active", !.last_pause_time = 0])
        /\ UNCHANGED <<bal, delegate_of, nonces, indexVars, escrow>>

cancel_auto_renew(id) ==
    /\ SaveStream(id, [streams[id] EXCEPT !.auto_renew = FALSE])
    /\ UNCHANGED <<bal, delegate_of, nonces, indexVars, escrow, pauseVars>>

delegate(id, operator) ==
    /\ delegate_of' = Put(delegate_of, id, operator)
    /\ UNCHANGED <<bal, streams, nonces, indexVars, escrow, pauseVars>>

revoke_delegate(id) ==
    /\ delegate_of' = Drop(delegate_of, id)
    /\ UNCHANGED <<bal, streams, nonces, indexVars, escrow, pauseVars>>

(* Called by the sender or the recipient, whatever the status.               *)
archive_stream(id) ==
    LET s == streams[id]
    IN  /\ Saturated(s.total_withdrawn + Dust(s)) >= s.deposit
        /\ RemoveStream(id)
        /\ delegate_of' = Drop(delegate_of, id)
        /\ UNCHANGED <<bal, nonces, escrow, pauseVars>>
-----------------------------------------------------------------------------
CreateNext ==
    /\ global_ids.count < MaxStreams
    /\ \E sender \in Senders, recipient \in Recipients, token \in Tokens, amount \in Amounts,
          nonce \in Nonces, terms \in Terms :
           create_stream(sender, recipient, token, amount, nonce, terms)

RecipientNext(id) ==
    \/ \E forwarded \in Forwards : withdraw(id, forwarded)
    \/ recipient_terminate(id)
    \/ \E new_recipient \in Recipients : transfer_recipient(id, new_recipient)

SenderNext(id) ==
    \/ \E caller \in Users : cancel_stream(id, caller)
    \/ /\ global_ids.count < MaxStreams
       /\ \E caller \in Users, cancel_amount \in CancelAmounts :
            partial_cancel_stream(id, caller, cancel_amount)
    \/ \E caller \in Users, token \in Tokens, amount \in TopUps :
         top_up(id, caller, token, amount)
    \/ pause_stream(id) \/ resume_stream(id) \/ cancel_auto_renew(id)
    \/ \E operator \in Operators : delegate(id, operator)
    \/ revoke_delegate(id)

StreamNext ==
    CreateNext \/ \E id \in DOMAIN streams :
                    RecipientNext(id) \/ SenderNext(id) \/ archive_stream(id)

Next ==
    \/ /\ StreamNext
       /\ UNCHANGED <<now, roleVars, version, migrations, auditVars, feeVars, policyVars>>
    \/ AdminNext  /\ UNCHANGED <<ledgerVars, feeVars, policyVars, streamVars>>
    \/ FeesNext   /\ UNCHANGED <<ledgerVars, adminVars, policyVars, streamVars>>
    \/ PolicyNext /\ UNCHANGED <<ledgerVars, adminVars, feeVars, streamVars>>
    \/ (AdvanceTime \/ WalletTransfer)
       /\ UNCHANGED <<adminVars, feeVars, policyVars, streamVars>>

Spec == Init /\ [][Next]_vars
-----------------------------------------------------------------------------
Streams == [sender : Users, recipient : Users, token : Tokens,
            deposit : 1..I128_MAX, flow_rate : 1..I128_MAX,
            start_time : U64, cliff_time : U64, lock_until : U64, end_time : U64,
            last_withdraw_time : U64, last_pause_time : U64,
            status : {"Active", "Paused", "Cancelled", "Completed"},
            auto_renew : BOOLEAN, allow_recipient_termination : BOOLEAN,
            total_withdrawn : 0..I128_MAX]

(* What the stored streams and the lists range over.                         *)
TypeOK ==
    /\ LedgerTypeOK /\ AdminTypeOK /\ FeesTypeOK /\ PolicyTypeOK
    /\ \A id \in DOMAIN streams : streams[id] \in Streams
    /\ \A id \in DOMAIN delegate_of : delegate_of[id] \in Users
    /\ nonces \subseteq Senders \X Nonces
    /\ DOMAIN sender_ids = Users /\ DOMAIN recipient_ids = Users
    /\ DOMAIN streams \subseteq DOMAIN escrow
    /\ \A id \in DOMAIN escrow : escrow[id] \in Int

(* The times of a live stream are in order, what it paid was earned before   *)
(* the last withdrawal, and its whole flow fits in its deposit.              *)
ScheduleSound(s) ==
    /\ s.start_time <= s.last_withdraw_time
    /\ s.last_withdraw_time <= effective_now(StreamClock(s), s.end_time)
    /\ StreamClock(s) <= now
    /\ s.total_withdrawn <= s.flow_rate * (s.last_withdraw_time - s.start_time)
    /\ s.flow_rate * (s.end_time - s.start_time) <= s.deposit

(* No sequence of withdrawals, pauses, top-ups, renewals and splits lets a   *)
(* live stream pay out more than it has earned or more than its deposit.     *)
VestingWithinDeposit ==
    \A id \in DOMAIN streams : Live(streams[id]) => ScheduleSound(streams[id])

(* A live stream owes its two parties all that it has not paid out.          *)
Owed(s) == IF Live(s) THEN s.deposit - s.total_withdrawn ELSE 0

(* Each stream pays from its own deposits only: what they left in the        *)
(* contract covers what the stream owes, and it never runs negative.         *)
NoCrossSubsidy ==
    /\ \A id \in DOMAIN escrow : escrow[id] >= 0
    /\ \A id \in DOMAIN streams : escrow[id] >= Owed(streams[id])
=============================================================================
