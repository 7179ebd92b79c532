---------------------------- MODULE StreamBatches ----------------------------
(* The batch operations of contracts/stream/src/lib.rs, and the stream       *)
(* contract together with the treasury it pays.  A batch is one transaction: *)
(* its items work one after the other on what the earlier ones left, and an  *)
(* item that reverts undoes them all.                                        *)
EXTENDS StreamProperties, TreasuryContract

CONSTANTS
    BATCH_CAP,          \* 20 in the code: the longest list to cancel
    BatchSize,          \* bound on the lists passed
    MaxBatches,         \* bound on the batches a sender creates
    BatchDurations
ASSUME BatchAssumption ==
    /\ BATCH_CAP \in Nat \ {0} /\ BatchSize \in Nat /\ MaxBatches \in Nat
    /\ BatchDurations \subseteq U64

VARIABLE batch_nonce    \* sender -> the nonce its next batch must carry

protocolVars == <<vars, treasuryVars, batch_nonce>>

(* What a batch works on, until an item reverts, and the step to what it     *)
(* leaves.                                                                   *)
Present == [ok |-> TRUE, bal |-> bal, streams |-> streams, sender_ids |-> sender_ids,
            recipient_ids |-> recipient_ids, global_ids |-> global_ids,
            escrow |-> escrow, recorded |-> recorded]
Become(w) ==
    /\ w.ok
    /\ bal' = w.bal /\ streams' = w.streams
    /\ sender_ids' = w.sender_ids /\ recipient_ids' = w.recipient_ids
    /\ global_ids' = w.global_ids
    /\ escrow' = w.escrow /\ recorded' = w.recorded

Reverted(w) == [w EXCEPT !.ok = FALSE]

(* Each item in turn, up to the first that reverts.                          *)
InTurn(Item(_, _), w, list) ==
    LET after[k \in 0..Len(list)] ==
            IF k = 0 THEN w
            ELSE IF after[k - 1].ok THEN Item(after[k - 1], list[k]) ELSE after[k - 1]
    IN  after[Len(list)]

Booked(w, id, token, b) ==
    [w EXCEPT !.bal = b,
              !.escrow = Credit(@, id, b[token][Contract] - w.bal[token][Contract])]
Removed(w, id) ==
    [w EXCEPT !.streams = Drop(@, id),
              !.sender_ids[w.streams[id].sender] = Unindexed(@, id),
              !.recipient_ids[w.streams[id].recipient] = Unindexed(@, id)]
-----------------------------------------------------------------------------
(* One stream of a batch; position i gives it the nonce i - 1, in every      *)
(* batch.  The whitelist, the minimum duration, the creation fee and the     *)
(* nonces of create_stream are not read.                                     *)
BatchTerms == [duration_seconds : BatchDurations, auto_renew : RenewChoices]
BatchItems == [recipient : Recipients, amount : Amounts, token : Tokens, lock_until : Locks]
batch_id(sender, items, i) == derive_stream_id(sender, items[i].recipient, now, <<i - 1>>)

create_item(w, sender, item, id, terms) ==
    LET stream == [sender |-> sender, recipient |-> item.recipient, token |-> item.token,
                   deposit |-> item.amount,
                   flow_rate |-> item.amount \div terms.duration_seconds,
                   start_time |-> now, cliff_time |-> now, lock_until |-> item.lock_until,
                   end_time |-> now + terms.duration_seconds,
                   last_withdraw_time |-> now, status |-> "Active",
                   auto_renew |-> terms.auto_renew, allow_recipient_termination |-> FALSE,
                   last_pause_time |-> 0, total_withdrawn |-> 0]
    IN  IF CanPay(w.bal, item.token, sender, item.amount)
        THEN [Booked(w, id, item.token,
                     Move(w.bal, item.token, sender, Contract, item.amount))
              EXCEPT !.streams = Put(@, id, stream),
                     !.sender_ids[sender] = Indexed(@, id),
                     !.recipient_ids[item.recipient] = Indexed(@, id),
                     !.global_ids = Indexed(@, id)]
        ELSE Reverted(w)

(* Mutant: the streams the batch adds are not counted.                       *)
BatchFitsLoosely(sender, items) ==
    sender_ids[sender].count < effective_sender_limit(sender)
BatchFits(sender, items) ==
    sender_ids[sender].count + Len(items) <= effective_sender_limit(sender)

CreateEach(w, sender, items, terms) ==
    InTurn(LAMBDA v, i : create_item(v, sender, items[i], batch_id(sender, items, i), terms),
           w, [i \in DOMAIN items |-> i])

batch_create_stream(sender, items, terms, nonce) ==
    LET duration_seconds == terms.duration_seconds
    IN  /\ NotPaused
        /\ nonce = batch_nonce[sender]
        /\ now + duration_seconds <= U64_MAX /\ duration_seconds > 0
        /\ BatchFits(sender, items)
        /\ \A i \in DOMAIN items :
              /\ items[i].amount > 0 /\ items[i].amount \div duration_seconds # 0
              /\ batch_id(sender, items, i) \notin DOMAIN streams
        /\ Become(CreateEach(Present, sender, items, terms))
        /\ batch_nonce' = [batch_nonce EXCEPT ![sender] = @ + 1]
        /\ UNCHANGED <<delegate_of, nonces>>
-----------------------------------------------------------------------------
(* Mutant: the treasury is told the claim instead of the fee.                *)
RecordedClaim(w, token, claim, fee) ==
    IF fee > 0 /\ treasury = TreasuryAddress /\ CanRecord(w.recorded, token, claim)
    THEN Recorded(w.recorded, token, claim) ELSE w.recorded
(* The treasury is told of a fee it was paid; a failure of that call, or an  *)
(* address that is no treasury contract, is ignored.                         *)
RecordedFee(w, token, claim, fee) ==
    IF fee > 0 /\ treasury = TreasuryAddress /\ CanRecord(w.recorded, token, fee)
    THEN Recorded(w.recorded, token, fee) ELSE w.recorded

(* The stream once its claim is paid, given what that left: as in withdraw,  *)
(* but a renewal the sender cannot pay reverts.                              *)
serve_item(w, id, served) ==
    LET s == served
        new_end == s.end_time + (s.end_time - s.start_time)
        settled == PayOut(w.bal, s.token, s.sender, Dust(s))
    IN  IF now < s.end_time
        THEN [w EXCEPT !.streams[id] = s]
        ELSE IF s.auto_renew /\ CanPay(w.bal, s.token, s.sender, s.deposit)
                             /\ new_end <= U64_MAX
        THEN [Booked(w, id, s.token, Move(w.bal, s.token, s.sender, Contract, s.deposit))
              EXCEPT !.streams[id] = Renewed(s, new_end)]
        ELSE IF ~s.auto_renew /\ Funded(settled, s.token)
        THEN Removed(Booked(w, id, s.token, settled), id)
        ELSE Reverted(w)

(* Mutant: streams are read before the batch starts.                         *)
LoadedBefore(w, id) == streams[id]
Loaded(w, id) == w.streams[id]

(* No cliff and no cooldown is read, and the recipient is not called back.   *)
withdraw_item(w, recipient, id) ==
    IF id \notin DOMAIN w.streams THEN Reverted(w)
    ELSE LET s     == Loaded(w, id)
             claim == compute_earned(s.flow_rate, now, s.end_time, s.last_withdraw_time)
             fee   == IF claim = None THEN None ELSE ProtocolFee(claim, recipient)
             paid  == PayClaim(w.bal, s.token, recipient, claim, fee)
         IN  IF /\ s.recipient = recipient /\ s.status = "Active"
                /\ now >= s.lock_until
                /\ fee # None
                /\ claim > 0 => s.total_withdrawn + claim <= s.deposit
                /\ Funded(paid, s.token)
             THEN serve_item([Booked(w, id, s.token, paid)
                              EXCEPT !.recorded = RecordedFee(w, s.token, claim, fee)],
                             id, Served(s, claim, now))
             ELSE Reverted(w)

WithdrawEach(w, ids, recipient) ==
    InTurn(LAMBDA v, id : withdraw_item(v, recipient, id), w, ids)

batch_withdraw(ids, recipient) ==
    /\ NotPaused
    /\ Become(WithdrawEach(Present, ids, recipient))
    /\ UNCHANGED <<delegate_of, nonces, batch_nonce>>
-----------------------------------------------------------------------------
(* The errors of an item: it is skipped, and its result tells why.           *)
(* Mutant: a closed stream will do.                                          *)
CancellableAgain(w, sender, id) ==
    id \in DOMAIN w.streams /\ w.streams[id].sender = sender
Cancellable(w, sender, id) ==
    /\ id \in DOMAIN w.streams /\ w.streams[id].sender = sender
    /\ Live(w.streams[id])

(* Settles at the ledger time, paused or not; a failed transfer reverts the  *)
(* batch.                                                                    *)
cancel_item(w, sender, id) ==
    IF ~Cancellable(w, sender, id) THEN w
    ELSE LET s      == Loaded(w, id)
             earned == compute_earned(s.flow_rate, now, s.end_time, s.last_withdraw_time)
             served == PayOut(w.bal, s.token, s.recipient, earned)
             closed == PayOut(served, s.token, s.sender, Refund(s, earned))
         IN  IF earned = None THEN w
             ELSE IF Funded(closed, s.token)
             THEN Removed(Booked(w, id, s.token, closed), id)
             ELSE Reverted(w)

CancelEach(w, ids, sender) ==
    InTurn(LAMBDA v, id : cancel_item(v, sender, id), w, ids)

(* The delegate cannot call it, and no pause stops it.                       *)
batch_cancel_stream(ids, sender) ==
    /\ Len(ids) \in 1..BATCH_CAP
    /\ Become(CancelEach(Present, ids, sender))
    /\ UNCHANGED <<delegate_of, nonces, batch_nonce, pauseVars>>
-----------------------------------------------------------------------------
IdLists == SeqOf(DOMAIN streams, BatchSize)

BatchNext ==
    /\ \/ \E sender \in Senders, items \in SeqOf(BatchItems, BatchSize),
            terms \in BatchTerms, nonce \in 0..(MaxBatches - 1) :
              /\ global_ids.count + Len(items) <= MaxStreams
              /\ batch_create_stream(sender, items, terms, nonce)
       \/ \E ids \in IdLists, recipient \in Recipients : batch_withdraw(ids, recipient)
       \/ \E ids \in IdLists, sender \in Senders : batch_cancel_stream(ids, sender)
    /\ UNCHANGED <<now, roleVars, version, migrations, auditVars, feeVars, policyVars,
                   treasury_admin, lp_pool, treasury_split, unbacked>>

ProtocolInit == Init /\ TreasuryInit /\ batch_nonce = [u \in Users |-> 0]

(* The stream contract, its batches, and the treasury, which pays only in    *)
(* operations of its own.                                                    *)
ProtocolNext ==
    \/ /\ Next
       /\ \A token \in Tokens : Held(token)' >= Held(token)
       /\ UNCHANGED <<treasuryVars, batch_nonce>>
    \/ BatchNext
    \/ /\ TreasuryNext
       /\ UNCHANGED <<now, adminVars, feeVars, policyVars, streamVars, batch_nonce>>

ProtocolSpec == ProtocolInit /\ [][ProtocolNext]_protocolVars
-----------------------------------------------------------------------------
(* The stream contract keeps to what the treasury needs: fees, single or     *)
(* batched, recorded or not, are told to it only as far as they were paid.   *)
FeedsTreasury == TreasurySpec

(* Neither way to create streams leaves a sender with more stored streams    *)
(* than its limit, whatever was cancelled, settled or changed in between.    *)
CreatedWithinLimit ==
    [][nonces' # nonces \/ batch_nonce' # batch_nonce =>
       \A u \in Users : StreamsFrom(u)' # StreamsFrom(u)
           => Cardinality(StreamsFrom(u)') <= effective_sender_limit(u)]_protocolVars

(* Partial failure of batch_cancel_stream: it never reverts as a whole, and  *)
(* whatever else is on the list - streams of others, closed ones, an id      *)
(* twice - the caller's live streams on it go, and no other stream does.     *)
BatchCancelsEach ==
    \A ids \in IdLists, sender \in Senders :
        LET after == CancelEach(Present, ids, sender)
        IN  /\ after.ok
            /\ DOMAIN streams \ DOMAIN after.streams =
                  {id \in Listed(ids) : Live(streams[id]) /\ streams[id].sender = sender}

(* Nothing but the recipient's own call, single or batched, lowers what it   *)
(* has earned: over every other step, cancellation in a batch included, the  *)
(* earned amount stays or grows, or is paid in full, except when a split     *)
(* overwrites the stream.                                                    *)
EarnedIsKept ==
    [][\A id \in LiveIds :
           LET s == streams[id]
           IN  \/ /\ id \in DOMAIN streams' /\ Live(streams'[id])
                  /\ EarnedAt(streams'[id], now') >= EarnedAt(s, now)
               \/ bal'[s.token][s.recipient] >= bal[s.token][s.recipient] + EarnedAt(s, now)
               \/ RecipientNext(id) \/ SplitInto(id)
               \/ \E ids \in IdLists : batch_withdraw(ids, s.recipient)]_protocolVars

(* While a pause is in force, whatever batches and the treasury do meanwhile:*)
(* the contract takes no tokens in; no step is a withdrawal, single or       *)
(* batched, a termination or a transfer; every stream and what it keeps in   *)
(* the contract stay as they are, but for losing the renewal, unless the     *)
(* sender's side gives it up or it is archived; and no stream is new but the *)
(* one that a split leaves.                                                  *)
GivenUp(id) ==
    \/ \E caller \in Users :
          \/ cancel_stream(id, caller)
          \/ \E cancel_amount \in CancelAmounts :
                partial_cancel_stream(id, caller, cancel_amount)
    \/ archive_stream(id)
    \/ \E ids \in IdLists : id \in Listed(ids) /\ batch_cancel_stream(ids, streams[id].sender)
Frozen(id) ==
    /\ id \in DOMAIN streams' /\ escrow'[id] = escrow[id]
    /\ streams'[id] \in {streams[id], [streams[id] EXCEPT !.auto_renew = FALSE]}
PauseFreezesStreams ==
    [][paused /\ now < pause_expiry
       => /\ \A token \in Tokens : bal'[token][Contract] <= bal[token][Contract]
          /\ \A ids \in IdLists, recipient \in Recipients : ~batch_withdraw(ids, recipient)
          /\ \A id \in DOMAIN streams :
                ~RecipientNext(id) /\ (Frozen(id) \/ GivenUp(id) \/ SplitInto(id))
          /\ \A id \in DOMAIN streams' \ DOMAIN streams : SplitInto(id)]_protocolVars

(* docs/CONTRACT_SPEC.md on cliff_time: "Ledger timestamp before which no    *)
(* tokens are claimable."  batch_withdraw does not read it.                  *)
NothingClaimedBeforeCliff ==
    [][\A id \in LiveIds \cap DOMAIN streams' :
           now < streams[id].cliff_time
           => streams'[id].total_withdrawn <= streams[id].total_withdrawn]_protocolVars
=============================================================================
