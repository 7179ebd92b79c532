---------------------------- MODULE EscrowProofs ----------------------------
(* Proofs about what one step of the stream contract does to a stream and to *)
(* the tokens it holds: that no stream is paid out of another, that closing  *)
(* a stream pays both parties in full, and that a pause only delays.         *)
EXTENDS StreamClaims, StreamProofs, FiniteSetTheorems, WellFoundedInduction

(* The balances of the contract in all tokens but one stand.                 *)
OthersStand(token) == \A t \in Tokens \ {token} : bal'[t][Contract] = bal[t][Contract]

(* A stream that started at this ledger time, and has paid nothing yet.      *)
Young(s) == s.start_time = now /\ s.total_withdrawn = 0 /\ s.start_time < s.end_time

(* The five ways a step of the stream contract works on the streams.  A      *)
(* stream is created, ...                                                    *)
Opens(id, s) ==
    /\ NotPaused
    /\ id \notin DOMAIN streams
    /\ GoodStream(s) /\ Live(s) /\ s.cliff_time <= s.end_time /\ Young(s)
    /\ s.sender \in Senders
    /\ s.sender \in Users /\ s.recipient \in Users /\ s.token \in Tokens
    /\ \E nonce \in Nonces :
          /\ id = derive_stream_id(s.sender, s.recipient, now, nonce)
          /\ <<s.sender, nonce>> \notin nonces
          /\ nonces' = nonces \cup {<<s.sender, nonce>>}
    /\ BelowLimit(s.sender)
    /\ SaveStream(id, s) /\ IndexStream(id, s) /\ Book(id, s.token)
    /\ Income(s.token) = Owed(s) /\ OthersStand(s.token)

(* The lists when a stream goes from s to r: only the recipient may change.  *)
Relists(id, s, r) ==
    \/ r.recipient = s.recipient /\ UNCHANGED indexVars
    \/ LET unindexed == [recipient_ids EXCEPT ![s.recipient] = Unindexed(@, id)]
       IN  /\ recipient_ids' = [unindexed EXCEPT ![r.recipient] = Indexed(@, id)]
           /\ UNCHANGED <<sender_ids, global_ids>>

(* What the step books: the income of a live stream, or nothing.             *)
BooksLive(id) == \/ Live(streams[id]) /\ Book(id, streams[id].token)
                 \/ UNCHANGED <<bal, escrow>>

(* What a claim counts as paid is what get_claimable told.                   *)
CountsQuoted(id, r) ==
    Live(streams[id]) /\ r.start_time = streams[id].start_time
                      /\ r.last_withdraw_time > streams[id].last_withdraw_time
    => r.total_withdrawn = streams[id].total_withdrawn + get_claimable(id)

(* The recipient loses nothing, unless it calls itself.                      *)
KeepsEarned(id, r) ==
    Live(streams[id]) => \/ RecipientNext(id)
                         \/ Live(r) /\ EarnedAt(r, now) >= EarnedAt(streams[id], now)
PaysEarned(id) ==
    LET s == streams[id]
    IN  Live(s) => \/ RecipientNext(id)
                   \/ bal'[s.token][s.recipient] >= bal[s.token][s.recipient] + EarnedAt(s, now)

(* ... changes, ...                                                          *)
Changes(id, r) ==
    LET s == streams[id]
    IN  /\ id \in DOMAIN streams
        /\ NotPaused \/ (r = [s EXCEPT !.auto_renew = FALSE] /\ UNCHANGED bal)
        /\ GoodStream(r) /\ (Live(r) => Live(s)) /\ (Young(s) => Young(r))
        /\ r.sender = s.sender /\ r.token = s.token /\ r.recipient \in Users
        /\ SaveStream(id, r) /\ Relists(id, s, r) /\ nonces' = nonces
        /\ BooksLive(id) /\ OthersStand(s.token)
        /\ Income(s.token) >= Owed(r) - Owed(s)
        /\ CountsQuoted(id, r) /\ KeepsEarned(id, r)
        /\ s.status = "Paused" /\ r.status = "Active" => r = Resumed(s)
        /\ s.cliff_time <= s.end_time => r.cliff_time <= r.end_time

(* ... is deleted, ...                                                       *)
Closes(id) ==
    LET s == streams[id]
    IN  /\ id \in DOMAIN streams
        /\ NotPaused \/ Income(s.token) <= 0
        /\ Live(s) \/ ~Young(s)
        /\ RemoveStream(id) /\ nonces' = nonces
        /\ BooksLive(id) /\ OthersStand(s.token)
        /\ Income(s.token) >= 0 - Owed(s)
        /\ Live(s) /\ StreamClock(s) < s.end_time
           => Book(id, s.token) /\ Income(s.token) = 0 - Owed(s)
        /\ PaysEarned(id)

(* ... or splits, and then what is left of it becomes a stream of its own.   *)
Divides(id, new, r) ==
    LET s == streams[id]
    IN  /\ id \in DOMAIN streams /\ Live(s)
        /\ new = derive_stream_id(s.sender, s.recipient, StreamClock(s), id)
        /\ GoodStream(r) /\ Live(r) /\ r.cliff_time <= r.end_time
        /\ StreamClock(s) = now => Young(r)
        /\ r.last_withdraw_time = r.start_time /\ r.total_withdrawn = 0
        /\ r.sender = s.sender /\ r.recipient = s.recipient /\ r.token = s.token
        /\ streams' = Put(Put(streams, id, [s EXCEPT !.status = "Cancelled"]), new, r)
        /\ IndexStream(new, s) /\ nonces' = nonces
        /\ escrow' = Credit(Credit(escrow, id, Income(s.token) - Owed(r)), new, Owed(r))
        /\ Income(s.token) >= Owed(r) - Owed(s) /\ Income(s.token) <= 0
        /\ OthersStand(s.token)
        /\ PaysEarned(id)

(* Only the delegate of a stream changes.                                    *)
Rests == UNCHANGED <<bal, streams, escrow, nonces, indexVars>>

StreamEffect ==
    \/ \E id, s : Opens(id, s)
    \/ \E id, r : Changes(id, r)
    \/ \E id : Closes(id)
    \/ \E id, new, r : Divides(id, new, r)
    \/ Rests
-----------------------------------------------------------------------------
(* A payment of the contract reaches the payee, and leaves all other         *)
(* accounts alone.                                                           *)
LEMMA PayOutPays ==
    ASSUME NEW token \in Tokens, NEW b, Loan(b, token), NEW to \in Users, NEW n \in Nat
    PROVE  /\ PayOut(b, token, to, n)[token][to] = b[token][to] + n
           /\ \A t \in Tokens, a \in Accounts :
                 t # token \/ (a # to /\ a # Contract)
                 => PayOut(b, token, to, n)[t][a] = b[t][a]
  <1> USE ContractApart
  <1>1. CASE n > 0
    <2> DEFINE debited == [b EXCEPT ![token][Contract] = @ - n]
               paid == [debited EXCEPT ![token][to] = @ + n]
    <2>1. /\ debited \in [Tokens -> [Accounts -> Int]]
          /\ \A t \in Tokens, a \in Accounts :
                t # token \/ a # Contract => debited[t][a] = b[t][a]
      BY DEF Loan
    <2> HIDE DEF debited
    <2>2. /\ paid[token][to] = debited[token][to] + n
          /\ \A t \in Tokens, a \in Accounts :
                t # token \/ a # to => paid[t][a] = debited[t][a]
      BY <2>1
    <2>3. PayOut(b, token, to, n) = paid
      BY <1>1 DEF PayOut, Move, debited
    <2> QED
      BY <2>1, <2>2, <2>3
  <1>2. CASE n = 0
    <2>1. b[token][to] \in Int
      BY DEF Loan
    <2> QED
      BY <1>2, <2>1 DEF PayOut
  <1> QED
    BY <1>1, <1>2

(* A transfer of a user touches the contract only in the token it moves.     *)
LEMMA MoveStands ==
    ASSUME NEW token \in Tokens, NEW b \in Balances, NEW from \in Users,
           NEW to \in Accounts, NEW n \in Nat, CanPay(b, token, from, n)
    PROVE  \A t \in Tokens \ {token} : Move(b, token, from, to, n)[t][Contract] = b[t][Contract]
  BY UserPays

(* Paying a claim does not touch the contract's other tokens.                *)
LEMMA ClaimStands ==
    ASSUME FeesTypeOK, NEW s \in Streams, NEW c \in Nat, bal \in Balances,
           NEW forwarded \in Nat, ClaimPaid(s, c, forwarded)
    PROVE  \A t \in Tokens \ {s.token} :
              AfterClaim(s, c, forwarded)[t][Contract] = bal[t][Contract]
  <1> DEFINE fee == ProtocolFee(c, s.recipient)
             served == PayOut(bal, s.token, s.recipient, c - fee)
             paid == PayClaim(bal, s.token, s.recipient, c, fee)
  <1>1. s.token \in Tokens /\ s.recipient \in Users /\ s.sender \in Users
    BY DEF Streams
  <1>2. fee \in 0..c
    <2>1. fee # None /\ fee_bps \in 0..BASIS_POINTS
      BY DEF ClaimPaid, FeesTypeOK
    <2> QED
      BY <2>1, FeePart DEF ProtocolFee
  <1> HIDE DEF fee
  <1>3. PICK rest \in Nat : rest = c - fee
    BY <1>2
  <1>4. Loan(bal, s.token)
    BY <1>1, BalancesAreLoan
  <1>5. /\ Loan(served, s.token)
        /\ \A t \in Tokens \ {s.token} : served[t][Contract] = bal[t][Contract]
    BY <1>1, <1>3, <1>4, PayOutCosts, PayOutPays, ContractApart, SMTT(30)
  <1> HIDE DEF served
  <1>6. /\ Loan(paid, s.token)
        /\ \A t \in Tokens \ {s.token} : paid[t][Contract] = served[t][Contract]
    <2>1. CASE treasury = None
      BY <1>5, <2>1 DEF PayClaim, served
    <2>2. CASE treasury # None
      <3>1. treasury \in Users
        BY <2>2 DEF FeesTypeOK
      <3>2. paid = PayOut(served, s.token, treasury, fee)
        BY <2>2 DEF PayClaim, served
      <3>3. fee \in Nat
        BY <1>2
      <3> HIDE DEF paid
      <3>4. Loan(paid, s.token)
        BY <1>1, <1>5, <3>1, <3>2, <3>3, PayOutCosts
      <3>5. \A t \in Tokens \ {s.token} : paid[t][Contract] = served[t][Contract]
        BY <1>1, <1>5, <3>1, <3>2, <3>3, PayOutPays, ContractApart
      <3> QED
        BY <3>4, <3>5
    <2> QED
      BY <2>1, <2>2
  <1>7. /\ Funded(paid, s.token) /\ CanPay(paid, s.token, s.recipient, forwarded)
        /\ AfterClaim(s, c, forwarded) = Move(paid, s.token, s.recipient, s.sender, forwarded)
    BY DEF ClaimPaid, AfterClaim, fee
  <1> HIDE DEF paid
  <1>8. paid \in Balances
    BY <1>1, <1>6, <1>7, LoanFunded
  <1>9. \A t \in Tokens \ {s.token} :
           AfterClaim(s, c, forwarded)[t][Contract] = paid[t][Contract]
    BY <1>1, <1>7, <1>8, MoveStands, ContractApart
  <1> QED
    BY <1>5, <1>6, <1>9

(* The creation fee goes from user to user.                                  *)
LEMMA CreateOpens ==
    ASSUME ContractInv, NEW sender \in Senders, NEW recipient \in Recipients,
           NEW token \in Tokens, NEW amount \in Amounts, NEW nonce \in Nonces,
           NEW terms \in Terms,
           create_stream(sender, recipient, token, amount, nonce, terms)
    PROVE  \E id, s : Opens(id, s)
  <1> DEFINE id == derive_stream_id(sender, recipient, now, nonce)
             stream == NewStream(sender, recipient, token, amount, terms)
             charged == PayCreationFee(bal, sender)
  <1>1. /\ sender \in Users /\ recipient \in Users /\ amount \in I128
    BY StreamInputs
  <1>2. /\ amount > 0 /\ terms.cliff_seconds < terms.duration_seconds
        /\ compute_flow_rate(amount, terms.duration_seconds) # 0
        /\ now + terms.duration_seconds <= U64_MAX
        /\ CanPayCreationFee(bal, sender) /\ CanPay(charged, token, sender, amount)
        /\ bal' = Move(charged, token, sender, Contract, amount)
    BY DEF create_stream
  <1>3. /\ NotPaused /\ id \notin DOMAIN streams /\ BelowLimit(sender)
        /\ <<sender, nonce>> \notin nonces /\ nonces' = nonces \cup {<<sender, nonce>>}
        /\ SaveStream(id, stream) /\ IndexStream(id, stream) /\ Book(id, token)
    BY DEF create_stream, NewStream
  <1>4. GoodStream(stream) /\ Owed(stream) = amount
    BY <1>1, <1>2, Basics, CreatedGood
  <1>5. /\ stream.sender = sender /\ stream.recipient = recipient /\ stream.token = token
        /\ Live(stream) /\ stream.cliff_time <= stream.end_time /\ Young(stream)
    <2>1. terms.cliff_seconds \in Nat /\ terms.duration_seconds \in Nat /\ now \in Nat
      <3>1. terms.cliff_seconds \in U64 /\ terms.duration_seconds \in U64
        BY StreamInputs DEF Terms
      <3> QED
        BY <3>1, Basics, WidthAssumption DEF U64
    <2> QED
      BY <1>2, <2>1 DEF NewStream, Live, Young
  <1> HIDE DEF stream
  <1>6. amount \in Nat
    BY <1>1, <1>2 DEF I128
  <1>7. charged \in Balances /\ \A t \in Tokens : charged[t][Contract] = bal[t][Contract]
    BY <1>1, <1>2, ChargedKept
  <1> HIDE DEF charged
  <1>8. \A t \in Tokens :
           bal'[t][Contract] = IF t = token THEN bal[t][Contract] + amount ELSE bal[t][Contract]
    BY <1>1, <1>2, <1>6, <1>7, UserPays, ContractApart
  <1>9. Income(token) = amount /\ OthersStand(token)
    BY <1>6, <1>8, Basics DEF Income, OthersStand
  <1>10. Opens(id, stream)
    <2> HIDE DEF id
    <2>1. \E n \in Nonces :
            /\ id = derive_stream_id(stream.sender, stream.recipient, now, n)
            /\ <<stream.sender, n>> \notin nonces
            /\ nonces' = nonces \cup {<<stream.sender, n>>}
      BY <1>3, <1>5 DEF id
    <2> QED
      BY <1>1, <1>3, <1>4, <1>5, <1>9, <2>1 DEF Opens
  <1> QED
    BY <1>10

(* A stream that starts now has nothing to pay yet.                          *)
LEMMA YoungEarnsNothing ==
    ASSUME NEW s \in Streams, ScheduleSound(s), now \in Nat, Young(s)
    PROVE  /\ StreamClock(s) = now /\ s.last_withdraw_time = now /\ now < s.end_time
           /\ \A n : Payable(s, n) => n = 0
  <1> DEFINE eff == effective_now(StreamClock(s), s.end_time)
  <1>1. /\ s.start_time = now /\ s.total_withdrawn = 0 /\ now < s.end_time
        /\ s.end_time \in Nat /\ s.last_withdraw_time \in Nat
    BY StreamFields DEF Young
  <1>2. /\ s.start_time <= s.last_withdraw_time /\ s.last_withdraw_time <= eff
        /\ StreamClock(s) <= now /\ StreamClock(s) \in Nat
    BY EarnedFits DEF ScheduleSound
  <1>3. eff = now /\ StreamClock(s) = now /\ s.last_withdraw_time = now
    BY <1>1, <1>2 DEF effective_now
  <1>4. ASSUME NEW n, Payable(s, n) PROVE n = 0
    BY <1>1, <1>3, <1>4, StreamFields DEF Payable
  <1> QED
    BY <1>1, <1>3, <1>4
-----------------------------------------------------------------------------
(* What get_claimable tells of a live stream is what it may withdraw.        *)
LEMMA QuoteIsClaimable ==
    ASSUME ContractInv, NEW id \in DOMAIN streams, Live(streams[id])
    PROVE  get_claimable(id) = Claimable(streams[id], StreamClock(streams[id]))
  <1> DEFINE s == streams[id]
             t == StreamClock(s)
  <1>1. s \in Streams /\ ScheduleSound(s) /\ now \in Nat
    BY Basics DEF GoodStream
  <1>2. t \in Nat /\ s.cliff_time \in Nat
    BY <1>1, EarnedFits, StreamFields
  <1>3. get_claimable(id) = IF t >= s.cliff_time THEN Claimable(s, t) ELSE 0
    BY DEF get_claimable
  <1>4. t < s.cliff_time => Claimable(s, t) = 0
    BY DEF Claimable, compute_claimable
  <1> HIDE DEF t, s
  <1>5. get_claimable(id) = Claimable(s, t)
    BY <1>2, <1>3, <1>4
  <1> QED
    BY <1>5 DEF s, t

(* A claim lowers what the stream owes by what it counts as paid, and costs  *)
(* the contract no more.                                                     *)
LEMMA ClaimEffect ==
    ASSUME ContractInv, NEW id \in DOMAIN streams, Live(streams[id]),
           NEW c, Payable(streams[id], c), NEW forwarded \in Nat,
           ClaimPaid(streams[id], c, forwarded)
    PROVE  LET s      == streams[id]
               served == Served(s, c, StreamClock(s))
               paid   == AfterClaim(s, c, forwarded)
           IN  /\ served \in Streams /\ ScheduleSound(served) /\ GoodStream(served)
               /\ Live(served)
               /\ served.status = s.status /\ served.deposit = s.deposit
               /\ served.token = s.token /\ served.sender = s.sender
               /\ served.recipient = s.recipient
               /\ served.start_time = s.start_time /\ served.end_time = s.end_time
               /\ served.cliff_time = s.cliff_time /\ s.cliff_time \in Nat
               /\ served.total_withdrawn = s.total_withdrawn + c
               /\ s.last_withdraw_time \in s.start_time..s.end_time
               /\ s.start_time \in Nat /\ s.end_time \in Nat
               /\ c \in Nat /\ Owed(s) \in Nat /\ Owed(served) = Owed(s) - c
               /\ Dust(served) \in Nat /\ Dust(served) <= Owed(served)
               /\ paid \in Balances
               /\ paid[s.token][Contract] \in Nat /\ bal[s.token][Contract] \in Nat
               /\ paid[s.token][Contract] >= bal[s.token][Contract] - c
               /\ \A t \in Tokens \ {s.token} : paid[t][Contract] = bal[t][Contract]
  <1> DEFINE s == streams[id]
             served == Served(s, c, StreamClock(s))
             paid == AfterClaim(s, c, forwarded)
  <1>1. /\ s \in Streams /\ ScheduleSound(s) /\ GoodStream(s) /\ now \in Nat /\ now \in U64
        /\ bal \in Balances /\ FeesTypeOK
    BY Basics DEF GoodStream
  <1>2. c \in Nat /\ s.deposit \in Nat /\ s.total_withdrawn \in Nat /\ Owed(s) \in Nat
    BY <1>1, StreamFields, OwedIsAmount DEF Payable
  <1>3. /\ served \in Streams /\ ScheduleSound(served) /\ GoodStream(served)
        /\ served.status = s.status /\ served.deposit = s.deposit
        /\ served.token = s.token /\ served.sender = s.sender
        /\ Dust(served) \in Nat /\ Dust(served) <= Owed(served)
        /\ paid \in Balances
        /\ paid[s.token][Contract] \in Nat /\ bal[s.token][Contract] \in Nat
    BY ClaimServed
  <1>4. /\ Live(served) /\ served.recipient = s.recipient
        /\ served.start_time = s.start_time /\ served.end_time = s.end_time
        /\ served.total_withdrawn = s.total_withdrawn + c
        /\ Owed(served) = s.deposit - s.total_withdrawn - c
    BY <1>1, ServedGood
  <1>5. Owed(served) = Owed(s) - c
    BY <1>2, <1>4 DEF Owed
  <1>6. paid[s.token][Contract] >= bal[s.token][Contract] - c
    BY <1>1, <1>2, ClaimCosts
  <1>7. \A t \in Tokens \ {s.token} : paid[t][Contract] = bal[t][Contract]
    BY <1>1, <1>2, ClaimStands
  <1>8. /\ s.start_time \in Nat /\ s.end_time \in Nat
        /\ s.last_withdraw_time \in s.start_time..s.end_time
        /\ served.cliff_time = s.cliff_time /\ s.cliff_time \in Nat
    BY <1>1, StreamFields, EarnedFits DEF Served, Streams
  <1> HIDE DEF s, served, paid
  <1> QED
    BY <1>2, <1>3, <1>4, <1>5, <1>6, <1>7, <1>8 DEF s, served, paid

(* A settlement takes from the contract what it pays.                        *)
LEMMA SettlementStands ==
    ASSUME NEW paid \in Balances, NEW token \in Tokens, NEW to \in Users, NEW n \in Nat
    PROVE  \A t \in Tokens \ {token} : PayOut(paid, token, to, n)[t][Contract] = paid[t][Contract]
  BY BalancesAreLoan, PayOutPays, ContractApart

LEMMA WithdrawEffect ==
    ASSUME ContractInv, NEW id \in DOMAIN streams,
           NEW forwarded \in Forwards, withdraw(id, forwarded)
    PROVE  (\E r : Changes(id, r)) \/ Closes(id)
  <1> DEFINE s == streams[id]
             c == Claimable(s, now)
             served == Served(s, c, now)
             paid == AfterClaim(s, c, forwarded)
             settled == PayOut(paid, served.token, served.sender, Dust(served))
  <1>1. /\ NotPaused /\ s.status = "Active"
        /\ ClaimPaid(s, c, forwarded)
        /\ \/ KeepFlowing(id, served, paid) \/ Settle(id, served, paid)
           \/ Renew(id, served, paid) \/ FailRenewal(id, served, paid)
        /\ Book(id, s.token) /\ nonces' = nonces
    BY DEF withdraw
  <1>2. /\ s \in Streams /\ ScheduleSound(s) /\ Live(s) /\ StreamClock(s) = now
        /\ s.token \in Tokens /\ s.sender \in Users /\ s.recipient \in Users
        /\ now \in Nat
    BY <1>1, Basics DEF GoodStream, Live, StreamClock
  <1>3. Payable(s, c)
    BY <1>2, ClaimablePayable
  <1>4. forwarded \in Nat
    BY StreamInputs
  <1>5. /\ served \in Streams /\ ScheduleSound(served) /\ GoodStream(served)
        /\ served.status = s.status /\ served.deposit = s.deposit
        /\ served.token = s.token /\ served.sender = s.sender
        /\ served.recipient = s.recipient
        /\ served.start_time = s.start_time /\ served.end_time = s.end_time
        /\ served.cliff_time = s.cliff_time /\ s.cliff_time \in Nat
        /\ served.total_withdrawn = s.total_withdrawn + c
        /\ s.last_withdraw_time \in s.start_time..s.end_time
        /\ s.start_time \in Nat /\ s.end_time \in Nat
        /\ c \in Nat /\ Owed(s) \in Nat /\ Owed(served) = Owed(s) - c
        /\ Dust(served) \in Nat /\ Dust(served) <= Owed(served)
        /\ paid \in Balances
        /\ paid[s.token][Contract] \in Nat /\ bal[s.token][Contract] \in Nat
        /\ paid[s.token][Contract] >= bal[s.token][Contract] - c
        /\ \A t \in Tokens \ {s.token} : paid[t][Contract] = bal[t][Contract]
    BY <1>1, <1>2, <1>3, <1>4, ClaimEffect
  <1>6. get_claimable(id) = c
    BY <1>2, QuoteIsClaimable
  <1>7. RecipientNext(id)
    BY DEF RecipientNext
  <1>8. BooksLive(id)
    BY <1>1, <1>2 DEF BooksLive
  <1>15. Young(s) => c = 0 /\ now < s.end_time
    BY <1>2, <1>3, YoungEarnsNothing
  <1> HIDE DEF s, c, served, paid
  <1>9. ASSUME NEW r, GoodStream(r), r.sender = s.sender, r.token = s.token,
               r.recipient = s.recipient, SaveStream(id, r), UNCHANGED indexVars,
               Income(s.token) >= Owed(r) - Owed(s), OthersStand(s.token),
               r.status \in {"Active", "Completed"},
               r.cliff_time = s.cliff_time, r.end_time >= s.end_time,
               r.start_time = s.start_time /\ r.last_withdraw_time > s.last_withdraw_time
                 => r.total_withdrawn = served.total_withdrawn,
               Young(s) => Young(r)
        PROVE  Changes(id, r)
    <2>1. Relists(id, s, r) /\ r.recipient \in Users
      BY <1>2, <1>9 DEF Relists
    <2>2. CountsQuoted(id, r) /\ KeepsEarned(id, r)
      BY <1>5, <1>6, <1>7, <1>9 DEF CountsQuoted, KeepsEarned, s
    <2>3. s.status # "Paused"
      BY <1>1
    <2>4. s.cliff_time <= s.end_time => r.cliff_time <= r.end_time
      BY <1>5, <1>9, StreamFields DEF GoodStream
    <2> QED
      BY <1>1, <1>2, <1>8, <1>9, <2>1, <2>2, <2>3, <2>4 DEF Changes, s
  <1>10. CASE KeepFlowing(id, served, paid)
    <2>1. bal' = paid /\ SaveStream(id, served) /\ UNCHANGED indexVars
      BY <1>10 DEF KeepFlowing
    <2>2. Income(s.token) >= Owed(served) - Owed(s) /\ OthersStand(s.token)
      BY <1>5, <2>1 DEF Income, OthersStand
    <2>3. Young(s) => Young(served)
      BY <1>2, <1>5, <1>15, StreamFields DEF Young
    <2> QED
      BY <1>1, <1>5, <1>9, <2>1, <2>2, <2>3
  <1>11. ASSUME Funded(settled, served.token), bal' = settled
         PROVE  Income(s.token) >= 0 - Owed(s) /\ OthersStand(s.token)
    <2>1. settled[s.token][Contract] = paid[s.token][Contract] - Dust(served)
      BY <1>2, <1>5, <1>11, SettlementCosts
    <2>2. \A t \in Tokens \ {s.token} : settled[t][Contract] = paid[t][Contract]
      BY <1>2, <1>5, SettlementStands
    <2> HIDE DEF settled
    <2>3. Income(s.token) >= 0 - Owed(s)
      BY <1>5, <1>11, <2>1 DEF Income
    <2>4. OthersStand(s.token)
      BY <1>5, <1>11, <2>2 DEF OthersStand
    <2> QED
      BY <2>3, <2>4
  <1>12. CASE Settle(id, served, paid)
    <2>1. /\ Funded(settled, served.token) /\ bal' = settled /\ RemoveStream(id)
          /\ now >= served.end_time
      BY <1>12 DEF Settle
    <2>2. PaysEarned(id)
      BY <1>7 DEF PaysEarned
    <2>3. ~(StreamClock(s) < s.end_time)
      BY <1>2, <1>5, <2>1
    <2> QED
      BY <1>1, <1>2, <1>8, <1>11, <2>1, <2>2, <2>3 DEF Closes, s
  <1>13. CASE Renew(id, served, paid)
    <2> DEFINE new_end == served.end_time + (served.end_time - served.start_time)
               renewed == Renewed(served, new_end)
    <2>1. /\ now >= served.end_time
          /\ CanPay(paid, served.token, served.sender, served.deposit)
          /\ new_end <= U64_MAX
          /\ bal' = Move(paid, served.token, served.sender, Contract, served.deposit)
          /\ SaveStream(id, renewed) /\ UNCHANGED indexVars
      BY <1>13 DEF Renew
    <2>2. GoodStream(renewed) /\ Owed(renewed) = served.deposit
      BY <1>1, <1>2, <1>5, <2>1, RenewedGood
    <2>3. /\ renewed.sender = s.sender /\ renewed.token = s.token
          /\ renewed.recipient = s.recipient /\ renewed.status = "Active"
          /\ renewed.start_time = s.end_time /\ renewed.last_withdraw_time = s.end_time
          /\ renewed.cliff_time = s.cliff_time /\ renewed.end_time >= s.end_time
      <3>1. new_end >= s.end_time
        BY <1>5
      <3> HIDE DEF new_end
      <3> QED
        BY <1>1, <1>5, <3>1 DEF Renewed, Streams
    <2> HIDE DEF renewed
    <2>4. served.deposit \in Nat
      BY <1>5, StreamFields
    <2>5. /\ bal' \in Balances
          /\ bal'[s.token][Contract] = paid[s.token][Contract] + served.deposit
          /\ \A t \in Tokens \ {s.token} : bal'[t][Contract] = paid[t][Contract]
      BY <1>2, <1>5, <2>1, <2>4, UserPays, ContractApart
    <2>6. Income(s.token) >= Owed(renewed) - Owed(s) /\ OthersStand(s.token)
      <3>1. c <= Owed(s)
        BY <1>5
      <3>2. Income(s.token) >= Owed(renewed) - Owed(s)
        BY <1>5, <2>2, <2>4, <2>5, <3>1 DEF Income
      <3> QED
        BY <1>5, <2>5, <3>2 DEF OthersStand
    <2>7. ~(renewed.start_time = s.start_time
              /\ renewed.last_withdraw_time > s.last_withdraw_time)
      BY <1>5, <2>3
    <2>8. ~Young(s)
      BY <1>2, <1>5, <1>15, <2>1
    <2> QED
      BY <1>9, <2>1, <2>2, <2>3, <2>6, <2>7, <2>8
  <1>14. CASE FailRenewal(id, served, paid)
    <2> DEFINE completed == [served EXCEPT !.status = "Completed"]
    <2>1. /\ Funded(settled, served.token) /\ bal' = settled
          /\ SaveStream(id, completed) /\ UNCHANGED indexVars
          /\ now >= served.end_time
      BY <1>14 DEF FailRenewal
    <2>2. /\ completed \in Streams /\ completed.status = "Completed"
          /\ completed.sender = served.sender /\ completed.token = served.token
          /\ completed.recipient = served.recipient
          /\ completed.total_withdrawn = served.total_withdrawn
          /\ completed.cliff_time = s.cliff_time /\ completed.end_time = s.end_time
      BY <1>5 DEF Streams
    <2> HIDE DEF completed
    <2>3. GoodStream(completed) /\ Owed(completed) = 0
      BY <2>2 DEF GoodStream, Owed, Live
    <2>4. Income(s.token) >= Owed(completed) - Owed(s) /\ OthersStand(s.token)
      BY <1>5, <1>11, <2>1, <2>3
    <2>5. ~Young(s)
      BY <1>2, <1>5, <1>15, <2>1
    <2> QED
      BY <1>5, <1>9, <2>1, <2>2, <2>3, <2>4, <2>5
  <1> QED
    BY <1>1, <1>10, <1>12, <1>13, <1>14
-----------------------------------------------------------------------------
(* What a live stream has earned, as cancel_stream pays it.                  *)
LEMMA EarnedIs ==
    ASSUME NEW s \in Streams, ScheduleSound(s), now \in Nat
    PROVE  LET eff == effective_now(StreamClock(s), s.end_time)
           IN  /\ EarnedAt(s, now) = s.flow_rate * (eff - s.last_withdraw_time)
               /\ EarnedAt(s, now) \in Nat
               /\ EarnedAt(s, now) = compute_earned(s.flow_rate, StreamClock(s), s.end_time,
                                                    s.last_withdraw_time)
  BY EarnedComputed, EarnedFits DEF EarnedAt, StreamClock

(* It grows with the time that counts since the last withdrawal.             *)
LEMMA EarnedGrows ==
    ASSUME NEW s \in Streams, ScheduleSound(s), NEW r \in Streams, ScheduleSound(r),
           now \in Nat, r.flow_rate = s.flow_rate,
           effective_now(StreamClock(r), r.end_time) - r.last_withdraw_time
             >= effective_now(StreamClock(s), s.end_time) - s.last_withdraw_time
    PROVE  EarnedAt(r, now) >= EarnedAt(s, now)
  <1> DEFINE x == effective_now(StreamClock(s), s.end_time) - s.last_withdraw_time
             y == effective_now(StreamClock(r), r.end_time) - r.last_withdraw_time
  <1>1. x \in Nat /\ y \in Nat /\ s.flow_rate \in Nat
    BY EarnedFits, StreamFields
  <1>2. EarnedAt(s, now) = s.flow_rate * x /\ EarnedAt(r, now) = s.flow_rate * y
    BY EarnedIs
  <1>3. x <= y
    BY <1>1
  <1> HIDE DEF x, y
  <1>4. s.flow_rate * x \in Nat /\ s.flow_rate * y \in Nat
        /\ s.flow_rate * x <= s.flow_rate * y
    BY <1>1, <1>3, FlowOrder
  <1> QED
    BY <1>2, <1>4

LEMMA TransferEffect ==
    ASSUME ContractInv, NEW id \in DOMAIN streams,
           NEW new_recipient \in Recipients, transfer_recipient(id, new_recipient)
    PROVE  \E r : Changes(id, r)
  <1> DEFINE s == streams[id]
             t == StreamClock(s)
             c == IF t >= s.lock_until THEN Claimable(s, t) ELSE 0
             full == Served(s, c, t)
             served == IF c > 0 THEN full ELSE s
             paid == AfterClaim(s, c, 0)
             moved == [served EXCEPT !.recipient = new_recipient]
  <1>1. /\ NotPaused /\ Live(s) /\ ClaimPaid(s, c, 0) /\ bal' = paid
        /\ SaveStream(id, moved) /\ Book(id, s.token) /\ nonces' = nonces
    BY DEF transfer_recipient
  <1>2. /\ sender_ids' = sender_ids /\ global_ids' = global_ids
        /\ recipient_ids' = [[recipient_ids EXCEPT ![s.recipient] = Unindexed(@, id)]
                               EXCEPT ![new_recipient] = Indexed(@, id)]
    BY DEF transfer_recipient
  <1>3. /\ s \in Streams /\ ScheduleSound(s) /\ GoodStream(s) /\ now \in Nat
        /\ s.token \in Tokens /\ Owed(s) \in Nat
    BY <1>1, Basics, OwedIsAmount DEF GoodStream
  <1>4. Payable(s, c)
    BY <1>3, ClaimablePayable, EarnedPayable
  <1>5. c > 0 => get_claimable(id) = c
    BY <1>1, QuoteIsClaimable
  <1>16. Young(s) => ~(c > 0)
    <2> HIDE DEF c
    <2> QED
      BY <1>3, <1>4, YoungEarnsNothing
  <1>6. RecipientNext(id)
    BY DEF RecipientNext
  <1>7. new_recipient \in Users
    BY StreamInputs
  <1>8. /\ full \in Streams /\ GoodStream(full)
        /\ full.status = s.status /\ full.token = s.token /\ full.sender = s.sender
        /\ full.total_withdrawn = s.total_withdrawn + c
        /\ full.cliff_time = s.cliff_time /\ full.end_time = s.end_time
        /\ c \in Nat /\ Owed(full) = Owed(s) - c
        /\ paid[s.token][Contract] \in Nat /\ bal[s.token][Contract] \in Nat
        /\ paid[s.token][Contract] >= bal[s.token][Contract] - c
        /\ \A u \in Tokens \ {s.token} : paid[u][Contract] = bal[u][Contract]
    <2>1. 0 \in Nat
      OBVIOUS
    <2> HIDE DEF c
    <2> QED
      BY <1>1, <1>4, <2>1, ClaimEffect
  <1> HIDE DEF c, full, paid
  <1>9. /\ served \in Streams /\ GoodStream(served)
        /\ served.status = s.status /\ served.token = s.token /\ served.sender = s.sender
        /\ served.cliff_time = s.cliff_time /\ served.end_time = s.end_time
        /\ served.last_withdraw_time > s.last_withdraw_time
           => served.total_withdrawn = s.total_withdrawn + get_claimable(id)
        /\ Owed(served) = Owed(s) - c
    <2>1. CASE c > 0
      BY <1>5, <1>8, <2>1
    <2>2. CASE c = 0
      <3>1. ~(s.last_withdraw_time > s.last_withdraw_time) /\ Owed(s) = Owed(s) - c
        BY <1>3, <2>2, StreamFields
      <3> QED
        BY <1>3, <2>2, <3>1
    <2> QED
      BY <1>8, <2>1, <2>2
  <1>17. Young(s) => served = s
    BY <1>16
  <1> HIDE DEF served
  <1>10. /\ moved \in Streams /\ moved.recipient = new_recipient
         /\ moved.status = served.status /\ moved.last_pause_time = served.last_pause_time
         /\ moved.deposit = served.deposit /\ moved.flow_rate = served.flow_rate
         /\ moved.start_time = served.start_time /\ moved.end_time = served.end_time
         /\ moved.last_withdraw_time = served.last_withdraw_time
         /\ moved.total_withdrawn = served.total_withdrawn
         /\ moved.cliff_time = served.cliff_time
         /\ moved.token = served.token /\ moved.sender = served.sender
    BY <1>7, <1>9 DEF Streams
  <1> HIDE DEF moved
  <1>11. GoodStream(moved) /\ Owed(moved) = Owed(served)
    BY <1>3, <1>9, <1>10, SameSchedule
  <1>12. Relists(id, s, moved) /\ BooksLive(id)
    BY <1>1, <1>2, <1>10 DEF Relists, BooksLive
  <1>13. Income(s.token) >= Owed(moved) - Owed(s) /\ OthersStand(s.token)
    BY <1>1, <1>3, <1>8, <1>9, <1>11 DEF Income, OthersStand
  <1>14. CountsQuoted(id, moved) /\ KeepsEarned(id, moved)
    BY <1>6, <1>9, <1>10 DEF CountsQuoted, KeepsEarned, s
  <1>15. Changes(id, moved)
    <2>1. ~(s.status = "Paused" /\ moved.status = "Active")
      BY <1>9, <1>10
    <2>2. Young(s) => Young(moved)
      BY <1>10, <1>17 DEF Young
    <2> HIDE DEF s, t
    <2> QED
      BY <1>1, <1>7, <1>9, <1>10, <1>11, <1>12, <1>13, <1>14, <2>1, <2>2 DEF Changes, s
  <1> QED
    BY <1>15
-----------------------------------------------------------------------------
(* Closing a stream takes from the contract exactly what the stream owes,    *)
(* and the recipient gets its part of it.                                    *)
LEMMA CloseOutEffect ==
    ASSUME ContractInv, NEW id \in DOMAIN streams, Live(streams[id]),
           NEW n, Payable(streams[id], n), CloseOut(id, n)
    PROVE  LET s == streams[id]
           IN  /\ RemoveStream(id) /\ nonces' = nonces /\ Book(id, s.token)
               /\ Income(s.token) = 0 - Owed(s) /\ Owed(s) \in Nat
               /\ OthersStand(s.token)
               /\ bal'[s.token][s.recipient] >= bal[s.token][s.recipient] + n
  <1> DEFINE s == streams[id]
             rest == Refund(s, n)
             served == PayOut(bal, s.token, s.recipient, n)
             closed == PayOut(served, s.token, s.sender, rest)
  <1>1. /\ bal' = closed /\ RemoveStream(id) /\ Book(id, s.token) /\ nonces' = nonces
    BY DEF CloseOut
  <1>2. /\ s \in Streams /\ s.token \in Tokens /\ s.sender \in Users
        /\ s.recipient \in Users /\ bal \in Balances /\ bal[s.token][Contract] \in Nat
    BY Basics
  <1>3. /\ n \in Nat /\ rest \in Nat /\ rest = s.deposit - s.total_withdrawn - n
        /\ s.deposit \in Nat /\ s.total_withdrawn \in Nat
        /\ Owed(s) = s.deposit - s.total_withdrawn
    BY <1>2, RefundIsRest, StreamFields DEF Payable, Owed
  <1> HIDE DEF s, rest
  <1>4. /\ Loan(served, s.token)
        /\ served[s.token][Contract] = bal[s.token][Contract] - n
        /\ served[s.token][s.recipient] = bal[s.token][s.recipient] + n
        /\ \A t \in Tokens \ {s.token} : served[t][Contract] = bal[t][Contract]
    <2>1. Loan(bal, s.token)
      BY <1>2, BalancesAreLoan
    <2>2. /\ Loan(served, s.token)
          /\ served[s.token][Contract] = bal[s.token][Contract] - n
      BY <1>2, <1>3, <2>1, PayOutCosts, ZenonT(60)
    <2> HIDE DEF served
    <2>3. /\ served[s.token][s.recipient] = bal[s.token][s.recipient] + n
          /\ \A t \in Tokens \ {s.token} : served[t][Contract] = bal[t][Contract]
      BY <1>2, <1>3, <2>1, PayOutPays, ContractApart DEF served
    <2> QED
      BY <2>2, <2>3
  <1> HIDE DEF served
  <1>5. /\ closed[s.token][Contract] = served[s.token][Contract] - rest
        /\ \A t \in Tokens \ {s.token} : closed[t][Contract] = served[t][Contract]
    BY <1>2, <1>3, <1>4, PayOutCosts, PayOutPays, ContractApart, SMTT(30)
  <1>6. closed[s.token][s.recipient] >= served[s.token][s.recipient]
    <2>1. served[s.token][s.recipient] \in Nat
      BY <1>2, <1>4, ContractApart DEF Loan
    <2>2. CASE s.recipient = s.sender
      BY <1>2, <1>3, <1>4, <2>1, <2>2, PayOutPays
    <2>3. CASE s.recipient # s.sender
      BY <1>2, <1>3, <1>4, <2>1, <2>3, PayOutPays, ContractApart
    <2> QED
      BY <2>2, <2>3
  <1> HIDE DEF closed
  <1>7. Income(s.token) = 0 - Owed(s) /\ Owed(s) \in Nat
    BY <1>1, <1>2, <1>3, <1>4, <1>5 DEF Income
  <1>8. OthersStand(s.token)
    BY <1>1, <1>4, <1>5 DEF OthersStand
  <1>9. bal'[s.token][s.recipient] >= bal[s.token][s.recipient] + n
    BY <1>1, <1>4, <1>6
  <1> QED
    BY <1>1, <1>7, <1>8, <1>9 DEF s

LEMMA CancelEffect ==
    ASSUME ContractInv, NEW id \in DOMAIN streams, NEW caller, cancel_stream(id, caller)
    PROVE  Closes(id)
  <1> DEFINE s == streams[id]
             n == compute_earned(s.flow_rate, StreamClock(s), s.end_time, s.last_withdraw_time)
  <1>1. Live(s) /\ CloseOut(id, n)
    BY DEF cancel_stream
  <1>2. s \in Streams /\ ScheduleSound(s) /\ now \in Nat
    BY <1>1, Basics DEF GoodStream
  <1>3. Payable(s, n)
    BY <1>2, EarnedPayable
  <1>4. n = EarnedAt(s, now)
    BY <1>2, EarnedIs
  <1> HIDE DEF n
  <1>5. /\ RemoveStream(id) /\ nonces' = nonces /\ Book(id, s.token)
        /\ Income(s.token) = 0 - Owed(s) /\ Owed(s) \in Nat
        /\ OthersStand(s.token)
        /\ bal'[s.token][s.recipient] >= bal[s.token][s.recipient] + n
    BY <1>1, <1>3, CloseOutEffect
  <1>6. Income(s.token) <= 0 /\ Income(s.token) >= 0 - Owed(s)
    BY <1>5
  <1>7. BooksLive(id) /\ PaysEarned(id)
    BY <1>1, <1>4, <1>5 DEF BooksLive, PaysEarned
  <1> QED
    BY <1>1, <1>5, <1>6, <1>7 DEF Closes

LEMMA TerminateEffect ==
    ASSUME ContractInv, NEW id \in DOMAIN streams, recipient_terminate(id)
    PROVE  Closes(id)
  <1> DEFINE s == streams[id]
             n == Claimable(s, StreamClock(s))
  <1>1. NotPaused /\ Live(s) /\ CloseOut(id, n)
    BY DEF recipient_terminate
  <1>2. s \in Streams /\ ScheduleSound(s) /\ now \in Nat
    BY <1>1, Basics DEF GoodStream
  <1>3. Payable(s, n)
    BY <1>2, ClaimablePayable
  <1> HIDE DEF n
  <1>4. /\ RemoveStream(id) /\ nonces' = nonces /\ Book(id, s.token)
        /\ Income(s.token) = 0 - Owed(s) /\ Owed(s) \in Nat
        /\ OthersStand(s.token)
    BY <1>1, <1>3, CloseOutEffect
  <1>5. Income(s.token) >= 0 - Owed(s)
    BY <1>4
  <1>6. BooksLive(id) /\ PaysEarned(id)
    BY <1>1, <1>4 DEF BooksLive, PaysEarned, RecipientNext
  <1> QED
    BY <1>1, <1>4, <1>5, <1>6 DEF Closes

(* A live stream that may be archived has paid out all that ever flows.      *)
LEMMA ArchivableIsEarned ==
    ASSUME NEW s \in Streams, ScheduleSound(s), now \in Nat,
           Saturated(s.total_withdrawn + Dust(s)) >= s.deposit
    PROVE  EarnedAt(s, now) = 0 /\ ~(StreamClock(s) < s.end_time)
  <1> DEFINE eff == effective_now(StreamClock(s), s.end_time)
  <1>1. PICK w \in Nat : w = s.flow_rate * (s.end_time - s.start_time)
    BY EarnedFits
  <1>2. PICK e \in Nat : e = s.flow_rate * (eff - s.last_withdraw_time)
    BY EarnedFits
  <1>3. PICK f \in Nat : f = s.flow_rate * (eff - s.start_time)
    BY EarnedFits
  <1>4. s.total_withdrawn + e <= f /\ f <= w /\ w <= s.deposit
    BY <1>1, <1>2, <1>3, EarnedFits
  <1>5. Dust(s) = s.deposit - w
    BY <1>1, DustIsRest
  <1>6. /\ s.total_withdrawn \in Nat /\ s.deposit \in Nat /\ s.deposit <= I128_MAX
        /\ I128_MAX \in Nat
    BY StreamFields
  <1>7. Saturated(s.total_withdrawn + Dust(s)) = s.total_withdrawn + (s.deposit - w)
    BY <1>4, <1>5, <1>6 DEF Saturated
  <1>8. s.total_withdrawn = w /\ e = 0 /\ f = w
    BY <1>4, <1>6, <1>7
  <1>9. EarnedAt(s, now) = 0
    BY <1>2, <1>8, EarnedIs
  <1>10. ASSUME StreamClock(s) < s.end_time PROVE FALSE
    <2>1. /\ eff = StreamClock(s) /\ eff \in Nat /\ eff < s.end_time /\ s.start_time <= eff
          /\ s.start_time \in Nat /\ s.end_time \in Nat /\ s.flow_rate \in Nat \ {0}
      BY <1>10, EarnedFits, StreamFields DEF effective_now
    <2> HIDE DEF eff
    <2>2. s.flow_rate * (s.end_time - eff)
            = s.flow_rate * (s.end_time - s.start_time) - s.flow_rate * (eff - s.start_time)
      BY <2>1, FlowDifference
    <2>3. s.flow_rate * (s.end_time - eff) = 0
      BY <1>1, <1>3, <1>8, <2>2 DEF eff
    <2>4. s.flow_rate * 1 <= s.flow_rate * (s.end_time - eff)
      <3>1. 1 <= s.end_time - eff /\ s.end_time - eff \in Nat
        BY <2>1
      <3> QED
        BY <2>1, <3>1, FlowOrder
    <2> QED
      BY <2>1, <2>3, <2>4
  <1> QED
    BY <1>9, <1>10

(* A stream cannot be archived at the ledger time at which it started.       *)
LEMMA YoungIsKept ==
    ASSUME NEW s \in Streams, Young(s)
    PROVE  ~(Saturated(s.total_withdrawn + Dust(s)) >= s.deposit)
  <1>1. /\ s.deposit \in 1..I128_MAX /\ s.flow_rate \in Nat \ {0} /\ s.total_withdrawn = 0
        /\ s.start_time \in Nat /\ s.end_time \in Nat /\ s.start_time < s.end_time
        /\ I128_MAX \in Nat
    BY StreamFields DEF Young, Streams
  <1> DEFINE span == saturating_sub(s.end_time, s.start_time)
             flow == s.flow_rate * span
  <1>2. span = s.end_time - s.start_time
    BY <1>1 DEF saturating_sub
  <1>3. span \in Nat /\ 1 <= span
    BY <1>1, <1>2
  <1> HIDE DEF span
  <1>4. flow \in Nat /\ s.flow_rate * 1 <= flow
    BY <1>1, <1>3, FlowOrder
  <1>5. flow \in Nat /\ flow >= 1
    BY <1>1, <1>4
  <1> HIDE DEF flow
  <1>6. Saturated(flow) \in Nat /\ Saturated(flow) >= 1
    BY <1>1, <1>5 DEF Saturated
  <1>7. Dust(s) = Saturated(s.deposit - Saturated(flow)) \/ Dust(s) = Saturated(s.deposit - flow)
    BY DEF Dust, flow, span
  <1>8. Dust(s) \in Int /\ Dust(s) < s.deposit
    BY <1>1, <1>5, <1>6, <1>7 DEF Saturated
  <1> QED
    BY <1>1, <1>8 DEF Saturated

LEMMA ArchiveEffect ==
    ASSUME ContractInv, NEW id \in DOMAIN streams, archive_stream(id)
    PROVE  Closes(id)
  <1> DEFINE s == streams[id]
  <1>1. /\ Saturated(s.total_withdrawn + Dust(s)) >= s.deposit
        /\ RemoveStream(id) /\ UNCHANGED <<bal, nonces, escrow>>
    BY DEF archive_stream
  <1>2. /\ s \in Streams /\ GoodStream(s) /\ now \in Nat /\ s.token \in Tokens
        /\ s.recipient \in Users /\ bal \in Balances /\ Owed(s) \in Nat
        /\ bal[s.token][Contract] \in Nat
    BY Basics, OwedIsAmount
  <1>3. Live(s) => EarnedAt(s, now) = 0 /\ ~(StreamClock(s) < s.end_time)
    BY <1>1, <1>2, ArchivableIsEarned DEF GoodStream
  <1>4. bal[s.token][s.recipient] \in Nat
    BY <1>2, ContractApart DEF Balances
  <1>5. BooksLive(id) /\ OthersStand(s.token)
    BY <1>1 DEF BooksLive, OthersStand
  <1>6. Income(s.token) = 0
    BY <1>1, <1>2 DEF Income
  <1>7. PaysEarned(id)
    BY <1>1, <1>3, <1>4 DEF PaysEarned
  <1>8. Income(s.token) <= 0 /\ Income(s.token) >= 0 - Owed(s)
    BY <1>2, <1>6
  <1>9. ~Young(s)
    BY <1>1, <1>2, YoungIsKept
  <1> QED
    BY <1>1, <1>3, <1>5, <1>7, <1>8, <1>9 DEF Closes
-----------------------------------------------------------------------------
LEMMA TopUpEffect ==
    ASSUME ContractInv, NEW id \in DOMAIN streams, NEW caller \in Users,
           NEW token \in Tokens, NEW amount \in TopUps, top_up(id, caller, token, amount)
    PROVE  \E r : Changes(id, r)
  <1> DEFINE s == streams[id]
             m == amount - (amount % s.flow_rate)
             x == m \div s.flow_rate
             topped == [s EXCEPT !.end_time = @ + x, !.deposit = @ + m]
  <1>1. /\ NotPaused /\ s.token = token /\ Live(s) /\ amount > 0 /\ m > 0
        /\ CanPay(bal, token, caller, m)
        /\ s.end_time + x <= U64_MAX /\ s.deposit + m \in I128
        /\ bal' = Move(bal, token, caller, Contract, m)
        /\ SaveStream(id, topped) /\ Book(id, token)
        /\ UNCHANGED <<nonces, indexVars>>
    BY DEF top_up
  <1>2. /\ s \in Streams /\ ScheduleSound(s) /\ GoodStream(s) /\ now \in Nat
        /\ Owed(s) \in Nat /\ bal \in Balances /\ bal[token][Contract] \in Nat
        /\ s.recipient \in Users
    BY <1>1, Basics, OwedIsAmount DEF GoodStream
  <1>3. /\ s.flow_rate \in Nat \ {0} /\ amount \in Nat /\ s.end_time \in Nat
        /\ s.cliff_time \in Nat /\ s.last_withdraw_time \in Nat
    BY <1>1, <1>2, StreamInputs, StreamFields DEF I128
  <1>4. m \in Nat
    <2>1. amount % s.flow_rate \in Int
      BY <1>3
    <2> QED
      BY <1>1, <1>3, <2>1
  <1> HIDE DEF m
  <1>5. x \in Nat /\ s.flow_rate * x <= m
    BY <1>3, <1>4, DivisionRoundsDown
  <1>6. s.deposit + m <= I128_MAX
    BY <1>1, WidthAssumption DEF I128
  <1> HIDE DEF x, s
  <1>7. GoodStream(topped) /\ Owed(topped) = Owed(s) + m
    BY <1>1, <1>2, <1>4, <1>5, <1>6, ToppedGood
  <1>8. /\ topped \in Streams
        /\ topped.status = s.status /\ topped.last_pause_time = s.last_pause_time
        /\ topped.sender = s.sender /\ topped.token = s.token
        /\ topped.recipient = s.recipient /\ topped.cliff_time = s.cliff_time
        /\ topped.end_time = s.end_time + x /\ topped.flow_rate = s.flow_rate
        /\ topped.last_withdraw_time = s.last_withdraw_time
        /\ topped.start_time = s.start_time /\ topped.total_withdrawn = s.total_withdrawn
    BY <1>2, <1>7 DEF GoodStream, Streams
  <1> HIDE DEF topped
  <1>9. /\ bal'[token][Contract] = bal[token][Contract] + m
        /\ \A t \in Tokens \ {token} : bal'[t][Contract] = bal[t][Contract]
    BY <1>1, <1>2, <1>4, UserPays, ContractApart
  <1>10. Income(s.token) >= Owed(topped) - Owed(s) /\ OthersStand(s.token)
    BY <1>1, <1>2, <1>4, <1>7, <1>9 DEF Income, OthersStand
  <1>11. Live(topped) /\ EarnedAt(topped, now) >= EarnedAt(s, now)
    <2>1. Live(topped) /\ ScheduleSound(topped) /\ StreamClock(topped) = StreamClock(s)
      BY <1>1, <1>7, <1>8 DEF Live, StreamClock, GoodStream
    <2>2. StreamClock(s) \in Nat
      BY <1>2, EarnedFits
    <2>3. effective_now(StreamClock(topped), topped.end_time) - topped.last_withdraw_time
            >= effective_now(StreamClock(s), s.end_time) - s.last_withdraw_time
      BY <1>3, <1>5, <1>8, <2>1, <2>2 DEF effective_now
    <2> QED
      BY <1>2, <1>8, <2>1, <2>3, EarnedGrows
  <1>12. CountsQuoted(id, topped) /\ KeepsEarned(id, topped)
    <2>1. ~(s.last_withdraw_time > s.last_withdraw_time)
      BY <1>3
    <2> QED
      BY <1>8, <1>11, <2>1 DEF CountsQuoted, KeepsEarned, s
  <1>13. Relists(id, s, topped) /\ BooksLive(id)
    BY <1>1, <1>8 DEF Relists, BooksLive, s
  <1>14. s.cliff_time <= s.end_time => topped.cliff_time <= topped.end_time
    BY <1>3, <1>5, <1>8
  <1>15. ~(s.status = "Paused" /\ topped.status = "Active")
    BY <1>8
  <1>17. Young(s) => Young(topped)
    BY <1>2, <1>3, <1>5, <1>8, StreamFields DEF Young
  <1>16. Changes(id, topped)
    BY <1>1, <1>2, <1>7, <1>8, <1>10, <1>12, <1>13, <1>14, <1>15, <1>17 DEF Changes, s
  <1> QED
    BY <1>16

(* An operation that moves no tokens.                                        *)
LEMMA QuietEffect ==
    ASSUME ContractInv, NEW id \in DOMAIN streams, NEW r, GoodStream(r),
           Owed(r) = Owed(streams[id]), Live(r) => Live(streams[id]),
           SaveStream(id, r), UNCHANGED <<bal, nonces, indexVars, escrow>>,
           NotPaused \/ r = [streams[id] EXCEPT !.auto_renew = FALSE],
           r.sender = streams[id].sender, r.token = streams[id].token,
           r.recipient = streams[id].recipient,
           CountsQuoted(id, r), KeepsEarned(id, r), Young(streams[id]) => Young(r),
           streams[id].status = "Paused" /\ r.status = "Active" => r = Resumed(streams[id]),
           streams[id].cliff_time <= streams[id].end_time => r.cliff_time <= r.end_time
    PROVE  Changes(id, r)
  <1> DEFINE s == streams[id]
  <1>1. s.token \in Tokens /\ s.recipient \in Users /\ bal[s.token][Contract] \in Nat
    BY Basics
  <1>2. Owed(r) \in Nat
    BY Basics, OwedIsAmount
  <1>3. Income(s.token) >= Owed(r) - Owed(s)
    BY <1>1, <1>2 DEF Income
  <1> QED
    BY <1>1, <1>3 DEF Changes, OthersStand, Relists, BooksLive

LEMMA PauseEffect ==
    ASSUME ContractInv, NEW id \in DOMAIN streams, pause_stream(id)
    PROVE  \E r : Changes(id, r)
  <1> DEFINE s == streams[id]
             p == [s EXCEPT !.status = "Paused", !.last_pause_time = now]
  <1>1. /\ NotPaused /\ s.status = "Active" /\ SaveStream(id, p)
        /\ UNCHANGED <<bal, nonces, indexVars, escrow>>
    BY DEF pause_stream
  <1>2. s \in Streams /\ GoodStream(s) /\ Live(s) /\ ScheduleSound(s) /\ now \in Nat
        /\ now \in U64
    BY <1>1, Basics DEF GoodStream, Live
  <1>3. GoodStream(p) /\ Owed(p) = Owed(s)
    BY <1>1, <1>2, PausedGood
  <1>4. /\ p \in Streams /\ p.status = "Paused" /\ p.last_pause_time = now
        /\ p.sender = s.sender /\ p.token = s.token /\ p.recipient = s.recipient
        /\ p.cliff_time = s.cliff_time /\ p.end_time = s.end_time
        /\ p.flow_rate = s.flow_rate /\ p.last_withdraw_time = s.last_withdraw_time
        /\ p.start_time = s.start_time /\ p.total_withdrawn = s.total_withdrawn
    BY <1>2 DEF Streams, U64
  <1> HIDE DEF p
  <1>5. Live(p) /\ ScheduleSound(p) /\ StreamClock(p) = StreamClock(s)
    BY <1>1, <1>3, <1>4 DEF Live, StreamClock, GoodStream
  <1>6. s.last_withdraw_time \in Nat
    BY <1>2, StreamFields
  <1>7. EarnedAt(p, now) >= EarnedAt(s, now)
    <2>1. effective_now(StreamClock(s), s.end_time) \in Nat
      BY <1>2, EarnedFits
    <2>2. effective_now(StreamClock(p), p.end_time) - p.last_withdraw_time
            >= effective_now(StreamClock(s), s.end_time) - s.last_withdraw_time
      BY <1>4, <1>5, <1>6, <2>1
    <2> QED
      BY <1>2, <1>4, <1>5, <2>2, EarnedGrows
  <1>8. CountsQuoted(id, p) /\ KeepsEarned(id, p)
    BY <1>4, <1>5, <1>6, <1>7 DEF CountsQuoted, KeepsEarned
  <1>10. Young(s) => Young(p)
    BY <1>4 DEF Young
  <1>9. Changes(id, p)
    BY <1>1, <1>2, <1>3, <1>4, <1>8, <1>10, QuietEffect
  <1> QED
    BY <1>9

(* Resuming moves every time by the length of the pause.                     *)
LEMMA ResumedTimes ==
    ASSUME NEW s \in Streams, GoodStream(s), s.status = "Paused", now \in U64
    PROVE  LET r   == Resumed(s)
               gap == now - s.last_pause_time
           IN  /\ r \in Streams /\ ScheduleSound(r) /\ r.status = "Active"
               /\ r.sender = s.sender /\ r.token = s.token /\ r.recipient = s.recipient
               /\ r.flow_rate = s.flow_rate
               /\ gap \in Nat
               /\ r.start_time = s.start_time + gap
               /\ r.total_withdrawn = s.total_withdrawn
               /\ r.last_withdraw_time = s.last_withdraw_time + gap
               /\ r.end_time = IF s.end_time + gap <= U64_MAX THEN s.end_time + gap ELSE U64_MAX
               /\ r.cliff_time = IF s.cliff_time + gap <= U64_MAX
                                 THEN s.cliff_time + gap ELSE U64_MAX
               /\ EarnedAt(r, now) = EarnedAt(s, now)
  <1> DEFINE r == Resumed(s)
  <1>1. /\ now \in Nat /\ now <= U64_MAX /\ U64_MAX \in Nat
        /\ s.last_pause_time \in Nat /\ s.last_withdraw_time \in Nat /\ s.start_time \in Nat
        /\ s.end_time \in Nat /\ s.cliff_time \in Nat
    BY StreamFields, WidthAssumption DEF U64
  <1>2. ScheduleSound(s) /\ StreamClock(s) = s.last_pause_time
    BY DEF GoodStream, Live, StreamClock
  <1>3. /\ s.last_pause_time <= now
        /\ s.start_time <= s.last_withdraw_time
        /\ s.last_withdraw_time <= s.last_pause_time
        /\ s.last_withdraw_time <= s.end_time
    BY <1>1, <1>2 DEF ScheduleSound, effective_now
  <1>4. PICK gap \in Nat : gap = now - s.last_pause_time
    BY <1>1, <1>3
  <1>5. saturating_sub(now, s.last_pause_time) = gap
    BY <1>1, <1>3, <1>4 DEF saturating_sub
  <1>6. /\ Postponed(s, s.last_withdraw_time) = s.last_withdraw_time + gap
        /\ Postponed(s, s.start_time) = s.start_time + gap
        /\ Postponed(s, s.end_time)
             = IF s.end_time + gap <= U64_MAX THEN s.end_time + gap ELSE U64_MAX
        /\ Postponed(s, s.cliff_time)
             = IF s.cliff_time + gap <= U64_MAX THEN s.cliff_time + gap ELSE U64_MAX
    BY <1>1, <1>3, <1>4, <1>5 DEF Postponed, saturating_add
  <1>7. GoodStream(r)
    BY ResumedGood
  <1>8. /\ r \in Streams /\ r.status = "Active"
        /\ r.sender = s.sender /\ r.token = s.token /\ r.recipient = s.recipient
        /\ r.flow_rate = s.flow_rate /\ r.total_withdrawn = s.total_withdrawn
        /\ r.start_time = Postponed(s, s.start_time)
        /\ r.last_withdraw_time = Postponed(s, s.last_withdraw_time)
        /\ r.end_time = Postponed(s, s.end_time)
        /\ r.cliff_time = Postponed(s, s.cliff_time)
    BY <1>7 DEF GoodStream, Resumed, Streams
  <1>9. ScheduleSound(r) /\ StreamClock(r) = now
    BY <1>7, <1>8 DEF GoodStream, Live, StreamClock
  <1> HIDE DEF r
  <1>10. effective_now(StreamClock(r), r.end_time) - r.last_withdraw_time
           = effective_now(StreamClock(s), s.end_time) - s.last_withdraw_time
    BY <1>1, <1>2, <1>3, <1>4, <1>6, <1>8, <1>9 DEF effective_now
  <1>11. EarnedAt(r, now) = EarnedAt(s, now)
    BY <1>1, <1>2, <1>8, <1>9, <1>10, EarnedIs
  <1> QED
    BY <1>4, <1>6, <1>8, <1>9, <1>11 DEF r

LEMMA ResumeEffect ==
    ASSUME ContractInv, NEW id \in DOMAIN streams, resume_stream(id)
    PROVE  \E r : Changes(id, r)
  <1> DEFINE s == streams[id]
             r == Resumed(s)
             gap == now - s.last_pause_time
  <1>1. /\ NotPaused /\ s.status = "Paused" /\ SaveStream(id, r)
        /\ UNCHANGED <<bal, nonces, indexVars, escrow>>
    BY DEF resume_stream, Resumed, Postponed
  <1>2. s \in Streams /\ GoodStream(s) /\ now \in U64 /\ now \in Nat /\ Live(s)
    BY <1>1, Basics DEF Live
  <1>3. GoodStream(r) /\ Owed(r) = Owed(s)
    BY <1>1, <1>2, ResumedGood
  <1>4. /\ r.status = "Active"
        /\ r.sender = s.sender /\ r.token = s.token /\ r.recipient = s.recipient
        /\ gap \in Nat
        /\ r.start_time = s.start_time + gap
        /\ r.total_withdrawn = s.total_withdrawn
        /\ r.last_withdraw_time = s.last_withdraw_time + gap
        /\ r.end_time = IF s.end_time + gap <= U64_MAX THEN s.end_time + gap ELSE U64_MAX
        /\ r.cliff_time = IF s.cliff_time + gap <= U64_MAX THEN s.cliff_time + gap ELSE U64_MAX
        /\ EarnedAt(r, now) = EarnedAt(s, now)
    BY <1>1, <1>2, ResumedTimes
  <1>5. /\ s.start_time \in Nat /\ s.last_withdraw_time \in Nat /\ s.end_time \in Nat
        /\ s.cliff_time \in Nat /\ U64_MAX \in Nat
    BY <1>2, StreamFields
  <1>6. Live(r) /\ EarnedAt(s, now) \in Nat
    BY <1>2, <1>4, EarnedIs DEF Live, GoodStream
  <1>11. Young(s) => gap = 0
    <2>1. ScheduleSound(s)
      BY <1>2 DEF GoodStream
    <2> QED
      BY <1>1, <1>2, <2>1, YoungEarnsNothing DEF StreamClock
  <1> HIDE DEF r, gap
  <1>12. Young(s) => Young(r)
    <2>1. s.end_time <= U64_MAX
      BY <1>2 DEF Streams, U64
    <2> QED
      BY <1>4, <1>5, <1>11, <2>1 DEF Young
  <1>7. CountsQuoted(id, r)
    BY <1>4, <1>5 DEF CountsQuoted
  <1>8. KeepsEarned(id, r)
    BY <1>4, <1>6 DEF KeepsEarned
  <1>9. s.cliff_time <= s.end_time => r.cliff_time <= r.end_time
    BY <1>4, <1>5
  <1>10. Changes(id, r)
    BY <1>1, <1>2, <1>3, <1>4, <1>7, <1>8, <1>9, <1>12, QuietEffect DEF r
  <1> QED
    BY <1>10

LEMMA CancelRenewEffect ==
    ASSUME ContractInv, NEW id \in DOMAIN streams, cancel_auto_renew(id)
    PROVE  \E r : Changes(id, r)
  <1> DEFINE s == streams[id]
             r == [s EXCEPT !.auto_renew = FALSE]
  <1>1. SaveStream(id, r) /\ UNCHANGED <<bal, nonces, indexVars, escrow>>
    BY DEF cancel_auto_renew
  <1>2. s \in Streams /\ GoodStream(s) /\ now \in Nat
    BY Basics
  <1>3. /\ r \in Streams
        /\ r.status = s.status /\ r.last_pause_time = s.last_pause_time
        /\ r.deposit = s.deposit /\ r.flow_rate = s.flow_rate
        /\ r.start_time = s.start_time /\ r.end_time = s.end_time
        /\ r.last_withdraw_time = s.last_withdraw_time
        /\ r.total_withdrawn = s.total_withdrawn
        /\ r.sender = s.sender /\ r.token = s.token /\ r.recipient = s.recipient
        /\ r.cliff_time = s.cliff_time
    BY <1>2 DEF Streams
  <1>4. r = [streams[id] EXCEPT !.auto_renew = FALSE]
    OBVIOUS
  <1> HIDE DEF r
  <1>5. GoodStream(r) /\ Owed(r) = Owed(s)
    BY <1>2, <1>3, SameSchedule
  <1>6. Live(r) = Live(s) /\ EarnedAt(r, now) = EarnedAt(s, now)
    BY <1>3 DEF Live, EarnedAt
  <1>7. Live(s) => EarnedAt(s, now) \in Nat
    BY <1>2, EarnedIs DEF GoodStream
  <1>8. s.last_withdraw_time \in Nat
    BY <1>2, StreamFields
  <1>9. CountsQuoted(id, r) /\ KeepsEarned(id, r)
    BY <1>3, <1>6, <1>7, <1>8 DEF CountsQuoted, KeepsEarned
  <1>11. Young(s) => Young(r)
    BY <1>3 DEF Young
  <1>10. Changes(id, r)
    BY <1>1, <1>2, <1>3, <1>4, <1>5, <1>6, <1>9, <1>11, QuietEffect
  <1> QED
    BY <1>10
-----------------------------------------------------------------------------
(* A split pays the recipient what it has earned, and more when the stream   *)
(* is past its end, where the time that counts is not capped.                *)
LEMMA SplitPaysEarned ==
    ASSUME NEW s \in Streams, ScheduleSound(s), now \in Nat,
           Checked(s.flow_rate * saturating_sub(StreamClock(s), s.last_withdraw_time)) # None
    PROVE  Checked(s.flow_rate * saturating_sub(StreamClock(s), s.last_withdraw_time))
             >= EarnedAt(s, now)
  <1> DEFINE t == StreamClock(s)
             eff == effective_now(t, s.end_time)
  <1>1. /\ eff \in Nat /\ t \in Nat /\ s.last_withdraw_time \in Nat /\ s.flow_rate \in Nat
        /\ s.last_withdraw_time <= eff /\ eff <= t
    BY EarnedFits, StreamFields
  <1>2. EarnedAt(s, now) = s.flow_rate * (eff - s.last_withdraw_time)
    BY EarnedIs
  <1>3. Checked(s.flow_rate * saturating_sub(t, s.last_withdraw_time))
          = s.flow_rate * saturating_sub(t, s.last_withdraw_time)
    BY DEF Checked
  <1> HIDE DEF t, eff
  <1>4. saturating_sub(t, s.last_withdraw_time) = t - s.last_withdraw_time
    BY <1>1 DEF saturating_sub
  <1>5. /\ t - s.last_withdraw_time \in Nat /\ eff - s.last_withdraw_time \in Nat
        /\ eff - s.last_withdraw_time <= t - s.last_withdraw_time
    BY <1>1
  <1>6. /\ s.flow_rate * (eff - s.last_withdraw_time) <= s.flow_rate * (t - s.last_withdraw_time)
        /\ s.flow_rate * (eff - s.last_withdraw_time) \in Nat
        /\ s.flow_rate * (t - s.last_withdraw_time) \in Nat
    BY <1>1, <1>5, FlowOrder
  <1> QED
    BY <1>2, <1>3, <1>4, <1>6 DEF t

LEMMA SplitEffect ==
    ASSUME ContractInv, NEW id \in DOMAIN streams, NEW caller \in Users,
           NEW cancel \in CancelAmounts, partial_cancel_stream(id, caller, cancel)
    PROVE  \E new, r : Divides(id, new, r)
  <1> DEFINE s == streams[id]
             t == StreamClock(s)
             earned == Checked(s.flow_rate * saturating_sub(t, s.last_withdraw_time))
             rest == Remaining(s, t) - cancel
             new_id == derive_stream_id(s.sender, s.recipient, t, id)
             split == SplitOff(s, t, rest)
             served == PayOut(bal, s.token, s.recipient, earned)
             paid == PayOut(served, s.token, s.sender, cancel)
  <1>1. /\ Live(s) /\ cancel > 0 /\ earned # None /\ StreamedBy(s, t) # None
        /\ cancel < Remaining(s, t) /\ rest >= s.flow_rate
        /\ t + rest \div s.flow_rate <= U64_MAX
        /\ bal' = paid
    BY DEF partial_cancel_stream, PayOut
  <1>2. /\ streams' = Put(Put(streams, id, [s EXCEPT !.status = "Cancelled"]), new_id, split)
        /\ IndexStream(new_id, s) /\ nonces' = nonces
        /\ escrow' = Credit(Credit(escrow, id, Income(s.token) - rest), new_id, rest)
    BY DEF partial_cancel_stream, SplitOff
  <1>3. /\ s \in Streams /\ ScheduleSound(s) /\ GoodStream(s) /\ now \in Nat
        /\ s.token \in Tokens /\ s.sender \in Users /\ s.recipient \in Users
        /\ Owed(s) \in Nat /\ bal \in Balances /\ bal[s.token][Contract] \in Nat
        /\ bal[s.token][s.recipient] \in Nat
    BY <1>1, Basics, OwedIsAmount, ContractApart DEF GoodStream, Balances
  <1>4. cancel \in Nat \ {0}
    BY <1>1, StreamInputs DEF I128
  <1>5. /\ earned \in Nat /\ rest \in Nat /\ rest <= I128_MAX
        /\ earned + cancel + rest <= Owed(s)
    BY <1>1, <1>3, <1>4, SplitAmounts
  <1>6. earned >= EarnedAt(s, now) /\ EarnedAt(s, now) \in Nat
    BY <1>1, <1>3, SplitPaysEarned, EarnedIs
  <1>7. GoodStream(split) /\ Owed(split) = rest
    <2> HIDE DEF rest
    <2> QED
      BY <1>1, <1>3, <1>5, SplitGood
  <1>8. /\ split.sender = s.sender /\ split.recipient = s.recipient /\ split.token = s.token
        /\ split.status = "Active" /\ split.cliff_time = t
        /\ split.end_time = t + rest \div s.flow_rate
        /\ split.start_time = t /\ split.total_withdrawn = 0
        /\ split.last_withdraw_time = t
    BY <1>3 DEF SplitOff, Streams
  <1>9. /\ split.cliff_time <= split.end_time /\ Live(split)
        /\ t = now => Young(split)
    <2>1. t \in Nat /\ s.flow_rate \in Nat \ {0}
      BY <1>3, EarnedFits, StreamFields
    <2>2. rest \div s.flow_rate \in Nat /\ rest \div s.flow_rate # 0
      <3>1. rest >= s.flow_rate
        BY <1>1
      <3> HIDE DEF rest
      <3>2. PICK d \in Nat \ {0} : d = s.flow_rate
        BY <2>1
      <3>3. rest \div d \in Nat
        BY <1>5, DivisionRoundsDown
      <3>4. rest >= d => rest \div d # 0
        BY <1>5, SMT
      <3> QED
        BY <3>1, <3>2, <3>3, <3>4
    <2> HIDE DEF t, rest, split
    <2> QED
      BY <1>8, <2>1, <2>2 DEF Live, Young
  <1> HIDE DEF s, earned, rest, split
  <1>10. /\ Loan(served, s.token)
         /\ served[s.token][Contract] = bal[s.token][Contract] - earned
         /\ served[s.token][s.recipient] = bal[s.token][s.recipient] + earned
         /\ \A u \in Tokens \ {s.token} : served[u][Contract] = bal[u][Contract]
    <2>1. Loan(bal, s.token)
      BY <1>3, BalancesAreLoan
    <2>2. Loan(served, s.token) /\ served[s.token][Contract] = bal[s.token][Contract] - earned
      BY <1>3, <1>5, <2>1, PayOutCosts
    <2>3. /\ served[s.token][s.recipient] = bal[s.token][s.recipient] + earned
          /\ \A u \in Tokens \ {s.token} : served[u][Contract] = bal[u][Contract]
      BY <1>3, <1>5, <2>1, PayOutPays, ContractApart
    <2> QED
      BY <2>2, <2>3
  <1> HIDE DEF served
  <1>11. /\ paid[s.token][Contract] = served[s.token][Contract] - cancel
         /\ \A u \in Tokens \ {s.token} : paid[u][Contract] = served[u][Contract]
    <2>1. paid[s.token][Contract] = served[s.token][Contract] - cancel
      <3>1. PICK token, to, b : token = s.token /\ to = s.sender /\ b = served
        OBVIOUS
      <3>2. /\ token \in Tokens /\ to \in Users /\ Loan(b, token) /\ cancel \in Nat
            /\ paid = PayOut(b, token, to, cancel)
        BY <1>3, <1>4, <1>10, <3>1
      <3>3. paid[token][Contract] = b[token][Contract] - cancel
        BY <3>2, PayOutCosts
      <3> QED
        BY <3>1, <3>3
    <2>2. \A u \in Tokens \ {s.token} : paid[u][Contract] = served[u][Contract]
      BY <1>3, <1>4, <1>10, PayOutPays, ContractApart
    <2> QED
      BY <2>1, <2>2
  <1>12. paid[s.token][s.recipient] >= served[s.token][s.recipient]
    <2>1. served[s.token][s.recipient] \in Nat
      BY <1>3, <1>10, ContractApart DEF Loan
    <2>2. CASE s.recipient = s.sender
      BY <1>3, <1>4, <1>10, <2>1, <2>2, PayOutPays
    <2>3. CASE s.recipient # s.sender
      BY <1>3, <1>4, <1>10, <2>1, <2>3, PayOutPays, ContractApart
    <2> QED
      BY <2>2, <2>3
  <1>13. Loan(paid, s.token)
    BY <1>3, <1>4, <1>10, PayOutCosts
  <1> HIDE DEF paid
  <1>14. Income(s.token) = 0 - earned - cancel
    BY <1>1, <1>3, <1>4, <1>5, <1>10, <1>11 DEF Income
  <1>15. Income(s.token) >= Owed(split) - Owed(s) /\ Income(s.token) <= 0
    BY <1>3, <1>4, <1>5, <1>7, <1>14
  <1>16. OthersStand(s.token)
    BY <1>1, <1>10, <1>11 DEF OthersStand
  <1>17. PaysEarned(id)
    <2>1. bal'[s.token][s.recipient] >= bal[s.token][s.recipient] + EarnedAt(s, now)
      <3>1. paid[s.token][s.recipient] \in Int
        BY <1>3, <1>11, <1>13, ContractApart DEF Loan
      <3> QED
        BY <1>1, <1>3, <1>5, <1>6, <1>10, <1>12, <3>1
    <2> QED
      BY <2>1 DEF PaysEarned, s
  <1>18. Divides(id, new_id, split)
    BY <1>1, <1>2, <1>7, <1>8, <1>9, <1>15, <1>16, <1>17 DEF Divides, s
  <1> QED
    BY <1>18

(* Every step on the streams works in one of these ways.                     *)
LEMMA StreamStepEffect ==
    ASSUME ContractInv, StreamNext
    PROVE  StreamEffect
  <1>1. CASE CreateNext
    BY <1>1, CreateOpens DEF CreateNext, StreamEffect
  <1>2. ASSUME NEW id \in DOMAIN streams, RecipientNext(id)
        PROVE  StreamEffect
    BY <1>2, WithdrawEffect, TerminateEffect, TransferEffect DEF RecipientNext, StreamEffect
  <1>3. ASSUME NEW id \in DOMAIN streams, SenderNext(id)
        PROVE  StreamEffect
    <2>1. ASSUME NEW operator, delegate(id, operator) PROVE Rests
      BY <2>1 DEF delegate, Rests
    <2>2. ASSUME revoke_delegate(id) PROVE Rests
      BY <2>2 DEF revoke_delegate, Rests
    <2> QED
      BY <1>3, <2>1, <2>2, CancelEffect, SplitEffect, TopUpEffect, PauseEffect, ResumeEffect,
         CancelRenewEffect DEF SenderNext, StreamEffect
  <1>4. ASSUME NEW id \in DOMAIN streams, archive_stream(id)
        PROVE  StreamEffect
    BY <1>4, ArchiveEffect DEF StreamEffect
  <1> QED
    BY <1>1, <1>2, <1>3, <1>4 DEF StreamNext
-----------------------------------------------------------------------------
(* Ids do not repeat, if no sender passes the id of a stream as its nonce:   *)
(* the last part of an id is a nonce its sender has used, or the id of a     *)
(* stream that was split, and a split stream never flows again.              *)
NoncesApart ==
    \A sender, recipient, start_time, nonce :
        derive_stream_id(sender, recipient, start_time, nonce) \notin Nonces

IdsInv ==
    /\ DOMAIN escrow \cap Nonces = {}
    /\ \A id \in DOMAIN escrow :
          \/ id[4] \in Nonces /\ <<id[1], id[4]>> \in nonces
          \/ id[4] \in DOMAIN escrow /\ id[4] \notin LiveIds

(* The cliff of a stream is not after its end.                               *)
CliffInv == \A id \in DOMAIN streams : streams[id].cliff_time <= streams[id].end_time

LEMMA IdParts ==
    ASSUME NEW sender, NEW recipient, NEW start_time, NEW nonce
    PROVE  LET id == derive_stream_id(sender, recipient, start_time, nonce)
           IN  id[1] = sender /\ id[4] = nonce
  BY DEF derive_stream_id

(* A created stream has an id that was never used, ...                       *)
LEMMA OpensFresh ==
    ASSUME IdsInv, NEW id, NEW s, Opens(id, s)
    PROVE  id \notin DOMAIN escrow
  <1>1. PICK nonce \in Nonces :
          /\ id = derive_stream_id(s.sender, s.recipient, now, nonce)
          /\ <<s.sender, nonce>> \notin nonces
    BY DEF Opens
  <1>2. id[1] = s.sender /\ id[4] = nonce
    BY <1>1, IdParts
  <1> QED
    BY <1>1, <1>2 DEF IdsInv

(* ... and so has what is split off.                                         *)
LEMMA SplitsFresh ==
    ASSUME ContractInv, IdsInv, NEW id, NEW new, NEW r, Divides(id, new, r)
    PROVE  new \notin DOMAIN escrow /\ id \in DOMAIN escrow
  <1>1. id \in LiveIds /\ id \in DOMAIN escrow
    BY Basics DEF Divides, LiveIds, AllGood
  <1>2. new[4] = id
    BY IdParts DEF Divides
  <1> QED
    BY <1>1, <1>2 DEF IdsInv

(* This is what the fate of the streams that a step finds rests on.          *)
SplitsApart == \A id, new, r : Divides(id, new, r) => new \notin DOMAIN escrow

LEMMA IdsApart ==
    ASSUME ContractInv, IdsInv
    PROVE  SplitsApart
  BY SplitsFresh DEF SplitsApart

(* What booking, storing and deleting change, entry by entry.               *)
LEMMA BookEffect ==
    ASSUME NEW id, NEW token, Book(id, token)
    PROVE  /\ DOMAIN escrow' = DOMAIN escrow \cup {id}
           /\ \A k \in DOMAIN escrow : k # id => escrow'[k] = escrow[k]
           /\ id \in DOMAIN escrow => escrow'[id] = Income(token) + escrow[id]
  <1> DEFINE n == Income(token)
  <1>1. escrow' = Credit(escrow, id, n)
    BY DEF Book
  <1> HIDE DEF n
  <1>2. /\ DOMAIN escrow' = DOMAIN escrow \cup {id}
        /\ \A k \in DOMAIN escrow : k # id => escrow'[k] = escrow[k]
        /\ id \in DOMAIN escrow => escrow'[id] = n + escrow[id]
    BY <1>1 DEF Credit, Put
  <1> QED
    BY <1>2 DEF n

LEMMA BookLiveEffect ==
    ASSUME NEW id \in DOMAIN escrow, BooksLive(id)
    PROVE  /\ DOMAIN escrow' = DOMAIN escrow
           /\ \A k \in DOMAIN escrow : k # id => escrow'[k] = escrow[k]
           /\ \/ Live(streams[id])
                 /\ escrow'[id] = Income(streams[id].token) + escrow[id]
              \/ UNCHANGED <<bal, escrow>>
  BY BookEffect DEF BooksLive

LEMMA SaveEffect ==
    ASSUME NEW id, NEW s, SaveStream(id, s)
    PROVE  /\ DOMAIN streams' = DOMAIN streams \cup {id}
           /\ streams'[id] = s
           /\ \A k \in DOMAIN streams : k # id => streams'[k] = streams[k]
  BY DEF SaveStream, Put

LEMMA RemoveEffect ==
    ASSUME NEW id, RemoveStream(id)
    PROVE  /\ DOMAIN streams' = DOMAIN streams \ {id}
           /\ \A k \in DOMAIN streams : k # id => streams'[k] = streams[k]
  BY DEF RemoveStream, Drop

(* A split keeps the closed stream, and stores and books the new one.        *)
Parted(id, new, r) ==
    /\ DOMAIN streams' = DOMAIN streams \cup {new}
    /\ streams'[id] = [streams[id] EXCEPT !.status = "Cancelled"]
    /\ ~Live(streams'[id])
    /\ streams'[new] = r
    /\ \A k \in DOMAIN streams : k # id /\ k # new => streams'[k] = streams[k]
    /\ DOMAIN escrow' = DOMAIN escrow \cup {new}
    /\ escrow'[id] = (Income(streams[id].token) - Owed(r)) + escrow[id]
    /\ \A k \in DOMAIN escrow : k # id /\ k # new => escrow'[k] = escrow[k]

LEMMA SplitParts ==
    ASSUME ContractInv, NEW id, NEW new, NEW r, Divides(id, new, r), new # id
    PROVE  Parted(id, new, r)
  <1> DEFINE closed == [streams[id] EXCEPT !.status = "Cancelled"]
             mid == Put(streams, id, closed)
             n == Income(streams[id].token) - Owed(r)
             owed == Owed(r)
             held == Credit(escrow, id, n)
  <1>1. id \in DOMAIN streams /\ id \in DOMAIN escrow /\ streams[id] \in Streams
    BY Basics DEF Divides, AllGood
  <1>2. closed.status = "Cancelled"
    BY <1>1 DEF Streams
  <1>3. streams' = Put(mid, new, r) /\ escrow' = Credit(held, new, owed)
    BY DEF Divides
  <1> HIDE DEF closed, n, owed
  <1>4. /\ DOMAIN mid = DOMAIN streams \cup {id} /\ mid[id] = closed
        /\ \A k \in DOMAIN streams : k # id => mid[k] = streams[k]
    BY DEF Put
  <1>5. /\ DOMAIN held = DOMAIN escrow \cup {id}
        /\ held[id] = n + escrow[id]
        /\ \A k \in DOMAIN escrow : k # id => held[k] = escrow[k]
    BY <1>1 DEF Credit, Put
  <1> HIDE DEF mid, held
  <1>6. /\ DOMAIN streams' = DOMAIN mid \cup {new} /\ streams'[new] = r
        /\ \A k \in DOMAIN mid : k # new => streams'[k] = mid[k]
    BY <1>3 DEF Put
  <1>7. /\ DOMAIN escrow' = DOMAIN held \cup {new}
        /\ \A k \in DOMAIN held : k # new => escrow'[k] = held[k]
    BY <1>3 DEF Credit, Put
  <1>8. streams'[id] = closed /\ ~Live(closed)
    BY <1>1, <1>2, <1>4, <1>6 DEF Live
  <1>9. /\ DOMAIN streams' = DOMAIN streams \cup {new}
        /\ \A k \in DOMAIN streams : k # id /\ k # new => streams'[k] = streams[k]
    BY <1>1, <1>4, <1>6
  <1>10. /\ DOMAIN escrow' = DOMAIN escrow \cup {new}
         /\ escrow'[id] = n + escrow[id]
         /\ \A k \in DOMAIN escrow : k # id /\ k # new => escrow'[k] = escrow[k]
    BY <1>1, <1>5, <1>7
  <1> QED
    BY <1>6, <1>8, <1>9, <1>10 DEF Parted, closed, n

(* The steps that are not steps on the streams.                              *)
LEMMA OtherSteps ==
    ASSUME ContractInv, [Next]_vars
    PROVE  \/ StreamNext /\ now' = now
           \/ /\ UNCHANGED streamVars
              /\ \A token \in Tokens : bal'[token][Contract] = bal[token][Contract]
              /\ now' \in Nat /\ now' >= now
              /\ bal' # bal => now' = now
  <1>1. CASE UNCHANGED bal /\ now' = now /\ UNCHANGED streamVars
    BY <1>1, Basics
  <1>2. CASE AdvanceTime /\ UNCHANGED streamVars
    BY <1>2, Basics DEF AdvanceTime
  <1>3. CASE WalletTransfer /\ UNCHANGED streamVars
    <2>1. PICK token \in Tokens, from \in Users, to \in Users, n \in WalletAmounts :
            /\ CanPay(bal, token, from, n)
            /\ bal' = Move(bal, token, from, to, n)
            /\ now' = now
      BY <1>3 DEF WalletTransfer
    <2>2. n \in Nat
      BY WalletAssumption
    <2>3. \A t \in Tokens : bal'[t][Contract] = bal[t][Contract]
      BY <2>1, <2>2, Basics, UserPays, ContractApart
    <2> QED
      BY <1>3, <2>1, <2>3, Basics
  <1> QED
    BY <1>1, <1>2, <1>3 DEF Next, vars, ledgerVars

LEMMA EffectKeepsIds ==
    ASSUME NoncesApart, ContractInv, IdsInv, StreamEffect
    PROVE  IdsInv'
  <1>1. \A id \in DOMAIN streams : id \in DOMAIN escrow
    BY Basics DEF AllGood
  <1>2. ASSUME DOMAIN escrow' = DOMAIN escrow, LiveIds' \subseteq LiveIds, nonces' = nonces
        PROVE  IdsInv'
    BY <1>2 DEF IdsInv
  <1>3. ASSUME NEW id, NEW s, Opens(id, s) PROVE IdsInv'
    <2>1. PICK nonce \in Nonces :
            /\ id = derive_stream_id(s.sender, s.recipient, now, nonce)
            /\ nonces' = nonces \cup {<<s.sender, nonce>>}
      BY <1>3 DEF Opens
    <2>2. id[1] = s.sender /\ id[4] = nonce /\ id \notin Nonces
      BY <2>1, IdParts DEF NoncesApart
    <2>3. id \notin DOMAIN escrow
      BY <1>3, OpensFresh
    <2>4. DOMAIN escrow' = DOMAIN escrow \cup {id}
      BY <1>3, BookEffect DEF Opens
    <2>5. LiveIds' \subseteq LiveIds \cup {id}
      BY <1>3, SaveEffect DEF Opens, LiveIds, Live
    <2>6. <<id[1], id[4]>> \in nonces' /\ nonces \subseteq nonces'
      BY <2>1, <2>2
    <2> QED
      BY <2>2, <2>3, <2>4, <2>5, <2>6 DEF IdsInv
  <1>4. ASSUME NEW id, NEW r, Changes(id, r) PROVE IdsInv'
    <2>1. DOMAIN escrow' = DOMAIN escrow
      <3>1. id \in DOMAIN escrow
        BY <1>1, <1>4 DEF Changes
      <3> QED
        BY <1>4, <3>1, BookLiveEffect DEF Changes
    <2>2. LiveIds' \subseteq LiveIds
      <3>1. id \in DOMAIN streams /\ SaveStream(id, r) /\ (Live(r) => Live(streams[id]))
        BY <1>4 DEF Changes
      <3>2. /\ DOMAIN streams' = DOMAIN streams /\ streams'[id] = r
            /\ \A k \in DOMAIN streams : k # id => streams'[k] = streams[k]
        BY <3>1, SaveEffect
      <3> QED
        BY <3>1, <3>2 DEF LiveIds, Live
    <2> QED
      BY <1>2, <1>4, <2>1, <2>2 DEF Changes
  <1>5. ASSUME NEW id, Closes(id) PROVE IdsInv'
    <2>1. DOMAIN escrow' = DOMAIN escrow
      <3>1. id \in DOMAIN escrow
        BY <1>1, <1>5 DEF Closes
      <3> QED
        BY <1>5, <3>1, BookLiveEffect DEF Closes
    <2>2. LiveIds' \subseteq LiveIds
      BY <1>5, RemoveEffect DEF Closes, LiveIds, Live
    <2> QED
      BY <1>2, <1>5, <2>1, <2>2 DEF Closes
  <1>6. ASSUME NEW id, NEW new, NEW r, Divides(id, new, r) PROVE IdsInv'
    <2>1. new[4] = id /\ new \notin Nonces
      BY <1>6, IdParts DEF Divides, NoncesApart
    <2>2. new \notin DOMAIN escrow /\ id \in DOMAIN escrow
      BY <1>6, SplitsFresh
    <2>3. DOMAIN escrow' = DOMAIN escrow \cup {new}
      <3>1. Parted(id, new, r)
        BY <1>6, <2>2, SplitParts
      <3> QED
        BY <3>1 DEF Parted
    <2>4. LiveIds' \subseteq (LiveIds \ {id}) \cup {new}
      <3>1. /\ DOMAIN streams' = DOMAIN streams \cup {new}
            /\ ~Live(streams'[id])
            /\ \A k \in DOMAIN streams : k # id /\ k # new => streams'[k] = streams[k]
        <4>1. Parted(id, new, r)
          BY <1>6, <2>2, SplitParts
        <4> QED
          BY <4>1 DEF Parted
      <3> QED
        BY <3>1 DEF LiveIds, Live
    <2>5. nonces' = nonces
      BY <1>6 DEF Divides
    <2> QED
      BY <2>1, <2>2, <2>3, <2>4, <2>5 DEF IdsInv
  <1>7. ASSUME Rests PROVE IdsInv'
    BY <1>2, <1>7 DEF Rests, LiveIds, Live
  <1> QED
    BY <1>3, <1>4, <1>5, <1>6, <1>7 DEF StreamEffect

LEMMA StepKeepsIds ==
    ASSUME NoncesApart, ContractInv, IdsInv, [Next]_vars
    PROVE  IdsInv'
  <1>1. CASE StreamNext
    BY <1>1, StreamStepEffect, EffectKeepsIds
  <1>2. CASE UNCHANGED streamVars
    BY <1>2 DEF streamVars, IdsInv, LiveIds, Live
  <1> QED
    BY <1>1, <1>2, OtherSteps

(* Whatever a split stores is the closed stream, the new one, or was there.  *)
LEMMA SplitStores ==
    ASSUME NEW id, NEW new, NEW r, Divides(id, new, r), NEW k \in DOMAIN streams'
    PROVE  \/ streams'[k] = r
           \/ k = id /\ streams'[k] = [streams[id] EXCEPT !.status = "Cancelled"]
           \/ k \in DOMAIN streams /\ streams'[k] = streams[k]
  <1> DEFINE closed == [streams[id] EXCEPT !.status = "Cancelled"]
  <1>1. streams' = Put(Put(streams, id, closed), new, r)
    BY DEF Divides
  <1> HIDE DEF closed
  <1>2. \/ streams'[k] = r
        \/ k = id /\ streams'[k] = closed
        \/ k \in DOMAIN streams /\ streams'[k] = streams[k]
    BY <1>1 DEF Put
  <1> QED
    BY <1>2 DEF closed

LEMMA StepKeepsCliff ==
    ASSUME ContractInv, CliffInv, [Next]_vars
    PROVE  CliffInv'
  <1>1. CASE UNCHANGED streamVars
    BY <1>1 DEF streamVars, CliffInv
  <1>2. CASE StreamNext
    <2>1. ASSUME NEW id, NEW s, Opens(id, s) PROVE CliffInv'
      BY <2>1, SaveEffect, ZenonT(60) DEF Opens, CliffInv
    <2>2. ASSUME NEW id, NEW r, Changes(id, r) PROVE CliffInv'
      BY <2>2, SaveEffect DEF Changes, CliffInv
    <2>3. ASSUME NEW id, Closes(id) PROVE CliffInv'
      BY <2>3, RemoveEffect DEF Closes, CliffInv
    <2>4. ASSUME NEW id, NEW new, NEW r, Divides(id, new, r) PROVE CliffInv'
      <3> DEFINE closed == [streams[id] EXCEPT !.status = "Cancelled"]
      <3>1. /\ streams[id] \in Streams /\ id \in DOMAIN streams
            /\ r.cliff_time <= r.end_time
        BY <2>4, Basics DEF Divides
      <3>2. closed.cliff_time = streams[id].cliff_time /\ closed.end_time = streams[id].end_time
        BY <3>1 DEF Streams
      <3>3. closed.cliff_time <= closed.end_time
        BY <3>1, <3>2 DEF CliffInv
      <3>4. \A k \in DOMAIN streams' :
               \/ streams'[k] = r \/ streams'[k] = closed
               \/ k \in DOMAIN streams /\ streams'[k] = streams[k]
        BY <2>4, SplitStores
      <3> HIDE DEF closed
      <3> QED
        BY <3>1, <3>3, <3>4 DEF CliffInv
    <2>5. ASSUME Rests PROVE CliffInv'
      BY <2>5 DEF Rests, CliffInv
    <2> QED
      BY <1>2, <2>1, <2>2, <2>3, <2>4, <2>5, StreamStepEffect DEF StreamEffect
  <1> QED
    BY <1>1, <1>2, OtherSteps

(* A stream the step finds stored stays as it is, changes, goes away, is the *)
(* one that splits, or is overwritten by what is split off.                  *)
LEMMA StreamFate ==
    ASSUME ContractInv, StreamEffect, NEW id \in DOMAIN streams
    PROVE  \/ id \in DOMAIN streams' /\ streams'[id] = streams[id]
           \/ id \in DOMAIN streams' /\ Changes(id, streams'[id])
           \/ id \notin DOMAIN streams' /\ Closes(id)
           \/ /\ id \in DOMAIN streams'
              /\ streams'[id] = [streams[id] EXCEPT !.status = "Cancelled"]
              /\ \E new, r : Divides(id, new, r)
           \/ id \in DOMAIN streams' /\ \E parent : Divides(parent, id, streams'[id])
  <1>1. ASSUME NEW i, NEW s, Opens(i, s) PROVE id \in DOMAIN streams' /\ streams'[id] = streams[id]
    BY <1>1, SaveEffect DEF Opens
  <1>2. ASSUME NEW i, NEW r, Changes(i, r)
        PROVE  /\ id \in DOMAIN streams'
               /\ streams'[id] = streams[id] \/ Changes(id, streams'[id])
    <2>1. SaveStream(i, r)
      BY <1>2 DEF Changes
    <2> QED
      BY <1>2, <2>1, SaveEffect
  <1>3. ASSUME NEW i, Closes(i)
        PROVE  \/ id \in DOMAIN streams' /\ streams'[id] = streams[id]
               \/ id \notin DOMAIN streams' /\ Closes(id)
    <2>1. RemoveStream(i)
      BY <1>3 DEF Closes
    <2> QED
      BY <1>3, <2>1, RemoveEffect
  <1>4. ASSUME NEW i, NEW new, NEW r, Divides(i, new, r)
        PROVE  /\ id \in DOMAIN streams'
               /\ \/ streams'[id] = streams[id]
                  \/ id = i /\ streams'[id] = [streams[id] EXCEPT !.status = "Cancelled"]
                  \/ id = new /\ streams'[id] = r
    <2> DEFINE closed == [streams[i] EXCEPT !.status = "Cancelled"]
    <2>1. streams' = Put(Put(streams, i, closed), new, r)
      BY <1>4 DEF Divides
    <2> HIDE DEF closed
    <2>2. /\ id \in DOMAIN streams'
          /\ \/ streams'[id] = streams[id]
             \/ id = i /\ streams'[id] = closed
             \/ id = new /\ streams'[id] = r
      BY <2>1 DEF Put
    <2> QED
      BY <2>2 DEF closed
  <1>5. ASSUME Rests PROVE id \in DOMAIN streams' /\ streams'[id] = streams[id]
    BY <1>5 DEF Rests
  <1> QED
    BY <1>1, <1>2, <1>3, <1>4, <1>5 DEF StreamEffect

(* What a stream has earned grows as time passes, up to its end.             *)
LEMMA EarnedLater ==
    ASSUME NEW s \in Streams, ScheduleSound(s), now \in Nat, NEW t \in Nat, t >= now
    PROVE  EarnedAt(s, t) >= EarnedAt(s, now)
  <1>1. CASE s.status = "Paused"
    <2>1. EarnedAt(s, t) = EarnedAt(s, now) /\ EarnedAt(s, now) \in Nat
      BY <1>1, EarnedIs DEF EarnedAt
    <2> QED
      BY <2>1
  <1>2. CASE s.status # "Paused"
    <2> DEFINE lwt == s.last_withdraw_time
               x == effective_now(now, s.end_time) - lwt
               y == effective_now(t, s.end_time) - lwt
               w == s.end_time - s.start_time
    <2>1. /\ s.flow_rate \in Nat /\ s.end_time \in Nat /\ s.start_time \in Nat /\ lwt \in Nat
          /\ s.deposit \in Nat /\ s.deposit <= I128_MAX /\ I128_MAX \in Nat
      BY StreamFields
    <2>2. /\ s.start_time <= lwt /\ lwt <= effective_now(now, s.end_time)
          /\ s.flow_rate * w <= s.deposit
      BY <1>2 DEF ScheduleSound, StreamClock
    <2>3. x \in Nat /\ y \in Nat /\ w \in Nat /\ x <= y /\ y <= w
      BY <2>1, <2>2 DEF effective_now
    <2>4. saturating_sub(effective_now(t, s.end_time), lwt) = y
      BY <2>1, <2>3 DEF saturating_sub, effective_now
    <2>5. EarnedAt(s, now) = s.flow_rate * x
      BY <1>2, EarnedIs DEF StreamClock
    <2>6. EarnedAt(s, t) = Checked(s.flow_rate * y)
      BY <1>2, <2>4 DEF EarnedAt, compute_earned
    <2> HIDE DEF x, y, w, lwt
    <2>7. /\ s.flow_rate * x \in Nat /\ s.flow_rate * y \in Nat /\ s.flow_rate * w \in Nat
          /\ s.flow_rate * x <= s.flow_rate * y /\ s.flow_rate * y <= s.flow_rate * w
      BY <2>1, <2>3, FlowOrder
    <2>8. PICK e \in Nat : e = s.flow_rate * y
      BY <2>7
    <2>9. e \in I128
      BY <2>1, <2>2, <2>7, <2>8 DEF I128
    <2> QED
      BY <2>5, <2>6, <2>7, <2>8, <2>9 DEF Checked
  <1> QED
    BY <1>1, <1>2

LEMMA IncomeIsInt ==
    ASSUME ContractInv, ContractInv', NEW token \in Tokens
    PROVE  Income(token) \in Int /\ bal[token][Contract] \in Nat /\ bal'[token][Contract] \in Nat
  <1>1. bal \in Balances /\ bal' \in Balances
    BY DEF ContractInv, MoneyInv
  <1> QED
    BY <1>1, ContractApart DEF Balances, Income

LEMMA OwedIsNat ==
    ASSUME NEW s, GoodStream(s), now \in Nat
    PROVE  Owed(s) \in Nat
  <1>1. CASE Live(s)
    <2>1. s \in Streams /\ ScheduleSound(s)
      BY <1>1 DEF GoodStream
    <2>2. Payable(s, 0) /\ s.deposit \in Nat /\ s.total_withdrawn \in Nat
      BY <2>1, EarnedPayable, StreamFields
    <2> QED
      BY <2>2 DEF Owed, Payable
  <1>2. CASE ~Live(s)
    BY <1>2 DEF Owed
  <1> QED
    BY <1>1, <1>2
-----------------------------------------------------------------------------
(* Nothing more is paid out of a stream once it is closed.                   *)
LEMMA ClosedPaysNothing ==
    ASSUME ContractInv, [Next]_vars, NEW id \in DOMAIN escrow,
           id \in DOMAIN streams => ~Live(streams[id])
    PROVE  escrow'[id] >= escrow[id]
  <1>1. ContractInv'
    BY NextInv
  <1>2. escrow[id] \in Nat /\ now \in Nat
    BY Basics DEF AllGood
  <1>3. CASE UNCHANGED streamVars
    BY <1>2, <1>3 DEF streamVars
  <1>4. CASE StreamNext
    <2>1. ASSUME NEW i, NEW s, Opens(i, s) PROVE escrow'[id] >= escrow[id]
      <3>1. PICK n \in Nat : n = Income(s.token)
        BY <1>2, <2>1, OwedIsNat DEF Opens
      <3>2. Book(i, s.token)
        BY <2>1 DEF Opens
      <3>3. \/ escrow'[id] = escrow[id]
            \/ escrow'[id] = n + escrow[id]
        BY <3>1, <3>2, BookEffect
      <3> QED
        BY <1>2, <3>3
    <2>2. ASSUME NEW i \in DOMAIN streams, BooksLive(i) PROVE escrow'[id] >= escrow[id]
      <3>1. i \in DOMAIN escrow
        BY Basics DEF AllGood
      <3>2. id = i => escrow' = escrow
        BY <2>2 DEF BooksLive
      <3>3. escrow'[id] = escrow[id]
        BY <2>2, <3>1, <3>2, BookLiveEffect
      <3> QED
        BY <1>2, <3>3
    <2>3. ASSUME NEW i, NEW new, NEW r, Divides(i, new, r) PROVE escrow'[id] >= escrow[id]
      <3>1. i # id
        BY <2>3 DEF Divides
      <3>2. PICK owed \in Nat : owed = Owed(r)
        BY <1>2, <2>3, OwedIsNat DEF Divides
      <3>3. PICK held : held = Credit(escrow, i, Income(streams[i].token) - owed)
        OBVIOUS
      <3>4. held[id] = escrow[id] /\ id \in DOMAIN held
        BY <3>1, <3>3 DEF Credit, Put
      <3>5. escrow' = Credit(held, new, owed)
        BY <2>3, <3>2, <3>3 DEF Divides
      <3>6. escrow'[id] = held[id] \/ escrow'[id] = owed + held[id]
        BY <3>4, <3>5 DEF Credit, Put
      <3> QED
        BY <1>2, <3>2, <3>4, <3>6
    <2>4. ASSUME Rests PROVE escrow'[id] >= escrow[id]
      BY <1>2, <2>4 DEF Rests
    <2> QED
      BY <1>4, <2>1, <2>2, <2>3, <2>4, StreamStepEffect DEF StreamEffect, Changes, Closes
  <1> QED
    BY <1>3, <1>4, OtherSteps

(* No sequence of steps drains what a closed stream left: not even a second  *)
(* cancel, an archive or a withdrawal of a stream with its id.               *)
THEOREM ClosedStreamsStayClosed == Spec => NoSecondPayout
  <1>1. ContractInv /\ [Next]_vars
        => [\A id \in DOMAIN escrow :
              (id \in DOMAIN streams => streams[id].status \in {"Cancelled", "Completed"})
              => escrow'[id] >= escrow[id]]_vars
    BY ClosedPaysNothing DEF Live
  <1> QED
    BY <1>1, ContractSafety, PTL DEF Spec, NoSecondPayout

(* A stream goes only when it is closed.                                     *)
LEMMA OnlyClosingRemoves ==
    ASSUME ContractInv, [Next]_vars, NEW id \in DOMAIN streams, id \notin DOMAIN streams'
    PROVE  Closes(id) /\ now' = now
  <1>1. ~UNCHANGED streamVars
    BY DEF streamVars
  <1>2. StreamNext /\ now' = now
    BY <1>1, OtherSteps
  <1>3. ASSUME NEW i, NEW s, Opens(i, s) PROVE FALSE
    BY <1>3, SaveEffect DEF Opens
  <1>4. ASSUME NEW i, NEW r, Changes(i, r) PROVE FALSE
    BY <1>4, SaveEffect DEF Changes
  <1>5. ASSUME NEW i, NEW new, NEW r, Divides(i, new, r) PROVE FALSE
    <2> DEFINE closed == [streams[i] EXCEPT !.status = "Cancelled"]
    <2>1. streams' = Put(Put(streams, i, closed), new, r)
      BY <1>5 DEF Divides
    <2> HIDE DEF closed
    <2> QED
      BY <2>1 DEF Put
  <1>6. ASSUME NEW i, Closes(i) PROVE i = id
    BY <1>6, RemoveEffect DEF Closes
  <1> QED
    BY <1>2, <1>3, <1>4, <1>5, <1>6, StreamStepEffect DEF StreamEffect, Rests

LEMMA ClosingPaysAll ==
    ASSUME ContractInv, [Next]_vars, NEW id \in LiveIds, id \notin DOMAIN streams',
           StreamClock(streams[id]) < streams[id].end_time
    PROVE  escrow'[id] = escrow[id] - Owed(streams[id])
  <1>1. id \in DOMAIN streams /\ Live(streams[id])
    BY DEF LiveIds
  <1>2. Closes(id)
    BY <1>1, OnlyClosingRemoves
  <1>3. /\ Book(id, streams[id].token)
        /\ Income(streams[id].token) = 0 - Owed(streams[id])
    BY <1>1, <1>2 DEF Closes
  <1>4. escrow[id] \in Nat /\ id \in DOMAIN escrow /\ Owed(streams[id]) \in Nat
    BY <1>1, Basics, OwedIsNat DEF AllGood
  <1>5. PICK owed \in Nat : owed = Owed(streams[id])
    BY <1>4
  <1>6. escrow'[id] = (0 - owed) + escrow[id]
    BY <1>3, <1>4, <1>5, BookEffect, ZenonT(60)
  <1> QED
    BY <1>4, <1>5, <1>6

(* Cancelled or terminated before its end, a stream leaves nothing behind of *)
(* what it owed: refund and payout take the dust, the top-ups and whatever a *)
(* pause kept from flowing.                                                  *)
THEOREM CancelPaysInFull == Spec => CancelReturnsEverything
  <1>1. ContractInv /\ [Next]_vars
        => [\A id \in LiveIds :
              LET s == streams[id]
              IN  id \notin DOMAIN streams' /\ StreamClock(s) < s.end_time
                  => escrow'[id] = escrow[id] - Owed(s)]_vars
    BY ClosingPaysAll
  <1> QED
    BY <1>1, ContractSafety, PTL DEF Spec, CancelReturnsEverything
-----------------------------------------------------------------------------
(* The cliff of a stream is never after its end, however the two move apart  *)
(* in pauses, top-ups, renewals and splits.                                  *)
THEOREM CliffBeforeEnd == Spec => []CliffInv
  <1>1. Init => CliffInv
    BY DEF Init, CliffInv
  <1>2. ContractInv /\ CliffInv /\ [Next]_vars => CliffInv'
    BY StepKeepsCliff
  <1> QED
    BY <1>1, <1>2, ContractSafety, PTL DEF Spec

LEMMA IdsSafety ==
    ASSUME NoncesApart
    PROVE  Spec => []IdsInv
  <1>1. Init => IdsInv
    BY DEF Init, IdsInv
  <1>2. ContractInv /\ IdsInv /\ [Next]_vars => IdsInv'
    BY StepKeepsIds
  <1> QED
    BY <1>1, <1>2, ContractSafety, PTL DEF Spec

(* What a list gains is the id that is put in it.                            *)
LEMMA NewInList ==
    ASSUME NEW index, NEW id, NEW slot \in DOMAIN Indexed(index, id).slots,
           slot \notin DOMAIN index.slots
    PROVE  Indexed(index, id).slots[slot] = id
  BY DEF Indexed, Put

LEMMA NewIdsAreFree ==
    ASSUME ContractInv, IdsInv, [Next]_vars,
           NEW slot \in DOMAIN global_ids'.slots, slot \notin DOMAIN global_ids.slots
    PROVE  global_ids'.slots[slot] \notin DOMAIN streams
  <1>1. global_ids' # global_ids
    OBVIOUS
  <1>2. StreamNext
    BY <1>1, OtherSteps DEF streamVars, indexVars
  <1>3. \A id \in DOMAIN streams : id \in DOMAIN escrow
    BY Basics DEF AllGood
  <1>4. ASSUME NEW i, NEW s, Opens(i, s) PROVE global_ids'.slots[slot] \notin DOMAIN streams
    <2>1. global_ids' = Indexed(global_ids, i) /\ i \notin DOMAIN streams
      BY <1>4 DEF Opens, IndexStream
    <2> QED
      BY <2>1, NewInList
  <1>5. ASSUME NEW i, NEW new, NEW r, Divides(i, new, r)
        PROVE  global_ids'.slots[slot] \notin DOMAIN streams
    <2>1. global_ids' = Indexed(global_ids, new)
      BY <1>5 DEF Divides, IndexStream
    <2>2. new \notin DOMAIN streams
      BY <1>3, <1>5, SplitsFresh
    <2> QED
      BY <2>1, <2>2, NewInList
  <1>6. ASSUME NEW i, NEW r, Changes(i, r) PROVE FALSE
    BY <1>1, <1>6 DEF Changes, Relists, indexVars
  <1>7. ASSUME NEW i, Closes(i) PROVE FALSE
    BY <1>1, <1>7 DEF Closes, RemoveStream
  <1> QED
    BY <1>1, <1>2, <1>4, <1>5, <1>6, <1>7, StreamStepEffect DEF StreamEffect, Rests, indexVars

(* create_stream and partial_cancel_stream never list the id of a stored     *)
(* stream as new, as long as no sender passes the id of a stream as its      *)
(* nonce; when one does, a split can overwrite a stream.                     *)
THEOREM NewStreamsAreNew ==
    ASSUME NoncesApart
    PROVE  Spec => NewStreamIsNew
  <1>1. ContractInv /\ IdsInv /\ [Next]_vars
        => [\A slot \in DOMAIN global_ids'.slots \ DOMAIN global_ids.slots :
              global_ids'.slots[slot] \notin DOMAIN streams]_vars
    BY NewIdsAreFree
  <1> QED
    BY <1>1, ContractSafety, IdsSafety, PTL DEF Spec, NewStreamIsNew

-----------------------------------------------------------------------------
(* What a step does to a stream it finds stored, other steps included.       *)
LEMMA StepFate ==
    ASSUME ContractInv, [Next]_vars, NEW id \in DOMAIN streams
    PROVE  \/ /\ id \in DOMAIN streams' /\ streams'[id] = streams[id]
              /\ now' \in Nat /\ now' >= now
           \/ /\ now' = now
              /\ \/ id \in DOMAIN streams' /\ Changes(id, streams'[id])
                 \/ id \notin DOMAIN streams' /\ Closes(id)
                 \/ /\ id \in DOMAIN streams'
                    /\ streams'[id] = [streams[id] EXCEPT !.status = "Cancelled"]
                    /\ \E new, r : Divides(id, new, r)
                 \/ id \in DOMAIN streams' /\ \E parent : Divides(parent, id, streams'[id])
  <1>1. CASE UNCHANGED streamVars /\ now' \in Nat /\ now' >= now
    BY <1>1 DEF streamVars
  <1>2. CASE StreamNext /\ now' = now
    <2>1. now \in Nat
      BY Basics
    <2> QED
      BY <1>2, <2>1, StreamStepEffect, StreamFate
  <1> QED
    BY <1>1, <1>2, OtherSteps

(* A stream that is overwritten splits itself, or another one splits into    *)
(* its id.                                                                   *)
LEMMA OverwrittenBySplit ==
    ASSUME ContractInv, NEW id, NEW parent, NEW r, Divides(parent, id, r)
    PROVE  parent = id \/ SplitInto(id)
  <1> SUFFICES ASSUME parent # id PROVE SplitInto(id)
    OBVIOUS
  <1>1. parent \in LiveIds \ {id} /\ id = SplitId(parent)
    BY DEF Divides, LiveIds, SplitId
  <1>2. Parted(parent, id, r) /\ streams[parent] \in Streams
    BY Basics, SplitParts DEF Divides
  <1>3. parent \in DOMAIN streams' /\ streams'[parent].status = "Cancelled"
    BY <1>1, <1>2 DEF Parted, LiveIds, Streams
  <1> QED
    BY <1>1, <1>3 DEF SplitInto

LEMMA ClaimPaysQuote ==
    ASSUME ContractInv, [Next]_vars, NEW id \in LiveIds, id \in DOMAIN streams',
           streams'[id].start_time = streams[id].start_time,
           streams'[id].last_withdraw_time > streams[id].last_withdraw_time
    PROVE  streams'[id].total_withdrawn = streams[id].total_withdrawn + get_claimable(id)
  <1>1. /\ id \in DOMAIN streams /\ Live(streams[id]) /\ streams[id] \in Streams
        /\ ScheduleSound(streams[id])
    BY Basics DEF LiveIds, GoodStream
  <1>2. /\ streams[id].last_withdraw_time \in Nat /\ streams[id].start_time \in Nat
        /\ streams[id].start_time <= streams[id].last_withdraw_time
    BY <1>1, StreamFields DEF ScheduleSound
  <1>3. /\ streams'[id].last_withdraw_time # streams[id].last_withdraw_time
        /\ streams'[id].last_withdraw_time # streams'[id].start_time
    BY <1>2
  <1>4. streams'[id] # [streams[id] EXCEPT !.status = "Cancelled"]
    BY <1>1, <1>3 DEF Streams
  <1>5. ~\E parent : Divides(parent, id, streams'[id])
    BY <1>3 DEF Divides
  <1>6. Changes(id, streams'[id])
    BY <1>1, <1>3, <1>4, <1>5, StepFate
  <1> QED
    BY <1>1, <1>6 DEF Changes, CountsQuoted

(* What a recipient is quoted is what a claim that leaves the stream running *)
(* its cycle counts as paid, by withdraw or transfer_recipient.              *)
THEOREM QuotesArePaid == Spec => QuotedIsPaid
  <1>1. ContractInv /\ [Next]_vars
        => [\A id \in LiveIds \cap DOMAIN streams' :
              LET s == streams[id]
                  r == streams'[id]
              IN  r.start_time = s.start_time /\ r.last_withdraw_time > s.last_withdraw_time
                  => r.total_withdrawn = s.total_withdrawn + get_claimable(id)]_vars
    BY ClaimPaysQuote
  <1> QED
    BY <1>1, ContractSafety, PTL DEF Spec, QuotedIsPaid

LEMMA ResumeDelays ==
    ASSUME ContractInv, IdsInv, CliffInv, [Next]_vars,
           NEW id \in LiveIds, id \in DOMAIN streams',
           streams[id].status = "Paused", streams'[id].status = "Active"
    PROVE  LET s == streams[id]
               r == streams'[id]
           IN  /\ EarnedAt(r, now) = EarnedAt(s, now)
               /\ \/ r.end_time = U64_MAX
                  \/ /\ r.end_time - now = s.end_time - s.last_pause_time
                     /\ r.cliff_time - now = s.cliff_time - s.last_pause_time
  <1> DEFINE s == streams[id]
             r == streams'[id]
  <1>1. id \in DOMAIN streams /\ GoodStream(s) /\ s \in Streams /\ now \in U64 /\ now \in Nat
    BY Basics DEF LiveIds
  <1>2. r # s /\ r # [s EXCEPT !.status = "Cancelled"]
    BY <1>1 DEF Streams
  <1>3. Changes(id, r)
    <2>1. SplitsApart /\ id \in DOMAIN escrow
      BY <1>1, IdsApart, Basics DEF AllGood
    <2> QED
      BY <1>1, <1>2, <2>1, StepFate DEF SplitsApart
  <1>4. r = Resumed(s)
    BY <1>3 DEF Changes
  <1>5. s.cliff_time <= s.end_time
    BY <1>1 DEF CliffInv
  <1> HIDE DEF s, r
  <1>6. PICK gap : gap = now - s.last_pause_time
    OBVIOUS
  <1>7. /\ gap \in Nat /\ EarnedAt(r, now) = EarnedAt(s, now)
        /\ r.end_time = IF s.end_time + gap <= U64_MAX THEN s.end_time + gap ELSE U64_MAX
        /\ r.cliff_time = IF s.cliff_time + gap <= U64_MAX THEN s.cliff_time + gap ELSE U64_MAX
    <2>1. s.status = "Paused"
      BY DEF s
    <2> QED
      BY <1>1, <1>4, <1>6, <2>1, ResumedTimes
  <1>8. /\ s.end_time \in Nat /\ s.cliff_time \in Nat /\ s.last_pause_time \in Nat
        /\ U64_MAX \in Nat
    BY <1>1, StreamFields
  <1>9. \/ r.end_time = U64_MAX
        \/ /\ r.end_time - now = s.end_time - s.last_pause_time
           /\ r.cliff_time - now = s.cliff_time - s.last_pause_time
    BY <1>1, <1>5, <1>6, <1>7, <1>8
  <1> QED
    BY <1>7, <1>9 DEF s, r

(* A pause only delays: what was earned and what is still to flow are those  *)
(* of the moment of the pause, unless a time has reached u64::MAX.           *)
THEOREM PausesOnlyDelay ==
    ASSUME NoncesApart
    PROVE  Spec => PauseOnlyDelays
  <1>1. ContractInv /\ IdsInv /\ CliffInv /\ [Next]_vars
        => [\A id \in LiveIds \cap DOMAIN streams' :
              LET s == streams[id]
                  r == streams'[id]
              IN  s.status = "Paused" /\ r.status = "Active"
                  => /\ EarnedAt(r, now) = EarnedAt(s, now)
                     /\ \/ r.end_time = U64_MAX
                        \/ /\ r.end_time - now = s.end_time - s.last_pause_time
                           /\ r.cliff_time - now = s.cliff_time - s.last_pause_time]_vars
    BY ResumeDelays
  <1> QED
    BY <1>1, ContractSafety, IdsSafety, CliffBeforeEnd, PTL DEF Spec, PauseOnlyDelays

LEMMA EarnedStays ==
    ASSUME ContractInv, [Next]_vars, NEW id \in LiveIds
    PROVE  LET s == streams[id]
           IN  \/ RecipientNext(id) \/ SplitInto(id)
               \/ /\ id \in DOMAIN streams' /\ streams'[id].status \in {"Active", "Paused"}
                  /\ EarnedAt(streams'[id], now') >= EarnedAt(s, now)
               \/ bal'[s.token][s.recipient] >= bal[s.token][s.recipient] + EarnedAt(s, now)
  <1>1. /\ id \in DOMAIN streams /\ Live(streams[id]) /\ streams[id] \in Streams
        /\ ScheduleSound(streams[id]) /\ now \in Nat
    BY Basics DEF LiveIds, GoodStream
  <1>2. CASE /\ id \in DOMAIN streams' /\ streams'[id] = streams[id]
             /\ now' \in Nat /\ now' >= now
    <2>1. EarnedAt(streams[id], now') >= EarnedAt(streams[id], now)
      BY <1>1, <1>2, EarnedLater
    <2> QED
      BY <1>1, <1>2, <2>1 DEF Live
  <1>3. CASE now' = now /\ id \in DOMAIN streams' /\ Changes(id, streams'[id])
    BY <1>1, <1>3 DEF Changes, KeepsEarned, Live
  <1>4. CASE Closes(id)
    BY <1>1, <1>4 DEF Closes, PaysEarned
  <1>5. ASSUME NEW new, NEW r, Divides(id, new, r) PROVE PaysEarned(id)
    BY <1>5 DEF Divides
  <1>6. ASSUME NEW parent, NEW r, Divides(parent, id, r)
        PROVE  PaysEarned(id) \/ SplitInto(id)
    BY <1>5, <1>6, OverwrittenBySplit
  <1> QED
    BY <1>1, <1>2, <1>3, <1>4, <1>5, <1>6, StepFate DEF PaysEarned

(* Nothing but the recipient's own call lowers what it has earned, except a  *)
(* split that stores its new stream over the recipient's.                    *)
THEOREM EarnedIsSafe == Spec => SenderCannotTakeEarned
  <1>1. ContractInv /\ [Next]_vars
        => [\A id \in LiveIds :
              LET s == streams[id]
              IN  \/ RecipientNext(id) \/ SplitInto(id)
                  \/ /\ id \in DOMAIN streams' /\ streams'[id].status \in {"Active", "Paused"}
                     /\ EarnedAt(streams'[id], now') >= EarnedAt(s, now)
                  \/ bal'[s.token][s.recipient] >= bal[s.token][s.recipient] + EarnedAt(s, now)]_vars
    BY EarnedStays
  <1> QED
    BY <1>1, ContractSafety, PTL DEF Spec, SenderCannotTakeEarned

(* What a step takes in while a pause is in force, by token.                 *)
LEMMA PausedTakesNothing ==
    ASSUME ContractInv, [Next]_vars, paused, now < pause_expiry, NEW token \in Tokens
    PROVE  bal'[token][Contract] <= bal[token][Contract]
  <1>1. ContractInv' /\ ~NotPaused
    <2>1. pause_expiry \in Nat /\ now \in Nat
      BY WidthAssumption DEF ContractInv, AdminInv, AdminTypeOK, LedgerTypeOK, U64
    <2> QED
      BY <2>1, NextInv DEF NotPaused
  <1>2. bal[token][Contract] \in Nat /\ bal'[token][Contract] \in Nat
    BY <1>1, IncomeIsInt
  <1>3. CASE bal'[token][Contract] = bal[token][Contract]
    BY <1>2, <1>3
  <1>4. CASE StreamNext
    <2>1. ASSUME NEW t \in Tokens, Income(t) <= 0, OthersStand(t)
          PROVE  bal'[token][Contract] <= bal[token][Contract]
      <3>1. CASE t = token
        BY <1>2, <2>1, <3>1 DEF Income
      <3>2. CASE t # token
        BY <1>3, <2>1, <3>2 DEF OthersStand
      <3> QED
        BY <3>1, <3>2
    <2>2. ASSUME NEW i, NEW s, Opens(i, s) PROVE FALSE
      BY <1>1, <2>2 DEF Opens
    <2>3. ASSUME NEW i, NEW r, Changes(i, r) PROVE bal' = bal
      BY <1>1, <2>3 DEF Changes
    <2>4. ASSUME NEW i, Closes(i) PROVE bal'[token][Contract] <= bal[token][Contract]
      BY <1>1, <2>1, <2>4, Basics DEF Closes
    <2>5. ASSUME NEW i, NEW new, NEW r, Divides(i, new, r)
          PROVE  bal'[token][Contract] <= bal[token][Contract]
      BY <2>1, <2>5, Basics DEF Divides
    <2> QED
      BY <1>3, <1>4, <2>2, <2>3, <2>4, <2>5, StreamStepEffect DEF StreamEffect, Rests
  <1> QED
    BY <1>3, <1>4, OtherSteps

-----------------------------------------------------------------------------
(* The contract as an escrow with an account per stream.                     *)
LEMMA AccountsAre ==
    /\ DOMAIN EscrowAccounts = LiveIds
    /\ \A id \in LiveIds : /\ EscrowAccounts[id].token = streams[id].token
                           /\ EscrowAccounts[id].amount = Owed(streams[id])
                           /\ EscrowAccounts[id] = [token |-> streams[id].token,
                                                    amount |-> Owed(streams[id])]
  BY DEF EscrowAccounts

LEMMA AccountsAreNext ==
    /\ DOMAIN EscrowAccounts' = LiveIds'
    /\ \A id \in LiveIds' : /\ EscrowAccounts'[id].token = streams'[id].token
                            /\ EscrowAccounts'[id].amount = Owed(streams'[id])
                            /\ EscrowAccounts'[id] = [token |-> streams'[id].token,
                                                      amount |-> Owed(streams'[id])]
  BY DEF EscrowAccounts, Owed, Live

(* What a stream owes, stored or not.                                        *)
OwedBy(stored, id) == IF id \in DOMAIN stored THEN Owed(stored[id]) ELSE 0

LEMMA OwedIfLive ==
    /\ \A id : OwedBy(streams, id) = IF id \in LiveIds THEN Owed(streams[id]) ELSE 0
    /\ \A id : OwedBy(streams', id) = IF id \in LiveIds' THEN Owed(streams'[id]) ELSE 0
  BY DEF OwedBy, LiveIds, Live, Owed

(* A step on one stream serves its account.                                  *)
LEMMA ServesAccount ==
    ASSUME NEW token \in Tokens, NEW id \in LiveIds \cup LiveIds',
           id \in LiveIds => streams[id].token = token,
           id \in LiveIds' => streams'[id].token = token,
           \A k \in (LiveIds \cup LiveIds') \ {id} :
              k \in LiveIds /\ k \in LiveIds' /\ streams'[k] = streams[k],
           Income(token) >= OwedBy(streams', id) - OwedBy(streams, id),
           OthersStand(token)
    PROVE  SeparateEscrow!Next
  <1> DEFINE before == EscrowAccounts
             after == EscrowAccounts'
  <1>1. DOMAIN before = LiveIds /\ DOMAIN after = LiveIds'
    BY AccountsAre, AccountsAreNext
  <1>2. \A k \in LiveIds : before[k] = [token |-> streams[k].token, amount |-> Owed(streams[k])]
    BY AccountsAre
  <1>3. \A k \in LiveIds' : after[k] = [token |-> streams'[k].token, amount |-> Owed(streams'[k])]
    BY AccountsAreNext
  <1>4. SeparateEscrow!Touched \subseteq {id}
    BY <1>1, <1>2, <1>3 DEF SeparateEscrow!Touched
  <1>5. /\ SeparateEscrow!Due(before, id) = OwedBy(streams, id)
        /\ SeparateEscrow!Due(after, id) = OwedBy(streams', id)
    BY <1>1, <1>2, <1>3, OwedIfLive DEF SeparateEscrow!Due
  <1>6. SeparateEscrow!Covered(token, SeparateEscrow!Due(before, id), SeparateEscrow!Due(after, id))
    BY <1>5 DEF SeparateEscrow!Covered, Income, OthersStand
  <1>7. SeparateEscrow!Serve(id, token)
    BY <1>1, <1>2, <1>3, <1>6 DEF SeparateEscrow!Serve
  <1> QED
    BY <1>1, <1>4, <1>7 DEF SeparateEscrow!Next

(* A step that splits a stream hands its account on.                         *)
LEMMA SplitsAccount ==
    ASSUME NEW token \in Tokens, NEW id, NEW new,
           id \in LiveIds, id \notin LiveIds', new \in LiveIds', new \notin LiveIds,
           streams[id].token = token, streams'[new].token = token,
           \A k \in (LiveIds \cup LiveIds') \ {id, new} :
              k \in LiveIds /\ k \in LiveIds' /\ streams'[k] = streams[k],
           Income(token) >= Owed(streams'[new]) - Owed(streams[id]),
           OthersStand(token)
    PROVE  SeparateEscrow!Next
  <1> DEFINE before == EscrowAccounts
             after == EscrowAccounts'
  <1>1. DOMAIN before = LiveIds /\ DOMAIN after = LiveIds'
    BY AccountsAre, AccountsAreNext
  <1>2. \A k \in LiveIds : before[k] = [token |-> streams[k].token, amount |-> Owed(streams[k])]
    BY AccountsAre
  <1>3. \A k \in LiveIds' : after[k] = [token |-> streams'[k].token, amount |-> Owed(streams'[k])]
    BY AccountsAreNext
  <1>4. SeparateEscrow!Touched = {id, new}
    BY <1>1, <1>2, <1>3 DEF SeparateEscrow!Touched
  <1>5. /\ SeparateEscrow!Due(before, id) = Owed(streams[id])
        /\ SeparateEscrow!Due(after, new) = Owed(streams'[new])
    BY <1>1, <1>2, <1>3 DEF SeparateEscrow!Due
  <1>6. SeparateEscrow!Covered(token, SeparateEscrow!Due(before, id), SeparateEscrow!Due(after, new))
    BY <1>5 DEF SeparateEscrow!Covered, Income, OthersStand
  <1>7. SeparateEscrow!Split(id, new, token)
    BY <1>1, <1>2, <1>3, <1>6 DEF SeparateEscrow!Split
  <1> QED
    BY <1>4, <1>7 DEF SeparateEscrow!Next

(* A step that touches no live stream leaves all accounts alone.             *)
LEMMA AccountsRest ==
    ASSUME LiveIds' = LiveIds, \A k \in LiveIds : streams'[k] = streams[k],
           \A token \in Tokens : bal'[token][Contract] = bal[token][Contract]
    PROVE  UNCHANGED <<EscrowAccounts, [token \in Tokens |-> bal[token][Contract]]>>
  BY DEF EscrowAccounts, Owed, Live

LEMMA StepServes ==
    ASSUME ContractInv, IdsInv, [Next]_vars
    PROVE  \/ SeparateEscrow!Next
           \/ UNCHANGED <<EscrowAccounts, [token \in Tokens |-> bal[token][Contract]]>>
  <1>0. now \in Nat
    BY Basics
  <1>1. CASE UNCHANGED streamVars /\ \A token \in Tokens : bal'[token][Contract] = bal[token][Contract]
    BY <1>1, AccountsRest DEF streamVars, LiveIds, Live
  <1>2. ASSUME NEW i, NEW s, Opens(i, s) PROVE SeparateEscrow!Next
    <2>1. /\ SaveStream(i, s) /\ Live(s) /\ i \notin DOMAIN streams
          /\ s.token \in Tokens /\ OthersStand(s.token) /\ Income(s.token) = Owed(s)
      BY <1>2 DEF Opens
    <2>2. PICK owed \in Nat : owed = Owed(s)
      BY <1>0, <1>2, OwedIsNat DEF Opens
    <2>3. streams'[i] = s /\ LiveIds' = LiveIds \cup {i} /\ i \notin LiveIds
          /\ \A k \in LiveIds : streams'[k] = streams[k]
      BY <2>1, SaveEffect DEF LiveIds, Live
    <2>4. OwedBy(streams', i) = owed /\ OwedBy(streams, i) = 0
      BY <2>2, <2>3, OwedIfLive
    <2> QED
      BY <2>1, <2>2, <2>3, <2>4, ServesAccount
  <1>3. ASSUME NEW i, NEW r, Changes(i, r), Live(streams[i]) PROVE SeparateEscrow!Next
    <2>1. /\ SaveStream(i, r) /\ i \in DOMAIN streams /\ streams[i].token \in Tokens
          /\ OthersStand(streams[i].token) /\ r.token = streams[i].token
          /\ Income(streams[i].token) >= Owed(r) - Owed(streams[i])
      BY <1>3, Basics DEF Changes
    <2>2. streams'[i] = r /\ i \in LiveIds
          /\ \A k \in (LiveIds \cup LiveIds') \ {i} :
                k \in LiveIds /\ k \in LiveIds' /\ streams'[k] = streams[k]
      BY <1>3, <2>1, SaveEffect DEF LiveIds, Live
    <2>3. OwedBy(streams', i) = Owed(r) /\ OwedBy(streams, i) = Owed(streams[i])
      BY <2>1, <2>2, SaveEffect DEF OwedBy
    <2> QED
      BY <2>1, <2>2, <2>3, ServesAccount
  <1>4. ASSUME NEW i, Closes(i), Live(streams[i]) PROVE SeparateEscrow!Next
    <2>1. /\ RemoveStream(i) /\ i \in DOMAIN streams /\ streams[i].token \in Tokens
          /\ OthersStand(streams[i].token)
          /\ Income(streams[i].token) >= 0 - Owed(streams[i])
      BY <1>4, Basics DEF Closes
    <2>2. i \in LiveIds /\ i \notin LiveIds'
          /\ \A k \in (LiveIds \cup LiveIds') \ {i} :
                k \in LiveIds /\ k \in LiveIds' /\ streams'[k] = streams[k]
      BY <1>4, <2>1, RemoveEffect DEF LiveIds, Live
    <2>3. OwedBy(streams', i) = 0 /\ OwedBy(streams, i) = Owed(streams[i])
      BY <2>1, <2>2, OwedIfLive
    <2> QED
      BY <2>1, <2>2, <2>3, ServesAccount
  <1>5. ASSUME NEW i \in DOMAIN streams, ~Live(streams[i]), BooksLive(i),
               \/ RemoveStream(i)
               \/ \E r : SaveStream(i, r) /\ ~Live(r)
        PROVE  UNCHANGED <<EscrowAccounts, [token \in Tokens |-> bal[token][Contract]]>>
    <2>1. bal' = bal
      BY <1>5 DEF BooksLive
    <2>2. \/ streams' = Drop(streams, i)
          \/ \E r : streams' = Put(streams, i, r) /\ ~Live(r)
      BY <1>5 DEF RemoveStream, SaveStream
    <2>3. LiveIds' = LiveIds /\ \A k \in LiveIds : streams'[k] = streams[k]
      BY <1>5, <2>2 DEF LiveIds, Live, Drop, Put
    <2> QED
      BY <2>1, <2>3, AccountsRest
  <1>6. ASSUME NEW i, NEW new, NEW r, Divides(i, new, r) PROVE SeparateEscrow!Next
    <2>1. /\ i \in DOMAIN streams /\ Live(streams[i]) /\ Live(r)
          /\ streams[i].token \in Tokens /\ r.token = streams[i].token
          /\ Income(streams[i].token) >= Owed(r) - Owed(streams[i])
          /\ OthersStand(streams[i].token)
      BY <1>6, Basics DEF Divides
    <2>2. new # i /\ new \notin DOMAIN streams
      BY <1>6, SplitsFresh, Basics DEF AllGood
    <2>3. /\ DOMAIN streams' = DOMAIN streams \cup {new}
          /\ ~Live(streams'[i]) /\ streams'[new] = r
          /\ \A k \in DOMAIN streams : k # i /\ k # new => streams'[k] = streams[k]
      <3>1. Parted(i, new, r)
        BY <1>6, <2>2, SplitParts
      <3> QED
        BY <3>1 DEF Parted
    <2>4. /\ i \in LiveIds /\ i \notin LiveIds' /\ new \in LiveIds' /\ new \notin LiveIds
          /\ \A k \in (LiveIds \cup LiveIds') \ {i, new} :
                k \in LiveIds /\ k \in LiveIds' /\ streams'[k] = streams[k]
      BY <2>1, <2>2, <2>3 DEF LiveIds, Live
    <2> QED
      BY <2>1, <2>3, <2>4, SplitsAccount
  <1>7. CASE Rests
    BY <1>7, AccountsRest DEF Rests, LiveIds, Live
  <1>8. CASE StreamNext
    <2>1. ASSUME NEW i, NEW r, Changes(i, r), ~Live(streams[i])
          PROVE  UNCHANGED <<EscrowAccounts, [token \in Tokens |-> bal[token][Contract]]>>
      BY <2>1, <1>5 DEF Changes
    <2>2. ASSUME NEW i, Closes(i), ~Live(streams[i])
          PROVE  UNCHANGED <<EscrowAccounts, [token \in Tokens |-> bal[token][Contract]]>>
      BY <2>2, <1>5 DEF Closes
    <2> QED
      BY <1>2, <1>3, <1>4, <1>6, <1>7, <1>8, <2>1, <2>2, StreamStepEffect DEF StreamEffect
  <1> QED
    BY <1>1, <1>8, OtherSteps

(* The stream contract implements an escrow with an account per stream: no   *)
(* operation on one stream touches the tokens of another, in any token.      *)
THEOREM ContractIsEscrow ==
    ASSUME NoncesApart
    PROVE  Spec => StreamsAreSeparate
  <1>1. Init => SeparateEscrow!Init
    <2> SUFFICES ASSUME Init PROVE SeparateEscrow!Init
      OBVIOUS
    <2>1. LiveIds = {}
      BY DEF Init, LiveIds
    <2>2. EscrowAccounts = <<>>
      BY <2>1 DEF EscrowAccounts
    <2>3. \A token \in Tokens : bal[token][Contract] = 0
      BY ContractApart DEF Init, LedgerInit
    <2> QED
      BY <2>2, <2>3 DEF SeparateEscrow!Init
  <1>2. ContractInv /\ IdsInv /\ [Next]_vars => [SeparateEscrow!Next]_(SeparateEscrow!escrowVars)
    BY StepServes DEF SeparateEscrow!escrowVars
  <1> QED
    BY <1>1, <1>2, ContractSafety, IdsSafety, PTL
       DEF Spec, StreamsAreSeparate, SeparateEscrow!Spec
-----------------------------------------------------------------------------
(* Sums over the stored streams.  The fold of the community modules takes    *)
(* its elements in an order of its own; a summation is a function on all     *)
(* subsets that adds the elements in every order.                            *)

(* A nonempty set of numbers has a smallest one, ...                         *)
LEMMA SmallestNumber ==
    ASSUME NEW Bad, Bad \subseteq Nat, Bad # {}
    PROVE  \E m \in Bad : \A k \in Bad : m <= k
  <1>1. PICK m \in Bad : \A k \in Bad : ~ (<<k, m>> \in OpToRel(<, Nat))
    BY NatLessThanWellFounded, WFMin
  <1>2. ASSUME NEW k \in Bad PROVE m <= k
    <2>1. m \in Nat /\ k \in Nat
      OBVIOUS
    <2>2. ~ (k < m)
      BY <1>1, <2>1 DEF OpToRel
    <2> QED
      BY <2>1, <2>2
  <1> QED
    BY <1>2

(* ... and so has a nonempty set of subsets of a finite set.                 *)
LEMMA SmallestSubset ==
    ASSUME NEW S, IsFiniteSet(S), NEW Bad, Bad \subseteq SUBSET S, Bad # {}
    PROVE  \E s \in Bad : \A r \in Bad : r \subseteq s => r = s
  <1>1. IsWellFoundedOn(StrictSubsetOrdering(S), SUBSET S)
    BY FS_StrictSubsetOrderingWellFounded, FS_FiniteSubsetsOfFinite
  <1>2. PICK s \in Bad : \A r \in Bad : ~ (<<r, s>> \in StrictSubsetOrdering(S))
    BY <1>1, WFMin
  <1>3. ASSUME NEW r \in Bad, r \subseteq s, r # s PROVE FALSE
    <2>1. <<r, s>> \in (SUBSET S) \X (SUBSET S)
      OBVIOUS
    <2>2. <<r, s>> \in StrictSubsetOrdering(S)
      BY <1>3, <2>1 DEF StrictSubsetOrdering
    <2> QED
      BY <1>2, <2>2
  <1> QED
    BY <1>3

(* g sums v over the subsets of S, in whatever order.                        *)
Sums(g, v, S) ==
    /\ g \in [SUBSET S -> Int] /\ g[{}] = 0
    /\ \A s \in SUBSET S : \A x \in s : g[s] = v[x] + g[s \ {x}]

LEMMA SumsExtend ==
    ASSUME NEW T, NEW v \in [T -> Int], NEW y \in T, NEW g, Sums(g, v, T \ {y})
    PROVE  \E h : Sums(h, v, T)
  <1> DEFINE h == [s \in SUBSET T |-> IF y \in s THEN v[y] + g[s \ {y}] ELSE g[s]]
  <1>1. \A s \in SUBSET T : s \ {y} \in SUBSET (T \ {y})
    OBVIOUS
  <1>2. \A s \in SUBSET T : y \notin s => s \in SUBSET (T \ {y})
    OBVIOUS
  <1>3. v[y] \in Int /\ \A x \in T : v[x] \in Int
    OBVIOUS
  <1>4. h \in [SUBSET T -> Int]
    <2>1. ASSUME NEW s \in SUBSET T PROVE h[s] \in Int
      BY <1>1, <1>2, <1>3 DEF Sums
    <2> QED
      BY <2>1
  <1>5. h[{}] = 0
    BY DEF Sums
  <1>6. ASSUME NEW s \in SUBSET T, NEW x \in s PROVE h[s] = v[x] + h[s \ {x}]
    <2>1. s \ {x} \in SUBSET T
      OBVIOUS
    <2>2. CASE y \notin s
      <3>1. h[s] = g[s] /\ h[s \ {x}] = g[s \ {x}]
        BY <2>1, <2>2
      <3> QED
        BY <1>2, <2>2, <3>1 DEF Sums
    <2>3. CASE y \in s /\ x = y
      BY <2>1, <2>3
    <2>4. CASE y \in s /\ x # y
      <3> DEFINE a == s \ {y}
                 b == (s \ {x}) \ {y}
      <3>1. h[s] = v[y] + g[a] /\ h[s \ {x}] = v[y] + g[b]
        BY <2>1, <2>4
      <3>2. a \in SUBSET (T \ {y}) /\ b \in SUBSET (T \ {y}) /\ x \in a /\ b = a \ {x}
        BY <2>4
      <3> HIDE DEF a, b, h
      <3>3. g[a] = v[x] + g[b] /\ g[a] \in Int /\ g[b] \in Int
        BY <3>2 DEF Sums
      <3>4. v[x] \in Int
        BY <1>3
      <3> QED
        BY <1>3, <3>1, <3>3, <3>4
    <2> QED
      BY <2>2, <2>3, <2>4
  <1> HIDE DEF h
  <1>7. Sums(h, v, T)
    BY <1>4, <1>5, <1>6 DEF Sums
  <1> QED
    BY <1>7

(* Every finite set has its sum.                                             *)
LEMMA SumExists ==
    ASSUME NEW S, IsFiniteSet(S), NEW v \in [S -> Int]
    PROVE  \E g : Sums(g, v, S)
  <1> DEFINE Bad == {s \in SUBSET S : ~ \E g : Sums(g, v, s)}
  <1>1. SUFFICES ASSUME Bad # {} PROVE FALSE
    OBVIOUS
  <1>2. PICK s \in Bad : \A r \in Bad : r \subseteq s => r = s
    <2>1. Bad \subseteq SUBSET S
      OBVIOUS
    <2> HIDE DEF Bad
    <2> QED
      BY <1>1, <2>1, SmallestSubset
  <1>3. s # {}
    <2>1. Sums([z \in SUBSET {} |-> 0], v, {})
      BY DEF Sums
    <2> QED
      BY <2>1
  <1>4. PICK y \in s : TRUE
    BY <1>3
  <1>5. s \ {y} \in SUBSET S /\ s \ {y} \notin Bad
    BY <1>2, <1>4
  <1>6. PICK g : Sums(g, v, s \ {y})
    BY <1>5
  <1> DEFINE w == [x \in s |-> v[x]]
  <1>7. w \in [s -> Int] /\ \A x \in s : w[x] = v[x]
    OBVIOUS
  <1> HIDE DEF w
  <1>8. Sums(g, w, s \ {y})
    BY <1>6, <1>7 DEF Sums
  <1>9. PICK h : Sums(h, w, s)
    BY <1>4, <1>7, <1>8, SumsExtend
  <1>10. Sums(h, v, s)
    BY <1>7, <1>9 DEF Sums
  <1> QED
    BY <1>10

(* Two summations agree where their values do.                               *)
LEMMA SumsAgree ==
    ASSUME NEW S, IsFiniteSet(S), NEW A, NEW B, S \subseteq A, S \subseteq B,
           NEW v, NEW w, \A x \in S : v[x] = w[x],
           NEW g, Sums(g, v, A), NEW h, Sums(h, w, B)
    PROVE  g[S] = h[S]
  <1> DEFINE Bad == {s \in SUBSET S : g[s] # h[s]}
  <1>1. SUFFICES ASSUME Bad # {} PROVE FALSE
    OBVIOUS
  <1>2. PICK s \in Bad : \A r \in Bad : r \subseteq s => r = s
    <2>1. Bad \subseteq SUBSET S
      OBVIOUS
    <2> HIDE DEF Bad
    <2> QED
      BY <1>1, <2>1, SmallestSubset
  <1>3. s # {}
    BY DEF Sums
  <1>4. PICK y \in s : TRUE
    BY <1>3
  <1>5. g[s \ {y}] = h[s \ {y}]
    BY <1>2, <1>4
  <1>6. g[s] = v[y] + g[s \ {y}] /\ h[s] = w[y] + h[s \ {y}] /\ v[y] = w[y]
    BY <1>4 DEF Sums
  <1> QED
    BY <1>5, <1>6

(* The tokens that the streams in a map owe.                                 *)
Locked(stored, token) ==
    MapThenSumSet(LAMBDA id : IF stored[id].token = token THEN Owed(stored[id]) ELSE 0,
                  DOMAIN stored)
Owing(stored, token) ==
    [id \in DOMAIN stored |-> IF stored[id].token = token THEN Owed(stored[id]) ELSE 0]

LEMMA LockedIsSum ==
    ASSUME NEW stored, IsFiniteSet(DOMAIN stored), NEW token,
           \A id \in DOMAIN stored : Owed(stored[id]) \in Int,
           NEW g, Sums(g, Owing(stored, token), DOMAIN stored)
    PROVE  Locked(stored, token) = g[DOMAIN stored]
  <1> DEFINE S == DOMAIN stored
             v == Owing(stored, token)
             Step(h) == [s \in SUBSET S |->
                            IF s = {} THEN 0
                            ELSE (IF stored[CHOOSE x \in s : TRUE].token = token
                                  THEN Owed(stored[CHOOSE x \in s : TRUE]) ELSE 0)
                                 + h[s \ {CHOOSE x \in s : TRUE}]]
             iter == CHOOSE h : h = Step(h)
  <1>1. Locked(stored, token) = iter[S]
    BY DEF Locked, MapThenSumSet, MapThenFoldSet
  <1>2. ASSUME NEW s \in SUBSET S, s # {}
        PROVE  LET x == CHOOSE x \in s : TRUE
               IN  /\ x \in s /\ x \in S
                   /\ v[x] = IF stored[x].token = token THEN Owed(stored[x]) ELSE 0
    <2>1. (CHOOSE x \in s : TRUE) \in s
      BY <1>2
    <2> QED
      BY <2>1 DEF Owing
  <1>3. g = Step(g)
    <2>1. ASSUME NEW s \in SUBSET S PROVE g[s] = Step(g)[s]
      BY <1>2, <2>1 DEF Sums
    <2>2. DOMAIN g = SUBSET S /\ g = [s \in SUBSET S |-> g[s]]
      BY DEF Sums
    <2> QED
      BY <2>1, <2>2
  <1>4. iter = Step(iter)
    BY <1>3
  <1> HIDE DEF iter
  <1> DEFINE Bad == {s \in SUBSET S : g[s] # iter[s]}
  <1>5. SUFFICES ASSUME Bad # {} PROVE FALSE
    BY <1>1
  <1>6. PICK s \in Bad : \A r \in Bad : r \subseteq s => r = s
    <2>1. Bad \subseteq SUBSET S
      OBVIOUS
    <2> HIDE DEF Bad
    <2> QED
      BY <1>5, <2>1, SmallestSubset
  <1>7. iter[s] = Step(iter)[s] /\ g[s] = Step(g)[s]
    BY <1>3, <1>4
  <1>8. s # {}
    BY <1>7
  <1> DEFINE y == CHOOSE x \in s : TRUE
  <1>9. y \in s
    BY <1>8
  <1>10. g[s \ {y}] = iter[s \ {y}]
    BY <1>6, <1>9
  <1> QED
    BY <1>6, <1>7, <1>8, <1>10

(* What one stream of a map owes in a token.                                 *)
OwesIn(stored, id, token) ==
    IF id \in DOMAIN stored
    THEN IF stored[id].token = token THEN Owed(stored[id]) ELSE 0
    ELSE 0

LEMMA LockedParts ==
    ASSUME NEW stored, IsFiniteSet(DOMAIN stored), NEW token, NEW id,
           \A k \in DOMAIN stored : Owed(stored[k]) \in Nat
    PROVE  \E g : /\ Sums(g, Owing(stored, token), DOMAIN stored)
                 /\ Locked(stored, token) = g[DOMAIN stored]
                 /\ Locked(stored, token) = g[DOMAIN stored \ {id}] + OwesIn(stored, id, token)
                 /\ g[DOMAIN stored \ {id}] \in Int /\ OwesIn(stored, id, token) \in Nat
  <1> DEFINE v == Owing(stored, token)
             S == DOMAIN stored
  <1>1. v \in [S -> Int]
    BY DEF Owing
  <1>2. PICK g : Sums(g, v, S)
    BY <1>1, SumExists
  <1>3. Locked(stored, token) = g[S]
    BY <1>2, LockedIsSum
  <1>4. OwesIn(stored, id, token) \in Nat
    BY DEF OwesIn
  <1>5. g[S \ {id}] \in Int /\ g[S] \in Int
    BY <1>2 DEF Sums
  <1>6. CASE id \in S
    <2>1. g[S] = v[id] + g[S \ {id}]
      BY <1>2, <1>6 DEF Sums
    <2>2. v[id] = OwesIn(stored, id, token)
      BY <1>6 DEF Owing, OwesIn
    <2> QED
      BY <1>2, <1>3, <1>4, <1>5, <2>1, <2>2
  <1>7. CASE id \notin S
    <2>1. S \ {id} = S /\ OwesIn(stored, id, token) = 0
      BY <1>7 DEF OwesIn
    <2> QED
      BY <1>2, <1>3, <1>5, <2>1
  <1> QED
    BY <1>6, <1>7

(* Storing a stream changes the sum by what the stream owes, ...             *)
LEMMA LockedPut ==
    ASSUME NEW stored, IsFiniteSet(DOMAIN stored), NEW token, NEW id, NEW s,
           \A k \in DOMAIN stored : Owed(stored[k]) \in Nat, Owed(s) \in Nat
    PROVE  /\ IsFiniteSet(DOMAIN Put(stored, id, s))
           /\ \A k \in DOMAIN Put(stored, id, s) : Owed(Put(stored, id, s)[k]) \in Nat
           /\ Locked(stored, token) \in Int
           /\ Locked(Put(stored, id, s), token)
                = Locked(stored, token) - OwesIn(stored, id, token)
                  + (IF s.token = token THEN Owed(s) ELSE 0)
  <1> DEFINE more == Put(stored, id, s)
             U == DOMAIN stored \ {id}
             due == IF s.token = token THEN Owed(s) ELSE 0
  <1>1. /\ DOMAIN more = DOMAIN stored \cup {id} /\ more[id] = s
        /\ \A k \in DOMAIN stored : k # id => more[k] = stored[k]
    BY DEF Put
  <1> HIDE DEF more
  <1>2. IsFiniteSet(DOMAIN more) /\ IsFiniteSet(U)
    BY <1>1, FS_AddElement, FS_RemoveElement
  <1>3. \A k \in DOMAIN more : Owed(more[k]) \in Nat
    BY <1>1
  <1>4. PICK g : /\ Sums(g, Owing(stored, token), DOMAIN stored)
                 /\ Locked(stored, token) = g[U] + OwesIn(stored, id, token)
                 /\ g[U] \in Int /\ OwesIn(stored, id, token) \in Nat
    BY LockedParts
  <1>5. PICK h : /\ Sums(h, Owing(more, token), DOMAIN more)
                 /\ Locked(more, token) = h[DOMAIN more \ {id}] + OwesIn(more, id, token)
    BY <1>2, <1>3, LockedParts
  <1>6. DOMAIN more \ {id} = U /\ OwesIn(more, id, token) = due
    BY <1>1 DEF OwesIn
  <1>7. \A k \in U : Owing(stored, token)[k] = Owing(more, token)[k]
    BY <1>1 DEF Owing
  <1>8. U \subseteq DOMAIN stored /\ U \subseteq DOMAIN more
    BY <1>1
  <1> HIDE DEF U
  <1>9. g[U] = h[U]
    BY <1>2, <1>4, <1>5, <1>7, <1>8, SumsAgree
  <1>10. due \in Nat
    OBVIOUS
  <1> HIDE DEF due
  <1>11. /\ Locked(stored, token) \in Int
         /\ Locked(more, token) = Locked(stored, token) - OwesIn(stored, id, token) + due
    BY <1>4, <1>5, <1>6, <1>9, <1>10
  <1> QED
    BY <1>2, <1>3, <1>11 DEF more, due

(* ... and so does deleting one.                                             *)
LEMMA LockedDrop ==
    ASSUME NEW stored, IsFiniteSet(DOMAIN stored), NEW token, NEW id,
           \A k \in DOMAIN stored : Owed(stored[k]) \in Nat
    PROVE  /\ IsFiniteSet(DOMAIN Drop(stored, id))
           /\ Locked(stored, token) \in Int
           /\ Locked(Drop(stored, id), token)
                = Locked(stored, token) - OwesIn(stored, id, token)
  <1> DEFINE less == Drop(stored, id)
             U == DOMAIN stored \ {id}
  <1>1. DOMAIN less = U /\ \A k \in U : less[k] = stored[k]
    BY DEF Drop
  <1> HIDE DEF less
  <1>2. IsFiniteSet(U)
    BY FS_RemoveElement
  <1>3. \A k \in DOMAIN less : Owed(less[k]) \in Nat
    BY <1>1
  <1>4. PICK g : /\ Sums(g, Owing(stored, token), DOMAIN stored)
                 /\ Locked(stored, token) = g[U] + OwesIn(stored, id, token)
                 /\ g[U] \in Int /\ OwesIn(stored, id, token) \in Nat
    BY LockedParts
  <1>5. PICK h : /\ Sums(h, Owing(less, token), DOMAIN less)
                 /\ Locked(less, token) = h[DOMAIN less]
    BY <1>1, <1>2, <1>3, LockedParts
  <1>6. \A k \in U : Owing(stored, token)[k] = Owing(less, token)[k]
    BY <1>1 DEF Owing
  <1>7. U \subseteq DOMAIN stored /\ U \subseteq DOMAIN less
    BY <1>1
  <1> HIDE DEF U
  <1>8. g[U] = h[U]
    BY <1>2, <1>4, <1>5, <1>6, <1>7, SumsAgree
  <1>9. /\ Locked(stored, token) \in Int
        /\ Locked(less, token) = Locked(stored, token) - OwesIn(stored, id, token)
    BY <1>1, <1>4, <1>5, <1>8
  <1> QED
    BY <1>1, <1>2, <1>9 DEF less

-----------------------------------------------------------------------------
(* The contract holds what its streams owe together.                         *)
SolvencyInv == IsFiniteSet(DOMAIN streams) /\ Solvent

LEMMA SolventIs ==
    /\ Solvent <=> \A token \in Tokens : bal[token][Contract] >= Locked(streams, token)
    /\ Solvent' <=> \A token \in Tokens : bal'[token][Contract] >= Locked(streams', token)
  <1>1. Solvent <=> \A token \in Tokens : bal[token][Contract] >= Locked(streams, token)
    BY DEF Solvent, Locked
  <1>2. Solvent' <=> (\A token \in Tokens : bal[token][Contract] >= Locked(streams, token))'
    BY <1>1, PTL
  <1> QED
    BY <1>1, <1>2

(* A step that takes in at least what the sum grows by keeps it.             *)
LEMMA StaysSolvent ==
    ASSUME ContractInv, ContractInv', SolvencyInv, NEW token \in Tokens, NEW d \in Int,
           Income(token) >= d, OthersStand(token),
           Locked(streams', token) <= Locked(streams, token) + d,
           \A t \in Tokens \ {token} : Locked(streams', t) <= Locked(streams, t),
           \A t \in Tokens : Locked(streams, t) \in Int /\ Locked(streams', t) \in Int,
           IsFiniteSet(DOMAIN streams')
    PROVE  SolvencyInv'
  <1>1. \A t \in Tokens : bal[t][Contract] >= Locked(streams, t)
    BY SolventIs DEF SolvencyInv
  <1>2. ASSUME NEW t \in Tokens PROVE bal'[t][Contract] >= Locked(streams', t)
    <2>1. /\ bal[t][Contract] \in Nat /\ bal'[t][Contract] \in Nat
          /\ Locked(streams, t) \in Int /\ Locked(streams', t) \in Int
      BY IncomeIsInt
    <2>2. CASE t = token
      BY <1>1, <2>1, <2>2 DEF Income
    <2>3. CASE t # token
      <3>1. bal'[t][Contract] = bal[t][Contract] /\ Locked(streams', t) <= Locked(streams, t)
        BY <2>3 DEF OthersStand
      <3> QED
        BY <1>1, <2>1, <3>1
    <2> QED
      BY <2>2, <2>3
  <1> QED
    BY <1>2, SolventIs DEF SolvencyInv

LEMMA StepStaysSolvent ==
    ASSUME ContractInv, SolvencyInv, [Next]_vars
    PROVE  SolvencyInv'
  <1>1. ContractInv' /\ now \in Nat /\ IsFiniteSet(DOMAIN streams)
    BY NextInv, Basics DEF SolvencyInv
  <1>2. \A k \in DOMAIN streams : Owed(streams[k]) \in Nat
    BY <1>1, Basics, OwedIsNat
  <1>3. CASE UNCHANGED streams /\ \A t \in Tokens : bal'[t][Contract] = bal[t][Contract]
    BY <1>3, SolventIs DEF SolvencyInv
  <1>4. ASSUME NEW i, NEW s, Opens(i, s) PROVE SolvencyInv'
    <2>1. /\ streams' = Put(streams, i, s) /\ i \notin DOMAIN streams
          /\ s.token \in Tokens /\ OthersStand(s.token) /\ Income(s.token) = Owed(s)
      BY <1>4 DEF Opens, SaveStream
    <2>2. PICK owed \in Nat : owed = Owed(s)
      BY <1>1, <1>4, OwedIsNat DEF Opens
    <2>3. ASSUME NEW t
          PROVE  /\ IsFiniteSet(DOMAIN streams') /\ Locked(streams, t) \in Int
                 /\ Locked(streams', t)
                      = Locked(streams, t) - OwesIn(streams, i, t)
                        + (IF s.token = t THEN owed ELSE 0)
      BY <1>1, <1>2, <2>1, <2>2, LockedPut
    <2>4. \A t : OwesIn(streams, i, t) = 0
      BY <2>1 DEF OwesIn
    <2>5. Income(s.token) >= owed
      BY <2>1, <2>2
    <2> QED
      BY <1>1, <2>1, <2>2, <2>3, <2>4, <2>5, StaysSolvent
  <1>5. ASSUME NEW i, NEW r, Changes(i, r) PROVE SolvencyInv'
    <2> DEFINE token == streams[i].token
    <2>1. /\ streams' = Put(streams, i, r) /\ i \in DOMAIN streams /\ token \in Tokens
          /\ OthersStand(token) /\ r.token = token
          /\ Income(token) >= Owed(r) - Owed(streams[i])
      BY <1>5, Basics DEF Changes, SaveStream
    <2>2. PICK after \in Nat : after = Owed(r)
      BY <1>1, <1>5, OwedIsNat DEF Changes
    <2>3. PICK before \in Nat : before = Owed(streams[i])
      BY <1>2, <2>1
    <2> HIDE DEF token
    <2>4. ASSUME NEW t
          PROVE  /\ IsFiniteSet(DOMAIN streams') /\ Locked(streams, t) \in Int
                 /\ Locked(streams', t)
                      = Locked(streams, t) - OwesIn(streams, i, t)
                        + (IF r.token = t THEN after ELSE 0)
      <3>1. Owed(r) \in Nat
        BY <2>2
      <3>2. /\ IsFiniteSet(DOMAIN Put(streams, i, r)) /\ Locked(streams, t) \in Int
            /\ Locked(Put(streams, i, r), t)
                 = Locked(streams, t) - OwesIn(streams, i, t)
                   + (IF r.token = t THEN Owed(r) ELSE 0)
        BY <1>1, <1>2, <3>1, LockedPut
      <3>3. streams' = Put(streams, i, r)
        BY <2>1
      <3> QED
        BY <2>2, <3>2, <3>3
    <2>5. \A t : OwesIn(streams, i, t) = IF token = t THEN before ELSE 0
      BY <2>1, <2>3 DEF OwesIn, token
    <2>6. PICK d \in Int : d = after - before
      OBVIOUS
    <2>7. Income(token) >= d
      BY <2>1, <2>2, <2>3, <2>6
    <2> QED
      BY <1>1, <2>1, <2>4, <2>5, <2>6, <2>7, StaysSolvent
  <1>6. ASSUME NEW i, Closes(i) PROVE SolvencyInv'
    <2> DEFINE token == streams[i].token
    <2>1. /\ streams' = Drop(streams, i) /\ i \in DOMAIN streams /\ token \in Tokens
          /\ OthersStand(token) /\ Income(token) >= 0 - Owed(streams[i])
      BY <1>6, Basics DEF Closes, RemoveStream
    <2>2. PICK before \in Nat : before = Owed(streams[i])
      BY <1>2, <2>1
    <2> HIDE DEF token
    <2>3. ASSUME NEW t
          PROVE  /\ IsFiniteSet(DOMAIN streams') /\ Locked(streams, t) \in Int
                 /\ Locked(streams', t) = Locked(streams, t) - OwesIn(streams, i, t)
      BY <1>1, <1>2, <2>1, LockedDrop
    <2>4. \A t : OwesIn(streams, i, t) = IF token = t THEN before ELSE 0
      BY <2>1, <2>2 DEF OwesIn, token
    <2>5. PICK d \in Int : d = 0 - before
      OBVIOUS
    <2>6. Income(token) >= d
      BY <2>1, <2>2, <2>5
    <2> QED
      BY <1>1, <2>1, <2>3, <2>4, <2>5, <2>6, StaysSolvent
  <1>7. ASSUME NEW i, NEW new, NEW r, Divides(i, new, r) PROVE SolvencyInv'
    <2> DEFINE token == streams[i].token
               closed == [streams[i] EXCEPT !.status = "Cancelled"]
               mid == Put(streams, i, closed)
    <2>1. /\ streams' = Put(mid, new, r) /\ i \in DOMAIN streams /\ token \in Tokens
          /\ OthersStand(token) /\ r.token = token
          /\ Income(token) >= Owed(r) - Owed(streams[i])
      BY <1>7, Basics DEF Divides
    <2>2. Owed(closed) = 0 /\ closed.token = token
      <3>1. streams[i] \in Streams
        BY <2>1, Basics
      <3> QED
        BY <3>1 DEF Streams, Owed, Live
    <2>3. PICK after \in Nat : after = Owed(r)
      BY <1>1, <1>7, OwedIsNat DEF Divides
    <2>4. PICK before \in Nat : before = Owed(streams[i])
      BY <1>2, <2>1
    <2>5. PICK middle : middle = mid
      OBVIOUS
    <2> HIDE DEF token, closed
    <2>6. ASSUME NEW t
          PROVE  /\ IsFiniteSet(DOMAIN middle) /\ Locked(streams, t) \in Int
                 /\ \A k \in DOMAIN middle : Owed(middle[k]) \in Nat
                 /\ Locked(middle, t) = Locked(streams, t) - OwesIn(streams, i, t)
                                        + (IF closed.token = t THEN 0 ELSE 0)
      <3>1. Owed(closed) \in Nat
        BY <2>2
      <3>2. /\ IsFiniteSet(DOMAIN mid) /\ Locked(streams, t) \in Int
            /\ \A k \in DOMAIN mid : Owed(mid[k]) \in Nat
            /\ Locked(mid, t) = Locked(streams, t) - OwesIn(streams, i, t)
                                + (IF closed.token = t THEN Owed(closed) ELSE 0)
        BY <1>1, <1>2, <3>1, LockedPut
      <3> QED
        BY <2>2, <2>5, <3>2
    <2>7. \A t : OwesIn(streams, i, t) = IF token = t THEN before ELSE 0
      BY <2>1, <2>4 DEF OwesIn, token
    <2>8. ASSUME NEW t
          PROVE  /\ IsFiniteSet(DOMAIN streams') /\ Locked(middle, t) \in Int
                 /\ Locked(streams', t)
                      = Locked(middle, t) - OwesIn(middle, new, t)
                        + (IF r.token = t THEN after ELSE 0)
      <3>1. Owed(r) \in Nat
        BY <2>3
      <3>2. /\ IsFiniteSet(DOMAIN Put(middle, new, r)) /\ Locked(middle, t) \in Int
            /\ Locked(Put(middle, new, r), t)
                 = Locked(middle, t) - OwesIn(middle, new, t)
                   + (IF r.token = t THEN Owed(r) ELSE 0)
        BY <2>6, <3>1, LockedPut
      <3>3. streams' = Put(middle, new, r)
        BY <2>1, <2>5
      <3> QED
        BY <2>3, <3>2, <3>3
    <2>9. \A t : OwesIn(middle, new, t) \in Nat
      BY <2>6 DEF OwesIn
    <2>10. PICK d \in Int : d = after - before
      OBVIOUS
    <2>11. Income(token) >= d
      BY <2>1, <2>3, <2>4, <2>10
    <2>12. ASSUME NEW t
           PROVE  /\ Locked(streams', t) \in Int /\ Locked(streams, t) \in Int
                  /\ Locked(streams', t) <= Locked(streams, t) + (IF token = t THEN d ELSE 0)
      BY <2>1, <2>6, <2>7, <2>8, <2>9, <2>10
    <2> QED
      BY <1>1, <2>1, <2>8, <2>10, <2>11, <2>12, StaysSolvent
  <1>8. CASE StreamNext
    BY <1>3, <1>4, <1>5, <1>6, <1>7, <1>8, StreamStepEffect DEF StreamEffect, Rests
  <1> QED
    BY <1>3, <1>8, OtherSteps DEF streamVars

LEMMA StartsSolvent == Init => SolvencyInv
  <1> SUFFICES ASSUME Init PROVE SolvencyInv
    OBVIOUS
  <1>1. streams = <<>> /\ \A token \in Tokens : bal[token][Contract] = 0
    BY ContractApart DEF Init, LedgerInit
  <1>2. DOMAIN streams = {} /\ IsFiniteSet({})
    BY <1>1, FS_EmptySet
  <1>3. ASSUME NEW token PROVE Locked(streams, token) = 0
    <2>1. PICK g : /\ Sums(g, Owing(streams, token), DOMAIN streams)
                   /\ Locked(streams, token) = g[DOMAIN streams]
      BY <1>2, LockedParts
    <2> QED
      BY <1>2, <2>1 DEF Sums
  <1> QED
    BY <1>1, <1>2, <1>3, SolventIs DEF SolvencyInv

(* Of every token the contract holds at least what all its live streams owe  *)
(* together: the parties can be paid in any order.                           *)
THEOREM ContractSolvent == Spec => []Solvent
  <1>1. ContractInv /\ SolvencyInv /\ [Next]_vars => SolvencyInv'
    BY StepStaysSolvent
  <1>2. SolvencyInv => Solvent
    BY DEF SolvencyInv
  <1> QED
    BY <1>1, <1>2, StartsSolvent, ContractSafety, PTL DEF Spec
-----------------------------------------------------------------------------
(* What the treasury gains, and what leaves the contract.                    *)
Gain(token) == bal'[token][treasury] - bal[token][treasury]
Out(token) == bal[token][Contract] - bal'[token][Contract]
ExemptServed(token) ==
    \E id \in DOMAIN streams : /\ escrow'[id] < escrow[id]
                               /\ streams[id].token = token
                               /\ streams[id].recipient \in fee_exempt
TakesItsShare(token) ==
    \/ Out(token) > 0 /\ Gain(token) * BASIS_POINTS <= fee_bps * Out(token)
                      /\ (ExemptServed(token) => Gain(token) = 0)
    \/ Out(token) <= 0 /\ Gain(token) <= creation_fee

(* The treasury is not one of those a stream pays.                           *)
Outsider(s) == treasury \in Users /\ treasury # s.sender /\ treasury # s.recipient

(* The fees are numbers, and the rate is at most one hundred percent.        *)
LEMMA FeeNumbers ==
    ASSUME FeesTypeOK
    PROVE  fee_bps \in Nat /\ fee_bps \in 0..BASIS_POINTS /\ creation_fee \in Nat
  <1>1. fee_bps \in 0..BASIS_POINTS /\ creation_fee \in Nat
    BY Zenon DEF FeesTypeOK
  <1> QED
    BY <1>1 DEF BASIS_POINTS

(* A treasury that gains nothing takes no more than its share.               *)
LEMMA NoGain ==
    ASSUME FeesTypeOK, NEW token, Gain(token) = 0, Out(token) \in Int
    PROVE  TakesItsShare(token)
  <1>1. ASSUME NEW n \in Nat, NEW k \in Nat PROVE n * k \in Nat
    BY <1>1
  <1>2. fee_bps \in Nat /\ creation_fee \in Nat
    BY FeeNumbers
  <1>3. CASE Out(token) > 0
    <2>1. Out(token) \in Nat
      BY <1>3
    <2>2. fee_bps * Out(token) \in Nat
      BY <1>1, <1>2, <2>1
    <2>3. Gain(token) * BASIS_POINTS = 0
      BY DEF BASIS_POINTS
    <2> QED
      BY <1>3, <2>2, <2>3 DEF TakesItsShare
  <1>4. CASE ~(Out(token) > 0)
    BY <1>2, <1>4 DEF TakesItsShare
  <1> QED
    BY <1>3, <1>4

(* A share rounds down; more that leaves with the claim does not raise it.   *)
LEMMA ShareOfMore ==
    ASSUME NEW c \in Nat, NEW bps \in Nat, NEW out \in Nat, out >= c
    PROVE  ((c * bps) \div BASIS_POINTS) * BASIS_POINTS <= bps * out
  <1>1. c * bps \in Nat /\ bps * out \in Nat /\ c * bps <= bps * out
    <2>1. bps * c \in Nat /\ bps * out \in Nat /\ bps * c <= bps * out
      BY FlowOrder
    <2> QED
      BY <2>1
  <1>2. PICK m \in Nat : m = c * bps
    BY <1>1
  <1>3. (m \div 10000) * 10000 <= m
    OBVIOUS
  <1> QED
    BY <1>1, <1>2, <1>3 DEF BASIS_POINTS

(* A treasury that gains the fee of a claim takes its share of what leaves.  *)
LEMMA FeeGain ==
    ASSUME FeesTypeOK, NEW token, NEW payee, NEW c \in Nat,
           ProtocolFee(c, payee) # None,
           Gain(token) = ProtocolFee(c, payee), Out(token) \in Int, Out(token) >= c,
           ExemptServed(token) => payee \in fee_exempt
    PROVE  TakesItsShare(token)
  <1>1. fee_bps \in Nat /\ creation_fee \in Nat
    BY FeeNumbers
  <1>2. CASE c > 0 /\ fee_bps > 0 /\ payee \notin fee_exempt
    <2>1. Gain(token) = (c * fee_bps) \div BASIS_POINTS
      BY <1>2 DEF ProtocolFee
    <2>2. Out(token) \in Nat /\ Out(token) > 0
      BY <1>2
    <2>3. Gain(token) * BASIS_POINTS <= fee_bps * Out(token)
      BY <1>1, <2>1, <2>2, ShareOfMore
    <2> QED
      BY <1>2, <2>2, <2>3 DEF TakesItsShare
  <1>3. CASE ~(c > 0 /\ fee_bps > 0 /\ payee \notin fee_exempt)
    BY <1>3, NoGain DEF ProtocolFee
  <1> QED
    BY <1>2, <1>3

(* What a payment of the contract leaves the treasury.                       *)
LEMMA OthersUnpaid ==
    ASSUME NEW token \in Tokens, NEW b, Loan(b, token), NEW to \in Users, NEW n \in Nat,
           NEW u \in Users, u # to
    PROVE  \A t \in Tokens : PayOut(b, token, to, n)[t][u] = b[t][u]
  BY PayOutPays, ContractApart

(* A transfer leaves third parties alone.                                    *)
LEMMA MoveBetween ==
    ASSUME NEW token \in Tokens, NEW b \in [Tokens -> [Accounts -> Int]],
           NEW from \in Accounts, NEW to \in Accounts, NEW n \in Nat,
           NEW u \in Accounts, u # from, u # to
    PROVE  \A t \in Tokens : Move(b, token, from, to, n)[t][u] = b[t][u]
  <1> DEFINE debited == [b EXCEPT ![token][from] = @ - n]
             paid == [debited EXCEPT ![token][to] = @ + n]
  <1>1. /\ debited \in [Tokens -> [Accounts -> Int]]
        /\ \A t \in Tokens : debited[t][u] = b[t][u]
    OBVIOUS
  <1> HIDE DEF debited
  <1>2. \A t \in Tokens : paid[t][u] = debited[t][u]
    BY <1>1
  <1> QED
    BY <1>1, <1>2 DEF Move, debited

(* The treasury gets the fee of a claim, out of the claim.                   *)
LEMMA ClaimFeeds ==
    ASSUME FeesTypeOK, NEW s \in Streams, Outsider(s), NEW c \in Nat, bal \in Balances,
           NEW forwarded \in Nat, ClaimPaid(s, c, forwarded)
    PROVE  LET paid == AfterClaim(s, c, forwarded)
           IN  /\ ProtocolFee(c, s.recipient) \in Nat
               /\ paid[s.token][treasury] = bal[s.token][treasury] + ProtocolFee(c, s.recipient)
               /\ paid[s.token][Contract] = bal[s.token][Contract] - c
               /\ \A t \in Tokens \ {s.token} : paid[t][treasury] = bal[t][treasury]
  <1> DEFINE fee == ProtocolFee(c, s.recipient)
             served == PayOut(bal, s.token, s.recipient, c - fee)
             paid == PayClaim(bal, s.token, s.recipient, c, fee)
  <1>1. /\ s.token \in Tokens /\ s.recipient \in Users /\ s.sender \in Users
        /\ treasury \in Users /\ treasury # None
        /\ treasury # s.sender /\ treasury # s.recipient
    BY OutsideAssumption DEF Streams, Outsider
  <1>2. fee \in 0..c
    <2>1. fee # None /\ fee_bps \in 0..BASIS_POINTS
      BY FeeNumbers DEF ClaimPaid
    <2> QED
      BY <2>1, FeePart DEF ProtocolFee
  <1>3. paid = PayOut(served, s.token, treasury, fee)
    BY <1>1 DEF PayClaim
  <1>4. /\ Funded(paid, s.token) /\ CanPay(paid, s.token, s.recipient, forwarded)
        /\ AfterClaim(s, c, forwarded) = Move(paid, s.token, s.recipient, s.sender, forwarded)
    BY DEF ClaimPaid, AfterClaim
  <1> HIDE DEF fee
  <1>5. PICK rest \in Nat : rest = c - fee
    BY <1>2
  <1>6. Loan(bal, s.token)
    BY <1>1, BalancesAreLoan
  <1>20. served = PayOut(bal, s.token, s.recipient, rest)
    BY <1>5
  <1> HIDE DEF served, paid
  <1>7. /\ Loan(served, s.token)
        /\ served[s.token][Contract] = bal[s.token][Contract] - rest
        /\ bal[s.token][Contract] \in Int
    BY <1>1, <1>5, <1>6, <1>20, PayOutCosts, ZenonT(60)
  <1>21. \A t \in Tokens : served[t][treasury] = bal[t][treasury]
    BY <1>1, <1>5, <1>6, <1>20, OthersUnpaid
  <1>8. fee \in Nat
    BY <1>2
  <1>9. /\ Loan(paid, s.token)
        /\ paid[s.token][Contract] = served[s.token][Contract] - fee
    BY <1>1, <1>3, <1>7, <1>8, PayOutCosts, ZenonT(60)
  <1>22. /\ PayOut(served, s.token, treasury, fee)[s.token][treasury]
              = served[s.token][treasury] + fee
         /\ \A t \in Tokens, a \in Accounts :
               t # s.token \/ (a # treasury /\ a # Contract)
               => PayOut(served, s.token, treasury, fee)[t][a] = served[t][a]
    BY <1>1, <1>7, <1>8, PayOutPays
  <1>23. /\ paid[s.token][treasury] = served[s.token][treasury] + fee
         /\ \A t \in Tokens \ {s.token} : paid[t][treasury] = served[t][treasury]
    BY <1>1, <1>3, <1>22, ContractApart
  <1>10. paid \in Balances
    BY <1>1, <1>4, <1>9, LoanFunded
  <1>11. \A t \in Tokens : AfterClaim(s, c, forwarded)[t][treasury] = paid[t][treasury]
    <2>1. paid \in [Tokens -> [Accounts -> Int]]
      BY <1>9 DEF Loan
    <2>2. treasury \in Accounts /\ s.recipient \in Accounts /\ s.sender \in Accounts
      BY <1>1, ContractApart
    <2>3. \A t \in Tokens : Move(paid, s.token, s.recipient, s.sender, forwarded)[t][treasury]
                            = paid[t][treasury]
      BY <1>1, <2>1, <2>2, MoveBetween
    <2> QED
      BY <1>4, <2>3
  <1>12. AfterClaim(s, c, forwarded)[s.token][Contract] = paid[s.token][Contract]
    BY <1>1, <1>4, <1>10, UserPays, ContractApart
  <1>13. AfterClaim(s, c, forwarded)[s.token][Contract] = bal[s.token][Contract] - c
    BY <1>2, <1>5, <1>7, <1>9, <1>12
  <1> QED
    BY <1>1, <1>8, <1>11, <1>13, <1>21, <1>23 DEF fee

(* The same of a step: what does not touch the treasury respects its share.  *)
LEMMA NothingGained ==
    ASSUME ContractInv, ContractInv', treasury \in Users, NEW t \in Tokens,
           bal'[t][treasury] = bal[t][treasury]
    PROVE  TakesItsShare(t)
  <1>1. bal \in Balances /\ bal' \in Balances /\ FeesTypeOK
    BY Basics DEF ContractInv, MoneyInv
  <1>2. /\ bal[t][treasury] \in Nat /\ bal[t][Contract] \in Nat /\ bal'[t][Contract] \in Nat
    BY <1>1, ContractApart DEF Balances
  <1>3. Gain(t) = 0 /\ Out(t) \in Int
    BY <1>2 DEF Gain, Out
  <1> QED
    BY <1>1, <1>3, NoGain

(* A claim of stream id, and what may leave the contract besides.            *)
LEMMA ClaimShares ==
    ASSUME ContractInv, ContractInv', NEW id \in DOMAIN streams, Outsider(streams[id]),
           NEW c \in Nat, NEW forwarded \in Nat, ClaimPaid(streams[id], c, forwarded),
           NEW token, token = streams[id].token, Book(id, token),
           NEW paid, paid = AfterClaim(streams[id], c, forwarded),
           \A t \in Tokens : bal'[t][treasury] = paid[t][treasury],
           bal'[token][Contract] <= paid[token][Contract]
    PROVE  \A t \in Tokens : TakesItsShare(t)
  <1> DEFINE payee == streams[id].recipient
             fee == ProtocolFee(c, payee)
  <1>1. /\ streams[id] \in Streams /\ bal \in Balances /\ FeesTypeOK /\ bal' \in Balances
        /\ treasury \in Users /\ token \in Tokens
    BY Basics DEF ContractInv, MoneyInv, Outsider
  <1>2. /\ fee \in Nat /\ paid[token][treasury] = bal[token][treasury] + fee
        /\ paid[token][Contract] = bal[token][Contract] - c
        /\ \A t \in Tokens \ {token} : paid[t][treasury] = bal[t][treasury]
    BY <1>1, ClaimFeeds
  <1>3. fee # None
    BY DEF ClaimPaid
  <1>4. /\ bal[token][treasury] \in Nat /\ bal[token][Contract] \in Nat
        /\ bal'[token][Contract] \in Nat
    BY <1>1, ContractApart DEF Balances
  <1>5. ExemptServed(token) => payee \in fee_exempt
    <2>1. DOMAIN streams \subseteq DOMAIN escrow /\ \A k \in DOMAIN escrow : escrow[k] \in Nat
      BY Basics DEF AllGood
    <2>2. \A k \in DOMAIN escrow : k # id => escrow'[k] = escrow[k]
      BY BookEffect
    <2>3. ASSUME NEW k \in DOMAIN streams, escrow'[k] < escrow[k] PROVE k = id
      <3>1. k \in DOMAIN escrow /\ escrow[k] \in Nat /\ ~(escrow[k] < escrow[k])
        BY <2>1
      <3> QED
        BY <2>2, <2>3, <3>1
    <2> QED
      BY <2>3 DEF ExemptServed
  <1> HIDE DEF fee
  <1>6. Gain(token) = fee /\ Out(token) \in Int /\ Out(token) >= c
    BY <1>1, <1>2, <1>4 DEF Gain, Out
  <1>7. TakesItsShare(token)
    BY <1>1, <1>3, <1>5, <1>6, FeeGain DEF fee
  <1>8. ASSUME NEW t \in Tokens \ {token} PROVE TakesItsShare(t)
    BY <1>1, <1>2, NothingGained
  <1> QED
    BY <1>7, <1>8

(* A withdrawal pays the fee, and its refund of dust raises only the total.  *)
LEMMA WithdrawShares ==
    ASSUME ContractInv, ContractInv', NEW id \in DOMAIN streams, Outsider(streams[id]),
           NEW forwarded \in Forwards, withdraw(id, forwarded),
           NEW t \in Tokens, ~RenewalDue(t)
    PROVE  TakesItsShare(t)
  <1> DEFINE s == streams[id]
             c == Claimable(s, now)
             served == Served(s, c, now)
             paid == AfterClaim(s, c, forwarded)
             settled == PayOut(paid, served.token, served.sender, Dust(served))
  <1>1. /\ s.status = "Active" /\ ClaimPaid(s, c, forwarded) /\ Book(id, s.token)
        /\ \/ KeepFlowing(id, served, paid) \/ Settle(id, served, paid)
           \/ Renew(id, served, paid) \/ FailRenewal(id, served, paid)
    BY DEF withdraw
  <1>2. /\ s \in Streams /\ ScheduleSound(s) /\ Live(s) /\ StreamClock(s) = now
        /\ s.token \in Tokens /\ s.sender \in Users /\ now \in Nat
        /\ treasury \in Users /\ treasury # s.sender
    BY <1>1, Basics DEF GoodStream, Live, StreamClock, Outsider
  <1>3. Payable(s, c) /\ forwarded \in Nat
    BY <1>2, ClaimablePayable, StreamInputs
  <1>4. /\ served \in Streams /\ served.token = s.token /\ served.sender = s.sender
        /\ served.end_time = s.end_time /\ served.deposit = s.deposit
        /\ c \in Nat /\ Dust(served) \in Nat /\ paid \in Balances
        /\ paid[s.token][Contract] \in Nat
    BY <1>1, <1>2, <1>3, ClaimEffect
  <1>5. served.auto_renew = s.auto_renew
    BY <1>2 DEF Served, Streams
  <1> HIDE DEF c, served, paid
  <1>6. CASE KeepFlowing(id, served, paid)
    <2>1. bal' = paid
      BY <1>6 DEF KeepFlowing
    <2> QED
      BY <1>1, <1>3, <1>4, <2>1, ClaimShares DEF paid
  <1>7. ASSUME Funded(settled, served.token), bal' = settled
        PROVE  TakesItsShare(t)
    <2>1. Loan(paid, s.token)
      BY <1>2, <1>4, BalancesAreLoan
    <2>2. settled[s.token][Contract] = paid[s.token][Contract] - Dust(served)
      BY <1>2, <1>4, <1>7, SettlementCosts
    <2>3. \A k \in Tokens : settled[k][treasury] = paid[k][treasury]
      BY <1>2, <1>4, <2>1, OthersUnpaid
    <2> HIDE DEF settled
    <2>4. bal'[s.token][Contract] <= paid[s.token][Contract]
      BY <1>4, <1>7, <2>2
    <2> QED
      BY <1>1, <1>3, <1>4, <1>7, <2>3, <2>4, ClaimShares DEF paid
  <1>8. CASE Settle(id, served, paid) \/ FailRenewal(id, served, paid)
    BY <1>7, <1>8 DEF Settle, FailRenewal
  <1>9. CASE Renew(id, served, paid)
    <2>1. /\ now >= s.end_time /\ s.auto_renew
          /\ bal' = Move(paid, s.token, s.sender, Contract, s.deposit)
      BY <1>4, <1>5, <1>9 DEF Renew
    <2>2. t # s.token
      BY <1>2, <2>1 DEF RenewalDue, LiveIds
    <2>3. paid[t][treasury] = bal[t][treasury]
      BY <1>1, <1>2, <1>3, <1>4, <2>2, Basics, ClaimFeeds DEF paid
    <2>4. bal'[t][treasury] = paid[t][treasury]
      <3>1. paid \in [Tokens -> [Accounts -> Int]] /\ s.deposit \in Nat
        BY <1>2, <1>4, BalancesAreLoan, StreamFields DEF Loan
      <3> QED
        BY <1>2, <2>1, <3>1, MoveBetween, ContractApart
    <2> QED
      BY <1>2, <2>3, <2>4, NothingGained
  <1> QED
    BY <1>1, <1>6, <1>8, <1>9

(* A transfer to a new recipient pays the old one first, with its fee.       *)
LEMMA TransferShares ==
    ASSUME ContractInv, ContractInv', NEW id \in DOMAIN streams, Outsider(streams[id]),
           NEW new_recipient, transfer_recipient(id, new_recipient)
    PROVE  \A t \in Tokens : TakesItsShare(t)
  <1> DEFINE s == streams[id]
             t == StreamClock(s)
             c == IF t >= s.lock_until THEN Claimable(s, t) ELSE 0
             paid == AfterClaim(s, c, 0)
  <1>1. Live(s) /\ ClaimPaid(s, c, 0) /\ bal' = paid /\ Book(id, s.token)
    BY DEF transfer_recipient
  <1>2. s \in Streams /\ ScheduleSound(s) /\ now \in Nat /\ s.token \in Tokens
    BY <1>1, Basics DEF GoodStream
  <1>3. c \in Nat /\ 0 \in Nat
    BY <1>2, ClaimablePayable DEF Payable
  <1>4. bal'[s.token][Contract] \in Nat
    BY <1>2, Basics, ContractApart DEF ContractInv, MoneyInv, Balances
  <1>5. bal'[s.token][Contract] <= paid[s.token][Contract]
    BY <1>1, <1>4
  <1> HIDE DEF c, paid
  <1> QED
    BY <1>1, <1>3, <1>5, ClaimShares DEF paid

(* A creation brings the treasury the creation fee, whatever the token.      *)
LEMMA ChargedTreasury ==
    ASSUME ContractInv, NEW sender \in Users, CanPayCreationFee(bal, sender),
           treasury \in Users, treasury # sender, NEW t \in Tokens
    PROVE  /\ PayCreationFee(bal, sender)[t][treasury] \in Int
           /\ PayCreationFee(bal, sender)[t][treasury] <= bal[t][treasury] + creation_fee
  <1>1. /\ bal \in Balances /\ bal[t][treasury] \in Nat /\ creation_fee \in Nat
        /\ treasury \in Accounts /\ sender \in Accounts
    BY Basics, ContractApart, FeeNumbers DEF Balances
  <1>2. CASE creation_fee > 0
    <2>1. xlm_token \in Tokens
      BY <1>2, Basics DEF CanPayCreationFee, FeesTypeOK
    <2> DEFINE debited == [bal EXCEPT ![xlm_token][sender] = @ - creation_fee]
               paid == [debited EXCEPT ![xlm_token][treasury] = @ + creation_fee]
    <2>2. /\ debited \in [Tokens -> [Accounts -> Int]]
          /\ debited[t][treasury] = bal[t][treasury]
      BY <1>1, <2>1 DEF Balances
    <2> HIDE DEF debited
    <2>3. paid[t][treasury] \in {debited[t][treasury], debited[t][treasury] + creation_fee}
      BY <1>1, <2>1, <2>2
    <2>4. PayCreationFee(bal, sender) = paid
      BY <1>2 DEF PayCreationFee, Move, debited
    <2> HIDE DEF paid
    <2> QED
      BY <1>1, <2>2, <2>3, <2>4
  <1>3. CASE ~(creation_fee > 0)
    BY <1>1, <1>3 DEF PayCreationFee
  <1> QED
    BY <1>2, <1>3

(* A creation takes nothing out and brings at most the creation fee.         *)
LEMMA CreateShares ==
    ASSUME ContractInv, ContractInv', NEW sender \in Senders, NEW recipient \in Recipients,
           NEW token \in Tokens, NEW amount \in Amounts, NEW nonce \in Nonces,
           NEW terms \in Terms,
           create_stream(sender, recipient, token, amount, nonce, terms),
           treasury \in Users, treasury # sender, NEW t \in Tokens
    PROVE  TakesItsShare(t)
  <1> DEFINE charged == PayCreationFee(bal, sender)
  <1>1. /\ sender \in Users /\ amount \in I128 /\ amount > 0
        /\ CanPayCreationFee(bal, sender) /\ CanPay(charged, token, sender, amount)
        /\ bal' = Move(charged, token, sender, Contract, amount)
    BY StreamInputs DEF create_stream
  <1>2. /\ charged \in Balances /\ charged[t][Contract] = bal[t][Contract]
        /\ charged[t][treasury] \in Int
        /\ charged[t][treasury] <= bal[t][treasury] + creation_fee
    BY <1>1, ChargedKept, ChargedTreasury
  <1>3. /\ amount \in Nat /\ bal[t][Contract] \in Nat /\ bal[t][treasury] \in Nat
        /\ creation_fee \in Nat /\ treasury # Contract
        /\ treasury \in Accounts /\ sender \in Accounts /\ Contract \in Accounts
    BY <1>1, Basics, ContractApart, FeeNumbers DEF I128, Balances
  <1> HIDE DEF charged
  <1>4. bal'[t][Contract] = charged[t][Contract] \/ bal'[t][Contract] = charged[t][Contract] + amount
    BY <1>1, <1>2, <1>3, UserPays
  <1>5. bal'[t][treasury] = charged[t][treasury]
    <2>1. charged \in [Tokens -> [Accounts -> Int]]
      BY <1>2, BalancesAreLoan DEF Loan
    <2> QED
      BY <1>1, <1>3, <2>1, MoveBetween
  <1>6. Out(t) <= 0 /\ Gain(t) <= creation_fee
    BY <1>2, <1>3, <1>4, <1>5 DEF Out, Gain
  <1> QED
    BY <1>6 DEF TakesItsShare

(* Two payments of the contract that pass the treasury by.                   *)
LEMMA PaidPastTreasury ==
    ASSUME ContractInv, ContractInv', NEW s \in Streams, Outsider(s),
           NEW n \in Nat, NEW m \in Nat,
           bal' = PayOut(PayOut(bal, s.token, s.recipient, n), s.token, s.sender, m)
    PROVE  \A t \in Tokens : TakesItsShare(t)
  <1> DEFINE served == PayOut(bal, s.token, s.recipient, n)
  <1>1. /\ s.token \in Tokens /\ s.recipient \in Users /\ s.sender \in Users
        /\ treasury \in Users /\ treasury # s.sender /\ treasury # s.recipient
    BY DEF Streams, Outsider
  <1>2. Loan(bal, s.token)
    BY <1>1, Basics, BalancesAreLoan
  <1>3. /\ Loan(served, s.token)
        /\ \A t \in Tokens : served[t][treasury] = bal[t][treasury]
    BY <1>1, <1>2, PayOutCosts, OthersUnpaid
  <1> HIDE DEF served
  <1>4. \A t \in Tokens : PayOut(served, s.token, s.sender, m)[t][treasury] = served[t][treasury]
    BY <1>1, <1>3, OthersUnpaid
  <1>5. \A t \in Tokens : bal'[t][treasury] = bal[t][treasury]
    BY <1>3, <1>4 DEF served
  <1> QED
    BY <1>1, <1>5, NothingGained

(* Closing a stream pays its parties in full, and no fee.                    *)
LEMMA CloseOutShares ==
    ASSUME ContractInv, ContractInv', NEW id \in DOMAIN streams, Outsider(streams[id]),
           NEW n, Payable(streams[id], n), CloseOut(id, n)
    PROVE  \A t \in Tokens : TakesItsShare(t)
  <1>1. streams[id] \in Streams
    BY Basics
  <1>2. n \in Nat /\ Refund(streams[id], n) \in Nat
    BY <1>1, RefundIsRest DEF Payable
  <1>3. bal' = PayOut(PayOut(bal, streams[id].token, streams[id].recipient, n),
                      streams[id].token, streams[id].sender, Refund(streams[id], n))
    BY DEF CloseOut
  <1> QED
    BY <1>1, <1>2, <1>3, PaidPastTreasury

LEMMA CancelShares ==
    ASSUME ContractInv, ContractInv', NEW id \in DOMAIN streams, Outsider(streams[id]),
           NEW caller, cancel_stream(id, caller)
    PROVE  \A t \in Tokens : TakesItsShare(t)
  <1> DEFINE s == streams[id]
             n == compute_earned(s.flow_rate, StreamClock(s), s.end_time, s.last_withdraw_time)
  <1>1. Live(s) /\ CloseOut(id, n)
    BY DEF cancel_stream
  <1>2. Payable(s, n)
    BY <1>1, Basics, EarnedPayable DEF GoodStream
  <1> HIDE DEF n
  <1> QED
    BY <1>1, <1>2, CloseOutShares

LEMMA TerminateShares ==
    ASSUME ContractInv, ContractInv', NEW id \in DOMAIN streams, Outsider(streams[id]),
           recipient_terminate(id)
    PROVE  \A t \in Tokens : TakesItsShare(t)
  <1> DEFINE s == streams[id]
             n == Claimable(s, StreamClock(s))
  <1>1. Live(s) /\ CloseOut(id, n)
    BY DEF recipient_terminate
  <1>2. Payable(s, n)
    BY <1>1, Basics, ClaimablePayable DEF GoodStream
  <1> HIDE DEF n
  <1> QED
    BY <1>1, <1>2, CloseOutShares

(* A split pays what is earned and what is cancelled, and no fee.            *)
LEMMA SplitShares ==
    ASSUME ContractInv, ContractInv', NEW id \in DOMAIN streams, Outsider(streams[id]),
           NEW caller, NEW cancel \in CancelAmounts, partial_cancel_stream(id, caller, cancel)
    PROVE  \A t \in Tokens : TakesItsShare(t)
  <1> DEFINE s == streams[id]
             earned == Checked(s.flow_rate * saturating_sub(StreamClock(s), s.last_withdraw_time))
  <1>1. /\ Live(s) /\ cancel > 0 /\ earned # None /\ StreamedBy(s, StreamClock(s)) # None
        /\ cancel < Remaining(s, StreamClock(s))
        /\ Remaining(s, StreamClock(s)) - cancel >= s.flow_rate
        /\ bal' = PayOut(PayOut(bal, s.token, s.recipient, earned), s.token, s.sender, cancel)
    BY DEF partial_cancel_stream, PayOut
  <1>2. s \in Streams /\ ScheduleSound(s) /\ now \in Nat
    BY <1>1, Basics DEF GoodStream
  <1>3. cancel \in Nat \ {0}
    BY <1>1, StreamInputs DEF I128
  <1>4. earned \in Nat
    BY <1>1, <1>2, <1>3, SplitAmounts
  <1> HIDE DEF earned
  <1> QED
    BY <1>1, <1>2, <1>3, <1>4, PaidPastTreasury

(* Whoever tops a stream up gains nothing, the treasury included.            *)
LEMMA TopUpShares ==
    ASSUME ContractInv, ContractInv', NEW id \in DOMAIN streams, NEW caller \in Users,
           NEW token \in Tokens, NEW amount \in TopUps, top_up(id, caller, token, amount),
           treasury \in Users, NEW t \in Tokens
    PROVE  TakesItsShare(t)
  <1> DEFINE s == streams[id]
             m == amount - (amount % s.flow_rate)
  <1>1. /\ amount > 0 /\ m > 0 /\ CanPay(bal, token, caller, m)
        /\ bal' = Move(bal, token, caller, Contract, m)
    BY DEF top_up
  <1>2. m \in Nat
    <2>1. s.flow_rate \in Nat \ {0} /\ amount \in Nat
      BY <1>1, Basics, StreamInputs, StreamFields DEF I128
    <2>2. amount % s.flow_rate \in Int
      BY <2>1
    <2> QED
      BY <1>1, <2>1, <2>2
  <1> HIDE DEF m
  <1>3. /\ bal \in Balances /\ bal[t][treasury] \in Nat /\ bal[t][Contract] \in Nat
        /\ treasury \in Accounts /\ treasury # Contract /\ caller \in Accounts
        /\ Contract \in Accounts /\ creation_fee \in Nat
    BY Basics, ContractApart, FeeNumbers DEF Balances
  <1>4. bal'[t][Contract] = bal[t][Contract] \/ bal'[t][Contract] = bal[t][Contract] + m
    BY <1>1, <1>2, <1>3, UserPays
  <1>5. bal'[t][treasury] \in {bal[t][treasury], bal[t][treasury] - m}
    <2> DEFINE debited == [bal EXCEPT ![token][caller] = @ - m]
               paid == [debited EXCEPT ![token][Contract] = @ + m]
    <2>1. /\ debited \in [Tokens -> [Accounts -> Int]]
          /\ debited[t][treasury] \in {bal[t][treasury], bal[t][treasury] - m}
      BY <1>2, <1>3 DEF Balances
    <2> HIDE DEF debited
    <2>2. paid[t][treasury] = debited[t][treasury]
      BY <1>3, <2>1
    <2> QED
      BY <1>1, <2>1, <2>2 DEF Move, debited
  <1>6. Out(t) <= 0 /\ Gain(t) <= creation_fee
    BY <1>2, <1>3, <1>4, <1>5 DEF Out, Gain
  <1> QED
    BY <1>6 DEF TakesItsShare

(* All operations on streams together.                                       *)
LEMMA StepShares ==
    ASSUME ContractInv, ContractInv', StreamNext, treasury \in Users,
           \A id \in DOMAIN streams : Outsider(streams[id]),
           \A id \in DOMAIN streams' : treasury # streams'[id].sender,
           NEW t \in Tokens, ~RenewalDue(t)
    PROVE  TakesItsShare(t)
  <1>1. CASE UNCHANGED bal
    BY <1>1, NothingGained
  <1>2. CASE CreateNext
    <2>1. PICK sender \in Senders, recipient \in Recipients, token \in Tokens,
               amount \in Amounts, nonce \in Nonces, terms \in Terms :
                  create_stream(sender, recipient, token, amount, nonce, terms)
      BY <1>2 DEF CreateNext
    <2>2. treasury # sender
      <3> DEFINE id == derive_stream_id(sender, recipient, now, nonce)
                 stream == NewStream(sender, recipient, token, amount, terms)
      <3>1. streams' = Put(streams, id, stream) /\ stream.sender = sender
        BY <2>1 DEF create_stream, SaveStream, NewStream
      <3> HIDE DEF id, stream
      <3>2. id \in DOMAIN streams' /\ streams'[id] = stream
        BY <3>1 DEF Put
      <3> QED
        BY <3>1, <3>2
    <2> QED
      BY <2>1, <2>2, CreateShares
  <1>3. ASSUME NEW id \in DOMAIN streams, RecipientNext(id)
        PROVE  TakesItsShare(t)
    BY <1>3, WithdrawShares, TerminateShares, TransferShares DEF RecipientNext
  <1>4. ASSUME NEW id \in DOMAIN streams, SenderNext(id)
        PROVE  TakesItsShare(t)
    <2>1. \/ pause_stream(id) \/ resume_stream(id) \/ cancel_auto_renew(id)
          \/ (\E operator : delegate(id, operator)) \/ revoke_delegate(id)
          => UNCHANGED bal
      BY DEF pause_stream, resume_stream, cancel_auto_renew, delegate, revoke_delegate
    <2> QED
      BY <1>1, <1>4, <2>1, CancelShares, SplitShares, TopUpShares DEF SenderNext
  <1>5. ASSUME NEW id \in DOMAIN streams, archive_stream(id)
        PROVE  TakesItsShare(t)
    BY <1>1, <1>5 DEF archive_stream
  <1> QED
    BY <1>2, <1>3, <1>4, <1>5 DEF StreamNext

(* Of the streams that stay stored, only a claim raises what was paid.       *)
LEMMA OnlyClaimsCount ==
    ASSUME ContractInv, StreamNext, NEW id \in LiveIds, id \in DOMAIN streams'
    PROVE  \/ streams'[id].total_withdrawn \in {0, streams[id].total_withdrawn}
           \/ \E forwarded \in Forwards : withdraw(id, forwarded)
           \/ \E new_recipient \in Recipients : transfer_recipient(id, new_recipient)
  <1> DEFINE Uncounted == streams'[id].total_withdrawn \in {0, streams[id].total_withdrawn}
  <1>1. id \in DOMAIN streams /\ \A k \in DOMAIN streams : streams[k] \in Streams
    BY Basics DEF LiveIds
  <1>2. ASSUME streams'[id] = streams[id] PROVE Uncounted
    BY <1>2
  <1>3. ASSUME NEW k, NEW r, SaveStream(k, r),
               r.total_withdrawn = streams[k].total_withdrawn
        PROVE  Uncounted
    BY <1>1, <1>3, SaveEffect
  <1>4. ASSUME NEW k, RemoveStream(k) PROVE Uncounted
    BY <1>1, <1>2, <1>4, RemoveEffect
  <1>5. ASSUME NEW k, NEW r, SaveStream(k, r), k # id PROVE Uncounted
    <2>1. streams'[id] = streams[id]
      BY <1>1, <1>5, SaveEffect
    <2> QED
      BY <1>2, <2>1
  <1>6. ASSUME CreateNext PROVE Uncounted
    <2>1. PICK k, s : Opens(k, s)
      BY <1>6, CreateOpens DEF CreateNext
    <2>2. SaveStream(k, s) /\ k \notin DOMAIN streams
      BY <2>1 DEF Opens
    <2> QED
      BY <1>1, <1>2, <2>2, SaveEffect
  <1>7. ASSUME NEW k \in DOMAIN streams, NEW forwarded \in Forwards,
               withdraw(k, forwarded), k # id
        PROVE  Uncounted
    <2>1. RemoveStream(k) \/ \E r : SaveStream(k, r)
      BY <1>7 DEF withdraw, KeepFlowing, Settle, Renew, FailRenewal
    <2> QED
      BY <1>4, <1>7, <1>5, <2>1
  <1>8. ASSUME NEW k \in DOMAIN streams, NEW new_recipient \in Recipients,
               transfer_recipient(k, new_recipient), k # id
        PROVE  Uncounted
    <2>1. \E r : SaveStream(k, r)
      BY <1>8 DEF transfer_recipient
    <2> QED
      BY <1>8, <1>5, <2>1
  <1>9. ASSUME NEW k \in DOMAIN streams,
               recipient_terminate(k) \/ archive_stream(k)
                 \/ \E caller \in Users : cancel_stream(k, caller)
        PROVE  Uncounted
    <2>1. RemoveStream(k)
      BY <1>9 DEF recipient_terminate, archive_stream, cancel_stream, CloseOut
    <2> QED
      BY <1>4, <2>1
  <1>10. ASSUME NEW k \in DOMAIN streams, NEW caller \in Users, NEW cancel \in CancelAmounts,
               partial_cancel_stream(k, caller, cancel)
        PROVE  Uncounted
    <2>1. PICK new, r : Divides(k, new, r)
      BY <1>10, SplitEffect
    <2>2. r.total_withdrawn = 0
      BY <2>1 DEF Divides
    <2> DEFINE closed == [streams[k] EXCEPT !.status = "Cancelled"]
    <2>3. closed.total_withdrawn = streams[k].total_withdrawn
      BY <1>1 DEF Streams
    <2>4. \/ streams'[id] = r
          \/ id = k /\ streams'[id] = closed
          \/ id \in DOMAIN streams /\ streams'[id] = streams[id]
      BY <2>1, SplitStores
    <2> HIDE DEF closed
    <2> QED
      BY <2>2, <2>3, <2>4
  <1>11. ASSUME NEW k \in DOMAIN streams, NEW caller \in Users, NEW token \in Tokens,
                NEW amount \in TopUps, top_up(k, caller, token, amount)
         PROVE  Uncounted
    <2>1. PICK r : SaveStream(k, r) /\ r.total_withdrawn = streams[k].total_withdrawn
      <3> DEFINE m == amount - (amount % streams[k].flow_rate)
                 x == m \div streams[k].flow_rate
                 r == [streams[k] EXCEPT !.end_time = @ + x, !.deposit = @ + m]
      <3>1. SaveStream(k, r)
        BY <1>11 DEF top_up
      <3> HIDE DEF m, x
      <3>2. r.total_withdrawn = streams[k].total_withdrawn
        BY <1>1 DEF Streams
      <3> QED
        BY <3>1, <3>2
    <2> QED
      BY <1>3, <2>1
  <1>12. ASSUME NEW k \in DOMAIN streams,
                pause_stream(k) \/ resume_stream(k) \/ cancel_auto_renew(k)
         PROVE  Uncounted
    <2>1. CASE pause_stream(k)
      <3>1. SaveStream(k, [streams[k] EXCEPT !.status = "Paused", !.last_pause_time = now])
        BY <2>1 DEF pause_stream
      <3> QED
        BY <1>1, <1>3, <3>1 DEF Streams
    <2>2. CASE resume_stream(k)
      <3>1. SaveStream(k, Resumed(streams[k]))
        BY <2>2 DEF resume_stream, Resumed, Postponed
      <3>2. Resumed(streams[k]).total_withdrawn = streams[k].total_withdrawn
        BY <1>1 DEF Resumed, Streams
      <3> QED
        BY <1>3, <3>1, <3>2
    <2>3. CASE cancel_auto_renew(k)
      <3>1. SaveStream(k, [streams[k] EXCEPT !.auto_renew = FALSE])
        BY <2>3 DEF cancel_auto_renew
      <3> QED
        BY <1>1, <1>3, <3>1 DEF Streams
    <2> QED
      BY <1>12, <2>1, <2>2, <2>3
  <1>13. ASSUME NEW k \in DOMAIN streams,
                (\E operator \in Operators : delegate(k, operator)) \/ revoke_delegate(k)
         PROVE  Uncounted
    BY <1>2, <1>13 DEF delegate, revoke_delegate
  <1>14. ASSUME NEW k \in DOMAIN streams, SenderNext(k) PROVE Uncounted
    BY <1>9, <1>10, <1>11, <1>12, <1>13, <1>14 DEF SenderNext
  <1>15. ASSUME NEW k \in DOMAIN streams, RecipientNext(k), ~Uncounted
         PROVE  \/ \E forwarded \in Forwards : withdraw(id, forwarded)
                \/ \E new_recipient \in Recipients : transfer_recipient(id, new_recipient)
    BY <1>7, <1>8, <1>9, <1>15 DEF RecipientNext
  <1> HIDE DEF Uncounted
  <1>16. Uncounted \/ \E k \in DOMAIN streams : RecipientNext(k)
    <2>1. ASSUME NEW k \in DOMAIN streams, archive_stream(k) PROVE Uncounted
      BY <1>9, <2>1
    <2> QED
      BY <1>6, <1>14, <2>1 DEF StreamNext
  <1> QED
    BY <1>15, <1>16 DEF Uncounted

(* A claim that leaves its stream stored pays the treasury its fee.          *)
FeeTaken(id) ==
    LET claim == streams'[id].total_withdrawn - streams[id].total_withdrawn
    IN  claim > 0 => Gain(streams[id].token) >= ProtocolFee(claim, streams[id].recipient)

LEMMA FeeIsGained ==
    ASSUME ContractInv, NEW id \in DOMAIN streams, Live(streams[id]), Outsider(streams[id]),
           NEW c \in Nat, NEW forwarded \in Nat, ClaimPaid(streams[id], c, forwarded),
           bal' = AfterClaim(streams[id], c, forwarded),
           streams'[id].total_withdrawn = streams[id].total_withdrawn + c
    PROVE  FeeTaken(id)
  <1> DEFINE s == streams[id]
             fee == ProtocolFee(c, s.recipient)
  <1>1. s \in Streams /\ bal \in Balances /\ FeesTypeOK /\ s.token \in Tokens
    BY Basics DEF ContractInv, MoneyInv
  <1>2. fee \in Nat /\ bal'[s.token][treasury] = bal[s.token][treasury] + fee
    BY <1>1, ClaimFeeds
  <1>3. bal[s.token][treasury] \in Nat /\ s.total_withdrawn \in Nat
    BY <1>1, StreamFields, ContractApart DEF Balances, Outsider
  <1>4. streams'[id].total_withdrawn - streams[id].total_withdrawn = c
    BY <1>3
  <1>5. Gain(s.token) >= fee
    <2> HIDE DEF fee
    <2> QED
      BY <1>2, <1>3 DEF Gain
  <1> QED
    BY <1>4, <1>5 DEF FeeTaken

LEMMA WithdrawFeeds ==
    ASSUME ContractInv, NEW id \in DOMAIN streams, Outsider(streams[id]),
           NEW forwarded \in Forwards, withdraw(id, forwarded), id \in DOMAIN streams',
           ~RenewalDue(streams[id].token)
    PROVE  FeeTaken(id)
  <1> DEFINE s == streams[id]
             c == Claimable(s, now)
             served == Served(s, c, now)
             paid == AfterClaim(s, c, forwarded)
  <1>1. /\ s.status = "Active" /\ ClaimPaid(s, c, forwarded)
        /\ \/ KeepFlowing(id, served, paid) \/ Settle(id, served, paid)
           \/ Renew(id, served, paid) \/ FailRenewal(id, served, paid)
    BY DEF withdraw
  <1>2. /\ s \in Streams /\ ScheduleSound(s) /\ Live(s) /\ StreamClock(s) = now /\ now \in Nat
    BY <1>1, Basics DEF GoodStream, Live, StreamClock
  <1>3. Payable(s, c) /\ forwarded \in Nat
    BY <1>2, ClaimablePayable, StreamInputs
  <1>4. /\ served.end_time = s.end_time /\ served.total_withdrawn = s.total_withdrawn + c
        /\ c \in Nat
    BY <1>1, <1>2, <1>3, ClaimEffect
  <1>5. served.auto_renew = s.auto_renew
    BY <1>2 DEF Served, Streams
  <1> HIDE DEF c, served, paid
  <1>6. ~Settle(id, served, paid)
    BY RemoveEffect DEF Settle
  <1>7. ~(Renew(id, served, paid) \/ FailRenewal(id, served, paid))
    BY <1>2, <1>4, <1>5 DEF Renew, FailRenewal, RenewalDue, LiveIds
  <1>8. bal' = paid /\ streams'[id] = served
    BY <1>1, <1>6, <1>7, SaveEffect DEF KeepFlowing
  <1> QED
    BY <1>1, <1>2, <1>3, <1>4, <1>8, FeeIsGained DEF paid

LEMMA TransferFeeds ==
    ASSUME ContractInv, NEW id \in DOMAIN streams, Outsider(streams[id]),
           NEW new_recipient, transfer_recipient(id, new_recipient)
    PROVE  FeeTaken(id)
  <1> DEFINE s == streams[id]
             t == StreamClock(s)
             c == IF t >= s.lock_until THEN Claimable(s, t) ELSE 0
             served == IF c > 0 THEN Served(s, c, t) ELSE s
             r == [served EXCEPT !.recipient = new_recipient]
  <1>1. /\ Live(s) /\ ClaimPaid(s, c, 0) /\ bal' = AfterClaim(s, c, 0)
        /\ SaveStream(id, r)
    BY DEF transfer_recipient
  <1>2. s \in Streams /\ ScheduleSound(s) /\ now \in Nat
    BY <1>1, Basics DEF GoodStream
  <1>3. c \in Nat /\ s.total_withdrawn \in Nat
    BY <1>2, ClaimablePayable, StreamFields DEF Payable
  <1>4. Served(s, c, t).total_withdrawn = s.total_withdrawn + c
    BY <1>2 DEF Served, Streams
  <1>5. r.total_withdrawn = served.total_withdrawn
    BY <1>2 DEF Served, Streams
  <1> HIDE DEF c
  <1>6. served.total_withdrawn = s.total_withdrawn + c
    BY <1>3, <1>4
  <1> HIDE DEF served, r
  <1>7. streams'[id].total_withdrawn = s.total_withdrawn + c
    BY <1>1, <1>5, <1>6, SaveEffect
  <1> QED
    BY <1>1, <1>3, <1>7, FeeIsGained

LEMMA StepFeeds ==
    ASSUME ContractInv, StreamNext, NEW id \in LiveIds, id \in DOMAIN streams',
           Outsider(streams[id]), ~RenewalDue(streams[id].token)
    PROVE  FeeTaken(id)
  <1>1. id \in DOMAIN streams /\ streams[id].total_withdrawn \in Nat
    BY Basics, StreamFields DEF LiveIds
  <1>2. CASE streams'[id].total_withdrawn \in {0, streams[id].total_withdrawn}
    <2>1. ~(streams'[id].total_withdrawn - streams[id].total_withdrawn > 0)
      BY <1>1, <1>2
    <2> QED
      BY <2>1 DEF FeeTaken
  <1> QED
    BY <1>1, <1>2, OnlyClaimsCount, WithdrawFeeds, TransferFeeds

(* Of what leaves the contract the treasury gets at most the fee's share,    *)
(* rounded down, and nothing when an exempt recipient is paid; of each claim *)
(* that leaves its stream stored it gets the fee; nothing else but a         *)
(* creation pays it.                                                         *)
THEOREM TreasuryTakesShare == Spec => TreasuryTakesItsShare
  <1>1. ASSUME ContractInv, ContractInv', [Next]_vars, NEW token \in Tokens,
               treasury \in Users \ (Parties \cup Parties'), ~RenewalDue(token),
               ~UNCHANGED streamVars
        PROVE  /\ TakesItsShare(token)
               /\ \A id \in LiveIds \cap DOMAIN streams' :
                      streams[id].token = token => FeeTaken(id)
    <2>1. StreamNext
      BY <1>1, OtherSteps
    <2>2. \A id \in DOMAIN streams : Outsider(streams[id])
      BY <1>1 DEF Parties, Outsider
    <2>3. \A id \in DOMAIN streams' : treasury # streams'[id].sender
      BY <1>1 DEF Parties
    <2>4. \A id \in LiveIds \cap DOMAIN streams' : streams[id].token = token => FeeTaken(id)
      BY <1>1, <2>1, <2>2, StepFeeds DEF LiveIds
    <2> QED
      BY <1>1, <2>1, <2>2, <2>3, <2>4, StepShares
  <1>2. ContractInv /\ ContractInv' /\ [Next]_vars
        => [\A token \in Tokens :
              LET gain == bal'[token][treasury] - bal[token][treasury]
                  out  == bal[token][Contract] - bal'[token][Contract]
                  exempt == \E id \in DOMAIN streams :
                               /\ escrow'[id] < escrow[id]
                               /\ streams[id].token = token
                               /\ streams[id].recipient \in fee_exempt
              IN  treasury \in Users \ (Parties \cup Parties') /\ ~RenewalDue(token)
                  => /\ \/ out > 0 /\ gain * BASIS_POINTS <= fee_bps * out
                                   /\ (exempt => gain = 0)
                        \/ out <= 0 /\ gain <= creation_fee
                     /\ \A id \in LiveIds \cap DOMAIN streams' :
                           LET claim == streams'[id].total_withdrawn - streams[id].total_withdrawn
                           IN  claim > 0 /\ streams[id].token = token
                               => gain >= ProtocolFee(claim, streams[id].recipient)]_streamVars
    BY <1>1 DEF TakesItsShare, Gain, Out, ExemptServed, FeeTaken
  <1> QED
    BY <1>2, ContractSafety, PTL DEF Spec, TreasuryTakesItsShare
=============================================================================
