---------------------------- MODULE StreamProofs ----------------------------
(* Proofs about the payment streams, for every set of users, tokens,         *)
(* amounts, schedules and fees: the types, that a stream pays no more than   *)
(* it has earned, and that it pays from its own deposits only.               *)
EXTENDS StreamContract, AdminProofs

(* A stored stream of the right type, sound while it is live.                *)
GoodStream(s) == s \in Streams /\ (Live(s) => ScheduleSound(s))

(* Good streams, each covered by its escrow.                                 *)
AllGood(stored, held) ==
    /\ \A id \in DOMAIN stored :
          /\ GoodStream(stored[id])
          /\ id \in DOMAIN held /\ held[id] >= Owed(stored[id])
    /\ \A id \in DOMAIN held : held[id] \in Nat

StreamsInv == AllGood(streams, escrow)

(* The lists and maps that go with the streams.                              *)
IndexInv ==
    /\ \A id \in DOMAIN delegate_of : delegate_of[id] \in Users
    /\ nonces \subseteq Senders \X Nonces
    /\ DOMAIN sender_ids = Users /\ DOMAIN recipient_ids = Users

MoneyInv == bal \in Balances

(* The inductive invariant.                                                  *)
ContractInv ==
    /\ AdminInv /\ FeesTypeOK /\ PolicyTypeOK
    /\ MoneyInv /\ StreamsInv /\ IndexInv
-----------------------------------------------------------------------------
(* Arithmetic: what flows in some time; division; fees.                      *)
LEMMA FlowOrder ==
    ASSUME NEW f \in Nat, NEW x \in Nat, NEW y \in Nat, x <= y
    PROVE  f * x \in Nat /\ f * y \in Nat /\ f * x <= f * y
  BY SMT

LEMMA FlowDifference ==
    ASSUME NEW f \in Nat, NEW x \in Int, NEW y \in Int, NEW z \in Int
    PROVE  f * (x - y) = f * (x - z) - f * (y - z)
  BY SMT

LEMMA FlowSum ==
    ASSUME NEW f \in Nat, NEW x \in Int, NEW y \in Int
    PROVE  f * (x + y) = f * x + f * y
  BY SMT

LEMMA DivisionRoundsDown ==
    ASSUME NEW a \in Nat, NEW d \in Nat \ {0}
    PROVE  a \div d \in Nat /\ d * (a \div d) <= a /\ a \div d <= a
  <1>1. a \div d \in Nat /\ d * (a \div d) <= a
    BY SMT
  <1>2. PICK q \in Nat : q = a \div d
    BY <1>1
  <1>3. 1 * q <= d * q /\ d * q \in Nat
    BY FlowOrder
  <1> QED
    BY <1>1, <1>2, <1>3

LEMMA FeePart ==
    ASSUME NEW c \in Nat, NEW bps \in 0..BASIS_POINTS
    PROVE  (c * bps) \div BASIS_POINTS \in 0..c
  <1>1. BASIS_POINTS = 10000
    BY DEF BASIS_POINTS
  <1>2. c * bps \in Nat /\ c * bps <= c * 10000
    BY <1>1, FlowOrder
  <1>3. PICK p \in Nat : p = c * bps
    BY <1>2
  <1>4. p <= 10000 * c
    BY <1>2, <1>3
  <1>5. p \div 10000 \in 0..c
    BY <1>4, SMT
  <1> QED
    BY <1>1, <1>3, <1>5
-----------------------------------------------------------------------------
(* What a sound schedule says of the amounts.                                *)
LEMMA StreamFields ==
    ASSUME NEW s \in Streams
    PROVE  /\ s.deposit \in Nat \ {0} /\ s.deposit <= I128_MAX
           /\ s.flow_rate \in Nat \ {0} /\ s.flow_rate <= I128_MAX
           /\ s.start_time \in Nat /\ s.end_time \in Nat /\ s.cliff_time \in Nat
           /\ s.last_withdraw_time \in Nat /\ s.last_pause_time \in Nat /\ s.lock_until \in Nat
           /\ s.total_withdrawn \in Nat
           /\ I128_MAX \in Nat /\ U64_MAX \in Nat /\ U64_MAX <= I128_MAX
  BY WidthAssumption DEF Streams, U64

(* What a live stream owes and has paid: its clock is after its last         *)
(* withdrawal, and all it can still pay until its end is in the deposit.     *)
LEMMA EarnedFits ==
    ASSUME NEW s \in Streams, ScheduleSound(s), now \in Nat
    PROVE  LET eff    == effective_now(StreamClock(s), s.end_time)
               earned == s.flow_rate * (eff - s.last_withdraw_time)
               whole  == s.flow_rate * (s.end_time - s.start_time)
           IN  /\ eff \in Nat /\ s.start_time <= s.last_withdraw_time
               /\ s.last_withdraw_time <= eff /\ eff <= s.end_time
               /\ eff <= StreamClock(s) /\ StreamClock(s) \in Nat
               /\ earned \in Nat /\ whole \in Nat
               /\ s.total_withdrawn + earned <= s.flow_rate * (eff - s.start_time)
               /\ s.flow_rate * (eff - s.start_time) \in Nat
               /\ s.flow_rate * (eff - s.start_time) <= whole
               /\ whole <= s.deposit
  <1> DEFINE eff == effective_now(StreamClock(s), s.end_time)
             lwt == s.last_withdraw_time
  <1>1. /\ s.deposit \in Nat /\ s.flow_rate \in Nat
        /\ s.start_time \in Nat /\ s.end_time \in Nat /\ lwt \in Nat
        /\ s.last_pause_time \in Nat /\ s.total_withdrawn \in Nat
    BY StreamFields
  <1>2. /\ eff \in Nat /\ lwt <= eff /\ eff <= s.end_time /\ s.start_time <= lwt
        /\ eff <= StreamClock(s) /\ StreamClock(s) \in Nat
    BY <1>1 DEF ScheduleSound, effective_now, StreamClock
  <1> HIDE DEF eff, lwt
  <1>3. /\ s.flow_rate * (eff - lwt) \in Nat
        /\ s.flow_rate * (eff - s.start_time) \in Nat
        /\ s.flow_rate * (s.end_time - s.start_time) \in Nat
        /\ s.flow_rate * (eff - s.start_time) <= s.flow_rate * (s.end_time - s.start_time)
    <2>1. /\ eff - lwt \in Nat /\ eff - s.start_time \in Nat
          /\ s.end_time - s.start_time \in Nat
          /\ eff - s.start_time <= s.end_time - s.start_time
      BY <1>1, <1>2
    <2> QED
      BY <1>1, <2>1, FlowOrder
  <1>4. s.flow_rate * (eff - lwt)
          = s.flow_rate * (eff - s.start_time) - s.flow_rate * (lwt - s.start_time)
    BY <1>1, <1>2, FlowDifference
  <1>5. s.flow_rate * (lwt - s.start_time) \in Nat
    <2>1. lwt - s.start_time \in Nat
      BY <1>1, <1>2
    <2> QED
      BY <1>1, <2>1, FlowOrder
  <1>6. /\ s.total_withdrawn <= s.flow_rate * (lwt - s.start_time)
        /\ s.flow_rate * (s.end_time - s.start_time) <= s.deposit
    BY DEF ScheduleSound, lwt
  <1>7. s.total_withdrawn + s.flow_rate * (eff - lwt) <= s.flow_rate * (eff - s.start_time)
    BY <1>1, <1>3, <1>4, <1>5, <1>6
  <1> QED
    BY <1>2, <1>3, <1>6, <1>7 DEF eff, lwt

(* compute_earned gives that amount: nothing overflows.                      *)
LEMMA EarnedComputed ==
    ASSUME NEW s \in Streams, ScheduleSound(s), now \in Nat
    PROVE  LET eff == effective_now(StreamClock(s), s.end_time)
           IN  compute_earned(s.flow_rate, StreamClock(s), s.end_time, s.last_withdraw_time)
                 = s.flow_rate * (eff - s.last_withdraw_time)
  <1> DEFINE eff == effective_now(StreamClock(s), s.end_time)
  <1>1. saturating_sub(eff, s.last_withdraw_time) = eff - s.last_withdraw_time
    BY EarnedFits DEF saturating_sub
  <1>2. PICK e \in Nat : e = s.flow_rate * (eff - s.last_withdraw_time)
    BY EarnedFits
  <1>3. e \in I128
    <2>1. PICK c \in Nat : c = s.flow_rate * (eff - s.start_time)
      BY EarnedFits
    <2>2. s.total_withdrawn + e <= c /\ c <= s.deposit
      <3>1. PICK w \in Nat : w = s.flow_rate * (s.end_time - s.start_time)
        BY EarnedFits
      <3>2. s.total_withdrawn + e <= c /\ c <= w /\ w <= s.deposit
        BY <1>2, <2>1, <3>1, EarnedFits
      <3> QED
        BY <3>2, StreamFields
    <2> QED
      BY <2>2, StreamFields DEF I128
  <1> QED
    BY <1>1, <1>2, <1>3 DEF compute_earned, Checked

(* What a party is paid, earned or claimable: a number that, with all that   *)
(* was paid before, is within what has streamed by then.                     *)
Payable(s, n) ==
    LET eff == effective_now(StreamClock(s), s.end_time)
    IN  /\ n \in Nat
        /\ s.total_withdrawn + n <= s.flow_rate * (eff - s.start_time)
        /\ s.total_withdrawn + n <= s.flow_rate * (s.end_time - s.start_time)
        /\ s.total_withdrawn + n <= s.deposit

LEMMA EarnedPayable ==
    ASSUME NEW s \in Streams, ScheduleSound(s), now \in Nat
    PROVE  /\ Payable(s, compute_earned(s.flow_rate, StreamClock(s), s.end_time,
                                        s.last_withdraw_time))
           /\ Payable(s, 0)
  <1> DEFINE eff == effective_now(StreamClock(s), s.end_time)
  <1>1. PICK e \in Nat : e = s.flow_rate * (eff - s.last_withdraw_time)
    BY EarnedFits
  <1>2. PICK c \in Nat : c = s.flow_rate * (eff - s.start_time)
    BY EarnedFits
  <1>3. PICK w \in Nat : w = s.flow_rate * (s.end_time - s.start_time)
    BY EarnedFits
  <1>4. s.total_withdrawn + e <= c /\ c <= w /\ w <= s.deposit
    BY <1>1, <1>2, <1>3, EarnedFits
  <1>5. e = compute_earned(s.flow_rate, StreamClock(s), s.end_time, s.last_withdraw_time)
    BY <1>1, EarnedComputed
  <1>6. s.total_withdrawn \in Nat /\ s.deposit \in Nat
    BY StreamFields
  <1> QED
    BY <1>2, <1>3, <1>4, <1>5, <1>6 DEF Payable

LEMMA ClaimablePayable ==
    ASSUME NEW s \in Streams, ScheduleSound(s), now \in Nat
    PROVE  Payable(s, Claimable(s, StreamClock(s)))
  BY EarnedPayable DEF Claimable, compute_claimable

(* The dust is the part of the deposit that no second streams.               *)
LEMMA DustIsRest ==
    ASSUME NEW s \in Streams, ScheduleSound(s), now \in Nat
    PROVE  /\ Dust(s) = s.deposit - s.flow_rate * (s.end_time - s.start_time)
           /\ Dust(s) \in Nat
  <1>1. PICK w \in Nat : w = s.flow_rate * (s.end_time - s.start_time)
    BY EarnedFits
  <1>2. w <= s.deposit /\ s.deposit \in Nat /\ s.deposit <= I128_MAX /\ I128_MAX \in Nat
    BY <1>1, EarnedFits, StreamFields
  <1>3. saturating_sub(s.end_time, s.start_time) = s.end_time - s.start_time
    <2>1. /\ s.start_time \in Nat /\ s.end_time \in Nat
          /\ s.start_time <= s.end_time
      BY EarnedFits, StreamFields
    <2> QED
      BY <2>1 DEF saturating_sub
  <1>4. Saturated(w) = w /\ Saturated(s.deposit - w) = s.deposit - w
    BY <1>2 DEF Saturated
  <1> QED
    BY <1>1, <1>2, <1>3, <1>4 DEF Dust

(* Closing a stream gives back all that it did not pay.                      *)
LEMMA RefundIsRest ==
    ASSUME NEW s \in Streams, NEW n, Payable(s, n)
    PROVE  /\ Refund(s, n) = s.deposit - s.total_withdrawn - n
           /\ Refund(s, n) \in Nat
  <1>1. /\ n \in Nat /\ s.total_withdrawn \in Nat /\ s.deposit \in Nat
        /\ s.total_withdrawn + n <= s.deposit /\ s.deposit <= I128_MAX /\ I128_MAX \in Nat
    BY StreamFields DEF Payable
  <1>2. Saturated(s.deposit - s.total_withdrawn) = s.deposit - s.total_withdrawn
    BY <1>1 DEF Saturated
  <1>3. Saturated(s.deposit - s.total_withdrawn - n) = s.deposit - s.total_withdrawn - n
    BY <1>1 DEF Saturated
  <1> QED
    BY <1>1, <1>2, <1>3 DEF Refund

-----------------------------------------------------------------------------
(* Balances of which only the contract's, of one token, may be overdrawn.    *)
Loan(b, token) ==
    /\ b \in [Tokens -> [Accounts -> Int]]
    /\ \A t \in Tokens, a \in Accounts :
          t # token \/ a # Contract => b[t][a] \in Nat

LEMMA BalancesAreLoan ==
    ASSUME NEW b \in Balances, NEW token \in Tokens
    PROVE  Loan(b, token)
  BY DEF Balances, Loan

LEMMA LoanFunded ==
    ASSUME NEW token \in Tokens, NEW b, Loan(b, token), Funded(b, token)
    PROVE  b \in Balances
  BY DEF Balances, Loan, Funded

LEMMA ContractApart ==
    Contract \in Accounts /\ (\A u \in Users : u \in Accounts /\ u # Contract)
  BY ContractAssumption DEF Accounts

(* A payment of the contract costs it what it pays, and nothing else.        *)
LEMMA PayOutCosts ==
    ASSUME NEW token \in Tokens, NEW b, Loan(b, token), NEW to \in Users, NEW n \in Nat
    PROVE  /\ Loan(PayOut(b, token, to, n), token)
           /\ PayOut(b, token, to, n)[token][Contract] = b[token][Contract] - n
           /\ b[token][Contract] \in Int
  <1> USE ContractApart
  <1>1. CASE n > 0
    <2> DEFINE debited == [b EXCEPT ![token][Contract] = @ - n]
               paid == [debited EXCEPT ![token][to] = @ + n]
    <2>1. /\ debited \in [Tokens -> [Accounts -> Int]]
          /\ debited[token][Contract] = b[token][Contract] - n
          /\ \A t \in Tokens, a \in Accounts :
                t # token \/ a # Contract => debited[t][a] = b[t][a]
      BY DEF Loan
    <2>2. Loan(debited, token)
      BY <2>1 DEF Loan
    <2> HIDE DEF debited
    <2>3. /\ paid \in [Tokens -> [Accounts -> Int]]
          /\ paid[token][Contract] = debited[token][Contract]
          /\ paid[token][to] = debited[token][to] + n
          /\ \A t \in Tokens, a \in Accounts :
                t # token \/ a # to => paid[t][a] = debited[t][a]
      BY <2>2 DEF Loan
    <2>4. Loan(paid, token)
      BY <2>2, <2>3 DEF Loan
    <2>5. PayOut(b, token, to, n) = paid
      BY <1>1 DEF PayOut, Move, debited
    <2>6. b[token][Contract] \in Int
      BY DEF Loan
    <2> QED
      BY <2>1, <2>3, <2>4, <2>5, <2>6
  <1>2. CASE n = 0
    BY <1>2 DEF PayOut, Loan
  <1> QED
    BY <1>1, <1>2

(* A transfer by a user.                                                     *)
LEMMA UserPays ==
    ASSUME NEW token \in Tokens, NEW b \in Balances, NEW from \in Users,
           NEW to \in Accounts, NEW n \in Nat, CanPay(b, token, from, n)
    PROVE  /\ Move(b, token, from, to, n) \in Balances
           /\ \A t \in Tokens : Move(b, token, from, to, n)[t][Contract]
                = IF t = token /\ to = Contract THEN b[t][Contract] + n ELSE b[t][Contract]
  <1> USE ContractApart
  <1> DEFINE debited == [b EXCEPT ![token][from] = @ - n]
             paid == [debited EXCEPT ![token][to] = @ + n]
  <1>1. /\ debited \in Balances
        /\ \A t \in Tokens : debited[t][Contract] = b[t][Contract]
    BY DEF Balances, CanPay
  <1> HIDE DEF debited
  <1>2. /\ paid \in Balances
        /\ paid[token][to] = debited[token][to] + n
        /\ \A t \in Tokens, a \in Accounts :
                t # token \/ a # to => paid[t][a] = debited[t][a]
    BY <1>1 DEF Balances
  <1> QED
    BY <1>1, <1>2 DEF Move, debited

(* Paying a claim costs the contract no more than the claim.                 *)
LEMMA ClaimCosts ==
    ASSUME FeesTypeOK, NEW s \in Streams, NEW c \in Nat, bal \in Balances,
           NEW forwarded \in Nat, ClaimPaid(s, c, forwarded)
    PROVE  /\ AfterClaim(s, c, forwarded) \in Balances
           /\ AfterClaim(s, c, forwarded)[s.token][Contract] >= bal[s.token][Contract] - c
           /\ AfterClaim(s, c, forwarded)[s.token][Contract] \in Nat
           /\ bal[s.token][Contract] \in Nat
  <1> DEFINE fee == ProtocolFee(c, s.recipient)
             served == PayOut(bal, s.token, s.recipient, c - fee)
             paid == PayClaim(bal, s.token, s.recipient, c, fee)
             after == AfterClaim(s, c, forwarded)
  <1>1. s.token \in Tokens /\ s.recipient \in Users /\ s.sender \in Users
    BY DEF Streams
  <1>2. fee \in 0..c
    <2>1. fee # None /\ fee_bps \in 0..BASIS_POINTS
      BY DEF ClaimPaid, FeesTypeOK
    <2> QED
      BY <2>1, FeePart DEF ProtocolFee
  <1>3. Loan(bal, s.token) /\ bal[s.token][Contract] \in Nat
    BY <1>1, BalancesAreLoan, ContractApart DEF Balances
  <1>4. PICK rest \in Nat : rest = c - fee
    BY <1>2
  <1>5. /\ Loan(served, s.token)
        /\ served[s.token][Contract] = bal[s.token][Contract] - rest
    BY <1>1, <1>3, <1>4, PayOutCosts
  <1>6. /\ Loan(paid, s.token)
        /\ paid[s.token][Contract] >= bal[s.token][Contract] - c
    <2> HIDE DEF fee
    <2>1. CASE treasury = None
      BY <1>2, <1>3, <1>4, <1>5, <2>1 DEF PayClaim
    <2>2. CASE treasury # None
      <3>1. treasury \in Users
        BY <2>2 DEF FeesTypeOK
      <3>2. paid = PayOut(served, s.token, treasury, fee)
        BY <2>2 DEF PayClaim
      <3>3. /\ Loan(paid, s.token)
            /\ paid[s.token][Contract] = served[s.token][Contract] - fee
        <4>1. fee \in Nat
          BY <1>2
        <4> HIDE DEF served, paid
        <4> QED
          BY <1>1, <1>5, <3>1, <3>2, <4>1, PayOutCosts, ZenonT(60)
      <3> QED
        BY <1>2, <1>3, <1>4, <1>5, <3>3
    <2> QED
      BY <2>1, <2>2
  <1>7. Funded(paid, s.token) /\ CanPay(paid, s.token, s.recipient, forwarded)
    BY DEF ClaimPaid
  <1>8. paid \in Balances
    BY <1>1, <1>6, <1>7, LoanFunded
  <1>9. after = Move(paid, s.token, s.recipient, s.sender, forwarded)
    BY DEF AfterClaim
  <1> HIDE DEF paid, after
  <1>10. after \in Balances /\ after[s.token][Contract] = paid[s.token][Contract]
    BY <1>1, <1>7, <1>8, <1>9, UserPays, ContractApart
  <1> QED
    BY <1>1, <1>3, <1>6, <1>10, ContractApart DEF Balances, after

-----------------------------------------------------------------------------
(* The escrow of one id.                                                     *)
HeldIn(held, id) == IF id \in DOMAIN held THEN held[id] ELSE 0

LEMMA OwedIsAmount ==
    ASSUME NEW s, GoodStream(s), now \in Nat
    PROVE  Owed(s) \in Nat
  <1>1. s \in Streams
    BY DEF GoodStream
  <1>2. CASE Live(s)
    <2>1. Payable(s, 0)
      BY <1>1, <1>2, EarnedPayable DEF GoodStream
    <2> QED
      BY <1>1, <1>2, <2>1, StreamFields DEF Owed, Payable
  <1>3. CASE ~Live(s)
    BY <1>3 DEF Owed
  <1> QED
    BY <1>2, <1>3

(* Storing one good stream with enough escrow.                               *)
LEMMA PutKeeps ==
    ASSUME NEW stored, NEW held, AllGood(stored, held), NEW id, NEW s, GoodStream(s),
           NEW n \in Int, HeldIn(held, id) + n \in Nat, HeldIn(held, id) + n >= Owed(s)
    PROVE  AllGood(Put(stored, id, s), Credit(held, id, n))
  <1> DEFINE more == Credit(held, id, n)
  <1>1. /\ DOMAIN more = DOMAIN held \cup {id}
        /\ more[id] = HeldIn(held, id) + n
        /\ \A i \in DOMAIN held : i # id => more[i] = held[i]
    <2>1. HeldIn(held, id) \in Int
      BY DEF HeldIn, AllGood
    <2>2. n + HeldIn(held, id) = HeldIn(held, id) + n
      BY <2>1
    <2> QED
      BY <2>2 DEF Credit, Put, HeldIn
  <1> HIDE DEF more
  <1>2. /\ DOMAIN Put(stored, id, s) = DOMAIN stored \cup {id}
        /\ Put(stored, id, s)[id] = s
        /\ \A i \in DOMAIN stored : i # id => Put(stored, id, s)[i] = stored[i]
    BY DEF Put
  <1> QED
    BY <1>1, <1>2 DEF AllGood, more

(* Deleting a stream.                                                        *)
LEMMA DropKeeps ==
    ASSUME NEW stored, NEW held, AllGood(stored, held), NEW id,
           NEW n \in Int, HeldIn(held, id) + n \in Nat
    PROVE  AllGood(Drop(stored, id), Credit(held, id, n))
  <1> DEFINE more == Credit(held, id, n)
  <1>1. /\ DOMAIN more = DOMAIN held \cup {id}
        /\ more[id] = HeldIn(held, id) + n
        /\ \A i \in DOMAIN held : i # id => more[i] = held[i]
    <2>1. HeldIn(held, id) \in Int
      BY DEF HeldIn, AllGood
    <2>2. n + HeldIn(held, id) = HeldIn(held, id) + n
      BY <2>1
    <2> QED
      BY <2>2 DEF Credit, Put, HeldIn
  <1> HIDE DEF more
  <1>2. /\ DOMAIN Drop(stored, id) = DOMAIN stored \ {id}
        /\ \A i \in DOMAIN stored : i # id => Drop(stored, id)[i] = stored[i]
    BY DEF Drop
  <1> QED
    BY <1>1, <1>2 DEF AllGood, more

(* Changing a stream, or deleting it, without moving tokens.                 *)
LEMMA PutAlone ==
    ASSUME NEW stored, NEW held, AllGood(stored, held), NEW id \in DOMAIN stored,
           NEW s, GoodStream(s), held[id] >= Owed(s)
    PROVE  AllGood(Put(stored, id, s), held)
  <1>1. /\ DOMAIN Put(stored, id, s) = DOMAIN stored
        /\ Put(stored, id, s)[id] = s
        /\ \A i \in DOMAIN stored : i # id => Put(stored, id, s)[i] = stored[i]
    BY DEF Put
  <1> QED
    BY <1>1 DEF AllGood

LEMMA DropAlone ==
    ASSUME NEW stored, NEW held, AllGood(stored, held), NEW id
    PROVE  AllGood(Drop(stored, id), held)
  <1>1. /\ DOMAIN Drop(stored, id) = DOMAIN stored \ {id}
        /\ \A i \in DOMAIN stored : i # id => Drop(stored, id)[i] = stored[i]
    BY DEF Drop
  <1> QED
    BY <1>1 DEF AllGood

(* In a step that takes no time good streams stay good.                      *)
LEMMA StillGood ==
    ASSUME now' = now, AllGood(streams', escrow')
    PROVE  StreamsInv'
  BY DEF StreamsInv, AllGood, GoodStream, ScheduleSound, StreamClock, effective_now,
     Live, Owed, Streams, U64

(* As time passes, too.                                                      *)
LEMMA LaterGood ==
    ASSUME NEW s, GoodStream(s), now \in Nat, now' \in Nat, now' >= now
    PROVE  GoodStream(s)'
  <1>1. s \in Streams
    BY DEF GoodStream
  <1>2. (s \in Streams)' /\ Live(s)' = Live(s)
    BY <1>1 DEF Streams, U64, Live
  <1>3. CASE Live(s)
    <2>1. ScheduleSound(s)
      BY <1>3 DEF GoodStream
    <2>2. ScheduleSound(s)'
      BY <1>1, <2>1, StreamFields DEF ScheduleSound, StreamClock, effective_now
    <2> QED
      BY <1>2, <2>2 DEF GoodStream
  <1> QED
    BY <1>2, <1>3 DEF GoodStream

-----------------------------------------------------------------------------
(* Each change of a stream gives a good stream again: a claim served, ...    *)
LEMMA ServedGood ==
    ASSUME NEW s \in Streams, Live(s), ScheduleSound(s), now \in U64, NEW c, Payable(s, c)
    PROVE  LET served == Served(s, c, StreamClock(s))
           IN  /\ served \in Streams /\ ScheduleSound(served) /\ Live(served)
               /\ served.total_withdrawn = s.total_withdrawn + c
               /\ served.deposit = s.deposit /\ served.flow_rate = s.flow_rate
               /\ served.start_time = s.start_time /\ served.end_time = s.end_time
               /\ served.status = s.status /\ served.last_pause_time = s.last_pause_time
               /\ served.sender = s.sender /\ served.token = s.token
               /\ served.recipient = s.recipient
               /\ Owed(served) = s.deposit - s.total_withdrawn - c
               /\ Dust(served) = Dust(s)
  <1> DEFINE eff == effective_now(StreamClock(s), s.end_time)
             served == Served(s, c, StreamClock(s))
  <1>1. now \in Nat
    BY WidthAssumption DEF U64
  <1>2. /\ eff \in Nat /\ s.start_time <= s.last_withdraw_time
        /\ s.last_withdraw_time <= eff /\ eff <= s.end_time
    BY <1>1, EarnedFits
  <1>3. eff \in U64
    BY <1>2, WidthAssumption DEF Streams, U64
  <1>4. /\ c \in Nat /\ s.total_withdrawn + c \in 0..I128_MAX
        /\ s.total_withdrawn + c <= s.flow_rate * (eff - s.start_time)
    BY StreamFields DEF Payable
  <1>5. served = [s EXCEPT !.total_withdrawn = s.total_withdrawn + c,
                           !.last_withdraw_time = eff]
    BY DEF Served
  <1> HIDE DEF served, eff
  <1>6. /\ served \in Streams
        /\ served.total_withdrawn = s.total_withdrawn + c
        /\ served.last_withdraw_time = eff
        /\ served.deposit = s.deposit /\ served.flow_rate = s.flow_rate
        /\ served.start_time = s.start_time /\ served.end_time = s.end_time
        /\ served.status = s.status /\ served.last_pause_time = s.last_pause_time
        /\ served.sender = s.sender /\ served.token = s.token
        /\ served.recipient = s.recipient
    BY <1>3, <1>4, <1>5 DEF Streams
  <1>7. Live(served) /\ StreamClock(served) = StreamClock(s)
    BY <1>6 DEF Live, StreamClock
  <1>8. effective_now(StreamClock(served), served.end_time) = eff
    BY <1>6, <1>7 DEF eff
  <1>9. ScheduleSound(served)
    BY <1>2, <1>4, <1>6, <1>7, <1>8, StreamFields DEF ScheduleSound
  <1>10. Owed(served) = s.deposit - s.total_withdrawn - c
    BY <1>4, <1>6, <1>7, StreamFields DEF Owed
  <1>11. Dust(served) = Dust(s)
    BY <1>6 DEF Dust
  <1> QED
    BY <1>6, <1>7, <1>9, <1>10, <1>11 DEF served

(* ... a stream that begins, ...                                             *)
LEMMA FreshGood ==
    ASSUME NEW s \in Streams, s.status = "Active", now \in Nat, s.total_withdrawn = 0,
           s.last_withdraw_time = s.start_time, s.start_time <= now,
           s.start_time <= s.end_time,
           s.flow_rate * (s.end_time - s.start_time) <= s.deposit
    PROVE  GoodStream(s) /\ Owed(s) = s.deposit
  <1>1. /\ s.start_time \in Nat /\ s.end_time \in Nat /\ s.flow_rate \in Nat
        /\ s.deposit \in Nat
    BY StreamFields
  <1>2. s.flow_rate * (s.last_withdraw_time - s.start_time) = 0
    <2>1. s.last_withdraw_time - s.start_time = 0
      BY <1>1
    <2> QED
      BY <1>1, <2>1
  <1>3. StreamClock(s) = now /\ Live(s)
    BY DEF StreamClock, Live
  <1>4. ScheduleSound(s)
    BY <1>1, <1>2, <1>3 DEF ScheduleSound, effective_now
  <1> QED
    BY <1>1, <1>3, <1>4 DEF GoodStream, Owed

(* ... one that starts over, ...                                             *)
LEMMA RenewedGood ==
    ASSUME NEW s \in Streams, ScheduleSound(s), s.status = "Active", now \in Nat,
           now >= s.end_time, s.end_time + (s.end_time - s.start_time) <= U64_MAX
    PROVE  LET renewed == Renewed(s, s.end_time + (s.end_time - s.start_time))
           IN  GoodStream(renewed) /\ Owed(renewed) = s.deposit
  <1> DEFINE new_end == s.end_time + (s.end_time - s.start_time)
             renewed == Renewed(s, new_end)
  <1>1. /\ s.start_time \in Nat /\ s.end_time \in Nat /\ s.start_time <= s.end_time
        /\ s.flow_rate * (s.end_time - s.start_time) <= s.deposit
    BY EarnedFits, StreamFields
  <1>2. new_end \in U64 /\ new_end \in Nat /\ new_end >= s.end_time
        /\ new_end - s.end_time = s.end_time - s.start_time
    BY <1>1, WidthAssumption DEF U64
  <1>3. 0 \in 0..I128_MAX
    BY WidthAssumption
  <1> HIDE DEF new_end
  <1>4. /\ renewed \in Streams
        /\ renewed.status = s.status /\ renewed.total_withdrawn = 0
        /\ renewed.start_time = s.end_time /\ renewed.end_time = new_end
        /\ renewed.last_withdraw_time = s.end_time
        /\ renewed.flow_rate = s.flow_rate /\ renewed.deposit = s.deposit
    BY <1>2, <1>3 DEF Renewed, Streams
  <1> HIDE DEF renewed
  <1>5. renewed.flow_rate * (renewed.end_time - renewed.start_time) <= renewed.deposit
    BY <1>1, <1>2, <1>4
  <1>6. GoodStream(renewed) /\ Owed(renewed) = renewed.deposit
    BY <1>1, <1>2, <1>4, <1>5, FreshGood
  <1> QED
    BY <1>4, <1>6 DEF renewed, new_end

(* ... a live stream of which only the flags or the parties change, ...      *)
LEMMA SameSchedule ==
    ASSUME NEW s \in Streams, NEW r \in Streams, GoodStream(s), now \in Nat,
           r.status = s.status, r.last_pause_time = s.last_pause_time,
           r.deposit = s.deposit, r.flow_rate = s.flow_rate,
           r.start_time = s.start_time, r.end_time = s.end_time,
           r.last_withdraw_time = s.last_withdraw_time,
           r.total_withdrawn = s.total_withdrawn
    PROVE  GoodStream(r) /\ Owed(r) = Owed(s)
  <1>1. StreamClock(r) = StreamClock(s) /\ Live(r) = Live(s)
    BY DEF StreamClock, Live
  <1> QED
    BY <1>1 DEF GoodStream, ScheduleSound, Owed

(* ... a new stream, ...                                                     *)
NewStream(sender, recipient, token, amount, terms) ==
    [sender |-> sender, recipient |-> recipient, token |-> token,
     deposit |-> amount, flow_rate |-> compute_flow_rate(amount, terms.duration_seconds),
     start_time |-> now, cliff_time |-> now + terms.cliff_seconds,
     lock_until |-> terms.lock_until, end_time |-> now + terms.duration_seconds,
     last_withdraw_time |-> now, status |-> "Active",
     auto_renew |-> terms.auto_renew,
     allow_recipient_termination |-> terms.allow_recipient_termination,
     last_pause_time |-> 0, total_withdrawn |-> 0]

LEMMA CreatedGood ==
    ASSUME now \in U64, NEW sender \in Users, NEW recipient \in Users, NEW token \in Tokens,
           NEW amount \in I128, amount > 0, NEW terms \in Terms,
           terms.cliff_seconds < terms.duration_seconds,
           compute_flow_rate(amount, terms.duration_seconds) # 0,
           now + terms.duration_seconds <= U64_MAX
    PROVE  LET stream == NewStream(sender, recipient, token, amount, terms)
           IN  GoodStream(stream) /\ Owed(stream) = amount
  <1> DEFINE d == terms.duration_seconds
             rate == compute_flow_rate(amount, d)
             stream == NewStream(sender, recipient, token, amount, terms)
  <1>1. /\ d \in Nat \ {0} /\ terms.cliff_seconds \in Nat /\ now \in Nat
        /\ terms.cliff_seconds \in U64 /\ d \in U64 /\ terms.lock_until \in U64
        /\ terms.auto_renew \in BOOLEAN /\ terms.allow_recipient_termination \in BOOLEAN
        /\ terms.cliff_seconds < d /\ now + d <= U64_MAX
    <2>1. /\ d \in Durations /\ terms.cliff_seconds \in Cliffs
          /\ terms.lock_until \in Locks /\ terms.auto_renew \in RenewChoices
          /\ terms.allow_recipient_termination \in TerminationChoices
      BY DEF Terms
    <2>2. /\ d \in U64 /\ terms.cliff_seconds \in U64 /\ terms.lock_until \in U64
          /\ terms.auto_renew \in BOOLEAN /\ terms.allow_recipient_termination \in BOOLEAN
      BY <2>1, StreamInputs
    <2>3. d \in Nat /\ terms.cliff_seconds \in Nat /\ now \in Nat
      BY <2>2, WidthAssumption DEF U64
    <2> QED
      BY <2>2, <2>3
  <1>2. amount \in Nat /\ amount \in 1..I128_MAX
    BY WidthAssumption DEF I128
  <1> HIDE DEF d
  <1>3. rate \in Nat /\ d * rate <= amount /\ rate <= amount
    BY <1>1, <1>2, DivisionRoundsDown DEF compute_flow_rate
  <1>4. rate # 0
    BY DEF d
  <1> HIDE DEF rate
  <1>5. rate \in 1..I128_MAX
    BY <1>2, <1>3, <1>4, WidthAssumption
  <1>6. /\ now + terms.cliff_seconds \in U64 /\ now + d \in U64 /\ 0 \in U64
        /\ 0 \in 0..I128_MAX
    BY <1>1, WidthAssumption DEF U64
  <1>7. /\ stream \in Streams
        /\ stream.status = "Active" /\ stream.total_withdrawn = 0
        /\ stream.last_withdraw_time = now /\ stream.start_time = now
        /\ stream.end_time = now + d /\ stream.flow_rate = rate /\ stream.deposit = amount
    BY <1>1, <1>2, <1>5, <1>6 DEF NewStream, Streams, d, rate
  <1>8. rate * ((now + d) - now) <= amount
    <2>1. (now + d) - now = d
      BY <1>1
    <2>2. rate * d = d * rate
      BY <1>1, <1>3
    <2> QED
      BY <1>3, <2>1, <2>2
  <1> HIDE DEF stream
  <1>9. now + d >= now
    BY <1>1
  <1> QED
    BY <1>1, <1>7, <1>8, <1>9, FreshGood DEF stream

(* ... a split, which leaves the old stream closed and begins a new one, ... *)
SplitOff(s, t, new_deposit) ==
    [s EXCEPT !.deposit = new_deposit, !.start_time = t,
              !.cliff_time = t, !.lock_until = t,
              !.end_time = t + new_deposit \div s.flow_rate,
              !.last_withdraw_time = t, !.status = "Active",
              !.last_pause_time = 0, !.total_withdrawn = 0]

LEMMA SplitGood ==
    ASSUME NEW s \in Streams, ScheduleSound(s), now \in Nat,
           NEW d \in Nat, d >= s.flow_rate, d <= I128_MAX,
           StreamClock(s) + d \div s.flow_rate <= U64_MAX
    PROVE  LET split == SplitOff(s, StreamClock(s), d)
           IN  GoodStream(split) /\ Owed(split) = d
  <1> DEFINE t == StreamClock(s)
             q == d \div s.flow_rate
             split == SplitOff(s, t, d)
  <1>1. /\ s.flow_rate \in Nat \ {0} /\ t \in Nat /\ t <= now /\ d \in 1..I128_MAX
    BY EarnedFits, StreamFields DEF ScheduleSound
  <1> HIDE DEF t
  <1>2. q \in Nat /\ s.flow_rate * q <= d
    BY <1>1, DivisionRoundsDown
  <1>3. t + q <= U64_MAX
    BY DEF t
  <1> HIDE DEF q
  <1>4. t \in U64 /\ t + q \in U64 /\ 0 \in U64 /\ 0 \in 0..I128_MAX
    BY <1>1, <1>2, <1>3, WidthAssumption DEF U64
  <1>5. split = [s EXCEPT !.deposit = d, !.start_time = t,
                          !.cliff_time = t, !.lock_until = t, !.end_time = t + q,
                          !.last_withdraw_time = t, !.status = "Active",
                          !.last_pause_time = 0, !.total_withdrawn = 0]
    BY DEF SplitOff, q
  <1> HIDE DEF split
  <1>6. /\ split \in Streams
        /\ split.status = "Active" /\ split.total_withdrawn = 0
        /\ split.last_withdraw_time = t /\ split.start_time = t
        /\ split.end_time = t + q /\ split.flow_rate = s.flow_rate /\ split.deposit = d
    BY <1>1, <1>4, <1>5 DEF Streams
  <1>7. s.flow_rate * ((t + q) - t) <= d
    <2>1. (t + q) - t = q
      BY <1>1, <1>2
    <2> QED
      BY <1>2, <2>1
  <1>8. t + q >= t
    BY <1>1, <1>2
  <1> QED
    BY <1>1, <1>6, <1>7, <1>8, FreshGood DEF split, t

(* ... a stream topped up, ...                                               *)
LEMMA ToppedGood ==
    ASSUME NEW s \in Streams, ScheduleSound(s), Live(s), now \in Nat,
           NEW m \in Nat, NEW x \in Nat, s.flow_rate * x <= m,
           s.end_time + x <= U64_MAX, s.deposit + m <= I128_MAX
    PROVE  LET topped == [s EXCEPT !.end_time = @ + x, !.deposit = @ + m]
           IN  GoodStream(topped) /\ Owed(topped) = Owed(s) + m
  <1> DEFINE topped == [s EXCEPT !.end_time = @ + x, !.deposit = @ + m]
  <1>1. /\ s.flow_rate \in Nat /\ s.start_time \in Nat /\ s.end_time \in Nat
        /\ s.deposit \in Nat \ {0} /\ s.last_withdraw_time \in Nat /\ s.total_withdrawn \in Nat
        /\ s.last_pause_time \in Nat
    BY StreamFields
  <1>2. s.end_time + x \in U64 /\ s.deposit + m \in 1..I128_MAX
    BY <1>1, WidthAssumption DEF U64
  <1>3. /\ topped \in Streams
        /\ topped.status = s.status /\ topped.total_withdrawn = s.total_withdrawn
        /\ topped.last_withdraw_time = s.last_withdraw_time
        /\ topped.start_time = s.start_time /\ topped.last_pause_time = s.last_pause_time
        /\ topped.end_time = s.end_time + x /\ topped.flow_rate = s.flow_rate
        /\ topped.deposit = s.deposit + m
    BY <1>2 DEF Streams
  <1> HIDE DEF topped
  <1>4. StreamClock(topped) = StreamClock(s) /\ Live(topped)
    BY <1>3 DEF StreamClock, Live
  <1>5. StreamClock(s) \in Nat
    BY EarnedFits
  <1>6. effective_now(StreamClock(s), s.end_time)
          <= effective_now(StreamClock(s), s.end_time + x)
    BY <1>1, <1>5 DEF effective_now
  <1>7. s.flow_rate * ((s.end_time + x) - s.start_time)
          = s.flow_rate * (s.end_time - s.start_time) + s.flow_rate * x
    <2>1. (s.end_time + x) - s.start_time = (s.end_time - s.start_time) + x
      BY <1>1
    <2> QED
      BY <1>1, <2>1, FlowSum
  <1>8. PICK w \in Nat : w = s.flow_rate * (s.end_time - s.start_time) /\ w <= s.deposit
    BY EarnedFits
  <1>9. PICK y \in Nat : y = s.flow_rate * x /\ y <= m
    BY <1>1, FlowOrder
  <1>10. topped.flow_rate * (topped.end_time - topped.start_time) <= topped.deposit
    BY <1>1, <1>3, <1>7, <1>8, <1>9
  <1>11. /\ effective_now(StreamClock(s), s.end_time) \in Nat
         /\ effective_now(StreamClock(s), s.end_time + x) \in Nat
    BY <1>1, <1>5 DEF effective_now
  <1>12. ScheduleSound(topped)
    BY <1>1, <1>3, <1>4, <1>6, <1>10, <1>11 DEF ScheduleSound
  <1> QED
    BY <1>1, <1>3, <1>4, <1>12 DEF GoodStream, Owed, topped

(* ... one that is paused, ...                                               *)
LEMMA PausedGood ==
    ASSUME NEW s \in Streams, GoodStream(s), s.status = "Active", now \in U64
    PROVE  LET p == [s EXCEPT !.status = "Paused", !.last_pause_time = now]
           IN  GoodStream(p) /\ Owed(p) = Owed(s)
  <1> DEFINE p == [s EXCEPT !.status = "Paused", !.last_pause_time = now]
  <1>1. /\ p \in Streams
        /\ p.status = "Paused" /\ p.last_pause_time = now
        /\ p.total_withdrawn = s.total_withdrawn
        /\ p.last_withdraw_time = s.last_withdraw_time
        /\ p.start_time = s.start_time /\ p.end_time = s.end_time
        /\ p.flow_rate = s.flow_rate /\ p.deposit = s.deposit
    BY DEF Streams
  <1> HIDE DEF p
  <1>2. StreamClock(p) = now /\ StreamClock(s) = now /\ Live(p) /\ Live(s)
    BY <1>1 DEF StreamClock, Live
  <1> QED
    BY <1>1, <1>2 DEF GoodStream, ScheduleSound, Owed, p

(* ... and one that is resumed: the last withdrawal was before the pause, so *)
(* neither it nor the start is cut off at u64::MAX when they move.           *)
Postponed(s, t) == saturating_add(t, saturating_sub(now, s.last_pause_time))
Resumed(s) ==
    [s EXCEPT !.end_time = Postponed(s, @), !.cliff_time = Postponed(s, @),
              !.start_time = Postponed(s, @), !.last_withdraw_time = Postponed(s, @),
              !.lock_until = Postponed(s, @),
              !.status = "Active", !.last_pause_time = 0]

LEMMA ResumedGood ==
    ASSUME NEW s \in Streams, GoodStream(s), s.status = "Paused", now \in U64
    PROVE  GoodStream(Resumed(s)) /\ Owed(Resumed(s)) = Owed(s)
  <1> DEFINE r == Resumed(s)
  <1>1. /\ now \in Nat /\ now <= U64_MAX /\ U64_MAX \in Nat
        /\ s.last_pause_time \in Nat /\ s.last_withdraw_time \in Nat /\ s.start_time \in Nat
        /\ s.end_time \in Nat /\ s.flow_rate \in Nat /\ s.deposit \in Nat
    BY StreamFields, WidthAssumption DEF U64
  <1>2. ScheduleSound(s) /\ Live(s) /\ StreamClock(s) = s.last_pause_time
    BY DEF GoodStream, Live, StreamClock
  <1>3. /\ s.last_pause_time <= now
        /\ s.start_time <= s.last_withdraw_time
        /\ s.last_withdraw_time <= s.last_pause_time
        /\ s.last_withdraw_time <= s.end_time
    BY <1>1, <1>2 DEF ScheduleSound, effective_now
  <1>4. PICK gap \in Nat : gap = now - s.last_pause_time
    BY <1>1, <1>3
  <1>5. saturating_sub(now, s.last_pause_time) = gap
    BY <1>1, <1>3, <1>4 DEF saturating_sub
  <1>6. ASSUME NEW t \in U64 PROVE Postponed(s, t) \in U64
    BY <1>1, <1>5 DEF Postponed, saturating_add, U64
  <1>7. /\ Postponed(s, s.last_withdraw_time) = s.last_withdraw_time + gap
        /\ Postponed(s, s.start_time) = s.start_time + gap
        /\ Postponed(s, s.end_time)
             = IF s.end_time + gap <= U64_MAX THEN s.end_time + gap ELSE U64_MAX
    BY <1>1, <1>3, <1>4, <1>5 DEF Postponed, saturating_add
  <1>8. r = [s EXCEPT !.end_time = Postponed(s, s.end_time),
                      !.cliff_time = Postponed(s, s.cliff_time),
                      !.start_time = Postponed(s, s.start_time),
                      !.last_withdraw_time = Postponed(s, s.last_withdraw_time),
                      !.lock_until = Postponed(s, s.lock_until),
                      !.status = "Active", !.last_pause_time = 0]
    BY DEF Resumed, Streams
  <1>9. /\ s.end_time \in U64 /\ s.cliff_time \in U64 /\ s.start_time \in U64
        /\ s.last_withdraw_time \in U64 /\ s.lock_until \in U64 /\ 0 \in U64
    BY WidthAssumption DEF Streams, U64
  <1> HIDE DEF r
  <1>10. /\ r \in Streams
         /\ r.status = "Active" /\ r.total_withdrawn = s.total_withdrawn
         /\ r.last_withdraw_time = Postponed(s, s.last_withdraw_time)
         /\ r.start_time = Postponed(s, s.start_time)
         /\ r.end_time = Postponed(s, s.end_time)
         /\ r.flow_rate = s.flow_rate /\ r.deposit = s.deposit
    BY <1>6, <1>8, <1>9 DEF Streams
  <1>11. StreamClock(r) = now /\ Live(r)
    BY <1>10 DEF StreamClock, Live
  <1>12. /\ r.start_time <= r.last_withdraw_time
         /\ r.last_withdraw_time <= effective_now(now, r.end_time)
         /\ r.last_withdraw_time - r.start_time = s.last_withdraw_time - s.start_time
         /\ r.end_time - r.start_time <= s.end_time - s.start_time
         /\ r.end_time - r.start_time \in Nat
    BY <1>1, <1>3, <1>4, <1>7, <1>10 DEF effective_now
  <1>13. r.flow_rate * (r.end_time - r.start_time) <= r.deposit
    <2>1. s.end_time - s.start_time \in Nat
      BY <1>1, <1>3
    <2>2. /\ s.flow_rate * (r.end_time - r.start_time) <= s.flow_rate * (s.end_time - s.start_time)
          /\ s.flow_rate * (r.end_time - r.start_time) \in Nat
          /\ s.flow_rate * (s.end_time - s.start_time) \in Nat
      BY <1>1, <1>12, <2>1, FlowOrder
    <2> QED
      BY <1>1, <1>2, <1>10, <2>2 DEF ScheduleSound
  <1>14. r.total_withdrawn <= r.flow_rate * (r.last_withdraw_time - r.start_time)
    BY <1>2, <1>10, <1>12 DEF ScheduleSound
  <1>15. ScheduleSound(r)
    BY <1>1, <1>11, <1>12, <1>13, <1>14 DEF ScheduleSound
  <1> QED
    BY <1>2, <1>10, <1>11, <1>15 DEF GoodStream, Owed, r

-----------------------------------------------------------------------------
(* Each operation keeps the invariant.  What they have in common:            *)
StepKept == StreamsInv' /\ MoneyInv' /\ IndexInv'

LEMMA Basics ==
    ASSUME ContractInv
    PROVE  /\ now \in U64 /\ now \in Nat /\ bal \in Balances /\ FeesTypeOK
           /\ AllGood(streams, escrow) /\ IndexInv
           /\ \A token \in Tokens : bal[token][Contract] \in Nat
           /\ \A id \in DOMAIN streams :
                 /\ GoodStream(streams[id]) /\ streams[id] \in Streams
                 /\ streams[id].token \in Tokens /\ streams[id].sender \in Users
                 /\ streams[id].recipient \in Users
                 /\ HeldIn(escrow, id) = escrow[id]
                 /\ escrow[id] \in Nat /\ escrow[id] >= Owed(streams[id])
  <1>1. now \in U64 /\ bal \in Balances /\ AllGood(streams, escrow)
    BY DEF ContractInv, AdminInv, MoneyInv, StreamsInv
  <1>2. now \in Nat
    BY <1>1, WidthAssumption DEF U64
  <1>3. \A token \in Tokens : bal[token][Contract] \in Nat
    BY <1>1, ContractApart DEF Balances
  <1>4. ASSUME NEW id \in DOMAIN streams
        PROVE  /\ GoodStream(streams[id]) /\ streams[id] \in Streams
               /\ HeldIn(escrow, id) = escrow[id]
               /\ escrow[id] \in Nat /\ escrow[id] >= Owed(streams[id])
    BY <1>1 DEF AllGood, GoodStream, HeldIn
  <1>5. ASSUME NEW id \in DOMAIN streams
        PROVE  /\ streams[id].token \in Tokens /\ streams[id].sender \in Users
               /\ streams[id].recipient \in Users
    BY <1>4 DEF Streams
  <1> QED
    BY <1>1, <1>2, <1>3, <1>4, <1>5 DEF ContractInv

(* A step that saves a stream and books what it moved.                       *)
LEMMA SaveStep ==
    ASSUME ContractInv, now' = now, NEW id, NEW s, GoodStream(s), NEW token \in Tokens,
           SaveStream(id, s), Book(id, token), bal' \in Balances,
           HeldIn(escrow, id) + (bal'[token][Contract] - bal[token][Contract]) >= Owed(s)
    PROVE  StreamsInv' /\ MoneyInv'
  <1>1. /\ bal[token][Contract] \in Nat /\ bal'[token][Contract] \in Nat
    BY Basics, ContractApart DEF Balances
  <1>2. PICK n \in Int : n = bal'[token][Contract] - bal[token][Contract]
    BY <1>1
  <1>3. HeldIn(escrow, id) \in Nat /\ Owed(s) \in Nat
    BY Basics, OwedIsAmount DEF HeldIn, AllGood
  <1>4. HeldIn(escrow, id) + n >= Owed(s) /\ HeldIn(escrow, id) + n \in Nat
    BY <1>2, <1>3
  <1>5. AllGood(Put(streams, id, s), Credit(escrow, id, n))
    BY <1>4, Basics, PutKeeps
  <1>6. streams' = Put(streams, id, s) /\ escrow' = Credit(escrow, id, n)
    BY <1>2 DEF SaveStream, Book, Income
  <1>7. AllGood(streams', escrow')
    BY <1>5, <1>6
  <1> QED
    BY <1>7, StillGood DEF MoneyInv

(* A step that deletes a stream and books what it moved.                     *)
LEMMA RemoveStep ==
    ASSUME ContractInv, now' = now, NEW id \in DOMAIN streams, NEW token \in Tokens,
           RemoveStream(id), Book(id, token), bal' \in Balances,
           escrow[id] + (bal'[token][Contract] - bal[token][Contract]) >= 0
    PROVE  StreamsInv' /\ MoneyInv'
  <1>1. /\ bal[token][Contract] \in Nat /\ bal'[token][Contract] \in Nat
    BY Basics, ContractApart DEF Balances
  <1>2. PICK n \in Int : n = bal'[token][Contract] - bal[token][Contract]
    BY <1>1
  <1>3. HeldIn(escrow, id) = escrow[id] /\ escrow[id] \in Nat
    BY Basics
  <1>4. HeldIn(escrow, id) + n \in Nat
    BY <1>2, <1>3
  <1>5. AllGood(Drop(streams, id), Credit(escrow, id, n))
    BY <1>4, Basics, DropKeeps
  <1>6. streams' = Drop(streams, id) /\ escrow' = Credit(escrow, id, n)
    BY <1>2 DEF RemoveStream, Book, Income
  <1>7. AllGood(streams', escrow')
    BY <1>5, <1>6
  <1> QED
    BY <1>7, StillGood DEF MoneyInv

LEMMA ListsKept ==
    ASSUME IndexInv, UNCHANGED <<nonces, delegate_of>>,
           DOMAIN sender_ids' = DOMAIN sender_ids,
           DOMAIN recipient_ids' = DOMAIN recipient_ids
    PROVE  IndexInv'
  BY DEF IndexInv

LEMMA RemovedLists ==
    ASSUME NEW id, RemoveStream(id)
    PROVE  /\ DOMAIN sender_ids' = DOMAIN sender_ids
           /\ DOMAIN recipient_ids' = DOMAIN recipient_ids
  BY DEF RemoveStream

-----------------------------------------------------------------------------
(* The creation fee does not touch the contract's own balances.              *)
LEMMA ChargedKept ==
    ASSUME ContractInv, NEW sender \in Users, CanPayCreationFee(bal, sender)
    PROVE  /\ PayCreationFee(bal, sender) \in Balances
           /\ \A t \in Tokens : PayCreationFee(bal, sender)[t][Contract] = bal[t][Contract]
  <1>1. CASE creation_fee > 0
    <2>1. /\ treasury \in Users /\ xlm_token \in Tokens /\ creation_fee \in Nat
          /\ CanPay(bal, xlm_token, sender, creation_fee)
      BY <1>1, Basics DEF CanPayCreationFee, FeesTypeOK
    <2>2. treasury \in Accounts /\ treasury # Contract
      BY <2>1, ContractApart
    <2> QED
      BY <1>1, <2>1, <2>2, Basics, UserPays DEF PayCreationFee
  <1>2. CASE ~(creation_fee > 0)
    BY <1>2, Basics DEF PayCreationFee
  <1> QED
    BY <1>1, <1>2

LEMMA CreateKeeps ==
    ASSUME ContractInv, now' = now,
           NEW sender \in Senders, NEW recipient \in Recipients, NEW token \in Tokens,
           NEW amount \in Amounts, NEW nonce \in Nonces, NEW terms \in Terms,
           create_stream(sender, recipient, token, amount, nonce, terms)
    PROVE  StepKept
  <1> DEFINE id == derive_stream_id(sender, recipient, now, nonce)
             stream == NewStream(sender, recipient, token, amount, terms)
             charged == PayCreationFee(bal, sender)
  <1>1. /\ sender \in Users /\ recipient \in Users /\ amount \in I128
    BY StreamInputs
  <1>2. /\ amount > 0 /\ terms.cliff_seconds < terms.duration_seconds
        /\ compute_flow_rate(amount, terms.duration_seconds) # 0
        /\ now + terms.duration_seconds <= U64_MAX
        /\ CanPayCreationFee(bal, sender) /\ CanPay(charged, token, sender, amount)
        /\ nonces' = nonces \cup {<<sender, nonce>>}
        /\ bal' = Move(charged, token, sender, Contract, amount)
        /\ SaveStream(id, stream) /\ IndexStream(id, stream) /\ Book(id, token)
        /\ delegate_of' = delegate_of
    BY DEF create_stream, NewStream
  <1> HIDE DEF id
  <1>3. GoodStream(stream) /\ Owed(stream) = amount
    BY <1>1, <1>2, Basics, CreatedGood
  <1> HIDE DEF stream
  <1>4. amount \in Nat
    BY <1>1, <1>2 DEF I128
  <1>5. /\ charged \in Balances
        /\ charged[token][Contract] = bal[token][Contract]
    BY <1>1, <1>2, ChargedKept
  <1> HIDE DEF charged
  <1>6. /\ bal' \in Balances
        /\ bal'[token][Contract] = bal[token][Contract] + amount
    BY <1>1, <1>2, <1>4, <1>5, UserPays, ContractApart
  <1>7. HeldIn(escrow, id) \in Nat /\ bal[token][Contract] \in Nat
    BY Basics DEF HeldIn, AllGood
  <1>8. HeldIn(escrow, id) + (bal'[token][Contract] - bal[token][Contract]) >= Owed(stream)
    BY <1>3, <1>4, <1>6, <1>7
  <1>9. StreamsInv' /\ MoneyInv'
    BY <1>2, <1>3, <1>6, <1>8, SaveStep
  <1>10. IndexInv'
    BY <1>2, Basics DEF IndexStream, IndexInv
  <1> QED
    BY <1>9, <1>10 DEF StepKept

-----------------------------------------------------------------------------
(* What a withdrawal, or the end of a stream, costs the escrow of one id.    *)
LEMMA ClaimServed ==
    ASSUME ContractInv, NEW id \in DOMAIN streams, Live(streams[id]),
           NEW c, Payable(streams[id], c), NEW forwarded \in Nat,
           ClaimPaid(streams[id], c, forwarded)
    PROVE  LET s      == streams[id]
               served == Served(s, c, StreamClock(s))
               paid   == AfterClaim(s, c, forwarded)
           IN  /\ served \in Streams /\ ScheduleSound(served) /\ GoodStream(served)
               /\ served.status = s.status /\ served.deposit = s.deposit
               /\ served.token = s.token /\ served.sender = s.sender
               /\ Dust(served) \in Nat /\ Owed(served) \in Nat
               /\ Dust(served) <= Owed(served)
               /\ paid \in Balances
               /\ paid[s.token][Contract] \in Nat /\ bal[s.token][Contract] \in Nat
               /\ escrow[id] + (paid[s.token][Contract] - bal[s.token][Contract])
                    >= Owed(served)
  <1> DEFINE s == streams[id]
             served == Served(s, c, StreamClock(s))
             paid == AfterClaim(s, c, forwarded)
  <1>1. /\ s \in Streams /\ ScheduleSound(s) /\ now \in Nat /\ now \in U64
        /\ escrow[id] \in Nat /\ escrow[id] >= Owed(s)
        /\ bal \in Balances /\ FeesTypeOK
    BY Basics DEF GoodStream
  <1>2. c \in Nat /\ s.deposit \in Nat /\ s.total_withdrawn \in Nat
    BY <1>1, StreamFields DEF Payable
  <1>3. /\ served \in Streams /\ ScheduleSound(served) /\ Live(served)
        /\ served.status = s.status /\ served.deposit = s.deposit
        /\ served.token = s.token /\ served.sender = s.sender
        /\ Owed(served) = s.deposit - s.total_withdrawn - c
        /\ Dust(served) = Dust(s)
    BY <1>1, ServedGood
  <1>4. GoodStream(served) /\ Owed(served) \in Nat
    BY <1>1, <1>3, OwedIsAmount DEF GoodStream
  <1>5. Dust(s) \in Nat /\ Dust(s) <= s.deposit - s.total_withdrawn - c
    <2>1. PICK w \in Nat : w = s.flow_rate * (s.end_time - s.start_time)
      BY <1>1, EarnedFits
    <2>2. s.total_withdrawn + c <= w
      BY <2>1 DEF Payable
    <2>3. Dust(s) = s.deposit - w /\ Dust(s) \in Nat
      BY <1>1, <2>1, DustIsRest
    <2> QED
      BY <1>2, <2>1, <2>2, <2>3
  <1>6. /\ paid \in Balances
        /\ paid[s.token][Contract] >= bal[s.token][Contract] - c
        /\ paid[s.token][Contract] \in Nat /\ bal[s.token][Contract] \in Nat
    BY <1>1, <1>2, ClaimCosts
  <1>7. Owed(s) = s.deposit - s.total_withdrawn
    BY DEF Owed
  <1> HIDE DEF s, served, paid
  <1>8. escrow[id] + (paid[s.token][Contract] - bal[s.token][Contract]) >= Owed(served)
    BY <1>1, <1>2, <1>3, <1>6, <1>7
  <1> QED
    BY <1>3, <1>4, <1>5, <1>6, <1>8 DEF s, served, paid

(* Paying the sender, after that, no more than what is owed.                 *)
LEMMA SettlementCosts ==
    ASSUME NEW paid \in Balances, NEW token \in Tokens, NEW to \in Users, NEW n \in Nat,
           Funded(PayOut(paid, token, to, n), token)
    PROVE  /\ PayOut(paid, token, to, n) \in Balances
           /\ PayOut(paid, token, to, n)[token][Contract] = paid[token][Contract] - n
  <1>1. Loan(paid, token)
    BY BalancesAreLoan
  <1> QED
    BY <1>1, PayOutCosts, LoanFunded

LEMMA WithdrawKeeps ==
    ASSUME ContractInv, now' = now, NEW id \in DOMAIN streams,
           NEW forwarded \in Forwards, withdraw(id, forwarded)
    PROVE  StepKept
  <1> DEFINE s == streams[id]
             c == Claimable(s, now)
             served == Served(s, c, now)
             paid == AfterClaim(s, c, forwarded)
             settled == PayOut(paid, served.token, served.sender, Dust(served))
  <1>1. /\ s.status = "Active"
        /\ ClaimPaid(s, c, forwarded)
        /\ \/ KeepFlowing(id, served, paid) \/ Settle(id, served, paid)
           \/ Renew(id, served, paid) \/ FailRenewal(id, served, paid)
        /\ Book(id, s.token)
        /\ UNCHANGED <<delegate_of, nonces>>
    BY DEF withdraw
  <1>2. /\ s \in Streams /\ ScheduleSound(s) /\ Live(s) /\ StreamClock(s) = now
        /\ s.token \in Tokens /\ s.sender \in Users
        /\ HeldIn(escrow, id) = escrow[id] /\ escrow[id] \in Nat
        /\ now \in Nat /\ IndexInv
    BY <1>1, Basics DEF GoodStream, Live, StreamClock
  <1>3. Payable(s, c)
    BY <1>2, ClaimablePayable
  <1>4. forwarded \in Nat
    BY StreamInputs
  <1>5. /\ served \in Streams /\ ScheduleSound(served) /\ GoodStream(served)
        /\ served.status = s.status /\ served.deposit = s.deposit
        /\ served.token = s.token /\ served.sender = s.sender
        /\ Dust(served) \in Nat /\ Owed(served) \in Nat
        /\ Dust(served) <= Owed(served)
        /\ paid \in Balances
        /\ paid[s.token][Contract] \in Nat /\ bal[s.token][Contract] \in Nat
        /\ escrow[id] + (paid[s.token][Contract] - bal[s.token][Contract]) >= Owed(served)
    BY <1>1, <1>2, <1>3, <1>4, ClaimServed
  <1> HIDE DEF s, c, served, paid
  <1>6. CASE KeepFlowing(id, served, paid)
    <2>1. bal' = paid /\ SaveStream(id, served) /\ UNCHANGED indexVars
      BY <1>6 DEF KeepFlowing
    <2>2. StreamsInv' /\ MoneyInv'
      BY <1>1, <1>2, <1>5, <2>1, SaveStep
    <2>3. IndexInv'
      BY <1>1, <1>2, <2>1, ListsKept DEF indexVars
    <2> QED
      BY <2>2, <2>3 DEF StepKept
  <1>7. ASSUME Funded(settled, served.token), bal' = settled
        PROVE  /\ bal' \in Balances
               /\ escrow[id] + (bal'[s.token][Contract] - bal[s.token][Contract]) >= 0
    <2>1. /\ settled \in Balances
          /\ settled[s.token][Contract] = paid[s.token][Contract] - Dust(served)
      BY <1>2, <1>5, <1>7, SettlementCosts
    <2> QED
      BY <1>2, <1>5, <1>7, <2>1
  <1>8. CASE Settle(id, served, paid)
    <2>1. Funded(settled, served.token) /\ bal' = settled /\ RemoveStream(id)
      BY <1>8 DEF Settle
    <2>2. StreamsInv' /\ MoneyInv'
      BY <1>1, <1>2, <1>7, <2>1, RemoveStep
    <2>3. IndexInv'
      BY <1>1, <1>2, <2>1, RemovedLists, ListsKept
    <2> QED
      BY <2>2, <2>3 DEF StepKept
  <1>9. CASE Renew(id, served, paid)
    <2> DEFINE new_end == served.end_time + (served.end_time - served.start_time)
               renewed == Renewed(served, new_end)
    <2>1. /\ now >= served.end_time
          /\ CanPay(paid, served.token, served.sender, served.deposit)
          /\ new_end <= U64_MAX
          /\ bal' = Move(paid, served.token, served.sender, Contract, served.deposit)
          /\ SaveStream(id, renewed) /\ UNCHANGED indexVars
      BY <1>9 DEF Renew
    <2>2. GoodStream(renewed) /\ Owed(renewed) = served.deposit
      BY <1>1, <1>2, <1>5, <2>1, RenewedGood
    <2> HIDE DEF renewed
    <2>3. served.deposit \in Nat
      BY <1>5, StreamFields
    <2>4. /\ bal' \in Balances
          /\ bal'[s.token][Contract] = paid[s.token][Contract] + served.deposit
      BY <1>2, <1>5, <2>1, <2>3, UserPays, ContractApart
    <2>5. HeldIn(escrow, id) + (bal'[s.token][Contract] - bal[s.token][Contract])
            >= Owed(renewed)
      BY <1>2, <1>5, <2>2, <2>3, <2>4
    <2>6. StreamsInv' /\ MoneyInv'
      BY <1>1, <1>2, <2>1, <2>2, <2>4, <2>5, SaveStep
    <2>7. IndexInv'
      BY <1>1, <1>2, <2>1, ListsKept DEF indexVars
    <2> QED
      BY <2>6, <2>7 DEF StepKept
  <1>10. CASE FailRenewal(id, served, paid)
    <2> DEFINE completed == [served EXCEPT !.status = "Completed"]
    <2>1. /\ Funded(settled, served.token) /\ bal' = settled
          /\ SaveStream(id, completed) /\ UNCHANGED indexVars
      BY <1>10 DEF FailRenewal
    <2>2. GoodStream(completed) /\ Owed(completed) = 0
      <3>1. completed \in Streams /\ completed.status = "Completed"
        BY <1>5 DEF Streams
      <3> QED
        BY <3>1 DEF GoodStream, Owed, Live
    <2> HIDE DEF completed
    <2>3. HeldIn(escrow, id) + (bal'[s.token][Contract] - bal[s.token][Contract])
            >= Owed(completed)
      BY <1>2, <1>7, <2>1, <2>2
    <2>4. bal' \in Balances
      BY <1>7, <2>1
    <2>5. StreamsInv' /\ MoneyInv'
      BY <1>1, <1>2, <2>1, <2>2, <2>3, <2>4, SaveStep
    <2>6. IndexInv'
      BY <1>1, <1>2, <2>1, ListsKept DEF indexVars
    <2> QED
      BY <2>5, <2>6 DEF StepKept
  <1> QED
    BY <1>1, <1>6, <1>8, <1>9, <1>10

-----------------------------------------------------------------------------
(* Closing a stream costs its escrow what the stream owed, no more.          *)
LEMMA CloseKeeps ==
    ASSUME ContractInv, now' = now, NEW id \in DOMAIN streams, Live(streams[id]),
           NEW n, Payable(streams[id], n), CloseOut(id, n)
    PROVE  StepKept
  <1> DEFINE s == streams[id]
             rest == Refund(s, n)
             served == PayOut(bal, s.token, s.recipient, n)
             closed == PayOut(served, s.token, s.sender, rest)
  <1>1. /\ Funded(closed, s.token) /\ bal' = closed
        /\ RemoveStream(id) /\ Book(id, s.token)
        /\ UNCHANGED <<delegate_of, nonces>>
    BY DEF CloseOut
  <1>2. /\ s \in Streams /\ s.token \in Tokens /\ s.sender \in Users
        /\ s.recipient \in Users /\ escrow[id] \in Nat /\ escrow[id] >= Owed(s)
        /\ bal \in Balances /\ bal[s.token][Contract] \in Nat /\ IndexInv
    BY Basics
  <1>3. /\ n \in Nat /\ rest \in Nat /\ rest = s.deposit - s.total_withdrawn - n
        /\ s.deposit \in Nat /\ s.total_withdrawn \in Nat
        /\ Owed(s) = s.deposit - s.total_withdrawn
    BY <1>2, RefundIsRest, StreamFields DEF Payable, Owed
  <1> HIDE DEF s, rest
  <1>4. /\ Loan(served, s.token)
        /\ served[s.token][Contract] = bal[s.token][Contract] - n
    BY <1>2, <1>3, BalancesAreLoan, PayOutCosts, ZenonT(60)
  <1> HIDE DEF served
  <1>5. /\ Loan(closed, s.token)
        /\ closed[s.token][Contract] = served[s.token][Contract] - rest
    <2>1. s.token \in Tokens /\ s.sender \in Users /\ rest \in Nat /\ Loan(served, s.token)
      BY <1>2, <1>3, <1>4
    <2> QED
      BY ONLY <2>1, PayOutCosts, Zenon
  <1> HIDE DEF closed
  <1>6. bal' \in Balances
    BY <1>1, <1>2, <1>5, LoanFunded
  <1>7. escrow[id] + (bal'[s.token][Contract] - bal[s.token][Contract]) >= 0
    BY <1>1, <1>2, <1>3, <1>4, <1>5
  <1>8. StreamsInv' /\ MoneyInv'
    BY <1>1, <1>2, <1>6, <1>7, RemoveStep
  <1>9. IndexInv'
    BY <1>1, <1>2, RemovedLists, ListsKept
  <1> QED
    BY <1>8, <1>9 DEF StepKept

LEMMA CancelKeeps ==
    ASSUME ContractInv, now' = now, NEW id \in DOMAIN streams, NEW caller \in Users,
           cancel_stream(id, caller)
    PROVE  StepKept
  <1> DEFINE s == streams[id]
             n == compute_earned(s.flow_rate, StreamClock(s), s.end_time, s.last_withdraw_time)
  <1>1. Live(s) /\ CloseOut(id, n)
    BY DEF cancel_stream
  <1>2. s \in Streams /\ ScheduleSound(s) /\ now \in Nat
    BY <1>1, Basics DEF GoodStream
  <1>3. Payable(s, n)
    BY <1>2, EarnedPayable
  <1> HIDE DEF n
  <1> QED
    BY <1>1, <1>3, CloseKeeps

LEMMA TerminateKeeps ==
    ASSUME ContractInv, now' = now, NEW id \in DOMAIN streams, recipient_terminate(id)
    PROVE  StepKept
  <1> DEFINE s == streams[id]
             n == Claimable(s, StreamClock(s))
  <1>1. Live(s) /\ CloseOut(id, n)
    BY DEF recipient_terminate
  <1>2. s \in Streams /\ ScheduleSound(s) /\ now \in Nat
    BY <1>1, Basics DEF GoodStream
  <1>3. Payable(s, n)
    BY <1>2, ClaimablePayable
  <1> HIDE DEF n
  <1> QED
    BY <1>1, <1>3, CloseKeeps

(* The stream as it was, or as served: either way the claim is counted.      *)
LEMMA TransferKeeps ==
    ASSUME ContractInv, now' = now, NEW id \in DOMAIN streams,
           NEW new_recipient \in Recipients, transfer_recipient(id, new_recipient)
    PROVE  StepKept
  <1> DEFINE s == streams[id]
             t == StreamClock(s)
             c == IF t >= s.lock_until THEN Claimable(s, t) ELSE 0
             served == IF c > 0 THEN Served(s, c, t) ELSE s
             paid == AfterClaim(s, c, 0)
             moved == [served EXCEPT !.recipient = new_recipient]
  <1>1. /\ Live(s) /\ ClaimPaid(s, c, 0) /\ bal' = paid
        /\ SaveStream(id, moved) /\ Book(id, s.token)
        /\ UNCHANGED <<delegate_of, nonces>>
        /\ DOMAIN recipient_ids' = DOMAIN recipient_ids /\ sender_ids' = sender_ids
    BY DEF transfer_recipient
  <1>2. /\ s \in Streams /\ ScheduleSound(s) /\ GoodStream(s) /\ now \in Nat
        /\ s.token \in Tokens /\ HeldIn(escrow, id) = escrow[id] /\ escrow[id] \in Nat
        /\ escrow[id] >= Owed(s) /\ Owed(s) \in Nat /\ IndexInv
    BY <1>1, Basics, OwedIsAmount DEF GoodStream
  <1>3. Payable(s, c)
    BY <1>2, ClaimablePayable, EarnedPayable
  <1>4. /\ Served(s, c, t) \in Streams /\ GoodStream(Served(s, c, t))
        /\ Owed(Served(s, c, t)) \in Nat
        /\ paid \in Balances
        /\ paid[s.token][Contract] \in Nat /\ bal[s.token][Contract] \in Nat
        /\ escrow[id] + (paid[s.token][Contract] - bal[s.token][Contract])
             >= Owed(Served(s, c, t))
    <2> HIDE DEF c
    <2>1. 0 \in Nat
      OBVIOUS
    <2> QED
      BY <1>1, <1>3, <2>1, ClaimServed
  <1>5. paid[s.token][Contract] >= bal[s.token][Contract] - c /\ c \in Nat
    <2>1. c \in Nat /\ 0 \in Nat /\ bal \in Balances /\ FeesTypeOK
      BY <1>3, Basics DEF Payable
    <2> HIDE DEF c
    <2> QED
      BY <1>1, <1>2, <2>1, ClaimCosts
  <1>6. /\ served \in Streams /\ GoodStream(served)
        /\ escrow[id] + (paid[s.token][Contract] - bal[s.token][Contract]) >= Owed(served)
    <2> HIDE DEF c, paid
    <2>1. CASE c > 0
      BY <1>4, <2>1
    <2>2. CASE c = 0
      BY <1>2, <1>4, <1>5, <2>2
    <2> QED
      BY <1>5, <2>1, <2>2
  <1> HIDE DEF served, paid
  <1>7. GoodStream(moved) /\ Owed(moved) = Owed(served)
    <2>1. new_recipient \in Users
      BY StreamInputs
    <2>2. /\ moved \in Streams
          /\ moved.status = served.status /\ moved.last_pause_time = served.last_pause_time
          /\ moved.deposit = served.deposit /\ moved.flow_rate = served.flow_rate
          /\ moved.start_time = served.start_time /\ moved.end_time = served.end_time
          /\ moved.last_withdraw_time = served.last_withdraw_time
          /\ moved.total_withdrawn = served.total_withdrawn
      BY <1>6, <2>1 DEF Streams
    <2> HIDE DEF moved
    <2> QED
      BY <1>2, <1>6, <2>2, SameSchedule
  <1> HIDE DEF s, moved
  <1>8. HeldIn(escrow, id) + (bal'[s.token][Contract] - bal[s.token][Contract]) >= Owed(moved)
    BY <1>1, <1>2, <1>6, <1>7
  <1>9. StreamsInv' /\ MoneyInv'
    BY <1>1, <1>2, <1>4, <1>7, <1>8, SaveStep
  <1>10. IndexInv'
    BY <1>1, <1>2, ListsKept
  <1> QED
    BY <1>9, <1>10 DEF StepKept

-----------------------------------------------------------------------------
(* A split: what the old stream owed goes to the recipient, to the sender    *)
(* and to the new stream, and never from what others left in the contract.   *)
LEMMA SplitAmounts ==
    ASSUME NEW s \in Streams, Live(s), ScheduleSound(s), now \in Nat,
           NEW cancel \in Nat \ {0},
           StreamedBy(s, StreamClock(s)) # None,
           Checked(s.flow_rate * saturating_sub(StreamClock(s), s.last_withdraw_time)) # None,
           cancel < Remaining(s, StreamClock(s)),
           Remaining(s, StreamClock(s)) - cancel >= s.flow_rate
    PROVE  LET t      == StreamClock(s)
               earned == Checked(s.flow_rate * saturating_sub(t, s.last_withdraw_time))
               rest   == Remaining(s, t) - cancel
           IN  /\ earned \in Nat /\ rest \in Nat /\ rest <= I128_MAX
               /\ earned + cancel + rest <= Owed(s)
  <1> DEFINE t == StreamClock(s)
             earned == Checked(s.flow_rate * saturating_sub(t, s.last_withdraw_time))
             rest == Remaining(s, t) - cancel
  <1>1. /\ t \in Nat /\ s.flow_rate \in Nat \ {0} /\ s.start_time \in Nat
        /\ s.last_withdraw_time \in Nat /\ s.total_withdrawn \in Nat
        /\ s.deposit \in Nat /\ s.deposit <= I128_MAX /\ I128_MAX \in Nat
        /\ s.start_time <= s.last_withdraw_time /\ s.last_withdraw_time <= t
        /\ s.total_withdrawn <= s.flow_rate * (s.last_withdraw_time - s.start_time)
    <2>1. LET eff == effective_now(t, s.end_time)
          IN  s.last_withdraw_time <= eff /\ eff <= t /\ eff \in Nat /\ t \in Nat
      BY EarnedFits
    <2> HIDE DEF t
    <2> QED
      BY <2>1, StreamFields DEF ScheduleSound
  <1> HIDE DEF t
  <1>2. /\ saturating_sub(t, s.last_withdraw_time) = t - s.last_withdraw_time
        /\ saturating_sub(t, s.start_time) = t - s.start_time
    BY <1>1 DEF saturating_sub
  <1>3. /\ t - s.last_withdraw_time \in Nat /\ t - s.start_time \in Nat
        /\ s.last_withdraw_time - s.start_time \in Nat
    BY <1>1
  <1>4. PICK e \in Nat : e = s.flow_rate * (t - s.last_withdraw_time)
    BY <1>1, <1>3, FlowOrder
  <1>5. PICK f \in Nat : f = s.flow_rate * (t - s.start_time)
    BY <1>1, <1>3, FlowOrder
  <1>6. PICK g \in Nat : g = s.flow_rate * (s.last_withdraw_time - s.start_time)
    BY <1>1, <1>3, FlowOrder
  <1>7. e = f - g
    BY <1>1, <1>4, <1>5, <1>6, FlowDifference
  <1>8. earned = e
    BY <1>2, <1>4 DEF Checked, t
  <1>9. StreamedBy(s, t) = f
    BY <1>2, <1>5 DEF StreamedBy, Checked, t
  <1>10. Remaining(s, t) = Saturated(s.deposit - f) /\ cancel < Remaining(s, t)
         /\ Remaining(s, t) - cancel >= s.flow_rate
    BY <1>9 DEF Remaining, t
  <1>11. Remaining(s, t) = s.deposit - f
    BY <1>1, <1>10 DEF Saturated
  <1>12. Owed(s) = s.deposit - s.total_withdrawn
    BY DEF Owed
  <1>13. rest = s.deposit - f - cancel /\ rest >= s.flow_rate
    BY <1>10, <1>11
  <1> HIDE DEF earned, rest
  <1>14. rest \in Nat /\ rest <= I128_MAX
    BY <1>1, <1>13
  <1>15. earned \in Nat /\ earned + cancel + rest <= Owed(s)
    BY <1>1, <1>6, <1>7, <1>8, <1>12, <1>13
  <1> QED
    BY <1>14, <1>15 DEF earned, rest, t

LEMMA SplitKeeps ==
    ASSUME ContractInv, now' = now, NEW id \in DOMAIN streams, NEW caller \in Users,
           NEW cancel \in CancelAmounts, partial_cancel_stream(id, caller, cancel)
    PROVE  StepKept
  <1> DEFINE s == streams[id]
             t == StreamClock(s)
             earned == Checked(s.flow_rate * saturating_sub(t, s.last_withdraw_time))
             rest == Remaining(s, t) - cancel
             new_id == derive_stream_id(s.sender, s.recipient, t, id)
             closed == [s EXCEPT !.status = "Cancelled"]
             split == SplitOff(s, t, rest)
             served == PayOut(bal, s.token, s.recipient, earned)
             paid == Move(served, s.token, Contract, s.sender, cancel)
             first == Income(s.token) - rest
  <1>1. /\ Live(s) /\ cancel > 0 /\ earned # None /\ StreamedBy(s, t) # None
        /\ cancel < Remaining(s, t) /\ rest >= s.flow_rate
        /\ t + rest \div s.flow_rate <= U64_MAX
        /\ Funded(paid, s.token) /\ bal' = paid
        /\ streams' = Put(Put(streams, id, closed), new_id, split)
        /\ IndexStream(new_id, s)
        /\ escrow' = Credit(Credit(escrow, id, first), new_id, rest)
        /\ UNCHANGED <<delegate_of, nonces>>
    BY DEF partial_cancel_stream, SplitOff
  <1>2. /\ s \in Streams /\ ScheduleSound(s) /\ GoodStream(s) /\ now \in Nat
        /\ s.token \in Tokens /\ s.sender \in Users /\ s.recipient \in Users
        /\ HeldIn(escrow, id) = escrow[id] /\ escrow[id] \in Nat
        /\ escrow[id] >= Owed(s) /\ Owed(s) \in Nat /\ IndexInv
        /\ bal \in Balances /\ bal[s.token][Contract] \in Nat
        /\ AllGood(streams, escrow)
    BY <1>1, Basics, OwedIsAmount DEF GoodStream
  <1>3. cancel \in Nat \ {0}
    BY <1>1, StreamInputs DEF I128
  <1>4. /\ earned \in Nat /\ rest \in Nat /\ rest <= I128_MAX
        /\ earned + cancel + rest <= Owed(s)
    BY <1>1, <1>2, <1>3, SplitAmounts
  <1>5. GoodStream(split) /\ Owed(split) = rest
    <2> HIDE DEF rest
    <2> QED
      BY <1>1, <1>2, <1>4, SplitGood
  <1>6. GoodStream(closed) /\ Owed(closed) = 0
    <2>1. closed \in Streams /\ closed.status = "Cancelled"
      BY <1>2 DEF Streams
    <2> QED
      BY <2>1 DEF GoodStream, Owed, Live
  <1> HIDE DEF s, earned, rest, new_id, closed, split
  <1>7. /\ Loan(served, s.token)
        /\ served[s.token][Contract] = bal[s.token][Contract] - earned
    BY <1>2, <1>4, BalancesAreLoan, PayOutCosts, ZenonT(60)
  <1>8. paid = PayOut(served, s.token, s.sender, cancel)
    BY <1>1 DEF PayOut
  <1> HIDE DEF served
  <1>9. /\ Loan(paid, s.token)
        /\ paid[s.token][Contract] = served[s.token][Contract] - cancel
    <2> HIDE DEF paid
    <2> QED
      BY <1>2, <1>3, <1>7, <1>8, PayOutCosts, ZenonT(60)
  <1> HIDE DEF paid
  <1>10. bal' \in Balances
    BY <1>1, <1>2, <1>9, LoanFunded
  <1>11. Income(s.token) = 0 - earned - cancel
    BY <1>1, <1>2, <1>3, <1>4, <1>7, <1>9 DEF Income
  <1>12. first \in Int /\ escrow[id] + first \in Nat
    BY <1>2, <1>3, <1>4, <1>11
  <1> HIDE DEF first
  <1>13. AllGood(Put(streams, id, closed), Credit(escrow, id, first))
    <2>1. HeldIn(escrow, id) + first \in Nat /\ HeldIn(escrow, id) + first >= Owed(closed)
      BY <1>2, <1>6, <1>12
    <2> QED
      BY <1>2, <1>6, <1>12, <2>1, PutKeeps
  <1> DEFINE held == Credit(escrow, id, first)
             stored == Put(streams, id, closed)
  <1>14. AllGood(Put(stored, new_id, split), Credit(held, new_id, rest))
    <2>1. AllGood(stored, held)
      BY <1>13
    <2> HIDE DEF stored, held
    <2>2. HeldIn(held, new_id) \in Nat
      BY <2>1 DEF HeldIn, AllGood
    <2>3. HeldIn(held, new_id) + rest \in Nat /\ HeldIn(held, new_id) + rest >= Owed(split)
      BY <1>4, <1>5, <2>2
    <2> QED
      BY <1>4, <1>5, <2>1, <2>3, PutKeeps
  <1>15. AllGood(streams', escrow')
    BY <1>1, <1>14
  <1>16. StreamsInv' /\ MoneyInv'
    BY <1>10, <1>15, StillGood DEF MoneyInv
  <1>17. IndexInv'
    BY <1>1, <1>2, ListsKept DEF IndexStream
  <1> QED
    BY <1>16, <1>17 DEF StepKept

-----------------------------------------------------------------------------
LEMMA TopUpKeeps ==
    ASSUME ContractInv, now' = now, NEW id \in DOMAIN streams, NEW caller \in Users,
           NEW token \in Tokens, NEW amount \in TopUps, top_up(id, caller, token, amount)
    PROVE  StepKept
  <1> DEFINE s == streams[id]
             m == amount - (amount % s.flow_rate)
             x == m \div s.flow_rate
             topped == [s EXCEPT !.end_time = @ + x, !.deposit = @ + m]
  <1>1. /\ s.token = token /\ Live(s) /\ amount > 0 /\ m > 0
        /\ CanPay(bal, token, caller, m)
        /\ s.end_time + x <= U64_MAX /\ s.deposit + m \in I128
        /\ bal' = Move(bal, token, caller, Contract, m)
        /\ SaveStream(id, topped) /\ Book(id, token)
        /\ UNCHANGED <<delegate_of, nonces, indexVars>>
    BY DEF top_up
  <1>2. /\ s \in Streams /\ ScheduleSound(s) /\ GoodStream(s) /\ now \in Nat
        /\ HeldIn(escrow, id) = escrow[id] /\ escrow[id] \in Nat
        /\ escrow[id] >= Owed(s) /\ Owed(s) \in Nat /\ IndexInv
        /\ bal \in Balances /\ bal[token][Contract] \in Nat
    BY <1>1, Basics, OwedIsAmount DEF GoodStream
  <1>3. s.flow_rate \in Nat \ {0} /\ amount \in Nat
    BY <1>1, <1>2, StreamInputs, StreamFields DEF I128
  <1>4. m \in Nat
    <2>1. amount % s.flow_rate \in Int
      BY <1>3
    <2> QED
      BY <1>1, <1>3, <2>1
  <1> HIDE DEF m
  <1>5. x \in Nat /\ s.flow_rate * x <= m
    BY <1>3, <1>4, DivisionRoundsDown
  <1>6. s.deposit + m <= I128_MAX
    BY <1>1, WidthAssumption DEF I128
  <1> HIDE DEF x, s
  <1>7. GoodStream(topped) /\ Owed(topped) = Owed(s) + m
    BY <1>1, <1>2, <1>4, <1>5, <1>6, ToppedGood
  <1> HIDE DEF topped
  <1>8. bal' \in Balances /\ bal'[token][Contract] = bal[token][Contract] + m
    BY <1>1, <1>2, <1>4, UserPays, ContractApart
  <1>9. HeldIn(escrow, id) + (bal'[token][Contract] - bal[token][Contract]) >= Owed(topped)
    BY <1>2, <1>4, <1>7, <1>8
  <1>10. StreamsInv' /\ MoneyInv'
    BY <1>1, <1>7, <1>8, <1>9, SaveStep
  <1>11. IndexInv'
    BY <1>1, <1>2, ListsKept DEF indexVars
  <1> QED
    BY <1>10, <1>11 DEF StepKept

-----------------------------------------------------------------------------
(* The operations that move no tokens.                                       *)
LEMMA QuietStep ==
    ASSUME ContractInv, now' = now, NEW id \in DOMAIN streams, NEW s, GoodStream(s),
           Owed(s) = Owed(streams[id]), SaveStream(id, s),
           UNCHANGED <<bal, delegate_of, nonces, indexVars, escrow>>
    PROVE  StepKept
  <1>1. /\ AllGood(streams, escrow) /\ escrow[id] >= Owed(s) /\ IndexInv /\ bal \in Balances
    BY Basics
  <1>2. AllGood(Put(streams, id, s), escrow)
    BY <1>1, PutAlone
  <1>3. AllGood(streams', escrow')
    BY <1>2 DEF SaveStream
  <1>4. StreamsInv'
    BY <1>3, StillGood
  <1>5. IndexInv' /\ MoneyInv'
    BY <1>1, ListsKept DEF indexVars, MoneyInv
  <1> QED
    BY <1>4, <1>5 DEF StepKept

LEMMA PauseStreamKeeps ==
    ASSUME ContractInv, now' = now, NEW id \in DOMAIN streams, pause_stream(id)
    PROVE  StepKept
  <1> DEFINE p == [streams[id] EXCEPT !.status = "Paused", !.last_pause_time = now]
  <1>1. /\ streams[id].status = "Active" /\ SaveStream(id, p)
        /\ UNCHANGED <<bal, delegate_of, nonces, indexVars, escrow>>
    BY DEF pause_stream
  <1>2. GoodStream(p) /\ Owed(p) = Owed(streams[id])
    BY <1>1, Basics, PausedGood
  <1> HIDE DEF p
  <1> QED
    BY <1>1, <1>2, QuietStep

LEMMA ResumeStreamKeeps ==
    ASSUME ContractInv, now' = now, NEW id \in DOMAIN streams, resume_stream(id)
    PROVE  StepKept
  <1> DEFINE s == streams[id]
  <1>1. /\ s.status = "Paused" /\ SaveStream(id, Resumed(s))
        /\ UNCHANGED <<bal, delegate_of, nonces, indexVars, escrow>>
    BY DEF resume_stream, Resumed, Postponed
  <1>2. GoodStream(Resumed(s)) /\ Owed(Resumed(s)) = Owed(s)
    BY <1>1, Basics, ResumedGood
  <1> QED
    BY <1>1, <1>2, QuietStep

LEMMA CancelRenewKeeps ==
    ASSUME ContractInv, now' = now, NEW id \in DOMAIN streams, cancel_auto_renew(id)
    PROVE  StepKept
  <1> DEFINE s == streams[id]
             r == [s EXCEPT !.auto_renew = FALSE]
  <1>1. SaveStream(id, r) /\ UNCHANGED <<bal, delegate_of, nonces, indexVars, escrow>>
    BY DEF cancel_auto_renew
  <1>2. s \in Streams /\ GoodStream(s) /\ now \in Nat
    BY Basics
  <1>3. /\ r \in Streams
        /\ r.status = s.status /\ r.last_pause_time = s.last_pause_time
        /\ r.deposit = s.deposit /\ r.flow_rate = s.flow_rate
        /\ r.start_time = s.start_time /\ r.end_time = s.end_time
        /\ r.last_withdraw_time = s.last_withdraw_time
        /\ r.total_withdrawn = s.total_withdrawn
    BY <1>2 DEF Streams
  <1> HIDE DEF r
  <1>4. GoodStream(r) /\ Owed(r) = Owed(s)
    BY <1>2, <1>3, SameSchedule
  <1> QED
    BY <1>1, <1>4, QuietStep

LEMMA DelegateKeeps ==
    ASSUME ContractInv, now' = now, NEW id, NEW operator \in Operators,
           delegate(id, operator)
    PROVE  StepKept
  <1>1. UNCHANGED <<bal, streams, nonces, indexVars, escrow>>
    BY DEF delegate
  <1>2. /\ AllGood(streams, escrow) /\ IndexInv /\ bal \in Balances
    BY Basics
  <1>3. StreamsInv' /\ MoneyInv'
    <2>1. AllGood(streams', escrow')
      BY <1>1, <1>2
    <2> QED
      BY <1>1, <1>2, <2>1, StillGood DEF MoneyInv
  <1>4. operator \in Users
    BY StreamInputs
  <1>5. \A i \in DOMAIN delegate_of' : delegate_of'[i] \in Users
    BY <1>2, <1>4 DEF delegate, Put, IndexInv
  <1>6. IndexInv'
    BY <1>1, <1>2, <1>5 DEF IndexInv, indexVars
  <1> QED
    BY <1>3, <1>6 DEF StepKept

LEMMA RevokeKeeps ==
    ASSUME ContractInv, now' = now, NEW id, revoke_delegate(id)
    PROVE  StepKept
  <1>1. UNCHANGED <<bal, streams, nonces, indexVars, escrow>>
    BY DEF revoke_delegate
  <1>2. /\ AllGood(streams, escrow) /\ IndexInv /\ bal \in Balances
    BY Basics
  <1>3. StreamsInv' /\ MoneyInv'
    <2>1. AllGood(streams', escrow')
      BY <1>1, <1>2
    <2> QED
      BY <1>1, <1>2, <2>1, StillGood DEF MoneyInv
  <1>4. \A i \in DOMAIN delegate_of' : delegate_of'[i] \in Users
    BY <1>2 DEF revoke_delegate, Drop, IndexInv
  <1>5. IndexInv'
    BY <1>1, <1>2, <1>4 DEF IndexInv, indexVars
  <1> QED
    BY <1>3, <1>5 DEF StepKept

LEMMA ArchiveKeeps ==
    ASSUME ContractInv, now' = now, NEW id \in DOMAIN streams, archive_stream(id)
    PROVE  StepKept
  <1>1. /\ RemoveStream(id) /\ delegate_of' = Drop(delegate_of, id)
        /\ UNCHANGED <<bal, nonces, escrow>>
    BY DEF archive_stream
  <1>2. /\ AllGood(streams, escrow) /\ IndexInv /\ bal \in Balances
    BY Basics
  <1>3. AllGood(streams', escrow')
    BY <1>1, <1>2, DropAlone DEF RemoveStream
  <1>4. StreamsInv' /\ MoneyInv'
    BY <1>1, <1>2, <1>3, StillGood DEF MoneyInv
  <1>5. \A i \in DOMAIN delegate_of' : delegate_of'[i] \in Users
    BY <1>1, <1>2 DEF Drop, IndexInv
  <1>6. IndexInv'
    BY <1>1, <1>2, <1>5, RemovedLists DEF IndexInv
  <1> QED
    BY <1>4, <1>6 DEF StepKept

-----------------------------------------------------------------------------
LEMMA StreamStepKeeps ==
    ASSUME ContractInv, now' = now, StreamNext
    PROVE  StepKept
  <1>1. CASE CreateNext
    BY <1>1, CreateKeeps DEF CreateNext
  <1>2. ASSUME NEW id \in DOMAIN streams, RecipientNext(id)
        PROVE  StepKept
    BY <1>2, WithdrawKeeps, TerminateKeeps, TransferKeeps DEF RecipientNext
  <1>3. ASSUME NEW id \in DOMAIN streams, SenderNext(id)
        PROVE  StepKept
    BY <1>3, CancelKeeps, SplitKeeps, TopUpKeeps, PauseStreamKeeps, ResumeStreamKeeps,
       CancelRenewKeeps, DelegateKeeps, RevokeKeeps DEF SenderNext
  <1>4. ASSUME NEW id \in DOMAIN streams, archive_stream(id)
        PROVE  StepKept
    BY <1>4, ArchiveKeeps
  <1> QED
    BY <1>1, <1>2, <1>3, <1>4 DEF StreamNext

(* Every operation on streams passes the pause gate or leaves the pause.     *)
LEMMA StreamStepGated ==
    ASSUME StreamNext
    PROVE  NotPaused \/ UNCHANGED pauseVars
  <1>1. CASE CreateNext
    BY <1>1 DEF CreateNext, create_stream
  <1>2. ASSUME NEW id, RecipientNext(id)
        PROVE  NotPaused
    BY <1>2 DEF RecipientNext, withdraw, recipient_terminate, transfer_recipient
  <1>3. ASSUME NEW id, SenderNext(id)
        PROVE  NotPaused \/ UNCHANGED pauseVars
    <2>1. ASSUME NEW caller, cancel_stream(id, caller) PROVE UNCHANGED pauseVars
      BY <2>1 DEF cancel_stream
    <2>2. ASSUME NEW caller, NEW n, partial_cancel_stream(id, caller, n)
          PROVE  UNCHANGED pauseVars
      BY <2>2 DEF partial_cancel_stream
    <2>3. ASSUME NEW caller, NEW token, NEW n, top_up(id, caller, token, n) PROVE NotPaused
      BY <2>3 DEF top_up
    <2>4. pause_stream(id) \/ resume_stream(id) => NotPaused
      BY DEF pause_stream, resume_stream
    <2>5. ASSUME NEW operator, delegate(id, operator) PROVE UNCHANGED pauseVars
      BY <2>5 DEF delegate
    <2>6. cancel_auto_renew(id) \/ revoke_delegate(id) => UNCHANGED pauseVars
      BY DEF cancel_auto_renew, revoke_delegate
    <2> QED
      BY <1>3, <2>1, <2>2, <2>3, <2>4, <2>5, <2>6 DEF SenderNext
  <1>4. ASSUME NEW id, archive_stream(id)
        PROVE  UNCHANGED pauseVars
    BY <1>4 DEF archive_stream
  <1> QED
    BY <1>1, <1>2, <1>3, <1>4 DEF StreamNext

-----------------------------------------------------------------------------
LEMMA StartInv == Init => ContractInv
  <1> SUFFICES ASSUME Init PROVE ContractInv
    OBVIOUS
  <1>1. AdminInv
    BY InitAdminInv DEF Init, LedgerInit
  <1>2. FeesTypeOK
    BY DEF Init, FeesInit, FeesTypeOK, BASIS_POINTS
  <1>3. PolicyTypeOK
    BY PolicyAssumption DEF Init, PolicyInit, PolicyTypeOK
  <1>4. bal \in Balances
    <2>1. PICK wallets \in Wallets :
            bal = [token \in Tokens |->
                     [a \in Accounts |-> IF a = Contract THEN 0 ELSE wallets[token][a]]]
      BY DEF Init, LedgerInit
    <2>2. \A token \in Tokens, u \in Users : wallets[token][u] \in Nat
      BY WalletsAssumption
    <2> QED
      BY <2>1, <2>2 DEF Balances, Accounts
  <1>5. StreamsInv
    BY DEF Init, StreamsInv, AllGood
  <1>6. IndexInv
    BY DEF Init, IndexInv
  <1> QED
    BY <1>1, <1>2, <1>3, <1>4, <1>5, <1>6 DEF ContractInv, MoneyInv

LEMMA FeesStep ==
    ASSUME FeesTypeOK, now \in U64, FeesNext
    PROVE  FeesTypeOK'
  <1>1. ASSUME NEW bps \in FeeChoices, set_protocol_fee(bps) PROVE FeesTypeOK'
    <2>1. bps \in Nat
      BY FeeAssumption
    <2>2. bps \in 0..BASIS_POINTS
      BY <1>1, <2>1, SMTT(30) DEF set_protocol_fee, BASIS_POINTS
    <2> QED
      BY <1>1, <2>2 DEF set_protocol_fee, FeesTypeOK
  <1>2. ASSUME NEW t \in Treasuries, set_treasury_address(t) PROVE FeesTypeOK'
    BY <1>2, FeeAssumption DEF set_treasury_address, FeesTypeOK
  <1>3. ASSUME NEW bps \in ProposedFees, propose_fee_change(bps) PROVE FeesTypeOK'
    <2>1. bps \in 0..BASIS_POINTS
      <3>1. bps \in Nat
        BY FeeAssumption
      <3> QED
        BY <1>3, <3>1 DEF propose_fee_change, BASIS_POINTS
    <2>2. saturating_add(now, FEE_TIMELOCK) \in U64
      BY FeeAssumption, WidthAssumption DEF saturating_add, U64
    <2> QED
      BY <1>3, <2>1, <2>2 DEF propose_fee_change, FeesTypeOK
  <1>4. CASE execute_fee_change
    BY <1>4 DEF execute_fee_change, FeesTypeOK
  <1>5. ASSUME NEW a \in ExemptChoices, add_fee_exempt(a) \/ remove_fee_exempt(a)
        PROVE  FeesTypeOK'
    BY <1>5, FeeAssumption DEF add_fee_exempt, remove_fee_exempt, FeesTypeOK
  <1>6. ASSUME NEW fee \in CreationFees, NEW t \in XlmTokens, set_creation_fee(fee, t)
        PROVE  FeesTypeOK'
    BY <1>6, FeeAssumption DEF set_creation_fee, FeesTypeOK
  <1> QED
    BY <1>1, <1>2, <1>3, <1>4, <1>5, <1>6 DEF FeesNext

LEMMA PolicyStep ==
    ASSUME PolicyTypeOK, PolicyNext
    PROVE  PolicyTypeOK'
  <1> USE PolicyAssumption DEF PolicyTypeOK
  <1>1. ASSUME NEW n \in MinDurations, set_min_duration(n) PROVE PolicyTypeOK'
    BY <1>1 DEF set_min_duration
  <1>2. ASSUME NEW n \in MaxStreamChoices, set_max_streams(n) PROVE PolicyTypeOK'
    BY <1>2 DEF set_max_streams
  <1>3. ASSUME NEW u \in LimitedSenders, NEW n \in SenderLimits, set_sender_stream_limit(u, n)
        PROVE  PolicyTypeOK'
    BY <1>3 DEF set_sender_stream_limit
  <1>4. ASSUME NEW n \in Cooldowns, set_withdrawal_cooldown(n) PROVE PolicyTypeOK'
    BY <1>4 DEF set_withdrawal_cooldown
  <1>5. ASSUME NEW b \in WhitelistSwitch, set_whitelist_enabled(b) PROVE PolicyTypeOK'
    BY <1>5 DEF set_whitelist_enabled
  <1>6. ASSUME NEW u \in WhitelistChoices, add_to_whitelist(u) \/ remove_from_whitelist(u)
        PROVE  PolicyTypeOK'
    BY <1>6 DEF add_to_whitelist, remove_from_whitelist
  <1> QED
    BY <1>1, <1>2, <1>3, <1>4, <1>5, <1>6 DEF PolicyNext

(* The streams do not move in the other steps.                               *)
LEMMA StreamsStand ==
    ASSUME ContractInv, now' = now, UNCHANGED streamVars
    PROVE  StreamsInv' /\ IndexInv'
  <1>1. AllGood(streams', escrow') /\ IndexInv
    BY Basics DEF streamVars
  <1> QED
    BY <1>1, StillGood, ListsKept DEF streamVars, indexVars

LEMMA WalletKeeps ==
    ASSUME ContractInv, WalletTransfer
    PROVE  bal' \in Balances /\ now' = now
  <1>1. PICK token \in Tokens, from \in Users, to \in Users, n \in WalletAmounts :
          /\ CanPay(bal, token, from, n)
          /\ bal' = Move(bal, token, from, to, n)
          /\ now' = now
    BY DEF WalletTransfer
  <1>2. n \in Nat
    BY WalletAssumption
  <1> QED
    BY <1>1, <1>2, Basics, UserPays, ContractApart

LEMMA ClockKeeps ==
    ASSUME ContractInv, AdvanceTime, UNCHANGED streamVars
    PROVE  StreamsInv' /\ IndexInv' /\ MoneyInv'
  <1>1. now' \in Nat /\ now' >= now /\ now \in Nat /\ bal' = bal
    BY Basics DEF AdvanceTime
  <1>2. ASSUME NEW id \in DOMAIN streams'
        PROVE  /\ GoodStream(streams[id])'
               /\ id \in DOMAIN escrow' /\ escrow'[id] >= Owed(streams[id])'
    <2>1. PICK s : s = streams[id]
      OBVIOUS
    <2>2. streams'[id] = s /\ escrow' = escrow /\ id \in DOMAIN streams
      BY <2>1 DEF streamVars
    <2>3. GoodStream(s) /\ id \in DOMAIN escrow /\ escrow[id] >= Owed(s)
      BY <2>1, <2>2, Basics DEF AllGood
    <2>4. GoodStream(s)' /\ Owed(s)' = Owed(s)
      BY <1>1, <2>3, LaterGood DEF Owed, Live
    <2> QED
      BY <2>2, <2>3, <2>4 DEF GoodStream, ScheduleSound, StreamClock, effective_now,
         Live, Owed
  <1>3. \A id \in DOMAIN escrow' : escrow'[id] \in Nat
    BY Basics DEF AllGood, streamVars
  <1>4. StreamsInv'
    BY <1>2, <1>3 DEF StreamsInv, AllGood
  <1>5. IndexInv'
    BY Basics, ListsKept DEF streamVars, indexVars
  <1> QED
    BY <1>1, <1>4, <1>5, Basics DEF MoneyInv

-----------------------------------------------------------------------------
LEMMA NextInv == ContractInv /\ [Next]_vars => ContractInv'
  <1> SUFFICES ASSUME ContractInv, [Next]_vars PROVE ContractInv'
    OBVIOUS
  <1> USE DEF ContractInv
  <1>1. ASSUME StreamNext,
               UNCHANGED <<now, roleVars, version, migrations, auditVars, feeVars, policyVars>>
        PROVE  ContractInv'
    <2>1. now' = now /\ UNCHANGED <<roleVars, version, migrations, auditVars>>
      BY <1>1
    <2>2. StreamsInv' /\ MoneyInv' /\ IndexInv'
      BY <1>1, <2>1, StreamStepKeeps DEF StepKept
    <2>3. AdminInv'
      BY <1>1, <2>1, StreamStepGated, GateAdminInv
    <2>4. FeesTypeOK' /\ PolicyTypeOK'
      BY <1>1 DEF feeVars, policyVars, FeesTypeOK, PolicyTypeOK
    <2> QED
      BY <2>2, <2>3, <2>4
  <1>2. ASSUME AdminNext, UNCHANGED <<ledgerVars, feeVars, policyVars, streamVars>>
        PROVE  ContractInv'
    <2>1. now' = now /\ bal' = bal
      BY <1>2 DEF ledgerVars
    <2>2. AdminInv'
      BY <1>2, <2>1, StepAdminInv
    <2>3. StreamsInv' /\ IndexInv'
      BY <1>2, <2>1, StreamsStand
    <2>4. FeesTypeOK' /\ PolicyTypeOK'
      BY <1>2 DEF feeVars, policyVars, FeesTypeOK, PolicyTypeOK
    <2> QED
      BY <2>1, <2>2, <2>3, <2>4 DEF MoneyInv
  <1>3. ASSUME FeesNext \/ PolicyNext, UNCHANGED <<ledgerVars, adminVars, streamVars>>,
               FeesNext \/ UNCHANGED feeVars, PolicyNext \/ UNCHANGED policyVars
        PROVE  ContractInv'
    <2>1. now' = now /\ bal' = bal
      BY <1>3 DEF ledgerVars
    <2>2. AdminInv'
      BY <1>3, <2>1, GateAdminInv DEF adminVars
    <2>3. StreamsInv' /\ IndexInv'
      BY <1>3, <2>1, StreamsStand
    <2>4. FeesTypeOK'
      <3>1. CASE FeesNext
        BY <3>1, FeesStep, Basics
      <3>2. CASE UNCHANGED feeVars
        BY <3>2 DEF feeVars, FeesTypeOK
      <3> QED
        BY <1>3, <3>1, <3>2
    <2>5. PolicyTypeOK'
      <3>1. CASE PolicyNext
        BY <3>1, PolicyStep
      <3>2. CASE UNCHANGED policyVars
        BY <3>2 DEF policyVars, PolicyTypeOK
      <3> QED
        BY <1>3, <3>1, <3>2
    <2> QED
      BY <2>1, <2>2, <2>3, <2>4, <2>5 DEF MoneyInv
  <1>4. ASSUME AdvanceTime \/ WalletTransfer \/ UNCHANGED ledgerVars,
               UNCHANGED <<adminVars, feeVars, policyVars, streamVars>>
        PROVE  ContractInv'
    <2>1. FeesTypeOK' /\ PolicyTypeOK'
      BY <1>4 DEF feeVars, policyVars, FeesTypeOK, PolicyTypeOK
    <2>2. CASE AdvanceTime
      <3>1. AdminInv'
        BY <1>4, <2>2, ClockAdminInv
      <3>2. StreamsInv' /\ IndexInv' /\ MoneyInv'
        BY <1>4, <2>2, ClockKeeps
      <3> QED
        BY <2>1, <3>1, <3>2
    <2>3. CASE WalletTransfer \/ UNCHANGED ledgerVars
      <3>1. now' = now /\ bal' \in Balances
        BY <2>3, WalletKeeps, Basics DEF ledgerVars
      <3>2. AdminInv'
        BY <1>4, <3>1, GateAdminInv DEF adminVars
      <3>3. StreamsInv' /\ IndexInv'
        BY <1>4, <3>1, StreamsStand
      <3> QED
        BY <2>1, <3>1, <3>2, <3>3 DEF MoneyInv
    <2> QED
      BY <1>4, <2>2, <2>3
  <1> QED
    BY <1>1, <1>2, <1>3, <1>4 DEF Next, vars

THEOREM ContractSafety == Spec => []ContractInv
  BY StartInv, NextInv, PTL DEF Spec

(* Type correctness of the whole contract: clock, balances, roles, fees,     *)
(* limits, streams and lists.                                                *)
THEOREM ContractTypes == Spec => []TypeOK
  <1>1. ContractInv => TypeOK
    <2> SUFFICES ASSUME ContractInv PROVE TypeOK
      OBVIOUS
    <2>1. LedgerTypeOK /\ AdminTypeOK /\ FeesTypeOK /\ PolicyTypeOK
      BY Basics DEF LedgerTypeOK, ContractInv, AdminInv
    <2>2. \A id \in DOMAIN streams : streams[id] \in Streams /\ id \in DOMAIN escrow
      BY Basics DEF AllGood
    <2>3. \A id \in DOMAIN escrow : escrow[id] \in Int
      BY Basics DEF AllGood
    <2> QED
      BY <2>1, <2>2, <2>3, Basics DEF TypeOK, IndexInv
  <1> QED
    BY <1>1, ContractSafety, PTL

(* No sequence of withdrawals, pauses, top-ups, renewals and splits lets a   *)
(* live stream pay out more than it has earned or more than its deposit.     *)
THEOREM PaysOnlyEarned == Spec => []VestingWithinDeposit
  <1>1. ContractInv => VestingWithinDeposit
    BY Basics DEF VestingWithinDeposit, GoodStream
  <1> QED
    BY <1>1, ContractSafety, PTL

(* Each stream pays from its own deposits only.                              *)
THEOREM PaysFromOwnDeposit == Spec => []NoCrossSubsidy
  <1>1. ContractInv => NoCrossSubsidy
    <2> SUFFICES ASSUME ContractInv PROVE NoCrossSubsidy
      OBVIOUS
    <2>1. \A id \in DOMAIN escrow : escrow[id] >= 0
      BY Basics DEF AllGood
    <2> QED
      BY <2>1, Basics DEF NoCrossSubsidy
  <1> QED
    BY <1>1, ContractSafety, PTL

(* Among all the operations on streams, too, no pause lasts for good.        *)
THEOREM ContractNoLockout == Spec => []NoIndefiniteLockout
  <1>1. ContractInv => NoIndefiniteLockout
    BY DEF ContractInv, AdminInv
  <1> QED
    BY <1>1, ContractSafety, PTL
=============================================================================
