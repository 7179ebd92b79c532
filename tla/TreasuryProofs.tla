---------------------------- MODULE TreasuryProofs ----------------------------
(* Proofs about the treasury, for every set of tokens, users, admins, pools  *)
(* and splits, and whatever others record without paying.                    *)
EXTENDS TreasuryContract, TLAPS

(* The inductive invariant.                                                  *)
TreasuryInv ==
    /\ bal \in Balances /\ recorded \in [Tokens -> Int]
    /\ unbacked \in [Tokens -> Nat]
    /\ treasury_split \in 0..BASIS_POINTS /\ lp_pool \in LpPools \cup {None}
    /\ RecordedIsBacked

LEMMA Balance ==
    ASSUME NEW b \in Balances, NEW token \in Tokens, NEW a \in Accounts
    PROVE  b[token] \in [Accounts -> Nat] /\ b[token][a] \in Nat
  BY DEF Balances

LEMMA BalancesAreIntegers ==
    ASSUME NEW b \in Balances
    PROVE  b \in [Tokens -> [Accounts -> Int]]
  <1>1. ASSUME NEW token \in Tokens
        PROVE  b[token] \in [Accounts -> Int]
    <2>1. b[token] \in [Accounts -> Nat]
      BY DEF Balances
    <2> QED
      BY <2>1
  <1> QED
    BY <1>1 DEF Balances

LEMMA MoneyAccounts ==
    /\ TreasuryAddress \in Accounts /\ Contract \in Accounts
    /\ \A u \in Users : u \in Accounts
  BY TreasuryAssumption DEF Accounts

(* What a transfer out of the treasury leaves.                               *)
LEMMA TreasuryMoves ==
    ASSUME NEW b \in [Tokens -> [Accounts -> Int]], NEW token \in Tokens,
           NEW to \in Accounts, NEW n \in Nat
    PROVE  LET c == Move(b, token, TreasuryAddress, to, n)
           IN  /\ c \in [Tokens -> [Accounts -> Int]]
               /\ \A t \in Tokens \ {token} : c[t] = b[t]
               /\ \A a \in Accounts \ {TreasuryAddress} : c[token][a] >= b[token][a]
               /\ c[token][TreasuryAddress] =
                     b[token][TreasuryAddress] - (IF to = TreasuryAddress THEN 0 ELSE n)
  <1> DEFINE debited == [b EXCEPT ![token][TreasuryAddress] = @ - n]
             c == [debited EXCEPT ![token][to] = @ + n]
  <1>1. TreasuryAddress \in Accounts
    BY MoneyAccounts
  <1>2. /\ debited \in [Tokens -> [Accounts -> Int]]
        /\ \A t \in Tokens \ {token} : debited[t] = b[t]
        /\ \A a \in Accounts : debited[token][a] =
              IF a = TreasuryAddress THEN b[token][a] - n ELSE b[token][a]
    BY <1>1
  <1>3. /\ c \in [Tokens -> [Accounts -> Int]]
        /\ \A t \in Tokens \ {token} : c[t] = debited[t]
        /\ \A a \in Accounts : c[token][a] =
              IF a = to THEN debited[token][a] + n ELSE debited[token][a]
    BY <1>2
  <1>4. \A a \in Accounts : b[token][a] \in Int
    OBVIOUS
  <1>5. /\ \A t \in Tokens \ {token} : c[t] = b[t]
        /\ \A a \in Accounts \ {TreasuryAddress} : c[token][a] >= b[token][a]
        /\ c[token][TreasuryAddress] =
              b[token][TreasuryAddress] - (IF to = TreasuryAddress THEN 0 ELSE n)
    BY <1>1, <1>2, <1>3, <1>4
  <1> QED
    BY <1>3, <1>5 DEF Move

(* The same for a payment that is left out when it is nothing.               *)
LEMMA TreasuryPays ==
    ASSUME NEW b \in [Tokens -> [Accounts -> Int]], NEW token \in Tokens,
           NEW to, NEW n \in Int, n > 0 => to \in Accounts
    PROVE  LET c == IF n > 0 THEN Move(b, token, TreasuryAddress, to, n) ELSE b
           IN  /\ c \in [Tokens -> [Accounts -> Int]]
               /\ \A t \in Tokens \ {token} : c[t] = b[t]
               /\ \A a \in Accounts \ {TreasuryAddress} : c[token][a] >= b[token][a]
               /\ to # TreasuryAddress /\ n >= 0
                  => c[token][TreasuryAddress] = b[token][TreasuryAddress] - n
  <1>1. \A a \in Accounts : b[token][a] \in Int
    OBVIOUS
  <1>2. CASE n > 0
    BY <1>2, TreasuryMoves
  <1>3. CASE n <= 0
    BY <1>1, <1>3, MoneyAccounts
  <1> QED
    BY <1>2, <1>3

(* No account is overdrawn when the treasury's is not.                       *)
LEMMA StillBalances ==
    ASSUME NEW b \in Balances, NEW c \in [Tokens -> [Accounts -> Int]],
           NEW token \in Tokens, \A t \in Tokens \ {token} : c[t] = b[t],
           \A a \in Accounts \ {TreasuryAddress} : c[token][a] >= b[token][a],
           c[token][TreasuryAddress] >= 0
    PROVE  c \in Balances
  <1>1. ASSUME NEW t \in Tokens
        PROVE  c[t] \in [Accounts -> Nat]
    <2>1. CASE t # token
      BY <2>1 DEF Balances
    <2>2. CASE t = token
      <3>1. ASSUME NEW a \in Accounts
            PROVE  c[t][a] \in Nat
        <4>1. c[t][a] \in Int /\ b[t][a] \in Nat
          BY DEF Balances
        <4> QED
          BY <4>1, <2>2
      <3> QED
        BY <3>1
    <2> QED
      BY <2>1, <2>2
  <1> QED
    BY <1>1 DEF Balances

(* The part of a split that rounds down is between nothing and the whole.    *)
LEMMA SplitFits ==
    ASSUME NEW total \in Int, NEW bps \in 0..BASIS_POINTS
    PROVE  LET part == (total * bps) \div BASIS_POINTS
           IN  /\ total >= 0 => part \in 0..total
               /\ total <= 0 => part \in total..0
  <1>1. /\ total * bps \in Int
        /\ total >= 0 => 0 <= total * bps /\ total * bps <= total * BASIS_POINTS
        /\ total <= 0 => total * BASIS_POINTS <= total * bps /\ total * bps <= 0
    BY SMTT(30) DEF BASIS_POINTS
  <1> DEFINE p == total * bps
  <1>2. /\ p \in Int
        /\ total >= 0 => 0 <= p /\ p <= total * 10000
        /\ total <= 0 => total * 10000 <= p /\ p <= 0
    BY <1>1 DEF BASIS_POINTS
  <1> HIDE DEF p
  <1>3. /\ total >= 0 => p \div 10000 \in 0..total
        /\ total <= 0 => p \div 10000 \in total..0
    BY <1>2, SMTT(30)
  <1> QED
    BY <1>3 DEF p, BASIS_POINTS

(* A payment takes as much off the record as it may take off the balance.    *)
LEMMA PaymentKeeps ==
    ASSUME TreasuryInv, NEW token \in Tokens, NEW amount \in Nat,
           NEW destination \in Destinations,
           PaidFromRecord(token, amount, destination),
           UNCHANGED <<treasury_split, lp_pool, unbacked>>
    PROVE  TreasuryInv'
  <1>1. destination \in Accounts /\ bal \in [Tokens -> [Accounts -> Int]]
    BY TreasuryAssumption, BalancesAreIntegers DEF TreasuryInv, Accounts
  <1>2. /\ bal[token][TreasuryAddress] \in Nat /\ bal[token][TreasuryAddress] >= amount
        /\ recorded \in [Tokens -> Int]
    BY MoneyAccounts, Balance DEF TreasuryInv, PaidFromRecord, CanPay
  <1>3. /\ bal' \in [Tokens -> [Accounts -> Int]]
        /\ \A t \in Tokens \ {token} : bal'[t] = bal[t]
        /\ \A a \in Accounts \ {TreasuryAddress} : bal'[token][a] >= bal[token][a]
        /\ bal'[token][TreasuryAddress] >= bal[token][TreasuryAddress] - amount
        /\ bal'[token][TreasuryAddress] \in Int
    <2>1. bal' = Move(bal, token, TreasuryAddress, destination, amount)
      BY DEF PaidFromRecord
    <2>2. /\ bal' \in [Tokens -> [Accounts -> Int]]
          /\ \A t \in Tokens \ {token} : bal'[t] = bal[t]
          /\ \A a \in Accounts \ {TreasuryAddress} : bal'[token][a] >= bal[token][a]
          /\ bal'[token][TreasuryAddress] =
                bal[token][TreasuryAddress] - (IF destination = TreasuryAddress THEN 0 ELSE amount)
      BY <1>1, <2>1, TreasuryMoves
    <2> QED
      BY <1>2, <2>2, MoneyAccounts
  <1>4. bal' \in Balances
    <2>1. bal'[token][TreasuryAddress] >= 0
      BY <1>2, <1>3
    <2> QED
      BY <2>1, <1>3, StillBalances DEF TreasuryInv
  <1>5. /\ recorded' \in [Tokens -> Int]
        /\ recorded'[token] = recorded[token] - amount
        /\ \A t \in Tokens \ {token} : recorded'[t] = recorded[t]
    BY DEF PaidFromRecord, Recorded, TreasuryInv
  <1>6. RecordedIsBacked'
    <2>1. ASSUME NEW t \in Tokens
          PROVE  recorded'[t] <= bal'[t][TreasuryAddress] + unbacked'[t]
      <3>1. /\ recorded[t] \in Int /\ unbacked[t] \in Nat /\ unbacked' = unbacked
            /\ recorded[t] <= bal[t][TreasuryAddress] + unbacked[t]
        BY DEF TreasuryInv, RecordedIsBacked, Held
      <3>2. CASE t = token
        BY <3>1, <3>2, <1>2, <1>3, <1>5
      <3>3. CASE t # token
        BY <3>1, <3>3, <1>3, <1>5
      <3> QED
        BY <3>2, <3>3
    <2> QED
      BY <2>1 DEF RecordedIsBacked, Held
  <1> QED
    BY <1>4, <1>5, <1>6 DEF TreasuryInv

(* What distribute does to the tokens and the record.                        *)
LEMMA Distribution ==
    ASSUME TreasuryInv, NEW token \in Tokens, NEW destination \in Destinations,
           distribute(token, destination)
    PROVE  /\ bal' \in [Tokens -> [Accounts -> Int]]
           /\ \A t \in Tokens \ {token} : bal'[t] = bal[t]
           /\ \A a \in Accounts \ {TreasuryAddress} : bal'[token][a] >= bal[token][a]
           /\ bal'[token][TreasuryAddress] >= 0
           /\ recorded' = [recorded EXCEPT ![token] = 0]
           /\ UNCHANGED <<treasury_split, lp_pool, unbacked>>
           /\ TreasuryAddress \notin LpPools \cup Destinations /\ recorded[token] >= 0
              => bal'[token][TreasuryAddress] = bal[token][TreasuryAddress] - recorded[token]
           /\ recorded[token] <= 0 => bal' = bal
  <1> DEFINE total == recorded[token]
             treasury_amount == (total * treasury_split) \div BASIS_POINTS
             lp_amount == total - treasury_amount
             paid == IF treasury_amount > 0
                     THEN Move(bal, token, TreasuryAddress, destination, treasury_amount)
                     ELSE bal
  <1>1. /\ total \in Int /\ treasury_amount \in Int /\ lp_amount \in Int
        /\ total >= 0 => treasury_amount >= 0 /\ lp_amount >= 0
        /\ total <= 0 => treasury_amount <= 0 /\ lp_amount <= 0
    <2>1. total \in Int /\ treasury_split \in 0..BASIS_POINTS
      BY DEF TreasuryInv
    <2>2. /\ total >= 0 => treasury_amount \in 0..total
          /\ total <= 0 => treasury_amount \in total..0
      BY <2>1, SplitFits
    <2> QED
      BY <2>1, <2>2
  <1>2. /\ lp_amount > 0 => lp_pool # None
        /\ bal' = IF lp_amount > 0
                  THEN Move(paid, token, TreasuryAddress, lp_pool, lp_amount) ELSE paid
        /\ bal'[token][TreasuryAddress] >= 0
        /\ recorded' = [recorded EXCEPT ![token] = 0]
        /\ UNCHANGED <<treasury_split, lp_pool, unbacked>>
    BY DEF distribute
  <1> HIDE DEF lp_amount, treasury_amount, paid
  <1>3. bal \in [Tokens -> [Accounts -> Int]] /\ destination \in Accounts
    BY TreasuryAssumption, BalancesAreIntegers DEF TreasuryInv, Accounts
  <1>4. lp_amount > 0 => lp_pool \in Accounts /\ lp_pool \in LpPools
    BY <1>2, TreasuryAssumption DEF TreasuryInv, Accounts
  <1>5. /\ paid \in [Tokens -> [Accounts -> Int]]
        /\ \A t \in Tokens \ {token} : paid[t] = bal[t]
        /\ \A a \in Accounts \ {TreasuryAddress} : paid[token][a] >= bal[token][a]
        /\ destination # TreasuryAddress /\ treasury_amount >= 0
           => paid[token][TreasuryAddress] = bal[token][TreasuryAddress] - treasury_amount
    <2>1. CASE treasury_amount > 0
      <3>1. paid = Move(bal, token, TreasuryAddress, destination, treasury_amount)
        BY <2>1 DEF paid
      <3>2. treasury_amount \in Nat
        BY <1>1, <2>1
      <3> QED
        BY <1>3, <3>1, <3>2, TreasuryMoves
    <2>2. CASE ~(treasury_amount > 0)
      <3>1. paid = bal
        BY <2>2 DEF paid
      <3>2. \A a \in Accounts : bal[token][a] \in Int
        BY <1>3
      <3> QED
        BY <1>1, <1>3, <2>2, <3>1, <3>2, MoneyAccounts
    <2> QED
      BY <2>1, <2>2
  <1>6. /\ bal' \in [Tokens -> [Accounts -> Int]]
        /\ \A t \in Tokens \ {token} : bal'[t] = paid[t]
        /\ \A a \in Accounts \ {TreasuryAddress} : bal'[token][a] >= paid[token][a]
        /\ lp_pool # TreasuryAddress /\ lp_amount >= 0
           => bal'[token][TreasuryAddress] = paid[token][TreasuryAddress] - lp_amount
    <2> DEFINE after == IF lp_amount > 0
                        THEN Move(paid, token, TreasuryAddress, lp_pool, lp_amount) ELSE paid
    <2>1. /\ after \in [Tokens -> [Accounts -> Int]]
          /\ \A t \in Tokens \ {token} : after[t] = paid[t]
          /\ \A a \in Accounts \ {TreasuryAddress} : after[token][a] >= paid[token][a]
          /\ lp_pool # TreasuryAddress /\ lp_amount >= 0
             => after[token][TreasuryAddress] = paid[token][TreasuryAddress] - lp_amount
      <3> DEFINE Paid(to, n) == IF n > 0 THEN Move(paid, token, TreasuryAddress, to, n) ELSE paid
      <3>1. \A to, n : n \in Int /\ (n > 0 => to \in Accounts)
              => /\ Paid(to, n) \in [Tokens -> [Accounts -> Int]]
                 /\ \A t \in Tokens \ {token} : Paid(to, n)[t] = paid[t]
                 /\ \A a \in Accounts \ {TreasuryAddress} :
                       Paid(to, n)[token][a] >= paid[token][a]
                 /\ to # TreasuryAddress /\ n >= 0
                    => Paid(to, n)[token][TreasuryAddress] = paid[token][TreasuryAddress] - n
        BY <1>5, TreasuryPays, ZenonT(60)
      <3> HIDE DEF Paid
      <3>2. after = Paid(lp_pool, lp_amount)
        BY DEF Paid
      <3> QED
        BY <1>1, <1>4, <3>1, <3>2
    <2>2. bal' = after
      BY <1>2
    <2> HIDE DEF after
    <2> QED
      BY <2>1, <2>2
  <1>7. \A a \in Accounts \ {TreasuryAddress} : bal'[token][a] >= bal[token][a]
    <2> SUFFICES ASSUME NEW a \in Accounts \ {TreasuryAddress}
                 PROVE  bal'[token][a] >= bal[token][a]
      OBVIOUS
    <2>1. bal[token][a] \in Int /\ paid[token][a] \in Int /\ bal'[token][a] \in Int
      BY <1>3, <1>5, <1>6
    <2> QED
      BY <2>1, <1>5, <1>6
  <1>8. ASSUME TreasuryAddress \notin LpPools \cup Destinations, recorded[token] >= 0
        PROVE  bal'[token][TreasuryAddress] = bal[token][TreasuryAddress] - recorded[token]
    <2>1. lp_pool # TreasuryAddress /\ destination # TreasuryAddress
      BY <1>8, TreasuryAssumption, OutsideAssumption DEF TreasuryInv
    <2>2. bal[token][TreasuryAddress] \in Int
      BY <1>3, MoneyAccounts
    <2> QED
      BY <2>1, <2>2, <1>1, <1>5, <1>6, <1>8 DEF lp_amount
  <1>9. recorded[token] <= 0 => bal' = bal
    BY <1>1, <1>2 DEF paid
  <1>10. \A t \in Tokens \ {token} : bal'[t] = bal[t]
    BY <1>5, <1>6
  <1> QED
    BY <1>2, <1>6, <1>7, <1>8, <1>9, <1>10

LEMMA DistributeKeeps ==
    ASSUME TreasuryInv, NEW token \in Tokens, NEW destination \in Destinations,
           distribute(token, destination)
    PROVE  TreasuryInv'
  <1>1. bal' \in Balances
    BY Distribution, StillBalances DEF TreasuryInv
  <1>2. /\ recorded' \in [Tokens -> Int] /\ recorded'[token] = 0
        /\ \A t \in Tokens \ {token} : recorded'[t] = recorded[t]
        /\ UNCHANGED <<treasury_split, lp_pool, unbacked>>
    BY Distribution DEF TreasuryInv
  <1>3. RecordedIsBacked'
    <2>1. ASSUME NEW t \in Tokens
          PROVE  recorded'[t] <= bal'[t][TreasuryAddress] + unbacked'[t]
      <3>1. /\ unbacked[t] \in Nat /\ unbacked' = unbacked
            /\ bal'[t][TreasuryAddress] \in Nat
        BY <1>1, <1>2, MoneyAccounts, Balance DEF TreasuryInv
      <3>2. CASE t = token
        BY <3>1, <3>2, <1>2
      <3>3. CASE t # token
        BY <3>1, <3>3, <1>2, Distribution DEF TreasuryInv, RecordedIsBacked, Held
      <3> QED
        BY <3>2, <3>3
    <2> QED
      BY <2>1 DEF RecordedIsBacked, Held
  <1> QED
    BY <1>1, <1>2, <1>3 DEF TreasuryInv

(* What is recorded without being paid is counted in the same step.          *)
LEMMA DepositKeeps ==
    ASSUME TreasuryInv, NEW token \in Tokens, NEW amount \in OutsideDeposits,
           deposit(token, amount)
    PROVE  TreasuryInv'
  <1>1. amount \in Int /\ Unpaid(amount) \in Nat /\ amount <= Unpaid(amount)
    <2>1. amount \in Int
      BY TreasuryAssumption DEF I128
    <2> QED
      BY <2>1 DEF Unpaid
  <1>2. /\ recorded' = [recorded EXCEPT ![token] = @ + amount]
        /\ unbacked' = [unbacked EXCEPT ![token] = @ + Unpaid(amount)]
        /\ UNCHANGED <<bal, treasury_split, lp_pool>>
    BY DEF deposit, Recorded
  <1>3. recorded' \in [Tokens -> Int] /\ unbacked' \in [Tokens -> Nat]
    BY <1>1, <1>2 DEF TreasuryInv
  <1>4. RecordedIsBacked'
    <2>1. ASSUME NEW t \in Tokens
          PROVE  recorded'[t] <= bal'[t][TreasuryAddress] + unbacked'[t]
      <3>1. /\ recorded[t] \in Int /\ unbacked[t] \in Nat
            /\ bal[t][TreasuryAddress] \in Nat /\ bal' = bal
            /\ recorded[t] <= bal[t][TreasuryAddress] + unbacked[t]
        BY <1>2, MoneyAccounts, Balance DEF TreasuryInv, RecordedIsBacked, Held
      <3>2. CASE t = token
        <4>1. recorded'[t] = recorded[t] + amount /\ unbacked'[t] = unbacked[t] + Unpaid(amount)
          BY <1>2, <3>2 DEF TreasuryInv
        <4> QED
          BY <4>1, <1>1, <3>1
      <3>3. CASE t # token
        BY <3>1, <3>3, <1>2 DEF TreasuryInv
      <3> QED
        BY <3>2, <3>3
    <2> QED
      BY <2>1 DEF RecordedIsBacked, Held
  <1> QED
    BY <1>2, <1>3, <1>4 DEF TreasuryInv

LEMMA FedKeeps ==
    ASSUME TreasuryInv, Fed
    PROVE  TreasuryInv'
  <1>1. /\ bal' \in Balances /\ recorded' \in [Tokens -> Int]
        /\ UNCHANGED <<treasury_split, lp_pool, unbacked>>
        /\ \A t \in Tokens : recorded'[t] - recorded[t] <= Held(t)' - Held(t)
    BY DEF Fed
  <1>2. ASSUME NEW t \in Tokens
        PROVE  recorded'[t] <= Held(t)' + unbacked'[t]
    <2>1. Held(t) \in Nat /\ Held(t)' \in Nat
      BY <1>1, MoneyAccounts, Balance DEF TreasuryInv, Held
    <2>2. /\ recorded[t] \in Int /\ recorded'[t] \in Int
          /\ unbacked[t] \in Nat /\ unbacked'[t] = unbacked[t]
          /\ recorded[t] <= Held(t) + unbacked[t]
      BY <1>1 DEF TreasuryInv, RecordedIsBacked
    <2> QED
      BY <1>1, <2>1, <2>2
  <1> QED
    BY <1>1, <1>2 DEF TreasuryInv, RecordedIsBacked

LEMMA TreasuryStepInv ==
    ASSUME TreasuryInv, [TreasuryNext \/ Fed]_<<bal, treasuryVars>>
    PROVE  TreasuryInv'
  <1>1. ASSUME NEW a \in TreasuryAdmins, initialize_treasury(a) \/ set_treasury_admin(a)
        PROVE  TreasuryInv'
    BY <1>1 DEF initialize_treasury, set_treasury_admin, TreasuryInv, RecordedIsBacked, Held
  <1>2. ASSUME NEW token \in Tokens, NEW amount \in OutsideDeposits,
               deposit(token, amount)
        PROVE  TreasuryInv'
    BY <1>2, DepositKeeps
  <1>3. ASSUME NEW token \in Tokens, NEW destination \in Destinations,
               NEW amount \in PayoutAmounts, withdraw_treasury(token, amount, destination)
        PROVE  TreasuryInv'
    <2>1. amount \in Nat
      BY TreasuryAssumption
    <2> QED
      BY <1>3, <2>1, PaymentKeeps DEF withdraw_treasury
  <1>4. ASSUME NEW token \in Tokens, NEW destination \in Destinations,
               withdraw_all(token, destination)
        PROVE  TreasuryInv'
    <2>1. recorded[token] \in Nat
      BY <1>4 DEF TreasuryInv, withdraw_all
    <2> QED
      BY <1>4, <2>1, PaymentKeeps DEF withdraw_all
  <1>5. ASSUME NEW pool \in LpPools, set_lp_pool(pool)
        PROVE  TreasuryInv'
    BY <1>5 DEF set_lp_pool, TreasuryInv, RecordedIsBacked, Held
  <1>6. ASSUME NEW bps \in Splits, set_treasury_split(bps)
        PROVE  TreasuryInv'
    <2>1. bps \in Nat /\ bps <= BASIS_POINTS
      BY <1>6, TreasuryAssumption DEF set_treasury_split
    <2>2. bps \in 0..BASIS_POINTS
      BY <2>1, SMTT(30) DEF BASIS_POINTS
    <2> QED
      BY <1>6, <2>2 DEF set_treasury_split, TreasuryInv, RecordedIsBacked, Held
  <1>7. ASSUME NEW token \in Tokens, NEW destination \in Destinations,
               distribute(token, destination)
        PROVE  TreasuryInv'
    BY <1>7, DistributeKeeps
  <1>8. CASE Fed
    BY <1>8, FedKeeps
  <1>9. CASE UNCHANGED <<bal, treasuryVars>>
    BY <1>9 DEF treasuryVars, TreasuryInv, RecordedIsBacked, Held
  <1> QED
    BY <1>1, <1>2, <1>3, <1>4, <1>5, <1>6, <1>7, <1>8, <1>9 DEF TreasuryNext

(* The treasury's record is covered in every behaviour.                      *)
THEOREM TreasurySafety == TreasurySpec => []TreasuryInv
  <1>1. TreasuryStart => TreasuryInv
    BY MoneyAccounts, Balance
       DEF TreasuryStart, TreasuryInit, TreasuryInv, RecordedIsBacked, Held, BASIS_POINTS
  <1> QED
    BY <1>1, TreasuryStepInv, PTL DEF TreasurySpec

(* Whoever is paid, however it is split and whatever the stream contract     *)
(* records late or not at all, the record is ahead of the tokens held by no  *)
(* more than what others have recorded without paying.                       *)
THEOREM TreasuryCovered == TreasurySpec => []RecordedIsBacked
  <1>1. TreasuryInv => RecordedIsBacked
    BY DEF TreasuryInv
  <1> QED
    BY <1>1, TreasurySafety, PTL

LEMMA PaymentExact ==
    ASSUME TreasuryInv, TreasuryAddress \notin LpPools \cup Destinations,
           NEW token \in Tokens, NEW amount \in Nat, NEW destination \in Destinations,
           PaidFromRecord(token, amount, destination), NEW t \in Tokens
    PROVE  Held(t)' < Held(t) => Held(t) - Held(t)' = recorded[t] - recorded'[t]
  <1>1. /\ bal \in [Tokens -> [Accounts -> Int]] /\ destination \in Accounts
        /\ destination # TreasuryAddress
    BY TreasuryAssumption, BalancesAreIntegers DEF TreasuryInv, Accounts
  <1>2. bal' = Move(bal, token, TreasuryAddress, destination, amount)
    BY DEF PaidFromRecord
  <1>3. /\ \A other \in Tokens \ {token} : bal'[other] = bal[other]
        /\ bal'[token][TreasuryAddress] =
              bal[token][TreasuryAddress] - (IF destination = TreasuryAddress THEN 0 ELSE amount)
    BY <1>1, <1>2, TreasuryMoves
  <1>4. recorded'[token] = recorded[token] - amount
    BY DEF PaidFromRecord, Recorded, TreasuryInv
  <1>5. \A other \in Tokens : recorded[other] \in Int /\ bal[other][TreasuryAddress] \in Int
    BY <1>1, MoneyAccounts DEF TreasuryInv
  <1>6. CASE t = token
    BY <1>1, <1>3, <1>4, <1>5, <1>6 DEF Held
  <1>7. CASE t # token
    BY <1>3, <1>5, <1>7 DEF Held
  <1> QED
    BY <1>6, <1>7

LEMMA DistributionExact ==
    ASSUME TreasuryInv, TreasuryAddress \notin LpPools \cup Destinations,
           NEW token \in Tokens, NEW destination \in Destinations,
           distribute(token, destination), NEW t \in Tokens
    PROVE  Held(t)' < Held(t) => Held(t) - Held(t)' = recorded[t] - recorded'[t]
  <1>1. /\ \A other \in Tokens \ {token} : bal'[other] = bal[other]
        /\ recorded[token] >= 0
           => bal'[token][TreasuryAddress] = bal[token][TreasuryAddress] - recorded[token]
        /\ recorded[token] <= 0 => bal' = bal
    BY Distribution
  <1>2. recorded'[token] = 0
    BY Distribution DEF TreasuryInv
  <1>3. \A other \in Tokens : recorded[other] \in Int /\ bal[other][TreasuryAddress] \in Nat
    BY MoneyAccounts, Balance DEF TreasuryInv
  <1>4. CASE t = token
    BY <1>1, <1>2, <1>3, <1>4 DEF Held
  <1>5. CASE t # token
    BY <1>1, <1>3, <1>5 DEF Held
  <1> QED
    BY <1>4, <1>5

(* Tokens leave the treasury only against its record, one for one, unless    *)
(* it is told to pay itself.                                                 *)
THEOREM TreasuryPaysOneForOne ==
    ASSUME TreasuryAddress \notin LpPools \cup Destinations
    PROVE  TreasurySpec => TreasuryPaysRecorded
  <1>1. TreasuryInv /\ [TreasuryNext \/ Fed]_<<bal, treasuryVars>>
        => [\A token \in Tokens :
               Held(token)' < Held(token)
               => Held(token) - Held(token)' = recorded[token] - recorded'[token]]_<<bal, recorded>>
    <2> SUFFICES ASSUME TreasuryInv, [TreasuryNext \/ Fed]_<<bal, treasuryVars>>,
                        NEW t \in Tokens, Held(t)' < Held(t)
                 PROVE  Held(t) - Held(t)' = recorded[t] - recorded'[t]
      OBVIOUS
    <2>1. Held(t) \in Nat /\ recorded[t] \in Int
      BY MoneyAccounts, Balance DEF TreasuryInv, Held
    <2>2. bal' # bal
      BY <2>1 DEF Held
    <2>3. ~Fed
      <3>1. SUFFICES ASSUME Fed PROVE FALSE
        OBVIOUS
      <3>2. /\ bal' \in Balances /\ recorded' \in [Tokens -> Int]
            /\ recorded'[t] >= recorded[t]
            /\ recorded'[t] - recorded[t] <= Held(t)' - Held(t)
        BY <3>1 DEF Fed
      <3>3. Held(t)' \in Nat /\ recorded'[t] \in Int
        BY <3>2, MoneyAccounts, Balance DEF Held
      <3> QED
        BY <2>1, <3>2, <3>3
    <2>4. TreasuryNext
      BY <2>2, <2>3 DEF treasuryVars
    <2>5. \/ \E token \in Tokens, destination \in Destinations, amount \in PayoutAmounts :
                withdraw_treasury(token, amount, destination)
          \/ \E token \in Tokens, destination \in Destinations :
                withdraw_all(token, destination) \/ distribute(token, destination)
      BY <2>2, <2>4 DEF TreasuryNext, initialize_treasury, set_treasury_admin, deposit,
                        set_lp_pool, set_treasury_split
    <2>6. ASSUME NEW token \in Tokens, NEW destination \in Destinations,
                 NEW amount \in PayoutAmounts, withdraw_treasury(token, amount, destination)
          PROVE  Held(t) - Held(t)' = recorded[t] - recorded'[t]
      <3>1. amount \in Nat
        BY TreasuryAssumption
      <3> QED
        BY <2>6, <3>1, PaymentExact DEF withdraw_treasury
    <2>7. ASSUME NEW token \in Tokens, NEW destination \in Destinations,
                 withdraw_all(token, destination)
          PROVE  Held(t) - Held(t)' = recorded[t] - recorded'[t]
      <3>1. recorded[token] \in Nat
        BY <2>7 DEF TreasuryInv, withdraw_all
      <3> QED
        BY <2>7, <3>1, PaymentExact DEF withdraw_all
    <2>8. ASSUME NEW token \in Tokens, NEW destination \in Destinations,
                 distribute(token, destination)
          PROVE  Held(t) - Held(t)' = recorded[t] - recorded'[t]
      BY <2>8, DistributionExact
    <2> QED
      BY <2>5, <2>6, <2>7, <2>8
  <1> QED
    BY <1>1, TreasurySafety, PTL DEF TreasurySpec, TreasuryPaysRecorded
=============================================================================
