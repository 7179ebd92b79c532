--------------------------- MODULE TreasuryContract ---------------------------
(* The fee treasury of contracts/treasury/src/lib.rs: it holds tokens, keeps *)
(* a record of what was deposited, and pays out what is recorded, to a       *)
(* destination or split with a pool of liquidity providers.                  *)
EXTENDS Fees

CONSTANTS
    TreasuryAddress,    \* the treasury contract itself
    TreasuryAdmins, LpPools, Splits, PayoutAmounts, Destinations,
    OutsideDeposits,    \* amounts that others record: any i128
    MaxUnbacked         \* bound on the sum of those, either way
ASSUME TreasuryAssumption ==
    /\ TreasuryAddress \in Users /\ None \notin TreasuryAdmins
    /\ LpPools \cup Destinations \subseteq Users
    /\ Splits \cup PayoutAmounts \subseteq Nat
    /\ OutsideDeposits \subseteq I128 /\ MaxUnbacked \in Nat

VARIABLES
    treasury_admin,     \* None until initialized; it may be the stream contract
    lp_pool, treasury_split,
    recorded,           \* recorded[token]: the "balance" entries
    unbacked            \* observer: what others have recorded, and did not pay

treasuryVars == <<treasury_admin, lp_pool, treasury_split, recorded, unbacked>>

TreasuryInit ==
    /\ treasury_admin = None /\ lp_pool = None
    /\ treasury_split = BASIS_POINTS
    /\ recorded = [token \in Tokens |-> 0] /\ unbacked = [token \in Tokens |-> 0]

(* A direct call needs the admin's signature, which the stream contract can  *)
(* give only for calls it makes itself.                                      *)
TreasuryAdminSigns == treasury_admin \notin {None, Contract}

Held(token) == bal[token][TreasuryAddress]

(* A deposit records an amount and moves nothing; only overflow stops it.    *)
CanRecord(r, token, amount) == Checked(r[token] + amount) # None
Recorded(r, token, amount) == [r EXCEPT ![token] = @ + amount]

(* Mutant: the record is not reduced.                                        *)
PaidUnrecorded(token, amount, destination) ==
    /\ CanPay(bal, token, TreasuryAddress, amount)
    /\ bal' = Move(bal, token, TreasuryAddress, destination, amount)
    /\ recorded' = recorded
PaidFromRecord(token, amount, destination) ==
    /\ CanPay(bal, token, TreasuryAddress, amount)
    /\ bal' = Move(bal, token, TreasuryAddress, destination, amount)
    /\ recorded' = Recorded(recorded, token, -amount)

initialize_treasury(new_admin) ==
    /\ treasury_admin = None
    /\ treasury_admin' = new_admin
    /\ UNCHANGED <<bal, lp_pool, treasury_split, recorded, unbacked>>

set_treasury_admin(new_admin) ==
    /\ TreasuryAdminSigns
    /\ treasury_admin' = new_admin
    /\ UNCHANGED <<bal, lp_pool, treasury_split, recorded, unbacked>>

(* Called by anybody: it asks neither who calls nor for the tokens, and the  *)
(* amount may be negative.                                                   *)
Unpaid(amount) == IF amount > 0 THEN amount ELSE 0
deposit(token, amount) ==
    /\ CanRecord(recorded, token, amount)
    /\ recorded' = Recorded(recorded, token, amount)
    /\ unbacked' = [unbacked EXCEPT ![token] = @ + Unpaid(amount)]
    /\ UNCHANGED <<bal, treasury_admin, lp_pool, treasury_split>>

withdraw_treasury(token, amount, destination) ==
    /\ amount <= recorded[token]
    /\ PaidFromRecord(token, amount, destination)
    /\ UNCHANGED <<treasury_admin, lp_pool, treasury_split, unbacked>>

withdraw_all(token, destination) ==
    /\ recorded[token] > 0
    /\ PaidFromRecord(token, recorded[token], destination)
    /\ UNCHANGED <<treasury_admin, lp_pool, treasury_split, unbacked>>

set_lp_pool(pool) ==
    /\ TreasuryAdminSigns
    /\ lp_pool' = pool
    /\ UNCHANGED <<bal, treasury_admin, treasury_split, recorded, unbacked>>

set_treasury_split(bps) ==
    /\ TreasuryAdminSigns
    /\ bps <= BASIS_POINTS
    /\ treasury_split' = bps
    /\ UNCHANGED <<bal, treasury_admin, lp_pool, recorded, unbacked>>

(* The destination's part rounds down, the rest is the pool's; the record is *)
(* cleared before the transfers, which must all succeed.  Of a record below  *)
(* zero, where the code rounds up, neither part is paid either way.          *)
distribute(token, destination) ==
    LET total == recorded[token]
        treasury_amount == (total * treasury_split) \div BASIS_POINTS
        lp_amount == total - treasury_amount
        Pay(b, to, n) == IF n > 0 THEN Move(b, token, TreasuryAddress, to, n) ELSE b
        paid == Pay(bal, destination, treasury_amount)
    IN  /\ TreasuryAdminSigns
        /\ total # 0 /\ Checked(total * treasury_split) # None
        /\ lp_amount > 0 => lp_pool # None
        /\ bal' = Pay(paid, lp_pool, lp_amount)
        /\ bal'[token][TreasuryAddress] >= 0
        /\ recorded' = [recorded EXCEPT ![token] = 0]
        /\ UNCHANGED <<treasury_admin, lp_pool, treasury_split, unbacked>>

(* The stream contract forwards two calls to the treasury it knows: both     *)
(* admins sign, unless the treasury's admin is the stream contract.          *)
Forwarded == check_admin /\ treasury = TreasuryAddress /\ treasury_admin # None

TreasuryNext ==
    \/ \E a \in TreasuryAdmins : initialize_treasury(a) \/ set_treasury_admin(a)
    \/ \E token \in Tokens, amount \in OutsideDeposits :
          /\ unbacked[token] + Unpaid(amount) <= MaxUnbacked
          /\ recorded[token] + amount >= -MaxUnbacked
          /\ deposit(token, amount)
    \/ /\ TreasuryAdminSigns \/ Forwarded
       /\ \E token \in Tokens, destination \in Destinations :
             \/ \E amount \in PayoutAmounts : withdraw_treasury(token, amount, destination)
             \/ withdraw_all(token, destination)
    \/ \E pool \in LpPools : set_lp_pool(pool)
    \/ \E bps \in Splits : set_treasury_split(bps)
    \/ \E token \in Tokens, destination \in Destinations : distribute(token, destination)

(* What the treasury asks of everybody who pays it: they tell it only of     *)
(* tokens it is paid, or else call deposit; and it pays only in operations   *)
(* of its own.                                                               *)
Fed ==
    /\ bal' \in Balances /\ recorded' \in [Tokens -> Int]
    /\ \A token \in Tokens :
          /\ recorded'[token] >= recorded[token]
          /\ recorded'[token] - recorded[token] <= Held(token)' - Held(token)
    /\ UNCHANGED <<treasury_admin, lp_pool, treasury_split, unbacked>>

(* The treasury on its own, among others that keep to that.                  *)
TreasuryStart == TreasuryInit /\ bal \in Balances
TreasurySpec == TreasuryStart /\ [][TreasuryNext \/ Fed]_<<bal, treasuryVars>>
-----------------------------------------------------------------------------
(* The record is never further ahead of the tokens in the treasury than by   *)
(* what others recorded and did not pay: fees that are recorded, withdrawn   *)
(* and distributed in any order open no gap of their own.                    *)
RecordedIsBacked ==
    \A token \in Tokens : recorded[token] <= Held(token) + unbacked[token]

(* Tokens leave the treasury only against its record, one for one; a split   *)
(* leaves nothing behind.                                                    *)
TreasuryPaysRecorded ==
    [][\A token \in Tokens :
           Held(token)' < Held(token)
           => Held(token) - Held(token)' = recorded[token] - recorded'[token]]_<<bal, recorded>>
=============================================================================
