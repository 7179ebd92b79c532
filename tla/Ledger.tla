------------------------------- MODULE Ledger -------------------------------
(* What the contracts stand on: the ledger clock and the token contracts     *)
(* (Stellar asset contracts).  None of it is code of the repository; it is   *)
(* modelled from how the contracts call it.  A call is one transaction: it   *)
(* takes no time, and the error of any step undoes all of it, so a contract  *)
(* operation is one action whose guard is that no step of it fails.          *)
EXTENDS HostTypes

CONSTANTS
    Users,          \* accounts and contracts other than the stream contract
    Contract,       \* env.current_contract_address()
    Tokens,         \* token contracts
    WalletAmounts,  \* sizes of the transfers users make among themselves
    Wallets         \* possible balances of the users at deployment
ASSUME ContractAssumption == Contract \notin Users
ASSUME WalletAssumption   == WalletAmounts \subseteq Nat \ {0}
ASSUME OutsideAssumption  == None \notin Users \cup Tokens

VARIABLES
    now,            \* env.ledger().timestamp()
    bal             \* bal[token][account]

ledgerVars == <<now, bal>>

Accounts == Users \cup {Contract}
Balances == [Tokens -> [Accounts -> Nat]]
ASSUME WalletsAssumption == Wallets \subseteq [Tokens -> [Users -> Nat]]

(* token::Client::transfer on the balances b; it fails unless the payer      *)
(* holds n.                                                                  *)
CanPay(b, token, from, n) == b[token][from] >= n
Move(b, token, from, to, n) ==
    LET debited == [b EXCEPT ![token][from] = @ - n]
    IN  [debited EXCEPT ![token][to] = @ + n]

(* `if n > 0 { transfer(contract, to, n) }`; PaidFrom tells that no such     *)
(* transfer between b and c overdrew the contract.                           *)
PayOut(b, token, to, n) == IF n > 0 THEN Move(b, token, Contract, to, n) ELSE b
Funded(b, token) == b[token][Contract] >= 0

LedgerInit ==
    /\ now = 0
    /\ \E wallets \in Wallets :
         bal = [token \in Tokens |->
                  [a \in Accounts |-> IF a = Contract THEN 0 ELSE wallets[token][a]]]

(* The ledger closes at a later time; several transactions may share a time. *)
AdvanceTime ==
    /\ now' \in (now + 1)..U64_MAX
    /\ bal' = bal

(* Users move their own tokens between contract calls.                       *)
WalletTransfer ==
    \E token \in Tokens, from \in Users, to \in Users, n \in WalletAmounts :
        /\ from # to
        /\ CanPay(bal, token, from, n)
        /\ bal' = Move(bal, token, from, to, n)
        /\ now' = now

LedgerTypeOK == now \in U64 /\ bal \in Balances
=============================================================================
