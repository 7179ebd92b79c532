------------------------------- MODULE Escrow -------------------------------
(* What the stream contract promises of the tokens it holds: every stream    *)
(* has an account of its own.  A step works on the account of one stream, or *)
(* hands one account's tokens on to a new one, and takes from the pool of a  *)
(* token no more than it takes from that account.                            *)
EXTENDS Integers

VARIABLES
    account,        \* stream id -> what is owed to its two parties, and in which token
    pool            \* token -> what the contract holds

escrowVars == <<account, pool>>

Due(accounts, id) == IF id \in DOMAIN accounts THEN accounts[id].amount ELSE 0

Init == account = <<>> /\ pool \in [DOMAIN pool -> {0}]

(* The accounts a step opens, closes or changes.                             *)
Touched ==
    LET before == account
        after  == account'
    IN  {id \in DOMAIN before \cup DOMAIN after :
           id \in DOMAIN before \cap DOMAIN after => after[id] # before[id]}

(* What the step takes from one account, and nothing more, leaves the pool.  *)
Covered(token, before, after) ==
    /\ pool'[token] - pool[token] >= after - before
    /\ \A other \in DOMAIN pool \ {token} : pool'[other] = pool[other]

(* A stream is opened, added to, paid from, renewed or closed.  A renewal    *)
(* may leave its account as it was and dust in the pool.                     *)
Serve(id, token) ==
    /\ id \in DOMAIN account => account[id].token = token
    /\ id \in DOMAIN account' => account'[id].token = token
    /\ Covered(token, Due(account, id), Due(account', id))

(* A stream is closed, and what is left of it opens a new one.               *)
Split(id, new, token) ==
    /\ id \in DOMAIN account \ DOMAIN account' /\ new \in DOMAIN account' \ DOMAIN account
    /\ account[id].token = token /\ account'[new].token = token
    /\ Covered(token, Due(account, id), Due(account', new))

Next ==
    LET touched == Touched
    IN  \E token \in DOMAIN pool :
           \/ \E id \in DOMAIN account \cup DOMAIN account' :
                 touched \subseteq {id} /\ Serve(id, token)
           \/ \E id, new \in touched : touched = {id, new} /\ Split(id, new, token)

Spec == Init /\ [][Next]_escrowVars
=============================================================================
