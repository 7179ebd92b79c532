------------------------------ MODULE MCStream ------------------------------
(* Values of the runs of the stream contract that a .cfg cannot spell.       *)
EXTENDS StreamClaims

CONSTANTS sam, sue, ray, rob, dot, tia, usd, xlm, ana, gil, gov, v1

OneNonce  == {<<1>>}
TwoNonces == {<<1>>, <<2>>}

(* A nonce that is the id of the first stream: both are u64.                 *)
IdNonce   == {<<1>>, <<sam, ray, 0, <<1>>>>}

(* Two recipients are alike: nothing of the contract tells them apart.       *)
RecipientSymmetry == Permutations({ray, rob})

(* Every user starts with n of each token.                                   *)
Purse(n) == [t \in Tokens |-> [u \in Users |-> n]]
Purse7   == {Purse(7)}
Purse9   == {Purse(9)}
Purse12  == {Purse(12)}
Purse14  == {Purse(14)}
=============================================================================
