------------------------------ MODULE MCBatch ------------------------------
(* The runs of the stream contract with its batches and its treasury.        *)
EXTENDS MCStream, StreamBatches

(* deposit of the treasury takes negative amounts too.                       *)
AnyAmount == {3, -2}

(* The treasury starts empty, so that it holds nothing but fees.             *)
NoFeesYet == {[t \in Tokens |-> [u \in Users |-> IF u = TreasuryAddress THEN 0 ELSE 9]]}
=============================================================================
