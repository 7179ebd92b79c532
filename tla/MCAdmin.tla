------------------------------ MODULE MCAdmin ------------------------------
(* The administration with a log of two entries that wraps, behind a proxy   *)
(* with two admins.                                                          *)
EXTENDS ProxiedAdmin

CONSTANTS ana, abe, gil, gov, v1, v2, h1, h2

AdminsMC      == {ana, abe}
GuardiansMC   == {gil}
GovernancesMC == {gov}
VersionsMC    == {v1, v2}
WalletsMC     == {[t \in Tokens |-> [u \in Users |-> 0]]}
=============================================================================
