---------------------------- MODULE ProxiedAdmin ----------------------------
(* The administration of the stream contract behind the proxy of             *)
(* contracts/proxy/src/lib.rs, which forwards migrations to it.              *)
EXTENDS ContractAdmin, ProxyContract

(* migrate of the proxy: its admin signs, and the stream contract's too.     *)
migrate_through_proxy(to_version) ==
    ProxyAdminSigns /\ migrate(to_version)

proxiedVars == <<ledgerVars, adminVars, proxyVars>>

ProxiedStep ==
    \/ AdminStep /\ UNCHANGED proxyVars
    \/ /\ \E v \in NextVersions : migrate_through_proxy(v)
       /\ UNCHANGED <<ledgerVars, proxyVars>>
    \/ ProxyNext /\ UNCHANGED <<ledgerVars, adminVars>>

(* Ledgers keep closing, and once a pause has expired somebody's call, here  *)
(* the query is_paused, comes to find it so.                                 *)
Fairness ==
    /\ WF_proxiedVars(AdvanceTime /\ UNCHANGED <<adminVars, proxyVars>>)
    /\ WF_proxiedVars(is_paused /\ UNCHANGED <<ledgerVars, proxyVars>>)

ProxiedStart == AdminStart /\ ProxyInit
ProxiedSpec == ProxiedStart /\ [][ProxiedStep]_proxiedVars /\ Fairness
-----------------------------------------------------------------------------
(* If from some time on nobody starts a pause, the contract ends up running, *)
(* though neither governance nor the admin lifts the pause.                  *)
NobodyPauses == paused' => paused /\ pause_expiry' = pause_expiry
PauseLapses == <>[][NobodyPauses]_proxiedVars => <>[]~paused
=============================================================================
