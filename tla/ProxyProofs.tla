----------------------------- MODULE ProxyProofs -----------------------------
(* Proofs about the upgrade proxy and the administration behind it, for      *)
(* every set of admins, implementations and versions.                        *)
EXTENDS ProxiedAdmin, AdminProofs

(* A call under way names the version that was stored when it was prepared.  *)
InFlight(call) ==
    /\ call.seen \in 1..Len(layouts)
    /\ call.expected_storage_version = layouts[call.seen]
    /\ call.new_storage_version \in Nat

(* The inductive invariant: the stored version is the last of the versions   *)
(* so far, and no call is prepared before there is an admin, which is why    *)
(* initialize cannot take the place of an upgrade.                           *)
ProxyInv ==
    /\ layouts \in Seq(Nat)
    /\ proxy_admin = None <=> layouts = <<>>
    /\ layouts # <<>> => storage_version = layouts[Len(layouts)]
    /\ \A call \in in_flight : InFlight(call)

(* Another version keeps what was said of those before it.                   *)
LEMMA LayoutsGrow ==
    ASSUME NEW s \in Seq(Nat), NEW v \in Nat
    PROVE  /\ Append(s, v) \in Seq(Nat) /\ Append(s, v) # <<>>
           /\ Len(Append(s, v)) = Len(s) + 1 /\ Append(s, v)[Len(s) + 1] = v
           /\ \A i \in 1..Len(s) : i \in 1..Len(Append(s, v)) /\ Append(s, v)[i] = s[i]
  OBVIOUS

LEMMA ProxyStepInv ==
    ASSUME ProxyInv, ProxyNext
    PROVE  ProxyInv'
  <1>1. ASSUME NEW a \in ProxyAdmins, NEW hash \in ImplHashes, initialize_proxy(a, hash, 0)
        PROVE  ProxyInv'
    <2>1. /\ proxy_admin = None /\ proxy_admin' = a /\ storage_version' = 0
          /\ layouts' = <<0>> /\ in_flight' = in_flight
      BY <1>1 DEF initialize_proxy
    <2>2. a # None
      BY ProxyAssumption
    <2>3. in_flight = {}
      BY <2>1 DEF ProxyInv, InFlight
    <2> QED
      BY <2>1, <2>2, <2>3 DEF ProxyInv
  <1>2. ASSUME NEW a \in ProxyAdmins, set_proxy_admin(a)
        PROVE  ProxyInv'
    BY <1>2, ProxyAssumption DEF set_proxy_admin, ProxyAdminSigns, ProxyInv, InFlight
  <1>3. ASSUME NEW hash \in ImplHashes, NEW v \in 0..MaxUpgrades, prepare_upgrade(hash, v)
        PROVE  ProxyInv'
    <2> DEFINE new == [new_impl_hash |-> hash, expected_storage_version |-> storage_version,
                       new_storage_version |-> v, seen |-> Len(layouts)]
    <2>1. /\ in_flight' = in_flight \cup {new} /\ proxy_admin # None
          /\ UNCHANGED <<proxy_admin, storage_version, layouts>>
      BY <1>3 DEF prepare_upgrade, ProxyAdminSigns
    <2>2. v \in Nat
      BY ProxyAssumption
    <2>3. InFlight(new)'
      BY <2>1, <2>2 DEF ProxyInv, InFlight
    <2>4. \A call \in in_flight : InFlight(call)'
      BY <2>1 DEF ProxyInv, InFlight
    <2> QED
      BY <2>1, <2>3, <2>4 DEF ProxyInv
  <1>4. ASSUME NEW call \in in_flight, upgrade(call)
        PROVE  ProxyInv'
    <2>1. /\ storage_version' = call.new_storage_version
          /\ layouts' = Append(layouts, storage_version')
          /\ in_flight' \subseteq in_flight
          /\ proxy_admin' = proxy_admin /\ proxy_admin # None
      BY <1>4 DEF upgrade, ProxyAdminSigns
    <2>2. layouts \in Seq(Nat) /\ storage_version' \in Nat
      BY <2>1 DEF ProxyInv, InFlight
    <2>3. \A other \in in_flight : InFlight(other)'
      BY <2>1, <2>2, LayoutsGrow DEF ProxyInv, InFlight
    <2> QED
      BY <2>1, <2>2, <2>3, LayoutsGrow DEF ProxyInv
  <1>5. ASSUME NEW call \in in_flight, lose_upgrade(call)
        PROVE  ProxyInv'
    BY <1>5 DEF lose_upgrade, ProxyInv, InFlight
  <1> QED
    BY <1>1, <1>2, <1>3, <1>4, <1>5 DEF ProxyNext

(* Calls and versions keep together in every behaviour.                      *)
THEOREM ProxySafety == ProxiedSpec => []ProxyInv
  <1>1. ProxiedStart => ProxyInv
    BY DEF ProxiedStart, ProxyInit, ProxyInv
  <1>2. ProxyInv /\ [ProxiedStep]_proxiedVars => ProxyInv'
    <2>1. ASSUME ProxyInv, UNCHANGED proxyVars
          PROVE  ProxyInv'
      BY <2>1 DEF proxyVars, ProxyInv, InFlight
    <2> QED
      BY <2>1, ProxyStepInv DEF ProxiedStep, proxiedVars
  <1> QED
    BY <1>1, <1>2, PTL DEF ProxiedSpec

(* No upgrade undoes one that its sender had not seen, however late, often   *)
(* or out of order the calls of upgrade arrive, unless the version it finds  *)
(* had been in use before another one.                                       *)
THEOREM UpgradesNotLost == ProxiedSpec => NoLostUpgrade
  <1>1. ProxyInv /\ [ProxiedStep]_proxiedVars
        => [layouts # <<>> /\ layouts' # layouts
            => \E call \in in_flight :
                  /\ call.seen = Len(layouts) \/ ComesBack(storage_version)
                  /\ impl_hash' = call.new_impl_hash
                  /\ storage_version' = call.new_storage_version]_proxyVars
    <2> SUFFICES ASSUME ProxyInv, [ProxiedStep]_proxiedVars, layouts # <<>>, layouts' # layouts
                 PROVE  \E call \in in_flight :
                           /\ call.seen = Len(layouts) \/ ComesBack(storage_version)
                           /\ impl_hash' = call.new_impl_hash
                           /\ storage_version' = call.new_storage_version
      OBVIOUS
    <2>1. ProxyNext /\ proxy_admin # None
      BY DEF ProxiedStep, proxiedVars, proxyVars, ProxyInv
    <2>2. PICK call \in in_flight : upgrade(call)
      BY <2>1 DEF ProxyNext, initialize_proxy, set_proxy_admin, prepare_upgrade, lose_upgrade
    <2>3. /\ call.seen \in 1..Len(layouts) /\ Len(layouts) \in Nat
          /\ layouts[call.seen] = storage_version
      BY <2>2 DEF upgrade, ProxyInv, InFlight
    <2>4. call.seen = Len(layouts) \/ ComesBack(storage_version)
      BY <2>3 DEF ComesBack
    <2> QED
      BY <2>2, <2>4 DEF upgrade
  <1> QED
    BY <1>1, ProxySafety, PTL DEF ProxiedSpec, NoLostUpgrade

(* Behind the proxy the contract's administration does nothing it does not   *)
(* do alone: migrations forwarded by migrate are migrations of its own.      *)
THEOREM ProxiedIsAdmin == ProxiedSpec => AdminSpec
  <1>1. [ProxiedStep]_proxiedVars => [AdminStep]_<<ledgerVars, adminVars>>
    BY DEF ProxiedStep, proxiedVars, AdminStep, AdminNext, migrate_through_proxy
  <1> QED
    BY <1>1, PTL DEF ProxiedSpec, ProxiedStart, AdminSpec

(* So a migration is applied once, by whichever way it comes.                *)
THEOREM ProxiedMigrations == ProxiedSpec => []VersionFollowsMigrations
  BY ProxiedIsAdmin, MigrationsApplyOnce, PTL
=============================================================================
