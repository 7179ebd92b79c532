---------------------------- MODULE ProxyContract ----------------------------
(* The upgrade proxy of contracts/proxy/src/lib.rs: it stores the hash of    *)
(* the implementation and a storage version, which an upgrade must name as   *)
(* it finds it.  Upgrades are prepared off-chain, from the version an admin  *)
(* read, and arrive late, in any order, more than once or not at all.        *)
EXTENDS HostTypes, FiniteSets, Sequences

CONSTANTS
    ProxyAdmins, ImplHashes,
    MaxUpgrades         \* bound on the upgrades applied or under way
ASSUME ProxyAssumption == MaxUpgrades \in Nat /\ None \notin ProxyAdmins \cup ImplHashes

VARIABLES
    proxy_admin, impl_hash, storage_version,
    in_flight,          \* upgrade calls that were prepared
    layouts             \* observer: the storage versions so far, in their order

proxyVars == <<proxy_admin, impl_hash, storage_version, in_flight, layouts>>

ProxyInit ==
    /\ proxy_admin = None /\ impl_hash = None /\ storage_version = 0
    /\ in_flight = {} /\ layouts = <<>>

ProxyAdminSigns == proxy_admin # None

initialize_proxy(admin_address, hash, initial_storage_version) ==
    /\ proxy_admin = None
    /\ proxy_admin' = admin_address
    /\ impl_hash' = hash /\ storage_version' = initial_storage_version
    /\ layouts' = <<initial_storage_version>>
    /\ in_flight' = in_flight

set_proxy_admin(new_admin) ==
    /\ ProxyAdminSigns
    /\ proxy_admin' = new_admin
    /\ UNCHANGED <<impl_hash, storage_version, in_flight, layouts>>

(* get_storage_version, and a call prepared from its answer.  Nothing keeps  *)
(* the new version from being the old one or an earlier one, as it is in a   *)
(* rollback.  `seen` observes the upgrades the call takes into account.      *)
prepare_upgrade(hash, new_storage_version) ==
    /\ ProxyAdminSigns
    /\ in_flight' = in_flight \cup
         {[new_impl_hash |-> hash, expected_storage_version |-> storage_version,
           new_storage_version |-> new_storage_version, seen |-> Len(layouts)]}
    /\ UNCHANGED <<proxy_admin, impl_hash, storage_version, layouts>>

(* Mutant: the expected version is not compared.                             *)
upgrade_unchecked(call) ==
    /\ ProxyAdminSigns
    /\ impl_hash # None
    /\ impl_hash' = call.new_impl_hash
    /\ storage_version' = call.new_storage_version
    /\ in_flight' \in {in_flight, in_flight \ {call}}
    /\ layouts' = Append(layouts, storage_version')
    /\ UNCHANGED proxy_admin

(* A call arrives; it may be sent again.                                     *)
upgrade(call) ==
    /\ ProxyAdminSigns
    /\ storage_version = call.expected_storage_version
    /\ impl_hash # None
    /\ impl_hash' = call.new_impl_hash
    /\ storage_version' = call.new_storage_version
    /\ in_flight' \in {in_flight, in_flight \ {call}}
    /\ layouts' = Append(layouts, storage_version')
    /\ UNCHANGED proxy_admin

(* A call that fails or is lost.                                             *)
lose_upgrade(call) ==
    /\ in_flight' = in_flight \ {call}
    /\ UNCHANGED <<proxy_admin, impl_hash, storage_version, layouts>>

ProxyNext ==
    \/ \E a \in ProxyAdmins, hash \in ImplHashes : initialize_proxy(a, hash, 0)
    \/ \E a \in ProxyAdmins : set_proxy_admin(a)
    \/ /\ Len(layouts) + Cardinality(in_flight) <= MaxUpgrades
       /\ \E hash \in ImplHashes, v \in 0..MaxUpgrades : prepare_upgrade(hash, v)
    \/ \E call \in in_flight : Len(layouts) <= MaxUpgrades /\ upgrade(call)
    \/ \E call \in in_flight : lose_upgrade(call)
-----------------------------------------------------------------------------
(* An upgrade that takes effect was prepared with every earlier upgrade in   *)
(* view: none is undone, or applied to another's storage layout, by a call   *)
(* that was late or sent twice.  The only way around it is a version that    *)
(* comes back: upgrade does not ask for a new one to be new.                 *)
ComesBack(v) == \E i \in 1..(Len(layouts) - 1) : layouts[i] = v
NoLostUpgrade ==
    [][layouts # <<>> /\ layouts' # layouts
       => \E call \in in_flight :
             /\ call.seen = Len(layouts) \/ ComesBack(storage_version)
             /\ impl_hash' = call.new_impl_hash
             /\ storage_version' = call.new_storage_version]_proxyVars
=============================================================================
