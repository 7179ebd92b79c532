--------------------------- MODULE ContractAdmin ---------------------------
(* Roles, emergency pause and migrations of contracts/stream/src/lib.rs.     *)
(* The pause lapses by itself: a state-changing call that finds it expired   *)
(* clears it and goes on (is_paused_or_auto_unpause in storage.rs).          *)
EXTENDS Ledger, AuditLog

CONSTANTS
    MAX_PAUSE_DURATION, \* 72 h in the code
    Admins, Guardians, Governances,
    Versions, NextVersions, \* of initialize, and those to migrate to
    EmergencySwitch     \* TRUE: emergency_pause is called, FALSE: emergency_resume
ASSUME PauseAssumption == MAX_PAUSE_DURATION \in Nat \ {0}
ASSUME VersionsAssumption == NextVersions \subseteq Versions
ASSUME RolesAssumption == None \notin Admins \cup Guardians \cup Governances \cup Versions

VARIABLES
    admin, guardian, governance,    \* an address, or None while unset
    version,                        \* None until initialize
    migrations,                     \* versions migrated to, in order
    paused, pause_expiry

pauseVars == <<paused, pause_expiry>>
roleVars  == <<admin, guardian, governance>>
adminVars == <<roleVars, version, migrations, pauseVars, auditVars>>

AdminInit ==
    /\ admin = None /\ guardian = None /\ governance = None
    /\ version = None /\ migrations = <<>>
    /\ paused = FALSE /\ pause_expiry = 0
    /\ AuditInit

(* check_admin: there is an admin, who signs the call.                       *)
check_admin == admin # None

(* Mutant: a pause with an expiry set never holds anyone up.                 *)
NotPausedWhenever ==
    /\ paused => pause_expiry > 0
    /\ paused' = FALSE
    /\ pause_expiry' = IF paused THEN 0 ELSE pause_expiry

(* The gate of every pausable operation: is_paused_or_auto_unpause answers   *)
(* false, and has cleared a pause that expired.                              *)
NotPaused ==
    /\ paused => pause_expiry > 0 /\ now >= pause_expiry
    /\ paused' = FALSE
    /\ pause_expiry' = IF paused THEN 0 ELSE pause_expiry

Audit(instruction) ==
    append_audit_entry([instruction |-> instruction, admin |-> admin, timestamp |-> now])

(* Mutant: the pause starts without an expiry.                               *)
StartPauseForever == paused' = TRUE /\ pause_expiry' = pause_expiry

StartPause ==
    /\ paused' = TRUE
    /\ pause_expiry' = saturating_add(now, MAX_PAUSE_DURATION)
EndPause == paused' = FALSE /\ pause_expiry' = 0

(* Mutant: the contract can be initialised again.                            *)
initialize_again(new_admin, new_version) ==
    /\ admin' = new_admin /\ version' = new_version
    /\ UNCHANGED <<guardian, governance, migrations, pauseVars, auditVars>>

initialize(new_admin, new_version) ==
    /\ admin = None
    /\ admin' = new_admin /\ version' = new_version
    /\ UNCHANGED <<guardian, governance, migrations, pauseVars, auditVars>>

set_admin(new_admin) ==
    /\ check_admin
    /\ admin' = new_admin
    /\ UNCHANGED <<guardian, governance, version, migrations, pauseVars, auditVars>>

set_guardian(new_guardian) ==
    /\ check_admin
    /\ guardian' = new_guardian
    /\ UNCHANGED <<admin, governance, version, migrations, pauseVars, auditVars>>

set_governance(new_governance) ==
    /\ check_admin
    /\ governance' = new_governance
    /\ UNCHANGED <<admin, guardian, version, migrations, pauseVars, auditVars>>

emergency_pause ==
    /\ check_admin /\ StartPause /\ Audit("emergency_pause")
    /\ UNCHANGED <<roleVars, version, migrations>>

emergency_resume ==
    /\ check_admin /\ EndPause /\ Audit("emergency_resume")
    /\ UNCHANGED <<roleVars, version, migrations>>

(* Called by the stored guardian and, below, by the stored governance.       *)
pause ==
    /\ guardian # None /\ StartPause
    /\ UNCHANGED <<roleVars, version, migrations, auditVars>>

unpause ==
    /\ governance # None /\ EndPause
    /\ UNCHANGED <<roleVars, version, migrations, auditVars>>

(* The query is_paused, when it is invoked as a transaction.                 *)
is_paused ==
    /\ paused /\ NotPaused
    /\ UNCHANGED <<roleVars, version, migrations, auditVars>>

migrate(to_version) ==
    /\ check_admin
    /\ \A i \in DOMAIN migrations : migrations[i] # to_version
    /\ version' = to_version
    /\ migrations' = Append(migrations, to_version)
    /\ Audit("migrate")
    /\ UNCHANGED <<roleVars, pauseVars>>

AdminNext ==
    \/ \E a \in Admins, v \in Versions : initialize(a, v)
    \/ \E a \in Admins : set_admin(a)
    \/ \E g \in Guardians : set_guardian(g)
    \/ \E g \in Governances : set_governance(g)
    \/ TRUE \in EmergencySwitch /\ emergency_pause
    \/ FALSE \in EmergencySwitch /\ emergency_resume
    \/ pause \/ unpause \/ is_paused
    \/ \E v \in NextVersions : migrate(v)

(* The contract with nothing but its roles and its pause.                    *)
AdminStart == LedgerInit /\ AdminInit
AdminStep ==
    \/ AdminNext /\ UNCHANGED ledgerVars
    \/ AdvanceTime /\ UNCHANGED adminVars
AdminSpec == AdminStart /\ [][AdminStep]_<<ledgerVars, adminVars>>
-----------------------------------------------------------------------------
AuditEntries == [instruction : {"emergency_pause", "emergency_resume", "migrate"},
                 admin : Admins, timestamp : U64]

(* The values the contract's administration ranges over.                     *)
AdminTypeOK ==
    /\ admin \in Admins \cup {None}
    /\ guardian \in Guardians \cup {None}
    /\ governance \in Governances \cup {None}
    /\ version \in Versions \cup {None}
    /\ migrations \in Seq(Versions)
    /\ paused \in BOOLEAN /\ pause_expiry \in U64
    /\ audit_head \in 0..(AUDIT_CAP - 1) /\ audit_len \in 0..AUDIT_CAP
    /\ audit_slots \in Seq(AuditEntries)

(* No pause locks users out for good: whoever paused, and however often,     *)
(* every pause in force has an expiry at most MAX_PAUSE_DURATION ahead.      *)
NoIndefiniteLockout ==
    /\ paused => pause_expiry \in 1..(now + MAX_PAUSE_DURATION)
    /\ ~paused => pause_expiry = 0

(* A migration is applied at most once, and the version is the last one      *)
(* applied: initialize cannot set it back.                                   *)
VersionFollowsMigrations ==
    /\ \A i, j \in DOMAIN migrations : migrations[i] = migrations[j] => i = j
    /\ migrations # <<>> => version = migrations[Len(migrations)]

(* Through the circular buffer get_admin_log shows the last AUDIT_CAP        *)
(* audited actions, oldest first.                                            *)
Trail == INSTANCE AuditTrail WITH CAP <- AUDIT_CAP, Entries <- AuditEntries,
                                  log <- read_audit_log
AuditLogIsTrail == Trail!Spec

(* A pause that is in force ends by governance, by the admin, or because     *)
(* its expiry has come: no other call lifts it.                              *)
PauseLiftedByRight ==
    [][paused /\ ~paused' => emergency_resume \/ unpause \/ now >= pause_expiry]_adminVars
=============================================================================
