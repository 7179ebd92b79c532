---------------------------- MODULE AdminProofs ----------------------------
(* Proofs about the administration of the stream contract, for every set of  *)
(* roles and versions, every pause duration and every log capacity.          *)
EXTENDS ContractAdmin, SequenceTheorems, TLAPS

(* The log fills its slots in order and then overwrites the oldest.          *)
AuditShape ==
    /\ Len(audit_slots) = audit_len
    /\ audit_len < AUDIT_CAP => audit_head = audit_len

(* Nothing is migrated before there is an admin.                             *)
MigrationShape == admin = None => migrations = <<>>

(* The inductive invariant.                                                  *)
AdminInv ==
    /\ now \in U64
    /\ AdminTypeOK /\ AuditShape /\ MigrationShape
    /\ NoIndefiniteLockout /\ VersionFollowsMigrations

(* An expiry is a time after now, and never more than MAX_PAUSE_DURATION     *)
(* away, however late it is.                                                 *)
LEMMA Expiry ==
    ASSUME now \in U64
    PROVE  /\ saturating_add(now, MAX_PAUSE_DURATION) \in U64
           /\ saturating_add(now, MAX_PAUSE_DURATION) \in 1..(now + MAX_PAUSE_DURATION)
  BY WidthAssumption, PauseAssumption DEF U64, saturating_add

(* Short remainders.                                                         *)
LEMMA Unwrapped ==
    ASSUME NEW n \in Nat \ {0}, NEW x \in Nat, x < n
    PROVE  x % n = x
  BY SMT

LEMMA Wrapped ==
    ASSUME NEW n \in Nat \ {0}, NEW x \in Nat, x < n
    PROVE  (x + n) % n = x
  BY SMT

(* The slots written stay a sequence: the next slot is a used one or the     *)
(* first free one.                                                           *)
LEMMA AppendKeepsShape ==
    ASSUME AuditShape, NEW S, audit_slots \in Seq(S), NEW entry \in S,
           audit_head \in 0..(AUDIT_CAP - 1), audit_len \in 0..AUDIT_CAP,
           append_audit_entry(entry)
    PROVE  /\ audit_slots' \in Seq(S) /\ AuditShape'
           /\ audit_head' \in 0..(AUDIT_CAP - 1) /\ audit_len' \in 0..AUDIT_CAP
           /\ audit_slots'[audit_head + 1] = entry
           /\ \A i \in 1..audit_len : i # audit_head + 1 => audit_slots'[i] = audit_slots[i]
           /\ audit_len' = IF audit_len + 1 < AUDIT_CAP THEN audit_len + 1 ELSE AUDIT_CAP
           /\ audit_head' = IF audit_head + 1 < AUDIT_CAP THEN audit_head + 1 ELSE 0
  <1>1. AUDIT_CAP \in Nat \ {0} /\ audit_head \in Nat /\ audit_len \in Nat
    BY AuditCapAssumption
  <1>2. audit_head % AUDIT_CAP = audit_head
    BY <1>1, Unwrapped
  <1>3. (audit_head + 1) % AUDIT_CAP
          = IF audit_head + 1 < AUDIT_CAP THEN audit_head + 1 ELSE 0
    <2>1. CASE audit_head + 1 < AUDIT_CAP
      <3>1. PICK next \in Nat : next = audit_head + 1
        BY <1>1
      <3>2. next % AUDIT_CAP = next
        BY <1>1, <2>1, <3>1, Unwrapped
      <3> QED
        BY <2>1, <3>1, <3>2
    <2>2. CASE audit_head + 1 = AUDIT_CAP
      <3>1. AUDIT_CAP % AUDIT_CAP = 0
        BY <1>1, SMT
      <3> QED
        BY <2>2, <3>1
    <2> QED
      BY <1>1, <2>1, <2>2
  <1>4. DOMAIN audit_slots = 1..audit_len
    BY DEF AuditShape
  <1> DEFINE n == IF audit_head = audit_len THEN audit_len + 1 ELSE audit_len
  <1>5. DOMAIN audit_slots \cup {audit_head + 1} = 1..n
    BY <1>1, <1>4 DEF AuditShape
  <1>6. audit_slots' = [i \in 1..n |-> IF i = audit_head + 1 THEN entry ELSE audit_slots[i]]
    BY <1>2, <1>5 DEF append_audit_entry
  <1>7. \A i \in 1..n : i # audit_head + 1 => audit_slots[i] \in S
    BY <1>1, <1>4
  <1>8. n \in Nat
    BY <1>1
  <1>9. audit_slots' \in [1..n -> S]
    BY <1>6, <1>7
  <1>10. audit_slots' \in Seq(S) /\ Len(audit_slots') = n
    BY <1>8, <1>9
  <1>11. /\ audit_len' = IF audit_len + 1 < AUDIT_CAP THEN audit_len + 1 ELSE AUDIT_CAP
         /\ audit_head' = IF audit_head + 1 < AUDIT_CAP THEN audit_head + 1 ELSE 0
    BY <1>3 DEF append_audit_entry
  <1>12. AuditShape'
    BY <1>1, <1>10, <1>11 DEF AuditShape
  <1> QED
    BY <1>1, <1>5, <1>6, <1>10, <1>11, <1>12 DEF AuditShape
-----------------------------------------------------------------------------
LEMMA InitAdminInv == now = 0 /\ AdminInit => AdminInv
  <1> SUFFICES ASSUME now = 0, AdminInit PROVE AdminInv
    OBVIOUS
  <1>1. /\ 0 \in U64 /\ 0 \in 0..(AUDIT_CAP - 1) /\ 0 \in 0..AUDIT_CAP
        /\ <<>> \in Seq(Versions) /\ <<>> \in Seq(AuditEntries)
    BY WidthAssumption, AuditCapAssumption DEF U64
  <1>2. AdminTypeOK
    BY <1>1 DEF AdminInit, AuditInit, AdminTypeOK
  <1>3. AuditShape
    BY DEF AdminInit, AuditInit, AuditShape
  <1> QED
    BY <1>1, <1>2, <1>3, WidthAssumption DEF AdminInit, AdminInv, U64, MigrationShape,
       NoIndefiniteLockout, VersionFollowsMigrations

(* The clock only lengthens the time a pause may have left.                  *)
LEMMA ClockAdminInv ==
    ASSUME AdminInv, AdvanceTime, UNCHANGED adminVars
    PROVE  AdminInv'
  <1> USE DEF AdminInv, adminVars, roleVars, pauseVars, auditVars
  <1>1. now' \in U64 /\ now' > now /\ now \in Nat
    BY WidthAssumption DEF AdvanceTime, U64
  <1>2. AdminTypeOK'
    BY DEF AdminTypeOK
  <1>3. AuditShape' /\ MigrationShape' /\ VersionFollowsMigrations'
    BY DEF AuditShape, MigrationShape, VersionFollowsMigrations
  <1>4. NoIndefiniteLockout'
    BY <1>1, PauseAssumption DEF NoIndefiniteLockout
  <1> QED
    BY <1>1, <1>2, <1>3, <1>4

(* An operation behind the pause gate, or one that does not touch the pause. *)
LEMMA GateAdminInv ==
    ASSUME AdminInv, now' = now, NotPaused \/ UNCHANGED pauseVars,
           UNCHANGED <<roleVars, version, migrations, auditVars>>
    PROVE  AdminInv'
  <1> USE DEF AdminInv, roleVars, pauseVars, auditVars
  <1>1. /\ paused \in BOOLEAN /\ pause_expiry \in U64 /\ 0 \in U64
    BY WidthAssumption DEF AdminTypeOK, U64
  <1>2. /\ paused' \in BOOLEAN /\ pause_expiry' \in U64
        /\ NoIndefiniteLockout'
    <2>1. CASE NotPaused
      BY <1>1, <2>1 DEF NotPaused, NoIndefiniteLockout
    <2>2. CASE UNCHANGED pauseVars
      BY <1>1, <2>2 DEF NoIndefiniteLockout
    <2> QED
      BY <2>1, <2>2
  <1>3. AdminTypeOK'
    BY <1>2 DEF AdminTypeOK
  <1>4. AuditShape' /\ MigrationShape' /\ VersionFollowsMigrations'
    BY DEF AuditShape, MigrationShape, VersionFollowsMigrations
  <1> QED
    BY <1>2, <1>3, <1>4

(* A new pause, a pause lifted, and an audited action keep their part.       *)
LEMMA PauseStep ==
    ASSUME AdminInv, now' = now, StartPause \/ EndPause
    PROVE  paused' \in BOOLEAN /\ pause_expiry' \in U64 /\ NoIndefiniteLockout'
  <1>1. CASE StartPause
    BY <1>1, Expiry DEF AdminInv, StartPause, NoIndefiniteLockout
  <1>2. CASE EndPause
    <2>1. ~paused' /\ pause_expiry' = 0
      BY <1>2 DEF EndPause
    <2>2. 0 \in U64
      BY WidthAssumption DEF U64
    <2> QED
      BY <1>2, <2>1, <2>2 DEF EndPause, NoIndefiniteLockout
  <1> QED
    BY <1>1, <1>2

LEMMA AuditStep ==
    ASSUME AdminInv, check_admin, NEW name \in {"emergency_pause", "emergency_resume", "migrate"},
           Audit(name)
    PROVE  /\ audit_slots' \in Seq(AuditEntries) /\ AuditShape'
           /\ audit_head' \in 0..(AUDIT_CAP - 1) /\ audit_len' \in 0..AUDIT_CAP
  <1> DEFINE entry == [instruction |-> name, admin |-> admin, timestamp |-> now]
  <1>1. entry \in AuditEntries
    BY DEF AdminInv, AdminTypeOK, check_admin, AuditEntries
  <1>2. append_audit_entry(entry)
    BY DEF Audit
  <1>3. AuditShape /\ audit_slots \in Seq(AuditEntries)
        /\ audit_head \in 0..(AUDIT_CAP - 1) /\ audit_len \in 0..AUDIT_CAP
    BY DEF AdminInv, AdminTypeOK
  <1> HIDE DEF entry
  <1> QED
    BY <1>1, <1>2, <1>3, AppendKeepsShape

LEMMA StepAdminInv ==
    ASSUME AdminInv, AdminNext, now' = now
    PROVE  AdminInv'
  <1> USE DEF AdminInv
  <1>1. ASSUME NEW a \in Admins, NEW v \in Versions, initialize(a, v)
        PROVE  AdminInv'
    BY <1>1, RolesAssumption DEF initialize, pauseVars, auditVars, AdminTypeOK, AuditShape,
       MigrationShape, NoIndefiniteLockout, VersionFollowsMigrations
  <1>2. ASSUME NEW a \in Admins, set_admin(a) \/ set_guardian(a) \/ set_governance(a)
        PROVE  AuditShape' /\ NoIndefiniteLockout' /\ VersionFollowsMigrations'
    BY <1>2 DEF set_admin, set_guardian, set_governance, pauseVars, auditVars, AuditShape,
       NoIndefiniteLockout, VersionFollowsMigrations
  <1>3. ASSUME NEW a \in Admins, set_admin(a)
        PROVE  AdminInv'
    <2>1. AdminTypeOK' /\ MigrationShape'
      BY <1>3, RolesAssumption DEF set_admin, check_admin, pauseVars, auditVars, AdminTypeOK,
         MigrationShape
    <2> QED
      BY <1>2, <1>3, <2>1
  <1>4. ASSUME NEW g \in Guardians, set_guardian(g)
        PROVE  AdminInv'
    BY <1>4 DEF set_guardian, pauseVars, auditVars, AdminTypeOK, AuditShape,
       MigrationShape, NoIndefiniteLockout, VersionFollowsMigrations
  <1>5. ASSUME NEW g \in Governances, set_governance(g)
        PROVE  AdminInv'
    BY <1>5 DEF set_governance, pauseVars, auditVars, AdminTypeOK, AuditShape,
       MigrationShape, NoIndefiniteLockout, VersionFollowsMigrations
  <1>6. CASE emergency_pause \/ emergency_resume
    <2>1. paused' \in BOOLEAN /\ pause_expiry' \in U64 /\ NoIndefiniteLockout'
      BY <1>6, PauseStep DEF emergency_pause, emergency_resume
    <2>2. /\ audit_slots' \in Seq(AuditEntries) /\ AuditShape'
          /\ audit_head' \in 0..(AUDIT_CAP - 1) /\ audit_len' \in 0..AUDIT_CAP
      BY <1>6, AuditStep DEF emergency_pause, emergency_resume
    <2>3. UNCHANGED <<roleVars, version, migrations>>
      BY <1>6 DEF emergency_pause, emergency_resume
    <2> QED
      BY <2>1, <2>2, <2>3 DEF roleVars, AdminTypeOK, MigrationShape, VersionFollowsMigrations
  <1>7. CASE pause \/ unpause
    <2>1. paused' \in BOOLEAN /\ pause_expiry' \in U64 /\ NoIndefiniteLockout'
      BY <1>7, PauseStep DEF pause, unpause
    <2>2. UNCHANGED <<roleVars, version, migrations, auditVars>>
      BY <1>7 DEF pause, unpause
    <2> QED
      BY <2>1, <2>2 DEF roleVars, auditVars, AuditShape, AdminTypeOK, MigrationShape,
         VersionFollowsMigrations
  <1>8. CASE is_paused
    BY <1>8, GateAdminInv DEF is_paused
  <1>9. ASSUME NEW v \in NextVersions, migrate(v)
        PROVE  AdminInv'
    <2>1. /\ migrations' = Append(migrations, v) /\ version' = v /\ check_admin
          /\ \A i \in DOMAIN migrations : migrations[i] # v
          /\ UNCHANGED <<roleVars, pauseVars>> /\ Audit("migrate")
      BY <1>9 DEF migrate
    <2>2. /\ audit_slots' \in Seq(AuditEntries) /\ AuditShape'
          /\ audit_head' \in 0..(AUDIT_CAP - 1) /\ audit_len' \in 0..AUDIT_CAP
      BY <2>1, AuditStep
    <2>3. migrations \in Seq(Versions)
      BY DEF AdminTypeOK
    <2> v \in Versions
      BY VersionsAssumption
    <2>4. VersionFollowsMigrations'
      BY <2>1, <2>3 DEF VersionFollowsMigrations
    <2>5. MigrationShape' /\ NoIndefiniteLockout'
      BY <2>1 DEF check_admin, roleVars, pauseVars, MigrationShape, NoIndefiniteLockout
    <2>6. AdminTypeOK'
      BY <2>1, <2>2, <2>3 DEF roleVars, pauseVars, AdminTypeOK
    <2> QED
      BY <2>2, <2>4, <2>5, <2>6
  <1> QED
    BY <1>1, <1>3, <1>4, <1>5, <1>6, <1>7, <1>8, <1>9 DEF AdminNext

THEOREM AdminSafety == AdminSpec => []AdminInv
  <1>1. AdminStart => AdminInv
    BY InitAdminInv DEF AdminStart, LedgerInit
  <1>2. /\ AdminInv
        /\ [AdminStep]_<<ledgerVars, adminVars>>
        => AdminInv'
    <2>1. ASSUME AdminInv, AdminNext, UNCHANGED ledgerVars
          PROVE  AdminInv'
      BY <2>1, StepAdminInv DEF ledgerVars
    <2>2. ASSUME AdminInv, AdvanceTime, UNCHANGED adminVars
          PROVE  AdminInv'
      BY <2>2, ClockAdminInv
    <2>3. ASSUME AdminInv, UNCHANGED <<ledgerVars, adminVars>>
          PROVE  AdminInv'
      BY <2>3, GateAdminInv DEF ledgerVars, adminVars
    <2> QED
      BY <2>1, <2>2, <2>3 DEF AdminStep
  <1> QED
    BY <1>1, <1>2, PTL DEF AdminSpec

(* Type correctness of roles, pause, migrations and audit log.               *)
THEOREM AdminTypes == AdminSpec => []AdminTypeOK
  <1>1. AdminInv => AdminTypeOK
    BY DEF AdminInv
  <1> QED
    BY <1>1, AdminSafety, PTL

(* Whoever pauses the contract, and however often: no pause without an end.  *)
THEOREM NoLockout == AdminSpec => []NoIndefiniteLockout
  <1>1. AdminInv => NoIndefiniteLockout
    BY DEF AdminInv
  <1> QED
    BY <1>1, AdminSafety, PTL

(* No migration is applied twice, and initialize undoes none.                *)
THEOREM MigrationsApplyOnce == AdminSpec => []VersionFollowsMigrations
  <1>1. AdminInv => VersionFollowsMigrations
    BY DEF AdminInv
  <1> QED
    BY <1>1, AdminSafety, PTL

(* Only governance, the admin or the expiry lifts a pause.                   *)
THEOREM PauseLiftedOnlyByRight == AdminSpec => PauseLiftedByRight
  <1>1. [AdminStep]_<<ledgerVars, adminVars>>
        => [paused /\ ~paused' => emergency_resume \/ unpause \/ now >= pause_expiry]_adminVars
    <2> SUFFICES ASSUME [AdminStep]_<<ledgerVars, adminVars>>, paused, ~paused'
                 PROVE  emergency_resume \/ unpause \/ now >= pause_expiry
      OBVIOUS
    <2>1. ~UNCHANGED pauseVars
      BY DEF pauseVars
    <2>2. AdminNext
      BY <2>1 DEF AdminStep, adminVars
    <2>3. ASSUME NEW a, NEW v, initialize(a, v) \/ set_admin(a) \/ set_guardian(a)
                                \/ set_governance(a) \/ migrate(v)
          PROVE  FALSE
      BY <2>1, <2>3 DEF initialize, set_admin, set_guardian, set_governance, migrate, pauseVars
    <2>4. ~emergency_pause /\ ~pause
      BY DEF emergency_pause, pause, StartPause
    <2>5. CASE is_paused
      BY <2>5 DEF is_paused, NotPaused
    <2> QED
      BY <2>2, <2>3, <2>4, <2>5 DEF AdminNext
  <1> QED
    BY <1>1, PTL DEF AdminSpec, PauseLiftedByRight

-----------------------------------------------------------------------------
(* What read_audit_log reads: the slots themselves until they are all used,  *)
(* and from then on the slots that start at the write position.              *)
LogShape ==
    /\ read_audit_log \in Seq(AuditEntries)
    /\ Len(read_audit_log) = audit_len
    /\ \A i \in 1..audit_len :
         /\ audit_len < AUDIT_CAP => read_audit_log[i] = audit_slots[i]
         /\ audit_len = AUDIT_CAP /\ audit_head + i <= AUDIT_CAP
            => read_audit_log[i] = audit_slots[audit_head + i]
         /\ audit_len = AUDIT_CAP /\ audit_head + i > AUDIT_CAP
            => read_audit_log[i] = audit_slots[audit_head + i - AUDIT_CAP]

LEMMA ReadSlot ==
    ASSUME AuditShape, audit_head \in 0..(AUDIT_CAP - 1), audit_len \in 0..AUDIT_CAP,
           NEW i \in 1..audit_len
    PROVE  /\ audit_len < AUDIT_CAP => read_audit_log[i] = audit_slots[i]
           /\ audit_len = AUDIT_CAP /\ audit_head + i <= AUDIT_CAP
              => read_audit_log[i] = audit_slots[audit_head + i]
           /\ audit_len = AUDIT_CAP /\ audit_head + i > AUDIT_CAP
              => read_audit_log[i] = audit_slots[audit_head + i - AUDIT_CAP]
  <1>1. AUDIT_CAP \in Nat \ {0} /\ audit_head \in Nat /\ audit_len \in Nat /\ i \in Nat
    BY AuditCapAssumption
  <1> DEFINE at == audit_head + AUDIT_CAP - audit_len + i - 1
  <1>2. read_audit_log[i] = audit_slots[(at % AUDIT_CAP) + 1]
    BY DEF read_audit_log
  <1> HIDE DEF at
  <1>3. ASSUME audit_len < AUDIT_CAP
        PROVE  read_audit_log[i] = audit_slots[i]
    <2>1. PICK x \in Nat : x = i - 1 /\ x < AUDIT_CAP
      BY <1>1, <1>3
    <2>2. at = x + AUDIT_CAP
      BY <1>1, <1>3, <2>1 DEF at, AuditShape
    <2>3. at % AUDIT_CAP = x
      BY <1>1, <2>1, <2>2, Wrapped
    <2> QED
      BY <1>1, <1>2, <2>1, <2>3
  <1>4. ASSUME audit_len = AUDIT_CAP, audit_head + i <= AUDIT_CAP
        PROVE  read_audit_log[i] = audit_slots[audit_head + i]
    <2>1. PICK x \in Nat : x = audit_head + i - 1 /\ x < AUDIT_CAP
      BY <1>1, <1>4
    <2>2. at = x
      BY <1>1, <1>4, <2>1 DEF at
    <2>3. at % AUDIT_CAP = x
      BY <1>1, <2>1, <2>2, Unwrapped
    <2> QED
      BY <1>1, <1>2, <2>1, <2>3
  <1>5. ASSUME audit_len = AUDIT_CAP, audit_head + i > AUDIT_CAP
        PROVE  read_audit_log[i] = audit_slots[audit_head + i - AUDIT_CAP]
    <2>1. PICK x \in Nat : x = audit_head + i - 1 - AUDIT_CAP /\ x < AUDIT_CAP
      BY <1>1, <1>5
    <2>2. at = x + AUDIT_CAP
      BY <1>1, <1>5, <2>1 DEF at
    <2>3. at % AUDIT_CAP = x
      BY <1>1, <2>1, <2>2, Wrapped
    <2> QED
      BY <1>1, <1>2, <2>1, <2>3
  <1> QED
    BY <1>3, <1>4, <1>5

LEMMA LogHasShape == AdminTypeOK /\ AuditShape => LogShape
  <1> SUFFICES ASSUME AdminTypeOK, AuditShape PROVE LogShape
    OBVIOUS
  <1>1. /\ AUDIT_CAP \in Nat \ {0} /\ audit_len \in Nat /\ audit_len <= AUDIT_CAP
        /\ audit_head \in 0..(AUDIT_CAP - 1) /\ audit_len \in 0..AUDIT_CAP
        /\ audit_slots \in Seq(AuditEntries)
    BY AuditCapAssumption DEF AdminTypeOK
  <1>2. ASSUME NEW i \in 1..audit_len PROVE read_audit_log[i] \in AuditEntries
    <2>1. CASE audit_len < AUDIT_CAP
      BY <1>1, <2>1, ReadSlot DEF AuditShape
    <2>2. CASE audit_len = AUDIT_CAP /\ audit_head + i <= AUDIT_CAP
      <3>1. audit_head + i \in 1..Len(audit_slots)
        BY <1>1, <2>2 DEF AuditShape
      <3> QED
        BY <1>1, <2>2, <3>1, ReadSlot
    <2>3. CASE audit_len = AUDIT_CAP /\ audit_head + i > AUDIT_CAP
      <3>1. audit_head + i - AUDIT_CAP \in 1..Len(audit_slots)
        BY <1>1, <2>3 DEF AuditShape
      <3> QED
        BY <1>1, <2>3, <3>1, ReadSlot
    <2> QED
      BY <1>1, <2>1, <2>2, <2>3
  <1>3. read_audit_log = [i \in 1..audit_len |-> read_audit_log[i]]
    BY DEF read_audit_log
  <1>4. read_audit_log \in Seq(AuditEntries) /\ Len(read_audit_log) = audit_len
    BY <1>1, <1>2, <1>3
  <1> QED
    BY <1>1, <1>4, ReadSlot DEF LogShape

LEMMA LogHasShapeNext == (AdminTypeOK /\ AuditShape)' => LogShape'
  BY LogHasShape, PTL


(* What is left of a sequence without its first element.                     *)
LEMMA AllButFirst ==
    ASSUME NEW S, NEW s \in Seq(S), NEW n \in Nat, Len(s) = n + 1
    PROVE  /\ SubSeq(s, 2, n + 1) \in Seq(S) /\ Len(SubSeq(s, 2, n + 1)) = n
           /\ \A i \in 1..n : SubSeq(s, 2, n + 1)[i] = s[i + 1]
  BY SMT

(* Writing a slot is recording the entry in the trail.                       *)
LEMMA AppendIsRecord ==
    ASSUME AdminTypeOK, AuditShape, AdminTypeOK', AuditShape',
           NEW entry \in AuditEntries, append_audit_entry(entry)
    PROVE  read_audit_log' = Trail!Latest(Append(read_audit_log, entry))
  <1> DEFINE log == read_audit_log
             longer == Append(log, entry)
  <1>1. /\ AUDIT_CAP \in Nat \ {0} /\ audit_len \in Nat /\ audit_head \in Nat
        /\ audit_head \in 0..(AUDIT_CAP - 1) /\ audit_len \in 0..AUDIT_CAP
        /\ audit_head' \in 0..(AUDIT_CAP - 1) /\ audit_len' \in 0..AUDIT_CAP
        /\ audit_slots \in Seq(AuditEntries)
    BY AuditCapAssumption DEF AdminTypeOK
  <1>2. /\ audit_slots'[audit_head + 1] = entry
        /\ \A i \in 1..audit_len : i # audit_head + 1 => audit_slots'[i] = audit_slots[i]
    BY <1>1, AppendKeepsShape
  <1>3. LogShape /\ LogShape'
    BY LogHasShape, LogHasShapeNext
  <1>4. /\ longer \in Seq(AuditEntries) /\ Len(longer) = audit_len + 1
        /\ \A i \in 1..audit_len : longer[i] = log[i]
        /\ longer[audit_len + 1] = entry
    BY <1>3, AppendProperties DEF LogShape
  <1>5. /\ audit_len' = IF audit_len + 1 < AUDIT_CAP THEN audit_len + 1 ELSE AUDIT_CAP
        /\ audit_head' = IF audit_head + 1 < AUDIT_CAP THEN audit_head + 1 ELSE 0
    BY <1>1, AppendKeepsShape
  <1>6. CASE audit_len < AUDIT_CAP
    <2>1. Trail!Latest(longer) = longer
      BY <1>1, <1>4, <1>6 DEF Trail!Latest
    <2>2. /\ audit_len' = audit_len + 1 /\ audit_head = audit_len
          /\ audit_len' = AUDIT_CAP => audit_head' = 0
      BY <1>1, <1>5, <1>6 DEF AuditShape
    <2>3. ASSUME NEW i \in 1..audit_len' PROVE log'[i] = audit_slots'[i]
      <3>1. CASE audit_len' < AUDIT_CAP
        BY <1>3, <3>1 DEF LogShape
      <3>2. CASE audit_len' = AUDIT_CAP
        <4>1. audit_head' = 0 /\ i \in 1..AUDIT_CAP
          BY <2>2, <2>3, <3>2
        <4>2. audit_head' + i = i /\ i <= AUDIT_CAP
          BY <1>1, <4>1
        <4> QED
          BY <1>3, <3>2, <4>2 DEF LogShape
      <3> QED
        BY <1>1, <3>1, <3>2
    <2>4. ASSUME NEW i \in 1..audit_len' PROVE audit_slots'[i] = longer[i]
      BY <1>1, <1>2, <1>3, <1>4, <1>6, <2>2, <2>4 DEF LogShape
    <2>5. log' = longer
      BY <1>3, <1>4, <2>2, <2>3, <2>4 DEF LogShape
    <2> QED
      BY <2>1, <2>5
  <1>7. CASE audit_len = AUDIT_CAP
    <2> DEFINE latest == Trail!Latest(longer)
    <2>1. latest = SubSeq(longer, 2, AUDIT_CAP + 1)
      <3>1. Len(longer) = AUDIT_CAP + 1 /\ ~(Len(longer) <= AUDIT_CAP)
            /\ Len(longer) - AUDIT_CAP + 1 = 2
        BY <1>1, <1>4, <1>7
      <3> HIDE DEF longer
      <3> QED
        BY <3>1 DEF Trail!Latest
    <2>2. /\ latest \in Seq(AuditEntries) /\ Len(latest) = AUDIT_CAP
          /\ \A i \in 1..AUDIT_CAP : latest[i] = longer[i + 1]
      <3>1. longer \in Seq(AuditEntries) /\ Len(longer) = AUDIT_CAP + 1
        BY <1>4, <1>7
      <3> HIDE DEF longer, latest
      <3> QED
        BY <1>1, <2>1, <3>1, AllButFirst
    <2>3. audit_len' = AUDIT_CAP
      BY <1>1, <1>5, <1>7
    <2>4. ASSUME NEW i \in 1..AUDIT_CAP PROVE log'[i] = longer[i + 1]
      <3>1. CASE i = AUDIT_CAP
        BY <1>1, <1>2, <1>3, <1>4, <1>5, <1>7, <2>3, <3>1 DEF LogShape
      <3>2. ASSUME i < AUDIT_CAP PROVE longer[i + 1] = log[i + 1] /\ i + 1 \in 1..audit_len
        BY <1>1, <1>4, <1>7, <3>2
      <3>3. CASE i < AUDIT_CAP /\ audit_head + i < AUDIT_CAP
        <4>1. audit_head' = audit_head + 1 /\ audit_head' + i = audit_head + (i + 1)
              /\ audit_head + (i + 1) <= AUDIT_CAP
              /\ audit_head + (i + 1) \in 1..audit_len /\ audit_head + (i + 1) # audit_head + 1
          BY <1>1, <1>5, <1>7, <3>3
        <4>2. log'[i] = audit_slots'[audit_head + (i + 1)]
          BY <1>3, <2>3, <4>1 DEF LogShape
        <4>3. log[i + 1] = audit_slots[audit_head + (i + 1)]
          BY <1>3, <1>7, <3>2, <3>3, <4>1 DEF LogShape
        <4> QED
          BY <1>2, <3>2, <3>3, <4>1, <4>2, <4>3
      <3>4. CASE i < AUDIT_CAP /\ audit_head + i >= AUDIT_CAP
        <4> DEFINE k == audit_head + (i + 1) - AUDIT_CAP
        <4>1. k \in 1..audit_len /\ k # audit_head + 1 /\ audit_head + (i + 1) > AUDIT_CAP
          BY <1>1, <1>7, <3>4
        <4>2. log'[i] = audit_slots'[k]
          <5>1. CASE audit_head + 1 < AUDIT_CAP
            <6>1. audit_head' + i > AUDIT_CAP /\ audit_head' + i - AUDIT_CAP = k
              BY <1>1, <1>5, <3>4, <5>1
            <6> QED
              BY <1>3, <2>3, <6>1 DEF LogShape
          <5>2. CASE audit_head + 1 = AUDIT_CAP
            <6>1. audit_head' + i <= AUDIT_CAP /\ audit_head' + i = k
              BY <1>1, <1>5, <3>4, <5>2
            <6> QED
              BY <1>3, <2>3, <6>1 DEF LogShape
          <5> QED
            BY <1>1, <5>1, <5>2
        <4>3. log[i + 1] = audit_slots[k]
          BY <1>3, <1>7, <3>2, <3>4, <4>1 DEF LogShape
        <4> QED
          BY <1>2, <3>2, <3>4, <4>1, <4>2, <4>3
      <3> HIDE DEF longer
      <3> QED
        BY <1>1, <3>1, <3>3, <3>4
    <2> HIDE DEF longer, latest
    <2>5. log' = latest
      BY <1>3, <2>2, <2>3, <2>4 DEF LogShape
    <2> QED
      BY <2>5 DEF latest, longer
  <1> QED
    BY <1>1, <1>6, <1>7

(* The circular buffer implements the trail: get_admin_log shows the last    *)
(* AUDIT_CAP audited actions, oldest first.                                  *)
THEOREM AuditLogRefinesTrail == AdminSpec => AuditLogIsTrail
  <1>1. AdminStart => Trail!Init
    BY DEF AdminStart, AdminInit, AuditInit, read_audit_log, Trail!Init
  <1>2. AdminInv /\ AdminInv' /\ [AdminStep]_<<ledgerVars, adminVars>>
        => [Trail!Next]_read_audit_log
    <2> SUFFICES ASSUME AdminInv, AdminInv', [AdminStep]_<<ledgerVars, adminVars>>
                 PROVE  Trail!Next \/ read_audit_log' = read_audit_log
      OBVIOUS
    <2>1. ASSUME UNCHANGED auditVars
          PROVE  read_audit_log' = read_audit_log
      BY <2>1 DEF auditVars, read_audit_log
    <2>2. ASSUME NEW name \in {"emergency_pause", "emergency_resume", "migrate"},
                 check_admin, Audit(name)
          PROVE  Trail!Next
      <3> DEFINE entry == [instruction |-> name, admin |-> admin, timestamp |-> now]
      <3>1. entry \in AuditEntries
        BY <2>2 DEF AdminInv, AdminTypeOK, check_admin, AuditEntries
      <3>2. append_audit_entry(entry)
        BY <2>2 DEF Audit
      <3> HIDE DEF entry
      <3>3. Trail!Record(entry)
        BY <3>1, <3>2, AppendIsRecord DEF AdminInv, Trail!Record
      <3> QED
        BY <3>1, <3>3 DEF Trail!Next
    <2>3. CASE AdminNext
      <3>1. \/ UNCHANGED auditVars
            \/ check_admin /\ Audit("emergency_pause")
            \/ check_admin /\ Audit("emergency_resume")
            \/ check_admin /\ Audit("migrate")
        BY <2>3 DEF AdminNext, initialize, set_admin, set_guardian, set_governance,
           emergency_pause, emergency_resume, pause, unpause, is_paused, migrate
      <3> QED
        BY <2>1, <2>2, <3>1
    <2>4. CASE (AdvanceTime /\ UNCHANGED adminVars) \/ UNCHANGED <<ledgerVars, adminVars>>
      BY <2>1, <2>4 DEF adminVars
    <2> QED
      BY <2>3, <2>4 DEF AdminStep
  <1> QED
    BY <1>1, <1>2, AdminSafety, PTL DEF AdminSpec, AuditLogIsTrail, Trail!Spec
=============================================================================
