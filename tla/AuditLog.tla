------------------------------ MODULE AuditLog ------------------------------
(* The circular buffer of admin actions in contracts/stream/src/storage.rs:  *)
(* a write position, a length, and slots that are overwritten once full.     *)
EXTENDS Naturals, Sequences

CONSTANT AUDIT_CAP      \* 20 in the code
ASSUME AuditCapAssumption == AUDIT_CAP \in Nat \ {0}

VARIABLES
    audit_head,         \* next slot to write ("al_head")
    audit_len,          \* entries held ("al_len")
    audit_slots         \* the slots written so far ("al", i)

auditVars == <<audit_head, audit_len, audit_slots>>

AuditInit == audit_head = 0 /\ audit_len = 0 /\ audit_slots = <<>>

(* Mutant: the length grows past the capacity.                               *)
append_uncapped(entry) ==
    LET write_idx == audit_head % AUDIT_CAP
    IN  /\ audit_slots' = [i \in DOMAIN audit_slots \cup {write_idx + 1} |->
                             IF i = write_idx + 1 THEN entry ELSE audit_slots[i]]
        /\ audit_head' = (audit_head + 1) % AUDIT_CAP
        /\ audit_len' = audit_len + 1

(* A slot is 0..AUDIT_CAP-1; slots fill in order, so slot i is position i+1. *)
append_audit_entry(entry) ==
    LET write_idx == audit_head % AUDIT_CAP
    IN  /\ audit_slots' = [i \in DOMAIN audit_slots \cup {write_idx + 1} |->
                             IF i = write_idx + 1 THEN entry ELSE audit_slots[i]]
        /\ audit_head' = (audit_head + 1) % AUDIT_CAP
        /\ audit_len' = IF audit_len + 1 < AUDIT_CAP THEN audit_len + 1 ELSE AUDIT_CAP

(* The entries from the oldest to the newest.                                *)
read_audit_log ==
    [i \in 1..audit_len |->
       audit_slots[((audit_head + AUDIT_CAP - audit_len + i - 1) % AUDIT_CAP) + 1]]
=============================================================================
