----------------------------- MODULE AuditTrail -----------------------------
(* What the admin audit log promises (get_admin_log): the last CAP entries,  *)
(* oldest first, and nothing rewritten.                                      *)
EXTENDS Naturals, Sequences

CONSTANTS CAP, Entries
VARIABLE log

Latest(s) == IF Len(s) <= CAP THEN s ELSE SubSeq(s, Len(s) - CAP + 1, Len(s))

Init == log = <<>>
Record(entry) == log' = Latest(Append(log, entry))
Next == \E entry \in Entries : Record(entry)
Spec == Init /\ [][Next]_log
=============================================================================
