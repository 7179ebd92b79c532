---------------------------- MODULE StreamClaims ----------------------------
(* What comments of the repository say of streams and the code does not      *)
(* do.  Each is refuted by a run of its own.                                 *)
EXTENDS StreamProperties

(* lib.rs in withdraw: "dust is naturally absorbed into the new cycle".  The *)
(* new cycle locks a full deposit of its own, and the old dust stays in the  *)
(* contract, owed to nobody.                                                 *)
NothingStranded ==
    \A id \in DOMAIN streams : Live(streams[id]) => escrow[id] = Owed(streams[id])

(* lib.rs on withdraw: the recipient withdraws "all tokens earned since last *)
(* withdrawal".  A call before the cliff pays nothing and still moves        *)
(* last_withdraw_time, so what was earned until then is never paid.          *)
WithdrawPaysAllEarned ==
    [][\A id \in LiveIds \cap DOMAIN streams' :
           LET s == streams[id]
               r == streams'[id]
           IN  Live(r) /\ r.last_withdraw_time > s.last_withdraw_time
                       /\ s.status = "Active"
               => r.total_withdrawn >= s.total_withdrawn + EarnedAt(s, now)]_vars

(* lib.rs in archive_stream: "Only archive when fully settled: all tokens    *)
(* accounted for".  A stream whose last claim was paid by transfer_recipient *)
(* still holds its dust, and is deleted with it.                             *)
ArchivedIsSettled ==
    [][\A id \in DOMAIN streams \ DOMAIN streams' : bal' = bal => escrow[id] = 0]_vars

(* lib.rs in partial_cancel_stream: "Use a derived nonce for the new stream  *)
(* to avoid collisions".  The nonce is the parent's id, which a sender may   *)
(* also pass to create_stream, and the id is not checked to be free.         *)
NewStreamIsNew ==
    [][\A slot \in DOMAIN global_ids'.slots \ DOMAIN global_ids.slots :
           global_ids'.slots[slot] \notin DOMAIN streams]_vars
=============================================================================
