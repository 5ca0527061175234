----------------------------- MODULE MCAuditLog -----------------------------
EXTENDS AuditLog, TLC

(* Appenders and relays are interchangeable; no property is a liveness one. *)
Names == Permutations(Appender) \cup Permutations(Relay)
=============================================================================
