----------------------------- MODULE MCAuditLog -----------------------------
(* A daemon that appends and a command that appends twice and reads the log. *)
EXTENDS AuditLog

MCAppends == [daemon |-> 4, cli |-> 2]
=============================================================================
