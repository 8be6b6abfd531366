---------------------------- MODULE MCStateFiles ----------------------------
(* The files agentkeeper keeps: an installation transaction, the audit log   *)
(* and the allowlist, each in behaviours of its own, with the other two at   *)
(* rest: they share no file.                                                 *)
EXTENDS MCFileTransaction, MCAuditLog, MCGrants

VARIABLE part   \* the one that runs

MCInit ==
  /\ part \in {"transaction", "audit", "allowlist"}
  /\ Init /\ AuditInit /\ GrantsInit
  /\ part # "transaction" => fs = [p \in Path |-> Null]
  /\ part # "allowlist" => platform = "linux"

MCNext ==
  \/ part = "transaction" /\ Next /\ UNCHANGED <<part, auditVars, grantsVars>>
  \/ part = "audit" /\ AuditNext /\ UNCHANGED <<part, vars, grantsVars>>
  \/ part = "allowlist" /\ GrantsNext /\ UNCHANGED <<part, vars, auditVars>>

MCSpec == MCInit /\ [][MCNext]_<<part, vars, auditVars, grantsVars>>
=============================================================================
