-------------------------- MODULE MCWorkspaceScan --------------------------
(* One interactive scan and one started by the git hook, over the agent's    *)
(* settings and an instruction file; and, in behaviours of its own, one run  *)
(* of the tool-call hook: it reads no record a scan writes.                  *)
EXTENDS WorkspaceScan, ToolCallHook

MCContent == {{}, {"hooks", "session-start", "endpoint"}, {"imperative"}}

MCCalls ==
  {[tool |-> "Read", paths |-> {"persistence"}, words |-> {}],
   [tool |-> "Read", paths |-> {"secret"}, words |-> {}],
   [tool |-> "Write", paths |-> {"persistence", "workflow"}, words |-> {}],
   [tool |-> "Write", paths |-> {"agent-config"}, words |-> {}],
   [tool |-> "Read", paths |-> {"foreign-env", "state-dir"}, words |-> {}],
   [tool |-> "Bash", paths |-> {}, words |-> {"core.hooksPath"}],
   [tool |-> "Bash", paths |-> {}, words |-> {"agentkeeper", "publish"}],
   [tool |-> "Bash", paths |-> {}, words |-> {"bypass"}],
   [tool |-> "Bash", paths |-> {"workflow"}, words |-> {"publish"}]}

NoHook == [pc |-> "none", evaluated |-> FALSE, verdict |-> NoAnswer]

MCInit ==
  \/ Init /\ hook = NoHook
  \/ /\ HookInit
     /\ Init /\ repo = [f \in File |-> {}]

MCNext ==
  \/ hook.pc = "none" /\ ScanNext /\ UNCHANGED hook
  \/ HookNext /\ UNCHANGED vars

MCSpec == MCInit /\ [][MCNext]_<<vars, hook>>
=============================================================================
