---------------------------- MODULE SandboxProbe ----------------------------
(***************************************************************************)
(* The deny canary (NodeSandboxProbe) and the runner that confines it      *)
(* (SeatbeltRunner, BubblewrapRunner, WindowsSandboxRunner).  Four things  *)
(* run at once: the probe, the runner's promise, the confined canary and   *)
(* the child it starts; three deadlines race them.  What the kernel really *)
(* lets through is world.readable; the probe only sees exit codes.         *)
(***************************************************************************)
EXTENDS Naturals, FiniteSets

CONSTANT None   \* no value: null, undefined

VARIABLES
  world,    \* the machine: its mechanism and what its boundary lets through
  probe,    \* NodeSandboxProbe.probe: pc, temporary home, timedOut, result
  run,      \* runner.run: pc, its own temporary directory, its outcome
  canary,   \* the confined process: pc, exit code, killed but not yet gone
  child     \* the process the canary starts: pc, status

probeVars == <<probe, run, canary, child>>

Mechanisms == {"seatbelt", "bubblewrap", "appcontainer"}
Reads == {"allowed", "denied", "denied-by-child"}

\* The probe's failure codes.
Codes == {"deny-canary-readable", "child-deny-canary-readable", "workspace-unreadable",
          "child-probe-failed", "runner-failed", "canary-timed-out", "unexpected-exit"}

\* A process that was ended by a signal: its result carries 128 and the signal.
Signal == 128
Exits == {0, 1, 41, 42, 43, 44, Signal}

ASSUME NoneAssumption ==
  None \notin Exits /\ None \notin Codes \cup Mechanisms \cup {"passed"}

ProbeInit ==
  /\ probe = [pc |-> "idle", root |-> FALSE, timedOut |-> FALSE, result |-> None]
  /\ run = [pc |-> "none", dir |-> FALSE, exit |-> None, thrown |-> None]
  /\ canary = [pc |-> "none", exit |-> None, doomed |-> FALSE]
  /\ child = [pc |-> "none", status |-> None]

\* Killing the runner's process takes the namespace or the Job Object with it;
\* sandbox-exec becomes the canary, and a kill reaches nothing below it.
OwnsTree == world.mechanism # "seatbelt"

\* The runner's own temporary directory: the profile, or request and result.
UsesDir == world.mechanism # "bubblewrap"

CanaryAlive == canary.pc \notin {"none", "exited"}
ChildAlive == child.pc = "running"

-----------------------------------------------------------------------------
(* NodeSandboxProbe.probe.                                                 *)

\* mkdtemp and realpath, both outside the try: when realpath fails the
\* directory is left behind.
MakeRoot ==
  /\ probe.pc = "begin"
  /\ probe' \in {[probe EXCEPT !.pc = "setup", !.root = TRUE],
                 [probe EXCEPT !.pc = "threw"],
                 [probe EXCEPT !.pc = "threw", !.root = TRUE]}
  /\ UNCHANGED <<world, run, canary, child>>

\* The disposable home and its two canaries, then runner.run under a timer.
Prepare ==
  /\ probe.pc = "setup"
  /\ \/ /\ probe' = [probe EXCEPT !.pc = "race"]
        /\ run' = [run EXCEPT !.pc = "starting"]
     \/ /\ probe' = [probe EXCEPT !.pc = "cleanup-throw"]
        /\ UNCHANGED run
  /\ UNCHANGED <<world, canary, child>>

Interpret(exit) ==
  CASE exit = 0  -> "passed"
    [] exit = 41 -> "workspace-unreadable"
    [] exit = 42 -> "deny-canary-readable"
    [] exit = 43 -> "child-deny-canary-readable"
    [] exit = 44 -> "child-probe-failed"
    [] OTHER     -> "unexpected-exit"

\* withDeadline: the runner's promise settled before the timer.  An error of
\* the runner is a timeout only when its message says windows.child-timed-out,
\* which the message of the Windows runner never does.
ProbeSettles ==
  /\ probe.pc = "race"
  /\ run.pc \in {"resolved", "rejected"}
  /\ probe' = [probe EXCEPT !.pc = "cleanup",
                            !.result = IF run.pc = "resolved" THEN Interpret(run.exit)
                                                              ELSE "runner-failed"]
  /\ UNCHANGED <<world, run, canary, child>>

\* Mutant: a timer that notes the timeout and lets the runner go on.
OuterDeadlineNoted ==
  /\ probe.pc = "race"
  /\ run.pc \notin {"resolved", "rejected"}
  /\ probe' = [probe EXCEPT !.timedOut = TRUE]
  /\ UNCHANGED <<world, run, canary, child>>

\* Mutant: the abandoned canary is not aborted.
OuterDeadlineAbandons ==
  /\ probe.pc = "race"
  /\ run.pc \notin {"resolved", "rejected"}
  /\ probe' = [probe EXCEPT !.pc = "cleanup", !.result = "canary-timed-out"]
  /\ UNCHANGED <<world, run, canary, child>>

\* CANARY_TIMEOUT_MS: the timer aborts the runner and rejects; whatever the
\* runner's promise does later is not looked at.
OuterDeadline ==
  /\ probe.pc = "race"
  /\ run.pc \notin {"resolved", "rejected"}
  /\ probe' = [probe EXCEPT !.pc = "cleanup", !.timedOut = TRUE,
                            !.result = "canary-timed-out"]
  /\ canary' = [canary EXCEPT !.doomed = CanaryAlive]
  /\ UNCHANGED <<world, run, child>>

\* The finally clause: rm -r.  It may fail, because a process still writes there
\* or for reasons of its own, and the error replaces the result.
Cleanup ==
  /\ probe.pc \in {"cleanup", "cleanup-throw"}
  /\ probe' \in {[probe EXCEPT !.root = FALSE,
                                !.pc = IF @ = "cleanup" THEN "reported" ELSE "threw"],
                 [probe EXCEPT !.pc = "threw"]}
  /\ UNCHANGED <<world, run, canary, child>>

-----------------------------------------------------------------------------
(* runner.run.                                                             *)

\* Up to the spawn, which an aborted signal undoes at once.  The canary's
\* policy has no gap.  bubblewrap is looked up; the Windows helper is checked,
\* a directory made, the request written; Seatbelt makes a directory and
\* writes the profile before its try.
Launch ==
  /\ run.pc = "starting"
  /\ run' = [run EXCEPT !.pc = "waiting", !.dir = UsesDir]
  /\ canary' = [canary EXCEPT !.pc = "boot", !.doomed = probe.timedOut]
  /\ UNCHANGED <<world, probe, child>>

\* The executable is missing, the directory cannot be made, the profile or the
\* request not written, spawn reports an error.
LaunchFails ==
  /\ run.pc = "starting"
  /\ run' \in {[run EXCEPT !.pc = "rejected", !.thrown = "refused"]}
          \cup (IF UsesDir THEN {[run EXCEPT !.pc = "removing", !.dir = TRUE,
                                             !.thrown = "spawn"]} ELSE {})
          \cup (IF world.mechanism = "seatbelt"
                THEN {[run EXCEPT !.pc = "rejected", !.dir = TRUE,
                                  !.thrown = "profile"]} ELSE {})
  /\ UNCHANGED <<world, probe, canary, child>>

\* The exit event.  On Windows it is the helper that exits, with the child's
\* code in the result file; a helper killed, failing to clean up or leaving no
\* valid result is an error.
RunnerSees ==
  /\ run.pc = "waiting"
  /\ canary.pc = "exited"
  /\ LET settled == IF UsesDir THEN "removing" ELSE "resolved" IN
     \/ /\ world.mechanism = "appcontainer" => canary.exit # Signal
        /\ run' = [run EXCEPT !.pc = settled, !.exit = canary.exit]
     \/ /\ world.mechanism = "appcontainer"
        /\ run' = [run EXCEPT !.pc = settled, !.thrown = "helper"]
  /\ UNCHANGED <<world, probe, canary, child>>

\* CANARY_CHILD_TIMEOUT_MS: the Windows helper terminates its Job Object and
\* reports 208.
HelperDeadline ==
  /\ world.mechanism = "appcontainer"
  /\ run.pc = "waiting"
  /\ CanaryAlive
  /\ run' = [run EXCEPT !.pc = "removing", !.thrown = "child-timed-out"]
  /\ canary' = [canary EXCEPT !.pc = "exited", !.exit = Signal]
  /\ child' = [child EXCEPT !.pc = IF ChildAlive THEN "gone" ELSE @]
  /\ UNCHANGED <<world, probe>>

\* The runner's finally clause: an rm that fails replaces the exit code.
RemoveDir ==
  /\ run.pc = "removing"
  /\ run' \in {[run EXCEPT !.dir = FALSE,
                            !.pc = IF run.thrown = None THEN "resolved" ELSE "rejected"],
               [run EXCEPT !.pc = "rejected", !.thrown = "rm"]}
  /\ UNCHANGED <<world, probe, canary, child>>

-----------------------------------------------------------------------------
(* The canary and its child.                                               *)

CanaryExits(code) == canary' = [canary EXCEPT !.pc = "exited", !.exit = code]

\* The workspace file must be readable, the private one must not.
CanaryReads ==
  /\ \/ /\ canary.pc = "boot"
        /\ IF "allowed" \in world.readable THEN canary' = [canary EXCEPT !.pc = "allowed-read"]
                                           ELSE CanaryExits(41)
     \/ /\ canary.pc = "allowed-read"
        /\ IF "denied" \in world.readable THEN CanaryExits(42)
                                          ELSE canary' = [canary EXCEPT !.pc = "deny-checked"]
  /\ UNCHANGED <<world, probe, run, child>>

\* spawnSync: the child runs, or could not be started.
SpawnChild ==
  /\ canary.pc = "deny-checked"
  /\ canary' = [canary EXCEPT !.pc = "spawned"]
  /\ child' \in {[pc |-> "running", status |-> None], [pc |-> "gone", status |-> None]}
  /\ UNCHANGED <<world, probe, run>>

\* The same forbidden read; or the child dies of something else.
ChildReads ==
  /\ ChildAlive
  /\ child' \in {[pc |-> "gone", status |-> IF "denied-by-child" \in world.readable
                                            THEN 42 ELSE 0],
                 [pc |-> "gone", status |-> 1]}
  /\ UNCHANGED <<world, probe, run, canary>>

\* spawnSync's own timeout: SIGKILL, and no status.
ChildDeadline ==
  /\ canary.pc = "spawned"
  /\ ChildAlive
  /\ child' = [pc |-> "gone", status |-> None]
  /\ UNCHANGED <<world, probe, run, canary>>

\* Mutant: only the exit code that says readable is looked at.
CanaryConcludesPlain ==
  /\ canary.pc = "spawned"
  /\ child.pc = "gone"
  /\ CanaryExits(IF child.status = 42 THEN 43 ELSE 0)
  /\ UNCHANGED <<world, probe, run, child>>

CanaryConcludes ==
  /\ canary.pc = "spawned"
  /\ child.pc = "gone"
  /\ CanaryExits(IF child.status = 42 THEN 43 ELSE IF child.status # 0 THEN 44 ELSE 0)
  /\ UNCHANGED <<world, probe, run, child>>

\* The canary dies: of the abort, or of a signal or an error of its own.
CanaryDies ==
  /\ CanaryAlive
  /\ \E code \in {1, Signal} :
       /\ canary.doomed => code = Signal
       /\ CanaryExits(code)
  /\ child' = [child EXCEPT !.pc = IF ChildAlive /\ OwnsTree THEN "gone" ELSE @]
  /\ UNCHANGED <<world, probe, run>>

ProbeSteps ==
  MakeRoot \/ Prepare \/ ProbeSettles \/ OuterDeadline \/ Cleanup
    \/ Launch \/ LaunchFails \/ RunnerSees \/ HelperDeadline \/ RemoveDir
    \/ CanaryReads \/ SpawnChild \/ ChildReads \/ ChildDeadline \/ CanaryConcludes
    \/ CanaryDies

\* The canary and its child may hang; the deadlines, the runner and the probe
\* do not, and a killed process dies.
ProbeFairness ==
  /\ WF_probeVars(MakeRoot \/ Prepare \/ ProbeSettles \/ OuterDeadline \/ Cleanup)
  /\ WF_probeVars(Launch \/ LaunchFails)
  /\ WF_probeVars(RunnerSees \/ RemoveDir)
  /\ WF_probeVars(ChildDeadline)
  /\ WF_probeVars(canary.doomed /\ CanaryDies)
=============================================================================
