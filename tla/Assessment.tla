----------------------------- MODULE Assessment -----------------------------
(***************************************************************************)
(* agentkeeper doctor: DoctorCommand builds the request, AssessProtection  *)
(* runs the two canaries and turns what they saw into a ProtectionStatus,  *)
(* and the exit code says whether the machine is protected.  Scripts act   *)
(* on exit code 0, so it must mean what was really observed.               *)
(***************************************************************************)
EXTENDS SandboxProbe, NetworkProbe

CONSTANT Worlds   \* machines: [platform, mechanism, readable, gaps, egress]

\* Why nothing is run: no runner, or one of another platform.
Refusals == {"platform.windows-runner-unavailable", "sandbox.runner-missing",
             "platform.runner-mismatch"}

ASSUME WorldAssumption ==
  /\ \A w \in Worlds : /\ w.mechanism \in Mechanisms \cup {None}
                       /\ w.readable \subseteq Reads
                       /\ w.egress \in BOOLEAN
  /\ None \notin Refusals \cup {"status"}

VARIABLE doctor   \* pc, status, the watcher's state, the error, the exit code

vars == <<world, probe, run, canary, child, broker, net, doctor>>

Brokers == [accepts : SUBSET Denied, carries : BOOLEAN, unix : BOOLEAN]

Init ==
  /\ world \in Worlds
  /\ broker \in Brokers
  /\ world.egress \/ (broker.accepts = {} /\ broker.carries)
  /\ broker.unix <=> world.platform = "linux"
  /\ ProbeInit
  /\ NetInit
  /\ doctor = [pc |-> "start", status |-> None, watcher |-> None, thrown |-> None,
              exit |-> None]

Inactive == [mechanism |-> None, denyCanary |-> "not-run", filesystem |-> "none",
             processTree |-> "none", network |-> "none"]

IsComplete(s) ==
  /\ s.capabilities.mechanism # None
  /\ s.capabilities.denyCanary = "passed"
  /\ s.capabilities.filesystem = "enforced"
  /\ s.capabilities.processTree = "enforced"
  /\ s.capabilities.network \in {"denied", "brokered"}
  /\ s.reasons = {}

Create(level, capabilities, reasons) ==
  [level |-> level, capabilities |-> capabilities, reasons |-> reasons]

\* ProtectionStatus.create throws for a PROTECTED that is not complete.
Throws(s) == s.level = "PROTECTED" /\ ~IsComplete(s)

Unprotected(reason) == Create("UNPROTECTED", Inactive, {reason})

\* AssessProtection judges the runner before it runs anything.  The doctor
\* never bypasses, and its runner and its context are for its own platform.
MechanismMatchesPlatform(mechanism, platform) ==
  <<mechanism, platform>> \in {<<"seatbelt", "darwin">>, <<"bubblewrap", "linux">>,
                               <<"appcontainer", "win32">>}

Refusal ==
  CASE world.mechanism = None -> IF world.platform = "win32"
                                 THEN "platform.windows-runner-unavailable"
                                 ELSE "sandbox.runner-missing"
    [] world.mechanism # None
         /\ ~MechanismMatchesPlatform(world.mechanism, world.platform) ->
         "platform.runner-mismatch"
    [] OTHER -> None

\* runner.unenforceable: a refusal the file model cannot express, and egress
\* that has no broker of the transport the backend can wire up.
Unenforceable(brokered) ==
  (IF world.mechanism = "seatbelt" THEN {} ELSE world.gaps)
    \cup (IF world.egress /\ (~brokered \/ world.mechanism = "appcontainer")
          THEN {"network"} ELSE {})

BrokerVerified == net.pc = "reported" /\ net.result = "passed"

\* Mutant: the level follows from the mechanism, as if it had no gaps.
AssessedByMechanism ==
  Create(IF world.mechanism = "bubblewrap" THEN "PROTECTED" ELSE "DEGRADED",
         [mechanism |-> world.mechanism, denyCanary |-> "passed", filesystem |-> "enforced",
          processTree |-> "enforced",
          network |-> IF BrokerVerified THEN "brokered" ELSE "denied"],
         Unenforceable(BrokerVerified))

\* What is known once both canaries have run.
Assessed ==
  LET gaps == Unenforceable(BrokerVerified)
      backend == CASE world.mechanism = "seatbelt" -> {"seatbelt.broad-system-read"}
                   [] world.mechanism = "appcontainer" -> {"appcontainer.compatibility-surface"}
                   [] OTHER -> {}
      brokered == world.egress /\ world.mechanism # "appcontainer" /\ BrokerVerified
      egress == CASE ~world.egress \/ brokered -> {}
                  [] world.egress /\ world.mechanism = "appcontainer" ->
                       {"network.appcontainer-deny-only"}
                  [] OTHER -> {net.result}
      capabilities ==
        [mechanism |-> world.mechanism,
         denyCanary |-> "passed",
         filesystem |-> IF "path" \in gaps \/ backend # {} THEN "partial" ELSE "enforced",
         processTree |-> "enforced",
         network |-> IF brokered THEN "brokered" ELSE "denied"]
      reasons == gaps \cup backend \cup egress
  IN Create(IF reasons = {} THEN "PROTECTED" ELSE "DEGRADED", capabilities, reasons)

-----------------------------------------------------------------------------
\* The configuration, the runner, the grants and the policy are read; each may
\* fail, and the command ends with exit code 1.
Begin ==
  /\ doctor.pc = "start"
  /\ \/ /\ Refusal # None
        /\ doctor' = [doctor EXCEPT !.pc = "health", !.status = Unprotected(Refusal)]
        /\ UNCHANGED probe
     \/ /\ Refusal = None
        /\ doctor' = [doctor EXCEPT !.pc = "probe"]
        /\ probe' = [probe EXCEPT !.pc = "begin"]
     \/ /\ doctor' = [doctor EXCEPT !.pc = "exited", !.exit = 1]
        /\ UNCHANGED probe
  /\ UNCHANGED <<world, run, canary, child, broker, net>>

\* The sandbox canary has answered.  Egress that is asked for is verified next.
Probed ==
  /\ doctor.pc = "probe"
  /\ probe.pc = "reported"
  /\ \/ /\ probe.result # "passed"
        /\ doctor' = [doctor EXCEPT !.pc = "health",
             !.status = Create("UNPROTECTED",
                          [Inactive EXCEPT !.mechanism = world.mechanism,
                                           !.denyCanary = "failed"], {probe.result})]
        /\ UNCHANGED net
     \/ /\ probe.result = "passed"
        /\ doctor' = [doctor EXCEPT !.pc = "network"]
        /\ net' = [net EXCEPT !.pc = IF world.egress THEN "begin" ELSE @]
  /\ UNCHANGED <<world, probeVars, broker>>

\* The status; a create that throws ends the command.
Assess ==
  /\ doctor.pc = "network"
  /\ net.pc \in {"idle", "reported"}
  /\ doctor' = IF Throws(Assessed)
               THEN [doctor EXCEPT !.pc = "exited", !.exit = 1, !.thrown = "status"]
               ELSE [doctor EXCEPT !.pc = "health", !.status = Assessed]
  /\ UNCHANGED <<world, probeVars, broker, net>>

\* A probe that rejects is caught by nobody but main.
Fail ==
  /\ \/ doctor.pc = "probe" /\ probe.pc = "threw"
     \/ doctor.pc = "network" /\ net.pc = "threw"
  /\ doctor' = [doctor EXCEPT !.pc = "exited", !.exit = 1]
  /\ UNCHANGED <<world, probeVars, broker, net>>

\* daemon.json as it is read: unusable, of a dead process, or of a live one.
DaemonRuntimeState(record) ==
  CASE record = None -> "absent"
    [] record # None /\ ~record.alive -> "stopped"
    [] record # None /\ record.alive /\ record.version = "installed" -> "current"
    [] OTHER -> "stale"

DaemonRecords == {None} \cup [alive : BOOLEAN, version : {"installed", "older"}]

\* The installation's health (an error counts as unhealthy), the watcher's
\* self-report, which is only printed, and the exit code.
Conclude ==
  /\ doctor.pc = "health"
  /\ \E healthy \in BOOLEAN, record \in DaemonRecords :
       doctor' = [doctor EXCEPT
         !.pc = "exited",
         !.watcher = DaemonRuntimeState(record),
         !.exit = CASE doctor.status.level = "PROTECTED" /\ healthy -> 0
                    [] doctor.status.level = "DEGRADED" -> 2
                    [] OTHER -> 3]
  /\ UNCHANGED <<world, probeVars, broker, net>>

DoctorSteps == Begin \/ Probed \/ Assess \/ Fail \/ Conclude

Next ==
  \/ DoctorSteps
  \/ ProbeSteps /\ UNCHANGED <<broker, net, doctor>>
  \/ NetSteps /\ UNCHANGED <<world, probeVars, doctor>>

Spec ==
  /\ Init
  /\ [][Next]_vars
  /\ WF_vars(DoctorSteps)
  /\ WF_vars(NetSteps /\ UNCHANGED <<world, probeVars, doctor>>)
  /\ ProbeFairness

-----------------------------------------------------------------------------
\* Types of the machine, the probes, the confined processes and doctor.
TypeOK ==
  /\ world \in Worlds
  /\ broker \in Brokers
  /\ probe.pc \in {"idle", "begin", "setup", "race", "cleanup", "cleanup-throw",
                   "reported", "threw"}
  /\ probe.root \in BOOLEAN /\ probe.timedOut \in BOOLEAN
  /\ probe.result \in Codes \cup {"passed", None}
  /\ run.pc \in {"none", "starting", "waiting", "removing", "resolved", "rejected"}
  /\ run.exit \in Exits \cup {None}
  /\ canary.pc \in {"none", "boot", "allowed-read", "deny-checked", "spawned", "exited"}
  /\ canary.exit \in Exits \cup {None}
  /\ child.pc \in {"none", "running", "gone"}
  /\ net.open \subseteq Resources /\ net.failed \subseteq Resources
  /\ net.result \in NetCodes \cup {"passed", "pending"}
  /\ doctor.exit \in {0, 1, 2, 3, None}

\* Exit code 0 is only given for a boundary that was observed to hold: the
\* workspace was readable, the private file was not, not even to a child, no
\* refusal of the policy is beyond the backend, and egress, when the policy has
\* any, was seen to be carried and refused as it must be.  No timeout, crash or
\* late answer of a canary adds up to it (AssessProtection.execute, interpret).
ProtectedIsProven ==
  doctor.exit = 0 =>
    /\ world.readable = {"allowed"}
    /\ ~probe.timedOut
    /\ world.mechanism = "bubblewrap" /\ world.gaps = {}
    /\ world.egress => net.relayed /\ \A d \in Denied : net.seen[d] = "refused"

\* The guard of ProtectionStatus.create never fires: a status without a reason
\* is complete, for every backend and every answer of the two canaries.
StatusIsConsistent == doctor.thrown # "status"

\* What the failed releases leave behind: the directory that could not be
\* removed, and whatever came after a close() that failed in the same block.
LeftByFailure ==
  (net.failed \ {"session", "tunnel-session"})
    \cup (IF "tunnel-session" \in net.failed THEN {"sink", "tunnel-scratch"} ELSE {})
    \cup (IF "session" \in net.failed THEN {"scratch"} ELSE {})

\* A canary that answers has left nothing behind: the probe's home is gone, and
\* the egress canary has given back both brokers, the sink and both directories,
\* at whichever step it failed.  When it rejects instead, what is left is what a
\* failing release left; both brokers are closed even then.  The runner's
\* directory is left only by the error in front of its try and by its own rm
\* (the catch and finally clauses of NodeNetworkProbe.probe, checkApprovedTunnel,
\* NodeSandboxProbe and the runners).
NothingLeft ==
  /\ probe.pc = "reported" => ~probe.root
  /\ run.pc \in {"resolved", "rejected"} /\ run.dir => run.thrown \in {"profile", "rm"}
  /\ net.pc = "reported" => net.open = {}
  /\ net.pc = "threw" => net.open \subseteq LeftByFailure

\* doctor always comes to its exit code, although the canary and its child may
\* hang for ever: "doctor must say the protection is unverified instead of
\* hanging forever".  main() sets process.exitCode and waits for the event loop:
\* of a sink that a failing close() left open nothing is said here.
DoctorEnds == <>(doctor.pc = "exited")

\* No confined process outlives the doctor for ever.  The child of a Seatbelt
\* canary is not covered: a kill does not reach it (NodeSandboxProbe, abandon).
CanaryReclaimed ==
  (doctor.pc = "exited") ~> (~CanaryAlive /\ (OwnsTree => ~ChildAlive))
=============================================================================
