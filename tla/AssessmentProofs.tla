------------------------- MODULE AssessmentProofs -------------------------
(***************************************************************************)
(* For every machine: exit code 0 of doctor means a boundary that was seen *)
(* to hold, the guard of ProtectionStatus.create never fires, and a canary *)
(* that answered has left nothing behind.                                  *)
(***************************************************************************)
EXTENDS Assessment, TLAPS

ProbeRecord ==
  [pc : {"idle", "begin", "setup", "race", "cleanup", "cleanup-throw", "reported", "threw"},
   root : BOOLEAN, timedOut : BOOLEAN, result : Codes \cup {"passed", None}]

RunRecord ==
  [pc : {"none", "starting", "waiting", "removing", "resolved", "rejected"}, dir : BOOLEAN,
   exit : Exits \cup {None},
   thrown : {None, "refused", "spawn", "profile", "helper", "child-timed-out", "rm"}]

CanaryRecord ==
  [pc : {"none", "boot", "allowed-read", "deny-checked", "spawned", "exited"},
   exit : Exits \cup {None}, doomed : BOOLEAN]

ChildRecord == [pc : {"none", "running", "gone"}, status : {None, 0, 1, 42}]

NetRecord ==
  [pc : {"idle", "begin", "start", "denials", "tunnel", "sink", "second", "relay",
         "close-tunnel", "close-sink", "remove-tunnel", "close-session", "remove",
         "reported", "threw"},
   open : SUBSET Resources, failed : SUBSET Resources, thrown : BOOLEAN,
   seen : [Denied -> {"unknown", "refused", "accepted"}],
   result : NetCodes \cup {"passed", "pending"}, relayed : BOOLEAN]

\* What the canary has established of the boundary, stage by stage: only a
\* boundary that held lets it, its child and its runner end with code 0.
Held == world.readable = {"allowed"}

CanaryInv ==
  /\ canary \in CanaryRecord /\ child \in ChildRecord
  /\ canary.pc \in {"allowed-read", "deny-checked", "spawned"} => "allowed" \in world.readable
  /\ canary.pc \in {"deny-checked", "spawned"} => "denied" \notin world.readable
  /\ child.status = 0 => "denied-by-child" \notin world.readable
  /\ canary.exit = 0 => Held

RunInv ==
  /\ run \in RunRecord
  /\ run.exit = 0 => Held
  /\ run.pc \in {"none", "starting"} => ~run.dir
  /\ run.pc = "waiting" /\ run.dir => UsesDir
  /\ run.pc \in {"resolved", "rejected"} /\ run.dir => run.thrown \in {"profile", "rm"}

ProbeInv ==
  /\ probe \in ProbeRecord
  /\ probe.pc \in {"idle", "begin", "setup"} => run.pc = "none"
  /\ probe.pc \in {"idle", "begin", "setup", "race"} => ~probe.timedOut
  /\ probe.pc \notin {"cleanup", "reported", "threw"} => probe.result = None
  /\ probe.result = "passed" => Held /\ ~probe.timedOut
  /\ probe.pc = "reported" => ~probe.root

\* The egress canary: what it may hold open at each stage.  A failed release
\* leads out of the tunnel's block, so nothing has failed inside of it.
Session == {"scratch", "session"}
Opening == {"idle", "begin", "start", "denials", "tunnel", "sink", "second", "relay"}
Closing == {"close-tunnel", "close-sink", "remove-tunnel"}

HeldOpen ==
  /\ net.pc \in {"idle", "begin", "reported"} => net.open = {}
  /\ net.pc = "start" => net.open \subseteq {"scratch"}
  /\ net.pc \in {"denials", "tunnel"} => net.open \subseteq Session
  /\ net.pc \in {"sink", "remove-tunnel"} => net.open \subseteq Session \cup {"tunnel-scratch"}
  /\ net.pc \in {"second", "close-sink"} =>
       net.open \subseteq Session \cup {"tunnel-scratch", "sink"}
  /\ net.pc = "close-session" => net.open \subseteq Session \cup LeftByFailure
  /\ net.pc = "remove" => net.open \subseteq {"scratch"} \cup LeftByFailure
  /\ net.pc = "threw" => net.open \subseteq LeftByFailure

\* What it has seen, and that nothing but a relay ends without a code.
Refused == \A d \in Denied : net.seen[d] = "refused"

HasSeen ==
  /\ net.pc \in Opening => net.result = "pending"
  /\ net.pc \in {"tunnel", "sink", "second", "relay"} => Refused
  /\ net.pc \in Closing \cup {"close-session", "remove"} /\ ~net.thrown
       /\ net.result = "pending" => net.relayed /\ Refused
  /\ net.result = "passed" => net.relayed /\ Refused

NetInv ==
  /\ net \in NetRecord
  /\ net.pc \in Opening \cup Closing => ~net.thrown
  /\ ~net.thrown => net.failed = {}
  /\ HeldOpen
  /\ HasSeen

\* Everything exit code 0 stands for.
Proven ==
  /\ Held /\ ~probe.timedOut /\ probe.pc = "reported"
  /\ world.mechanism = "bubblewrap" /\ world.gaps = {}
  /\ world.egress => /\ net.pc = "reported" /\ net.relayed
                     /\ \A d \in Denied : net.seen[d] = "refused"

DoctorInv ==
  /\ doctor = [pc |-> doctor.pc, status |-> doctor.status, watcher |-> doctor.watcher,
               thrown |-> doctor.thrown, exit |-> doctor.exit]
  /\ doctor.pc = "start" => probe.pc = "idle"
  /\ doctor.pc \in {"start", "probe"} => net.pc = "idle"
  /\ doctor.pc \in {"probe", "network"} => world.mechanism # None
  /\ doctor.pc = "network" => probe.pc = "reported" /\ probe.result = "passed"
  /\ doctor.pc = "health" /\ doctor.status.level = "PROTECTED" => Proven
  /\ doctor.exit = 0 => Proven
  /\ doctor.thrown # "status"

IInv ==
  /\ world \in Worlds
  /\ CanaryInv /\ RunInv /\ ProbeInv /\ NetInv /\ DoctorInv
-----------------------------------------------------------------------------
LEMMA InitIInv == Init => IInv
<1> SUFFICES ASSUME Init PROVE IInv
  OBVIOUS
<1>1. CanaryInv
  BY NoneAssumption DEF Init, ProbeInit, CanaryInv, CanaryRecord, ChildRecord, Exits
<1>2. RunInv
  <2>1. run = [pc |-> "none", dir |-> FALSE, exit |-> None, thrown |-> None]
    BY DEF Init, ProbeInit
  <2>2. run \in RunRecord
    BY <2>1 DEF RunRecord
  <2>3. run.pc = "none" /\ run.dir = FALSE /\ run.exit # 0
    BY <2>1, NoneAssumption DEF Exits
  <2> QED BY <2>2, <2>3 DEF RunInv
<1>3. ProbeInv
  BY NoneAssumption DEF Init, ProbeInit, ProbeInv, ProbeRecord, Codes
<1>4. NetInv
  <2> DEFINE unknown == [d \in Denied |-> "unknown"]
  <2>1. unknown \in [Denied -> {"unknown", "refused", "accepted"}]
    OBVIOUS
  <2>2. net = [pc |-> "idle", open |-> {}, failed |-> {}, thrown |-> FALSE, seen |-> unknown,
               result |-> "pending", relayed |-> FALSE]
    BY DEF Init, NetInit
  <2> HIDE DEF unknown
  <2>3. net \in NetRecord
    BY <2>1, <2>2 DEF NetRecord
  <2> QED BY <2>2, <2>3 DEF NetInv, HeldOpen, HasSeen, Opening, Closing
<1>5. DoctorInv
  <2>1. /\ doctor = [pc |-> "start", status |-> None, watcher |-> None, thrown |-> None,
                     exit |-> None]
        /\ None # "status" /\ None # 0
    BY NoneAssumption, WorldAssumption DEF Init, Exits
  <2>2. probe.pc = "idle" /\ net.pc = "idle"
    BY DEF Init, ProbeInit, NetInit
  <2> QED BY <2>1, <2>2 DEF DoctorInv
<1> QED BY <1>1, <1>2, <1>3, <1>4, <1>5 DEF Init, IInv

\* A variable of the canary that does not change, and the boundary, which never
\* does.
LEMMA CanaryStands == CanaryInv /\ UNCHANGED <<world, canary, child>> => CanaryInv'
  BY DEF CanaryInv, Held

LEMMA RunStands == RunInv /\ UNCHANGED <<world, run>> => RunInv'
  BY DEF RunInv, Held, UsesDir

LEMMA NetStands == NetInv /\ UNCHANGED net => NetInv'
  BY DEF NetInv, HeldOpen, HasSeen, Refused, LeftByFailure

LEMMA ExitCodes == {1, 41, 42, 43, 44, Signal} \subseteq Exits /\ Signal # 0
  BY DEF Exits, Signal

\* The steps of the probe itself.
LEMMA ProbeOwnSteps ==
  ASSUME CanaryInv, RunInv, ProbeInv,
         MakeRoot \/ Prepare \/ ProbeSettles \/ OuterDeadline \/ Cleanup
  PROVE  /\ CanaryInv' /\ RunInv' /\ ProbeInv'
         /\ probe.pc \notin {"idle", "reported"} /\ UNCHANGED world
<1>1. CASE MakeRoot
  <2>1. ProbeInv' /\ probe.pc \notin {"idle", "reported"}
    BY <1>1 DEF MakeRoot, ProbeInv, ProbeRecord, Held
  <2> QED BY <1>1, <2>1, CanaryStands, RunStands DEF MakeRoot
<1>2. CASE Prepare
  <2>1. ProbeInv' /\ probe.pc \notin {"idle", "reported"}
    BY <1>2 DEF Prepare, ProbeInv, ProbeRecord, Held
  <2>2. RunInv'
    BY <1>2 DEF Prepare, ProbeInv, RunInv, RunRecord, Held, UsesDir
  <2> QED BY <1>2, <2>1, <2>2, CanaryStands DEF Prepare
<1>3. CASE ProbeSettles
  <2> DEFINE result == IF run.pc = "resolved" THEN Interpret(run.exit) ELSE "runner-failed"
  <2>1. result \in Codes \cup {"passed"} /\ (result = "passed" => Held)
    BY DEF Interpret, Codes, RunInv
  <2>2. probe' = [probe EXCEPT !.pc = "cleanup", !.result = result]
    BY <1>3 DEF ProbeSettles
  <2> HIDE DEF result
  <2>3. ProbeInv' /\ probe.pc \notin {"idle", "reported"}
    BY <1>3, <2>1, <2>2 DEF ProbeSettles, ProbeInv, ProbeRecord, Held
  <2> QED BY <1>3, <2>3, CanaryStands, RunStands DEF ProbeSettles
<1>4. CASE OuterDeadline
  <2>1. ProbeInv' /\ probe.pc \notin {"idle", "reported"}
    BY <1>4 DEF OuterDeadline, ProbeInv, ProbeRecord, Codes, Held
  <2>2. CanaryInv'
    BY <1>4 DEF OuterDeadline, CanaryInv, CanaryRecord, CanaryAlive, Held
  <2> QED BY <1>4, <2>1, <2>2, RunStands DEF OuterDeadline
<1>5. CASE Cleanup
  <2>1. ProbeInv' /\ probe.pc \notin {"idle", "reported"}
    BY <1>5 DEF Cleanup, ProbeInv, ProbeRecord, Held
  <2> QED BY <1>5, <2>1, CanaryStands, RunStands DEF Cleanup
<1> QED BY <1>1, <1>2, <1>3, <1>4, <1>5

\* The steps of the runner.
LEMMA RunnerSteps ==
  ASSUME CanaryInv, RunInv, ProbeInv,
         Launch \/ LaunchFails \/ RunnerSees \/ HelperDeadline \/ RemoveDir
  PROVE  CanaryInv' /\ RunInv' /\ ProbeInv' /\ UNCHANGED <<world, probe>>
<1>0. run.pc # "none" /\ UNCHANGED <<world, probe>>
  BY DEF Launch, LaunchFails, RunnerSees, HelperDeadline, RemoveDir
<1>1. ProbeInv'
  BY <1>0 DEF ProbeInv, Held
<1>2. CASE Launch
  <2>1. RunInv'
    BY <1>2 DEF Launch, RunInv, RunRecord, Held, UsesDir
  <2>2. CanaryInv'
    BY <1>2 DEF Launch, CanaryInv, CanaryRecord, ProbeInv, ProbeRecord, Held
  <2> QED BY <1>0, <1>1, <2>1, <2>2
<1>3. CASE LaunchFails
  <2>2. ASSUME run' = [run EXCEPT !.pc = "rejected", !.thrown = "refused"] PROVE RunInv'
    BY <1>0, <1>3, <2>2 DEF LaunchFails, RunInv, RunRecord, Held, UsesDir
  <2>3. ASSUME run' = [run EXCEPT !.pc = "removing", !.dir = TRUE, !.thrown = "spawn"]
        PROVE  RunInv'
    BY <1>0, <2>3 DEF RunInv, RunRecord, Held, UsesDir
  <2>4. ASSUME run' = [run EXCEPT !.pc = "rejected", !.dir = TRUE, !.thrown = "profile"]
        PROVE  RunInv'
    BY <1>0, <2>4 DEF RunInv, RunRecord, Held, UsesDir
  <2>1. RunInv'
    BY <1>3, <2>2, <2>3, <2>4 DEF LaunchFails
  <2> QED BY <1>0, <1>1, <1>3, <2>1, CanaryStands DEF LaunchFails
<1>4. CASE RunnerSees
  <2>1. RunInv'
    BY <1>4 DEF RunnerSees, RunInv, RunRecord, CanaryInv, CanaryRecord, Held, UsesDir
  <2> QED BY <1>0, <1>1, <1>4, <2>1, CanaryStands DEF RunnerSees
<1>5. CASE HelperDeadline
  <2>1. RunInv'
    BY <1>5 DEF HelperDeadline, RunInv, RunRecord, Held, UsesDir
  <2>2. CanaryInv'
    <3> DEFINE pc == IF ChildAlive THEN "gone" ELSE child.pc
    <3>1. child' = [child EXCEPT !.pc = pc] /\ pc \in {"none", "running", "gone"}
      BY <1>5 DEF HelperDeadline, CanaryInv, ChildRecord
    <3>2. canary' = [canary EXCEPT !.pc = "exited", !.exit = Signal]
      BY <1>5 DEF HelperDeadline
    <3> HIDE DEF pc
    <3>3. child' \in ChildRecord /\ child'.status = child.status
      BY <3>1 DEF CanaryInv, ChildRecord
    <3>4. canary' \in CanaryRecord /\ canary'.pc = "exited" /\ canary'.exit # 0
      BY <3>2, ExitCodes DEF CanaryInv, CanaryRecord
    <3> QED BY <1>0, <3>3, <3>4 DEF CanaryInv
  <2> QED BY <1>0, <1>1, <2>1, <2>2
<1>6. CASE RemoveDir
  <2>1. RunInv'
    BY <1>6 DEF RemoveDir, RunInv, RunRecord, Held, UsesDir
  <2> QED BY <1>0, <1>1, <1>6, <2>1, CanaryStands DEF RemoveDir
<1> QED BY <1>2, <1>3, <1>4, <1>5, <1>6

\* The steps of the canary and its child: code 0 needs every answer right.
LEMMA CanarySteps ==
  ASSUME world \in Worlds, CanaryInv, RunInv, ProbeInv,
         CanaryReads \/ SpawnChild \/ ChildReads \/ ChildDeadline \/ CanaryConcludes \/ CanaryDies
  PROVE  CanaryInv' /\ RunInv' /\ ProbeInv' /\ UNCHANGED <<world, probe>>
<1>0. UNCHANGED <<world, probe, run>>
  BY DEF CanaryReads, SpawnChild, ChildReads, ChildDeadline, CanaryConcludes, CanaryDies
<1>1. ProbeInv' /\ RunInv'
  BY <1>0, RunStands DEF ProbeInv, Held
<1>2. CASE CanaryReads
  <2>1. child' = child
    BY <1>2 DEF CanaryReads
  <2>2. ASSUME NEW code \in Exits \ {0}, CanaryExits(code) PROVE CanaryInv'
    <3>1. canary' \in CanaryRecord /\ canary'.pc = "exited" /\ canary'.exit # 0
      BY <2>2 DEF CanaryExits, CanaryInv, CanaryRecord
    <3> QED BY <1>0, <2>1, <3>1 DEF CanaryInv
  <2>3. ASSUME canary' = [canary EXCEPT !.pc = "allowed-read"], "allowed" \in world.readable
        PROVE  CanaryInv'
    BY <1>0, <2>1, <2>3 DEF CanaryInv, CanaryRecord, Held
  <2>4. ASSUME canary.pc = "allowed-read", canary' = [canary EXCEPT !.pc = "deny-checked"],
               "denied" \notin world.readable
        PROVE  CanaryInv'
    BY <1>0, <2>1, <2>4 DEF CanaryInv, CanaryRecord, Held
  <2>5. 41 \in Exits \ {0} /\ 42 \in Exits \ {0}
    BY ExitCodes
  <2>6. CanaryInv'
    BY <1>2, <2>2, <2>3, <2>4, <2>5 DEF CanaryReads
  <2> QED BY <1>0, <1>1, <2>6
<1>3. CASE SpawnChild
  BY <1>0, <1>1, <1>3, NoneAssumption
     DEF SpawnChild, CanaryInv, CanaryRecord, ChildRecord, Exits, Held
<1>4. CASE ChildReads
  BY <1>0, <1>1, <1>4 DEF ChildReads, CanaryInv, ChildRecord, Held
<1>5. CASE ChildDeadline
  BY <1>0, <1>1, <1>5, NoneAssumption DEF ChildDeadline, CanaryInv, ChildRecord, Exits, Held
<1>6. CASE CanaryConcludes
  <2> DEFINE code == IF child.status = 42 THEN 43 ELSE IF child.status # 0 THEN 44 ELSE 0
  <2>1. canary' = [canary EXCEPT !.pc = "exited", !.exit = code] /\ child' = child
    BY <1>6 DEF CanaryConcludes, CanaryExits
  <2>2. code = 0 => Held
    <3>1. world.readable \subseteq Reads
      BY WorldAssumption
    <3>2. ASSUME code = 0 PROVE /\ "allowed" \in world.readable
                                /\ "denied" \notin world.readable
                                /\ "denied-by-child" \notin world.readable
      BY <1>6, <3>2 DEF CanaryConcludes, CanaryInv
    <3> QED BY <3>1, <3>2 DEF Held, Reads
  <2>3. code \in Exits
    BY DEF Exits
  <2> HIDE DEF code
  <2> QED BY <1>0, <1>1, <2>1, <2>2, <2>3 DEF CanaryInv, CanaryRecord, Held
<1>7. CASE CanaryDies
  <2> DEFINE pc == IF ChildAlive /\ OwnsTree THEN "gone" ELSE child.pc
  <2>1. PICK code \in {1, Signal} : canary' = [canary EXCEPT !.pc = "exited", !.exit = code]
    BY <1>7 DEF CanaryDies, CanaryExits
  <2>2. child' = [child EXCEPT !.pc = pc] /\ pc \in {"none", "running", "gone"}
    BY <1>7 DEF CanaryDies, CanaryInv, ChildRecord
  <2> HIDE DEF pc
  <2>3. child' \in ChildRecord /\ child'.status = child.status
    BY <2>2 DEF CanaryInv, ChildRecord
  <2>4. canary' \in CanaryRecord /\ canary'.pc = "exited" /\ canary'.exit # 0
    <3>1. code \in Exits /\ code # 0
      BY <2>1, ExitCodes
    <3> QED BY <2>1, <3>1 DEF CanaryInv, CanaryRecord
  <2>5. CanaryInv'
    BY <1>0, <2>3, <2>4 DEF CanaryInv
  <2> QED BY <1>0, <1>1, <2>5
<1> QED BY <1>2, <1>3, <1>4, <1>5, <1>6, <1>7

\* The steps of the egress canary that open something, or end in front of it.
LEMMA NetOpens ==
  ASSUME NetInv,
         MakeScratch \/ StartBroker \/ MakeTunnelScratch \/ StartSink \/ StartTunnel
  PROVE  NetInv'
<1> USE DEF NetInv, Opening, Closing, Acquired, Returns
<1>0. Session \cup {"tunnel-scratch", "tunnel-session", "sink"} \subseteq Resources
  BY DEF Session, Resources
<1>1. CASE MakeScratch
  <2>0. net.pc = "begin"
    BY <1>1 DEF MakeScratch
  <2>1. ASSUME net' = [net EXCEPT !.pc = "start", !.open = @ \cup {"scratch"}] PROVE NetInv'
    <3>1. /\ net' \in NetRecord /\ net'.pc = "start" /\ net'.open = net.open \cup {"scratch"}
          /\ net'.failed = net.failed /\ net'.thrown = net.thrown
          /\ net'.seen = net.seen /\ net'.result = net.result /\ net'.relayed = net.relayed
      BY <1>0, <2>1 DEF NetRecord, Session, NetCodes
    <3>2. HeldOpen'
      BY <2>0, <2>1, <3>1 DEF HeldOpen, Session, LeftByFailure
    <3>3. HasSeen'
      BY <2>0, <2>1, <3>1 DEF HasSeen, Refused
    <3> QED BY <2>0, <3>1, <3>2, <3>3
  <2>2. ASSUME net' = [net EXCEPT !.pc = "threw"] PROVE NetInv'
    <3>1. /\ net' \in NetRecord /\ net'.pc = "threw" /\ net'.open = net.open
          /\ net'.failed = net.failed /\ net'.thrown = net.thrown
          /\ net'.seen = net.seen /\ net'.result = net.result /\ net'.relayed = net.relayed
      BY <1>0, <2>2 DEF NetRecord, Session, NetCodes
    <3>2. HeldOpen'
      BY <2>0, <2>2, <3>1 DEF HeldOpen, Session, LeftByFailure
    <3>3. HasSeen'
      BY <2>0, <2>2, <3>1 DEF HasSeen, Refused
    <3> QED BY <2>0, <3>1, <3>2, <3>3
  <2> QED BY <1>1, <2>1, <2>2 DEF MakeScratch
<1>2. CASE StartBroker
  <2>0. net.pc = "start"
    BY <1>2 DEF StartBroker
  <2>1. ASSUME net' = [net EXCEPT !.pc = "denials", !.open = @ \cup {"session"}] PROVE NetInv'
    <3>1. /\ net' \in NetRecord /\ net'.pc = "denials" /\ net'.open = net.open \cup {"session"}
          /\ net'.failed = net.failed /\ net'.thrown = net.thrown
          /\ net'.seen = net.seen /\ net'.result = net.result /\ net'.relayed = net.relayed
      BY <1>0, <2>1 DEF NetRecord, Session, NetCodes
    <3>2. HeldOpen'
      BY <2>0, <2>1, <3>1 DEF HeldOpen, Session, LeftByFailure
    <3>3. HasSeen'
      BY <2>0, <2>1, <3>1 DEF HasSeen, Refused
    <3> QED BY <2>0, <3>1, <3>2, <3>3
  <2>2. ASSUME net' = [net EXCEPT !.pc = "remove", !.result = "broker-unavailable"]
        PROVE  NetInv'
    <3>1. /\ net' \in NetRecord /\ net'.pc = "remove" /\ net'.open = net.open
          /\ net'.failed = net.failed /\ net'.thrown = net.thrown
          /\ net'.seen = net.seen /\ net'.result = "broker-unavailable"
          /\ net'.relayed = net.relayed
      BY <1>0, <2>2 DEF NetRecord, Session, NetCodes
    <3>2. HeldOpen'
      BY <2>0, <2>2, <3>1 DEF HeldOpen, Session, LeftByFailure
    <3>3. HasSeen'
      BY <2>0, <2>2, <3>1 DEF HasSeen, Refused
    <3> QED BY <2>0, <3>1, <3>2, <3>3
  <2> QED BY <1>2, <2>1, <2>2 DEF StartBroker
<1>3. CASE MakeTunnelScratch
  <2>0. net.pc = "tunnel"
    BY <1>3 DEF MakeTunnelScratch
  <2>1. ASSUME net' = [net EXCEPT !.pc = "sink", !.open = @ \cup {"tunnel-scratch"}]
        PROVE  NetInv'
    <3>1. /\ net' \in NetRecord /\ net'.pc = "sink"
          /\ net'.open = net.open \cup {"tunnel-scratch"}
          /\ net'.failed = net.failed /\ net'.thrown = net.thrown
          /\ net'.seen = net.seen /\ net'.result = net.result /\ net'.relayed = net.relayed
      BY <1>0, <2>1 DEF NetRecord, Session, NetCodes
    <3>2. HeldOpen'
      BY <2>0, <2>1, <3>1 DEF HeldOpen, Session, LeftByFailure
    <3>3. HasSeen'
      BY <2>0, <2>1, <3>1 DEF HasSeen, Refused
    <3> QED BY <2>0, <3>1, <3>2, <3>3
  <2>2. ASSUME net' = [net EXCEPT !.pc = "close-session", !.thrown = TRUE] PROVE NetInv'
    <3>1. /\ net' \in NetRecord /\ net'.pc = "close-session" /\ net'.open = net.open
          /\ net'.failed = net.failed /\ net'.thrown = TRUE
          /\ net'.seen = net.seen /\ net'.result = net.result /\ net'.relayed = net.relayed
      BY <1>0, <2>2 DEF NetRecord, Session, NetCodes
    <3>2. HeldOpen'
      BY <2>0, <2>2, <3>1 DEF HeldOpen, Session, LeftByFailure
    <3>3. HasSeen'
      BY <2>0, <2>2, <3>1 DEF HasSeen, Refused
    <3> QED BY <2>0, <3>1, <3>2, <3>3
  <2> QED BY <1>3, <2>1, <2>2 DEF MakeTunnelScratch
<1>4. CASE StartSink
  <2>0. net.pc = "sink"
    BY <1>4 DEF StartSink
  <2>1. ASSUME net' = [net EXCEPT !.pc = "second", !.open = @ \cup {"sink"}] PROVE NetInv'
    <3>1. /\ net' \in NetRecord /\ net'.pc = "second" /\ net'.open = net.open \cup {"sink"}
          /\ net'.failed = net.failed /\ net'.thrown = net.thrown
          /\ net'.seen = net.seen /\ net'.result = net.result /\ net'.relayed = net.relayed
      BY <1>0, <2>1 DEF NetRecord, Session, NetCodes
    <3>2. HeldOpen'
      BY <2>0, <2>1, <3>1 DEF HeldOpen, Session, LeftByFailure
    <3>3. HasSeen'
      BY <2>0, <2>1, <3>1 DEF HasSeen, Refused
    <3> QED BY <2>0, <3>1, <3>2, <3>3
  <2>2. ASSUME net' = [net EXCEPT !.pc = "remove-tunnel", !.result = "allowed-destination-refused"]
        PROVE  NetInv'
    <3>1. /\ net' \in NetRecord /\ net'.pc = "remove-tunnel" /\ net'.open = net.open
          /\ net'.failed = net.failed /\ net'.thrown = net.thrown
          /\ net'.seen = net.seen /\ net'.result = "allowed-destination-refused"
          /\ net'.relayed = net.relayed
      BY <1>0, <2>2 DEF NetRecord, Session, NetCodes
    <3>2. HeldOpen'
      BY <2>0, <2>2, <3>1 DEF HeldOpen, Session, LeftByFailure
    <3>3. HasSeen'
      BY <2>0, <2>2, <3>1 DEF HasSeen, Refused
    <3> QED BY <2>0, <3>1, <3>2, <3>3
  <2> QED BY <1>4, <2>1, <2>2 DEF StartSink
<1>5. CASE StartTunnel
  <2>0. net.pc = "second"
    BY <1>5 DEF StartTunnel
  <2>1. ASSUME net' = [net EXCEPT !.pc = "relay", !.open = @ \cup {"tunnel-session"}]
        PROVE  NetInv'
    <3>1. /\ net' \in NetRecord /\ net'.pc = "relay"
          /\ net'.open = net.open \cup {"tunnel-session"}
          /\ net'.failed = net.failed /\ net'.thrown = net.thrown
          /\ net'.seen = net.seen /\ net'.result = net.result /\ net'.relayed = net.relayed
      BY <1>0, <2>1 DEF NetRecord, Session, NetCodes
    <3>2. HeldOpen'
      BY <2>0, <2>1, <3>1 DEF HeldOpen, Session, LeftByFailure
    <3>3. HasSeen'
      BY <2>0, <2>1, <3>1 DEF HasSeen, Refused
    <3> QED BY <2>0, <3>1, <3>2, <3>3
  <2>2. ASSUME net' = [net EXCEPT !.pc = "close-sink", !.result = "broker-unavailable"]
        PROVE  NetInv'
    <3>1. /\ net' \in NetRecord /\ net'.pc = "close-sink" /\ net'.open = net.open
          /\ net'.failed = net.failed /\ net'.thrown = net.thrown
          /\ net'.seen = net.seen /\ net'.result = "broker-unavailable"
          /\ net'.relayed = net.relayed
      BY <1>0, <2>2 DEF NetRecord, Session, NetCodes
    <3>2. HeldOpen'
      BY <2>0, <2>2, <3>1 DEF HeldOpen, Session, LeftByFailure
    <3>3. HasSeen'
      BY <2>0, <2>2, <3>1 DEF HasSeen, Refused
    <3> QED BY <2>0, <3>1, <3>2, <3>3
  <2> QED BY <1>5, <2>1, <2>2 DEF StartTunnel
<1> QED BY <1>1, <1>2, <1>3, <1>4, <1>5

\* The steps that look at something.
LEMMA NetObserves ==
  ASSUME NetInv, (\E d \in Denied : Connect(d)) \/ JudgeDenials \/ Relay
  PROVE  NetInv'
<1> USE DEF NetInv, Opening, Closing, Returns
<1>1. ASSUME NEW d \in Denied, Connect(d) PROVE NetInv'
  <2>1. PICK answer \in {"refused", "accepted"} : net' = [net EXCEPT !.seen[d] = answer]
    BY <1>1 DEF Connect
  <2> DEFINE seen == [net.seen EXCEPT ![d] = answer]
  <2>2. net' = [net EXCEPT !.seen = seen]
    BY <2>1
  <2>3. seen \in [Denied -> {"unknown", "refused", "accepted"}]
    BY DEF NetRecord
  <2> HIDE DEF seen
  <2>4. net.pc = "denials"
    BY <1>1 DEF Connect
  <2>5. net' \in NetRecord
    BY <2>2, <2>3 DEF NetRecord
  <2>6. HeldOpen' /\ HasSeen'
    BY <2>2, <2>4 DEF HeldOpen, HasSeen, NetRecord
  <2> QED BY <2>2, <2>4, <2>5, <2>6 DEF NetRecord
<1>2. CASE JudgeDenials
  <2>1. net.pc = "denials" /\ \A d \in Denied : net.seen[d] \in {"refused", "accepted"}
    BY <1>2 DEF JudgeDenials, NetRecord
  <2>2. \/ net' = [net EXCEPT !.pc = "close-session", !.result = "arbitrary-destination-allowed"]
        \/ net' = [net EXCEPT !.pc = "close-session", !.result = "metadata-destination-allowed"]
        \/ net' = [net EXCEPT !.pc = "tunnel"] /\ Refused
    <3>1. CASE net.seen["arbitrary"] = "accepted"
      BY <1>2, <3>1 DEF JudgeDenials
    <3>2. CASE net.seen["arbitrary"] # "accepted" /\ net.seen["metadata"] = "accepted"
      BY <1>2, <3>2 DEF JudgeDenials
    <3>3. CASE net.seen["arbitrary"] # "accepted" /\ net.seen["metadata"] # "accepted"
      <4>1. net' = [net EXCEPT !.pc = "tunnel"]
        BY <1>2, <3>3 DEF JudgeDenials
      <4> QED BY <2>1, <3>3, <4>1 DEF Denied, Refused
    <3> QED BY <3>1, <3>2, <3>3
  <2>3. /\ net' \in NetRecord /\ net'.open = net.open /\ net'.failed = net.failed
        /\ net'.thrown = net.thrown /\ net'.seen = net.seen /\ net'.relayed = net.relayed
        /\ \/ net'.pc = "close-session" /\ net'.result \in NetCodes
           \/ net'.pc = "tunnel" /\ net'.result = net.result /\ Refused
    BY <2>2 DEF NetRecord, NetCodes
  <2>4. HeldOpen'
    BY <2>1, <2>3 DEF HeldOpen, Session
  <2>5. HasSeen'
    BY <2>1, <2>3 DEF HasSeen, NetCodes, Refused
  <2> QED BY <2>1, <2>3, <2>4, <2>5
<1>3. CASE Relay
  <2>1. \/ net' = [net EXCEPT !.pc = "close-tunnel", !.relayed = TRUE]
        \/ \E code \in {"allowed-destination-refused", "relay-failed"} :
             net' = [net EXCEPT !.pc = "close-tunnel", !.result = code]
    BY <1>3 DEF Relay
  <2>2. net.pc = "relay"
    BY <1>3 DEF Relay
  <2>3. /\ net' \in NetRecord /\ net'.pc = "close-tunnel" /\ net'.failed = net.failed
        /\ net'.thrown = net.thrown /\ net'.seen = net.seen
        /\ (net'.result = net.result /\ net'.relayed) \/ net'.result \in NetCodes
    BY <2>1 DEF NetRecord, NetCodes
  <2>4. HeldOpen'
    BY <2>3 DEF HeldOpen
  <2>5. HasSeen'
    BY <2>2, <2>3 DEF HasSeen, NetCodes, Refused
  <2> QED BY <2>2, <2>3, <2>4, <2>5
<1> QED BY <1>1, <1>2, <1>3

\* The releases: what one that rejects leaves is named by it.
LEMMA NetReleases ==
  ASSUME NetInv,
         CloseTunnel \/ CloseSink \/ RemoveTunnelScratch \/ CloseSession \/ RemoveScratch
  PROVE  NetInv'
<1> USE DEF NetInv, Opening, Closing, Released, Rejected
<1>0. Session \cup {"tunnel-scratch", "tunnel-session", "sink"} \subseteq Resources
  BY DEF Session, Resources
<1>1. CASE CloseTunnel
  <2>0. net.pc = "close-tunnel"
    BY <1>1 DEF CloseTunnel
  <2>1. ASSUME net' = [net EXCEPT !.pc = "close-sink", !.open = @ \ {"tunnel-session"}]
        PROVE  NetInv'
    <3>1. /\ net' \in NetRecord /\ net'.pc = "close-sink"
          /\ net'.open = net.open \ {"tunnel-session"}
          /\ net'.failed = net.failed /\ net'.thrown = net.thrown
          /\ net'.seen = net.seen /\ net'.result = net.result /\ net'.relayed = net.relayed
      BY <1>0, <2>1 DEF NetRecord, Session, NetCodes
    <3>2. HeldOpen'
      BY <2>0, <2>1, <3>1 DEF HeldOpen, Session, Resources, LeftByFailure, NetRecord
    <3>3. HasSeen'
      BY <2>0, <2>1, <3>1 DEF HasSeen, Refused
    <3> QED BY <2>0, <3>1, <3>2, <3>3
  <2>2. ASSUME net' = [net EXCEPT !.pc = "close-session", !.open = @ \ {"tunnel-session"}, !.failed = @ \cup {"tunnel-session"},
                                 !.thrown = TRUE]
        PROVE  NetInv'
    <3>1. /\ net' \in NetRecord /\ net'.pc = "close-session"
          /\ net'.open = net.open \ {"tunnel-session"}
          /\ net'.failed = net.failed \cup {"tunnel-session"} /\ net'.thrown = TRUE
          /\ net'.seen = net.seen /\ net'.result = net.result /\ net'.relayed = net.relayed
      BY <1>0, <2>2 DEF NetRecord, Session, NetCodes
    <3>2. HeldOpen'
      BY <2>0, <2>2, <3>1 DEF HeldOpen, Session, Resources, LeftByFailure, NetRecord
    <3>3. HasSeen'
      BY <2>0, <2>2, <3>1 DEF HasSeen, Refused
    <3> QED BY <2>0, <3>1, <3>2, <3>3
  <2> QED BY <1>1, <2>1, <2>2 DEF CloseTunnel, CloseBroker
<1>2. CASE CloseSink
  <2>0. net.pc = "close-sink"
    BY <1>2 DEF CloseSink
  <2>1. ASSUME net' = [net EXCEPT !.pc = "remove-tunnel", !.open = @ \ {"sink"}] PROVE NetInv'
    <3>1. /\ net' \in NetRecord /\ net'.pc = "remove-tunnel" /\ net'.open = net.open \ {"sink"}
          /\ net'.failed = net.failed /\ net'.thrown = net.thrown
          /\ net'.seen = net.seen /\ net'.result = net.result /\ net'.relayed = net.relayed
      BY <1>0, <2>1 DEF NetRecord, Session, NetCodes
    <3>2. HeldOpen'
      BY <2>0, <2>1, <3>1 DEF HeldOpen, Session, LeftByFailure
    <3>3. HasSeen'
      BY <2>0, <2>1, <3>1 DEF HasSeen, Refused
    <3> QED BY <2>0, <3>1, <3>2, <3>3
  <2> QED BY <1>2, <2>1 DEF CloseSink
<1>3. CASE RemoveTunnelScratch
  <2>0. net.pc = "remove-tunnel"
    BY <1>3 DEF RemoveTunnelScratch
  <2>1. ASSUME net' = [net EXCEPT !.pc = "close-session", !.open = @ \ {"tunnel-scratch"}]
        PROVE  NetInv'
    <3>1. /\ net' \in NetRecord /\ net'.pc = "close-session"
          /\ net'.open = net.open \ {"tunnel-scratch"}
          /\ net'.failed = net.failed /\ net'.thrown = net.thrown
          /\ net'.seen = net.seen /\ net'.result = net.result /\ net'.relayed = net.relayed
      BY <1>0, <2>1 DEF NetRecord, Session, NetCodes
    <3>2. HeldOpen'
      BY <2>0, <2>1, <3>1 DEF HeldOpen, Session, LeftByFailure
    <3>3. HasSeen'
      BY <2>0, <2>1, <3>1 DEF HasSeen, Refused
    <3> QED BY <2>0, <3>1, <3>2, <3>3
  <2>2. ASSUME net' = [net EXCEPT !.pc = "close-session", !.failed = @ \cup {"tunnel-scratch"},
                                 !.thrown = TRUE]
        PROVE  NetInv'
    <3>1. /\ net' \in NetRecord /\ net'.pc = "close-session" /\ net'.open = net.open
          /\ net'.failed = net.failed \cup {"tunnel-scratch"} /\ net'.thrown = TRUE
          /\ net'.seen = net.seen /\ net'.result = net.result /\ net'.relayed = net.relayed
      BY <1>0, <2>2 DEF NetRecord, Session, NetCodes
    <3>2. HeldOpen'
      BY <2>0, <2>2, <3>1 DEF HeldOpen, Session, LeftByFailure
    <3>3. HasSeen'
      BY <2>0, <2>2, <3>1 DEF HasSeen, Refused
    <3> QED BY <2>0, <3>1, <3>2, <3>3
  <2> QED BY <1>3, <2>1, <2>2 DEF RemoveTunnelScratch
<1>4. CASE CloseSession
  <2>0. net.pc = "close-session"
    BY <1>4 DEF CloseSession
  <2>1. ASSUME net' = [net EXCEPT !.pc = "remove", !.open = @ \ {"session"}] PROVE NetInv'
    <3>1. /\ net' \in NetRecord /\ net'.pc = "remove" /\ net'.open = net.open \ {"session"}
          /\ net'.failed = net.failed /\ net'.thrown = net.thrown
          /\ net'.seen = net.seen /\ net'.result = net.result /\ net'.relayed = net.relayed
      BY <1>0, <2>1 DEF NetRecord, Session, NetCodes
    <3>2. HeldOpen'
      BY <2>0, <2>1, <3>1 DEF HeldOpen, Session, LeftByFailure
    <3>3. HasSeen'
      BY <2>0, <2>1, <3>1 DEF HasSeen, Refused
    <3> QED BY <2>0, <3>1, <3>2, <3>3
  <2>2. ASSUME net' = [net EXCEPT !.pc = "threw", !.open = @ \ {"session"}, !.failed = @ \cup {"session"},
                                 !.thrown = TRUE]
        PROVE  NetInv'
    <3>1. /\ net' \in NetRecord /\ net'.pc = "threw" /\ net'.open = net.open \ {"session"}
          /\ net'.failed = net.failed \cup {"session"} /\ net'.thrown = TRUE
          /\ net'.seen = net.seen /\ net'.result = net.result /\ net'.relayed = net.relayed
      BY <1>0, <2>2 DEF NetRecord, Session, NetCodes
    <3>2. HeldOpen'
      BY <2>0, <2>2, <3>1 DEF HeldOpen, Session, LeftByFailure
    <3>3. HasSeen'
      BY <2>0, <2>2, <3>1 DEF HasSeen, Refused
    <3> QED BY <2>0, <3>1, <3>2, <3>3
  <2> QED BY <1>4, <2>1, <2>2 DEF CloseSession, CloseBroker
<1>5. CASE RemoveScratch
  <2> DEFINE result == IF net.result = "pending" THEN "passed" ELSE net.result
  <2>0. net.pc = "remove"
    BY <1>5 DEF RemoveScratch
  <2>r. /\ result \in NetCodes \cup {"passed"}
        /\ ~net.thrown /\ result = "passed" => net.relayed /\ Refused
    BY <2>0 DEF NetRecord, HasSeen
  <2> HIDE DEF result
  <2>1. ASSUME net.thrown, net' = [net EXCEPT !.pc = "threw", !.open = @ \ {"scratch"}]
        PROVE  NetInv'
    <3>1. /\ net' \in NetRecord /\ net'.pc = "threw" /\ net'.open = net.open \ {"scratch"}
          /\ net'.failed = net.failed /\ net'.thrown = net.thrown
          /\ net'.seen = net.seen /\ net'.result = net.result /\ net'.relayed = net.relayed
      BY <1>0, <2>1, <2>r DEF NetRecord, Session, NetCodes
    <3>2. HeldOpen'
      BY <2>0, <2>1, <3>1 DEF HeldOpen, Session, LeftByFailure
    <3>3. HasSeen'
      BY <2>0, <2>1, <2>r, <3>1 DEF HasSeen, Refused
    <3> QED BY <2>0, <3>1, <3>2, <3>3
  <2>2. ASSUME ~net.thrown, net' = [net EXCEPT !.pc = "reported", !.open = @ \ {"scratch"}, !.result = result]
        PROVE  NetInv'
    <3>1. /\ net' \in NetRecord /\ net'.pc = "reported" /\ net'.open = net.open \ {"scratch"}
          /\ net'.failed = net.failed /\ net'.thrown = net.thrown
          /\ net'.seen = net.seen /\ net'.result = result /\ net'.relayed = net.relayed
      BY <1>0, <2>2, <2>r DEF NetRecord, Session, NetCodes
    <3>2. HeldOpen'
      BY <2>0, <2>2, <3>1 DEF HeldOpen, Session, LeftByFailure
    <3>3. HasSeen'
      BY <2>0, <2>2, <2>r, <3>1 DEF HasSeen, Refused
    <3> QED BY <2>0, <3>1, <3>2, <3>3
  <2>3. ASSUME net' = [net EXCEPT !.pc = "threw", !.failed = @ \cup {"scratch"},
                                 !.thrown = TRUE]
        PROVE  NetInv'
    <3>1. /\ net' \in NetRecord /\ net'.pc = "threw" /\ net'.open = net.open
          /\ net'.failed = net.failed \cup {"scratch"} /\ net'.thrown = TRUE
          /\ net'.seen = net.seen /\ net'.result = net.result /\ net'.relayed = net.relayed
      BY <1>0, <2>3, <2>r DEF NetRecord, Session, NetCodes
    <3>2. HeldOpen'
      BY <2>0, <2>3, <3>1 DEF HeldOpen, Session, LeftByFailure
    <3>3. HasSeen'
      BY <2>0, <2>3, <2>r, <3>1 DEF HasSeen, Refused
    <3> QED BY <2>0, <3>1, <3>2, <3>3
  <2> QED BY <1>5, <2>1, <2>2, <2>3 DEF RemoveScratch, result
<1> QED BY <1>1, <1>2, <1>3, <1>4, <1>5

LEMMA NetStep ==
  ASSUME NetInv, NetSteps
  PROVE  NetInv' /\ net.pc \notin {"idle", "reported"}
<1>1. net.pc \notin {"idle", "reported"}
  BY DEF NetSteps, MakeScratch, StartBroker, Connect, JudgeDenials, MakeTunnelScratch,
         StartSink, StartTunnel, Relay, CloseTunnel, CloseSink, RemoveTunnelScratch,
         CloseSession, RemoveScratch
<1> QED BY <1>1, NetOpens, NetObserves, NetReleases DEF NetSteps

\* The status: without a reason it is complete, and everything is proven.
LEMMA AssessedIsProven ==
  ASSUME IInv, doctor.pc = "network", net.pc \in {"idle", "reported"},
         Assessed.level = "PROTECTED"
  PROVE  ~Throws(Assessed) /\ Proven
<1> DEFINE gaps == Unenforceable(BrokerVerified)
           backend == CASE world.mechanism = "seatbelt" -> {"seatbelt.broad-system-read"}
                        [] world.mechanism = "appcontainer" ->
                             {"appcontainer.compatibility-surface"}
                        [] OTHER -> {}
           brokered == world.egress /\ world.mechanism # "appcontainer" /\ BrokerVerified
           egress == CASE ~world.egress \/ brokered -> {}
                       [] world.egress /\ world.mechanism = "appcontainer" ->
                            {"network.appcontainer-deny-only"}
                       [] OTHER -> {net.result}
           capabilities ==
             [mechanism |-> world.mechanism, denyCanary |-> "passed",
              filesystem |-> IF "path" \in gaps \/ backend # {} THEN "partial" ELSE "enforced",
              processTree |-> "enforced", network |-> IF brokered THEN "brokered" ELSE "denied"]
           reasons == gaps \cup backend \cup egress
<1>1. Assessed = Create(IF reasons = {} THEN "PROTECTED" ELSE "DEGRADED", capabilities, reasons)
  BY DEF Assessed
<1>2. world.mechanism \in Mechanisms /\ world.readable \subseteq Reads
  BY WorldAssumption DEF IInv, DoctorInv
<1>3. backend = {} => world.mechanism = "bubblewrap"
  BY <1>2 DEF Mechanisms
<1>4. gaps = {} /\ world.mechanism = "bubblewrap" =>
        world.gaps = {} /\ (world.egress => BrokerVerified)
  BY DEF Unenforceable
<1> HIDE DEF gaps, backend, egress
<1>5. reasons = {} /\ Assessed.capabilities = capabilities /\ Assessed.reasons = reasons
  <2> HIDE DEF reasons, capabilities
  <2> QED BY <1>1 DEF Create
<1>6. gaps = {} /\ backend = {}
  BY <1>5
<1>7. IsComplete(Assessed)
  <2>1. world.mechanism # None
    BY <1>2, NoneAssumption
  <2>2. /\ capabilities.mechanism = world.mechanism /\ capabilities.denyCanary = "passed"
        /\ capabilities.filesystem = "enforced" /\ capabilities.processTree = "enforced"
        /\ capabilities.network \in {"denied", "brokered"}
    BY <1>6
  <2> HIDE DEF capabilities, reasons
  <2> QED BY <1>5, <2>1, <2>2 DEF IsComplete
<1>8. Proven
  <2>1. Held /\ ~probe.timedOut /\ probe.pc = "reported"
    BY DEF IInv, ProbeInv, DoctorInv
  <2>2. BrokerVerified => /\ net.pc = "reported" /\ net.relayed
                          /\ \A d \in Denied : net.seen[d] = "refused"
    BY DEF BrokerVerified, IInv, NetInv, HasSeen, Refused
  <2> QED BY <1>3, <1>4, <1>6, <2>1, <2>2 DEF Proven
<1> QED BY <1>7, <1>8 DEF Throws

\* The steps of doctor that leave the canaries alone.
LEMMA DoctorStands ==
  ASSUME IInv, UNCHANGED <<world, probeVars, net>>
  PROVE  CanaryInv' /\ RunInv' /\ ProbeInv' /\ NetInv' /\ (Proven => Proven')
<1>1. CanaryInv' /\ RunInv'
  BY CanaryStands, RunStands DEF IInv, probeVars
<1>2. ProbeInv'
  BY DEF IInv, ProbeInv, Held, probeVars
<1>3. NetInv'
  BY NetStands DEF IInv
<1>4. Proven => Proven'
  BY DEF Proven, Held, probeVars
<1> QED BY <1>1, <1>2, <1>3, <1>4

\* A step of a canary: once it has reported, nothing doctor relies on moves.
LEMMA DoctorWatches ==
  ASSUME IInv, UNCHANGED <<doctor, world>>,
         \/ UNCHANGED net /\ (UNCHANGED probe \/ probe.pc \notin {"idle", "reported"})
         \/ UNCHANGED probe /\ net.pc \notin {"idle", "reported"}
  PROVE  DoctorInv'
<1>1. DoctorInv
  BY DEF IInv
<1>2. CASE UNCHANGED net /\ (UNCHANGED probe \/ probe.pc \notin {"idle", "reported"})
  <2>1. Proven => Proven'
    BY <1>2 DEF Proven, Held
  <2> QED BY <1>1, <1>2, <2>1 DEF DoctorInv
<1>3. CASE UNCHANGED probe /\ net.pc \notin {"idle", "reported"}
  <2>1. Proven => Proven'
    BY <1>3, WorldAssumption DEF Proven, Held, IInv
  <2> QED BY <1>1, <1>3, <2>1 DEF DoctorInv
<1> QED BY <1>2, <1>3

\* An error that main catches: exit code 1.
LEMMA GivesUp ==
  ASSUME DoctorInv, doctor' = [doctor EXCEPT !.pc = "exited", !.exit = 1]
  PROVE  DoctorInv'
<1>1. /\ doctor' = [pc |-> doctor'.pc, status |-> doctor'.status, watcher |-> doctor'.watcher,
                    thrown |-> doctor'.thrown, exit |-> doctor'.exit]
      /\ doctor'.pc = "exited" /\ doctor'.exit = 1 /\ doctor'.thrown = doctor.thrown
  BY DEF DoctorInv
<1>2. doctor.thrown # "status"
  BY DEF DoctorInv
<1> QED BY <1>1, <1>2 DEF DoctorInv

LEMMA BeginStep ==
  ASSUME IInv, Begin
  PROVE  IInv'
<1>1. /\ doctor.pc = "start" /\ UNCHANGED <<world, run, canary, child, net>>
      /\ world \in Worlds /\ CanaryInv /\ RunInv /\ ProbeInv /\ NetInv /\ DoctorInv
  BY DEF Begin, IInv
<1>2. CanaryInv' /\ RunInv' /\ NetInv' /\ world' \in Worlds
  BY <1>1, CanaryStands, RunStands, NetStands
<1>3. Refusal = None => world.mechanism # None
  BY WorldAssumption DEF Refusal, Refusals
<1>4. CASE /\ doctor' = [doctor EXCEPT !.pc = "health", !.status = Unprotected(Refusal)]
           /\ UNCHANGED probe
  <2>1. ProbeInv' /\ (Proven => Proven')
    BY <1>1, <1>4 DEF ProbeInv, Proven, Held
  <2>2. Unprotected(Refusal).level = "UNPROTECTED"
    BY DEF Unprotected, Create
  <2>3. DoctorInv'
    BY <1>1, <1>4, <2>1, <2>2 DEF DoctorInv
  <2> QED BY <1>2, <2>1, <2>3 DEF IInv
<1>5. CASE /\ Refusal = None
           /\ doctor' = [doctor EXCEPT !.pc = "probe"]
           /\ probe' = [probe EXCEPT !.pc = "begin"]
  <2>1. probe.pc = "idle" /\ probe'.pc = "begin" /\ ProbeInv'
    BY <1>1, <1>5 DEF ProbeInv, ProbeRecord, Held, DoctorInv
  <2>2. ~Proven
    BY <2>1 DEF Proven
  <2>3. DoctorInv'
    BY <1>1, <1>3, <1>5, <2>1, <2>2 DEF DoctorInv
  <2> QED BY <1>2, <2>1, <2>3 DEF IInv
<1>6. CASE doctor' = [doctor EXCEPT !.pc = "exited", !.exit = 1] /\ UNCHANGED probe
  <2>1. ProbeInv'
    BY <1>1, <1>6 DEF ProbeInv, Held
  <2>2. DoctorInv'
    BY <1>1, <1>6, GivesUp
  <2> QED BY <1>2, <2>1, <2>2 DEF IInv
<1> QED BY <1>4, <1>5, <1>6 DEF Begin

LEMMA ProbedStep ==
  ASSUME IInv, Probed
  PROVE  IInv'
<1>1. /\ doctor.pc = "probe" /\ probe.pc = "reported"
      /\ UNCHANGED <<world, probe, run, canary, child>>
      /\ world \in Worlds /\ CanaryInv /\ RunInv /\ ProbeInv /\ NetInv /\ DoctorInv
  BY DEF Probed, IInv, probeVars
<1>2. CanaryInv' /\ RunInv' /\ ProbeInv' /\ world' \in Worlds
  BY <1>1, CanaryStands, RunStands DEF ProbeInv, Held
<1> DEFINE failed == Create("UNPROTECTED", [Inactive EXCEPT !.mechanism = world.mechanism,
                                                            !.denyCanary = "failed"],
                            {probe.result})
<1>3. CASE doctor' = [doctor EXCEPT !.pc = "health", !.status = failed] /\ UNCHANGED net
  <2>1. NetInv' /\ (Proven => Proven')
    BY <1>1, <1>3, NetStands DEF Proven, Held
  <2>2. failed.level = "UNPROTECTED"
    BY DEF Create
  <2> HIDE DEF failed
  <2>3. DoctorInv'
    BY <1>1, <1>3, <2>1, <2>2 DEF DoctorInv
  <2> QED BY <1>2, <2>1, <2>3 DEF IInv
<1>4. CASE /\ probe.result = "passed"
           /\ doctor' = [doctor EXCEPT !.pc = "network"]
           /\ net' = [net EXCEPT !.pc = IF world.egress THEN "begin" ELSE @]
  <2>1. net.pc = "idle" /\ net' = [net EXCEPT !.pc = IF world.egress THEN "begin" ELSE "idle"]
    BY <1>1, <1>4 DEF DoctorInv, NetInv, NetRecord
  <2>2. /\ net' \in NetRecord /\ net'.pc \in {"begin", "idle"} /\ net'.open = net.open
        /\ net'.result = net.result /\ net'.thrown = net.thrown /\ net'.failed = net.failed
    BY <1>1, <2>1 DEF NetInv, NetRecord
  <2>3. NetInv'
    BY <1>1, <2>1, <2>2 DEF NetInv, HeldOpen, HasSeen, Opening, Closing
  <2>4. Proven => Proven'
    BY <1>1, <1>4, <2>1 DEF Proven, Held, NetInv, NetRecord
  <2>5. DoctorInv'
    BY <1>1, <1>4, <2>4 DEF DoctorInv
  <2> QED BY <1>2, <2>3, <2>5 DEF IInv
<1> QED BY <1>3, <1>4 DEF Probed

LEMMA AssessStep ==
  ASSUME IInv, Assess
  PROVE  IInv'
<1>1. /\ doctor.pc = "network" /\ net.pc \in {"idle", "reported"}
      /\ UNCHANGED <<world, probeVars, net>> /\ world \in Worlds /\ DoctorInv
  BY DEF Assess, IInv
<1>2. CanaryInv' /\ RunInv' /\ ProbeInv' /\ NetInv' /\ (Proven => Proven')
  BY <1>1, DoctorStands
<1>3. ~Throws(Assessed) /\ (Assessed.level = "PROTECTED" => Proven)
  BY <1>1, AssessedIsProven DEF Throws
<1>4. doctor' = [doctor EXCEPT !.pc = "health", !.status = Assessed]
  BY <1>3 DEF Assess
<1>5. DoctorInv'
  BY <1>1, <1>2, <1>3, <1>4 DEF DoctorInv
<1> QED BY <1>1, <1>2, <1>5 DEF IInv

LEMMA FailStep ==
  ASSUME IInv, Fail
  PROVE  IInv'
<1>1. /\ UNCHANGED <<world, probeVars, net>> /\ world \in Worlds /\ DoctorInv
      /\ doctor' = [doctor EXCEPT !.pc = "exited", !.exit = 1]
  BY DEF Fail, IInv
<1>2. CanaryInv' /\ RunInv' /\ ProbeInv' /\ NetInv'
  BY <1>1, DoctorStands
<1>3. DoctorInv'
  BY <1>1, GivesUp
<1> QED BY <1>1, <1>2, <1>3 DEF IInv

LEMMA ConcludeStep ==
  ASSUME IInv, Conclude
  PROVE  IInv'
<1>1. /\ UNCHANGED <<world, probeVars, net>> /\ world \in Worlds /\ DoctorInv
      /\ doctor.pc = "health"
  BY DEF Conclude, IInv
<1>2. CanaryInv' /\ RunInv' /\ ProbeInv' /\ NetInv' /\ (Proven => Proven')
  BY <1>1, DoctorStands
<1>3. PICK healthy \in BOOLEAN, record \in DaemonRecords :
        doctor' = [doctor EXCEPT
          !.pc = "exited",
          !.watcher = DaemonRuntimeState(record),
          !.exit = CASE doctor.status.level = "PROTECTED" /\ healthy -> 0
                     [] doctor.status.level = "DEGRADED" -> 2
                     [] OTHER -> 3]
  BY DEF Conclude
<1> DEFINE code == CASE doctor.status.level = "PROTECTED" /\ healthy -> 0
                     [] doctor.status.level = "DEGRADED" -> 2
                     [] OTHER -> 3
           state == DaemonRuntimeState(record)
<1>4. code = 0 => doctor.status.level = "PROTECTED"
  OBVIOUS
<1>5. doctor' = [doctor EXCEPT !.pc = "exited", !.watcher = state, !.exit = code]
  BY <1>3
<1> HIDE DEF code, state
<1>6. DoctorInv'
  BY <1>1, <1>2, <1>4, <1>5 DEF DoctorInv
<1> QED BY <1>1, <1>2, <1>6 DEF IInv

\* The inductive invariant is kept by every step.
LEMMA NextIInv == IInv /\ [Next]_vars => IInv'
<1> SUFFICES ASSUME IInv, [Next]_vars PROVE IInv'
  OBVIOUS
<1>0. world \in Worlds /\ CanaryInv /\ RunInv /\ ProbeInv /\ NetInv
  BY DEF IInv
<1>1. CASE UNCHANGED vars
  <2>1. UNCHANGED <<world, probeVars, net, doctor, probe>>
    BY <1>1 DEF vars, probeVars
  <2> QED BY <1>0, <2>1, DoctorStands, DoctorWatches DEF IInv
<1>2. CASE DoctorSteps
  BY <1>2, BeginStep, ProbedStep, AssessStep, FailStep, ConcludeStep DEF DoctorSteps
<1>3. CASE ProbeSteps /\ UNCHANGED <<broker, net, doctor>>
  <2>1. /\ CanaryInv' /\ RunInv' /\ ProbeInv' /\ UNCHANGED world
        /\ UNCHANGED probe \/ probe.pc \notin {"idle", "reported"}
    BY <1>0, <1>3, ProbeOwnSteps, RunnerSteps, CanarySteps DEF ProbeSteps
  <2>2. NetInv'
    BY <1>0, <1>3, NetStands
  <2>3. DoctorInv'
    BY <1>3, <2>1, DoctorWatches
  <2> QED BY <1>0, <2>1, <2>2, <2>3 DEF IInv
<1>4. CASE NetSteps /\ UNCHANGED <<world, probeVars, doctor>>
  <2>1. NetInv' /\ net.pc \notin {"idle", "reported"}
    BY <1>0, <1>4, NetStep
  <2>2. CanaryInv' /\ RunInv' /\ ProbeInv' /\ UNCHANGED <<probe, world>>
    BY <1>0, <1>4, CanaryStands, RunStands DEF ProbeInv, Held, probeVars
  <2>3. DoctorInv'
    BY <1>4, <2>1, <2>2, DoctorWatches
  <2> QED BY <1>0, <2>1, <2>2, <2>3 DEF IInv
<1> QED BY <1>1, <1>2, <1>3, <1>4 DEF Next

LEMMA IInvHolds == Spec => []IInv
  BY InitIInv, NextIInv, PTL DEF Spec
-----------------------------------------------------------------------------
\* On every machine: exit code 0 is only given for a boundary both canaries saw
\* to hold (AssessProtection.execute, NodeSandboxProbe, NodeNetworkProbe).
THEOREM ExitZeroIsProven == Spec => []ProtectedIsProven
<1>1. IInv => ProtectedIsProven
  BY DEF IInv, DoctorInv, Proven, Held, ProtectedIsProven
<1> QED BY <1>1, IInvHolds, PTL

\* The guard of ProtectionStatus.create never fires.
THEOREM CreateNeverThrows == Spec => []StatusIsConsistent
<1>1. IInv => StatusIsConsistent
  BY DEF IInv, DoctorInv, StatusIsConsistent
<1> QED BY <1>1, IInvHolds, PTL

\* At whichever step a canary failed: one that answers has left nothing behind,
\* and one that rejects leaves what a failing release left, both brokers closed.
THEOREM CanariesCleanUp == Spec => []NothingLeft
<1>1. IInv => NothingLeft
  BY DEF IInv, ProbeInv, RunInv, NetInv, HeldOpen, NothingLeft
<1> QED BY <1>1, IInvHolds, PTL
=============================================================================
