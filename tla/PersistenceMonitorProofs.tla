---------------------- MODULE PersistenceMonitorProofs ----------------------
(***************************************************************************)
(* For any files, contents, edits, decisions and crashes: the baseline of  *)
(* the resident watcher trusts nothing that was merely observed.           *)
(***************************************************************************)
EXTENDS PersistenceMonitor, TLAPS

Decisions == [Keys -> Decision \cup {Null}]
Pass == [baseline : [Path -> Value], decisions : Decisions, paused : BOOLEAN,
         hash : [Path -> Value], content : [Path -> Value]]

\* The trust in b is earned, but for files that changed under a pass.
Earned(b) == \A p \in Path \ torn : <<p, b[p]>> \in vouched \/ Harmless(p, b[p])

\* What d allows for a file, somebody allowed for that very file.
Approved(d) ==
  \A p \in Path, v \in Content :
    (/\ d[<<"hash", v>>] # Null
     /\ d[<<"hash", v>>].verdict = "allow"
     /\ d[<<"hash", v>>].subject = p) => <<p, v>> \in vouched

\* The second read of a changed file saw what was hashed.
SeenAsHashed(p) == Changed(p) => pass.content[p] = pass.hash[p]

Collected ==
  pc = "collect" =>
    /\ pass.content = Nothing
    /\ "stores" \notin todo => Earned(pass.baseline)
    /\ \A p \in Path \ torn : p \in todo \/ pass.hash[p] = disk[p]

Compared ==
  pc = "read" =>
    /\ Earned(pass.baseline)
    /\ \A p \in Path \ torn : IF p \in todo THEN pass.hash[p] = disk[p] ELSE SeenAsHashed(p)

Judged ==
  pc = "saveBaseline" =>
    /\ Earned(pass.baseline)
    /\ \A p \in Path \ torn : SeenAsHashed(p)

\* The pass in flight.
Ready == /\ pass \in Pass
         /\ Approved(pass.decisions)
         /\ Collected /\ Compared /\ Judged

IInv ==
  /\ TypeOK
  /\ activation \in [stage : {"collect", "save", "done"}, snapshot : [Path -> Value]]
  /\ scenario \in Scenarios
  /\ Earned(baseline) /\ Approved(decisions)
  /\ Ready
-----------------------------------------------------------------------------
\* Finding.decisionKey has a key for every content, and no content is shared
\* between two keys.
LEMMA KeyTypes ==
  /\ \A p \in Path, v \in Value : KeyOf(p, v) \in Keys
  /\ \A p \in Path, v \in Content : KeyOf(p, v) = <<"hash", v>> /\ <<"hash", v>> \in Keys
  /\ \A p \in Path, v \in Content : <<"hash", v>>[1] = "hash" /\ <<"hash", v>>[2] = v
<1>1. \A p \in Path, v \in Value : KeyOf(p, v) \in Keys
  BY DEF Keys
<1>2. \A p \in Path, v \in Content : KeyOf(p, v) = <<"hash", v>> /\ v \in Value
  BY Disjoint DEF KeyOf, Value
<1>3. \A p \in Path, v \in Content : <<"hash", v>>[1] = "hash" /\ <<"hash", v>>[2] = v
  OBVIOUS
<1> QED
  BY <1>1, <1>2, <1>3

LEMMA NothingType == Nothing \in [Path -> Value] /\ \A p \in Path : Nothing[p] = Null
  BY DEF Nothing, Value

LEMMA NoPassType == NoPass \in Pass /\ NoPass.content = Nothing
  BY NothingType DEF NoPass, Pass, Decisions

\* A pass that has yet to load and hash claims nothing.
LEMMA FreshPass ==
  ASSUME pass' = NoPass, pc' \in {"idle", "collect"},
         pc' = "collect" => todo' = Path \cup {"stores"}
  PROVE  Ready'
<1>1. pass' \in Pass /\ pass'.content = Nothing
  BY NoPassType
<1>2. Approved(pass.decisions)'
  BY KeyTypes DEF Approved, NoPass
<1>3. Collected'
  BY <1>1 DEF Collected
<1>4. Compared' /\ Judged'
  BY DEF Compared, Judged
<1> QED
  BY <1>1, <1>2, <1>3, <1>4 DEF Ready

LEMMA RequestReady ==
  ASSUME Ready, Request, TypeOK, UNCHANGED <<disk, vouched, torn>>
  PROVE  /\ Ready'
         /\ pc' \in {"collect", "read", "saveBaseline", "notify"}
         /\ todo' \subseteq Path \cup {"stores"}
<1>1. CASE pc = "idle"
  <2>1. pass' = NoPass /\ pc' = "collect" /\ todo' = Path \cup {"stores"}
    BY <1>1 DEF Request, BeginPass
  <2> QED
    BY <2>1, FreshPass
<1>2. CASE pc # "idle"
  <2>1. UNCHANGED <<pc, todo, pass>>
    BY <1>2 DEF Request
  <2> QED
    BY <2>1, <1>2 DEF Ready, Collected, Compared, Judged, Earned, Approved, SeenAsHashed,
                       Changed, TypeOK
<1> QED
  BY <1>1, <1>2

LEMMA EndPassReady ==
  ASSUME EndPass
  PROVE  /\ Ready'
         /\ pc' \in {"idle", "collect"} /\ todo' \subseteq Path \cup {"stores"}
         /\ ~dirty'
         /\ pc' = "collect" => dirty
<1>1. pass' = NoPass /\ pc' \in {"idle", "collect"} /\ todo' \subseteq Path \cup {"stores"}
  BY DEF EndPass, BeginPass
<1>2. pc' = "collect" => todo' = Path \cup {"stores"} /\ dirty
  BY DEF EndPass, BeginPass
<1> QED
  BY <1>1, <1>2, FreshPass DEF EndPass

-----------------------------------------------------------------------------
LEMMA InitIInv == Init => IInv
<1> SUFFICES ASSUME Init PROVE IInv
  OBVIOUS
<1>1. disk \in [Path -> Value]
  BY Disjoint DEF Init
<1>2. /\ baseline \in [Path -> Value]
      /\ activation \in [stage : {"collect", "save", "done"}, snapshot : [Path -> Value]]
  BY <1>1, NothingType DEF Init
<1>3. Earned(baseline)
  BY DEF Init, Earned
<1>4. decisions \in Decisions /\ Approved(decisions)
  BY KeyTypes DEF Init, Approved, Decisions
<1>5. Approved(pass.decisions) /\ pass \in Pass
  BY KeyTypes, NoPassType DEF Init, Approved, NoPass
<1>6. Ready
  BY <1>5 DEF Ready, Init, Collected, Compared, Judged
<1> QED
  BY <1>1, <1>2, <1>3, <1>4, <1>6 DEF Init, IInv, TypeOK, Decisions

\* The watcher's own bookkeeping: what asks for a pass, and what ends one.
LEMMA RequestStep ==
  ASSUME IInv, FirstComparison \/ Deliver \/ TimerFires \/ StartWatching
  PROVE  IInv'
<1> USE DEF stores, history
<1>1. UNCHANGED <<disk, baseline, decisions, pending, activation, scenario, vouched, torn>>
  BY DEF FirstComparison, Deliver, TimerFires, StartWatching
<1>2. Request \/ UNCHANGED <<pc, todo, pass, dirty>>
  BY DEF FirstComparison, Deliver, TimerFires, StartWatching
<1>3. ASSUME Request PROVE /\ Ready' /\ todo' \subseteq Path \cup {"stores"}
                           /\ pc' \in {"collect", "read", "saveBaseline", "notify"}
  BY <1>1, <1>3, RequestReady DEF IInv
<1>4. ASSUME UNCHANGED <<pc, todo, pass, dirty>> PROVE Ready'
  BY <1>1, <1>4 DEF IInv, Ready, Collected, Compared, Judged, Earned, Approved, SeenAsHashed,
                     Changed
<1>5. Ready'
  BY <1>2, <1>3, <1>4
<1>6. watching'
  BY DEF FirstComparison, Deliver, TimerFires, StartWatching, IInv, TypeOK
<1>7. TypeOK'
  BY <1>1, <1>2, <1>3, <1>6 DEF IInv, TypeOK
<1> QED
  BY <1>1, <1>5, <1>7 DEF IInv, Earned, Approved

LEMMA EndStep ==
  ASSUME IInv, PassEnds \/ PassFails
  PROVE  IInv'
<1> USE DEF stores, history
<1>1. UNCHANGED <<disk, baseline, decisions, pending, activation, scenario, vouched, torn,
                  watching, started, notice, timer>>
  BY DEF PassEnds, PassFails
<1>2. EndPass /\ pc # "idle"
  BY DEF PassEnds, PassFails
<1>3. TypeOK'
  BY <1>1, <1>2, EndPassReady DEF IInv, TypeOK
<1> QED
  BY <1>1, <1>2, <1>3, EndPassReady DEF IInv, Earned, Approved

\* MonitorPersistence.execute: the loads and the hashes, in any order.
LEMMA CollectStep ==
  ASSUME IInv, NEW x \in Path \cup {"stores"}, Collect(x)
  PROVE  IInv'
<1> USE DEF stores, history
<1>1. /\ UNCHANGED <<disk, baseline, decisions, pending, activation, scenario, vouched, torn>>
      /\ UNCHANGED <<watching, started, notice, timer, dirty, pc>>
      /\ todo' = todo \ {x} /\ pc = "collect"
  BY DEF Collect
<1>2. TypeOK'
  BY <1>1 DEF IInv, TypeOK
<1>3. CASE x = "stores"
  <2>1. PICK b \in scenario.pauses :
          pass' = [pass EXCEPT !.baseline = baseline, !.decisions = decisions, !.paused = b]
    BY <1>3 DEF Collect
  <2>2. b \in BOOLEAN
    BY ScenariosAssumption DEF IInv, Scenario
  <2>3. pass' \in Pass
    BY <2>1, <2>2 DEF IInv, TypeOK, Ready, Pass, Decisions
  <2>4. /\ pass'.baseline = baseline /\ pass'.decisions = decisions
        /\ pass'.hash = pass.hash /\ pass'.content = pass.content
    BY <2>1 DEF IInv, Ready, Pass
  <2>5. Approved(pass.decisions)'
    BY <1>1, <2>4 DEF IInv, Approved
  <2>6. Collected'
    BY <1>1, <1>3, <2>4, Disjoint DEF IInv, Ready, Collected, Earned
  <2> QED
    BY <1>1, <1>2, <2>3, <2>5, <2>6 DEF IInv, Ready, Compared, Judged, Earned, Approved
<1>4. CASE x \in Path
  <2>1. pass' = [pass EXCEPT !.hash = [pass.hash EXCEPT ![x] = disk[x]]]
    BY <1>4, Disjoint DEF Collect
  <2>2. /\ pass' \in Pass /\ pass'.hash = [pass.hash EXCEPT ![x] = disk[x]]
        /\ pass'.baseline = pass.baseline /\ pass'.decisions = pass.decisions
        /\ pass'.content = pass.content
    BY <1>4, <2>1 DEF IInv, TypeOK, Ready, Pass
  <2>3. Approved(pass.decisions)'
    BY <1>1, <2>2 DEF IInv, Ready, Approved
  <2>4. \A p \in Path : pass'.hash[p] = IF p = x THEN disk[p] ELSE pass.hash[p]
    BY <2>2 DEF IInv, Ready, Pass
  <2>5. Collected'
    BY <1>1, <1>4, <2>2, <2>4, Disjoint DEF IInv, Ready, Collected, Earned
  <2> QED
    BY <1>1, <1>2, <2>2, <2>3, <2>5 DEF IInv, Ready, Compared, Judged, Earned, Approved
<1> QED
  BY <1>3, <1>4

LEMMA CompareStep ==
  ASSUME IInv, CompareHashes
  PROVE  IInv'
<1> USE DEF stores, history
<1>1. /\ UNCHANGED <<disk, baseline, decisions, pending, activation, scenario, vouched, torn>>
      /\ UNCHANGED <<watching, started, notice, timer, dirty, pass>>
      /\ pc = "collect" /\ todo = {} /\ pc' = "read"
      /\ todo' = {p \in Path : Changed(p) /\ pass.hash[p] # Null}
  BY DEF CompareHashes
<1>2. TypeOK'
  BY <1>1 DEF IInv, TypeOK
<1>3. pass.content = Nothing /\ Earned(pass.baseline)
  BY <1>1 DEF IInv, Ready, Collected
<1>4. \A p \in Path \ torn : pass.hash[p] = disk[p]
  BY <1>1 DEF IInv, Ready, Collected
<1>5. \A p \in Path : p \notin todo' => SeenAsHashed(p)
  BY <1>1, <1>3, NothingType DEF SeenAsHashed
<1>6. Compared'
  BY <1>1, <1>3, <1>4, <1>5 DEF Compared, Earned, SeenAsHashed, Changed
<1> QED
  BY <1>1, <1>2, <1>6 DEF IInv, Ready, Collected, Judged, Earned, Approved

\* A file that nobody touched since it was hashed reads as it was hashed.
LEMMA ReadStep ==
  ASSUME IInv, NEW q \in Path, ReadAgain(q)
  PROVE  IInv'
<1> USE DEF stores, history
<1>1. /\ UNCHANGED <<disk, baseline, decisions, pending, activation, scenario, vouched, torn>>
      /\ UNCHANGED <<watching, started, notice, timer, dirty, pc>>
      /\ pc = "read" /\ q \in todo /\ todo' = todo \ {q}
      /\ pass' = [pass EXCEPT !.content = [pass.content EXCEPT ![q] = disk[q]]]
  BY DEF ReadAgain
<1>2. TypeOK'
  BY <1>1 DEF IInv, TypeOK
<1>3. /\ pass' \in Pass /\ pass'.content = [pass.content EXCEPT ![q] = disk[q]]
      /\ pass'.baseline = pass.baseline /\ pass'.decisions = pass.decisions
      /\ pass'.hash = pass.hash
  BY <1>1 DEF IInv, TypeOK, Ready, Pass
<1>4. \A p \in Path : pass'.content[p] = IF p = q THEN disk[p] ELSE pass.content[p]
  BY <1>3 DEF IInv, Ready, Pass
<1>5. Approved(pass.decisions)'
  BY <1>1, <1>3 DEF IInv, Ready, Approved
<1>6. Earned(pass.baseline)'
  BY <1>1, <1>3 DEF IInv, Ready, Compared, Earned
<1>7. ASSUME NEW p \in Path \ torn
      PROVE  IF p \in todo' THEN pass'.hash[p] = disk[p] ELSE SeenAsHashed(p)'
  BY <1>1, <1>3, <1>4 DEF IInv, Ready, Compared, SeenAsHashed, Changed
<1>8. Compared'
  BY <1>1, <1>6, <1>7 DEF Compared
<1> QED
  BY <1>1, <1>2, <1>3, <1>5, <1>8 DEF IInv, Ready, Collected, Judged, Earned, Approved

LEMMA SavePendingStep ==
  ASSUME IInv, SavePending
  PROVE  IInv'
<1> USE DEF history
<1>1. /\ UNCHANGED <<disk, baseline, decisions, activation, scenario, vouched, torn>>
      /\ UNCHANGED <<watching, started, notice, timer, dirty, pass, todo>>
      /\ pc = "read" /\ todo = {} /\ pc' = "saveBaseline" /\ pending' = Incidents
  BY DEF SavePending
<1>2. \A p \in Path : Key(p) \in Keys
  BY KeyTypes DEF Key, IInv, Ready, Pass
<1>3. Incidents \subseteq Incident
  BY <1>2 DEF Incidents, Incident
<1>4. TypeOK'
  BY <1>1, <1>3 DEF IInv, TypeOK
<1>5. Judged'
  BY <1>1 DEF IInv, Ready, Compared, Judged, Earned, SeenAsHashed, Changed
<1> QED
  BY <1>1, <1>4, <1>5 DEF IInv, Ready, Collected, Compared, Earned, Approved

\* applyTrustedChange: a change becomes trusted because its rules saw nothing
\* in the very content that was hashed, or because that content is allowed.
LEMMA NextBaselineEarned ==
  ASSUME IInv, pc = "saveBaseline"
  PROVE  NextBaseline \in [Path -> Value] /\ Earned(NextBaseline)
<1>1. pass.hash \in [Path -> Value] /\ pass.baseline \in [Path -> Value]
  BY DEF IInv, Ready, Pass
<1>2. NextBaseline \in [Path -> Value]
  BY <1>1 DEF NextBaseline
<1>3. ASSUME NEW p \in Path \ torn, Changed(p), ~Found(p)
      PROVE  Harmless(p, pass.hash[p])
  BY <1>3 DEF IInv, Ready, Judged, SeenAsHashed, Found, Harmless, Path
<1>4. ASSUME NEW p \in Path \ torn, Allowed(p)
      PROVE  <<p, pass.hash[p]>> \in vouched
  <2>1. pass.hash[p] \in Content /\ Key(p) = <<"hash", pass.hash[p]>>
    BY <1>1, <1>4, KeyTypes DEF Allowed, Value, Key
  <2> QED
    BY <1>4, <2>1 DEF IInv, Ready, Approved, Allowed, Matching
<1>5. ASSUME NEW p \in Path \ torn
      PROVE  <<p, NextBaseline[p]>> \in vouched \/ Harmless(p, NextBaseline[p])
  <2>1. CASE Changed(p) /\ (Found(p) => Allowed(p))
    BY <2>1, <1>3, <1>4 DEF NextBaseline
  <2>2. CASE ~(Changed(p) /\ (Found(p) => Allowed(p)))
    BY <2>2 DEF NextBaseline, IInv, Ready, Judged, Earned
  <2> QED
    BY <2>1, <2>2
<1> QED
  BY <1>2, <1>5 DEF Earned

LEMMA SaveBaselineStep ==
  ASSUME IInv, SaveBaseline
  PROVE  IInv'
<1> USE DEF history
<1>1. /\ UNCHANGED <<disk, decisions, pending, activation, scenario, vouched, torn>>
      /\ UNCHANGED <<watching, started, notice, timer, dirty, pass>>
      /\ pc = "saveBaseline" /\ pc' = "notify" /\ todo' \subseteq Path
      /\ baseline' = baseline \/ baseline' = NextBaseline
  BY DEF SaveBaseline
<1>2. baseline' \in [Path -> Value]
  BY <1>1, NextBaselineEarned DEF IInv, TypeOK
<1>3. Earned(baseline)'
  BY <1>1, NextBaselineEarned DEF IInv, Earned
<1>4. TypeOK'
  BY <1>1, <1>2 DEF IInv, TypeOK
<1>5. Ready'
  BY <1>1 DEF IInv, Ready, Collected, Compared, Judged, Approved
<1> QED
  BY <1>1, <1>3, <1>4, <1>5 DEF IInv, Approved

\* Notifying, and the clock, touch neither files nor trust.
LEMMA BudgetStep ==
  ASSUME IInv, ClockTicks \/ \E p \in Path : Notify(p)
  PROVE  IInv'
<1> USE DEF stores, history, daemon
<1>1. /\ UNCHANGED <<disk, baseline, decisions, pending, activation, scenario, vouched, torn>>
      /\ UNCHANGED <<watching, started, notice, timer, dirty, pass, pc>>
      /\ todo' \subseteq todo
      /\ todo' = todo \/ pc = "notify"
  BY DEF ClockTicks, Notify
<1>2. TypeOK'
  BY <1>1 DEF IInv, TypeOK
<1>3. Ready'
  BY <1>1 DEF IInv, Ready, Collected, Compared, Judged, Earned, Approved, SeenAsHashed, Changed
<1> QED
  BY <1>1, <1>2, <1>3 DEF IInv, Earned, Approved

\* A pass in flight stays as it was while trust and tears only grow.
LEMMA PassKept ==
  ASSUME IInv, UNCHANGED <<disk, pass, pc, todo>>,
         vouched \subseteq vouched', torn' = torn
  PROVE  Ready'
<1>1. Approved(pass.decisions)'
  BY DEF IInv, Ready, Approved
<1>2. Earned(pass.baseline) => Earned(pass.baseline)'
  BY DEF Earned
<1>3. Collected' /\ Compared' /\ Judged'
  BY <1>2 DEF IInv, Ready, Collected, Compared, Judged, SeenAsHashed, Changed
<1> QED
  BY <1>1, <1>3 DEF IInv, Ready

\* InstallationCommand.finishActivation records what it collected, and that is
\* what the user activated on.
LEMMA ActivationIsVouched ==
  ASSUME IInv, ActivationStep
  PROVE  IInv'
<1> USE DEF stores, history, daemon
<1>1. CASE SnapshotFiles
  <2>1. /\ UNCHANGED <<disk, baseline, decisions, pending, scenario, vouched, torn>>
        /\ UNCHANGED <<watching, started, notice, timer, dirty, pass, pc, todo>>
        /\ activation' = [stage |-> "save", snapshot |-> disk]
    BY <1>1 DEF SnapshotFiles
  <2>2. TypeOK'
    BY <2>1 DEF IInv, TypeOK
  <2>3. activation' \in [stage : {"collect", "save", "done"}, snapshot : [Path -> Value]]
    BY <2>1 DEF IInv, TypeOK
  <2> QED
    BY <2>1, <2>2, <2>3, PassKept DEF IInv, Earned, Approved
<1>2. CASE SaveSnapshot
  <2>1. /\ UNCHANGED <<disk, decisions, pending, scenario, torn>>
        /\ UNCHANGED <<watching, started, notice, timer, dirty, pass, pc, todo>>
        /\ activation' = [activation EXCEPT !.stage = "done"]
        /\ baseline' = activation.snapshot
        /\ vouched' = vouched \cup {<<p, activation.snapshot[p]>> : p \in Path}
    BY <1>2 DEF SaveSnapshot
  <2>2. activation' \in [stage : {"collect", "save", "done"}, snapshot : [Path -> Value]]
    BY <2>1 DEF IInv
  <2>3. TypeOK'
    BY <2>1 DEF IInv, TypeOK
  <2>4. Earned(baseline)'
    BY <2>1 DEF Earned
  <2> QED
    BY <2>1, <2>2, <2>3, <2>4, PassKept DEF IInv, Approved
<1> QED
  BY <1>1, <1>2 DEF ActivationStep

\* An edit between the hash and the second read of a file is one that `torn`
\* records; any other leaves what the pass knows of the file true.
LEMMA EditStep ==
  ASSUME IInv, NEW q \in Path, NEW v \in Value, Edit(q, v)
  PROVE  IInv'
<1> USE DEF stores
<1>1. /\ UNCHANGED <<baseline, decisions, pending, activation, scenario, vouched>>
      /\ UNCHANGED <<watching, started, timer, dirty, pass, pc, todo>>
      /\ disk' = [disk EXCEPT ![q] = v]
      /\ notice' = watching
      /\ torn \subseteq torn'
      /\ pc = "collect" /\ q \notin todo => q \in torn'
      /\ pc = "read" /\ q \in todo => q \in torn'
  BY DEF Edit
<1>2. \A p \in Path : p # q => disk'[p] = disk[p]
  BY <1>1 DEF IInv, TypeOK
<1>3. TypeOK'
  BY <1>1 DEF IInv, TypeOK
<1>4. /\ Earned(baseline) => Earned(baseline)'
      /\ Earned(pass.baseline) => Earned(pass.baseline)'
      /\ Approved(decisions)' /\ Approved(pass.decisions)'
  BY <1>1 DEF Earned, Approved, IInv, Ready
<1>5. Collected'
  BY <1>1, <1>2, <1>4 DEF IInv, Ready, Collected
<1>6. Compared'
  BY <1>1, <1>2, <1>4 DEF IInv, Ready, Compared, SeenAsHashed, Changed
<1>7. Judged'
  BY <1>1, <1>4 DEF IInv, Ready, Judged, SeenAsHashed, Changed
<1> QED
  BY <1>1, <1>3, <1>4, <1>5, <1>6, <1>7 DEF IInv, Ready

\* DecisionStore.record: an answer is about the content and file of an incident.
LEMMA DecideStep ==
  ASSUME IInv, NEW i \in pending, NEW verdict \in {"allow", "deny"}, Decide(i, verdict)
  PROVE  IInv'
<1>1. /\ UNCHANGED <<disk, baseline, pending, activation, scenario, torn>>
      /\ UNCHANGED <<watching, started, timer, dirty, pass, pc, todo>>
      /\ decisions' = [decisions EXCEPT ![i.key] = [verdict |-> verdict, subject |-> i.subject]]
      /\ notice' = watching
      /\ vouched \subseteq vouched'
      /\ verdict = "allow" /\ i.key[1] = "hash" => <<i.subject, i.key[2]>> \in vouched'
  BY DEF Decide
<1>2. i.subject \in Path /\ i.key \in Keys
  BY DEF IInv, TypeOK, Incident
<1>3. decisions' \in Decisions
  BY <1>1, <1>2 DEF IInv, TypeOK, Decision, Decisions
<1>4. TypeOK'
  BY <1>1, <1>3 DEF IInv, TypeOK, Decisions
<1>5. ASSUME NEW p \in Path, NEW v \in Content, decisions'[<<"hash", v>>] # Null,
             decisions'[<<"hash", v>>].verdict = "allow",
             decisions'[<<"hash", v>>].subject = p
      PROVE  <<p, v>> \in vouched'
  <2>1. <<"hash", v>> \in Keys /\ <<"hash", v>>[1] = "hash" /\ <<"hash", v>>[2] = v
    BY KeyTypes
  <2>2. CASE i.key = <<"hash", v>>
    BY <1>1, <1>2, <1>5, <2>1, <2>2 DEF IInv, TypeOK
  <2>3. CASE i.key # <<"hash", v>>
    <3>1. decisions'[<<"hash", v>>] = decisions[<<"hash", v>>]
      BY <1>1, <2>1, <2>3 DEF IInv, TypeOK
    <3> QED
      BY <1>1, <1>5, <3>1 DEF IInv, Approved
  <2> QED
    BY <2>2, <2>3
<1>6. Approved(decisions)'
  BY <1>5 DEF Approved
<1> QED
  BY <1>1, <1>4, <1>6, PassKept DEF IInv, Earned

\* A watcher that dies forgets its pass, never its trust.
LEMMA CrashStep ==
  ASSUME IInv, Crash
  PROVE  IInv'
<1> USE DEF stores
<1>1. /\ UNCHANGED <<disk, baseline, decisions, pending, activation, scenario, vouched, torn>>
      /\ ~watching' /\ ~started' /\ ~notice' /\ ~timer' /\ ~dirty'
      /\ pc' = "idle" /\ todo' = {} /\ pass' = NoPass
  BY DEF Crash
<1>2. TypeOK'
  BY <1>1 DEF IInv, TypeOK
<1> QED
  BY <1>1, <1>2, FreshPass DEF IInv, Earned, Approved

LEMMA NextIInv == IInv /\ [Next]_vars => IInv'
<1> SUFFICES ASSUME IInv, [Next]_vars PROVE IInv'
  OBVIOUS
<1>1. CASE DaemonStep
  BY <1>1, RequestStep, CollectStep, CompareStep, ReadStep, BudgetStep, SavePendingStep,
     SaveBaselineStep, EndStep DEF DaemonStep
<1>2. CASE PassFails
  BY <1>2, EndStep
<1>3. CASE ActivationStep
  BY <1>3, ActivationIsVouched
<1>4. ASSUME NEW p \in Path, NEW v \in Value, Edit(p, v) PROVE IInv'
  BY <1>4, EditStep
<1>5. ASSUME NEW i \in pending, NEW d \in {"allow", "deny"}, Decide(i, d) PROVE IInv'
  BY <1>5, DecideStep
<1>6. CASE Crash
  BY <1>6, CrashStep
<1>7. CASE ClockTicks
  BY <1>7, BudgetStep
<1>8. CASE UNCHANGED vars
  <2>1. /\ UNCHANGED <<disk, baseline, decisions, pending, activation, scenario, vouched, torn>>
        /\ UNCHANGED <<watching, started, notice, timer, dirty, pass, pc, todo>>
    BY <1>8 DEF vars, stores, daemon, history
  <2>2. TypeOK'
    BY <2>1 DEF IInv, TypeOK
  <2> QED
    BY <2>1, <2>2, PassKept DEF IInv, Earned, Approved
<1> QED
  BY <1>1, <1>2, <1>3, <1>4, <1>5, <1>6, <1>7, <1>8 DEF Next

\* MonitorPersistence.execute, finishActivation and DecisionStore together:
\* whatever the passes, edits, decisions, failures and crashes interleave to,
\* baseline.json only trusts what an activation recorded, what the user
\* allowed for that file, or what no rule objects to.
THEOREM NoTrustByObservation == Spec => []TrustIsEarned
<1>1. IInv => TrustIsEarned
  BY DEF IInv, Earned, TrustIsEarned
<1> QED
  BY <1>1, InitIInv, NextIInv, PTL DEF Spec

\* SingleFlightScheduler and DaemonCommand: files, stores and the pass in
\* flight stay well formed, no follow-up is owed while no pass runs, and no
\* timer, event or pass outlives the watch session.
THEOREM WatcherIsWellFormed == Spec => []TypeOK
<1>1. IInv => TypeOK
  BY DEF IInv
<1> QED
  BY <1>1, InitIInv, NextIInv, PTL DEF Spec
=============================================================================
