------------------------- MODULE PersistenceMonitor -------------------------
(***************************************************************************)
(* The resident watcher: DaemonCommand turns file events into requests,    *)
(* SingleFlightScheduler turns requests into comparison passes that never  *)
(* overlap, and MonitorPersistence.execute compares the monitored files    *)
(* with the trusted baseline and advances trust.                           *)
(*                                                                         *)
(* A pass hashes every file and loads its stores in parallel, reads the    *)
(* changed files again for the rules, then saves incidents and baseline    *)
(* and notifies.  Files change between any two of these steps.  A SHA-256  *)
(* hash stands for the content it was taken from.                          *)
(***************************************************************************)
EXTENDS Integers, Sequences, FiniteSets

CONSTANTS Loud,       \* files any change of which is a finding
          Quiet,      \* files judged by their content: ~/.gitconfig, ~/.npmrc
          Content,
          Harmful,    \* the contents the rules for Quiet files match
          Null,       \* no file, no entry, no decision
          Initially,  \* what the files may hold at first
          Scenarios,  \* the situations the watcher starts in, with their bounds
          MaxPerWindow, Window, Cooldown, RecentBound, Time

Path == Loud \cup Quiet
Value == Content \cup {Null}

\* Finding.decisionKey: the content hash, or the rule and file of a deletion.
KeyOf(p, hash) == IF hash = Null THEN <<"deleted", p>> ELSE <<"hash", hash>>
Keys == {KeyOf(p, v) : p \in Path, v \in Value}
Decision == [verdict : {"allow", "deny"}, subject : Path]
Incident == [subject : Path, key : Keys, state : {"pending", "quarantined"}]

ASSUME Disjoint == /\ Loud \cap Quiet = {} /\ "stores" \notin Path
                   /\ Null \notin Content /\ Harmful \subseteq Content
                   /\ Initially \subseteq Value

\* installing: the model starts inside `activate`; pauses: what a pass may read
\* as the pause state; faults: a store or the audit log may fail.
Scenario == [installing : BOOLEAN, pauses : SUBSET BOOLEAN, faults : BOOLEAN,
             edits : Nat, decisions : Nat, crashes : Nat, times : SUBSET Time]
ASSUME ScenariosAssumption == \A s \in Scenarios : s \in Scenario

VARIABLES disk,       \* the monitored files
          baseline,   \* baseline.json
          decisions,  \* decisions.json
          pending,    \* persistence-pending.json
          activation, \* [stage, snapshot] of InstallationCommand.finishActivation
          watching,   \* the watch session is open
          started,    \* the first comparison was requested
          notice,     \* a watch event waits to be delivered
          timer,      \* the trailing SETTLE_MS timer is armed
          dirty,      \* SingleFlightScheduler.dirty
          pc,         \* where the pass in flight stands
          todo,       \* reads, or findings, the current stage has left
          pass,       \* the local variables of execute()
          vouched,    \* history: <<file, content>> trusted by somebody
          torn,       \* history: files that changed between hash and re-read
          edits, decided, crashes,
          scenario,   \* the one of Scenarios that plays
          now, windowStartedAt, sentInWindow, recentlySent, granted, answer, stepped

budget == <<now, windowStartedAt, sentInWindow, recentlySent, granted, answer, stepped>>
stores == <<baseline, decisions, pending>>
daemon == <<watching, started, notice, timer, dirty, pc, todo, pass>>
history == <<vouched, torn, edits, decided, crashes, scenario>>
vars == <<disk, stores, activation, daemon, history, budget>>

Budget == INSTANCE NotificationBudget WITH Key <- Keys, MaxGrants <- 0

Nothing == [p \in Path |-> Null]
NoPass == [baseline |-> Nothing, decisions |-> [k \in Keys |-> Null], paused |-> FALSE,
           hash |-> Nothing, content |-> Nothing]

Init == /\ scenario \in Scenarios
        /\ disk \in [Path -> Initially]
        /\ decisions = [k \in Keys |-> Null]
        /\ pending = {}
        /\ IF scenario.installing
           THEN /\ baseline = Nothing
                /\ activation = [stage |-> "collect", snapshot |-> Nothing]
           ELSE /\ baseline = disk
                /\ activation = [stage |-> "done", snapshot |-> disk]
        /\ vouched = {<<p, baseline[p]>> : p \in Path}
        /\ watching = FALSE /\ started = FALSE /\ notice = FALSE /\ timer = FALSE
        /\ dirty = FALSE /\ pc = "idle" /\ todo = {} /\ pass = NoPass
        /\ torn = {} /\ edits = 0 /\ decided = 0 /\ crashes = 0
        /\ now \in scenario.times
        /\ Budget!Init

-----------------------------------------------------------------------------
(* SingleFlightScheduler *)

BeginPass == pc' = "collect" /\ todo' = Path \cup {"stores"} /\ pass' = NoPass

\* Mutant: a request that finds a pass in flight is dropped.
RequestDropped == IF pc = "idle" THEN BeginPass /\ dirty' = FALSE
                                 ELSE UNCHANGED <<dirty, pc, todo, pass>>

\* request()
Request == IF pc = "idle" THEN BeginPass /\ dirty' = FALSE
                          ELSE dirty' = TRUE /\ UNCHANGED <<pc, todo, pass>>

\* drain(): the task has settled.
EndPass == /\ dirty' = FALSE
           /\ IF dirty THEN BeginPass ELSE pc' = "idle" /\ todo' = {} /\ pass' = NoPass

-----------------------------------------------------------------------------
(* DaemonCommand *)

\* "Watch first, then compare."
StartWatching == /\ ~watching
                 /\ watching' = TRUE
                 /\ UNCHANGED <<disk, stores, activation, started, notice, timer, dirty, pc,
                                todo, pass, history, budget>>

FirstComparison == /\ watching /\ ~started
                   /\ started' = TRUE
                   /\ Request
                   /\ UNCHANGED <<disk, stores, activation, watching, notice, timer, history,
                                  budget>>

\* The watch callback: a leading pass, and a trailing one once events settle.
Deliver == /\ notice
           /\ notice' = FALSE
           /\ timer' = TRUE
           /\ IF timer THEN UNCHANGED <<dirty, pc, todo, pass>> ELSE Request
           /\ UNCHANGED <<disk, stores, activation, watching, started, history, budget>>

TimerFires == /\ timer
              /\ timer' = FALSE
              /\ Request
              /\ UNCHANGED <<disk, stores, activation, watching, started, notice, history, budget>>

-----------------------------------------------------------------------------
(* MonitorPersistence.execute *)

\* buildChanges compares hashes; a rule looks at what the second read saw.
Changed(p) == pass.hash[p] # pass.baseline[p]
Found(p) == Changed(p) /\ (p \in Loud \/ pass.content[p] \in Harmful)
Key(p) == KeyOf(p, pass.hash[p])

\* Mutant: a decision is found by its key alone.
MatchingByKey(p) == pass.decisions[Key(p)] # Null

\* matchingDecision and isDurablyAllowed: never for a deletion.
Matching(p) == pass.decisions[Key(p)] # Null /\ pass.decisions[Key(p)].subject = p
Allowed(p) == Matching(p) /\ pass.decisions[Key(p)].verdict = "allow" /\ pass.hash[p] # Null
Denied(p) == Matching(p) /\ pass.decisions[Key(p)].verdict = "deny"

\* The Promise.all of the loads and of the collector's reads, in any order.
Collect(x) ==
    /\ pc = "collect" /\ x \in todo
    /\ IF x = "stores"
       THEN \E b \in scenario.pauses :
                pass' = [pass EXCEPT !.baseline = baseline, !.decisions = decisions, !.paused = b]
       ELSE pass' = [pass EXCEPT !.hash[x] = disk[x]]
    /\ todo' = todo \ {x}
    /\ UNCHANGED <<disk, stores, activation, watching, started, notice, timer, dirty, pc,
                   history, budget>>

CompareHashes ==
    /\ pc = "collect" /\ todo = {}
    /\ pc' = "read"
    /\ todo' = {p \in Path : Changed(p) /\ pass.hash[p] # Null}
    /\ UNCHANGED <<disk, stores, activation, watching, started, notice, timer, dirty, pass,
                   history, budget>>

ReadAgain(p) ==
    /\ pc = "read" /\ p \in todo
    /\ pass' = [pass EXCEPT !.content[p] = disk[p]]
    /\ todo' = todo \ {p}
    /\ UNCHANGED <<disk, stores, activation, watching, started, notice, timer, dirty, pc,
                   history, budget>>

Incidents ==
    {[subject |-> p, key |-> Key(p), state |-> IF Denied(p) THEN "quarantined" ELSE "pending"] :
        p \in {q \in Path : Found(q) /\ ~Allowed(q)}}

SavePending ==
    /\ pc = "read" /\ todo = {}
    /\ pending' = Incidents
    /\ pc' = "saveBaseline"
    /\ UNCHANGED <<disk, baseline, decisions, activation, watching, started, notice, timer,
                   dirty, todo, pass, history, budget>>

\* applyTrustedChange, for the changes no rule objects to or a decision allows.
NextBaseline ==
    [p \in Path |-> IF Changed(p) /\ (Found(p) => Allowed(p)) THEN pass.hash[p]
                                                              ELSE pass.baseline[p]]

SaveBaseline ==
    /\ pc = "saveBaseline"
    /\ baseline' = IF NextBaseline = pass.baseline THEN baseline ELSE NextBaseline
    /\ pc' = "notify"
    /\ todo' = {p \in Path : Found(p)}
    /\ UNCHANGED <<disk, decisions, pending, activation, watching, started, notice, timer,
                   dirty, pass, history, budget>>

\* suppressNotification: a pause, then an approval, then the budget.
Notify(p) ==
    /\ pc = "notify" /\ p \in todo
    /\ IF pass.paused \/ Allowed(p) THEN UNCHANGED budget ELSE Budget!Claim(Key(p))
    /\ todo' = todo \ {p}
    /\ UNCHANGED <<disk, stores, activation, watching, started, notice, timer, dirty, pc,
                   pass, history>>

PassEnds == /\ pc = "notify" /\ todo = {}
            /\ EndPass
            /\ UNCHANGED <<disk, stores, activation, watching, started, notice, timer,
                           history, budget>>

\* A read, a save or an audit append throws: execute() ends there.
PassFails == /\ scenario.faults
             /\ pc # "idle"
             /\ EndPass
             /\ UNCHANGED <<disk, stores, activation, watching, started, notice, timer,
                            history, budget>>

-----------------------------------------------------------------------------
(* Everybody else *)

\* InstallationCommand.finishActivation: collect, then save.  The service was
\* started before, so the watcher may already be comparing.
SnapshotFiles == /\ activation.stage = "collect"
                 /\ activation' = [stage |-> "save", snapshot |-> disk]
                 /\ UNCHANGED <<disk, stores, daemon, history, budget>>

SaveSnapshot == /\ activation.stage = "save"
                /\ activation' = [activation EXCEPT !.stage = "done"]
                /\ baseline' = activation.snapshot
                /\ vouched' = vouched \cup {<<p, activation.snapshot[p]>> : p \in Path}
                /\ UNCHANGED <<disk, decisions, pending, daemon, torn, edits, decided, crashes,
                               scenario, budget>>

\* Somebody writes or removes a monitored file.
Edit(p, v) ==
    /\ edits < scenario.edits
    /\ disk[p] # v
    /\ disk' = [disk EXCEPT ![p] = v]
    /\ notice' = watching
    /\ torn' = IF \/ pc = "collect" /\ p \notin todo
                  \/ pc = "read" /\ p \in todo
               THEN torn \cup {p} ELSE torn
    /\ edits' = edits + 1
    /\ UNCHANGED <<stores, activation, watching, started, timer, dirty, pc, todo, pass,
                   vouched, decided, crashes, scenario, budget>>

\* The user decides on an incident.  DecisionStore.record: the last decision
\* on a key wins, whatever its subject.  decisions.json lies in the watched
\* state directory.
Decide(i, verdict) ==
    /\ decided < scenario.decisions
    /\ decisions' = [decisions EXCEPT ![i.key] = [verdict |-> verdict, subject |-> i.subject]]
    /\ vouched' = IF verdict = "allow" /\ i.key[1] = "hash"
                  THEN vouched \cup {<<i.subject, i.key[2]>>} ELSE vouched
    /\ notice' = watching
    /\ decided' = decided + 1
    /\ UNCHANGED <<disk, baseline, pending, activation, watching, started, timer, dirty, pc,
                   todo, pass, torn, edits, crashes, scenario, budget>>

\* The daemon dies, or stops for an upgrade; its memory is gone.  The service
\* manager starts it again (StartWatching).
Crash ==
    /\ watching
    /\ crashes < scenario.crashes
    /\ crashes' = crashes + 1
    /\ watching' = FALSE /\ started' = FALSE /\ notice' = FALSE /\ timer' = FALSE
    /\ dirty' = FALSE /\ pc' = "idle" /\ todo' = {} /\ pass' = NoPass
    /\ windowStartedAt' = Null /\ sentInWindow' = 0 /\ recentlySent' = {}
    /\ granted' = <<>> /\ answer' = <<>>
    /\ UNCHANGED <<disk, stores, activation, vouched, torn, edits, decided, scenario,
                   now, stepped>>

\* execute() reads the clock once, before anything else: `now` is that reading,
\* and it moves on only between passes.
ClockTicks == /\ pc = "idle" \/ (pc = "collect" /\ todo = Path \cup {"stores"})
              /\ \E t \in scenario.times : Budget!Advance(t)
              /\ UNCHANGED <<disk, stores, activation, daemon, history>>

DaemonStep == \/ StartWatching \/ FirstComparison \/ Deliver \/ TimerFires
              \/ \E x \in Path \cup {"stores"} : Collect(x)
              \/ CompareHashes
              \/ \E p \in Path : ReadAgain(p) \/ Notify(p)
              \/ SavePending \/ SaveBaseline \/ PassEnds
ActivationStep == SnapshotFiles \/ SaveSnapshot

Next == \/ DaemonStep
        \/ PassFails
        \/ ActivationStep
        \/ \E p \in Path, v \in Value : Edit(p, v)
        \/ \E i \in pending, d \in {"allow", "deny"} : Decide(i, d)
        \/ Crash
        \/ ClockTicks

Spec == Init /\ [][Next]_vars
\* The event loop runs what is due: queued events, timers and settled awaits.
LiveSpec == Spec /\ WF_vars(StartWatching) /\ WF_vars(FirstComparison) /\ WF_vars(Deliver)
                 /\ WF_vars(TimerFires) /\ WF_vars(DaemonStep)

-----------------------------------------------------------------------------
(* Properties *)

\* Types; a comparison, its timer and its follow-up only exist while watching.
TypeOK == /\ disk \in [Path -> Value] /\ baseline \in [Path -> Value]
          /\ decisions \in [Keys -> Decision \cup {Null}]
          /\ pending \subseteq Incident
          /\ pc \in {"idle", "collect", "read", "saveBaseline", "notify"}
          /\ todo \subseteq Path \cup {"stores"}
          /\ dirty => pc # "idle"
          /\ ~watching => pc = "idle" /\ ~timer /\ ~notice /\ ~started

Harmless(p, v) == p \in Quiet /\ v \notin Harmful

\* Nothing becomes trusted merely by being observed: what the baseline says of
\* a file was recorded by an activation, allowed by a decision on that very
\* content of that very file, or is content the rules have no objection to.
\* Excused are files that changed between a pass's hash and its second read.
TrustIsEarned ==
    \A p \in Path \ torn : <<p, baseline[p]>> \in vouched \/ Harmless(p, baseline[p])

\* A file is accounted for: it is as trusted, or an incident tells its content.
Accounted(p) ==
    \/ disk[p] = baseline[p]
    \/ \E i \in pending : i.subject = p /\ i.key = KeyOf(p, disk[p])

\* "the final filesystem state is always observed": however edits, events,
\* decisions and restarts interleave, once they cease every file is accounted
\* for, and no incident is left about a file that is as trusted.  A pass that
\* failed waits for the next event, and `activate` replaces the baseline
\* unseen: only a watcher that meets neither can promise it.
FinalStateObserved ==
    (~scenario.installing /\ ~scenario.faults) =>
    <>[](\A p \in Path : /\ Accounted(p)
                         /\ disk[p] = baseline[p] => \A i \in pending : i.subject # p)

=============================================================================
