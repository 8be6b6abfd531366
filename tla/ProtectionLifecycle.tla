------------------------- MODULE ProtectionLifecycle -------------------------
(***************************************************************************)
(* The install-once lifecycle: InstallationCommand drives the planner of   *)
(* InstallationPlanner and TransactionalProtectionInstallationExecutor,    *)
(* which coordinates the file transaction of FileTransaction with global   *)
(* core.hooksPath and the resident service.                                *)
(*                                                                         *)
(* A command takes one step per await.  Between any two of them the user   *)
(* may edit a shared file or core.hooksPath, a managed file may be         *)
(* damaged, the service may stop, a release may replace the build, and the *)
(* process may die.                                                        *)
(***************************************************************************)
EXTENDS InstallationPlanner

CONSTANTS UserContents,   \* what the user may write into a shared file
          Originals,      \* what a shared file may hold at first, Null included
          HooksPaths,     \* the user's own core.hooksPath values
          Fragile,        \* managed paths something else may damage
          Faults,         \* FileTransaction's I/O faults
          SystemFaults,   \* subset of {"git", "service"}: calls that may fail
          Events,         \* which environment events happen at all
          MaxEvents,      \* bound on environment events
          MaxCommands     \* bound on commands

Paths == {"init", "state", "replica", "hook", "desc", "extra", "profile", "settings",
          "profileBackup", "settingsBackup", "manifest", "config", "baseline"}
\* Inside the state directory; `deactivate --purge` removes it.
StateDir == Paths \ {"desc", "profile", "settings"}
Backups == {"profileBackup", "settingsBackup"}
Artifacts == {"init", "state", "replica", "hook", "desc", "extra", "manifest"} \cup Backups
Operations == {"activate", "repair", "deactivate"}

ASSUME NullIsNoContent == /\ Null \notin UserContents /\ Null \notin HooksPaths
                          /\ \A c \in UserContents \cup {Null} : Merged(c) # Null
                          /\ \A id \in Artifacts, b \in {1, 2}, o \in HooksPaths \cup {Null} :
                                 OwnedContent(id, b, o) # Null

\* What a manifest can record of a file, and that a manifest is never the
\* absence of one.
Entries ==
    [id : Paths, ownership : {"owned", "shared"}, original : UserContents \cup {Null},
     installed : {Merged(c) : c \in UserContents \cup {Null}} \cup
                 {OwnedContent(id, b, o) : id \in Artifacts, b \in {1, 2},
                                           o \in HooksPaths \cup {Null}}]
ASSUME NullIsNoManifest ==
    Null \notin [kind : {"manifest"}, configuration : {1, 2} \X (HooksPaths \cup {Null}),
                 entries : Seq(Entries)]

ASSUME ContentsAreTheUsers == \A c \in UserContents : c.kind = "user"
ASSUME FragileAssumption == Fragile \subseteq Artifacts
ASSUME OriginalsAssumption == Originals \subseteq UserContents \cup {Null}
ASSUME OwnHooksPaths == "managed" \notin HooksPaths \cup {Null}
ASSUME BoundsAssumption == MaxEvents \in Nat /\ MaxCommands \in Nat

VARIABLES fs, plan, pc, cursor, attempted, rollbackErrors, world, raced,
          git,         \* global core.hooksPath
          svc,         \* the resident service, as inspect() reports it
          resident,    \* the build that the process started last runs
          watcher,     \* the version in daemon.json: the last announcement
          build,       \* the installed release
          cmd,         \* the command in progress
          user,        \* history: the user's own bytes of each shared file
          hooksPath,   \* history: the user's own core.hooksPath
          contested,   \* history: what the user changed under the executor's hand
          damaged,     \* history: managed paths ever damaged from outside
          incomplete,  \* history: some rollback step failed
          crashed,     \* history: some command died
          events, commands

fileVars == <<plan, pc, cursor, attempted, rollbackErrors, world, raced>>
systemVars == <<git, svc, resident, watcher>>
historyVars == <<user, hooksPath, contested, damaged, incomplete, crashed>>
vars == <<fs, fileVars, systemVars, build, cmd, historyVars, events, commands>>

Files == INSTANCE FileTransaction WITH Path <- Paths, Content <- UserContents, Plans <- {}

\* A command that is not running.  cmd.harmed is history: what was damaged,
\* edited or stopped from outside since the command was planned.
Idle(op, result) ==
    [stage |-> "idle", op |-> op, result |-> result, installed |-> FALSE,
     files |-> <<>>, external |-> <<>>, at |-> 0, before |-> Null,
     degraded |-> FALSE, undo |-> FALSE, harmed |-> {}]

Snapshot == [fs |-> fs, git |-> git, svc |-> svc, build |-> build, watcher |-> watcher]

Init == /\ \E s, q \in Originals :
               fs = [p \in Paths |-> CASE p = "settings" -> s
                                       [] p = "profile" -> q
                                       [] OTHER -> Null]
        /\ plan = <<>> /\ pc = "idle" /\ cursor = 1 /\ attempted = 0
        /\ rollbackErrors = FALSE /\ world = fs /\ raced = {}
        /\ git \in HooksPaths \cup {Null}
        /\ svc = "absent" /\ resident = Null /\ watcher = Null /\ build = 1
        /\ cmd = Idle("none", "none")
        /\ user = [p \in ToSet(SharedIds) |-> fs[p]]
        /\ hooksPath = git
        /\ contested = {} /\ damaged = {} /\ incomplete = FALSE /\ crashed = FALSE
        /\ events = 0 /\ commands = 0

Goto(stage) == cmd' = [cmd EXCEPT !.stage = stage]
GotoAt(stage, at) == cmd' = [cmd EXCEPT !.stage = stage, !.at = at]

\* The end of executor.execute(): the undo of a failed first activation goes
\* on with the control-plane files, everything else ends the command.
Return == cmd' = IF cmd.undo THEN [cmd EXCEPT !.stage = "restoreConfig"]
                             ELSE Idle(cmd.op, "ok")
Throw == /\ cmd' = IF cmd.undo THEN [cmd EXCEPT !.stage = "restoreConfig"]
                               ELSE Idle(cmd.op, "failed")
         /\ incomplete' = (incomplete \/ cmd.undo)
         /\ UNCHANGED <<user, hooksPath, contested, damaged, crashed>>

-----------------------------------------------------------------------------
(* InstallationCommand.execute *)

Plan(op) ==
    /\ cmd.stage = "idle"
    /\ commands < MaxCommands
    /\ commands' = commands + 1
    /\ LET p == ProtectionPlan(Snapshot, op)
       IN  cmd' = CASE ~p.ok -> Idle(op, "refused")
                    [] p.ok /\ p.files = <<>> /\ p.external = <<>> -> Idle(op, "nothing")
                    [] OTHER -> [Idle(op, "none") EXCEPT !.stage = "confirm",
                                     !.installed = p.installed, !.files = p.files,
                                     !.external = p.external]
    /\ UNCHANGED <<fs, fileVars, systemVars, build, historyVars, events>>

\* --dry-run, or the user says no.
Decline == /\ cmd.stage = "confirm"
           /\ cmd' = Idle(cmd.op, "declined")
           /\ UNCHANGED <<fs, fileVars, systemVars, build, historyVars, events, commands>>

FirstActivation == cmd.op = "activate" /\ ~cmd.installed

Confirm == /\ cmd.stage = "confirm"
           /\ cmd' = [cmd EXCEPT !.stage = "verify",
                          !.before = IF FirstActivation
                                     THEN <<fs["config"], fs["baseline"]>> ELSE Null]
           /\ UNCHANGED <<fs, fileVars, systemVars, build, historyVars, events, commands>>

\* finishActivation: config.json, then the baseline.
Finish == /\ cmd.stage \in {"writeConfig", "writeBaseline"}
          /\ LET p == IF cmd.stage = "writeConfig" THEN "config" ELSE "baseline"
             IN  \/ /\ fs' = [fs EXCEPT ![p] = Generated(p, build, Null)]
                    /\ IF p = "config" THEN Goto("writeBaseline")
                                       ELSE cmd' = Idle(cmd.op, "ok")
                 \/ /\ "write" \in Faults
                    /\ Goto("undo")
                    /\ UNCHANGED fs
          /\ UNCHANGED <<fileVars, systemVars, build, historyVars, events, commands>>

\* A failed finishActivation executes a freshly planned deactivation.
Undo == /\ cmd.stage = "undo"
        /\ LET p == ProtectionPlan(Snapshot, "deactivate")
           IN  IF p.ok
               THEN /\ cmd' = [cmd EXCEPT !.stage = "verify", !.op = "deactivate",
                                   !.undo = TRUE, !.at = 0,
                                   !.files = p.files, !.external = p.external]
                    /\ UNCHANGED incomplete
               ELSE /\ cmd' = [cmd EXCEPT !.stage = "restoreConfig"]
                    /\ incomplete' = TRUE
        /\ UNCHANGED <<fs, fileVars, systemVars, build, user, hooksPath, contested,
                       damaged, crashed, events, commands>>

\* Then config.json and the baseline are put back, each whatever the other did.
RestoreControlPlane ==
    /\ cmd.stage \in {"restoreConfig", "restoreBaseline"}
    /\ LET k == IF cmd.stage = "restoreConfig" THEN 1 ELSE 2
           p == <<"config", "baseline">>[k]
       IN  /\ \/ fs' = [fs EXCEPT ![p] = cmd.before[k]] /\ UNCHANGED incomplete
              \/ "restore" \in Faults /\ UNCHANGED fs /\ incomplete' = TRUE
           /\ IF k = 1 THEN Goto("restoreBaseline") ELSE cmd' = Idle("activate", "failed")
    /\ UNCHANGED <<fileVars, systemVars, build, user, hooksPath, contested, damaged,
                   crashed, events, commands>>

\* `deactivate --purge` removes the state directory after a success.
Purge == /\ cmd.stage = "idle" /\ cmd.op = "deactivate" /\ cmd.result = "ok"
         /\ fs' = [p \in Paths |-> IF p \in StateDir THEN Null ELSE fs[p]]
         /\ cmd' = Idle("deactivate", "purged")
         /\ watcher' = Null      \* daemon.json goes with the directory
         /\ UNCHANGED <<fileVars, git, svc, resident, build, historyVars, events, commands>>

-----------------------------------------------------------------------------
(* TransactionalProtectionInstallationExecutor *)

Current(t) == IF t.kind = "git" THEN git ELSE svc
Pending == cmd.external[cmd.at]

\* Mutant: deactivation removes its files before it touches Git and the service.
VerifyFilesFirst ==
    /\ cmd.stage = "verify"
    /\ \A t \in ToSet(cmd.external) : Current(t) = t.before
    /\ Goto("execute")
    /\ UNCHANGED <<fs, fileVars, systemVars, build, historyVars, events, commands>>

\* verifyExternalPreconditions: nothing starts on a stale plan.
Verify == /\ cmd.stage = "verify"
          /\ \/ /\ \A t \in ToSet(cmd.external) : Current(t) = t.before
                /\ IF cmd.op = "deactivate" THEN GotoAt("external", 1) ELSE Goto("execute")
                /\ UNCHANGED historyVars
             \/ /\ \E t \in ToSet(cmd.external) :
                       Current(t) # t.before \/ t.kind \in SystemFaults
                /\ Throw
          /\ UNCHANGED <<fs, fileVars, systemVars, build, events, commands>>

BeginFiles == /\ cmd.stage = "execute"
              /\ Files!Execute(cmd.files)
              /\ Goto("files")
              /\ UNCHANGED <<systemVars, build, historyVars, events, commands>>

FileStep == /\ cmd.stage \in {"files", "invert"}
            /\ Files!Step
            /\ incomplete' = (incomplete \/ rollbackErrors')
            /\ UNCHANGED <<systemVars, build, cmd, user, hooksPath, contested, damaged,
                           crashed, events, commands>>

FilesDone == /\ cmd.stage = "files"
             /\ pc = "done"
             /\ IF cmd.op = "deactivate" THEN Return ELSE GotoAt("external", 1)
             /\ UNCHANGED <<fs, fileVars, systemVars, build, historyVars, events, commands>>

FilesFailed == /\ cmd.stage = "files"
               /\ pc = "failed"
               /\ IF cmd.op = "deactivate"
                  THEN GotoAt("rollback", Len(cmd.external)) /\ UNCHANGED historyVars
                  ELSE Throw
               /\ UNCHANGED <<fs, fileVars, systemVars, build, events, commands>>

\* verifyExternalPrecondition, again, just before the transition.
VerifyTransition ==
    /\ cmd.stage = "external"
    /\ cmd.at <= Len(cmd.external)
    /\ \/ Current(Pending) = Pending.before /\ Goto("apply")
       \/ /\ Current(Pending) # Pending.before \/ Pending.kind \in SystemFaults
          /\ GotoAt("rollback", cmd.at - 1)
    /\ UNCHANGED <<fs, fileVars, systemVars, build, historyVars, events, commands>>

\* writeGlobalHooksPath(after, before) reads once more and refuses a changed
\* value; a call that fails (or times out) may have taken effect.  Whatever
\* fails here, the transition is already in attempted[].
ApplyGit ==
    /\ cmd.stage = "apply"
    /\ Pending.kind = "git"
    /\ \/ /\ git = Pending.before
          /\ git' = Pending.after
          /\ GotoAt("external", cmd.at + 1)
       \/ /\ git # Pending.before \/ "git" \in SystemFaults
          /\ git' = git \/ ("git" \in SystemFaults /\ git = Pending.before
                               /\ git' = Pending.after)
          /\ Goto("rollback")
    /\ UNCHANGED <<fs, fileVars, svc, resident, watcher, build, historyVars, events, commands>>

\* A service that comes up boots the installed build; no controller waits for
\* its announcement (see Announce).
Started(from, to) == IF to = "active" /\ from # "active" THEN build ELSE resident

\* What daemon.json says after a service was up for a moment.
Heard == IF "announce" \in Events THEN {watcher, build} ELSE {watcher}

\* A failing service manager may leave the service in any state, and may have
\* had it up, long enough or not for an announcement.
ServiceCallFails == /\ "service" \in SystemFaults
                    /\ svc' \in {"absent", "stopped", "active"}
                    /\ resident' \in IF svc' = "active" THEN {build, Started(svc, svc')}
                                                       ELSE {resident}
                    /\ watcher' \in Heard

\* setDesired / restart.  While activating, a failure only degrades the result.
ApplyService ==
    /\ cmd.stage = "apply"
    /\ Pending.kind = "service"
    /\ \/ /\ svc = Pending.before
          /\ svc' = Pending.after
          /\ resident' = IF Pending.restart THEN build ELSE Started(svc, svc')
          /\ UNCHANGED watcher
          /\ GotoAt("external", cmd.at + 1)
       \/ /\ \/ svc # Pending.before /\ UNCHANGED <<svc, resident, watcher>>
             \/ ServiceCallFails
          /\ Goto(IF cmd.op = "deactivate" THEN "rollback" ELSE "restoreQuietly")
    /\ UNCHANGED <<fs, fileVars, git, build, historyVars, events, commands>>

\* ServiceControllerBase.restore: a registered service that was stopped is
\* started first, long enough or not to announce itself, and then stopped.
RestoreService(before) ==
    /\ svc' = before
    /\ resident' = Started(svc, before)
    /\ watcher' \in IF before = "stopped" /\ svc # "active" THEN Heard ELSE {watcher}

\* Mutant: a service that cannot be activated is tried again.
RestoreAndRetry ==
    /\ cmd.stage = "restoreQuietly"
    /\ RestoreService(Pending.before)
    /\ Goto("external")
    /\ UNCHANGED <<fs, fileVars, git, build, historyVars, events, commands>>

RestoreQuietly ==
    /\ cmd.stage = "restoreQuietly"
    /\ RestoreService(Pending.before) \/ ServiceCallFails
    /\ cmd' = [cmd EXCEPT !.stage = "external", !.at = cmd.at + 1, !.degraded = TRUE]
    /\ UNCHANGED <<fs, fileVars, git, build, historyVars, events, commands>>

ExternalDone ==
    /\ cmd.stage = "external"
    /\ cmd.at > Len(cmd.external)
    /\ CASE cmd.op = "deactivate" -> Goto("execute")
         [] FirstActivation -> Goto("writeConfig")
         [] OTHER -> Return
    /\ UNCHANGED <<fs, fileVars, systemVars, build, historyVars, events, commands>>

\* rollbackExternal: last transition first, without a compare-and-swap.
RollbackExternal ==
    /\ cmd.stage = "rollback"
    /\ cmd.at > 0
    /\ \/ /\ IF Pending.kind = "git"
             THEN git' = Pending.before /\ UNCHANGED <<svc, resident, watcher>>
             ELSE RestoreService(Pending.before) /\ UNCHANGED git
          /\ UNCHANGED incomplete
       \/ /\ Pending.kind \in SystemFaults
          /\ IF Pending.kind = "git"
             THEN git' \in {git, Pending.before} /\ UNCHANGED <<svc, resident, watcher>>
             ELSE ServiceCallFails /\ UNCHANGED git
          /\ incomplete' = TRUE
    /\ GotoAt("rollback", cmd.at - 1)
    /\ UNCHANGED <<fs, fileVars, build, user, hooksPath, contested, damaged, crashed,
                   events, commands>>

Invert(p) == MapSeq(LAMBDA c : Change(c.path, c.after, c.before), Reverse(p))

\* Activation and repair then execute the inverse of their file plan.
InvertFiles ==
    /\ cmd.stage = "rollback"
    /\ cmd.at = 0
    /\ cmd.op # "deactivate" /\ cmd.files # <<>>
    /\ Files!Execute(Invert(cmd.files))
    /\ Goto("invert")
    /\ UNCHANGED <<systemVars, build, historyVars, events, commands>>

RolledBack ==
    /\ \/ cmd.stage = "rollback" /\ cmd.at = 0 /\ (cmd.op = "deactivate" \/ cmd.files = <<>>)
       \/ cmd.stage = "invert" /\ pc \in {"done", "failed"}
    /\ cmd' = IF cmd.undo THEN [cmd EXCEPT !.stage = "restoreConfig"]
                          ELSE Idle(cmd.op, "failed")
    /\ incomplete' = (incomplete \/ cmd.undo \/ (cmd.stage = "invert" /\ pc = "failed"))
    /\ UNCHANGED <<fs, fileVars, systemVars, build, user, hooksPath, contested, damaged,
                   crashed, events, commands>>

-----------------------------------------------------------------------------
(* The environment *)

Event(e) == e \in Events /\ events < MaxEvents /\ events' = events + 1

Harm(x) == cmd' = IF cmd.stage = "idle" THEN cmd ELSE [cmd EXCEPT !.harmed = @ \cup {x}]

\* Anybody may write a file at any time; under the executor's hand it is a race.
Write(p, content) ==
    /\ fs[p] # content
    /\ IF Files!Running THEN Files!Edit(p, content)
                        ELSE fs' = [fs EXCEPT ![p] = content] /\ UNCHANGED fileVars

\* The user edits a shared file, with or without the managed block.
EditShared(p, content) ==
    /\ Event("edit")
    /\ \/ Write(p, content)
       \/ Kind(fs[p]) = "merged" /\ Write(p, Merged(content))
    /\ user' = [user EXCEPT ![p] = content]
    /\ contested' = IF Files!Running /\ Files!Claimed(p) THEN contested \cup {p} ELSE contested
    /\ Harm(p)
    /\ UNCHANGED <<systemVars, build, hooksPath, damaged, incomplete, crashed,
                   commands>>

\* The hooksPath transition has passed its last check and may be under way,
\* done, or about to be rolled back.
ClaimedGit == \E k \in DOMAIN cmd.external :
    /\ cmd.external[k].kind = "git"
    /\ \/ cmd.stage \in {"apply", "restoreQuietly", "rollback"} /\ k <= cmd.at
       \/ cmd.stage = "external" /\ k < cmd.at
       \/ cmd.stage \in {"execute", "files"} /\ cmd.op = "deactivate"

SetHooksPath(value) ==
    /\ Event("git")
    /\ git # value
    /\ git' = value
    /\ hooksPath' = value
    /\ contested' = IF ClaimedGit THEN contested \cup {"git"} ELSE contested
    /\ Harm("git")
    /\ UNCHANGED <<fs, fileVars, svc, resident, watcher, build, user, damaged, incomplete,
                   crashed, commands>>

\* A managed file is lost or overwritten from outside.
Damage(p, content) ==
    /\ Event("damage")
    /\ fs[p] # Null
    /\ Write(p, content)
    /\ damaged' = damaged \cup {p}
    /\ Harm(p)
    /\ UNCHANGED <<systemVars, build, user, hooksPath, contested, incomplete,
                   crashed, commands>>

ServiceStops == /\ Event("stop")
                /\ svc = "active"
                /\ svc' = "stopped"
                /\ Harm("service")
                /\ UNCHANGED <<fs, fileVars, git, resident, watcher, build, historyVars,
                               commands>>

\* The resident has its watch session and its first comparison: daemon.json
\* says which build runs.  It comes whenever it comes, before or after the
\* command that started the service has answered, or never.
Announce == /\ "announce" \in Events
            /\ svc = "active"
            /\ watcher # resident
            /\ watcher' = resident
            /\ IF resident = build THEN UNCHANGED cmd ELSE Harm("watcher")
            /\ UNCHANGED <<fs, fileVars, git, svc, resident, build, historyVars, events,
                           commands>>

\* UpgradeMonitor, which runs from the announcement on, finds another release
\* on disk and exits; the service manager starts that one.
HandOver == /\ svc = "active"
            /\ watcher = resident
            /\ resident # build
            /\ resident' = build
            /\ UNCHANGED <<fs, fileVars, git, svc, watcher, build, cmd, historyVars, events,
                           commands>>

Upgrade == /\ Event("upgrade")
           /\ cmd.stage = "idle"
           /\ build = 1
           /\ build' = 2
           /\ cmd' = Idle("none", "none")
           /\ UNCHANGED <<fs, fileVars, systemVars, historyVars, commands>>

Crash == /\ Event("crash")
         /\ cmd.stage # "idle"
         /\ cmd' = Idle(cmd.op, "crashed")
         /\ IF Files!Running THEN Files!Crash ELSE UNCHANGED <<fs, fileVars>>
         /\ crashed' = TRUE
         /\ UNCHANGED <<systemVars, build, user, hooksPath, contested, damaged, incomplete,
                        commands>>

Step == \/ Verify \/ BeginFiles \/ FileStep \/ FilesDone \/ FilesFailed
        \/ VerifyTransition \/ ApplyGit \/ ApplyService \/ RestoreQuietly \/ ExternalDone
        \/ RollbackExternal \/ InvertFiles \/ RolledBack
        \/ Finish \/ Undo \/ RestoreControlPlane

Next == \/ \E op \in Operations : Plan(op)
        \/ Confirm
        \/ Decline
        \/ Step
        \/ Purge
        \/ \E p \in ToSet(SharedIds), c \in UserContents : EditShared(p, c)
        \/ \E h \in HooksPaths \cup {Null} : SetHooksPath(h)
        \/ \E p \in Fragile, c \in UserContents \cup {Null} : Damage(p, c)
        \/ ServiceStops
        \/ Announce
        \/ HandOver
        \/ Upgrade
        \/ Crash

Spec == Init /\ [][Next]_vars
LiveSpec == Spec /\ WF_vars(Step)

-----------------------------------------------------------------------------
(* Properties *)

TypeOK == /\ Files!Running => cmd.stage \in {"files", "invert"}
          /\ DOMAIN fs = Paths
          /\ git \in HooksPaths \cup {Null, "managed"}
          /\ svc \in {"absent", "stopped", "active"}
          /\ {resident, watcher} \subseteq {Null, 1, 2} /\ build \in {1, 2}
          /\ cmd.at \in 0..Len(cmd.external) + 1
          /\ cmd.stage \in {"idle", "confirm", "verify", "execute", "files", "external",
                            "apply", "restoreQuietly", "rollback", "invert", "writeConfig",
                            "writeBaseline", "undo", "restoreConfig", "restoreBaseline"}
          /\ contested \subseteq ToSet(SharedIds) \cup {"git"}
          /\ damaged \subseteq Paths

\* The user's part of a shared file.
Own(content) == IF Kind(content) = "merged" THEN content.base ELSE content

\* Whatever fails and whenever a command dies, the bytes the user last put
\* into a shared file are in that file, alone or next to the managed block.
UserBytesSurvive == \A p \in ToSet(SharedIds) \ contested : Own(fs[p]) = user[p]

\* While Git runs the managed hooks, the hooksPath to go back to is on disk.
HooksPathRecoverable ==
    /\ "git" \notin contested => git \in {"managed", hooksPath}
    /\ git = "managed" /\ "git" \notin contested /\ ~incomplete =>
           \/ GitOriginals(Snapshot) = {hooksPath}
           \/ damaged \cap {"state", "replica"} # {}

\* Neither Git nor the service manager is left pointing at a file that is gone,
\* at any point of any command, unless a rollback step failed.
NoDangling ==
    ~incomplete =>
        /\ git = "managed" => fs["hook"] # Null \/ "hook" \in damaged
        /\ svc # "absent" => fs["desc"] # Null \/ "desc" \in damaged

Untouched == /\ \A p \in Artifacts \ damaged : fs[p] = Null
             /\ \A p \in ToSet(SharedIds) \ contested : fs[p] = user[p]
             /\ "git" \in contested \/ git = hooksPath
             /\ svc = "absent"

Vouched == \A e \in ToSet(fs["manifest"].entries) :
    /\ e.ownership = "owned" => fs[e.id] = e.installed \/ e.id \in damaged
    /\ e.original # Null => fs[BackupPath(e.id)] = e.original \/ BackupPath(e.id) \in damaged

\* Between commands the manifest tells the truth: without one the machine is
\* as the user left it, with one everything it records is in place.  Only a
\* crash, a failed rollback step or damage to the manifest excuses less.
ManifestIsTruth ==
    cmd.stage = "idle" /\ ~crashed /\ ~incomplete /\ "manifest" \notin damaged =>
        IF fs["manifest"] = Null THEN Untouched ELSE Vouched

\* An activate or repair that succeeds leaves a standing protection: every
\* owned file as the manifest records it, Git on the managed hooks, and a
\* resident that runs the installed build, or the result says degraded.
\* Excused is only what was damaged, stopped or changed from outside since the
\* command was planned, and an old resident that had announced nothing by then,
\* which watcherIsStale leaves alone.  With no excuse at all health()
\* finds nothing to repair, at once or as soon as the resident announces itself.
\* That the record is the one of the installed build is not promised here: see
\* RepairReconciles.
SuccessStands ==
    [][(cmd.stage # "idle" /\ cmd'.result = "ok" /\ cmd.op # "deactivate") =>
           /\ \/ "manifest" \in cmd.harmed
              \/ \A e \in ToSet(fs["manifest"].entries) : e.ownership = "owned" =>
                     fs[e.id] = e.installed \/ e.id \in cmd.harmed
           /\ git = "managed" \/ "git" \in cmd.harmed
           /\ \/ svc = "active" /\ (resident = build \/ watcher = Null)
              \/ cmd.degraded \/ cmd.harmed \cap {"service", "watcher"} # {}
           /\ \/ cmd.degraded \/ cmd.harmed # {}
              \/ Healthy(Snapshot)' \/ Healthy([Snapshot EXCEPT !.watcher = resident])']_vars

\* What validateManifest's comments promise after an upgrade: a repair that
\* nobody disturbed reconciles the installation with the installed release, so
\* that `activate`, which refuses and names repair as the remedy, accepts it.
RepairReconciles ==
    [][(cmd.stage # "idle" /\ cmd.op = "repair" /\ cmd'.result = "ok"
            /\ ~cmd.degraded /\ cmd.harmed = {}) =>
           ProtectionPlan(Snapshot, "activate").ok']_vars

\* A confirmed command comes to an end.
CommandEnds == cmd.stage \notin {"idle", "confirm"} ~> cmd.stage = "idle"

=============================================================================
