---------------------------- MODULE WatchSession ----------------------------
(***************************************************************************)
(* ActiveNodeWatchSession of NodeWatchService: one fs.watch handle per     *)
(* directory, registered from the targets' present state and refreshed     *)
(* whenever an event says that a name came or went.                        *)
(*                                                                         *)
(* initialise() and a refresh may run at once: handlers are live as soon   *)
(* as they are registered.  Each step below lies between two awaits: what  *)
(* an lstat answered decides the stage, a later step acts on it.           *)
(***************************************************************************)
EXTENDS Integers, Sequences, FiniteSets

CONSTANTS Root,           \* a directory that is always there: the home
          Dirs, Files,    \* the other directories and files that may exist
          Parent,         \* what each of them lies in
          Initially,      \* which of them may exist at first: a set of sets
          Targets,        \* uniqueTargets: a sequence of [path, recursive]
          MaxDirectories,
          MaxChanges,     \* of the file system
          MaxErrors,      \* failures of fs.watch, of readdir and of open handles
          None

Name == Dirs \cup Files
Folder == Dirs \cup {Root}

\* An fs.watch handle, and what the map holds of it.
Handle == [dir : Folder, inode : Nat, id : Nat]
Registration == [watcher : Handle, scopes : SUBSET (Name \cup {Root})]

ASSUME Tree == /\ Root \notin Name /\ Dirs \cap Files = {}
               /\ Parent \in [Name -> Folder]
               /\ Initially \subseteq SUBSET Name
ASSUME WatchAssumption ==
    /\ \A k \in DOMAIN Targets : Targets[k].path \in Name \cup {Root}
    /\ DOMAIN Targets = 1 .. Len(Targets) /\ Len(Targets) \in Nat \ {0}
    /\ MaxDirectories \in Nat \ {0} /\ MaxErrors \in Nat
    /\ None \notin Registration \cup {"failed", "degraded", "protected"}

\* n and everything it lies in: AbsolutePath.contains, seen from below.
Above[n \in Name \cup {Root}] == IF n = Root THEN {Root} ELSE {n} \cup Above[Parent[n]]

VARIABLES present,  \* the files and directories that exist
          made,     \* how often each directory was made: its inode
          regs,     \* registrations: [watcher, scopes] of a directory, or None
          open,     \* the fs.watch handles that are open
          opened,   \* how often each directory was watched: a handle's identity
          events,   \* what the handles have to report
          issues,   \* `issues`: [path, reason]
          run,      \* the progress of initialise() and of refreshCoverage()
          dirty,    \* SingleFlightScheduler.dirty of `refresh`
          verdict,  \* the coverage status that start() returned
          closed,
          unseen,   \* history: targets with a change that no handle could report
          late,     \* history: close() found a refresh in flight
          changes, errors

handles == <<regs, open, opened, issues, errors>>
tree == <<present, made>>
history == <<unseen, late, changes>>
sessionVars == <<tree, handles, events, run, dirty, verdict, closed, history>>

Exists(n) == n = Root \/ n \in present
Kind(n) == IF ~Exists(n) THEN "missing" ELSE IF n \in Files THEN "file" ELSE "directory"
Inode(d) == IF d = Root THEN 0 ELSE made[d]
Registered == {d \in Folder : regs[d] # None}
Full == Cardinality(Registered) >= MaxDirectories
Target(p) == Targets[run[p].at]

Idle == [stage |-> "idle", at |-> 0, work |-> {}, here |-> None]
AtTarget(k) == [Idle EXCEPT !.stage = "target", !.at = k]

SessionInit == /\ present \in Initially
               /\ made = [d \in Dirs |-> 0]
               /\ regs = [d \in Folder |-> None]
               /\ open = {} /\ opened = [d \in Folder |-> 0]
               /\ events = {} /\ issues = {}
               /\ run = [initialise |-> AtTarget(1), refresh |-> Idle]
               /\ dirty = FALSE /\ verdict = None /\ closed = FALSE
               /\ unseen = {} /\ late = FALSE /\ changes = 0 /\ errors = 0

-----------------------------------------------------------------------------
(* register(), recordIssue() *)

\* watcher.close(): what it had to report is lost.
CloseHandles(ws) == /\ open' = open \ ws
                    /\ events' = {e \in events : e.watcher \notin ws}

Issue(path, reason) == {[path |-> path, reason |-> reason]}

\* The call fails: because the directory is gone, or for reasons of its own.
Fails(d) == IF Exists(d) THEN errors < MaxErrors /\ errors' = errors + 1 ELSE UNCHANGED errors

\* register(directory, scope): its answer is ok.  noted are issues the caller
\* recorded before.
Register(d, scope, noted, ok) ==
    \/ /\ regs[d] # None /\ ok
       /\ regs' = [regs EXCEPT ![d].scopes = @ \cup {scope}]
       /\ issues' = issues \cup noted
       /\ UNCHANGED <<open, opened, errors>>
    \/ /\ regs[d] = None /\ Full /\ ~ok
       /\ issues' = issues \cup noted \cup Issue(scope, "limit")
       /\ UNCHANGED <<regs, open, opened, errors>>
    \/ /\ regs[d] = None /\ ~Full /\ ~ok
       /\ Fails(d)
       /\ issues' = issues \cup noted \cup Issue(d, "unwatchable")
       /\ UNCHANGED <<regs, open, opened>>
    \/ /\ regs[d] = None /\ ~Full /\ ok
       /\ Exists(d)
       /\ LET w == [dir |-> d, inode |-> Inode(d), id |-> opened[d]]
          IN  /\ open' = open \cup {w}
              /\ regs' = [regs EXCEPT ![d] = [watcher |-> w, scopes |-> {scope}]]
       /\ opened' = [opened EXCEPT ![d] = @ + 1]
       /\ issues' = issues \cup noted
       /\ UNCHANGED errors

-----------------------------------------------------------------------------
(* refreshCoverage() under its SingleFlightScheduler *)

\* The loop over the copy goes on with the handles in work.
Checking(work) == IF work = {} THEN AtTarget(1) ELSE [Idle EXCEPT !.stage = "check", !.work = work]

\* The start of refreshCoverage: a copy of the registrations.
Refresh(registrations) ==
    IF closed THEN Idle
    ELSE Checking({registrations[d].watcher : d \in {f \in Folder : registrations[f] # None}})

\* Mutant: the scheduler drops what arrives while a refresh runs.
RequestDropped ==
    /\ run' = IF run.refresh.stage = "idle" THEN [run EXCEPT !.refresh = Refresh(regs)] ELSE run
    /\ UNCHANGED dirty

\* refresh.request()
Request == IF run.refresh.stage = "idle"
           THEN run' = [run EXCEPT !.refresh = Refresh(regs)] /\ UNCHANGED dirty
           ELSE dirty' = TRUE /\ UNCHANGED run

\* Process p has done what it had to do for the target in hand.
NextTarget(p) ==
    IF run[p].at < Len(Targets)
    THEN run' = [run EXCEPT ![p] = AtTarget(run[p].at + 1)] /\ UNCHANGED dirty
    ELSE IF p = "initialise"
    THEN run' = [run EXCEPT ![p] = [Idle EXCEPT !.stage = "settle"]] /\ UNCHANGED dirty
    ELSE /\ run' = [run EXCEPT ![p] = IF dirty THEN Refresh(regs') ELSE Idle]
         /\ dirty' = FALSE

\* await isDirectory(registration.path)
LookAtRegistration(w) ==
    /\ run.refresh.stage = "check" /\ w \in run.refresh.work
    /\ run' = [run EXCEPT !.refresh = IF Exists(w.dir) THEN Checking(@.work \ {w})
                                      ELSE [@ EXCEPT !.stage = "vanished", !.here = w]]
    /\ UNCHANGED <<tree, handles, events, dirty, verdict, closed, history>>

\* Mutant: the handle of a vanished directory is forgotten, not closed.
DropVanishedForgets ==
    /\ run.refresh.stage = "vanished"
    /\ regs' = [regs EXCEPT ![run.refresh.here.dir] = None]
    /\ run' = [run EXCEPT !.refresh = Checking(@.work \ {@.here})]
    /\ UNCHANGED <<tree, open, opened, issues, errors, events, dirty, verdict, closed, history>>

\* Whatever is registered for the path by now is deleted.
DropVanished ==
    /\ run.refresh.stage = "vanished"
    /\ regs' = [regs EXCEPT ![run.refresh.here.dir] = None]
    /\ CloseHandles({run.refresh.here})
    /\ run' = [run EXCEPT !.refresh = Checking(@.work \ {@.here})]
    /\ UNCHANGED <<tree, opened, issues, errors, dirty, verdict, closed, history>>

-----------------------------------------------------------------------------
(* expandTarget() and expandDirectory(), in either process *)

\* await pathKind(path), and which way expandTarget goes from there.
LookAtTarget(p) ==
    /\ run[p].stage = "target"
    /\ LET path == Target(p).path
           way == CASE Kind(path) = "missing" -> [stage |-> "ancestor", here |-> Parent[path]]
                    [] Kind(path) = "file" -> [stage |-> "register", here |-> Parent[path]]
                    [] Kind(path) = "directory" /\ Target(p).recursive ->
                           [stage |-> "expand", here |-> path]
                    [] OTHER -> [stage |-> "register", here |-> path]
       IN  /\ run' = [run EXCEPT ![p].stage = way.stage, ![p].here = way.here,
                                 ![p].work = IF way.stage = "expand" THEN {path} ELSE {}]
           /\ unseen' = unseen \ {path}
    /\ UNCHANGED <<tree, handles, events, dirty, verdict, closed, late, changes>>

\* closestExistingDirectory: one lstat after the other, upwards.
LookAtAncestor(p) ==
    /\ run[p].stage = "ancestor"
    /\ run' = IF Exists(run[p].here) THEN [run EXCEPT ![p].stage = "nearest"]
                                     ELSE [run EXCEPT ![p].here = Parent[@]]
    /\ UNCHANGED <<tree, handles, events, dirty, verdict, closed, history>>

\* A target that needs one directory: its own, or that of a file, or the nearest
\* one ("does not exist; watching ancestor").
RegisterTarget(p) ==
    /\ run[p].stage \in {"register", "nearest"}
    /\ \E ok \in BOOLEAN :
           Register(run[p].here, Target(p).path,
                    IF run[p].stage = "nearest" THEN Issue(Target(p).path, "missing") ELSE {}, ok)
    /\ NextTarget(p)
    /\ UNCHANGED <<tree, events, verdict, closed, history>>

\* expandDirectory has these directories left to visit.
Expanding(p, work) ==
    IF work = {} THEN NextTarget(p)
    ELSE /\ run' = [run EXCEPT ![p].stage = "expand", ![p].here = None, ![p].work = work]
         /\ UNCHANGED dirty

\* expandDirectory: register first, then list.  A subdirectory is not even
\* looked up at the limit, and neither are those after it.
ExpandDirectory(p, d) ==
    /\ run[p].stage = "expand" /\ d \in run[p].work
    /\ \/ /\ Full /\ d # Target(p).path
          /\ issues' = issues \cup Issue(Target(p).path, "limit")
          /\ UNCHANGED <<regs, open, opened, errors>>
          /\ NextTarget(p)
       \/ /\ ~Full \/ d = Target(p).path
          /\ Register(d, Target(p).path, {}, TRUE)
          /\ run' = [run EXCEPT ![p].stage = "list", ![p].here = d, ![p].work = @ \ {d}]
          /\ UNCHANGED dirty
       \/ /\ ~Full \/ d = Target(p).path
          /\ Register(d, Target(p).path, {}, FALSE)
          /\ Expanding(p, run[p].work \ {d})
    /\ UNCHANGED <<tree, events, verdict, closed, history>>

\* await readdir(directory): the subdirectories still to visit, in any order.
ListDirectory(p) ==
    /\ run[p].stage = "list"
    /\ UNCHANGED <<regs, open, opened>>
    /\ LET d == run[p].here
       IN  \/ /\ Exists(d)
              /\ Expanding(p, run[p].work \cup {c \in Dirs \cap present : Parent[c] = d})
              /\ UNCHANGED <<issues, errors>>
           \/ /\ Fails(d)
              /\ Expanding(p, run[p].work)
              /\ issues' = issues \cup Issue(d, "unreadable")
    /\ UNCHANGED <<tree, events, verdict, closed, history>>

\* The end of initialise(): WATCH_STARTUP_SETTLE_MS are over.
Settle == /\ run.initialise.stage = "settle"
          /\ run' = [run EXCEPT !.initialise = Idle]
          /\ verdict' = IF Registered = {} THEN "failed"
                        ELSE IF issues # {} THEN "degraded" ELSE "protected"
          /\ UNCHANGED <<tree, handles, events, dirty, closed, history>>

-----------------------------------------------------------------------------
(* The handlers, close() *)

\* isRelevantToAnyScope.  What a handle says of its own directory arrives as a
\* name inside that directory.
Relevant(e, scopes) ==
    \E s \in scopes : IF e.name = "self" THEN s \in Above[e.watcher.dir]
                      ELSE s \in Above[e.name] \/ e.name \in Above[s]

\* handleEvent, for names that come and go.
HandleEvent(e) ==
    /\ e \in events
    /\ events' = events \ {e}
    /\ IF /\ ~closed
          /\ regs[e.watcher.dir] # None
          /\ Relevant(e, regs[e.watcher.dir].scopes)
       THEN Request
       ELSE UNCHANGED <<run, dirty>>
    /\ UNCHANGED <<tree, handles, verdict, closed, history>>

\* Mutant: a failed handle leaves without a word.
WatcherFailsSilently(w) ==
    /\ errors < MaxErrors
    /\ w \in open
    /\ CloseHandles({w})
    /\ regs' = [regs EXCEPT ![w.dir] = None]
    /\ errors' = errors + 1
    /\ UNCHANGED <<tree, opened, issues, run, dirty, verdict, closed, history>>

\* The error handler of a handle: it deletes by path.
WatcherFails(w) ==
    /\ errors < MaxErrors
    /\ w \in open
    /\ CloseHandles({w})
    /\ regs' = [regs EXCEPT ![w.dir] = None]
    /\ issues' = issues \cup Issue(w.dir, "failed")
    /\ errors' = errors + 1
    /\ UNCHANGED <<tree, opened, run, dirty, verdict, closed, history>>

\* The daemon gets the session when start() returns.
Close ==
    /\ verdict # None /\ ~closed
    /\ closed' = TRUE
    /\ CloseHandles({regs[d].watcher : d \in Registered})
    /\ regs' = [d \in Folder |-> None]
    /\ late' = (run.refresh.stage # "idle")
    /\ UNCHANGED <<tree, opened, issues, errors, run, dirty, verdict, unseen, changes>>

-----------------------------------------------------------------------------
(* The file system and what fs.watch says of it *)

Live(w) == w.dir = Root \/ (w.dir \in present /\ w.inode = made[w.dir])

\* What the open handles report when these names come or go: the handle of the
\* directory a name lies in, and the handle of a directory that goes.
Said(names) ==
    LET heard == {v \in open : Live(v)}
    IN  UNION {{[watcher |-> w, name |-> n] : w \in {v \in heard : v.dir = Parent[n]}} :
                   n \in names}
        \cup {[watcher |-> w, name |-> "self"] : w \in {v \in heard : v.dir \in names}}

\* Nobody will look at a target again because of this change.
Unheard(names) ==
    IF \E e \in Said(names) : /\ regs[e.watcher.dir] # None
                              /\ Relevant(e, regs[e.watcher.dir].scopes)
    THEN {} ELSE {Targets[k].path : k \in {j \in DOMAIN Targets :
                                               names \cap Above[Targets[j].path] # {}}}

\* Changes after close() are of no interest.
Change(names) ==
    /\ ~closed
    /\ changes < MaxChanges
    /\ changes' = changes + 1
    /\ events' = events \cup Said(names)
    /\ unseen' = unseen \cup Unheard(names)
    /\ UNCHANGED <<handles, run, dirty, verdict, closed, late>>

Make(n) == /\ n \notin present /\ Exists(Parent[n])
           /\ present' = present \cup {n}
           /\ made' = IF n \in Dirs THEN [made EXCEPT ![n] = @ + 1] ELSE made
           /\ Change({n})

Remove(n) == LET gone == {m \in present : n \in Above[m]}
             IN  /\ n \in present
                 /\ present' = present \ gone
                 /\ Change(gone)
                 /\ UNCHANGED made

-----------------------------------------------------------------------------
RefreshStep == (\E w \in run.refresh.work : LookAtRegistration(w)) \/ DropVanished
ExpandStep(p) == \/ LookAtTarget(p) \/ LookAtAncestor(p) \/ RegisterTarget(p)
                 \/ \E d \in run[p].work : ExpandDirectory(p, d)
                 \/ ListDirectory(p)
Process == {"initialise", "refresh"}

SessionNext == \/ RefreshStep
               \/ \E p \in Process : ExpandStep(p)
               \/ Settle
               \/ \E e \in events : HandleEvent(e)
               \/ \E w \in open : WatcherFails(w)
               \/ Close
               \/ \E n \in Name : Make(n) \/ Remove(n)

SessionSpec == SessionInit /\ [][SessionNext]_sessionVars
\* Node's event loop goes on: settled awaits and queued events get their turn.
SessionFairness == /\ WF_sessionVars(RefreshStep) /\ WF_sessionVars(Settle)
                   /\ \A p \in Process : WF_sessionVars(ExpandStep(p))
                   /\ WF_sessionVars(\E e \in events : HandleEvent(e))

-----------------------------------------------------------------------------
(* Properties *)

\* Types; a directory is registered under its own handle, and there is no
\* verdict before initialise() is done.
SessionTypeOK == /\ present \subseteq Name
                 /\ \A d \in Registered : regs[d].watcher.dir = d
                 /\ run.initialise.stage # "idle" <=> verdict = None
                 /\ dirty => run.refresh.stage # "idle"
                 /\ verdict \in {None, "failed", "degraded", "protected"}

\* The open handles are the registered ones, so that close() gives all of them
\* back: none is lost from the map while it is open, and the map keeps to the
\* directory limit.  A handle that fails while
\* initialise() and a refresh overlap, and a close() in the middle of a
\* refresh, are excused.
NothingLeaks ==
    /\ Cardinality(Registered) <= MaxDirectories
    /\ errors = 0 /\ ~late => open = {regs[d].watcher : d \in Registered}

\* The directories a target needs watched: its tree, itself, the directory of
\* a file, or the nearest one that exists.
Wanted(t) ==
    IF Kind(t.path) = "directory"
    THEN {d \in Folder : Exists(d) /\ (d = t.path \/ (t.recursive /\ t.path \in Above[d]))}
    ELSE {d \in Above[t.path] \ {t.path} : Exists(d) /\
              \A c \in Above[t.path] : d \in Above[c] \ {c} => ~Exists(c) \/ c = t.path}

Watched(t, d) == regs[d] # None /\ t.path \in regs[d].scopes

\* An issue tells of it.
Told(t, d) == \E i \in issues : \/ i.reason = "limit" /\ i.path = t.path
                                \/ i.reason \notin {"limit", "missing"} /\ i.path \in Above[d] \cup Above[t.path]

\* A registration whose directory was replaced, on the way to d.
Stale(d) == \E a \in Above[d] : regs[a] # None /\ ~Live(regs[a].watcher)

\* Once the file system is quiet, every target is watched as it then is, or an
\* issue was recorded: no interleaving of initialise(), refreshes and events
\* forgets a directory.  Excused are directories replaced under their handle
\* and targets that changed between the lookup and the registration.
CoverageSettles ==
    <>[](closed \/ \A k \in DOMAIN Targets : LET t == Targets[k] IN
             t.path \in unseen \/ \A d \in Wanted(t) : Watched(t, d) \/ Told(t, d) \/ Stale(d))

\* A session that starts as protected watches what it was asked to watch, up to
\* changes whose events or refresh are still under way.
NoFalseGreen ==
    [][verdict' = "protected" /\ verdict = None =>
           \/ events # {} \/ run.refresh.stage # "idle"
           \/ \A k \in DOMAIN Targets : LET t == Targets[k] IN
                  t.path \in unseen \/ \A d \in Wanted(t) : Watched(t, d) \/ Stale(d)]_sessionVars

=============================================================================
