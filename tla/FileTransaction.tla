--------------------------- MODULE FileTransaction ---------------------------
(***************************************************************************)
(* TransactionalInstallationExecutor (ExecuteInstallationPlan.ts): applies *)
(* every change of an installation plan, or restores the paths it touched. *)
(*                                                                         *)
(* The executor is asynchronous: every read, write and remove is an await, *)
(* so somebody else may edit a file between any two of its steps, any I/O  *)
(* call may fail, and the process may die.  Nothing is journalled.         *)
(***************************************************************************)
EXTENDS Naturals, Sequences

CONSTANTS Path,     \* the paths plans and editors touch
          Content,  \* file contents, as far as the plans tell them apart
          Null,     \* "the file does not exist" (TypeScript's null)
          Plans,    \* the plans the executor may be handed
          Faults    \* the I/O operations that may fail

Value == Content \cup {Null}

\* InstallationChange: a compare-before-swap mutation of one path.
Change == [path : Path, before : Value, after : Value]

Distinct(p) == \A j, k \in DOMAIN p : p[j].path = p[k].path => j = k

ASSUME NullAssumption == Null \notin Content
\* Planners refuse two changes of one path (duplicateChangePathConflicts).
ASSUME PlansAssumption == \A p \in Plans : p \in Seq(Change) /\ Distinct(p)
ASSUME FaultsAssumption == Faults \subseteq {"read", "write", "remove", "restore"}

VARIABLES fs,              \* the file system
          plan,            \* the plan being executed
          pc,              \* where execute() stands
          cursor,          \* index of the change in hand
          attempted,       \* length of attempted[], always a prefix of the plan
          rollbackErrors,  \* some restore failed
          world,           \* history: each path as the outside last left it
                           \* before the executor claimed it
          raced            \* history: paths edited after the executor's check

vars == <<fs, plan, pc, cursor, attempted, rollbackErrors, world, raced>>

Running == pc \in {"validate", "check", "apply", "rollback"}
InPlan(p) == \E k \in DOMAIN plan : plan[k].path = p

TypeOK == /\ fs \in [Path -> Value]
          /\ world \in [Path -> Value]
          /\ plan \in Seq(Change)
          /\ pc \in {"idle", "validate", "check", "apply", "rollback",
                     "done", "failed", "crashed"}
          /\ cursor \in Nat
          /\ attempted \in Nat
          /\ rollbackErrors \in BOOLEAN
          /\ raced \subseteq Path

Init == /\ fs \in [Path -> Value]
        /\ world = fs
        /\ plan = <<>>
        /\ pc = "idle"
        /\ cursor = 1
        /\ attempted = 0
        /\ rollbackErrors = FALSE
        /\ raced = {}

-----------------------------------------------------------------------------
(* execute(plan) *)

Execute(p) == /\ ~Running
              /\ plan' = p
              /\ pc' = "validate"
              /\ cursor' = 1
              /\ attempted' = 0
              /\ rollbackErrors' = FALSE
              /\ world' = fs
              /\ raced' = {}
              /\ UNCHANGED fs

\* The first pass reads every path before the first write.
Validate == /\ pc = "validate"
            /\ cursor <= Len(plan)
            /\ \/ /\ fs[plan[cursor].path] = plan[cursor].before
                  /\ cursor' = cursor + 1
                  /\ UNCHANGED pc
               \/ /\ fs[plan[cursor].path] # plan[cursor].before \/ "read" \in Faults
                  /\ pc' = "failed"
                  /\ UNCHANGED cursor
            /\ UNCHANGED <<fs, plan, attempted, rollbackErrors, world, raced>>

BeginApplying == /\ pc = "validate"
                 /\ cursor > Len(plan)
                 /\ pc' = "check"
                 /\ cursor' = 1
                 /\ UNCHANGED <<fs, plan, attempted, rollbackErrors, world, raced>>

\* Mutant: a failed check restores every change of the plan.
CheckAgainRestoresAll ==
    /\ pc = "check"
    /\ cursor <= Len(plan)
    /\ IF fs[plan[cursor].path] = plan[cursor].before
       THEN pc' = "apply" /\ attempted' = cursor /\ UNCHANGED cursor
       ELSE pc' = "rollback" /\ cursor' = Len(plan) /\ UNCHANGED attempted
    /\ UNCHANGED <<fs, plan, rollbackErrors, world, raced>>

\* The precondition is read again immediately before the mutation; from there
\* on the change counts as attempted.
CheckAgain == /\ pc = "check"
              /\ cursor <= Len(plan)
              /\ \/ /\ fs[plan[cursor].path] = plan[cursor].before
                    /\ attempted' = cursor
                    /\ pc' = "apply"
                    /\ UNCHANGED cursor
                 \/ /\ fs[plan[cursor].path] # plan[cursor].before \/ "read" \in Faults
                    /\ pc' = "rollback"
                    /\ cursor' = attempted
                    /\ UNCHANGED attempted
              /\ UNCHANGED <<fs, plan, rollbackErrors, world, raced>>

\* Mutant: the change under way counts as attempted only once it succeeded.
ApplyCountsLate ==
    /\ pc = "apply"
    /\ LET c == plan[cursor]
           op == IF c.after = Null THEN "remove" ELSE "write"
       IN  \/ /\ fs' = [fs EXCEPT ![c.path] = c.after]
              /\ pc' = "check"
              /\ cursor' = cursor + 1
           \/ /\ op \in Faults
              /\ fs' = fs \/ (op = "remove" /\ fs' = [fs EXCEPT ![c.path] = Null])
              /\ pc' = "rollback"
              /\ cursor' = attempted - 1
    /\ UNCHANGED <<plan, attempted, rollbackErrors, world, raced>>

\* Mutant: a failed write or remove is skipped over.
ApplySkips ==
    /\ pc = "apply"
    /\ LET c == plan[cursor] IN
       \/ fs' = [fs EXCEPT ![c.path] = c.after]
       \/ (IF c.after = Null THEN "remove" ELSE "write") \in Faults /\ UNCHANGED fs
    /\ pc' = "check"
    /\ cursor' = cursor + 1
    /\ UNCHANGED <<plan, attempted, rollbackErrors, world, raced>>

\* NodeFileSystem.write renames a finished temporary file over the path, so it
\* happens or it does not; a remove may take effect and still report a failure.
Apply == /\ pc = "apply"
         /\ LET c == plan[cursor]
                op == IF c.after = Null THEN "remove" ELSE "write"
            IN  \/ /\ fs' = [fs EXCEPT ![c.path] = c.after]
                   /\ pc' = "check"
                   /\ cursor' = cursor + 1
                \/ /\ op \in Faults
                   /\ fs' = fs \/ (op = "remove" /\ fs' = [fs EXCEPT ![c.path] = Null])
                   /\ pc' = "rollback"
                   /\ cursor' = attempted
         /\ UNCHANGED <<plan, attempted, rollbackErrors, world, raced>>

Complete == /\ pc = "check"
            /\ cursor > Len(plan)
            /\ pc' = "done"
            /\ UNCHANGED <<fs, plan, cursor, attempted, rollbackErrors, world, raced>>

\* restore(change) for every attempted change, last one first; a restore that
\* fails, with or without removing the file, is remembered and the loop goes on.
Restore == /\ pc = "rollback"
           /\ cursor > 0
           /\ cursor' = cursor - 1
           /\ \/ /\ fs' = [fs EXCEPT ![plan[cursor].path] = plan[cursor].before]
                 /\ UNCHANGED rollbackErrors
              \/ /\ "restore" \in Faults
                 /\ rollbackErrors' = TRUE
                 /\ \/ UNCHANGED fs
                    \/ /\ plan[cursor].before = Null
                       /\ fs' = [fs EXCEPT ![plan[cursor].path] = Null]
           /\ UNCHANGED <<plan, pc, attempted, world, raced>>

Throw == /\ pc = "rollback"
         /\ cursor = 0
         /\ pc' = "failed"
         /\ UNCHANGED <<fs, plan, cursor, attempted, rollbackErrors, world, raced>>

-----------------------------------------------------------------------------
(* The environment *)

\* The change of p has passed its second check and may be under way.
Claimed(p) == /\ pc \in {"check", "apply", "rollback"}
              /\ \E k \in 1..attempted : plan[k].path = p

\* Another process, or the user's editor, changes a file.
Edit(p, v) == /\ Running
              /\ fs[p] # v
              /\ fs' = [fs EXCEPT ![p] = v]
              /\ IF Claimed(p)
                 THEN raced' = raced \cup {p} /\ UNCHANGED world
                 ELSE world' = [world EXCEPT ![p] = v] /\ UNCHANGED raced
              /\ UNCHANGED <<plan, pc, cursor, attempted, rollbackErrors>>

\* The process is killed; a later process may execute another plan.
Crash == /\ Running
         /\ pc' = "crashed"
         /\ UNCHANGED <<fs, plan, cursor, attempted, rollbackErrors, world, raced>>

Step == Validate \/ BeginApplying \/ CheckAgain \/ Apply \/ Complete
          \/ Restore \/ Throw

Next == \/ \E p \in Plans : Execute(p)
        \/ Step
        \/ \E p \in Path, v \in Value : Edit(p, v)
        \/ Crash

Spec == Init /\ [][Next]_vars

-----------------------------------------------------------------------------
(* Properties *)

\* A plan that reports success replaced exactly what it was planned against:
\* every path nobody raced for holds its planned content and held its
\* planned precondition, and no path outside the plan moved.
CommitIsWhole ==
    pc = "done" =>
        \A p \in Path \ raced :
            IF InPlan(p)
            THEN \A k \in DOMAIN plan : plan[k].path = p =>
                     fs[p] = plan[k].after /\ world[p] = plan[k].before
            ELSE fs[p] = world[p]

\* A plan that fails with no rollback error leaves every path as the outside
\* last left it, edits that arrived before the executor's check included.
FailureLeavesNothing ==
    pc = "failed" /\ ~rollbackErrors => \A p \in Path \ raced : fs[p] = world[p]

\* The last change is the commit point, whenever the process dies: while no
\* restore has failed, its content is on disk only if every earlier change
\* is.  (Planners put the manifest last: it never vouches for missing files.)
LastChangeCommits ==
    LET n == Len(plan) IN
    (/\ pc # "idle" /\ n > 0 /\ ~rollbackErrors
     /\ plan[n].path \notin raced
     /\ fs[plan[n].path] = plan[n].after
     /\ fs[plan[n].path] # world[plan[n].path])
        => \A k \in DOMAIN plan :
               plan[k].path \in raced \/ fs[plan[k].path] = plan[k].after

\* The executor overwrites only bytes its plan accounts for, except at a path
\* somebody edited after the second check.
UnseenBytesKept ==
    [][<<pc, cursor>>' # <<pc, cursor>> =>
          \A k \in DOMAIN plan :
              fs'[plan[k].path] # fs[plan[k].path] =>
                  \/ plan[k].path \in raced
                  \/ fs[plan[k].path] \in {plan[k].before, plan[k].after}]_vars

-----------------------------------------------------------------------------
(* The inductive invariant: what each path holds, change by change *)

\* Where the executor stands bounds its cursor and its attempted prefix.
ControlInv ==
    /\ Distinct(plan)
    /\ attempted <= Len(plan)
    /\ pc \in {"idle", "validate"} => attempted = 0
    /\ pc = "validate" => cursor \in 1..Len(plan) + 1
    /\ pc = "check" => cursor \in 1..Len(plan) + 1 /\ attempted = cursor - 1
    /\ pc = "apply" => cursor \in 1..Len(plan) /\ attempted = cursor
    /\ pc = "rollback" => cursor \in 0..attempted
    /\ pc = "done" => attempted = Len(plan)
    /\ \A p \in raced : \E k \in 1..attempted : plan[k].path = p

\* The executor has left alone what it has not attempted, and it attempted
\* only what held its precondition.
ClaimInv ==
    /\ \A p \in Path : (\A k \in 1..attempted : plan[k].path # p) => fs[p] = world[p]
    /\ \A k \in 1..attempted :
           plan[k].path \notin raced => world[plan[k].path] = plan[k].before

\* What an attempted, unraced path holds at each point of execute().
DiskInv ==
    \A k \in 1..attempted : plan[k].path \notin raced =>
        LET now == fs[plan[k].path] IN
        /\ pc \in {"check", "done"} => now = plan[k].after
        /\ pc = "apply" => now = IF k < cursor THEN plan[k].after ELSE plan[k].before
        /\ pc = "rollback" =>
               /\ now \in {plan[k].before, plan[k].after}
               /\ k <= cursor /\ k < attempted => now = plan[k].after
               /\ k > cursor /\ ~rollbackErrors => now = plan[k].before
        /\ pc = "failed" /\ ~rollbackErrors => now = plan[k].before

IInv == TypeOK /\ ControlInv /\ ClaimInv /\ DiskInv /\ (pc = "crashed" => LastChangeCommits)

=============================================================================
