------------------------ MODULE FileTransactionProofs ------------------------
(***************************************************************************)
(* Proofs about FileTransaction, for every set of paths, contents, plans   *)
(* and faults.  IInv is inductive; the properties follow from it.          *)
(***************************************************************************)
EXTENDS FileTransaction, SequenceTheorems, TLAPS

\* The invariant holds of every state the executor can start in.
LEMMA InitIInv == Init => IInv
<1> SUFFICES ASSUME Init PROVE IInv
  OBVIOUS
<1> USE DEF Init
<1>1. TypeOK
  <2>1. plan \in Seq(Change)
    BY EmptySeq
  <2> QED
    BY <2>1 DEF TypeOK
<1>2. ControlInv
  BY DEF ControlInv, Distinct
<1>3. ClaimInv /\ DiskInv
  BY DEF ClaimInv, DiskInv
<1> QED
  BY <1>1, <1>2, <1>3 DEF IInv

\* A change the cursor points at, inside the plan, is a change of a known path.
LEMMA ChangeInHand ==
  ASSUME plan \in Seq(Change), NEW k \in 1..Len(plan)
  PROVE  /\ k \in DOMAIN plan
         /\ plan[k].path \in Path
         /\ plan[k].before \in Value
         /\ plan[k].after \in Value
<1>1. k \in DOMAIN plan /\ plan[k] \in Change
  OBVIOUS
<1> QED
  BY <1>1 DEF Change

\* Types are preserved by every step.
LEMMA TypeStep == IInv /\ [Next]_vars => TypeOK'
<1> SUFFICES ASSUME IInv, [Next]_vars PROVE TypeOK'
  OBVIOUS
<1> USE DEF TypeOK, IInv
<1>1. ASSUME NEW p \in Plans, Execute(p) PROVE TypeOK'
  BY <1>1, PlansAssumption DEF Execute
<1>2. CASE Validate
  BY <1>2 DEF Validate
<1>3. CASE BeginApplying
  BY <1>3 DEF BeginApplying
<1>4. CASE CheckAgain
  BY <1>4 DEF CheckAgain
<1>5. CASE Complete
  BY <1>5 DEF Complete
<1>6. CASE Throw
  BY <1>6 DEF Throw
<1>7. CASE Crash
  BY <1>7 DEF Crash
<1>8. CASE UNCHANGED vars
  BY <1>8 DEF vars
<1>9. ASSUME NEW p \in Path, NEW v \in Value, Edit(p, v) PROVE TypeOK'
  BY <1>9 DEF Edit
<1>10. CASE Apply
  <2>1. cursor \in 1..Len(plan)
    BY <1>10 DEF Apply, ControlInv
  <2>2. plan[cursor].path \in Path /\ plan[cursor].after \in Value
    BY <2>1, ChangeInHand
  <2> QED
    BY <1>10, <2>2 DEF Apply, Value
<1>11. CASE Restore
  <2>1. cursor \in 1..Len(plan)
    BY <1>11 DEF Restore, ControlInv
  <2>2. plan[cursor].path \in Path /\ plan[cursor].before \in Value
    BY <2>1, ChangeInHand
  <2> QED
    <3>1. fs' \in [Path -> Value]
      BY <1>11, <2>2 DEF Restore
    <3>2. rollbackErrors' \in BOOLEAN
      BY <1>11 DEF Restore
    <3>3. cursor' \in Nat
      BY <1>11, <2>1 DEF Restore
    <3> QED
      BY <1>11, <3>1, <3>2, <3>3 DEF Restore
<1> QED
  BY <1>1, <1>2, <1>3, <1>4, <1>5, <1>6, <1>7, <1>8, <1>9, <1>10, <1>11 DEF Next, Step

\* Cursor and attempted prefix move together in every step.
LEMMA ControlStep == IInv /\ [Next]_vars => ControlInv'
<1> SUFFICES ASSUME IInv, [Next]_vars PROVE ControlInv'
  OBVIOUS
<1> USE DEF TypeOK, IInv, ControlInv
<1>0. Len(plan) \in Nat
  OBVIOUS
<1>1. ASSUME NEW p \in Plans, Execute(p) PROVE ControlInv'
  BY <1>1, PlansAssumption DEF Execute
<1>2. CASE Validate
  BY <1>0, <1>2 DEF Validate, Distinct
<1>3. CASE BeginApplying
  BY <1>0, <1>3 DEF BeginApplying, Distinct
<1>4. CASE CheckAgain
  BY <1>0, <1>4 DEF CheckAgain, Distinct
<1>5. CASE Complete
  BY <1>0, <1>5 DEF Complete, Distinct
<1>6. CASE Throw
  BY <1>0, <1>6 DEF Throw, Distinct
<1>7. CASE Crash
  BY <1>0, <1>7 DEF Crash, Distinct
<1>8. CASE UNCHANGED vars
  BY <1>0, <1>8 DEF vars, Distinct
<1>9. ASSUME NEW p \in Path, NEW v \in Value, Edit(p, v) PROVE ControlInv'
  BY <1>0, <1>9 DEF Edit, Claimed, Distinct
<1>10. CASE Apply
  BY <1>0, <1>10 DEF Apply, Distinct
<1>11. CASE Restore
  BY <1>0, <1>11 DEF Restore, Distinct
<1> QED
  BY <1>1, <1>2, <1>3, <1>4, <1>5, <1>6, <1>7, <1>8, <1>9, <1>10, <1>11 DEF Next, Step

\* What the executor has not attempted stays the outside's; what it attempts
\* held its precondition.
LEMMA ClaimStep == IInv /\ [Next]_vars => ClaimInv'
<1> SUFFICES ASSUME IInv, [Next]_vars PROVE ClaimInv'
  OBVIOUS
<1> USE DEF TypeOK, IInv
<1>0. Len(plan) \in Nat
  OBVIOUS
<1>1. ASSUME NEW p \in Plans, Execute(p) PROVE ClaimInv'
  BY <1>1 DEF Execute, ClaimInv
<1>2. CASE Validate
  BY <1>2 DEF Validate, ClaimInv
<1>3. CASE BeginApplying
  BY <1>3 DEF BeginApplying, ClaimInv
<1>4. CASE CheckAgain
  <2>1. cursor \in 1..Len(plan) /\ attempted = cursor - 1
    BY <1>0, <1>4 DEF CheckAgain, ControlInv
  <2>2. plan[cursor].path \in Path
    BY <2>1, ChangeInHand
  <2>3. \A k \in 1..attempted : plan[k].path # plan[cursor].path
    BY <2>1 DEF ControlInv, Distinct
  <2>4. CASE UNCHANGED attempted
    BY <1>4, <2>4 DEF CheckAgain, ClaimInv
  <2>5. CASE attempted' = cursor /\ fs[plan[cursor].path] = plan[cursor].before
    <3>1. world[plan[cursor].path] = plan[cursor].before
      BY <2>2, <2>3, <2>5 DEF ClaimInv
    <3>2. \A k \in 1..attempted' : k \in 1..attempted \/ k = cursor
      BY <2>1, <2>5
    <3>3. \A k \in 1..attempted : k \in 1..attempted'
      BY <2>1, <2>5
    <3> QED
      BY <1>4, <2>5, <3>1, <3>2, <3>3 DEF CheckAgain, ClaimInv
  <2> QED
    BY <1>4, <2>4, <2>5 DEF CheckAgain
<1>5. CASE Complete
  BY <1>5 DEF Complete, ClaimInv
<1>6. CASE Throw
  BY <1>6 DEF Throw, ClaimInv
<1>7. CASE Crash
  BY <1>7 DEF Crash, ClaimInv
<1>8. CASE UNCHANGED vars
  BY <1>8 DEF vars, ClaimInv
<1>9. ASSUME NEW p \in Path, NEW v \in Value, Edit(p, v) PROVE ClaimInv'
  <2>1. CASE Claimed(p)
    BY <1>9, <2>1 DEF Edit, Claimed, ClaimInv
  <2>2. CASE ~Claimed(p)
    <3>1. \A k \in 1..attempted : plan[k].path # p
      BY <1>9, <2>2 DEF Edit, Claimed, Running, ControlInv
    <3>2. \A k \in 1..attempted : plan[k].path \in Path
      BY <1>0, ChangeInHand DEF ControlInv
    <3> QED
      BY <1>9, <2>2, <3>1, <3>2 DEF Edit, ClaimInv
  <2> QED
    BY <2>1, <2>2
<1>10. CASE Apply
  <2>1. cursor \in 1..attempted
    BY <1>10 DEF Apply, ControlInv
  <2> QED
    BY <1>10, <2>1 DEF Apply, ClaimInv
<1>11. CASE Restore
  <2>1. cursor \in 1..attempted
    BY <1>11 DEF Restore, ControlInv
  <2> QED
    BY <1>11, <2>1 DEF Restore, ClaimInv
<1> QED
  BY <1>1, <1>2, <1>3, <1>4, <1>5, <1>6, <1>7, <1>8, <1>9, <1>10, <1>11 DEF Next, Step

\* Each attempted path holds what the executor's position says it holds.
LEMMA DiskStep == IInv /\ [Next]_vars => DiskInv'
<1> SUFFICES ASSUME IInv, [Next]_vars PROVE DiskInv'
  OBVIOUS
<1> USE DEF TypeOK, IInv
<1>0. /\ Len(plan) \in Nat
      /\ \A k \in 1..attempted : plan[k].path \in Path
  BY ChangeInHand DEF ControlInv
<1>1. ASSUME NEW p \in Plans, Execute(p) PROVE DiskInv'
  BY <1>1 DEF Execute, DiskInv
<1>2. CASE Validate
  BY <1>2 DEF Validate, ControlInv, DiskInv
<1>3. CASE BeginApplying
  BY <1>3 DEF BeginApplying, ControlInv, DiskInv
<1>4. CASE CheckAgain
  <2>1. cursor \in 1..Len(plan) /\ attempted = cursor - 1
    BY <1>0, <1>4 DEF CheckAgain, ControlInv
  <2>2. \A k \in 1..attempted : plan[k].path \notin raced =>
            fs[plan[k].path] = plan[k].after
    BY <1>4 DEF CheckAgain, DiskInv
  <2>3. CASE pc' = "rollback"
    BY <1>4, <2>1, <2>2, <2>3 DEF CheckAgain, DiskInv
  <2>4. CASE pc' = "apply"
    <3>1. \A k \in 1..attempted' : k \in 1..attempted \/ k = cursor
      BY <1>4, <2>1, <2>4 DEF CheckAgain
    <3> QED
      BY <1>4, <2>1, <2>2, <2>4, <3>1 DEF CheckAgain, DiskInv
  <2> QED
    BY <1>4, <2>3, <2>4 DEF CheckAgain
<1>5. CASE Complete
  BY <1>5 DEF Complete, DiskInv
<1>6. CASE Throw
  BY <1>6 DEF Throw, DiskInv
<1>7. CASE Crash
  BY <1>7 DEF Crash, DiskInv
<1>8. CASE UNCHANGED vars
  BY <1>8 DEF vars, DiskInv
<1>9. ASSUME NEW p \in Path, NEW v \in Value, Edit(p, v) PROVE DiskInv'
  <2>1. \A k \in 1..attempted : plan[k].path \notin raced' => plan[k].path # p
    BY <1>9 DEF Edit, Claimed, Running, ControlInv
  <2>2. raced \subseteq raced'
    BY <1>9 DEF Edit
  <2>3. \A k \in 1..attempted : plan[k].path # p => fs'[plan[k].path] = fs[plan[k].path]
    BY <1>0, <1>9 DEF Edit
  <2> QED
    BY <1>9, <2>1, <2>2, <2>3 DEF Edit, DiskInv
<1>10. CASE Apply
  <2>1. cursor \in 1..attempted /\ attempted = cursor
    BY <1>10 DEF Apply, ControlInv
  <2>2. \A k \in 1..attempted : k # cursor => plan[k].path # plan[cursor].path
    BY <2>1 DEF ControlInv, Distinct
  <2>3. \A k \in 1..attempted : k # cursor => fs'[plan[k].path] = fs[plan[k].path]
    BY <1>0, <1>10, <2>1, <2>2 DEF Apply
  <2>4. CASE pc' = "check"
    BY <1>0, <1>10, <2>1, <2>3, <2>4 DEF Apply, DiskInv
  <2>5. CASE pc' = "rollback"
    <3>1. plan[cursor].path \notin raced =>
             fs'[plan[cursor].path] \in {plan[cursor].before, plan[cursor].after}
      BY <1>0, <1>10, <2>1 DEF Apply, DiskInv
    <3> QED
      BY <1>10, <2>1, <2>3, <2>5, <3>1 DEF Apply, DiskInv
  <2> QED
    BY <1>10, <2>4, <2>5 DEF Apply
<1>11. CASE Restore
  <2>1. cursor \in 1..attempted
    BY <1>11 DEF Restore, ControlInv
  <2>2. \A k \in 1..attempted : k # cursor => plan[k].path # plan[cursor].path
    BY <1>0, <2>1 DEF ControlInv, Distinct
  <2>3. \A k \in 1..attempted : k # cursor => fs'[plan[k].path] = fs[plan[k].path]
    BY <1>0, <1>11, <2>1, <2>2 DEF Restore
  <2>4. CASE UNCHANGED fs /\ rollbackErrors' = TRUE
    BY <1>11, <2>1, <2>4 DEF Restore, DiskInv
  <2>5. CASE fs'[plan[cursor].path] = plan[cursor].before
    BY <1>11, <2>1, <2>3, <2>5 DEF Restore, DiskInv
  <2>6. plan[cursor].path \in Path
    BY <1>0, <2>1 DEF ControlInv
  <2> QED
    BY <1>0, <1>11, <2>1, <2>4, <2>5, <2>6 DEF Restore
<1> QED
  BY <1>1, <1>2, <1>3, <1>4, <1>5, <1>6, <1>7, <1>8, <1>9, <1>10, <1>11 DEF Next, Step

\* The last change is the commit point in every state the invariant allows.
LEMMA CommitPoint == IInv => LastChangeCommits
<1> SUFFICES ASSUME IInv, pc # "crashed", pc # "idle", Len(plan) > 0, ~rollbackErrors,
                    plan[Len(plan)].path \notin raced,
                    fs[plan[Len(plan)].path] = plan[Len(plan)].after,
                    fs[plan[Len(plan)].path] # world[plan[Len(plan)].path],
                    NEW k \in DOMAIN plan, plan[k].path \notin raced
             PROVE  fs[plan[k].path] = plan[k].after
  BY DEF IInv, LastChangeCommits
<1> USE DEF TypeOK, IInv
<1>0. Len(plan) \in 1..Len(plan) /\ k \in 1..Len(plan) /\ plan[Len(plan)].path \in Path
  BY ChangeInHand
<1>1. attempted = Len(plan)
  <2> SUFFICES ASSUME attempted < Len(plan) PROVE FALSE
    BY <1>0 DEF ControlInv
  <2>1. \A j \in 1..attempted : plan[j].path # plan[Len(plan)].path
    BY <1>0 DEF ControlInv, Distinct
  <2> QED
    BY <1>0, <2>1 DEF ClaimInv
<1>2. world[plan[Len(plan)].path] = plan[Len(plan)].before
  BY <1>0, <1>1 DEF ClaimInv
<1>3. CASE pc = "rollback"
  <2>1. cursor = Len(plan)
    BY <1>0, <1>1, <1>2, <1>3 DEF ControlInv, DiskInv
  <2> QED
    BY <1>0, <1>1, <1>3, <2>1 DEF DiskInv
<1>4. CASE pc = "apply"
  BY <1>0, <1>1, <1>2, <1>4 DEF ControlInv, DiskInv
<1>5. CASE pc = "failed"
  BY <1>0, <1>1, <1>2, <1>5 DEF DiskInv
<1>6. CASE pc \in {"check", "done"}
  BY <1>0, <1>1, <1>6 DEF DiskInv
<1>7. CASE pc = "validate"
  BY <1>0, <1>1, <1>7 DEF ControlInv
<1> QED
  BY <1>3, <1>4, <1>5, <1>6, <1>7

\* IInv is inductive.
LEMMA IInvStep == IInv /\ [Next]_vars => IInv'
<1> SUFFICES ASSUME IInv, [Next]_vars PROVE IInv'
  OBVIOUS
<1>1. TypeOK' /\ ControlInv' /\ ClaimInv' /\ DiskInv'
  BY TypeStep, ControlStep, ClaimStep, DiskStep
<1>2. pc' = "crashed" => LastChangeCommits'
  <2> SUFFICES ASSUME pc' = "crashed" PROVE LastChangeCommits'
    OBVIOUS
  <2>1. Crash \/ UNCHANGED vars
    BY DEF Next, Step, Execute, Validate, BeginApplying, CheckAgain, Apply, Complete,
           Restore, Throw, Edit, Running
  <2>2. pc # "idle"
    BY <2>1 DEF Crash, Running, vars
  <2>3. UNCHANGED <<fs, plan, rollbackErrors, world, raced>>
    BY <2>1 DEF Crash, vars
  <2> QED
    BY <2>2, <2>3, CommitPoint DEF LastChangeCommits
<1> QED
  BY <1>1, <1>2 DEF IInv

\* Every state the executor reaches, crashes and edits included, satisfies IInv.
THEOREM Invariance == Spec => []IInv
<1> QED
  BY InitIInv, IInvStep, PTL DEF Spec

\* execute() keeps its variables well typed.
THEOREM TypeCorrect == Spec => []TypeOK
<1>1. IInv => TypeOK
  BY DEF IInv
<1> QED
  BY <1>1, Invariance, PTL

\* A plan that reports success was applied whole, to the files it was planned
\* against (the return of execute()).
THEOREM CommitTheorem == Spec => []CommitIsWhole
<1>1. IInv => CommitIsWhole
  <2> SUFFICES ASSUME IInv, pc = "done", NEW p \in Path \ raced
               PROVE  IF InPlan(p)
                      THEN \A k \in DOMAIN plan : plan[k].path = p =>
                               fs[p] = plan[k].after /\ world[p] = plan[k].before
                      ELSE fs[p] = world[p]
    BY DEF CommitIsWhole
  <2> USE DEF TypeOK, IInv
  <2>1. attempted = Len(plan) /\ DOMAIN plan = 1..attempted
    BY DEF ControlInv
  <2>2. CASE InPlan(p)
    BY <2>1, <2>2 DEF InPlan, ClaimInv, DiskInv
  <2>3. CASE ~InPlan(p)
    BY <2>1, <2>3 DEF InPlan, ClaimInv
  <2> QED
    BY <2>2, <2>3
<1> QED
  BY <1>1, Invariance, PTL

\* A plan that fails and rolls back without error leaves no trace (the catch
\* branch of execute()).
THEOREM RollbackTheorem == Spec => []FailureLeavesNothing
<1>1. IInv => FailureLeavesNothing
  <2> SUFFICES ASSUME IInv, pc = "failed", ~rollbackErrors, NEW p \in Path \ raced
               PROVE  fs[p] = world[p]
    BY DEF FailureLeavesNothing
  <2> USE DEF TypeOK, IInv
  <2>1. CASE \E k \in 1..attempted : plan[k].path = p
    BY <2>1 DEF ClaimInv, DiskInv
  <2>2. CASE \A k \in 1..attempted : plan[k].path # p
    BY <2>2 DEF ClaimInv
  <2> QED
    BY <2>1, <2>2
<1> QED
  BY <1>1, Invariance, PTL

\* Wherever the process dies, the last change of the plan is on disk only when
\* the others are (the manifest's role in ExecuteInstallationPlan.ts).
THEOREM CommitPointTheorem == Spec => []LastChangeCommits
<1> QED
  BY CommitPoint, Invariance, PTL

\* execute() overwrites only bytes its plan accounts for, except at a path
\* edited after the second precondition check.
THEOREM OverwriteTheorem == Spec => UnseenBytesKept
<1>1. IInv /\ [Next]_vars =>
         [<<pc, cursor>>' # <<pc, cursor>> =>
          \A k \in DOMAIN plan :
              fs'[plan[k].path] # fs[plan[k].path] =>
                  \/ plan[k].path \in raced
                  \/ fs[plan[k].path] \in {plan[k].before, plan[k].after}]_vars
  <2> SUFFICES ASSUME IInv, Next, <<pc, cursor>>' # <<pc, cursor>>,
                      NEW k \in DOMAIN plan,
                      fs'[plan[k].path] # fs[plan[k].path],
                      plan[k].path \notin raced
               PROVE  fs[plan[k].path] \in {plan[k].before, plan[k].after}
    BY DEF vars
  <2> USE DEF TypeOK, IInv
  <2>0. k \in 1..Len(plan) /\ plan[k].path \in Path
    BY ChangeInHand
  <2>1. Apply \/ Restore
    BY DEF Next, Step, Execute, Validate, BeginApplying, CheckAgain, Complete, Throw, Edit, Crash
  <2>2. cursor \in 1..attempted
    BY <2>1 DEF Apply, Restore, ControlInv
  <2>3. plan[cursor].path = plan[k].path
    BY <2>0, <2>1, <2>2 DEF Apply, Restore
  <2>4. k = cursor
    BY <2>0, <2>2, <2>3 DEF ControlInv, Distinct
  <2>5. CASE Apply
    BY <2>2, <2>4, <2>5 DEF Apply, DiskInv
  <2>6. CASE Restore
    BY <2>2, <2>4, <2>6 DEF Restore, DiskInv
  <2> QED
    BY <2>1, <2>5, <2>6
<1> QED
  BY <1>1, Invariance, PTL DEF Spec, UnseenBytesKept
=============================================================================
