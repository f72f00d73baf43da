-------------------------- MODULE ToolBatchProofs ---------------------------
(***************************************************************************)
(* Theorems about ToolBatch for every number of calls and every set of     *)
(* declarations.  IInv is the inductive invariant all of them rest on: it  *)
(* says what the scheduler's two lists and the calls' executions have to   *)
(* do with the provider order.                                             *)
(***************************************************************************)
EXTENDS ToolBatch, ToolAccess, TLAPS

\* The loop's cursor separates the calls it handed to the scheduler from those
\* it has not prepared.
CursorSplits ==
    \A i \in Calls:
        /\ i < cursor => task[i] \notin {"absent", "recorded"}
        /\ i = cursor => task[i] \in {"absent", "recorded"}
        /\ i > cursor => task[i] = "absent"

\* Only a started call has executed, and while the signal is not aborted a
\* running call still holds its place in activeTasks.
ExecutionIsStarted ==
    \A i \in Calls:
        /\ exec[i] # "none" => task[i] \in {"active", "resolved", "finished"}
        /\ exec[i] = "running" /\ ~aborted => task[i] = "active"

\* Only calls that execute wait in the queue.
QueuedExecute == \A i \in Queued: executes[i]

ResolvedTouchNothing == \A i \in Calls: ~executes[i] => accesses[i] = NoAccess

ActiveAreDisjoint ==
    \A i, j \in Active: i # j => ~Excludes(accesses[i], accesses[j])

\* No active call has overtaken a queued one it conflicts with.
NoOvertaking ==
    \A i \in Queued, j \in Active: i < j => ~Excludes(accesses[i], accesses[j])

IInv ==
    /\ TypeOK
    /\ CursorSplits
    /\ ExecutionIsStarted
    /\ QueuedExecute
    /\ ResolvedTouchNothing
    /\ ActiveAreDisjoint
    /\ NoOvertaking
    /\ NoConflictingExecution
    /\ NoMissedWakeup
-----------------------------------------------------------------------------
\* What every conjunct of IInv but TypeOK speaks of.
core == << cursor, task, executes, accesses, exec, aborted >>

USE DEF Calls

LEMMA ExclusionFacts ==
    /\ \A a, b \in Accesses \cup {NoAccess}: Excludes(a, b) <=> Excludes(b, a)
    /\ \A a \in Accesses \cup {NoAccess}: ~Excludes(NoAccess, a)
  BY ExclusionAssumption

\* A step that leaves the core alone preserves all of IInv but TypeOK.
LEMMA CoreStutters ==
    ASSUME IInv, UNCHANGED core, TypeOK'
    PROVE  IInv'
  BY DEF IInv, core, CursorSplits, ExecutionIsStarted, QueuedExecute,
         ResolvedTouchNothing, ActiveAreDisjoint, NoOvertaking,
         NoConflictingExecution, NoMissedWakeup, Active, Queued

LEMMA InitIInv == Init => IInv
  <1> SUFFICES ASSUME Init PROVE IInv
      OBVIOUS
  <1>1. TypeOK
    <2>1. executes \in [Calls -> BOOLEAN] /\ stopTurn \in BOOLEAN /\ aborted \in BOOLEAN
        BY Zenon DEF Init
    <2>2. task \in [Calls -> {"absent", "recorded", "queued", "active",
                             "resolved", "finished"}]
        BY DEF Init
    <2>3. exec \in [Calls -> {"none", "running", "ended"}]
        BY DEF Init
    <2>4. accesses \in [Calls -> Accesses \cup {NoAccess}]
        BY DEF Init
    <2> QED
        BY <2>1, <2>2, <2>3, <2>4, NAssumption DEF Init, TypeOK
  <1>2. Active = {} /\ Queued = {}
      BY DEF Init, Active, Queued
  <1> QED
      BY <1>1, <1>2 DEF Init, IInv, CursorSplits, ExecutionIsStarted, QueuedExecute,
         ResolvedTouchNothing, ActiveAreDisjoint, NoOvertaking,
         NoConflictingExecution, NoMissedWakeup

\* Recording a call's tool.call event: the call is in neither list, so only
\* its place before the cursor and its declaration matter.
LEMMA RecordPreserves ==
    ASSUME IInv, NEW i \in Calls, NEW runs \in BOOLEAN,
           NEW acc \in Accesses \cup {NoAccess}, ~runs => acc = NoAccess,
           Preparing(i), Record(i, runs, acc), UNCHANGED << cursor, exec, aborted >>,
           TypeOK'
    PROVE  IInv'
  <1> USE DEF IInv, Preparing, Record
  <1>1. Active' = Active /\ Queued' = Queued
      BY DEF Active, Queued, TypeOK
  <1>2. i \notin Active /\ i \notin Queued /\ exec[i] = "none"
      BY DEF Active, Queued, ExecutionIsStarted, TypeOK
  <1>3. \A j \in Calls \ {i}: accesses'[j] = accesses[j] /\ executes'[j] = executes[j]
                               /\ task'[j] = task[j]
      BY DEF TypeOK
  <1>4. task'[i] = "recorded" /\ executes'[i] = runs /\ accesses'[i] = acc
      BY DEF TypeOK
  <1>5. CursorSplits'
      BY <1>3, <1>4 DEF CursorSplits, TypeOK
  <1>6. ExecutionIsStarted'
      BY <1>2, <1>3 DEF ExecutionIsStarted
  <1>7. QueuedExecute' /\ ResolvedTouchNothing'
      BY <1>1, <1>2, <1>3, <1>4 DEF QueuedExecute, ResolvedTouchNothing, Queued
  <1>8. ActiveAreDisjoint' /\ NoOvertaking'
      BY <1>1, <1>2, <1>3 DEF ActiveAreDisjoint, NoOvertaking, Active, Queued
  <1>9. NoConflictingExecution' /\ NoMissedWakeup'
      BY <1>1, <1>2, <1>3 DEF NoConflictingExecution, NoMissedWakeup, Active, Queued
  <1> QED
      BY <1>5, <1>6, <1>7, <1>8, <1>9

LEMMA AddPreserves ==
    ASSUME IInv, NEW i \in Calls, Add(i)
    PROVE  IInv'
  <1> USE DEF IInv, Add
  <1>1. TypeOK'
      BY NAssumption DEF TypeOK, Started, Exits
  <1>2. UNCHANGED << accesses, executes, aborted >> /\ cursor' = cursor + 1
      OBVIOUS
  <1>3. \A j \in Calls \ {i}: task'[j] = task[j] /\ exec'[j] = exec[j]
      BY DEF TypeOK, Started, Executing
  <1>4. \A j \in Active \cup Queued: j < i
      BY DEF CursorSplits, Active, Queued, TypeOK
  <1>5. CursorSplits'
      BY <1>1, <1>3 DEF CursorSplits, TypeOK
  <1>6. ResolvedTouchNothing'
      BY <1>2 DEF ResolvedTouchNothing
  <1>7. CASE Blocked(i, Active, Queued)
    <2>1. task' = [task EXCEPT ![i] = "queued"] /\ exec' = exec
        BY <1>7, <1>1 DEF Started, Executing, TypeOK
    <2>2. Active' = Active /\ Queued' = Queued \cup {i}
      <3>1. task'[i] = "queued" /\ task[i] = "recorded"
          BY <2>1 DEF TypeOK
      <3> QED
          BY <1>3, <3>1 DEF Active, Queued
    <2>3. PICK b \in Active \cup Queued: Excludes(accesses[i], accesses[b])
        BY <1>7 DEF Blocked
    <2>4. b < i /\ b \in Calls
        BY <1>4 DEF Active, Queued
    <2>5. executes[i]
        BY <2>3, <2>4, ExclusionFacts DEF ResolvedTouchNothing, TypeOK
    <2>6. ExecutionIsStarted'
        BY <2>1, <1>2 DEF ExecutionIsStarted, TypeOK
    <2>7. QueuedExecute'
        BY <2>2, <2>5, <1>2 DEF QueuedExecute
    <2>8. ActiveAreDisjoint' /\ NoConflictingExecution'
        BY <2>1, <2>2, <1>2 DEF ActiveAreDisjoint, NoConflictingExecution
    <2>9. NoOvertaking'
        BY <2>2, <1>2, <1>4 DEF NoOvertaking, Active, Queued
    <2>10. NoMissedWakeup'
        BY <2>2, <2>3, <2>4, <1>2 DEF NoMissedWakeup
    <2> QED
        BY <1>1, <1>5, <1>6, <2>6, <2>7, <2>8, <2>9, <2>10
  <1>8. CASE ~Blocked(i, Active, Queued)
    <2>1. task' = [task EXCEPT ![i] = "active"]
        BY <1>8
    <2>2. exec' = [exec EXCEPT ![i] = IF executes[i] /\ ~aborted THEN "running" ELSE exec[i]]
        BY <1>8 DEF Started, Executing, TypeOK
    <2>3. Active' = Active \cup {i} /\ Queued' = Queued
      <3>1. task'[i] = "active" /\ task[i] = "recorded"
          BY <2>1 DEF TypeOK
      <3> QED
          BY <1>3, <3>1 DEF Active, Queued
    <2>4. \A j \in Active \cup Queued:
              ~Excludes(accesses[i], accesses[j]) /\ ~Excludes(accesses[j], accesses[i])
        BY <1>8, ExclusionFacts DEF Blocked, Active, Queued, TypeOK
    <2>5. ExecutionIsStarted'
        BY <2>1, <2>2, <1>2 DEF ExecutionIsStarted, TypeOK
    <2>6. QueuedExecute'
        BY <2>3, <1>2 DEF QueuedExecute
    <2>7. ActiveAreDisjoint' /\ NoOvertaking'
        BY <2>3, <2>4, <1>2 DEF ActiveAreDisjoint, NoOvertaking
    <2>8. NoMissedWakeup'
        BY <2>3, <1>2 DEF NoMissedWakeup
    <2>9. NoConflictingExecution'
      <3>1. ASSUME NEW j \in Calls, j # i, exec[j] = "running",
                   executes[i], ~aborted
            PROVE  j \in Active
          BY <3>1 DEF ExecutionIsStarted, Active
      <3> QED
          BY <2>2, <2>4, <3>1, <1>2 DEF NoConflictingExecution, ExecutionIsStarted, TypeOK
    <2> QED
        BY <1>1, <1>5, <1>6, <2>5, <2>6, <2>7, <2>8, <2>9
  <1> QED
      BY <1>7, <1>8

LEMMA FinishPreserves ==
    ASSUME IInv, NEW i \in Calls, Finish(i)
    PROVE  IInv'
  <1> DEFINE S == Released(Active \ {i})
  <1> USE DEF IInv
  <1>1. exec[i] # "running" \/ aborted
      BY DEF Finish, ExecutionIsStarted
  <1>2. UNCHANGED << accesses, executes, aborted, cursor >>
      BY DEF Finish
  <1>3. S \subseteq Queued /\ S \subseteq Calls
      BY DEF Released, Queued
  <1>4. task' = [j \in Calls |-> IF j = i THEN "finished" ELSE IF j \in S THEN "active" ELSE task[j]]
      BY DEF Finish
  <1>5. exec' = [j \in Calls |-> IF j \in S /\ executes[j] /\ ~aborted THEN "running" ELSE exec[j]]
      BY DEF Finish, Started, Executing
  <1>6. task[i] = "resolved" /\ i \in Active /\ i \notin Queued
      BY DEF Finish, Active, Queued
  <1>7. Active' = (Active \ {i}) \cup S /\ Queued' = Queued \ S
    <2>1. \A j \in Calls: j \in Active' <=> (j \in Active /\ j # i) \/ j \in S
        BY <1>3, <1>4, <1>6 DEF Active, Queued
    <2>2. \A j \in Calls: j \in Queued' <=> j \in Queued /\ j \notin S
        BY <1>3, <1>4, <1>6 DEF Queued
    <2> QED
        BY <2>1, <2>2, <1>3 DEF Active, Queued
  <1>8. \A j \in S: \A k \in (Active \ {i}) \cup {q \in Queued: q < j}:
            ~Excludes(accesses[j], accesses[k]) /\ ~Excludes(accesses[k], accesses[j])
    <2>1. \A j \in S: \A k \in (Active \ {i}) \cup {q \in Queued: q < j}:
              ~Excludes(accesses[j], accesses[k])
        BY DEF Released, Blocked
    <2>2. \A j \in Active \cup Queued: accesses[j] \in Accesses \cup {NoAccess}
        BY DEF TypeOK, Active, Queued
    <2> QED
        BY <2>1, <2>2, <1>3, ExclusionFacts
  <1>9. TypeOK'
    <2>1. task' \in [Calls -> {"absent", "recorded", "queued", "active", "resolved", "finished"}]
        BY <1>4 DEF TypeOK
    <2>2. exec' \in [Calls -> {"none", "running", "ended"}]
        BY <1>5 DEF TypeOK
    <2> QED
        BY <2>1, <2>2 DEF Finish, TypeOK
  <1>10. CursorSplits'
      BY <1>2, <1>3, <1>4, <1>6 DEF CursorSplits, Queued
  <1>11. ExecutionIsStarted'
      BY <1>2, <1>3, <1>4, <1>5, <1>6 DEF ExecutionIsStarted, Queued
  <1>12. QueuedExecute' /\ ResolvedTouchNothing'
      BY <1>2, <1>7 DEF QueuedExecute, ResolvedTouchNothing
  <1>13. ActiveAreDisjoint'
    <2>1. \A j, k \in S: j # k => ~Excludes(accesses[j], accesses[k])
        BY <1>3, <1>8
    <2> QED
        BY <2>1, <1>2, <1>7, <1>8 DEF ActiveAreDisjoint
  <1>14. NoOvertaking'
      BY <1>2, <1>3, <1>7, <1>8 DEF NoOvertaking, Active, Queued
  <1>15. NoConflictingExecution'
    <2>1. ASSUME NEW j \in Calls, exec[j] = "running", ~aborted
          PROVE  j \in Active \ {i}
        BY <2>1, <1>6 DEF ExecutionIsStarted, Active
    <2>2. CASE aborted
        BY <2>2, <1>2, <1>5 DEF NoConflictingExecution
    <2>3. CASE ~aborted
      <3>1. \A j \in Calls: exec'[j] = "running" => j \in Active'
          BY <2>1, <2>3, <1>5, <1>7
      <3> QED
          BY <3>1, <1>13 DEF NoConflictingExecution, ActiveAreDisjoint
    <2> QED
        BY <2>2, <2>3
  <1>16. NoMissedWakeup'
    <2> SUFFICES ASSUME NEW j \in Queued \ S
                 PROVE  \E k \in Active' \cup Queued':
                            k < j /\ Excludes(accesses[j], accesses[k])
        BY <1>2, <1>7 DEF NoMissedWakeup
    <2>1. PICK k \in (Active \ {i}) \cup {q \in Queued: q < j}:
              Excludes(accesses[j], accesses[k])
        BY DEF Released, Blocked
    <2>2. k \in Calls /\ j \in Calls /\ k # j
        BY <2>1 DEF Active, Queued
    <2>3. Excludes(accesses[k], accesses[j])
        BY <2>1, <2>2, ExclusionFacts DEF TypeOK
    <2>4. k < j
        BY <2>1, <2>2, <2>3 DEF NoOvertaking
    <2>5. k \in Active' \cup Queued'
        BY <1>7, <2>1
    <2> QED
        BY <2>1, <2>4, <2>5
  <1> QED
      BY <1>9, <1>10, <1>11, <1>12, <1>13, <1>14, <1>15, <1>16

LEMMA ResolvePreserves ==
    ASSUME IInv, NEW i \in Calls, Resolve(i)
    PROVE  IInv'
  <1> USE DEF IInv, Resolve
  <1>1. TypeOK'
      BY DEF TypeOK
  <1>2. Active' = Active /\ Queued' = Queued
      BY DEF Active, Queued, TypeOK
  <1>3. CursorSplits' /\ ExecutionIsStarted'
      BY DEF CursorSplits, ExecutionIsStarted, TypeOK
  <1> QED
      BY <1>1, <1>2, <1>3 DEF QueuedExecute, ResolvedTouchNothing, ActiveAreDisjoint,
         NoOvertaking, NoConflictingExecution, NoMissedWakeup

LEMMA ToolReturnsPreserves ==
    ASSUME IInv, NEW i \in Calls, ToolReturns(i)
    PROVE  IInv'
  <1> USE DEF IInv, ToolReturns
  <1>1. TypeOK'
      BY DEF TypeOK
  <1>2. Active' = Active /\ Queued' = Queued
      BY DEF Active, Queued
  <1>3. ExecutionIsStarted' /\ NoConflictingExecution'
      BY DEF ExecutionIsStarted, NoConflictingExecution, TypeOK
  <1> QED
      BY <1>1, <1>2, <1>3 DEF CursorSplits, QueuedExecute, ResolvedTouchNothing,
         ActiveAreDisjoint, NoOvertaking, NoMissedWakeup

LEMMA AbortPreserves == IInv /\ Abort => IInv'
  <1> SUFFICES ASSUME IInv, Abort PROVE IInv'
      OBVIOUS
  <1> USE DEF IInv, Abort
  <1>1. TypeOK' /\ ExecutionIsStarted'
      BY DEF TypeOK, ExecutionIsStarted
  <1>2. Active' = Active /\ Queued' = Queued
      BY DEF Active, Queued
  <1> QED
      BY <1>1, <1>2 DEF CursorSplits, QueuedExecute, ResolvedTouchNothing,
         ActiveAreDisjoint, NoOvertaking, NoConflictingExecution, NoMissedWakeup

LEMMA PreparePreserves ==
    ASSUME IInv, NEW i \in Calls, Prepare(i)
    PROVE  IInv'
  <1> USE DEF IInv
  <1>1. ASSUME NEW acc \in Accesses, NEW stops \in BOOLEAN, PrepareRunnable(i, acc, stops)
        PROVE  IInv'
    <2>1. TypeOK'
        BY <1>1 DEF PrepareRunnable, Record, TypeOK
    <2> QED
        BY <1>1, <2>1, RecordPreserves DEF PrepareRunnable
  <1>2. ASSUME NEW stops \in BOOLEAN, PrepareResolved(i, stops)
        PROVE  IInv'
    <2>1. TypeOK'
        BY <1>2 DEF PrepareResolved, Record, TypeOK
    <2> QED
        BY <1>2, <2>1, RecordPreserves DEF PrepareResolved
  <1>3. CASE PrepareSkipped(i)
    <2>1. TypeOK'
        BY <1>3 DEF PrepareSkipped, Record, TypeOK
    <2> QED
        BY <1>3, <2>1, RecordPreserves DEF PrepareSkipped
  <1> QED
      BY <1>1, <1>2, <1>3 DEF Prepare

\* The steps of runToolCallBatch that leave the scheduler alone.
LEMMA BatchPreserves ==
    ASSUME IInv,
           \/ \E i \in Calls: DispatchFails(i) \/ \E stops \in BOOLEAN: Drain(i, stops)
           \/ Exit
           \/ Done
           \/ UNCHANGED vars
    PROVE  IInv'
  <1> USE DEF IInv
  <1>1. ASSUME NEW i \in Calls, DispatchFails(i)
        PROVE  IInv'
    <2>1. TypeOK' /\ UNCHANGED core
        BY <1>1 DEF DispatchFails, TypeOK, core
    <2> QED
        BY <2>1, CoreStutters
  <1>2. ASSUME NEW i \in Calls, NEW stops \in BOOLEAN, Drain(i, stops)
        PROVE  IInv'
    <2>1. TypeOK'
      <3>1. stopTurn' \in BOOLEAN
          BY <1>2, Zenon DEF Drain, TypeOK
      <3>2. emitted' \in 0..N
          BY <1>2 DEF Drain, TypeOK
      <3> QED
          BY <1>2, <3>1, <3>2 DEF Drain, TypeOK
    <2>2. UNCHANGED core
        BY <1>2 DEF Drain, core
    <2> QED
        BY <2>1, <2>2, CoreStutters
  <1>3. CASE Exit
    <2>1. TypeOK' /\ UNCHANGED core
        BY <1>3 DEF Exit, Exits, TypeOK, core
    <2> QED
        BY <2>1, CoreStutters
  <1>4. CASE Done \/ UNCHANGED vars
    <2>1. TypeOK' /\ UNCHANGED core
        BY <1>4 DEF Done, vars, TypeOK, core
    <2> QED
        BY <2>1, CoreStutters
  <1> QED
      BY <1>1, <1>2, <1>3, <1>4

LEMMA StepIInv == IInv /\ [Next]_vars => IInv'
  <1> SUFFICES ASSUME IInv, [Next]_vars PROVE IInv'
      OBVIOUS
  <1>1. ASSUME NEW i \in Calls, Prepare(i) PROVE IInv'
      BY <1>1, PreparePreserves
  <1>2. ASSUME NEW i \in Calls, Runtime(i) PROVE IInv'
      BY <1>2, AddPreserves, ResolvePreserves, FinishPreserves, BatchPreserves DEF Runtime
  <1>3. ASSUME NEW i \in Calls, ToolReturns(i) PROVE IInv'
      BY <1>3, ToolReturnsPreserves
  <1>4. CASE Abort
      BY <1>4, AbortPreserves
  <1> QED
      BY <1>1, <1>2, <1>3, <1>4, BatchPreserves DEF Next

LEMMA SpecIInv == Spec => []IInv
  <1> QED
      BY InitIInv, StepIInv, PTL DEF Spec
-----------------------------------------------------------------------------
(* What follows for the batch. *)

\* The variables of the batch and of its scheduler keep their types.
THEOREM TypeCorrect == Spec => []TypeOK
  <1>1. IInv => TypeOK
      BY DEF IInv
  <1> QED
      BY <1>1, SpecIInv, PTL

\* ToolScheduler excludes conflicting executions, also after an abort has left
\* tools running that ignore it.
THEOREM Exclusion == Spec => []NoConflictingExecution
  <1>1. IInv => NoConflictingExecution
      BY DEF IInv
  <1> QED
      BY <1>1, SpecIInv, PTL

\* ToolScheduler.finish forgets no queued call.
THEOREM Wakeup == Spec => []NoMissedWakeup
  <1>1. IInv => NoMissedWakeup
      BY DEF IInv
  <1> QED
      BY <1>1, SpecIInv, PTL

\* runRunnableToolCall starts no tool once the signal is aborted.
THEOREM AbortIsFinal == Spec => NoStartAfterAbort
  <1> DEFINE Quiet == \A i \in Calls: exec'[i] = "running" => exec[i] = "running"
  <1>1. ASSUME IInv, [Next]_vars, aborted
        PROVE  Quiet
    <2> USE <1>1
    <2>1. ASSUME NEW S, Started(S) PROVE Quiet
        BY <2>1 DEF Started, Executing
    <2>2. ASSUME NEW i \in Calls, Add(i) \/ Finish(i) PROVE Quiet
        BY <2>1, <2>2 DEF Add, Finish
    <2>3. ASSUME NEW i \in Calls, ToolReturns(i) PROVE Quiet
        BY <2>3 DEF ToolReturns, IInv, TypeOK
    <2>4. CASE UNCHANGED exec
        BY <2>4
    <2> QED
        BY <2>2, <2>3, <2>4 DEF Next, Prepare, Runtime, PrepareRunnable, PrepareResolved,
           PrepareSkipped, Resolve, Drain, DispatchFails, Exit, Abort, Done, vars
  <1>2. IInv /\ [Next]_vars => [aborted => Quiet]_vars
      BY <1>1
  <1> QED
      BY <1>2, SpecIInv, PTL DEF Spec, NoStartAfterAbort

\* No call that was left with the scheduler: what remains of NothingLeftBehind
\* next to ExecutionIsStarted.
LeftIdle == phase \in Exits => \A i \in Calls: task[i] \notin {"queued", "active"}

\* The batch is left only when everything handed over has its result, and then
\* no pass over the queue has anything to start.
LEMMA LeftIdleStep == IInv /\ LeftIdle /\ [Next]_vars => LeftIdle'
  <1> SUFFICES ASSUME IInv, LeftIdle, [Next]_vars, phase' \in Exits, NEW i \in Calls
               PROVE  task'[i] \notin {"queued", "active"}
      BY DEF LeftIdle
  <1>0. task \in [Calls -> {"absent", "recorded", "queued", "active",
                            "resolved", "finished"}]
      BY DEF IInv, TypeOK
  <1>1. CASE Exit
    <2>1. task' = task
        BY <1>1 DEF Exit
    <2>2. CASE i < cursor
        BY <1>1, <2>1, <2>2 DEF Exit, Added, Settled
    <2>3. CASE ~(i < cursor)
      <3>1. i = cursor \/ i > cursor
          BY <2>3, NAssumption DEF IInv, TypeOK
      <3> QED
          BY <2>1, <3>1 DEF CursorSplits, IInv
    <2> QED
        BY <2>2, <2>3
  <1>2. CASE phase \in Exits
    <2>1. \A j \in Calls: task[j] \notin {"queued", "active"}
        BY <1>2 DEF LeftIdle
    <2>2. ASSUME NEW j \in Calls, Finish(j) PROVE task'[i] \notin {"queued", "active"}
        BY <1>0, <2>1, <2>2 DEF Finish, Released, Queued
    <2>3. ASSUME NEW j \in Calls,
                 \/ Prepare(j) \/ Add(j) \/ Resolve(j) \/ ToolReturns(j)
                 \/ (\E stops \in BOOLEAN: Drain(j, stops)) \/ DispatchFails(j)
          PROVE  task'[i] \notin {"queued", "active"}
        BY <1>2, <2>1, <2>3 DEF Exits, Prepare, PrepareRunnable, PrepareResolved,
           PrepareSkipped, Preparing, Add, Resolve, ToolReturns, Drain, DispatchFails
    <2>4. CASE Abort \/ Done \/ UNCHANGED vars
        BY <2>1, <2>4 DEF Abort, Done, vars
    <2> QED
        BY <1>1, <2>2, <2>3, <2>4 DEF Next, Runtime
  <1>3. CASE phase \notin Exits /\ ~Exit
    <2>1. FALSE
      <3>1. ASSUME NEW j \in Calls, Prepare(j) \/ Runtime(j) \/ ToolReturns(j)
            PROVE  phase' = phase \/ phase' \in {"preparing", "draining"}
          BY <3>1 DEF Prepare, PrepareRunnable, PrepareResolved, PrepareSkipped, Runtime,
             Add, Resolve, Finish, Drain, ToolReturns
      <3>2. ASSUME NEW j \in Calls, DispatchFails(j) PROVE phase' = "settling"
          BY <3>2 DEF DispatchFails
      <3>3. CASE Abort \/ Done \/ UNCHANGED vars
          BY <1>3, <3>3 DEF Abort, Done, vars
      <3> QED
          BY <1>3, <3>1, <3>2, <3>3 DEF Next, Exits
    <2> QED
        BY <2>1
  <1> QED
      BY <1>1, <1>2, <1>3

\* runToolCallBatch leaves no call with the scheduler, and a tool behind only
\* when it was aborted, whichever way it is left.
THEOREM CleanExit == Spec => []NothingLeftBehind
  <1>1. Init => LeftIdle
      BY DEF Init, LeftIdle, Exits
  <1>2. IInv /\ LeftIdle => NothingLeftBehind
      BY DEF IInv, LeftIdle, NothingLeftBehind, ExecutionIsStarted
  <1> QED
      BY <1>1, <1>2, LeftIdleStep, SpecIInv, PTL DEF Spec
-----------------------------------------------------------------------------
(* The batch implements ToolOrder. *)

\* What a step does to the fate of each call.
LEMMA FateIs ==
    ASSUME TypeOK
    PROVE  \A i \in Calls:
        /\ Fate[i] = "unknown" <=> task[i] = "absent"
        /\ Fate[i] = "waiting" <=> task[i] \in {"recorded", "queued"}
        /\ task[i] \in {"active", "resolved", "finished"} =>
               Fate[i] = IF exec[i] = "none" THEN "dropped" ELSE exec[i]
  BY DEF Fate, TypeOK

LEMMA InitOrder == Init => Order!Init
  <1> SUFFICES ASSUME Init PROVE Order!Init
      OBVIOUS
  <1>1. Fate = [i \in Calls |-> "unknown"]
      BY DEF Init, Fate
  <1>2. accesses \in [Calls -> Accesses \cup {NoAccess}]
      BY DEF Init
  <1> QED
      BY <1>1, <1>2 DEF Order!Init, Order!Calls

LEMMA FateStutters ==
    ASSUME UNCHANGED << task, exec, accesses >>
    PROVE  UNCHANGED Order!vars
  BY DEF Order!vars, Fate

LEMMA RecordArrives ==
    ASSUME IInv, IInv', NEW i \in Calls, NEW runs \in BOOLEAN,
           NEW acc \in Accesses \cup {NoAccess},
           Preparing(i), Record(i, runs, acc), UNCHANGED exec
    PROVE  Order!Arrive(i, acc)
  <1> USE DEF IInv, Preparing, Record
  <1>1. Fate[i] = "unknown"
      BY FateIs
  <1>2. \A j \in Calls: j < i => Fate[j] # "unknown"
      BY FateIs DEF CursorSplits
  <1>3. Fate' = [Fate EXCEPT ![i] = "waiting"]
      BY DEF Fate, TypeOK
  <1> QED
      BY <1>1, <1>2, <1>3 DEF Order!Arrive, Order!Calls

\* Starting S: those of S that execute start together, or, after an abort,
\* those of S are dropped together.
LEMMA StartImplements ==
    ASSUME IInv, IInv', NEW S \in SUBSET Calls, Started(S), UNCHANGED << accesses, aborted >>,
           \A j \in S: task[j] \in {"recorded", "queued"} /\ task'[j] = "active",
           \A j \in Calls \ S: Fate'[j] = Fate[j],
           (\A j \in S: executes[j]) \/ \A j \in S: ~executes[j],
           \A j \in S: \A k \in Calls: Excludes(accesses[j], accesses[k]) =>
               /\ k \in Active => task[k] = "resolved"
               /\ k < j => task[k] \in {"active", "resolved", "finished"}
    PROVE  Order!Start(S) \/ Order!Drop(S)
  <1> USE DEF IInv
  <1>1. \A j \in S: Fate[j] = "waiting" /\ exec[j] = "none"
      BY FateIs DEF ExecutionIsStarted, TypeOK
  <1>2. \A j \in Calls: exec'[j] = IF j \in S /\ executes[j] /\ ~aborted THEN "running" ELSE exec[j]
      BY DEF Started, Executing
  <1>3. \A j \in Calls \ S: Fate'[j] = Fate[j]
      OBVIOUS
  <1>4. UNCHANGED accesses
      OBVIOUS
  <1>5. CASE aborted \/ \A j \in S: ~executes[j]
    <2>1. \A j \in S: Fate'[j] = "dropped"
        BY <1>1, <1>2, <1>5 DEF Fate
    <2>2. Fate' = [j \in Calls |-> IF j \in S THEN "dropped" ELSE Fate[j]]
        BY <1>3, <2>1 DEF Fate
    <2> QED
        BY <1>1, <1>4, <2>2 DEF Order!Drop, Order!Calls
  <1>6. CASE ~aborted /\ \A j \in S: executes[j]
    <2>1. \A j \in S: Fate'[j] = "running"
        BY <1>1, <1>2, <1>6 DEF Fate
    <2>2. Fate' = [j \in Calls |-> IF j \in S THEN "running" ELSE Fate[j]]
        BY <1>3, <2>1 DEF Fate
    <2>3. ASSUME NEW j \in S, NEW k \in Calls, Excludes(accesses[j], accesses[k])
          PROVE  Fate[k] # "running" /\ (k < j => Fate[k] \in {"ended", "dropped"})
      <3>1. exec[k] # "running"
          BY <1>6, <2>3 DEF ExecutionIsStarted, Active
      <3>2. Fate[k] # "running"
          BY <3>1 DEF Fate
      <3>3. ASSUME k < j PROVE Fate[k] \in {"ended", "dropped"}
        <4>1. task[k] \in {"active", "resolved", "finished"}
            BY <2>3, <3>3
        <4> QED
            BY <3>1, <4>1, FateIs DEF TypeOK
      <3> QED
          BY <3>2, <3>3
    <2>4. \A j \in S: Order!MayStart(j)
        BY <1>1, <2>3 DEF Order!MayStart, Order!Clash, Order!Calls
    <2> QED
        BY <1>4, <2>2, <2>4 DEF Order!Start, Order!Calls
  <1> QED
      BY <1>5, <1>6

LEMMA AddImplements ==
    ASSUME IInv, IInv', NEW i \in Calls, Add(i)
    PROVE  [Order!Next]_(Order!vars)
  <1> USE DEF IInv, Add
  <1>1. \A j \in Calls \ {i}: task'[j] = task[j] /\ exec'[j] = exec[j]
      BY DEF TypeOK, Started, Executing
  <1>2. CASE Blocked(i, Active, Queued)
    <2>1. Fate' = Fate
      <3>1. Fate'[i] = Fate[i]
          BY <1>2 DEF Fate, TypeOK
      <3> QED
          BY <1>1, <3>1 DEF Fate
    <2> QED
        BY <2>1 DEF Order!vars
  <1>3. CASE ~Blocked(i, Active, Queued)
    <2>1. Started({i}) /\ task[i] = "recorded" /\ task'[i] = "active"
        BY <1>3 DEF TypeOK
    <2>2. \A j \in Calls \ {i}: Fate'[j] = Fate[j]
        BY <1>1 DEF Fate
    <2>3. ASSUME NEW k \in Calls, Excludes(accesses[i], accesses[k])
          PROVE  k \notin Active /\ (k < i => task[k] \in {"active", "resolved", "finished"})
      <3>1. k \notin Active /\ k \notin Queued
          BY <1>3, <2>3 DEF Blocked
      <3>2. k < i => task[k] \notin {"absent", "recorded"}
          BY DEF CursorSplits
      <3> QED
          BY <3>1, <3>2 DEF Queued, TypeOK
    <2>4. Order!Start({i}) \/ Order!Drop({i})
        BY <2>1, <2>2, <2>3, StartImplements
    <2> QED
        BY <2>4 DEF Order!Next, Order!Calls
  <1> QED
      BY <1>2, <1>3

LEMMA FinishImplements ==
    ASSUME IInv, IInv', NEW i \in Calls, Finish(i)
    PROVE  [Order!Next]_(Order!vars)
  <1> DEFINE S == Released(Active \ {i})
  <1> USE DEF IInv
  <1>1. S \subseteq Queued /\ S \in SUBSET Calls
      BY DEF Released, Queued
  <1>2. task[i] = "resolved" /\ Started(S) /\ UNCHANGED << accesses, aborted >>
      BY DEF Finish
  <1>3. task' = [j \in Calls |-> IF j = i THEN "finished" ELSE IF j \in S THEN "active" ELSE task[j]]
      BY DEF Finish
  <1>4. \A j \in S: task[j] = "queued" /\ task'[j] = "active" /\ executes[j]
      BY <1>1, <1>2, <1>3 DEF Queued, QueuedExecute
  <1>5. \A j \in Calls \ S: exec'[j] = exec[j]
      BY <1>2 DEF Started, Executing
  <1>6. \A j \in Calls \ S: Fate'[j] = Fate[j]
    <2>1. Fate'[i] = Fate[i]
        BY <1>1, <1>2, <1>3, <1>5 DEF Fate, Queued
    <2>2. \A j \in Calls \ (S \cup {i}): Fate'[j] = Fate[j]
        BY <1>3, <1>5 DEF Fate
    <2> QED
        BY <2>1, <2>2
  <1>7. ASSUME NEW j \in S, NEW k \in Calls, Excludes(accesses[j], accesses[k])
        PROVE  /\ k \in Active => task[k] = "resolved"
               /\ k < j => task[k] \in {"active", "resolved", "finished"}
    <2>1. k \in Active => k = i
        BY <1>7 DEF Released, Blocked
    <2>2. k \in Queued => ~(k < j)
        BY <1>7 DEF Released, Blocked
    <2>3. k < j => task[k] \notin {"absent", "recorded"}
      <3>1. j \in Calls /\ task[j] = "queued"
          BY <1>1, <1>4
      <3>2. cursor \in Int /\ j \in Int
          BY <3>1, NAssumption DEF TypeOK
      <3>3. ~(j = cursor) /\ ~(j > cursor)
          BY <3>1 DEF CursorSplits
      <3> QED
          BY <3>1, <3>2, <3>3 DEF CursorSplits
    <2> QED
        BY <1>2, <2>1, <2>2, <2>3 DEF Queued, TypeOK
  <1>8. Order!Start(S) \/ Order!Drop(S)
      BY <1>1, <1>2, <1>4, <1>6, <1>7, StartImplements
  <1> QED
      BY <1>1, <1>8 DEF Order!Next, Order!Calls

LEMMA ToolReturnsImplements ==
    ASSUME IInv, NEW i \in Calls, ToolReturns(i)
    PROVE  Order!End(i)
  <1> USE DEF IInv, ToolReturns
  <1>1. Fate[i] = "running"
      BY FateIs DEF ExecutionIsStarted, TypeOK
  <1>2. Fate' = [Fate EXCEPT ![i] = "ended"]
    <2>1. task[i] \in {"active", "resolved", "finished"}
        BY DEF ExecutionIsStarted, TypeOK
    <2>2. Fate'[i] = "ended"
        BY <2>1 DEF Fate, TypeOK
    <2>3. \A j \in Calls \ {i}: Fate'[j] = Fate[j]
        BY DEF Fate, TypeOK
    <2>4. DOMAIN Fate = Calls /\ Fate' = [j \in Calls |-> Fate'[j]]
        BY DEF Fate
    <2>5. Fate' = [j \in Calls |-> IF j = i THEN "ended" ELSE Fate[j]]
        BY <2>2, <2>3, <2>4
    <2> QED
        BY <2>4, <2>5
  <1> QED
      BY <1>1, <1>2 DEF Order!End

LEMMA StepOrder ==
    ASSUME IInv, IInv', [Next]_vars
    PROVE  [Order!Next]_(Order!vars)
  <1> USE DEF Order!Next, Order!Calls
  <1>1. ASSUME NEW i \in Calls, Prepare(i) PROVE Order!Next
    <2>1. CASE \E acc \in Accesses, stops \in BOOLEAN: PrepareRunnable(i, acc, stops)
        BY <2>1, RecordArrives DEF PrepareRunnable
    <2>2. CASE \E stops \in BOOLEAN: PrepareResolved(i, stops)
        BY <2>2, RecordArrives DEF PrepareResolved
    <2>3. CASE PrepareSkipped(i)
        BY <2>3, RecordArrives DEF PrepareSkipped
    <2> QED
        BY <1>1, <2>1, <2>2, <2>3 DEF Prepare
  <1>2. ASSUME NEW i \in Calls, Resolve(i) PROVE UNCHANGED Order!vars
      BY <1>2, FateIs DEF Resolve, Fate, IInv, TypeOK, Order!vars
  <1>3. ASSUME NEW i \in Calls, ToolReturns(i) PROVE Order!Next
      BY <1>3, ToolReturnsImplements
  <1>4. CASE UNCHANGED << task, exec, accesses >>
      BY <1>4, FateStutters
  <1> QED
      BY <1>1, <1>2, <1>3, <1>4, AddImplements, FinishImplements
      DEF Next, Runtime, Drain, DispatchFails, Exit, Abort, Done, vars

\* runToolCallBatch and ToolScheduler keep the promise of ToolOrder: calls
\* that conflict execute one after another in provider order.
THEOREM Implementation == Spec => ProviderOrder
  <1>1. IInv /\ IInv' /\ [Next]_vars => [Order!Next]_(Order!vars)
      BY StepOrder
  <1> QED
      BY <1>1, InitOrder, SpecIInv, PTL DEF Spec, ProviderOrder, Order!Spec
-----------------------------------------------------------------------------
(* ToolBatch assumes that exclusion is mutual: ToolAccess provides it. *)

\* fileAccessesOverlap treats its two arguments alike.
LEMMA OverlapSymmetric ==
    ASSUME NEW l, NEW r
    PROVE  Overlap(l, r) <=> Overlap(r, l)
  BY DEF Overlap

\* ToolAccesses.conflict is symmetric and the accesses of ToolAccesses.none()
\* conflict with nothing: what ExclusionAssumption asks for.
THEOREM ConflictIsMutual ==
    ASSUME NEW left, NEW right
    PROVE  /\ Conflict(left, right) <=> Conflict(right, left)
           /\ ~Conflict({}, left)
  <1>1. ASSUME NEW l, NEW r
        PROVE  ResourcesConflict(l, r) <=> ResourcesConflict(r, l)
      BY OverlapSymmetric DEF ResourcesConflict
  <1> QED
      BY <1>1 DEF Conflict

\* fileOperationsConflict lets any number of readers and searches overlap.
THEOREM ReadersShare ==
    ASSUME NEW left, NEW right,
           \A access \in left \cup right: access # All /\ ~Writes(access)
    PROVE  ~Conflict(left, right)
  BY DEF Conflict, ResourcesConflict
=============================================================================
