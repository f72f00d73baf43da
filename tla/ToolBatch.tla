----------------------------- MODULE ToolBatch ------------------------------
(***************************************************************************)
(* The execution of the tool calls of one model step                       *)
(* (packages/agent-core/src/loop/tool-call.ts and tool-scheduler.ts).      *)
(*                                                                         *)
(* runToolCallBatch prepares the calls one after another (hooks, user      *)
(* approval, the tool.call event) and hands each to the scheduler, which   *)
(* executes calls whose accesses do not conflict concurrently.  It then    *)
(* drains their results in provider order.  Meanwhile the turn may be      *)
(* aborted at any time, a tool may ignore the abort, and the dispatch of   *)
(* an event may throw.                                                     *)
(***************************************************************************)
EXTENDS Integers

CONSTANTS
    N,                \* the calls of the step are 1..N, in provider order
    Accesses,         \* the declarations a tool may make
    NoAccess,         \* the empty declaration of a call that does not execute
    Excludes(_, _)    \* whether two declarations exclude each other

ASSUME NAssumption == N \in Nat \ {0}

\* Exclusion is mutual, and a call that executes nothing excludes no other.
ASSUME ExclusionAssumption ==
    \A a, b \in Accesses \cup {NoAccess}:
        /\ Excludes(a, b) <=> Excludes(b, a)
        /\ ~Excludes(NoAccess, a)

Calls == 1..N

Exits == {"returned", "threw"}

VARIABLES
    phase,       \* where runToolCallBatch is
    cursor,      \* the call its first loop is at
    task,        \* per call: its place in the scheduler
    executes,    \* per call: its task executes the tool, not a known result
    accesses,    \* per call: the accesses of its task
    exec,        \* per call: the tool's own execution
    emitted,     \* how many tool.result events were dispatched
    stopAt,      \* the call that stopped the batch, 0 while none did
    stopTurn,    \* the stopTurn flag the batch returns
    aborted      \* signal.aborted

vars == << phase, cursor, task, executes, accesses, exec, emitted, stopAt,
           stopTurn, aborted >>

TypeOK ==
    /\ phase \in {"preparing", "draining", "settling"} \cup Exits
    /\ cursor \in 1..(N + 1)
    /\ task \in [Calls -> {"absent", "recorded", "queued", "active",
                           "resolved", "finished"}]
    /\ executes \in [Calls -> BOOLEAN]
    /\ accesses \in [Calls -> Accesses \cup {NoAccess}]
    /\ exec \in [Calls -> {"none", "running", "ended"}]
    /\ emitted \in 0..N
    /\ stopAt \in 0..N
    /\ stopTurn \in BOOLEAN
    /\ aborted \in BOOLEAN

Init ==
    /\ phase = "preparing"
    /\ cursor = 1
    /\ task = [i \in Calls |-> "absent"]
    /\ executes = [i \in Calls |-> FALSE]
    /\ accesses = [i \in Calls |-> NoAccess]
    /\ exec = [i \in Calls |-> "none"]
    /\ emitted = 0
    /\ stopAt = 0
    /\ stopTurn = FALSE
    /\ aborted = FALSE
-----------------------------------------------------------------------------
(* The scheduler. *)

\* activeTasks: started and not yet removed, whether or not the result is in.
Active == {i \in Calls: task[i] \in {"active", "resolved"}}

Queued == {i \in Calls: task[i] = "queued"}

Settled == {i \in Calls: task[i] \in {"resolved", "finished"}}

\* Mutant: the tasks already in the queue are forgotten.
Blocked_ActiveOnly(i, active, queued) ==
    \E j \in active: Excludes(accesses[i], accesses[j])

\* A task waits for the active tasks and the tasks queued before it.
Blocked(i, active, queued) ==
    \E j \in active \cup queued: Excludes(accesses[i], accesses[j])

\* Mutant: the pass looks at the head of the queue only.
Released_HeadOnly(active) ==
    {i \in Queued: ~Blocked(i, active, {}) /\ \A j \in Queued: i <= j}

\* The tasks one pass over the queue starts once "active" are left: a task of
\* the queue, in provider order, that nothing before it in the queue blocks.
\* Those the pass started before it are in activeTasks, the others in
\* stillQueued, so every earlier task of the queue counts.
Released(active) ==
    {i \in Queued: ~Blocked(i, active, {j \in Queued: j < i})}

\* Mutant: the signal is not looked at again when a queued call starts.
Executing_Unchecked(S) == {i \in S: executes[i]}

\* runRunnableToolCall looks at the signal before it executes the tool.
Executing(S) == {i \in S: executes[i] /\ ~aborted}

Started(S) ==
    exec' = [i \in Calls |-> IF i \in Executing(S) THEN "running" ELSE exec[i]]

\* Hand the prepared call to the scheduler and move to the next call.
Add(i) ==
    /\ phase = "preparing"
    /\ i = cursor
    /\ task[i] = "recorded"
    /\ LET S == IF Blocked(i, Active, Queued) THEN {} ELSE {i}
       IN  /\ task' = [task EXCEPT ![i] = IF i \in S THEN "active" ELSE "queued"]
           /\ Started(S)
    /\ cursor' = cursor + 1
    /\ phase' = IF cursor = N THEN "draining" ELSE "preparing"
    /\ UNCHANGED << executes, accesses, emitted, stopAt, stopTurn, aborted >>

\* A task whose result is in leaves activeTasks and the queue is scanned again.
Finish(i) ==
    /\ task[i] = "resolved"
    /\ LET S == Released(Active \ {i})
       IN  /\ task' = [j \in Calls |-> IF j = i THEN "finished"
                                       ELSE IF j \in S THEN "active"
                                       ELSE task[j]]
           /\ Started(S)
    /\ UNCHANGED << phase, cursor, executes, accesses, emitted, stopAt,
                    stopTurn, aborted >>
-----------------------------------------------------------------------------
(* Preparation. *)

\* The tool.call event of a call is recorded along with what its task will do.
Record(i, runs, acc) ==
    /\ task' = [task EXCEPT ![i] = "recorded"]
    /\ executes' = [executes EXCEPT ![i] = runs]
    /\ accesses' = [accesses EXCEPT ![i] = acc]

Preparing(i) ==
    /\ phase = "preparing"
    /\ i = cursor
    /\ task[i] = "absent"

\* Mutant: the index after the stopping call is taken for the call itself.
PrepareRunnable_OffByOne(i, acc, stops) ==
    /\ Preparing(i)
    /\ stopAt = 0
    /\ ~aborted
    /\ Record(i, TRUE, acc)
    /\ stopAt' = IF stops THEN i + 1 ELSE 0
    /\ stopTurn' = stops
    /\ UNCHANGED << phase, cursor, exec, emitted, aborted >>

\* The call may execute: no hook and no user refused it, and the signal was
\* not aborted when the authorization came back.
PrepareRunnable(i, acc, stops) ==
    /\ Preparing(i)
    /\ stopAt = 0
    /\ ~aborted
    /\ Record(i, TRUE, acc)
    /\ stopAt' = IF stops THEN i ELSE 0
    /\ stopTurn' = stops
    /\ UNCHANGED << phase, cursor, exec, emitted, aborted >>

\* The call already has its result: it was rejected, blocked or aborted, or
\* a hook or the tool answered for it, which may stop the batch.
PrepareResolved(i, stops) ==
    /\ Preparing(i)
    /\ stopAt = 0
    /\ Record(i, FALSE, NoAccess)
    /\ stopAt' = IF stops THEN i ELSE 0
    /\ stopTurn' = stops
    /\ UNCHANGED << phase, cursor, exec, emitted, aborted >>

\* The calls after the one that stopped the batch get an error result.
PrepareSkipped(i) ==
    /\ Preparing(i)
    /\ stopAt # 0
    /\ Record(i, FALSE, NoAccess)
    /\ UNCHANGED << phase, cursor, exec, emitted, stopAt, stopTurn, aborted >>
-----------------------------------------------------------------------------
(* Execution. *)

\* The tool's execute promise settles, maybe long after the grace timeout.
ToolReturns(i) ==
    /\ exec[i] = "running"
    /\ exec' = [exec EXCEPT ![i] = "ended"]
    /\ UNCHANGED << phase, cursor, task, executes, accesses, emitted, stopAt,
                    stopTurn, aborted >>

\* Mutant: no grace timeout, the batch waits for a tool that ignores the abort.
Resolve_NoGrace(i) ==
    /\ task[i] = "active"
    /\ exec[i] # "running"
    /\ task' = [task EXCEPT ![i] = "resolved"]
    /\ UNCHANGED << phase, cursor, executes, accesses, exec, emitted, stopAt,
                    stopTurn, aborted >>

\* The result promise of a started task settles: the tool returned or was
\* never executed, or the abort is older than the grace period.
Resolve(i) ==
    /\ task[i] = "active"
    /\ exec[i] # "running" \/ aborted
    /\ task' = [task EXCEPT ![i] = "resolved"]
    /\ UNCHANGED << phase, cursor, executes, accesses, exec, emitted, stopAt,
                    stopTurn, aborted >>

\* The user cancels the turn.
Abort ==
    /\ phase \notin Exits
    /\ ~aborted
    /\ aborted' = TRUE
    /\ UNCHANGED << phase, cursor, task, executes, accesses, exec, emitted,
                    stopAt, stopTurn >>
-----------------------------------------------------------------------------
(* Results. *)

\* The next result in provider order is finalized and dispatched.
Drain(i, stops) ==
    /\ phase = "draining"
    /\ i = emitted + 1
    /\ i \in Settled
    /\ emitted' = i
    /\ stopTurn' = (stopTurn \/ stops)
    /\ UNCHANGED << phase, cursor, task, executes, accesses, exec, stopAt,
                    aborted >>

\* dispatchEvent throws, for a tool.call or for a tool.result: the batch goes
\* on only to wait for the tasks it has added.
DispatchFails(i) ==
    /\ \/ Preparing(i)
       \/ phase = "draining" /\ i = emitted + 1 /\ i \in Settled
    /\ phase' = "settling"
    /\ UNCHANGED << cursor, task, executes, accesses, exec, emitted, stopAt,
                    stopTurn, aborted >>

\* Mutant: no Promise.allSettled, only the drained results were awaited.
Added_Drained == {i \in Calls: i <= emitted}

\* The tasks whose result promise runToolCallBatch holds.
Added == {i \in Calls: i < cursor}

Exit ==
    /\ phase = "settling" \/ (phase = "draining" /\ emitted = N)
    /\ Added \subseteq Settled
    /\ phase' = IF phase = "settling" THEN "threw" ELSE "returned"
    /\ UNCHANGED << cursor, task, executes, accesses, exec, emitted, stopAt,
                    stopTurn, aborted >>

\* Nothing is left to do.
Done ==
    /\ phase \in Exits
    /\ \A i \in Calls: task[i] # "resolved" /\ exec[i] # "running"
    /\ UNCHANGED vars
-----------------------------------------------------------------------------
Prepare(i) ==
    \/ \E acc \in Accesses, stops \in BOOLEAN: PrepareRunnable(i, acc, stops)
    \/ \E stops \in BOOLEAN: PrepareResolved(i, stops)
    \/ PrepareSkipped(i)

\* What the runtime does by itself once its cause is there.
Runtime(i) ==
    \/ Add(i)
    \/ Resolve(i)
    \/ Finish(i)
    \/ \E stops \in BOOLEAN: Drain(i, stops)

Next ==
    \/ \E i \in Calls: Prepare(i) \/ Runtime(i) \/ ToolReturns(i) \/ DispatchFails(i)
    \/ Exit
    \/ Abort
    \/ Done

Spec == Init /\ [][Next]_vars

\* What the runtime owes: a settled promise has its continuations run, and
\* after an abort the hooks and the approval give the preparation back.
Fairness ==
    /\ \A i \in Calls: WF_vars(Runtime(i)) /\ WF_vars(aborted /\ Prepare(i))
    /\ WF_vars(Exit)

FairSpec == Spec /\ Fairness
-----------------------------------------------------------------------------
(* Properties. *)

\* Two calls whose accesses conflict never execute at the same time, not even
\* a call that outlived its grace timeout (raceExecuteWithGraceTimeout) and a
\* call the scheduler starts afterwards.
NoConflictingExecution ==
    \A i, j \in Calls:
        i # j /\ exec[i] = "running" /\ exec[j] = "running"
            => ~Excludes(accesses[i], accesses[j])

\* A queued call waits for an earlier call of the scheduler it conflicts with:
\* finish() leaves no call in the queue that nothing will wake up.
NoMissedWakeup ==
    \A i \in Queued: \E j \in Active \cup Queued:
        j < i /\ Excludes(accesses[i], accesses[j])

\* When runToolCallBatch is left, by return or by a throw, no call is still
\* with the scheduler, and only an aborted batch leaves a tool behind.
NothingLeftBehind ==
    phase \in Exits =>
        \A i \in Calls:
            /\ task[i] \notin {"queued", "active"}
            /\ exec[i] = "running" => aborted

\* Once the signal is aborted no tool starts executing, whatever the queue
\* still holds.
NoStartAfterAbort ==
    [][aborted => \A i \in Calls: exec'[i] = "running" => exec[i] = "running"]_vars

\* The batch waits for something outside the loop: an approval, a hook or a
\* tool, none of which the signal has told to give up.
WaitsOutside ==
    /\ ~aborted
    /\ \/ \E i \in Calls: Preparing(i)
       \/ \E i \in Calls: task[i] = "active" /\ exec[i] = "running"

\* The batch ends, unless it waits forever for an approval, a hook or a tool
\* while nobody aborts it: the scheduler itself cannot hang, and an abort ends
\* the batch even when a tool ignores it.
BatchEnds == <>(phase \in Exits) \/ <>[]WaitsOutside
-----------------------------------------------------------------------------
(* The batch implements the promise of ToolOrder. *)

Fate ==
    [i \in Calls |-> IF task[i] = "absent" THEN "unknown"
                     ELSE IF task[i] \in {"recorded", "queued"} THEN "waiting"
                     ELSE IF exec[i] = "none" THEN "dropped"
                     ELSE exec[i]]

Order == INSTANCE ToolOrder WITH
    Footprint <- Accesses \cup {NoAccess},
    Collide <- Excludes,
    fate <- Fate,
    footprint <- accesses

\* Conflicting calls take effect one after another, in provider order.
ProviderOrder == Order!Spec
=============================================================================
