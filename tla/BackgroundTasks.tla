-------------------------- MODULE BackgroundTasks --------------------------
(***************************************************************************)
(* The background tasks of an agent: the race of a task against its        *)
(* deadline, a stop and the abort of its caller, its detachment from the   *)
(* tool call that waits for it, the files it leaves and the notification   *)
(* of its end, over crashes of the process                                 *)
(* (src/packages/agent-core/src/agent/background/index.ts,                 *)
(* BackgroundManager).                                                     *)
(*                                                                         *)
(* A step runs to its next await on a file, a timer or the task's worker.  *)
(* What is on disk - task records, output.log, and the session's history   *)
(* with the notifications already delivered to it - survives a crash.      *)
(***************************************************************************)
EXTENDS Naturals, Sequences, FiniteSets

CONSTANTS
  Tasks,          \* task ids; each is registered at most once
  MaxRunning,     \* background.maxRunningTasks
  MaxChunks,      \* bound: chunks of output of one task
  SpillChunks,    \* chunks a foreground task may hold in memory
  MaxCrashes,     \* bound: crashes of the process
  WriteFailures   \* whether writing a file may fail; the errors are swallowed

ASSUME CountsAssumption ==
  /\ MaxRunning \in Nat /\ MaxChunks \in Nat
  /\ SpillChunks \in Nat /\ MaxCrashes \in Nat
ASSUME FailuresAssumption == WriteFailures \in BOOLEAN

VARIABLES
  process,    \* "up", "down", or at work on what an earlier process left
  task,       \* the live tasks
  waiter,     \* the tool call that waits for a foreground task
  ghosts,     \* records of an earlier process, as this one sees them
  scheduled,  \* notification keys scheduled by this process
  steered,    \* notifications in the steer buffer
  delivered,  \* notifications in the history of the session
  disk,       \* task records
  log,        \* output.log of each task
  used,       \* the task ids generated so far, which are never generated again
  crashes

memory  == <<task, waiter, ghosts, scheduled, steered>>
storage == <<delivered, disk, log>>
vars == <<process, memory, storage, used, crashes>>

\* All but the entries of the tasks.
elsewhere == <<process, waiter, ghosts, scheduled, steered, storage, used,
               crashes>>

Settlements == {"completed", "failed", "killed"}
Terminal == Settlements \union {"timed_out", "lost"}
Statuses == Terminal \union {"running"}
Keys == Tasks \X Terminal

Info == [status : Statuses, detached : BOOLEAN, suppressed : BOOLEAN]
NoInfo == [status |-> "none", detached |-> FALSE, suppressed |-> FALSE]

\* Of an entry: where its lifecycle stands, what interrupted it, the writes
\* queued for its record and, among them, those it awaits; its output so far,
\* what of it waits in memory, the queue of appends to the log and, among
\* them, those the notification awaits; and how much output it ended with.
Phases == {"new", "racing", "grace", "forcing", "persisting", "building", "done"}
NewTask ==
  [phase |-> "new", status |-> "running", inBackground |-> FALSE,
   detached |-> FALSE, suppressed |-> FALSE, working |-> FALSE,
   outcome |-> "none", writes |-> <<>>, awaited |-> 0, produced |-> 0,
   pending |-> <<>>, started |-> FALSE, appends |-> <<>>, unread |-> 0,
   ended |-> 0]

Live(t) == task[t].phase # "new"
IsTerminal(t) == task[t].status \in Terminal
InfoOf(e) == [status |-> e.status, detached |-> e.detached,
              suppressed |-> e.suppressed]
Running == process \in {"restoring", "up"}

Chunks == 1 .. MaxChunks
Entries ==
  [phase : Phases, status : Statuses, inBackground : BOOLEAN,
   detached : BOOLEAN, suppressed : BOOLEAN, working : BOOLEAN,
   outcome : {"none", "timeout", "stop"}, writes : Seq(Info), awaited : Nat,
   produced : 0 .. MaxChunks, pending : Seq(Chunks), started : BOOLEAN,
   appends : Seq(Seq(Chunks)), unread : Nat, ended : 0 .. MaxChunks]

TypeOK ==
  /\ process \in {"up", "down", "marking", "restoring"}
  /\ task \in [Tasks -> Entries]
  /\ \A t \in Tasks : /\ task[t].awaited <= Len(task[t].writes)
                      /\ task[t].unread <= Len(task[t].appends)
  /\ waiter \in [Tasks -> {"none", "waiting", "detached", "terminal"}]
  /\ ghosts \in [Tasks -> Info \union {NoInfo}]
  /\ scheduled \subseteq Keys /\ steered \subseteq Keys /\ delivered \subseteq Keys
  /\ disk \in [Tasks -> Info \union {NoInfo}]
  /\ log \in [Tasks -> Seq(Chunks)]
  /\ used \subseteq Tasks
  /\ crashes \in 0 .. MaxCrashes

Init ==
  /\ process = "up"
  /\ task = [t \in Tasks |-> NewTask]
  /\ waiter = [t \in Tasks |-> "none"]
  /\ ghosts = [t \in Tasks |-> NoInfo]
  /\ scheduled = {} /\ steered = {} /\ delivered = {}
  /\ disk = [t \in Tasks |-> NoInfo]
  /\ log = [t \in Tasks |-> <<>>]
  /\ used = {}
  /\ crashes = 0

-----------------------------------------------------------------------------
(* Records, output and the end of a task                                   *)

\* persistLive: the state of now is queued for the record.
Persisted(e) == [e EXCEPT !.writes = Append(@, InfoOf(e))]

\* Mutant of OutputStarted: the live stream starts over what was held back.
OutputStarted_BufferDropped(e) ==
  IF e.started THEN e ELSE [e EXCEPT !.started = TRUE, !.pending = <<>>]

\* startOutputPersist: the output held back goes to the log first, in one
\* append ahead of the live stream.
OutputStarted(e) ==
  IF e.started THEN e
  ELSE [e EXCEPT !.started = TRUE, !.pending = <<>>,
                 !.appends = IF e.pending = <<>> THEN @ ELSE Append(@, e.pending)]

\* Mutant of Finalized: the effects do not wait for the last write.
Finalized_NotAwaited(e, status) ==
  LET over == [e EXCEPT !.status = status, !.ended = e.produced]
  IN  IF e.started
        THEN [Persisted(over) EXCEPT !.phase = "persisting", !.awaited = 0]
        ELSE [over EXCEPT !.phase = "done", !.pending = <<>>]

\* finalizeTask: the task gets its status, and its record is written when it
\* has touched the disk before.
Finalized(e, status) ==
  LET over == [e EXCEPT !.status = status, !.ended = e.produced]
  IN  IF e.started
        THEN LET saved == Persisted(over)
             IN  [saved EXCEPT !.phase = "persisting", !.awaited = Len(saved.writes)]
        ELSE [over EXCEPT !.phase = "done", !.pending = <<>>]

\* What the lifecycle makes of the end of the worker: the race is decided by
\* it; after a stop a worker that has finished its job is believed.
WorkerOver(e, settlement) ==
  IF e.phase = "racing" \/ (e.outcome = "stop" /\ settlement # "killed")
    THEN Finalized(e, settlement)
    ELSE Finalized(e, IF e.outcome = "timeout" THEN "timed_out" ELSE "killed")

\* The tool call that still waits when the task is over is released.
Released(t, e) ==
  waiter' = [waiter EXCEPT ![t] =
               IF @ = "waiting" /\ e.phase = "done" THEN "terminal" ELSE @]

Becomes(t, e) == task' = [task EXCEPT ![t] = e]

\* fireTerminalEffects, once the record is written: a detached task prepares
\* its notification, unless one is scheduled or its user suppressed it; it
\* waits for the output queued by now.
Key(t) == <<t, task[t].status>>

\* Mutant of Due: the task a tool call waits for is announced, too.
Due_AnyTask(t, e) ==
  ~ e.suppressed /\ <<t, e.status>> \notin scheduled \union delivered

Due(t, e) ==
  /\ e.detached /\ ~ e.suppressed
  /\ <<t, e.status>> \notin scheduled \union delivered

\* Mutant of Effects: the notification does not wait for the output.
Effects_OutputUnread(t, e) ==
  LET next == [e EXCEPT !.phase = IF Due(t, e) THEN "building" ELSE "done"]
  IN  /\ Becomes(t, next)
      /\ Released(t, next)
      /\ scheduled' = IF Due(t, e) THEN scheduled \union {<<t, e.status>>}
                                   ELSE scheduled

Effects(t, e) ==
  LET next == IF Due(t, e)
                THEN [e EXCEPT !.phase = "building", !.unread = Len(e.appends)]
                ELSE [e EXCEPT !.phase = "done"]
  IN  /\ Becomes(t, next)
      /\ Released(t, next)
      /\ scheduled' = IF Due(t, e) THEN scheduled \union {<<t, e.status>>}
                                   ELSE scheduled

-----------------------------------------------------------------------------
(* Operations                                                              *)

Admitted == Cardinality({t \in Tasks : /\ Live(t) /\ ~ IsTerminal(t)
                                       /\ task[t].inBackground}) < MaxRunning

\* registerTask.  A task started in the background is on disk at once; a
\* foreground one keeps everything in memory, and a tool call waits for it.
Register(t, background) ==
  /\ Running /\ t \notin used
  /\ background => Admitted
  /\ LET e == [NewTask EXCEPT !.phase = "racing", !.working = TRUE,
                              !.inBackground = background,
                              !.detached = background, !.started = background]
     IN  Becomes(t, IF background THEN Persisted(e) ELSE e)
  /\ waiter' = [waiter EXCEPT ![t] = IF background THEN "none" ELSE "waiting"]
  /\ used' = used \union {t}
  /\ UNCHANGED <<process, ghosts, scheduled, steered, storage, crashes>>

\* appendOutput, and the persistOutput of a tool call whose result is full.
\* Of the tasks that are over only a question, which is never in the
\* foreground, still has its say: a process has lost its streams by then.
Output(t) ==
  /\ Live(t) /\ task[t].working /\ task[t].produced < MaxChunks
  /\ IsTerminal(t) => task[t].started
  /\ LET chunk == task[t].produced + 1
         e == [task[t] EXCEPT !.produced = chunk]
         held == [e EXCEPT !.pending = Append(@, chunk)]
     IN  Becomes(t, IF e.started THEN [e EXCEPT !.appends = Append(@, <<chunk>>)]
                    ELSE IF Len(held.pending) > SpillChunks THEN OutputStarted(held)
                    ELSE held)
  /\ UNCHANGED elsewhere

\* The task's own code settles; only an aborted one reports being killed.
WorkerEnds(t) ==
  /\ Live(t) /\ task[t].working
  /\ \E settlement \in Settlements :
       /\ settlement = "killed" => task[t].outcome # "none"
       /\ LET e == [task[t] EXCEPT !.working = FALSE]
              next == IF e.phase \in {"racing", "grace"}
                        THEN WorkerOver(e, settlement) ELSE e
          IN  Becomes(t, next) /\ Released(t, next)
  /\ UNCHANGED <<process, ghosts, scheduled, steered, storage, used, crashes>>

\* stop and the deadline end the race; the worker is aborted and has some
\* seconds of grace.
Interrupt(t, outcome) ==
  /\ Live(t) /\ task[t].phase = "racing"
  /\ Becomes(t, [task[t] EXCEPT !.phase = "grace", !.outcome = outcome])
  /\ UNCHANGED elsewhere

Stop(t) == Interrupt(t, "stop")
Timeout(t) == Interrupt(t, "timeout")

\* The caller's signal stops the task it still waits for.
CallerAborts(t) == Live(t) /\ ~ task[t].detached /\ Interrupt(t, "stop")

\* Mutant of GraceOver: only a task that timed out is stopped by force.
GraceOver_TimeoutOnly(t) ==
  /\ Live(t) /\ task[t].phase = "grace" /\ task[t].outcome = "timeout"
  /\ Becomes(t, [task[t] EXCEPT !.phase = "forcing"])
  /\ UNCHANGED elsewhere

\* The grace is over and the worker has not ended: it is stopped by force.
GraceOver(t) ==
  /\ Live(t) /\ task[t].phase = "grace"
  /\ Becomes(t, [task[t] EXCEPT !.phase = "forcing"])
  /\ UNCHANGED elsewhere

Forced(t) ==
  /\ Live(t) /\ task[t].phase = "forcing"
  /\ LET next == Finalized(task[t], IF task[t].outcome = "timeout"
                                      THEN "timed_out" ELSE "killed")
     IN  Becomes(t, next) /\ Released(t, next)
  /\ UNCHANGED <<process, ghosts, scheduled, steered, storage, used, crashes>>

\* detach: the waiting tool call returns, the task is on disk from now on.
Detach(t) ==
  /\ Live(t) /\ ~ IsTerminal(t) /\ ~ task[t].detached
  /\ Becomes(t, Persisted(OutputStarted([task[t] EXCEPT !.detached = TRUE])))
  /\ waiter' = [waiter EXCEPT ![t] = "detached"]
  /\ UNCHANGED <<process, ghosts, scheduled, steered, storage, used, crashes>>

\* suppressTerminalNotification: of a task that is about to be stopped, by
\* TaskStop or because the session closes.
Suppress(t) ==
  /\ Live(t) /\ ~ IsTerminal(t) /\ ~ task[t].suppressed
  /\ Becomes(t, Persisted([task[t] EXCEPT !.suppressed = TRUE]))
  /\ UNCHANGED elsewhere

\* The next write of the record ends, whether or not it succeeded; when it
\* is the one the end of the task waits for, the effects follow.
RecordWritten(t) ==
  /\ Live(t) /\ task[t].writes # <<>>
  /\ LET e == [task[t] EXCEPT !.writes = Tail(@),
                              !.awaited = IF @ = 0 THEN 0 ELSE @ - 1]
     IN  IF e.phase = "persisting" /\ e.awaited = 0
           THEN Effects(t, e)
           ELSE Becomes(t, e) /\ UNCHANGED <<waiter, scheduled>>
  /\ \/ disk' = [disk EXCEPT ![t] = Head(task[t].writes)]
     \/ WriteFailures /\ UNCHANGED disk
  /\ UNCHANGED <<process, ghosts, steered, delivered, log, used, crashes>>

\* Mutant of OutputWritten: the notification awaits an append already over.
OutputWritten_StaleCount(t) ==
  /\ Live(t) /\ task[t].appends # <<>>
  /\ Becomes(t, [task[t] EXCEPT !.appends = Tail(@)])
  /\ log' = [log EXCEPT ![t] = @ \o Head(task[t].appends)]
  /\ UNCHANGED <<process, waiter, ghosts, scheduled, steered, delivered, disk,
                 used, crashes>>

\* The next append to output.log ends.
OutputWritten(t) ==
  /\ Live(t) /\ task[t].appends # <<>>
  /\ Becomes(t, [task[t] EXCEPT !.appends = Tail(@),
                                !.unread = IF @ = 0 THEN 0 ELSE @ - 1])
  /\ \/ log' = [log EXCEPT ![t] = @ \o Head(task[t].appends)]
     \/ WriteFailures /\ UNCHANGED log
  /\ UNCHANGED <<process, waiter, ghosts, scheduled, steered, delivered, disk,
                 used, crashes>>

\* The output was looked at: the notification is steered, unless it was
\* suppressed meanwhile.
Notify(t) ==
  /\ Live(t) /\ task[t].phase = "building" /\ task[t].unread = 0
  /\ IF task[t].suppressed
       THEN scheduled' = scheduled \ {Key(t)} /\ UNCHANGED steered
       ELSE steered' = steered \union {Key(t)} /\ UNCHANGED scheduled
  /\ Becomes(t, [task[t] EXCEPT !.phase = "done"])
  /\ UNCHANGED <<process, waiter, ghosts, storage, used, crashes>>

\* The turn flow appends a steered notification to the history.
Deliver(key) ==
  /\ key \in steered
  /\ steered' = steered \ {key}
  /\ delivered' = delivered \union {key}
  /\ UNCHANGED <<process, task, waiter, ghosts, scheduled, disk, log, used, crashes>>

-----------------------------------------------------------------------------
(* Crash and restart                                                       *)

Crash ==
  /\ process # "down" /\ crashes < MaxCrashes
  /\ process' = "down"
  /\ crashes' = crashes + 1
  /\ task' = [t \in Tasks |-> NewTask]
  /\ waiter' = [t \in Tasks |-> "none"]
  /\ ghosts' = [t \in Tasks |-> NoInfo]
  /\ scheduled' = {} /\ steered' = {}
  /\ UNCHANGED <<storage, used>>

\* loadFromDisk.
Restart ==
  /\ process = "down"
  /\ process' = "marking"
  /\ ghosts' = disk
  /\ UNCHANGED <<task, waiter, scheduled, steered, storage, used, crashes>>

\* markLoadedTasksLost, one write after the other.  A write that fails fails
\* the resume of the session: of this process nothing is left, as by a Crash.
MarkLost ==
  /\ process = "marking"
  /\ LET running == {t \in Tasks : ghosts[t].status = "running"}
     IN  \/ \E t \in running :
              /\ ghosts' = [ghosts EXCEPT ![t].status = "lost"]
              /\ disk' = [disk EXCEPT ![t] = [ghosts[t] EXCEPT !.status = "lost"]]
              /\ UNCHANGED process
         \/ /\ running = {} /\ process' = "restoring"
            /\ UNCHANGED <<ghosts, disk>>
  /\ UNCHANGED <<task, waiter, scheduled, steered, delivered, log, used, crashes>>

\* Mutant of Restorable: only what the restart itself found lost is announced.
Restorable_LostOnly(t) ==
  /\ ghosts[t].detached /\ ~ ghosts[t].suppressed /\ ghosts[t].status = "lost"
  /\ <<t, "lost">> \notin scheduled \union delivered

\* restoreBackgroundTaskNotifications: what ended badly wakes the agent, the
\* rest goes straight into its history.
Restorable(t) ==
  /\ ghosts[t].detached /\ ~ ghosts[t].suppressed
  /\ <<t, ghosts[t].status>> \notin scheduled \union delivered

Restore ==
  /\ process = "restoring"
  /\ \/ \E t \in Tasks :
          /\ ghosts[t] # NoInfo /\ Restorable(t)
          /\ LET key == <<t, ghosts[t].status>>
             IN  /\ scheduled' = scheduled \union {key}
                 /\ IF ghosts[t].status \in {"failed", "lost"}
                      THEN steered' = steered \union {key} /\ UNCHANGED delivered
                      ELSE delivered' = delivered \union {key} /\ UNCHANGED steered
          /\ UNCHANGED process
     \/ /\ \A t \in Tasks : ghosts[t] # NoInfo => ~ Restorable(t)
        /\ process' = "up"
        /\ UNCHANGED <<scheduled, steered, delivered>>
  /\ UNCHANGED <<task, waiter, ghosts, disk, log, used, crashes>>

-----------------------------------------------------------------------------

Settling(t) == \/ GraceOver(t) \/ Forced(t) \/ RecordWritten(t)
               \/ OutputWritten(t) \/ Notify(t)
Recovering == Restart \/ MarkLost \/ Restore

Next ==
  \/ \E t \in Tasks :
       \/ \E background \in BOOLEAN : Register(t, background)
       \/ Output(t) \/ WorkerEnds(t) \/ Stop(t) \/ Timeout(t)
       \/ CallerAborts(t) \/ Detach(t) \/ Suppress(t) \/ Settling(t)
  \/ \E key \in Keys : Deliver(key)
  \/ Crash \/ Recovering

Spec == Init /\ [][Next]_vars

\* Timers fire, files and forced stops answer, and a session that crashed is
\* opened again; nothing is assumed of the tasks, their users and the turns.
FairSpec == /\ Spec
            /\ \A t \in Tasks : /\ WF_vars(GraceOver(t) \/ Forced(t))
                                /\ WF_vars(RecordWritten(t))
                                /\ WF_vars(OutputWritten(t))
                                /\ WF_vars(Notify(t))
            /\ WF_vars(Recovering)

-----------------------------------------------------------------------------
(* Properties                                                              *)

\* A foreground task that never detached and whose output stayed in memory
\* leaves nothing on disk ("ordinary commands leave nothing undiscoverable on
\* disk", registerTask; "leaves nothing on disk", finalizeTask).  Not when it is
\* suppressed before it is stopped: the record then says "running" for good.
NothingUndiscoverable ==
  \A t \in Tasks :
    task[t].phase = "done" /\ ~ task[t].detached /\ ~ task[t].started
      => disk[t] = NoInfo /\ log[t] = <<>>

\* Who waits for a task hears of its end once: a tool call that was given the
\* result of its task is not followed by a notification of the same task,
\* however the end of the task races with its detachment (detach,
\* finalizeTask, fireTerminalEffects).
NoDoubleReport ==
  \A t \in Tasks, s \in Terminal :
    waiter[t] = "terminal" => <<t, s>> \notin steered \union delivered

\* The agent is told nothing that the record does not say: a notification on
\* its way or in the history has the status on disk.  A crash can then never
\* make a finished task a lost one and announce it a second time
\* (finalizeTask persists before it fires the effects).
NoticeMatchesRecord ==
  \A t \in Tasks, s \in Terminal :
    <<t, s>> \in steered \union delivered => disk[t].status = s

\* output.log is the beginning of the task's output, in order, whenever the
\* task is detached or its buffer spills ("so output.log stays the complete,
\* in-order record", detach).
LogInOrder ==
  \A t \in Tasks : \A k \in DOMAIN log[t] : log[t][k] = k

\* When a live task is announced, the log the notification points at holds
\* all the task had printed when it ended (getOutputSnapshot awaits the
\* appends).
NoticeAfterOutput ==
  [][\A t \in Tasks : Live(t) /\ Key(t) \in steered' \ steered
       => \A k \in 1 .. task[t].ended : \E j \in DOMAIN log[t] : log[t][j] = k]_vars

\* A task that was stopped or timed out comes to its end, and so does the
\* wait of its caller, unless the process crashes.
StopSettles ==
  \A t \in Tasks : task[t].outcome # "none"
    ~> task[t].phase \in {"done", "new"} /\ waiter[t] # "waiting"

\* The end of a detached task reaches the agent, also over a crash between
\* the record and the notification, unless the notification is suppressed.
NoticeNeverLost ==
  \A t \in Tasks :
    disk[t].status \in Terminal /\ disk[t].detached
      ~> \/ \E s \in Terminal : <<t, s>> \in steered \union delivered
         \/ disk[t].suppressed \/ task[t].suppressed

=============================================================================
