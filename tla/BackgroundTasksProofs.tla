----------------------- MODULE BackgroundTasksProofs ------------------------
(***************************************************************************)
(* Theorems about BackgroundTasks for every set of tasks, every number of  *)
(* crashes and every amount of output.                                     *)
(*                                                                         *)
(* IInv says who may be told of an end: a tool call waits only for a task  *)
(* that is not detached, and a live task of which a notification exists is *)
(* detached.  It needs Fresh, that of an id never used nothing is known,   *)
(* and GhostsAreOld, that no restored record is that of a live task.       *)
(* Recorded says, when writes succeed, which of the writes still queued    *)
(* carries the end of the task.                                            *)
(***************************************************************************)
EXTENDS BackgroundTasks, SequenceTheorems, TLAPS

EntryOK(e) ==
  e \in Entries /\ e.awaited <= Len(e.writes) /\ e.unread <= Len(e.appends)

\* What TypeOK says of all variables but task.
RestOK ==
  /\ process \in {"up", "down", "marking", "restoring"}
  /\ waiter \in [Tasks -> {"none", "waiting", "detached", "terminal"}]
  /\ ghosts \in [Tasks -> Info \union {NoInfo}]
  /\ scheduled \subseteq Keys /\ steered \subseteq Keys /\ delivered \subseteq Keys
  /\ disk \in [Tasks -> Info \union {NoInfo}]
  /\ log \in [Tasks -> Seq(Chunks)]
  /\ used \subseteq Tasks
  /\ crashes \in 0 .. MaxCrashes

TasksOK == task \in [Tasks -> Entries] /\ \A t \in Tasks : EntryOK(task[t])

LEMMA TypeParts == TypeOK <=> TasksOK /\ RestOK
  BY DEF TypeOK, TasksOK, RestOK, EntryOK

-----------------------------------------------------------------------------
(* What becomes of an entry                                                *)

LEMMA NewTaskOK == EntryOK(NewTask) /\ NewTask.phase = "new"
<1>1. /\ <<>> \in Seq(Info) /\ <<>> \in Seq(Chunks) /\ <<>> \in Seq(Seq(Chunks))
      /\ Len(<<>>) = 0 /\ 0 \in 0 .. MaxChunks
  BY EmptySeq, CountsAssumption
<1> QED
  BY <1>1 DEF EntryOK, Entries, NewTask, Phases, Statuses

LEMMA InfoOfType == \A e \in Entries : InfoOf(e) \in Info
  BY DEF InfoOf, Info, Entries

LEMMA PersistedOK ==
  ASSUME NEW e, EntryOK(e)
  PROVE  /\ EntryOK(Persisted(e))
         /\ Persisted(e).phase = e.phase /\ Persisted(e).status = e.status
         /\ Persisted(e).detached = e.detached
         /\ Persisted(e).started = e.started
         /\ Len(Persisted(e).writes) = Len(e.writes) + 1
         /\ Persisted(e).writes[Len(e.writes) + 1].status = e.status
<1>1. /\ Append(e.writes, InfoOf(e)) \in Seq(Info)
      /\ Len(Append(e.writes, InfoOf(e))) = Len(e.writes) + 1
      /\ Append(e.writes, InfoOf(e))[Len(e.writes) + 1] = InfoOf(e)
  BY InfoOfType, AppendProperties DEF EntryOK, Entries
<1>2. e.awaited <= Len(e.writes) + 1
  BY LenProperties DEF EntryOK, Entries
<1>3. InfoOf(e).status = e.status
  BY DEF InfoOf
<1> QED
  BY <1>1, <1>2, <1>3 DEF EntryOK, Entries, Persisted

LEMMA OutputStartedOK ==
  ASSUME NEW e, EntryOK(e)
  PROVE  /\ EntryOK(OutputStarted(e))
         /\ OutputStarted(e).phase = e.phase /\ OutputStarted(e).status = e.status
         /\ OutputStarted(e).detached = e.detached
         /\ OutputStarted(e).writes = e.writes
         /\ OutputStarted(e).awaited = e.awaited
<1>1. /\ Append(e.appends, e.pending) \in Seq(Seq(Chunks))
      /\ Len(Append(e.appends, e.pending)) = Len(e.appends) + 1
      /\ <<>> \in Seq(Chunks)
  BY AppendProperties, EmptySeq DEF EntryOK, Entries
<1>2. e.unread <= Len(e.appends) + 1
  BY LenProperties DEF EntryOK, Entries
<1> QED
  BY <1>1, <1>2 DEF EntryOK, Entries, OutputStarted

LEMMA FinalizedOK ==
  ASSUME NEW e, EntryOK(e), NEW status \in Terminal
  PROVE  /\ EntryOK(Finalized(e, status))
         /\ Finalized(e, status).phase \in {"persisting", "done"}
         /\ Finalized(e, status).status = status
         /\ Finalized(e, status).detached = e.detached
         /\ Finalized(e, status).phase = "persisting" =>
              /\ Finalized(e, status).awaited = Len(Finalized(e, status).writes)
              /\ Finalized(e, status).awaited > 0
              /\ Finalized(e, status).writes[Finalized(e, status).awaited].status
                   = status
<1> DEFINE over == [e EXCEPT !.status = status, !.ended = e.produced]
           saved == Persisted(over)
<1>1. EntryOK(over) /\ over.status = status /\ over.detached = e.detached
      /\ over.writes = e.writes
  BY DEF EntryOK, Entries, Statuses
<1> HIDE DEF over
<1>2. CASE e.started
  <2>1. /\ EntryOK(saved) /\ saved.status = status /\ saved.detached = e.detached
        /\ Len(saved.writes) = Len(over.writes) + 1
        /\ saved.writes[Len(over.writes) + 1].status = status
    BY <1>1, PersistedOK
  <2>2. Finalized(e, status) =
          [saved EXCEPT !.phase = "persisting", !.awaited = Len(saved.writes)]
    BY <1>2 DEF Finalized, over
  <2>3. over.writes \in Seq(Info) /\ Len(over.writes) \in Nat
    BY <1>1, LenProperties DEF EntryOK, Entries
  <2> HIDE DEF saved
  <2>4. saved \in Entries /\ saved.unread <= Len(saved.appends)
    BY <2>1 DEF EntryOK
  <2>5. Len(saved.writes) \in Nat /\ Len(saved.writes) > 0
    BY <2>1, <2>3
  <2> DEFINE f == [saved EXCEPT !.phase = "persisting", !.awaited = Len(saved.writes)]
  <2>6. /\ f \in Entries /\ f.writes = saved.writes /\ f.appends = saved.appends
        /\ f.awaited = Len(saved.writes) /\ f.unread = saved.unread
        /\ f.phase = "persisting" /\ f.status = saved.status
        /\ f.detached = saved.detached
    BY <2>4, <2>5 DEF Entries, Phases
  <2> HIDE DEF f
  <2>7. EntryOK(f)
    BY <2>4, <2>5, <2>6 DEF EntryOK
  <2>8. Finalized(e, status) = f
    BY <2>2 DEF f
  <2> QED
    BY <2>1, <2>5, <2>6, <2>7, <2>8
<1>3. CASE ~ e.started
  <2> DEFINE f == [over EXCEPT !.phase = "done", !.pending = <<>>]
  <2>1. Finalized(e, status) = f
    BY <1>3 DEF Finalized, over
  <2>2. over \in Entries /\ <<>> \in Seq(Chunks)
    BY <1>1, EmptySeq DEF EntryOK
  <2>3. /\ f \in Entries /\ f.writes = over.writes /\ f.appends = over.appends
        /\ f.awaited = over.awaited /\ f.unread = over.unread
        /\ f.phase = "done" /\ f.status = over.status
        /\ f.detached = over.detached
    BY <2>2 DEF Entries, Phases
  <2> HIDE DEF f
  <2> QED
    BY <1>1, <2>1, <2>3 DEF EntryOK
<1> QED
  BY <1>2, <1>3

-----------------------------------------------------------------------------
(* The invariant                                                           *)

Notices == steered \union delivered
Told(t) == \E s \in Terminal : <<t, s>> \in Notices
Over == {"persisting", "building", "done"}

\* Of a task that was never registered nothing is known.
Fresh ==
  \A t \in Tasks \ used :
    task[t] = NewTask /\ disk[t] = NoInfo /\ ghosts[t] = NoInfo /\ ~ Told(t)

\* What an earlier process left is no task of this one, and none of it runs.
GhostsAreOld ==
  /\ \A t \in Tasks : Live(t) => ghosts[t] = NoInfo
  /\ process \in {"restoring", "up"} => \A t \in Tasks : ghosts[t].status # "running"
  /\ process = "down" => \A t \in Tasks : ~ Live(t)

\* An end is reported to the tool call that waits or, once the task is
\* detached, by a notification.
WaiterOK(w, e) ==
  /\ w # "none" => e.phase # "new"
  /\ w = "waiting" => ~ e.detached
  /\ w = "terminal" => ~ e.detached /\ e.phase = "done"
PhaseOK(e) ==
  /\ e.phase \in Over => e.status \in Terminal
  /\ e.phase = "building" => e.detached
Ends ==
  \A t \in Tasks : /\ PhaseOK(task[t]) /\ WaiterOK(waiter[t], task[t])
                   /\ Live(t) /\ Told(t) => task[t].detached

IInv == TasksOK /\ RestOK /\ Fresh /\ GhostsAreOld /\ Ends

\* A live task t becomes f, and a waiting call is not told otherwise.
Sound(f) == EntryOK(f) /\ f.phase # "new" /\ PhaseOK(f)

\* What a step of task t leaves alone.
Others(t) ==
  /\ process' = process /\ ghosts' = ghosts /\ used' = used
  /\ \A u \in Tasks \ {t} : waiter'[u] = waiter[u] /\ disk'[u] = disk[u]

LEMMA LiveStep ==
  ASSUME IInv, NEW t \in Tasks, NEW f, Live(t), Becomes(t, f), Others(t), RestOK',
         Sound(f), task[t].detached => f.detached, WaiterOK(waiter'[t], f),
         \A u \in Tasks : Told(u)' => Told(u) \/ (u = t /\ f.detached)
  PROVE  IInv'
<1>1. t \in used
  BY NewTaskOK DEF IInv, Fresh, Live
<1>2. task' = [task EXCEPT ![t] = f] /\ task \in [Tasks -> Entries] /\ f \in Entries
  BY DEF Becomes, IInv, TasksOK, Sound, EntryOK
<1>3. task'[t] = f /\ \A u \in Tasks \ {t} : task'[u] = task[u]
  BY <1>2
<1>4. TasksOK'
  <2>1. task' \in [Tasks -> Entries]
    BY <1>2
  <2>2. \A u \in Tasks : EntryOK(task'[u])
    BY <1>3 DEF IInv, TasksOK, Sound
  <2> QED
    BY <2>1, <2>2 DEF TasksOK, EntryOK
<1>5. Fresh'
  BY <1>1, <1>3 DEF IInv, Fresh, Others
<1>6. GhostsAreOld'
  BY <1>3 DEF IInv, GhostsAreOld, Others, Live
<1>7. Ends'
  <2> SUFFICES ASSUME NEW u \in Tasks
               PROVE  /\ PhaseOK(task'[u]) /\ WaiterOK(waiter'[u], task'[u])
                      /\ task'[u].phase # "new" /\ Told(u)' => task'[u].detached
    BY DEF Ends, Live, PhaseOK, WaiterOK
  <2>1. CASE u = t
    BY <2>1, <1>3 DEF IInv, Ends, Sound
  <2>2. CASE u # t
    BY <2>2, <1>3 DEF IInv, Ends, Others, Live
  <2> QED
    BY <2>1, <2>2
<1> QED
  BY <1>4, <1>5, <1>6, <1>7 DEF IInv

LEMMA EntryOfInvariant ==
  ASSUME IInv, NEW t \in Tasks
  PROVE  /\ EntryOK(task[t]) /\ PhaseOK(task[t]) /\ WaiterOK(waiter[t], task[t])
         /\ Live(t) => ghosts[t] = NoInfo
  BY DEF IInv, TasksOK, Ends, GhostsAreOld

LEMMA ReleasedOK ==
  ASSUME IInv, NEW t \in Tasks, NEW f, Live(t), Released(t, f), f.phase # "new",
         f.detached = task[t].detached, task[t].phase = "done" => f.phase = "done"
  PROVE  /\ WaiterOK(waiter'[t], f)
         /\ waiter' \in [Tasks -> {"none", "waiting", "detached", "terminal"}]
         /\ \A u \in Tasks \ {t} : waiter'[u] = waiter[u]
<1>1. WaiterOK(waiter[t], task[t])
  BY EntryOfInvariant
<1>2. waiter \in [Tasks -> {"none", "waiting", "detached", "terminal"}]
  BY DEF IInv, RestOK
<1>3. waiter'[t] = IF waiter[t] = "waiting" /\ f.phase = "done"
                     THEN "terminal" ELSE waiter[t]
  BY <1>2 DEF Released
<1> QED
  BY <1>1, <1>2, <1>3 DEF Released, WaiterOK

\* f differs from e in its worker, its output, and what interrupted it.
Quiet(e, f) ==
  /\ f.phase = e.phase /\ f.status = e.status /\ f.detached = e.detached
  /\ f.writes = e.writes /\ f.awaited = e.awaited /\ EntryOK(f)

LEMMA OutputQuiet ==
  ASSUME IInv, NEW t \in Tasks, Output(t)
  PROVE  \E f : Quiet(task[t], f) /\ Becomes(t, f)
<1> DEFINE chunk == task[t].produced + 1
           e == [task[t] EXCEPT !.produced = chunk]
           held == [e EXCEPT !.pending = Append(@, chunk)]
           live == [e EXCEPT !.appends = Append(@, <<chunk>>)]
<1>1. EntryOK(task[t])
  BY EntryOfInvariant
<1>2. chunk \in Chunks /\ chunk \in 0 .. MaxChunks /\ <<chunk>> \in Seq(Chunks)
  <2>1. task[t].produced \in 0 .. MaxChunks /\ task[t].produced < MaxChunks
    BY <1>1 DEF EntryOK, Entries, Output
  <2> QED
    BY <2>1, CountsAssumption DEF Chunks
<1>3. Quiet(task[t], e) /\ e.started = task[t].started /\ e.pending = task[t].pending
      /\ e.appends = task[t].appends
  BY <1>1, <1>2 DEF Quiet, EntryOK, Entries
<1>4. EntryOK(e) /\ e \in Entries /\ e.appends \in Seq(Seq(Chunks))
      /\ e.pending \in Seq(Chunks) /\ e.unread \in Nat /\ e.unread <= Len(e.appends)
  BY <1>3 DEF Quiet, EntryOK, Entries
<1>5. Becomes(t, IF e.started THEN live
                 ELSE IF Len(held.pending) > SpillChunks THEN OutputStarted(held)
                 ELSE held)
  BY DEF Output
<1> HIDE DEF e, chunk
<1>6. Quiet(task[t], held)
  <2>1. Append(e.pending, chunk) \in Seq(Chunks)
    BY <1>2, <1>4, AppendProperties
  <2>2. held \in Entries
    BY <2>1, <1>4 DEF Entries
  <2> QED
    BY <2>2, <1>3, <1>4 DEF Quiet, EntryOK, Entries
<1>7. Quiet(task[t], live)
  <2>1. /\ Append(e.appends, <<chunk>>) \in Seq(Seq(Chunks))
        /\ Len(Append(e.appends, <<chunk>>)) = Len(e.appends) + 1
    BY <1>2, <1>4, AppendProperties
  <2>2. Len(e.appends) \in Nat
    BY <1>4, LenProperties
  <2>3. live \in Entries
    BY <2>1, <1>4 DEF Entries
  <2>4. /\ live.phase = e.phase /\ live.status = e.status
        /\ live.detached = e.detached /\ live.writes = e.writes
        /\ live.awaited = e.awaited /\ live.unread = e.unread
        /\ live.appends = Append(e.appends, <<chunk>>)
    BY <1>4 DEF Entries
  <2> QED
    BY <2>1, <2>2, <2>3, <2>4, <1>3, <1>4 DEF Quiet, EntryOK
<1> HIDE DEF held, live
<1>8. Quiet(task[t], OutputStarted(held))
  BY <1>6, OutputStartedOK DEF Quiet
<1> QED
  BY <1>5, <1>6, <1>7, <1>8

LEMMA QuietStep ==
  ASSUME IInv, NEW t \in Tasks, NEW f, Live(t), Quiet(task[t], f), Becomes(t, f),
         log' \in [Tasks -> Seq(Chunks)],
         UNCHANGED <<process, waiter, ghosts, scheduled, steered, delivered, disk,
                     used, crashes>>
  PROVE  IInv'
<1>1. PhaseOK(task[t]) /\ WaiterOK(waiter[t], task[t])
  BY EntryOfInvariant
<1>2. Sound(f) /\ WaiterOK(waiter'[t], f)
  BY <1>1 DEF Quiet, Sound, PhaseOK, WaiterOK, Live
<1>3. Others(t) /\ RestOK' /\ \A u \in Tasks : Told(u)' => Told(u)
  BY DEF Others, IInv, RestOK, Told, Notices
<1> QED
  BY <1>2, <1>3, LiveStep DEF Quiet

LEMMA OutputSafe == ASSUME IInv, NEW t \in Tasks, Output(t) PROVE IInv'
<1>1. PICK f : Quiet(task[t], f) /\ Becomes(t, f)
  BY OutputQuiet
<1>2. log' \in [Tasks -> Seq(Chunks)] /\ Live(t)
  BY DEF Output, elsewhere, storage, IInv, RestOK
<1> QED
  BY <1>1, <1>2, QuietStep DEF Output, elsewhere, storage

LEMMA OutputWrittenQuiet ==
  ASSUME IInv, NEW t \in Tasks, OutputWritten(t)
  PROVE  /\ \E f : Quiet(task[t], f) /\ Becomes(t, f)
         /\ log' \in [Tasks -> Seq(Chunks)]
<1> DEFINE e == task[t]
           f == [e EXCEPT !.appends = Tail(@), !.unread = IF @ = 0 THEN 0 ELSE @ - 1]
<1>1. EntryOK(e) /\ e.appends # <<>> /\ Becomes(t, f)
  BY EntryOfInvariant DEF OutputWritten
<1> HIDE DEF e
<1>2. e \in Entries /\ e.appends \in Seq(Seq(Chunks)) /\ e.unread \in Nat
      /\ e.unread <= Len(e.appends)
  BY <1>1 DEF EntryOK, Entries
<1>3. /\ Tail(e.appends) \in Seq(Seq(Chunks)) /\ Head(e.appends) \in Seq(Chunks)
      /\ Len(Tail(e.appends)) = Len(e.appends) - 1 /\ Len(e.appends) \in Nat
  BY <1>1, <1>2, HeadTailProperties, LenProperties
<1>4. f \in Entries
  <2>1. (IF e.unread = 0 THEN 0 ELSE e.unread - 1) \in Nat
    BY <1>2
  <2> QED
    BY <1>2, <1>3, <2>1 DEF Entries
<1>5. /\ f.phase = e.phase /\ f.status = e.status /\ f.detached = e.detached
      /\ f.writes = e.writes /\ f.awaited = e.awaited
      /\ f.appends = Tail(e.appends)
      /\ f.unread = IF e.unread = 0 THEN 0 ELSE e.unread - 1
  BY <1>2 DEF Entries
<1>6. Quiet(e, f)
  <2> HIDE DEF f
  <2> QED
    BY <1>1, <1>2, <1>3, <1>4, <1>5 DEF Quiet, EntryOK
<1>7. log' \in [Tasks -> Seq(Chunks)]
  <2>1. log \in [Tasks -> Seq(Chunks)]
    BY DEF IInv, RestOK
  <2>2. log[t] \o Head(e.appends) \in Seq(Chunks)
    BY <2>1, <1>3, ConcatProperties
  <2> QED
    BY <2>1, <2>2 DEF OutputWritten, e
<1> QED
  BY <1>1, <1>6, <1>7 DEF e

LEMMA OutputWrittenSafe == ASSUME IInv, NEW t \in Tasks, OutputWritten(t) PROVE IInv'
<1>1. PICK f : Quiet(task[t], f) /\ Becomes(t, f)
  BY OutputWrittenQuiet
<1>2. log' \in [Tasks -> Seq(Chunks)] /\ Live(t)
  BY OutputWrittenQuiet DEF OutputWritten
<1> QED
  BY <1>1, <1>2, QuietStep DEF OutputWritten

\* What the end of the worker, a deadline or a stop makes of a task that no
\* tool call was told the end of.
LEMMA ReleasedStep ==
  ASSUME IInv, NEW t \in Tasks, NEW f, Live(t), Becomes(t, f), Released(t, f),
         Sound(f), f.detached = task[t].detached,
         task[t].phase = "done" => f.phase = "done",
         UNCHANGED <<process, ghosts, scheduled, steered, storage, used, crashes>>
  PROVE  IInv'
<1>1. /\ WaiterOK(waiter'[t], f)
      /\ waiter' \in [Tasks -> {"none", "waiting", "detached", "terminal"}]
      /\ \A u \in Tasks \ {t} : waiter'[u] = waiter[u]
  BY ReleasedOK DEF Sound
<1>2. Others(t) /\ RestOK' /\ \A u \in Tasks : Told(u)' => Told(u)
  BY <1>1 DEF Others, IInv, RestOK, Told, Notices, storage
<1> QED
  BY <1>1, <1>2, LiveStep

LEMMA FinalizedSound ==
  ASSUME NEW e, EntryOK(e), NEW status \in Terminal
  PROVE  Sound(Finalized(e, status)) /\ Finalized(e, status).detached = e.detached
  BY FinalizedOK DEF Sound, PhaseOK, Over

LEMMA ForcedSafe == ASSUME IInv, NEW t \in Tasks, Forced(t) PROVE IInv'
<1> DEFINE status == IF task[t].outcome = "timeout" THEN "timed_out" ELSE "killed"
<1>1. EntryOK(task[t]) /\ status \in Terminal
  BY EntryOfInvariant DEF Terminal, Settlements
<1>2. Sound(Finalized(task[t], status))
      /\ Finalized(task[t], status).detached = task[t].detached
  BY <1>1, FinalizedSound
<1> QED
  BY <1>2, ReleasedStep DEF Forced

\* The entry a worker leaves when it ends.
LEMMA WorkerGone ==
  ASSUME IInv, NEW t \in Tasks
  PROVE  Quiet(task[t], [task[t] EXCEPT !.working = FALSE])
<1>1. EntryOK(task[t])
  BY EntryOfInvariant
<1> QED
  BY <1>1 DEF Quiet, EntryOK, Entries

LEMMA WorkerEndsSafe == ASSUME IInv, NEW t \in Tasks, WorkerEnds(t) PROVE IInv'
<1> DEFINE e == [task[t] EXCEPT !.working = FALSE]
<1>1. Quiet(task[t], e) /\ EntryOK(e) /\ PhaseOK(task[t]) /\ Live(t)
  BY WorkerGone, EntryOfInvariant DEF Quiet, WorkerEnds
<1> DEFINE next(s) == IF e.phase \in {"racing", "grace"} THEN WorkerOver(e, s) ELSE e
<1>2. PICK s \in Settlements : Becomes(t, next(s)) /\ Released(t, next(s))
  BY DEF WorkerEnds
<1> HIDE DEF e
<1>3. Sound(next(s)) /\ next(s).detached = task[t].detached
      /\ (task[t].phase = "done" => next(s).phase = "done")
  <2>1. CASE e.phase \in {"racing", "grace"}
    <3>1. PICK status \in Terminal : WorkerOver(e, s) = Finalized(e, status)
      BY DEF WorkerOver, Terminal, Settlements
    <3> QED
      BY <2>1, <3>1, <1>1, FinalizedSound DEF Quiet
  <2>2. CASE e.phase \notin {"racing", "grace"}
    BY <2>2, <1>1 DEF Quiet, Sound, PhaseOK, Live
  <2> QED
    BY <2>1, <2>2
<1> HIDE DEF next
<1> QED
  BY <1>1, <1>2, <1>3, ReleasedStep DEF WorkerEnds

\* A step after which the tool call waits as before.
LEMMA SilentStep ==
  ASSUME IInv, NEW t \in Tasks, NEW f, Live(t), Becomes(t, f), Sound(f),
         f.detached = task[t].detached, task[t].phase = "done" => f.phase = "done",
         UNCHANGED elsewhere
  PROVE  IInv'
<1>1. WaiterOK(waiter[t], task[t])
  BY EntryOfInvariant
<1>2. WaiterOK(waiter'[t], f)
  BY <1>1 DEF WaiterOK, Sound, elsewhere
<1>3. Others(t) /\ RestOK' /\ \A u \in Tasks : Told(u)' => Told(u)
  BY DEF Others, IInv, RestOK, Told, Notices, elsewhere, storage
<1> QED
  BY <1>2, <1>3, LiveStep

LEMMA InterruptSafe ==
  ASSUME IInv, NEW t \in Tasks, NEW outcome \in {"stop", "timeout"},
         Interrupt(t, outcome)
  PROVE  IInv'
<1> DEFINE f == [task[t] EXCEPT !.phase = "grace", !.outcome = outcome]
<1>1. EntryOK(task[t])
  BY EntryOfInvariant
<1>2. Sound(f) /\ f.detached = task[t].detached
  BY <1>1 DEF Sound, EntryOK, Entries, PhaseOK, Over, Phases
<1> HIDE DEF f
<1>3. Becomes(t, f) /\ Live(t) /\ task[t].phase # "done"
  BY DEF Interrupt, f
<1> QED
  BY <1>2, <1>3, SilentStep DEF Interrupt

LEMMA GraceOverSafe == ASSUME IInv, NEW t \in Tasks, GraceOver(t) PROVE IInv'
<1> DEFINE f == [task[t] EXCEPT !.phase = "forcing"]
<1>1. EntryOK(task[t])
  BY EntryOfInvariant
<1>2. Sound(f) /\ f.detached = task[t].detached
  BY <1>1 DEF Sound, EntryOK, Entries, PhaseOK, Over, Phases
<1> HIDE DEF f
<1>3. Becomes(t, f) /\ Live(t) /\ task[t].phase # "done"
  BY DEF GraceOver, f
<1> QED
  BY <1>2, <1>3, SilentStep DEF GraceOver

LEMMA SuppressSafe == ASSUME IInv, NEW t \in Tasks, Suppress(t) PROVE IInv'
<1> DEFINE e == [task[t] EXCEPT !.suppressed = TRUE]
           f == Persisted(e)
<1>1. EntryOK(task[t]) /\ PhaseOK(task[t])
  BY EntryOfInvariant
<1>2. Quiet(task[t], e) /\ EntryOK(e)
  BY <1>1 DEF Quiet, EntryOK, Entries
<1> HIDE DEF e
<1>3. Sound(f) /\ f.detached = task[t].detached /\ f.phase = task[t].phase
  BY <1>1, <1>2, PersistedOK DEF Sound, Quiet, PhaseOK, Suppress, Live
<1> HIDE DEF f
<1>4. Becomes(t, f) /\ Live(t)
  BY DEF Suppress, f, e
<1> QED
  BY <1>3, <1>4, SilentStep DEF Suppress

LEMMA DetachSafe == ASSUME IInv, NEW t \in Tasks, Detach(t) PROVE IInv'
<1> DEFINE e == [task[t] EXCEPT !.detached = TRUE]
           f == Persisted(OutputStarted(e))
<1>1. EntryOK(task[t]) /\ PhaseOK(task[t])
  BY EntryOfInvariant
<1>2. EntryOK(e) /\ e.phase = task[t].phase /\ e.status = task[t].status /\ e.detached
  BY <1>1 DEF EntryOK, Entries
<1> HIDE DEF e
<1>3. /\ EntryOK(f) /\ f.phase = task[t].phase /\ f.status = task[t].status
      /\ f.detached
  BY <1>2, OutputStartedOK, PersistedOK
<1> HIDE DEF f
<1>4. Becomes(t, f) /\ Live(t) /\ task[t].phase \notin Over
  BY <1>1 DEF Detach, f, e, PhaseOK, IsTerminal
<1>5. Sound(f)
  BY <1>3, <1>4 DEF Sound, PhaseOK, Live, Over
<1>6. waiter \in [Tasks -> {"none", "waiting", "detached", "terminal"}]
  BY DEF IInv, RestOK
<1>7. waiter' = [waiter EXCEPT ![t] = "detached"]
  BY DEF Detach
<1>8. WaiterOK(waiter'[t], f)
  BY <1>5, <1>6, <1>7 DEF WaiterOK, Sound
<1>9. Others(t) /\ RestOK' /\ \A u \in Tasks : Told(u)' => Told(u)
  BY <1>6, <1>7 DEF Detach, Others, IInv, RestOK, Told, Notices, storage
<1> QED
  BY <1>3, <1>4, <1>5, <1>8, <1>9, LiveStep

\* What the end of a write of the record makes of the entry.
Written(e) == [e EXCEPT !.writes = Tail(@), !.awaited = IF @ = 0 THEN 0 ELSE @ - 1]

LEMMA WrittenOK ==
  ASSUME NEW e, EntryOK(e), e.writes # <<>>
  PROVE  /\ EntryOK(Written(e)) /\ Written(e).phase = e.phase
         /\ Written(e).status = e.status /\ Written(e).detached = e.detached
         /\ Written(e).suppressed = e.suppressed
         /\ Written(e).writes = Tail(e.writes)
         /\ Written(e).awaited = IF e.awaited = 0 THEN 0 ELSE e.awaited - 1
         /\ Head(e.writes) \in Info
<1> DEFINE f == Written(e)
<1>1. e \in Entries /\ e.writes \in Seq(Info) /\ e.awaited \in Nat
      /\ e.awaited <= Len(e.writes) /\ e.unread <= Len(e.appends)
  BY DEF EntryOK, Entries
<1>2. /\ Tail(e.writes) \in Seq(Info) /\ Head(e.writes) \in Info
      /\ Len(Tail(e.writes)) = Len(e.writes) - 1 /\ Len(e.writes) \in Nat
  BY <1>1, HeadTailProperties, LenProperties
<1>3. f \in Entries
  <2>1. (IF e.awaited = 0 THEN 0 ELSE e.awaited - 1) \in Nat
    BY <1>1
  <2> QED
    BY <1>1, <1>2, <2>1 DEF Entries, Written
<1>4. /\ f.phase = e.phase /\ f.status = e.status /\ f.detached = e.detached
      /\ f.suppressed = e.suppressed
      /\ f.appends = e.appends /\ f.unread = e.unread
      /\ f.writes = Tail(e.writes)
      /\ f.awaited = IF e.awaited = 0 THEN 0 ELSE e.awaited - 1
  BY <1>1 DEF Entries, Written
<1> HIDE DEF f
<1>5. EntryOK(f)
  BY <1>1, <1>2, <1>3, <1>4 DEF EntryOK
<1> QED
  BY <1>2, <1>4, <1>5 DEF f

LEMMA EffectsOK ==
  ASSUME IInv, NEW t \in Tasks, NEW e, EntryOK(e), e.status \in Terminal, Effects(t, e)
  PROVE  /\ scheduled' \subseteq Keys
         /\ \E f : /\ Becomes(t, f) /\ Released(t, f) /\ Sound(f)
                   /\ f.phase \in {"building", "done"} /\ f.status = e.status
                   /\ f.detached = e.detached /\ f.writes = e.writes
<1> DEFINE building == [e EXCEPT !.phase = "building", !.unread = Len(e.appends)]
           done == [e EXCEPT !.phase = "done"]
           f == IF Due(t, e) THEN building ELSE done
<1>1. e \in Entries /\ e.appends \in Seq(Seq(Chunks)) /\ e.awaited <= Len(e.writes)
      /\ e.unread <= Len(e.appends)
  BY DEF EntryOK, Entries
<1>2. Len(e.appends) \in Nat /\ Len(e.appends) <= Len(e.appends)
  BY <1>1, LenProperties
<1>3. /\ building \in Entries
      /\ building.phase = "building" /\ building.status = e.status
      /\ building.detached = e.detached /\ building.writes = e.writes
      /\ building.appends = e.appends /\ building.unread = Len(e.appends)
      /\ building.awaited = e.awaited
  BY <1>1, <1>2 DEF Entries, Phases
<1>4. /\ done \in Entries /\ done.phase = "done" /\ done.status = e.status
      /\ done.detached = e.detached /\ done.writes = e.writes
      /\ done.appends = e.appends /\ done.unread = e.unread
      /\ done.awaited = e.awaited
  BY <1>1 DEF Entries, Phases
<1> HIDE DEF building, done
<1>5. EntryOK(building) /\ EntryOK(done)
  BY <1>1, <1>2, <1>3, <1>4 DEF EntryOK
<1>6. Due(t, e) => e.detached
  BY DEF Due
<1>7. /\ Sound(f) /\ f.phase \in {"building", "done"} /\ f.status = e.status
      /\ f.detached = e.detached /\ f.writes = e.writes
  BY <1>3, <1>4, <1>5, <1>6 DEF Sound, PhaseOK
<1>8. Becomes(t, f) /\ Released(t, f)
  BY DEF Effects, building, done
<1>9. scheduled' \subseteq Keys
  BY DEF Effects, IInv, RestOK, Keys
<1> HIDE DEF f
<1> QED
  BY <1>7, <1>8, <1>9

LEMMA RecordWrittenSafe == ASSUME IInv, NEW t \in Tasks, RecordWritten(t) PROVE IInv'
<1> DEFINE e == Written(task[t])
<1>1. EntryOK(task[t]) /\ PhaseOK(task[t]) /\ WaiterOK(waiter[t], task[t])
      /\ task[t].writes # <<>> /\ Live(t)
  BY EntryOfInvariant DEF RecordWritten
<1>2. EntryOK(e) /\ e.phase = task[t].phase /\ e.status = task[t].status
      /\ e.detached = task[t].detached /\ Head(task[t].writes) \in Info
  BY <1>1, WrittenOK
<1>3. IF e.phase = "persisting" /\ e.awaited = 0
        THEN Effects(t, e) ELSE Becomes(t, e) /\ UNCHANGED <<waiter, scheduled>>
  BY DEF RecordWritten, Written
<1> HIDE DEF e
<1>4. disk' \in [Tasks -> Info \union {NoInfo}]
      /\ \A u \in Tasks \ {t} : disk'[u] = disk[u]
  <2>1. disk \in [Tasks -> Info \union {NoInfo}]
    BY DEF IInv, RestOK
  <2> QED
    BY <1>2, <2>1 DEF RecordWritten
<1>5. \A u \in Tasks : Told(u)' => Told(u)
  BY DEF RecordWritten, Told, Notices
<1>6. CASE e.phase = "persisting" /\ e.awaited = 0
  <2>1. e.status \in Terminal /\ Effects(t, e)
    BY <1>1, <1>2, <1>3, <1>6 DEF PhaseOK, Over
  <2>2. PICK f : /\ Becomes(t, f) /\ Released(t, f) /\ Sound(f)
                 /\ f.detached = e.detached
    BY <1>2, <2>1, EffectsOK
  <2>3. /\ WaiterOK(waiter'[t], f)
        /\ waiter' \in [Tasks -> {"none", "waiting", "detached", "terminal"}]
        /\ \A u \in Tasks \ {t} : waiter'[u] = waiter[u]
    BY <1>1, <1>2, <1>6, <2>2, ReleasedOK DEF Sound
  <2>4. scheduled' \subseteq Keys
    BY <1>2, <2>1, EffectsOK
  <2>5. Others(t) /\ RestOK'
    BY <1>4, <2>3, <2>4 DEF RecordWritten, Others, IInv, RestOK
  <2> QED
    BY <1>1, <1>2, <1>5, <2>2, <2>3, <2>5, LiveStep
<1>7. CASE ~ (e.phase = "persisting" /\ e.awaited = 0)
  <2>1. Becomes(t, e) /\ UNCHANGED <<waiter, scheduled>>
    BY <1>3, <1>7
  <2>2. Sound(e) /\ WaiterOK(waiter'[t], e)
    BY <1>1, <1>2, <2>1 DEF Sound, PhaseOK, WaiterOK, Live
  <2>3. Others(t) /\ RestOK'
    BY <1>4, <2>1 DEF RecordWritten, Others, IInv, RestOK
  <2> QED
    BY <1>1, <1>2, <1>5, <2>1, <2>2, <2>3, LiveStep
<1> QED
  BY <1>6, <1>7

LEMMA NotifySafe == ASSUME IInv, NEW t \in Tasks, Notify(t) PROVE IInv'
<1> DEFINE f == [task[t] EXCEPT !.phase = "done"]
<1>1. EntryOK(task[t]) /\ PhaseOK(task[t]) /\ WaiterOK(waiter[t], task[t])
      /\ Live(t) /\ task[t].phase = "building"
  BY EntryOfInvariant DEF Notify
<1>2. task[t].status \in Terminal /\ task[t].detached
  BY <1>1 DEF PhaseOK, Over
<1>3. Sound(f) /\ f.detached = task[t].detached /\ Becomes(t, f)
  BY <1>1, <1>2 DEF Sound, EntryOK, Entries, PhaseOK, Phases, Notify
<1> HIDE DEF f
<1>4. WaiterOK(waiter'[t], f)
  BY <1>1, <1>3 DEF WaiterOK, Sound, Notify
<1>5. Key(t) \in Keys
  BY <1>2 DEF Key, Keys
<1>6. Others(t) /\ RestOK'
  BY <1>5 DEF Notify, Others, IInv, RestOK, storage
<1>7. \A u \in Tasks : Told(u)' => Told(u) \/ u = t
  BY DEF Notify, Told, Notices, Key, storage
<1> QED
  BY <1>1, <1>2, <1>3, <1>4, <1>6, <1>7, LiveStep

LEMMA RegisterSafe ==
  ASSUME IInv, NEW t \in Tasks, NEW background \in BOOLEAN, Register(t, background)
  PROVE  IInv'
<1> DEFINE e == [NewTask EXCEPT !.phase = "racing", !.working = TRUE,
                                !.inBackground = background,
                                !.detached = background, !.started = background]
           f == IF background THEN Persisted(e) ELSE e
<1>1. t \notin used /\ ~ Told(t) /\ ghosts[t] = NoInfo
  BY DEF Register, IInv, Fresh
<1>2. EntryOK(e) /\ e.phase = "racing" /\ e.detached = background
  BY NewTaskOK DEF EntryOK, Entries, Phases
<1> HIDE DEF e
<1>3. EntryOK(f) /\ f.phase = "racing" /\ f.detached = background
  BY <1>2, PersistedOK
<1>4. Becomes(t, f)
  BY DEF Register, e
<1> HIDE DEF f
<1>5. task' = [task EXCEPT ![t] = f] /\ task \in [Tasks -> Entries] /\ f \in Entries
  BY <1>3, <1>4 DEF Becomes, IInv, TasksOK, EntryOK
<1>6. task'[t] = f /\ \A u \in Tasks \ {t} : task'[u] = task[u]
  BY <1>5
<1>7. waiter \in [Tasks -> {"none", "waiting", "detached", "terminal"}]
  BY DEF IInv, RestOK
<1>8. /\ waiter'[t] = IF background THEN "none" ELSE "waiting"
      /\ \A u \in Tasks \ {t} : waiter'[u] = waiter[u]
      /\ waiter' \in [Tasks -> {"none", "waiting", "detached", "terminal"}]
  BY <1>7 DEF Register
<1>9. TasksOK'
  <2>1. task' \in [Tasks -> Entries]
    BY <1>5
  <2>2. \A u \in Tasks : EntryOK(task'[u])
    BY <1>3, <1>6 DEF IInv, TasksOK
  <2> QED
    BY <2>1, <2>2 DEF TasksOK, EntryOK
<1>10. RestOK'
  BY <1>8 DEF Register, IInv, RestOK, storage
<1>11. \A u \in Tasks : Told(u)' <=> Told(u)
  BY DEF Register, storage, Told, Notices
<1>12. Fresh'
  <2> SUFFICES ASSUME NEW u \in Tasks \ used'
               PROVE  /\ task'[u] = NewTask /\ disk'[u] = NoInfo
                      /\ ghosts'[u] = NoInfo /\ ~ Told(u)'
    BY DEF Fresh
  <2>1. u \notin used /\ u # t
    BY DEF Register
  <2> QED
    BY <2>1, <1>6, <1>11 DEF IInv, Fresh, Register, storage
<1>13. GhostsAreOld'
  BY <1>1, <1>6 DEF IInv, GhostsAreOld, Register, Live, Running
<1>14. Ends'
  <2> SUFFICES ASSUME NEW u \in Tasks
               PROVE  /\ PhaseOK(task'[u]) /\ WaiterOK(waiter'[u], task'[u])
                      /\ task'[u].phase # "new" /\ Told(u)' => task'[u].detached
    BY DEF Ends, Live, PhaseOK, WaiterOK
  <2>1. CASE u = t
    BY <2>1, <1>1, <1>3, <1>6, <1>8, <1>11 DEF PhaseOK, WaiterOK, Over
  <2>2. CASE u # t
    BY <2>2, <1>6, <1>8, <1>11 DEF IInv, Ends, Live
  <2> QED
    BY <2>1, <2>2
<1> QED
  BY <1>9, <1>10, <1>12, <1>13, <1>14 DEF IInv

LEMMA DeliverSafe == ASSUME IInv, NEW key \in Keys, Deliver(key) PROVE IInv'
<1>1. TasksOK' /\ RestOK'
  BY DEF IInv, TasksOK, RestOK, EntryOK, Deliver
<1>2. Notices' = Notices
  BY DEF Deliver, Notices
<1>3. \A t \in Tasks : Told(t)' <=> Told(t)
  BY <1>2 DEF Told
<1>4. Fresh' /\ GhostsAreOld' /\ Ends'
  BY <1>3 DEF IInv, Fresh, GhostsAreOld, Ends, Deliver, Live
<1> QED
  BY <1>1, <1>4 DEF IInv

LEMMA CrashSafe == ASSUME IInv, Crash PROVE IInv'
<1>1. task' = [t \in Tasks |-> NewTask] /\ EntryOK(NewTask) /\ NewTask.phase = "new"
  BY NewTaskOK DEF Crash
<1>2. TasksOK'
  BY <1>1 DEF TasksOK, EntryOK
<1>3. RestOK'
  BY CountsAssumption DEF IInv, RestOK, Crash, storage
<1>4. \A t \in Tasks : Told(t)' => Told(t)
  BY DEF Crash, storage, Told, Notices
<1>5. \A t \in Tasks : task'[t] = NewTask /\ waiter'[t] = "none" /\ ghosts'[t] = NoInfo
  BY DEF Crash
<1>6. Fresh'
  BY <1>4, <1>5 DEF IInv, Fresh, Crash, storage
<1>7. GhostsAreOld'
  BY <1>1, <1>5 DEF GhostsAreOld, Live, Crash
<1>8. Ends'
  BY <1>1, <1>5 DEF Ends, PhaseOK, WaiterOK, Over, Live
<1> QED
  BY <1>2, <1>3, <1>6, <1>7, <1>8 DEF IInv

LEMMA RestartSafe == ASSUME IInv, Restart PROVE IInv'
<1>1. TasksOK' /\ RestOK'
  BY DEF IInv, TasksOK, RestOK, EntryOK, Restart, storage
<1>2. \A t \in Tasks : Told(t)' <=> Told(t)
  BY DEF Restart, storage, Told, Notices
<1>3. Fresh' /\ Ends'
  BY <1>2 DEF IInv, Fresh, Ends, Restart, storage, Live
<1>4. GhostsAreOld'
  BY DEF IInv, GhostsAreOld, Restart, Live
<1> QED
  BY <1>1, <1>3, <1>4 DEF IInv

\* A step of the recovery, which touches no task.
LEMMA RecoveryStep ==
  ASSUME IInv, RestOK', GhostsAreOld', UNCHANGED <<task, waiter, used>>,
         \A t \in Tasks : ghosts[t] = NoInfo =>
           ghosts'[t] = NoInfo /\ disk'[t] = disk[t] /\ (Told(t)' => Told(t))
  PROVE  IInv'
<1>1. TasksOK'
  BY DEF IInv, TasksOK, EntryOK
<1>2. Fresh'
  BY DEF IInv, Fresh
<1>3. Ends'
  BY DEF IInv, Ends, GhostsAreOld, Live
<1> QED
  BY <1>1, <1>2, <1>3 DEF IInv

LEMMA MarkLostSafe == ASSUME IInv, MarkLost PROVE IInv'
<1>1. /\ ghosts \in [Tasks -> Info \union {NoInfo}]
      /\ disk \in [Tasks -> Info \union {NoInfo}]
  BY DEF IInv, RestOK
<1>2. \A t \in Tasks : Told(t)' <=> Told(t)
  BY DEF MarkLost, Told, Notices
<1>3. CASE \E t \in Tasks :
             /\ ghosts[t].status = "running"
             /\ ghosts' = [ghosts EXCEPT ![t].status = "lost"]
             /\ disk' = [disk EXCEPT ![t] = [ghosts[t] EXCEPT !.status = "lost"]]
             /\ UNCHANGED process
  <2>1. PICK t \in Tasks :
           /\ ghosts[t].status = "running"
           /\ ghosts' = [ghosts EXCEPT ![t].status = "lost"]
           /\ disk' = [disk EXCEPT ![t] = [ghosts[t] EXCEPT !.status = "lost"]]
           /\ UNCHANGED process
    BY <1>3
  <2>2. ghosts[t] \in Info /\ ghosts[t] # NoInfo
    BY <1>1, <2>1 DEF NoInfo
  <2>3. [ghosts[t] EXCEPT !.status = "lost"] \in Info
    BY <2>2 DEF Info, Statuses, Terminal
  <2>4. /\ ghosts' = [ghosts EXCEPT ![t] = [ghosts[t] EXCEPT !.status = "lost"]]
    BY <2>1
  <2>5. RestOK'
    BY <1>1, <2>1, <2>3, <2>4 DEF IInv, RestOK, MarkLost
  <2>6. \A u \in Tasks \ {t} : ghosts'[u] = ghosts[u] /\ disk'[u] = disk[u]
    BY <1>1, <2>1, <2>4
  <2>7. ~ Live(t)
    BY <2>2 DEF IInv, GhostsAreOld
  <2>8. GhostsAreOld'
    BY <2>1, <2>6, <2>7 DEF IInv, GhostsAreOld, MarkLost, Live
  <2> QED
    BY <1>2, <2>2, <2>5, <2>6, <2>8, RecoveryStep DEF MarkLost
<1>4. CASE /\ {t \in Tasks : ghosts[t].status = "running"} = {}
           /\ process' = "restoring" /\ UNCHANGED <<ghosts, disk>>
  <2>1. RestOK' /\ GhostsAreOld'
    BY <1>4 DEF IInv, RestOK, GhostsAreOld, MarkLost, Live
  <2> QED
    BY <1>2, <1>4, <2>1, RecoveryStep DEF MarkLost
<1> QED
  BY <1>3, <1>4 DEF MarkLost

LEMMA RestoreSafe == ASSUME IInv, Restore PROVE IInv'
<1>1. GhostsAreOld'
  BY DEF IInv, GhostsAreOld, Restore, Live
<1>2. CASE \E t \in Tasks :
             /\ ghosts[t] # NoInfo /\ scheduled' = scheduled \union {<<t, ghosts[t].status>>}
             /\ \/ /\ steered' = steered \union {<<t, ghosts[t].status>>}
                   /\ UNCHANGED delivered
                \/ /\ delivered' = delivered \union {<<t, ghosts[t].status>>}
                   /\ UNCHANGED steered
             /\ UNCHANGED process
  <2>1. PICK t \in Tasks :
             /\ ghosts[t] # NoInfo /\ scheduled' = scheduled \union {<<t, ghosts[t].status>>}
             /\ \/ /\ steered' = steered \union {<<t, ghosts[t].status>>}
                   /\ UNCHANGED delivered
                \/ /\ delivered' = delivered \union {<<t, ghosts[t].status>>}
                   /\ UNCHANGED steered
             /\ UNCHANGED process
    BY <1>2
  <2>2. ghosts[t].status \in Terminal
    BY <2>1 DEF IInv, RestOK, GhostsAreOld, Restore, Info, Statuses
  <2>3. RestOK'
    BY <2>1, <2>2 DEF IInv, RestOK, Restore, Keys
  <2>4. \A u \in Tasks : Told(u)' => Told(u) \/ u = t
    BY <2>1 DEF Told, Notices
  <2> QED
    BY <1>1, <2>1, <2>3, <2>4, RecoveryStep DEF Restore
<1>3. CASE process' = "up" /\ UNCHANGED <<scheduled, steered, delivered>>
  <2>1. RestOK' /\ \A u \in Tasks : Told(u)' => Told(u)
    BY <1>3 DEF IInv, RestOK, Restore, Told, Notices
  <2> QED
    BY <1>1, <2>1, RecoveryStep DEF Restore
<1> QED
  BY <1>2, <1>3 DEF Restore

-----------------------------------------------------------------------------
(* Theorems                                                                *)

LEMMA InvariantInit == Init => IInv
<1> SUFFICES ASSUME Init PROVE IInv
  OBVIOUS
<1>1. EntryOK(NewTask) /\ NewTask.phase = "new" /\ \A t \in Tasks : task[t] = NewTask
  BY NewTaskOK DEF Init
<1>2. TasksOK
  BY <1>1 DEF TasksOK, EntryOK, Init
<1>3. RestOK
  BY EmptySeq, CountsAssumption DEF RestOK, Init
<1>4. \A t \in Tasks : ~ Told(t)
  BY DEF Init, Told, Notices
<1>5. Fresh
  BY <1>4 DEF Fresh, Init
<1>6. GhostsAreOld /\ Ends
  BY <1>1, <1>4 DEF GhostsAreOld, Ends, PhaseOK, WaiterOK, Over, Live, Init, NoInfo
<1> QED
  BY <1>2, <1>3, <1>5, <1>6 DEF IInv

LEMMA InvariantStep == IInv /\ [Next]_vars => IInv'
<1> SUFFICES ASSUME IInv, [Next]_vars PROVE IInv'
  OBVIOUS
<1>1. ASSUME NEW t \in Tasks, NEW background \in BOOLEAN, Register(t, background)
      PROVE  IInv'
  BY <1>1, RegisterSafe
<1>2. ASSUME NEW t \in Tasks, Output(t) PROVE IInv'
  BY <1>2, OutputSafe
<1>3. ASSUME NEW t \in Tasks, WorkerEnds(t) PROVE IInv'
  BY <1>3, WorkerEndsSafe
<1>4. ASSUME NEW t \in Tasks, Stop(t) \/ Timeout(t) \/ CallerAborts(t) PROVE IInv'
  BY <1>4, InterruptSafe DEF Stop, Timeout, CallerAborts
<1>5. ASSUME NEW t \in Tasks, Detach(t) PROVE IInv'
  BY <1>5, DetachSafe
<1>6. ASSUME NEW t \in Tasks, Suppress(t) PROVE IInv'
  BY <1>6, SuppressSafe
<1>7. ASSUME NEW t \in Tasks, Settling(t) PROVE IInv'
  BY <1>7, GraceOverSafe, ForcedSafe, RecordWrittenSafe, OutputWrittenSafe, NotifySafe
  DEF Settling
<1>8. ASSUME NEW key \in Keys, Deliver(key) PROVE IInv'
  BY <1>8, DeliverSafe
<1>9. CASE Crash
  BY <1>9, CrashSafe
<1>10. CASE Recovering
  BY <1>10, RestartSafe, MarkLostSafe, RestoreSafe DEF Recovering
<1>11. CASE UNCHANGED vars
  <2>1. TasksOK' /\ RestOK'
    BY <1>11 DEF IInv, TasksOK, RestOK, EntryOK, vars, memory, storage
  <2>2. \A t \in Tasks : Told(t)' <=> Told(t)
    BY <1>11 DEF Told, Notices, vars, memory, storage
  <2>3. Fresh' /\ GhostsAreOld' /\ Ends'
    BY <1>11, <2>2 DEF IInv, Fresh, GhostsAreOld, Ends, Live, vars, memory, storage
  <2> QED
    BY <2>1, <2>3 DEF IInv
<1> QED
  BY <1>1, <1>2, <1>3, <1>4, <1>5, <1>6, <1>7, <1>8, <1>9, <1>10, <1>11 DEF Next

LEMMA Invariant == Spec => []IInv
  BY InvariantInit, InvariantStep, PTL DEF Spec

\* Every variable of the background tasks keeps its type: in particular a
\* notification names the end of a task, never a running one, whatever is
\* restored after a crash, and neither the end of a task nor its announcement
\* awaits writes that were never queued (BackgroundManager).
THEOREM TypeCorrect == Spec => []TypeOK
<1>1. IInv => TypeOK
  BY TypeParts DEF IInv
<1> QED
  BY <1>1, Invariant, PTL

\* A tool call that was given the result of its task is not followed by a
\* notification of the same task, for any number of tasks, crashes and
\* failing writes (detach, finalizeTask, fireTerminalEffects).
THEOREM ReportedOnce == Spec => []NoDoubleReport
<1>1. IInv => NoDoubleReport
  BY DEF IInv, Ends, WaiterOK, Live, Told, Notices, NoDoubleReport
<1> QED
  BY <1>1, Invariant, PTL

-----------------------------------------------------------------------------
(* What is on disk when writes succeed                                     *)

\* The record on disk, d, and the writes queued for it, as the end of a task
\* proceeds: it awaits the last write, and then announces what is on disk.
Saved(e, d) ==
  /\ e.phase = "persisting" => /\ e.awaited = Len(e.writes) /\ e.awaited > 0
                               /\ e.writes[Len(e.writes)].status = e.status
  /\ e.phase = "building" => e.writes = <<>> /\ d.status = e.status

Recorded ==
  \A t \in Tasks :
    /\ ghosts[t] # NoInfo => ghosts[t] = disk[t]
    /\ Saved(task[t], disk[t])
    /\ Live(t) /\ Told(t) => task[t].phase = "done" /\ task[t].writes = <<>>
    /\ \A s \in Terminal : <<t, s>> \in Notices => disk[t].status = s

LEMMA RecordedStep ==
  ASSUME IInv, Recorded, NEW t \in Tasks, NEW f, Live(t), Becomes(t, f), Others(t),
         Saved(f, disk'[t]), Told(t)' => f.phase = "done" /\ f.writes = <<>>,
         \A s \in Terminal : <<t, s>> \in Notices' => disk'[t].status = s,
         \A u \in Tasks \ {t}, s \in Terminal :
           <<u, s>> \in Notices' => <<u, s>> \in Notices
  PROVE  Recorded'
<1>1. task' = [task EXCEPT ![t] = f] /\ task \in [Tasks -> Entries]
  BY DEF Becomes, IInv, TasksOK
<1>2. task'[t] = f /\ \A u \in Tasks \ {t} : task'[u] = task[u]
  BY <1>1
<1>3. ghosts[t] = NoInfo
  BY EntryOfInvariant
<1> SUFFICES ASSUME NEW u \in Tasks
             PROVE  /\ ghosts'[u] # NoInfo => ghosts'[u] = disk'[u]
                    /\ Saved(task'[u], disk'[u])
                    /\ task'[u].phase # "new" /\ Told(u)'
                         => task'[u].phase = "done" /\ task'[u].writes = <<>>
                    /\ \A s \in Terminal : <<u, s>> \in Notices' => disk'[u].status = s
  BY DEF Recorded, Live, Saved
<1>4. CASE u = t
  BY <1>2, <1>3, <1>4 DEF Others
<1>5. CASE u # t
  <2>1. Told(u)' => Told(u)
    BY <1>5 DEF Told
  <2> QED
    BY <1>2, <1>5, <2>1 DEF Others, Recorded, Live
<1> QED
  BY <1>4, <1>5

\* A step of t that neither writes its record nor reports anything.
LEMMA UnreportedStep ==
  ASSUME IInv, Recorded, NEW t \in Tasks, NEW f, Live(t), Becomes(t, f), Others(t),
         disk' = disk, Notices' = Notices, Saved(f, disk[t]),
         Told(t) => f.phase = "done" /\ f.writes = <<>>
  PROVE  Recorded'
<1>1. Told(t)' => Told(t)
  BY DEF Told
<1>2. \A s \in Terminal : <<t, s>> \in Notices' => disk'[t].status = s
  BY DEF Recorded
<1> QED
  BY <1>1, <1>2, RecordedStep

LEMMA QuietRecorded ==
  ASSUME IInv, Recorded, NEW t \in Tasks, NEW f, Live(t), Quiet(task[t], f),
         Becomes(t, f), Others(t), disk' = disk, Notices' = Notices
  PROVE  Recorded'
  BY UnreportedStep DEF Recorded, Saved, Quiet

LEMMA OutputRecorded ==
  ASSUME IInv, Recorded, NEW t \in Tasks, Output(t) \/ OutputWritten(t)
  PROVE  Recorded'
<1>1. PICK f : Quiet(task[t], f) /\ Becomes(t, f)
  BY OutputQuiet, OutputWrittenQuiet
<1>2. Live(t) /\ Others(t) /\ disk' = disk /\ Notices' = Notices
  BY DEF Output, OutputWritten, elsewhere, storage, Others, Notices
<1> QED
  BY <1>1, <1>2, QuietRecorded

LEMMA ReleasedOthers ==
  ASSUME NEW t \in Tasks, NEW f, Released(t, f), IInv,
         UNCHANGED <<process, ghosts, scheduled, steered, storage, used, crashes>>
  PROVE  Others(t) /\ disk' = disk /\ Notices' = Notices
  BY DEF Others, Released, IInv, RestOK, storage, Notices

\* The end of a task of which nobody has heard.
LEMMA FinalizedRecorded ==
  ASSUME IInv, Recorded, NEW t \in Tasks, NEW e, EntryOK(e), NEW status \in Terminal,
         Live(t), task[t].phase # "done",
         Becomes(t, Finalized(e, status)), Released(t, Finalized(e, status)),
         UNCHANGED <<process, ghosts, scheduled, steered, storage, used, crashes>>
  PROVE  Recorded'
<1> DEFINE f == Finalized(e, status)
<1>1. Saved(f, disk[t])
  BY FinalizedOK DEF Saved
<1>2. ~ Told(t)
  BY DEF Recorded
<1> HIDE DEF f
<1>3. Becomes(t, f) /\ Released(t, f)
  BY DEF f
<1> QED
  BY <1>1, <1>2, <1>3, ReleasedOthers, UnreportedStep

LEMMA ForcedRecorded ==
  ASSUME IInv, Recorded, NEW t \in Tasks, Forced(t) PROVE Recorded'
<1>1. EntryOK(task[t])
      /\ (IF task[t].outcome = "timeout" THEN "timed_out" ELSE "killed") \in Terminal
  BY EntryOfInvariant DEF Terminal, Settlements
<1> QED
  BY <1>1, FinalizedRecorded DEF Forced

LEMMA WorkerEndsRecorded ==
  ASSUME IInv, Recorded, NEW t \in Tasks, WorkerEnds(t) PROVE Recorded'
<1> DEFINE e == [task[t] EXCEPT !.working = FALSE]
           next(s) == IF e.phase \in {"racing", "grace"} THEN WorkerOver(e, s) ELSE e
<1>1. Quiet(task[t], e) /\ EntryOK(e) /\ Live(t)
  BY WorkerGone DEF Quiet, WorkerEnds
<1>2. PICK s \in Settlements : Becomes(t, next(s)) /\ Released(t, next(s))
  BY DEF WorkerEnds
<1> HIDE DEF e
<1>3. CASE e.phase \in {"racing", "grace"}
  <2>1. PICK status \in Terminal : WorkerOver(e, s) = Finalized(e, status)
    BY DEF WorkerOver, Terminal, Settlements
  <2>2. task[t].phase # "done" /\ next(s) = Finalized(e, status)
    BY <1>1, <1>3, <2>1 DEF Quiet
  <2> QED
    BY <1>1, <1>2, <2>2, FinalizedRecorded DEF WorkerEnds
<1>4. CASE e.phase \notin {"racing", "grace"}
  <2>1. Becomes(t, e) /\ Released(t, e)
    BY <1>2, <1>4
  <2> QED
    BY <1>1, <2>1, ReleasedOthers, QuietRecorded DEF WorkerEnds
<1> QED
  BY <1>3, <1>4

\* A step of a task that is not over.
LEMMA RunningStep ==
  ASSUME IInv, Recorded, NEW t \in Tasks, NEW f, Live(t), Becomes(t, f), Others(t),
         task[t].phase # "done", f.phase \notin {"persisting", "building"},
         disk' = disk, Notices' = Notices
  PROVE  Recorded'
  BY UnreportedStep DEF Recorded, Saved

LEMMA RunningRecorded ==
  ASSUME IInv, Recorded, NEW t \in Tasks,
         \/ \E outcome \in {"stop", "timeout"} : Interrupt(t, outcome)
         \/ GraceOver(t) \/ Suppress(t) \/ Detach(t)
  PROVE  Recorded'
<1> DEFINE e == [task[t] EXCEPT !.suppressed = TRUE]
           d == [task[t] EXCEPT !.detached = TRUE]
<1>1. EntryOK(task[t]) /\ PhaseOK(task[t])
  BY EntryOfInvariant
<1>2. EntryOK(e) /\ e.phase = task[t].phase /\ EntryOK(d) /\ d.phase = task[t].phase
  BY <1>1 DEF EntryOK, Entries
<1> HIDE DEF e, d
<1>3. PICK f : /\ Becomes(t, f) /\ f.phase \in {"grace", "forcing", task[t].phase}
               /\ task[t].phase \notin Over
  <2>1. CASE \E outcome \in {"stop", "timeout"} : Interrupt(t, outcome)
    <3>1. PICK outcome \in {"stop", "timeout"} : Interrupt(t, outcome)
      BY <2>1
    <3>2. [task[t] EXCEPT !.phase = "grace", !.outcome = outcome].phase = "grace"
      BY <1>1 DEF EntryOK, Entries
    <3> QED
      BY <3>1, <3>2 DEF Interrupt, Over
  <2>2. CASE GraceOver(t)
    <3>1. [task[t] EXCEPT !.phase = "forcing"].phase = "forcing"
      BY <1>1 DEF EntryOK, Entries
    <3> QED
      BY <2>2, <3>1 DEF GraceOver, Over
  <2>3. CASE Suppress(t)
    <3>1. Persisted(e).phase = task[t].phase
      BY <1>2, PersistedOK
    <3> QED
      BY <2>3, <3>1, <1>1 DEF Suppress, PhaseOK, IsTerminal, e
  <2>4. CASE Detach(t)
    <3>1. Persisted(OutputStarted(d)).phase = task[t].phase
      BY <1>2, PersistedOK, OutputStartedOK
    <3> QED
      BY <2>4, <3>1, <1>1 DEF Detach, PhaseOK, IsTerminal, d
  <2> QED
    BY <2>1, <2>2, <2>3, <2>4
<1>4. Live(t) /\ Others(t) /\ disk' = disk /\ Notices' = Notices
  BY DEF Interrupt, GraceOver, Suppress, Detach, elsewhere, storage, Others, Notices,
         IInv, RestOK
<1> QED
  BY <1>3, <1>4, RunningStep DEF Over

\* The last record queued is on disk once nothing is queued any more.
LEMMA WrittenLast ==
  ASSUME NEW e, EntryOK(e), e.writes # <<>>, e.awaited = Len(e.writes),
         e.writes[Len(e.writes)].status = e.status
  PROVE  LET f == Written(e)
         IN  /\ f.awaited = Len(f.writes)
             /\ f.awaited = 0 => f.writes = <<>> /\ Head(e.writes).status = e.status
             /\ f.awaited > 0 => f.writes[Len(f.writes)].status = e.status
<1> DEFINE f == Written(e)
<1>1. e.writes \in Seq(Info) /\ e.awaited \in Nat
  BY DEF EntryOK, Entries
<1>2. /\ Tail(e.writes) \in Seq(Info) /\ Head(e.writes) = e.writes[1]
      /\ Len(Tail(e.writes)) = Len(e.writes) - 1 /\ Len(e.writes) \in Nat \ {0}
      /\ \A i \in 1 .. Len(Tail(e.writes)) : Tail(e.writes)[i] = e.writes[i + 1]
  BY <1>1, HeadTailProperties, LenProperties, EmptySeq
<1>3. f.writes = Tail(e.writes) /\ f.awaited = IF e.awaited = 0 THEN 0 ELSE e.awaited - 1
  BY WrittenOK
<1> HIDE DEF f
<1>4. f.awaited = Len(f.writes)
  BY <1>2, <1>3
<1>5. ASSUME f.awaited = 0 PROVE f.writes = <<>> /\ Head(e.writes).status = e.status
  <2>1. Len(e.writes) = 1
    <3>1. e.awaited \in Nat \ {0}
      BY <1>2
    <3>2. e.awaited - 1 = 0
      BY <1>3, <1>5, <3>1
    <3> QED
      BY <3>1, <3>2
  <2>2. f.writes = <<>>
    BY <1>2, <1>3, <1>4, <1>5, EmptySeq
  <2> QED
    BY <1>2, <2>1, <2>2
<1>6. ASSUME f.awaited > 0 PROVE f.writes[Len(f.writes)].status = e.status
  <2>1. Len(f.writes) \in 1 .. Len(f.writes) /\ Len(f.writes) + 1 = Len(e.writes)
    BY <1>2, <1>3, <1>4, <1>6
  <2>2. f.writes[Len(f.writes)] = e.writes[Len(f.writes) + 1]
    BY <1>2, <1>3, <2>1
  <2> QED
    BY <2>1, <2>2
<1> QED
  BY <1>4, <1>5, <1>6 DEF f

LEMMA RecordWrittenRecorded ==
  ASSUME IInv, Recorded, ~ WriteFailures, NEW t \in Tasks, RecordWritten(t)
  PROVE  Recorded'
<1> DEFINE w == task[t].writes
           e == Written(task[t])
<1>1. EntryOK(task[t]) /\ w # <<>> /\ Live(t) /\ Saved(task[t], disk[t])
      /\ task[t].phase # "building"
  BY EntryOfInvariant DEF RecordWritten, Recorded, Saved
<1>2. EntryOK(e) /\ e.phase = task[t].phase /\ e.status = task[t].status
  BY <1>1, WrittenOK
<1>3. IF e.phase = "persisting" /\ e.awaited = 0
        THEN Effects(t, e) ELSE Becomes(t, e) /\ UNCHANGED <<waiter, scheduled>>
  BY DEF RecordWritten, Written
<1>4. ~ Told(t)
  BY <1>1 DEF Recorded
<1>5. disk' = [disk EXCEPT ![t] = Head(w)] /\ Notices' = Notices
  BY DEF RecordWritten, Notices
<1>6. disk'[t] = Head(w) /\ \A u \in Tasks \ {t} : disk'[u] = disk[u]
  BY <1>5 DEF IInv, RestOK
<1>7. (\A u \in Tasks \ {t} : waiter'[u] = waiter[u]) => Others(t)
  BY <1>6 DEF Others, RecordWritten
<1> HIDE DEF w, e
<1>8. ~ Told(t)' /\ \A s \in Terminal : <<t, s>> \notin Notices'
  BY <1>4, <1>5 DEF Told
<1>9. CASE e.phase = "persisting" /\ e.awaited = 0
  <2>1. e.writes = <<>> /\ disk'[t].status = e.status
    BY <1>1, <1>2, <1>6, <1>9, WrittenLast DEF Saved, w, e
  <2>2. e.status \in Terminal
    BY <1>2, <1>9, EntryOfInvariant DEF PhaseOK, Over
  <2>3. PICK f : /\ Becomes(t, f) /\ Released(t, f)
                 /\ f.phase \in {"building", "done"} /\ f.status = e.status
                 /\ f.writes = e.writes
    BY <1>2, <1>3, <1>9, <2>2, EffectsOK
  <2>4. Others(t)
    BY <1>7, <2>3 DEF Released, IInv, RestOK
  <2>5. Saved(f, disk'[t])
    BY <2>1, <2>3 DEF Saved
  <2> QED
    BY <1>1, <1>5, <1>8, <2>3, <2>4, <2>5, RecordedStep
<1>10. CASE e.phase = "persisting" /\ e.awaited # 0
  <2>1. e.awaited = Len(e.writes) /\ e.awaited > 0
        /\ e.writes[Len(e.writes)].status = e.status
    <3>1. e.awaited = Len(e.writes)
          /\ (e.awaited > 0 => e.writes[Len(e.writes)].status = e.status)
      BY <1>1, <1>2, <1>10, WrittenLast DEF Saved, w, e
    <3>2. e.awaited \in Nat
      BY <1>2 DEF EntryOK, Entries
    <3> QED
      BY <3>1, <3>2, <1>10
  <2>2. Saved(e, disk'[t])
    BY <1>10, <2>1 DEF Saved
  <2> QED
    BY <1>1, <1>3, <1>5, <1>7, <1>8, <1>10, <2>2, RecordedStep
<1>11. CASE e.phase # "persisting"
  <2>1. Saved(e, disk'[t])
    BY <1>1, <1>2, <1>11 DEF Saved
  <2> QED
    BY <1>1, <1>3, <1>5, <1>7, <1>8, <1>11, <2>1, RecordedStep
<1> QED
  BY <1>9, <1>10, <1>11

LEMMA NotifyRecorded ==
  ASSUME IInv, Recorded, NEW t \in Tasks, Notify(t) PROVE Recorded'
<1> DEFINE f == [task[t] EXCEPT !.phase = "done"]
<1>1. EntryOK(task[t]) /\ Live(t) /\ task[t].phase = "building" /\ ~ Told(t)
      /\ task[t].writes = <<>> /\ disk[t].status = task[t].status
  BY EntryOfInvariant DEF Notify, Recorded, Saved
<1>2. Becomes(t, f) /\ f.phase = "done" /\ f.writes = <<>>
  BY <1>1 DEF Notify, EntryOK, Entries
<1> HIDE DEF f
<1>3. Others(t) /\ disk' = disk
  BY DEF Notify, Others, storage
<1>4. Notices' \subseteq Notices \union {<<t, task[t].status>>}
  BY DEF Notify, Notices, Key, storage
<1>5. \A s \in Terminal : <<t, s>> \in Notices' => disk'[t].status = s
  BY <1>1, <1>3, <1>4 DEF Told
<1>6. Saved(f, disk'[t])
  BY <1>2 DEF Saved
<1> QED
  BY <1>1, <1>2, <1>3, <1>4, <1>5, <1>6, RecordedStep

LEMMA RegisterRecorded ==
  ASSUME IInv, Recorded, NEW t \in Tasks, NEW background \in BOOLEAN,
         Register(t, background)
  PROVE  Recorded'
<1> DEFINE e == [NewTask EXCEPT !.phase = "racing", !.working = TRUE,
                                !.inBackground = background,
                                !.detached = background, !.started = background]
           f == IF background THEN Persisted(e) ELSE e
<1>1. ~ Told(t) /\ ghosts[t] = NoInfo
  BY DEF Register, IInv, Fresh
<1>2. EntryOK(e) /\ e.phase = "racing"
  BY NewTaskOK DEF EntryOK, Entries, Phases
<1> HIDE DEF e
<1>3. f.phase = "racing"
  BY <1>2, PersistedOK
<1>4. Becomes(t, f)
  BY DEF Register, e
<1> HIDE DEF f
<1>5. task'[t] = f /\ \A u \in Tasks \ {t} : task'[u] = task[u]
  BY <1>4 DEF Becomes, IInv, TasksOK
<1>6. disk' = disk /\ ghosts' = ghosts /\ Notices' = Notices
  BY DEF Register, storage, Notices
<1>7. \A u \in Tasks : Told(u)' <=> Told(u)
  BY <1>6 DEF Told
<1> SUFFICES ASSUME NEW u \in Tasks
             PROVE  /\ ghosts'[u] # NoInfo => ghosts'[u] = disk'[u]
                    /\ Saved(task'[u], disk'[u])
                    /\ task'[u].phase # "new" /\ Told(u)'
                         => task'[u].phase = "done" /\ task'[u].writes = <<>>
                    /\ \A s \in Terminal : <<u, s>> \in Notices' => disk'[u].status = s
  BY DEF Recorded, Live, Saved
<1>8. CASE u = t
  BY <1>1, <1>3, <1>5, <1>6, <1>7, <1>8 DEF Saved, Recorded
<1>9. CASE u # t
  BY <1>5, <1>6, <1>7, <1>9 DEF Recorded, Live
<1> QED
  BY <1>8, <1>9

LEMMA CrashRecorded == ASSUME IInv, Recorded, Crash PROVE Recorded'
<1>1. /\ \A t \in Tasks : task'[t] = NewTask /\ ghosts'[t] = NoInfo
      /\ disk' = disk /\ Notices' \subseteq Notices
  BY DEF Crash, storage, Notices
<1> QED
  BY <1>1, NewTaskOK DEF Recorded, Saved, Live

LEMMA RecoveryRecorded ==
  ASSUME IInv, Recorded, Restart \/ MarkLost \/ Restore PROVE Recorded'
<1>1. CASE Restart
  <2>1. ghosts' = disk /\ disk' = disk /\ task' = task /\ Notices' = Notices
    BY <1>1 DEF Restart, storage, Notices
  <2> QED
    BY <2>1 DEF Recorded, Saved, Live, Told
<1>2. CASE MarkLost
  <2>1. task' = task /\ Notices' = Notices
    BY <1>2 DEF MarkLost, Notices
  <2>2. CASE UNCHANGED <<ghosts, disk>>
    BY <2>1, <2>2 DEF Recorded, Saved, Live, Told
  <2>3. CASE \E t \in Tasks :
               /\ ghosts[t].status = "running"
               /\ ghosts' = [ghosts EXCEPT ![t].status = "lost"]
               /\ disk' = [disk EXCEPT ![t] = [ghosts[t] EXCEPT !.status = "lost"]]
    <3>1. PICK t \in Tasks :
            /\ ghosts[t].status = "running"
            /\ ghosts' = [ghosts EXCEPT ![t] = [ghosts[t] EXCEPT !.status = "lost"]]
            /\ disk' = [disk EXCEPT ![t] = [ghosts[t] EXCEPT !.status = "lost"]]
      BY <2>3
    <3>2. /\ ghosts'[t] = disk'[t]
          /\ \A u \in Tasks \ {t} : ghosts'[u] = ghosts[u] /\ disk'[u] = disk[u]
      BY <3>1 DEF IInv, RestOK
    <3>3. ~ Live(t) /\ disk[t].status = "running"
      BY <3>1 DEF IInv, GhostsAreOld, Recorded, NoInfo
    <3>4. \A s \in Terminal : <<t, s>> \notin Notices
      BY <3>3 DEF Recorded, Terminal, Settlements
    <3>5. Saved(task[t], disk'[t])
      BY <3>3 DEF Saved, Live
    <3> QED
      BY <2>1, <3>2, <3>3, <3>4, <3>5 DEF Recorded, Saved, Live, Told
  <2> QED
    BY <1>2, <2>2, <2>3 DEF MarkLost
<1>3. CASE Restore
  <2>1. task' = task /\ ghosts' = ghosts /\ disk' = disk
    BY <1>3 DEF Restore
  <2>2. CASE Notices' = Notices
    BY <2>1, <2>2 DEF Recorded, Saved, Live, Told
  <2>3. CASE \E t \in Tasks :
               /\ ghosts[t] # NoInfo
               /\ Notices' = Notices \union {<<t, ghosts[t].status>>}
    <3>1. PICK t \in Tasks :
            /\ ghosts[t] # NoInfo
            /\ Notices' = Notices \union {<<t, ghosts[t].status>>}
      BY <2>3
    <3>2. ghosts[t] = disk[t] /\ ~ Live(t)
      BY <3>1 DEF IInv, GhostsAreOld, Recorded
    <3>3. \A u \in Tasks \ {t}, s \in Terminal :
            <<u, s>> \in Notices' => <<u, s>> \in Notices
      BY <3>1
    <3>4. \A s \in Terminal : <<t, s>> \in Notices' => disk[t].status = s
      BY <3>1, <3>2 DEF Recorded
    <3> QED
      BY <2>1, <3>2, <3>3, <3>4 DEF Recorded, Saved, Live, Told
  <2> QED
    BY <1>3, <2>2, <2>3 DEF Restore, Notices
<1> QED
  BY <1>1, <1>2, <1>3

LEMMA RecordedInit == Init => Recorded
  BY NewTaskOK DEF Init, Recorded, Saved, Live, Told, Notices

LEMMA RecordedNext ==
  ASSUME ~ WriteFailures PROVE IInv /\ Recorded /\ [Next]_vars => Recorded'
<1> SUFFICES ASSUME IInv, Recorded, [Next]_vars PROVE Recorded'
  OBVIOUS
<1>1. ASSUME NEW t \in Tasks, NEW background \in BOOLEAN, Register(t, background)
      PROVE  Recorded'
  BY <1>1, RegisterRecorded
<1>2. ASSUME NEW t \in Tasks, Output(t) \/ OutputWritten(t) PROVE Recorded'
  BY <1>2, OutputRecorded
<1>3. ASSUME NEW t \in Tasks, WorkerEnds(t) PROVE Recorded'
  BY <1>3, WorkerEndsRecorded
<1>4. ASSUME NEW t \in Tasks,
             \/ Stop(t) \/ Timeout(t) \/ CallerAborts(t)
             \/ GraceOver(t) \/ Suppress(t) \/ Detach(t)
      PROVE  Recorded'
  BY <1>4, RunningRecorded DEF Stop, Timeout, CallerAborts
<1>5. ASSUME NEW t \in Tasks, Forced(t) PROVE Recorded'
  BY <1>5, ForcedRecorded
<1>6. ASSUME NEW t \in Tasks, RecordWritten(t) PROVE Recorded'
  BY <1>6, RecordWrittenRecorded
<1>7. ASSUME NEW t \in Tasks, Notify(t) PROVE Recorded'
  BY <1>7, NotifyRecorded
<1>8. ASSUME NEW key \in Keys, Deliver(key) PROVE Recorded'
  <2>1. Notices' = Notices
    BY <1>8 DEF Deliver, Notices
  <2> QED
    BY <1>8, <2>1 DEF Deliver, Recorded, Saved, Live, Told
<1>9. CASE Crash
  BY <1>9, CrashRecorded
<1>10. CASE Recovering
  BY <1>10, RecoveryRecorded DEF Recovering
<1>11. CASE UNCHANGED vars
  <2>1. Notices' = Notices /\ task' = task /\ ghosts' = ghosts /\ disk' = disk
    BY <1>11 DEF Notices, vars, memory, storage
  <2> QED
    BY <2>1 DEF Recorded, Saved, Live, Told
<1> QED
  BY <1>1, <1>2, <1>3, <1>4, <1>5, <1>6, <1>7, <1>8, <1>9, <1>10, <1>11
  DEF Next, Settling

\* When every write succeeds, no notification contradicts the record on disk,
\* for any number of tasks and of crashes, recovery included: finalizeTask
\* waits for the last record before it fires the effects.
THEOREM NoticesRecorded ==
  ASSUME ~ WriteFailures PROVE Spec => []NoticeMatchesRecord
<1>1. Recorded => NoticeMatchesRecord
  BY DEF Recorded, Notices, NoticeMatchesRecord
<1>2. IInv /\ Recorded /\ [Next]_vars => Recorded'
  BY RecordedNext
<1> QED
  BY <1>1, <1>2, RecordedInit, Invariant, PTL DEF Spec

-----------------------------------------------------------------------------
(***************************************************************************)
(* The output when writes succeed: the file, the appends queued for it and *)
(* the output held in memory are, one after the other, what the task       *)
(* printed.                                                                *)
(***************************************************************************)

\* Of an entry: the number of the chunk its i-th queued append starts with.
Start(e, i) == IF i <= Len(e.appends) THEN e.appends[i][1] ELSE e.produced + 1

\* s is the numbers from one up to, not including, another.
Stretch(s, from, to) == /\ Len(s) = to - from
                        /\ \A j \in 1 .. Len(s) : s[j] = from + j - 1

\* Output goes to the log l, and what is queued continues it ...
Queued(e, l) ==
  /\ e.pending = <<>> /\ Start(e, 1) = Len(l) + 1
  /\ \A i \in 1 .. Len(e.appends) :
       /\ e.appends[i] # <<>>
       /\ Stretch(e.appends[i], Start(e, i), Start(e, i + 1))
\* ... or it is all in memory.
InMemory(e, l) ==
  /\ l = <<>> /\ e.appends = <<>>
  /\ e.phase # "done" => Stretch(e.pending, 1, e.produced + 1)

\* The notification awaits the appends that hold what the task ended with.
Awaits(e) ==
  /\ e.ended <= e.produced
  /\ e.phase \in {"persisting", "building"} => e.started
  /\ e.phase = "building" => e.ended < Start(e, e.unread + 1)

Ordered(e, l) ==
  /\ IF e.started THEN Queued(e, l) ELSE InMemory(e, l)
  /\ Awaits(e)

Kept ==
  \A t \in Tasks : /\ \A k \in 1 .. Len(log[t]) : log[t][k] = k
                   /\ t \notin used => log[t] = <<>>
                   /\ Live(t) => Ordered(task[t], log[t])

LEMMA KeptStep ==
  ASSUME IInv, Kept, NEW t \in Tasks, NEW f, Live(t), Becomes(t, f), used' = used,
         \A u \in Tasks \ {t} : log'[u] = log[u],
         \A k \in 1 .. Len(log'[t]) : log'[t][k] = k, Ordered(f, log'[t])
  PROVE  Kept'
<1>1. t \in used
  BY NewTaskOK DEF IInv, Fresh, Live
<1>2. task'[t] = f /\ \A u \in Tasks \ {t} : task'[u] = task[u]
  BY DEF Becomes, IInv, TasksOK
<1> SUFFICES ASSUME NEW u \in Tasks
             PROVE  /\ \A k \in 1 .. Len(log'[u]) : log'[u][k] = k
                    /\ u \notin used => log'[u] = <<>>
                    /\ task'[u].phase # "new" => Ordered(task'[u], log'[u])
  BY DEF Kept, Live, Ordered, Queued, InMemory, Awaits, Start
<1>3. CASE u = t
  BY <1>1, <1>2, <1>3
<1>4. CASE u # t
  BY <1>2, <1>4 DEF Kept, Live
<1> QED
  BY <1>3, <1>4

\* A step of t that leaves its log alone.
LEMMA LogAlone ==
  ASSUME IInv, Kept, NEW t \in Tasks, NEW f, Live(t), Becomes(t, f),
         UNCHANGED <<used, log>>, Ordered(task[t], log[t]) => Ordered(f, log[t])
  PROVE  Kept'
  BY KeptStep DEF Kept

\* f has printed what e has.
SameOutput(e, f) ==
  /\ f.started = e.started /\ f.pending = e.pending /\ f.appends = e.appends
  /\ f.produced = e.produced

LEMMA SameOrdered ==
  ASSUME NEW e, NEW f, NEW l, Ordered(e, l), SameOutput(e, f), Awaits(f),
         e.phase = "done" => f.phase = "done"
  PROVE  Ordered(f, l)
  BY DEF Ordered, Queued, InMemory, Start, SameOutput

LEMMA FinalizedOrdered ==
  ASSUME NEW e, EntryOK(e), NEW status \in Terminal, NEW l, Ordered(e, l)
  PROVE  Ordered(Finalized(e, status), l)
<1> DEFINE f == Finalized(e, status)
<1>1. e \in Entries
  BY DEF EntryOK
<1>2. CASE e.started
  <2>1. /\ f.started = e.started /\ f.pending = e.pending /\ f.appends = e.appends
        /\ f.produced = e.produced /\ f.ended = e.produced /\ f.phase = "persisting"
    BY <1>1, <1>2 DEF Entries, Finalized, Persisted
  <2>2. e.produced \in Nat
    BY <1>1, CountsAssumption DEF Entries
  <2> HIDE DEF f
  <2>3. Queued(f, l)
    BY <1>2, <2>1 DEF Ordered, Queued, Start
  <2>4. Awaits(f)
    BY <1>2, <2>1, <2>2 DEF Awaits
  <2> QED
    BY <1>2, <2>1, <2>3, <2>4 DEF Ordered, f
<1>3. CASE ~ e.started
  <2>1. /\ f.started = FALSE /\ f.appends = e.appends /\ f.phase = "done"
        /\ f.produced = e.produced /\ f.ended = e.produced
    BY <1>1, <1>3 DEF Entries, Finalized
  <2>2. e.produced \in Nat
    BY <1>1, CountsAssumption DEF Entries
  <2> HIDE DEF f
  <2>3. InMemory(f, l) /\ Awaits(f)
    BY <1>3, <2>1, <2>2 DEF Ordered, InMemory, Awaits
  <2> QED
    BY <1>3, <2>1, <2>3 DEF Ordered, f
<1> QED
  BY <1>2, <1>3

\* What was held in memory goes ahead of what is printed from now on.
LEMMA OutputStartedOrdered ==
  ASSUME NEW e, EntryOK(e), NEW l, Ordered(e, l),
         e.phase \notin {"persisting", "building", "done"}
  PROVE  Ordered(OutputStarted(e), l) /\ OutputStarted(e).started
<1> DEFINE f == OutputStarted(e)
<1>1. e \in Entries
  BY DEF EntryOK
<1>2. CASE e.started
  BY <1>2 DEF OutputStarted
<1>3. CASE ~ e.started
  <2>1. /\ f.started = TRUE /\ f.pending = <<>> /\ f.produced = e.produced
        /\ f.ended = e.ended /\ f.phase = e.phase
        /\ f.appends = IF e.pending = <<>> THEN e.appends ELSE Append(e.appends, e.pending)
    BY <1>1, <1>3 DEF Entries, OutputStarted
  <2>2. /\ l = <<>> /\ e.appends = <<>> /\ Stretch(e.pending, 1, e.produced + 1)
        /\ e.ended <= e.produced
    BY <1>3 DEF Ordered, InMemory, Awaits
  <2>3. e.produced \in Nat /\ e.pending \in Seq(Chunks) /\ Len(e.pending) \in Nat
    BY <1>1, CountsAssumption, LenProperties DEF Entries
  <2>4. Len(e.pending) = e.produced
    BY <2>2, <2>3 DEF Stretch
  <2> HIDE DEF f
  <2>5. Awaits(f)
    BY <2>1, <2>2 DEF Awaits
  <2>6. CASE e.pending = <<>>
    <3>1. e.produced = 0 /\ f.appends = <<>> /\ Len(f.appends) = 0
      BY <2>1, <2>2, <2>4, <2>6, EmptySeq
    <3>2. Queued(f, l)
      BY <2>1, <2>2, <3>1 DEF Queued, Start
    <3> QED
      BY <2>1, <2>5, <3>2 DEF Ordered, f
  <2>7. CASE e.pending # <<>>
    <3>1. f.appends = <<e.pending>> /\ Len(f.appends) = 1 /\ f.appends[1] = e.pending
      BY <2>1, <2>2, <2>7
    <3>2. e.produced > 0
      BY <2>3, <2>4, <2>7, EmptySeq
    <3>3. e.pending[1] = 1
      BY <2>2, <2>3, <2>4, <3>2 DEF Stretch
    <3>4. Start(f, 1) = 1 /\ Start(f, 2) = e.produced + 1
      BY <2>1, <3>1, <3>3 DEF Start
    <3>5. Len(l) = 0
      BY <2>2
    <3>6. Queued(f, l)
      BY <2>1, <2>2, <2>3, <3>1, <3>2, <3>4, <3>5 DEF Queued
    <3> QED
      BY <2>1, <2>5, <3>6 DEF Ordered, f
  <2> QED
    BY <2>6, <2>7
<1> QED
  BY <1>2, <1>3

-----------------------------------------------------------------------------
(* The steps                                                               *)

LEMMA OrderedOfInvariant ==
  ASSUME IInv, Kept, NEW t \in Tasks, Live(t)
  PROVE  EntryOK(task[t]) /\ task[t] \in Entries /\ Ordered(task[t], log[t])
  BY EntryOfInvariant DEF Kept, EntryOK

LEMMA OneChunk == ASSUME NEW c \in Nat PROVE Stretch(<<c>>, c, c + 1)
<1>1. Len(<<c>>) = 1 /\ <<c>>[1] = c
  OBVIOUS
<1>2. (c + 1) - c = 1 /\ c + 1 - 1 = c
  OBVIOUS
<1> QED
  BY <1>1, <1>2 DEF Stretch

LEMMA OneMoreChunk ==
  ASSUME NEW S, NEW s \in Seq(S), NEW c \in Nat, c \in S, Stretch(s, 1, c)
  PROVE  Stretch(Append(s, c), 1, c + 1)
<1> DEFINE r == Append(s, c)
           n == Len(s)
<1>1. /\ n \in Nat /\ Len(r) = n + 1 /\ r[n + 1] = c
      /\ \A i \in 1 .. n : r[i] = s[i]
  BY AppendProperties, LenProperties
<1>2. n = c - 1 /\ \A i \in 1 .. n : s[i] = 1 + i - 1
  BY DEF Stretch
<1> HIDE DEF r, n
<1>3. Len(r) = (c + 1) - 1
  BY <1>1, <1>2
<1>4. ASSUME NEW i \in 1 .. Len(r) PROVE r[i] = 1 + i - 1
  <2>1. CASE i \in 1 .. n
    BY <1>1, <1>2, <2>1
  <2>2. CASE i = n + 1
    BY <1>1, <1>2, <2>2
  <2> QED
    BY <1>1, <1>4, <2>1, <2>2
<1>5. Stretch(r, 1, c + 1)
  BY <1>3, <1>4 DEF Stretch
<1> QED
  BY <1>5 DEF r

LEMMA OutputKept == ASSUME IInv, Kept, NEW t \in Tasks, Output(t) PROVE Kept'
<1> DEFINE chunk == task[t].produced + 1
           e == [task[t] EXCEPT !.produced = chunk]
           held == [e EXCEPT !.pending = Append(@, chunk)]
           live == [e EXCEPT !.appends = Append(@, <<chunk>>)]
           l == log[t]
<1>1. EntryOK(task[t]) /\ task[t] \in Entries /\ Ordered(task[t], l) /\ PhaseOK(task[t])
      /\ Live(t)
  BY OrderedOfInvariant, EntryOfInvariant DEF Output
<1>2. chunk \in Chunks /\ chunk \in 0 .. MaxChunks /\ task[t].produced \in Nat
      /\ <<chunk>> \in Seq(Chunks)
  <2>1. task[t].produced \in 0 .. MaxChunks /\ task[t].produced < MaxChunks
    BY <1>1 DEF Entries, Output
  <2> QED
    BY <2>1, CountsAssumption DEF Chunks
<1>3. Becomes(t, IF e.started THEN live
                 ELSE IF Len(held.pending) > SpillChunks THEN OutputStarted(held)
                 ELSE held)
  BY DEF Output
<1>4. /\ e \in Entries /\ e.started = task[t].started /\ e.pending = task[t].pending
      /\ e.appends = task[t].appends /\ e.unread = task[t].unread
      /\ e.ended = task[t].ended /\ e.phase = task[t].phase /\ e.produced = chunk
      /\ e.awaited = task[t].awaited /\ e.writes = task[t].writes
  BY <1>1, <1>2 DEF Entries
<1> HIDE DEF e
<1>5. CASE task[t].started
  <2>1. /\ live.started /\ live.pending = <<>> /\ live.produced = chunk
        /\ live.appends = Append(e.appends, <<chunk>>)
        /\ live.unread = e.unread /\ live.ended = e.ended /\ live.phase = e.phase
    BY <1>1, <1>4, <1>5 DEF Entries, Ordered, Queued
  <2> HIDE DEF live
  <2> DEFINE n == Len(e.appends)
  <2>2. /\ n \in Nat /\ Len(live.appends) = n + 1 /\ live.appends[n + 1] = <<chunk>>
        /\ \A i \in 1 .. n : live.appends[i] = e.appends[i]
    <3>1. e.appends \in Seq(Seq(Chunks))
      BY <1>4 DEF Entries
    <3> QED
      BY <1>2, <2>1, <3>1, AppendProperties, LenProperties
  <2>3. \A i \in 1 .. n + 1 : Start(live, i) = Start(task[t], i)
    <3> SUFFICES ASSUME NEW i \in 1 .. n + 1 PROVE Start(live, i) = Start(task[t], i)
      OBVIOUS
    <3>1. CASE i \in 1 .. n
      BY <1>4, <2>2, <3>1 DEF Start
    <3>2. CASE i = n + 1
      BY <1>4, <2>2, <3>2 DEF Start
    <3> QED
      BY <2>2, <3>1, <3>2
  <2>4. Start(live, n + 1) = chunk /\ Start(live, n + 2) = chunk + 1
    BY <2>1, <2>2 DEF Start
  <2>5. ASSUME NEW i \in 1 .. n + 1
        PROVE  /\ live.appends[i] # <<>>
               /\ Stretch(live.appends[i], Start(live, i), Start(live, i + 1))
    <3>1. CASE i \in 1 .. n
      <4>1. i \in 1 .. n + 1 /\ i + 1 \in 1 .. n + 1
        BY <2>2, <3>1
      <4>2. /\ task[t].appends[i] # <<>>
            /\ Stretch(task[t].appends[i], Start(task[t], i), Start(task[t], i + 1))
        BY <1>1, <1>4, <1>5, <3>1 DEF Ordered, Queued
      <4>3. live.appends[i] = task[t].appends[i]
        BY <1>4, <2>2, <3>1
      <4> QED
        BY <2>3, <4>1, <4>2, <4>3
    <3>2. CASE i = n + 1
      <4>1. chunk \in Nat /\ <<chunk>> # <<>> /\ Stretch(<<chunk>>, chunk, chunk + 1)
        BY <1>2, OneChunk
      <4>2. i + 1 = n + 2
        BY <2>2, <3>2
      <4>3. /\ live.appends[i] = <<chunk>> /\ Start(live, i) = chunk
            /\ Start(live, i + 1) = chunk + 1
        BY <2>2, <2>4, <3>2, <4>2
      <4> QED
        BY <4>1, <4>3
    <3> QED
      BY <2>2, <3>1, <3>2
  <2>6. Queued(live, l)
    <3>1. Start(live, 1) = Len(l) + 1
      BY <1>1, <1>5, <2>2, <2>3 DEF Ordered, Queued
    <3>2. \A i \in 1 .. Len(live.appends) :
            /\ live.appends[i] # <<>>
            /\ Stretch(live.appends[i], Start(live, i), Start(live, i + 1))
      BY <2>2, <2>5
    <3>3. live.pending = <<>>
      BY <2>1
    <3> QED
      BY <3>1, <3>2, <3>3 DEF Queued
  <2>7. Awaits(live)
    <3>1. e.unread + 1 \in 1 .. n + 1
      <4>1. e.unread \in Nat
        BY <1>4 DEF Entries
      <4>2. e.unread <= n
        BY <1>1, <1>4 DEF EntryOK
      <4> QED
        BY <2>2, <4>1, <4>2
    <3>2. task[t].ended \in Nat
      BY <1>1, CountsAssumption DEF Entries
    <3> QED
      BY <1>1, <1>2, <1>4, <1>5, <2>1, <2>3, <3>1, <3>2 DEF Ordered, Awaits
  <2> QED
    BY <1>1, <1>3, <1>4, <1>5, <2>1, <2>6, <2>7, LogAlone DEF Ordered, Output,
       elsewhere, storage
<1>6. CASE ~ task[t].started
  <2>1. ~ IsTerminal(t) /\ task[t].phase \notin Over
    BY <1>1, <1>6 DEF Output, PhaseOK, IsTerminal
  <2>2. /\ held.started = FALSE /\ held.pending = Append(e.pending, chunk)
        /\ held.appends = e.appends /\ held.produced = chunk
        /\ held.ended = e.ended /\ held.phase = e.phase
    BY <1>4, <1>6 DEF Entries
  <2>3. EntryOK(held)
    <3>1. Append(e.pending, chunk) \in Seq(Chunks)
      BY <1>2, <1>4, AppendProperties DEF Entries
    <3>2. held \in Entries
      BY <1>4, <3>1 DEF Entries
    <3> QED
      BY <1>1, <1>4, <3>2 DEF EntryOK, Entries
  <2> HIDE DEF held
  <2>4. InMemory(held, l)
    <3>1. l = <<>> /\ e.appends = <<>> /\ Stretch(e.pending, 1, chunk)
      BY <1>1, <1>4, <1>6, <2>1 DEF Ordered, InMemory, Over
    <3>2. Stretch(held.pending, 1, chunk + 1)
      BY <1>2, <1>4, <2>2, <3>1, OneMoreChunk DEF Entries
    <3> QED
      BY <2>2, <3>1, <3>2 DEF InMemory
  <2>5. Awaits(held)
    <3>1. task[t].ended \in Nat
      BY <1>1, CountsAssumption DEF Entries
    <3> QED
      BY <1>1, <1>2, <1>4, <2>1, <2>2, <3>1 DEF Ordered, Awaits, Over
  <2>6. Ordered(held, l)
    BY <2>2, <2>4, <2>5 DEF Ordered
  <2>7. Ordered(OutputStarted(held), l)
    BY <1>4, <2>1, <2>2, <2>3, <2>6, OutputStartedOrdered DEF Over
  <2> QED
    BY <1>1, <1>3, <1>4, <1>6, <2>6, <2>7, LogAlone DEF Output, elsewhere, storage
<1> QED
  BY <1>5, <1>6

LEMMA StartProperties ==
  ASSUME NEW e \in Entries, NEW l, Queued(e, l)
  PROVE  /\ \A i \in 1 .. Len(e.appends) + 1 : Start(e, i) \in Nat
         /\ \A i \in 1 .. Len(e.appends) : Start(e, i) < Start(e, i + 1)
<1> DEFINE n == Len(e.appends)
<1>1. e.appends \in Seq(Seq(Chunks)) /\ n \in Nat /\ e.produced \in Nat
  BY CountsAssumption, LenProperties DEF Entries
<1>2. ASSUME NEW i \in 1 .. n PROVE Start(e, i) \in Nat /\ Len(e.appends[i]) \in Nat \ {0}
  <2>1. e.appends[i] \in Seq(Chunks) /\ e.appends[i] # <<>>
    BY <1>1, ElementOfSeq DEF Queued
  <2>2. Len(e.appends[i]) \in Nat \ {0}
    BY <2>1, EmptySeq
  <2>3. e.appends[i][1] \in Chunks
    BY <2>1, <2>2, ElementOfSeq
  <2>4. Start(e, i) = e.appends[i][1]
    BY <1>1 DEF Start
  <2> QED
    BY <2>2, <2>3, <2>4, CountsAssumption DEF Chunks
<1>3. Start(e, n + 1) \in Nat
  BY <1>1 DEF Start
<1>4. \A i \in 1 .. n + 1 : Start(e, i) \in Nat
  BY <1>1, <1>2, <1>3
<1>5. ASSUME NEW i \in 1 .. n PROVE Start(e, i) < Start(e, i + 1)
  <2>1. i \in 1 .. n + 1 /\ i + 1 \in 1 .. n + 1
    BY <1>1
  <2>2. Len(e.appends[i]) = Start(e, i + 1) - Start(e, i)
    BY DEF Queued, Stretch
  <2> QED
    BY <1>2, <1>4, <2>1, <2>2
<1> QED
  BY <1>4, <1>5

LEMMA OutputWrittenKept ==
  ASSUME IInv, Kept, ~ WriteFailures, NEW t \in Tasks, OutputWritten(t)
  PROVE  Kept'
<1> DEFINE e == task[t]
           l == log[t]
           head == Head(e.appends)
           n == Len(e.appends)
           f == [e EXCEPT !.appends = Tail(@), !.unread = IF @ = 0 THEN 0 ELSE @ - 1]
<1>1. /\ EntryOK(e) /\ e \in Entries /\ Ordered(e, l) /\ Live(t) /\ e.appends # <<>>
      /\ Becomes(t, f) /\ \A k \in 1 .. Len(l) : l[k] = k
  BY OrderedOfInvariant DEF OutputWritten, Kept
<1>2. log \in [Tasks -> Seq(Chunks)] /\ l \in Seq(Chunks) /\ Len(l) \in Nat
  BY LenProperties DEF IInv, RestOK
<1>3. log'[t] = l \o head /\ \A u \in Tasks \ {t} : log'[u] = log[u]
  BY <1>2 DEF OutputWritten
<1> HIDE DEF e, l
<1>4. /\ f.started = e.started /\ f.pending = e.pending /\ f.produced = e.produced
      /\ f.ended = e.ended /\ f.phase = e.phase /\ f.appends = Tail(e.appends)
      /\ f.unread = IF e.unread = 0 THEN 0 ELSE e.unread - 1
  BY <1>1 DEF Entries
<1>5. e.started /\ Queued(e, l)
  BY <1>1 DEF Ordered, InMemory
<1> HIDE DEF f
<1>6. /\ n \in Nat \ {0} /\ Len(f.appends) = n - 1 /\ head = e.appends[1]
      /\ head \in Seq(Chunks) /\ Len(head) \in Nat
      /\ \A i \in 1 .. n - 1 : f.appends[i] = e.appends[i + 1]
  BY <1>1, <1>4, HeadTailProperties, LenProperties, EmptySeq DEF Entries
<1> HIDE DEF head, n
<1>7. \A i \in 1 .. n : Start(f, i) = Start(e, i + 1)
  <2> SUFFICES ASSUME NEW i \in 1 .. n PROVE Start(f, i) = Start(e, i + 1)
    OBVIOUS
  <2>1. CASE i \in 1 .. n - 1
    <3>1. i + 1 <= n
      BY <1>6, <2>1
    <3> QED
      BY <1>6, <2>1, <3>1 DEF Start, n
  <2>2. CASE i = n
    <3>1. ~ (i + 1 <= n) /\ ~ (i <= n - 1)
      BY <1>6, <2>2
    <3> QED
      BY <1>4, <1>6, <3>1 DEF Start, n
  <2> QED
    BY <1>6, <2>1, <2>2
<1>8. /\ Start(e, 1) = Len(l) + 1 /\ Start(e, 1) < Start(e, 2)
      /\ Stretch(head, Start(e, 1), Start(e, 2))
  <2>1. 1 \in 1 .. Len(e.appends) /\ 1 + 1 = 2
    BY <1>6 DEF n
  <2>2. Start(e, 1) < Start(e, 2)
    BY <1>1, <1>5, <2>1, StartProperties
  <2> QED
    BY <1>5, <1>6, <2>1, <2>2 DEF Queued
<1>9. Start(e, 2) \in Nat
  <2>1. 2 \in 1 .. Len(e.appends) + 1
    BY <1>6 DEF n
  <2> QED
    BY <1>1, <1>5, <2>1, StartProperties
<1>10. /\ Len(l \o head) = Len(l) + Len(head)
       /\ \A k \in 1 .. Len(l) + Len(head) :
            (l \o head)[k] = IF k <= Len(l) THEN l[k] ELSE head[k - Len(l)]
  BY <1>2, <1>6, ConcatProperties
<1>11. Len(log'[t]) + 1 = Start(e, 2)
  BY <1>2, <1>3, <1>6, <1>8, <1>9, <1>10 DEF Stretch
<1>12. ASSUME NEW k \in 1 .. Len(log'[t]) PROVE log'[t][k] = k
  <2>1. CASE k <= Len(l)
    BY <1>1, <1>2, <1>3, <1>6, <1>10, <1>12, <2>1
  <2>2. CASE k > Len(l)
    <3>1. k - Len(l) \in 1 .. Len(head)
      BY <1>2, <1>3, <1>6, <1>10, <1>12, <2>2
    <3>2. head[k - Len(l)] = Len(l) + 1 + (k - Len(l)) - 1
      BY <1>8, <3>1 DEF Stretch
    <3>3. log'[t][k] = head[k - Len(l)]
      BY <1>2, <1>3, <1>6, <1>10, <1>12, <2>2
    <3>4. Len(l) + 1 + (k - Len(l)) - 1 = k
      <4>1. Len(l) \in Int /\ k \in Int
        BY <1>2, <1>12
      <4> QED
        BY <4>1
    <3> QED
      BY <3>2, <3>3, <3>4
  <2> QED
    BY <1>2, <1>12, <2>1, <2>2
<1>13. Queued(f, log'[t])
  <2>1. f.pending = <<>> /\ Start(f, 1) = Len(log'[t]) + 1
    <3>1. 1 \in 1 .. n /\ 1 + 1 = 2
      BY <1>6
    <3> QED
      BY <1>4, <1>5, <1>7, <1>11, <3>1 DEF Queued
  <2>2. ASSUME NEW i \in 1 .. Len(f.appends)
        PROVE  /\ f.appends[i] # <<>>
               /\ Stretch(f.appends[i], Start(f, i), Start(f, i + 1))
    <3>1. i \in 1 .. n /\ i + 1 \in 1 .. n /\ i \in 1 .. n - 1
      BY <1>6
    <3>2. /\ e.appends[i + 1] # <<>>
          /\ Stretch(e.appends[i + 1], Start(e, i + 1), Start(e, i + 1 + 1))
      BY <1>5, <3>1 DEF Queued, n
    <3> QED
      BY <1>6, <1>7, <3>1, <3>2
  <2> QED
    BY <2>1, <2>2 DEF Queued
<1>14. Awaits(f)
  <2>1. ASSUME e.phase = "building" PROVE e.ended < Start(f, f.unread + 1)
    <3>1. e.ended < Start(e, e.unread + 1) /\ e.unread \in Nat /\ e.unread <= n
          /\ e.ended \in Nat
      BY <1>1, <2>1, CountsAssumption DEF Ordered, Awaits, EntryOK, Entries, n
    <3>2. CASE e.unread = 0
      <4>1. e.ended < Start(e, 1) /\ 1 \in 1 .. n /\ 1 + 1 = 2 /\ 0 + 1 = 1
        BY <1>6, <3>1, <3>2
      <4>2. Start(f, f.unread + 1) = Start(e, 2)
        BY <1>4, <1>7, <3>2, <4>1
      <4> QED
        BY <1>2, <1>8, <1>9, <3>1, <4>1, <4>2
    <3>3. CASE e.unread # 0
      <4>1. f.unread + 1 = e.unread /\ e.unread \in 1 .. n
        BY <1>4, <1>6, <3>1, <3>3
      <4> QED
        BY <1>7, <3>1, <4>1
    <3> QED
      BY <3>2, <3>3
  <2> QED
    BY <1>1, <1>4, <2>1 DEF Ordered, Awaits
<1>15. Ordered(f, log'[t])
  BY <1>4, <1>5, <1>13, <1>14 DEF Ordered
<1>16. task[t] = e /\ used' = used /\ Becomes(t, f)
  BY <1>1 DEF OutputWritten, e
<1> QED
  BY <1>1, <1>3, <1>12, <1>15, <1>16, KeptStep

LEMMA WorkerEndsKept == ASSUME IInv, Kept, NEW t \in Tasks, WorkerEnds(t) PROVE Kept'
<1> DEFINE e == [task[t] EXCEPT !.working = FALSE]
           next(s) == IF e.phase \in {"racing", "grace"} THEN WorkerOver(e, s) ELSE e
<1>1. /\ EntryOK(task[t]) /\ task[t] \in Entries /\ Ordered(task[t], log[t]) /\ Live(t)
  BY OrderedOfInvariant DEF WorkerEnds
<1>2. EntryOK(e)
  BY WorkerGone DEF Quiet
<1>3. /\ SameOutput(task[t], e) /\ e.phase = task[t].phase
      /\ e.ended = task[t].ended /\ e.unread = task[t].unread
  BY <1>1 DEF SameOutput, Entries
<1>4. PICK s \in Settlements : Becomes(t, next(s))
  BY DEF WorkerEnds
<1> HIDE DEF e
<1>5. Ordered(e, log[t])
  <2>1. Awaits(e)
    BY <1>1, <1>3 DEF Ordered, Awaits, SameOutput, Start
  <2> QED
    BY <1>1, <1>3, <2>1, SameOrdered
<1>6. Ordered(next(s), log[t])
  <2>1. CASE e.phase \in {"racing", "grace"}
    <3>1. PICK status \in Terminal : WorkerOver(e, s) = Finalized(e, status)
      BY DEF WorkerOver, Terminal, Settlements
    <3> QED
      BY <1>2, <1>5, <2>1, <3>1, FinalizedOrdered
  <2>2. CASE e.phase \notin {"racing", "grace"}
    BY <1>5, <2>2
  <2> QED
    BY <2>1, <2>2
<1> HIDE DEF next
<1> QED
  BY <1>1, <1>4, <1>6, LogAlone DEF WorkerEnds, storage

LEMMA ForcedKept == ASSUME IInv, Kept, NEW t \in Tasks, Forced(t) PROVE Kept'
<1> DEFINE status == IF task[t].outcome = "timeout" THEN "timed_out" ELSE "killed"
<1>1. EntryOK(task[t]) /\ Ordered(task[t], log[t]) /\ status \in Terminal /\ Live(t)
  BY OrderedOfInvariant DEF Forced, Terminal, Settlements
<1>2. Ordered(Finalized(task[t], status), log[t])
  BY <1>1, FinalizedOrdered
<1> QED
  BY <1>1, <1>2, LogAlone DEF Forced, storage

\* A step that changes neither the output nor how much of it counts.
LEMMA SameOutputKept ==
  ASSUME IInv, Kept, NEW t \in Tasks, NEW f, Live(t), Becomes(t, f),
         SameOutput(task[t], f), f.ended = task[t].ended,
         task[t].phase = "done" => f.phase = "done",
         f.phase \in {"persisting", "building"} => task[t].phase \in {"persisting", "building"},
         f.phase = "building" => f.ended < Start(f, f.unread + 1),
         UNCHANGED <<used, log>>
  PROVE  Kept'
<1>1. Ordered(task[t], log[t])
  BY OrderedOfInvariant
<1>2. Awaits(f)
  BY <1>1 DEF Ordered, Awaits, SameOutput
<1> QED
  BY <1>1, <1>2, SameOrdered, LogAlone

LEMMA InterruptKept ==
  ASSUME IInv, Kept, NEW t \in Tasks,
         \/ \E outcome \in {"stop", "timeout"} : Interrupt(t, outcome)
         \/ GraceOver(t)
  PROVE  Kept'
<1>1. Live(t) /\ task[t] \in Entries /\ task[t].phase \in {"racing", "grace"}
      /\ UNCHANGED <<used, log>>
  BY OrderedOfInvariant DEF Interrupt, GraceOver, elsewhere, storage
<1>2. PICK f : /\ Becomes(t, f) /\ SameOutput(task[t], f) /\ f.ended = task[t].ended
               /\ f.phase \in {"grace", "forcing"}
  <2>1. CASE GraceOver(t)
    <3> DEFINE f == [task[t] EXCEPT !.phase = "forcing"]
    <3>1. SameOutput(task[t], f) /\ f.ended = task[t].ended /\ f.phase = "forcing"
      BY <1>1 DEF SameOutput, Entries
    <3> QED
      BY <2>1, <3>1 DEF GraceOver
  <2>2. CASE \E outcome \in {"stop", "timeout"} : Interrupt(t, outcome)
    <3>1. PICK outcome \in {"stop", "timeout"} : Interrupt(t, outcome)
      BY <2>2
    <3> DEFINE f == [task[t] EXCEPT !.phase = "grace", !.outcome = outcome]
    <3>2. SameOutput(task[t], f) /\ f.ended = task[t].ended /\ f.phase = "grace"
      BY <1>1 DEF SameOutput, Entries
    <3> QED
      BY <3>1, <3>2 DEF Interrupt
  <2> QED
    BY <2>1, <2>2
<1> QED
  BY <1>1, <1>2, SameOutputKept

LEMMA SuppressKept == ASSUME IInv, Kept, NEW t \in Tasks, Suppress(t) PROVE Kept'
<1> DEFINE f == Persisted([task[t] EXCEPT !.suppressed = TRUE])
<1>1. Live(t) /\ task[t] \in Entries /\ Ordered(task[t], log[t])
  BY OrderedOfInvariant DEF Suppress
<1>2. /\ SameOutput(task[t], f) /\ f.ended = task[t].ended /\ f.phase = task[t].phase
      /\ f.unread = task[t].unread
  BY <1>1 DEF SameOutput, Entries, Persisted
<1>3. Becomes(t, f) /\ UNCHANGED <<used, log>>
  BY DEF Suppress, elsewhere, storage
<1> HIDE DEF f
<1>4. f.phase = "building" => f.ended < Start(f, f.unread + 1)
  BY <1>1, <1>2 DEF Ordered, Awaits, Start, SameOutput
<1> QED
  BY <1>1, <1>2, <1>3, <1>4, SameOutputKept

LEMMA DetachKept == ASSUME IInv, Kept, NEW t \in Tasks, Detach(t) PROVE Kept'
<1> DEFINE d == [task[t] EXCEPT !.detached = TRUE]
           g == OutputStarted(d)
           f == Persisted(g)
<1>1. /\ Live(t) /\ task[t] \in Entries /\ EntryOK(task[t]) /\ Ordered(task[t], log[t])
      /\ task[t].phase \notin Over
  BY OrderedOfInvariant, EntryOfInvariant DEF Detach, PhaseOK, IsTerminal
<1>2. EntryOK(d) /\ SameOutput(task[t], d) /\ d.phase = task[t].phase /\ d.ended = task[t].ended
  BY <1>1 DEF SameOutput, EntryOK, Entries
<1> HIDE DEF d
<1>3. Ordered(d, log[t])
  BY <1>1, <1>2, SameOrdered DEF Ordered, Awaits, Over, SameOutput
<1>4. Ordered(g, log[t]) /\ EntryOK(g) /\ g.phase = task[t].phase
  BY <1>1, <1>2, <1>3, OutputStartedOrdered, OutputStartedOK DEF Over
<1> HIDE DEF g
<1>5. SameOutput(g, f) /\ f.ended = g.ended /\ f.phase = g.phase
  BY <1>4 DEF SameOutput, EntryOK, Entries, Persisted
<1>6. Becomes(t, f) /\ UNCHANGED <<used, log>>
  BY DEF Detach, storage, d, g
<1> HIDE DEF f
<1>7. Ordered(f, log[t])
  <2>1. Awaits(f)
    BY <1>1, <1>4, <1>5 DEF Ordered, Awaits, Over, SameOutput
  <2> QED
    BY <1>4, <1>5, <2>1, SameOrdered
<1> QED
  BY <1>1, <1>6, <1>7, LogAlone

LEMMA RecordWrittenKept ==
  ASSUME IInv, Kept, NEW t \in Tasks, RecordWritten(t) PROVE Kept'
<1> DEFINE e == Written(task[t])
           announced == [e EXCEPT !.phase = "building", !.unread = Len(e.appends)]
           over == [e EXCEPT !.phase = "done"]
<1>1. /\ Live(t) /\ task[t] \in Entries /\ EntryOK(task[t]) /\ Ordered(task[t], log[t])
      /\ task[t].writes # <<>> /\ UNCHANGED <<used, log>>
  BY OrderedOfInvariant DEF RecordWritten
<1>2. /\ SameOutput(task[t], e) /\ e.ended = task[t].ended /\ e.phase = task[t].phase
      /\ e.unread = task[t].unread
  BY <1>1 DEF SameOutput, Entries, Written
<1>3. e \in Entries
  BY <1>1, WrittenOK DEF EntryOK
<1>4. IF e.phase = "persisting" /\ e.awaited = 0
        THEN Effects(t, e) ELSE Becomes(t, e)
  BY DEF RecordWritten, Written
<1> HIDE DEF e
<1>5. CASE e.phase = "persisting" /\ e.awaited = 0
  <2>1. Becomes(t, announced) \/ Becomes(t, over)
    BY <1>4, <1>5 DEF Effects
  <2>2. /\ SameOutput(e, announced) /\ announced.ended = e.ended
        /\ announced.phase = "building" /\ announced.unread = Len(e.appends)
        /\ SameOutput(e, over) /\ over.ended = e.ended /\ over.phase = "done"
    BY <1>3 DEF SameOutput, Entries
  <2> HIDE DEF announced, over
  <2>3. announced.ended < Start(announced, announced.unread + 1)
    <3>1. announced.ended <= announced.produced
          /\ announced.produced \in Nat /\ announced.ended \in Nat
      BY <1>1, <1>2, <2>2, CountsAssumption DEF Ordered, Awaits, SameOutput, Entries
    <3>2. Len(announced.appends) \in Nat /\ announced.unread = Len(announced.appends)
      BY <1>3, <2>2, LenProperties DEF SameOutput, Entries
    <3>3. Start(announced, announced.unread + 1) = announced.produced + 1
      BY <3>2 DEF Start
    <3> QED
      BY <3>1, <3>3
  <2>4. SameOutput(task[t], announced) /\ SameOutput(task[t], over)
    BY <1>2, <2>2 DEF SameOutput
  <2> QED
    BY <1>1, <1>2, <1>5, <2>1, <2>2, <2>3, <2>4, SameOutputKept
<1>6. CASE ~ (e.phase = "persisting" /\ e.awaited = 0)
  <2>1. e.phase = "building" => e.ended < Start(e, e.unread + 1)
    BY <1>1, <1>2 DEF Ordered, Awaits, Start, SameOutput
  <2> QED
    BY <1>1, <1>2, <1>4, <1>6, <2>1, SameOutputKept
<1> QED
  BY <1>5, <1>6

LEMMA NotifyKept == ASSUME IInv, Kept, NEW t \in Tasks, Notify(t) PROVE Kept'
<1> DEFINE f == [task[t] EXCEPT !.phase = "done"]
<1>1. Live(t) /\ task[t] \in Entries /\ Becomes(t, f) /\ UNCHANGED <<used, log>>
  BY OrderedOfInvariant DEF Notify, storage
<1>2. SameOutput(task[t], f) /\ f.ended = task[t].ended /\ f.phase = "done"
  BY <1>1 DEF SameOutput, Entries
<1> HIDE DEF f
<1> QED
  BY <1>1, <1>2, SameOutputKept

LEMMA RegisterKept ==
  ASSUME IInv, Kept, NEW t \in Tasks, NEW background \in BOOLEAN,
         Register(t, background)
  PROVE  Kept'
<1> DEFINE e == [NewTask EXCEPT !.phase = "racing", !.working = TRUE,
                                !.inBackground = background,
                                !.detached = background, !.started = background]
           f == IF background THEN Persisted(e) ELSE e
<1>1. /\ t \notin used /\ used' = used \union {t} /\ log' = log /\ Becomes(t, f)
      /\ log[t] = <<>>
  BY DEF Register, storage, Kept
<1>2. /\ f.phase = "racing" /\ f.pending = <<>> /\ f.appends = <<>>
      /\ f.produced = 0 /\ f.ended = 0
  BY DEF NewTask, Persisted
<1> HIDE DEF f
<1>3. Ordered(f, log[t])
  <2>1. Len(<<>>) = 0
    OBVIOUS
  <2>2. /\ Stretch(<<>>, 1, 0 + 1) /\ Start(f, 1) = 0 + 1 /\ Awaits(f)
    BY <1>2, <2>1 DEF Stretch, Start, Awaits
  <2>3. Queued(f, log[t])
    BY <1>1, <1>2, <2>1, <2>2 DEF Queued
  <2>4. InMemory(f, log[t])
    BY <1>1, <1>2, <2>2 DEF InMemory
  <2> QED
    BY <2>2, <2>3, <2>4 DEF Ordered
<1>4. task'[t] = f /\ \A u \in Tasks \ {t} : task'[u] = task[u]
  BY <1>1 DEF Becomes, IInv, TasksOK
<1> SUFFICES ASSUME NEW u \in Tasks
             PROVE  /\ \A k \in 1 .. Len(log'[u]) : log'[u][k] = k
                    /\ u \notin used' => log'[u] = <<>>
                    /\ task'[u].phase # "new" => Ordered(task'[u], log'[u])
  BY DEF Kept, Live, Ordered, Queued, InMemory, Awaits, Start
<1>5. CASE u = t
  BY <1>1, <1>3, <1>4, <1>5 DEF Kept
<1>6. CASE u # t
  BY <1>1, <1>4, <1>6 DEF Kept, Live
<1> QED
  BY <1>5, <1>6

\* A step of no task; a crash leaves none live.
LEMMA NoTaskKept ==
  ASSUME Kept, UNCHANGED <<log, used>>,
         task' = task \/ task' = [t \in Tasks |-> NewTask]
  PROVE  Kept'
<1>1. \A t \in Tasks : task'[t] = task[t] \/ task'[t].phase = "new"
  BY NewTaskOK
<1> SUFFICES ASSUME NEW u \in Tasks
             PROVE  /\ \A k \in 1 .. Len(log'[u]) : log'[u][k] = k
                    /\ u \notin used => log'[u] = <<>>
                    /\ task'[u].phase # "new" => Ordered(task'[u], log'[u])
  BY DEF Kept, Live, Ordered, Queued, InMemory, Awaits, Start
<1> QED
  BY <1>1 DEF Kept, Live

LEMMA KeptInit == Init => Kept
<1> SUFFICES ASSUME Init, NEW t \in Tasks
             PROVE  log[t] = <<>> /\ ~ Live(t) /\ 1 .. Len(log[t]) = {}
  BY DEF Kept
<1>1. log[t] = <<>> /\ Len(<<>>) = 0
  BY DEF Init
<1> QED
  BY <1>1, NewTaskOK DEF Init, Live

LEMMA KeptNext ==
  ASSUME ~ WriteFailures PROVE IInv /\ Kept /\ [Next]_vars => Kept'
<1> SUFFICES ASSUME IInv, Kept, [Next]_vars PROVE Kept'
  OBVIOUS
<1>1. ASSUME NEW t \in Tasks, NEW background \in BOOLEAN, Register(t, background)
      PROVE  Kept'
  BY <1>1, RegisterKept
<1>2. ASSUME NEW t \in Tasks, Output(t) PROVE Kept'
  BY <1>2, OutputKept
<1>3. ASSUME NEW t \in Tasks, WorkerEnds(t) PROVE Kept'
  BY <1>3, WorkerEndsKept
<1>4. ASSUME NEW t \in Tasks, Stop(t) \/ Timeout(t) \/ CallerAborts(t) PROVE Kept'
  BY <1>4, InterruptKept DEF Stop, Timeout, CallerAborts
<1>5. ASSUME NEW t \in Tasks, Detach(t) PROVE Kept'
  BY <1>5, DetachKept
<1>6. ASSUME NEW t \in Tasks, Suppress(t) PROVE Kept'
  BY <1>6, SuppressKept
<1>7. ASSUME NEW t \in Tasks, Settling(t) PROVE Kept'
  BY <1>7, InterruptKept, ForcedKept, RecordWrittenKept, OutputWrittenKept, NotifyKept
  DEF Settling
<1>8. ASSUME NEW key \in Keys, Deliver(key) PROVE Kept'
  BY <1>8, NoTaskKept DEF Deliver
<1>9. CASE Crash
  BY <1>9, NoTaskKept DEF Crash, storage
<1>10. CASE Recovering
  BY <1>10, NoTaskKept DEF Recovering, Restart, MarkLost, Restore, storage
<1>11. CASE UNCHANGED vars
  BY <1>11, NoTaskKept DEF vars, memory, storage
<1> QED
  BY <1>1, <1>2, <1>3, <1>4, <1>5, <1>6, <1>7, <1>8, <1>9, <1>10, <1>11 DEF Next

-----------------------------------------------------------------------------
(* Theorems                                                                *)

\* output.log is the beginning of the task's output, in order, however much a
\* foreground task held in memory when it was detached or its buffer spilled,
\* and over crashes (startOutputPersist, appendTaskOutput).
THEOREM CompleteLog == ASSUME ~ WriteFailures PROVE Spec => []LogInOrder
<1>1. IInv /\ Kept => LogInOrder
  <2> SUFFICES ASSUME IInv, Kept, NEW t \in Tasks
               PROVE  \A k \in DOMAIN log[t] : log[t][k] = k
    BY DEF LogInOrder
  <2>1. log[t] \in Seq(Chunks)
    BY DEF IInv, RestOK
  <2> QED
    BY <2>1, LenProperties DEF Kept
<1>2. IInv /\ Kept /\ [Next]_vars => Kept'
  BY KeptNext
<1> QED
  BY <1>1, <1>2, KeptInit, Invariant, PTL DEF Spec

\* A live task is announced once the log holds all it had printed when it
\* ended, for any amount of output and any number of appends under way
\* (notifyBackgroundTask, getOutputSnapshot).
THEOREM OutputFirst == ASSUME ~ WriteFailures PROVE Spec => NoticeAfterOutput
<1> DEFINE Printed(t) == \A k \in 1 .. task[t].ended :
                           \E j \in DOMAIN log[t] : log[t][j] = k
           Step == \A t \in Tasks : Live(t) /\ Key(t) \in steered' \ steered => Printed(t)
<1>1. IInv /\ Kept /\ [Next]_vars => [Step]_vars
  <2> SUFFICES ASSUME IInv, Kept, Next, NEW t \in Tasks, Live(t),
                      Key(t) \in steered', Key(t) \notin steered
               PROVE  Printed(t)
    BY DEF Step
  <2>1. Notify(t)
    <3>1. \A u \in Tasks : Notify(u) => u = t
      BY DEF Notify, Key
    <3>2. ~ Restore
      <4> SUFFICES ASSUME Restore PROVE FALSE
        OBVIOUS
      <4>1. PICK u \in Tasks : /\ ghosts[u] # NoInfo
                               /\ Key(t) \in steered \union {<<u, ghosts[u].status>>}
        BY DEF Restore
      <4>2. u = t
        BY <4>1 DEF Key
      <4> QED
        BY <4>1, <4>2 DEF IInv, GhostsAreOld
    <3>3. ~ Crash /\ ~ Restart /\ ~ MarkLost /\ \A key \in Keys : ~ Deliver(key)
      BY DEF Crash, Restart, MarkLost, Deliver
    <3>4. ASSUME NEW u \in Tasks
          PROVE  /\ \A background \in BOOLEAN : ~ Register(u, background)
                 /\ ~ Output(u) /\ ~ WorkerEnds(u) /\ ~ Stop(u) /\ ~ Timeout(u)
                 /\ ~ CallerAborts(u) /\ ~ Detach(u) /\ ~ Suppress(u)
                 /\ ~ GraceOver(u) /\ ~ Forced(u) /\ ~ RecordWritten(u)
                 /\ ~ OutputWritten(u)
      BY DEF Register, Output, WorkerEnds, Stop, Timeout, CallerAborts, Interrupt,
             Detach, Suppress, GraceOver, Forced, RecordWritten, OutputWritten,
             elsewhere
    <3> QED
      BY <3>1, <3>2, <3>3, <3>4 DEF Next, Settling, Recovering
  <2>2. /\ task[t] \in Entries /\ Ordered(task[t], log[t])
        /\ task[t].phase = "building" /\ task[t].unread = 0
    BY <2>1, OrderedOfInvariant DEF Notify
  <2>3. Start(task[t], 1) = Len(log[t]) + 1 /\ task[t].ended < Start(task[t], 1)
    BY <2>2 DEF Ordered, Awaits, Queued
  <2>4. log[t] \in Seq(Chunks) /\ task[t].ended \in Nat
    BY <2>2, CountsAssumption DEF IInv, RestOK, Entries
  <2>5. Len(log[t]) \in Nat /\ DOMAIN log[t] = 1 .. Len(log[t])
    BY <2>4, LenProperties
  <2> QED
    BY <2>3, <2>4, <2>5 DEF Kept
<1>2. IInv /\ Kept /\ [Next]_vars => Kept'
  BY KeptNext
<1> QED
  BY <1>1, <1>2, KeptInit, Invariant, PTL DEF Spec, NoticeAfterOutput

=============================================================================
