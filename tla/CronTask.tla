------------------------------ MODULE CronTask ------------------------------
(***************************************************************************)
(* One scheduled prompt of an agent, from CronCreate to its end: the tick  *)
(* that fires it, the cursor that remembers how far it has fired, the      *)
(* per-id queue of writes to its file and the reload on resume             *)
(* (packages/agent-core/src/tools/cron/scheduler.ts, session-store.ts,     *)
(* jitter.ts and agent/cron/manager.ts).                                   *)
(*                                                                         *)
(* Time is counted in ticks of the clock.  The expression names every      *)
(* Period-th one; a recurring task is delivered Jitter late, a one-shot    *)
(* task Jitter early.  Tasks do not affect each other.                     *)
(***************************************************************************)
EXTENDS Integers, Sequences, FiniteSetsExt

CONSTANTS
    Period,
    Jitter,         \* less than Period
    StaleAge,       \* the seven days after which a recurring task expires
    MaxCoalesce,    \* MAX_COALESCE_ITERATIONS
    MaxTime,        \* bound: the clock
    MaxStops        \* bound: ends of the process

VARIABLES
    now,        \* the wall clock
    life,       \* the process: "up", "stopping", "down"
    task,       \* SessionCronStore: {} or {record}
    seen,       \* lastSeenAt of the task, 0 for none
    file,       \* its file: {} or {record}
    works,      \* persistQueues: the writes and removals to come
    created,    \* CronCreate has been called
    fired,      \* per occurrence: in how many deliveries it was counted
    stops,      \* how often the process has ended
    behind      \* ... with a file that was not up to date

vars == << now, life, task, seen, file, works, created, fired, stops, behind >>

Times == 1..MaxTime

Occurrences == {t \in Times: t % Period = 0}

TypeOK ==
    LET Records == [recurring: BOOLEAN, createdAt: Times, lastFiredAt: 0..MaxTime]
    IN  /\ now \in Times
        /\ life \in {"up", "stopping", "down"}
        /\ task \subseteq Records /\ file \subseteq Records
        /\ seen \in 0..MaxTime
        /\ \A i \in DOMAIN works: works[i] \subseteq Records
        /\ created \in BOOLEAN
        /\ fired \in [Occurrences -> Nat]
        /\ stops \in 0..MaxStops /\ behind \in 0..stops

Init ==
    /\ now = 1
    /\ life = "up"
    /\ task = {} /\ seen = 0
    /\ file = {} /\ works = << >>
    /\ created = FALSE
    /\ fired = [t \in Occurrences |-> 0]
    /\ stops = 0 /\ behind = 0
-----------------------------------------------------------------------------
\* persistEnqueue: the file becomes what is in r, if the write succeeds.
Persist(r) == works' = Append(works, r)

addTask(recurring) ==
    /\ life = "up" /\ ~created
    /\ created' = TRUE
    /\ LET t == [recurring |-> recurring, createdAt |-> now, lastFiredAt |-> 0]
       IN  task' = {t} /\ Persist({t})
    /\ UNCHANGED << now, life, seen, file, fired, stops, behind >>

\* CronDelete.
removeTasks ==
    /\ life = "up"
    /\ task # {}
    /\ task' = {} /\ Persist({})
    /\ UNCHANGED << now, life, seen, file, created, fired, stops, behind >>

\* Mutant of Base: a resumed task starts over from its creation.
Base_Unseeded(t) == IF seen > t.createdAt THEN seen ELSE t.createdAt

\* Where the scheduler looks from: what it has seen in this process, else the
\* cursor that came with the file, else the creation.
Base(t) ==
    LET cursor == IF seen # 0 THEN seen ELSE t.lastFiredAt
    IN  IF cursor > t.createdAt THEN cursor ELSE t.createdAt

\* The jittered moment at which occurrence o is delivered.
DeliveredAt(t, o) ==
    CASE t.recurring -> o + Jitter
      [] ~t.recurring /\ o - Jitter < t.createdAt -> o
      [] OTHER -> o - Jitter

\* Occurrences past the base whose delivery is due, oldest first, up to the cap.
Due(t) ==
    LET due == {o \in Occurrences: o > Base(t) /\ DeliveredAt(t, o) <= now}
    IN  {o \in due: Cardinality({x \in due: x <= o}) <= MaxCoalesce}

Stale(t) == t.recurring /\ now - t.createdAt >= StaleAge

\* Mutant of Advanced: the cursor moves to the time of the delivery.
Advanced_ToNow(due) == now

\* The new baseline: the last occurrence that was counted.
Advanced(due) == Max(due)

\* A tick on an idle agent with a task that is due.
FireRecurring(t) ==
    /\ t.recurring
    /\ fired' = [o \in Occurrences |-> IF o \in Due(t) THEN fired[o] + 1 ELSE fired[o]]
    /\ seen' = Advanced(Due(t))
    /\ IF Stale(t)
       THEN task' = {} /\ Persist({})
       ELSE LET u == [t EXCEPT !.lastFiredAt = Advanced(Due(t))]
            IN  task' = {u} /\ Persist({u})

FireOnce(t) ==
    /\ ~t.recurring
    /\ fired' = [fired EXCEPT ![Min(Due(t))] = @ + 1]
    /\ seen' = 0
    /\ task' = {} /\ Persist({})

tick ==
    /\ life = "up"
    /\ \E t \in task: Due(t) # {} /\ (FireRecurring(t) \/ FireOnce(t))
    /\ UNCHANGED << now, life, file, created, stops, behind >>

WriteDone ==
    /\ works # << >>
    /\ file' = Head(works)
    /\ works' = Tail(works)
    /\ UNCHANGED << now, life, task, seen, created, fired, stops, behind >>

\* A failed write is logged and forgotten.
WriteFails ==
    /\ works # << >>
    /\ works' = Tail(works)
    /\ UNCHANGED << now, life, task, seen, file, created, fired, stops, behind >>

\* stop: no more ticks, and the pending writes are waited for.
stop ==
    /\ life = "up"
    /\ life' = "stopping"
    /\ UNCHANGED << now, task, seen, file, works, created, fired, stops, behind >>

\* The process is gone.
Down ==
    /\ life' = "down"
    /\ stops < MaxStops /\ stops' = stops + 1
    /\ behind' = IF file = task THEN behind ELSE behind + 1
    /\ task' = {} /\ seen' = 0 /\ works' = << >>
    /\ UNCHANGED << now, file, created, fired >>

Exit == life = "stopping" /\ works = << >> /\ Down

Crash == life # "down" /\ Down

\* The agent is resumed: a new scheduler, and loadFromDisk.
Resume ==
    /\ life = "down"
    /\ life' = "up"
    /\ task' = file
    /\ UNCHANGED << now, seen, file, works, created, fired, stops, behind >>

Clock ==
    /\ now < MaxTime
    /\ now' = now + 1
    /\ UNCHANGED << life, task, seen, file, works, created, fired, stops, behind >>

Next ==
    \/ \E recurring \in BOOLEAN: addTask(recurring)
    \/ removeTasks
    \/ tick
    \/ WriteDone \/ WriteFails
    \/ stop \/ Exit \/ Crash \/ Resume
    \/ Clock

Spec == Init /\ [][Next]_vars
-----------------------------------------------------------------------------
\* An occurrence is counted in one delivery, over all resumes, except for those
\* behind a process that ended before the file said what it had fired: neither
\* a tick nor a resume replays what was delivered.
CountedOnce == \A o \in Occurrences: fired[o] <= 1 + behind

\* The scheduler never looks past an occurrence that no delivery has counted:
\* one whose jitter puts it after the wake-up is kept for the next tick, and a
\* resume leaves none out.
NonePassedOver ==
    \A t \in task: \A o \in Occurrences:
        t.createdAt < o /\ o <= Base(t) => fired[o] >= 1
=============================================================================
