--------------------------- MODULE PromptService ---------------------------
(***************************************************************************)
(* The prompt queue that the server keeps for one agent: submit, steer and *)
(* abort, and the turn events that drive it                                *)
(* (packages/agent-core/src/services/prompt/promptService.ts).             *)
(*                                                                         *)
(* The core is reached through rpc/client.ts: calls cross one at a time,   *)
(* and answers and events come back in the order they were sent ("wire").  *)
(* The core runs one turn at a time and starts some of its own accord: for *)
(* a notification, a goal or a schedule.                                   *)
(***************************************************************************)
EXTENDS Integers, Sequences

CONSTANTS
    Prompt,
    MaxOwn,      \* bound: turns the core starts of its own accord
    Swift,       \* a turn may start or end, or a user act, within the moment
                 \* that a call to the core and its answer take to cross
    Overlap      \* a second prompt may be started while one is starting: the
                 \* active prompt is registered only behind an await

VARIABLES
    queue,       \* _queued
    active,      \* _active: {} or {prompt}
    turnOf,      \* PromptState.turnId per prompt, 0 for null
    aborted,     \* the prompts with PromptState.aborted
    stage,       \* per prompt: where its submission or start is
    queued,      \* the prompts started by _startNextQueued, not by submit
    cancelling,  \* the prompts whose abort awaits the core
    steering,    \* the prompts a steer has taken out of the queue
    told,        \* per prompt: how often its end was published
    running,     \* the turn the core runs, 0 for none
    turns,       \* how many turns the core has started
    own,         \* how many of them of its own accord
    wire,        \* answers and events on their way to the service
    abandoned    \* a failed call has left the queue to the next turn's end

vars == << queue, active, turnOf, aborted, stage, queued, cancelling, steering,
           told, running, turns, own, wire, abandoned >>

core == << running, turns, own >>

Stages == {"new", "checkpoint", "calling", "answered", "busy", "failing",
           "there", "failed"}

Messages == [what: {"started", "ended"}, turn: Nat]
                \cup [what: {"ok", "busy", "error"}, prompt: Prompt]

TypeOK ==
    /\ queue \in Seq(Prompt)
    /\ active \in SUBSET Prompt
    /\ turnOf \in [Prompt -> Nat]
    /\ aborted \in SUBSET Prompt
    /\ stage \in [Prompt -> Stages]
    /\ queued \in SUBSET Prompt
    /\ cancelling \in SUBSET Prompt
    /\ steering \in Seq(Prompt)
    /\ told \in [Prompt -> Nat]
    /\ running \in Nat /\ turns \in Nat /\ own \in Nat
    /\ wire \in Seq(Messages)
    /\ abandoned \in BOOLEAN

InQueue(p) == \E i \in DOMAIN queue: queue[i] = p

InSteer(p) == \E i \in DOMAIN steering: steering[i] = p

\* The queue q without the prompts in s.
Without(q, s) ==
    LET rest[n \in 0..Len(q)] ==
            IF n = 0 THEN << >>
            ELSE IF q[n] \in s THEN rest[n - 1] ELSE Append(rest[n - 1], q[n])
    IN  rest[Len(q)]

\* The start of p has been decided on and is not over.
Starting(p) == stage[p] \in {"checkpoint", "calling", "answered", "busy", "failing"}

\* Another start may begin.
Free == Overlap \/ \A p \in Prompt: ~Starting(p)

\* Some call is crossing: neither a turn nor a user is as swift.
Settled == Swift \/ \A p \in Prompt: ~Starting(p) \/ stage[p] = "checkpoint"

Init ==
    /\ queue = << >>
    /\ active = {}
    /\ turnOf = [p \in Prompt |-> 0]
    /\ aborted = {}
    /\ stage = [p \in Prompt |-> "new"]
    /\ queued = {}
    /\ cancelling = {}
    /\ steering = << >>
    /\ told = [p \in Prompt |-> 0]
    /\ running = 0 /\ turns = 0 /\ own = 0
    /\ wire = << >>
    /\ abandoned = FALSE
-----------------------------------------------------------------------------
Goes(p, to) == stage' = [stage EXCEPT ![p] = to]

Tell(s) == told' = [p \in Prompt |-> IF p \in s THEN told[p] + 1 ELSE told[p]]

\* _startNextQueued, called with `a` active, `q` queued and the stages `st`.
StartNext(a, q, st) ==
    IF q = << >> \/ \E p \in a: p \notin aborted
    THEN queue' = q /\ stage' = st /\ UNCHANGED queued
    ELSE /\ queue' = Tail(q)
         /\ stage' = [st EXCEPT ![Head(q)] = "checkpoint"]
         /\ queued' = queued \cup {Head(q)}

\* submit, past the readiness gate: behind the active prompt, or at once.
Submit(p) ==
    /\ stage[p] = "new" /\ Settled
    /\ IF active # {}
       THEN queue' = Append(queue, p) /\ Goes(p, "there")
       ELSE /\ Free
            /\ Goes(p, "checkpoint") /\ UNCHANGED queue
    /\ UNCHANGED << active, turnOf, aborted, queued, cancelling, steering, told,
                    core, wire, abandoned >>

\* _startPrompt past captureRewindCheckpoint and the overrides: the prompt
\* becomes the active one and is sent.
Captured(p) ==
    /\ stage[p] = "checkpoint"
    /\ Swift \/ \A i \in DOMAIN wire: wire[i].what # "started"
    /\ Goes(p, "calling")
    /\ active' = {p}
    /\ UNCHANGED << queue, turnOf, aborted, queued, cancelling, steering, told,
                    core, wire, abandoned >>

\* Mutant of GiveUp: a queued prompt that cannot be started ends the queue.
GiveUp_Stops(p, a) ==
    /\ stage' = [stage EXCEPT ![p] = "failed"]
    /\ UNCHANGED << queue, queued, abandoned >>

\* A start has thrown: the caller of submit gets the error; a queued prompt is
\* dropped and the next one takes its turn.
GiveUp(p, a) ==
    IF p \in queued
    THEN /\ StartNext(a, queue, [stage EXCEPT ![p] = "failed"])
         /\ UNCHANGED abandoned
    ELSE /\ Goes(p, "failed")
         /\ abandoned' = TRUE
         /\ UNCHANGED << queue, queued >>

CaptureFails(p) ==
    /\ stage[p] = "checkpoint"
    /\ GiveUp(p, active)
    /\ UNCHANGED << active, turnOf, aborted, cancelling, steering, told, core,
                    wire >>

\* The call reaches the core: a turn starts, or another one is running.
Arrive(p) ==
    /\ stage[p] = "calling"
    /\ Goes(p, "answered")
    /\ IF running = 0
       THEN /\ running' = turns + 1 /\ turns' = turns + 1
            /\ wire' = wire \o << [what |-> "started", turn |-> turns + 1],
                                  [what |-> "ok", prompt |-> p] >>
       ELSE /\ wire' = Append(wire, [what |-> "busy", prompt |-> p])
            /\ UNCHANGED << running, turns >>
    /\ UNCHANGED << queue, active, turnOf, aborted, queued, cancelling, steering,
                    told, own, abandoned >>

ArriveFails(p) ==
    /\ stage[p] = "calling"
    /\ Goes(p, "answered")
    /\ wire' = Append(wire, [what |-> "error", prompt |-> p])
    /\ UNCHANGED << queue, active, turnOf, aborted, queued, cancelling, steering,
                    told, core, abandoned >>

\* The answer to prompt: on "busy" and on an error the prompt is no longer
\* active, and its checkpoint is discarded.
Answered(m) ==
    /\ IF m.what = "ok"
       THEN Goes(m.prompt, "there") /\ UNCHANGED active
       ELSE /\ Goes(m.prompt, IF m.what = "busy" THEN "busy" ELSE "failing")
            /\ active' = active \ {m.prompt}
    /\ UNCHANGED << queue, turnOf, aborted, queued, cancelling, steering, told,
                    abandoned >>

\* Refused for another turn: submit puts the prompt at the end and tries the
\* queue again, _startNextQueued puts it back to the front.
Requeue(p) ==
    /\ stage[p] = "busy"
    /\ IF p \in queued
       THEN queue' = << p >> \o queue /\ Goes(p, "there") /\ UNCHANGED queued
       ELSE StartNext(active, Append(queue, p), [stage EXCEPT ![p] = "there"])
    /\ UNCHANGED << active, turnOf, aborted, cancelling, steering, told, core,
                    wire, abandoned >>

Failed(p) ==
    /\ stage[p] = "failing"
    /\ GiveUp(p, active)
    /\ UNCHANGED << active, turnOf, aborted, cancelling, steering, told, core,
                    wire >>
-----------------------------------------------------------------------------
\* _handleBusEvent on turn.started: the first one is taken for the prompt's.
Started(m) ==
    /\ turnOf' = [p \in Prompt |->
                     IF p \in active /\ turnOf[p] = 0 THEN m.turn ELSE turnOf[p]]
    /\ UNCHANGED << queue, active, aborted, stage, queued, cancelling, steering,
                    told, abandoned >>

\* ... on turn.ended with no active prompt.
EndedElsewhere ==
    /\ active = {}
    /\ queue = << >> \/ Free
    /\ StartNext({}, queue, stage)
    /\ UNCHANGED << active, told >>

\* Mutant of EndedActive: the end of an aborted prompt is published again.
EndedActive_TellsTwice(m) ==
    \E p \in active:
        /\ turnOf[p] = m.turn
        /\ active' = {}
        /\ Tell({p})
        /\ StartNext({}, queue, stage)

\* ... on turn.ended of the active prompt's turn.
EndedActive(m) ==
    \E p \in active:
        /\ turnOf[p] = m.turn
        /\ active' = {}
        /\ Tell({p} \ aborted)
        /\ StartNext({}, queue, stage)

\* ... on turn.ended of another turn.
EndedOther(m) ==
    /\ \E p \in active: turnOf[p] # m.turn
    /\ UNCHANGED << queue, active, stage, queued, told >>

Ended(m) ==
    /\ EndedElsewhere \/ EndedActive(m) \/ EndedOther(m)
    /\ UNCHANGED << turnOf, aborted, cancelling, steering, abandoned >>

Deliver ==
    /\ wire # << >>
    /\ wire' = Tail(wire)
    /\ LET m == Head(wire)
       IN \/ m.what = "started" /\ Started(m)
          \/ m.what = "ended" /\ Ended(m)
          \/ m.what \in {"ok", "busy", "error"} /\ Answered(m)
    /\ UNCHANGED core
-----------------------------------------------------------------------------
\* abort of a prompt that has not been sent.
AbortQueued(p) ==
    /\ InQueue(p) /\ p \notin active /\ Settled
    /\ queue' = Without(queue, {p})
    /\ Tell({p})
    /\ UNCHANGED << active, turnOf, aborted, stage, queued, cancelling, steering,
                    core, wire, abandoned >>

\* abort of the active prompt: marked first, published when core has answered.
Abort(p) ==
    /\ active = {p} /\ p \notin aborted /\ Settled
    /\ aborted' = aborted \cup {p}
    /\ cancelling' = cancelling \cup {p}
    /\ UNCHANGED << queue, active, turnOf, stage, queued, steering, told, core,
                    wire, abandoned >>

Aborted(p) ==
    /\ p \in cancelling
    /\ cancelling' = cancelling \ {p}
    /\ Tell({p})
    /\ UNCHANGED << queue, active, turnOf, aborted, stage, queued, steering,
                    core, wire, abandoned >>

\* What a steer may name: queued prompts, each once, in any order.
Selections ==
    {ids \in UNION {[1..n -> Prompt]: n \in 1..Len(queue)}:
        /\ \A i \in DOMAIN ids: InQueue(ids[i])
        /\ \A i, j \in DOMAIN ids: ids[i] = ids[j] => i = j}

\* steer takes queued prompts out, for the turn of the active one.
Steer(ids) ==
    /\ steering = << >> /\ Settled
    /\ active # {} /\ active \cap aborted = {}
    /\ steering' = ids
    /\ queue' = Without(queue, {ids[i]: i \in DOMAIN ids})
    /\ UNCHANGED << active, turnOf, aborted, stage, queued, cancelling, told,
                    core, wire, abandoned >>

\* The core takes them into its turn, or starts one if it has ended meanwhile.
SteerArrives ==
    /\ steering # << >>
    /\ steering' = << >>
    /\ Tell({p \in Prompt: InSteer(p)})
    /\ IF running # 0
       THEN UNCHANGED << running, turns, wire >>
       ELSE /\ Settled
            /\ running' = turns + 1 /\ turns' = turns + 1
            /\ wire' = Append(wire, [what |-> "started", turn |-> turns + 1])
    /\ UNCHANGED << queue, active, turnOf, aborted, stage, queued, cancelling,
                    own, abandoned >>

\* The checkpoint or the call fails: the prompts go back to the front.
SteerFails ==
    /\ steering # << >>
    /\ steering' = << >>
    /\ queue' = steering \o queue
    /\ abandoned' = TRUE
    /\ UNCHANGED << active, turnOf, aborted, stage, queued, cancelling, told,
                    core, wire >>
-----------------------------------------------------------------------------
\* The core starts a turn of its own accord.
OwnTurn ==
    /\ running = 0 /\ Settled
    /\ own < MaxOwn
    /\ own' = own + 1
    /\ running' = turns + 1 /\ turns' = turns + 1
    /\ wire' = Append(wire, [what |-> "started", turn |-> turns + 1])
    /\ UNCHANGED << queue, active, turnOf, aborted, stage, queued, cancelling,
                    steering, told, abandoned >>

EndTurn ==
    /\ running # 0 /\ Settled
    /\ Swift \/ wire = << >>
    /\ running' = 0
    /\ wire' = Append(wire, [what |-> "ended", turn |-> running])
    /\ UNCHANGED << queue, active, turnOf, aborted, stage, queued, cancelling,
                    steering, told, turns, own, abandoned >>

Next ==
    \/ \E p \in Prompt:
          \/ Submit(p) \/ Captured(p) \/ CaptureFails(p)
          \/ Arrive(p) \/ ArriveFails(p) \/ Requeue(p) \/ Failed(p)
          \/ AbortQueued(p) \/ Abort(p) \/ Aborted(p)
    \/ \E ids \in Selections: Steer(ids)
    \/ SteerArrives \/ SteerFails
    \/ Deliver
    \/ OwnTurn \/ EndTurn

Spec == Init /\ [][Next]_vars
-----------------------------------------------------------------------------
\* A prompt that was submitted is in exactly one place until its end is
\* published: in the queue, on its way out of it, taken by a steer, the active
\* one, being aborted, or refused with an error.  Its end is published once, and
\* it is not started after that.
PromptAccounted ==
    \A p \in Prompt: stage[p] # "new" =>
        LET homes == {h \in {"queue", "start", "steer"}:
                         \/ h = "queue" /\ InQueue(p)
                         \/ h = "start" /\ stage[p] \in {"checkpoint", "busy"}
                         \/ h = "steer" /\ InSteer(p)}
        IN  /\ told[p] <= 1
            /\ told[p] = 0 => \/ homes # {} /\ p \notin active
                              \/ p \in active \cup cancelling
                              \/ stage[p] \in {"failing", "failed"}
            /\ told[p] = 1 => homes = {}
            /\ \A g, h \in homes: g = h

\* When the core is idle and everything has been delivered, no prompt is left
\* in the queue and none is taken for running, unless a failed call of submit
\* or steer has left the queue to the end of the next turn.
NotStranded ==
    /\ running = 0 /\ wire = << >> /\ steering = << >> /\ cancelling = {}
    /\ \A p \in Prompt: ~Starting(p)
    /\ ~abandoned
    => queue = << >> /\ active = {}
=============================================================================
