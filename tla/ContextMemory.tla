--------------------------- MODULE ContextMemory ----------------------------
(***************************************************************************)
(* The history one agent sends to its model: ContextMemory                 *)
(* (packages/agent-core/src/agent/context/index.ts), the projection that   *)
(* repairs it for a request (context/projector.ts), and the log every      *)
(* change of it is written to and rebuilt from (agent/records/index.ts).   *)
(* Around it the parties that change it: the steps of a turn, messages     *)
(* that arrive whenever they like, undo, compaction, crash and resume.     *)
(*                                                                         *)
(* Live and resumed agents share the operators from Push to Compact; what  *)
(* an action adds is when it may happen and what it writes to the log.     *)
(***************************************************************************)
EXTENDS Integers, Sequences, FiniteSets, SequencesExt

CONSTANTS
    MaxMessages,  \* bound: messages that are not of the model or a tool
    MaxSteps,     \* bound: steps ever begun
    MaxCalls,     \* bound: tool calls of one step
    MaxUndos,     \* bound: undos and clears
    MaxCrashes,   \* bound: ends of the process
    Rash,         \* undo and clear also come while a turn runs (REST, SDK)
    Pops,         \* a turn at its step limit takes its last reminder back
    Imports       \* the transcript of a shadow member is copied in

VARIABLES
    context,      \* history, openSteps, pendingToolResultIds, deferredMessages
    log,          \* what the records logged so far restore, see Logged
    life,         \* "up", "down", or "resuming" until finishResume
    turn,         \* where the turn is: see Phases
    step,         \* its latest step, 0 before the first
    todo,         \* tool calls of the response not yet recorded
    owed,         \* recorded calls whose result is not
    summarized,   \* the history a compaction is being made of, or NoSnapshot
    worker,       \* a compaction was begun: its worker lets go some time
    unlogged,     \* the context was changed without a record
    messages, steps, undos, crashes   \* counters behind the bounds

loop == << turn, step, todo, owed >>

counters == << messages, steps, undos, crashes >>

compaction == << summarized, worker >>

vars == << context, log, life, loop, compaction, unlogged, counters >>

Phases == {"idle", "between", "streaming", "calling"}

\* "user" is real user input, "note" any other user-role message that undo
\* takes back, "reminder" an injection, which it leaves, "gate" the last word
\* of a turn that popMatchedMessage may take back.
Incoming == {"user", "note", "reminder", "gate"}

Message(kind, id) == [kind |-> kind, id |-> id, calls |-> << >>, text |-> TRUE]
Summary == Message("summary", 0)
StepMessage(s) == [kind |-> "step", id |-> s, calls |-> << >>, text |-> FALSE]
ResultOf(call) == [kind |-> "result", id |-> call, calls |-> << >>, text |-> TRUE]

\* A call is named by its step and its place in it.
Call(s, n) == s * (MaxCalls + 1) + n

NoSnapshot == << Message("none", 0) >>

Empty == [history |-> << >>, open |-> {}, pending |-> << >>, deferred |-> << >>]
-----------------------------------------------------------------------------
\* The k-th of a set of positions, and the elements of s at such positions.
Nth(positions, k) ==
    CHOOSE i \in positions: Cardinality({j \in positions: j <= i}) = k

Those(s, positions) == [k \in 1..Cardinality(positions) |-> s[Nth(positions, k)]]

Push(c, s) == [c EXCEPT !.history = @ \o s]

\* flushDeferredMessagesIfToolExchangeClosed.
Flush(c) ==
    IF c.pending = << >>
    THEN [Push(c, c.deferred) EXCEPT !.deferred = << >>]
    ELSE c

\* appendMessage: a message waits for the end of an open tool exchange.
AppendMessage(c, m) ==
    IF c.pending = << >> THEN Push(c, << m >>)
                         ELSE [c EXCEPT !.deferred = Append(@, m)]

\* Mutant of AppendResult: the messages that waited go on waiting.
AppendResult_NoFlush(c, call) ==
    IF \E n \in DOMAIN c.pending: c.pending[n] = call
    THEN [Push(c, << ResultOf(call) >>) EXCEPT !.pending = RemoveFirst(@, call)]
    ELSE c

\* A result nobody waits for is dropped.
AppendResult(c, call) ==
    IF \E n \in DOMAIN c.pending: c.pending[n] = call
    THEN Flush([Push(c, << ResultOf(call) >>) EXCEPT !.pending = RemoveFirst(@, call)])
    ELSE c

\* closePendingToolResults: one by one.
ClosePending(c) ==
    LET closed[n \in 0..Len(c.pending)] ==
            IF n = 0 THEN c ELSE AppendResult(closed[n - 1], c.pending[n])
    IN  closed[Len(c.pending)]

BeginStep(c, s) ==
    [Push(ClosePending(c), << StepMessage(s) >>) EXCEPT !.open = @ \cup {s}]

\* Where the message of a step is, if it still is there; it is changed in place.
StepAt(c, s) == {n \in DOMAIN c.history: c.history[n].kind = "step" /\ c.history[n].id = s}

AppendPart(c, s) ==
    [c EXCEPT !.history = [n \in DOMAIN @ |->
        IF n \in StepAt(c, s) THEN [c.history[n] EXCEPT !.text = TRUE] ELSE @[n]]]

AppendCall(c, s, call) ==
    [c EXCEPT !.pending = Append(@, call),
              !.history = [n \in DOMAIN @ |->
        IF n \in StepAt(c, s) THEN [c.history[n] EXCEPT !.calls = Append(@, call)]
                              ELSE @[n]]]

EndStep(c, s) == Flush([c EXCEPT !.open = @ \ {s}])

\* undo walks back to the n-th user message, or to a summary, and keeps the
\* injections on its way.
Undo(c, n) ==
    LET h == c.history
        boundary == SelectLastInSeq(h, LAMBDA m: m.kind = "summary")
        users == {i \in boundary + 1..Len(h): h[i].kind = "user"}
        reached == {i \in users: Cardinality({j \in users: j >= i}) = n}
        first == IF reached = {} THEN boundary + 1 ELSE CHOOSE i \in reached: TRUE
    IN  [Empty EXCEPT !.history =
            Those(h, {i \in DOMAIN h: i < first \/ h[i].kind = "reminder"})]

Users(h) == {i \in DOMAIN h: h[i].kind = "user"}

\* applyCompaction: the latest user messages that fit, then the summary.
Compact(c, kept) ==
    LET latest == {i \in Users(c.history):
                      Cardinality({j \in Users(c.history): j >= i}) <= kept}
    IN  [Empty EXCEPT !.history = Append(Those(c.history, latest), Summary)]
-----------------------------------------------------------------------------
(* The log. *)

Record(type, id, call) == [type |-> type, id |-> id, call |-> call]

\* A part or a call of a step that is not open: appendLoopEvent throws, after
\* it has logged the event.
Throws(c, r) == r.type \in {"part", "call"} /\ r.id \notin c.open

\* What a record does to the context, live and when it is restored.
Apply(c, r) ==
    CASE Throws(c, r)        -> c
      [] r.type \in Incoming -> AppendMessage(c, Message(r.type, r.id))
      [] r.type = "begin"    -> BeginStep(c, r.id)
      [] r.type = "part" /\ r.id \in c.open -> AppendPart(c, r.id)
      [] r.type = "call" /\ r.id \in c.open -> AppendCall(c, r.id, r.call)
      [] r.type = "result"   -> AppendResult(c, r.call)
      [] r.type = "end"      -> EndStep(c, r.id)
      [] r.type = "undo"     -> Undo(c, r.id)
      [] r.type = "clear"    -> Empty
      [] r.type = "compact"  -> Compact(c, r.id)

\* The log is represented by what replay makes of it, record by record: the
\* context it restores, and whether restoring it throws.
Logged(l, r) ==
    [context |-> Apply(l.context, r), throws |-> l.throws \/ Throws(l.context, r)]

Do(r) ==
    /\ log' = Logged(log, r)
    /\ context' = Apply(context, r)
-----------------------------------------------------------------------------
(* What the model is sent. *)

IsCalling(m) == m.kind = "step" /\ m.calls # << >>

\* prepareMessageForProjection drops what has neither content nor calls.
Prepared(h) == Those(h, {i \in DOMAIN h: h[i].text \/ h[i].calls # << >>})

\* The result at j is the one repairToolExchangeAdjacency moves up to the step
\* at i: the first one after it for one of its calls.
Claims(h, i, j) ==
    /\ i < j /\ IsCalling(h[i]) /\ h[j].kind = "result"
    /\ h[j].id \in ToSet(h[i].calls)
    /\ \A k \in i + 1..j - 1: h[k].kind = "result" => h[k].id # h[j].id

Claimed(h, i) == {j \in DOMAIN h: Claims(h, i, j)}

\* The calls of the step at i that have no result.
Missing(h, i) ==
    {n \in DOMAIN h[i].calls: \A j \in Claimed(h, i): h[j].id # h[i].calls[n]}

MadeUp(h, i) ==
    [k \in 1..Cardinality(Missing(h, i)) |->
        ResultOf(h[i].calls[Nth(Missing(h, i), k)])]

\* A later message shows that the calls of the step at i are over.
IsOver(h, i) == \E k \in i + 1..Len(h): h[k].kind # "result"

\* What the message at i becomes.
Output(h, i) ==
    IF \E k \in DOMAIN h: Claims(h, k, i) THEN << >>
    ELSE IF ~IsCalling(h[i]) THEN << h[i] >>
    ELSE << h[i] >> \o (Those(h, Claimed(h, i))
                         \o IF IsOver(h, i) THEN MadeUp(h, i) ELSE << >>)

\* Mutant of Repaired: results stay where they are.
Repaired_InPlace(h) == h

\* repairToolExchangeAdjacency without synthesizeMissing: every call is
\* followed by its results, and a missing one is made up when a later message
\* shows that the call is over.
Repaired(h) ==
    LET request[n \in 0..Len(h)] == IF n = 0 THEN << >> ELSE request[n - 1] \o Output(h, n)
    IN  request[Len(h)]

Messages == Repaired(Prepared(context.history))
-----------------------------------------------------------------------------
TypeOK ==
    /\ \A m \in ToSet(context.history) \cup ToSet(context.deferred):
           /\ m.kind \in Incoming \cup {"summary", "step", "result"}
           /\ m.id \in Nat /\ m.text \in BOOLEAN
           /\ m.calls \in Seq(Nat)
    /\ context.open \subseteq 1..steps
    /\ context.pending \in Seq(Nat)
    /\ life \in {"up", "down", "resuming"}
    /\ turn \in Phases
    /\ step \in CASE turn = "idle"    -> {0}
                  [] turn = "between" -> 0..steps
                  [] OTHER            -> 1..steps
    /\ {unlogged, worker} \subseteq BOOLEAN
    /\ {todo, owed} \subseteq Seq(Nat)
    /\ messages \in 0..MaxMessages
    /\ steps \in 0..MaxSteps
    /\ undos \in 0..MaxUndos
    /\ crashes \in 0..MaxCrashes

Init ==
    /\ context = Empty /\ log = [context |-> Empty, throws |-> FALSE]
    /\ life = "up"
    /\ turn = "idle" /\ step = 0 /\ todo = << >> /\ owed = << >>
    /\ summarized = NoSnapshot /\ worker = FALSE /\ unlogged = FALSE
    /\ messages = 0 /\ steps = 0 /\ undos = 0 /\ crashes = 0

Compacting == summarized # NoSnapshot

Receive(kind) ==
    /\ messages < MaxMessages
    /\ messages' = messages + 1
    /\ Do(Record(kind, messages + 1, 0))

\* A prompt or a replayed input starts a turn; a compaction buffers it.
StartTurn ==
    /\ life = "up" /\ turn = "idle" /\ ~Compacting
    /\ Receive("user")
    /\ turn' = "between"
    /\ UNCHANGED << life, step, todo, owed, compaction, unlogged, steps, undos, crashes >>

\* Input of the user joins the running turn: between two steps
\* (flushSteerBuffer), or when the worker of a compaction, which may be
\* cancelled long since, lets go of it (onCompactionFinished).
SteerTurn ==
    /\ life = "up"
    /\ turn = "between" \/ (turn # "idle" /\ worker)
    /\ Receive("user")
    /\ UNCHANGED << life, loop, compaction, unlogged, steps, undos, crashes >>

\* A shell command of the user, a notice of a background task, a reminder of
\* the team or of the client: at any time, during a resume too.
Notice ==
    /\ life # "down"
    /\ \E kind \in {"note", "reminder"}: Receive(kind)
    /\ UNCHANGED << life, loop, compaction, unlogged, steps, undos, crashes >>

\* executeLoopStep: the request is built from the history, then the step is
\* begun.
Begin ==
    /\ life = "up" /\ turn = "between"
    /\ steps < MaxSteps
    /\ steps' = steps + 1 /\ step' = steps + 1
    /\ Do(Record("begin", steps + 1, 0))
    /\ turn' = "streaming"
    /\ UNCHANGED << life, todo, owed, compaction, unlogged, messages, undos, crashes >>

\* The turn is over, by its end or by an exception.
EndTurn ==
    /\ turn' = "idle" /\ step' = 0 /\ todo' = << >> /\ owed' = << >>

\* A block of text was streamed (bound: one per step).
Part ==
    LET r == Record("part", step, 0)
    IN  /\ life = "up" /\ turn = "streaming"
        /\ \A m \in ToSet(context.history): m.kind = "step" /\ m.id = step => ~m.text
        /\ Do(r)
        /\ IF Throws(context, r) THEN EndTurn ELSE UNCHANGED loop
        /\ UNCHANGED << life, compaction, unlogged, counters >>

\* The response is complete; its tool calls are to be prepared.
Respond ==
    /\ life = "up" /\ turn = "streaming"
    /\ \E n \in 0..MaxCalls: todo' = [k \in 1..n |-> Call(step, k)]
    /\ turn' = "calling"
    /\ UNCHANGED << context, log, life, step, owed, compaction, unlogged, counters >>

\* The model call failed or was aborted: the step is never ended.
StepFails ==
    /\ life = "up" /\ turn = "streaming"
    /\ EndTurn
    /\ UNCHANGED << context, log, life, compaction, unlogged, counters >>

\* prepareToolCall records one call, when its hooks are through.
RecordCall ==
    /\ life = "up" /\ turn = "calling" /\ todo # << >>
    /\ LET r == Record("call", step, Head(todo))
       IN  /\ Do(r)
           /\ IF Throws(context, r) THEN EndTurn
              ELSE /\ todo' = Tail(todo)
                   /\ owed' = Append(owed, Head(todo))
                   /\ UNCHANGED << turn, step >>
    /\ UNCHANGED << life, compaction, unlogged, counters >>

\* The results are recorded in the order of the calls, after all of them.
RecordResult ==
    /\ life = "up" /\ turn = "calling"
    /\ todo = << >> /\ owed # << >>
    /\ Do(Record("result", 0, Head(owed)))
    /\ owed' = Tail(owed)
    /\ UNCHANGED << life, turn, step, todo, compaction, unlogged, counters >>

\* The step is ended and another follows or the turn is over, or an abort is
\* noticed before the end of the step is recorded.
Finish ==
    /\ life = "up" /\ turn = "calling"
    /\ todo = << >> /\ owed = << >>
    /\ \/ /\ Do(Record("end", step, 0))
          /\ turn' = "between" /\ UNCHANGED << step, todo, owed >>
       \/ /\ Do(Record("end", step, 0))
          /\ EndTurn
       \/ /\ EndTurn
          /\ UNCHANGED << context, log >>
    /\ UNCHANGED << life, compaction, unlogged, counters >>

\* shouldContinueAfterStop at the step limit: the reminder that asked for one
\* more step was appended, and popMatchedMessage takes it back.
Gate ==
    /\ Pops
    /\ life = "up" /\ turn = "between" /\ step # 0
    /\ Receive("gate")
    /\ UNCHANGED << life, loop, compaction, unlogged, steps, undos, crashes >>

Pop ==
    /\ life = "up" /\ turn = "between" /\ step # 0
    /\ LET source == IF context.deferred # << >> THEN context.deferred ELSE context.history
       IN  /\ source # << >> /\ Last(source).kind = "gate"
           /\ context' = IF context.deferred # << >>
                         THEN [context EXCEPT !.deferred = Front(@)]
                         ELSE [context EXCEPT !.history = Front(@)]
    /\ EndTurn
    /\ unlogged' = TRUE
    /\ UNCHANGED << log, life, compaction, counters >>

\* undoHistory and clearContext.  A count that reaches too far changes the
\* context and is logged before it is refused.
TakeBack ==
    /\ life = "up"
    /\ turn = "idle" \/ Rash
    /\ undos < MaxUndos
    /\ undos' = undos + 1
    /\ \/ /\ context.history # << >>
          /\ \E n \in 1..2: Do(Record("undo", n, 0))
       \/ Do(Record("clear", 0, 0))
    /\ UNCHANGED << life, loop, compaction, unlogged, messages, steps, crashes >>

\* Mutant of BeginCompaction: the user may start one while a step runs.
BeginCompaction_InStep ==
    /\ life = "up" /\ ~Compacting
    /\ context.history # << >>
    /\ summarized' = context.history /\ worker' = TRUE
    /\ UNCHANGED << context, log, life, loop, unlogged, counters >>

\* begin: by the user between turns, or around a step, which may go on.
BeginCompaction ==
    /\ life = "up" /\ ~Compacting
    /\ turn \in {"idle", "between"}
    /\ context.history # << >>
    /\ summarized' = context.history /\ worker' = TRUE
    /\ UNCHANGED << context, log, life, loop, unlogged, counters >>

SameMessages(h, s) ==
    /\ Len(s) <= Len(h)
    /\ \A n \in DOMAIN s: h[n].kind = s[n].kind /\ h[n].id = s[n].id

\* Mutant of StillCovered: only the prefix is looked at.
StillCovered_PrefixOnly == SameMessages(context.history, summarized)

\* compactionRound: what was summarized is still the beginning of the history,
\* and only user input, which is kept, came after it.
StillCovered ==
    /\ SameMessages(context.history, summarized)
    /\ \A n \in Len(summarized) + 1..Len(context.history):
           context.history[n].kind = "user"

\* How many user messages selectRecentUserMessages may keep: the latest one
\* always, if need be truncated.
Fitting(h) ==
    LET users == Cardinality(Users(h))
    IN  IF users = 0 THEN {0} ELSE 1..users

\* The summary arrived, or the compaction is cancelled or fails.
EndCompaction ==
    /\ life = "up" /\ Compacting
    /\ \/ /\ StillCovered
          /\ \E kept \in Fitting(context.history): Do(Record("compact", kept, 0))
       \/ UNCHANGED << context, log >>
    /\ summarized' = NoSnapshot
    /\ UNCHANGED << worker, life, loop, unlogged, counters >>

\* migrateShadowTranscript: the messages of the shadow enter the history, the
\* reminder that says so is logged.
Import ==
    /\ Imports
    /\ life = "up" /\ turn = "idle"
    /\ messages + 2 <= MaxMessages
    /\ messages' = messages + 2
    /\ LET r == Record("reminder", messages + 2, 0)
       IN  /\ log' = Logged(log, r)
           /\ context' = Apply(Push(context, << Message("user", messages + 1) >>), r)
    /\ unlogged' = TRUE
    /\ UNCHANGED << life, loop, compaction, steps, undos, crashes >>

\* The process ends.  Records that were not yet written are lost (RecordLog);
\* what is left is the log of a process that ended earlier.
Crash ==
    /\ life # "down"
    /\ crashes < MaxCrashes
    /\ crashes' = crashes + 1
    /\ life' = "down"
    /\ context' = Empty
    /\ EndTurn
    /\ summarized' = NoSnapshot /\ worker' = FALSE /\ unlogged' = FALSE
    /\ UNCHANGED << log, messages, steps, undos >>

\* replay: it fails where restoring a record throws.
Replay ==
    /\ life = "down"
    /\ ~log.throws
    /\ context' = log.context
    /\ life' = "resuming"
    /\ UNCHANGED << log, loop, compaction, unlogged, counters >>

\* Mutant of FinishResume: what it closes is not logged.
FinishResume_Unlogged ==
    /\ life = "resuming"
    /\ context' = [ClosePending(context) EXCEPT !.open = {}]
    /\ life' = "up"
    /\ UNCHANGED << log, loop, compaction, unlogged, counters >>

\* Mutant of FinishResume: the calls a crash has cut off stay open.
FinishResume_LeavesOpen ==
    /\ life = "resuming"
    /\ context' = [context EXCEPT !.open = {}]
    /\ life' = "up"
    /\ UNCHANGED << log, loop, compaction, unlogged, counters >>

\* finishResume: calls that were cut off get a result, which is logged.
FinishResume ==
    /\ life = "resuming"
    /\ context' = [ClosePending(context) EXCEPT !.open = {}]
    /\ LET logged[n \in 0..Len(context.pending)] ==
              IF n = 0 THEN log
              ELSE Logged(logged[n - 1], Record("result", 0, context.pending[n]))
       IN  log' = logged[Len(context.pending)]
    /\ life' = "up"
    /\ UNCHANGED << loop, compaction, unlogged, counters >>

Next ==
    \/ StartTurn \/ SteerTurn \/ Notice
    \/ Begin \/ Part \/ Respond \/ StepFails \/ RecordCall \/ RecordResult \/ Finish
    \/ Gate \/ Pop \/ TakeBack \/ Import
    \/ BeginCompaction \/ EndCompaction
    \/ Crash \/ Replay \/ FinishResume

Spec == Init /\ [][Next]_vars
-----------------------------------------------------------------------------
\* Every call in the request is followed at once by its results, and every
\* result follows its call: what strict providers demand of a request.
WellFormed(request) ==
    LET answers(i) == {j \in i + 1..i + Len(request[i].calls):
                          j \in DOMAIN request /\ request[j].kind = "result"}
    IN  /\ \A i \in DOMAIN request:
               {request[j].id: j \in answers(i)} = ToSet(request[i].calls)
        /\ \A j \in DOMAIN request: request[j].kind = "result" =>
               \E i \in 1..j - 1: j \in answers(i)

\* A request that is about to be sent is one a strict provider accepts,
\* whatever arrived in the middle of a step, was taken back, summarized or cut
\* off by a crash.
RequestWellFormed == life = "up" /\ turn = "between" => WellFormed(Messages)

\* A resume brings back the history the agent had: at any moment the records
\* logged so far restore what the model has seen and would be sent next, as
\* long as nothing changed the context past the log.
ResumeAgrees ==
    life = "up" /\ ~unlogged =>
        /\ log.context.history = context.history
        /\ log.context.deferred = context.deferred
        /\ log.context.pending = context.pending

\* "live execution and resume share one state mutation path" (the contract in
\* records/index.ts): a resume restores the history the agent had.  Not with
\* Pops or Imports: popMatchedMessage and importMigratedHistory write no record.
ResumeRestores == life = "up" => log.context.history = context.history

\* No record of the log throws when it is restored: appendLoopEvent is never
\* given a part or a call of a step that is not open.
Resumable == ~log.throws

\* A resume (replay and finishResume) therefore always comes to its end, with the
\* history the model has seen.
Resumes == Resumable /\ ResumeAgrees

\* The messages of the user and of the harness keep the order they came in.
IncomingInOrder ==
    LET all == context.history \o context.deferred
    IN  \A i, j \in DOMAIN all:
            i < j /\ {all[i].kind, all[j].kind} \subseteq Incoming => all[i].id < all[j].id

\* No message is kept back while no turn runs: there is no call it could wait
\* for, and nothing would ever bring it to the model.
NothingHeldBack ==
    life = "up" /\ turn = "idle" =>
        context.pending = << >> /\ context.deferred = << >>

\* What came in (appendMessage, its deferred messages) reaches the model, and in
\* its order.
IncomingDelivered == IncomingInOrder /\ NothingHeldBack

\* A compaction takes nothing away that its summary does not cover, except the
\* user messages that no longer fit.
SummaryCovers ==
    Compacting /\ ~Compacting' /\ context' # context /\ life' = "up" =>
        \A m \in ToSet(context.history \o context.deferred):
            \/ m.kind = "user"
            \/ \E s \in ToSet(summarized): s.kind = m.kind /\ s.id = m.id

\* No compaction (compactionRound) does, whatever happened while its summary was
\* being made.
NothingUncovered == [][SummaryCovers]_vars

\* "_history must not contain an unresolved tool call exchange except at the
\* tail" (the comment above class ContextMemory).  It may: a message that arrives
\* between step.begin and the first tool.call is pushed behind the step.
OpenOnlyAtTail ==
    \A i \in DOMAIN context.history:
        (\E call \in ToSet(context.history[i].calls): \E n \in DOMAIN context.pending:
            context.pending[n] = call)
        => \A j \in i + 1..Len(context.history): context.history[j].kind = "result"
=============================================================================
