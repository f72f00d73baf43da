------------------------------ MODULE TurnFlow ------------------------------
(***************************************************************************)
(* The conversation of one agent: the turns that run one at a time, the    *)
(* inputs that wait for them, the goal that keeps them coming and the      *)
(* compactions that rewrite the history between them                       *)
(* (src/packages/agent-core/src/agent/turn/index.ts, TurnFlow;             *)
(* agent/compaction/full.ts, FullCompaction; agent/goal/index.ts,          *)
(* GoalMode; the step loop of loop/run-turn.ts and loop/turn-step.ts).     *)
(*                                                                         *)
(* Everything runs on one JavaScript thread.  What another party can       *)
(* interleave with are the awaits on the outside world: a hook, the MCP    *)
(* start-up, a model call with its tools, the summarizer, the refresh of   *)
(* the system prompt.  Code that runs after a promise has already settled  *)
(* belongs to the step that settled it: the end of a turn, the goal        *)
(* driver's decision, the release of the turn slot and the launch of the   *)
(* next buffered input are therefore one step.                             *)
(***************************************************************************)
EXTENDS Naturals, Sequences, FiniteSets

CONSTANTS
  UserInputs,      \* messages typed by the user, each submitted at most once
  SystemInputs,    \* background notifications, cron messages, idle wakes
  MaxSteps,        \* loop_control.maxStepsPerTurn; 0 stands for no limit
  LimitPasses,     \* OUTPUT_LIMIT_CONTINUATIONS_PER_TURN
  OverflowRetries, \* maxOverflowCompactionAttempts
  MaxCompactions,  \* bound: compactions that may be begun in one behaviour
  CancelStages,    \* stages of a compaction in which its user may cancel it
  LateFailures,    \* whether a cancelled summarizer may still fail by itself
  Goals            \* whether goals are used at all

Inputs == UserInputs \union SystemInputs

ASSUME InputsAssumption == UserInputs \intersect SystemInputs = {}
ASSUME BoundsAssumption ==
  /\ MaxSteps \in Nat /\ LimitPasses \in Nat
  /\ OverflowRetries \in Nat /\ MaxCompactions \in Nat
ASSUME StagesAssumption == CancelStages \subseteq {"summarizing", "refreshing"}
ASSUME SwitchesAssumption == LateFailures \in BOOLEAN /\ Goals \in BOOLEAN

VARIABLES
  turn,        \* the active turn and the locals of its step loop, or NoTurn
  buffer,      \* steerBuffer
  place,       \* where each input is
  lastEnd,     \* how the latest turn ended
  goal,        \* status of the goal record; "stopped" is paused or blocked
  external,    \* the user activated the goal and no turn was launched since
  armed,       \* goalBackgroundIdleArmed
  background,  \* "running" while some background task is unfinished;
               \* "notifying" while the notice of its end is prepared
  comp,        \* compacting: the compaction that holds the context, or 0
  stage,       \* what the worker of each compaction is doing
  cancelled    \* compactions whose abort controller was aborted

inputVars == <<buffer, place>>
goalVars  == <<goal, external, armed, background>>
compVars  == <<comp, stage, cancelled>>
vars == <<turn, lastEnd, inputVars, goalVars, compVars>>

Compactions == 1 .. MaxCompactions
Phases == {"idle", "opening", "step", "blocked", "call", "stopHook"}
Ends == {"none", "completed", "hookBlocked", "overBudget",
         "cancelled", "failed", "filtered"}
\* "refused" is a busy prompt; "dropped" is guidance discarded by Stop;
\* "context" is in the history and in no request yet.
Places == {"fresh", "buffered", "context", "seen", "dropped", "refused"}
Stages == {"unused", "summarizing", "refreshing", "over", "failed"}
Origins == {"user", "system"}

Origin(i) == IF i \in UserInputs THEN "user" ELSE "system"

NoTurn ==
  [phase |-> "idle", origin |-> "system", driving |-> FALSE, aborted |-> FALSE,
   steps |-> 0, overflows |-> 0, waitsFor |-> 0, retrying |-> FALSE,
   answered |-> FALSE, stopTool |-> FALSE, outcome |-> FALSE, outcomeUsed |-> FALSE,
   gate |-> FALSE, gateUsed |-> FALSE, limits |-> 0, stopUsed |-> FALSE,
   finish |-> "completed"]

\* A turn whose input has just been appended to the history; its prompt hook
\* and the first load of the MCP servers are still to be awaited.
Opening(origin, driving, aborted) ==
  [NoTurn EXCEPT !.phase = "opening", !.origin = origin,
                 !.driving = driving, !.aborted = aborted]

Active == turn.phase # "idle"
Live(c) == stage[c] \in {"summarizing", "refreshing"}
Settled == \A c \in Compactions : ~ Live(c)

Turns ==
  [phase : Phases, origin : Origins, driving : BOOLEAN, aborted : BOOLEAN,
   steps : Nat, overflows : Nat, waitsFor : 0 .. MaxCompactions,
   retrying : BOOLEAN, answered : BOOLEAN, stopTool : BOOLEAN,
   outcome : BOOLEAN, outcomeUsed : BOOLEAN, gate : BOOLEAN, gateUsed : BOOLEAN,
   limits : Nat, stopUsed : BOOLEAN, finish : {"completed", "filtered"}]

GoalStatuses == {"none", "active", "stopped"}

TypeOK ==
  /\ turn \in Turns
  /\ buffer \in Seq(Inputs)
  /\ place \in [Inputs -> Places]
  /\ lastEnd \in Ends
  /\ goal \in GoalStatuses
  /\ external \in BOOLEAN /\ armed \in BOOLEAN
  /\ background \in {"none", "running", "notifying"}
  /\ comp \in 0 .. MaxCompactions
  /\ stage \in [Compactions -> Stages]
  /\ cancelled \in [Compactions -> BOOLEAN]

Init ==
  /\ turn = NoTurn
  /\ buffer = <<>>
  /\ place = [i \in Inputs |-> "fresh"]
  /\ lastEnd = "none"
  /\ goal = "none"
  /\ external = FALSE /\ armed = FALSE /\ background = "none"
  /\ comp = 0
  /\ stage = [c \in Compactions |-> "unused"]
  /\ cancelled = [c \in Compactions |-> FALSE]

-----------------------------------------------------------------------------
(* Starting and ending turns                                               *)

\* flushSteerBuffer: every waiting input is appended to the history.
Flushed ==
  [i \in Inputs |-> IF place[i] = "buffered" THEN "context" ELSE place[i]]

\* launch, once the turn slot is free and no compaction holds the context.
\* The worker drives the goal from its first turn when the goal is active.
Launch(i, rest, places, status) ==
  /\ turn' = Opening(Origin(i), status = "active", FALSE)
  /\ buffer' = rest
  /\ place' = [places EXCEPT ![i] = "context"]
  /\ goal' = status
  /\ armed' = FALSE
  /\ external' = FALSE

\* Mutant: the slot is cleared and the buffer left for the next prompt.
Release_BufferForgotten(rest, places, status, arm) ==
  /\ turn' = NoTurn
  /\ buffer' = rest
  /\ place' = places
  /\ goal' = status
  /\ armed' = arm
  /\ external' = (external /\ status = "active")

\* The turn slot is cleared and, unless a compaction holds the context, the
\* first buffered input is launched (launchBufferedSteerIfIdle).
Release(rest, places, status, arm) ==
  IF rest # <<>> /\ comp = 0
    THEN Launch(Head(rest), Tail(rest), places, status)
    ELSE /\ turn' = NoTurn
         /\ buffer' = rest
         /\ place' = places
         /\ goal' = status
         /\ armed' = arm
         /\ external' = (external /\ status = "active")

\* The goal driver runs the next turn, a continuation, under the same
\* controller; the turn slot stays taken.
Continuation(rest, places) ==
  /\ turn' = Opening("system", TRUE, turn.aborted)
  /\ buffer' = rest
  /\ place' = places
  /\ armed' = FALSE
  /\ UNCHANGED <<goal, external>>

Interrupted == {"cancelled", "failed", "filtered"}

\* pauseOnInterrupt, pauseActiveGoal, markBlocked: no effect on a goal that
\* is not active.
Parked == IF goal = "active" THEN "stopped" ELSE goal

\* The tail of turnWorker after an ordinary turn: a goal that became active
\* during it is handed to the driver, unless the turn was interrupted.
OrdinaryOver(end, rest, places) ==
  IF goal = "active" /\ end \notin Interrupted
    THEN Continuation(rest, places)
    ELSE Release(rest, places, goal, armed)

\* What driveGoal does with the end of one of its turns.
DrivenOver(end, rest, places) ==
  \/ /\ end \in Interrupted \union {"hookBlocked"}
     /\ Release(rest, places, Parked, FALSE)
  \/ /\ end = "completed" /\ goal # "active"
     /\ Release(rest, places, goal, FALSE)
  \/ /\ end = "completed" /\ goal = "active"
     /\ \/ Release(rest, places, "stopped", FALSE)        \* over budget
        \/ background = "running" /\ Release(rest, places, goal, TRUE)
        \/ background # "running" /\ Continuation(rest, places)

TurnOver(end, rest, places) ==
  /\ lastEnd' = end
  /\ UNCHANGED <<background, compVars>>
  /\ IF turn.driving THEN DrivenOver(end, rest, places)
                     ELSE OrdinaryOver(end, rest, places)

-----------------------------------------------------------------------------
(* What the user, the host and the background do                           *)

\* Mutant: a prompt does not look at the compaction.
Prompt_NotDeferred(i) ==
  /\ place[i] = "fresh"
  /\ \/ /\ Active
        /\ place' = [place EXCEPT ![i] = "refused"]
        /\ UNCHANGED <<turn, buffer, goal, external, armed>>
     \/ ~ Active /\ Launch(i, buffer, place, goal)
  /\ UNCHANGED <<lastEnd, background, compVars>>

\* The prompt RPC: refused while a turn is active, deferred while a
\* compaction holds the context.
Prompt(i) ==
  /\ place[i] = "fresh"
  /\ \/ /\ Active
        /\ place' = [place EXCEPT ![i] = "refused"]
        /\ UNCHANGED <<turn, buffer, goal, external, armed>>
     \/ /\ ~ Active /\ comp # 0
        /\ place' = [place EXCEPT ![i] = "buffered"]
        /\ buffer' = Append(buffer, i)
        /\ UNCHANGED <<turn, goal, external, armed>>
     \/ /\ ~ Active /\ comp = 0
        /\ Launch(i, buffer, place, goal)
  /\ UNCHANGED <<lastEnd, background, compVars>>

\* What steer does with one input, whoever sends it.
SteerIn(i) ==
  /\ place[i] = "fresh"
  /\ IF Active \/ comp # 0
       THEN /\ place' = [place EXCEPT ![i] = "buffered"]
            /\ buffer' = Append(buffer, i)
            /\ UNCHANGED <<turn, goal, external, armed>>
       ELSE Launch(i, buffer, place, goal)
  /\ UNCHANGED <<lastEnd, compVars>>

Steer(i) == SteerIn(i) /\ UNCHANGED background

\* What aborting the compaction that holds the context does, by its user or
\* by the abort of the turn that waits for it.
CompCancelled ==
  /\ cancelled' = [c \in Compactions |-> cancelled[c] \/ c = comp]
  /\ comp' = 0

\* Mutant: Stop discards the notifications too.
Cancel_DropsAll ==
  /\ buffer' = <<>>
  /\ place' = [i \in Inputs |-> IF place[i] = "buffered" THEN "dropped"
                                                         ELSE place[i]]
  /\ turn' = IF Active THEN [turn EXCEPT !.aborted = TRUE] ELSE turn
  /\ UNCHANGED <<lastEnd, goalVars, compVars>>

\* The positions of the buffer that hold no guidance of the user.
Kept == {k \in DOMAIN buffer : buffer[k] \notin UserInputs}

\* The cancel RPC: guidance of the user is dropped, notifications stay in
\* their order, and the turn's signal is aborted; the turn keeps its slot
\* until it settles.
Cancel ==
  /\ \E order \in [1 .. Cardinality(Kept) -> Kept] :
       /\ \A m, n \in DOMAIN order : m < n => order[m] < order[n]
       /\ buffer' = [n \in DOMAIN order |-> buffer[order[n]]]
  /\ place' = [i \in Inputs |-> IF place[i] = "buffered" /\ i \in UserInputs
                                  THEN "dropped" ELSE place[i]]
  /\ turn' = IF Active THEN [turn EXCEPT !.aborted = TRUE] ELSE turn
  /\ IF /\ turn.phase = "blocked" /\ ~ turn.aborted
        /\ comp # 0 /\ comp = turn.waitsFor
       THEN CompCancelled
       ELSE UNCHANGED <<comp, cancelled>>
  /\ UNCHANGED <<lastEnd, goalVars, stage>>

\* Mutant: the slot names the compaction after the one begun.
Begin_NextId(c) ==
  /\ comp = 0
  /\ stage[c] = "unused"
  /\ comp' = c + 1
  /\ stage' = [stage EXCEPT ![c] = "summarizing"]
  /\ UNCHANGED cancelled

\* begin: only the first of two concurrent requests starts a compaction.
Begin(c) ==
  /\ comp = 0
  /\ stage[c] = "unused"
  /\ \A d \in Compactions : stage[d] = "unused" => c <= d
  /\ comp' = c
  /\ stage' = [stage EXCEPT ![c] = "summarizing"]
  /\ UNCHANGED cancelled

\* Mutant: a manual compaction begins whatever runs.
BeginManualCompaction_DuringTurn(c) ==
  /\ \E i \in Inputs : place[i] \in {"context", "seen"}
  /\ Begin(c)
  /\ UNCHANGED <<turn, lastEnd, inputVars, goalVars>>

\* A manual compaction needs a history and is refused while a turn runs.
BeginManualCompaction(c) ==
  /\ ~ Active
  /\ \E i \in Inputs : place[i] \in {"context", "seen"}
  /\ Begin(c)
  /\ UNCHANGED <<turn, lastEnd, inputVars, goalVars>>

\* The cancelCompaction RPC.
CancelCompaction ==
  /\ comp # 0 /\ stage[comp] \in CancelStages
  /\ CompCancelled
  /\ UNCHANGED <<turn, lastEnd, inputVars, goalVars, stage>>

\* createGoal and resumeGoal, pauseGoal, cancelGoal, from the user.
UserGoal ==
  /\ Goals
  /\ \/ goal # "active" /\ goal' = "active" /\ external' = TRUE
     \/ goal = "active" /\ goal' \in {"stopped", "none"} /\ external' = FALSE
  /\ UNCHANGED <<turn, lastEnd, inputVars, armed, background, compVars>>

\* The last unfinished background task ends: from now on it is not listed.
BackgroundEnds ==
  /\ background = "running"
  /\ background' = "notifying"
  /\ UNCHANGED <<turn, lastEnd, inputVars, goal, external, armed, compVars>>

\* Its record is on disk, its output was read: the notification is steered.
Notified(i) ==
  /\ background = "notifying"
  /\ background' = "none"
  /\ SteerIn(i)

\* fireGoalBackgroundIdleWake; while a turn runs it only sets the timer anew.
IdleWake(i) ==
  /\ armed
  /\ IF goal # "active" \/ background # "running"
       THEN /\ armed' = FALSE
            /\ UNCHANGED <<turn, lastEnd, inputVars, goal, external, compVars>>
       ELSE /\ ~ Active
            /\ place[i] = "fresh"
            /\ IF comp # 0
                 THEN /\ armed' = FALSE
                      /\ place' = [place EXCEPT ![i] = "buffered"]
                      /\ buffer' = Append(buffer, i)
                      /\ UNCHANGED <<turn, goal, external>>
                 ELSE Launch(i, buffer, place, goal)
            /\ UNCHANGED <<lastEnd, compVars>>
  /\ UNCHANGED background

-----------------------------------------------------------------------------
(* The turn itself: prompt hook, step loop, continuations                  *)

\* A driven turn whose goal is already over a hard budget ends without
\* asking the model (endGoalTurnWithoutModel).
OverBudget ==
  /\ turn.phase = "opening" /\ turn.driving /\ goal = "active"
  /\ lastEnd' = "overBudget"
  /\ Release(buffer, place, "stopped", armed)
  /\ UNCHANGED <<background, compVars>>

\* applyUserPromptHook and the wait for the MCP servers.
Opened ==
  /\ turn.phase = "opening"
  /\ IF turn.aborted
       THEN TurnOver("cancelled", buffer, place)
       ELSE \/ /\ turn' = [turn EXCEPT !.phase = "step"]
               /\ UNCHANGED <<lastEnd, inputVars, goalVars, compVars>>
            \/ /\ turn.origin = "user"
               /\ TurnOver("hookBlocked", buffer, place)

\* The request of a step: steered inputs are flushed first, so that every
\* input in the history is in it.
Request(local) ==
  /\ turn' = [local EXCEPT !.phase = "call", !.waitsFor = 0]
  /\ buffer' = <<>>
  /\ place' = [i \in Inputs |-> IF Flushed[i] = "context" THEN "seen"
                                                          ELSE place[i]]
  /\ UNCHANGED <<lastEnd, goalVars>>

StepsLeft(steps) == MaxSteps = 0 \/ steps < MaxSteps

\* The count of steps, kept only when it is limited.
Counted(steps) == IF MaxSteps = 0 THEN 0 ELSE steps + 1

\* The head of the loop of runTurn and beforeStep: an automatic compaction
\* may be due, and the turn waits for it; otherwise the request is sent.
BeginStep ==
  /\ turn.phase = "step"
  /\ LET started == [turn EXCEPT !.steps = Counted(@)]
     IN  IF turn.aborted THEN TurnOver("cancelled", buffer, place)
         ELSE IF ~ StepsLeft(turn.steps) THEN TurnOver("failed", buffer, place)
         ELSE \/ Request(started) /\ UNCHANGED compVars
              \/ \E c \in Compactions :
                   /\ IF comp = 0 THEN Begin(c)
                                  ELSE c = comp /\ UNCHANGED compVars
                   /\ turn' = [started EXCEPT !.phase = "blocked",
                                              !.waitsFor = c,
                                              !.retrying = FALSE]
                   /\ UNCHANGED <<lastEnd, inputVars, goalVars>>

\* Mutant: only a compaction that completes releases the turn.
Unblocked_OnCompletion ==
  /\ turn.phase = "blocked" /\ ~ Live(turn.waitsFor)
  /\ ~ cancelled[turn.waitsFor]
  /\ IF turn.aborted
       THEN TurnOver("cancelled", buffer, place)
       ELSE Request(turn) /\ UNCHANGED compVars

\* The promise the turn is blocked on settles.  The step goes on where it
\* was blocked; after an overflow the loop starts over, its steps uncounted.
Unblocked ==
  /\ turn.phase = "blocked" /\ ~ Live(turn.waitsFor)
  /\ IF turn.aborted
       THEN TurnOver("cancelled", buffer, place)
     ELSE IF stage[turn.waitsFor] = "failed"
       THEN TurnOver("failed", buffer, place)
     ELSE IF turn.retrying
       THEN /\ turn' = [turn EXCEPT !.phase = "step", !.steps = 0, !.waitsFor = 0]
            /\ UNCHANGED <<lastEnd, inputVars, goalVars, compVars>>
       ELSE Request(turn) /\ UNCHANGED compVars

\* The tools of the step that touch the goal: CreateGoal, UpdateGoal and
\* their like.  Completing or blocking it asks for an outcome message.
ToolChangesGoal ==
  /\ Goals
  /\ turn.phase = "call" /\ ~ turn.aborted /\ ~ turn.stopTool
  /\ \/ /\ goal # "active" /\ goal' = "active"
        /\ turn' = [turn EXCEPT !.answered = TRUE]
        /\ UNCHANGED external
     \/ /\ goal = "active" /\ goal' \in {"none", "stopped"}
        /\ turn' = [turn EXCEPT !.answered = TRUE, !.stopTool = TRUE,
                                !.outcome = TRUE]
        /\ external' = FALSE
     \/ /\ goal = "active" /\ goal' = "stopped"
        /\ turn' = [turn EXCEPT !.answered = TRUE, !.stopTool = TRUE]
        /\ external' = FALSE
  /\ UNCHANGED <<lastEnd, inputVars, armed, background, compVars>>

\* A tool of the step starts a background task, or TaskStop ends it, which
\* suppresses its notification.
ToolMovesBackground ==
  /\ Goals
  /\ turn.phase = "call" /\ ~ turn.aborted
  /\ \/ background = "none" /\ background' = "running"
     \/ background = "running" /\ background' = "none"
  /\ turn' = [turn EXCEPT !.answered = TRUE]
  /\ UNCHANGED <<lastEnd, inputVars, goal, external, armed, compVars>>

\* The passes of shouldContinueAfterStop over the turn's locals, in their
\* order, up to the Stop hook; limited tells that the output limit cut the
\* answer, FlushedSteer that steered inputs have just reached the history.
CutShort(local, limited) ==
  limited /\ local.limits < LimitPasses /\ StepsLeft(local.steps)
OutcomeDue(local) == local.outcome /\ ~ local.outcomeUsed
Past(local, phase) ==
  [local EXCEPT !.phase = phase, !.answered = FALSE, !.stopTool = FALSE]

\* Mutant: a notification does not deserve another pass.
FlushedSteer_UserOnly == \E k \in DOMAIN buffer : buffer[k] \in UserInputs
FlushedSteer == buffer # <<>>

AfterStop(local, limited) ==
  LET spoken == [local EXCEPT !.outcome = FALSE, !.outcomeUsed = TRUE]
      gated  == [local EXCEPT !.gate = FALSE]
      Goes(next) == /\ turn' = Past(next, "step")
                    /\ buffer' = <<>> /\ place' = Flushed
                    /\ UNCHANGED <<lastEnd, goalVars, compVars>>
      Stops == TurnOver(local.finish, <<>>, Flushed)
  IN  IF CutShort(local, limited)
        THEN Goes([local EXCEPT !.limits = @ + 1])
      ELSE IF OutcomeDue(local)
        THEN IF StepsLeft(local.steps) THEN Goes(spoken) ELSE Stops
      ELSE IF local.gate
        THEN IF StepsLeft(local.steps) THEN Goes(gated) ELSE Stops
      ELSE IF FlushedSteer THEN Goes(local)
      ELSE IF local.stopUsed THEN Stops
      ELSE /\ turn' = Past(local, "stopHook")
           /\ UNCHANGED <<lastEnd, inputVars, goalVars, compVars>>

\* The step's answer and its tools are in.  A terminal answer may first make
\* the workflow gate ask for a review pass, once, unless an outcome message
\* is due.
StepEnds ==
  /\ turn.phase = "call"
  /\ LET sealed == [turn EXCEPT !.overflows = 0]
         reviewed == [sealed EXCEPT !.gate = TRUE, !.gateUsed = TRUE]
         Terminal(local) ==
           \/ /\ ~ turn.answered \/ turn.stopTool
              /\ AfterStop([local EXCEPT !.finish = "completed"], FALSE)
           \/ /\ ~ turn.answered
              /\ \/ AfterStop([local EXCEPT !.finish = "completed"], TRUE)
                 \/ AfterStop([local EXCEPT !.finish = "filtered"], FALSE)
     IN  IF turn.aborted
           THEN TurnOver("cancelled", buffer, place)
           ELSE \/ ~ turn.stopTool                           \* tool_use
                   /\ turn' = Past(sealed, "step")
                   /\ UNCHANGED <<lastEnd, inputVars, goalVars, compVars>>
                \/ Terminal(sealed)
                \/ ~ turn.gateUsed /\ ~ turn.outcome /\ Terminal(reviewed)

\* The model call fails: with an error, or because the context overflowed the
\* model; then the turn waits for a compaction and retries, a few times.
StepFails ==
  /\ turn.phase = "call" /\ ~ turn.aborted /\ ~ turn.answered
  /\ \/ TurnOver("failed", buffer, place)
     \/ /\ turn.overflows < OverflowRetries
        /\ \E c \in Compactions :
             /\ IF comp = 0 THEN Begin(c) ELSE c = comp /\ UNCHANGED compVars
             /\ turn' = [turn EXCEPT !.phase = "blocked", !.waitsFor = c,
                                     !.retrying = TRUE,
                                     !.overflows = @ + 1]
        /\ UNCHANGED <<lastEnd, inputVars, goalVars>>

\* The Stop hook answers: it may send the model through one more pass.
StopHookAnswers ==
  /\ turn.phase = "stopHook"
  /\ IF turn.aborted
       THEN TurnOver("cancelled", buffer, place)
       ELSE \/ TurnOver(turn.finish, buffer, place)
            \/ /\ turn' = [turn EXCEPT !.phase = "step", !.stopUsed = TRUE]
               /\ UNCHANGED <<lastEnd, inputVars, goalVars, compVars>>

-----------------------------------------------------------------------------
(* The worker of a compaction                                              *)

\* Mutant: nobody launches what a compaction deferred.
Finished_NoLaunch ==
  IF Active
    THEN /\ buffer' = <<>> /\ place' = Flushed
         /\ UNCHANGED <<turn, goal, external, armed>>
    ELSE UNCHANGED <<turn, inputVars, goal, external, armed>>

\* onCompactionFinished: a running turn gets the deferred inputs appended to
\* its history, an idle agent launches the first of them.
Finished ==
  IF buffer = <<>> \/ (~ Active /\ comp' # 0)
    THEN UNCHANGED <<turn, inputVars, goal, external, armed>>
  ELSE IF Active
    THEN /\ buffer' = <<>> /\ place' = Flushed
         /\ UNCHANGED <<turn, goal, external, armed>>
    ELSE Launch(Head(buffer), Tail(buffer), place, goal)

\* Mutant: the context is free as soon as the summary is in it.
SummaryApplied_FreesEarly(c) ==
  /\ stage[c] = "summarizing" /\ ~ cancelled[c]
  /\ stage' = [stage EXCEPT ![c] = "refreshing"]
  /\ comp' = 0
  /\ UNCHANGED <<turn, lastEnd, inputVars, goalVars, cancelled>>

\* The summarizer answers with the history unchanged but for user messages:
\* the summary replaces the history.
SummaryApplied(c) ==
  /\ stage[c] = "summarizing" /\ ~ cancelled[c]
  /\ stage' = [stage EXCEPT ![c] = "refreshing"]
  /\ UNCHANGED <<turn, lastEnd, inputVars, goalVars, comp, cancelled>>

\* The summarizer's request was aborted; or it fails (credentials are
\* fetched without the signal, so this may come after the cancellation), or
\* the history changed under it and the summary is thrown away.  Then the
\* compaction that holds the context by now is cancelled, and the error
\* reaches a turn that waits for it.
SummaryLost(c) ==
  /\ stage[c] = "summarizing"
  /\ \/ /\ cancelled[c]
        /\ stage' = [stage EXCEPT ![c] = "over"]
        /\ UNCHANGED <<comp, cancelled>>
     \/ /\ ~ cancelled[c] \/ LateFailures
        /\ \E lost \in IF turn.phase = "blocked" /\ turn.waitsFor = comp
                         THEN {"over", "failed"} ELSE {"over"} :
             stage' = [stage EXCEPT ![c] = lost]
        /\ CompCancelled
  /\ Finished
  /\ UNCHANGED <<lastEnd, background>>

\* The system prompt is refreshed and the reminders are back: markCompleted
\* frees the context, whichever compaction holds it by now.
Reinjected(c) ==
  /\ stage[c] = "refreshing"
  /\ stage' = [stage EXCEPT ![c] = "over"]
  /\ comp' = 0
  /\ Finished
  /\ UNCHANGED <<lastEnd, background, cancelled>>

-----------------------------------------------------------------------------

TurnStep == \/ Opened \/ OverBudget \/ BeginStep \/ Unblocked \/ StepEnds
            \/ StepFails \/ StopHookAnswers

CompactionStep(c) == SummaryApplied(c) \/ SummaryLost(c) \/ Reinjected(c)

Environment ==
  \/ \E i \in UserInputs : Prompt(i)
  \/ \E i \in Inputs : Steer(i)
  \/ Cancel \/ CancelCompaction \/ UserGoal
  \/ \E c \in Compactions : BeginManualCompaction(c)
  \/ BackgroundEnds
  \/ \E i \in SystemInputs : Notified(i) \/ IdleWake(i)
  \/ ToolChangesGoal \/ ToolMovesBackground

Next == \/ TurnStep
        \/ \E c \in Compactions : CompactionStep(c)
        \/ Environment

Spec == Init /\ [][Next]_vars

\* Hooks, model calls and summarizers answer, and what has settled is
\* resumed; nothing is assumed of the user, the host or the background.
FairSpec == /\ Spec
            /\ WF_vars(TurnStep)
            /\ \A c \in Compactions : WF_vars(CompactionStep(c))

-----------------------------------------------------------------------------
(* Properties                                                              *)

\* While no turn runs and no worker of a compaction is left to replay them,
\* no input waits in the buffer: a deferred prompt, a steer or a
\* notification is never stuck behind an idle agent
\* (launchBufferedSteerIfIdle, onCompactionFinished).
NoStrandedInput == ~ Active /\ Settled => buffer = <<>>

\* When the model's answer has ended the latest turn and the agent is idle,
\* every input that reached the history was in some request: a turn that
\* ends of itself leaves nobody unanswered (flushSteerBuffer in
\* shouldContinueAfterStop).
NoUnansweredInput ==
  ~ Active /\ lastEnd = "completed" => \A i \in Inputs : place[i] # "context"

\* No request is built between the rewrite of the history by a compaction
\* and the return of the reminders it dropped (compactionWorker keeps
\* `compacting` set through injectAfterCompaction).
NoBareRequest ==
  [][turn.phase # "call" /\ turn'.phase = "call"
       => \A c \in Compactions : stage[c] # "refreshing"]_vars

\* A compaction that nobody cancelled holds the context until it is over,
\* and alone: no turn steps, calls the model or waits for its Stop hook
\* meanwhile.  Were the slot freed early, a second compaction or a turn
\* would write into the history being summarized (begin, markCompleted).
ContextHeld ==
  \A c \in Compactions : Live(c) /\ ~ cancelled[c] =>
    /\ comp = c
    /\ turn.phase \in {"idle", "blocked"}

\* A new input is launched at once only when nothing waits before it: a
\* prompt does not overtake the inputs deferred by a compaction.
NoOvertaking ==
  [][\A i \in Inputs : place[i] = "fresh" /\ place'[i] = "context"
                          => buffer = <<>>]_vars

\* An active goal is not forgotten.  When the agent is idle and nothing is
\* still to be replayed, either the user has just activated the goal, or an
\* ordinary turn was interrupted, or the goal waits for background work that
\* runs or whose notification is on its way (driveGoal, turnWorker, armGoalBackgroundIdleWake).
GoalPursued ==
  ~ Active /\ Settled /\ goal = "active" =>
    \/ external \/ lastEnd \in Interrupted
    \/ armed /\ background = "running"
    \/ background = "notifying"

\* "An aborted or failed turn ... pauses the goal, so it stays resumable"
\* (goal/index.ts): after such a turn the goal is active only if the user
\* activated it since.
InterruptPausesGoal ==
  ~ Active /\ lastEnd \in {"cancelled", "failed"} => goal # "active" \/ external

\* Whatever was buffered leaves the buffer: it reaches the history, or its
\* user discards it.
InputConsumed ==
  \A i \in Inputs : place[i] = "buffered" ~> place[i] # "buffered"

\* An aborted turn settles and gives its slot back, whatever it waited for.
AbortSettles == turn.aborted ~> ~ turn.aborted

=============================================================================
