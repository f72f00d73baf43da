--------------------------- MODULE TurnFlowProofs ---------------------------
(***************************************************************************)
(* Theorems about TurnFlow for every set of inputs and every limit.        *)
(*                                                                         *)
(* The first invariant, IInv, says that the slot `compacting` names a live *)
(* worker nobody cancelled; without it a buffered input could wait behind  *)
(* a slot that no worker will ever free.  The second, Held, says who may   *)
(* be at work when: a turn that is not waiting excludes every worker but   *)
(* cancelled summarizers (Quiet).  Three more stand on these: OrderInv for *)
(* the order of inputs, AnswerInv for their answers, PursuedInv for goals.  *)
(***************************************************************************)
EXTENDS TurnFlow, FiniteSetTheorems, SequenceTheorems, TLAPS

USE DEF Inputs, Compactions

\* What TypeOK says of all variables but turn.
RestOK ==
  /\ buffer \in Seq(Inputs)
  /\ place \in [Inputs -> Places]
  /\ lastEnd \in Ends
  /\ goal \in GoalStatuses
  /\ external \in BOOLEAN /\ armed \in BOOLEAN
  /\ background \in {"none", "running", "notifying"}
  /\ comp \in 0 .. MaxCompactions
  /\ stage \in [Compactions -> Stages]
  /\ cancelled \in [Compactions -> BOOLEAN]

\* The compaction that holds the context has a live worker and was not
\* cancelled; and only a compaction that began can have been cancelled.
HolderLives ==
  /\ comp # 0 => Live(comp) /\ ~ cancelled[comp]
  /\ \A c \in Compactions : stage[c] = "unused" => ~ cancelled[c]

IInv == TypeOK /\ HolderLives /\ NoStrandedInput

-----------------------------------------------------------------------------
(* Turns that start, go on and end                                         *)

LEMMA TypeParts == TypeOK <=> turn \in Turns /\ RestOK
  BY DEF TypeOK, RestOK

LEMMA InitIInv == Init => IInv
<1> SUFFICES ASSUME Init PROVE IInv
  OBVIOUS
<1>1. turn \in Turns
  BY BoundsAssumption DEF Init, NoTurn, Turns, Phases, Origins
<1>2. RestOK
  <2>1. /\ buffer \in Seq(Inputs) /\ place \in [Inputs -> Places]
        /\ comp \in 0 .. MaxCompactions
        /\ stage \in [Compactions -> Stages]
        /\ cancelled \in [Compactions -> BOOLEAN]
    BY BoundsAssumption DEF Init, Places, Stages
  <2>2. /\ lastEnd \in Ends /\ goal \in GoalStatuses
        /\ external \in BOOLEAN /\ armed \in BOOLEAN
        /\ background \in {"none", "running", "notifying"}
    BY DEF Init, Ends, GoalStatuses
  <2> QED
    BY <2>1, <2>2 DEF RestOK
<1>3. HolderLives /\ NoStrandedInput
  BY DEF Init, HolderLives, NoStrandedInput
<1> QED
  BY <1>1, <1>2, <1>3, TypeParts DEF IInv

LEMMA FlushedType == RestOK => Flushed \in [Inputs -> Places]
  BY DEF RestOK, Flushed, Places

LEMMA NoTurnType == NoTurn \in Turns
  BY BoundsAssumption DEF NoTurn, Turns, Phases, Origins

LEMMA OpeningType ==
  ASSUME NEW origin \in Origins, NEW driving \in BOOLEAN, NEW aborted \in BOOLEAN
  PROVE  /\ Opening(origin, driving, aborted) \in Turns
         /\ Opening(origin, driving, aborted).phase = "opening"
  BY NoTurnType DEF Opening, Turns, Phases, Origins

LEMMA LaunchType ==
  ASSUME NEW i \in Inputs, NEW rest \in Seq(Inputs),
         NEW places \in [Inputs -> Places], NEW status \in GoalStatuses,
         Launch(i, rest, places, status)
  PROVE  /\ turn' \in Turns /\ turn'.phase = "opening"
         /\ buffer' \in Seq(Inputs) /\ place' \in [Inputs -> Places]
         /\ goal' \in GoalStatuses /\ armed' \in BOOLEAN /\ external' \in BOOLEAN
<1>1. Origin(i) \in Origins /\ (status = "active") \in BOOLEAN /\ FALSE \in BOOLEAN
  BY DEF Origin, Origins
<1>2. turn' \in Turns /\ turn'.phase = "opening"
  BY <1>1, OpeningType DEF Launch
<1> QED
  BY <1>2 DEF Launch, Places

LEMMA ReleaseIInv ==
  ASSUME IInv, NEW rest \in Seq(Inputs), NEW places \in [Inputs -> Places],
         NEW status \in GoalStatuses, NEW arm \in BOOLEAN,
         Release(rest, places, status, arm),
         UNCHANGED <<background, compVars>>, lastEnd' \in Ends
  PROVE  IInv'
<1>1. CASE rest # <<>> /\ comp = 0
  <2>1. Head(rest) \in Inputs /\ Tail(rest) \in Seq(Inputs)
    BY <1>1, HeadTailProperties
  <2>2. Launch(Head(rest), Tail(rest), places, status)
    BY <1>1 DEF Release
  <2>3. turn' \in Turns /\ RestOK' /\ turn'.phase = "opening"
    BY <2>1, <2>2, LaunchType, TypeParts DEF IInv, RestOK, compVars
  <2> QED
    BY <2>3, TypeParts DEF IInv, HolderLives, NoStrandedInput, Live, Active,
       Settled, compVars, TypeOK, RestOK
<1>2. CASE ~ (rest # <<>> /\ comp = 0)
  <2>1. /\ turn' = NoTurn /\ buffer' = rest /\ place' = places
        /\ goal' = status /\ armed' = arm
        /\ external' = (external /\ status = "active")
    BY <1>2 DEF Release
  <2>2. TypeOK'
    BY <2>1, NoTurnType DEF IInv, TypeOK, compVars
  <2>3. HolderLives'
    BY DEF IInv, HolderLives, Live, compVars
  <2>4. NoStrandedInput'
    BY <1>2, <2>1, <2>3 DEF IInv, TypeOK, HolderLives, NoStrandedInput, Settled,
       Live, compVars
  <2> QED
    BY <2>2, <2>3, <2>4 DEF IInv
<1> QED
  BY <1>1, <1>2

LEMMA StaysActive ==
  ASSUME IInv, turn' \in Turns, turn'.phase # "idle", RestOK', HolderLives'
  PROVE  IInv'
  BY TypeParts DEF IInv, NoStrandedInput, Active, TypeOK, RestOK

LEMMA CompStutters == HolderLives /\ UNCHANGED compVars => HolderLives'
  BY DEF HolderLives, Live, compVars

LEMMA ContinuationIInv ==
  ASSUME IInv, NEW rest \in Seq(Inputs), NEW places \in [Inputs -> Places],
         Continuation(rest, places),
         UNCHANGED <<background, compVars>>, lastEnd' \in Ends
  PROVE  IInv'
<1>1. turn.aborted \in BOOLEAN /\ "system" \in Origins /\ TRUE \in BOOLEAN
  BY DEF IInv, TypeOK, Turns, Origins
<1>2. turn' \in Turns /\ turn'.phase = "opening"
  BY <1>1, OpeningType DEF Continuation
<1>3. RestOK'
  BY TypeParts DEF IInv, RestOK, Continuation, compVars
<1> QED
  BY <1>2, <1>3, StaysActive, CompStutters DEF IInv

LEMMA ParkedType == goal \in GoalStatuses => Parked \in GoalStatuses
  BY DEF Parked, GoalStatuses

LEMMA TurnOverIInv ==
  ASSUME IInv, NEW end \in Ends, NEW rest \in Seq(Inputs),
         NEW places \in [Inputs -> Places], TurnOver(end, rest, places)
  PROVE  IInv'
<1>1. lastEnd' \in Ends /\ UNCHANGED <<background, compVars>>
  BY DEF TurnOver
<1>2. /\ goal \in GoalStatuses /\ Parked \in GoalStatuses
      /\ "stopped" \in GoalStatuses
      /\ armed \in BOOLEAN /\ TRUE \in BOOLEAN /\ FALSE \in BOOLEAN
  BY ParkedType DEF IInv, TypeOK, GoalStatuses
<1>3. \/ Continuation(rest, places)
      \/ \E status \in GoalStatuses, arm \in BOOLEAN :
           Release(rest, places, status, arm)
  <2>1. CASE turn.driving
    <3>1. DrivenOver(end, rest, places)
      BY <2>1 DEF TurnOver
    <3> QED
      BY <3>1, <1>2 DEF DrivenOver
  <2>2. CASE ~ turn.driving
    <3>1. OrdinaryOver(end, rest, places)
      BY <2>2 DEF TurnOver
    <3> QED
      BY <3>1, <1>2 DEF OrdinaryOver
  <2> QED
    BY <2>1, <2>2
<1> QED
  BY <1>1, <1>3, ContinuationIInv, ReleaseIInv

-----------------------------------------------------------------------------
(* What the user, the host and the background do                           *)

LEMMA LaunchIInv ==
  ASSUME IInv, NEW i \in Inputs, NEW rest \in Seq(Inputs),
         NEW places \in [Inputs -> Places], NEW status \in GoalStatuses,
         Launch(i, rest, places, status),
         lastEnd' \in Ends, background' \in {"none", "running", "notifying"},
         comp' \in 0 .. MaxCompactions, stage' \in [Compactions -> Stages],
         cancelled' \in [Compactions -> BOOLEAN], HolderLives'
  PROVE  IInv'
<1>1. turn' \in Turns /\ turn'.phase = "opening" /\ RestOK'
  BY LaunchType DEF RestOK
<1> QED
  BY <1>1, StaysActive

\* An input that is buffered behind a turn or a compaction.
LEMMA DeferIInv ==
  ASSUME IInv, NEW i \in Inputs, Active \/ comp # 0,
         place' = [place EXCEPT ![i] = "buffered"], buffer' = Append(buffer, i),
         UNCHANGED <<turn, goal, external, lastEnd, compVars>>,
         armed' \in BOOLEAN, background' \in {"none", "running", "notifying"}
  PROVE  IInv'
<1>1. TypeOK'
  BY AppendProperties DEF IInv, TypeOK, compVars, Places
<1>2. HolderLives'
  BY CompStutters DEF IInv
<1>3. NoStrandedInput'
  BY <1>2 DEF IInv, TypeOK, NoStrandedInput, Active, Settled, HolderLives, Live,
     compVars
<1> QED
  BY <1>1, <1>2, <1>3 DEF IInv

LEMMA SteerInIInv ==
  ASSUME IInv, NEW i \in Inputs, SteerIn(i),
         background' \in {"none", "running", "notifying"}
  PROVE  IInv'
<1>1. CASE Active \/ comp # 0
  BY <1>1, DeferIInv DEF SteerIn, IInv, TypeOK
<1>2. CASE ~ (Active \/ comp # 0)
  BY <1>2, LaunchIInv, CompStutters DEF SteerIn, IInv, TypeOK, compVars
<1> QED
  BY <1>1, <1>2

LEMMA PromptIInv ==
  ASSUME IInv, NEW i \in Inputs, Prompt(i)
  PROVE  IInv'
<1>1. CASE Active
  <2>1. place' = [place EXCEPT ![i] = "refused"]
        /\ UNCHANGED <<turn, buffer, goal, external, armed, lastEnd, background,
                       compVars>>
    BY <1>1 DEF Prompt
  <2>2. RestOK'
    BY <2>1, TypeParts DEF IInv, RestOK, compVars, Places
  <2> QED
    BY <1>1, <2>1, <2>2, StaysActive, CompStutters DEF IInv, TypeOK, Active
<1>2. CASE ~ Active /\ comp # 0
  BY <1>2, DeferIInv DEF Prompt, IInv, TypeOK
<1>3. CASE ~ Active /\ comp = 0
  BY <1>3, LaunchIInv, CompStutters DEF Prompt, IInv, TypeOK, compVars
<1> QED
  BY <1>1, <1>2, <1>3

LEMMA KeptIsFinite ==
  ASSUME buffer \in Seq(Inputs)
  PROVE  /\ Cardinality(Kept) \in Nat
         /\ buffer = <<>> => Cardinality(Kept) = 0
<1>1. IsFiniteSet(1 .. Len(buffer)) /\ Kept \subseteq 1 .. Len(buffer)
  <2>1. Len(buffer) \in Nat /\ DOMAIN buffer = 1 .. Len(buffer)
    BY LenProperties
  <2>2. 1 \in Int /\ Len(buffer) \in Int
    BY <2>1
  <2> QED
    BY <2>1, <2>2, FS_Interval DEF Kept
<1>2. IsFiniteSet(Kept) /\ Cardinality(Kept) \in Nat
  BY <1>1, FS_Subset, FS_CardinalityType
<1>3. ASSUME buffer = <<>> PROVE Cardinality(Kept) = 0
  <2>1. Kept = {}
    BY <1>3 DEF Kept
  <2> QED
    BY <2>1, FS_EmptySet
<1> QED
  BY <1>2, <1>3

\* Cancelling gives the context back and keeps what is known of its holder.
LEMMA CompCancelledKeeps ==
  ASSUME IInv, CompCancelled
  PROVE  /\ comp' = 0 /\ comp' \in 0 .. MaxCompactions
         /\ cancelled' \in [Compactions -> BOOLEAN]
         /\ UNCHANGED stage => HolderLives'
<1>1. comp' = 0 /\ comp' \in 0 .. MaxCompactions
  BY BoundsAssumption DEF CompCancelled
<1>2. cancelled' \in [Compactions -> BOOLEAN]
  BY DEF CompCancelled, IInv, TypeOK
<1>3. ASSUME UNCHANGED stage PROVE HolderLives'
  <2>1. \A c \in Compactions : stage'[c] = "unused" => ~ cancelled'[c]
    <3> SUFFICES ASSUME NEW c \in Compactions, stage[c] = "unused"
                 PROVE  ~ cancelled'[c]
      BY <1>3
    <3>1. ~ cancelled[c]
      BY DEF IInv, HolderLives
    <3>2. c # comp
      BY BoundsAssumption DEF IInv, HolderLives, Live
    <3>3. cancelled'[c] = (cancelled[c] \/ c = comp)
      BY DEF CompCancelled
    <3> QED
      BY <3>1, <3>2, <3>3
  <2> QED
    BY <1>1, <2>1 DEF HolderLives
<1> QED
  BY <1>1, <1>2, <1>3

LEMMA CancelIInv == IInv /\ Cancel => IInv'
<1> SUFFICES ASSUME IInv, Cancel PROVE IInv'
  OBVIOUS
<1>1. PICK order \in [1 .. Cardinality(Kept) -> Kept] :
        buffer' = [n \in DOMAIN order |-> buffer[order[n]]]
  BY DEF Cancel
<1>2. buffer' \in Seq(Inputs) /\ (buffer = <<>> => buffer' = <<>>)
  <2>1. buffer \in Seq(Inputs)
    BY DEF IInv, TypeOK
  <2>2. \A n \in DOMAIN order : buffer[order[n]] \in Inputs
    BY <2>1, ElementOfSeq, LenProperties DEF Kept
  <2>3. Cardinality(Kept) \in Nat /\ DOMAIN order = 1 .. Cardinality(Kept)
    BY <2>1, KeptIsFinite
  <2>4. buffer' \in Seq(Inputs) /\ Len(buffer') = Cardinality(Kept)
    BY <1>1, <2>2, <2>3, IsASeq, LenProperties
  <2> QED
    BY <2>1, <2>4, EmptySeq, KeptIsFinite
<1>3. place' \in [Inputs -> Places]
  BY DEF Cancel, IInv, TypeOK, Places
<1>4. /\ comp' \in 0 .. MaxCompactions
      /\ cancelled' \in [Compactions -> BOOLEAN]
      /\ HolderLives'
  <2>1. CASE CompCancelled
    BY <2>1, CompCancelledKeeps DEF Cancel
  <2>2. CASE UNCHANGED <<comp, cancelled>>
    BY <2>2 DEF Cancel, IInv, TypeOK, HolderLives, Live
  <2> QED
    BY <2>1, <2>2 DEF Cancel
<1>5. turn' \in Turns /\ turn'.phase = turn.phase
  BY DEF Cancel, IInv, TypeOK, Turns, Active
<1>6. RestOK'
  BY <1>2, <1>3, <1>4, TypeParts DEF IInv, RestOK, Cancel, goalVars
<1>7. NoStrandedInput'
  BY <1>2, <1>5 DEF IInv, NoStrandedInput, Active, Settled, Live, Cancel
<1> QED
  BY <1>4, <1>5, <1>6, <1>7 DEF IInv, TypeOK, RestOK

\* A compaction that begins holds the context and is alive.
LEMMA BeginKeeps ==
  ASSUME IInv, NEW c \in Compactions, Begin(c)
  PROVE  /\ comp' = c /\ comp' \in 0 .. MaxCompactions
         /\ stage' \in [Compactions -> Stages] /\ cancelled' = cancelled
         /\ HolderLives'
  BY BoundsAssumption DEF Begin, IInv, TypeOK, Stages, HolderLives, Live

LEMMA BeginManualCompactionIInv ==
  ASSUME IInv, NEW c \in Compactions, BeginManualCompaction(c)
  PROVE  IInv'
<1>1. Begin(c) /\ UNCHANGED <<turn, lastEnd, inputVars, goalVars>>
  BY DEF BeginManualCompaction
<1>2. comp' = c /\ HolderLives' /\ TypeOK'
  BY <1>1, BeginKeeps DEF IInv, TypeOK, inputVars, goalVars
<1>3. NoStrandedInput'
  BY <1>2 DEF NoStrandedInput, HolderLives, Settled, Live
<1> QED
  BY <1>2, <1>3 DEF IInv

LEMMA CancelCompactionIInv == IInv /\ CancelCompaction => IInv'
<1> SUFFICES ASSUME IInv, CancelCompaction PROVE IInv'
  OBVIOUS
<1>1. CompCancelled /\ UNCHANGED <<turn, lastEnd, inputVars, goalVars, stage>>
  BY DEF CancelCompaction
<1>2. HolderLives' /\ TypeOK'
  BY <1>1, CompCancelledKeeps DEF IInv, TypeOK, inputVars, goalVars
<1>3. NoStrandedInput'
  BY <1>1 DEF IInv, NoStrandedInput, Active, Settled, Live, inputVars
<1> QED
  BY <1>2, <1>3 DEF IInv

\* The actions that only touch the goal and what surrounds it.
LEMMA GoalStepIInv ==
  ASSUME IInv, UNCHANGED <<turn, lastEnd, inputVars, compVars>>,
         goal' \in GoalStatuses, external' \in BOOLEAN, armed' \in BOOLEAN,
         background' \in {"none", "running", "notifying"}
  PROVE  IInv'
<1>1. TypeOK'
  BY DEF IInv, TypeOK, inputVars, compVars
<1>2. NoStrandedInput'
  BY DEF IInv, NoStrandedInput, Active, Settled, Live, inputVars, compVars
<1> QED
  BY <1>1, <1>2, CompStutters DEF IInv

LEMMA UserGoalIInv == IInv /\ UserGoal => IInv'
  BY GoalStepIInv DEF UserGoal, IInv, TypeOK, GoalStatuses

LEMMA BackgroundEndsIInv == IInv /\ BackgroundEnds => IInv'
  BY GoalStepIInv DEF BackgroundEnds, IInv, TypeOK

LEMMA IdleWakeIInv ==
  ASSUME IInv, NEW i \in Inputs, IdleWake(i)
  PROVE  IInv'
<1>1. CASE goal # "active" \/ background # "running"
  BY <1>1, GoalStepIInv DEF IdleWake, IInv, TypeOK
<1>2. CASE ~ (goal # "active" \/ background # "running") /\ comp # 0
  BY <1>2, DeferIInv DEF IdleWake, IInv, TypeOK
<1>3. CASE ~ (goal # "active" \/ background # "running") /\ comp = 0
  BY <1>3, LaunchIInv, CompStutters DEF IdleWake, IInv, TypeOK, compVars
<1> QED
  BY <1>1, <1>2, <1>3

LEMMA NotifiedIInv ==
  ASSUME IInv, NEW i \in Inputs, Notified(i)
  PROVE  IInv'
  BY SteerInIInv DEF Notified

LEMMA ToolChangesGoalIInv == IInv /\ ToolChangesGoal => IInv'
<1> SUFFICES ASSUME IInv, ToolChangesGoal PROVE IInv'
  OBVIOUS
<1>1. turn' \in Turns /\ turn'.phase # "idle"
  <2>1. turn \in Turns /\ turn.phase = "call"
    BY DEF ToolChangesGoal, IInv, TypeOK
  <2>2. CASE turn' = [turn EXCEPT !.answered = TRUE]
    BY <2>1, <2>2 DEF Turns
  <2>3. CASE turn' = [turn EXCEPT !.answered = TRUE, !.stopTool = TRUE, !.outcome = TRUE]
    BY <2>1, <2>3 DEF Turns
  <2>4. CASE turn' = [turn EXCEPT !.answered = TRUE, !.stopTool = TRUE]
    BY <2>1, <2>4 DEF Turns
  <2> QED
    BY <2>2, <2>3, <2>4 DEF ToolChangesGoal
<1>2. goal' \in GoalStatuses /\ external' \in BOOLEAN
  BY DEF ToolChangesGoal, IInv, TypeOK, GoalStatuses
<1>3. RestOK' /\ UNCHANGED compVars
  BY <1>2, TypeParts DEF ToolChangesGoal, IInv, RestOK, inputVars, compVars
<1> QED
  BY <1>1, <1>3, StaysActive, CompStutters DEF IInv

LEMMA ToolMovesBackgroundIInv == IInv /\ ToolMovesBackground => IInv'
<1> SUFFICES ASSUME IInv, ToolMovesBackground PROVE IInv'
  OBVIOUS
<1>1. turn' \in Turns /\ turn'.phase # "idle"
  BY DEF ToolMovesBackground, IInv, TypeOK, Turns
<1>2. RestOK' /\ UNCHANGED compVars
  BY TypeParts DEF ToolMovesBackground, IInv, RestOK, inputVars, compVars
<1> QED
  BY <1>1, <1>2, StaysActive, CompStutters DEF IInv

-----------------------------------------------------------------------------
(* The turn itself                                                         *)

\* A step of the turn that leaves the goal alone.
LEMMA TurnStepKeeps ==
  ASSUME IInv, turn' \in Turns, turn'.phase # "idle",
         buffer' \in Seq(Inputs), place' \in [Inputs -> Places],
         comp' \in 0 .. MaxCompactions, stage' \in [Compactions -> Stages],
         cancelled' \in [Compactions -> BOOLEAN], HolderLives',
         UNCHANGED <<lastEnd, goalVars>>
  PROVE  IInv'
<1>1. RestOK'
  BY TypeParts DEF IInv, RestOK, goalVars
<1> QED
  BY <1>1, StaysActive

\* The same when neither the inputs nor the compactions move.
LEMMA TurnAloneKeeps ==
  ASSUME IInv, turn' \in Turns, turn'.phase # "idle",
         UNCHANGED <<lastEnd, inputVars, goalVars, compVars>>
  PROVE  IInv'
  BY TurnStepKeeps, CompStutters DEF IInv, TypeOK, inputVars, compVars

\* The inputs and outcomes with which the actions below end a turn.
LEMMA EndingTypes ==
  ASSUME IInv
  PROVE  /\ {"completed", "hookBlocked", "overBudget", "cancelled", "failed",
             "filtered"} \subseteq Ends
         /\ turn.finish \in Ends
         /\ buffer \in Seq(Inputs) /\ <<>> \in Seq(Inputs)
         /\ place \in [Inputs -> Places] /\ Flushed \in [Inputs -> Places]
  BY FlushedType, TypeParts, EmptySeq DEF IInv, TypeOK, Turns, Ends

LEMMA OverBudgetIInv == IInv /\ OverBudget => IInv'
  BY ReleaseIInv, EndingTypes DEF OverBudget, IInv, TypeOK, GoalStatuses

LEMMA OpenedIInv == IInv /\ Opened => IInv'
<1> SUFFICES ASSUME IInv, Opened PROVE IInv'
  OBVIOUS
<1>1. CASE turn' = [turn EXCEPT !.phase = "step"]
           /\ UNCHANGED <<lastEnd, inputVars, goalVars, compVars>>
  <2>1. turn' \in Turns /\ turn'.phase # "idle"
    BY <1>1 DEF IInv, TypeOK, Turns, Phases
  <2> QED
    BY <1>1, <2>1, TurnAloneKeeps
<1>2. CASE \E end \in {"cancelled", "hookBlocked"} : TurnOver(end, buffer, place)
  BY <1>2, TurnOverIInv, EndingTypes
<1> QED
  BY <1>1, <1>2 DEF Opened

Waiting(local, phase, c) == [local EXCEPT !.phase = phase, !.waitsFor = c]

LEMMA WaitsType ==
  ASSUME NEW local \in Turns, NEW phase \in Phases, NEW c \in 0 .. MaxCompactions
  PROVE  /\ Waiting(local, phase, c) \in Turns
         /\ Waiting(local, phase, c).phase = phase
  BY DEF Turns, Waiting

LEMMA RequestIInv ==
  ASSUME IInv, NEW local \in Turns, Request(local), UNCHANGED compVars
  PROVE  IInv'
<1>1. turn' \in Turns /\ turn'.phase # "idle"
  <2>1. 0 \in 0 .. MaxCompactions /\ "call" \in Phases
    BY BoundsAssumption DEF Phases
  <2>2. turn' = Waiting(local, "call", 0)
    BY DEF Request, Waiting
  <2> QED
    BY <2>1, <2>2, WaitsType
<1>2. buffer' \in Seq(Inputs) /\ place' \in [Inputs -> Places]
  BY EndingTypes DEF Request, Places
<1> QED
  BY <1>1, <1>2, TurnStepKeeps, CompStutters DEF Request, IInv, TypeOK, compVars

\* The turn blocks on a compaction: the one that holds the context, or a new
\* one.
LEMMA BlockIInv ==
  ASSUME IInv, NEW c \in Compactions, NEW local \in Turns,
         IF comp = 0 THEN Begin(c) ELSE c = comp /\ UNCHANGED compVars,
         turn' = [local EXCEPT !.phase = "blocked", !.waitsFor = c],
         UNCHANGED <<lastEnd, inputVars, goalVars>>
  PROVE  IInv'
<1>1. turn' \in Turns /\ turn'.phase # "idle"
  <2>1. c \in 0 .. MaxCompactions
    BY BoundsAssumption
  <2>2. "blocked" \in Phases
    BY DEF Phases
  <2>3. turn' = Waiting(local, "blocked", c)
    BY DEF Waiting
  <2> QED
    BY <2>1, <2>2, <2>3, WaitsType
<1>2. /\ comp' \in 0 .. MaxCompactions /\ stage' \in [Compactions -> Stages]
      /\ cancelled' \in [Compactions -> BOOLEAN] /\ HolderLives'
  <2>1. CASE comp = 0
    BY <2>1, BeginKeeps DEF IInv, TypeOK
  <2>2. CASE comp # 0
    BY <2>2, CompStutters DEF IInv, TypeOK, compVars
  <2> QED
    BY <2>1, <2>2
<1>3. buffer' \in Seq(Inputs) /\ place' \in [Inputs -> Places]
  BY DEF IInv, TypeOK, inputVars
<1> QED
  BY <1>1, <1>2, <1>3, TurnStepKeeps

LEMMA BeginStepIInv == IInv /\ BeginStep => IInv'
<1> SUFFICES ASSUME IInv, BeginStep PROVE IInv'
  OBVIOUS
<1> DEFINE started == [turn EXCEPT !.steps = Counted(@)]
<1>1. started \in Turns
  <2>1. turn \in Turns
    BY DEF IInv, TypeOK
  <2>2. Counted(turn.steps) \in Nat
    BY <2>1 DEF Turns, Counted
  <2> QED
    BY <2>1, <2>2 DEF Turns
<1>2. CASE \E end \in {"cancelled", "failed"} : TurnOver(end, buffer, place)
  BY <1>2, TurnOverIInv, EndingTypes
<1>3. CASE Request(started) /\ UNCHANGED compVars
  BY <1>1, <1>3, RequestIInv
<1>4. ASSUME NEW c \in Compactions,
             IF comp = 0 THEN Begin(c) ELSE c = comp /\ UNCHANGED compVars,
             turn' = [started EXCEPT !.phase = "blocked", !.waitsFor = c,
                                     !.retrying = FALSE],
             UNCHANGED <<lastEnd, inputVars, goalVars>>
      PROVE  IInv'
  <2>1. [started EXCEPT !.retrying = FALSE] \in Turns
    BY <1>1 DEF Turns
  <2>2. turn' = [[started EXCEPT !.retrying = FALSE]
                   EXCEPT !.phase = "blocked", !.waitsFor = c]
    BY <1>1, <1>4 DEF Turns
  <2> QED
    BY <1>4, <2>1, <2>2, BlockIInv
<1> QED
  BY <1>2, <1>3, <1>4 DEF BeginStep

LEMMA UnblockedIInv == IInv /\ Unblocked => IInv'
<1> SUFFICES ASSUME IInv, Unblocked PROVE IInv'
  OBVIOUS
<1>1. CASE \E end \in {"cancelled", "failed"} : TurnOver(end, buffer, place)
  BY <1>1, TurnOverIInv, EndingTypes
<1>2. CASE Request(turn) /\ UNCHANGED compVars
  BY <1>2, RequestIInv DEF IInv, TypeOK
<1>3. CASE /\ turn' = [turn EXCEPT !.phase = "step", !.steps = 0, !.waitsFor = 0]
           /\ UNCHANGED <<lastEnd, inputVars, goalVars, compVars>>
  <2>1. turn' \in Turns /\ turn'.phase # "idle"
    <3>1. 0 \in 0 .. MaxCompactions /\ "step" \in Phases
      BY BoundsAssumption DEF Phases
    <3>2. [turn EXCEPT !.steps = 0] \in Turns
      BY DEF IInv, TypeOK, Turns
    <3>3. turn' = Waiting([turn EXCEPT !.steps = 0], "step", 0)
      BY <1>3 DEF IInv, TypeOK, Turns, Waiting
    <3> QED
      BY <3>1, <3>2, <3>3, WaitsType
  <2> QED
    BY <1>3, <2>1, TurnAloneKeeps
<1> QED
  BY <1>1, <1>2, <1>3 DEF Unblocked

LEMMA StepFailsIInv == IInv /\ StepFails => IInv'
<1> SUFFICES ASSUME IInv, StepFails PROVE IInv'
  OBVIOUS
<1>1. CASE TurnOver("failed", buffer, place)
  BY <1>1, TurnOverIInv, EndingTypes
<1>2. ASSUME NEW c \in Compactions,
             IF comp = 0 THEN Begin(c) ELSE c = comp /\ UNCHANGED compVars,
             turn' = [turn EXCEPT !.phase = "blocked", !.waitsFor = c,
                                  !.retrying = TRUE, !.overflows = @ + 1],
             UNCHANGED <<lastEnd, inputVars, goalVars>>
      PROVE  IInv'
  <2> DEFINE local == [turn EXCEPT !.retrying = TRUE, !.overflows = @ + 1]
  <2>1. local \in Turns
    <3>1. turn.overflows + 1 \in Nat /\ TRUE \in BOOLEAN
      BY DEF IInv, TypeOK, Turns
    <3> QED
      BY <3>1 DEF IInv, TypeOK, Turns
  <2>2. turn' = [local EXCEPT !.phase = "blocked", !.waitsFor = c]
    BY <1>2 DEF IInv, TypeOK, Turns
  <2> HIDE DEF local
  <2> QED
    BY <1>2, <2>1, <2>2, BlockIInv
<1> QED
  BY <1>1, <1>2 DEF StepFails

LEMMA StopHookAnswersIInv == IInv /\ StopHookAnswers => IInv'
<1> SUFFICES ASSUME IInv, StopHookAnswers PROVE IInv'
  OBVIOUS
<1>1. CASE \E end \in {"cancelled", turn.finish} : TurnOver(end, buffer, place)
  BY <1>1, TurnOverIInv, EndingTypes
<1>2. CASE /\ turn' = [turn EXCEPT !.phase = "step", !.stopUsed = TRUE]
           /\ UNCHANGED <<lastEnd, inputVars, goalVars, compVars>>
  <2>1. turn' \in Turns /\ turn'.phase # "idle"
    BY <1>2 DEF IInv, TypeOK, Turns, Phases
  <2> QED
    BY <1>2, <2>1, TurnAloneKeeps
<1> QED
  BY <1>1, <1>2 DEF StopHookAnswers

LEMMA PastType ==
  ASSUME NEW local \in Turns, NEW phase \in Phases
  PROVE  Past(local, phase) \in Turns /\ Past(local, phase).phase = phase
  BY DEF Past, Turns

\* Whatever pass the locals ask for, the turn goes on or ends.
LEMMA AfterStopCases ==
  ASSUME NEW local \in Turns, NEW limited \in BOOLEAN, AfterStop(local, limited)
  PROVE  \/ \E next \in Turns :
              /\ turn' = Past(next, "step")
              /\ buffer' = <<>> /\ place' = Flushed
              /\ UNCHANGED <<lastEnd, goalVars, compVars>>
         \/ TurnOver(local.finish, <<>>, Flushed)
         \/ /\ turn' = Past(local, "stopHook")
            /\ UNCHANGED <<lastEnd, inputVars, goalVars, compVars>>
<1> DEFINE longer == [local EXCEPT !.limits = @ + 1]
           spoken == [local EXCEPT !.outcome = FALSE, !.outcomeUsed = TRUE]
           gated  == [local EXCEPT !.gate = FALSE]
           Goes(next) == /\ turn' = Past(next, "step")
                         /\ buffer' = <<>> /\ place' = Flushed
                         /\ UNCHANGED <<lastEnd, goalVars, compVars>>
           Stops == TurnOver(local.finish, <<>>, Flushed)
           Asks == /\ turn' = Past(local, "stopHook")
                   /\ UNCHANGED <<lastEnd, inputVars, goalVars, compVars>>
<1>1. spoken \in Turns /\ gated \in Turns
  BY DEF Turns
<1>2. longer \in Turns
  <2>1. local.limits + 1 \in Nat
    BY DEF Turns
  <2> QED
    BY <2>1 DEF Turns
<1>3. Goes(longer) \/ Goes(spoken) \/ Goes(gated) \/ Goes(local) \/ Stops \/ Asks
  <2> HIDE DEF longer, spoken, gated
  <2> QED
    BY Zenon DEF AfterStop, longer, spoken, gated
<1> HIDE DEF longer, spoken, gated
<1> QED
  BY <1>1, <1>2, <1>3

LEMMA AfterStopIInv ==
  ASSUME IInv, NEW local \in Turns, NEW limited \in BOOLEAN,
         AfterStop(local, limited)
  PROVE  IInv'
<1>1. /\ "step" \in Phases /\ "stopHook" \in Phases
      /\ local.finish \in Ends
  BY DEF Phases, Turns, Ends
<1>2. ASSUME NEW next \in Turns, turn' = Past(next, "step"),
             buffer' = <<>>, place' = Flushed,
             UNCHANGED <<lastEnd, goalVars, compVars>>
      PROVE  IInv'
  <2>1. turn' \in Turns /\ turn'.phase # "idle"
    BY <1>1, <1>2, PastType
  <2> QED
    BY <1>2, <2>1, EndingTypes, TurnStepKeeps, CompStutters
       DEF IInv, TypeOK, compVars
<1>3. CASE TurnOver(local.finish, <<>>, Flushed)
  BY <1>1, <1>3, TurnOverIInv, EndingTypes
<1>4. CASE /\ turn' = Past(local, "stopHook")
           /\ UNCHANGED <<lastEnd, inputVars, goalVars, compVars>>
  <2>1. turn' \in Turns /\ turn'.phase # "idle"
    BY <1>1, <1>4, PastType
  <2> QED
    BY <1>4, <2>1, TurnAloneKeeps
<1> QED
  BY <1>2, <1>3, <1>4, AfterStopCases

LEMMA StepEndsIInv == IInv /\ StepEnds => IInv'
<1> SUFFICES ASSUME IInv, StepEnds PROVE IInv'
  OBVIOUS
<1> DEFINE sealed == [turn EXCEPT !.overflows = 0]
           reviewed == [sealed EXCEPT !.gate = TRUE, !.gateUsed = TRUE]
<1>1. sealed \in Turns /\ reviewed \in Turns
  BY DEF IInv, TypeOK, Turns
<1>2. \A local \in Turns : /\ [local EXCEPT !.finish = "completed"] \in Turns
                           /\ [local EXCEPT !.finish = "filtered"] \in Turns
  BY DEF Turns
<1>3. CASE TurnOver("cancelled", buffer, place)
  BY <1>3, TurnOverIInv, EndingTypes
<1>4. CASE /\ turn' = Past(sealed, "step")
           /\ UNCHANGED <<lastEnd, inputVars, goalVars, compVars>>
  <2>1. turn' \in Turns /\ turn'.phase # "idle"
    BY <1>1, <1>4, PastType DEF Phases
  <2> QED
    BY <1>4, <2>1, TurnAloneKeeps
<1>5. ASSUME NEW local \in {sealed, reviewed},
             NEW end \in {"completed", "filtered"}, NEW limited \in BOOLEAN,
             AfterStop([local EXCEPT !.finish = end], limited)
      PROVE  IInv'
  <2>1. [local EXCEPT !.finish = end] \in Turns
    BY <1>1, <1>2
  <2> QED
    BY <1>5, <2>1, AfterStopIInv
<1> QED
  BY <1>3, <1>4, <1>5, Zenon DEF StepEnds

-----------------------------------------------------------------------------
(* The worker of a compaction                                              *)

\* When the last worker is over and no turn runs, Finished has launched what
\* waited, or nothing waited.
LEMMA FinishedIInv ==
  ASSUME IInv, Finished, comp' \in 0 .. MaxCompactions,
         stage' \in [Compactions -> Stages],
         cancelled' \in [Compactions -> BOOLEAN], HolderLives',
         UNCHANGED <<lastEnd, background>>
  PROVE  IInv'
<1>1. CASE /\ buffer = <<>> \/ (~ Active /\ comp' # 0)
           /\ UNCHANGED <<turn, inputVars, goal, external, armed>>
  <2>1. TypeOK'
    BY <1>1 DEF IInv, TypeOK, inputVars
  <2>2. NoStrandedInput'
    <3>1. CASE buffer = <<>>
      BY <1>1, <3>1 DEF NoStrandedInput, inputVars
    <3>2. CASE comp' # 0
      BY <3>2 DEF NoStrandedInput, HolderLives, Settled, Live
    <3> QED
      BY <1>1, <3>1, <3>2
  <2> QED
    BY <2>1, <2>2 DEF IInv
<1>2. CASE /\ Active /\ buffer' = <<>> /\ place' = Flushed
           /\ UNCHANGED <<turn, goal, external, armed>>
  BY <1>2, TurnStepKeeps, EndingTypes DEF IInv, TypeOK, Active, goalVars
<1>3. CASE buffer # <<>> /\ Launch(Head(buffer), Tail(buffer), place, goal)
  <2>1. Head(buffer) \in Inputs /\ Tail(buffer) \in Seq(Inputs)
    BY <1>3, HeadTailProperties DEF IInv, TypeOK
  <2> QED
    BY <1>3, <2>1, LaunchIInv DEF IInv, TypeOK
<1> QED
  BY <1>1, <1>2, <1>3 DEF Finished

LEMMA SummaryAppliedIInv ==
  ASSUME IInv, NEW c \in Compactions, SummaryApplied(c)
  PROVE  IInv'
<1>1. TypeOK'
  BY DEF SummaryApplied, IInv, TypeOK, Stages, inputVars, goalVars
<1>2. HolderLives'
  BY DEF SummaryApplied, IInv, TypeOK, HolderLives, Live
<1>3. NoStrandedInput'
  BY DEF SummaryApplied, IInv, TypeOK, NoStrandedInput, Active, Settled, Live,
     inputVars
<1> QED
  BY <1>1, <1>2, <1>3 DEF IInv

\* The worker that ends does not hold the context any more.
LEMMA WorkerOver ==
  ASSUME IInv, NEW c \in Compactions, NEW d \in {"over", "failed"},
         stage' = [stage EXCEPT ![c] = d],
         \A e \in Compactions : stage[e] = "unused" => ~ cancelled'[e],
         comp' = 0 \/ (comp' = comp /\ comp # c /\ cancelled' = cancelled)
  PROVE  /\ stage' \in [Compactions -> Stages]
         /\ comp' \in 0 .. MaxCompactions
         /\ HolderLives'
<1>1. stage' \in [Compactions -> Stages] /\ comp' \in 0 .. MaxCompactions
  BY BoundsAssumption DEF IInv, TypeOK, Stages
<1>2. \A e \in Compactions : stage'[e] = "unused" => ~ cancelled'[e]
  BY DEF IInv, TypeOK
<1>3. ASSUME comp' # 0 PROVE Live(comp)' /\ ~ cancelled'[comp']
  <2>1. comp' = comp /\ comp # c /\ cancelled' = cancelled /\ comp \in Compactions
    BY <1>3, BoundsAssumption DEF IInv, TypeOK
  <2>2. stage'[comp] = stage[comp]
    BY <2>1 DEF IInv, TypeOK
  <2>3. Live(comp) /\ ~ cancelled[comp]
    BY <1>3, <2>1 DEF IInv, HolderLives
  <2> QED
    BY <2>1, <2>2, <2>3 DEF Live
<1> QED
  BY <1>1, <1>2, <1>3 DEF HolderLives

LEMMA SummaryLostIInv ==
  ASSUME IInv, NEW c \in Compactions, SummaryLost(c)
  PROVE  IInv'
<1>1. PICK d \in {"over", "failed"} : stage' = [stage EXCEPT ![c] = d]
  BY DEF SummaryLost
<1>2. /\ cancelled' \in [Compactions -> BOOLEAN]
      /\ \A e \in Compactions : stage[e] = "unused" => ~ cancelled'[e]
      /\ comp' = 0 \/ (comp' = comp /\ comp # c /\ cancelled' = cancelled)
  <2>1. CASE cancelled[c] /\ UNCHANGED <<comp, cancelled>>
    BY <2>1 DEF IInv, TypeOK, HolderLives
  <2>2. CASE CompCancelled
    <3>1. \A e \in Compactions : stage[e] = "unused" => e # comp
      BY BoundsAssumption DEF IInv, HolderLives, Live
    <3> QED
      BY <2>2, <3>1, CompCancelledKeeps DEF CompCancelled, IInv, HolderLives
  <2> QED
    BY <2>1, <2>2 DEF SummaryLost
<1> QED
  BY <1>1, <1>2, WorkerOver, FinishedIInv DEF SummaryLost

LEMMA ReinjectedIInv ==
  ASSUME IInv, NEW c \in Compactions, Reinjected(c)
  PROVE  IInv'
<1>1. /\ cancelled' \in [Compactions -> BOOLEAN]
      /\ \A e \in Compactions : stage[e] = "unused" => ~ cancelled'[e]
      /\ stage' \in [Compactions -> Stages] /\ comp' \in 0 .. MaxCompactions
      /\ HolderLives'
  BY WorkerOver DEF Reinjected, IInv, TypeOK, HolderLives
<1> QED
  BY <1>1, FinishedIInv DEF Reinjected

-----------------------------------------------------------------------------
(* The theorems                                                            *)

LEMMA StepIInv == IInv /\ [Next]_vars => IInv'
<1> SUFFICES ASSUME IInv, [Next]_vars PROVE IInv'
  OBVIOUS
<1>1. CASE TurnStep
  BY <1>1, OpenedIInv, OverBudgetIInv, BeginStepIInv, UnblockedIInv,
     StepEndsIInv, StepFailsIInv, StopHookAnswersIInv DEF TurnStep
<1>2. CASE \E c \in Compactions : CompactionStep(c)
  BY <1>2, SummaryAppliedIInv, SummaryLostIInv, ReinjectedIInv
     DEF CompactionStep
<1>3. CASE Environment
  BY <1>3, PromptIInv, SteerInIInv, CancelIInv, CancelCompactionIInv,
     UserGoalIInv, BeginManualCompactionIInv, BackgroundEndsIInv, NotifiedIInv,
     IdleWakeIInv, ToolChangesGoalIInv, ToolMovesBackgroundIInv
     DEF Environment, Steer, IInv, TypeOK
<1>4. CASE UNCHANGED vars
  BY <1>4, GoalStepIInv DEF vars, inputVars, goalVars, compVars, IInv, TypeOK
<1> QED
  BY <1>1, <1>2, <1>3, <1>4 DEF Next

LEMMA SpecIInv == Spec => []IInv
  BY InitIInv, StepIInv, PTL DEF Spec

\* Every variable keeps its type, whatever the inputs, the limits and the
\* order of answers, cancellations and launches.
THEOREM TypeCorrect == Spec => []TypeOK
<1>1. IInv => TypeOK
  BY DEF IInv
<1> QED
  BY <1>1, SpecIInv, PTL

\* No deferred prompt, steer or notification is left behind an idle agent
\* with no worker to replay it (launchBufferedSteerIfIdle,
\* onCompactionFinished), even when compactions are cancelled late or their
\* summarizers fail after the cancellation.
THEOREM NoneStranded == Spec => []NoStrandedInput
<1>1. IInv => NoStrandedInput
  BY DEF IInv
<1> QED
  BY <1>1, SpecIInv, PTL

-----------------------------------------------------------------------------
(* Who holds the context                                                   *)

\* Nobody writes into the history but the turn: the only workers left are
\* summarizers that were cancelled, and those only wait to be told so.
Quiet ==
  /\ comp = 0
  /\ \A c \in Compactions : Live(c) => cancelled[c] /\ stage[c] = "summarizing"

\* A turn that does not wait is alone; only the holder of the context is alive
\* and uncancelled; a worker cancelled after its summary was applied has a
\* turn waiting for it; and a turn waits for the holder, if there is one.
Held ==
  /\ turn.phase \notin {"idle", "blocked"} => Quiet
  /\ \A c \in Compactions : Live(c) /\ ~ cancelled[c] => comp = c
  /\ \A c \in Compactions : stage[c] = "refreshing" /\ cancelled[c] =>
       turn.phase = "blocked" /\ turn.waitsFor = c
  /\ turn.phase = "blocked" /\ comp # 0 => turn.waitsFor = comp

HeldInv == IInv /\ Held

\* A user cancels a compaction only while it summarizes, and a summarizer
\* whose signal is aborted fails with that.
CancelsInTime == CancelStages \subseteq {"summarizing"} /\ ~ LateFailures

LEMMA QuietHeld == Quiet => Held
  BY DEF Quiet, Held, Live

LEMMA QuietStutters == Quiet /\ UNCHANGED compVars => Quiet' /\ Held'
  BY DEF Quiet, Held, Live, compVars

LEMMA HeldStutters ==
  Held /\ UNCHANGED compVars /\ turn'.phase = turn.phase
       /\ turn'.waitsFor = turn.waitsFor => Held'
  BY DEF Held, Quiet, Live, compVars

LEMMA IdleQuiet == HeldInv /\ ~ Active /\ comp = 0 => Quiet
  BY DEF HeldInv, Held, Quiet, Live, Active

LEMMA ResumedQuiet ==
  HeldInv /\ turn.phase = "blocked" /\ ~ Live(turn.waitsFor) => Quiet
  BY DEF HeldInv, Held, Quiet, IInv, HolderLives, Live

LEMMA FreeQuiet == Held /\ turn.phase \notin {"idle", "blocked"} => Quiet
  BY DEF Held

\* Beginning a compaction when nothing else is alive.
LEMMA BeginHeld ==
  ASSUME HeldInv, Quiet, NEW c \in Compactions, Begin(c),
         turn'.phase \in {"idle", "blocked"},
         turn'.phase = "blocked" => turn'.waitsFor = c
  PROVE  Held'
<1>1. comp' = c /\ stage' = [stage EXCEPT ![c] = "summarizing"]
      /\ cancelled' = cancelled
  BY DEF Begin
<1>2. \A d \in Compactions :
        Live(d)' => d = c \/ (cancelled[d] /\ stage[d] = "summarizing")
  BY <1>1 DEF Quiet, Live, HeldInv, IInv, TypeOK
<1>3. \A d \in Compactions : stage'[d] # "refreshing"
  BY <1>1 DEF Quiet, Live, HeldInv, IInv, TypeOK
<1> QED
  BY <1>1, <1>2, <1>3 DEF Held

LEMMA BlockHeld ==
  ASSUME HeldInv, Quiet, NEW c \in Compactions,
         IF comp = 0 THEN Begin(c) ELSE c = comp /\ UNCHANGED compVars,
         turn'.phase = "blocked", turn'.waitsFor = c
  PROVE  Held'
  BY BeginHeld DEF Quiet

\* A turn that is free, or that a settled compaction resumes, leaves the
\* compactions alone or blocks on one.
LEMMA TurnStepHeld == HeldInv /\ TurnStep => Held'
<1> SUFFICES ASSUME HeldInv, TurnStep PROVE Held'
  OBVIOUS
<1>1. Quiet
  <2>1. CASE Unblocked
    BY <2>1, ResumedQuiet DEF Unblocked
  <2>2. CASE turn.phase \notin {"idle", "blocked"}
    BY <2>2, FreeQuiet DEF HeldInv
  <2> QED
    BY <2>1, <2>2 DEF TurnStep, Opened, OverBudget, BeginStep, StepEnds,
       StepFails, StopHookAnswers
<1>2. CASE UNCHANGED compVars
  BY <1>1, <1>2, QuietStutters
<1>3. ASSUME NEW c \in Compactions,
             IF comp = 0 THEN Begin(c) ELSE c = comp /\ UNCHANGED compVars,
             turn'.phase = "blocked", turn'.waitsFor = c
      PROVE  Held'
  BY <1>1, <1>3, BlockHeld
<1>4. CASE Opened \/ OverBudget
  BY <1>2, <1>4 DEF Opened, OverBudget, TurnOver
<1>5. CASE BeginStep
  <2>1. turn.phase \in Phases /\ turn \in Turns
    BY DEF HeldInv, IInv, TypeOK, Turns
  <2> QED
    BY <1>2, <1>3, <1>5, <2>1 DEF BeginStep, TurnOver, Turns
<1>6. CASE Unblocked
  BY <1>2, <1>6 DEF Unblocked, TurnOver
<1>7. CASE StepFails
  <2>1. turn \in Turns
    BY DEF HeldInv, IInv, TypeOK
  <2> QED
    BY <1>2, <1>3, <1>7, <2>1 DEF StepFails, TurnOver, Turns
<1>8. CASE StepEnds
  BY <1>2, <1>8 DEF StepEnds, AfterStop, TurnOver
<1>9. CASE StopHookAnswers
  BY <1>2, <1>9 DEF StopHookAnswers, TurnOver
<1> QED
  BY <1>4, <1>5, <1>6, <1>7, <1>8, <1>9 DEF TurnStep

\* An input that arrives is buffered or refused, which moves nothing here,
\* or launched by an idle agent whose context is free.
LEMMA ArrivalHeld ==
  ASSUME HeldInv, UNCHANGED compVars,
         UNCHANGED turn \/ (~ Active /\ comp = 0)
  PROVE  Held'
  BY HeldStutters, QuietStutters, IdleQuiet DEF HeldInv

LEMMA CompCancelledHeld ==
  ASSUME HeldInv, comp # 0, CompCancelled, UNCHANGED stage,
         stage[comp] = "summarizing" \/
           (turn.phase = "blocked" /\ turn.waitsFor = comp),
         turn'.phase = turn.phase, turn'.waitsFor = turn.waitsFor
  PROVE  Held'
<1>1. comp' = 0 /\ \A c \in Compactions : cancelled'[c] = (cancelled[c] \/ c = comp)
  BY DEF CompCancelled
<1>2. turn.phase \in {"idle", "blocked"}
  BY DEF HeldInv, Held, Quiet
<1>3. \A c \in Compactions : Live(c)' => cancelled'[c]
  BY <1>1 DEF HeldInv, Held, Live
<1>4. \A c \in Compactions : stage'[c] = "refreshing" /\ cancelled'[c] =>
        turn'.phase = "blocked" /\ turn'.waitsFor = c
  BY <1>1 DEF HeldInv, Held
<1> QED
  BY <1>1, <1>2, <1>3, <1>4 DEF Held

LEMMA EnvironmentHeld == HeldInv /\ CancelsInTime /\ Environment => Held'
<1> SUFFICES ASSUME HeldInv, CancelsInTime, Environment PROVE Held'
  OBVIOUS
<1>1. CASE \E i \in UserInputs : Prompt(i)
  BY <1>1, ArrivalHeld DEF Prompt
<1>2. CASE \E i \in Inputs : Steer(i)
  BY <1>2, ArrivalHeld DEF Steer, SteerIn
<1>3. CASE \E i \in SystemInputs : Notified(i) \/ IdleWake(i)
  BY <1>3, ArrivalHeld DEF Notified, SteerIn, IdleWake
<1>4. CASE Cancel
  <2>1. turn'.phase = turn.phase /\ turn'.waitsFor = turn.waitsFor /\ UNCHANGED stage
    BY <1>4 DEF Cancel, HeldInv, IInv, TypeOK, Turns
  <2> QED
    BY <1>4, <2>1, CompCancelledHeld, HeldStutters DEF Cancel, HeldInv, compVars
<1>5. CASE CancelCompaction
  BY <1>5, CompCancelledHeld DEF CancelCompaction, CancelsInTime
<1>6. CASE \E c \in Compactions : BeginManualCompaction(c)
  BY <1>6, BeginHeld, IdleQuiet DEF BeginManualCompaction, Begin, Active
<1>7. CASE UserGoal \/ BackgroundEnds
  BY <1>7, ArrivalHeld DEF UserGoal, BackgroundEnds
<1>8. CASE ToolChangesGoal \/ ToolMovesBackground
  BY <1>8, QuietStutters, FreeQuiet
     DEF ToolChangesGoal, ToolMovesBackground, HeldInv
<1> QED
  BY <1>1, <1>2, <1>3, <1>4, <1>5, <1>6, <1>7, <1>8 DEF Environment

\* What Finished does to the turn: nothing, or a launch by an idle agent
\* whose context is free.
LEMMA FinishedTurn == Finished => UNCHANGED turn \/ (~ Active /\ comp' = 0)
  BY DEF Finished

LEMMA SummaryAppliedHeld ==
  ASSUME HeldInv, NEW c \in Compactions, SummaryApplied(c)
  PROVE  Held'
<1>1. /\ stage[c] = "summarizing" /\ ~ cancelled[c]
      /\ stage' = [stage EXCEPT ![c] = "refreshing"]
      /\ UNCHANGED <<turn, comp, cancelled>>
  BY DEF SummaryApplied
<1>2. comp = c /\ turn.phase \in {"idle", "blocked"}
  BY <1>1, BoundsAssumption DEF HeldInv, Held, Live, Quiet
<1> QED
  BY <1>1, <1>2 DEF HeldInv, Held, Live, IInv, TypeOK

\* A worker that ends leaves only cancelled workers behind.
LEMMA WorkerOverHeld ==
  ASSUME HeldInv, NEW c \in Compactions, NEW d \in {"over", "failed"}, Live(c),
         stage' = [stage EXCEPT ![c] = d], Finished,
         \/ cancelled[c] /\ UNCHANGED <<comp, cancelled>>
         \/ /\ comp' = 0
            /\ \A e \in Compactions : e # c => cancelled'[e] = cancelled[e]
            /\ ~ cancelled[c] \/ comp = 0
  PROVE  Held'
<1>1. \A e \in Compactions : Live(e)' => e # c /\ stage'[e] = stage[e]
                                            /\ Live(e) /\ cancelled'[e] = cancelled[e]
  BY DEF Live, HeldInv, IInv, TypeOK
<1>2. comp' \in {0, comp}
  OBVIOUS
<1>3. \A e \in Compactions : Live(e)' /\ ~ cancelled'[e] => comp' = e
  <2>1. CASE UNCHANGED <<comp, cancelled>>
    BY <1>1, <2>1 DEF HeldInv, Held
  <2>2. CASE comp' = 0 /\ (~ cancelled[c] \/ comp = 0)
    <3>1. comp = 0 \/ comp = c
      BY <2>2 DEF HeldInv, Held
    <3> QED
      BY <1>1, <2>2, <3>1, BoundsAssumption DEF HeldInv, Held
  <2> QED
    BY <2>1, <2>2
<1>4. CASE UNCHANGED turn
  <2>1. turn'.phase \notin {"idle", "blocked"} => Quiet'
    BY <1>1, <1>2, <1>4 DEF HeldInv, Held, Quiet
  <2>2. \A e \in Compactions : stage'[e] = "refreshing" /\ cancelled'[e] =>
          turn'.phase = "blocked" /\ turn'.waitsFor = e
    BY <1>1, <1>4 DEF HeldInv, Held, Live
  <2>3. turn'.phase = "blocked" /\ comp' # 0 => turn'.waitsFor = comp'
    BY <1>2, <1>4 DEF HeldInv, Held
  <2> QED
    BY <1>3, <2>1, <2>2, <2>3 DEF Held
<1>5. CASE ~ Active /\ comp' = 0
  <2>1. \A e \in Compactions : Live(e)' => cancelled'[e] /\ stage'[e] = "summarizing"
    BY <1>1, <1>3, <1>5, BoundsAssumption DEF HeldInv, Held, Live, Active
  <2> QED
    BY <1>5, <2>1, QuietHeld DEF Quiet, Held, Live
<1> QED
  BY <1>4, <1>5, FinishedTurn

LEMMA SummaryLostHeld ==
  ASSUME HeldInv, CancelsInTime, NEW c \in Compactions, SummaryLost(c)
  PROVE  Held'
<1>1. PICK d \in {"over", "failed"} : stage' = [stage EXCEPT ![c] = d]
  BY DEF SummaryLost
<1>2. Live(c) /\ Finished
  BY DEF SummaryLost, Live
<1>3. CASE cancelled[c] /\ UNCHANGED <<comp, cancelled>>
  BY <1>1, <1>2, <1>3, WorkerOverHeld
<1>4. CASE ~ cancelled[c] /\ CompCancelled
  <2>1. comp = c
    BY <1>2, <1>4 DEF HeldInv, Held
  <2>2. \A e \in Compactions : e # c => cancelled'[e] = cancelled[e]
    BY <1>4, <2>1 DEF CompCancelled, HeldInv, IInv, TypeOK
  <2> QED
    BY <1>1, <1>2, <1>4, <2>2, WorkerOverHeld DEF CompCancelled
<1> QED
  BY <1>3, <1>4 DEF SummaryLost, CancelsInTime

LEMMA ReinjectedHeld ==
  ASSUME HeldInv, NEW c \in Compactions, Reinjected(c)
  PROVE  Held'
<1>1. ~ cancelled[c] \/ comp = 0
  BY DEF Reinjected, HeldInv, Held, IInv, HolderLives
<1> QED
  BY <1>1, WorkerOverHeld DEF Reinjected, Live

LEMMA StepHeld == HeldInv /\ CancelsInTime /\ [Next]_vars => Held'
<1> SUFFICES ASSUME HeldInv, CancelsInTime, [Next]_vars PROVE Held'
  OBVIOUS
<1>1. CASE \E c \in Compactions : CompactionStep(c)
  BY <1>1, SummaryAppliedHeld, SummaryLostHeld, ReinjectedHeld
     DEF CompactionStep
<1>2. CASE UNCHANGED vars
  BY <1>2, HeldStutters DEF vars, HeldInv
<1> QED
  BY <1>1, <1>2, TurnStepHeld, EnvironmentHeld DEF Next

LEMMA InitHeld == Init => Held
  BY BoundsAssumption DEF Init, Held, Live, NoTurn

LEMMA SpecHeldInv == ASSUME CancelsInTime PROVE Spec => []HeldInv
<1>1. Init => HeldInv
  BY InitIInv, InitHeld DEF HeldInv
<1>2. HeldInv /\ [Next]_vars => HeldInv'
  BY StepIInv, StepHeld DEF HeldInv
<1> QED
  BY <1>1, <1>2, PTL DEF Spec

\* A compaction that nobody cancelled keeps the context to itself until it is
\* over, for any number of compactions, turns and inputs, as long as
\* compactions are cancelled in time (begin, block, markCompleted).
THEOREM HeldContext == ASSUME CancelsInTime PROVE Spec => []ContextHeld
<1>1. HeldInv => ContextHeld
  BY BoundsAssumption DEF HeldInv, Held, ContextHeld, Quiet, Live
<1> QED
  BY <1>1, SpecHeldInv, PTL

\* A request is only sent by a free turn or by one that a settled compaction
\* resumes.
LEMMA RequestWhenQuiet ==
  ASSUME HeldInv, [Next]_vars, turn.phase # "call", turn'.phase = "call"
  PROVE  Quiet
<1>1. turn.phase \notin {"idle", "blocked"} => Quiet
  BY FreeQuiet DEF HeldInv
<1>2. CASE TurnStep
  BY <1>1, <1>2, ResumedQuiet DEF TurnStep, Opened, OverBudget, BeginStep,
     Unblocked, StepEnds, StepFails, StopHookAnswers
<1>3. \A i, rest, places, status :
        Launch(i, rest, places, status) => turn'.phase = "opening"
  BY DEF Launch, Opening, NoTurn
<1>4. CASE \E c \in Compactions : CompactionStep(c)
  BY <1>3, <1>4 DEF CompactionStep, SummaryApplied, SummaryLost, Reinjected,
     Finished
<1>5. CASE Environment
  <2>1. turn \in Turns
    BY DEF HeldInv, IInv, TypeOK
  <2> QED
    BY <1>3, <1>5, <2>1 DEF Environment, Prompt, Steer, SteerIn, Notified,
       IdleWake, Cancel, CancelCompaction, UserGoal, BeginManualCompaction,
       BackgroundEnds, ToolChangesGoal, ToolMovesBackground, Turns
<1>6. CASE UNCHANGED vars
  BY <1>6 DEF vars
<1> QED
  BY <1>2, <1>4, <1>5, <1>6 DEF Next

\* Under the same condition no request of any turn is built from a history
\* whose reminders are still missing (compactionWorker).  The condition is
\* needed: without it TLC finds such a request.
THEOREM CompleteRequests == ASSUME CancelsInTime PROVE Spec => NoBareRequest
<1>1. HeldInv /\ [Next]_vars =>
        [turn.phase # "call" /\ turn'.phase = "call"
           => \A c \in Compactions : stage[c] # "refreshing"]_vars
  BY RequestWhenQuiet DEF Quiet, Live
<1> QED
  BY <1>1, SpecHeldInv, PTL DEF Spec, NoBareRequest

-----------------------------------------------------------------------------
(* The order of inputs                                                     *)

\* What waits has arrived; and nothing waits while the next input would be
\* launched at once.
Ready == ~ Active /\ comp = 0 => buffer = <<>>
Arrived(b, places) == \A k \in DOMAIN b : places[b[k]] # "fresh"
OrderInv == IInv /\ Ready /\ Arrived(buffer, place)

\* No step launches a new input past a waiting one.
InTurn ==
  \A i \in Inputs : place[i] = "fresh" /\ place'[i] = "context" => buffer = <<>>

Ordered == Ready' /\ Arrived(buffer', place') /\ InTurn

\* No user cancels a compaction; aborting the turn that waits for one does.
OnlyTurnsCancel == CancelStages = {}

\* An input flushed, dropped or launched is no newcomer, and makes none.
SameFresh(places) == \A i \in Inputs : places[i] = "fresh" <=> place[i] = "fresh"

LEMMA FlushedSameFresh == place \in [Inputs -> Places] => SameFresh(Flushed)
  BY DEF SameFresh, Flushed

\* Launching the first of what waits keeps the rest in order.
LEMMA LaunchFirstOrdered ==
  ASSUME NEW rest \in Seq(Inputs), rest # <<>>,
         NEW places \in [Inputs -> Places], NEW status,
         Arrived(rest, places), SameFresh(places),
         \A i \in Inputs : place[i] = "fresh" => places[i] # "context",
         Launch(Head(rest), Tail(rest), places, status)
  PROVE  Ordered
<1>1. /\ Head(rest) \in Inputs /\ Head(rest) = rest[1]
      /\ Tail(rest) \in Seq(Inputs) /\ Len(rest) \in Nat \ {0}
      /\ Len(Tail(rest)) = Len(rest) - 1
      /\ \A k \in 1 .. Len(Tail(rest)) : Tail(rest)[k] = rest[k + 1]
  BY HeadTailProperties, EmptySeq, LenProperties
<1>2. /\ turn'.phase = "opening" /\ buffer' = Tail(rest)
      /\ place' = [places EXCEPT ![Head(rest)] = "context"]
  BY DEF Launch, Opening, NoTurn
<1>3. places[Head(rest)] # "fresh"
  BY <1>1 DEF Arrived
<1>4. Arrived(buffer', place')
  <2> SUFFICES ASSUME NEW k \in DOMAIN Tail(rest)
               PROVE  place'[Tail(rest)[k]] # "fresh"
    BY <1>2 DEF Arrived
  <2>1. k \in 1 .. Len(Tail(rest)) /\ Tail(rest)[k] = rest[k + 1]
        /\ k + 1 \in DOMAIN rest /\ rest[k + 1] \in Inputs
    BY <1>1, LenProperties, ElementOfSeq
  <2>2. places[rest[k + 1]] # "fresh"
    BY <2>1 DEF Arrived
  <2> QED
    BY <1>2, <2>1, <2>2
<1>5. InTurn
  BY <1>1, <1>2, <1>3 DEF InTurn, SameFresh
<1> QED
  BY <1>2, <1>4, <1>5 DEF Ordered, Ready, Active

\* Ending a turn launches the first of what waits, or nothing waits, or a
\* compaction holds the context.
LEMMA TurnOverOrdered ==
  ASSUME NEW end, NEW rest \in Seq(Inputs), NEW places \in [Inputs -> Places],
         Arrived(rest, places), SameFresh(places),
         \A i \in Inputs : place[i] = "fresh" => places[i] # "context",
         \/ TurnOver(end, rest, places)
         \/ /\ Release(rest, places, "stopped", armed)
            /\ UNCHANGED compVars
  PROVE  Ordered
<1>1. UNCHANGED compVars
  BY DEF TurnOver
<1>2. ASSUME NEW status, NEW arm, Release(rest, places, status, arm)
      PROVE  Ordered
  <2>1. CASE rest # <<>> /\ comp = 0
    BY <1>2, <2>1, LaunchFirstOrdered DEF Release
  <2>2. CASE ~ (rest # <<>> /\ comp = 0)
    BY <1>1, <1>2, <2>2 DEF Release, Ordered, Ready, InTurn, compVars
  <2> QED
    BY <2>1, <2>2
<1>3. CASE Continuation(rest, places)
  BY <1>3 DEF Continuation, Opening, NoTurn, Ordered, Ready, Active, InTurn
<1> QED
  BY <1>2, <1>3 DEF TurnOver, OrdinaryOver, DrivenOver

LEMMA TurnEndsOrdered ==
  ASSUME OrderInv
  PROVE  /\ \A end : TurnOver(end, buffer, place) => Ordered
         /\ \A end : TurnOver(end, <<>>, Flushed) => Ordered
         /\ Release(buffer, place, "stopped", armed) /\ UNCHANGED compVars
              => Ordered
<1>1. /\ buffer \in Seq(Inputs) /\ place \in [Inputs -> Places]
      /\ <<>> \in Seq(Inputs) /\ Flushed \in [Inputs -> Places]
  BY FlushedType, TypeParts DEF OrderInv, IInv, RestOK
<1>2. Arrived(buffer, place) /\ SameFresh(place)
  BY DEF OrderInv, SameFresh
<1>3. Arrived(<<>>, Flushed) /\ SameFresh(Flushed)
  BY <1>1, FlushedSameFresh DEF Arrived
<1>4. \A i \in Inputs :
        place[i] = "fresh" => place[i] # "context" /\ Flushed[i] # "context"
  BY DEF Flushed
<1> QED
  BY <1>1, <1>2, <1>3, <1>4, TurnOverOrdered

\* A turn that goes on leaves the inputs alone or takes all that wait.
LEMMA GoesOnOrdered ==
  ASSUME OrderInv, turn'.phase # "idle",
         \/ UNCHANGED inputVars
         \/ buffer' = <<>> /\ place' = Flushed
         \/ /\ buffer' = <<>>
            /\ place' = [i \in Inputs |-> IF Flushed[i] = "context" THEN "seen"
                                                                   ELSE place[i]]
  PROVE  Ordered
<1>1. Ready'
  BY DEF Ready, Active
<1>2. CASE UNCHANGED inputVars
  BY <1>1, <1>2 DEF OrderInv, Ordered, InTurn, inputVars
<1>3. CASE buffer' = <<>> /\ \A i \in Inputs : place[i] = "fresh" => place'[i] = "fresh"
  BY <1>1, <1>3 DEF Ordered, Arrived, InTurn
<1>4. \A i \in Inputs : place[i] = "fresh" => Flushed[i] = "fresh"
  BY DEF Flushed
<1>5. CASE buffer' = <<>> /\ place' = Flushed
  BY <1>3, <1>4, <1>5
<1>6. CASE /\ buffer' = <<>>
           /\ place' = [i \in Inputs |-> IF Flushed[i] = "context" THEN "seen"
                                                                  ELSE place[i]]
  BY <1>3, <1>4, <1>6
<1> QED
  BY <1>2, <1>5, <1>6

LEMMA TurnStepOrdered == OrderInv /\ TurnStep => Ordered
<1> SUFFICES ASSUME OrderInv, TurnStep PROVE Ordered
  OBVIOUS
<1> USE TurnEndsOrdered
<1>1. turn \in Turns
  BY DEF OrderInv, IInv, TypeOK
<1>2. ASSUME NEW local \in Turns, Request(local) PROVE Ordered
  <2>1. turn'.phase = "call"
    BY <1>2 DEF Request, Turns
  <2> QED
    BY <1>2, <2>1, GoesOnOrdered DEF Request
<1>3. CASE Opened
  BY <1>1, <1>3, GoesOnOrdered DEF Opened, Turns
<1>4. CASE OverBudget
  BY <1>4 DEF OverBudget
<1>5. CASE BeginStep
  <2>1. [turn EXCEPT !.steps = Counted(@)] \in Turns
    BY <1>1 DEF Turns, Counted
  <2>2. ASSUME NEW c, turn' = [[turn EXCEPT !.steps = Counted(@)] EXCEPT
                                 !.phase = "blocked", !.waitsFor = c,
                                 !.retrying = FALSE],
               UNCHANGED inputVars
        PROVE  Ordered
    BY <2>1, <2>2, GoesOnOrdered DEF Turns
  <2> QED
    BY <1>2, <1>5, <2>1, <2>2 DEF BeginStep
<1>6. CASE Unblocked
  BY <1>1, <1>2, <1>6, GoesOnOrdered DEF Unblocked, Turns
<1>7. CASE StepFails
  BY <1>1, <1>7, GoesOnOrdered DEF StepFails, Turns
<1>8. ASSUME NEW local \in Turns, NEW limited \in BOOLEAN,
             AfterStop(local, limited)
      PROVE  Ordered
  <2>1. \A l \in Turns : \A phase \in {"step", "stopHook"} :
          turn' = Past(l, phase) => turn'.phase # "idle"
    BY DEF Past, Turns
  <2>2. [local EXCEPT !.limits = @ + 1] \in Turns
    <3>1. local.limits + 1 \in Nat
      BY DEF Turns
    <3> QED
      BY <3>1 DEF Turns
  <2>3. [local EXCEPT !.outcome = FALSE, !.outcomeUsed = TRUE] \in Turns
    BY DEF Turns
  <2>4. [local EXCEPT !.gate = FALSE] \in Turns
    BY DEF Turns
  <2> QED
    BY <1>8, <2>1, <2>2, <2>3, <2>4, GoesOnOrdered DEF AfterStop
<1>9. CASE StepEnds
  <2> DEFINE sealed == [turn EXCEPT !.overflows = 0]
             reviewed == [sealed EXCEPT !.gate = TRUE, !.gateUsed = TRUE]
  <2>1. sealed \in Turns /\ reviewed \in Turns
    BY <1>1 DEF Turns
  <2>2. \A local \in Turns : \A end \in {"completed", "filtered"} :
          [local EXCEPT !.finish = end] \in Turns
    BY DEF Turns
  <2>3. CASE turn' = Past(sealed, "step") /\ UNCHANGED inputVars
    <3>1. turn'.phase = "step"
      BY <2>1, <2>3 DEF Past, Turns
    <3> QED
      BY <2>3, <3>1, GoesOnOrdered
  <2> QED
    BY <1>8, <1>9, <2>1, <2>2, <2>3 DEF StepEnds
<1>10. CASE StopHookAnswers
  BY <1>1, <1>10, GoesOnOrdered DEF StopHookAnswers, Turns
<1> QED
  BY <1>3, <1>4, <1>5, <1>6, <1>7, <1>9, <1>10 DEF TurnStep

\* An input that arrives is launched when nothing waits, or waits last.
LEMMA LaunchNewOrdered ==
  ASSUME OrderInv, NEW i \in Inputs, ~ Active, comp = 0,
         Launch(i, buffer, place, goal)
  PROVE  Ordered
<1>1. buffer = <<>> /\ buffer' = <<>> /\ turn'.phase = "opening"
  BY DEF OrderInv, Ready, Launch, Opening, NoTurn
<1> QED
  BY <1>1 DEF Ordered, Ready, Active, Arrived, InTurn

LEMMA DeferOrdered ==
  ASSUME OrderInv, NEW i \in Inputs, Active \/ comp # 0,
         place' = [place EXCEPT ![i] = "buffered"], buffer' = Append(buffer, i),
         UNCHANGED <<turn, compVars>>
  PROVE  Ordered
<1>1. buffer \in Seq(Inputs) /\ place \in [Inputs -> Places]
  BY DEF OrderInv, IInv, TypeOK
<1>2. Ready' /\ InTurn
  BY <1>1 DEF Ready, Active, InTurn, compVars
<1>3. Arrived(buffer', place')
  <2> SUFFICES ASSUME NEW k \in DOMAIN buffer' PROVE place'[buffer'[k]] # "fresh"
    BY DEF Arrived
  <2>1. Len(buffer) \in Nat /\ DOMAIN buffer' = 1 .. Len(buffer) + 1
    BY <1>1, AppendProperties, LenProperties
  <2>2. CASE k = Len(buffer) + 1
    BY <1>1, <2>2, AppendProperties
  <2>3. CASE k # Len(buffer) + 1
    <3>1. k \in DOMAIN buffer /\ buffer'[k] = buffer[k] /\ buffer[k] \in Inputs
      BY <1>1, <2>1, <2>3, AppendProperties, LenProperties, ElementOfSeq
    <3> QED
      BY <1>1, <3>1 DEF OrderInv, Arrived
  <2> QED
    BY <2>2, <2>3
<1> QED
  BY <1>2, <1>3 DEF Ordered

LEMMA SteerInOrdered ==
  ASSUME OrderInv, NEW i \in Inputs, SteerIn(i)
  PROVE  Ordered
  BY LaunchNewOrdered, DeferOrdered DEF SteerIn

\* Nothing arrives, nobody stops and no compaction is cancelled.
LEMMA QuietStepOrdered ==
  ASSUME OrderInv, UNCHANGED inputVars,
         (~ Active)' => ~ Active, comp' = 0 => comp = 0
  PROVE  Ordered
  BY DEF OrderInv, Ordered, Ready, InTurn, inputVars

\* Stop keeps a part of what waits; it frees the context only if a turn is
\* waiting for it, which keeps its slot.
LEMMA CancelOrdered == OrderInv /\ Cancel => Ordered
<1> SUFFICES ASSUME OrderInv, Cancel PROVE Ordered
  OBVIOUS
<1>1. /\ buffer \in Seq(Inputs) /\ place \in [Inputs -> Places]
      /\ turn \in Turns
  BY DEF OrderInv, IInv, TypeOK
<1>2. PICK order \in [1 .. Cardinality(Kept) -> Kept] :
        buffer' = [n \in DOMAIN order |-> buffer[order[n]]]
  BY DEF Cancel
<1>3. place' = [i \in Inputs |-> IF place[i] = "buffered" /\ i \in UserInputs
                                   THEN "dropped" ELSE place[i]]
  BY DEF Cancel
<1>4. Arrived(buffer', place')
  <2> SUFFICES ASSUME NEW n \in DOMAIN order
               PROVE  place'[buffer[order[n]]] # "fresh"
    BY <1>2 DEF Arrived
  <2>1. order[n] \in DOMAIN buffer /\ buffer[order[n]] \in Inputs
    BY <1>1, ElementOfSeq, LenProperties DEF Kept
  <2> QED
    BY <1>3, <2>1 DEF OrderInv, Arrived
<1>5. InTurn
  BY <1>3 DEF InTurn
<1>6. Ready'
  <2> SUFFICES ASSUME ~ Active', comp' = 0 PROVE buffer' = <<>>
    BY DEF Ready, Active
  <2>1. ~ Active
    BY <1>1 DEF Cancel, Active, Turns
  <2>2. comp = 0
    BY <2>1 DEF Cancel, Active
  <2>3. Cardinality(Kept) = 0
    BY <1>1, <2>1, <2>2, KeptIsFinite DEF OrderInv, Ready
  <2>4. DOMAIN order = 1 .. 0
    BY <2>3
  <2> QED
    BY <1>2, <2>4
<1> QED
  BY <1>4, <1>5, <1>6 DEF Ordered

LEMMA EnvironmentOrdered == OrderInv /\ OnlyTurnsCancel /\ Environment => Ordered
<1> SUFFICES ASSUME OrderInv, OnlyTurnsCancel, Environment PROVE Ordered
  OBVIOUS
<1>1. /\ turn \in Turns /\ comp \in 0 .. MaxCompactions
      /\ place \in [Inputs -> Places]
  BY DEF OrderInv, IInv, TypeOK
<1>2. ASSUME NEW i \in UserInputs, Prompt(i) PROVE Ordered
  <2>1. CASE Active /\ place' = [place EXCEPT ![i] = "refused"]
             /\ UNCHANGED <<turn, buffer, compVars>>
    <3>1. Ready' /\ InTurn
      BY <1>1, <2>1 DEF Ready, Active, InTurn
    <3>2. Arrived(buffer', place')
      BY <1>1, <2>1 DEF OrderInv, Arrived
    <3> QED
      BY <3>1, <3>2 DEF Ordered
  <2> QED
    BY <1>2, <2>1, LaunchNewOrdered, DeferOrdered DEF Prompt
<1>3. ASSUME NEW i \in SystemInputs, IdleWake(i) PROVE Ordered
  BY <1>3, LaunchNewOrdered, DeferOrdered, QuietStepOrdered
     DEF IdleWake, compVars, Active
<1>4. ASSUME NEW c \in Compactions, BeginManualCompaction(c) PROVE Ordered
  BY <1>4, QuietStepOrdered, BoundsAssumption
     DEF BeginManualCompaction, Begin, Active
<1>5. ~ CancelCompaction
  BY DEF OnlyTurnsCancel, CancelCompaction
<1>6. CASE UserGoal \/ BackgroundEnds \/ ToolChangesGoal \/ ToolMovesBackground
  BY <1>1, <1>6, QuietStepOrdered DEF UserGoal, BackgroundEnds, ToolChangesGoal,
     ToolMovesBackground, compVars, Active, Turns
<1> QED
  BY <1>2, <1>3, <1>4, <1>5, <1>6, CancelOrdered, SteerInOrdered
     DEF Environment, Steer, Notified

\* A worker that ends launches the first of what waits, or appends all of it
\* to the history of the turn.
LEMMA CompactionStepOrdered ==
  ASSUME OrderInv, NEW c \in Compactions, CompactionStep(c)
  PROVE  Ordered
<1>1. buffer \in Seq(Inputs) /\ place \in [Inputs -> Places]
  BY DEF OrderInv, IInv, TypeOK
<1>2. CASE SummaryApplied(c)
  BY <1>2, QuietStepOrdered DEF SummaryApplied, Active
<1>3. CASE Finished /\ buffer = <<>>
  BY <1>3 DEF Finished, OrderInv, Ordered, Ready, Arrived, InTurn, inputVars
<1>4. CASE Finished /\ buffer # <<>> /\ ~ Active /\ comp' # 0
  BY <1>4 DEF Finished, OrderInv, Ordered, Ready, InTurn, inputVars
<1>5. CASE Finished /\ buffer # <<>> /\ Active
  BY <1>5, GoesOnOrdered DEF Finished, Active
<1>6. CASE Finished /\ buffer # <<>> /\ ~ Active /\ comp' = 0
  BY <1>1, <1>6, LaunchFirstOrdered DEF Finished, OrderInv, SameFresh
<1> QED
  BY <1>2, <1>3, <1>4, <1>5, <1>6 DEF CompactionStep, SummaryLost, Reinjected

LEMMA StepOrdered == OrderInv /\ OnlyTurnsCancel /\ [Next]_vars => Ordered
<1> SUFFICES ASSUME OrderInv, OnlyTurnsCancel, [Next]_vars PROVE Ordered
  OBVIOUS
<1>1. CASE UNCHANGED vars
  BY <1>1, QuietStepOrdered DEF vars, inputVars, compVars, Active
<1> QED
  BY <1>1, TurnStepOrdered, CompactionStepOrdered, EnvironmentOrdered DEF Next

LEMMA SpecOrderInv == ASSUME OnlyTurnsCancel PROVE Spec => []OrderInv
<1>1. Init => OrderInv
  BY InitIInv DEF Init, OrderInv, Ready, Arrived
<1>2. OrderInv /\ [Next]_vars => OrderInv'
  BY StepIInv, StepOrdered DEF OrderInv, Ordered, Arrived
<1> QED
  BY <1>1, <1>2, PTL DEF Spec

\* As long as no user cancels a compaction, no new prompt, steer or
\* notification is launched before the inputs that a compaction deferred
\* (requestPrompt, steer, onCompactionFinished), whoever stops turns and however
\* late summarizers fail.
THEOREM InOrder == ASSUME OnlyTurnsCancel PROVE Spec => NoOvertaking
<1>1. OrderInv /\ [Next]_vars =>
        [\A i \in Inputs : place[i] = "fresh" /\ place'[i] = "context"
           => buffer = <<>>]_vars
  BY StepOrdered DEF Ordered, InTurn
<1> QED
  BY <1>1, SpecOrderInv, PTL DEF Spec, NoOvertaking

-----------------------------------------------------------------------------
(* No input is left unanswered                                             *)

\* A compaction that a turn has cancelled is waited for by that turn alone,
\* whatever is marked as waiting is in the buffer, and what has reached the
\* history of a turn that asked the model was in the request.
WaitedFor ==
  \A c \in Compactions : Live(c) /\ cancelled[c] =>
    turn.phase = "blocked" /\ turn.waitsFor = c
Waits(b, places) ==
  \A i \in Inputs : places[i] = "buffered" => \E k \in DOMAIN b : b[k] = i
NoneLeft(places) == \A i \in Inputs : places[i] # "context"
Taken == turn.phase \in {"call", "stopHook"} => NoneLeft(place)

Answered == WaitedFor /\ Waits(buffer, place) /\ Taken /\ NoUnansweredInput
AnswerInv == HeldInv /\ Answered

\* Only turns cancel compactions, cancelled summarizers fail with that, and
\* no limit ends a turn that has more to answer.
Patient == CancelStages = {} /\ ~ LateFailures /\ MaxSteps = 0

LEMMA PatientIsInTime == Patient => CancelsInTime
  BY DEF Patient, CancelsInTime

\* No worker is left while a turn is free.
LEMMA FreeSettled ==
  AnswerInv /\ turn.phase \notin {"idle", "blocked"} => Settled
  BY BoundsAssumption DEF AnswerInv, HeldInv, Answered, WaitedFor, Held, Quiet,
     Settled

LEMMA WaitedForStutters ==
  WaitedFor /\ UNCHANGED compVars /\ turn'.phase = turn.phase
            /\ turn'.waitsFor = turn.waitsFor => WaitedFor'
  BY DEF WaitedFor, Live, compVars

\* When nothing cancelled is left, a turn may do what it likes, and a
\* compaction may begin.
NoLeftover == \A c \in Compactions : Live(c) => ~ cancelled[c]

LEMMA LeftoverOver ==
  ASSUME AnswerInv,
         turn.phase # "blocked" \/ ~ Live(turn.waitsFor)
  PROVE  NoLeftover
  BY DEF AnswerInv, Answered, WaitedFor, NoLeftover

LEMMA NoLeftoverKept ==
  ASSUME AnswerInv, NoLeftover,
         UNCHANGED compVars \/ \E c \in Compactions : Begin(c)
  PROVE  WaitedFor'
<1>1. CASE UNCHANGED compVars
  BY <1>1 DEF NoLeftover, WaitedFor, Live, compVars
<1>2. ASSUME NEW c \in Compactions, Begin(c) PROVE WaitedFor'
  <2>1. \A d \in Compactions : Live(d)' => d = c \/ Live(d)
    BY <1>2 DEF Begin, Live, AnswerInv, HeldInv, IInv, TypeOK
  <2>2. ~ cancelled[c] /\ cancelled' = cancelled
    BY <1>2 DEF Begin, AnswerInv, HeldInv, IInv, HolderLives
  <2> QED
    BY <2>1, <2>2 DEF NoLeftover, WaitedFor
<1> QED
  BY <1>1, <1>2

LEMMA TurnStepWaitedFor == AnswerInv /\ TurnStep => WaitedFor'
<1> SUFFICES ASSUME AnswerInv, TurnStep PROVE WaitedFor'
  OBVIOUS
<1>1. NoLeftover
  BY LeftoverOver DEF TurnStep, Opened, OverBudget, BeginStep, Unblocked,
     StepEnds, StepFails, StopHookAnswers
<1>2. UNCHANGED compVars \/ \E c \in Compactions : Begin(c)
  BY DEF TurnStep, Opened, OverBudget, BeginStep, Unblocked, StepEnds,
     StepFails, StopHookAnswers, AfterStop, TurnOver
<1> QED
  BY <1>1, <1>2, NoLeftoverKept

LEMMA EnvironmentWaitedFor == AnswerInv /\ Patient /\ Environment => WaitedFor'
<1> SUFFICES ASSUME AnswerInv, Patient, Environment PROVE WaitedFor'
  OBVIOUS
<1>1. turn \in Turns /\ stage \in [Compactions -> Stages] /\ WaitedFor
  BY DEF AnswerInv, Answered, HeldInv, IInv, TypeOK
<1>2. ASSUME UNCHANGED compVars, UNCHANGED turn \/ ~ Active PROVE WaitedFor'
  BY <1>1, <1>2, WaitedForStutters, LeftoverOver, NoLeftoverKept DEF Active
<1>3. CASE \E i \in UserInputs : Prompt(i)
  BY <1>2, <1>3 DEF Prompt
<1>4. CASE \E i \in Inputs : Steer(i)
  BY <1>2, <1>4 DEF Steer, SteerIn
<1>5. CASE \E i \in SystemInputs : Notified(i) \/ IdleWake(i)
  BY <1>2, <1>5 DEF Notified, SteerIn, IdleWake
<1>6. CASE Cancel
  <2>1. turn'.phase = turn.phase /\ turn'.waitsFor = turn.waitsFor /\ UNCHANGED stage
    BY <1>1, <1>6 DEF Cancel, Turns
  <2>2. CASE /\ turn.phase = "blocked" /\ comp # 0 /\ comp = turn.waitsFor
             /\ CompCancelled
    BY <1>1, <2>1, <2>2 DEF CompCancelled, WaitedFor, Live
  <2>3. CASE UNCHANGED <<comp, cancelled>>
    BY <1>1, <2>1, <2>3, WaitedForStutters DEF compVars
  <2> QED
    BY <1>6, <2>2, <2>3 DEF Cancel
<1>7. ~ CancelCompaction
  BY DEF Patient, CancelCompaction
<1>8. CASE \E c \in Compactions : BeginManualCompaction(c)
  BY <1>8, LeftoverOver, NoLeftoverKept DEF BeginManualCompaction, Active
<1>9. CASE UserGoal \/ BackgroundEnds
  BY <1>2, <1>9 DEF UserGoal, BackgroundEnds
<1>10. CASE ToolChangesGoal \/ ToolMovesBackground
  BY <1>10, LeftoverOver, NoLeftoverKept DEF ToolChangesGoal, ToolMovesBackground
<1> QED
  BY <1>3, <1>4, <1>5, <1>6, <1>7, <1>8, <1>9, <1>10 DEF Environment

LEMMA CompactionStepWaitedFor ==
  ASSUME AnswerInv, Patient, NEW c \in Compactions, CompactionStep(c)
  PROVE  WaitedFor'
<1>1. /\ stage \in [Compactions -> Stages] /\ cancelled \in [Compactions -> BOOLEAN]
      /\ WaitedFor /\ Held
  BY DEF AnswerInv, Answered, HeldInv, IInv, TypeOK
<1>2. CASE SummaryApplied(c)
  BY <1>1, <1>2 DEF SummaryApplied, WaitedFor, Live
<1>3. ASSUME NEW d \in {"over", "failed"}, stage' = [stage EXCEPT ![c] = d],
             \A e \in Compactions : e # c => cancelled'[e] = cancelled[e],
             Finished
      PROVE  WaitedFor'
  <2>1. \A e \in Compactions : Live(e)' => Live(e) /\ cancelled'[e] = cancelled[e]
    BY <1>1, <1>3 DEF Live
  <2>2. UNCHANGED turn \/ ~ Active
    BY <1>3, FinishedTurn
  <2> QED
    BY <1>1, <2>1, <2>2 DEF WaitedFor, Active
<1>4. CASE SummaryLost(c)
  <2>1. PICK d \in {"over", "failed"} : stage' = [stage EXCEPT ![c] = d]
    BY <1>4 DEF SummaryLost
  <2>2. \A e \in Compactions : e # c => cancelled'[e] = cancelled[e]
    <3>1. CASE UNCHANGED cancelled
      BY <3>1
    <3>2. CASE ~ cancelled[c] /\ CompCancelled
      <4>1. comp = c
        BY <1>1, <1>4, <3>2 DEF SummaryLost, Held, Live
      <4> QED
        BY <1>1, <3>2, <4>1 DEF CompCancelled
    <3> QED
      BY <1>4, <3>1, <3>2 DEF SummaryLost, Patient
  <2> QED
    BY <1>3, <1>4, <2>1, <2>2 DEF SummaryLost
<1>5. CASE Reinjected(c)
  BY <1>3, <1>5 DEF Reinjected
<1> QED
  BY <1>2, <1>4, <1>5 DEF CompactionStep

\* Whatever is marked as waiting is in the buffer: what is launched leaves
\* both, what is flushed too.
LEMMA LaunchFirstWaits ==
  ASSUME NEW rest \in Seq(Inputs), rest # <<>>,
         NEW places \in [Inputs -> Places], NEW status, Waits(rest, places),
         Launch(Head(rest), Tail(rest), places, status)
  PROVE  Waits(buffer', place')
<1>1. /\ Head(rest) \in Inputs /\ Head(rest) = rest[1]
      /\ Tail(rest) \in Seq(Inputs) /\ Len(rest) \in Nat \ {0}
      /\ Len(Tail(rest)) = Len(rest) - 1
      /\ \A k \in 1 .. Len(Tail(rest)) : Tail(rest)[k] = rest[k + 1]
  BY HeadTailProperties, EmptySeq, LenProperties
<1>2. /\ buffer' = Tail(rest)
      /\ place' = [places EXCEPT ![Head(rest)] = "context"]
  BY DEF Launch
<1> SUFFICES ASSUME NEW i \in Inputs, place'[i] = "buffered"
             PROVE  \E k \in DOMAIN Tail(rest) : Tail(rest)[k] = i
  BY <1>2 DEF Waits
<1>3. i # rest[1] /\ places[i] = "buffered"
  BY <1>1, <1>2
<1>4. PICK k \in DOMAIN rest : rest[k] = i
  BY <1>3 DEF Waits
<1>5. k \in 1 .. Len(rest) /\ k # 1
  BY <1>3, <1>4, LenProperties
<1>6. k - 1 \in 1 .. Len(Tail(rest)) /\ (k - 1) + 1 = k
  BY <1>1, <1>5
<1> QED
  BY <1>1, <1>4, <1>6, LenProperties

LEMMA TurnOverWaits ==
  ASSUME NEW end, NEW rest \in Seq(Inputs), NEW places \in [Inputs -> Places],
         Waits(rest, places),
         TurnOver(end, rest, places) \/ Release(rest, places, "stopped", armed)
  PROVE  Waits(buffer', place')
<1>1. ASSUME NEW status, NEW arm, Release(rest, places, status, arm)
      PROVE  Waits(buffer', place')
  <2>1. CASE rest # <<>> /\ comp = 0
    BY <1>1, <2>1, LaunchFirstWaits DEF Release
  <2>2. CASE ~ (rest # <<>> /\ comp = 0)
    BY <1>1, <2>2 DEF Release
  <2> QED
    BY <2>1, <2>2
<1>2. CASE Continuation(rest, places)
  BY <1>2 DEF Continuation
<1> QED
  BY <1>1, <1>2 DEF TurnOver, OrdinaryOver, DrivenOver

LEMMA AppendWaits ==
  ASSUME AnswerInv, NEW i \in Inputs,
         place' = [place EXCEPT ![i] = "buffered"], buffer' = Append(buffer, i)
  PROVE  Waits(buffer', place')
<1>1. buffer \in Seq(Inputs) /\ place \in [Inputs -> Places]
  BY DEF AnswerInv, HeldInv, IInv, TypeOK
<1>2. Len(buffer) \in Nat /\ DOMAIN buffer = 1 .. Len(buffer)
      /\ DOMAIN buffer' = 1 .. Len(buffer) + 1
  BY <1>1, AppendProperties, LenProperties
<1> SUFFICES ASSUME NEW j \in Inputs, place'[j] = "buffered"
             PROVE  \E k \in DOMAIN buffer' : buffer'[k] = j
  BY DEF Waits
<1>3. CASE j = i
  <2>1. Len(buffer) + 1 \in DOMAIN buffer' /\ buffer'[Len(buffer) + 1] = i
    BY <1>1, <1>2, AppendProperties
  <2> QED
    BY <1>3, <2>1
<1>4. CASE j # i
  <2>1. PICK k \in DOMAIN buffer : buffer[k] = j
    BY <1>1, <1>4 DEF AnswerInv, Answered, Waits
  <2>2. k \in DOMAIN buffer' /\ buffer'[k] = buffer[k]
    BY <1>1, <1>2, <2>1, AppendProperties
  <2> QED
    BY <2>1, <2>2
<1> QED
  BY <1>3, <1>4

\* Stop keeps every notification: a strictly increasing choice of as many
\* positions as there are leaves none out.
LEMMA CancelWaits == AnswerInv /\ Cancel => Waits(buffer', place')
<1> SUFFICES ASSUME AnswerInv, Cancel,
                    NEW i \in Inputs, place'[i] = "buffered"
             PROVE  \E k \in DOMAIN buffer' : buffer'[k] = i
  BY DEF Waits
<1>1. /\ buffer \in Seq(Inputs) /\ place \in [Inputs -> Places]
      /\ Waits(buffer, place)
  BY DEF AnswerInv, Answered, HeldInv, IInv, TypeOK
<1>2. PICK order \in [1 .. Cardinality(Kept) -> Kept] :
        /\ \A m, n \in DOMAIN order : m < n => order[m] < order[n]
        /\ buffer' = [n \in DOMAIN order |-> buffer[order[n]]]
  BY DEF Cancel
<1>3. place[i] = "buffered" /\ i \notin UserInputs
  BY <1>1 DEF Cancel
<1>4. PICK k \in DOMAIN buffer : buffer[k] = i
  BY <1>1, <1>3 DEF Waits
<1>5. k \in Kept
  BY <1>3, <1>4 DEF Kept
<1>6. IsFiniteSet(Kept) /\ Cardinality(Kept) \in Nat
  <2>1. Len(buffer) \in Nat /\ DOMAIN buffer = 1 .. Len(buffer)
    BY <1>1, LenProperties
  <2>2. 1 \in Int /\ Len(buffer) \in Int
    BY <2>1
  <2>3. IsFiniteSet(1 .. Len(buffer)) /\ Kept \subseteq 1 .. Len(buffer)
    BY <2>1, <2>2, FS_Interval DEF Kept
  <2> QED
    BY <2>3, FS_Subset, FS_CardinalityType
<1>7. order \in Injection(1 .. Cardinality(Kept), Kept)
  <2>1. \A n \in DOMAIN order : order[n] \in Int
    BY <1>1, LenProperties DEF Kept
  <2>2. \A m, n \in DOMAIN order : order[m] = order[n] => m = n
    BY <1>2, <1>6, <2>1
  <2> QED
    BY <2>2 DEF Injection, IsInjective
<1>8. Cardinality(1 .. Cardinality(Kept)) = Cardinality(Kept)
  BY <1>6, FS_Interval
<1>9. order \in Surjection(1 .. Cardinality(Kept), Kept)
  BY <1>6, <1>7, <1>8, FS_Injection
<1>10. PICK n \in 1 .. Cardinality(Kept) : order[n] = k
  BY <1>5, <1>9 DEF Surjection
<1> QED
  BY <1>2, <1>4, <1>10

LEMMA StepWaits == AnswerInv /\ [Next]_vars => Waits(buffer', place')
<1> SUFFICES ASSUME AnswerInv, [Next]_vars PROVE Waits(buffer', place')
  OBVIOUS
<1>1. /\ buffer \in Seq(Inputs) /\ place \in [Inputs -> Places]
      /\ <<>> \in Seq(Inputs) /\ Flushed \in [Inputs -> Places]
      /\ Waits(buffer, place)
  BY FlushedType, TypeParts DEF AnswerInv, Answered, HeldInv, IInv, RestOK
<1>2. \A b : Waits(b, Flushed)
  BY DEF Waits, Flushed
<1>3. ASSUME UNCHANGED inputVars PROVE Waits(buffer', place')
  BY <1>1, <1>3 DEF inputVars
<1>4. ASSUME NEW i \in Inputs, NEW status, Launch(i, buffer, place, status)
      PROVE  Waits(buffer', place')
  BY <1>1, <1>4 DEF Launch, Waits
<1>5. \A end : TurnOver(end, buffer, place) \/ TurnOver(end, <<>>, Flushed)
                 => Waits(buffer', place')
  BY <1>1, <1>2, TurnOverWaits
<1>6. ASSUME NEW local, Request(local) PROVE Waits(buffer', place')
  BY <1>6 DEF Request, Waits, Flushed
<1>7. CASE TurnStep
  <2>1. CASE Opened
    BY <1>3, <1>5, <2>1 DEF Opened
  <2>2. CASE OverBudget
    BY <1>1, <2>2, TurnOverWaits DEF OverBudget
  <2>3. CASE BeginStep
    BY <1>3, <1>5, <1>6, <2>3 DEF BeginStep
  <2>4. CASE Unblocked
    BY <1>3, <1>5, <1>6, <2>4 DEF Unblocked
  <2>5. CASE StepFails
    BY <1>3, <1>5, <2>5 DEF StepFails
  <2>6. CASE StepEnds
    BY <1>2, <1>3, <1>5, <2>6 DEF StepEnds, AfterStop
  <2>7. CASE StopHookAnswers
    BY <1>3, <1>5, <2>7 DEF StopHookAnswers
  <2> QED
    BY <1>7, <2>1, <2>2, <2>3, <2>4, <2>5, <2>6, <2>7 DEF TurnStep
<1>8. ASSUME NEW i \in Inputs, SteerIn(i) PROVE Waits(buffer', place')
  BY <1>4, <1>8, AppendWaits DEF SteerIn
<1>9. CASE Environment
  <2>1. ASSUME NEW i \in UserInputs, Prompt(i) PROVE Waits(buffer', place')
    <3>1. CASE place' = [place EXCEPT ![i] = "refused"] /\ UNCHANGED buffer
      BY <1>1, <3>1 DEF Waits
    <3> QED
      BY <1>4, <2>1, <3>1, AppendWaits DEF Prompt
  <2>2. ASSUME NEW i \in SystemInputs, IdleWake(i) PROVE Waits(buffer', place')
    BY <1>3, <1>4, <2>2, AppendWaits DEF IdleWake
  <2>3. CASE CancelCompaction \/ UserGoal \/ BackgroundEnds \/ ToolChangesGoal
             \/ ToolMovesBackground \/ \E c \in Compactions : BeginManualCompaction(c)
    BY <1>3, <2>3 DEF CancelCompaction, UserGoal, BackgroundEnds,
       ToolChangesGoal, ToolMovesBackground, BeginManualCompaction
  <2> QED
    BY <1>8, <1>9, <2>1, <2>2, <2>3, CancelWaits DEF Environment, Steer, Notified
<1>10. ASSUME NEW c \in Compactions, CompactionStep(c)
       PROVE  Waits(buffer', place')
  <2>1. CASE SummaryApplied(c)
    BY <1>3, <2>1 DEF SummaryApplied
  <2>2. CASE Finished
    BY <1>1, <1>2, <1>3, <2>2, LaunchFirstWaits DEF Finished
  <2> QED
    BY <1>10, <2>1, <2>2 DEF CompactionStep, SummaryLost, Reinjected
<1>11. CASE UNCHANGED vars
  BY <1>3, <1>11 DEF vars
<1> QED
  BY <1>7, <1>9, <1>10, <1>11 DEF Next

\* What has reached the history was asked: until the next input a turn that
\* asked the model, and an agent whose last turn the answer ended, owe nothing.
Heard == Taken /\ NoUnansweredInput

\* A turn that opens, steps or waits may still owe.
LEMMA OnTheWayHeard ==
  turn'.phase \in {"opening", "step", "blocked"} => Heard'
  BY DEF Heard, Taken, NoUnansweredInput, Active

LEMMA LaunchHeard ==
  \A i, rest, places, status : Launch(i, rest, places, status) => Heard'
  BY OnTheWayHeard DEF Launch, Opening, NoTurn

LEMMA TurnOverHeard ==
  ASSUME NEW end, NEW rest, NEW places,
         end = "completed" => NoneLeft(places),
         \/ TurnOver(end, rest, places)
         \/ /\ Release(rest, places, "stopped", armed)
            /\ lastEnd' = end
  PROVE  Heard'
<1>1. lastEnd' = end
  BY DEF TurnOver
<1>2. ASSUME NEW status, NEW arm, Release(rest, places, status, arm)
      PROVE  Heard'
  <2>1. CASE turn' = NoTurn /\ place' = places
    BY <1>1, <2>1 DEF NoTurn, Heard, Taken, NoUnansweredInput, NoneLeft
  <2> QED
    BY <1>2, <2>1, LaunchHeard DEF Release
<1>3. CASE Continuation(rest, places)
  BY <1>3, OnTheWayHeard DEF Continuation, Opening, NoTurn
<1> QED
  BY <1>2, <1>3 DEF TurnOver, OrdinaryOver, DrivenOver

\* An input that arrives while nobody is launched waits or is refused.
LEMMA StaysHeard ==
  ASSUME AnswerInv, turn'.phase = turn.phase, UNCHANGED lastEnd,
         \A i \in Inputs : place'[i] = "context" => place[i] = "context"
  PROVE  Heard'
  BY DEF AnswerInv, Answered, Heard, Taken, NoUnansweredInput, NoneLeft, Active

LEMMA RequestHeard ==
  ASSUME turn \in Turns, NEW local \in Turns, Request(local)
  PROVE  Heard'
<1>1. turn'.phase = "call"
  BY DEF Request, Turns
<1>2. NoneLeft(place')
  BY DEF Request, NoneLeft, Flushed
<1> QED
  BY <1>1, <1>2 DEF Heard, Taken, NoUnansweredInput, Active

LEMMA AfterStopHeard ==
  ASSUME AnswerInv, Patient, turn.phase = "call", NEW local \in Turns,
         NEW limited \in BOOLEAN, AfterStop(local, limited)
  PROVE  Heard'
<1>1. Taken /\ Waits(buffer, place)
  BY DEF AnswerInv, Answered
<1>2. \A steps : StepsLeft(steps)
  BY DEF StepsLeft, Patient
<1>3. \A l \in Turns : turn' = Past(l, "step") => Heard'
  BY OnTheWayHeard DEF Past, Turns
<1>4. /\ [local EXCEPT !.outcome = FALSE, !.outcomeUsed = TRUE] \in Turns
      /\ [local EXCEPT !.gate = FALSE] \in Turns
  BY DEF Turns
<1>5. [local EXCEPT !.limits = @ + 1] \in Turns
  <2>1. local.limits + 1 \in Nat
    BY DEF Turns
  <2> QED
    BY <2>1 DEF Turns
<1>6. ASSUME ~ FlushedSteer PROVE NoneLeft(Flushed) /\ NoneLeft(place)
  <2>1. buffer = <<>>
    BY <1>6 DEF FlushedSteer
  <2>2. NoneLeft(place) /\ \A i \in Inputs : place[i] # "buffered"
    BY <1>1, <2>1 DEF Taken, Waits
  <2> QED
    BY <2>2 DEF NoneLeft, Flushed
<1>7. CASE ~ FlushedSteer /\ TurnOver(local.finish, <<>>, Flushed)
  BY <1>6, <1>7, TurnOverHeard
<1>8. CASE /\ ~ FlushedSteer
           /\ turn' = Past(local, "stopHook")
           /\ UNCHANGED inputVars
  <2>1. turn'.phase = "stopHook" /\ place' = place
    BY <1>8 DEF Past, Turns, inputVars
  <2> QED
    BY <1>6, <1>8, <2>1 DEF Heard, Taken, NoUnansweredInput, Active
<1> QED
  BY <1>2, <1>3, <1>4, <1>5, <1>7, <1>8 DEF AfterStop

LEMMA TurnStepHeard == AnswerInv /\ Patient /\ TurnStep => Heard'
<1> SUFFICES ASSUME AnswerInv, Patient, TurnStep PROVE Heard'
  OBVIOUS
<1>1. turn \in Turns /\ Taken
  BY DEF AnswerInv, Answered, HeldInv, IInv, TypeOK
<1>2. \A end \in {"cancelled", "failed", "hookBlocked"} :
        TurnOver(end, buffer, place) => Heard'
  BY TurnOverHeard
<1>3. CASE Opened
  BY <1>1, <1>2, <1>3, OnTheWayHeard DEF Opened, Turns
<1>4. CASE OverBudget
  BY <1>4, TurnOverHeard DEF OverBudget
<1>5. CASE BeginStep
  <2>1. [turn EXCEPT !.steps = Counted(@)] \in Turns
    BY <1>1 DEF Turns, Counted
  <2>2. \A c : turn' = [[turn EXCEPT !.steps = Counted(@)] EXCEPT
                          !.phase = "blocked", !.waitsFor = c, !.retrying = FALSE]
                 => Heard'
    BY <2>1, OnTheWayHeard DEF Turns
  <2> QED
    BY <1>1, <1>2, <1>5, <2>1, <2>2, RequestHeard DEF BeginStep
<1>6. CASE Unblocked
  BY <1>1, <1>2, <1>6, RequestHeard, OnTheWayHeard DEF Unblocked, Turns
<1>7. CASE StepFails
  BY <1>1, <1>2, <1>7, OnTheWayHeard DEF StepFails, Turns
<1>8. CASE StepEnds
  <2> DEFINE sealed == [turn EXCEPT !.overflows = 0]
             reviewed == [sealed EXCEPT !.gate = TRUE, !.gateUsed = TRUE]
  <2>1. sealed \in Turns /\ reviewed \in Turns
    BY <1>1 DEF Turns
  <2>2. \A local \in Turns : \A end \in {"completed", "filtered"} :
          [local EXCEPT !.finish = end] \in Turns
    BY DEF Turns
  <2>3. turn' = Past(sealed, "step") => Heard'
    BY <2>1, OnTheWayHeard DEF Past, Turns
  <2>4. turn.phase = "call"
    BY <1>8 DEF StepEnds
  <2>5. \A local \in Turns : \A limited \in BOOLEAN :
          AfterStop(local, limited) => Heard'
    BY <2>4, AfterStopHeard
  <2> QED
    BY <1>2, <1>8, <2>1, <2>2, <2>3, <2>5 DEF StepEnds
<1>9. CASE StopHookAnswers
  <2>1. NoneLeft(place)
    BY <1>1, <1>9 DEF StopHookAnswers, Taken
  <2>2. turn' = [turn EXCEPT !.phase = "step", !.stopUsed = TRUE] => Heard'
    BY <1>1, OnTheWayHeard DEF Turns
  <2> QED
    BY <1>2, <1>9, <2>1, <2>2, TurnOverHeard DEF StopHookAnswers
<1> QED
  BY <1>3, <1>4, <1>5, <1>6, <1>7, <1>8, <1>9 DEF TurnStep

LEMMA EnvironmentHeard == AnswerInv /\ Environment => Heard'
<1> SUFFICES ASSUME AnswerInv, Environment PROVE Heard'
  OBVIOUS
<1>1. turn \in Turns /\ place \in [Inputs -> Places]
  BY DEF AnswerInv, HeldInv, IInv, TypeOK
<1>2. ASSUME NEW i \in Inputs, NEW to \in {"buffered", "refused"},
             place' = [place EXCEPT ![i] = to], UNCHANGED <<turn, lastEnd>>
      PROVE  Heard'
  BY <1>1, <1>2, StaysHeard
<1>3. ASSUME NEW i \in Inputs, SteerIn(i) PROVE Heard'
  BY <1>2, <1>3, LaunchHeard DEF SteerIn
<1>4. ASSUME NEW i \in UserInputs, Prompt(i) PROVE Heard'
  BY <1>2, <1>4, LaunchHeard DEF Prompt
<1>5. ASSUME NEW i \in SystemInputs, IdleWake(i) PROVE Heard'
  BY <1>1, <1>2, <1>5, LaunchHeard, StaysHeard DEF IdleWake, inputVars
<1>6. CASE Cancel
  BY <1>1, <1>6, StaysHeard DEF Cancel, Turns
<1>7. CASE CancelCompaction \/ UserGoal \/ BackgroundEnds \/ ToolChangesGoal
           \/ ToolMovesBackground \/ \E c \in Compactions : BeginManualCompaction(c)
  BY <1>1, <1>7, StaysHeard DEF CancelCompaction, UserGoal, BackgroundEnds,
     ToolChangesGoal, ToolMovesBackground, BeginManualCompaction, inputVars, Turns
<1> QED
  BY <1>3, <1>4, <1>5, <1>6, <1>7 DEF Environment, Steer, Notified

\* A worker that ends writes into the history of a turn only while that turn
\* waits for it.
LEMMA CompactionStepHeard ==
  ASSUME AnswerInv, NEW c \in Compactions, CompactionStep(c)
  PROVE  Heard'
<1>1. turn \in Turns
  BY DEF AnswerInv, HeldInv, IInv, TypeOK
<1>2. turn.phase \in {"idle", "blocked"}
  BY FreeSettled DEF CompactionStep, SummaryApplied, SummaryLost, Reinjected,
     Settled, Live
<1>3. UNCHANGED lastEnd
  BY DEF CompactionStep, SummaryApplied, SummaryLost, Reinjected
<1>4. CASE UNCHANGED <<turn, place>>
  BY <1>3, <1>4, StaysHeard
<1>5. CASE Active /\ UNCHANGED turn
  BY <1>2, <1>5, OnTheWayHeard DEF Active
<1> QED
  BY <1>4, <1>5, LaunchHeard DEF CompactionStep, SummaryApplied, SummaryLost,
     Reinjected, Finished, inputVars

LEMMA StepAnswered == AnswerInv /\ Patient /\ [Next]_vars => Answered'
<1> SUFFICES ASSUME AnswerInv, Patient, [Next]_vars PROVE Answered'
  OBVIOUS
<1>1. WaitedFor'
  BY TurnStepWaitedFor, EnvironmentWaitedFor, CompactionStepWaitedFor,
     WaitedForStutters DEF Next, vars, AnswerInv, Answered
<1>2. Heard'
  BY TurnStepHeard, EnvironmentHeard, CompactionStepHeard, StaysHeard
     DEF Next, vars, inputVars
<1> QED
  BY <1>1, <1>2, StepWaits DEF Answered, Heard, Waits

LEMMA SpecAnswerInv == ASSUME Patient PROVE Spec => []AnswerInv
<1>1. Init => Answered
  BY DEF Init, NoTurn, Answered, WaitedFor, Waits, Taken, NoneLeft,
     NoUnansweredInput, Live
<1>2. Init => AnswerInv
  BY <1>1, InitIInv, InitHeld DEF AnswerInv, HeldInv
<1>3. AnswerInv /\ [Next]_vars => AnswerInv'
  BY StepIInv, StepHeld, StepAnswered, PatientIsInTime DEF AnswerInv, HeldInv
<1> QED
  BY <1>2, <1>3, PTL DEF Spec

\* A turn that ends with the model's answer leaves no input behind that no
\* request has carried (flushSteerBuffer in shouldContinueAfterStop), for any
\* number of inputs, turns and compactions, as long as nobody but a turn
\* cancels a compaction and no step limit cuts a turn short.  Without the first
\* condition TLC finds such an input.
THEOREM AllAnswered == ASSUME Patient PROVE Spec => []NoUnansweredInput
<1>1. AnswerInv => NoUnansweredInput
  BY DEF AnswerInv, Answered
<1> QED
  BY <1>1, SpecAnswerInv, PTL

-----------------------------------------------------------------------------
(* No goal is forgotten                                                    *)

\* Something other than the user's own next input will see to an active goal:
\* its reason to be idle, or a notification that waits in the buffer, which
\* Stop does not discard.
Cause ==
  \/ external \/ lastEnd \in Interrupted
  \/ armed /\ background = "running"
  \/ background = "notifying"
  \/ Kept # {}
Pursued == ~ Active /\ goal = "active" => Cause

PursuedInv == IInv /\ Pursued

LEMMA LaunchPursued ==
  \A i, rest, places, status : Launch(i, rest, places, status) => Pursued'
  BY DEF Launch, Opening, NoTurn, Pursued, Active

\* A turn that ends with the goal active was interrupted, or has armed the
\* timer for background work.
LEMMA TurnOverPursued ==
  ASSUME NEW end, NEW rest, NEW places, TurnOver(end, rest, places)
  PROVE  Pursued'
<1>1. lastEnd' = end /\ background' = background
  BY DEF TurnOver
<1>2. ASSUME NEW status, NEW arm, Release(rest, places, status, arm),
             status = "active" => \/ end \in Interrupted
                                  \/ arm = TRUE /\ background = "running"
      PROVE  Pursued'
  <2>1. CASE goal' = status /\ armed' = arm
    BY <1>1, <1>2, <2>1 DEF Pursued, Cause
  <2> QED
    BY <1>2, <2>1, LaunchPursued DEF Release
<1>3. CASE Continuation(rest, places)
  BY <1>3 DEF Continuation, Opening, NoTurn, Pursued, Active
<1>4. Parked # "active"
  BY DEF Parked
<1>5. CASE turn.driving
  <2>1. DrivenOver(end, rest, places)
    BY <1>5 DEF TurnOver
  <2> QED
    BY <1>2, <1>3, <1>4, <2>1 DEF DrivenOver
<1>6. CASE ~ turn.driving
  <2>1. OrdinaryOver(end, rest, places)
    BY <1>6 DEF TurnOver
  <2> QED
    BY <1>2, <1>3, <2>1 DEF OrdinaryOver
<1> QED
  BY <1>5, <1>6

\* Arming or an arrival apart, an idle agent keeps its reason.
LEMMA CauseKept ==
  ASSUME PursuedInv, turn'.phase = turn.phase,
         UNCHANGED <<lastEnd, goal, external, armed>>,
         \/ UNCHANGED <<buffer, background>>
         \/ UNCHANGED background /\ (Kept # {} => Kept' # {})
         \/ background' = "notifying"
  PROVE  Pursued'
<1>1. UNCHANGED buffer => Kept' = Kept
  BY DEF Kept
<1> QED
  BY <1>1 DEF PursuedInv, Pursued, Cause, Active

LEMMA AppendKept ==
  ASSUME IInv, NEW i \in Inputs, buffer' = Append(buffer, i)
  PROVE  /\ Kept # {} => Kept' # {}
         /\ i \in SystemInputs => Kept' # {}
<1>1. buffer \in Seq(Inputs)
  BY DEF IInv, TypeOK
<1>2. Len(buffer) \in Nat /\ DOMAIN buffer = 1 .. Len(buffer)
      /\ DOMAIN buffer' = 1 .. Len(buffer) + 1
  BY <1>1, AppendProperties, LenProperties
<1>3. ASSUME NEW k \in Kept PROVE k \in Kept'
  <2>1. k \in DOMAIN buffer' /\ buffer'[k] = buffer[k]
    BY <1>1, <1>2, <1>3, AppendProperties DEF Kept
  <2> QED
    BY <2>1 DEF Kept
<1>4. ASSUME i \in SystemInputs PROVE Len(buffer) + 1 \in Kept'
  <2>1. Len(buffer) + 1 \in DOMAIN buffer' /\ buffer'[Len(buffer) + 1] = i
    BY <1>1, <1>2, AppendProperties
  <2> QED
    BY <1>4, <2>1, InputsAssumption DEF Kept
<1> QED
  BY <1>3, <1>4

LEMMA TurnStepPursued == PursuedInv /\ TurnStep => Pursued'
<1> SUFFICES ASSUME PursuedInv, TurnStep PROVE Pursued'
  OBVIOUS
<1>1. turn \in Turns
  BY DEF PursuedInv, IInv, TypeOK
<1>2. turn'.phase # "idle" => Pursued'
  BY DEF Pursued, Active
<1>3. \A end, rest, places : TurnOver(end, rest, places) => Pursued'
  BY TurnOverPursued
<1>4. ASSUME NEW local \in Turns, NEW limited \in BOOLEAN,
             AfterStop(local, limited)
      PROVE  Pursued'
  <2>1. \A l \in Turns : \A phase \in {"step", "stopHook"} :
          turn' = Past(l, phase) => turn'.phase # "idle"
    BY DEF Past, Turns
  <2>2. [local EXCEPT !.limits = @ + 1] \in Turns
    <3>1. local.limits + 1 \in Nat
      BY DEF Turns
    <3> QED
      BY <3>1 DEF Turns
  <2>3. /\ [local EXCEPT !.outcome = FALSE, !.outcomeUsed = TRUE] \in Turns
        /\ [local EXCEPT !.gate = FALSE] \in Turns
    BY DEF Turns
  <2> QED
    BY <1>2, <1>3, <1>4, <2>1, <2>2, <2>3 DEF AfterStop
<1>5. CASE Opened
  BY <1>1, <1>2, <1>3, <1>5 DEF Opened, Turns
<1>6. CASE OverBudget
  <2>1. CASE goal' = "stopped"
    BY <2>1 DEF Pursued
  <2> QED
    BY <1>6, <2>1, LaunchPursued DEF OverBudget, Release
<1>7. \A local \in Turns : Request(local) => turn'.phase # "idle"
  BY DEF Request, Turns
<1>8. CASE BeginStep
  <2>1. [turn EXCEPT !.steps = Counted(@)] \in Turns
    BY <1>1 DEF Turns, Counted
  <2>2. \A c : turn' = [[turn EXCEPT !.steps = Counted(@)] EXCEPT
                          !.phase = "blocked", !.waitsFor = c, !.retrying = FALSE]
                 => turn'.phase # "idle"
    BY <2>1 DEF Turns
  <2> QED
    BY <1>2, <1>3, <1>7, <1>8, <2>1, <2>2 DEF BeginStep
<1>9. CASE Unblocked
  BY <1>1, <1>2, <1>3, <1>7, <1>9 DEF Unblocked, Turns
<1>10. CASE StepFails
  BY <1>1, <1>2, <1>3, <1>10 DEF StepFails, Turns
<1>11. CASE StepEnds
  <2> DEFINE sealed == [turn EXCEPT !.overflows = 0]
             reviewed == [sealed EXCEPT !.gate = TRUE, !.gateUsed = TRUE]
  <2>1. sealed \in Turns /\ reviewed \in Turns
    BY <1>1 DEF Turns
  <2>2. \A local \in Turns : \A end \in {"completed", "filtered"} :
          [local EXCEPT !.finish = end] \in Turns
    BY DEF Turns
  <2>3. turn' = Past(sealed, "step") => turn'.phase # "idle"
    BY <2>1 DEF Past, Turns
  <2> QED
    BY <1>2, <1>3, <1>4, <1>11, <2>1, <2>2, <2>3 DEF StepEnds
<1>12. CASE StopHookAnswers
  BY <1>1, <1>2, <1>3, <1>12 DEF StopHookAnswers, Turns
<1> QED
  BY <1>5, <1>6, <1>8, <1>9, <1>10, <1>11, <1>12 DEF TurnStep

\* Stop keeps a notification that waits.
LEMMA CancelPursued == PursuedInv /\ Cancel => Pursued'
<1> SUFFICES ASSUME PursuedInv, Cancel PROVE Pursued'
  OBVIOUS
<1>1. buffer \in Seq(Inputs) /\ turn \in Turns
  BY DEF PursuedInv, IInv, TypeOK
<1>2. PICK order \in [1 .. Cardinality(Kept) -> Kept] :
        buffer' = [n \in DOMAIN order |-> buffer[order[n]]]
  BY DEF Cancel
<1>3. ASSUME Kept # {} PROVE Kept' # {}
  <2>1. Len(buffer) \in Nat /\ DOMAIN buffer = 1 .. Len(buffer)
    BY <1>1, LenProperties
  <2>2. 1 \in Int /\ Len(buffer) \in Int
    BY <2>1
  <2>3. IsFiniteSet(1 .. Len(buffer)) /\ Kept \subseteq 1 .. Len(buffer)
    BY <2>1, <2>2, FS_Interval DEF Kept
  <2>4. IsFiniteSet(Kept)
    BY <2>3, FS_Subset
  <2>5. Cardinality(Kept) \in Nat \ {0}
    BY <1>3, <2>4, FS_CardinalityType, FS_EmptySet
  <2>6. 1 \in DOMAIN order /\ order[1] \in Kept
    BY <2>5
  <2>7. 1 \in DOMAIN buffer' /\ buffer'[1] = buffer[order[1]]
    BY <1>2, <2>6
  <2>8. 1 \in Kept'
    BY <2>6, <2>7 DEF Kept
  <2> QED
    BY <2>8
<1>4. turn'.phase = turn.phase
  BY <1>1 DEF Cancel, Turns
<1> QED
  BY <1>3, <1>4, CauseKept DEF Cancel, goalVars

LEMMA EnvironmentPursued == PursuedInv /\ Environment => Pursued'
<1> SUFFICES ASSUME PursuedInv, Environment PROVE Pursued'
  OBVIOUS
<1>1. turn \in Turns /\ IInv /\ Pursued
  BY DEF PursuedInv, IInv, TypeOK
<1>2. ASSUME NEW i \in Inputs, SteerIn(i), UNCHANGED background \/ i \in SystemInputs
      PROVE  Pursued'
  <2>1. CASE buffer' = Append(buffer, i)
             /\ UNCHANGED <<turn, lastEnd, goal, external, armed>>
    <3>1. CASE UNCHANGED background
      BY <1>1, <2>1, <3>1, AppendKept, CauseKept
    <3>2. CASE i \in SystemInputs
      BY <1>1, <2>1, <3>2, AppendKept DEF Pursued, Cause
    <3> QED
      BY <1>2, <3>1, <3>2
  <2> QED
    BY <1>2, <2>1, LaunchPursued DEF SteerIn
<1>3. ASSUME NEW i \in UserInputs, Prompt(i) PROVE Pursued'
  <2>1. CASE buffer' = Append(buffer, i)
             /\ UNCHANGED <<turn, lastEnd, goal, external, armed, background>>
    BY <1>1, <2>1, AppendKept, CauseKept
  <2>2. CASE UNCHANGED <<turn, buffer, lastEnd, goal, external, armed, background>>
    BY <2>2, CauseKept
  <2> QED
    BY <1>3, <2>1, <2>2, LaunchPursued DEF Prompt
<1>4. ASSUME NEW i \in SystemInputs, IdleWake(i) PROVE Pursued'
  <2>1. CASE goal # "active" /\ goal' = goal
    BY <2>1 DEF Pursued
  <2>2. CASE /\ background # "running"
             /\ UNCHANGED <<turn, lastEnd, inputVars, goal, external, background>>
    <3>1. Kept' = Kept
      BY <2>2 DEF Kept, inputVars
    <3> QED
      BY <1>1, <2>2, <3>1 DEF Pursued, Cause, Active
  <2>3. CASE buffer' = Append(buffer, i)
    BY <1>1, <2>3, AppendKept DEF Pursued, Cause
  <2> QED
    BY <1>4, <2>1, <2>2, <2>3, LaunchPursued DEF IdleWake
<1>5. CASE CancelCompaction \/ \E c \in Compactions : BeginManualCompaction(c)
  BY <1>5, CauseKept DEF CancelCompaction, BeginManualCompaction, inputVars,
     goalVars
<1>6. CASE UserGoal
  BY <1>6 DEF UserGoal, Pursued, Cause
<1>7. CASE BackgroundEnds
  BY <1>7, CauseKept DEF BackgroundEnds
<1>8. CASE ToolChangesGoal \/ ToolMovesBackground
  BY <1>1, <1>8 DEF ToolChangesGoal, ToolMovesBackground, Pursued, Active, Turns
<1> QED
  BY <1>2, <1>3, <1>4, <1>5, <1>6, <1>7, <1>8, CancelPursued
     DEF Environment, Steer, Notified

LEMMA CompactionStepPursued ==
  ASSUME PursuedInv, NEW c \in Compactions, CompactionStep(c)
  PROVE  Pursued'
<1>1. UNCHANGED <<lastEnd, background>>
  BY DEF CompactionStep, SummaryApplied, SummaryLost, Reinjected, goalVars
<1>2. CASE UNCHANGED <<turn, inputVars, goal, external, armed>>
  BY <1>1, <1>2, CauseKept DEF inputVars
<1>3. CASE Active /\ UNCHANGED turn
  BY <1>3 DEF Pursued, Active
<1> QED
  BY <1>2, <1>3, LaunchPursued DEF CompactionStep, SummaryApplied, SummaryLost,
     Reinjected, Finished, goalVars

LEMMA StepPursued == PursuedInv /\ [Next]_vars => Pursued'
  BY TurnStepPursued, EnvironmentPursued, CompactionStepPursued, CauseKept
     DEF Next, vars, inputVars, goalVars

LEMMA SpecPursuedInv == Spec => []PursuedInv
<1>1. Init => PursuedInv
  BY InitIInv DEF Init, PursuedInv, Pursued
<1>2. PursuedInv /\ [Next]_vars => PursuedInv'
  BY StepIInv, StepPursued DEF PursuedInv
<1> QED
  BY <1>1, <1>2, PTL DEF Spec

\* An active goal is never left with nobody to pursue it but the user, apart
\* from an ordinary turn that was interrupted (driveGoal, turnWorker, cancel,
\* armGoalBackgroundIdleWake): for any inputs, however compactions are
\* cancelled and fail.
THEOREM GoalsPursued == Spec => []GoalPursued
<1>1. PursuedInv => GoalPursued
  BY DEF PursuedInv, IInv, NoStrandedInput, Pursued, Cause, Kept, GoalPursued
<1> QED
  BY <1>1, SpecPursuedInv, PTL

=============================================================================
