------------------------------ MODULE Brokers -------------------------------
(***************************************************************************)
(* The approvals and questions that agents put to the user through the     *)
(* server: Permission.requestToolApproval and AskUserQuestion at one end   *)
(* (packages/agent-core/src/agent/permission/index.ts, tools/builtin/      *)
(* collaboration/ask-user.ts), the in-process RPC between (rpc/client.ts), *)
(* ApprovalService and QuestionService at the other                        *)
(* (packages/server/src/services/approval, .../question).                  *)
(*                                                                         *)
(* The signal of a turn reaches the broker of questions but not that of    *)
(* approvals, which listens for the end of the turn instead.               *)
(***************************************************************************)
EXTENDS Integers, Sequences

CONSTANTS
    Agent,       \* the agents of a session
    MaxTurns     \* bound: turns of an agent

VARIABLES
    turn,        \* per agent: its turn
    phase,       \* per agent: "idle", "runs", "asks", "stopping"
    wire,        \* what the RPC carries to the server, in order
    approvals,   \* _pending of the approval broker: [agent, turn]
    questions,   \* _pending of the question broker
    over         \* per agent: the last turn whose end was delivered

vars == << turn, phase, wire, approvals, questions, over >>

Entry == [agent: Agent, turn: 1..MaxTurns]

\* "asks": a tool call of the turn waits for the user; "stopping": the turn was
\* aborted and its end is not published yet.
TypeOK ==
    /\ turn \in [Agent -> 0..MaxTurns]
    /\ phase \in [Agent -> {"idle", "runs", "asks", "stopping"}]
    /\ wire \in Seq([kind: {"approval", "question", "completed", "failed", "cancelled"},
                     agent: Agent, turn: 1..MaxTurns])
    /\ {approvals, questions} \subseteq SUBSET Entry
    /\ over \in [Agent -> 0..MaxTurns]

Init ==
    /\ turn = [a \in Agent |-> 0]
    /\ phase = [a \in Agent |-> "idle"]
    /\ wire = << >>
    /\ approvals = {} /\ questions = {}
    /\ over = [a \in Agent |-> 0]
-----------------------------------------------------------------------------
Current(a) == [agent |-> a, turn |-> turn[a]]

Sent(kind, a) == Append(wire, [kind |-> kind, agent |-> a, turn |-> turn[a]])

StartTurn(a) ==
    /\ phase[a] = "idle"
    /\ turn[a] < MaxTurns
    /\ turn' = [turn EXCEPT ![a] = @ + 1]
    /\ phase' = [phase EXCEPT ![a] = "runs"]
    /\ UNCHANGED << wire, approvals, questions, over >>

\* A tool call needs an approval, or is a question.
Ask(a) ==
    /\ phase[a] = "runs"
    /\ \E kind \in {"approval", "question"}: wire' = Sent(kind, a)
    /\ phase' = [phase EXCEPT ![a] = "asks"]
    /\ UNCHANGED << turn, approvals, questions, over >>

\* Mutant of Abort: the question broker does not listen to the signal.
Abort_Unheard(a) ==
    /\ phase[a] \in {"runs", "asks"}
    /\ phase' = [phase EXCEPT ![a] = "stopping"]
    /\ UNCHANGED << turn, wire, approvals, questions, over >>

\* The signal of the turn: the call that waits is given up, and the listener
\* of a pending question dismisses it.
Abort(a) ==
    /\ phase[a] \in {"runs", "asks"}
    /\ phase' = [phase EXCEPT ![a] = "stopping"]
    /\ questions' = questions \ {Current(a)}
    /\ UNCHANGED << turn, wire, approvals, over >>

\* The turn.ended event.
EndTurn(a) ==
    /\ \/ phase[a] = "runs" /\ \E reason \in {"completed", "failed"}: wire' = Sent(reason, a)
       \/ phase[a] = "stopping" /\ wire' = Sent("cancelled", a)
    /\ phase' = [phase EXCEPT ![a] = "idle"]
    /\ UNCHANGED << turn, approvals, questions, over >>

\* A request whose signal has been aborted by the time it arrives is not made.
Aborted(message) == phase[message.agent] # "asks" \/ turn[message.agent] # message.turn

Arrives ==
    /\ wire # << >>
    /\ wire' = Tail(wire)
    /\ LET message == Head(wire)
           entry == [agent |-> message.agent, turn |-> message.turn]
       IN  \/ /\ message.kind \in {"approval", "question"} /\ Aborted(message)
              /\ UNCHANGED << approvals, questions, over >>
           \/ /\ message.kind = "approval" /\ ~Aborted(message)
              /\ approvals' = approvals \cup {entry}
              /\ UNCHANGED << questions, over >>
           \/ /\ message.kind = "question" /\ ~Aborted(message)
              /\ questions' = questions \cup {entry}
              /\ UNCHANGED << approvals, over >>
           \/ /\ message.kind \in {"completed", "failed", "cancelled"}
              /\ approvals' = IF message.kind = "completed" THEN approvals
                              ELSE {e \in approvals: e.agent # message.agent}
              /\ over' = [over EXCEPT ![message.agent] = message.turn]
              /\ UNCHANGED questions
    /\ UNCHANGED << turn, phase >>

\* The user answers; the answer is of use to a call that still waits.
Resolve ==
    /\ \E entry \in approvals \cup questions:
          /\ approvals' = approvals \ {entry}
          /\ questions' = questions \ {entry}
          /\ phase' = [phase EXCEPT ![entry.agent] =
                           IF @ = "asks" /\ turn[entry.agent] = entry.turn THEN "runs" ELSE @]
    /\ UNCHANGED << turn, wire, over >>

Next ==
    \/ \E a \in Agent: StartTurn(a) \/ Ask(a) \/ Abort(a) \/ EndTurn(a)
    \/ Arrives \/ Resolve

Spec == Init /\ [][Next]_vars
-----------------------------------------------------------------------------
\* No request outlives its turn: once the server knows that a turn is over, no
\* approval and no question of it is pending (else the session would stay
\* awaiting_approval or awaiting_question); and the end of one agent's turn,
\* or of an earlier one, takes away nothing a call still waits for.
RequestsFollowTurns ==
    /\ \A entry \in approvals \cup questions: entry.turn > over[entry.agent]
    /\ \A a \in Agent:
          phase[a] = "asks" =>
             \/ Current(a) \in approvals \cup questions
             \/ \E n \in DOMAIN wire: /\ wire[n].kind \in {"approval", "question"}
                                      /\ wire[n].agent = a /\ wire[n].turn = turn[a]
=============================================================================
