----------------------------- MODULE ToolOrder ------------------------------
(***************************************************************************)
(* What the tool batch of one model step promises, with no scheduler in    *)
(* sight: the calls that execute do so as if conflicting calls ran one     *)
(* after another in the order in which the model wrote them.               *)
(***************************************************************************)
EXTENDS Integers

CONSTANTS
    N,                \* the calls of the step are 1..N, in provider order
    Footprint,        \* what a call may touch
    Collide(_, _)     \* whether two footprints must not be touched together

Calls == 1..N

VARIABLES
    fate,        \* per call: "unknown", "waiting", "running", "ended" or "dropped"
    footprint    \* per call: what it touches, meaningful once it is known

vars == << fate, footprint >>

Clash(i, j) == Collide(footprint[i], footprint[j])

TypeOK ==
    /\ fate \in [Calls -> {"unknown", "waiting", "running", "ended", "dropped"}]
    /\ footprint \in [Calls -> Footprint]

Init ==
    /\ fate = [i \in Calls |-> "unknown"]
    /\ footprint \in [Calls -> Footprint]

\* Calls become known in provider order, with the footprint they declare.
Arrive(i, f) ==
    /\ fate[i] = "unknown"
    /\ \A j \in Calls: j < i => fate[j] # "unknown"
    /\ fate' = [fate EXCEPT ![i] = "waiting"]
    /\ footprint' = [footprint EXCEPT ![i] = f]

\* No running call clashes with i, nor does an earlier one that may still run.
MayStart(i) ==
    /\ fate[i] = "waiting"
    /\ \A j \in Calls: Clash(i, j) =>
           /\ fate[j] # "running"
           /\ j < i => fate[j] \in {"ended", "dropped"}

\* Some calls start executing together.
Start(S) ==
    /\ \A i \in S: MayStart(i)
    /\ fate' = [i \in Calls |-> IF i \in S THEN "running" ELSE fate[i]]
    /\ UNCHANGED footprint

End(i) ==
    /\ fate[i] = "running"
    /\ fate' = [fate EXCEPT ![i] = "ended"]
    /\ UNCHANGED footprint

\* Calls that will never execute: refused, skipped or overtaken by an abort.
Drop(S) ==
    /\ \A i \in S: fate[i] = "waiting"
    /\ fate' = [i \in Calls |-> IF i \in S THEN "dropped" ELSE fate[i]]
    /\ UNCHANGED footprint

Next ==
    \/ \E i \in Calls, f \in Footprint: Arrive(i, f)
    \/ \E S \in SUBSET Calls: Start(S) \/ Drop(S)
    \/ \E i \in Calls: End(i)

Spec == Init /\ [][Next]_vars
=============================================================================
