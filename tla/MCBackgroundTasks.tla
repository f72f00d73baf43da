-------------------------- MODULE MCBackgroundTasks --------------------------
(***************************************************************************)
(* BackgroundTasks for TLC.  Tasks are interchangeable model values.       *)
(***************************************************************************)
EXTENDS BackgroundTasks, TLC

Alike == Permutations(Tasks)

\* Constraint: a task that writes output is alone, tasks that are several
\* write none.
OneOrSilent ==
  \/ \E t \in Tasks : used \subseteq {t}
  \/ \A t \in Tasks : task[t].produced = 0 /\ log[t] = <<>>

=============================================================================
