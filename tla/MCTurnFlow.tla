----------------------------- MODULE MCTurnFlow -----------------------------
(***************************************************************************)
(* TurnFlow for TLC.  The inputs are model values; the user's messages are *)
(* interchangeable, and so are the notifications.                          *)
(***************************************************************************)
EXTENDS TurnFlow, TLC

Alike == Permutations(UserInputs) \union Permutations(SystemInputs)

=============================================================================
