----------------------------- MODULE ToolAccess -----------------------------
(***************************************************************************)
(* The resource accesses a tool call declares before it executes, and the  *)
(* relation that decides whether two calls of one model step may overlap   *)
(* (packages/agent-core/src/loop/tool-access.ts).                          *)
(*                                                                         *)
(* A path is the sequence of the pieces between its separators, so that    *)
(* "/src//App.ts/" is << "src", "", "App.ts", "" >>: an empty piece is a   *)
(* doubled or a trailing separator.  Backslashes are separators too.       *)
(***************************************************************************)
EXTENDS Sequences, SequencesExt

CONSTANTS
    Segment,    \* the spellings of a path segment
    Gap,        \* the empty piece between two adjacent separators
    Folded(_)   \* the lower-case spelling of a segment

Piece == Segment \cup {Gap}

Operation == {"read", "search", "write", "readwrite"}

\* An access that no file access can describe, exclusive with everything.
All == [kind |-> "all"]

FileAccess(Paths) ==
    [kind: {"file"}, operation: Operation, path: Paths, recursive: BOOLEAN]

ResourceAccess(Paths) == {All} \cup FileAccess(Paths)
-----------------------------------------------------------------------------
\* Repeated and trailing separators vanish and the case is folded.
NormalizePath(path) ==
    LET named == SelectSeq(path, LAMBDA piece: piece # Gap)
    IN  [n \in DOMAIN named |-> Folded(named[n])]

Writes(access) == access.operation \in {"write", "readwrite"}

\* Mutant of Overlap: every path is taken for a directory that holds what is
\* below it.
Overlap_AlwaysTree(left, right) ==
    LET l == NormalizePath(left.path)
        r == NormalizePath(right.path)
    IN  IsPrefix(l, r) \/ IsPrefix(r, l)

\* The paths are equal, or a recursive access holds the other one's path.
Overlap(left, right) ==
    LET l == NormalizePath(left.path)
        r == NormalizePath(right.path)
    IN  \/ l = r
        \/ left.recursive /\ IsStrictPrefix(l, r)
        \/ right.recursive /\ IsStrictPrefix(r, l)

ResourcesConflict(left, right) ==
    \/ left = All
    \/ right = All
    \/ /\ left # All
       /\ right # All
       /\ Writes(left) \/ Writes(right)
       /\ Overlap(left, right)

\* Two calls conflict when one of their accesses conflicts with one of the
\* other's.  The accesses of a call are a set: the code's order is irrelevant.
Conflict(left, right) ==
    \E l \in left, r \in right: ResourcesConflict(l, r)
=============================================================================
