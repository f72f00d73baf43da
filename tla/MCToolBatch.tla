---------------------------- MODULE MCToolBatch -----------------------------
(***************************************************************************)
(* ToolBatch with calls that declare accesses of ToolAccess, and the       *)
(* accesses themselves over a small tree of paths and their spellings.     *)
(***************************************************************************)
EXTENDS ToolBatch, SequencesExt

CONSTANTS Gap, Src, SRC, App

\* SRC is another spelling of Src.
Lower(segment) == IF segment = SRC THEN Src ELSE segment

A == INSTANCE ToolAccess WITH Segment <- {Src, SRC, App}, Folded <- Lower

File(operation, path, recursive) ==
    [kind |-> "file", operation |-> operation, path |-> path, recursive |-> recursive]

\* A read and an edit of one file, a search of the directory that holds it,
\* under another spelling, and a shell command.
ReadApp == {File("read", << Src, App >>, FALSE)}
EditApp == {File("readwrite", << Src, App >>, FALSE)}
SearchSrc == {File("search", << SRC >>, TRUE)}
Shell == {A!All}

FileAccesses == {ReadApp, EditApp, SearchSrc, Shell}
Few == {EditApp, SearchSrc}
Empty == {}

AccessConflict(left, right) == A!Conflict(left, right)
-----------------------------------------------------------------------------
\* The loop of startQueuedTasks over the queue, task by task: what it has put
\* into activeTasks and into stillQueued so far.
StartQueuedTasks(active) ==
    LET Scan(acc, i) ==
            IF Blocked(i, acc.active, acc.still)
            THEN [acc EXCEPT !.still = @ \cup {i}]
            ELSE [acc EXCEPT !.active = @ \cup {i}]
    IN  FoldLeft(Scan, [active |-> active, still |-> {}], SetToSortSeq(Queued, <))

\* Whichever call finishes, the scan of startQueuedTasks starts the calls that
\* nothing before them in the queue blocks, and no others.
ScanReleases ==
    \A i \in Calls: task[i] = "resolved" =>
        LET rest == Active \ {i}
        IN  StartQueuedTasks(rest).active = rest \cup Released(rest)
-----------------------------------------------------------------------------
\* The accesses to paths of at most two pieces.
Declarable == A!ResourceAccess(UNION {[1..n -> A!Piece]: n \in 0..2})

\* The files of the tree, one level deeper than any path above.
Files == UNION {[1..n -> {Src, App}]: n \in 0..3}

\* The files an access may read or write.
Touches(access) ==
    LET path == A!NormalizePath(access.path)
    IN  {file \in Files: file = path \/ (access.recursive /\ IsPrefix(path, file))}

\* ToolAccesses.conflict excludes two calls exactly when one of them may have
\* any effect, or one writes and both touch some file: no needless waiting
\* and no missed conflict, whatever the spelling of the paths.  It is about
\* declarations and not about a state, so it is evaluated where a batch begins.
ConflictIsExact ==
    Init => \A left, right \in Declarable:
        A!Conflict({left}, {right}) <=>
            \/ A!All \in {left, right}
            \/ /\ \E access \in {left, right}: A!Writes(access)
               /\ Touches(left) \cap Touches(right) # {}

\* The two computations of the scheduler agree with their reference: the scan
\* of its queue, and the conflict of two calls.
SchedulerExact == ScanReleases /\ ConflictIsExact
=============================================================================
