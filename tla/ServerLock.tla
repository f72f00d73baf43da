----------------------------- MODULE ServerLock -----------------------------
(***************************************************************************)
(* The lock file that keeps a second server from starting on one home      *)
(* directory: acquisition, takeover, ready mark and release                *)
(* (packages/server/src/lock.ts, called by start.ts), and the desktop      *)
(* application that removes what a dead owner left                         *)
(* (packages/server/src/control.ts, apps/nori-desktop ensure-server.ts).   *)
(*                                                                         *)
(* Every process is on its own: a step is one system call or one check,    *)
(* and any process may end between two of them.  A server starts once; a   *)
(* restart is another member of Server.                                    *)
(***************************************************************************)
CONSTANTS
    Server,      \* the server processes, each with a launch id of its own
    Overlap,     \* two processes may be changing the owner at the same time
    LateStarts   \* a server may start so slowly that it is taken for foreign

VARIABLES
    phase,       \* per server: where it is in acquiring and giving back
    lock,        \* whose file is at the lock path: {} or {the creator}
    text,        \* what that file says: nothing yet, or the owner's state
    recycled,    \* ended servers whose pid belongs to another program now
    doomed,      \* the owner the desktop application is dealing with
    deleting     \* it has decided to delete the file of that owner

vars == << phase, lock, text, recycled, doomed, deleting >>

Phases == {"new", "opened", "stale", "cleared", "holding", "marking",
           "releasing", "released", "refused", "ended"}

TypeOK ==
    /\ phase \in [Server -> Phases]
    /\ lock \in SUBSET Server
    /\ text \in {"nothing", "starting", "ready"}
    /\ recycled \in SUBSET Server
    /\ doomed \in SUBSET Server
    /\ deleting \in BOOLEAN

\* The process believes that it holds the lock.
Holds(s) == phase[s] \in {"holding", "marking", "releasing"}

\* The process is on its way from finding no live owner to being the owner.
Taking(s) == phase[s] \in {"opened", "stale", "cleared"}

\* kill(pid, 0) finds a process.
PidAlive(s) == phase[s] # "ended" \/ s \in recycled

\* The file at the path can be parsed and names s.
Names(s) == lock = {s} /\ text # "nothing"

\* Without Overlap nobody starts to change the owner while another does.
Alone == Overlap \/ (~deleting /\ \A s \in Server: ~Taking(s))

Init ==
    /\ phase = [s \in Server |-> "new"]
    /\ lock = {}
    /\ text = "nothing"
    /\ recycled = {}
    /\ doomed = {}
    /\ deleting = FALSE
-----------------------------------------------------------------------------
Goes(s, from, to) == phase[s] = from /\ phase' = [phase EXCEPT ![s] = to]

\* open(path, O_CREAT | O_EXCL) succeeds: an empty file is there at once.
Created(s, from) ==
    /\ lock = {}
    /\ Goes(s, from, "opened")
    /\ lock' = {s}
    /\ text' = "nothing"
    /\ UNCHANGED << recycled, doomed, deleting >>

Acquire(s) == Alone /\ Created(s, "new")

\* The contents reach the file this process created, wherever it is by now.
WriteContents(s) ==
    /\ Goes(s, "opened", "holding")
    /\ text' = IF lock = {s} THEN "starting" ELSE text
    /\ UNCHANGED << lock, recycled, doomed, deleting >>

\* The file exists, is readable and its owner is alive.
Refused(s) ==
    /\ \E t \in Server: Names(t) /\ PidAlive(t)
    /\ Alone
    /\ Goes(s, "new", "refused")
    /\ UNCHANGED << lock, text, recycled, doomed, deleting >>

\* Mutant of Stale: an unreadable file and a live owner are both taken over.
Stale_IgnoresPid(s) ==
    /\ lock # {}
    /\ Alone
    /\ Goes(s, "new", "stale")
    /\ UNCHANGED << lock, text, recycled, doomed, deleting >>

\* The open failed because a file was there, which by the time it is read
\* cannot be parsed, names a dead owner, or is gone.
Stale(s) ==
    /\ \A t \in Server: Names(t) => ~PidAlive(t)
    /\ Overlap \/ lock # {}
    /\ Alone
    /\ Goes(s, "new", "stale")
    /\ UNCHANGED << lock, text, recycled, doomed, deleting >>

\* unlink(path), whatever file is there now; a missing file is accepted.
Clear(s) ==
    /\ Goes(s, "stale", "cleared")
    /\ lock' = {}
    /\ text' = "nothing"
    /\ UNCHANGED << recycled, doomed, deleting >>

Retake(s) == Created(s, "cleared")

\* Someone slipped in between the unlink and the second open.
SlippedIn(s) ==
    /\ lock # {}
    /\ Goes(s, "cleared", "refused")
    /\ UNCHANGED << lock, text, recycled, doomed, deleting >>

\* markReady finds its own contents ...
CheckReady(s) ==
    /\ Names(s)
    /\ Goes(s, "holding", "marking")
    /\ UNCHANGED << lock, text, recycled, doomed, deleting >>

\* ... and renames its new file over the path, whatever is there now.
MarkReady(s) ==
    /\ Goes(s, "marking", "holding")
    /\ lock' = {s}
    /\ text' = "ready"
    /\ UNCHANGED << recycled, doomed, deleting >>

\* release finds its own contents or contents it cannot read ...
CheckRelease(s) ==
    /\ Names(s) \/ (lock # {} /\ text = "nothing")
    /\ Goes(s, "holding", "releasing")
    /\ UNCHANGED << lock, text, recycled, doomed, deleting >>

\* ... and unlinks the path.
Release(s) ==
    /\ Goes(s, "releasing", "released")
    /\ lock' = {}
    /\ text' = "nothing"
    /\ UNCHANGED << recycled, doomed, deleting >>

\* release finds no file, or another owner's.
ReleaseForeign(s) ==
    /\ lock = {} \/ \E t \in Server \ {s}: Names(t)
    /\ Goes(s, "holding", "released")
    /\ UNCHANGED << lock, text, recycled, doomed, deleting >>

\* The process ends: it exits, crashes or is killed by the desktop.
End(s) ==
    /\ phase[s] \notin {"new", "ended"}
    /\ phase' = [phase EXCEPT ![s] = "ended"]
    /\ UNCHANGED << lock, text, recycled, doomed, deleting >>

\* The system gives the pid of an ended server to another program.
Recycle(s) ==
    /\ phase[s] = "ended"
    /\ recycled' = recycled \cup {s}
    /\ UNCHANGED << phase, lock, text, doomed, deleting >>
-----------------------------------------------------------------------------
\* The desktop application reads the lock and goes on to wait for its owner,
\* to probe its port or to stop it.
Consider(s) ==
    /\ doomed = {}
    /\ Names(s)
    /\ doomed' = {s}
    /\ UNCHANGED << phase, lock, text, recycled, deleting >>

\* Something answers at the owner's port and it is no server of this program:
\* the pid was recycled, or another program has the port that a server still
\* asks for when its time to start is over.
Foreign(s) ==
    \/ s \in recycled
    \/ LateStarts /\ phase[s] = "holding" /\ lock = {s} /\ text = "starting"

\* removeLockIfOwnerDead and removeLockIfOwnerMatches read the file again.
DecideToDelete(s) ==
    /\ s \in doomed
    /\ ~deleting
    /\ ~PidAlive(s) \/ Foreign(s)
    /\ Names(s)
    /\ Alone
    /\ deleting' = TRUE
    /\ UNCHANGED << phase, lock, text, recycled, doomed >>

\* unlink(path), whatever file is there now.
Delete ==
    /\ deleting
    /\ lock' = {}
    /\ text' = "nothing"
    /\ doomed' = {}
    /\ deleting' = FALSE
    /\ UNCHANGED << phase, recycled >>

\* The owner turned out to be usable, or has gone by itself.
Dismiss ==
    /\ doomed # {}
    /\ ~deleting
    /\ doomed' = {}
    /\ UNCHANGED << phase, lock, text, recycled, deleting >>

Next ==
    \/ \E s \in Server:
          \/ Acquire(s) \/ WriteContents(s)
          \/ Refused(s) \/ Stale(s) \/ Clear(s) \/ Retake(s) \/ SlippedIn(s)
          \/ CheckReady(s) \/ MarkReady(s)
          \/ CheckRelease(s) \/ Release(s) \/ ReleaseForeign(s)
          \/ End(s) \/ Recycle(s)
          \/ Consider(s) \/ DecideToDelete(s)
    \/ Delete
    \/ Dismiss

Spec == Init /\ [][Next]_vars
-----------------------------------------------------------------------------
\* Acquisition is exclusive: two servers never both hold the lock of lock.ts,
\* however their starts, takeovers and ends interleave.
OneHolder ==
    \A s, t \in Server: Holds(s) /\ Holds(t) => s = t

\* The file at the path names the server that took it for as long as it holds
\* it: while changes of the owner do not overlap, no takeover, release or
\* cleanup of lock.ts and control.ts deletes the file of a live owner.
LockNamesItsHolder ==
    \A s \in Server: Holds(s) => Names(s)
=============================================================================
