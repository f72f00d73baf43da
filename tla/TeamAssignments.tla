--------------------------- MODULE TeamAssignments ---------------------------
(***************************************************************************)
(* The assignments of a department whose members are mounted sessions:     *)
(* TeamAssign, the write lease it gives, the member's report and the       *)
(* reminder that the report is missing                                     *)
(* (packages/agent-core/src/session/subagent-host.ts, session/index.ts,    *)
(* rpc/core-impl.ts).                                                      *)
(*                                                                         *)
(* A member's record is kept twice.  Its own session holds it; the         *)
(* parent's session works on a copy, writes whole records through          *)
(* patchMember and reads them back when it refreshes its directory.        *)
(* Assignments are numbered, the number stands for assignedAt.  The three  *)
(* kinds of report are one; the discussion and its lock of the tools, the  *)
(* hiring and dismissal of members and failed writes are left out.         *)
(***************************************************************************)
EXTENDS Naturals, SequencesExt

CONSTANTS
    Member,
    MaxAssignments,   \* bound on the calls of TeamAssign that go through
    Prompted,         \* bound: the members that get turns of somebody else
    Coordinated       \* the parent and a member write the record in turn, and
                      \* the parent from a fresh copy

VARIABLES
    cache,      \* per member: the parent's copy of its record
    child,      \* per member: the record in its own session
    patch,      \* per member: the parent's writes that have not landed
    call,       \* the call of the leader that is under way
    made,       \* the last assignment
    turn,       \* per member: Idle, the assignment it works on, or Other
    observer,   \* per member and assignment: who waits for the end of the turn
    receipt,    \* per member: a report was delivered, its receipt is to come
    told,       \* history: <<m, n>> once m was told that its report is missing
    reported,   \* history: <<m, n>> once m has reported n within its turn
    locked      \* history: <<m, n>> once a lock has taken the lease of n

vars == << cache, child, patch, call, made, turn, observer, receipt,
           told, reported, locked >>

Assignment == 1..MaxAssignments
Idle == 0
Other == MaxAssignments + 1

\* assignedAt, and of teamReport: assignmentId, whether the status is still
\* 'unreported', missingReminderAt and receivedAt.
Record == [lease: {0} \cup Assignment, of: {0} \cup Assignment,
           reported: BOOLEAN, reminded: BOOLEAN, received: BOOLEAN]

Blank == [lease |-> 0, of |-> 0, reported |-> FALSE, reminded |-> FALSE,
          received |-> FALSE]

\* A write of the parent and who waits for it: 0 for the leader's call.
Write == [by: {0} \cup Assignment, record: Record]

Call == [does: {"nothing", "writing", "starting", "cleaning", "locking"},
         tasks: SUBSET Member,              \* the members with a task
         todo: SUBSET Member,               \* those still to be served
         saw: [Member -> Record]]           \* what lockTeamAssignments read

TypeOK ==
    /\ cache \in [Member -> Record]
    /\ child \in [Member -> Record]
    /\ patch \in [Member -> Seq(Write)]
    /\ call \in Call
    /\ made \in 0..MaxAssignments
    /\ turn \in [Member -> Idle..Other]
    /\ observer \in [Member -> [Assignment ->
         {"none", "waiting", "ended", "noting", "releasing", "done"}]]
    /\ receipt \in [Member -> BOOLEAN]
    /\ told \subseteq Member \X Assignment
    /\ reported \subseteq Member \X Assignment
    /\ locked \subseteq Member \X Assignment

NoCall == [does |-> "nothing", tasks |-> {}, todo |-> {},
           saw |-> [m \in Member |-> Blank]]

Init ==
    /\ cache = [m \in Member |-> Blank]
    /\ child = [m \in Member |-> Blank]
    /\ patch = [m \in Member |-> <<>>]
    /\ call = NoCall
    /\ made = 0
    /\ turn = [m \in Member |-> Idle]
    /\ observer = [m \in Member |-> [n \in Assignment |-> "none"]]
    /\ receipt = [m \in Member |-> FALSE]
    /\ told = {} /\ reported = {} /\ locked = {}
-----------------------------------------------------------------------------
\* writeDepartmentMemberState: the copy at once, the member's session later.
Put(write) ==
    /\ cache' = [m \in Member |->
         IF m \in DOMAIN write THEN write[m].record ELSE cache[m]]
    /\ patch' = [m \in Member |->
         IF m \in DOMAIN write THEN Append(patch[m], write[m]) ELSE patch[m]]

PutOne(m, by, record) == Put([x \in {m} |-> [by |-> by, record |-> record]])

InFlight(m, by) == \E i \in DOMAIN patch[m]: patch[m][i].by = by

LeaderWaits == \E m \in Member: InFlight(m, 0)

\* patchMember: the whole record, over whatever the member's session holds.
Land(m) ==
    \E i \in DOMAIN patch[m]:
        /\ Coordinated => i = 1
        /\ child' = [child EXCEPT ![m] = patch[m][i].record]
        /\ patch' = [patch EXCEPT ![m] = RemoveAt(@, i)]
        /\ UNCHANGED << cache, call, made, turn, observer, receipt,
                        told, reported, locked >>

\* refreshDepartmentDirectory, by TeamStatus, a message of the leader or a
\* change on the map: the copy is what the member's session says.
Refresh(m) ==
    /\ Coordinated => patch[m] = <<>>
    /\ cache' = [cache EXCEPT ![m] = child[m]]
    /\ UNCHANGED << child, patch, call, made, turn, observer, receipt,
                    told, reported, locked >>
-----------------------------------------------------------------------------
\* The record that assignTeamTasks writes: without a task the report stays.
Assigned(m, n, tasks) ==
    IF m \in tasks
    THEN [Blank EXCEPT !.lease = n, !.of = n]
    ELSE [cache[m] EXCEPT !.lease = 0]

\* assignTeam, assignTeamTasks up to the first write: every member is idle.
Assign(tasks, m) ==
    /\ call.does = "nothing"
    /\ made < MaxAssignments
    /\ tasks # {}
    /\ \A x \in Member: turn[x] = Idle
    /\ made' = made + 1
    /\ PutOne(m, 0, Assigned(m, made + 1, tasks))
    /\ call' = [NoCall EXCEPT !.does = "writing", !.tasks = tasks,
                              !.todo = Member \ {m}]
    /\ UNCHANGED << child, turn, observer, receipt, told, reported, locked >>

\* The next round of its loop, once the write before has landed.
AssignNext(m) ==
    /\ call.does = "writing" /\ ~ LeaderWaits
    /\ m \in call.todo
    /\ PutOne(m, 0, Assigned(m, made, call.tasks))
    /\ call' = [call EXCEPT !.todo = @ \ {m}]
    /\ UNCHANGED << child, made, turn, observer, receipt,
                    told, reported, locked >>

\* Mutant of ReleaseAll: whatever lease the member has by then.
ReleaseAll_Any(members, n, by) ==
    Put([m \in members |->
          [by |-> by, record |-> [cache[m] EXCEPT !.lease = 0]]])

\* releaseTeamAssignment for members at once: the lease goes if it is still
\* that of the assignment.
ReleaseAll(members, n, by) ==
    LET held == {m \in members: cache[m].lease = n}
    IN  Put([m \in held |->
          [by |-> by, record |-> [cache[m] EXCEPT !.lease = 0]]])

\* Back in assignTeam: somebody with a task has begun another turn.
Unavailable ==
    /\ call.does = "writing" /\ ~ LeaderWaits /\ call.todo = {}
    /\ \E m \in call.tasks: turn[m] # Idle
    /\ ReleaseAll(call.tasks, made, 0)
    /\ call' = [call EXCEPT !.does = "cleaning"]
    /\ UNCHANGED << child, made, turn, observer, receipt,
                    told, reported, locked >>

Available ==
    /\ call.does = "writing" /\ ~ LeaderWaits /\ call.todo = {}
    /\ \A m \in call.tasks: turn[m] = Idle
    /\ call' = [call EXCEPT !.does = "starting", !.todo = call.tasks]
    /\ UNCHANGED << cache, child, patch, made, turn, observer, receipt,
                    told, reported, locked >>

\* startAgentPrompt has started the turn: observeTeamAssignmentTurn waits for it.
Start(m) ==
    /\ call.does = "starting"
    /\ m \in call.todo
    /\ turn[m] = Idle
    /\ turn' = [turn EXCEPT ![m] = made]
    /\ observer' = [observer EXCEPT ![m][made] = "waiting"]
    /\ call' = [call EXCEPT !.todo = @ \ {m}]
    /\ UNCHANGED << cache, child, patch, made, receipt, told, reported, locked >>

\* Its catch: a member is busy, does not start, or the call is aborted.  The
\* leases that no observer answers for are released.
StartFails ==
    /\ call.does = "starting" /\ call.todo # {}
    /\ ReleaseAll(call.todo, made, 0)
    /\ call' = [call EXCEPT !.does = "cleaning"]
    /\ UNCHANGED << child, made, turn, observer, receipt,
                    told, reported, locked >>

\* lockTeamAssignments up to the first write: it goes by what it has read.
Unlocked(m, saw) == [saw[m] EXCEPT !.lease = 0]

Lock(m) ==
    /\ call.does = "nothing"
    /\ Coordinated => cache = child
    /\ cache[m].lease # 0
    /\ PutOne(m, 0, Unlocked(m, cache))
    /\ locked' = locked \cup {<< m, cache[m].lease >>}
    /\ call' = [NoCall EXCEPT !.does = "locking", !.saw = cache,
                    !.todo = {x \in Member \ {m}: cache[x].lease # 0}]
    /\ UNCHANGED << child, made, turn, observer, receipt, told, reported >>

LockNext(m) ==
    /\ call.does = "locking" /\ ~ LeaderWaits
    /\ m \in call.todo
    /\ PutOne(m, 0, Unlocked(m, call.saw))
    /\ locked' = locked \cup {<< m, call.saw[m].lease >>}
    /\ call' = [call EXCEPT !.todo = @ \ {m}]
    /\ UNCHANGED << child, made, turn, observer, receipt, told, reported >>

CallEnds ==
    /\ ~ LeaderWaits
    /\ \/ call.does = "cleaning"
       \/ call.does \in {"starting", "locking"} /\ call.todo = {}
    /\ call' = NoCall
    /\ UNCHANGED << cache, child, patch, made, turn, observer, receipt,
                    told, reported, locked >>
-----------------------------------------------------------------------------
\* A member is prompted by somebody else: its user, a peer, a broadcast.
StartOther(m) ==
    /\ m \in Prompted
    /\ turn[m] = Idle
    /\ turn' = [turn EXCEPT ![m] = Other]
    /\ UNCHANGED << cache, child, patch, call, made, observer, receipt,
                    told, reported, locked >>

EndTurn(m) ==
    /\ turn[m] # Idle
    /\ Coordinated => cache[m] = child[m] /\ patch[m] = <<>>
    /\ turn' = [turn EXCEPT ![m] = Idle]
    /\ observer' = [observer EXCEPT ![m] = [n \in Assignment |->
         IF n = turn[m] THEN "ended" ELSE @[n]]]
    /\ UNCHANGED << cache, child, patch, call, made, receipt,
                    told, reported, locked >>

\* directMessage with a report, once the parent has taken the message, and
\* recordTeamReport in the member's session: no report after a receipt.
\* Bound: one report of a member is on its way at a time.
Report(m) ==
    /\ turn[m] # Idle
    /\ ~ receipt[m]
    /\ Coordinated => patch[m] = <<>> /\ call.does # "locking"
    /\ receipt' = [receipt EXCEPT ![m] = TRUE]
    /\ \/ /\ child[m].of # 0 /\ ~ child[m].received
          /\ child' = [child EXCEPT ![m].reported = TRUE, ![m].reminded = FALSE]
          /\ reported' = reported \cup
               {<< m, n >>: n \in {child[m].of} \cap {turn[m]}}
       \/ /\ child[m].of = 0 \/ child[m].received
          /\ UNCHANGED << child, reported >>
    /\ UNCHANGED << cache, patch, call, made, turn, observer, told, locked >>

\* The parent's turn with the report has completed: acknowledgeTeamReport;
\* or it failed, and nothing is acknowledged.
Receipt(m) ==
    /\ receipt[m]
    /\ receipt' = [receipt EXCEPT ![m] = FALSE]
    /\ \/ /\ child[m].reported
          /\ child' = [child EXCEPT ![m].received = TRUE]
       \/ UNCHANGED child
    /\ UNCHANGED << cache, patch, call, made, turn, observer,
                    told, reported, locked >>
-----------------------------------------------------------------------------
Becomes(m, n, stage) == observer' = [observer EXCEPT ![m][n] = stage]

\* Mutant of Missing: the report of whatever assignment the member has by then.
Missing_AnyAssignment(m, n) == ~ cache[m].reported /\ ~ cache[m].reminded

\* notifyMissingTeamReport: the parent's copy knows of no report.
Missing(m, n) == cache[m].of = n /\ ~ cache[m].reported /\ ~ cache[m].reminded

Notify(m, n) ==
    /\ observer[m][n] = "ended"
    /\ \/ /\ Missing(m, n)
          /\ PutOne(m, n, [cache[m] EXCEPT !.reminded = TRUE])
          /\ Becomes(m, n, "noting")
       \/ /\ ~ Missing(m, n)
          /\ Becomes(m, n, "releasing")
          /\ UNCHANGED << cache, patch >>
    /\ UNCHANGED << child, call, made, turn, receipt, told, reported, locked >>

\* "... finished its turn without a TeamDM report", to the member and the leader.
Remind(m, n) ==
    /\ observer[m][n] = "noting" /\ ~ InFlight(m, n)
    /\ told' = told \cup {<< m, n >>}
    /\ Becomes(m, n, "releasing")
    /\ UNCHANGED << cache, child, patch, call, made, turn, receipt,
                    reported, locked >>

\* releaseTeamAssignment, by the observer.
Release(m, n) ==
    /\ observer[m][n] = "releasing"
    /\ ReleaseAll({m}, n, n)
    /\ Becomes(m, n, "done")
    /\ UNCHANGED << child, call, made, turn, receipt, told, reported, locked >>
-----------------------------------------------------------------------------
Next ==
    \/ Unavailable \/ Available \/ StartFails \/ CallEnds
    \/ \E m \in Member:
         \/ Land(m) \/ Refresh(m)
         \/ \E tasks \in SUBSET Member: Assign(tasks, m)
         \/ AssignNext(m) \/ Start(m) \/ Lock(m) \/ LockNext(m)
         \/ StartOther(m) \/ EndTurn(m) \/ Report(m) \/ Receipt(m)
         \/ \E n \in Assignment: Notify(m, n) \/ Remind(m, n) \/ Release(m, n)

Spec == Init /\ [][Next]_vars
-----------------------------------------------------------------------------
\* A member that reported its task within the turn is not told that it
\* "finished its turn without a TeamDM report", whatever was assigned, locked
\* or received meanwhile (notifyMissingTeamReport).
NoFalseReminder == told \cap reported = {}

\* A lease belongs to an assignment that is being made or whose turn somebody
\* still observes, and is not kept beyond; while the turn runs only a lock
\* takes it away: "a late completion from an older turn must never revoke a
\* newer assignment" (releaseTeamAssignment).
LeaseFollowsTurn ==
    \A m \in Member, n \in Assignment:
        /\ cache[m].lease = n =>
             \/ observer[m][n] \notin {"none", "done"}
             \/ n = made /\ call.does \in {"writing", "starting"}
        /\ turn[m] = n => cache[m].lease = n \/ << m, n >> \in locked
=============================================================================
