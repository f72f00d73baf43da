------------------------ MODULE TeamAssignmentsProofs ------------------------
(***************************************************************************)
(* Theorems about TeamAssignments for any members, any number of           *)
(* assignments and any turns of others.                                    *)
(*                                                                         *)
(* A member's record has two copies that are written one after the other,  *)
(* and a call of the leader goes by what it has read.  IInv says how far   *)
(* the copies may differ (CopyAgrees, ReportKept), what an assignment that *)
(* is being made has done so far (BeingMade), and that what was read still *)
(* holds (StillAsRead).                                                    *)
(***************************************************************************)
EXTENDS TeamAssignments, TLAPS

\* What the member's session will hold once every write has landed.
Written(m) ==
    IF patch[m] = << >> THEN child[m] ELSE patch[m][Len(patch[m])].record

\* The parent's copy differs from it in nothing but what a report changes.
CopyAgrees ==
    \A m \in Member: cache[m].of = Written(m).of /\ cache[m].lease = Written(m).lease

\* A lease is for the task the record is about.
LeaseForTask == \A m \in Member: cache[m].lease \in {0, cache[m].of}

\* A turn of an assignment is one that is observed, and the record is about it.
TurnsObserved ==
    \A m \in Member: turn[m] \in Assignment =>
        observer[m][turn[m]] = "waiting" /\ cache[m].of = turn[m]

\* An assignment that is still being given has no turn, and there is no later one.
NoneBefore ==
    \A m \in Member, n \in Assignment: observer[m][n] # "none" =>
        /\ n <= made
        /\ n = made => /\ call.does # "writing"
                       /\ call.does = "starting" => m \notin call.todo

\* While the leader's call makes an assignment it is in the copies of those that
\* have been served, and none of those to be started works on any.
BeingMade ==
    /\ call.does \in {"writing", "starting"} => made # 0
    /\ call.does = "writing" => \A m \in Member:
         /\ turn[m] \notin Assignment
         /\ m \in call.tasks \ call.todo => cache[m].of = made /\ cache[m].lease = made
         /\ cache[m].lease = made => m \in call.tasks
    /\ call.does = "starting" => \A m \in Member:
         /\ m \in call.todo =>
              turn[m] \notin Assignment /\ cache[m].of = made /\ cache[m].lease = made
         /\ cache[m].lease = made => m \in call.todo \/ observer[m][made] \notin {"none", "done"}

\* What lockTeamAssignments has read is still what it was.
StillAsRead ==
    call.does = "locking" => \A m \in call.todo:
        /\ call.saw[m].lease # 0
        /\ call.saw[m].of = cache[m].of
        /\ cache[m].lease \in {0, call.saw[m].lease}

\* No copy of the record forgets a report made within the turn of its task.
ReportKept ==
    \A m \in Member, n \in Assignment: << m, n >> \in reported =>
        /\ observer[m][n] # "none"
        /\ Written(m).of = n => Written(m).reported
        /\ (turn[m] # n \/ patch[m] # << >>) /\ cache[m].of = n => cache[m].reported
        /\ call.does = "locking" /\ m \in call.todo /\ call.saw[m].of = n => call.saw[m].reported

\* Who is told, or about to be, has not reported.
ToldLate ==
    \A m \in Member, n \in Assignment:
        /\ << m, n >> \in told => observer[m][n] \in {"releasing", "done"}
        /\ << m, n >> \in told \/ observer[m][n] = "noting" => << m, n >> \notin reported

IInv ==
    /\ TypeOK /\ CopyAgrees /\ LeaseForTask /\ TurnsObserved /\ NoneBefore
    /\ BeingMade /\ StillAsRead /\ ReportKept /\ ToldLate /\ LeaseFollowsTurn
-----------------------------------------------------------------------------
\* The bound on the assignments is a number.
Bounded == MaxAssignments \in Nat

\* A write of the parent reaches its copy, and its last write is what the member
\* will hold.
Wrote(m, record) ==
    cache'[m] = record /\ Written(m)' = record /\ patch'[m] # << >>

\* The parent writes nothing on the member.
Same(m) ==
    cache'[m] = cache[m] /\ Written(m)' = Written(m) /\ patch'[m] = patch[m]

\* A sequence that is appended to.
LEMMA Longer ==
    ASSUME NEW S, NEW s \in Seq(S), NEW e \in S
    PROVE  /\ Append(s, e) \in Seq(S) /\ Append(s, e) # << >>
           /\ Append(s, e)[Len(Append(s, e))] = e
OBVIOUS

\* What Put does, member by member.
LEMMA PutGives ==
    ASSUME TypeOK, NEW M \in SUBSET Member, NEW write \in [M -> Write],
           Put(write), child' = child
    PROVE  /\ cache' \in [Member -> Record] /\ patch' \in [Member -> Seq(Write)]
           /\ \A x \in M: Wrote(x, write[x].record)
           /\ \A x \in Member \ M: Same(x)
<1>1. \A x \in Member: x \in DOMAIN write <=> x \in M OBVIOUS
<1>2. \A x \in M: cache'[x] = write[x].record /\ patch'[x] = Append(patch[x], write[x])
  BY DEF Put
<1>3. \A x \in Member \ M: cache'[x] = cache[x] /\ patch'[x] = patch[x]
  BY DEF Put
<1>4. \A x \in M: write[x] \in Write /\ write[x].record \in Record BY DEF Write
<1>5. \A x \in Member: patch[x] \in Seq(Write) /\ cache[x] \in Record BY DEF TypeOK
<1>6. \A x \in M: /\ patch'[x] \in Seq(Write) /\ patch'[x] # << >>
                   /\ patch'[x][Len(patch'[x])] = write[x]
  <2> SUFFICES ASSUME NEW x \in M
               PROVE  /\ patch'[x] \in Seq(Write) /\ patch'[x] # << >>
                      /\ patch'[x][Len(patch'[x])] = write[x]
    OBVIOUS
  <2>1. patch[x] \in Seq(Write) /\ write[x] \in Write /\ patch'[x] = Append(patch[x], write[x])
    BY <1>2, <1>4, <1>5
  <2> QED BY <2>1, Longer
<1>7. cache' \in [Member -> Record] BY <1>2, <1>3, <1>4, <1>5 DEF Put
<1>8. patch' \in [Member -> Seq(Write)] BY <1>3, <1>5, <1>6 DEF Put
<1>9. \A x \in M: Written(x)' = write[x].record BY <1>6 DEF Written
<1>10. \A x \in Member \ M: Written(x)' = Written(x) BY <1>3 DEF Written
<1> QED BY <1>2, <1>3, <1>6, <1>7, <1>8, <1>9, <1>10 DEF Wrote, Same

LEMMA PutOneGives ==
    ASSUME TypeOK, NEW m \in Member, NEW by \in {0} \cup Assignment,
           NEW record \in Record, PutOne(m, by, record), child' = child
    PROVE  /\ cache' \in [Member -> Record] /\ patch' \in [Member -> Seq(Write)]
           /\ Wrote(m, record)
           /\ \A x \in Member \ {m}: Same(x)
<1> DEFINE write == [x \in {m} |-> [by |-> by, record |-> record]]
<1>1. write \in [{m} -> Write] /\ write[m].record = record BY DEF Write
<1>2. Put(write) BY DEF PutOne
<1> DEFINE only == {m}
<1>3. only \in SUBSET Member OBVIOUS
<1>4. write \in [only -> Write] BY <1>1
<1> HIDE DEF write, only
<1>5. /\ cache' \in [Member -> Record] /\ patch' \in [Member -> Seq(Write)]
      /\ \A x \in only: Wrote(x, write[x].record)
      /\ \A x \in Member \ only: Same(x)
  BY <1>2, <1>3, <1>4, PutGives
<1> QED BY <1>1, <1>5 DEF only

LEMMA ReleaseAllGives ==
    ASSUME TypeOK, NEW members \in SUBSET Member, NEW n \in Assignment \cup {0},
           NEW by \in {0} \cup Assignment, ReleaseAll(members, n, by), child' = child
    PROVE  /\ cache' \in [Member -> Record] /\ patch' \in [Member -> Seq(Write)]
           /\ \A x \in members: cache[x].lease = n =>
                 Wrote(x, [cache[x] EXCEPT !.lease = 0])
           /\ \A x \in Member: x \notin members \/ cache[x].lease # n => Same(x)
<1> DEFINE held == {x \in members: cache[x].lease = n}
           write == [x \in held |->
                       [by |-> by, record |-> [cache[x] EXCEPT !.lease = 0]]]
<1>1. \A x \in Member: [cache[x] EXCEPT !.lease = 0] \in Record
  <2> SUFFICES ASSUME NEW x \in Member PROVE [cache[x] EXCEPT !.lease = 0] \in Record
    OBVIOUS
  <2>1. cache[x] \in Record BY DEF TypeOK
  <2> QED BY <2>1 DEF Record
<1>2. write \in [held -> Write] BY <1>1 DEF Write
<1>3. \A x \in held: write[x].record = [cache[x] EXCEPT !.lease = 0] OBVIOUS
<1>4. Put(write) BY DEF ReleaseAll
<1>5. held \in SUBSET Member /\ \A x \in members: x \in held <=> cache[x].lease = n
  OBVIOUS
<1>6. held \subseteq members OBVIOUS
<1> HIDE DEF write, held
<1>7. /\ cache' \in [Member -> Record] /\ patch' \in [Member -> Seq(Write)]
      /\ \A x \in held: Wrote(x, write[x].record)
      /\ \A x \in Member \ held: Same(x)
  BY <1>2, <1>4, <1>5, PutGives
<1> QED BY <1>3, <1>5, <1>6, <1>7

\* A sequence from which an element is taken, the first in particular.
LEMMA TakenOut ==
    ASSUME NEW S, NEW s \in Seq(S), NEW i \in DOMAIN s
    PROVE  RemoveAt(s, i) \in Seq(S)
<1>1. i \in 1..Len(s) OBVIOUS
<1>2. SubSeq(s, 1, i - 1) \in Seq(S) /\ SubSeq(s, i + 1, Len(s)) \in Seq(S) BY <1>1
<1> QED BY <1>2 DEF RemoveAt

LEMMA FirstTaken ==
    ASSUME NEW S, NEW s \in Seq(S), s # << >>
    PROVE  /\ RemoveAt(s, 1) = << >> => s[Len(s)] = s[1]
           /\ RemoveAt(s, 1) # << >> =>
                RemoveAt(s, 1)[Len(RemoveAt(s, 1))] = s[Len(s)]
<1> DEFINE front == SubSeq(s, 1, 0)
           rest == SubSeq(s, 2, Len(s))
<1>1. Len(s) \in Nat /\ Len(s) >= 1 OBVIOUS
<1>2. front = << >> BY <1>1
<1>3. rest \in Seq(S) /\ Len(rest) = Len(s) - 1
  <2> DEFINE length == Len(s)
  <2>1. length \in Nat \ {0} BY <1>1
  <2>2. \A j \in 2..length: s[j] \in S BY <1>1
  <2> HIDE DEF length
  <2>3. SubSeq(s, 2, length) \in Seq(S) BY <2>1, <2>2
  <2>4. Len(SubSeq(s, 2, length)) = IF 2 <= length THEN length - 1 ELSE 0 BY <2>1, <2>2
  <2>5. (IF 2 <= length THEN length - 1 ELSE 0) = length - 1 BY <2>1
  <2> QED BY <2>3, <2>4, <2>5 DEF length
<1>4. \A j \in 1..Len(rest): rest[j] = s[j + 1] BY <1>1
<1>5. RemoveAt(s, 1) = front \o rest BY <1>1 DEF RemoveAt
<1> HIDE DEF front, rest
<1>6. front \o rest = rest BY <1>2, <1>3
<1>7. RemoveAt(s, 1) = rest BY <1>5, <1>6
<1>8. rest = << >> => Len(s) = 1 BY <1>1, <1>3
<1>9. rest # << >> => Len(s) - 1 \in 1..Len(rest) BY <1>1, <1>3
<1>10. rest # << >> => rest[Len(rest)] = s[Len(s)] BY <1>1, <1>3, <1>4, <1>9
<1> QED BY <1>7, <1>8, <1>10

USE DEF Assignment, Idle, Other

LEMMA NoCallTyped == NoCall \in Call
BY DEF NoCall, Call, Blank, Record

\* The records that are written.
LEMMA RecordsTyped ==
    ASSUME TypeOK, NEW m \in Member
    PROVE  /\ [cache[m] EXCEPT !.reminded = TRUE] \in Record
           /\ Unlocked(m, cache) \in Record /\ Unlocked(m, call.saw) \in Record
           /\ \A n \in Assignment, tasks \in SUBSET Member: Assigned(m, n, tasks) \in Record
<1>1. cache[m] \in Record /\ call.saw[m] \in Record BY DEF TypeOK, Call
<1>2. [cache[m] EXCEPT !.reminded = TRUE] \in Record BY <1>1 DEF Record
<1>3. Unlocked(m, cache) \in Record BY <1>1 DEF Record, Unlocked
<1>4. Unlocked(m, call.saw) \in Record BY <1>1 DEF Record, Unlocked
<1>5. ASSUME NEW n \in Assignment, NEW tasks \in SUBSET Member
      PROVE  Assigned(m, n, tasks) \in Record
  <2>1. [Blank EXCEPT !.lease = n, !.of = n] \in Record BY DEF Blank, Record
  <2>2. [cache[m] EXCEPT !.lease = 0] \in Record BY <1>1 DEF Record
  <2> QED BY <2>1, <2>2 DEF Assigned
<1> QED BY <1>2, <1>3, <1>4, <1>5

\* The type invariant is inductive together with the part on what has been read.
LEMMA TypeStep ==
    ASSUME Bounded, TypeOK, StillAsRead, BeingMade, [Next]_vars
    PROVE  TypeOK'
<1> USE DEF Bounded
<1>1. /\ cache \in [Member -> Record] /\ child \in [Member -> Record]
      /\ patch \in [Member -> Seq(Write)] /\ call \in Call
      /\ made \in 0..MaxAssignments
      /\ call.tasks \in SUBSET Member /\ call.todo \in SUBSET Member
  BY DEF TypeOK, Call
<1>2. CASE UNCHANGED vars BY <1>2 DEF vars, TypeOK
<1>3. CASE Unavailable
  <2>1. ReleaseAll(call.tasks, made, 0) /\ child' = child BY <1>3 DEF Unavailable
  <2>2. made \in Assignment \cup {0} /\ 0 \in {0} \cup Assignment BY <1>1
  <2>3. cache' \in [Member -> Record] /\ patch' \in [Member -> Seq(Write)]
    BY <1>1, <2>1, <2>2, ReleaseAllGives
  <2>4. call' \in Call BY <1>1, <1>3 DEF Unavailable, Call
  <2> QED BY <1>3, <2>3, <2>4 DEF Unavailable, TypeOK
<1>4. CASE Available
  <2>1. call' \in Call BY <1>1, <1>4 DEF Available, Call
  <2> QED BY <1>4, <2>1 DEF Available, TypeOK
<1>5. CASE StartFails
  <2>1. ReleaseAll(call.todo, made, 0) /\ child' = child BY <1>5 DEF StartFails
  <2>2. made \in Assignment \cup {0} /\ 0 \in {0} \cup Assignment BY <1>1
  <2>3. cache' \in [Member -> Record] /\ patch' \in [Member -> Seq(Write)]
    BY <1>1, <2>1, <2>2, ReleaseAllGives
  <2>4. call' \in Call BY <1>1, <1>5 DEF StartFails, Call
  <2> QED BY <1>5, <2>3, <2>4 DEF StartFails, TypeOK
<1>6. CASE CallEnds BY <1>6, NoCallTyped DEF CallEnds, TypeOK
<1>7. ASSUME NEW m \in Member, Land(m) PROVE TypeOK'
  <2>1. PICK i \in DOMAIN patch[m]:
          /\ child' = [child EXCEPT ![m] = patch[m][i].record]
          /\ patch' = [patch EXCEPT ![m] = RemoveAt(@, i)]
    BY <1>7 DEF Land
  <2>2. patch[m] \in Seq(Write) /\ patch[m][i] \in Write BY <1>1
  <2>3. patch[m][i].record \in Record BY <2>2 DEF Write
  <2>4. child' \in [Member -> Record] BY <1>1, <2>1, <2>3
  <2>5. RemoveAt(patch[m], i) \in Seq(Write) BY <2>2, TakenOut
  <2>6. patch' \in [Member -> Seq(Write)] BY <1>1, <2>1, <2>5
  <2> QED BY <1>7, <2>4, <2>6 DEF Land, TypeOK
<1>8. ASSUME NEW m \in Member, Refresh(m) PROVE TypeOK'
  <2>1. cache' \in [Member -> Record] BY <1>1, <1>8 DEF Refresh
  <2> QED BY <1>8, <2>1 DEF Refresh, TypeOK
<1>9. ASSUME NEW m \in Member, NEW tasks \in SUBSET Member, Assign(tasks, m)
      PROVE  TypeOK'
  <2>1. made + 1 \in Assignment /\ made' = made + 1 BY <1>1, <1>9 DEF Assign
  <2>2. Assigned(m, made + 1, tasks) \in Record BY <2>1, RecordsTyped
  <2>3. cache' \in [Member -> Record] /\ patch' \in [Member -> Seq(Write)]
    BY <1>9, <2>2, PutOneGives DEF Assign
  <2>4. call' \in Call BY <1>9, NoCallTyped DEF Assign, Call
  <2>5. made' \in 0..MaxAssignments BY <2>1
  <2> QED BY <1>9, <2>3, <2>4, <2>5 DEF Assign, TypeOK
<1>10. ASSUME NEW m \in Member, AssignNext(m) PROVE TypeOK'
  <2>1. made \in Assignment BY <1>1, <1>10 DEF AssignNext, BeingMade
  <2>2. Assigned(m, made, call.tasks) \in Record BY <1>1, <2>1, RecordsTyped
  <2>3. cache' \in [Member -> Record] /\ patch' \in [Member -> Seq(Write)]
    BY <1>10, <2>2, PutOneGives DEF AssignNext
  <2>4. call' \in Call BY <1>1, <1>10 DEF AssignNext, Call
  <2> QED BY <1>10, <2>3, <2>4 DEF AssignNext, TypeOK
<1>11. ASSUME NEW m \in Member, Start(m) PROVE TypeOK'
  <2>1. call' \in Call BY <1>1, <1>11 DEF Start, Call
  <2>2. turn' \in [Member -> Idle..Other] BY <1>1, <1>11 DEF Start, TypeOK
  <2>3. observer' \in [Member -> [Assignment ->
           {"none", "waiting", "ended", "noting", "releasing", "done"}]]
    BY <1>1, <1>11 DEF Start, TypeOK
  <2> QED BY <1>11, <2>1, <2>2, <2>3 DEF Start, TypeOK
<1>12. ASSUME NEW m \in Member, Lock(m) PROVE TypeOK'
  <2>1. Unlocked(m, cache) \in Record BY RecordsTyped
  <2>2. cache' \in [Member -> Record] /\ patch' \in [Member -> Seq(Write)]
    BY <1>12, <2>1, PutOneGives DEF Lock
  <2>3. call' \in Call BY <1>1, <1>12, NoCallTyped DEF Lock, Call
  <2>4. cache[m].lease \in Assignment BY <1>1, <1>12 DEF Lock, Record
  <2>5. locked' \subseteq Member \X Assignment BY <1>12, <2>4 DEF Lock, TypeOK
  <2> QED BY <1>12, <2>2, <2>3, <2>5 DEF Lock, TypeOK
<1>13. ASSUME NEW m \in Member, LockNext(m) PROVE TypeOK'
  <2>1. Unlocked(m, call.saw) \in Record BY RecordsTyped
  <2>2. cache' \in [Member -> Record] /\ patch' \in [Member -> Seq(Write)]
    BY <1>13, <2>1, PutOneGives DEF LockNext
  <2>3. call' \in Call BY <1>1, <1>13 DEF LockNext, Call
  <2>4. call.saw[m] \in Record /\ call.saw[m].lease # 0
    BY <1>1, <1>13 DEF LockNext, Call, StillAsRead
  <2>5. call.saw[m].lease \in Assignment BY <2>4 DEF Record
  <2>6. locked' \subseteq Member \X Assignment BY <1>13, <2>5 DEF LockNext, TypeOK
  <2> QED BY <1>13, <2>2, <2>3, <2>6 DEF LockNext, TypeOK
<1>14. ASSUME NEW m \in Member, StartOther(m) PROVE TypeOK'
  <2>1. turn' \in [Member -> Idle..Other] BY <1>14 DEF StartOther, TypeOK
  <2> QED BY <1>14, <2>1 DEF StartOther, TypeOK
<1>15. ASSUME NEW m \in Member, EndTurn(m) PROVE TypeOK'
  <2>1. turn' \in [Member -> Idle..Other] BY <1>15 DEF EndTurn, TypeOK
  <2>2. observer' \in [Member -> [Assignment ->
           {"none", "waiting", "ended", "noting", "releasing", "done"}]]
    BY <1>15 DEF EndTurn, TypeOK
  <2> QED BY <1>15, <2>1, <2>2 DEF EndTurn, TypeOK
<1>16. ASSUME NEW m \in Member, Report(m) PROVE TypeOK'
  <2>1. child[m] \in Record /\ turn[m] \in Idle..Other BY DEF TypeOK
  <2>2. [child[m] EXCEPT !.reported = TRUE, !.reminded = FALSE] \in Record
    BY <2>1 DEF Record
  <2>3. child' = child \/ child' = [child EXCEPT ![m] =
          [child[m] EXCEPT !.reported = TRUE, !.reminded = FALSE]]
    BY <1>1, <1>16 DEF Report
  <2>4. child' \in [Member -> Record] BY <1>1, <2>2, <2>3
  <2>5. child[m].of # 0 => child[m].of \in Assignment BY <2>1 DEF Record
  <2>6. reported' \subseteq Member \X Assignment BY <1>16, <2>5 DEF Report, TypeOK
  <2>7. receipt' \in [Member -> BOOLEAN] BY <1>16 DEF Report, TypeOK
  <2> QED BY <1>16, <2>4, <2>6, <2>7 DEF Report, TypeOK
<1>17. ASSUME NEW m \in Member, Receipt(m) PROVE TypeOK'
  <2>1. child[m] \in Record BY DEF TypeOK
  <2>2. [child[m] EXCEPT !.received = TRUE] \in Record BY <2>1 DEF Record
  <2>3. child' = child \/ child' = [child EXCEPT ![m] =
          [child[m] EXCEPT !.received = TRUE]]
    BY <1>1, <1>17 DEF Receipt
  <2>4. child' \in [Member -> Record] BY <1>1, <2>2, <2>3
  <2>5. receipt' \in [Member -> BOOLEAN] BY <1>17 DEF Receipt, TypeOK
  <2> QED BY <1>17, <2>4, <2>5 DEF Receipt, TypeOK
<1>18. ASSUME NEW m \in Member, NEW n \in Assignment, Notify(m, n) PROVE TypeOK'
  <2>1. observer' \in [Member -> [Assignment ->
           {"none", "waiting", "ended", "noting", "releasing", "done"}]]
    <3>1. Becomes(m, n, "noting") \/ Becomes(m, n, "releasing") BY <1>18 DEF Notify
    <3>2. observer \in [Member -> [Assignment ->
             {"none", "waiting", "ended", "noting", "releasing", "done"}]]
      BY DEF TypeOK
    <3>3. CASE Becomes(m, n, "noting") BY <3>2, <3>3 DEF Becomes
    <3>4. CASE Becomes(m, n, "releasing") BY <3>2, <3>4 DEF Becomes
    <3> QED BY <3>1, <3>3, <3>4
  <2>2. cache' \in [Member -> Record] /\ patch' \in [Member -> Seq(Write)]
    <3>1. CASE UNCHANGED << cache, patch >> BY <1>1, <3>1
    <3>2. CASE PutOne(m, n, [cache[m] EXCEPT !.reminded = TRUE])
      BY <1>18, <3>2, PutOneGives, RecordsTyped DEF Notify
    <3> QED BY <1>18, <3>1, <3>2 DEF Notify
  <2> QED BY <1>18, <2>1, <2>2 DEF Notify, TypeOK
<1>19. ASSUME NEW m \in Member, NEW n \in Assignment, Remind(m, n) PROVE TypeOK'
  <2>1. observer' \in [Member -> [Assignment ->
           {"none", "waiting", "ended", "noting", "releasing", "done"}]]
    BY <1>19 DEF Remind, Becomes, TypeOK
  <2>2. told' \subseteq Member \X Assignment BY <1>19 DEF Remind, TypeOK
  <2> QED BY <1>19, <2>1, <2>2 DEF Remind, TypeOK
<1>20. ASSUME NEW m \in Member, NEW n \in Assignment, Release(m, n) PROVE TypeOK'
  <2>1. observer' \in [Member -> [Assignment ->
           {"none", "waiting", "ended", "noting", "releasing", "done"}]]
    BY <1>20 DEF Release, Becomes, TypeOK
  <2> DEFINE only == {m}
  <2>2. only \in SUBSET Member OBVIOUS
  <2>3. ReleaseAll(only, n, n) /\ child' = child BY <1>20 DEF Release
  <2> HIDE DEF only
  <2>4. cache' \in [Member -> Record] /\ patch' \in [Member -> Seq(Write)]
    BY <2>2, <2>3, ReleaseAllGives
  <2> QED BY <1>20, <2>1, <2>4 DEF Release, TypeOK
<1> QED BY <1>2, <1>3, <1>4, <1>5, <1>6, <1>7, <1>8, <1>9, <1>10, <1>11, <1>12,
           <1>13, <1>14, <1>15, <1>16, <1>17, <1>18, <1>19, <1>20 DEF Next

\* A write that lands is the next one, and what will be held is the same.
LEMMA LandKeeps ==
    ASSUME IInv, TypeOK', Coordinated, Bounded, NEW m \in Member, Land(m)
    PROVE  IInv'
<1> USE DEF Bounded
<1>1. /\ cache \in [Member -> Record] /\ child \in [Member -> Record] /\ call \in Call
      /\ made \in 0..MaxAssignments /\ turn \in [Member -> Idle..Other]
      /\ observer \in [Member -> [Assignment ->
           {"none", "waiting", "ended", "noting", "releasing", "done"}]]
  BY DEF IInv, TypeOK
<1>2. /\ made \in 0..MaxAssignments /\ call.tasks \subseteq Member /\ call.todo \subseteq Member
      /\ \A x \in Member: cache[x].lease \in 0..MaxAssignments /\ turn[x] \in 0..Other
  BY <1>1 DEF Call, Record
<1>3. /\ cache' = cache /\ call' = call /\ made' = made /\ turn' = turn
      /\ observer' = observer /\ told' = told /\ reported' = reported /\ locked' = locked
  BY DEF Land
<1>4. /\ 1 \in DOMAIN patch[m] /\ child' = [child EXCEPT ![m] = patch[m][1].record]
      /\ patch' = [patch EXCEPT ![m] = RemoveAt(@, 1)]
  BY DEF Land
<1>5. patch[m] \in Seq(Write) /\ patch[m] # << >>
  BY <1>4 DEF IInv, TypeOK
<1>6. /\ patch'[m] = RemoveAt(patch[m], 1) /\ child'[m] = patch[m][1].record
      /\ \A x \in Member \ {m}: patch'[x] = patch[x] /\ child'[x] = child[x]
  BY <1>1, <1>4 DEF IInv, TypeOK
<1>7. Written(m)' = Written(m)
  BY <1>5, <1>6, FirstTaken DEF Written
<1>8. \A x \in Member: Written(x)' = Written(x) /\ (patch'[x] # << >> => patch[x] # << >>)
  BY <1>5, <1>6, <1>7 DEF Written
<1>9. CopyAgrees'
  BY <1>2, <1>3, <1>6, <1>7, <1>8 DEF IInv, CopyAgrees
<1>10. LeaseForTask'
  BY <1>2, <1>3, <1>6, <1>7, <1>8 DEF IInv, LeaseForTask
<1>11. TurnsObserved'
  BY <1>2, <1>3, <1>6, <1>7, <1>8 DEF IInv, TurnsObserved
<1>12. NoneBefore'
  BY <1>2, <1>3, <1>6, <1>7, <1>8 DEF IInv, NoneBefore
<1>13. BeingMade'
  BY <1>2, <1>3, <1>6, <1>7, <1>8 DEF IInv, BeingMade
<1>14. StillAsRead'
  BY <1>2, <1>3, <1>6, <1>7, <1>8 DEF IInv, StillAsRead
<1>15. ReportKept'
  BY <1>2, <1>3, <1>6, <1>7, <1>8 DEF IInv, ReportKept
<1>16. ToldLate'
  <2> SUFFICES ASSUME NEW x \in Member, NEW k \in Assignment
        PROVE  /\ << x, k >> \in told' => observer'[x][k] \in {"releasing", "done"}
               /\ << x, k >> \in told' \/ observer'[x][k] = "noting" => << x, k >> \notin reported'
    BY DEF ToldLate
  <2>1. /\ << x, k >> \in told => observer[x][k] \in {"releasing", "done"}
        /\ << x, k >> \in told \/ observer[x][k] = "noting" => << x, k >> \notin reported
    BY DEF IInv, ToldLate
  <2> QED BY <1>2, <1>3, <1>6, <1>7, <1>8, <2>1
<1>17. LeaseFollowsTurn'
  <2> SUFFICES ASSUME NEW x \in Member, NEW k \in Assignment
        PROVE  /\ cache'[x].lease = k =>
                    \/ observer'[x][k] \notin {"none", "done"}
                    \/ k = made' /\ call'.does \in {"writing", "starting"}
               /\ turn'[x] = k => cache'[x].lease = k \/ << x, k >> \in locked'
    BY DEF LeaseFollowsTurn
  <2>1. /\ cache[x].lease = k =>
             \/ observer[x][k] \notin {"none", "done"}
             \/ k = made /\ call.does \in {"writing", "starting"}
        /\ turn[x] = k => cache[x].lease = k \/ << x, k >> \in locked
    BY DEF IInv, LeaseFollowsTurn
  <2> QED BY <1>2, <1>3, <1>6, <1>7, <1>8, <2>1
<1> QED BY <1>9, <1>10, <1>11, <1>12, <1>13, <1>14, <1>15, <1>16, <1>17 DEF IInv

\* The copy that is refreshed is what the member holds, for nothing is on its way.
LEMMA RefreshKeeps ==
    ASSUME IInv, TypeOK', Coordinated, Bounded, NEW m \in Member, Refresh(m)
    PROVE  IInv'
<1> USE DEF Bounded
<1>1. /\ cache \in [Member -> Record] /\ child \in [Member -> Record] /\ call \in Call
      /\ made \in 0..MaxAssignments /\ turn \in [Member -> Idle..Other]
      /\ observer \in [Member -> [Assignment ->
           {"none", "waiting", "ended", "noting", "releasing", "done"}]]
  BY DEF IInv, TypeOK
<1>2. /\ made \in 0..MaxAssignments /\ call.tasks \subseteq Member /\ call.todo \subseteq Member
      /\ \A x \in Member: cache[x].lease \in 0..MaxAssignments /\ turn[x] \in 0..Other
  BY <1>1 DEF Call, Record
<1>3. /\ child' = child /\ patch' = patch /\ call' = call /\ made' = made
      /\ turn' = turn /\ observer' = observer /\ told' = told /\ reported' = reported
      /\ locked' = locked
  BY DEF Refresh
<1>4. \A x \in Member: Written(x)' = Written(x)
  BY <1>3 DEF Written
<1>5. /\ patch[m] = << >> /\ cache'[m] = Written(m)
      /\ \A x \in Member \ {m}: cache'[x] = cache[x]
  BY <1>1 DEF Refresh, Written
<1>6. \A x \in Member: cache'[x].of = cache[x].of /\ cache'[x].lease = cache[x].lease
  BY <1>5 DEF IInv, CopyAgrees
<1>7. CopyAgrees'
  BY <1>2, <1>3, <1>4, <1>5, <1>6 DEF IInv, CopyAgrees
<1>8. LeaseForTask'
  BY <1>2, <1>3, <1>4, <1>5, <1>6 DEF IInv, LeaseForTask
<1>9. TurnsObserved'
  BY <1>2, <1>3, <1>4, <1>5, <1>6 DEF IInv, TurnsObserved
<1>10. NoneBefore'
  BY <1>2, <1>3, <1>4, <1>5, <1>6 DEF IInv, NoneBefore
<1>11. BeingMade'
  BY <1>2, <1>3, <1>4, <1>5, <1>6 DEF IInv, BeingMade
<1>12. StillAsRead'
  BY <1>2, <1>3, <1>4, <1>5, <1>6 DEF IInv, StillAsRead
<1>13. ReportKept'
  BY <1>2, <1>3, <1>4, <1>5, <1>6 DEF IInv, ReportKept
<1>14. ToldLate'
  <2> SUFFICES ASSUME NEW x \in Member, NEW k \in Assignment
        PROVE  /\ << x, k >> \in told' => observer'[x][k] \in {"releasing", "done"}
               /\ << x, k >> \in told' \/ observer'[x][k] = "noting" => << x, k >> \notin reported'
    BY DEF ToldLate
  <2>1. /\ << x, k >> \in told => observer[x][k] \in {"releasing", "done"}
        /\ << x, k >> \in told \/ observer[x][k] = "noting" => << x, k >> \notin reported
    BY DEF IInv, ToldLate
  <2> QED BY <1>2, <1>3, <1>4, <1>5, <1>6, <2>1
<1>15. LeaseFollowsTurn'
  <2> SUFFICES ASSUME NEW x \in Member, NEW k \in Assignment
        PROVE  /\ cache'[x].lease = k =>
                    \/ observer'[x][k] \notin {"none", "done"}
                    \/ k = made' /\ call'.does \in {"writing", "starting"}
               /\ turn'[x] = k => cache'[x].lease = k \/ << x, k >> \in locked'
    BY DEF LeaseFollowsTurn
  <2>1. /\ cache[x].lease = k =>
             \/ observer[x][k] \notin {"none", "done"}
             \/ k = made /\ call.does \in {"writing", "starting"}
        /\ turn[x] = k => cache[x].lease = k \/ << x, k >> \in locked
    BY DEF IInv, LeaseFollowsTurn
  <2> QED BY <1>2, <1>3, <1>4, <1>5, <1>6, <2>1
<1> QED BY <1>7, <1>8, <1>9, <1>10, <1>11, <1>12, <1>13, <1>14, <1>15 DEF IInv

\* The number of a new assignment is on no record.
LEMMA AssignKeeps ==
    ASSUME IInv, TypeOK', Coordinated, Bounded,
           NEW tasks \in SUBSET Member, NEW m \in Member, Assign(tasks, m)
    PROVE  IInv'
<1> USE DEF Bounded
<1>1. /\ cache \in [Member -> Record] /\ child \in [Member -> Record] /\ call \in Call
      /\ made \in 0..MaxAssignments /\ turn \in [Member -> Idle..Other]
      /\ observer \in [Member -> [Assignment ->
           {"none", "waiting", "ended", "noting", "releasing", "done"}]]
  BY DEF IInv, TypeOK
<1>2. /\ made \in 0..MaxAssignments /\ call.tasks \subseteq Member /\ call.todo \subseteq Member
      /\ \A x \in Member: cache[x].lease \in 0..MaxAssignments /\ turn[x] \in 0..Other
  BY <1>1 DEF Call, Record
<1>3. /\ child' = child /\ turn' = turn /\ observer' = observer /\ told' = told
      /\ reported' = reported /\ locked' = locked
  BY DEF Assign
<1>4. /\ made' = made + 1 /\ made + 1 \in Assignment /\ call.does = "nothing"
      /\ \A x \in Member: turn[x] = Idle
  BY <1>1 DEF Assign
<1>5. call' = [NoCall EXCEPT !.does = "writing", !.tasks = tasks, !.todo = Member \ {m}]
  BY DEF Assign
<1>6. call'.does = "writing" /\ call'.tasks = tasks /\ call'.todo = Member \ {m}
  BY <1>5 DEF NoCall
<1>7. Wrote(m, Assigned(m, made + 1, tasks)) /\ \A x \in Member \ {m}: Same(x)
  BY <1>3, <1>4, PutOneGives, RecordsTyped DEF IInv, Assign
<1>8. /\ m \in tasks => Assigned(m, made + 1, tasks).lease = made + 1 /\ Assigned(m, made + 1, tasks).of = made + 1
      /\ m \notin tasks => /\ Assigned(m, made + 1, tasks).lease = 0
                            /\ Assigned(m, made + 1, tasks).of = cache[m].of
                            /\ Assigned(m, made + 1, tasks).reported = cache[m].reported
  BY <1>1, ZenonT(60) DEF Assigned, Blank, Record
<1>9. /\ Written(m)' = cache'[m]
      /\ m \in tasks => cache'[m].lease = made + 1 /\ cache'[m].of = made + 1
      /\ m \notin tasks => /\ cache'[m].lease = 0 /\ cache'[m].of = cache[m].of
                            /\ cache'[m].reported = cache[m].reported
      /\ \A x \in Member \ {m}: cache'[x] = cache[x] /\ Written(x)' = Written(x) /\ patch'[x] = patch[x]
  BY <1>7, <1>8 DEF Wrote, Same
<1>10. \A x \in Member: cache[x].lease \in 0..made
  <2> SUFFICES ASSUME NEW x \in Member, cache[x].lease # 0 PROVE cache[x].lease <= made
    BY <1>1, <1>4 DEF Record
  <2>1. cache[x].lease \in Assignment BY <1>1 DEF Record
  <2>2. observer[x][cache[x].lease] # "none" BY <1>4, <2>1 DEF IInv, LeaseFollowsTurn
  <2> QED BY <2>1, <2>2 DEF IInv, NoneBefore
<1>11. CopyAgrees'
  BY <1>2, <1>3, <1>4, <1>6, <1>9, <1>10 DEF IInv, CopyAgrees
<1>12. LeaseForTask'
  BY <1>2, <1>3, <1>4, <1>6, <1>9, <1>10 DEF IInv, LeaseForTask
<1>13. TurnsObserved'
  BY <1>2, <1>3, <1>4, <1>6, <1>9, <1>10 DEF IInv, TurnsObserved
<1>14. NoneBefore'
  BY <1>2, <1>3, <1>4, <1>6, <1>9, <1>10 DEF IInv, NoneBefore
<1>15. BeingMade'
  BY <1>2, <1>3, <1>4, <1>6, <1>9, <1>10 DEF IInv, BeingMade
<1>16. StillAsRead'
  BY <1>2, <1>3, <1>4, <1>6, <1>9, <1>10 DEF IInv, StillAsRead
<1>17. ReportKept'
  BY <1>2, <1>3, <1>4, <1>6, <1>9, <1>10 DEF IInv, ReportKept, NoneBefore
<1>18. ToldLate'
  <2> SUFFICES ASSUME NEW x \in Member, NEW k \in Assignment
        PROVE  /\ << x, k >> \in told' => observer'[x][k] \in {"releasing", "done"}
               /\ << x, k >> \in told' \/ observer'[x][k] = "noting" => << x, k >> \notin reported'
    BY DEF ToldLate
  <2>1. /\ << x, k >> \in told => observer[x][k] \in {"releasing", "done"}
        /\ << x, k >> \in told \/ observer[x][k] = "noting" => << x, k >> \notin reported
    BY DEF IInv, ToldLate
  <2> QED BY <1>2, <1>3, <1>4, <1>6, <1>9, <1>10, <2>1
<1>19. LeaseFollowsTurn'
  <2> SUFFICES ASSUME NEW x \in Member, NEW k \in Assignment
        PROVE  /\ cache'[x].lease = k =>
                    \/ observer'[x][k] \notin {"none", "done"}
                    \/ k = made' /\ call'.does \in {"writing", "starting"}
               /\ turn'[x] = k => cache'[x].lease = k \/ << x, k >> \in locked'
    BY DEF LeaseFollowsTurn
  <2>1. /\ cache[x].lease = k =>
             \/ observer[x][k] \notin {"none", "done"}
             \/ k = made /\ call.does \in {"writing", "starting"}
        /\ turn[x] = k => cache[x].lease = k \/ << x, k >> \in locked
    BY DEF IInv, LeaseFollowsTurn
  <2> QED BY <1>2, <1>3, <1>4, <1>6, <1>9, <1>10, <2>1
<1> QED BY <1>11, <1>12, <1>13, <1>14, <1>15, <1>16, <1>17, <1>18, <1>19 DEF IInv

\* The next round of the loop writes the record of another member.
LEMMA AssignNextKeeps ==
    ASSUME IInv, TypeOK', Coordinated, Bounded, NEW m \in Member, AssignNext(m)
    PROVE  IInv'
<1> USE DEF Bounded
<1>1. /\ cache \in [Member -> Record] /\ child \in [Member -> Record] /\ call \in Call
      /\ made \in 0..MaxAssignments /\ turn \in [Member -> Idle..Other]
      /\ observer \in [Member -> [Assignment ->
           {"none", "waiting", "ended", "noting", "releasing", "done"}]]
  BY DEF IInv, TypeOK
<1>2. /\ made \in 0..MaxAssignments /\ call.tasks \subseteq Member /\ call.todo \subseteq Member
      /\ \A x \in Member: cache[x].lease \in 0..MaxAssignments /\ turn[x] \in 0..Other
  BY <1>1 DEF Call, Record
<1>3. /\ child' = child /\ made' = made /\ turn' = turn /\ observer' = observer
      /\ told' = told /\ reported' = reported /\ locked' = locked
  BY DEF AssignNext
<1>4. call.does = "writing" /\ m \in call.todo /\ made \in Assignment
  BY <1>1 DEF AssignNext, IInv, BeingMade
<1>5. call' = [call EXCEPT !.todo = @ \ {m}]
  BY DEF AssignNext
<1>6. call'.does = "writing" /\ call'.tasks = call.tasks /\ call'.todo = call.todo \ {m}
  BY <1>1, <1>4, <1>5 DEF Call
<1>7. call.tasks \in SUBSET Member
  BY <1>1 DEF Call
<1>8. Wrote(m, Assigned(m, made, call.tasks)) /\ \A x \in Member \ {m}: Same(x)
  BY <1>3, <1>4, <1>7, PutOneGives, RecordsTyped DEF IInv, AssignNext
<1>9. /\ m \in call.tasks => Assigned(m, made, call.tasks).lease = made /\ Assigned(m, made, call.tasks).of = made
      /\ m \notin call.tasks => /\ Assigned(m, made, call.tasks).lease = 0
                                /\ Assigned(m, made, call.tasks).of = cache[m].of
                                /\ Assigned(m, made, call.tasks).reported = cache[m].reported
  BY <1>1 DEF Assigned, Blank, Record
<1>10. /\ Written(m)' = cache'[m]
       /\ m \in call.tasks => cache'[m].lease = made /\ cache'[m].of = made
       /\ m \notin call.tasks => /\ cache'[m].lease = 0 /\ cache'[m].of = cache[m].of
                                 /\ cache'[m].reported = cache[m].reported
       /\ \A x \in Member \ {m}: cache'[x] = cache[x] /\ Written(x)' = Written(x) /\ patch'[x] = patch[x]
  BY <1>8, <1>9 DEF Wrote, Same
<1>11. CopyAgrees'
  BY <1>2, <1>3, <1>4, <1>6, <1>10 DEF IInv, CopyAgrees
<1>12. LeaseForTask'
  BY <1>2, <1>3, <1>4, <1>6, <1>10 DEF IInv, LeaseForTask
<1>13. TurnsObserved'
  BY <1>2, <1>3, <1>4, <1>6, <1>10 DEF IInv, TurnsObserved, BeingMade
<1>14. NoneBefore'
  BY <1>2, <1>3, <1>4, <1>6, <1>10 DEF IInv, NoneBefore
<1>15. BeingMade'
  BY <1>2, <1>3, <1>4, <1>6, <1>10 DEF IInv, BeingMade
<1>16. StillAsRead'
  BY <1>2, <1>3, <1>4, <1>6, <1>10 DEF IInv, StillAsRead
<1>17. ReportKept'
  BY <1>2, <1>3, <1>4, <1>6, <1>10 DEF IInv, ReportKept, NoneBefore, BeingMade
<1>18. ToldLate'
  <2> SUFFICES ASSUME NEW x \in Member, NEW k \in Assignment
        PROVE  /\ << x, k >> \in told' => observer'[x][k] \in {"releasing", "done"}
               /\ << x, k >> \in told' \/ observer'[x][k] = "noting" => << x, k >> \notin reported'
    BY DEF ToldLate
  <2>1. /\ << x, k >> \in told => observer[x][k] \in {"releasing", "done"}
        /\ << x, k >> \in told \/ observer[x][k] = "noting" => << x, k >> \notin reported
    BY DEF IInv, ToldLate
  <2> QED BY <1>2, <1>3, <1>4, <1>6, <1>10, <2>1
<1>19. LeaseFollowsTurn'
  <2> SUFFICES ASSUME NEW x \in Member, NEW k \in Assignment
        PROVE  /\ cache'[x].lease = k =>
                    \/ observer'[x][k] \notin {"none", "done"}
                    \/ k = made' /\ call'.does \in {"writing", "starting"}
               /\ turn'[x] = k => cache'[x].lease = k \/ << x, k >> \in locked'
    BY DEF LeaseFollowsTurn
  <2>1. /\ cache[x].lease = k =>
             \/ observer[x][k] \notin {"none", "done"}
             \/ k = made /\ call.does \in {"writing", "starting"}
        /\ turn[x] = k => cache[x].lease = k \/ << x, k >> \in locked
    BY DEF IInv, LeaseFollowsTurn
  <2> QED BY <1>2, <1>3, <1>4, <1>6, <1>10, <2>1 DEF IInv, BeingMade
<1> QED BY <1>11, <1>12, <1>13, <1>14, <1>15, <1>16, <1>17, <1>18, <1>19 DEF IInv

\* The leases of an assignment that is called off go, and only those.
LEMMA UnavailableKeeps ==
    ASSUME IInv, TypeOK', Coordinated, Bounded, Unavailable
    PROVE  IInv'
<1> USE DEF Bounded
<1>1. /\ cache \in [Member -> Record] /\ child \in [Member -> Record] /\ call \in Call
      /\ made \in 0..MaxAssignments /\ turn \in [Member -> Idle..Other]
      /\ observer \in [Member -> [Assignment ->
           {"none", "waiting", "ended", "noting", "releasing", "done"}]]
  BY DEF IInv, TypeOK
<1>2. /\ made \in 0..MaxAssignments /\ call.tasks \subseteq Member /\ call.todo \subseteq Member
      /\ \A x \in Member: cache[x].lease \in 0..MaxAssignments /\ turn[x] \in 0..Other
  BY <1>1 DEF Call, Record
<1>3. /\ child' = child /\ made' = made /\ turn' = turn /\ observer' = observer
      /\ told' = told /\ reported' = reported /\ locked' = locked
  BY DEF Unavailable
<1>4. call.does = "writing" /\ call.todo = {}
  BY DEF Unavailable
<1>5. call' = [call EXCEPT !.does = "cleaning"]
  BY DEF Unavailable
<1>6. call'.does = "cleaning"
  BY <1>1, <1>5 DEF Call
<1>7. call.tasks \in SUBSET Member /\ call.todo \in SUBSET Member
  BY <1>1 DEF Call
<1>8. made \in Assignment /\ 0 \in {0} \cup Assignment
  BY <1>1, <1>4 DEF IInv, BeingMade
<1>9. ReleaseAll(call.tasks, made, 0)
  BY DEF Unavailable
<1>10. /\ \A x \in call.tasks: cache[x].lease = made =>
            Wrote(x, [cache[x] EXCEPT !.lease = 0])
       /\ \A x \in Member: x \notin call.tasks \/ cache[x].lease # made => Same(x)
  BY <1>3, <1>7, <1>8, <1>9, ReleaseAllGives DEF IInv
<1>11. /\ \A x \in Member: x \in call.tasks /\ cache[x].lease = made =>
            /\ cache'[x].lease = 0 /\ cache'[x].of = cache[x].of
            /\ cache'[x].reported = cache[x].reported /\ Written(x)' = cache'[x]
       /\ \A x \in Member: ~ (x \in call.tasks /\ cache[x].lease = made) =>
            cache'[x] = cache[x] /\ Written(x)' = Written(x) /\ patch'[x] = patch[x]
  <2>1. ASSUME NEW x \in Member, Wrote(x, [cache[x] EXCEPT !.lease = 0])
        PROVE  /\ cache'[x].lease = 0 /\ cache'[x].of = cache[x].of
               /\ cache'[x].reported = cache[x].reported /\ Written(x)' = cache'[x]
    <3>1. cache[x] \in Record BY <1>1
    <3> QED BY <2>1, <3>1 DEF Wrote, Record
  <2>2. ASSUME NEW x \in Member, Same(x)
        PROVE  cache'[x] = cache[x] /\ Written(x)' = Written(x) /\ patch'[x] = patch[x]
    BY <2>2 DEF Same
  <2> QED BY <1>7, <1>10, <2>1, <2>2
<1>12. CopyAgrees'
  BY <1>2, <1>3, <1>4, <1>6, <1>8, <1>11 DEF IInv, CopyAgrees
<1>13. LeaseForTask'
  BY <1>2, <1>3, <1>4, <1>6, <1>8, <1>11 DEF IInv, LeaseForTask
<1>14. TurnsObserved'
  BY <1>2, <1>3, <1>4, <1>6, <1>8, <1>11 DEF IInv, TurnsObserved
<1>15. NoneBefore'
  BY <1>2, <1>3, <1>4, <1>6, <1>8, <1>11 DEF IInv, NoneBefore
<1>16. BeingMade'
  BY <1>2, <1>3, <1>4, <1>6, <1>8, <1>11 DEF IInv, BeingMade
<1>17. StillAsRead'
  BY <1>2, <1>3, <1>4, <1>6, <1>8, <1>11 DEF IInv, StillAsRead
<1>18. ReportKept'
  BY <1>2, <1>3, <1>4, <1>6, <1>8, <1>11 DEF IInv, ReportKept, BeingMade
<1>19. ToldLate'
  <2> SUFFICES ASSUME NEW x \in Member, NEW k \in Assignment
        PROVE  /\ << x, k >> \in told' => observer'[x][k] \in {"releasing", "done"}
               /\ << x, k >> \in told' \/ observer'[x][k] = "noting" => << x, k >> \notin reported'
    BY DEF ToldLate
  <2>1. /\ << x, k >> \in told => observer[x][k] \in {"releasing", "done"}
        /\ << x, k >> \in told \/ observer[x][k] = "noting" => << x, k >> \notin reported
    BY DEF IInv, ToldLate
  <2> QED BY <1>2, <1>3, <1>4, <1>6, <1>8, <1>11, <2>1
<1>20. LeaseFollowsTurn'
  <2> SUFFICES ASSUME NEW x \in Member, NEW k \in Assignment
        PROVE  /\ cache'[x].lease = k =>
                    \/ observer'[x][k] \notin {"none", "done"}
                    \/ k = made' /\ call'.does \in {"writing", "starting"}
               /\ turn'[x] = k => cache'[x].lease = k \/ << x, k >> \in locked'
    BY DEF LeaseFollowsTurn
  <2>1. /\ cache[x].lease = k =>
             \/ observer[x][k] \notin {"none", "done"}
             \/ k = made /\ call.does \in {"writing", "starting"}
        /\ turn[x] = k => cache[x].lease = k \/ << x, k >> \in locked
    BY DEF IInv, LeaseFollowsTurn
  <2> QED BY <1>2, <1>3, <1>4, <1>6, <1>8, <1>11, <2>1 DEF IInv, BeingMade
<1> QED BY <1>12, <1>13, <1>14, <1>15, <1>16, <1>17, <1>18, <1>19, <1>20 DEF IInv

\* Every member with a task has been served when the turns begin.
LEMMA AvailableKeeps ==
    ASSUME IInv, TypeOK', Coordinated, Bounded, Available
    PROVE  IInv'
<1> USE DEF Bounded
<1>1. /\ cache \in [Member -> Record] /\ child \in [Member -> Record] /\ call \in Call
      /\ made \in 0..MaxAssignments /\ turn \in [Member -> Idle..Other]
      /\ observer \in [Member -> [Assignment ->
           {"none", "waiting", "ended", "noting", "releasing", "done"}]]
  BY DEF IInv, TypeOK
<1>2. /\ made \in 0..MaxAssignments /\ call.tasks \subseteq Member /\ call.todo \subseteq Member
      /\ \A x \in Member: cache[x].lease \in 0..MaxAssignments /\ turn[x] \in 0..Other
  BY <1>1 DEF Call, Record
<1>3. /\ cache' = cache /\ child' = child /\ patch' = patch /\ made' = made
      /\ turn' = turn /\ observer' = observer /\ told' = told /\ reported' = reported
      /\ locked' = locked
  BY DEF Available
<1>4. call.does = "writing" /\ call.todo = {} /\ \A x \in call.tasks: turn[x] = Idle
  BY DEF Available
<1>5. call' = [call EXCEPT !.does = "starting", !.todo = call.tasks]
  BY DEF Available
<1>6. call'.does = "starting" /\ call'.todo = call.tasks /\ call.tasks \in SUBSET Member
  BY <1>1, <1>5 DEF Call
<1>7. \A x \in Member: Written(x)' = Written(x)
  BY <1>3 DEF Written
<1>8. CopyAgrees'
  BY <1>2, <1>3, <1>4, <1>6, <1>7 DEF IInv, CopyAgrees
<1>9. LeaseForTask'
  BY <1>2, <1>3, <1>4, <1>6, <1>7 DEF IInv, LeaseForTask
<1>10. TurnsObserved'
  BY <1>2, <1>3, <1>4, <1>6, <1>7 DEF IInv, TurnsObserved
<1>11. NoneBefore'
  BY <1>2, <1>3, <1>4, <1>6, <1>7 DEF IInv, NoneBefore
<1>12. BeingMade'
  BY <1>2, <1>3, <1>4, <1>6, <1>7 DEF IInv, BeingMade
<1>13. StillAsRead'
  BY <1>2, <1>3, <1>4, <1>6, <1>7 DEF IInv, StillAsRead
<1>14. ReportKept'
  BY <1>2, <1>3, <1>4, <1>6, <1>7 DEF IInv, ReportKept
<1>15. ToldLate'
  <2> SUFFICES ASSUME NEW x \in Member, NEW k \in Assignment
        PROVE  /\ << x, k >> \in told' => observer'[x][k] \in {"releasing", "done"}
               /\ << x, k >> \in told' \/ observer'[x][k] = "noting" => << x, k >> \notin reported'
    BY DEF ToldLate
  <2>1. /\ << x, k >> \in told => observer[x][k] \in {"releasing", "done"}
        /\ << x, k >> \in told \/ observer[x][k] = "noting" => << x, k >> \notin reported
    BY DEF IInv, ToldLate
  <2> QED BY <1>2, <1>3, <1>4, <1>6, <1>7, <2>1
<1>16. LeaseFollowsTurn'
  <2> SUFFICES ASSUME NEW x \in Member, NEW k \in Assignment
        PROVE  /\ cache'[x].lease = k =>
                    \/ observer'[x][k] \notin {"none", "done"}
                    \/ k = made' /\ call'.does \in {"writing", "starting"}
               /\ turn'[x] = k => cache'[x].lease = k \/ << x, k >> \in locked'
    BY DEF LeaseFollowsTurn
  <2>1. /\ cache[x].lease = k =>
             \/ observer[x][k] \notin {"none", "done"}
             \/ k = made /\ call.does \in {"writing", "starting"}
        /\ turn[x] = k => cache[x].lease = k \/ << x, k >> \in locked
    BY DEF IInv, LeaseFollowsTurn
  <2> QED BY <1>2, <1>3, <1>4, <1>6, <1>7, <2>1
<1> QED BY <1>8, <1>9, <1>10, <1>11, <1>12, <1>13, <1>14, <1>15, <1>16 DEF IInv

\* The leases that no observer answers for go.
LEMMA StartFailsKeeps ==
    ASSUME IInv, TypeOK', Coordinated, Bounded, StartFails
    PROVE  IInv'
<1> USE DEF Bounded
<1>1. /\ cache \in [Member -> Record] /\ child \in [Member -> Record] /\ call \in Call
      /\ made \in 0..MaxAssignments /\ turn \in [Member -> Idle..Other]
      /\ observer \in [Member -> [Assignment ->
           {"none", "waiting", "ended", "noting", "releasing", "done"}]]
  BY DEF IInv, TypeOK
<1>2. /\ made \in 0..MaxAssignments /\ call.tasks \subseteq Member /\ call.todo \subseteq Member
      /\ \A x \in Member: cache[x].lease \in 0..MaxAssignments /\ turn[x] \in 0..Other
  BY <1>1 DEF Call, Record
<1>3. /\ child' = child /\ made' = made /\ turn' = turn /\ observer' = observer
      /\ told' = told /\ reported' = reported /\ locked' = locked
  BY DEF StartFails
<1>4. call.does = "starting"
  BY DEF StartFails
<1>5. call' = [call EXCEPT !.does = "cleaning"]
  BY DEF StartFails
<1>6. call'.does = "cleaning"
  BY <1>1, <1>5 DEF Call
<1>7. call.tasks \in SUBSET Member /\ call.todo \in SUBSET Member
  BY <1>1 DEF Call
<1>8. made \in Assignment /\ 0 \in {0} \cup Assignment
  BY <1>1, <1>4 DEF IInv, BeingMade
<1>9. ReleaseAll(call.todo, made, 0)
  BY DEF StartFails
<1>10. /\ \A x \in call.todo: cache[x].lease = made =>
            Wrote(x, [cache[x] EXCEPT !.lease = 0])
       /\ \A x \in Member: x \notin call.todo \/ cache[x].lease # made => Same(x)
  BY <1>3, <1>7, <1>8, <1>9, ReleaseAllGives DEF IInv
<1>11. /\ \A x \in Member: x \in call.todo /\ cache[x].lease = made =>
            /\ cache'[x].lease = 0 /\ cache'[x].of = cache[x].of
            /\ cache'[x].reported = cache[x].reported /\ Written(x)' = cache'[x]
       /\ \A x \in Member: ~ (x \in call.todo /\ cache[x].lease = made) =>
            cache'[x] = cache[x] /\ Written(x)' = Written(x) /\ patch'[x] = patch[x]
  <2>1. ASSUME NEW x \in Member, Wrote(x, [cache[x] EXCEPT !.lease = 0])
        PROVE  /\ cache'[x].lease = 0 /\ cache'[x].of = cache[x].of
               /\ cache'[x].reported = cache[x].reported /\ Written(x)' = cache'[x]
    <3>1. cache[x] \in Record BY <1>1
    <3> QED BY <2>1, <3>1 DEF Wrote, Record
  <2>2. ASSUME NEW x \in Member, Same(x)
        PROVE  cache'[x] = cache[x] /\ Written(x)' = Written(x) /\ patch'[x] = patch[x]
    BY <2>2 DEF Same
  <2> QED BY <1>7, <1>10, <2>1, <2>2
<1>12. CopyAgrees'
  BY <1>2, <1>3, <1>4, <1>6, <1>8, <1>11 DEF IInv, CopyAgrees
<1>13. LeaseForTask'
  BY <1>2, <1>3, <1>4, <1>6, <1>8, <1>11 DEF IInv, LeaseForTask
<1>14. TurnsObserved'
  BY <1>2, <1>3, <1>4, <1>6, <1>8, <1>11 DEF IInv, TurnsObserved
<1>15. NoneBefore'
  BY <1>2, <1>3, <1>4, <1>6, <1>8, <1>11 DEF IInv, NoneBefore
<1>16. BeingMade'
  BY <1>2, <1>3, <1>4, <1>6, <1>8, <1>11 DEF IInv, BeingMade
<1>17. StillAsRead'
  BY <1>2, <1>3, <1>4, <1>6, <1>8, <1>11 DEF IInv, StillAsRead
<1>18. ReportKept'
  BY <1>2, <1>3, <1>4, <1>6, <1>8, <1>11 DEF IInv, ReportKept, BeingMade
<1>19. ToldLate'
  <2> SUFFICES ASSUME NEW x \in Member, NEW k \in Assignment
        PROVE  /\ << x, k >> \in told' => observer'[x][k] \in {"releasing", "done"}
               /\ << x, k >> \in told' \/ observer'[x][k] = "noting" => << x, k >> \notin reported'
    BY DEF ToldLate
  <2>1. /\ << x, k >> \in told => observer[x][k] \in {"releasing", "done"}
        /\ << x, k >> \in told \/ observer[x][k] = "noting" => << x, k >> \notin reported
    BY DEF IInv, ToldLate
  <2> QED BY <1>2, <1>3, <1>4, <1>6, <1>8, <1>11, <2>1
<1>20. LeaseFollowsTurn'
  <2> SUFFICES ASSUME NEW x \in Member, NEW k \in Assignment
        PROVE  /\ cache'[x].lease = k =>
                    \/ observer'[x][k] \notin {"none", "done"}
                    \/ k = made' /\ call'.does \in {"writing", "starting"}
               /\ turn'[x] = k => cache'[x].lease = k \/ << x, k >> \in locked'
    BY DEF LeaseFollowsTurn
  <2>1. /\ cache[x].lease = k =>
             \/ observer[x][k] \notin {"none", "done"}
             \/ k = made /\ call.does \in {"writing", "starting"}
        /\ turn[x] = k => cache[x].lease = k \/ << x, k >> \in locked
    BY DEF IInv, LeaseFollowsTurn
  <2> QED BY <1>2, <1>3, <1>4, <1>6, <1>8, <1>11, <2>1 DEF IInv, BeingMade
<1> QED BY <1>12, <1>13, <1>14, <1>15, <1>16, <1>17, <1>18, <1>19, <1>20 DEF IInv

\* The call leaves no lease that nobody answers for.
LEMMA CallEndsKeeps ==
    ASSUME IInv, TypeOK', Coordinated, Bounded, CallEnds
    PROVE  IInv'
<1> USE DEF Bounded
<1>1. /\ cache \in [Member -> Record] /\ child \in [Member -> Record] /\ call \in Call
      /\ made \in 0..MaxAssignments /\ turn \in [Member -> Idle..Other]
      /\ observer \in [Member -> [Assignment ->
           {"none", "waiting", "ended", "noting", "releasing", "done"}]]
  BY DEF IInv, TypeOK
<1>2. /\ made \in 0..MaxAssignments /\ call.tasks \subseteq Member /\ call.todo \subseteq Member
      /\ \A x \in Member: cache[x].lease \in 0..MaxAssignments /\ turn[x] \in 0..Other
  BY <1>1 DEF Call, Record
<1>3. /\ cache' = cache /\ child' = child /\ patch' = patch /\ made' = made
      /\ turn' = turn /\ observer' = observer /\ told' = told /\ reported' = reported
      /\ locked' = locked
  BY DEF CallEnds
<1>4. call.does = "cleaning" \/ (call.does \in {"starting", "locking"} /\ call.todo = {})
  BY DEF CallEnds
<1>5. call'.does = "nothing"
  BY DEF CallEnds, NoCall
<1>6. \A x \in Member: Written(x)' = Written(x)
  BY <1>3 DEF Written
<1>7. CopyAgrees'
  BY <1>2, <1>3, <1>4, <1>5, <1>6 DEF IInv, CopyAgrees
<1>8. LeaseForTask'
  BY <1>2, <1>3, <1>4, <1>5, <1>6 DEF IInv, LeaseForTask
<1>9. TurnsObserved'
  BY <1>2, <1>3, <1>4, <1>5, <1>6 DEF IInv, TurnsObserved
<1>10. NoneBefore'
  BY <1>2, <1>3, <1>4, <1>5, <1>6 DEF IInv, NoneBefore
<1>11. BeingMade'
  BY <1>2, <1>3, <1>4, <1>5, <1>6 DEF IInv, BeingMade
<1>12. StillAsRead'
  BY <1>2, <1>3, <1>4, <1>5, <1>6 DEF IInv, StillAsRead
<1>13. ReportKept'
  BY <1>2, <1>3, <1>4, <1>5, <1>6 DEF IInv, ReportKept
<1>14. ToldLate'
  <2> SUFFICES ASSUME NEW x \in Member, NEW k \in Assignment
        PROVE  /\ << x, k >> \in told' => observer'[x][k] \in {"releasing", "done"}
               /\ << x, k >> \in told' \/ observer'[x][k] = "noting" => << x, k >> \notin reported'
    BY DEF ToldLate
  <2>1. /\ << x, k >> \in told => observer[x][k] \in {"releasing", "done"}
        /\ << x, k >> \in told \/ observer[x][k] = "noting" => << x, k >> \notin reported
    BY DEF IInv, ToldLate
  <2> QED BY <1>2, <1>3, <1>4, <1>5, <1>6, <2>1
<1>15. LeaseFollowsTurn'
  <2> SUFFICES ASSUME NEW x \in Member, NEW k \in Assignment
        PROVE  /\ cache'[x].lease = k =>
                    \/ observer'[x][k] \notin {"none", "done"}
                    \/ k = made' /\ call'.does \in {"writing", "starting"}
               /\ turn'[x] = k => cache'[x].lease = k \/ << x, k >> \in locked'
    BY DEF LeaseFollowsTurn
  <2>1. /\ cache[x].lease = k =>
             \/ observer[x][k] \notin {"none", "done"}
             \/ k = made /\ call.does \in {"writing", "starting"}
        /\ turn[x] = k => cache[x].lease = k \/ << x, k >> \in locked
    BY DEF IInv, LeaseFollowsTurn
  <2> QED BY <1>2, <1>3, <1>4, <1>5, <1>6, <2>1 DEF IInv, BeingMade
<1> QED BY <1>7, <1>8, <1>9, <1>10, <1>11, <1>12, <1>13, <1>14, <1>15 DEF IInv

\* The turn of the assignment begins, and somebody waits for its end.
LEMMA StartKeeps ==
    ASSUME IInv, TypeOK', Coordinated, Bounded, NEW m \in Member, Start(m)
    PROVE  IInv'
<1> USE DEF Bounded
<1>1. /\ cache \in [Member -> Record] /\ child \in [Member -> Record] /\ call \in Call
      /\ made \in 0..MaxAssignments /\ turn \in [Member -> Idle..Other]
      /\ observer \in [Member -> [Assignment ->
           {"none", "waiting", "ended", "noting", "releasing", "done"}]]
  BY DEF IInv, TypeOK
<1>2. /\ made \in 0..MaxAssignments /\ call.tasks \subseteq Member /\ call.todo \subseteq Member
      /\ \A x \in Member: cache[x].lease \in 0..MaxAssignments /\ turn[x] \in 0..Other
  BY <1>1 DEF Call, Record
<1>3. /\ cache' = cache /\ child' = child /\ patch' = patch /\ made' = made
      /\ told' = told /\ reported' = reported /\ locked' = locked
  BY DEF Start
<1>4. call.does = "starting" /\ m \in call.todo /\ turn[m] = Idle /\ made \in Assignment
  BY <1>1 DEF Start, IInv, BeingMade
<1>5. call' = [call EXCEPT !.todo = @ \ {m}]
  BY DEF Start
<1>6. call'.does = "starting" /\ call'.todo = call.todo \ {m}
  BY <1>1, <1>4, <1>5 DEF Call
<1>7. \A x \in Member: Written(x)' = Written(x)
  BY <1>3 DEF Written
<1>8. turn'[m] = made /\ \A x \in Member \ {m}: turn'[x] = turn[x]
  BY <1>1 DEF Start
<1>9. \A x \in Member, k \in Assignment:
         observer'[x][k] = IF x = m /\ k = made THEN "waiting" ELSE observer[x][k]
  BY <1>1, <1>4 DEF Start
<1>10. CopyAgrees'
  BY <1>2, <1>3, <1>4, <1>6, <1>7, <1>8, <1>9 DEF IInv, CopyAgrees
<1>11. LeaseForTask'
  BY <1>2, <1>3, <1>4, <1>6, <1>7, <1>8, <1>9 DEF IInv, LeaseForTask
<1>12. TurnsObserved'
  BY <1>2, <1>3, <1>4, <1>6, <1>7, <1>8, <1>9 DEF IInv, TurnsObserved, BeingMade
<1>13. NoneBefore'
  BY <1>2, <1>3, <1>4, <1>6, <1>7, <1>8, <1>9 DEF IInv, NoneBefore
<1>14. BeingMade'
  BY <1>2, <1>3, <1>4, <1>6, <1>7, <1>8, <1>9 DEF IInv, BeingMade
<1>15. StillAsRead'
  BY <1>2, <1>3, <1>4, <1>6, <1>7, <1>8, <1>9 DEF IInv, StillAsRead
<1>16. ReportKept'
  BY <1>2, <1>3, <1>4, <1>6, <1>7, <1>8, <1>9 DEF IInv, ReportKept
<1>17. ToldLate'
  <2> SUFFICES ASSUME NEW x \in Member, NEW k \in Assignment
        PROVE  /\ << x, k >> \in told' => observer'[x][k] \in {"releasing", "done"}
               /\ << x, k >> \in told' \/ observer'[x][k] = "noting" => << x, k >> \notin reported'
    BY DEF ToldLate
  <2>1. /\ << x, k >> \in told => observer[x][k] \in {"releasing", "done"}
        /\ << x, k >> \in told \/ observer[x][k] = "noting" => << x, k >> \notin reported
    BY DEF IInv, ToldLate
  <2> QED BY <1>2, <1>3, <1>4, <1>6, <1>7, <1>8, <1>9, <2>1 DEF IInv, NoneBefore
<1>18. LeaseFollowsTurn'
  <2> SUFFICES ASSUME NEW x \in Member, NEW k \in Assignment
        PROVE  /\ cache'[x].lease = k =>
                    \/ observer'[x][k] \notin {"none", "done"}
                    \/ k = made' /\ call'.does \in {"writing", "starting"}
               /\ turn'[x] = k => cache'[x].lease = k \/ << x, k >> \in locked'
    BY DEF LeaseFollowsTurn
  <2>1. /\ cache[x].lease = k =>
             \/ observer[x][k] \notin {"none", "done"}
             \/ k = made /\ call.does \in {"writing", "starting"}
        /\ turn[x] = k => cache[x].lease = k \/ << x, k >> \in locked
    BY DEF IInv, LeaseFollowsTurn
  <2> QED BY <1>2, <1>3, <1>4, <1>6, <1>7, <1>8, <1>9, <2>1 DEF IInv, BeingMade
<1> QED BY <1>10, <1>11, <1>12, <1>13, <1>14, <1>15, <1>16, <1>17, <1>18 DEF IInv

\* The copies that a lock reads hold every report.
LEMMA LockKeeps ==
    ASSUME IInv, TypeOK', Coordinated, Bounded, NEW m \in Member, Lock(m)
    PROVE  IInv'
<1> USE DEF Bounded
<1>1. /\ cache \in [Member -> Record] /\ child \in [Member -> Record] /\ call \in Call
      /\ made \in 0..MaxAssignments /\ turn \in [Member -> Idle..Other]
      /\ observer \in [Member -> [Assignment ->
           {"none", "waiting", "ended", "noting", "releasing", "done"}]]
  BY DEF IInv, TypeOK
<1>2. /\ made \in 0..MaxAssignments /\ call.tasks \subseteq Member /\ call.todo \subseteq Member
      /\ \A x \in Member: cache[x].lease \in 0..MaxAssignments /\ turn[x] \in 0..Other
  BY <1>1 DEF Call, Record
<1>3. /\ child' = child /\ made' = made /\ turn' = turn /\ observer' = observer
      /\ told' = told /\ reported' = reported
  BY DEF Lock
<1>4. call.does = "nothing" /\ cache = child /\ cache[m].lease # 0
  BY DEF Lock
<1>5. call' = [NoCall EXCEPT !.does = "locking", !.saw = cache,
                    !.todo = {x \in Member \ {m}: cache[x].lease # 0}]
  BY DEF Lock
<1>6. /\ call'.does = "locking" /\ call'.saw = cache
      /\ call'.todo = {x \in Member \ {m}: cache[x].lease # 0}
  BY <1>5 DEF NoCall
<1>7. locked' = locked \cup {<< m, cache[m].lease >>}
  BY DEF Lock
<1>8. Wrote(m, Unlocked(m, cache)) /\ \A x \in Member \ {m}: Same(x)
  BY <1>3, PutOneGives, RecordsTyped DEF IInv, Lock
<1>9. /\ Unlocked(m, cache).lease = 0 /\ Unlocked(m, cache).of = cache[m].of
      /\ Unlocked(m, cache).reported = cache[m].reported
  BY <1>1 DEF Unlocked, Record
<1>10. /\ Written(m)' = cache'[m] /\ cache'[m].lease = 0 /\ cache'[m].of = cache[m].of
       /\ cache'[m].reported = cache[m].reported
       /\ \A x \in Member \ {m}: cache'[x] = cache[x] /\ Written(x)' = Written(x) /\ patch'[x] = patch[x]
  BY <1>8, <1>9 DEF Wrote, Same
<1>11. \A x \in Member, n \in Assignment: << x, n >> \in reported /\ cache[x].of = n => cache[x].reported
  BY <1>4 DEF IInv, ReportKept, Written
<1>12. CopyAgrees'
  BY <1>2, <1>3, <1>4, <1>6, <1>7, <1>10, <1>11 DEF IInv, CopyAgrees
<1>13. LeaseForTask'
  BY <1>2, <1>3, <1>4, <1>6, <1>7, <1>10, <1>11 DEF IInv, LeaseForTask
<1>14. TurnsObserved'
  BY <1>2, <1>3, <1>4, <1>6, <1>7, <1>10, <1>11 DEF IInv, TurnsObserved
<1>15. NoneBefore'
  BY <1>2, <1>3, <1>4, <1>6, <1>7, <1>10, <1>11 DEF IInv, NoneBefore
<1>16. BeingMade'
  BY <1>2, <1>3, <1>4, <1>6, <1>7, <1>10, <1>11 DEF IInv, BeingMade
<1>17. StillAsRead'
  BY <1>2, <1>3, <1>4, <1>6, <1>7, <1>10, <1>11 DEF IInv, StillAsRead
<1>18. ReportKept'
  BY <1>2, <1>3, <1>4, <1>6, <1>7, <1>10, <1>11 DEF IInv, ReportKept
<1>19. ToldLate'
  <2> SUFFICES ASSUME NEW x \in Member, NEW k \in Assignment
        PROVE  /\ << x, k >> \in told' => observer'[x][k] \in {"releasing", "done"}
               /\ << x, k >> \in told' \/ observer'[x][k] = "noting" => << x, k >> \notin reported'
    BY DEF ToldLate
  <2>1. /\ << x, k >> \in told => observer[x][k] \in {"releasing", "done"}
        /\ << x, k >> \in told \/ observer[x][k] = "noting" => << x, k >> \notin reported
    BY DEF IInv, ToldLate
  <2> QED BY <1>2, <1>3, <1>4, <1>6, <1>7, <1>10, <1>11, <2>1
<1>20. LeaseFollowsTurn'
  <2> SUFFICES ASSUME NEW x \in Member, NEW k \in Assignment
        PROVE  /\ cache'[x].lease = k =>
                    \/ observer'[x][k] \notin {"none", "done"}
                    \/ k = made' /\ call'.does \in {"writing", "starting"}
               /\ turn'[x] = k => cache'[x].lease = k \/ << x, k >> \in locked'
    BY DEF LeaseFollowsTurn
  <2>1. /\ cache[x].lease = k =>
             \/ observer[x][k] \notin {"none", "done"}
             \/ k = made /\ call.does \in {"writing", "starting"}
        /\ turn[x] = k => cache[x].lease = k \/ << x, k >> \in locked
    BY DEF IInv, LeaseFollowsTurn
  <2> QED BY <1>2, <1>3, <1>4, <1>6, <1>7, <1>10, <1>11, <2>1
<1> QED BY <1>12, <1>13, <1>14, <1>15, <1>16, <1>17, <1>18, <1>19, <1>20 DEF IInv

\* What is written goes by what was read, which is still the report and the task.
LEMMA LockNextKeeps ==
    ASSUME IInv, TypeOK', Coordinated, Bounded, NEW m \in Member, LockNext(m)
    PROVE  IInv'
<1> USE DEF Bounded
<1>1. /\ cache \in [Member -> Record] /\ child \in [Member -> Record] /\ call \in Call
      /\ made \in 0..MaxAssignments /\ turn \in [Member -> Idle..Other]
      /\ observer \in [Member -> [Assignment ->
           {"none", "waiting", "ended", "noting", "releasing", "done"}]]
  BY DEF IInv, TypeOK
<1>2. /\ made \in 0..MaxAssignments /\ call.tasks \subseteq Member /\ call.todo \subseteq Member
      /\ \A x \in Member: cache[x].lease \in 0..MaxAssignments /\ turn[x] \in 0..Other
  BY <1>1 DEF Call, Record
<1>3. /\ child' = child /\ made' = made /\ turn' = turn /\ observer' = observer
      /\ told' = told /\ reported' = reported
  BY DEF LockNext
<1>4. call.does = "locking" /\ m \in call.todo
  BY DEF LockNext
<1>5. call' = [call EXCEPT !.todo = @ \ {m}]
  BY DEF LockNext
<1>6. call'.does = "locking" /\ call'.saw = call.saw /\ call'.todo = call.todo \ {m}
  BY <1>1, <1>4, <1>5 DEF Call
<1>7. locked' = locked \cup {<< m, call.saw[m].lease >>}
  BY DEF LockNext
<1>8. Wrote(m, Unlocked(m, call.saw)) /\ \A x \in Member \ {m}: Same(x)
  BY <1>3, PutOneGives, RecordsTyped DEF IInv, LockNext
<1>9. call.saw[m] \in Record
  BY <1>1 DEF Call
<1>10. /\ Unlocked(m, call.saw).lease = 0 /\ Unlocked(m, call.saw).of = call.saw[m].of
       /\ Unlocked(m, call.saw).reported = call.saw[m].reported
  BY <1>9 DEF Unlocked, Record
<1>11. /\ Written(m)' = cache'[m] /\ cache'[m].lease = 0 /\ cache'[m].of = cache[m].of
       /\ cache'[m].reported = call.saw[m].reported
       /\ \A x \in Member \ {m}: cache'[x] = cache[x] /\ Written(x)' = Written(x) /\ patch'[x] = patch[x]
  BY <1>4, <1>8, <1>10 DEF Wrote, Same, IInv, StillAsRead
<1>12. CopyAgrees'
  BY <1>2, <1>3, <1>4, <1>6, <1>7, <1>9, <1>11 DEF IInv, CopyAgrees
<1>13. LeaseForTask'
  BY <1>2, <1>3, <1>4, <1>6, <1>7, <1>9, <1>11 DEF IInv, LeaseForTask
<1>14. TurnsObserved'
  BY <1>2, <1>3, <1>4, <1>6, <1>7, <1>9, <1>11 DEF IInv, TurnsObserved
<1>15. NoneBefore'
  BY <1>2, <1>3, <1>4, <1>6, <1>7, <1>9, <1>11 DEF IInv, NoneBefore
<1>16. BeingMade'
  BY <1>2, <1>3, <1>4, <1>6, <1>7, <1>9, <1>11 DEF IInv, BeingMade
<1>17. StillAsRead'
  BY <1>2, <1>3, <1>4, <1>6, <1>7, <1>9, <1>11 DEF IInv, StillAsRead
<1>18. ReportKept'
  BY <1>2, <1>3, <1>4, <1>6, <1>7, <1>9, <1>11 DEF IInv, ReportKept, StillAsRead, BeingMade
<1>19. ToldLate'
  <2> SUFFICES ASSUME NEW x \in Member, NEW k \in Assignment
        PROVE  /\ << x, k >> \in told' => observer'[x][k] \in {"releasing", "done"}
               /\ << x, k >> \in told' \/ observer'[x][k] = "noting" => << x, k >> \notin reported'
    BY DEF ToldLate
  <2>1. /\ << x, k >> \in told => observer[x][k] \in {"releasing", "done"}
        /\ << x, k >> \in told \/ observer[x][k] = "noting" => << x, k >> \notin reported
    BY DEF IInv, ToldLate
  <2> QED BY <1>2, <1>3, <1>4, <1>6, <1>7, <1>9, <1>11, <2>1
<1>20. LeaseFollowsTurn'
  <2> SUFFICES ASSUME NEW x \in Member, NEW k \in Assignment
        PROVE  /\ cache'[x].lease = k =>
                    \/ observer'[x][k] \notin {"none", "done"}
                    \/ k = made' /\ call'.does \in {"writing", "starting"}
               /\ turn'[x] = k => cache'[x].lease = k \/ << x, k >> \in locked'
    BY DEF LeaseFollowsTurn
  <2>1. /\ cache[x].lease = k =>
             \/ observer[x][k] \notin {"none", "done"}
             \/ k = made /\ call.does \in {"writing", "starting"}
        /\ turn[x] = k => cache[x].lease = k \/ << x, k >> \in locked
    BY DEF IInv, LeaseFollowsTurn
  <2> QED BY <1>2, <1>3, <1>4, <1>6, <1>7, <1>9, <1>11, <2>1 DEF IInv, StillAsRead
<1> QED BY <1>12, <1>13, <1>14, <1>15, <1>16, <1>17, <1>18, <1>19, <1>20 DEF IInv

\* A turn of somebody else is no turn of an assignment.
LEMMA StartOtherKeeps ==
    ASSUME IInv, TypeOK', Coordinated, Bounded, NEW m \in Member, StartOther(m)
    PROVE  IInv'
<1> USE DEF Bounded
<1>1. /\ cache \in [Member -> Record] /\ child \in [Member -> Record] /\ call \in Call
      /\ made \in 0..MaxAssignments /\ turn \in [Member -> Idle..Other]
      /\ observer \in [Member -> [Assignment ->
           {"none", "waiting", "ended", "noting", "releasing", "done"}]]
  BY DEF IInv, TypeOK
<1>2. /\ made \in 0..MaxAssignments /\ call.tasks \subseteq Member /\ call.todo \subseteq Member
      /\ \A x \in Member: cache[x].lease \in 0..MaxAssignments /\ turn[x] \in 0..Other
  BY <1>1 DEF Call, Record
<1>3. /\ cache' = cache /\ child' = child /\ patch' = patch /\ call' = call
      /\ made' = made /\ observer' = observer /\ told' = told /\ reported' = reported
      /\ locked' = locked
  BY DEF StartOther
<1>4. turn[m] = Idle /\ turn'[m] = Other /\ \A x \in Member \ {m}: turn'[x] = turn[x]
  BY <1>1 DEF StartOther
<1>5. \A x \in Member: Written(x)' = Written(x)
  BY <1>3 DEF Written
<1>6. CopyAgrees'
  BY <1>2, <1>3, <1>4, <1>5 DEF IInv, CopyAgrees
<1>7. LeaseForTask'
  BY <1>2, <1>3, <1>4, <1>5 DEF IInv, LeaseForTask
<1>8. TurnsObserved'
  BY <1>2, <1>3, <1>4, <1>5 DEF IInv, TurnsObserved
<1>9. NoneBefore'
  BY <1>2, <1>3, <1>4, <1>5 DEF IInv, NoneBefore
<1>10. BeingMade'
  BY <1>2, <1>3, <1>4, <1>5 DEF IInv, BeingMade
<1>11. StillAsRead'
  BY <1>2, <1>3, <1>4, <1>5 DEF IInv, StillAsRead
<1>12. ReportKept'
  BY <1>2, <1>3, <1>4, <1>5 DEF IInv, ReportKept
<1>13. ToldLate'
  <2> SUFFICES ASSUME NEW x \in Member, NEW k \in Assignment
        PROVE  /\ << x, k >> \in told' => observer'[x][k] \in {"releasing", "done"}
               /\ << x, k >> \in told' \/ observer'[x][k] = "noting" => << x, k >> \notin reported'
    BY DEF ToldLate
  <2>1. /\ << x, k >> \in told => observer[x][k] \in {"releasing", "done"}
        /\ << x, k >> \in told \/ observer[x][k] = "noting" => << x, k >> \notin reported
    BY DEF IInv, ToldLate
  <2> QED BY <1>2, <1>3, <1>4, <1>5, <2>1
<1>14. LeaseFollowsTurn'
  <2> SUFFICES ASSUME NEW x \in Member, NEW k \in Assignment
        PROVE  /\ cache'[x].lease = k =>
                    \/ observer'[x][k] \notin {"none", "done"}
                    \/ k = made' /\ call'.does \in {"writing", "starting"}
               /\ turn'[x] = k => cache'[x].lease = k \/ << x, k >> \in locked'
    BY DEF LeaseFollowsTurn
  <2>1. /\ cache[x].lease = k =>
             \/ observer[x][k] \notin {"none", "done"}
             \/ k = made /\ call.does \in {"writing", "starting"}
        /\ turn[x] = k => cache[x].lease = k \/ << x, k >> \in locked
    BY DEF IInv, LeaseFollowsTurn
  <2> QED BY <1>2, <1>3, <1>4, <1>5, <2>1
<1> QED BY <1>6, <1>7, <1>8, <1>9, <1>10, <1>11, <1>12, <1>13, <1>14 DEF IInv

\* A turn ends with nothing of its report on its way.
LEMMA EndTurnKeeps ==
    ASSUME IInv, TypeOK', Coordinated, Bounded, NEW m \in Member, EndTurn(m)
    PROVE  IInv'
<1> USE DEF Bounded
<1>1. /\ cache \in [Member -> Record] /\ child \in [Member -> Record] /\ call \in Call
      /\ made \in 0..MaxAssignments /\ turn \in [Member -> Idle..Other]
      /\ observer \in [Member -> [Assignment ->
           {"none", "waiting", "ended", "noting", "releasing", "done"}]]
  BY DEF IInv, TypeOK
<1>2. /\ made \in 0..MaxAssignments /\ call.tasks \subseteq Member /\ call.todo \subseteq Member
      /\ \A x \in Member: cache[x].lease \in 0..MaxAssignments /\ turn[x] \in 0..Other
  BY <1>1 DEF Call, Record
<1>3. /\ cache' = cache /\ child' = child /\ patch' = patch /\ call' = call
      /\ made' = made /\ told' = told /\ reported' = reported /\ locked' = locked
  BY DEF EndTurn
<1>4. turn'[m] = Idle /\ \A x \in Member \ {m}: turn'[x] = turn[x]
  BY <1>1 DEF EndTurn
<1>5. \A x \in Member: Written(x)' = Written(x)
  BY <1>3 DEF Written
<1>6. cache[m] = Written(m)
  BY DEF EndTurn, Written
<1>7. \A x \in Member, k \in Assignment:
         observer'[x][k] = IF x = m /\ k = turn[m] THEN "ended" ELSE observer[x][k]
  BY <1>1 DEF EndTurn
<1>8. CopyAgrees'
  BY <1>2, <1>3, <1>4, <1>5, <1>6, <1>7 DEF IInv, CopyAgrees
<1>9. LeaseForTask'
  BY <1>2, <1>3, <1>4, <1>5, <1>6, <1>7 DEF IInv, LeaseForTask
<1>10. TurnsObserved'
  BY <1>2, <1>3, <1>4, <1>5, <1>6, <1>7 DEF IInv, TurnsObserved
<1>11. NoneBefore'
  BY <1>2, <1>3, <1>4, <1>5, <1>6, <1>7 DEF IInv, NoneBefore, TurnsObserved
<1>12. BeingMade'
  BY <1>2, <1>3, <1>4, <1>5, <1>6, <1>7 DEF IInv, BeingMade
<1>13. StillAsRead'
  BY <1>2, <1>3, <1>4, <1>5, <1>6, <1>7 DEF IInv, StillAsRead
<1>14. ReportKept'
  BY <1>2, <1>3, <1>4, <1>5, <1>6, <1>7 DEF IInv, ReportKept
<1>15. ToldLate'
  <2> SUFFICES ASSUME NEW x \in Member, NEW k \in Assignment
        PROVE  /\ << x, k >> \in told' => observer'[x][k] \in {"releasing", "done"}
               /\ << x, k >> \in told' \/ observer'[x][k] = "noting" => << x, k >> \notin reported'
    BY DEF ToldLate
  <2>1. /\ << x, k >> \in told => observer[x][k] \in {"releasing", "done"}
        /\ << x, k >> \in told \/ observer[x][k] = "noting" => << x, k >> \notin reported
    BY DEF IInv, ToldLate
  <2> QED BY <1>2, <1>3, <1>4, <1>5, <1>6, <1>7, <2>1 DEF IInv, TurnsObserved
<1>16. LeaseFollowsTurn'
  <2> SUFFICES ASSUME NEW x \in Member, NEW k \in Assignment
        PROVE  /\ cache'[x].lease = k =>
                    \/ observer'[x][k] \notin {"none", "done"}
                    \/ k = made' /\ call'.does \in {"writing", "starting"}
               /\ turn'[x] = k => cache'[x].lease = k \/ << x, k >> \in locked'
    BY DEF LeaseFollowsTurn
  <2>1. /\ cache[x].lease = k =>
             \/ observer[x][k] \notin {"none", "done"}
             \/ k = made /\ call.does \in {"writing", "starting"}
        /\ turn[x] = k => cache[x].lease = k \/ << x, k >> \in locked
    BY DEF IInv, LeaseFollowsTurn
  <2> QED BY <1>2, <1>3, <1>4, <1>5, <1>6, <1>7, <2>1
<1> QED BY <1>8, <1>9, <1>10, <1>11, <1>12, <1>13, <1>14, <1>15, <1>16 DEF IInv

\* A report of the assignment under way finds no write on its way.
LEMMA ReportKeeps ==
    ASSUME IInv, TypeOK', Coordinated, Bounded, NEW m \in Member, Report(m)
    PROVE  IInv'
<1> USE DEF Bounded
<1>1. /\ cache \in [Member -> Record] /\ child \in [Member -> Record] /\ call \in Call
      /\ made \in 0..MaxAssignments /\ turn \in [Member -> Idle..Other]
      /\ observer \in [Member -> [Assignment ->
           {"none", "waiting", "ended", "noting", "releasing", "done"}]]
  BY DEF IInv, TypeOK
<1>2. /\ made \in 0..MaxAssignments /\ call.tasks \subseteq Member /\ call.todo \subseteq Member
      /\ \A x \in Member: cache[x].lease \in 0..MaxAssignments /\ turn[x] \in 0..Other
  BY <1>1 DEF Call, Record
<1>3. /\ cache' = cache /\ patch' = patch /\ call' = call /\ made' = made
      /\ turn' = turn /\ observer' = observer /\ told' = told /\ locked' = locked
  BY DEF Report
<1>4. patch[m] = << >> /\ call.does # "locking"
  BY DEF Report
<1>5. Written(m) = child[m] /\ Written(m)' = child'[m]
  BY <1>3, <1>4 DEF Written
<1>6. \A x \in Member \ {m}: child'[x] = child[x]
  BY <1>1 DEF Report
<1>7. \A x \in Member \ {m}: Written(x)' = Written(x)
  BY <1>3, <1>6 DEF Written
<1>8. \/ UNCHANGED << child, reported >>
      \/ /\ child' = [child EXCEPT ![m].reported = TRUE, ![m].reminded = FALSE]
         /\ reported' = reported \cup {<< m, n >>: n \in {child[m].of} \cap {turn[m]}}
  BY DEF Report
<1>9. /\ child'[m].of = child[m].of /\ child'[m].lease = child[m].lease
      /\ child[m].reported => child'[m].reported
  BY <1>1, <1>8 DEF Record
<1>10. \A x \in Member, n \in Assignment: << x, n >> \in reported' =>
         \/ << x, n >> \in reported
         \/ x = m /\ n = turn[m] /\ child[m].of = n /\ child'[m].reported
  BY <1>1, <1>8 DEF Record
<1>11. \A n \in Assignment: turn[m] = n => observer[m][n] = "waiting"
  BY DEF IInv, TurnsObserved
<1>12. CopyAgrees'
  BY <1>2, <1>3, <1>4, <1>5, <1>6, <1>7, <1>9, <1>10, <1>11 DEF IInv, CopyAgrees
<1>13. LeaseForTask'
  BY <1>2, <1>3, <1>4, <1>5, <1>6, <1>7, <1>9, <1>10, <1>11 DEF IInv, LeaseForTask
<1>14. TurnsObserved'
  BY <1>2, <1>3, <1>4, <1>5, <1>6, <1>7, <1>9, <1>10, <1>11 DEF IInv, TurnsObserved
<1>15. NoneBefore'
  BY <1>2, <1>3, <1>4, <1>5, <1>6, <1>7, <1>9, <1>10, <1>11 DEF IInv, NoneBefore
<1>16. BeingMade'
  BY <1>2, <1>3, <1>4, <1>5, <1>6, <1>7, <1>9, <1>10, <1>11 DEF IInv, BeingMade
<1>17. StillAsRead'
  BY <1>2, <1>3, <1>4, <1>5, <1>6, <1>7, <1>9, <1>10, <1>11 DEF IInv, StillAsRead
<1>18. ReportKept'
  BY <1>2, <1>3, <1>4, <1>5, <1>6, <1>7, <1>9, <1>10, <1>11 DEF IInv, ReportKept
<1>19. ToldLate'
  <2> SUFFICES ASSUME NEW x \in Member, NEW k \in Assignment
        PROVE  /\ << x, k >> \in told' => observer'[x][k] \in {"releasing", "done"}
               /\ << x, k >> \in told' \/ observer'[x][k] = "noting" => << x, k >> \notin reported'
    BY DEF ToldLate
  <2>1. /\ << x, k >> \in told => observer[x][k] \in {"releasing", "done"}
        /\ << x, k >> \in told \/ observer[x][k] = "noting" => << x, k >> \notin reported
    BY DEF IInv, ToldLate
  <2> QED BY <1>2, <1>3, <1>4, <1>5, <1>6, <1>7, <1>9, <1>10, <1>11, <2>1 DEF IInv, TurnsObserved
<1>20. LeaseFollowsTurn'
  <2> SUFFICES ASSUME NEW x \in Member, NEW k \in Assignment
        PROVE  /\ cache'[x].lease = k =>
                    \/ observer'[x][k] \notin {"none", "done"}
                    \/ k = made' /\ call'.does \in {"writing", "starting"}
               /\ turn'[x] = k => cache'[x].lease = k \/ << x, k >> \in locked'
    BY DEF LeaseFollowsTurn
  <2>1. /\ cache[x].lease = k =>
             \/ observer[x][k] \notin {"none", "done"}
             \/ k = made /\ call.does \in {"writing", "starting"}
        /\ turn[x] = k => cache[x].lease = k \/ << x, k >> \in locked
    BY DEF IInv, LeaseFollowsTurn
  <2> QED BY <1>2, <1>3, <1>4, <1>5, <1>6, <1>7, <1>9, <1>10, <1>11, <2>1
<1> QED BY <1>12, <1>13, <1>14, <1>15, <1>16, <1>17, <1>18, <1>19, <1>20 DEF IInv

\* A receipt changes neither the task, the lease nor the report.
LEMMA ReceiptKeeps ==
    ASSUME IInv, TypeOK', Coordinated, Bounded, NEW m \in Member, Receipt(m)
    PROVE  IInv'
<1> USE DEF Bounded
<1>1. /\ cache \in [Member -> Record] /\ child \in [Member -> Record] /\ call \in Call
      /\ made \in 0..MaxAssignments /\ turn \in [Member -> Idle..Other]
      /\ observer \in [Member -> [Assignment ->
           {"none", "waiting", "ended", "noting", "releasing", "done"}]]
  BY DEF IInv, TypeOK
<1>2. /\ made \in 0..MaxAssignments /\ call.tasks \subseteq Member /\ call.todo \subseteq Member
      /\ \A x \in Member: cache[x].lease \in 0..MaxAssignments /\ turn[x] \in 0..Other
  BY <1>1 DEF Call, Record
<1>3. /\ cache' = cache /\ patch' = patch /\ call' = call /\ made' = made
      /\ turn' = turn /\ observer' = observer /\ told' = told /\ reported' = reported
      /\ locked' = locked
  BY DEF Receipt
<1>4. child' = child \/ child' = [child EXCEPT ![m].received = TRUE]
  BY DEF Receipt
<1>5. \A x \in Member: /\ child'[x].of = child[x].of /\ child'[x].lease = child[x].lease
                        /\ child'[x].reported = child[x].reported
  <2> SUFFICES ASSUME NEW x \in Member
        PROVE  /\ child'[x].of = child[x].of /\ child'[x].lease = child[x].lease
               /\ child'[x].reported = child[x].reported
    OBVIOUS
  <2>1. child[x] \in Record BY <1>1
  <2>2. child'[x] = child[x] \/ child'[x] = [child[x] EXCEPT !.received = TRUE]
    BY <1>1, <1>4
  <2> QED BY <2>1, <2>2 DEF Record
<1>6. \A x \in Member: /\ Written(x)'.of = Written(x).of /\ Written(x)'.lease = Written(x).lease
                        /\ Written(x)'.reported = Written(x).reported
  BY <1>3, <1>5 DEF Written
<1>7. CopyAgrees'
  BY <1>2, <1>3, <1>5, <1>6 DEF IInv, CopyAgrees
<1>8. LeaseForTask'
  BY <1>2, <1>3, <1>5, <1>6 DEF IInv, LeaseForTask
<1>9. TurnsObserved'
  BY <1>2, <1>3, <1>5, <1>6 DEF IInv, TurnsObserved
<1>10. NoneBefore'
  BY <1>2, <1>3, <1>5, <1>6 DEF IInv, NoneBefore
<1>11. BeingMade'
  BY <1>2, <1>3, <1>5, <1>6 DEF IInv, BeingMade
<1>12. StillAsRead'
  BY <1>2, <1>3, <1>5, <1>6 DEF IInv, StillAsRead
<1>13. ReportKept'
  BY <1>2, <1>3, <1>5, <1>6 DEF IInv, ReportKept
<1>14. ToldLate'
  <2> SUFFICES ASSUME NEW x \in Member, NEW k \in Assignment
        PROVE  /\ << x, k >> \in told' => observer'[x][k] \in {"releasing", "done"}
               /\ << x, k >> \in told' \/ observer'[x][k] = "noting" => << x, k >> \notin reported'
    BY DEF ToldLate
  <2>1. /\ << x, k >> \in told => observer[x][k] \in {"releasing", "done"}
        /\ << x, k >> \in told \/ observer[x][k] = "noting" => << x, k >> \notin reported
    BY DEF IInv, ToldLate
  <2> QED BY <1>2, <1>3, <1>5, <1>6, <2>1
<1>15. LeaseFollowsTurn'
  <2> SUFFICES ASSUME NEW x \in Member, NEW k \in Assignment
        PROVE  /\ cache'[x].lease = k =>
                    \/ observer'[x][k] \notin {"none", "done"}
                    \/ k = made' /\ call'.does \in {"writing", "starting"}
               /\ turn'[x] = k => cache'[x].lease = k \/ << x, k >> \in locked'
    BY DEF LeaseFollowsTurn
  <2>1. /\ cache[x].lease = k =>
             \/ observer[x][k] \notin {"none", "done"}
             \/ k = made /\ call.does \in {"writing", "starting"}
        /\ turn[x] = k => cache[x].lease = k \/ << x, k >> \in locked
    BY DEF IInv, LeaseFollowsTurn
  <2> QED BY <1>2, <1>3, <1>5, <1>6, <2>1
<1> QED BY <1>7, <1>8, <1>9, <1>10, <1>11, <1>12, <1>13, <1>14, <1>15 DEF IInv

\* Only what is reported nowhere is noted as missing.
LEMMA NotifyKeeps ==
    ASSUME IInv, TypeOK', Coordinated, Bounded,
           NEW m \in Member, NEW n \in Assignment, Notify(m, n)
    PROVE  IInv'
<1> USE DEF Bounded
<1>1. /\ cache \in [Member -> Record] /\ child \in [Member -> Record] /\ call \in Call
      /\ made \in 0..MaxAssignments /\ turn \in [Member -> Idle..Other]
      /\ observer \in [Member -> [Assignment ->
           {"none", "waiting", "ended", "noting", "releasing", "done"}]]
  BY DEF IInv, TypeOK
<1>2. /\ made \in 0..MaxAssignments /\ call.tasks \subseteq Member /\ call.todo \subseteq Member
      /\ \A x \in Member: cache[x].lease \in 0..MaxAssignments /\ turn[x] \in 0..Other
  BY <1>1 DEF Call, Record
<1>3. /\ child' = child /\ call' = call /\ made' = made /\ turn' = turn
      /\ told' = told /\ reported' = reported /\ locked' = locked
  BY DEF Notify
<1>4. observer[m][n] = "ended"
  BY DEF Notify
<1>5. turn[m] # n
  BY <1>4 DEF IInv, TurnsObserved
<1>6. \/ /\ Missing(m, n) /\ PutOne(m, n, [cache[m] EXCEPT !.reminded = TRUE])
         /\ Becomes(m, n, "noting")
      \/ Becomes(m, n, "releasing") /\ UNCHANGED << cache, patch >>
  BY DEF Notify
<1>7. /\ \A x \in Member, k \in Assignment: ~ (x = m /\ k = n) => observer'[x][k] = observer[x][k]
      /\ \/ observer'[m][n] = "noting" /\ Missing(m, n)
         \/ observer'[m][n] = "releasing"
  BY <1>1, <1>6 DEF Becomes
<1>8. \/ \A x \in Member: Same(x)
      \/ /\ Missing(m, n) /\ Wrote(m, [cache[m] EXCEPT !.reminded = TRUE])
         /\ \A x \in Member \ {m}: Same(x)
  <2>1. CASE UNCHANGED << cache, patch >> BY <1>3, <2>1 DEF Same, Written
  <2>2. CASE Missing(m, n) /\ PutOne(m, n, [cache[m] EXCEPT !.reminded = TRUE])
    BY <1>3, <2>2, PutOneGives, RecordsTyped DEF IInv
  <2> QED BY <1>6, <2>1, <2>2
<1>9. \A x \in Member: /\ cache'[x].of = cache[x].of /\ cache'[x].lease = cache[x].lease
                        /\ cache'[x].reported = cache[x].reported
                        /\ \/ Written(x)' = Written(x) /\ patch'[x] = patch[x]
                           \/ Written(x)' = cache'[x] /\ x = m /\ cache[m].of = n
  <2> SUFFICES ASSUME NEW x \in Member
        PROVE  /\ cache'[x].of = cache[x].of /\ cache'[x].lease = cache[x].lease
               /\ cache'[x].reported = cache[x].reported
               /\ \/ Written(x)' = Written(x) /\ patch'[x] = patch[x]
                  \/ Written(x)' = cache'[x] /\ x = m /\ cache[m].of = n
    OBVIOUS
  <2>1. CASE Same(x) BY <2>1 DEF Same
  <2>2. CASE x = m /\ Missing(m, n) /\ Wrote(m, [cache[m] EXCEPT !.reminded = TRUE])
    <3>1. cache[m] \in Record BY <1>1
    <3> QED BY <2>2, <3>1 DEF Wrote, Record, Missing
  <2> QED BY <1>8, <2>1, <2>2
<1>10. Missing(m, n) => << m, n >> \notin reported /\ cache[m].of = n
  BY <1>5 DEF IInv, ReportKept, Missing
<1>11. CopyAgrees'
  BY <1>2, <1>3, <1>4, <1>5, <1>7, <1>9, <1>10 DEF IInv, CopyAgrees
<1>12. LeaseForTask'
  BY <1>2, <1>3, <1>4, <1>5, <1>7, <1>9, <1>10 DEF IInv, LeaseForTask
<1>13. TurnsObserved'
  BY <1>2, <1>3, <1>4, <1>5, <1>7, <1>9, <1>10 DEF IInv, TurnsObserved
<1>14. NoneBefore'
  BY <1>2, <1>3, <1>4, <1>5, <1>7, <1>9, <1>10 DEF IInv, NoneBefore
<1>15. BeingMade'
  BY <1>2, <1>3, <1>4, <1>5, <1>7, <1>9, <1>10 DEF IInv, BeingMade
<1>16. StillAsRead'
  BY <1>2, <1>3, <1>4, <1>5, <1>7, <1>9, <1>10 DEF IInv, StillAsRead
<1>17. ReportKept'
  BY <1>2, <1>3, <1>4, <1>5, <1>7, <1>9, <1>10 DEF IInv, ReportKept
<1>18. ToldLate'
  <2> SUFFICES ASSUME NEW x \in Member, NEW k \in Assignment
        PROVE  /\ << x, k >> \in told' => observer'[x][k] \in {"releasing", "done"}
               /\ << x, k >> \in told' \/ observer'[x][k] = "noting" => << x, k >> \notin reported'
    BY DEF ToldLate
  <2>1. /\ << x, k >> \in told => observer[x][k] \in {"releasing", "done"}
        /\ << x, k >> \in told \/ observer[x][k] = "noting" => << x, k >> \notin reported
    BY DEF IInv, ToldLate
  <2> QED BY <1>2, <1>3, <1>4, <1>5, <1>7, <1>9, <1>10, <2>1
<1>19. LeaseFollowsTurn'
  <2> SUFFICES ASSUME NEW x \in Member, NEW k \in Assignment
        PROVE  /\ cache'[x].lease = k =>
                    \/ observer'[x][k] \notin {"none", "done"}
                    \/ k = made' /\ call'.does \in {"writing", "starting"}
               /\ turn'[x] = k => cache'[x].lease = k \/ << x, k >> \in locked'
    BY DEF LeaseFollowsTurn
  <2>1. /\ cache[x].lease = k =>
             \/ observer[x][k] \notin {"none", "done"}
             \/ k = made /\ call.does \in {"writing", "starting"}
        /\ turn[x] = k => cache[x].lease = k \/ << x, k >> \in locked
    BY DEF IInv, LeaseFollowsTurn
  <2> QED BY <1>2, <1>3, <1>4, <1>5, <1>7, <1>9, <1>10, <2>1
<1> QED BY <1>11, <1>12, <1>13, <1>14, <1>15, <1>16, <1>17, <1>18, <1>19 DEF IInv

\* Who is told has not reported, for that was so when the reminder was noted.
LEMMA RemindKeeps ==
    ASSUME IInv, TypeOK', Coordinated, Bounded,
           NEW m \in Member, NEW n \in Assignment, Remind(m, n)
    PROVE  IInv'
<1> USE DEF Bounded
<1>1. /\ cache \in [Member -> Record] /\ child \in [Member -> Record] /\ call \in Call
      /\ made \in 0..MaxAssignments /\ turn \in [Member -> Idle..Other]
      /\ observer \in [Member -> [Assignment ->
           {"none", "waiting", "ended", "noting", "releasing", "done"}]]
  BY DEF IInv, TypeOK
<1>2. /\ made \in 0..MaxAssignments /\ call.tasks \subseteq Member /\ call.todo \subseteq Member
      /\ \A x \in Member: cache[x].lease \in 0..MaxAssignments /\ turn[x] \in 0..Other
  BY <1>1 DEF Call, Record
<1>3. /\ cache' = cache /\ child' = child /\ patch' = patch /\ call' = call
      /\ made' = made /\ turn' = turn /\ reported' = reported /\ locked' = locked
  BY DEF Remind
<1>4. observer[m][n] = "noting" /\ told' = told \cup {<< m, n >>}
  BY DEF Remind
<1>5. \A x \in Member, k \in Assignment:
         observer'[x][k] = IF x = m /\ k = n THEN "releasing" ELSE observer[x][k]
  BY <1>1 DEF Remind, Becomes
<1>6. \A x \in Member: Written(x)' = Written(x)
  BY <1>3 DEF Written
<1>7. CopyAgrees'
  BY <1>2, <1>3, <1>4, <1>5, <1>6 DEF IInv, CopyAgrees
<1>8. LeaseForTask'
  BY <1>2, <1>3, <1>4, <1>5, <1>6 DEF IInv, LeaseForTask
<1>9. TurnsObserved'
  BY <1>2, <1>3, <1>4, <1>5, <1>6 DEF IInv, TurnsObserved
<1>10. NoneBefore'
  BY <1>2, <1>3, <1>4, <1>5, <1>6 DEF IInv, NoneBefore
<1>11. BeingMade'
  BY <1>2, <1>3, <1>4, <1>5, <1>6 DEF IInv, BeingMade
<1>12. StillAsRead'
  BY <1>2, <1>3, <1>4, <1>5, <1>6 DEF IInv, StillAsRead
<1>13. ReportKept'
  BY <1>2, <1>3, <1>4, <1>5, <1>6 DEF IInv, ReportKept
<1>14. ToldLate'
  <2> SUFFICES ASSUME NEW x \in Member, NEW k \in Assignment
        PROVE  /\ << x, k >> \in told' => observer'[x][k] \in {"releasing", "done"}
               /\ << x, k >> \in told' \/ observer'[x][k] = "noting" => << x, k >> \notin reported'
    BY DEF ToldLate
  <2>1. /\ << x, k >> \in told => observer[x][k] \in {"releasing", "done"}
        /\ << x, k >> \in told \/ observer[x][k] = "noting" => << x, k >> \notin reported
    BY DEF IInv, ToldLate
  <2> QED BY <1>2, <1>3, <1>4, <1>5, <1>6, <2>1
<1>15. LeaseFollowsTurn'
  <2> SUFFICES ASSUME NEW x \in Member, NEW k \in Assignment
        PROVE  /\ cache'[x].lease = k =>
                    \/ observer'[x][k] \notin {"none", "done"}
                    \/ k = made' /\ call'.does \in {"writing", "starting"}
               /\ turn'[x] = k => cache'[x].lease = k \/ << x, k >> \in locked'
    BY DEF LeaseFollowsTurn
  <2>1. /\ cache[x].lease = k =>
             \/ observer[x][k] \notin {"none", "done"}
             \/ k = made /\ call.does \in {"writing", "starting"}
        /\ turn[x] = k => cache[x].lease = k \/ << x, k >> \in locked
    BY DEF IInv, LeaseFollowsTurn
  <2> QED BY <1>2, <1>3, <1>4, <1>5, <1>6, <2>1
<1> QED BY <1>7, <1>8, <1>9, <1>10, <1>11, <1>12, <1>13, <1>14, <1>15 DEF IInv

\* The lease goes with its own assignment only.
LEMMA ReleaseKeeps ==
    ASSUME IInv, TypeOK', Coordinated, Bounded,
           NEW m \in Member, NEW n \in Assignment, Release(m, n)
    PROVE  IInv'
<1> USE DEF Bounded
<1>1. /\ cache \in [Member -> Record] /\ child \in [Member -> Record] /\ call \in Call
      /\ made \in 0..MaxAssignments /\ turn \in [Member -> Idle..Other]
      /\ observer \in [Member -> [Assignment ->
           {"none", "waiting", "ended", "noting", "releasing", "done"}]]
  BY DEF IInv, TypeOK
<1>2. /\ made \in 0..MaxAssignments /\ call.tasks \subseteq Member /\ call.todo \subseteq Member
      /\ \A x \in Member: cache[x].lease \in 0..MaxAssignments /\ turn[x] \in 0..Other
  BY <1>1 DEF Call, Record
<1>3. /\ child' = child /\ call' = call /\ made' = made /\ turn' = turn
      /\ told' = told /\ reported' = reported /\ locked' = locked
  BY DEF Release
<1>4. observer[m][n] = "releasing"
  BY DEF Release
<1>5. \A x \in Member, k \in Assignment:
         observer'[x][k] = IF x = m /\ k = n THEN "done" ELSE observer[x][k]
  BY <1>1 DEF Release, Becomes
<1>6. turn[m] # n
  BY <1>4 DEF IInv, TurnsObserved
<1>7. ReleaseAll({m}, n, n)
  BY DEF Release
<1>8. /\ cache[m].lease = n => Wrote(m, [cache[m] EXCEPT !.lease = 0])
      /\ \A x \in Member: x # m \/ cache[x].lease # n => Same(x)
  <2> DEFINE only == {m}
  <2>1. only \in SUBSET Member OBVIOUS
  <2>2. ReleaseAll(only, n, n) BY <1>7
  <2>3. m \in only /\ \A x \in Member: x \in only => x = m OBVIOUS
  <2> HIDE DEF only
  <2>4. /\ \A x \in only: cache[x].lease = n => Wrote(x, [cache[x] EXCEPT !.lease = 0])
        /\ \A x \in Member: x \notin only \/ cache[x].lease # n => Same(x)
    BY <1>3, <2>1, <2>2, ReleaseAllGives DEF IInv
  <2> QED BY <2>3, <2>4
<1>9. /\ cache[m].lease = n =>
           /\ cache'[m].lease = 0 /\ cache'[m].of = cache[m].of
           /\ cache'[m].reported = cache[m].reported /\ Written(m)' = cache'[m]
      /\ \A x \in Member: x # m \/ cache[x].lease # n =>
           cache'[x] = cache[x] /\ Written(x)' = Written(x) /\ patch'[x] = patch[x]
  BY <1>1, <1>8 DEF Wrote, Same, Record
<1>10. CopyAgrees'
  BY <1>2, <1>3, <1>4, <1>5, <1>6, <1>9 DEF IInv, CopyAgrees
<1>11. LeaseForTask'
  BY <1>2, <1>3, <1>4, <1>5, <1>6, <1>9 DEF IInv, LeaseForTask
<1>12. TurnsObserved'
  BY <1>2, <1>3, <1>4, <1>5, <1>6, <1>9 DEF IInv, TurnsObserved
<1>13. NoneBefore'
  BY <1>2, <1>3, <1>4, <1>5, <1>6, <1>9 DEF IInv, NoneBefore
<1>14. BeingMade'
  BY <1>2, <1>3, <1>4, <1>5, <1>6, <1>9 DEF IInv, BeingMade, NoneBefore
<1>15. StillAsRead'
  BY <1>2, <1>3, <1>4, <1>5, <1>6, <1>9 DEF IInv, StillAsRead
<1>16. ReportKept'
  BY <1>2, <1>3, <1>4, <1>5, <1>6, <1>9 DEF IInv, ReportKept, LeaseForTask, TurnsObserved
<1>17. ToldLate'
  <2> SUFFICES ASSUME NEW x \in Member, NEW k \in Assignment
        PROVE  /\ << x, k >> \in told' => observer'[x][k] \in {"releasing", "done"}
               /\ << x, k >> \in told' \/ observer'[x][k] = "noting" => << x, k >> \notin reported'
    BY DEF ToldLate
  <2>1. /\ << x, k >> \in told => observer[x][k] \in {"releasing", "done"}
        /\ << x, k >> \in told \/ observer[x][k] = "noting" => << x, k >> \notin reported
    BY DEF IInv, ToldLate
  <2> QED BY <1>2, <1>3, <1>4, <1>5, <1>6, <1>9, <2>1
<1>18. LeaseFollowsTurn'
  <2> SUFFICES ASSUME NEW x \in Member, NEW k \in Assignment
        PROVE  /\ cache'[x].lease = k =>
                    \/ observer'[x][k] \notin {"none", "done"}
                    \/ k = made' /\ call'.does \in {"writing", "starting"}
               /\ turn'[x] = k => cache'[x].lease = k \/ << x, k >> \in locked'
    BY DEF LeaseFollowsTurn
  <2>1. /\ cache[x].lease = k =>
             \/ observer[x][k] \notin {"none", "done"}
             \/ k = made /\ call.does \in {"writing", "starting"}
        /\ turn[x] = k => cache[x].lease = k \/ << x, k >> \in locked
    BY DEF IInv, LeaseFollowsTurn
  <2> QED BY <1>2, <1>3, <1>4, <1>5, <1>6, <1>9, <2>1 DEF IInv, LeaseForTask, TurnsObserved
<1> QED BY <1>10, <1>11, <1>12, <1>13, <1>14, <1>15, <1>16, <1>17, <1>18 DEF IInv

LEMMA Begins == Bounded /\ Init => IInv
<1> SUFFICES ASSUME Bounded, Init PROVE IInv OBVIOUS
<1> USE DEF Bounded
<1>1. TypeOK
  <2>1. Blank \in Record BY DEF Blank, Record
  <2>2. << >> \in Seq(Write) OBVIOUS
  <2>3. NoCall \in Call BY NoCallTyped
  <2> QED BY <2>1, <2>2, <2>3 DEF Init, TypeOK
<1>2. \A m \in Member: /\ cache[m] = Blank /\ Written(m) = Blank /\ turn[m] = 0
                       /\ \A n \in Assignment: observer[m][n] = "none"
  BY DEF Init, Written
<1>3. call.does = "nothing" /\ told = {} /\ reported = {} BY DEF Init, NoCall
<1>4. Blank.lease = 0 /\ Blank.of = 0 BY DEF Blank
<1>5. CopyAgrees /\ LeaseForTask /\ TurnsObserved /\ NoneBefore
  BY <1>2, <1>4 DEF CopyAgrees, LeaseForTask, TurnsObserved, NoneBefore
<1>6. BeingMade /\ StillAsRead /\ ReportKept /\ ToldLate
  BY <1>3 DEF BeingMade, StillAsRead, ReportKept, ToldLate
<1>7. LeaseFollowsTurn BY <1>2, <1>4 DEF LeaseFollowsTurn
<1> QED BY <1>1, <1>5, <1>6, <1>7 DEF IInv

\* Coordinated writes keep the invariant, whatever the step.
LEMMA Step == Coordinated /\ Bounded /\ IInv /\ [Next]_vars => IInv'
<1> SUFFICES ASSUME Coordinated, Bounded, IInv, [Next]_vars PROVE IInv' OBVIOUS
<1>1. TypeOK' BY TypeStep DEF IInv
<1>2. CASE UNCHANGED vars
  <2>1. \A m \in Member: Written(m)' = Written(m) BY <1>2 DEF vars, Written
  <2>2. CopyAgrees' /\ LeaseForTask' /\ TurnsObserved' /\ NoneBefore'
    BY <1>2, <2>1 DEF vars, IInv, CopyAgrees, LeaseForTask, TurnsObserved, NoneBefore
  <2>3. BeingMade' /\ StillAsRead' /\ ToldLate' /\ LeaseFollowsTurn'
    BY <1>2 DEF vars, IInv, BeingMade, StillAsRead, ToldLate, LeaseFollowsTurn
  <2>4. ReportKept' BY <1>2, <2>1 DEF vars, IInv, ReportKept
  <2> QED BY <1>1, <2>2, <2>3, <2>4 DEF IInv
<1>3. CASE Next
  BY <1>1, <1>3, LandKeeps, RefreshKeeps, AssignKeeps, AssignNextKeeps, UnavailableKeeps,
     AvailableKeeps, StartFailsKeeps, CallEndsKeeps, StartKeeps, LockKeeps, LockNextKeeps,
     StartOtherKeeps, EndTurnKeeps, ReportKeeps, ReceiptKeeps, NotifyKeeps, RemindKeeps,
     ReleaseKeeps
  DEF Next
<1> QED BY <1>2, <1>3

\* Nobody who has reported is told that the report is missing.
LEMMA NotTold == IInv => NoFalseReminder
<1> SUFFICES ASSUME IInv PROVE told \cap reported = {} BY DEF NoFalseReminder
<1>1. told \subseteq Member \X Assignment BY DEF IInv, TypeOK
<1>2. \A m \in Member, n \in Assignment: << m, n >> \in told => << m, n >> \notin reported
  BY DEF IInv, ToldLate
<1> QED BY <1>1, <1>2

\* The department's assignments (subagent-host.ts), for any members, any number of
\* assignments and turns of others: if the parent and a member write the record in
\* turn and the parent from a fresh copy, no member that reported its task within
\* the turn is told that its report is missing, and a lease belongs to an assignment
\* that is being made or observed and is lost during its turn to a lock only.
THEOREM CoordinatedAccounts ==
    Coordinated /\ Bounded /\ Spec => [](NoFalseReminder /\ LeaseFollowsTurn)
<1>1. IInv => NoFalseReminder /\ LeaseFollowsTurn BY NotTold DEF IInv
<1>2. CASE Coordinated /\ Bounded
  <2>1. IInv /\ [Next]_vars => IInv' BY <1>2, Step
  <2>2. Init => IInv BY <1>2, Begins
  <2> QED BY <1>1, <2>1, <2>2, PTL DEF Spec
<1>3. CASE ~ (Coordinated /\ Bounded) BY <1>3
<1> QED BY <1>2, <1>3
=============================================================================
