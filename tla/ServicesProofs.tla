--------------------------- MODULE ServicesProofs ---------------------------
(***************************************************************************)
(* The safety of the components beside the agent loop, as MCServices holds *)
(* them side by side, for every value of its constants.                    *)
(*                                                                         *)
(* Of the log, the gateway, the prompt queue and the team the invariant is *)
(* proved in a module of its own, for the component alone; here it is that *)
(* of the instance.  The other components are proved here.                 *)
(***************************************************************************)
EXTENDS MCServices, FiniteSetTheorems, SequenceTheorems, WellFoundedInduction, TLAPS

\* Whoever is on the way to the lock found it free of holders.
LockNoneHolds == \A s \in Server: ~Lock!Holds(s)

\* A file just created is still the one at the path.
LockOpenedThere == \A s \in Server: lockPhase[s] = "opened" => lockLock = {s} /\ lockText = "nothing"

\* At most one process is changing the owner, and none holds the lock then.
LockOneChange ==
    /\ \A s, t \in Server: Lock!Taking(s) /\ Lock!Taking(t) => s = t
    /\ \A s \in Server: Lock!Taking(s) => ~lockDeleting /\ LockNoneHolds
    /\ lockDeleting => LockNoneHolds

\* Only the pid of an ended server belongs to another program.
LockRecycledEnded == \A s \in lockRecycled: lockPhase[s] = "ended"

LockIInv ==
    Lock!TypeOK /\ Lock!LockNamesItsHolder /\ LockOpenedThere /\ LockOneChange /\ LockRecycledEnded

\* Nothing but the phase of s changes, to one that holds or takes nothing new.
LEMMA LockSettles ==
    ASSUME LockIInv, NEW s \in Server, NEW to \in Lock!Phases,
           lockPhase' = [lockPhase EXCEPT ![s] = to],
           lockPhase[s] # "ended",
           UNCHANGED << lockLock, lockText, lockRecycled, lockDoomed, lockDeleting >>, Lock!TypeOK',
           \/ to \in {"released", "refused", "ended"}
           \/ Lock!Holds(s) /\ to \in {"holding", "marking", "releasing"}
    PROVE  LockIInv'
<1>1. \A t \in Server: Lock!Holds(t)' => Lock!Holds(t)
  BY DEF Lock!Holds, LockIInv, Lock!TypeOK
<1>2. \A t \in Server: Lock!Taking(t)' => Lock!Taking(t) /\ lockPhase'[t] = lockPhase[t]
  BY DEF Lock!Taking, LockIInv, Lock!TypeOK
<1>3. Lock!LockNamesItsHolder'
  BY <1>1 DEF Lock!LockNamesItsHolder, Lock!Names, LockIInv
<1>4. LockOpenedThere'
  BY <1>2 DEF LockOpenedThere, Lock!Taking, LockIInv
<1>5. LockOneChange'
  BY <1>1, <1>2 DEF LockOneChange, LockNoneHolds, LockIInv
<1>6. LockRecycledEnded'
  BY DEF LockRecycledEnded, LockIInv, Lock!TypeOK
<1> QED BY <1>3, <1>4, <1>5, <1>6 DEF LockIInv

\* Nothing that the invariant is about changes.
LEMMA LockUntouched ==
    ASSUME LockIInv, UNCHANGED << lockPhase, lockLock, lockText, lockDeleting >>, Lock!TypeOK',
           \A s \in lockRecycled': lockPhase[s] = "ended"
    PROVE  LockIInv'
BY DEF LockIInv, LockRecycledEnded, Lock!LockNamesItsHolder, LockOpenedThere, LockOneChange, LockNoneHolds, Lock!Holds,
       Lock!Taking, Lock!Names, Lock!TypeOK

\* Every step leaves every variable in its set.
LEMMA LockTypeStep == Lock!TypeOK /\ [Lock!Next]_Lock!vars => Lock!TypeOK'
<1> SUFFICES ASSUME Lock!TypeOK, [Lock!Next]_Lock!vars PROVE Lock!TypeOK'
  OBVIOUS
<1>1. ASSUME NEW s \in Server, NEW from \in Lock!Phases, NEW to \in Lock!Phases, Lock!Goes(s, from, to)
      PROVE  lockPhase' \in [Server -> Lock!Phases]
  BY <1>1 DEF Lock!Goes, Lock!TypeOK
<1>2. ASSUME NEW s \in Server,
             \/ Lock!Acquire(s) \/ Lock!WriteContents(s) \/ Lock!Refused(s) \/ Lock!Stale(s) \/ Lock!Clear(s)
             \/ Lock!Retake(s) \/ Lock!SlippedIn(s)
      PROVE  Lock!TypeOK'
  BY <1>1, <1>2 DEF Lock!Acquire, Lock!WriteContents, Lock!Refused, Lock!Stale, Lock!Clear, Lock!Retake,
                    Lock!SlippedIn, Lock!Created, Lock!TypeOK, Lock!Phases
<1>3. ASSUME NEW s \in Server,
             \/ Lock!CheckReady(s) \/ Lock!MarkReady(s) \/ Lock!CheckRelease(s) \/ Lock!Release(s)
             \/ Lock!ReleaseForeign(s) \/ Lock!End(s)
      PROVE  Lock!TypeOK'
  BY <1>1, <1>3 DEF Lock!CheckReady, Lock!MarkReady, Lock!CheckRelease, Lock!Release,
                    Lock!ReleaseForeign, Lock!End, Lock!TypeOK, Lock!Phases
<1>4. ASSUME NEW s \in Server, Lock!Recycle(s) \/ Lock!Consider(s) \/ Lock!DecideToDelete(s)
      PROVE  Lock!TypeOK'
  BY <1>4 DEF Lock!Recycle, Lock!Consider, Lock!DecideToDelete, Lock!TypeOK
<1>5. CASE Lock!Delete \/ Lock!Dismiss \/ UNCHANGED Lock!vars
  BY <1>5 DEF Lock!Delete, Lock!Dismiss, Lock!vars, Lock!TypeOK
<1> QED BY <1>2, <1>3, <1>4, <1>5 DEF Lock!Next

\* The first three steps of a start, and the takeover of a dead owner's file.
LEMMA LockTakingKeeps ==
    ASSUME LockIInv, Lock!TypeOK', NEW s \in Server,
           \/ Lock!Acquire(s) \/ Lock!WriteContents(s) \/ Lock!Stale(s) \/ Lock!Clear(s) \/ Lock!Retake(s)
    PROVE  LockIInv'
<1> USE DEF LockIInv
<1>1. \A t \in Server \ {s}: lockPhase'[t] = lockPhase[t]
  BY DEF Lock!Acquire, Lock!WriteContents, Lock!Stale, Lock!Clear, Lock!Retake, Lock!Created, Lock!Goes, Lock!TypeOK
<1>2. \A t \in Server \ {s}: ~Lock!Taking(t)
  BY DEF Lock!Acquire, Lock!WriteContents, Lock!Stale, Lock!Clear, Lock!Retake, Lock!Created, Lock!Goes, Lock!Alone,
         Lock!Taking, LockOneChange
<1>3. \A t \in Server \ {s}: ~Lock!Taking(t)'
  BY <1>1, <1>2 DEF Lock!Taking
<1>4. lockDeleting' = FALSE
  <2>1. CASE Lock!Taking(s)
    BY <2>1 DEF LockOneChange, Lock!Acquire, Lock!WriteContents, Lock!Stale, Lock!Clear, Lock!Retake, Lock!Created, Lock!TypeOK
  <2>2. CASE ~Lock!Taking(s)
    BY <2>2 DEF Lock!Acquire, Lock!WriteContents, Lock!Stale, Lock!Clear, Lock!Retake, Lock!Created, Lock!Goes,
                Lock!Alone, Lock!Taking, Lock!TypeOK
  <2> QED BY <2>1, <2>2
<1>5. LockNoneHolds
  <2>1. CASE Lock!Taking(s)
    BY <2>1 DEF LockOneChange
  <2>2. CASE Lock!Acquire(s)
    BY <2>2 DEF Lock!Acquire, Lock!Created, LockNoneHolds, Lock!LockNamesItsHolder, Lock!Names
  <2>3. CASE Lock!Stale(s)
    BY <2>3 DEF Lock!Stale, LockNoneHolds, Lock!LockNamesItsHolder, Lock!Holds, Lock!PidAlive
  <2> QED BY <2>1, <2>2, <2>3 DEF Lock!WriteContents, Lock!Clear, Lock!Retake, Lock!Created, Lock!Goes, Lock!Taking
<1>6. \A t \in Server \ {s}: ~Lock!Holds(t)'
  BY <1>1, <1>5 DEF LockNoneHolds, Lock!Holds
<1>10. LockRecycledEnded'
  BY DEF Lock!Acquire, Lock!WriteContents, Lock!Stale, Lock!Clear, Lock!Retake, Lock!Created, Lock!Goes,
         LockRecycledEnded, Lock!TypeOK
<1>7. CASE Lock!WriteContents(s)
  <2>1. lockPhase'[s] = "holding" /\ Lock!Names(s)'
    BY <1>7 DEF Lock!WriteContents, Lock!Goes, LockOpenedThere, Lock!Names, Lock!TypeOK
  <2>2. \A t \in Server: ~Lock!Taking(t)'
    BY <1>3, <2>1 DEF Lock!Taking
  <2> QED BY <1>4, <1>6, <1>10, <2>1, <2>2 DEF Lock!LockNamesItsHolder, LockOpenedThere, LockOneChange, Lock!Taking
<1>8. CASE ~Lock!WriteContents(s)
  <2>1. Lock!Taking(s)' /\ ~Lock!Holds(s)' /\ (lockPhase'[s] = "opened" => lockLock' = {s} /\ lockText' = "nothing")
    BY <1>8 DEF Lock!Acquire, Lock!Stale, Lock!Clear, Lock!Retake, Lock!Created, Lock!Goes, Lock!Taking, Lock!Holds, Lock!TypeOK
  <2>2. LockNoneHolds'
    BY <1>6, <2>1 DEF LockNoneHolds
  <2>3. LockOpenedThere'
    BY <1>3, <2>1 DEF LockOpenedThere, Lock!Taking
  <2> QED BY <1>3, <1>4, <1>10, <2>2, <2>3 DEF Lock!LockNamesItsHolder, LockOneChange, LockNoneHolds
<1> QED BY <1>7, <1>8

\* A holder marks itself ready or gives the lock back.
LEMMA LockHoldingKeeps ==
    ASSUME LockIInv, Lock!TypeOK', NEW s \in Server, Lock!MarkReady(s) \/ Lock!Release(s)
    PROVE  LockIInv'
<1> USE DEF LockIInv
<1>1. Lock!Holds(s) /\ Lock!Names(s)
  BY DEF Lock!MarkReady, Lock!Release, Lock!Goes, Lock!Holds, Lock!LockNamesItsHolder
<1>2. /\ \A t \in Server \ {s}: ~Lock!Holds(t) /\ lockPhase'[t] = lockPhase[t]
      /\ \A t \in Server: ~Lock!Taking(t)
      /\ lockDeleting' = FALSE
  BY <1>1 DEF Lock!MarkReady, Lock!Release, Lock!Goes, Lock!LockNamesItsHolder, Lock!Names, LockOneChange,
              LockNoneHolds, Lock!TypeOK
<1>3. \A t \in Server: ~Lock!Taking(t)'
  BY <1>2 DEF Lock!Taking, Lock!MarkReady, Lock!Release, Lock!Goes, Lock!TypeOK
<1>4. \A t \in Server: Lock!Holds(t)' => t = s /\ Lock!Names(s)'
  BY <1>2 DEF Lock!Holds, Lock!Names, Lock!MarkReady, Lock!Release, Lock!Goes, Lock!TypeOK
<1>5. LockRecycledEnded'
  BY DEF LockRecycledEnded, Lock!MarkReady, Lock!Release, Lock!Goes, Lock!TypeOK
<1> QED BY <1>2, <1>3, <1>4, <1>5 DEF Lock!LockNamesItsHolder, LockOpenedThere, LockOneChange, Lock!Taking

\* The desktop application decides to delete a file, and deletes it.
LEMMA LockDeletingKeeps ==
    ASSUME LockIInv, Lock!TypeOK',
           Lock!Delete \/ \E s \in Server: Lock!DecideToDelete(s)
    PROVE  LockIInv'
<1> USE DEF LockIInv
<1>1. /\ \A t \in Server: ~Lock!Taking(t)
      /\ LockNoneHolds
  <2>1. CASE Lock!Delete
    BY <2>1 DEF Lock!Delete, LockOneChange, LockNoneHolds
  <2>2. ASSUME NEW s \in Server, Lock!DecideToDelete(s)
        PROVE  LockNoneHolds
    <3>1. Lock!Names(s) /\ ~Lock!Holds(s)
      BY <2>2 DEF Lock!DecideToDelete, Lock!Foreign, Lock!PidAlive, Lock!Holds, LockRecycledEnded
    <3> QED BY <3>1 DEF LockNoneHolds, Lock!LockNamesItsHolder, Lock!Names
  <2>3. ASSUME NEW s \in Server, Lock!DecideToDelete(s)
        PROVE  \A t \in Server: ~Lock!Taking(t)
    BY <2>3 DEF Lock!DecideToDelete, Lock!Alone
  <2> QED BY <2>1, <2>2, <2>3
<1>2. lockPhase' = lockPhase /\ LockRecycledEnded'
  BY DEF Lock!Delete, Lock!DecideToDelete, LockRecycledEnded
<1> QED BY <1>1, <1>2 DEF Lock!LockNamesItsHolder, LockOpenedThere, LockOneChange, LockNoneHolds,
                         Lock!Holds, Lock!Taking

\* Changes of the owner do not overlap: every step keeps the invariant.
LEMMA LockStep == LockIInv /\ [Lock!Next]_Lock!vars => LockIInv'
<1> SUFFICES ASSUME LockIInv, [Lock!Next]_Lock!vars PROVE LockIInv'
  OBVIOUS
<1>0. Lock!TypeOK'
  BY LockTypeStep DEF LockIInv
<1>1. ASSUME NEW s \in Server,
             \/ Lock!Acquire(s) \/ Lock!WriteContents(s) \/ Lock!Stale(s) \/ Lock!Clear(s) \/ Lock!Retake(s)
      PROVE  LockIInv'
  BY <1>0, <1>1, LockTakingKeeps
<1>2. ASSUME NEW s \in Server, Lock!MarkReady(s) \/ Lock!Release(s)
      PROVE  LockIInv'
  BY <1>0, <1>2, LockHoldingKeeps
<1>3. ASSUME NEW s \in Server, Lock!Refused(s) \/ Lock!SlippedIn(s)
      PROVE  LockIInv'
  BY <1>0, <1>3, LockSettles, "refused" \in Lock!Phases DEF Lock!Refused, Lock!SlippedIn, Lock!Goes, Lock!Phases
<1>4. ASSUME NEW s \in Server, Lock!CheckReady(s) \/ Lock!CheckRelease(s) \/ Lock!ReleaseForeign(s)
      PROVE  LockIInv'
  <2>1. \E to \in {"marking", "releasing", "released"}:
           lockPhase' = [lockPhase EXCEPT ![s] = to]
    BY <1>4 DEF Lock!CheckReady, Lock!CheckRelease, Lock!ReleaseForeign, Lock!Goes
  <2>2. Lock!Holds(s) /\ lockPhase[s] # "ended" /\ UNCHANGED << lockLock, lockText, lockRecycled, lockDoomed, lockDeleting >>
    BY <1>4 DEF Lock!CheckReady, Lock!CheckRelease, Lock!ReleaseForeign, Lock!Goes, Lock!Holds
  <2> QED BY <1>0, <2>1, <2>2, LockSettles DEF Lock!Phases
<1>5. ASSUME NEW s \in Server, Lock!End(s)
      PROVE  LockIInv'
  BY <1>0, <1>5, LockSettles DEF Lock!End, Lock!Phases
<1>6. ASSUME NEW s \in Server, Lock!Recycle(s)
      PROVE  LockIInv'
  BY <1>0, <1>6, LockUntouched DEF Lock!Recycle, LockIInv, LockRecycledEnded
<1>7. CASE (\E s \in Server: Lock!Consider(s)) \/ Lock!Dismiss \/ UNCHANGED Lock!vars
  BY <1>0, <1>7, LockUntouched DEF Lock!Consider, Lock!Dismiss, Lock!vars, LockIInv, LockRecycledEnded
<1>8. CASE Lock!Delete \/ \E s \in Server: Lock!DecideToDelete(s)
  BY <1>0, <1>8, LockDeletingKeeps
<1> QED BY <1>1, <1>2, <1>3, <1>4, <1>5, <1>6, <1>7, <1>8 DEF Lock!Next

LEMMA LockStart == Lock!Init => LockIInv
BY DEF Lock!Init, LockIInv, Lock!TypeOK, Lock!Phases, Lock!LockNamesItsHolder, LockOpenedThere, LockOneChange,
       LockNoneHolds, LockRecycledEnded, Lock!Holds, Lock!Taking

\* The lock file of the server (lock.ts, control.ts): while changes of the owner do
\* not overlap and no cleanup starts late, the file at the path names the server that
\* holds it, for any servers.
THEOREM LockHeld == Spec => []LockNamesItsHolder
<1> DEFINE Inv == component = "lock" => LockIInv
<1>1. Init => Inv
  BY LockStart DEF Init
<1>2. Inv /\ [Next]_vars => Inv'
  <2>1. LockIInv /\ [Lock!Next]_Lock!vars => LockIInv' BY LockStep
  <2> QED BY <2>1 DEF Next, vars, lockVars, Lock!vars
<1>3. Inv => LockNamesItsHolder
  BY DEF LockNamesItsHolder, LockIInv
<1> QED BY <1>1, <1>2, <1>3, PTL DEF Spec

\* So two servers never hold it at once.
THEOREM OneServer == Spec => [](component = "lock" => Lock!OneHolder)
<1>1. LockNamesItsHolder => (component = "lock" => Lock!OneHolder)
  BY DEF LockNamesItsHolder, Lock!LockNamesItsHolder, Lock!OneHolder, Lock!Names
<1> QED BY <1>1, LockHeld, PTL
-----------------------------------------------------------------------------
\* A process inside has the lock to itself.
TokenAlone == \A p \in Process: Token!Inside(p) => tokenLock = {p}

\* What a process would send or save has been issued.
TokenIssued ==
    \A p \in Process:
        /\ tokenUsing[p] <= tokenIssued /\ tokenGot[p] <= tokenIssued
        /\ tokenPhase[p] = "answered" => tokenGot[p] # 0

\* A rejected token stays rejected, and the one to be condemned is in the file.
TokenRejected ==
    \A p \in Process:
        /\ tokenPhase[p] \in {"rejected", "condemning"} => tokenUsing[p] \notin tokenHonored
        /\ tokenPhase[p] = "condemning" => tokenKind # "valid" \/ tokenToken = tokenUsing[p]

\* A token that was used up is about to be replaced by one that is accepted.
TokenReplaced ==
    ~tokenSevered =>
        /\ tokenKind = "valid" => tokenToken \in tokenHonored \/ \E p \in Process: tokenPhase[p] = "answered"
        /\ \A p \in Process: tokenPhase[p] = "answered" => tokenGot[p] \in tokenHonored

\* What holds with the lock or without it.
TokenTyped == Token!TypeOK /\ TokenIssued

TokenIInv == TokenTyped /\ TokenAlone /\ TokenRejected /\ TokenReplaced

\* Nothing is stored, asked or issued at first.
LEMMA TokenStart == Token!Init => TokenIInv
<1> SUFFICES ASSUME Token!Init PROVE TokenIInv
  OBVIOUS
<1>1. /\ tokenKind = "missing" /\ tokenToken = 0 /\ tokenIssued = 0 /\ tokenHonored = {}
      /\ \A p \in Process: tokenPhase[p] = "idle" /\ tokenUsing[p] = 0 /\ tokenGot[p] = 0
  BY DEF Token!Init
<1>2. Token!TypeOK
  <2>1. tokenForced \in [Process -> BOOLEAN] /\ tokenSevered \in BOOLEAN
    BY DEF Token!Init
  <2>2. /\ tokenPhase \in [Process -> Token!Phases] /\ tokenLock \in SUBSET Process /\ tokenDue \in SUBSET Nat
        /\ tokenUsing \in [Process -> Nat] /\ tokenGot \in [Process -> Nat]
    BY DEF Token!Init, Token!Phases
  <2> QED BY <1>1, <2>1, <2>2 DEF Token!TypeOK
<1>3. TokenIssued
  <2> SUFFICES ASSUME NEW p \in Process PROVE tokenUsing[p] <= tokenIssued /\ tokenGot[p] <= tokenIssued
    BY <1>1 DEF TokenIssued
  <2> QED BY <1>1
<1>4. TokenAlone /\ TokenRejected /\ TokenReplaced
  BY <1>1 DEF TokenAlone, Token!Inside, TokenRejected, TokenReplaced
<1> QED BY <1>2, <1>3, <1>4 DEF TokenIInv, TokenTyped

\* What a step may do to the tokens that are named in the state.
TokenMoves ==
    /\ \/ tokenIssued' = tokenIssued /\ tokenHonored' \subseteq tokenHonored
       \/ tokenIssued' = tokenIssued + 1 /\ tokenHonored' \subseteq tokenHonored \cup {tokenIssued + 1}
    /\ \/ tokenToken' = tokenToken /\ tokenKind' = tokenKind
       \/ tokenToken' = 0 /\ tokenKind' # "valid"
       \/ tokenToken' = tokenIssued + 1 /\ tokenIssued' = tokenIssued + 1
       \/ \E p \in Process: tokenPhase[p] = "answered" /\ tokenToken' = tokenGot[p] /\ tokenIssued' = tokenIssued
    /\ tokenUsing' \in [Process -> Nat]
    /\ \A p \in Process: tokenUsing'[p] = tokenUsing[p] \/ (tokenKind = "valid" /\ tokenUsing'[p] = tokenToken)
    /\ tokenGot' = [p \in Process |-> tokenGot'[p]]
    /\ \A p \in Process:
          \/ tokenGot'[p] = tokenGot[p] /\ (tokenPhase'[p] = "answered" => tokenPhase[p] = "answered")
          \/ tokenGot'[p] = tokenIssued + 1 /\ tokenIssued' = tokenIssued + 1

\* The variables a step gives no number.
TokenShapes ==
    /\ tokenKind' \in {"missing", "revoked", "valid"}
    /\ tokenDue' \in SUBSET Nat
    /\ tokenLock' \in SUBSET Process
    /\ tokenPhase' \in [Process -> Token!Phases]
    /\ tokenForced' \in [Process -> BOOLEAN]
    /\ tokenSevered' \in BOOLEAN

\* No action moves a token otherwise.
LEMMA TokenEveryMove == Token!TypeOK /\ [Token!Next]_Token!vars => TokenMoves
<1> SUFFICES ASSUME Token!TypeOK, [Token!Next]_Token!vars PROVE TokenMoves
  OBVIOUS
<1>0. /\ tokenIssued \in Nat /\ tokenToken \in Nat
      /\ tokenUsing \in [Process -> Nat] /\ tokenGot \in [Process -> Nat]
      /\ tokenPhase \in [Process -> Token!Phases]
  BY DEF Token!TypeOK
<1> USE <1>0 DEF Token!Goes, Token!Ends, Token!stored, Token!provider, TokenMoves
<1>1. ASSUME NEW p \in Process,
             \/ \E force \in BOOLEAN: Token!Begin(p, force)
             \/ Token!Lock(p) \/ Token!LockFails(p) \/ Token!AlreadyDone(p)
      PROVE  TokenMoves
  BY <1>1 DEF Token!Begin, Token!Lock, Token!Lock_Shared, Token!LockFails, Token!AlreadyDone
<1>2. ASSUME NEW p \in Process, Token!Ask(p) \/ Token!AskFails(p) \/ Token!Reject(p)
      PROVE  TokenMoves
  BY <1>2 DEF Token!Ask, Token!AskFails, Token!Reject
<1>3. ASSUME NEW p \in Process, Token!Answer(p) PROVE TokenMoves
  BY <1>3 DEF Token!Answer, Token!Issue
<1>4. ASSUME NEW p \in Process, Token!LoseAnswer(p) PROVE TokenMoves
  BY <1>4 DEF Token!LoseAnswer, Token!Issue
<1>5. ASSUME NEW p \in Process, Token!Save(p) \/ Token!SaveFails(p) PROVE TokenMoves
  BY <1>5 DEF Token!Save, Token!SaveFails
<1>6. ASSUME NEW p \in Process,
             Token!Recover(p) \/ Token!Condemn(p) \/ Token!Tombstone(p) \/ Token!Crash(p)
      PROVE  TokenMoves
  BY <1>6 DEF Token!Recover, Token!Condemn, Token!Tombstone, Token!Crash
<1>7. CASE Token!Login
  BY <1>7 DEF Token!Login, Token!Issue
<1>8. CASE Token!Logout \/ Token!Age \/ Token!Revoke \/ UNCHANGED Token!vars
  BY <1>8 DEF Token!Logout, Token!Age, Token!Revoke, Token!vars
<1> QED BY <1>1, <1>2, <1>3, <1>4, <1>5, <1>6, <1>7, <1>8 DEF Token!Next

\* No action leaves those sets.
LEMMA TokenEveryShape == Token!TypeOK /\ [Token!Next]_Token!vars => TokenShapes
<1> SUFFICES ASSUME Token!TypeOK, [Token!Next]_Token!vars PROVE TokenShapes
  OBVIOUS
<1> USE DEF Token!Goes, Token!Ends, Token!stored, Token!provider, Token!Phases, Token!TypeOK, TokenShapes
<1>1. ASSUME NEW p \in Process,
             \/ \E force \in BOOLEAN: Token!Begin(p, force)
             \/ Token!Lock(p) \/ Token!LockFails(p) \/ Token!AlreadyDone(p)
      PROVE  TokenShapes
  BY <1>1 DEF Token!Begin, Token!Lock, Token!Lock_Shared, Token!LockFails, Token!AlreadyDone
<1>2. ASSUME NEW p \in Process,
             Token!Ask(p) \/ Token!AskFails(p) \/ Token!Reject(p) \/ Token!Answer(p) \/ Token!LoseAnswer(p)
      PROVE  TokenShapes
  BY <1>2 DEF Token!Ask, Token!AskFails, Token!Reject, Token!Answer, Token!LoseAnswer
<1>3. ASSUME NEW p \in Process,
             \/ Token!Save(p) \/ Token!SaveFails(p) \/ Token!Recover(p) \/ Token!Condemn(p) \/ Token!Tombstone(p)
             \/ Token!Crash(p)
      PROVE  TokenShapes
  BY <1>3 DEF Token!Save, Token!SaveFails, Token!Recover, Token!Condemn, Token!Tombstone, Token!Crash
<1>4. CASE Token!Login \/ Token!Logout \/ Token!Age \/ Token!Revoke \/ UNCHANGED Token!vars
  BY <1>4 DEF Token!Login, Token!Logout, Token!Age, Token!Revoke, Token!vars
<1> QED BY <1>1, <1>2, <1>3, <1>4 DEF Token!Next

\* Every step leaves every variable in its set, and sends and saves only what
\* was issued.
LEMMA TokenTypeStep == TokenTyped /\ [Token!Next]_Token!vars => TokenTyped'
<1> SUFFICES ASSUME TokenTyped, TokenMoves, TokenShapes PROVE TokenTyped'
  BY TokenEveryMove, TokenEveryShape DEF TokenTyped
<1>1. /\ tokenIssued \in Nat /\ tokenToken \in Nat /\ tokenHonored \subseteq 1..tokenIssued
      /\ tokenKind = "valid" => tokenToken \in 1..tokenIssued
      /\ tokenGot \in [Process -> Nat]
  BY DEF TokenTyped, Token!TypeOK
<1>2. tokenIssued' \in Nat /\ tokenIssued <= tokenIssued' /\ tokenHonored' \subseteq 1..tokenIssued'
  BY <1>1 DEF TokenMoves
<1>3. tokenToken' \in Nat /\ (tokenKind' = "valid" => tokenToken' \in 1..tokenIssued')
  BY <1>1, <1>2 DEF TokenMoves, TokenTyped, TokenIssued
<1>4. tokenGot' \in [Process -> Nat]
  BY <1>1 DEF TokenMoves
<1>5. TokenIssued'
  BY <1>1, <1>2 DEF TokenMoves, TokenTyped, TokenIssued
<1> QED BY <1>2, <1>3, <1>4, <1>5 DEF TokenTyped, Token!TypeOK, TokenShapes, TokenMoves

\* The lock is taken only when it is free, and given back by its holder.
LEMMA TokenAloneKept == TokenTyped /\ TokenAlone /\ [Token!Next]_Token!vars => TokenAlone'
<1> SUFFICES ASSUME TokenTyped, TokenAlone, [Token!Next]_Token!vars PROVE TokenAlone'
  OBVIOUS
<1> USE DEF Token!Goes, Token!Ends, Token!stored, Token!provider, TokenTyped, Token!TypeOK, TokenAlone, Token!Inside
<1>1. ASSUME NEW p \in Process, \E force \in BOOLEAN: Token!Begin(p, force) PROVE TokenAlone'
  BY <1>1 DEF Token!Begin
<1>2. ASSUME NEW p \in Process, Token!Lock(p) PROVE TokenAlone'
  BY <1>2 DEF Token!Lock, Token!Lock_Shared
<1>3. ASSUME NEW p \in Process,
             \/ Token!LockFails(p) \/ Token!Ask(p) \/ Token!Answer(p) \/ Token!LoseAnswer(p) \/ Token!Reject(p)
             \/ Token!Condemn(p)
      PROVE  TokenAlone'
  BY <1>3 DEF Token!LockFails, Token!Ask, Token!Answer, Token!LoseAnswer, Token!Reject, Token!Condemn
<1>4. ASSUME NEW p \in Process,
             \/ Token!AlreadyDone(p) \/ Token!AskFails(p) \/ Token!Save(p) \/ Token!SaveFails(p)
             \/ Token!Recover(p) \/ Token!Tombstone(p)
      PROVE  TokenAlone'
  <2>1. tokenPhase[p] \notin {"idle", "waiting"}
    BY <1>4 DEF Token!AlreadyDone, Token!AskFails, Token!Save, Token!SaveFails, Token!Recover, Token!Tombstone
  <2> QED BY <1>4, <2>1 DEF Token!AlreadyDone, Token!AskFails, Token!Save, Token!SaveFails, Token!Recover, Token!Tombstone
<1>5. ASSUME NEW p \in Process, Token!Crash(p) PROVE TokenAlone'
  BY <1>5 DEF Token!Crash
<1>6. CASE Token!Login \/ Token!Logout \/ Token!Age \/ Token!Revoke \/ UNCHANGED Token!vars
  BY <1>6 DEF Token!Login, Token!Logout, Token!Age, Token!Revoke, Token!vars
<1> QED BY <1>1, <1>2, <1>3, <1>4, <1>5, <1>6 DEF Token!Next

\* Two processes are not inside together.
LEMMA TokenOneInside ==
    ASSUME TokenAlone, NEW p \in Process, NEW q \in Process, Token!Inside(p), Token!Inside(q)
    PROVE  p = q
BY DEF TokenAlone

\* The provider never takes a rejected token back, and nobody writes the file
\* between the last look at it and the tombstone.
LEMMA TokenRejectedKept ==
    TokenTyped /\ TokenAlone /\ TokenRejected /\ [Token!Next]_Token!vars => TokenRejected'
<1> SUFFICES ASSUME TokenTyped, TokenAlone, TokenRejected, [Token!Next]_Token!vars,
                    NEW q \in Process, tokenPhase'[q] \in {"rejected", "condemning"}
             PROVE  /\ tokenUsing'[q] \notin tokenHonored'
                    /\ tokenPhase'[q] = "condemning" => tokenKind' # "valid" \/ tokenToken' = tokenUsing'[q]
  BY DEF TokenRejected
<1> DEFINE Goal == /\ tokenUsing'[q] \notin tokenHonored'
                   /\ tokenPhase'[q] = "condemning" => tokenKind' # "valid" \/ tokenToken' = tokenUsing'[q]
<1> USE DEF Token!Goes, Token!Ends, Token!stored, Token!provider, TokenTyped, Token!TypeOK, TokenIssued
<1>1. ASSUME NEW p \in Process,
             \/ \E force \in BOOLEAN: Token!Begin(p, force)
             \/ Token!Lock(p) \/ Token!LockFails(p) \/ Token!AlreadyDone(p) \/ Token!Ask(p) \/ Token!AskFails(p)
             \/ Token!SaveFails(p) \/ Token!Recover(p) \/ Token!Crash(p)
      PROVE  Goal
  BY <1>1 DEF Token!Begin, Token!Lock, Token!Lock_Shared, Token!LockFails, Token!AlreadyDone, Token!Ask, Token!AskFails, Token!SaveFails,
              Token!Recover, Token!Crash, TokenRejected
<1>2. ASSUME NEW p \in Process, Token!Reject(p) \/ Token!Condemn(p) PROVE Goal
  BY <1>2 DEF Token!Reject, Token!Condemn, TokenRejected
<1>3. ASSUME NEW p \in Process,
             Token!Answer(p) \/ Token!LoseAnswer(p) \/ Token!Save(p) \/ Token!Tombstone(p)
      PROVE  Goal
  <2>1. Token!Inside(p) /\ tokenPhase'[p] \notin {"rejected", "condemning"}
    BY <1>3 DEF Token!Answer, Token!LoseAnswer, Token!Save, Token!Tombstone, Token!Inside
  <2>2. q # p
    BY <2>1
  <2>3. tokenPhase'[q] = tokenPhase[q]
    BY <1>3, <2>2 DEF Token!Answer, Token!LoseAnswer, Token!Save, Token!Tombstone
  <2>4. Token!Inside(q)
    BY <2>3 DEF Token!Inside
  <2> QED BY <2>1, <2>2, <2>4, TokenOneInside
<1>4. CASE Token!Login
  <2>1. tokenPhase[q] = "rejected"
    BY <1>4 DEF Token!Login, Token!Open
  <2> QED BY <1>4, <2>1 DEF Token!Login, Token!Issue, TokenRejected
<1>5. CASE Token!Logout
  BY <1>5 DEF Token!Logout, TokenRejected
<1>6. CASE Token!Age \/ Token!Revoke \/ UNCHANGED Token!vars
  BY <1>6 DEF Token!Age, Token!Revoke, Token!vars, TokenRejected
<1> QED BY <1>1, <1>2, <1>3, <1>4, <1>5, <1>6 DEF Token!Next

\* A token leaves the accepted ones only for an answer that is then saved, or
\* is known to be lost.
LEMMA TokenReplacedKept ==
    TokenTyped /\ TokenAlone /\ TokenReplaced /\ [Token!Next]_Token!vars => TokenReplaced'
<1> SUFFICES ASSUME TokenTyped, TokenAlone, TokenReplaced, [Token!Next]_Token!vars PROVE TokenReplaced'
  OBVIOUS
<1> USE DEF Token!Goes, Token!Ends, Token!stored, Token!provider, TokenTyped, Token!TypeOK, TokenIssued, TokenReplaced
<1>1. ASSUME NEW p \in Process,
             \/ \E force \in BOOLEAN: Token!Begin(p, force)
             \/ Token!Lock(p) \/ Token!LockFails(p) \/ Token!AlreadyDone(p) \/ Token!Ask(p) \/ Token!AskFails(p)
             \/ Token!Reject(p) \/ Token!Recover(p) \/ Token!Condemn(p) \/ Token!Tombstone(p)
      PROVE  TokenReplaced'
  <2>1. \A q \in Process: tokenPhase'[q] = "answered" <=> tokenPhase[q] = "answered"
    BY <1>1 DEF Token!Begin, Token!Lock, Token!Lock_Shared, Token!LockFails, Token!AlreadyDone, Token!Ask, Token!AskFails, Token!Reject,
                Token!Recover, Token!Condemn, Token!Tombstone
  <2>2. /\ UNCHANGED << tokenGot, tokenHonored, tokenSevered >>
        /\ UNCHANGED << tokenKind, tokenToken >> \/ tokenKind' # "valid"
    BY <1>1 DEF Token!Begin, Token!Lock, Token!Lock_Shared, Token!LockFails, Token!AlreadyDone, Token!Ask, Token!AskFails, Token!Reject,
                Token!Recover, Token!Condemn, Token!Tombstone
  <2> QED BY <2>1, <2>2
<1>2. ASSUME NEW p \in Process, Token!Answer(p) PROVE TokenReplaced'
  <2>1. \A q \in Process: tokenPhase'[q] = "answered" => q = p
    <3> SUFFICES ASSUME NEW q \in Process, tokenPhase'[q] = "answered", q # p PROVE FALSE
      OBVIOUS
    <3>1. tokenPhase[q] = "answered"
      BY <1>2 DEF Token!Answer
    <3> QED BY <1>2, <3>1, TokenOneInside DEF Token!Answer, Token!Inside
  <2>2. tokenPhase'[p] = "answered" /\ tokenGot'[p] \in tokenHonored'
    BY <1>2 DEF Token!Answer, Token!Issue
  <2> QED BY <2>1, <2>2
<1>3. ASSUME NEW p \in Process, Token!LoseAnswer(p) \/ Token!SaveFails(p) PROVE TokenReplaced'
  BY <1>3 DEF Token!LoseAnswer, Token!SaveFails
<1>4. ASSUME NEW p \in Process, Token!Save(p) PROVE TokenReplaced'
  BY <1>4 DEF Token!Save
<1>5. ASSUME NEW p \in Process, Token!Crash(p) PROVE TokenReplaced'
  BY <1>5 DEF Token!Crash
<1>6. CASE Token!Login
  <2>1. \A q \in Process: tokenPhase'[q] # "answered"
    BY <1>6 DEF Token!Login, Token!Open
  <2>2. tokenToken' \in tokenHonored'
    BY <1>6 DEF Token!Login, Token!Issue
  <2> QED BY <2>1, <2>2
<1>7. CASE Token!Logout \/ Token!Age \/ Token!Revoke \/ UNCHANGED Token!vars
  BY <1>7 DEF Token!Logout, Token!Age, Token!Revoke, Token!vars
<1> QED BY <1>1, <1>2, <1>3, <1>4, <1>5, <1>6, <1>7 DEF Token!Next

\* The invariant is inductive.
LEMMA TokenStep == TokenIInv /\ [Token!Next]_Token!vars => TokenIInv'
BY TokenTypeStep, TokenAloneKept, TokenRejectedKept, TokenReplacedKept DEF TokenIInv

\* A step that writes a tombstone is Tombstone, and it condemns what the
\* provider has rejected.
LEMMA TokenEarned == TokenIInv /\ [Token!Next]_Token!vars => Token!TombstoneEarned
<1> SUFFICES ASSUME TokenIInv, [Token!Next]_Token!vars, tokenKind = "valid", tokenKind' = "revoked"
             PROVE  tokenToken \notin tokenHonored
  BY DEF Token!TombstoneEarned
<1> USE DEF TokenIInv, Token!stored
<1>1. ASSUME NEW p \in Process, Token!Tombstone(p) PROVE tokenToken \notin tokenHonored
  BY <1>1 DEF Token!Tombstone, TokenRejected
<1>2. \E p \in Process: Token!Tombstone(p)
  BY DEF Token!Next, Token!Begin, Token!Lock, Token!Lock_Shared, Token!LockFails, Token!AlreadyDone, Token!Ask, Token!Answer, Token!LoseAnswer,
         Token!AskFails, Token!Reject, Token!Save, Token!SaveFails, Token!Recover, Token!Condemn, Token!Crash, Token!Login, Token!Logout, Token!Age,
         Token!Revoke, Token!vars
<1> QED BY <1>1, <1>2

\* The refresh of a token (oauth-manager.ts): with no refresh past its first read, a
\* stored token is one the provider accepts, unless an answer was lost, for any
\* processes that refresh, log in and out, crash and overlap.
THEOREM TokenUsable == Spec => []StoredTokenUsable
<1>1. Init => TokenIInv
  BY TokenStart DEF Init
<1>2. TokenIInv /\ [Next]_vars => TokenIInv'
  <2>1. TokenIInv /\ [Token!Next]_Token!vars => TokenIInv' BY TokenStep
  <2> QED BY <2>1 DEF Next, vars, tokenVars, Token!vars
<1>3. TokenIInv => StoredTokenUsable
  BY DEF StoredTokenUsable, TokenIInv, TokenReplaced, Token!StoredTokenUsable, Token!Inside
<1> QED BY <1>1, <1>2, <1>3, PTL DEF Spec

\* A tombstone only ever replaces a token the provider rejects: no process is logged
\* out because another one refreshed.
THEOREM TombstonesEarned == Spec => NoFalseTombstone
<1>1. Init => TokenIInv
  BY TokenStart DEF Init
<1>2. TokenIInv /\ [Next]_vars => TokenIInv'
  <2>1. TokenIInv /\ [Token!Next]_Token!vars => TokenIInv' BY TokenStep
  <2> QED BY <2>1 DEF Next, vars, tokenVars, Token!vars
<1>3. TokenIInv /\ [Next]_vars => [Token!TombstoneEarned]_vars
  <2>1. TokenIInv /\ [Token!Next]_Token!vars => Token!TombstoneEarned BY TokenEarned
  <2> QED BY <2>1 DEF Next, vars, tokenVars, Token!vars
<1> QED BY <1>1, <1>2, <1>3, PTL DEF Spec, NoFalseTombstone
-----------------------------------------------------------------------------
\* A call that waits for its turn to start a client, or for the client.
McpAttempting(o) == mcpPc[o] \in {"reconnect", "starting"}

\* One name, one entry.
McpOneEntry == mcpEntry = {} \/ \E e \in Op: mcpEntry = {e}

\* While a client is being closed no other one is up.
McpQuiet == (\E p \in Op: mcpPc[p] \in Mcp!Closing) => \A o \in Op: mcpLink[o] # "open"

\* The current attempt's client is the one of the entry.
McpCurrentOwns ==
    \A o \in Op:
        mcpPc[o] = "starting" /\ mcpLink[o] = "starting" /\ Mcp!IsCurrent(o) =>
            \E e \in mcpEntry: mcpClient[e] = {o}

\* Nobody works on the entry of a call that has not created it.
McpFresh ==
    \A o \in Op: mcpPc[o] \in {"new", "connect"} => o \notin mcpEntry /\ \A q \in Op: mcpOn[q] # {o}

\* An attempt is one of its entry's, and no other call makes the same one.
McpCounted ==
    \A o \in Op: McpAttempting(o) => \E e \in Op: mcpOn[o] = {e} /\ mcpTry[o] <= mcpAttempt[e]

McpDistinct ==
    \A o, q \in Op:
        o # q /\ McpAttempting(o) /\ McpAttempting(q) /\ mcpOn[o] = mcpOn[q] => mcpTry[o] # mcpTry[q]

McpIInv ==
    Mcp!TypeOK /\ McpOneEntry /\ Mcp!NoOrphanClient /\ McpQuiet /\ McpCurrentOwns /\ McpFresh /\ McpCounted /\ McpDistinct

\* Nothing is connected at first.
LEMMA McpStart == Mcp!Init => McpIInv
BY DEF Mcp!Init, McpIInv, Mcp!TypeOK, McpOneEntry, Mcp!NoOrphanClient, McpQuiet, McpCurrentOwns, McpFresh, McpCounted,
       McpDistinct, McpAttempting, Mcp!Closing

\* Every step leaves every variable in its set.
LEMMA McpTypeStep == Mcp!TypeOK /\ [Mcp!Next]_Mcp!vars => Mcp!TypeOK'
<1> SUFFICES ASSUME Mcp!TypeOK, [Mcp!Next]_Mcp!vars PROVE Mcp!TypeOK'
  OBVIOUS
<1> USE DEF Mcp!Goes, Mcp!Close, Mcp!TypeOK, Mcp!Closing
<1>1. ASSUME NEW o \in Op, Mcp!Connect(o) \/ Mcp!ConnectDisabled(o) PROVE Mcp!TypeOK'
  BY <1>1 DEF Mcp!Connect, Mcp!ConnectDisabled
<1>2. ASSUME NEW o \in Op, Mcp!ConnectOn(o) PROVE Mcp!TypeOK'
  BY <1>2 DEF Mcp!ConnectOn, Mcp!ConnectOne
<1>3. ASSUME NEW o \in Op, Mcp!Reconnect(o) PROVE Mcp!TypeOK'
  BY <1>3 DEF Mcp!Reconnect
<1>4. ASSUME NEW o \in Op, Mcp!ReconnectOn(o) PROVE Mcp!TypeOK'
  BY <1>4 DEF Mcp!ReconnectOn, Mcp!ConnectOne
<1>5. ASSUME NEW o \in Op, Mcp!Remove(o) \/ Mcp!RemoveOn(o) \/ Mcp!Shutdown(o) PROVE Mcp!TypeOK'
  BY <1>5 DEF Mcp!Remove, Mcp!RemoveOn, Mcp!Shutdown
<1>6. ASSUME NEW o \in Op, Mcp!Started(o) PROVE Mcp!TypeOK'
  BY <1>6 DEF Mcp!Started
<1>7. ASSUME NEW o \in Op, Mcp!StartFails(o) \/ Mcp!Drops(o) PROVE Mcp!TypeOK'
  BY <1>7 DEF Mcp!StartFails, Mcp!Drops
<1>8. CASE UNCHANGED Mcp!vars
  BY <1>8 DEF Mcp!vars
<1> QED BY <1>1, <1>2, <1>3, <1>4, <1>5, <1>6, <1>7, <1>8 DEF Mcp!Next

\* A client that is up is the one of the entry: with no entry, or an entry
\* that has none, there is no client that is up.
LEMMA McpNoneOpen ==
    ASSUME Mcp!NoOrphanClient, \A e \in mcpEntry: mcpClient[e] = {}
    PROVE  \A o \in Op: mcpLink[o] # "open"
BY DEF Mcp!NoOrphanClient

\* Closing the client of the entry leaves none up and starts none.
LEMMA McpCloseAll ==
    ASSUME McpIInv, NEW e \in mcpEntry, Mcp!Close(e)
    PROVE  /\ \A o \in Op: mcpLink'[o] # "open"
           /\ \A o \in Op: mcpLink'[o] = "starting" => mcpLink[o] = "starting" /\ mcpClient[e] # {o}
           /\ \A x \in Op: mcpClient'[x] = IF x = e THEN {} ELSE mcpClient[x]
<1>1. mcpEntry = {e} /\ e \in Op
  BY DEF McpIInv, McpOneEntry
<1>2. \A o \in Op: mcpLink[o] = "open" => mcpClient[e] = {o}
  BY <1>1 DEF McpIInv, Mcp!NoOrphanClient
<1> QED BY <1>1, <1>2 DEF Mcp!Close, McpIInv, Mcp!TypeOK

\* A call that ends up with no attempt of its own leaves the attempts alone.
LEMMA McpAttemptsKept ==
    ASSUME McpIInv, NEW o \in Op, NEW to, Mcp!Goes(o, to), to \notin {"new", "reconnect", "starting"},
           UNCHANGED << mcpAttempt, mcpTry >>,
           \A q \in Op: q # o => mcpOn'[q] = mcpOn[q],
           mcpOn'[o] = mcpOn[o] \/ mcpOn'[o] = mcpEntry
    PROVE  McpCounted' /\ McpDistinct'
<1>1. \A q \in Op: McpAttempting(q)' => q # o /\ McpAttempting(q) /\ mcpOn'[q] = mcpOn[q]
  BY DEF McpAttempting, Mcp!Goes, McpIInv, Mcp!TypeOK
<1> QED BY <1>1 DEF McpCounted, McpDistinct, McpIInv

\* connect up to its await closes the client of the entry.
LEMMA McpConnectKeeps == ASSUME McpIInv, NEW o \in Op, Mcp!Connect(o), Mcp!TypeOK' PROVE McpIInv'
<1> PICK e \in mcpEntry: mcpClient[e] # {} /\ Mcp!Close(e)
  BY DEF Mcp!Connect
<1>1. /\ \A q \in Op: mcpLink'[q] # "open"
      /\ \A q \in Op: mcpLink'[q] = "starting" => mcpLink[q] = "starting" /\ mcpClient[e] # {q}
      /\ \A x \in Op: mcpClient'[x] = IF x = e THEN {} ELSE mcpClient[x]
  BY McpCloseAll
<1>2. /\ \A q \in Op: q # o => mcpPc'[q] = mcpPc[q]
      /\ mcpPc[o] = "new" /\ mcpPc'[o] = "connect"
      /\ UNCHANGED << mcpEntry, mcpAttempt, mcpOn, mcpTry >>
  BY DEF Mcp!Connect, Mcp!Goes, McpIInv, Mcp!TypeOK
<1>3. mcpEntry = {e}
  BY DEF McpIInv, McpOneEntry
<1>4. Mcp!NoOrphanClient' /\ McpQuiet' /\ McpOneEntry'
  BY <1>1, <1>2 DEF Mcp!NoOrphanClient, McpQuiet, McpOneEntry, McpIInv
<1>5. McpCurrentOwns'
  BY <1>1, <1>2, <1>3 DEF McpCurrentOwns, Mcp!IsCurrent, McpIInv
<1>6. McpFresh'
  BY <1>2 DEF McpFresh, McpIInv
<1>7. McpCounted' /\ McpDistinct'
  BY <1>2, McpAttemptsKept DEF Mcp!Connect
<1> QED BY <1>4, <1>5, <1>6, <1>7 DEF McpIInv

\* A new entry takes the place of the old one when no client is up.
LEMMA McpNothingUp ==
    ASSUME McpIInv, NEW o \in Op,
           mcpPc[o] = "connect" \/ (mcpPc[o] = "new" /\ \A e \in mcpEntry: mcpClient[e] = {})
    PROVE  /\ \A q \in Op: mcpLink[q] # "open"
           /\ \A q \in Op: mcpOn[q] # {o}
           /\ mcpLink[o] # "starting" /\ ~McpAttempting(o)
BY McpNoneOpen DEF McpIInv, McpQuiet, Mcp!Closing, McpFresh, Mcp!NoOrphanClient, McpAttempting

\* The new entry is that of a call nobody else works on.
LEMMA McpConnectOnKeeps == ASSUME McpIInv, NEW o \in Op, Mcp!ConnectOn(o), Mcp!TypeOK' PROVE McpIInv'
<1>1. /\ \A q \in Op: mcpLink[q] # "open"
      /\ \A q \in Op: mcpOn[q] # {o}
      /\ mcpLink[o] # "starting" /\ ~McpAttempting(o)
  BY McpNothingUp DEF Mcp!ConnectOn
<1>2. /\ \A q \in Op: q # o => mcpPc'[q] = mcpPc[q] /\ mcpOn'[q] = mcpOn[q] /\ mcpTry'[q] = mcpTry[q]
                               /\ mcpAttempt'[q] = mcpAttempt[q] /\ mcpClient'[q] = mcpClient[q]
                               /\ mcpLink'[q] = mcpLink[q]
      /\ mcpPc'[o] = "starting" /\ mcpOn'[o] = {o} /\ mcpTry'[o] = 1 /\ mcpAttempt'[o] = 1
      /\ mcpClient'[o] = {o} /\ mcpLink'[o] = "starting" /\ mcpEntry' = {o}
  BY DEF Mcp!ConnectOn, Mcp!ConnectOne, Mcp!Goes, McpIInv, Mcp!TypeOK
<1>3. Mcp!NoOrphanClient' /\ McpOneEntry'
  BY <1>1, <1>2 DEF Mcp!NoOrphanClient, McpOneEntry, McpIInv
<1>4. McpQuiet'
  BY <1>1, <1>2 DEF McpQuiet
<1>5. McpCurrentOwns'
  BY <1>1, <1>2 DEF McpCurrentOwns, Mcp!IsCurrent
<1>6. McpFresh'
  BY <1>1, <1>2 DEF McpFresh, McpIInv
<1>7. McpCounted'
  BY <1>1, <1>2 DEF McpCounted, McpAttempting, McpIInv
<1>8. McpDistinct'
  BY <1>1, <1>2 DEF McpDistinct, McpAttempting, McpIInv
<1> QED BY <1>3, <1>4, <1>5, <1>6, <1>7, <1>8 DEF McpIInv

\* So is a disabled one, which starts nothing.
LEMMA McpConnectDisabledKeeps ==
    ASSUME McpIInv, NEW o \in Op, Mcp!ConnectDisabled(o), Mcp!TypeOK' PROVE McpIInv'
<1>1. /\ \A q \in Op: mcpLink[q] # "open"
      /\ \A q \in Op: mcpOn[q] # {o}
      /\ mcpLink[o] # "starting" /\ ~McpAttempting(o)
  BY McpNothingUp DEF Mcp!ConnectDisabled
<1>2. /\ \A q \in Op: q # o => mcpPc'[q] = mcpPc[q]
      /\ mcpPc'[o] = "done" /\ mcpEntry' = {o}
      /\ UNCHANGED << mcpAttempt, mcpClient, mcpLink, mcpOn, mcpTry >>
  BY DEF Mcp!ConnectDisabled, Mcp!Goes, McpIInv, Mcp!TypeOK
<1>3. Mcp!NoOrphanClient' /\ McpOneEntry' /\ McpQuiet'
  BY <1>1, <1>2 DEF Mcp!NoOrphanClient, McpOneEntry, McpQuiet, McpIInv
<1>4. McpCurrentOwns'
  BY <1>1, <1>2 DEF McpCurrentOwns, Mcp!IsCurrent
<1>5. McpFresh'
  BY <1>1, <1>2 DEF McpFresh, McpIInv
<1>6. McpCounted' /\ McpDistinct'
  BY <1>2, McpAttemptsKept DEF Mcp!ConnectDisabled
<1> QED BY <1>3, <1>4, <1>5, <1>6 DEF McpIInv

\* The attempt of a reconnect is later than all others on the entry.
LEMMA McpReconnectKeeps == ASSUME McpIInv, NEW o \in Op, Mcp!Reconnect(o), Mcp!TypeOK' PROVE McpIInv'
<1> PICK e \in mcpEntry: /\ mcpAttempt' = [mcpAttempt EXCEPT ![e] = mcpAttempt[e] + 1]
                         /\ mcpTry' = [mcpTry EXCEPT ![o] = mcpAttempt[e] + 1]
                         /\ mcpOn' = [mcpOn EXCEPT ![o] = {e}]
                         /\ Mcp!Close(e)
  BY DEF Mcp!Reconnect
<1>1. /\ \A q \in Op: mcpLink'[q] # "open"
      /\ \A q \in Op: mcpLink'[q] = "starting" => mcpLink[q] = "starting" /\ mcpClient[e] # {q}
      /\ \A x \in Op: mcpClient'[x] = IF x = e THEN {} ELSE mcpClient[x]
  BY McpCloseAll
<1>2. /\ \A q \in Op: q # o => mcpPc'[q] = mcpPc[q] /\ mcpOn'[q] = mcpOn[q] /\ mcpTry'[q] = mcpTry[q]
      /\ mcpPc[o] = "new" /\ mcpPc'[o] = "reconnect" /\ mcpOn'[o] = {e}
      /\ mcpEntry' = mcpEntry
  BY DEF Mcp!Reconnect, Mcp!Goes, McpIInv, Mcp!TypeOK
<1>3. mcpEntry = {e} /\ e \in Op
  BY DEF McpIInv, McpOneEntry
<1>4. /\ mcpAttempt[e] \in Nat /\ mcpTry'[o] = mcpAttempt[e] + 1 /\ mcpAttempt'[e] = mcpAttempt[e] + 1
      /\ \A x \in Op: x # e => mcpAttempt'[x] = mcpAttempt[x]
      /\ \A q \in Op: mcpTry[q] \in Nat
  BY <1>3 DEF McpIInv, Mcp!TypeOK
<1>5. Mcp!NoOrphanClient' /\ McpOneEntry' /\ McpQuiet'
  BY <1>1, <1>2 DEF Mcp!NoOrphanClient, McpOneEntry, McpQuiet, McpIInv
<1>6. \A q \in Op: q # o /\ McpAttempting(q) /\ mcpOn[q] = {e} => mcpTry[q] <= mcpAttempt[e]
  BY DEF McpCounted, McpIInv
<1>7. McpCurrentOwns'
  BY <1>1, <1>2, <1>3, <1>4, <1>6 DEF McpCurrentOwns, Mcp!IsCurrent, McpAttempting
<1>8. McpFresh'
  BY <1>2, <1>3 DEF McpFresh, McpIInv
<1>9. McpCounted'
  <2> SUFFICES ASSUME NEW q \in Op, McpAttempting(q)'
               PROVE  \E x \in Op: mcpOn'[q] = {x} /\ mcpTry'[q] <= mcpAttempt'[x]
    BY DEF McpCounted
  <2>1. CASE q = o
    BY <1>2, <1>3, <1>4, <2>1
  <2>2. CASE q # o
    <3>1. PICK x \in Op: mcpOn[q] = {x} /\ mcpTry[q] <= mcpAttempt[x]
      BY <1>2, <2>2 DEF McpAttempting, McpCounted, McpIInv
    <3>2. mcpAttempt[x] \in Nat /\ mcpAttempt[x] <= mcpAttempt'[x]
      BY <1>4 DEF McpIInv, Mcp!TypeOK
    <3> QED BY <1>2, <1>4, <2>2, <3>1, <3>2
  <2> QED BY <2>1, <2>2
<1>10. McpDistinct'
  BY <1>2, <1>4, <1>6 DEF McpDistinct, McpAttempting, McpIInv
<1> QED BY <1>5, <1>7, <1>8, <1>9, <1>10 DEF McpIInv

\* Only the latest attempt goes on behind the close.
LEMMA McpReconnectOnKeeps == ASSUME McpIInv, NEW o \in Op, Mcp!ReconnectOn(o), Mcp!TypeOK' PROVE McpIInv'
<1>1. CASE Mcp!IsCurrent(o)
  <2> PICK e \in mcpOn[o]: Mcp!ConnectOne(o, e, mcpTry[o])
    BY <1>1 DEF Mcp!ReconnectOn
  <2>1. mcpPc[o] = "reconnect" /\ mcpEntry' = mcpEntry
    BY DEF Mcp!ReconnectOn
  <2>2. mcpEntry = {e} /\ e \in Op /\ mcpOn[o] = {e} /\ mcpAttempt[e] = mcpTry[o]
    BY <1>1, <2>1 DEF Mcp!IsCurrent, McpIInv, McpCounted, McpAttempting
  <2>3. /\ UNCHANGED << mcpAttempt, mcpTry, mcpOn >>
        /\ \A q \in Op: q # o => mcpPc'[q] = mcpPc[q] /\ mcpLink'[q] = mcpLink[q]
        /\ \A x \in Op: x # e => mcpClient'[x] = mcpClient[x]
        /\ mcpPc'[o] = "starting" /\ mcpLink'[o] = "starting" /\ mcpClient'[e] = {o}
    BY <2>2 DEF Mcp!ConnectOne, Mcp!Goes, McpIInv, Mcp!TypeOK
  <2>4. \A q \in Op: mcpLink[q] # "open"
    BY <2>1 DEF McpIInv, McpQuiet, Mcp!Closing
  <2>5. Mcp!NoOrphanClient' /\ McpOneEntry' /\ McpQuiet'
    BY <2>1, <2>3, <2>4 DEF Mcp!NoOrphanClient, McpOneEntry, McpQuiet, McpIInv
  <2>6. McpCurrentOwns'
    <3> SUFFICES ASSUME NEW q \in Op, mcpPc'[q] = "starting", Mcp!IsCurrent(q)'
                 PROVE  mcpClient'[e] = {q}
      BY <2>1, <2>2 DEF McpCurrentOwns
    <3>1. mcpOn[q] = {e} /\ mcpTry[q] = mcpAttempt[e]
      BY <2>1, <2>2, <2>3 DEF Mcp!IsCurrent
    <3>2. q = o
      <4> SUFFICES ASSUME q # o PROVE FALSE
        OBVIOUS
      <4>1. McpAttempting(q) /\ McpAttempting(o)
        BY <2>1, <2>3 DEF McpAttempting
      <4>2. mcpOn[q] = mcpOn[o] /\ mcpTry[q] = mcpTry[o]
        BY <2>2, <3>1
      <4> QED BY <4>1, <4>2 DEF McpDistinct, McpIInv
    <3> QED BY <2>3, <3>2
  <2>7. McpFresh'
    BY <2>1, <2>3 DEF McpFresh, McpIInv
  <2>8. McpCounted' /\ McpDistinct'
    BY <2>1, <2>3 DEF McpCounted, McpDistinct, McpAttempting, McpIInv
  <2> QED BY <2>5, <2>6, <2>7, <2>8 DEF McpIInv
<1>2. CASE ~Mcp!IsCurrent(o)
  <2>1. /\ \A q \in Op: q # o => mcpPc'[q] = mcpPc[q]
        /\ mcpPc[o] = "reconnect" /\ mcpPc'[o] = "done"
        /\ UNCHANGED << mcpEntry, mcpAttempt, mcpClient, mcpLink, mcpOn, mcpTry >>
    BY <1>2 DEF Mcp!ReconnectOn, Mcp!Goes, McpIInv, Mcp!TypeOK
  <2>2. Mcp!NoOrphanClient' /\ McpOneEntry' /\ McpQuiet' /\ McpCurrentOwns' /\ McpFresh'
    BY <2>1 DEF Mcp!NoOrphanClient, McpOneEntry, McpQuiet, McpCurrentOwns, Mcp!IsCurrent, McpFresh, McpIInv, Mcp!Closing
  <2>3. McpCounted' /\ McpDistinct'
    BY <1>2, <2>1, McpAttemptsKept DEF Mcp!ReconnectOn
  <2> QED BY <2>2, <2>3 DEF McpIInv
<1> QED BY <1>1, <1>2

\* remove and shutdown close the client before the entry goes.
LEMMA McpRemoveKeeps ==
    ASSUME McpIInv, NEW o \in Op, Mcp!Remove(o) \/ Mcp!Shutdown(o), Mcp!TypeOK' PROVE McpIInv'
<1> PICK e \in mcpEntry: Mcp!Close(e)
  BY DEF Mcp!Remove, Mcp!Shutdown
<1>1. /\ \A q \in Op: mcpLink'[q] # "open"
      /\ \A q \in Op: mcpLink'[q] = "starting" => mcpLink[q] = "starting" /\ mcpClient[e] # {q}
      /\ \A x \in Op: mcpClient'[x] = IF x = e THEN {} ELSE mcpClient[x]
  BY McpCloseAll
<1>2. mcpEntry = {e} /\ e \in Op
  BY DEF McpIInv, McpOneEntry
<1>3. /\ \A q \in Op: q # o => mcpPc'[q] = mcpPc[q] /\ mcpOn'[q] = mcpOn[q]
      /\ mcpPc[o] = "new" /\ mcpPc'[o] \in {"remove", "done"} /\ mcpOn'[o] \in {mcpOn[o], {e}}
      /\ mcpEntry' \in {mcpEntry, {}}
      /\ UNCHANGED << mcpAttempt, mcpTry >>
  BY <1>2 DEF Mcp!Remove, Mcp!Shutdown, Mcp!Goes, McpIInv, Mcp!TypeOK
<1>4. Mcp!NoOrphanClient' /\ McpOneEntry' /\ McpQuiet'
  BY <1>1, <1>3 DEF Mcp!NoOrphanClient, McpOneEntry, McpQuiet, McpIInv
<1>5. McpCurrentOwns'
  <2> SUFFICES ASSUME NEW q \in Op, mcpPc'[q] = "starting", mcpLink'[q] = "starting", Mcp!IsCurrent(q)'
               PROVE  FALSE
    BY DEF McpCurrentOwns
  <2>1. mcpPc[q] = "starting" /\ mcpOn'[q] = mcpOn[q]
    BY <1>3
  <2>2. mcpOn[q] # {}
    BY <2>1 DEF McpCounted, McpAttempting, McpIInv
  <2>3. Mcp!IsCurrent(q)
    BY <1>3, <2>1, <2>2 DEF Mcp!IsCurrent
  <2> QED BY <1>1, <1>2, <2>1, <2>3 DEF McpCurrentOwns, McpIInv
<1>6. McpFresh'
  BY <1>2, <1>3 DEF McpFresh, McpIInv
<1>7. McpCounted' /\ McpDistinct'
  BY <1>2, <1>3, McpAttemptsKept DEF Mcp!Remove, Mcp!Shutdown
<1> QED BY <1>4, <1>5, <1>6, <1>7 DEF McpIInv

\* Whatever entry remove takes away by then, it has no client that is up.
LEMMA McpRemoveOnKeeps == ASSUME McpIInv, NEW o \in Op, Mcp!RemoveOn(o), Mcp!TypeOK' PROVE McpIInv'
<1>1. /\ \A q \in Op: q # o => mcpPc'[q] = mcpPc[q]
      /\ mcpPc[o] = "remove" /\ mcpPc'[o] = "done" /\ mcpEntry' = {}
      /\ UNCHANGED << mcpAttempt, mcpClient, mcpLink, mcpOn, mcpTry >>
  BY DEF Mcp!RemoveOn, Mcp!Goes, McpIInv, Mcp!TypeOK
<1>2. \A q \in Op: mcpLink[q] # "open"
  BY <1>1 DEF McpIInv, McpQuiet, Mcp!Closing
<1>3. Mcp!NoOrphanClient' /\ McpOneEntry' /\ McpQuiet'
  BY <1>1, <1>2 DEF Mcp!NoOrphanClient, McpOneEntry, McpQuiet, McpIInv
<1>4. McpCurrentOwns'
  BY <1>1 DEF McpCurrentOwns, Mcp!IsCurrent, McpCounted, McpAttempting, McpIInv
<1>5. McpFresh'
  BY <1>1 DEF McpFresh, McpIInv
<1>6. McpCounted' /\ McpDistinct'
  BY <1>1, McpAttemptsKept DEF Mcp!RemoveOn
<1> QED BY <1>3, <1>4, <1>5, <1>6 DEF McpIInv

\* A client that comes up is that of the entry, or is closed.
LEMMA McpStartedKeeps ==
    ASSUME McpIInv, NEW o \in Op, Mcp!Started(o), Mcp!TypeOK' PROVE McpIInv'
<1>1. /\ \A q \in Op: q # o => mcpPc'[q] = mcpPc[q] /\ mcpLink'[q] = mcpLink[q]
      /\ mcpPc[o] = "starting" /\ mcpPc'[o] = "done" /\ mcpLink[o] = "starting"
      /\ mcpLink'[o] = IF Mcp!IsCurrent(o) THEN "open" ELSE "closed"
      /\ UNCHANGED << mcpEntry, mcpAttempt, mcpClient, mcpOn, mcpTry >>
      /\ \A p \in Op: mcpPc[p] \notin Mcp!Closing
  BY DEF Mcp!Started, Mcp!Goes, McpIInv, Mcp!TypeOK
<1>2. Mcp!NoOrphanClient'
  BY <1>1 DEF Mcp!NoOrphanClient, McpCurrentOwns, McpIInv
<1>3. McpOneEntry' /\ McpCurrentOwns' /\ McpFresh'
  BY <1>1 DEF McpOneEntry, McpCurrentOwns, Mcp!IsCurrent, McpFresh, McpIInv
<1>4. McpQuiet'
  BY <1>1 DEF McpQuiet, Mcp!Closing
<1>5. McpCounted' /\ McpDistinct'
  BY <1>1, McpAttemptsKept DEF Mcp!Started
<1> QED BY <1>2, <1>3, <1>4, <1>5 DEF McpIInv

\* A start that fails takes only its own client down with it.
LEMMA McpStartFailsKeeps ==
    ASSUME McpIInv, NEW o \in Op, Mcp!StartFails(o), Mcp!TypeOK' PROVE McpIInv'
<1>1. /\ \A q \in Op: q # o => mcpPc'[q] = mcpPc[q]
      /\ mcpPc[o] = "starting" /\ mcpPc'[o] = "done"
      /\ UNCHANGED << mcpEntry, mcpAttempt, mcpOn, mcpTry >>
  BY DEF Mcp!StartFails, Mcp!Goes, McpIInv, Mcp!TypeOK
<1>2. McpOneEntry' /\ McpFresh'
  BY <1>1 DEF McpOneEntry, McpFresh, McpIInv
<1>3. McpCounted' /\ McpDistinct'
  BY <1>1, McpAttemptsKept DEF Mcp!StartFails
<1>4. CASE Mcp!IsCurrent(o)
  <2> PICK e \in mcpOn[o]: Mcp!Close(e)
    BY <1>4 DEF Mcp!StartFails
  <2>1. mcpEntry = {e} /\ e \in mcpEntry
    BY <1>1, <1>4 DEF Mcp!IsCurrent, McpCounted, McpAttempting, McpIInv
  <2>2. /\ \A q \in Op: mcpLink'[q] # "open"
        /\ \A q \in Op: mcpLink'[q] = "starting" => mcpLink[q] = "starting" /\ mcpClient[e] # {q}
        /\ \A x \in Op: mcpClient'[x] = IF x = e THEN {} ELSE mcpClient[x]
    BY <2>1, McpCloseAll
  <2>3. mcpLink[o] = "starting" => mcpClient[e] = {o}
    BY <1>1, <1>4, <2>1 DEF McpCurrentOwns, McpIInv
  <2>4. Mcp!NoOrphanClient' /\ McpQuiet'
    BY <1>1, <2>2, <2>3 DEF Mcp!NoOrphanClient, McpQuiet, McpIInv
  <2>5. McpCurrentOwns'
    BY <1>1, <2>1, <2>2 DEF McpCurrentOwns, Mcp!IsCurrent, McpIInv
  <2> QED BY <1>2, <1>3, <2>4, <2>5 DEF McpIInv
<1>5. CASE ~Mcp!IsCurrent(o)
  <2>1. /\ \A q \in Op: q # o => mcpLink'[q] = mcpLink[q]
        /\ mcpLink'[o] = "closed" /\ mcpClient' = mcpClient
    BY <1>5 DEF Mcp!StartFails, McpIInv, Mcp!TypeOK
  <2>2. Mcp!NoOrphanClient' /\ McpQuiet' /\ McpCurrentOwns'
    BY <1>1, <2>1 DEF Mcp!NoOrphanClient, McpQuiet, McpCurrentOwns, Mcp!IsCurrent, McpIInv, Mcp!Closing
  <2> QED BY <1>2, <1>3, <2>2 DEF McpIInv
<1> QED BY <1>4, <1>5

\* A connection that drops is forgotten by the entry that had it.
LEMMA McpDropsKeeps == ASSUME McpIInv, NEW o \in Op, Mcp!Drops(o), Mcp!TypeOK' PROVE McpIInv'
<1>1. /\ \A q \in Op: q # o => mcpLink'[q] = mcpLink[q]
      /\ mcpLink[o] = "open" /\ mcpLink'[o] = "closed"
      /\ UNCHANGED << mcpEntry, mcpAttempt, mcpPc, mcpOn, mcpTry >>
  BY DEF Mcp!Drops, McpIInv, Mcp!TypeOK
<1>2. \A x \in Op: mcpClient'[x] = mcpClient[x] \/ mcpClient[x] = {o}
  <2>1. CASE mcpClient' = mcpClient
    BY <2>1
  <2>2. CASE mcpClient' # mcpClient
    <3>1. \E e \in mcpOn[o]: mcpClient[e] = {o}
      BY <2>2 DEF Mcp!Drops
    <3> PICK e \in mcpOn[o]: mcpClient' = [mcpClient EXCEPT ![e] = {}]
      BY <2>2 DEF Mcp!Drops
    <3>2. mcpOn[o] = mcpEntry /\ mcpClient[e] = {o}
      BY <2>2, <3>1 DEF Mcp!Drops, Mcp!IsCurrent, McpIInv, McpOneEntry
    <3> QED BY <3>2 DEF McpIInv, Mcp!TypeOK
  <2> QED BY <2>1, <2>2
<1>3. mcpEntry \subseteq Op
  BY DEF McpIInv, Mcp!TypeOK
<1>4. Mcp!NoOrphanClient'
  BY <1>1, <1>2, <1>3 DEF Mcp!NoOrphanClient, McpIInv
<1>5. McpCurrentOwns'
  BY <1>1, <1>2, <1>3 DEF McpCurrentOwns, Mcp!IsCurrent, McpIInv
<1>6. McpOneEntry' /\ McpQuiet' /\ McpFresh' /\ McpCounted' /\ McpDistinct'
  BY <1>1 DEF McpOneEntry, McpQuiet, McpFresh, McpCounted, McpDistinct, McpAttempting, McpIInv
<1> QED BY <1>4, <1>5, <1>6 DEF McpIInv

\* No client starts while another closes: the invariant is inductive.
LEMMA McpStep == McpIInv /\ [Mcp!Next]_Mcp!vars => McpIInv'
<1> SUFFICES ASSUME McpIInv, [Mcp!Next]_Mcp!vars PROVE McpIInv'
  OBVIOUS
<1>0. Mcp!TypeOK'
  BY McpTypeStep DEF McpIInv
<1>1. CASE UNCHANGED Mcp!vars
  <2>1. Mcp!NoOrphanClient' /\ McpOneEntry' /\ McpQuiet'
    BY <1>1 DEF Mcp!vars, Mcp!NoOrphanClient, McpOneEntry, McpQuiet, McpIInv
  <2>2. McpCurrentOwns' /\ McpFresh'
    BY <1>1 DEF Mcp!vars, McpCurrentOwns, Mcp!IsCurrent, McpFresh, McpIInv
  <2>3. McpCounted' /\ McpDistinct'
    BY <1>1 DEF Mcp!vars, McpCounted, McpDistinct, McpAttempting, McpIInv
  <2> QED BY <1>0, <2>1, <2>2, <2>3 DEF McpIInv
<1> QED BY <1>0, <1>1, McpConnectKeeps, McpConnectOnKeeps, McpConnectDisabledKeeps, McpReconnectKeeps,
           McpReconnectOnKeeps, McpRemoveKeeps, McpRemoveOnKeeps, McpStartedKeeps, McpStartFailsKeeps,
           McpDropsKeeps DEF Mcp!Next

\* The connections to MCP servers (connection-manager.ts): a client that is up is that
\* of the entry in the map and one that starts is still awaited, for any operations.
THEOREM NoneOrphaned == Spec => []NoOrphanClient
<1>1. Init => McpIInv
  BY McpStart DEF Init
<1>2. McpIInv /\ [Next]_vars => McpIInv'
  <2>1. McpIInv /\ [Mcp!Next]_Mcp!vars => McpIInv' BY McpStep
  <2> QED BY <2>1 DEF Next, vars, mcpVars, Mcp!vars
<1>3. McpIInv => NoOrphanClient
  BY DEF NoOrphanClient, McpIInv
<1> QED BY <1>1, <1>2, <1>3, PTL DEF Spec
-----------------------------------------------------------------------------
LEMMA TimesCounted ==
    {Jitter, StaleAge, MaxCoalesce, MaxTime, MaxStops} \subseteq Nat /\ Period \in Nat \ {0}
BY BoundsAssumption

CronCronRecord == [recurring: BOOLEAN, createdAt: Nat, lastFiredAt: Nat]

\* Where a scheduler that knows nothing but the record looks from.
CronSeed(t) == IF t.lastFiredAt > t.createdAt THEN t.lastFiredAt ELSE t.createdAt

\* The record accounts for every occurrence up to its cursor.
CronCovered(t) == \A o \in Cron!Occurrences: t.createdAt < o /\ o <= t.lastFiredAt => cronFired[o] >= 1

\* No occurrence past the cursor was counted in more deliveries than the ends of
\* the process excuse, and of a prompt for once none.
CronSettled(t) ==
    \A o \in Cron!Occurrences: cronFired[o] > cronBehind => t.recurring /\ o <= CronSeed(t)

CronTyped ==
    /\ cronNow \in Nat
    /\ cronTask \subseteq CronCronRecord /\ cronFile \subseteq CronCronRecord
    /\ cronWorks \in Seq(SUBSET CronCronRecord)
    /\ cronSeen \in Nat /\ cronBehind \in Nat
    /\ cronFired \in [Cron!Occurrences -> Nat]

\* Before CronCreate there is nothing.
CronNotCreated ==
    ~cronCreated => /\ cronTask = {} /\ cronFile = {} /\ cronWorks = << >> /\ cronSeen = 0
                    /\ \A o \in Cron!Occurrences: cronFired[o] = 0

\* What the scheduler has seen is the cursor of the record.
CronCursorAgrees == \A t \in cronTask: cronSeen # 0 => t.lastFiredAt = cronSeen

\* Without a process there is only the file.
CronOnlyFile == cronLife = "down" => cronTask = {} /\ cronWorks = << >> /\ cronSeen = 0

\* Every record that may still be resumed from is covered ...
CronAllCovered ==
    /\ \A t \in cronTask: CronCovered(t)
    /\ \A t \in cronFile: CronCovered(t)
    /\ \A i \in DOMAIN cronWorks: \A t \in cronWorks[i]: CronCovered(t)

\* ... and the one that a tick goes by or the next resume will is settled.
CronBaseSettled ==
    /\ \A t \in cronTask: CronSettled(t)
    /\ cronLife = "down" => \A t \in cronFile: CronSettled(t)

CronIInv ==
    /\ CronTyped /\ CronNotCreated /\ CronCursorAgrees /\ CronOnlyFile /\ CronAllCovered /\ CronBaseSettled
    /\ Cron!CountedOnce
-----------------------------------------------------------------------------
LEMMA CronSize == \A S: Cron!Cardinality(S) = Cardinality(S)
BY DEF Cron!Cardinality, Cardinality

LEMMA CronOccurrencesBounded ==
    \A o \in Cron!Occurrences: o \in Nat \ {0} /\ o <= MaxTime
BY TimesCounted DEF Cron!Occurrences, Cron!Times

LEMMA CronOccurrencesFinite == \A S \in SUBSET Cron!Occurrences: IsFiniteSet(S)
<1>1. IsFiniteSet(1..MaxTime) BY FS_Interval, TimesCounted
<1>2. Cron!Occurrences \subseteq 1..MaxTime BY DEF Cron!Occurrences, Cron!Times
<1> QED BY <1>1, <1>2, FS_Subset

\* A nonempty set of numbers has a least one.
LEMMA CronLeast ==
    ASSUME NEW S \in SUBSET Nat, S # {}
    PROVE  \E x \in S: \A y \in S: x <= y
<1>1. \E x \in S: \A y \in S: ~ (<< y, x >> \in OpToRel(<, Nat))
  BY NatLessThanWellFounded, WFMin
<1>2. PICK x \in S: \A y \in S: ~ (<< y, x >> \in OpToRel(<, Nat)) BY <1>1
<1>3. \A y \in S: ~ (y < x) BY <1>2 DEF OpToRel
<1> QED BY <1>3

\* ... and, if there is a bound, a greatest one.
LEMMA CronGreatest ==
    ASSUME NEW S \in SUBSET Nat, S # {}, NEW b \in Nat, \A x \in S: x <= b
    PROVE  \E x \in S: \A y \in S: x >= y
<1> DEFINE T == {b - x: x \in S}
<1>1. T \in SUBSET Nat /\ T # {}
  <2>1. \A x \in S: b - x \in Nat OBVIOUS
  <2> QED BY <2>1
<1>2. PICK z \in T: \A y \in T: z <= y BY <1>1, CronLeast
<1>3. PICK x \in S: z = b - x OBVIOUS
<1>4. \A y \in S: b - x <= b - y BY <1>2, <1>3
<1> QED BY <1>4

LEMMA CronLastDue ==
    ASSUME NEW t, Cron!Due(t) # {}
    PROVE  Cron!Max(Cron!Due(t)) \in Cron!Due(t) /\ \A o \in Cron!Due(t): o <= Cron!Max(Cron!Due(t))
<1>1. Cron!Due(t) \in SUBSET Nat /\ \A o \in Cron!Due(t): o <= MaxTime
  BY CronOccurrencesBounded DEF Cron!Due
<1>2. \E x \in Cron!Due(t): \A y \in Cron!Due(t): x >= y BY <1>1, CronGreatest, TimesCounted
<1>3. Cron!Max(Cron!Due(t)) \in Cron!Due(t) /\ \A y \in Cron!Due(t): Cron!Max(Cron!Due(t)) >= y BY <1>2 DEF Cron!Max
<1> QED BY <1>1, <1>3

LEMMA CronFirstDue ==
    ASSUME NEW t, Cron!Due(t) # {}
    PROVE  Cron!Min(Cron!Due(t)) \in Cron!Due(t)
<1>1. Cron!Due(t) \in SUBSET Nat BY CronOccurrencesBounded DEF Cron!Due
<1>2. \E x \in Cron!Due(t): \A y \in Cron!Due(t): x <= y BY <1>1, CronLeast
<1> QED BY <1>2 DEF Cron!Min

\* The cap on the occurrences of one delivery drops the latest ones.
LEMMA CronNoneSkipped ==
    ASSUME NEW t \in CronCronRecord, t.recurring, cronNow \in Nat, NEW d \in Cron!Due(t),
           NEW o \in Cron!Occurrences, o > Cron!Base(t), o <= d
    PROVE  o \in Cron!Due(t)
<1> DEFINE due == {x \in Cron!Occurrences: x > Cron!Base(t) /\ Cron!DeliveredAt(t, x) <= cronNow}
<1>0. Cron!Due(t) = {x \in due: Cardinality({y \in due: y <= x}) <= MaxCoalesce} BY CronSize DEF Cron!Due
<1>1. d \in due /\ Cardinality({y \in due: y <= d}) <= MaxCoalesce
  <2> HIDE DEF due
  <2> QED BY <1>0
<1>2. o \in Nat /\ d \in Nat /\ d \in Cron!Occurrences BY <1>1, CronOccurrencesBounded
<1>3. o \in due
  <2>1. Cron!DeliveredAt(t, o) = o + Jitter /\ Cron!DeliveredAt(t, d) = d + Jitter BY DEF Cron!DeliveredAt
  <2>2. d + Jitter <= cronNow BY <1>1, <2>1
  <2>3. o + Jitter <= cronNow BY <1>2, <2>2, TimesCounted
  <2> QED BY <2>1, <2>3
<1> DEFINE A == {y \in due: y <= o}
           B == {y \in due: y <= d}
<1>4. A \subseteq B
  <2>1. \A x \in due: x \in Nat BY CronOccurrencesBounded
  <2> HIDE DEF due
  <2>2. \A x \in due: x <= o => x <= d BY <1>2, <2>1
  <2> QED BY <2>2
<1>5. IsFiniteSet(B) BY CronOccurrencesFinite
<1>6. Cardinality(A) <= Cardinality(B) BY <1>4, <1>5, FS_Subset
<1>7. Cardinality(A) \in Nat /\ Cardinality(B) \in Nat BY <1>4, <1>5, FS_Subset, FS_CardinalityType
<1>8. Cardinality(A) <= MaxCoalesce BY <1>1, <1>6, <1>7, TimesCounted
<1> HIDE DEF due
<1> QED BY <1>0, <1>3, <1>8

\* In a process the scheduler looks from where a resume would.
LEMMA CronBaseIsSeed ==
    ASSUME CronTyped, CronCursorAgrees, NEW t \in cronTask
    PROVE  Cron!Base(t) = CronSeed(t) /\ Cron!Base(t) \in Nat /\ t.createdAt <= Cron!Base(t)
BY DEF CronTyped, CronCronRecord, CronCursorAgrees, Cron!Base, CronSeed

\* The queue of writes, when one is added or done.
LEMMA CronQueueGrows ==
    ASSUME CronTyped, NEW r \in SUBSET CronCronRecord, Cron!Persist(r)
    PROVE  /\ cronWorks' \in Seq(SUBSET CronCronRecord)
           /\ \A i \in DOMAIN cronWorks': (i \in DOMAIN cronWorks /\ cronWorks'[i] = cronWorks[i]) \/ cronWorks'[i] = r
<1>1. cronWorks \in Seq(SUBSET CronCronRecord) BY DEF CronTyped
<1>2. cronWorks' = Append(cronWorks, r) BY DEF Cron!Persist
<1>3. cronWorks' \in Seq(SUBSET CronCronRecord) BY <1>1, <1>2
<1>4. ASSUME NEW i \in DOMAIN cronWorks'
      PROVE  (i \in DOMAIN cronWorks /\ cronWorks'[i] = cronWorks[i]) \/ cronWorks'[i] = r
  BY <1>1, <1>2, <1>4
<1> QED BY <1>3, <1>4

LEMMA CronQueueShrinks ==
    ASSUME CronTyped, cronWorks # << >>
    PROVE  /\ Tail(cronWorks) \in Seq(SUBSET CronCronRecord)
           /\ Head(cronWorks) \in SUBSET CronCronRecord /\ 1 \in DOMAIN cronWorks /\ Head(cronWorks) = cronWorks[1]
           /\ \A i \in DOMAIN Tail(cronWorks): i + 1 \in DOMAIN cronWorks /\ Tail(cronWorks)[i] = cronWorks[i + 1]
<1>1. cronWorks \in Seq(SUBSET CronCronRecord) BY DEF CronTyped
<1>2. Tail(cronWorks) \in Seq(SUBSET CronCronRecord) BY <1>1
<1>3. Head(cronWorks) \in SUBSET CronCronRecord /\ 1 \in DOMAIN cronWorks /\ Head(cronWorks) = cronWorks[1] BY <1>1
<1>4. ASSUME NEW i \in DOMAIN Tail(cronWorks)
      PROVE  i + 1 \in DOMAIN cronWorks /\ Tail(cronWorks)[i] = cronWorks[i + 1]
  BY <1>1, <1>4
<1> QED BY <1>2, <1>3, <1>4

LEMMA CronAddKeeps ==
    ASSUME CronIInv, NEW recurring \in BOOLEAN, Cron!addTask(recurring)
    PROVE  CronIInv'
<1>0. PICK t: t = [recurring |-> recurring, createdAt |-> cronNow, lastFiredAt |-> 0] OBVIOUS
<1>1. /\ cronTask' = {t} /\ Cron!Persist({t}) /\ cronCreated' = TRUE /\ cronLife = "up" /\ ~cronCreated
      /\ UNCHANGED << cronNow, cronLife, cronSeen, cronFile, cronFired, cronStops, cronBehind >>
  BY <1>0 DEF Cron!addTask
<1>2. t \in CronCronRecord /\ t.createdAt = cronNow /\ t.lastFiredAt = 0
  BY <1>0 DEF CronIInv, CronTyped, CronCronRecord
<1>3. /\ cronWorks' \in Seq(SUBSET CronCronRecord)
      /\ \A i \in DOMAIN cronWorks': (i \in DOMAIN cronWorks /\ cronWorks'[i] = cronWorks[i]) \/ cronWorks'[i] = {t}
  BY <1>1, <1>2, CronQueueGrows DEF CronIInv
<1>4. cronFile = {} /\ cronWorks = << >> /\ cronSeen = 0 /\ \A o \in Cron!Occurrences: cronFired[o] = 0
  BY <1>1 DEF CronIInv, CronNotCreated
<1>5. CronTyped' BY <1>1, <1>2, <1>3 DEF CronIInv, CronTyped
<1>6. CronCovered(t)' /\ CronSettled(t)'
  <2>1. \A o \in Cron!Occurrences: ~ (o <= 0) BY CronOccurrencesBounded
  <2>2. \A o \in Cron!Occurrences: ~ (cronFired[o] > cronBehind) BY <1>4 DEF CronIInv, CronTyped
  <2> QED BY <1>1, <1>2, <2>1, <2>2 DEF CronCovered, CronSettled
<1>7. CronAllCovered' BY <1>1, <1>3, <1>4, <1>6 DEF CronAllCovered
<1>8. CronBaseSettled' BY <1>1, <1>6 DEF CronBaseSettled
<1>9. CronNotCreated' /\ CronCursorAgrees' /\ CronOnlyFile' /\ Cron!CountedOnce'
  BY <1>1, <1>4 DEF CronNotCreated, CronCursorAgrees, CronOnlyFile, Cron!CountedOnce, CronIInv
<1> QED BY <1>5, <1>7, <1>8, <1>9 DEF CronIInv

LEMMA CronRemoveKeeps ==
    ASSUME CronIInv, Cron!removeTasks
    PROVE  CronIInv'
<1>1. /\ cronTask' = {} /\ Cron!Persist({}) /\ cronLife = "up" /\ cronTask # {}
      /\ UNCHANGED << cronNow, cronLife, cronSeen, cronFile, cronCreated, cronFired, cronStops, cronBehind >>
  BY DEF Cron!removeTasks
<1>2. /\ cronWorks' \in Seq(SUBSET CronCronRecord)
      /\ \A i \in DOMAIN cronWorks': (i \in DOMAIN cronWorks /\ cronWorks'[i] = cronWorks[i]) \/ cronWorks'[i] = {}
  BY <1>1, CronQueueGrows DEF CronIInv
<1>3. cronCreated BY <1>1 DEF CronIInv, CronNotCreated
<1>4. CronTyped' BY <1>1, <1>2 DEF CronIInv, CronTyped
<1>5. CronAllCovered' BY <1>1, <1>2 DEF CronIInv, CronAllCovered, CronCovered
<1>6. CronNotCreated' /\ CronCursorAgrees' /\ CronOnlyFile' /\ Cron!CountedOnce' /\ CronBaseSettled'
  BY <1>1, <1>3 DEF CronNotCreated, CronCursorAgrees, CronOnlyFile, Cron!CountedOnce, CronBaseSettled, CronIInv
<1> QED BY <1>4, <1>5, <1>6 DEF CronIInv

\* Records that stay stay covered when deliveries are only added.
LEMMA CronCoveredStays ==
    ASSUME \A o \in Cron!Occurrences: cronFired[o] >= 1 => cronFired'[o] >= 1, NEW t, CronCovered(t)
    PROVE  CronCovered(t)'
BY DEF CronCovered

LEMMA CronRecurringKeeps ==
    ASSUME CronIInv, NEW t \in cronTask, Cron!Due(t) # {}, cronLife = "up", Cron!FireRecurring(t),
           UNCHANGED << cronNow, cronLife, cronFile, cronCreated, cronStops, cronBehind >>
    PROVE  CronIInv'
<1>0. PICK last, u: last = Cron!Max(Cron!Due(t)) /\ u = [t EXCEPT !.lastFiredAt = last] OBVIOUS
<1>1. /\ t.recurring
      /\ cronFired' = [o \in Cron!Occurrences |-> IF o \in Cron!Due(t) THEN cronFired[o] + 1 ELSE cronFired[o]]
      /\ cronSeen' = last
      /\ \/ cronTask' = {} /\ Cron!Persist({})
         \/ cronTask' = {u} /\ Cron!Persist({u})
  BY <1>0 DEF Cron!FireRecurring, Cron!Advanced
<1>2. last \in Cron!Due(t) /\ \A o \in Cron!Due(t): o <= last BY <1>0, CronLastDue
<1>3. t \in CronCronRecord /\ t.createdAt \in Nat /\ t.lastFiredAt \in Nat
  BY DEF CronIInv, CronTyped, CronCronRecord
<1>4. last \in Cron!Occurrences /\ last \in Nat \ {0} /\ last > Cron!Base(t)
  BY <1>2, CronOccurrencesBounded DEF Cron!Due
<1>5. Cron!Base(t) = CronSeed(t) /\ Cron!Base(t) \in Nat /\ t.createdAt <= Cron!Base(t) BY CronBaseIsSeed DEF CronIInv
<1>6. u \in CronCronRecord /\ u.recurring = t.recurring /\ u.createdAt = t.createdAt /\ u.lastFiredAt = last
  BY <1>0, <1>3, <1>4 DEF CronCronRecord
<1>7. CronSeed(u) = last BY <1>3, <1>4, <1>5, <1>6 DEF CronSeed
<1>8. \A o \in Cron!Occurrences: /\ cronFired[o] \in Nat /\ cronFired'[o] \in Nat
                                 /\ o \in Cron!Due(t) => cronFired'[o] = cronFired[o] + 1 /\ o > Cron!Base(t) /\ o <= last
                                 /\ o \notin Cron!Due(t) => cronFired'[o] = cronFired[o]
  BY <1>1, <1>2 DEF CronIInv, CronTyped, Cron!Due
<1>9. cronFired' \in [Cron!Occurrences -> Nat] BY <1>1, <1>8
<1>10. PICK r \in {{}, {u}}: cronTask' = r /\ Cron!Persist(r) BY <1>1
<1>11. /\ cronWorks' \in Seq(SUBSET CronCronRecord)
       /\ \A i \in DOMAIN cronWorks': (i \in DOMAIN cronWorks /\ cronWorks'[i] = cronWorks[i]) \/ cronWorks'[i] = r
  BY <1>6, <1>10, CronQueueGrows DEF CronIInv
<1>12. CronTyped' BY <1>1, <1>4, <1>6, <1>9, <1>10, <1>11 DEF CronIInv, CronTyped
<1>13. \A o \in Cron!Occurrences: cronFired[o] > cronBehind => o <= Cron!Base(t)
  BY <1>5 DEF CronIInv, CronBaseSettled, CronSettled
<1>14. cronBehind' = cronBehind /\ cronBehind \in Nat BY DEF CronIInv, CronTyped
<1>15. CronSettled(u)'
  <2> SUFFICES ASSUME NEW o \in Cron!Occurrences, cronFired'[o] > cronBehind'
               PROVE  u.recurring /\ o <= CronSeed(u)
    BY DEF CronSettled, CronSeed
  <2>1. o \in Nat BY CronOccurrencesBounded
  <2>2. CASE o \in Cron!Due(t) BY <1>1, <1>6, <1>7, <1>8, <2>2
  <2>3. CASE o \notin Cron!Due(t) BY <1>1, <1>4, <1>5, <1>6, <1>7, <1>8, <1>13, <1>14, <2>1, <2>3
  <2> QED BY <2>2, <2>3
<1>16. Cron!CountedOnce'
  <2> SUFFICES ASSUME NEW o \in Cron!Occurrences PROVE cronFired'[o] <= 1 + cronBehind'
    BY DEF Cron!CountedOnce
  <2>1. o \in Nat /\ cronFired[o] <= 1 + cronBehind BY CronOccurrencesBounded DEF CronIInv, Cron!CountedOnce
  <2>2. CASE o \in Cron!Due(t) BY <1>5, <1>8, <1>13, <1>14, <2>1, <2>2
  <2>3. CASE o \notin Cron!Due(t) BY <1>8, <1>14, <2>1, <2>3
  <2> QED BY <2>2, <2>3
<1>17. \A o \in Cron!Occurrences: cronFired[o] >= 1 => cronFired'[o] >= 1 BY <1>8
<1>18. CronCovered(u)'
  <2> SUFFICES ASSUME NEW o \in Cron!Occurrences, t.createdAt < o, o <= last PROVE cronFired'[o] >= 1
    BY <1>6 DEF CronCovered
  <2>1. o \in Nat BY CronOccurrencesBounded
  <2>2. CASE o \in Cron!Due(t) BY <1>8, <2>2
  <2>3. CASE o \notin Cron!Due(t)
    <3>1. o <= Cron!Base(t) BY <1>1, <1>2, <1>3, <1>5, <2>1, <2>3, CronNoneSkipped DEF CronIInv, CronTyped
    <3>2. o <= t.lastFiredAt BY <1>3, <1>5, <2>1, <3>1 DEF CronSeed
    <3>3. CronCovered(t) BY DEF CronIInv, CronAllCovered
    <3>4. cronFired[o] >= 1 BY <3>2, <3>3 DEF CronCovered
    <3> QED BY <1>17, <3>4
  <2> QED BY <2>2, <2>3
<1>19. CronAllCovered'
  <2>1. \A x \in cronTask': CronCovered(x)' BY <1>10, <1>18
  <2>2. \A x \in cronFile': CronCovered(x)' BY <1>17, CronCoveredStays DEF CronIInv, CronAllCovered
  <2>3. ASSUME NEW i \in DOMAIN cronWorks', NEW x \in cronWorks'[i] PROVE CronCovered(x)'
    <3>1. CASE cronWorks'[i] = r BY <1>10, <1>18, <2>3, <3>1
    <3>2. CASE i \in DOMAIN cronWorks /\ cronWorks'[i] = cronWorks[i]
      BY <1>17, <2>3, <3>2, CronCoveredStays DEF CronIInv, CronAllCovered
    <3> QED BY <1>11, <3>1, <3>2
  <2> QED BY <2>1, <2>2, <2>3 DEF CronAllCovered
<1>20. CronBaseSettled' BY <1>10, <1>15 DEF CronBaseSettled
<1>21. CronCursorAgrees' BY <1>1, <1>6, <1>10 DEF CronCursorAgrees
<1>22. cronCreated BY DEF CronIInv, CronNotCreated
<1>23. CronNotCreated' /\ CronOnlyFile' BY <1>22 DEF CronNotCreated, CronOnlyFile
<1> QED BY <1>12, <1>16, <1>19, <1>20, <1>21, <1>23 DEF CronIInv

LEMMA CronOnceKeeps ==
    ASSUME CronIInv, NEW t \in cronTask, Cron!Due(t) # {}, cronLife = "up", Cron!FireOnce(t),
           UNCHANGED << cronNow, cronLife, cronFile, cronCreated, cronStops, cronBehind >>
    PROVE  CronIInv'
<1> DEFINE first == Cron!Min(Cron!Due(t))
<1>1. /\ ~t.recurring /\ cronFired' = [cronFired EXCEPT ![first] = @ + 1]
      /\ cronSeen' = 0 /\ cronTask' = {} /\ Cron!Persist({})
  BY DEF Cron!FireOnce
<1>2. first \in Cron!Occurrences BY CronFirstDue DEF Cron!Due
<1> HIDE DEF first
<1>3. /\ cronWorks' \in Seq(SUBSET CronCronRecord)
      /\ \A i \in DOMAIN cronWorks': (i \in DOMAIN cronWorks /\ cronWorks'[i] = cronWorks[i]) \/ cronWorks'[i] = {}
  BY <1>1, CronQueueGrows DEF CronIInv
<1>4. \A o \in Cron!Occurrences: /\ cronFired[o] \in Nat /\ ~ (cronFired[o] > cronBehind)
                                 /\ cronFired'[o] \in {cronFired[o], cronFired[o] + 1}
  BY <1>1, <1>2 DEF CronIInv, CronTyped, CronBaseSettled, CronSettled
<1>5. cronFired' \in [Cron!Occurrences -> Nat] BY <1>1, <1>2 DEF CronIInv, CronTyped
<1>6. CronTyped' BY <1>1, <1>3, <1>5 DEF CronIInv, CronTyped
<1>7. Cron!CountedOnce' BY <1>4 DEF CronIInv, CronTyped, Cron!CountedOnce
<1>8. \A o \in Cron!Occurrences: cronFired[o] >= 1 => cronFired'[o] >= 1 BY <1>4
<1>9. CronAllCovered' BY <1>1, <1>3, <1>8, CronCoveredStays DEF CronIInv, CronAllCovered
<1>10. cronCreated BY DEF CronIInv, CronNotCreated
<1>11. CronNotCreated' /\ CronCursorAgrees' /\ CronOnlyFile' /\ CronBaseSettled'
  BY <1>1, <1>10 DEF CronNotCreated, CronCursorAgrees, CronOnlyFile, CronBaseSettled
<1> QED BY <1>6, <1>7, <1>9, <1>11 DEF CronIInv

\* A write is done or forgotten.
LEMMA CronWriteKeeps ==
    ASSUME CronIInv, Cron!WriteDone \/ Cron!WriteFails
    PROVE  CronIInv'
<1>1. /\ cronWorks # << >> /\ cronWorks' = Tail(cronWorks) /\ cronFile' \in {cronFile, Head(cronWorks)}
      /\ UNCHANGED << cronNow, cronLife, cronTask, cronSeen, cronCreated, cronFired, cronStops, cronBehind >>
  BY DEF Cron!WriteDone, Cron!WriteFails
<1>2. /\ Tail(cronWorks) \in Seq(SUBSET CronCronRecord)
      /\ Head(cronWorks) \in SUBSET CronCronRecord /\ 1 \in DOMAIN cronWorks /\ Head(cronWorks) = cronWorks[1]
      /\ \A i \in DOMAIN Tail(cronWorks): i + 1 \in DOMAIN cronWorks /\ Tail(cronWorks)[i] = cronWorks[i + 1]
  BY <1>1, CronQueueShrinks DEF CronIInv
<1>3. cronCreated /\ cronLife # "down" BY <1>1 DEF CronIInv, CronNotCreated, CronOnlyFile
<1>4. CronTyped' BY <1>1, <1>2 DEF CronIInv, CronTyped
<1>5. CronAllCovered'
  <2>1. \A x: CronCovered(x)' <=> CronCovered(x) BY <1>1 DEF CronCovered
  <2>2. \A x \in cronFile': CronCovered(x) BY <1>1, <1>2 DEF CronIInv, CronAllCovered
  <2>3. \A i \in DOMAIN cronWorks': \A x \in cronWorks'[i]: CronCovered(x) BY <1>1, <1>2 DEF CronIInv, CronAllCovered
  <2> QED BY <1>1, <2>1, <2>2, <2>3 DEF CronIInv, CronAllCovered
<1>6. CronBaseSettled' BY <1>1, <1>3 DEF CronIInv, CronBaseSettled, CronSettled, CronSeed
<1>7. CronNotCreated' /\ CronCursorAgrees' /\ CronOnlyFile' /\ Cron!CountedOnce'
  BY <1>1, <1>3 DEF CronIInv, CronNotCreated, CronCursorAgrees, CronOnlyFile, Cron!CountedOnce
<1> QED BY <1>4, <1>5, <1>6, <1>7 DEF CronIInv

\* The end of the process leaves what the file says, or the excuse for it.
LEMMA CronDownKeeps ==
    ASSUME CronIInv, Cron!Down, cronLife # "down"
    PROVE  CronIInv'
<1>1. /\ cronLife' = "down" /\ cronBehind' = IF cronFile = cronTask THEN cronBehind ELSE cronBehind + 1
      /\ cronTask' = {} /\ cronSeen' = 0 /\ cronWorks' = << >>
      /\ UNCHANGED << cronNow, cronFile, cronCreated, cronFired >>
  BY DEF Cron!Down
<1>2. CronTyped' BY <1>1 DEF CronIInv, CronTyped
<1>3. CronAllCovered' BY <1>1 DEF CronIInv, CronAllCovered, CronCovered
<1>4. Cron!CountedOnce' BY <1>1 DEF CronIInv, CronTyped, Cron!CountedOnce
<1>5. ASSUME NEW t \in cronFile PROVE CronSettled(t)'
  <2>1. CASE cronFile = cronTask BY <1>1, <1>5, <2>1 DEF CronIInv, CronBaseSettled, CronSettled, CronSeed
  <2>2. CASE cronFile # cronTask
    <3>1. \A o \in Cron!Occurrences: ~ (cronFired[o] > cronBehind + 1)
      BY DEF CronIInv, CronTyped, Cron!CountedOnce
    <3> QED BY <1>1, <2>2, <3>1 DEF CronSettled
  <2> QED BY <2>1, <2>2
<1>6. CronBaseSettled' BY <1>1, <1>5 DEF CronBaseSettled
<1>7. CronNotCreated' /\ CronCursorAgrees' /\ CronOnlyFile'
  BY <1>1 DEF CronIInv, CronNotCreated, CronCursorAgrees, CronOnlyFile
<1> QED BY <1>2, <1>3, <1>4, <1>6, <1>7 DEF CronIInv

LEMMA CronResumeKeeps ==
    ASSUME CronIInv, Cron!Resume
    PROVE  CronIInv'
<1>1. /\ cronLife = "down" /\ cronLife' = "up" /\ cronTask' = cronFile /\ cronSeen = 0
      /\ UNCHANGED << cronNow, cronSeen, cronFile, cronWorks, cronCreated, cronFired, cronStops, cronBehind >>
  BY DEF CronIInv, CronOnlyFile, Cron!Resume
<1>2. CronTyped' BY <1>1 DEF CronIInv, CronTyped
<1>3. CronAllCovered' BY <1>1 DEF CronIInv, CronAllCovered, CronCovered
<1>4. CronBaseSettled' BY <1>1 DEF CronIInv, CronBaseSettled, CronSettled, CronSeed
<1>5. CronNotCreated' /\ CronCursorAgrees' /\ CronOnlyFile' /\ Cron!CountedOnce'
  BY <1>1 DEF CronIInv, CronNotCreated, CronCursorAgrees, CronOnlyFile, Cron!CountedOnce
<1> QED BY <1>2, <1>3, <1>4, <1>5 DEF CronIInv

\* Time passes, or the orderly end begins.
LEMMA CronPassKeeps ==
    ASSUME CronIInv, cronNow' \in Nat, cronLife' = "down" => cronLife = "down",
           UNCHANGED << cronTask, cronSeen, cronFile, cronWorks, cronCreated, cronFired, cronBehind >>
    PROVE  CronIInv'
<1>1. CronTyped' BY DEF CronIInv, CronTyped
<1>2. CronAllCovered' BY DEF CronIInv, CronAllCovered, CronCovered
<1>3. CronBaseSettled' BY DEF CronIInv, CronBaseSettled, CronSettled, CronSeed
<1>4. CronNotCreated' /\ CronCursorAgrees' /\ CronOnlyFile' /\ Cron!CountedOnce'
  BY DEF CronIInv, CronNotCreated, CronCursorAgrees, CronOnlyFile, Cron!CountedOnce
<1> QED BY <1>1, <1>2, <1>3, <1>4 DEF CronIInv

LEMMA CronStart == Cron!Init => CronIInv
<1> SUFFICES ASSUME Cron!Init PROVE CronIInv OBVIOUS
<1> USE DEF Cron!Init
<1>1. CronTyped /\ CronAllCovered BY DEF CronTyped, CronAllCovered, CronCovered
<1>2. CronBaseSettled /\ Cron!CountedOnce BY DEF CronBaseSettled, CronSettled, Cron!CountedOnce
<1>3. CronNotCreated /\ CronCursorAgrees /\ CronOnlyFile BY DEF CronNotCreated, CronCursorAgrees, CronOnlyFile
<1> QED BY <1>1, <1>2, <1>3 DEF CronIInv

LEMMA CronStep == CronIInv /\ [Cron!Next]_Cron!vars => CronIInv'
<1> SUFFICES ASSUME CronIInv, [Cron!Next]_Cron!vars PROVE CronIInv' OBVIOUS
<1>1. CASE Cron!tick BY <1>1, CronRecurringKeeps, CronOnceKeeps DEF Cron!tick
<1>2. CASE Cron!stop BY <1>2, CronPassKeeps DEF Cron!stop, CronIInv, CronTyped
<1>3. CASE Cron!Clock BY <1>3, CronPassKeeps DEF Cron!Clock, CronIInv, CronTyped
<1>4. CASE UNCHANGED Cron!vars BY <1>4, CronPassKeeps DEF Cron!vars, CronIInv, CronTyped
<1>5. CASE Cron!Exit \/ Cron!Crash BY <1>5, CronDownKeeps DEF Cron!Exit, Cron!Crash
<1> QED BY <1>1, <1>2, <1>3, <1>4, <1>5, CronAddKeeps, CronRemoveKeeps, CronWriteKeeps, CronResumeKeeps DEF Cron!Next

\* What is passed over was counted.
LEMMA CronPassedIsCounted == CronIInv => Cron!NonePassedOver
<1> SUFFICES ASSUME CronIInv, NEW t \in cronTask, NEW o \in Cron!Occurrences, t.createdAt < o, o <= Cron!Base(t)
             PROVE  cronFired[o] >= 1
  BY DEF Cron!NonePassedOver
<1>1. Cron!Base(t) = CronSeed(t) BY CronBaseIsSeed DEF CronIInv
<1>2. o \in Nat /\ t \in CronCronRecord BY CronOccurrencesBounded DEF CronIInv, CronTyped
<1>3. o <= t.lastFiredAt BY <1>1, <1>2 DEF CronSeed, CronCronRecord
<1> QED BY <1>3 DEF CronIInv, CronAllCovered, CronCovered

\* A scheduled prompt (cron/manager.ts, tools/cron/scheduler.ts): no occurrence is passed
\* over and none is counted in more deliveries than the ends of the process excuse, for
\* any period, jitter, age and time.
THEOREM OccurrencesCounted == Spec => []OccurrencesOnce
<1>1. Init => CronIInv BY CronStart DEF Init
<1>2. CronIInv /\ [Next]_vars => CronIInv'
  <2>1. CronIInv /\ [Cron!Next]_Cron!vars => CronIInv' BY CronStep
  <2>2. [Next]_vars => [Cron!Next]_Cron!vars BY DEF Next, vars, cronVars, Cron!vars
  <2> QED BY <2>1, <2>2
<1>3. CronIInv => OccurrencesOnce BY CronPassedIsCounted DEF CronIInv, OccurrencesOnce
<1> QED BY <1>1, <1>2, <1>3, PTL DEF Spec
-----------------------------------------------------------------------------
LEMMA TurnsCounted == MaxTurns \in Nat
BY BoundsAssumption

BrokerEnds == {"completed", "failed", "cancelled"}
BrokerRequests == {"approval", "question"}
BrokerPending == brokerApprovals \cup brokerQuestions

\* A turn at work is one whose end was not delivered.
BrokerNumbered ==
    \A a \in Agent: brokerOver[a] <= brokerTurn[a] /\ (brokerPhase[a] # "idle" => brokerOver[a] < brokerTurn[a])

\* What is on the wire is of turns whose end was not delivered, and an end is
\* of a turn that is over.
BrokerInWire ==
    \A n \in DOMAIN brokerWire:
        /\ brokerOver[brokerWire[n].agent] < brokerWire[n].turn /\ brokerWire[n].turn <= brokerTurn[brokerWire[n].agent]
        /\ brokerWire[n].kind \in BrokerEnds =>
             brokerWire[n].turn < brokerTurn[brokerWire[n].agent] \/ brokerPhase[brokerWire[n].agent] = "idle"

\* The wire carries what an agent sends in the order of its turns, and the end
\* of a turn comes last.
BrokerInOrder ==
    \A i, j \in DOMAIN brokerWire:
        i < j /\ brokerWire[i].agent = brokerWire[j].agent =>
            /\ brokerWire[i].turn <= brokerWire[j].turn
            /\ brokerWire[i].kind \in BrokerEnds => brokerWire[i].turn < brokerWire[j].turn

\* A pending entry has arrived after everything of the turns before its own.
BrokerPendingNext ==
    \A e \in BrokerPending:
        /\ brokerOver[e.agent] < e.turn /\ e.turn <= brokerTurn[e.agent]
        /\ \A n \in DOMAIN brokerWire: brokerWire[n].agent = e.agent => e.turn <= brokerWire[n].turn

\* The signal of the turn dismisses a question.
BrokerQuestionsAsked ==
    \A e \in brokerQuestions: brokerPhase[e.agent] = "asks" /\ e.turn = brokerTurn[e.agent]

\* The end of an aborted turn, on its way, dismisses an approval.
BrokerApprovalsHeld ==
    \A e \in brokerApprovals:
        \/ e.turn = brokerTurn[e.agent] /\ brokerPhase[e.agent] \in {"asks", "stopping"}
        \/ \E n \in DOMAIN brokerWire: /\ brokerWire[n].kind = "cancelled"
                                       /\ brokerWire[n].agent = e.agent /\ brokerWire[n].turn = e.turn

\* A message is the request of a call that the turn of a may wait for.
BrokerAsked(message, a) ==
    message.kind \in BrokerRequests /\ message.agent = a /\ message.turn = brokerTurn[a]

\* A call waits for one request, on the wire or pending.
BrokerOneRequest ==
    \A a \in Agent, i \in DOMAIN brokerWire:
        brokerPhase[a] \in {"runs", "asks"} /\ BrokerAsked(brokerWire[i], a) =>
            /\ brokerPhase[a] = "asks" /\ Broker!Current(a) \notin BrokerPending
            /\ \A j \in DOMAIN brokerWire: BrokerAsked(brokerWire[j], a) => j = i

BrokerIInv ==
    Broker!TypeOK /\ BrokerNumbered /\ BrokerInWire /\ BrokerInOrder /\ BrokerPendingNext /\ BrokerQuestionsAsked
    /\ BrokerApprovalsHeld /\ BrokerOneRequest /\ Broker!RequestsFollowTurns

LEMMA BrokerStart == Broker!Init => BrokerIInv
BY TurnsCounted DEF Broker!Init, BrokerIInv, Broker!TypeOK, BrokerNumbered, BrokerInWire, BrokerInOrder, BrokerPendingNext, BrokerQuestionsAsked, BrokerApprovalsHeld,
    BrokerOneRequest, BrokerAsked, Broker!RequestsFollowTurns, BrokerPending, Broker!Entry

BrokerMessage == [kind: {"approval", "question", "completed", "failed", "cancelled"},
            agent: Agent, turn: 1..MaxTurns]

BrokerEntryOf(message) == [agent |-> message.agent, turn |-> message.turn]

\* What the first message on the wire does.
LEMMA BrokerDelivered ==
    ASSUME Broker!Arrives
    PROVE  /\ brokerWire # << >> /\ brokerWire' = Tail(brokerWire)
           /\ UNCHANGED << brokerTurn, brokerPhase >>
           /\ \/ /\ Head(brokerWire).kind \in BrokerRequests /\ Broker!Aborted(Head(brokerWire))
                 /\ UNCHANGED << brokerApprovals, brokerQuestions, brokerOver >>
              \/ /\ Head(brokerWire).kind \in BrokerRequests /\ ~Broker!Aborted(Head(brokerWire))
                 /\ \/ brokerApprovals' = brokerApprovals \cup {BrokerEntryOf(Head(brokerWire))} /\ brokerQuestions' = brokerQuestions
                    \/ brokerQuestions' = brokerQuestions \cup {BrokerEntryOf(Head(brokerWire))} /\ brokerApprovals' = brokerApprovals
                 /\ brokerOver' = brokerOver
              \/ /\ Head(brokerWire).kind \in BrokerEnds
                 /\ \/ Head(brokerWire).kind = "completed" /\ brokerApprovals' = brokerApprovals
                    \/ brokerApprovals' = {e \in brokerApprovals: e.agent # Head(brokerWire).agent}
                 /\ brokerOver' = [brokerOver EXCEPT ![Head(brokerWire).agent] = Head(brokerWire).turn]
                 /\ brokerQuestions' = brokerQuestions
<1> DEFINE m == Head(brokerWire)
<1>1. CASE m.kind \in {"approval", "question"} /\ Broker!Aborted(m) /\ UNCHANGED << brokerApprovals, brokerQuestions, brokerOver >>
  BY <1>1 DEF Broker!Arrives, BrokerRequests
<1>2. CASE /\ m.kind = "approval" /\ ~Broker!Aborted(m)
           /\ brokerApprovals' = brokerApprovals \cup {BrokerEntryOf(m)}
           /\ UNCHANGED << brokerQuestions, brokerOver >>
  BY <1>2 DEF Broker!Arrives, BrokerRequests
<1>3. CASE /\ m.kind = "question" /\ ~Broker!Aborted(m)
           /\ brokerQuestions' = brokerQuestions \cup {BrokerEntryOf(m)}
           /\ UNCHANGED << brokerApprovals, brokerOver >>
  BY <1>3 DEF Broker!Arrives, BrokerRequests
<1>4. CASE /\ m.kind \in {"completed", "failed", "cancelled"}
           /\ brokerApprovals' = IF m.kind = "completed" THEN brokerApprovals
                           ELSE {e \in brokerApprovals: e.agent # m.agent}
           /\ brokerOver' = [brokerOver EXCEPT ![m.agent] = m.turn]
           /\ UNCHANGED brokerQuestions
  BY <1>4 DEF Broker!Arrives, BrokerEnds
<1> QED
  BY <1>1, <1>2, <1>3, <1>4 DEF Broker!Arrives, BrokerEntryOf

LEMMA BrokerTypeStep == Broker!TypeOK /\ BrokerNumbered /\ [Broker!Next]_Broker!vars => Broker!TypeOK'
<1> SUFFICES ASSUME Broker!TypeOK, BrokerNumbered, [Broker!Next]_Broker!vars PROVE Broker!TypeOK'
  OBVIOUS
<1> USE TurnsCounted
<1>1. \A a \in Agent: brokerPhase[a] # "idle" => brokerTurn[a] \in 1..MaxTurns
  BY DEF Broker!TypeOK, BrokerNumbered
<1>2. ASSUME NEW a \in Agent, Broker!StartTurn(a) PROVE Broker!TypeOK'
  BY <1>2 DEF Broker!StartTurn, Broker!TypeOK, Broker!Entry
<1>3. ASSUME NEW a \in Agent, Broker!Ask(a) PROVE Broker!TypeOK'
  BY <1>1, <1>3 DEF Broker!Ask, Broker!TypeOK, Broker!Sent
<1>4. ASSUME NEW a \in Agent, Broker!Abort(a) PROVE Broker!TypeOK'
  BY <1>4 DEF Broker!Abort, Broker!TypeOK
<1>5. ASSUME NEW a \in Agent, Broker!EndTurn(a) PROVE Broker!TypeOK'
  <2>1. brokerTurn[a] \in 1..MaxTurns
    BY <1>1, <1>5 DEF Broker!EndTurn
  <2>2. PICK kind \in {"completed", "failed", "cancelled"}: brokerWire' = Broker!Sent(kind, a)
    BY <1>5 DEF Broker!EndTurn
  <2> QED BY <1>5, <2>1, <2>2 DEF Broker!EndTurn, Broker!TypeOK, Broker!Sent
<1>6. CASE Broker!Arrives
  <2>1. brokerWire \in Seq(BrokerMessage) /\ brokerWire # << >>
    BY <1>6 DEF Broker!Arrives, Broker!TypeOK, BrokerMessage
  <2>2. Head(brokerWire) \in BrokerMessage /\ Tail(brokerWire) \in Seq(BrokerMessage)
    BY <2>1
  <2>3. UNCHANGED << brokerTurn, brokerPhase >> /\ brokerWire' = Tail(brokerWire)
    BY <1>6 DEF Broker!Arrives
  <2>4. brokerApprovals' \in SUBSET Broker!Entry /\ brokerQuestions' \in SUBSET Broker!Entry
    <3>1. BrokerEntryOf(Head(brokerWire)) \in Broker!Entry
      BY <2>2 DEF BrokerMessage, Broker!Entry, BrokerEntryOf
    <3> QED BY <1>6, <3>1, BrokerDelivered DEF Broker!TypeOK
  <2>5. brokerOver' \in [Agent -> 0..MaxTurns]
    <3>1. Head(brokerWire).agent \in Agent /\ Head(brokerWire).turn \in 0..MaxTurns
      BY <2>2 DEF BrokerMessage
    <3>2. brokerOver' = brokerOver \/ brokerOver' = [brokerOver EXCEPT ![Head(brokerWire).agent] = Head(brokerWire).turn]
      BY <1>6, BrokerDelivered
    <3> QED BY <3>1, <3>2 DEF Broker!TypeOK
  <2> QED BY <2>2, <2>3, <2>4, <2>5 DEF Broker!TypeOK, BrokerMessage
<1>7. CASE Broker!Resolve
  <2>1. PICK entry \in brokerApprovals \cup brokerQuestions:
          /\ brokerApprovals' = brokerApprovals \ {entry}
          /\ brokerQuestions' = brokerQuestions \ {entry}
          /\ brokerPhase' = [brokerPhase EXCEPT ![entry.agent] =
                           IF @ = "asks" /\ brokerTurn[entry.agent] = entry.turn THEN "runs" ELSE @]
    BY <1>7 DEF Broker!Resolve
  <2> QED BY <1>7, <2>1 DEF Broker!Resolve, Broker!TypeOK, Broker!Entry
<1>8. CASE UNCHANGED Broker!vars
  BY <1>8 DEF Broker!vars, Broker!TypeOK
<1> QED BY <1>2, <1>3, <1>4, <1>5, <1>6, <1>7, <1>8 DEF Broker!Next

\* What the wire carries after one more message, and after the first is gone.
LEMMA BrokerLonger ==
    ASSUME brokerWire \in Seq(BrokerMessage), NEW m \in BrokerMessage, brokerWire' = Append(brokerWire, m)
    PROVE  /\ \A n \in DOMAIN brokerWire: /\ n \in DOMAIN brokerWire' /\ brokerWire'[n] = brokerWire[n]
                                          /\ n \in Nat /\ n < Len(brokerWire) + 1
           /\ Len(brokerWire) + 1 \in DOMAIN brokerWire' /\ brokerWire'[Len(brokerWire) + 1] = m
           /\ \A n \in DOMAIN brokerWire': n \in DOMAIN brokerWire \/ n = Len(brokerWire) + 1
           /\ Len(brokerWire) \in Nat
<1>1. Len(brokerWire) \in Nat /\ DOMAIN brokerWire = 1..Len(brokerWire) /\ DOMAIN brokerWire' = 1..(Len(brokerWire) + 1)
  OBVIOUS
<1>2. \A n \in DOMAIN brokerWire: brokerWire'[n] = brokerWire[n]
  OBVIOUS
<1>3. brokerWire'[Len(brokerWire) + 1] = m
  OBVIOUS
<1> QED BY <1>1, <1>2, <1>3

LEMMA BrokerShorter ==
    ASSUME brokerWire \in Seq(BrokerMessage), brokerWire # << >>, brokerWire' = Tail(brokerWire)
    PROVE  /\ 1 \in DOMAIN brokerWire /\ brokerWire[1] = Head(brokerWire)
           /\ \A n \in DOMAIN brokerWire': /\ n + 1 \in DOMAIN brokerWire /\ brokerWire'[n] = brokerWire[n + 1]
                                           /\ n \in Nat \ {0}
           /\ \A n \in DOMAIN brokerWire: /\ n \in Nat
                                          /\ n # 1 => n > 1 /\ n - 1 \in DOMAIN brokerWire' /\ brokerWire'[n - 1] = brokerWire[n]
<1>1. /\ Len(brokerWire) \in Nat \ {0} /\ Head(brokerWire) = brokerWire[1]
      /\ DOMAIN brokerWire = 1..Len(brokerWire)
  OBVIOUS
<1>3. Tail(brokerWire) \in Seq(BrokerMessage) /\ Len(Tail(brokerWire)) = Len(brokerWire) - 1
  OBVIOUS
<1>4. DOMAIN brokerWire' = 1..(Len(brokerWire) - 1)
  BY <1>3
<1>2. \A n \in DOMAIN brokerWire': brokerWire'[n] = brokerWire[n + 1]
  OBVIOUS
<1>5. \A n \in DOMAIN brokerWire: n # 1 => n - 1 \in DOMAIN brokerWire' /\ (n - 1) + 1 = n /\ n > 1
  BY <1>1, <1>4
<1>6. \A n \in DOMAIN brokerWire: n # 1 => brokerWire'[n - 1] = brokerWire[(n - 1) + 1]
  BY <1>2, <1>5
<1>7. \A n \in DOMAIN brokerWire': n + 1 \in DOMAIN brokerWire /\ n \in Nat \ {0}
  BY <1>1, <1>4
<1>8. \A n \in DOMAIN brokerWire: n # 1 => n > 1 /\ n - 1 \in DOMAIN brokerWire' /\ brokerWire'[n - 1] = brokerWire[n]
  BY <1>5, <1>6
<1>9. 1 \in DOMAIN brokerWire /\ brokerWire[1] = Head(brokerWire) /\ \A n \in DOMAIN brokerWire: n \in Nat
  BY <1>1
<1> QED BY <1>2, <1>7, <1>8, <1>9

LEMMA BrokerOnWire == Broker!TypeOK => brokerWire \in Seq(BrokerMessage) /\ \A n \in DOMAIN brokerWire: brokerWire[n] \in BrokerMessage
<1>1. Broker!TypeOK => brokerWire \in Seq(BrokerMessage)
  BY DEF Broker!TypeOK, BrokerMessage
<1> QED BY <1>1

LEMMA BrokerStartTurnKeeps == ASSUME BrokerIInv, NEW a \in Agent, Broker!StartTurn(a), Broker!TypeOK' PROVE BrokerIInv'
<1> USE DEF BrokerIInv, Broker!StartTurn, BrokerPending, Broker!Current, BrokerRequests, BrokerEnds
<1>0. \A n \in DOMAIN brokerWire: brokerWire[n] \in BrokerMessage
  BY BrokerOnWire DEF Broker!TypeOK
<1>1. \A x \in Agent: brokerTurn'[x] \in Nat /\ brokerTurn[x] \in Nat /\ brokerOver[x] \in Nat
  BY DEF Broker!TypeOK
<1>2. \A x \in Agent: brokerPhase'[x] = (IF x = a THEN "runs" ELSE brokerPhase[x])
                      /\ brokerTurn'[x] = (IF x = a THEN brokerTurn[a] + 1 ELSE brokerTurn[x])
  BY DEF Broker!TypeOK
<1>3. brokerApprovals \subseteq Broker!Entry /\ brokerQuestions \subseteq Broker!Entry
  BY DEF Broker!TypeOK
<1> USE <1>0, <1>1, <1>2, <1>3
<1>a. BrokerNumbered'
  BY DEF BrokerNumbered
<1>b. BrokerInWire'
  BY DEF BrokerInWire, BrokerMessage
<1>c. BrokerInOrder'
  BY DEF BrokerInOrder
<1>d. BrokerPendingNext'
  BY DEF BrokerPendingNext, Broker!Entry
<1>e. BrokerQuestionsAsked'
  BY DEF BrokerQuestionsAsked, Broker!Entry
<1>f. BrokerApprovalsHeld'
  BY DEF BrokerApprovalsHeld, Broker!Entry
<1>g. BrokerOneRequest'
  BY DEF BrokerOneRequest, BrokerAsked, BrokerInWire, BrokerMessage
<1>h. Broker!RequestsFollowTurns'
  BY DEF Broker!RequestsFollowTurns, Broker!Entry, BrokerMessage
<1> QED BY <1>a, <1>b, <1>c, <1>d, <1>e, <1>f, <1>g, <1>h

LEMMA BrokerAbortKeeps == ASSUME BrokerIInv, NEW a \in Agent, Broker!Abort(a), Broker!TypeOK' PROVE BrokerIInv'
<1> USE DEF BrokerIInv, Broker!Abort, BrokerPending, Broker!Current, BrokerRequests, BrokerEnds
<1>0. \A n \in DOMAIN brokerWire: brokerWire[n] \in BrokerMessage
  BY BrokerOnWire DEF Broker!TypeOK
<1>1. \A x \in Agent: brokerTurn[x] \in Nat /\ brokerOver[x] \in Nat
  BY DEF Broker!TypeOK
<1>2. \A x \in Agent: brokerPhase'[x] = (IF x = a THEN "stopping" ELSE brokerPhase[x])
  BY DEF Broker!TypeOK
<1>3. brokerApprovals \subseteq Broker!Entry /\ brokerQuestions \subseteq Broker!Entry
  BY DEF Broker!TypeOK
<1> USE <1>0, <1>1, <1>2, <1>3
<1>a. BrokerNumbered'
  BY DEF BrokerNumbered
<1>b. BrokerInWire'
  BY DEF BrokerInWire, BrokerMessage
<1>c. BrokerInOrder'
  BY DEF BrokerInOrder
<1>d. BrokerPendingNext'
  BY DEF BrokerPendingNext, Broker!Entry
<1>e. BrokerQuestionsAsked'
  BY DEF BrokerQuestionsAsked, Broker!Entry
<1>f. BrokerApprovalsHeld'
  BY DEF BrokerApprovalsHeld, Broker!Entry
<1>g. BrokerOneRequest'
  BY DEF BrokerOneRequest, BrokerAsked, BrokerInWire, BrokerMessage
<1>h. Broker!RequestsFollowTurns'
  BY DEF Broker!RequestsFollowTurns, Broker!Entry, BrokerMessage
<1> QED BY <1>a, <1>b, <1>c, <1>d, <1>e, <1>f, <1>g, <1>h

LEMMA BrokerAskKeeps == ASSUME BrokerIInv, NEW a \in Agent, Broker!Ask(a), Broker!TypeOK' PROVE BrokerIInv'
<1>0. brokerWire \in Seq(BrokerMessage) /\ \A n \in DOMAIN brokerWire: brokerWire[n] \in BrokerMessage
  BY BrokerOnWire DEF BrokerIInv
<1>1. \A x \in Agent: brokerTurn[x] \in Nat /\ brokerOver[x] \in Nat
  BY DEF BrokerIInv, Broker!TypeOK
<1>2. \A x \in Agent: brokerPhase'[x] = (IF x = a THEN "asks" ELSE brokerPhase[x])
  BY DEF BrokerIInv, Broker!TypeOK, Broker!Ask
<1>3. brokerApprovals \subseteq Broker!Entry /\ brokerQuestions \subseteq Broker!Entry
  BY DEF BrokerIInv, Broker!TypeOK
<1>4. brokerPhase[a] = "runs" /\ UNCHANGED << brokerTurn, brokerApprovals, brokerQuestions, brokerOver >>
  BY DEF Broker!Ask
<1>5. PICK kind \in {"approval", "question"}: brokerWire' = Broker!Sent(kind, a)
  BY DEF Broker!Ask
<1> DEFINE m == [kind |-> kind, agent |-> a, turn |-> brokerTurn[a]]  last == Len(brokerWire) + 1
<1>6. m \in BrokerMessage
  <2>1. brokerTurn[a] \in 1..MaxTurns
    <3>1. brokerOver[a] < brokerTurn[a] /\ brokerTurn[a] \in 0..MaxTurns
      BY <1>4 DEF BrokerIInv, Broker!TypeOK, BrokerNumbered
    <3> QED BY <1>1, <3>1, TurnsCounted
  <2> QED BY <2>1 DEF BrokerMessage
<1>7. /\ \A n \in DOMAIN brokerWire: /\ n \in DOMAIN brokerWire' /\ brokerWire'[n] = brokerWire[n]
                                     /\ n \in Nat /\ n < last
      /\ last \in DOMAIN brokerWire' /\ brokerWire'[last] = m
      /\ \A n \in DOMAIN brokerWire': n \in DOMAIN brokerWire \/ n = last
      /\ last \in Nat
  BY <1>0, <1>5, <1>6, BrokerLonger DEF Broker!Sent
<1>n. m.kind \in BrokerRequests /\ m.kind \notin BrokerEnds /\ m.agent = a /\ m.turn = brokerTurn[a]
  BY DEF BrokerRequests, BrokerEnds
<1> HIDE DEF m, last
<1> USE <1>0, <1>1, <1>2, <1>3, <1>4
<1>a. BrokerNumbered'
  BY DEF BrokerNumbered, BrokerIInv
<1>b. BrokerInWire'
  <2>1. \A n \in DOMAIN brokerWire':
          /\ brokerOver[brokerWire'[n].agent] < brokerWire'[n].turn /\ brokerWire'[n].turn <= brokerTurn[brokerWire'[n].agent]
    BY <1>7, <1>n DEF BrokerInWire, BrokerIInv, BrokerNumbered
  <2>2. \A n \in DOMAIN brokerWire': brokerWire'[n].kind \in BrokerEnds =>
          brokerWire'[n].turn < brokerTurn[brokerWire'[n].agent] \/ brokerPhase'[brokerWire'[n].agent] = "idle"
    BY <1>7, <1>n DEF BrokerInWire, BrokerIInv, BrokerMessage
  <2> QED BY <2>1, <2>2 DEF BrokerInWire
<1>c. BrokerInOrder'
  BY <1>7, <1>n DEF BrokerInOrder, BrokerInWire, BrokerMessage, BrokerIInv, BrokerEnds
<1>d. BrokerPendingNext'
  <2> SUFFICES ASSUME NEW e \in BrokerPending
               PROVE  /\ brokerOver[e.agent] < e.turn /\ e.turn <= brokerTurn[e.agent]
                      /\ \A n \in DOMAIN brokerWire': brokerWire'[n].agent = e.agent => e.turn <= brokerWire'[n].turn
    BY DEF BrokerPendingNext, BrokerPending
  <2>1. /\ brokerOver[e.agent] < e.turn /\ e.turn <= brokerTurn[e.agent]
        /\ \A n \in DOMAIN brokerWire: brokerWire[n].agent = e.agent => e.turn <= brokerWire[n].turn
    BY DEF BrokerPendingNext, BrokerIInv
  <2> QED BY <2>1, <1>7, <1>n
<1>e. BrokerQuestionsAsked'
  BY DEF BrokerQuestionsAsked, Broker!Entry, BrokerIInv
<1>f. BrokerApprovalsHeld'
  BY <1>7, <1>n DEF BrokerApprovalsHeld, Broker!Entry, BrokerIInv, BrokerRequests
<1>g. BrokerOneRequest'
  <2>1. Broker!Current(a) \notin BrokerPending
    BY DEF BrokerIInv, BrokerQuestionsAsked, BrokerApprovalsHeld, BrokerPending, Broker!Current, BrokerEnds, BrokerInWire
  <2>2. \A n \in DOMAIN brokerWire: ~BrokerAsked(brokerWire[n], a)
    BY DEF BrokerIInv, BrokerOneRequest
  <2>3. \A n \in DOMAIN brokerWire, x \in Agent: BrokerAsked(brokerWire'[n], x) <=> BrokerAsked(brokerWire[n], x)
    BY <1>7 DEF BrokerAsked
  <2>4. \A x \in Agent: BrokerAsked(brokerWire'[last], x) => x = a
    BY <1>7, <1>n DEF BrokerAsked
  <2>5. ASSUME NEW x \in Agent, NEW i \in DOMAIN brokerWire', brokerPhase'[x] \in {"runs", "asks"},
               BrokerAsked(brokerWire'[i], x)
        PROVE  /\ brokerPhase'[x] = "asks" /\ Broker!Current(x) \notin BrokerPending
               /\ \A j \in DOMAIN brokerWire': BrokerAsked(brokerWire'[j], x) => j = i
    <3>1. CASE x = a
      BY <2>1, <2>2, <2>3, <2>5, <3>1, <1>7
    <3>2. CASE x # a
      BY <2>3, <2>4, <2>5, <3>2, <1>7 DEF BrokerIInv, BrokerOneRequest
    <3> QED BY <3>1, <3>2
  <2> QED BY <2>5 DEF BrokerOneRequest, BrokerAsked, Broker!Current, BrokerPending
<1>h. Broker!RequestsFollowTurns'
  BY <1>7, <1>n, SMTT(30) DEF Broker!RequestsFollowTurns, Broker!Entry, BrokerMessage, BrokerIInv, Broker!Current, BrokerRequests
<1> QED BY <1>a, <1>b, <1>c, <1>d, <1>e, <1>f, <1>g, <1>h DEF BrokerIInv

LEMMA BrokerEndTurnKeeps == ASSUME BrokerIInv, NEW a \in Agent, Broker!EndTurn(a), Broker!TypeOK' PROVE BrokerIInv'
<1>0. brokerWire \in Seq(BrokerMessage) /\ \A n \in DOMAIN brokerWire: brokerWire[n] \in BrokerMessage
  BY BrokerOnWire DEF BrokerIInv
<1>1. \A x \in Agent: brokerTurn[x] \in Nat /\ brokerOver[x] \in Nat
  BY DEF BrokerIInv, Broker!TypeOK
<1>2. \A x \in Agent: brokerPhase'[x] = (IF x = a THEN "idle" ELSE brokerPhase[x])
  BY DEF BrokerIInv, Broker!TypeOK, Broker!EndTurn
<1>3. brokerApprovals \subseteq Broker!Entry /\ brokerQuestions \subseteq Broker!Entry
  BY DEF BrokerIInv, Broker!TypeOK
<1>4. brokerPhase[a] \in {"runs", "stopping"} /\ UNCHANGED << brokerTurn, brokerApprovals, brokerQuestions, brokerOver >>
  BY DEF Broker!EndTurn
<1>5. PICK kind \in {"completed", "failed", "cancelled"}: 
         brokerWire' = Broker!Sent(kind, a) /\ (brokerPhase[a] = "stopping" => kind = "cancelled")
  BY DEF Broker!EndTurn
<1> DEFINE m == [kind |-> kind, agent |-> a, turn |-> brokerTurn[a]]  last == Len(brokerWire) + 1
<1>6. m \in BrokerMessage
  <2>1. brokerTurn[a] \in 1..MaxTurns
    <3>1. brokerOver[a] < brokerTurn[a] /\ brokerTurn[a] \in 0..MaxTurns
      BY <1>4 DEF BrokerIInv, Broker!TypeOK, BrokerNumbered
    <3> QED BY <1>1, <3>1, TurnsCounted
  <2> QED BY <2>1 DEF BrokerMessage
<1>7. /\ \A n \in DOMAIN brokerWire: /\ n \in DOMAIN brokerWire' /\ brokerWire'[n] = brokerWire[n]
                                     /\ n \in Nat /\ n < last
      /\ last \in DOMAIN brokerWire' /\ brokerWire'[last] = m
      /\ \A n \in DOMAIN brokerWire': n \in DOMAIN brokerWire \/ n = last
      /\ last \in Nat
  BY <1>0, <1>5, <1>6, BrokerLonger DEF Broker!Sent
<1>n. m.kind \notin BrokerRequests /\ m.kind \in BrokerEnds /\ m.agent = a /\ m.turn = brokerTurn[a]
      /\ (brokerPhase[a] = "stopping" => m.kind = "cancelled")
  BY <1>5 DEF BrokerRequests, BrokerEnds
<1> HIDE DEF m, last
<1> USE <1>0, <1>1, <1>2, <1>3, <1>4
<1>a. BrokerNumbered'
  BY DEF BrokerNumbered, BrokerIInv
<1>b. BrokerInWire'
  <2>1. \A n \in DOMAIN brokerWire':
          /\ brokerOver[brokerWire'[n].agent] < brokerWire'[n].turn /\ brokerWire'[n].turn <= brokerTurn[brokerWire'[n].agent]
    BY <1>7, <1>n DEF BrokerInWire, BrokerIInv, BrokerNumbered
  <2>2. \A n \in DOMAIN brokerWire': brokerWire'[n].kind \in BrokerEnds =>
          brokerWire'[n].turn < brokerTurn[brokerWire'[n].agent] \/ brokerPhase'[brokerWire'[n].agent] = "idle"
    BY <1>7, <1>n DEF BrokerInWire, BrokerIInv, BrokerMessage
  <2> QED BY <2>1, <2>2 DEF BrokerInWire
<1>c. BrokerInOrder'
  BY <1>7, <1>n DEF BrokerInOrder, BrokerInWire, BrokerMessage, BrokerIInv, BrokerEnds
<1>d. BrokerPendingNext'
  <2> SUFFICES ASSUME NEW e \in BrokerPending
               PROVE  /\ brokerOver[e.agent] < e.turn /\ e.turn <= brokerTurn[e.agent]
                      /\ \A n \in DOMAIN brokerWire': brokerWire'[n].agent = e.agent => e.turn <= brokerWire'[n].turn
    BY DEF BrokerPendingNext, BrokerPending
  <2>1. /\ brokerOver[e.agent] < e.turn /\ e.turn <= brokerTurn[e.agent]
        /\ \A n \in DOMAIN brokerWire: brokerWire[n].agent = e.agent => e.turn <= brokerWire[n].turn
    BY DEF BrokerPendingNext, BrokerIInv
  <2> QED BY <2>1, <1>7, <1>n
<1>e. BrokerQuestionsAsked'
  BY DEF BrokerQuestionsAsked, Broker!Entry, BrokerIInv
<1>f. BrokerApprovalsHeld'
  BY <1>7, <1>n, SMTT(30) DEF BrokerApprovalsHeld, Broker!Entry, BrokerIInv, BrokerRequests
<1>g. BrokerOneRequest'
  <2>1. \A n \in DOMAIN brokerWire, x \in Agent: BrokerAsked(brokerWire'[n], x) <=> BrokerAsked(brokerWire[n], x)
    BY <1>7 DEF BrokerAsked
  <2>2. \A x \in Agent: ~BrokerAsked(brokerWire'[last], x)
    BY <1>7, <1>n DEF BrokerAsked
  <2>3. ASSUME NEW x \in Agent, NEW i \in DOMAIN brokerWire', brokerPhase'[x] \in {"runs", "asks"},
               BrokerAsked(brokerWire'[i], x)
        PROVE  /\ brokerPhase'[x] = "asks" /\ Broker!Current(x) \notin BrokerPending
               /\ \A j \in DOMAIN brokerWire': BrokerAsked(brokerWire'[j], x) => j = i
    <3>1. i \in DOMAIN brokerWire /\ BrokerAsked(brokerWire[i], x) /\ brokerPhase[x] = brokerPhase'[x]
      BY <2>1, <2>2, <2>3, <1>7
    <3> QED BY <2>1, <2>2, <2>3, <3>1, <1>7 DEF BrokerOneRequest, BrokerIInv
  <2> QED BY <2>3 DEF BrokerOneRequest, BrokerAsked, Broker!Current, BrokerPending
<1>h. Broker!RequestsFollowTurns'
  BY <1>7, <1>n DEF Broker!RequestsFollowTurns, Broker!Entry, BrokerMessage, BrokerIInv, Broker!Current, BrokerRequests
<1> QED BY <1>a, <1>b, <1>c, <1>d, <1>e, <1>f, <1>g, <1>h DEF BrokerIInv

LEMMA BrokerResolveKeeps == ASSUME BrokerIInv, Broker!Resolve, Broker!TypeOK' PROVE BrokerIInv'
<1>0. \A n \in DOMAIN brokerWire: brokerWire[n] \in BrokerMessage
  BY BrokerOnWire DEF BrokerIInv
<1>1. \A x \in Agent: brokerTurn[x] \in Nat /\ brokerOver[x] \in Nat
  BY DEF BrokerIInv, Broker!TypeOK
<1>2. PICK e \in BrokerPending:
          /\ brokerApprovals' = brokerApprovals \ {e} /\ brokerQuestions' = brokerQuestions \ {e}
          /\ brokerPhase' = [brokerPhase EXCEPT ![e.agent] =
                           IF @ = "asks" /\ brokerTurn[e.agent] = e.turn THEN "runs" ELSE @]
  BY DEF Broker!Resolve, BrokerPending
<1>3. brokerApprovals \subseteq Broker!Entry /\ brokerQuestions \subseteq Broker!Entry
  BY DEF BrokerIInv, Broker!TypeOK
<1>4. UNCHANGED << brokerTurn, brokerWire, brokerOver >>
  BY DEF Broker!Resolve
<1>5. \A x \in Agent: brokerPhase'[x] = IF x = e.agent /\ brokerPhase[x] = "asks" /\ brokerTurn[x] = e.turn
                                  THEN "runs" ELSE brokerPhase[x]
  BY <1>2 DEF BrokerIInv, Broker!TypeOK
<1>6. e \in Broker!Entry /\ (brokerTurn[e.agent] = e.turn => e = Broker!Current(e.agent))
  BY <1>2, <1>3 DEF BrokerPending, Broker!Entry, Broker!Current
<1> USE <1>0, <1>1, <1>2, <1>3, <1>4, <1>5
<1>a. BrokerNumbered'
  BY DEF BrokerNumbered, BrokerIInv
<1>b. BrokerInWire'
  BY DEF BrokerInWire, BrokerIInv, BrokerMessage
<1>c. BrokerInOrder'
  BY DEF BrokerInOrder, BrokerIInv
<1>d. BrokerPendingNext'
  BY DEF BrokerPendingNext, BrokerIInv, BrokerPending
<1>e. BrokerQuestionsAsked'
  BY <1>6 DEF BrokerQuestionsAsked, Broker!Entry, BrokerIInv, Broker!Current
<1>f. BrokerApprovalsHeld'
  BY <1>6 DEF BrokerApprovalsHeld, Broker!Entry, BrokerIInv, Broker!Current
<1>g. BrokerOneRequest'
  BY <1>6 DEF BrokerOneRequest, BrokerAsked, BrokerMessage, BrokerIInv, Broker!Current, BrokerPending
<1>h. Broker!RequestsFollowTurns'
  BY <1>6 DEF Broker!RequestsFollowTurns, Broker!Entry, BrokerIInv, Broker!Current, BrokerPending
<1> QED BY <1>a, <1>b, <1>c, <1>d, <1>e, <1>f, <1>g, <1>h DEF BrokerIInv

LEMMA BrokerArrivesKeeps == ASSUME BrokerIInv, Broker!Arrives, Broker!TypeOK' PROVE BrokerIInv'
<1>0. brokerWire \in Seq(BrokerMessage) /\ \A n \in DOMAIN brokerWire: brokerWire[n] \in BrokerMessage
  BY BrokerOnWire DEF BrokerIInv
<1>1. \A x \in Agent: brokerTurn[x] \in Nat /\ brokerOver[x] \in Nat
  BY DEF BrokerIInv, Broker!TypeOK
<1>3. brokerApprovals \subseteq Broker!Entry /\ brokerQuestions \subseteq Broker!Entry
  BY DEF BrokerIInv, Broker!TypeOK
<1> DEFINE m == Head(brokerWire)
<1>4. brokerWire' = Tail(brokerWire) /\ brokerWire # << >> /\ UNCHANGED << brokerTurn, brokerPhase >>
  BY BrokerDelivered
<1>5. /\ 1 \in DOMAIN brokerWire /\ brokerWire[1] = m
      /\ \A n \in DOMAIN brokerWire': /\ n + 1 \in DOMAIN brokerWire /\ brokerWire'[n] = brokerWire[n + 1]
                                      /\ n \in Nat \ {0}
      /\ \A n \in DOMAIN brokerWire: /\ n \in Nat
                                     /\ n # 1 => n > 1 /\ n - 1 \in DOMAIN brokerWire' /\ brokerWire'[n - 1] = brokerWire[n]
  BY <1>0, <1>4, BrokerShorter
<1>6. m \in BrokerMessage
  BY <1>0, <1>5
<1>7. \A n \in DOMAIN brokerWire': brokerWire'[n].agent = m.agent =>
         m.turn <= brokerWire'[n].turn /\ (m.kind \in BrokerEnds => m.turn < brokerWire'[n].turn)
  BY <1>5 DEF BrokerIInv, BrokerInOrder
<1>8. \A x \in Agent: brokerPhase[x] = "asks" /\ Broker!Current(x) \notin BrokerPending =>
         \E n \in DOMAIN brokerWire: /\ brokerWire[n].kind \in {"approval", "question"}
                                     /\ brokerWire[n].agent = x /\ brokerWire[n].turn = brokerTurn[x]
  BY DEF BrokerIInv, Broker!RequestsFollowTurns, BrokerPending
<1> HIDE DEF m
<1> USE <1>0, <1>1, <1>3, <1>4, <1>5, <1>6
<1>c. BrokerInOrder'
  BY DEF BrokerInOrder, BrokerIInv
\* Of the requests behind the first message the invariant still holds.
<1>m. \A n \in DOMAIN brokerWire', x \in Agent: BrokerAsked(brokerWire'[n], x) <=> BrokerAsked(brokerWire[n + 1], x)
  BY DEF BrokerAsked
<1>o. \A x \in Agent, i \in DOMAIN brokerWire':
         brokerPhase[x] \in {"runs", "asks"} /\ BrokerAsked(brokerWire'[i], x) =>
             /\ brokerPhase[x] = "asks" /\ Broker!Current(x) \notin BrokerPending
             /\ \A j \in DOMAIN brokerWire': BrokerAsked(brokerWire'[j], x) => j = i
  <2> SUFFICES ASSUME NEW x \in Agent, NEW i \in DOMAIN brokerWire', NEW j \in DOMAIN brokerWire',
                      brokerPhase[x] \in {"runs", "asks"}, BrokerAsked(brokerWire'[i], x), BrokerAsked(brokerWire'[j], x)
               PROVE  brokerPhase[x] = "asks" /\ Broker!Current(x) \notin BrokerPending /\ j = i
    OBVIOUS
  <2>1. brokerPhase[x] = "asks" /\ Broker!Current(x) \notin BrokerPending /\ j + 1 = i + 1
    BY <1>m DEF BrokerIInv, BrokerOneRequest
  <2> QED BY <2>1
\* The end of an aborted turn stays on its way.
<1>q. m.kind \in BrokerRequests => \A e \in brokerApprovals:
         \/ e.turn = brokerTurn[e.agent] /\ brokerPhase[e.agent] \in {"asks", "stopping"}
         \/ \E n \in DOMAIN brokerWire': /\ brokerWire'[n].kind = "cancelled"
                                         /\ brokerWire'[n].agent = e.agent /\ brokerWire'[n].turn = e.turn
  <2> SUFFICES ASSUME m.kind \in BrokerRequests, NEW e \in brokerApprovals,
                      NEW n \in DOMAIN brokerWire, brokerWire[n].kind = "cancelled",
                      brokerWire[n].agent = e.agent, brokerWire[n].turn = e.turn
               PROVE  \E k \in DOMAIN brokerWire': /\ brokerWire'[k].kind = "cancelled"
                                                   /\ brokerWire'[k].agent = e.agent /\ brokerWire'[k].turn = e.turn
    BY DEF BrokerIInv, BrokerApprovalsHeld
  <2>1. n - 1 \in DOMAIN brokerWire' /\ brokerWire'[n - 1] = brokerWire[n]
    BY DEF BrokerRequests
  <2> QED BY <2>1
<1>9. CASE m.kind \in BrokerRequests /\ Broker!Aborted(m) /\ UNCHANGED << brokerApprovals, brokerQuestions, brokerOver >>
  <2> USE <1>9
  <2>a. BrokerNumbered'
    BY DEF BrokerNumbered, BrokerIInv
  <2>b. BrokerInWire'
    BY DEF BrokerInWire, BrokerIInv
  <2>d. BrokerPendingNext'
    BY DEF BrokerPendingNext, BrokerIInv, BrokerPending
  <2>e. BrokerQuestionsAsked'
    BY DEF BrokerQuestionsAsked, BrokerIInv
  <2>f. BrokerApprovalsHeld'
    BY <1>q DEF BrokerApprovalsHeld
  <2>g. BrokerOneRequest'
    BY <1>o DEF BrokerOneRequest, BrokerAsked, Broker!Current, BrokerPending
  <2>h. Broker!RequestsFollowTurns'
    <3>1. ASSUME NEW x \in Agent, brokerPhase[x] = "asks", Broker!Current(x) \notin BrokerPending
          PROVE  \E n \in DOMAIN brokerWire': /\ brokerWire'[n].kind \in {"approval", "question"}
                                              /\ brokerWire'[n].agent = x /\ brokerWire'[n].turn = brokerTurn[x]
      <4>1. PICK n \in DOMAIN brokerWire: /\ brokerWire[n].kind \in {"approval", "question"}
                                          /\ brokerWire[n].agent = x /\ brokerWire[n].turn = brokerTurn[x]
        BY <1>8, <3>1
      <4>2. n # 1
        BY <3>1, <4>1 DEF Broker!Aborted
      <4>3. n - 1 \in DOMAIN brokerWire' /\ brokerWire'[n - 1] = brokerWire[n]
        BY <4>2
      <4> QED BY <4>1, <4>3
    <3> QED BY <3>1 DEF Broker!RequestsFollowTurns, BrokerIInv, Broker!Current, BrokerPending
  <2> QED BY <1>c, <2>a, <2>b, <2>d, <2>e, <2>f, <2>g, <2>h DEF BrokerIInv
<1>x. CASE /\ m.kind \in BrokerRequests /\ ~Broker!Aborted(m)
           /\ \/ brokerApprovals' = brokerApprovals \cup {BrokerEntryOf(m)} /\ brokerQuestions' = brokerQuestions
              \/ brokerQuestions' = brokerQuestions \cup {BrokerEntryOf(m)} /\ brokerApprovals' = brokerApprovals
           /\ brokerOver' = brokerOver
  <2>1. /\ brokerPhase[m.agent] = "asks" /\ brokerTurn[m.agent] = m.turn
        /\ BrokerEntryOf(m) = Broker!Current(m.agent)
    BY <1>x DEF Broker!Aborted, BrokerEntryOf, Broker!Current
  <2>2. BrokerPending' = BrokerPending \cup {BrokerEntryOf(m)} /\ BrokerEntryOf(m).agent = m.agent /\ BrokerEntryOf(m).turn = m.turn
    BY <1>x DEF BrokerPending, BrokerEntryOf
  <2>3. \A n \in DOMAIN brokerWire': ~BrokerAsked(brokerWire'[n], m.agent)
    <3> SUFFICES ASSUME NEW n \in DOMAIN brokerWire', BrokerAsked(brokerWire'[n], m.agent) PROVE FALSE
      OBVIOUS
    <3>1. BrokerAsked(brokerWire[1], m.agent) /\ BrokerAsked(brokerWire[n + 1], m.agent) /\ m.agent \in Agent
      BY <1>m, <1>x, <2>1 DEF BrokerAsked, BrokerMessage
    <3>2. n + 1 = 1
      BY <3>1, <2>1 DEF BrokerIInv, BrokerOneRequest
    <3> QED BY <3>2
  <2> USE <1>x, <2>1, <2>2
  <2>a. BrokerNumbered'
    BY DEF BrokerNumbered, BrokerIInv
  <2>b. BrokerInWire'
    BY DEF BrokerInWire, BrokerIInv
  <2>d. BrokerPendingNext'
    <3>1. brokerOver[m.agent] < m.turn /\ m.turn <= brokerTurn[m.agent]
      BY DEF BrokerInWire, BrokerIInv
    <3> QED BY <3>1, <1>7 DEF BrokerPendingNext, BrokerIInv
  <2>e. BrokerQuestionsAsked'
    BY DEF BrokerQuestionsAsked, BrokerIInv
  <2>f. BrokerApprovalsHeld'
    <3>1. \A e \in brokerApprovals': e \in brokerApprovals \/ e = BrokerEntryOf(m)
      OBVIOUS
    <3> QED BY <1>q, <3>1 DEF BrokerApprovalsHeld
  <2>g. BrokerOneRequest'
    <3>1. \A x \in Agent: x # m.agent => (Broker!Current(x) \in BrokerPending' <=> Broker!Current(x) \in BrokerPending)
      BY DEF Broker!Current
    <3>2. \A x \in Agent, i \in DOMAIN brokerWire': BrokerAsked(brokerWire'[i], x) => x # m.agent
      BY <2>3
    <3> QED BY <1>o, <3>1, <3>2 DEF BrokerOneRequest, BrokerAsked, Broker!Current, BrokerPending
  <2>h. Broker!RequestsFollowTurns'
    <3>1. \A e \in BrokerPending': e.turn > brokerOver[e.agent]
      BY DEF BrokerIInv, BrokerInWire, BrokerPendingNext
    <3>2. ASSUME NEW x \in Agent, brokerPhase[x] = "asks", Broker!Current(x) \notin BrokerPending'
          PROVE  \E n \in DOMAIN brokerWire': /\ brokerWire'[n].kind \in {"approval", "question"}
                                              /\ brokerWire'[n].agent = x /\ brokerWire'[n].turn = brokerTurn[x]
      <4>1. PICK n \in DOMAIN brokerWire: /\ brokerWire[n].kind \in {"approval", "question"}
                                          /\ brokerWire[n].agent = x /\ brokerWire[n].turn = brokerTurn[x]
        BY <1>8, <3>2
      <4>2. n # 1
        BY <3>2, <4>1
      <4>3. n - 1 \in DOMAIN brokerWire' /\ brokerWire'[n - 1] = brokerWire[n]
        BY <4>2
      <4> QED BY <4>1, <4>3
    <3> QED BY <3>1, <3>2 DEF Broker!RequestsFollowTurns, Broker!Current, BrokerPending
  <2> QED BY <1>c, <2>a, <2>b, <2>d, <2>e, <2>f, <2>g, <2>h DEF BrokerIInv
<1>y. CASE /\ m.kind \in BrokerEnds
           /\ \/ m.kind = "completed" /\ brokerApprovals' = brokerApprovals
              \/ brokerApprovals' = {e \in brokerApprovals: e.agent # m.agent}
           /\ brokerOver' = [brokerOver EXCEPT ![m.agent] = m.turn]
           /\ brokerQuestions' = brokerQuestions
  <2>1. \A x \in Agent: brokerOver'[x] = IF x = m.agent THEN m.turn ELSE brokerOver[x]
    BY <1>y DEF BrokerIInv, Broker!TypeOK
  <2>2. /\ brokerOver[m.agent] < m.turn /\ m.turn <= brokerTurn[m.agent]
        /\ m.turn < brokerTurn[m.agent] \/ brokerPhase[m.agent] = "idle"
    BY <1>y DEF BrokerIInv, BrokerInWire
  <2> USE <1>y, <2>1, <2>2
  <2>3. \A n \in DOMAIN brokerWire: n = 1 => brokerWire[n].kind \notin BrokerRequests
    BY DEF BrokerRequests, BrokerEnds
\* What is left of the agent's entries is of later turns.
  <2>4. ASSUME NEW e \in BrokerPending', e.agent = m.agent PROVE e.turn > m.turn
    <3>1. CASE e \in brokerQuestions
      BY <2>4, <3>1 DEF BrokerIInv, BrokerQuestionsAsked
    <3>2. CASE e \in brokerApprovals /\ m.kind = "completed"
      <4>1. CASE e.turn = brokerTurn[e.agent] /\ brokerPhase[e.agent] \in {"asks", "stopping"}
        BY <2>4, <4>1
      <4>2. CASE \E n \in DOMAIN brokerWire: /\ brokerWire[n].kind = "cancelled"
                                             /\ brokerWire[n].agent = e.agent /\ brokerWire[n].turn = e.turn
        <5>1. PICK n \in DOMAIN brokerWire: /\ brokerWire[n].kind = "cancelled"
                                            /\ brokerWire[n].agent = e.agent /\ brokerWire[n].turn = e.turn
          BY <4>2
        <5>2. n > 1
          BY <3>2, <5>1
        <5> QED BY <2>4, <5>1, <5>2 DEF BrokerIInv, BrokerInOrder
      <4> QED BY <3>2, <4>1, <4>2 DEF BrokerIInv, BrokerApprovalsHeld
    <3> QED BY <2>4, <3>1, <3>2 DEF BrokerPending
  <2>a. BrokerNumbered'
    BY DEF BrokerNumbered, BrokerIInv, BrokerMessage
  <2>b. BrokerInWire'
    BY <1>7 DEF BrokerInWire, BrokerIInv
  <2>d. BrokerPendingNext'
    BY <2>4 DEF BrokerPendingNext, BrokerIInv, BrokerPending
  <2>e. BrokerQuestionsAsked'
    BY DEF BrokerQuestionsAsked, BrokerIInv
  <2>f. BrokerApprovalsHeld'
    <3> SUFFICES ASSUME NEW e \in brokerApprovals',
                        ~(e.turn = brokerTurn[e.agent] /\ brokerPhase[e.agent] \in {"asks", "stopping"})
                 PROVE  \E k \in DOMAIN brokerWire': /\ brokerWire'[k].kind = "cancelled"
                                                     /\ brokerWire'[k].agent = e.agent /\ brokerWire'[k].turn = e.turn
      BY DEF BrokerApprovalsHeld
    <3>1. e \in brokerApprovals
      OBVIOUS
    <3>2. PICK n \in DOMAIN brokerWire: /\ brokerWire[n].kind = "cancelled"
                                        /\ brokerWire[n].agent = e.agent /\ brokerWire[n].turn = e.turn
      BY <3>1 DEF BrokerIInv, BrokerApprovalsHeld
    <3>3. n # 1
      BY <3>2
    <3>4. n - 1 \in DOMAIN brokerWire' /\ brokerWire'[n - 1] = brokerWire[n]
      BY <3>3
    <3> QED BY <3>2, <3>4
  <2>g. BrokerOneRequest'
    BY <1>o DEF BrokerOneRequest, BrokerAsked, Broker!Current, BrokerPending
  <2>h. Broker!RequestsFollowTurns'
    <3>1. \A e \in BrokerPending': e.turn > brokerOver'[e.agent]
      BY <2>4 DEF BrokerIInv, BrokerPendingNext, BrokerPending, Broker!Entry
    <3>2. ASSUME NEW x \in Agent, brokerPhase[x] = "asks", Broker!Current(x) \in BrokerPending
          PROVE  Broker!Current(x) \in BrokerPending'
      <4>1. CASE x = m.agent
        <5>1. Broker!Current(x).agent = x /\ Broker!Current(x).turn = brokerTurn[x]
          BY DEF Broker!Current
        <5>2. brokerTurn[x] <= m.turn
          BY <3>2, <4>1, <5>1 DEF BrokerIInv, BrokerPendingNext
        <5> QED BY <3>2, <4>1, <5>2, <1>6 DEF BrokerMessage
      <4>2. CASE x # m.agent
        BY <3>2, <4>2 DEF Broker!Current, BrokerPending
      <4> QED BY <4>1, <4>2
    <3>3. ASSUME NEW x \in Agent, brokerPhase[x] = "asks", Broker!Current(x) \notin BrokerPending'
          PROVE  \E n \in DOMAIN brokerWire': /\ brokerWire'[n].kind \in {"approval", "question"}
                                              /\ brokerWire'[n].agent = x /\ brokerWire'[n].turn = brokerTurn[x]
      <4>1. PICK n \in DOMAIN brokerWire: /\ brokerWire[n].kind \in {"approval", "question"}
                                          /\ brokerWire[n].agent = x /\ brokerWire[n].turn = brokerTurn[x]
        BY <1>8, <3>2, <3>3
      <4>2. n # 1
        BY <2>3, <4>1 DEF BrokerRequests
      <4>3. n - 1 \in DOMAIN brokerWire' /\ brokerWire'[n - 1] = brokerWire[n]
        BY <4>2
      <4> QED BY <4>1, <4>3
    <3> QED BY <3>1, <3>3 DEF Broker!RequestsFollowTurns, Broker!Current, BrokerPending
  <2> QED BY <1>c, <2>a, <2>b, <2>d, <2>e, <2>f, <2>g, <2>h DEF BrokerIInv
<1> QED
  BY <1>9, <1>x, <1>y, BrokerDelivered

LEMMA BrokerStep == BrokerIInv /\ [Broker!Next]_Broker!vars => BrokerIInv'
<1> SUFFICES ASSUME BrokerIInv, [Broker!Next]_Broker!vars PROVE BrokerIInv'
  OBVIOUS
<1>0. Broker!TypeOK'
  BY BrokerTypeStep DEF BrokerIInv
<1>1. ASSUME NEW a \in Agent, Broker!StartTurn(a) PROVE BrokerIInv'
  BY <1>0, <1>1, BrokerStartTurnKeeps
<1>2. ASSUME NEW a \in Agent, Broker!Ask(a) PROVE BrokerIInv'
  BY <1>0, <1>2, BrokerAskKeeps
<1>3. ASSUME NEW a \in Agent, Broker!Abort(a) PROVE BrokerIInv'
  BY <1>0, <1>3, BrokerAbortKeeps
<1>4. ASSUME NEW a \in Agent, Broker!EndTurn(a) PROVE BrokerIInv'
  BY <1>0, <1>4, BrokerEndTurnKeeps
<1>5. CASE Broker!Arrives
  BY <1>0, <1>5, BrokerArrivesKeeps
<1>6. CASE Broker!Resolve
  BY <1>0, <1>6, BrokerResolveKeeps
<1>7. CASE UNCHANGED Broker!vars
  BY <1>7 DEF Broker!vars, BrokerIInv, Broker!TypeOK, BrokerNumbered, BrokerInWire, BrokerInOrder, BrokerPendingNext,
     BrokerQuestionsAsked, BrokerApprovalsHeld, BrokerOneRequest, BrokerAsked, Broker!RequestsFollowTurns,
     BrokerPending, Broker!Current
<1> QED BY <1>1, <1>2, <1>3, <1>4, <1>5, <1>6, <1>7 DEF Broker!Next

\* The approval and question brokers (approvalService.ts, questionService.ts): no request
\* outlives its turn, and the end of another turn takes away nothing a call waits for,
\* for any agents and turns.
THEOREM RequestsEnd == Spec => []RequestsFollowTurns
<1>1. Init => BrokerIInv BY BrokerStart DEF Init
<1>2. BrokerIInv /\ [Next]_vars => BrokerIInv'
  BY BrokerStep DEF Next, vars, brokerVars, Broker!vars
<1>3. BrokerIInv => RequestsFollowTurns BY DEF BrokerIInv, RequestsFollowTurns
<1> QED BY <1>1, <1>2, <1>3, PTL DEF Spec
-----------------------------------------------------------------------------
LEMMA ItemsCounted == MaxItems \in Nat /\ MaxReads \in Nat
BY BoundsAssumption

\* There is room for the record of an item that streams.
SnapshotRoomToLog == snapshotStreaming /\ snapshotLogged = snapshotSeq => snapshotLogged < MaxItems

\* What was in the file when a request began is still there.
SnapshotStillThere == \A r \in Request: snapshotBefore[r] \subseteq 1..snapshotWritten

\* The file was no longer when its size was found than when it was read.
SnapshotSizeFirst ==
    \A r \in Request:
        /\ snapshotStage[r] = "read" => snapshotSize[r][1] <= snapshotWritten
        /\ snapshotStage[r] = "store" => 1..snapshotSize[r][1] \subseteq snapshotItems[r]

\* A cached transcript covers a file of the size it is cached under.
SnapshotCacheCovers == \A entry \in snapshotCache: 1..entry.size[1] \subseteq entry.items

\* A transcript covers what its request must see from the moment it is there.
SnapshotCovered ==
    \A r \in Request:
        snapshotStage[r] \in {"store", "ready", "answered"} => snapshotBefore[r] \subseteq snapshotItems[r]

SnapshotTyped == Snap!TypeOK /\ SnapshotRoomToLog

SnapshotIInv == SnapshotTyped /\ SnapshotStillThere /\ SnapshotSizeFirst /\ SnapshotCacheCovers /\ SnapshotCovered

LEMMA SnapshotStart == Snap!Init => SnapshotIInv
<1> SUFFICES ASSUME Snap!Init PROVE SnapshotIInv
  OBVIOUS
<1>1. Snap!TypeOK
  <2>1. << 0, FALSE >> \in Snap!Size
    <3>1. 0 \in 0..MaxItems /\ FALSE \in BOOLEAN
      BY ItemsCounted
    <3> QED BY <3>1, Zenon DEF Snap!Size
  <2>2. /\ snapshotStreaming \in BOOLEAN /\ snapshotPart \in BOOLEAN
    BY DEF Snap!Init
  <2>3. /\ snapshotLogged \in 0..MaxItems /\ snapshotSeq \in 0..MaxItems /\ snapshotWritten \in 0..MaxItems
        /\ snapshotSeq <= snapshotLogged /\ snapshotWritten <= snapshotLogged /\ snapshotReads \in 0..MaxReads
    BY ItemsCounted DEF Snap!Init
  <2>4. snapshotSize \in [Request -> Snap!Size]
    BY <2>1 DEF Snap!Init
  <2> QED BY <2>2, <2>3, <2>4 DEF Snap!Init, Snap!TypeOK
<1> QED BY <1>1 DEF Snap!Init, SnapshotIInv, SnapshotTyped, SnapshotRoomToLog, SnapshotStillThere, SnapshotSizeFirst, SnapshotCacheCovers, SnapshotCovered

\* What a look at the size of the file leads to.
LEMMA SnapshotLooks ==
    ASSUME Snap!TypeOK, NEW r \in Request, Snap!StatFile(r)
    PROVE  /\ snapshotSize' = [snapshotSize EXCEPT ![r] = << snapshotWritten, snapshotPart >>]
           /\ \/ /\ snapshotWritten = 0 /\ snapshotCache' = {} /\ snapshotItems' = snapshotItems
                 /\ snapshotStage' = [snapshotStage EXCEPT ![r] = "ready"]
              \/ \E entry \in snapshotCache:
                    /\ entry.size[1] = snapshotWritten /\ snapshotCache' = snapshotCache
                    /\ snapshotItems' = [snapshotItems EXCEPT ![r] = entry.items]
                    /\ snapshotStage' = [snapshotStage EXCEPT ![r] = "ready"]
              \/ /\ snapshotCache' = {} /\ snapshotItems' = snapshotItems
                 /\ snapshotStage' = [snapshotStage EXCEPT ![r] = "read"]
<1>1. snapshotSize'[r] = << snapshotWritten, snapshotPart >> /\ snapshotSize' = [snapshotSize EXCEPT ![r] = << snapshotWritten, snapshotPart >>]
  BY DEF Snap!StatFile, Snap!TypeOK
<1>2. CASE /\ snapshotSize'[r] = << 0, FALSE >>
           /\ snapshotCache' = {}
           /\ snapshotStage' = [snapshotStage EXCEPT ![r] = "ready"]
           /\ UNCHANGED snapshotItems
  <2>1. snapshotWritten = 0
    BY <1>1, <1>2
  <2> QED BY <1>1, <1>2, <2>1
<1>3. CASE \E entry \in snapshotCache:
            /\ entry.size = snapshotSize'[r] /\ snapshotSize'[r] # << 0, FALSE >>
            /\ snapshotItems' = [snapshotItems EXCEPT ![r] = entry.items]
            /\ snapshotStage' = [snapshotStage EXCEPT ![r] = "ready"]
            /\ UNCHANGED snapshotCache
  <2>1. PICK entry \in snapshotCache:
            /\ entry.size = snapshotSize'[r] /\ snapshotSize'[r] # << 0, FALSE >>
            /\ snapshotItems' = [snapshotItems EXCEPT ![r] = entry.items]
            /\ snapshotStage' = [snapshotStage EXCEPT ![r] = "ready"]
            /\ UNCHANGED snapshotCache
    BY <1>3
  <2>2. entry.size[1] = snapshotWritten
    BY <1>1, <2>1
  <2> QED BY <1>1, <2>1, <2>2
<1>4. CASE snapshotCache' = {} /\ snapshotStage' = [snapshotStage EXCEPT ![r] = "read"] /\ UNCHANGED snapshotItems
  BY <1>1, <1>4
<1> QED BY <1>1, <1>2, <1>3, <1>4 DEF Snap!StatFile

LEMMA SnapshotTypeStep == SnapshotTyped /\ [Snap!Next]_Snap!vars => SnapshotTyped'
<1> SUFFICES ASSUME Snap!TypeOK, SnapshotRoomToLog, [Snap!Next]_Snap!vars PROVE Snap!TypeOK' /\ SnapshotRoomToLog'
  BY DEF SnapshotTyped
<1> USE ItemsCounted DEF Snap!turn, Snap!file, Snap!request
<1>a. CASE Snap!Begin \/ Snap!Log \/ Snap!Dispatch \/ Snap!WritePiece \/ Snap!WriteLine
  <2>1. /\ snapshotStreaming' \in BOOLEAN /\ snapshotPart' \in BOOLEAN
        /\ snapshotLogged' \in 0..MaxItems /\ snapshotSeq' \in 0..MaxItems /\ snapshotWritten' \in 0..MaxItems
        /\ snapshotSeq' <= snapshotLogged' /\ snapshotWritten' <= snapshotLogged'
        /\ SnapshotRoomToLog'
    <3>0. /\ snapshotStreaming \in BOOLEAN /\ snapshotPart \in BOOLEAN
          /\ snapshotLogged \in 0..MaxItems /\ snapshotSeq \in 0..MaxItems /\ snapshotWritten \in 0..MaxItems
          /\ snapshotSeq <= snapshotLogged /\ snapshotWritten <= snapshotLogged
          /\ snapshotStreaming /\ snapshotLogged = snapshotSeq => snapshotLogged < MaxItems
      BY DEF Snap!TypeOK, SnapshotRoomToLog
    <3>1. CASE Snap!Begin
      BY <3>0, <3>1 DEF Snap!Begin, SnapshotRoomToLog
    <3>2. CASE Snap!Log
      BY <3>0, <3>2 DEF Snap!Log, SnapshotRoomToLog
    <3>3. CASE Snap!Dispatch
      <4>1. snapshotStreaming' = FALSE /\ snapshotPart' = snapshotPart
        BY <3>3 DEF Snap!Dispatch
      <4>2. /\ snapshotLogged' = snapshotLogged /\ snapshotWritten' = snapshotWritten /\ snapshotSeq' = snapshotSeq + 1 /\ snapshotSeq < snapshotLogged
        BY <3>3 DEF Snap!Dispatch
      <4>3. snapshotSeq' \in 0..MaxItems /\ snapshotSeq' <= snapshotLogged'
        BY <3>0, <4>2
      <4> QED BY <3>0, <4>1, <4>2, <4>3 DEF SnapshotRoomToLog
    <3>4. CASE Snap!WritePiece
      BY <3>0, <3>4 DEF Snap!WritePiece, SnapshotRoomToLog
    <3>5. CASE Snap!WriteLine
      <4>1. snapshotPart' = FALSE /\ snapshotStreaming' = snapshotStreaming
        BY <3>5 DEF Snap!WriteLine
      <4>2. /\ snapshotLogged' = snapshotLogged /\ snapshotSeq' = snapshotSeq /\ snapshotWritten' = snapshotWritten + 1 /\ snapshotWritten < snapshotLogged
        BY <3>5 DEF Snap!WriteLine
      <4>3. snapshotWritten' \in 0..MaxItems /\ snapshotWritten' <= snapshotLogged'
        BY <3>0, <4>2
      <4> QED BY <3>0, <4>1, <4>2, <4>3 DEF SnapshotRoomToLog
    <3> QED BY <1>a, <3>1, <3>2, <3>3, <3>4, <3>5
  <2>2. UNCHANGED << snapshotCache, Snap!request, snapshotReads >>
    BY <1>a DEF Snap!Begin, Snap!Log, Snap!Dispatch, Snap!WritePiece, Snap!WriteLine
  <2> QED BY <2>1, <2>2 DEF Snap!TypeOK
<1>b. CASE \E r \in Request:
              Snap!Read(r) \/ Snap!Watermark(r) \/ Snap!StatFile(r) \/ Snap!ReadFile(r) \/ Snap!Store(r) \/ Snap!Answer(r)
  <2> PICK r \in Request:
              Snap!Read(r) \/ Snap!Watermark(r) \/ Snap!StatFile(r) \/ Snap!ReadFile(r) \/ Snap!Store(r) \/ Snap!Answer(r)
    BY <1>b
  <2> DEFINE Stages == {"idle", "stat", "read", "store", "ready", "answered"}
  <2>1. UNCHANGED << Snap!turn, Snap!file >>
    BY DEF Snap!Read, Snap!Watermark, Snap!StatFile, Snap!ReadFile, Snap!Store, Snap!Answer
  <2>2. snapshotReads' \in 0..MaxReads
    <3>1. snapshotReads' = snapshotReads \/ (snapshotReads < MaxReads /\ snapshotReads' = snapshotReads + 1)
      BY DEF Snap!Read, Snap!Watermark, Snap!StatFile, Snap!ReadFile, Snap!Store, Snap!Answer
    <3> QED BY <3>1 DEF Snap!TypeOK
  <2>3. snapshotStage' \in [Request -> Stages]
    BY DEF Snap!TypeOK, Snap!Read, Snap!Watermark, Snap!StatFile, Snap!ReadFile, Snap!Store, Snap!Answer
  <2>4. snapshotSize' \in [Request -> Snap!Size]
    <3>1. << snapshotWritten, snapshotPart >> \in Snap!Size
      BY DEF Snap!TypeOK, Snap!Size
    <3> QED BY <3>1 DEF Snap!TypeOK, Snap!Read, Snap!Watermark, Snap!StatFile, Snap!ReadFile, Snap!Store, Snap!Answer
  <2>5. 1..snapshotWritten \in SUBSET Snap!Item
    BY DEF Snap!TypeOK, Snap!Item
  <2>6. snapshotBefore' \in [Request -> SUBSET Snap!Item]
    BY <2>5 DEF Snap!TypeOK, Snap!Read, Snap!Watermark, Snap!StatFile, Snap!ReadFile, Snap!Store, Snap!Answer
  <2>7. snapshotCache' \in SUBSET [size: Snap!Size, items: SUBSET Snap!Item]
    <3>1. \/ snapshotCache' = snapshotCache \/ snapshotCache' = {}
          \/ snapshotCache' = {[size |-> snapshotSize[r], items |-> snapshotItems[r]]}
      BY SnapshotLooks DEF Snap!Read, Snap!Watermark, Snap!ReadFile, Snap!Store, Snap!Answer
    <3>2. snapshotSize[r] \in Snap!Size /\ snapshotItems[r] \in SUBSET Snap!Item
      BY DEF Snap!TypeOK
    <3> QED BY <3>1, <3>2 DEF Snap!TypeOK
  <2>8. snapshotItems' \in [Request -> SUBSET Snap!Item]
    BY <2>5 DEF Snap!TypeOK, Snap!Read, Snap!Watermark, Snap!StatFile, Snap!ReadFile, Snap!Store, Snap!Answer
  <2>9. snapshotMark' \in [Request -> SUBSET [seq: 0..MaxItems, flight: SUBSET Snap!Item]]
    <3> DEFINE now == [seq |-> snapshotSeq, flight |-> IF snapshotStreaming THEN {snapshotSeq + 1} ELSE {}]
    <3>1. snapshotStreaming => snapshotSeq + 1 \in Snap!Item
      BY DEF Snap!TypeOK, SnapshotRoomToLog, Snap!Item
    <3>2. now \in [seq: 0..MaxItems, flight: SUBSET Snap!Item]
      BY <3>1 DEF Snap!TypeOK
    <3>3. \E x \in {{}, {now}}: snapshotMark' = snapshotMark \/ snapshotMark' = [snapshotMark EXCEPT ![r] = x]
      BY DEF Snap!Read, Snap!Watermark, Snap!StatFile, Snap!ReadFile, Snap!Store, Snap!Answer
    <3> HIDE DEF now
    <3> QED BY <3>2, <3>3 DEF Snap!TypeOK
  <2> QED BY <2>1, <2>2, <2>3, <2>4, <2>6, <2>7, <2>8, <2>9 DEF Snap!TypeOK, SnapshotRoomToLog
<1>c. CASE UNCHANGED Snap!vars
  BY <1>c DEF Snap!vars, Snap!TypeOK, SnapshotRoomToLog
<1> QED BY <1>a, <1>b, <1>c DEF Snap!Next

LEMMA SnapshotStep == SnapshotIInv /\ [Snap!Next]_Snap!vars => SnapshotIInv'
<1> SUFFICES ASSUME SnapshotIInv, [Snap!Next]_Snap!vars PROVE SnapshotIInv'
  OBVIOUS
<1>0. SnapshotTyped'
  BY SnapshotTypeStep DEF SnapshotIInv
<1>t. /\ snapshotWritten \in Nat /\ snapshotSize \in [Request -> Snap!Size] /\ snapshotItems \in [Request -> SUBSET Snap!Item]
      /\ snapshotStage \in [Request -> {"idle", "stat", "read", "store", "ready", "answered"}]
      /\ snapshotBefore \in [Request -> SUBSET Snap!Item]
      /\ snapshotCache \subseteq [size: Snap!Size, items: SUBSET Snap!Item]
  BY DEF SnapshotIInv, SnapshotTyped, Snap!TypeOK
<1> USE <1>0, <1>t DEF SnapshotIInv, Snap!Size, Snap!Item, Snap!turn, Snap!file, Snap!request
<1> HIDE DEF SnapshotTyped
<1>1. CASE Snap!Begin \/ Snap!Log \/ Snap!Dispatch \/ Snap!WritePiece \/ UNCHANGED Snap!vars
  BY <1>1 DEF Snap!Begin, Snap!Log, Snap!Dispatch, Snap!WritePiece, Snap!vars, SnapshotStillThere, SnapshotSizeFirst, SnapshotCacheCovers, SnapshotCovered
<1>5. CASE Snap!WriteLine
  BY <1>5 DEF Snap!WriteLine, SnapshotStillThere, SnapshotSizeFirst, SnapshotCacheCovers, SnapshotCovered
<1>6. ASSUME NEW r \in Request, Snap!Read(r) PROVE SnapshotIInv'
  BY <1>6 DEF Snap!Read, SnapshotStillThere, SnapshotSizeFirst, SnapshotCacheCovers, SnapshotCovered
<1>7. ASSUME NEW r \in Request, Snap!Watermark(r) PROVE SnapshotIInv'
  BY <1>7 DEF Snap!Watermark, SnapshotStillThere, SnapshotSizeFirst, SnapshotCacheCovers, SnapshotCovered
<1>8. ASSUME NEW r \in Request, Snap!StatFile(r) PROVE SnapshotIInv'
  <2>1. Snap!TypeOK /\ UNCHANGED << Snap!turn, Snap!file, snapshotMark, snapshotBefore, snapshotReads >> /\ snapshotStage[r] = "stat"
    BY <1>8 DEF Snap!StatFile, SnapshotTyped
  <2>2. snapshotSize' = [snapshotSize EXCEPT ![r] = << snapshotWritten, snapshotPart >>]
    BY <1>8, <2>1, SnapshotLooks
  <2>3. CASE /\ snapshotWritten = 0 /\ snapshotCache' = {} /\ snapshotItems' = snapshotItems
             /\ snapshotStage' = [snapshotStage EXCEPT ![r] = "ready"]
    BY <2>1, <2>2, <2>3 DEF SnapshotStillThere, SnapshotSizeFirst, SnapshotCacheCovers, SnapshotCovered
  <2>4. CASE \E entry \in snapshotCache:
                    /\ entry.size[1] = snapshotWritten /\ snapshotCache' = snapshotCache
                    /\ snapshotItems' = [snapshotItems EXCEPT ![r] = entry.items]
                    /\ snapshotStage' = [snapshotStage EXCEPT ![r] = "ready"]
    BY <2>1, <2>2, <2>4 DEF SnapshotStillThere, SnapshotSizeFirst, SnapshotCacheCovers, SnapshotCovered
  <2>5. CASE /\ snapshotCache' = {} /\ snapshotItems' = snapshotItems
             /\ snapshotStage' = [snapshotStage EXCEPT ![r] = "read"]
    BY <2>1, <2>2, <2>5 DEF SnapshotStillThere, SnapshotSizeFirst, SnapshotCacheCovers, SnapshotCovered
  <2> QED BY <1>8, <2>1, <2>3, <2>4, <2>5, SnapshotLooks
<1>9. ASSUME NEW r \in Request, Snap!ReadFile(r) PROVE SnapshotIInv'
  BY <1>9 DEF Snap!ReadFile, SnapshotStillThere, SnapshotSizeFirst, SnapshotCacheCovers, SnapshotCovered
<1>10. ASSUME NEW r \in Request, Snap!Store(r) PROVE SnapshotIInv'
  BY <1>10 DEF Snap!Store, SnapshotStillThere, SnapshotSizeFirst, SnapshotCacheCovers, SnapshotCovered
<1>11. ASSUME NEW r \in Request, Snap!Answer(r) PROVE SnapshotIInv'
  BY <1>11 DEF Snap!Answer, SnapshotStillThere, SnapshotSizeFirst, SnapshotCacheCovers, SnapshotCovered
<1> QED BY <1>1, <1>5, <1>6, <1>7, <1>8, <1>9, <1>10, <1>11 DEF Snap!Next

\* The snapshot of a session (snapshotService.ts): what was in the file when it was asked
\* for is in it, for any requests that share the cache and any lengths of the file.
THEOREM SnapshotsFresh == Spec => []SnapshotFresh
<1>1. Init => SnapshotIInv BY SnapshotStart DEF Init
<1>2. SnapshotIInv /\ [Next]_vars => SnapshotIInv'
  <2>1. SnapshotIInv /\ [Snap!Next]_Snap!vars => SnapshotIInv' BY SnapshotStep
  <2>2. [Next]_vars => [Snap!Next]_Snap!vars
    BY DEF Next, vars, snapshotVars, Snap!vars, Snap!turn, Snap!file, Snap!request
  <2> QED BY <2>1, <2>2
<1>3. SnapshotIInv => SnapshotFresh
  BY DEF SnapshotIInv, SnapshotCovered, SnapshotFresh, Snap!SnapshotFresh
<1> QED BY <1>1, <1>2, <1>3, PTL DEF Spec
-----------------------------------------------------------------------------
(* The log of an agent: while no line was torn and written behind, and no *)
(* rewrite was cut, the file and what is on its way to it are together    *)
(* what the agent has in memory; what a flush returned for is a beginning *)
(* of the file.                                                            *)

LogWritten == Log!Records \cup {Log!Junk}

LogTyped ==
    /\ logUp \in BOOLEAN
    /\ logMemory \in Seq(Log!Records) /\ logPending \in Seq(Log!Records) /\ logBatch \in Seq(Log!Records)
    /\ logFlushed \in Seq(Log!Records)
    /\ MaxRecords \in Nat /\ logLogged \in 0..MaxRecords
    /\ logClear \in BOOLEAN /\ logTruncates \in BOOLEAN /\ logFailed \in BOOLEAN
    /\ logCut \in BOOLEAN /\ logGlued \in BOOLEAN
    /\ logStage \in {"idle", "taken", "open"}
    /\ logLines \in Seq(LogWritten) /\ logTail \in Seq(LogWritten) /\ Len(logTail) \in 0..1

\* What the drain is at.
LogDrainWorks ==
    /\ logStage = "idle" => logBatch = << >> /\ ~logTruncates
    /\ logStage # "idle" => ~logClear /\ ~logFailed /\ (logTruncates \/ logBatch # << >>)
    /\ logClear => logUp /\ ~logFailed /\ logPending = logMemory
    /\ logTruncates => logBatch = logMemory /\ logPending = << >>
    /\ ~logUp => logStage = "idle" /\ logPending = << >> /\ ~logFailed

\* A rewrite has emptied the file and not filled it yet.
LogEmptied == logTruncates /\ logStage = "open"

\* What the file, the drain and the memory have of the records, while the file is
\* not spoiled.
LogIntact ==
    Log!Unspoiled =>
        /\ logLines \in Seq(Log!Records)
        /\ LogEmptied => logLines = << >> /\ logTail = << >>
        /\ ~LogEmptied => Log!IsPrefix(logFlushed, Log!Replayed)
        /\ logUp => Log!IsPrefix(logFlushed, logMemory)
        /\ logUp /\ ~Log!Migrating /\ ~logFailed => logMemory = Log!Replayed \o (logBatch \o logPending)
        /\ logUp /\ logFailed => Log!IsPrefix(Log!Replayed, logMemory)
        /\ logUp /\ Log!Migrating /\ ~LogEmptied => logMemory = Log!Replayed

LogIInv == LogTyped /\ LogDrainWorks /\ LogIntact
-----------------------------------------------------------------------------
(* Sequences *)

LEMMA LogPrefixOf ==
    ASSUME NEW S, NEW s \in Seq(S), NEW u \in Seq(S)
    PROVE  Log!IsPrefix(s, s \o u)
<1>1. s \o u \in Seq(S) /\ Len(s \o u) = Len(s) + Len(u) OBVIOUS
<1>2. Len(SubSeq(s, 1, Len(s))) = Len(s) /\ Len(SubSeq(s \o u, 1, Len(s))) = Len(s) BY <1>1
<1>3. \A i \in 1..Len(s): SubSeq(s, 1, Len(s))[i] = SubSeq(s \o u, 1, Len(s))[i] BY <1>1
<1>4. SubSeq(s, 1, Len(s)) \in Seq(S) /\ SubSeq(s \o u, 1, Len(s)) \in Seq(S) BY <1>1
<1>5. SubSeq(s, 1, Len(s)) = SubSeq(s \o u, 1, Len(s))
  BY <1>2, <1>3, <1>4, SeqEqual
<1> QED BY <1>1, <1>5 DEF Log!IsPrefix

LEMMA LogRestOf ==
    ASSUME NEW S, NEW s \in Seq(S), NEW t \in Seq(S), Log!IsPrefix(s, t)
    PROVE  \E u \in Seq(S): t = s \o u
<1> DEFINE u == SubSeq(t, Len(s) + 1, Len(t))
<1>1. Len(s) <= Len(t) /\ SubSeq(s, 1, Len(s)) = SubSeq(t, 1, Len(s)) BY DEF Log!IsPrefix
<1>2. u \in Seq(S) /\ Len(u) = Len(t) - Len(s) BY <1>1
<1>3. \A i \in 1..Len(u): u[i] = t[Len(s) + i] BY <1>1, <1>2
<1>4. \A i \in 1..Len(s): s[i] = t[i]
  <2> TAKE i \in 1..Len(s)
  <2>1. SubSeq(s, 1, Len(s))[i] = s[i] OBVIOUS
  <2>2. SubSeq(t, 1, Len(s))[i] = t[i] BY <1>1
  <2> QED BY <1>1, <2>1, <2>2
<1> HIDE DEF u
<1>5. s \o u \in Seq(S) /\ Len(s \o u) = Len(t) BY <1>1, <1>2
<1>6. \A i \in 1..Len(t): (s \o u)[i] = t[i]
  <2> TAKE i \in 1..Len(t)
  <2>1. CASE i <= Len(s) BY <1>2, <1>4, <2>1
  <2>2. CASE i > Len(s)
    <3>1. (s \o u)[i] = u[i - Len(s)] BY <1>1, <1>2, <2>2
    <3>2. i - Len(s) \in 1..Len(u) /\ Len(s) + (i - Len(s)) = i BY <1>1, <1>2, <2>2
    <3> QED BY <1>3, <3>1, <3>2
  <2>3. i <= Len(s) \/ i > Len(s) OBVIOUS
  <2> QED BY <2>1, <2>2, <2>3
<1>7. t = s \o u BY <1>5, <1>6, SeqEqual
<1> QED BY <1>2, <1>7

LEMMA LogPrefixGrows ==
    ASSUME NEW S, NEW s \in Seq(S), NEW t \in Seq(S), NEW u \in Seq(S), Log!IsPrefix(s, t)
    PROVE  Log!IsPrefix(s, t \o u)
<1>1. PICK r \in Seq(S): t = s \o r BY LogRestOf
<1>2. t \o u = s \o (r \o u) /\ r \o u \in Seq(S) BY <1>1, ConcatAssociative
<1> QED BY <1>2, LogPrefixOf

LEMMA LogHalves ==
    ASSUME NEW S, NEW s \in Seq(S), NEW k \in 0..Len(s)
    PROVE  /\ SubSeq(s, 1, k) \in Seq(S)
           /\ \E u \in Seq(S): s = SubSeq(s, 1, k) \o u
<1>1. SubSeq(s, 1, k) \in Seq(S) /\ Len(SubSeq(s, 1, k)) = k OBVIOUS
<1>2. SubSeq(SubSeq(s, 1, k), 1, k) = SubSeq(s, 1, k)
  <2>1. \A i \in 1..k: SubSeq(SubSeq(s, 1, k), 1, k)[i] = SubSeq(s, 1, k)[i] BY <1>1
  <2>2. SubSeq(SubSeq(s, 1, k), 1, k) \in Seq(S) /\ Len(SubSeq(SubSeq(s, 1, k), 1, k)) = k
    BY <1>1
  <2> QED BY <1>1, <2>1, <2>2, SeqEqual
<1>3. Log!IsPrefix(SubSeq(s, 1, k), s) BY <1>1, <1>2 DEF Log!IsPrefix
<1> QED BY <1>1, <1>3, LogRestOf

LEMMA LogWholeOf == ASSUME NEW S, NEW s \in Seq(S) PROVE SubSeq(s, 1, Len(s)) = s
<1>1. SubSeq(s, 1, Len(s)) \in Seq(S) /\ Len(SubSeq(s, 1, Len(s))) = Len(s) OBVIOUS
<1>2. \A i \in 1..Len(s): SubSeq(s, 1, Len(s))[i] = s[i] OBVIOUS
<1> QED BY <1>1, <1>2, SeqEqual

LEMMA LogOneMore ==
    ASSUME NEW S, NEW s \in Seq(S), NEW n \in 0..(Len(s) - 1)
    PROVE  SubSeq(s, 1, n) \o << s[n + 1] >> = SubSeq(s, 1, n + 1)
<1> DEFINE l == SubSeq(s, 1, n)
           r == SubSeq(s, 1, n + 1)
<1>1. l \in Seq(S) /\ Len(l) = n /\ \A i \in 1..n: l[i] = s[i] OBVIOUS
<1>2. r \in Seq(S) /\ Len(r) = n + 1 /\ \A i \in 1..(n + 1): r[i] = s[i] OBVIOUS
<1>3. s[n + 1] \in S OBVIOUS
<1> HIDE DEF l, r
<1>4. l \o << s[n + 1] >> \in Seq(S) /\ Len(l \o << s[n + 1] >>) = n + 1 BY <1>1, <1>3
<1>5. \A i \in 1..(n + 1): (l \o << s[n + 1] >>)[i] = r[i]
  <2> TAKE i \in 1..(n + 1)
  <2>1. CASE i <= n BY <1>1, <1>2, <1>3, <2>1
  <2>2. CASE i = n + 1 BY <1>1, <1>2, <1>3, <2>2
  <2>3. i <= n \/ i = n + 1 OBVIOUS
  <2> QED BY <2>1, <2>2, <2>3
<1>6. l \o << s[n + 1] >> = r BY <1>2, <1>4, <1>5, SeqEqual
<1> QED BY <1>6 DEF l, r

LEMMA LogRecordsLines ==
    /\ Seq(Log!Records) \subseteq Seq(LogWritten)
    /\ Log!Junk \notin Log!Records
<1>1. \A x \in Log!Records: x \in Int /\ x >= 0 BY DEF Log!Records, Log!Metadata
<1>2. Log!Junk \notin Log!Records BY <1>1 DEF Log!Junk
<1> QED BY <1>2 DEF LogWritten

LEMMA LogJoined ==
    ASSUME NEW s \in Seq(Log!Records), NEW t \in Seq(Log!Records), NEW u \in Seq(Log!Records)
    PROVE  /\ s \o t \in Seq(Log!Records)
           /\ (s \o t) \o u = s \o (t \o u)
BY ConcatAssociative

LEMMA LogAssoc == \A s, t, u \in Seq(Log!Records): (s \o t) \o u = s \o (t \o u)
BY ConcatAssociative
-----------------------------------------------------------------------------
(* The Log!file *)

LEMMA LogReplayedTyped ==
    ASSUME LogTyped
    PROVE  /\ Log!Replayed \in Seq(LogWritten)
           /\ logLines \in Seq(Log!Records) => Log!Replayed \in Seq(Log!Records)
           /\ logTail = << >> => Log!Replayed = logLines
<1>1. logLines \in Seq(LogWritten) /\ logTail \in Seq(LogWritten) /\ Len(logTail) \in 0..1 BY DEF LogTyped
<1>2. CASE logTail = << >>
  <2>1. Log!Replayed = logLines \o << >> /\ logLines \o << >> = logLines
    BY <1>1, <1>2, ConcatEmptySeq DEF Log!Replayed
  <2> QED BY <1>1, <2>1
<1>3. CASE logTail # << >>
  <2>1. logTail = << logTail[1] >> /\ logTail[1] \in LogWritten
    <3>1. Len(logTail) = 1 BY <1>1, <1>3, EmptySeq
    <3> QED BY <1>1, <3>1
  <2>2. CASE logTail = << Log!Junk >>
    <3>1. Log!Replayed = logLines \o << >> /\ logLines \o << >> = logLines
      BY <1>1, <2>2, ConcatEmptySeq DEF Log!Replayed
    <3> QED BY <1>1, <1>3, <3>1
  <2>3. CASE logTail # << Log!Junk >>
    <3>1. logTail[1] \in Log!Records
      <4>1. logTail[1] # Log!Junk BY <2>1, <2>3
      <4> QED BY <2>1, <4>1 DEF LogWritten
    <3>2. logTail \in Seq(Log!Records)
      <4>1. PICK x \in Log!Records: x = logTail[1] BY <3>1
      <4>2. logTail = << x >> BY <2>1, <4>1
      <4>3. << x >> \in Seq(Log!Records) BY <4>1
      <4> QED BY <4>2, <4>3
    <3>3. Log!Replayed = logLines \o logTail BY <2>3 DEF Log!Replayed
    <3> QED BY <1>1, <1>3, <3>2, <3>3
  <2> QED BY <2>2, <2>3
<1> QED BY <1>2, <1>3

\* A readable file replays records only.
LEMMA LogReadableReplays ==
    ASSUME LogTyped, Log!Readable
    PROVE  logLines \in Seq(Log!Records) /\ Log!Replayed \in Seq(Log!Records)
<1>1. logLines \in Seq(LogWritten) BY DEF LogTyped
<1>2. \A n \in 1..Len(logLines): logLines[n] \in Log!Records BY <1>1 DEF Log!Readable, LogWritten
<1>3. logLines \in Seq(Log!Records) BY <1>1, <1>2
<1> QED BY <1>3, LogReplayedTyped

LEMMA LogRecordsReadable == logLines \in Seq(Log!Records) => Log!Readable
<1> SUFFICES ASSUME logLines \in Seq(Log!Records), NEW n \in DOMAIN logLines PROVE logLines[n] # Log!Junk
  BY DEF Log!Readable
<1>1. logLines[n] \in Log!Records OBVIOUS
<1> QED BY <1>1, LogRecordsLines

\* What a write leaves, wherever it ends.
LEMMA LogReachTyped ==
    ASSUME LogTyped, NEW c \in Log!Cuts, Log!Reach(c[1], c[2])
    PROVE  /\ logLines' \in Seq(LogWritten) /\ logTail' \in Seq(LogWritten) /\ Len(logTail') \in 0..1
           /\ logGlued' \in BOOLEAN
           /\ c[1] \in 0..Len(logBatch) /\ c[2] # "none" => c[1] \in 0..(Len(logBatch) - 1)
<1> DEFINE n == c[1]
           next == CASE c[2] = "part" -> << Log!Junk >>
                     [] c[2] = "whole" -> << logBatch[n + 1] >>
                     [] OTHER -> << >>
           wrote == SubSeq(logBatch, 1, n)
           junk == << Log!Junk >>
<1>1. /\ logLines \in Seq(LogWritten) /\ logTail \in Seq(LogWritten) /\ Len(logTail) \in 0..1
      /\ logBatch \in Seq(Log!Records) /\ logBatch \in Seq(LogWritten)
  BY LogRecordsLines DEF LogTyped
<1>2. /\ n \in 0..Len(logBatch) /\ c[2] \in {"none", "part", "whole"}
      /\ c[2] # "none" => n \in 0..(Len(logBatch) - 1)
  <2>1. /\ c[1] \in 0..Len(logBatch) /\ c[2] \in {"none", "part", "whole"}
        /\ c[1] = Len(logBatch) => c[2] = "none"
    BY DEF Log!Cuts
  <2> QED BY <1>1, <2>1
<1>3. next \in Seq(LogWritten) /\ Len(next) \in 0..1
  <2>1. CASE c[2] = "none" BY <2>1
  <2>2. CASE c[2] = "part" BY <2>2 DEF LogWritten
  <2>3. CASE c[2] = "whole"
    <3>1. logBatch[n + 1] \in LogWritten BY <1>1, <1>2, <2>3
    <3> QED BY <2>3, <3>1
  <2> QED BY <1>2, <2>1, <2>2, <2>3
<1>4. wrote \in Seq(LogWritten) /\ Len(wrote) = n BY <1>1, <1>2
<1>5. Log!Reached(n, c[2]) = CASE logTail = << >> -> [lines |-> logLines \o wrote, tail |-> next]
          [] n > 0 /\ logTail # << >> ->
                [lines |-> logLines \o junk \o Tail(wrote), tail |-> next]
          [] n = 0 /\ logTail # << >> ->
                [lines |-> logLines, tail |-> IF next = << >> THEN logTail ELSE junk]
  BY DEF Log!Reached
<1>6. logLines' = Log!Reached(n, c[2]).lines /\ logTail' = Log!Reached(n, c[2]).tail /\ logGlued' \in BOOLEAN
  BY DEF Log!Reach
<1> HIDE DEF n, next, wrote, junk
<1>7. junk \in Seq(LogWritten) /\ Len(junk) = 1 BY DEF LogWritten, junk
<1>8. CASE logTail = << >>
  <2>1. logLines' = logLines \o wrote /\ logTail' = next BY <1>5, <1>6, <1>8
  <2> QED BY <1>1, <1>2, <1>3, <1>4, <1>6, <2>1 DEF n
<1>9. CASE logTail # << >> /\ n > 0
  <2> DEFINE grown == logLines \o junk \o Tail(wrote)
  <2>1. Log!Reached(n, c[2]) = [lines |-> grown, tail |-> next] BY <1>5, <1>9
  <2>2. Tail(wrote) \in Seq(LogWritten)
    <3>1. wrote # << >> BY <1>2, <1>4, <1>9
    <3> QED BY <1>4, <3>1
  <2>3. logLines \o junk \in Seq(LogWritten) BY <1>1, <1>7
  <2>4. grown \in Seq(LogWritten) BY <2>2, <2>3
  <2> HIDE DEF grown
  <2>5. logLines' = grown /\ logTail' = next BY <1>6, <2>1
  <2> QED BY <1>2, <1>3, <1>6, <2>4, <2>5 DEF n
<1>10. CASE logTail # << >> /\ ~ (n > 0)
  <2>1. n = 0 BY <1>2, <1>10
  <2>2. logLines' = logLines /\ logTail' \in {logTail, junk} BY <1>5, <1>6, <1>10, <2>1
  <2>3. logTail' \in Seq(LogWritten) /\ Len(logTail') \in 0..1 BY <1>1, <1>7, <2>2
  <2>4. logLines' \in Seq(LogWritten) BY <1>1, <2>2
  <2> QED BY <1>2, <1>6, <2>3, <2>4 DEF n
<1> QED BY <1>8, <1>9, <1>10

\* ... and in a file that it does not spoil: nothing new, or a beginning of the batch
\* behind what was there.
LEMMA LogReachKeeps ==
    ASSUME LogTyped, logLines \in Seq(Log!Records), NEW c \in Log!Cuts, Log!Reach(c[1], c[2]), ~logGlued'
    PROVE  /\ logLines' \in Seq(Log!Records)
           /\ \/ logLines' = logLines /\ logTail' = logTail /\ c[1] = 0
              \/ /\ logTail = << >>
                 /\ \E k \in 0..Len(logBatch): Log!Replayed' = logLines \o SubSeq(logBatch, 1, k)
<1> DEFINE n == c[1]
           next == CASE c[2] = "part" -> << Log!Junk >>
                     [] c[2] = "whole" -> << logBatch[n + 1] >>
                     [] OTHER -> << >>
           wrote == SubSeq(logBatch, 1, n)
           junk == << Log!Junk >>
<1>1. /\ logTail \in Seq(LogWritten) /\ Len(logTail) \in 0..1 /\ logBatch \in Seq(Log!Records)
  BY DEF LogTyped
<1>2. /\ n \in 0..Len(logBatch) /\ c[2] \in {"none", "part", "whole"}
      /\ c[2] # "none" => n \in 0..(Len(logBatch) - 1)
  BY LogReachTyped DEF Log!Cuts
<1>3. wrote \in Seq(Log!Records) BY <1>1, <1>2
<1>4. Log!Reached(n, c[2]) = CASE logTail = << >> -> [lines |-> logLines \o wrote, tail |-> next]
          [] n > 0 /\ logTail # << >> ->
                [lines |-> logLines \o junk \o Tail(wrote), tail |-> next]
          [] n = 0 /\ logTail # << >> ->
                [lines |-> logLines, tail |-> IF next = << >> THEN logTail ELSE junk]
  BY DEF Log!Reached
<1>5. /\ logLines' = Log!Reached(n, c[2]).lines /\ logTail' = Log!Reached(n, c[2]).tail
      /\ logTail # << >> => n = 0 /\ c[2] = "none"
  <2>1. /\ logLines' = Log!Reached(n, c[2]).lines /\ logTail' = Log!Reached(n, c[2]).tail
        /\ ~ (logTail # << >> /\ (n > 0 \/ c[2] # "none"))
    BY DEF Log!Reach
  <2>2. n \in Nat BY <1>1, <1>2
  <2> QED BY <2>1, <2>2
<1>6. CASE logTail # << >>
  <2>1. next = << >> BY <1>5, <1>6
  <2> HIDE DEF next, wrote, junk
  <2>2. Log!Reached(n, c[2]) = [lines |-> logLines, tail |-> logTail] BY <1>4, <1>5, <1>6, <2>1
  <2>3. logLines' = logLines /\ logTail' = logTail BY <1>5, <2>2
  <2> QED BY <1>5, <1>6, <2>3
<1>7. CASE logTail = << >>
  <2>1. logLines' = logLines \o wrote /\ logTail' = next
    <3> HIDE DEF next, wrote, junk
    <3> QED BY <1>4, <1>5, <1>7
  <2>2. logLines' \in Seq(Log!Records) BY <1>3, <2>1
  <2>3. CASE c[2] = "whole"
    <3>1. next = << logBatch[n + 1] >> /\ logBatch[n + 1] \in Log!Records /\ n \in 0..(Len(logBatch) - 1)
      BY <1>1, <1>2, <2>3
    <3>2. logTail' # << Log!Junk >>
      <4>1. logTail'[1] = logBatch[n + 1] BY <2>1, <3>1
      <4> QED BY <3>1, <4>1, LogRecordsLines
    <3>3. Log!Replayed' = (logLines \o wrote) \o << logBatch[n + 1] >> BY <2>1, <3>1, <3>2 DEF Log!Replayed
    <3>4. Log!Replayed' = logLines \o (wrote \o << logBatch[n + 1] >>)
      <4>1. << logBatch[n + 1] >> \in Seq(Log!Records) BY <3>1
      <4> HIDE DEF wrote
      <4> QED BY <1>3, <3>3, <4>1, ConcatAssociative
    <3>5. wrote \o << logBatch[n + 1] >> = SubSeq(logBatch, 1, n + 1) BY <1>1, <3>1, LogOneMore
    <3>6. n + 1 \in 0..Len(logBatch) BY <1>1, <3>1
    <3> QED BY <1>7, <2>2, <3>4, <3>5, <3>6
  <2>4. CASE c[2] # "whole"
    <3>1. next \in {<< >>, << Log!Junk >>} BY <1>2, <2>4
    <3>2. Log!Replayed' = logLines' \o << >> BY <2>1, <3>1 DEF Log!Replayed
    <3>3. Log!Replayed' = logLines \o wrote BY <2>1, <2>2, <3>2, ConcatEmptySeq
    <3> QED BY <1>2, <1>7, <2>2, <3>3
  <2> QED BY <2>3, <2>4
<1> QED BY <1>6, <1>7
-----------------------------------------------------------------------------
LEMMA LogLogKeeps ==
    ASSUME LogIInv, Log!LogRecord
    PROVE  LogIInv'
<1>0. PICK new: new = (IF logTitled THEN << >> ELSE << Log!Metadata >>) \o << logLogged + 1 >> OBVIOUS
<1>1. /\ logUp /\ ~logClear /\ ~logTruncates /\ ~logFailed /\ logLogged < MaxRecords /\ logLogged' = logLogged + 1
      /\ logMemory' = logMemory \o new /\ logPending' = logPending \o new
      /\ UNCHANGED << logUp, logClear, logStage, logBatch, logTruncates, logFailed, logLines, logTail, logFlushed, logCut, logGlued >>
  BY <1>0 DEF Log!LogRecord, Log!Migrating, Log!file, Log!harm
<1>2. logLogged + 1 \in Log!Records /\ Log!Metadata \in Log!Records /\ logLogged' \in 0..MaxRecords
  BY <1>1 DEF LogIInv, LogTyped, Log!Records, Log!Metadata
<1>3. new \in Seq(Log!Records) BY <1>0, <1>2
<1>4. /\ logMemory \in Seq(Log!Records) /\ logPending \in Seq(Log!Records) /\ logBatch \in Seq(Log!Records)
      /\ logFlushed \in Seq(Log!Records)
  BY DEF LogIInv, LogTyped
<1>5. logMemory' \in Seq(Log!Records) /\ logPending' \in Seq(Log!Records) BY <1>1, <1>3, <1>4
<1>6. LogTyped' BY <1>1, <1>2, <1>5 DEF LogIInv, LogTyped
<1>7. LogDrainWorks' BY <1>1 DEF LogIInv, LogDrainWorks
<1>8. Log!Replayed' = Log!Replayed /\ LogEmptied' = LogEmptied /\ Log!Migrating' = Log!Migrating /\ Log!Unspoiled' = Log!Unspoiled
  BY <1>1 DEF Log!Replayed, LogEmptied, Log!Migrating, Log!Unspoiled
<1>9. LogIntact'
  <2> SUFFICES ASSUME Log!Unspoiled
               PROVE  Log!IsPrefix(logFlushed, logMemory)' /\ logMemory' = Log!Replayed \o (logBatch \o logPending')
    BY <1>1, <1>8 DEF LogIInv, LogIntact, Log!Migrating
  <2>1. logLines \in Seq(Log!Records) /\ Log!IsPrefix(logFlushed, logMemory) /\ logMemory = Log!Replayed \o (logBatch \o logPending)
    BY <1>1 DEF LogIInv, LogIntact, Log!Migrating
  <2>2. Log!Replayed \in Seq(Log!Records) BY <2>1, LogReplayedTyped DEF LogIInv
  <2>3. Log!IsPrefix(logFlushed, logMemory') BY <1>1, <1>3, <1>4, <2>1, LogPrefixGrows
  <2>4. logMemory' = Log!Replayed \o ((logBatch \o logPending) \o new)
    <3>1. logBatch \o logPending \in Seq(Log!Records) BY <1>4
    <3> HIDE DEF Log!Replayed
    <3>2. (Log!Replayed \o (logBatch \o logPending)) \o new = Log!Replayed \o ((logBatch \o logPending) \o new)
      BY <1>3, <2>2, <3>1, LogJoined, ZenonT(60)
    <3> QED BY <1>1, <2>1, <3>2
  <2>5. (logBatch \o logPending) \o new = logBatch \o logPending'
    <3>1. (logBatch \o logPending) \o new = logBatch \o (logPending \o new) BY <1>3, <1>4, LogAssoc, ZenonT(60)
    <3> QED BY <1>1, <3>1
  <2> QED BY <1>1, <2>3, <2>4, <2>5
<1> QED BY <1>6, <1>7, <1>9 DEF LogIInv

LEMMA LogTakeKeeps ==
    ASSUME LogIInv, Log!TakeBatch
    PROVE  LogIInv'
<1>1. /\ ~logFailed /\ logUp /\ logStage = "idle"
      /\ logStage' = "taken" /\ logBatch' = logPending /\ logPending' = << >>
      /\ logTruncates' = logClear /\ logClear' = FALSE
      /\ UNCHANGED << logUp, logMemory, logLogged, logFailed, logLines, logTail, logFlushed, logCut, logGlued >>
  BY DEF Log!TakeBatch, Log!TakeBatch_Retries, Log!file, Log!harm
<1>2. logBatch = << >> /\ ~logTruncates BY <1>1 DEF LogIInv, LogDrainWorks
<1>3. << >> \in Seq(Log!Records) OBVIOUS
<1>4. LogTyped' BY <1>1, <1>3 DEF LogIInv, LogTyped
<1>5. LogDrainWorks'
  <2>1. logClear \/ logPending # << >> BY DEF Log!TakeBatch, Log!TakeBatch_Retries
  <2> QED BY <1>1, <2>1 DEF LogIInv, LogDrainWorks
<1>6. /\ Log!Replayed' = Log!Replayed /\ ~LogEmptied' /\ ~LogEmptied /\ Log!Migrating' = Log!Migrating
      /\ Log!Unspoiled' = Log!Unspoiled
  BY <1>1, <1>2 DEF Log!Replayed, LogEmptied, Log!Migrating, Log!Unspoiled
<1>7. ~Log!Migrating => logBatch' \o logPending' = logBatch \o logPending
  <2>1. logPending \in Seq(Log!Records) BY DEF LogIInv, LogTyped
  <2>2. logPending \o << >> = logPending /\ << >> \o logPending = logPending BY <2>1, ConcatEmptySeq
  <2> QED BY <1>1, <1>2, <2>2
<1>8. LogIntact' BY <1>1, <1>6, <1>7 DEF LogIInv, LogIntact
<1> QED BY <1>4, <1>5, <1>8 DEF LogIInv

LEMMA LogOpenKeeps ==
    ASSUME LogIInv, Log!OpenFile
    PROVE  LogIInv'
<1>1. /\ logStage = "taken" /\ logStage' = "open"
      /\ logTruncates => logLines' = << >> /\ logTail' = << >>
      /\ ~logTruncates => logLines' = logLines /\ logTail' = logTail
      /\ UNCHANGED << logUp, logMemory, logLogged, logPending, logClear, logBatch, logTruncates, logFailed, logFlushed, logCut, logGlued >>
  BY DEF Log!OpenFile, Log!harm
<1>2. << >> \in Seq(Log!Records) /\ << >> \in Seq(LogWritten) /\ Len(<< >>) = 0 OBVIOUS
<1>3. LogTyped'
  <2>1. logLines' \in Seq(LogWritten) /\ logTail' \in Seq(LogWritten) /\ Len(logTail') \in 0..1
    <3>1. CASE logTruncates BY <1>1, <1>2, <3>1
    <3>2. CASE ~logTruncates BY <1>1, <3>2 DEF LogIInv, LogTyped
    <3> QED BY <3>1, <3>2
  <2> QED BY <1>1, <2>1 DEF LogIInv, LogTyped
<1>4. LogDrainWorks' BY <1>1 DEF LogIInv, LogDrainWorks
<1>5. Log!Migrating' = Log!Migrating /\ Log!Unspoiled' = Log!Unspoiled /\ ~LogEmptied BY <1>1 DEF Log!Migrating, Log!Unspoiled, LogEmptied
<1>6. CASE logTruncates
  <2>1. LogEmptied' /\ Log!Migrating BY <1>1, <1>6 DEF LogEmptied, Log!Migrating
  <2>2. ~logFailed' BY <1>1 DEF LogIInv, LogDrainWorks
  <2>3. LogIntact' BY <1>1, <1>2, <1>5, <1>6, <2>1, <2>2 DEF LogIInv, LogIntact
  <2> QED BY <1>3, <1>4, <2>3 DEF LogIInv
<1>7. CASE ~logTruncates
  <2>1. Log!Replayed' = Log!Replayed /\ ~LogEmptied' BY <1>1, <1>7 DEF LogEmptied, Log!Replayed
  <2>2. LogIntact' BY <1>1, <1>5, <1>7, <2>1 DEF LogIInv, LogIntact
  <2> QED BY <1>3, <1>4, <2>2 DEF LogIInv
<1> QED BY <1>6, <1>7 DEF LogIInv, LogTyped

\* A write that was not cut short by an end of the process ...
LEMMA LogDoneKeeps ==
    ASSUME LogIInv, Log!WriteDone
    PROVE  LogIInv'
<1>1. /\ logStage = "open" /\ Log!Reach(Len(logBatch), "none")
      /\ logStage' = "idle" /\ logBatch' = << >> /\ logTruncates' = FALSE
      /\ UNCHANGED << logUp, logMemory, logLogged, logPending, logClear, logFailed, logFlushed, logCut >>
  BY DEF Log!WriteDone
<1>2. PICK c \in Log!Cuts: c[1] = Len(logBatch) /\ c[2] = "none"
  <2>1. << Len(logBatch), "none" >> \in Log!Cuts BY DEF Log!Cuts, LogIInv, LogTyped
  <2> QED BY <2>1
<1>3. /\ logLines' \in Seq(LogWritten) /\ logTail' \in Seq(LogWritten) /\ Len(logTail') \in 0..1
      /\ logGlued' \in BOOLEAN
  BY <1>1, <1>2, LogReachTyped DEF LogIInv
<1>4. /\ logBatch \in Seq(Log!Records) /\ logMemory \in Seq(Log!Records) /\ logPending \in Seq(Log!Records)
      /\ logFlushed \in Seq(Log!Records) /\ << >> \in Seq(Log!Records)
  BY DEF LogIInv, LogTyped
<1>5. LogTyped' BY <1>1, <1>3, <1>4 DEF LogIInv, LogTyped
<1>6. LogDrainWorks' BY <1>1 DEF LogIInv, LogDrainWorks
<1>7. ~logFailed /\ ~logClear /\ (logTruncates \/ logBatch # << >>) BY <1>1 DEF LogIInv, LogDrainWorks
<1>8. ~Log!Migrating' /\ ~LogEmptied' BY <1>1, <1>7 DEF Log!Migrating, LogEmptied
<1>9. LogIntact'
  <2> SUFFICES ASSUME Log!Unspoiled'
               PROVE  /\ logLines' \in Seq(Log!Records)
                      /\ Log!IsPrefix(logFlushed, Log!Replayed')
                      /\ logUp => Log!IsPrefix(logFlushed, logMemory)
                      /\ logUp => logMemory = Log!Replayed' \o (logBatch' \o logPending)
    BY <1>1, <1>7, <1>8 DEF LogIntact
  <2>1. Log!Unspoiled /\ ~logGlued' BY <1>1 DEF Log!Unspoiled, Log!Reach
  <2>2. logLines \in Seq(Log!Records) BY <2>1 DEF LogIInv, LogIntact
  <2>3. logUp => Log!IsPrefix(logFlushed, logMemory) BY <2>1 DEF LogIInv, LogIntact
  <2>4. logTail = << >>
    <3>1. CASE logTruncates BY <1>1, <2>1, <3>1 DEF LogIInv, LogIntact, LogEmptied
    <3>2. CASE ~logTruncates
      <4>1. Len(logBatch) > 0 BY <1>4, <1>7, <3>2
      <4> QED BY <1>1, <2>1, <4>1 DEF Log!Reach
    <3> QED BY <3>1, <3>2 DEF LogIInv, LogTyped
  <2>5. logLines' = logLines \o logBatch /\ logTail' = << >>
    <3>1. SubSeq(logBatch, 1, Len(logBatch)) = logBatch BY <1>4, LogWholeOf
    <3> QED BY <1>1, <2>4, <3>1 DEF Log!Reach, Log!Reached
  <2>6. logLines' \in Seq(Log!Records) BY <1>4, <2>2, <2>5
  <2>7. Log!Replayed' = logLines \o logBatch
    <3>1. Log!Replayed' = logLines' \o << >> BY <2>5 DEF Log!Replayed
    <3> QED BY <2>5, <2>6, <3>1, ConcatEmptySeq
  <2>8. logBatch' \o logPending = logPending BY <1>1, <1>4, ConcatEmptySeq
  <2>9. CASE logTruncates
    <3>1. logLines = << >> /\ logBatch = logMemory /\ logPending = << >> /\ logUp
      BY <1>1, <2>1, <2>9 DEF LogIInv, LogIntact, LogEmptied, LogDrainWorks
    <3>2. Log!Replayed' = logMemory /\ logMemory \o << >> = logMemory BY <1>4, <2>7, <3>1, ConcatEmptySeq
    <3> QED BY <2>3, <2>6, <2>8, <3>1, <3>2
  <2>10. CASE ~logTruncates
    <3>1. /\ ~LogEmptied /\ ~Log!Migrating /\ Log!Replayed = logLines
      BY <1>7, <2>4, <2>10, LogReplayedTyped DEF LogIInv, LogEmptied, Log!Migrating
    <3>2. Log!IsPrefix(logFlushed, logLines) /\ (logUp => logMemory = logLines \o (logBatch \o logPending))
      BY <1>7, <2>1, <3>1 DEF LogIInv, LogIntact
    <3>3. Log!IsPrefix(logFlushed, Log!Replayed') BY <1>4, <2>2, <2>7, <3>2, LogPrefixGrows
    <3>4. logLines \o (logBatch \o logPending) = (logLines \o logBatch) \o logPending
      BY <1>4, <2>2, LogJoined
    <3> QED BY <2>3, <2>6, <2>7, <2>8, <3>2, <3>3, <3>4
  <2> QED BY <2>9, <2>10 DEF LogIInv, LogTyped
<1> QED BY <1>5, <1>6, <1>9 DEF LogIInv

\* ... and one that was, by an end or an error: the file has a beginning of what it
\* would have had.
LEMMA LogCutShort ==
    ASSUME LogIInv, ~LogEmptied,
           \/ logStage = "open" /\ \E c \in Log!Cuts: Log!Reach(c[1], c[2])
           \/ UNCHANGED << logLines, logTail, logGlued >>
    PROVE  /\ logLines' \in Seq(LogWritten) /\ logTail' \in Seq(LogWritten) /\ Len(logTail') \in 0..1
           /\ logGlued' \in BOOLEAN /\ (logGlued => logGlued')
           /\ Log!Unspoiled /\ ~logGlued' => /\ logLines' \in Seq(Log!Records)
                                             /\ Log!IsPrefix(logFlushed, Log!Replayed')
                                             /\ logUp /\ ~Log!Migrating /\ ~logFailed => Log!IsPrefix(Log!Replayed', logMemory)
<1>1. /\ logBatch \in Seq(Log!Records) /\ logMemory \in Seq(Log!Records) /\ logPending \in Seq(Log!Records)
      /\ logFlushed \in Seq(Log!Records)
  BY DEF LogIInv, LogTyped
<1>2. ASSUME Log!Unspoiled
      PROVE  /\ logLines \in Seq(Log!Records) /\ Log!Replayed \in Seq(Log!Records) /\ Log!IsPrefix(logFlushed, Log!Replayed)
             /\ logUp /\ ~Log!Migrating /\ ~logFailed => logMemory = Log!Replayed \o (logBatch \o logPending)
  BY <1>2, LogReplayedTyped DEF LogIInv, LogIntact
<1>3. logBatch \o logPending \in Seq(Log!Records) BY <1>1
<1>4. CASE UNCHANGED << logLines, logTail, logGlued >>
  <2>1. Log!Replayed' = Log!Replayed BY <1>4 DEF Log!Replayed
  <2>2. ASSUME Log!Unspoiled, logUp, ~Log!Migrating, ~logFailed PROVE Log!IsPrefix(Log!Replayed, logMemory)
    BY <1>2, <1>3, <2>2, LogPrefixOf
  <2> QED BY <1>2, <1>4, <2>1, <2>2 DEF LogIInv, LogTyped
<1>5. CASE \E c \in Log!Cuts: Log!Reach(c[1], c[2])
  <2>1. PICK c \in Log!Cuts: Log!Reach(c[1], c[2]) BY <1>5
  <2>2. /\ logLines' \in Seq(LogWritten) /\ logTail' \in Seq(LogWritten) /\ Len(logTail') \in 0..1
        /\ logGlued' \in BOOLEAN
    BY <2>1, LogReachTyped DEF LogIInv
  <2>3. logGlued => logGlued' BY <2>1 DEF Log!Reach
  <2>4. ASSUME Log!Unspoiled, ~logGlued'
        PROVE  /\ logLines' \in Seq(Log!Records)
               /\ Log!IsPrefix(logFlushed, Log!Replayed')
               /\ logUp /\ ~Log!Migrating /\ ~logFailed => Log!IsPrefix(Log!Replayed', logMemory)
    <3>1. /\ logLines' \in Seq(Log!Records)
          /\ \/ logLines' = logLines /\ logTail' = logTail
             \/ /\ logTail = << >>
                /\ \E k \in 0..Len(logBatch): Log!Replayed' = logLines \o SubSeq(logBatch, 1, k)
      BY <1>2, <2>1, <2>4, LogReachKeeps DEF LogIInv
    <3>2. CASE logLines' = logLines /\ logTail' = logTail
      <4>1. Log!Replayed' = Log!Replayed BY <3>2 DEF Log!Replayed
      <4>2. ASSUME logUp, ~Log!Migrating, ~logFailed PROVE Log!IsPrefix(Log!Replayed, logMemory)
        BY <1>2, <1>3, <2>4, <4>2, LogPrefixOf
      <4> QED BY <1>2, <2>4, <3>1, <4>1, <4>2
    <3>3. CASE logTail = << >> /\ \E k \in 0..Len(logBatch): Log!Replayed' = logLines \o SubSeq(logBatch, 1, k)
      <4>1. PICK k \in 0..Len(logBatch): Log!Replayed' = logLines \o SubSeq(logBatch, 1, k) BY <3>3
      <4>2. PICK b: b = SubSeq(logBatch, 1, k) OBVIOUS
      <4>3. b \in Seq(Log!Records) /\ \E u \in Seq(Log!Records): logBatch = b \o u
        <5>1. /\ SubSeq(logBatch, 1, k) \in Seq(Log!Records)
              /\ \E u \in Seq(Log!Records): logBatch = SubSeq(logBatch, 1, k) \o u
          BY <1>1, LogHalves, ZenonT(60)
        <5> QED BY <4>2, <5>1, Zenon
      <4>4. PICK u \in Seq(Log!Records): logBatch = b \o u BY <4>3, Zenon
      <4>5. Log!Replayed = logLines BY <3>3, LogReplayedTyped DEF LogIInv
      <4>6. Log!IsPrefix(logFlushed, Log!Replayed') BY <1>1, <1>2, <2>4, <4>1, <4>2, <4>3, <4>5, LogPrefixGrows
      <4>7. ASSUME logUp, ~Log!Migrating, ~logFailed PROVE Log!IsPrefix(Log!Replayed', logMemory)
        <5>1. logMemory = logLines \o ((b \o u) \o logPending) BY <1>2, <2>4, <4>4, <4>5, <4>7
        <5>2. (b \o u) \o logPending = b \o (u \o logPending)
          <6>1. b \in Seq(Log!Records) /\ u \in Seq(Log!Records) /\ logPending \in Seq(Log!Records)
            BY <1>1, <4>3, <4>4
          <6> QED BY <6>1, LogAssoc, Zenon
        <5>3. u \o logPending \in Seq(Log!Records) BY <1>1, <4>4
        <5>4. logLines \o (b \o (u \o logPending)) = (logLines \o b) \o (u \o logPending)
          BY <1>2, <2>4, <4>3, <5>3, LogAssoc, ZenonT(60)
        <5>5. logLines \o b \in Seq(Log!Records) BY <1>2, <2>4, <4>3
        <5>6. logMemory = (logLines \o b) \o (u \o logPending) BY <5>1, <5>2, <5>4
        <5> QED BY <4>1, <4>2, <5>3, <5>5, <5>6, LogPrefixOf
      <4> QED BY <3>1, <4>6, <4>7
    <3> QED BY <3>1, <3>2, <3>3
  <2> QED BY <2>2, <2>3, <2>4
<1> QED BY <1>4, <1>5

LEMMA LogFailKeeps ==
    ASSUME LogIInv, Log!WriteFails
    PROVE  LogIInv'
<1>1. /\ logStage # "idle" /\ logCut' = (logCut \/ logTruncates)
      /\ logStage' = "idle" /\ logBatch' = << >> /\ logTruncates' = FALSE /\ logFailed' = TRUE
      /\ UNCHANGED << logUp, logMemory, logLogged, logPending, logClear, logFlushed >>
  BY DEF Log!WriteFails
<1>2. /\ ~logFailed /\ ~logClear /\ logUp
      /\ logCut' \in BOOLEAN /\ (logCut => logCut') /\ (logTruncates => logCut') /\ << >> \in Seq(Log!Records)
  BY <1>1 DEF LogIInv, LogDrainWorks, LogTyped
<1>3. \/ logStage = "open" /\ \E c \in Log!Cuts: Log!Reach(c[1], c[2])
      \/ UNCHANGED << logLines, logTail, logGlued >>
  BY <1>1 DEF Log!WriteFails, Log!file
<1>4. /\ logLines' \in Seq(LogWritten) /\ logTail' \in Seq(LogWritten) /\ Len(logTail') \in 0..1
      /\ logGlued' \in BOOLEAN /\ (logGlued => logGlued')
  <2>1. CASE UNCHANGED << logLines, logTail, logGlued >> BY <2>1 DEF LogIInv, LogTyped
  <2>2. CASE \E c \in Log!Cuts: Log!Reach(c[1], c[2])
    <3>1. PICK c \in Log!Cuts: Log!Reach(c[1], c[2]) BY <2>2
    <3> QED BY <3>1, LogReachTyped DEF LogIInv, Log!Reach
  <2> QED BY <1>3, <2>1, <2>2
<1>5. LogTyped' BY <1>1, <1>2, <1>4 DEF LogIInv, LogTyped
<1>6. LogDrainWorks' BY <1>1, <1>2 DEF LogIInv, LogDrainWorks
<1>7. LogIntact'
  <2> SUFFICES ASSUME Log!Unspoiled'
               PROVE  /\ logLines' \in Seq(Log!Records)
                      /\ Log!IsPrefix(logFlushed, Log!Replayed')
                      /\ Log!IsPrefix(logFlushed, logMemory)
                      /\ Log!IsPrefix(Log!Replayed', logMemory)
    BY <1>1, <1>2 DEF LogIntact, LogEmptied, Log!Migrating
  <2>1. Log!Unspoiled /\ ~logGlued' /\ ~logTruncates /\ ~LogEmptied /\ ~Log!Migrating
    BY <1>2, <1>4 DEF Log!Unspoiled, LogEmptied, Log!Migrating, LogIInv, LogTyped
  <2>2. Log!IsPrefix(logFlushed, logMemory) BY <1>2, <2>1 DEF LogIInv, LogIntact
  <2> QED BY <1>2, <1>3, <2>1, <2>2, LogCutShort
<1> QED BY <1>5, <1>6, <1>7 DEF LogIInv

LEMMA LogFlushKeeps ==
    ASSUME LogIInv, Log!Flush
    PROVE  LogIInv'
<1>1. /\ logUp /\ ~logFailed /\ logStage = "idle" /\ ~logClear /\ logPending = << >> /\ logFlushed' = logMemory
      /\ UNCHANGED << logUp, logMemory, logLogged, logPending, logClear, logStage, logBatch, logTruncates, logFailed,
                      logLines, logTail, logCut, logGlued >>
  BY DEF Log!Flush, Log!Flush_BatchOnly, Log!drain, Log!file, Log!harm
<1>2. logBatch = << >> /\ ~logTruncates /\ ~Log!Migrating BY <1>1 DEF LogIInv, LogDrainWorks, Log!Migrating
<1>3. LogTyped' BY <1>1 DEF LogIInv, LogTyped
<1>4. LogDrainWorks' BY <1>1 DEF LogIInv, LogDrainWorks
<1>5. /\ Log!Replayed' = Log!Replayed /\ ~LogEmptied' /\ ~LogEmptied /\ Log!Migrating' = Log!Migrating
      /\ Log!Unspoiled' = Log!Unspoiled
  BY <1>1, <1>2 DEF Log!Replayed, LogEmptied, Log!Migrating, Log!Unspoiled
<1>6. LogIntact'
  <2> SUFFICES ASSUME Log!Unspoiled
               PROVE  logLines \in Seq(Log!Records) /\ Log!IsPrefix(logMemory, Log!Replayed) /\ Log!IsPrefix(logMemory, logMemory)
                      /\ logMemory = Log!Replayed \o (logBatch \o logPending)
    BY <1>1, <1>2, <1>5 DEF LogIntact
  <2>1. logLines \in Seq(Log!Records) /\ logMemory = Log!Replayed \o (logBatch \o logPending)
    BY <1>1, <1>2 DEF LogIInv, LogIntact
  <2>2. Log!Replayed \in Seq(Log!Records) /\ logMemory \in Seq(Log!Records) BY <2>1, LogReplayedTyped DEF LogIInv, LogTyped
  <2>3. << >> \in Seq(Log!Records) /\ logBatch \o logPending = << >>
    BY <1>1, <1>2, ConcatEmptySeq
  <2>4. Log!Replayed \o << >> = Log!Replayed /\ logMemory \o << >> = logMemory BY <2>2, ConcatEmptySeq
  <2>5. Log!IsPrefix(logMemory, logMemory) BY <2>2, <2>3, <2>4, LogPrefixOf
  <2>6. logMemory = Log!Replayed BY <2>1, <2>3, <2>4
  <2> QED BY <2>1, <2>5, <2>6
<1> QED BY <1>3, <1>4, <1>6 DEF LogIInv

LEMMA LogCrashKeeps ==
    ASSUME LogIInv, Log!Crash
    PROVE  LogIInv'
<1>1. /\ logCut' = (logCut \/ (logStage = "open" /\ logTruncates))
      /\ logUp' = FALSE /\ logMemory' = << >> /\ logPending' = << >> /\ logClear' = FALSE
      /\ logStage' = "idle" /\ logBatch' = << >> /\ logTruncates' = FALSE /\ logFailed' = FALSE
      /\ UNCHANGED << logLogged, logFlushed >>
  BY DEF Log!Crash
<1>2. logCut' \in BOOLEAN /\ (logCut => logCut') /\ (LogEmptied => logCut') /\ << >> \in Seq(Log!Records)
  BY <1>1 DEF LogIInv, LogTyped, LogEmptied
<1>3. \/ logStage = "open" /\ \E c \in Log!Cuts: Log!Reach(c[1], c[2])
      \/ UNCHANGED << logLines, logTail, logGlued >>
  BY DEF Log!Crash, Log!file
<1>4. /\ logLines' \in Seq(LogWritten) /\ logTail' \in Seq(LogWritten) /\ Len(logTail') \in 0..1
      /\ logGlued' \in BOOLEAN /\ (logGlued => logGlued')
  <2>1. CASE UNCHANGED << logLines, logTail, logGlued >> BY <2>1 DEF LogIInv, LogTyped
  <2>2. CASE \E c \in Log!Cuts: Log!Reach(c[1], c[2])
    <3>1. PICK c \in Log!Cuts: Log!Reach(c[1], c[2]) BY <2>2
    <3> QED BY <3>1, LogReachTyped DEF LogIInv, Log!Reach
  <2> QED BY <1>3, <2>1, <2>2
<1>5. LogTyped' BY <1>1, <1>2, <1>4 DEF LogIInv, LogTyped
<1>6. LogDrainWorks' BY <1>1 DEF LogIInv, LogDrainWorks
<1>7. LogIntact'
  <2> SUFFICES ASSUME Log!Unspoiled'
               PROVE  logLines' \in Seq(Log!Records) /\ Log!IsPrefix(logFlushed, Log!Replayed')
    BY <1>1 DEF LogIntact, LogEmptied
  <2>1. Log!Unspoiled /\ ~logGlued' /\ ~LogEmptied
    BY <1>2, <1>4 DEF Log!Unspoiled
  <2> QED BY <1>3, <2>1, LogCutShort
<1> QED BY <1>5, <1>6, <1>7 DEF LogIInv

LEMMA LogResumeKeeps ==
    ASSUME LogIInv, Log!Resume
    PROVE  LogIInv'
<1>1. /\ ~logUp /\ Log!Readable /\ logUp' = TRUE /\ logMemory' = Log!Replayed
      /\ \/ UNCHANGED << logPending, logClear >>
         \/ logPending' = Log!Replayed /\ logClear' = TRUE
      /\ UNCHANGED << logLogged, logStage, logBatch, logTruncates, logFailed, logLines, logTail, logFlushed, logCut, logGlued >>
  BY DEF Log!Resume, Log!file, Log!harm
<1>2. logStage = "idle" /\ logBatch = << >> /\ ~logTruncates /\ logPending = << >> /\ ~logClear /\ ~logFailed
  BY <1>1 DEF LogIInv, LogDrainWorks
<1>3. Log!Replayed \in Seq(Log!Records) /\ logLines \in Seq(Log!Records) BY <1>1, LogReadableReplays DEF LogIInv
<1>4. LogTyped' BY <1>1, <1>3 DEF LogIInv, LogTyped
<1>5. LogDrainWorks' BY <1>1, <1>2 DEF LogIInv, LogDrainWorks
<1>6. Log!Replayed' = Log!Replayed /\ ~LogEmptied' /\ ~LogEmptied /\ Log!Unspoiled' = Log!Unspoiled
  BY <1>1, <1>2 DEF Log!Replayed, LogEmptied, Log!Unspoiled
<1>7. Log!Replayed = Log!Replayed \o (logBatch \o << >>)
  <2>1. logBatch \o << >> = << >> BY <1>2, ConcatEmptySeq
  <2>2. Log!Replayed \o << >> = Log!Replayed BY <1>3, ConcatEmptySeq
  <2> QED BY <2>1, <2>2
<1>8. LogIntact'
  <2> SUFFICES ASSUME Log!Unspoiled
               PROVE  /\ Log!IsPrefix(logFlushed, Log!Replayed)
                      /\ ~logClear' => logMemory' = Log!Replayed \o (logBatch \o logPending')
    BY <1>1, <1>2, <1>3, <1>6 DEF LogIntact, Log!Migrating
  <2>1. Log!IsPrefix(logFlushed, Log!Replayed) BY <1>6 DEF LogIInv, LogIntact
  <2>2. ~logClear' => logPending' = << >> BY <1>1, <1>2
  <2> QED BY <1>1, <1>7, <2>1, <2>2
<1> QED BY <1>4, <1>5, <1>8 DEF LogIInv
-----------------------------------------------------------------------------
LEMMA LogStart == Log!Init => LogIInv
<1> SUFFICES ASSUME Log!Init PROVE LogIInv OBVIOUS
<1>1. /\ logUp = TRUE /\ logMemory = << >> /\ logLogged = 0 /\ logPending = << >> /\ logClear = FALSE
      /\ logStage = "idle" /\ logBatch = << >> /\ logTruncates = FALSE /\ logFailed = FALSE
      /\ logLines = << >> /\ logTail = << >> /\ logFlushed = << >> /\ logCut = FALSE /\ logGlued = FALSE
  BY DEF Log!Init
<1>2. << >> \in Seq(Log!Records) /\ << >> \in Seq(LogWritten) /\ Len(<< >>) = 0 OBVIOUS
<1>3. LogTyped
  <2>1. 0 \in 0..MaxRecords BY BoundsAssumption
  <2>2. Len(logTail) \in 0..1 BY <1>1, <1>2
  <2> QED BY BoundsAssumption, <1>1, <1>2, <2>1, <2>2 DEF LogTyped
<1>4. LogDrainWorks BY <1>1 DEF LogDrainWorks
<1>5. << >> \o << >> = << >> BY <1>2, ConcatEmptySeq
<1>6. Log!Replayed = << >> BY <1>1, <1>5, <1>3, LogReplayedTyped
<1>7. Log!IsPrefix(<< >>, << >>) BY <1>2, <1>5, LogPrefixOf
<1>8. LogIntact BY <1>1, <1>2, <1>5, <1>6, <1>7 DEF LogIntact, LogEmptied, Log!Migrating
<1> QED BY <1>3, <1>4, <1>8 DEF LogIInv

LEMMA LogStep == LogIInv /\ [Log!Next]_Log!vars => LogIInv'
<1> SUFFICES ASSUME LogIInv, [Log!Next]_Log!vars PROVE LogIInv' OBVIOUS
<1>1. CASE Log!LogRecord BY <1>1, LogLogKeeps
<1>2. CASE Log!TakeBatch BY <1>2, LogTakeKeeps
<1>3. CASE Log!OpenFile BY <1>3, LogOpenKeeps
<1>4. CASE Log!WriteDone BY <1>4, LogDoneKeeps
<1>5. CASE Log!WriteFails BY <1>5, LogFailKeeps
<1>6. CASE Log!Flush BY <1>6, LogFlushKeeps
<1>7. CASE Log!Crash BY <1>7, LogCrashKeeps
<1>8. CASE Log!Resume BY <1>8, LogResumeKeeps
<1>9. CASE UNCHANGED Log!vars
  BY <1>9 DEF Log!vars, Log!drain, Log!file, Log!harm, LogIInv, LogTyped, LogDrainWorks, LogIntact, Log!Unspoiled, LogEmptied,
              Log!Migrating, Log!Replayed
<1> QED BY <1>1, <1>2, <1>3, <1>4, <1>5, <1>6, <1>7, <1>8, <1>9 DEF Log!Next

LEMMA LogSurvives == LogIInv => Log!FlushedSurvives
<1> SUFFICES ASSUME LogIInv, Log!Unspoiled, ~Log!Migrating PROVE Log!Readable /\ Log!IsPrefix(logFlushed, Log!Replayed)
  BY DEF Log!FlushedSurvives
<1>1. ~LogEmptied BY DEF LogEmptied, Log!Migrating
<1> QED BY <1>1, LogRecordsReadable DEF LogIInv, LogIntact

LEMMA LogWhole == LogIInv => Log!NoHoles
<1> SUFFICES ASSUME LogIInv, logUp, Log!Unspoiled, ~Log!Migrating
             PROVE  /\ Log!IsPrefix(Log!Replayed, logMemory)
                    /\ ~logFailed /\ logStage = "idle" /\ logPending = << >> => Log!Replayed = logMemory
  BY DEF Log!NoHoles
<1>1. CASE logFailed BY <1>1 DEF LogIInv, LogIntact
<1>2. CASE ~logFailed
  <2>1. logLines \in Seq(Log!Records) /\ logMemory = Log!Replayed \o (logBatch \o logPending)
    BY <1>2 DEF LogIInv, LogIntact
  <2>2. Log!Replayed \in Seq(Log!Records) BY <2>1, LogReplayedTyped DEF LogIInv
  <2>3. logBatch \in Seq(Log!Records) /\ logPending \in Seq(Log!Records) BY DEF LogIInv, LogTyped
  <2>4. logBatch \o logPending \in Seq(Log!Records) BY <2>3
  <2>5. Log!IsPrefix(Log!Replayed, logMemory) BY <2>1, <2>2, <2>4, LogPrefixOf
  <2>6. ASSUME logStage = "idle", logPending = << >> PROVE Log!Replayed = logMemory
    <3>1. logBatch = << >> BY <2>6 DEF LogIInv, LogDrainWorks
    <3>2. logBatch \o logPending = << >> BY <2>6, <3>1, ConcatEmptySeq
    <3>3. Log!Replayed \o << >> = Log!Replayed BY <2>2, ConcatEmptySeq
    <3> QED BY <2>1, <3>2, <3>3
  <2> QED BY <2>5, <2>6
<1> QED BY <1>1, <1>2

\* The log of an agent (AgentRecords, records/persistence.ts): what flush returned for is
\* read back after any crashes and failed writes, and the log has no holes, unless a
\* session wrote on after a torn line or a rewrite was cut, for any number of records.
THEOREM LogIsKept == Spec => []LogKept
<1>1. Init => LogIInv BY LogStart DEF Init
<1>2. LogIInv /\ [Next]_vars => LogIInv'
  <2>1. LogIInv /\ [Log!Next]_Log!vars => LogIInv' BY LogStep
  <2>2. [Next]_vars => [Log!Next]_Log!vars
    BY DEF Next, vars, logVars, Log!vars, Log!drain, Log!file, Log!harm
  <2> QED BY <2>1, <2>2
<1>3. LogIInv => LogKept BY LogSurvives, LogWhole DEF LogKept
<1> QED BY <1>1, <1>2, <1>3, PTL DEF Spec
-----------------------------------------------------------------------------
GatewayProof == INSTANCE EventGatewayProofs WITH
    MaxStops <- MaxRestarts, WriteFailures <- TRUE,
    online <- gatewayOnline, epoch <- gatewayEpoch, seq <- gatewaySeq,
    header <- gatewayHeader, pending <- gatewayPending,
    writing <- gatewayWriting, tail <- gatewayTail,
    lines <- gatewayLines, torn <- gatewayTorn, sync <- gatewaySync,
    asked <- gatewayAsked, link <- gatewayLink,
    synced <- gatewaySynced, cursor <- gatewayCursor,
    seen <- gatewaySeen, owed <- gatewayOwed, frames <- gatewayFrames,
    hurt <- gatewayHurt, epochs <- gatewayEpochs,
    stops <- gatewayStops, cuts <- gatewayCuts

\* The instance the proofs are about is the one the model takes its steps of.
LEMMA GatewaySame ==
    /\ Gateway!Init <=> GatewayProof!Init
    /\ Gateway!Next <=> GatewayProof!Next
    /\ Gateway!NoSilentGap <=> GatewayProof!NoSilentGap
    /\ Gateway!NumbersOnce <=> GatewayProof!NumbersOnce
<1>1. \A entries, n: Gateway!After(entries, n) = GatewayProof!After(entries, n)
  BY DEF Gateway!After, GatewayProof!After, Gateway!Frame, GatewayProof!Frame,
     Gateway!Cardinality, GatewayProof!Cardinality
<1>2. \A n, more: Gateway!Landed(n, more) <=> GatewayProof!Landed(n, more)
  BY DEF Gateway!Landed, GatewayProof!Landed, Gateway!Junk, GatewayProof!Junk
<1>3. Gateway!Publish <=> GatewayProof!Publish
  BY DEF Gateway!Publish, GatewayProof!Publish, Gateway!Line, GatewayProof!Line,
     Gateway!Cursor, GatewayProof!Cursor, Gateway!Taken, GatewayProof!Taken,
     Gateway!Buffered, GatewayProof!Buffered, Gateway!Header, GatewayProof!Header,
     Gateway!Frame, GatewayProof!Frame, Gateway!journal, GatewayProof!journal,
     Gateway!file, GatewayProof!file, Gateway!client, GatewayProof!client,
     Gateway!bounds, GatewayProof!bounds
<1>4. Gateway!WriteDone <=> GatewayProof!WriteDone
  BY <1>2 DEF Gateway!WriteDone, GatewayProof!WriteDone, Gateway!journal,
     GatewayProof!journal, Gateway!file, GatewayProof!file, Gateway!client,
     GatewayProof!client, Gateway!bounds, GatewayProof!bounds
<1>5. Gateway!WriteFails <=> GatewayProof!WriteFails
  BY <1>2 DEF Gateway!WriteFails, GatewayProof!WriteFails, Gateway!Lands,
     GatewayProof!Lands, Gateway!journal, GatewayProof!journal, Gateway!file,
     GatewayProof!file, Gateway!client, GatewayProof!client, Gateway!bounds,
     GatewayProof!bounds
<1>6. Gateway!Stop <=> GatewayProof!Stop
  BY <1>2 DEF Gateway!Stop, GatewayProof!Stop, Gateway!Lands, GatewayProof!Lands,
     Gateway!CutShort, GatewayProof!CutShort, Gateway!journal, GatewayProof!journal,
     Gateway!file, GatewayProof!file, Gateway!client, GatewayProof!client,
     Gateway!bounds, GatewayProof!bounds
<1>7. Gateway!Open <=> GatewayProof!Open
  BY DEF Gateway!Open, GatewayProof!Open, Gateway!LastSeq, GatewayProof!LastSeq,
     Gateway!journal, GatewayProof!journal, Gateway!file, GatewayProof!file,
     Gateway!client, GatewayProof!client, Gateway!bounds, GatewayProof!bounds
<1>8. Gateway!Connect <=> GatewayProof!Connect
  BY DEF Gateway!Connect, GatewayProof!Connect, Gateway!journal, GatewayProof!journal,
     Gateway!file, GatewayProof!file, Gateway!client, GatewayProof!client,
     Gateway!bounds, GatewayProof!bounds
<1>9. Gateway!Replay <=> GatewayProof!Replay
  BY <1>1 DEF Gateway!Replay, GatewayProof!Replay, Gateway!Unserved,
     GatewayProof!Unserved, Gateway!FromBuffer, GatewayProof!FromBuffer, Gateway!Frame,
     GatewayProof!Frame, Gateway!journal, GatewayProof!journal, Gateway!file,
     GatewayProof!file, Gateway!client, GatewayProof!client, Gateway!bounds,
     GatewayProof!bounds
<1>10. Gateway!FlushForRead <=> GatewayProof!FlushForRead
  BY DEF Gateway!FlushForRead, GatewayProof!FlushForRead, Gateway!Taken,
     GatewayProof!Taken, Gateway!Header, GatewayProof!Header, Gateway!journal,
     GatewayProof!journal, Gateway!file, GatewayProof!file, Gateway!client,
     GatewayProof!client, Gateway!bounds, GatewayProof!bounds
<1>11. Gateway!Read <=> GatewayProof!Read
  BY <1>1 DEF Gateway!Read, GatewayProof!Read, Gateway!Read_Unflushed,
     GatewayProof!Read_Unflushed, Gateway!journal, GatewayProof!journal, Gateway!file,
     GatewayProof!file, Gateway!client, GatewayProof!client, Gateway!bounds,
     GatewayProof!bounds
<1>12. Gateway!Acknowledge <=> GatewayProof!Acknowledge
  BY DEF Gateway!Acknowledge, GatewayProof!Acknowledge, Gateway!Frame,
     GatewayProof!Frame, Gateway!journal, GatewayProof!journal, Gateway!file,
     GatewayProof!file, Gateway!client, GatewayProof!client, Gateway!bounds,
     GatewayProof!bounds
<1>13. Gateway!Disconnect <=> GatewayProof!Disconnect
  BY DEF Gateway!Disconnect, GatewayProof!Disconnect, Gateway!CutShort,
     GatewayProof!CutShort, Gateway!journal, GatewayProof!journal, Gateway!file,
     GatewayProof!file, Gateway!client, GatewayProof!client, Gateway!bounds,
     GatewayProof!bounds
<1>14. Gateway!Receive <=> GatewayProof!Receive
  BY DEF Gateway!Receive, GatewayProof!Receive, Gateway!Cursor, GatewayProof!Cursor,
     Gateway!Advanced, GatewayProof!Advanced, Gateway!journal, GatewayProof!journal,
     Gateway!file, GatewayProof!file, Gateway!client, GatewayProof!client,
     Gateway!bounds, GatewayProof!bounds
<1>15. Gateway!Next <=> GatewayProof!Next
  BY <1>3, <1>4, <1>5, <1>6, <1>7, <1>8, <1>9, <1>10, <1>11, <1>12, <1>13, <1>14 DEF
     Gateway!Next, GatewayProof!Next
<1>16. Gateway!Init <=> GatewayProof!Init
  BY DEF Gateway!Init, GatewayProof!Init
<1>17. Gateway!NoSilentGap <=> GatewayProof!NoSilentGap
  BY DEF Gateway!NoSilentGap, GatewayProof!NoSilentGap
<1>18. Gateway!NumbersOnce <=> GatewayProof!NumbersOnce
  BY DEF Gateway!NumbersOnce, GatewayProof!NumbersOnce, Gateway!Published,
     GatewayProof!Published
<1> QED BY <1>15, <1>16, <1>17, <1>18


\* The durable events of a session (wsBroadcastService.ts, sessionEventJournal.ts): a
\* client that has read everything sent to it has missed nothing it was not told of, and
\* no number of an epoch is given twice, unless an event was lost before it was in the
\* journal or a connection was cut after a live frame had overtaken its replay, for any
\* number of events, restarts and cuts and a buffer of any size.
THEOREM NoneMissed == Spec => []JournalExact
<1>1. Init => GatewayProof!IInv
  BY BoundsAssumption, GatewaySame, GatewayProof!Start DEF Init
<1>2. GatewayProof!IInv /\ [Next]_vars => GatewayProof!IInv'
  <2>1. GatewayProof!IInv /\ [GatewayProof!Next]_GatewayProof!vars => GatewayProof!IInv'
    BY GatewayProof!Step
  <2>2. UNCHANGED vars => UNCHANGED GatewayProof!vars
    BY DEF vars, gatewayVars, GatewayProof!vars, GatewayProof!journal, GatewayProof!file,
           GatewayProof!client, GatewayProof!bounds
  <2>3. Next => Gateway!Next \/ UNCHANGED GatewayProof!vars
    BY DEF Next, gatewayVars, GatewayProof!vars, GatewayProof!journal, GatewayProof!file,
           GatewayProof!client, GatewayProof!bounds
  <2> QED BY <2>1, <2>2, <2>3, GatewaySame
<1>3. GatewayProof!IInv => JournalExact
  BY GatewaySame, GatewayProof!NoneMissed, GatewayProof!OneNumberEach DEF JournalExact
<1> QED BY <1>1, <1>2, <1>3, PTL DEF Spec
-----------------------------------------------------------------------------
PromptProof == INSTANCE PromptServiceProofs WITH
    Swift <- FALSE, Overlap <- FALSE,
    queue <- promptQueue, active <- promptActive, turnOf <- promptTurnOf,
    aborted <- promptAborted, stage <- promptStage,
    queued <- promptQueued, cancelling <- promptCancelling,
    steering <- promptSteering, told <- promptTold,
    running <- promptRunning, turns <- promptTurns, own <- promptOwn,
    wire <- promptWire, abandoned <- promptAbandoned

\* The instance the proofs are about is the one the model takes its steps of.
LEMMA PromptSame ==
    /\ PromptQueue!Init <=> PromptProof!Init
    /\ PromptQueue!Next <=> PromptProof!Next
    /\ PromptQueue!PromptAccounted <=> PromptProof!PromptAccounted
    /\ PromptQueue!NotStranded <=> PromptProof!NotStranded
BY DEF PromptQueue!vars, PromptProof!vars, PromptQueue!core, PromptProof!core,
       PromptQueue!Stages, PromptProof!Stages, PromptQueue!Messages,
       PromptProof!Messages, PromptQueue!InQueue, PromptProof!InQueue,
       PromptQueue!InSteer, PromptProof!InSteer, PromptQueue!Without,
       PromptProof!Without, PromptQueue!Starting, PromptProof!Starting, PromptQueue!Free,
       PromptProof!Free, PromptQueue!Settled, PromptProof!Settled, PromptQueue!Init,
       PromptProof!Init, PromptQueue!Goes, PromptProof!Goes, PromptQueue!Tell,
       PromptProof!Tell, PromptQueue!StartNext, PromptProof!StartNext,
       PromptQueue!Submit, PromptProof!Submit, PromptQueue!Captured,
       PromptProof!Captured, PromptQueue!GiveUp_Stops, PromptProof!GiveUp_Stops,
       PromptQueue!GiveUp, PromptProof!GiveUp, PromptQueue!CaptureFails,
       PromptProof!CaptureFails, PromptQueue!Arrive, PromptProof!Arrive,
       PromptQueue!ArriveFails, PromptProof!ArriveFails, PromptQueue!Answered,
       PromptProof!Answered, PromptQueue!Requeue, PromptProof!Requeue,
       PromptQueue!Failed, PromptProof!Failed, PromptQueue!Started, PromptProof!Started,
       PromptQueue!EndedElsewhere, PromptProof!EndedElsewhere,
       PromptQueue!EndedActive_TellsTwice, PromptProof!EndedActive_TellsTwice,
       PromptQueue!EndedActive, PromptProof!EndedActive, PromptQueue!EndedOther,
       PromptProof!EndedOther, PromptQueue!Ended, PromptProof!Ended, PromptQueue!Deliver,
       PromptProof!Deliver, PromptQueue!AbortQueued, PromptProof!AbortQueued,
       PromptQueue!Abort, PromptProof!Abort, PromptQueue!Aborted, PromptProof!Aborted,
       PromptQueue!Selections, PromptProof!Selections, PromptQueue!Steer,
       PromptProof!Steer, PromptQueue!SteerArrives, PromptProof!SteerArrives,
       PromptQueue!SteerFails, PromptProof!SteerFails, PromptQueue!OwnTurn,
       PromptProof!OwnTurn, PromptQueue!EndTurn, PromptProof!EndTurn, PromptQueue!Next,
       PromptProof!Next, PromptQueue!PromptAccounted, PromptProof!PromptAccounted,
       PromptQueue!NotStranded, PromptProof!NotStranded

\* The prompt queue of the server (promptService.ts): every prompt that was submitted is
\* in one place until its end is published, once, and none is left behind when the core
\* falls idle, for any prompts and turns.
THEOREM PromptsAccounted == Spec => []PromptsServed
<1>1. Init => PromptProof!IInv
  BY PromptSame, PromptProof!Start DEF Init
<1>2. PromptProof!IInv /\ [Next]_vars => PromptProof!IInv'
  <2>1. PromptProof!IInv /\ [PromptProof!Next]_PromptProof!vars => PromptProof!IInv'
    BY PromptProof!Step DEF PromptProof!InTurn
  <2>2. UNCHANGED vars => UNCHANGED PromptProof!vars
    BY DEF vars, promptVars, PromptProof!vars
  <2>3. Next => PromptQueue!Next \/ UNCHANGED PromptProof!vars
    BY DEF Next, promptVars, PromptProof!vars
  <2> QED BY <2>1, <2>2, <2>3, PromptSame
<1>3. PromptProof!IInv => PromptsServed
  BY PromptSame, PromptProof!Accounts, PromptProof!Serves DEF PromptsServed
<1> QED BY <1>1, <1>2, <1>3, PTL DEF Spec
-----------------------------------------------------------------------------
TeamProof == INSTANCE TeamAssignmentsProofs WITH
    Member <- {One}, Prompted <- {One}, Coordinated <- TRUE,
    cache <- teamCache, child <- teamChild, patch <- teamPatch,
    call <- teamCall, made <- teamMade, turn <- teamTurn,
    observer <- teamObserver, receipt <- teamReceipt, told <- teamTold,
    reported <- teamReported, locked <- teamLocked

PairProof == INSTANCE TeamAssignmentsProofs WITH
    MaxAssignments <- 1, Prompted <- {One}, Coordinated <- TRUE,
    cache <- teamCache, child <- teamChild, patch <- teamPatch,
    call <- teamCall, made <- teamMade, turn <- teamTurn,
    observer <- teamObserver, receipt <- teamReceipt, told <- teamTold,
    reported <- teamReported, locked <- teamLocked

\* The instance the proofs are about is the one the model takes its steps of.
LEMMA TeamSame ==
    /\ Team!Init <=> TeamProof!Init
    /\ Team!Next <=> TeamProof!Next
    /\ Team!NoFalseReminder <=> TeamProof!NoFalseReminder
    /\ Team!LeaseFollowsTurn <=> TeamProof!LeaseFollowsTurn
BY DEF Team!vars, TeamProof!vars, Team!Assignment, TeamProof!Assignment, Team!Idle,
       TeamProof!Idle, Team!Other, TeamProof!Other, Team!Blank, TeamProof!Blank,
       Team!NoCall, TeamProof!NoCall, Team!Init, TeamProof!Init, Team!Put, TeamProof!Put,
       Team!PutOne, TeamProof!PutOne, Team!InFlight, TeamProof!InFlight,
       Team!LeaderWaits, TeamProof!LeaderWaits, Team!Land, TeamProof!Land, Team!Refresh,
       TeamProof!Refresh, Team!Assigned, TeamProof!Assigned, Team!Assign,
       TeamProof!Assign, Team!AssignNext, TeamProof!AssignNext, Team!ReleaseAll_Any,
       TeamProof!ReleaseAll_Any, Team!ReleaseAll, TeamProof!ReleaseAll, Team!Unavailable,
       TeamProof!Unavailable, Team!Available, TeamProof!Available, Team!Start,
       TeamProof!Start, Team!StartFails, TeamProof!StartFails, Team!Unlocked,
       TeamProof!Unlocked, Team!Lock, TeamProof!Lock, Team!LockNext, TeamProof!LockNext,
       Team!CallEnds, TeamProof!CallEnds, Team!StartOther, TeamProof!StartOther,
       Team!EndTurn, TeamProof!EndTurn, Team!Report, TeamProof!Report, Team!Receipt,
       TeamProof!Receipt, Team!Becomes, TeamProof!Becomes, Team!Missing_AnyAssignment,
       TeamProof!Missing_AnyAssignment, Team!Missing, TeamProof!Missing, Team!Notify,
       TeamProof!Notify, Team!Remind, TeamProof!Remind, Team!Release, TeamProof!Release,
       Team!Next, TeamProof!Next, Team!NoFalseReminder, TeamProof!NoFalseReminder,
       Team!LeaseFollowsTurn, TeamProof!LeaseFollowsTurn, Team!RemoveAt,
       TeamProof!RemoveAt

\* The instance the proofs are about is the one the model takes its steps of.
LEMMA PairSame ==
    /\ Pair!Init <=> PairProof!Init
    /\ Pair!Next <=> PairProof!Next
    /\ Pair!NoFalseReminder <=> PairProof!NoFalseReminder
    /\ Pair!LeaseFollowsTurn <=> PairProof!LeaseFollowsTurn
BY DEF Pair!vars, PairProof!vars, Pair!Assignment, PairProof!Assignment, Pair!Idle,
       PairProof!Idle, Pair!Other, PairProof!Other, Pair!Blank, PairProof!Blank,
       Pair!NoCall, PairProof!NoCall, Pair!Init, PairProof!Init, Pair!Put, PairProof!Put,
       Pair!PutOne, PairProof!PutOne, Pair!InFlight, PairProof!InFlight,
       Pair!LeaderWaits, PairProof!LeaderWaits, Pair!Land, PairProof!Land, Pair!Refresh,
       PairProof!Refresh, Pair!Assigned, PairProof!Assigned, Pair!Assign,
       PairProof!Assign, Pair!AssignNext, PairProof!AssignNext, Pair!ReleaseAll_Any,
       PairProof!ReleaseAll_Any, Pair!ReleaseAll, PairProof!ReleaseAll, Pair!Unavailable,
       PairProof!Unavailable, Pair!Available, PairProof!Available, Pair!Start,
       PairProof!Start, Pair!StartFails, PairProof!StartFails, Pair!Unlocked,
       PairProof!Unlocked, Pair!Lock, PairProof!Lock, Pair!LockNext, PairProof!LockNext,
       Pair!CallEnds, PairProof!CallEnds, Pair!StartOther, PairProof!StartOther,
       Pair!EndTurn, PairProof!EndTurn, Pair!Report, PairProof!Report, Pair!Receipt,
       PairProof!Receipt, Pair!Becomes, PairProof!Becomes, Pair!Missing_AnyAssignment,
       PairProof!Missing_AnyAssignment, Pair!Missing, PairProof!Missing, Pair!Notify,
       PairProof!Notify, Pair!Remind, PairProof!Remind, Pair!Release, PairProof!Release,
       Pair!Next, PairProof!Next, Pair!NoFalseReminder, PairProof!NoFalseReminder,
       Pair!LeaseFollowsTurn, PairProof!LeaseFollowsTurn, Pair!RemoveAt,
       PairProof!RemoveAt

\* The assignments of a department (subagent-host.ts), one member with any number of
\* assignments and any members with one: whoever has reported within its turn is not
\* reminded, and a lease lasts as long as its assignment.
THEOREM TeamSafe == Spec => []TeamAccounted
<1> DEFINE Inv == /\ component = "team" => TeamProof!IInv
                  /\ component = "pair" => PairProof!IInv
<1> USE BoundsAssumption DEF TeamProof!Bounded, PairProof!Bounded
<1>1. Init => Inv
  BY TeamSame, PairSame, TeamProof!Begins, PairProof!Begins DEF Init
<1>2. Inv /\ [Next]_vars => Inv'
  <2>1. TeamProof!IInv /\ [TeamProof!Next]_TeamProof!vars => TeamProof!IInv'
    BY TeamProof!Step
  <2>2. PairProof!IInv /\ [PairProof!Next]_PairProof!vars => PairProof!IInv'
    BY PairProof!Step
  <2> QED BY <2>1, <2>2, TeamSame, PairSame
    DEF Next, vars, teamVars, TeamProof!vars, PairProof!vars
<1>3. Inv => TeamAccounted
  <2>1. TeamProof!IInv => Team!NoFalseReminder /\ Team!LeaseFollowsTurn
    BY TeamSame, TeamProof!NotTold DEF TeamProof!IInv
  <2>2. PairProof!IInv => Pair!NoFalseReminder /\ Pair!LeaseFollowsTurn
    BY PairSame, PairProof!NotTold DEF PairProof!IInv
  <2> QED BY <2>1, <2>2 DEF TeamAccounted
<1> QED BY <1>1, <1>2, <1>3, PTL DEF Spec
=============================================================================
