----------------------------- MODULE MCServices -----------------------------
(***************************************************************************)
(* The instances TLC checks of the components that stand beside the agent  *)
(* loop: the logs and locks on disk and the services around a session.     *)
(* They share no variable, so one model holds them side by side and each   *)
(* behaviour is a behaviour of one of them.                                *)
(***************************************************************************)
EXTENDS Integers, Sequences

CONSTANTS
    Server,                                  \* ServerLock
    MaxRecords, MaxCrashes, MaxUpgrades,     \* RecordLog
    MaxEvents, BufferSize, MaxRestarts, MaxCuts,    \* EventGateway
    Process, MaxTokens,                      \* TokenRefresh
    Prompt, MaxOwn,                          \* PromptService
    Op,                                      \* McpConnections
    Period, Jitter, StaleAge, MaxCoalesce, MaxTime, MaxStops,    \* CronTask
    Request, MaxItems, MaxReads,             \* Snapshot
    Agent, MaxTurns,                         \* Brokers
    Member, MaxAssignments                   \* TeamAssignments

\* The jitter of a period is a part of it.
ASSUME BoundsAssumption ==
    /\ {MaxRecords, MaxCrashes, MaxUpgrades, MaxEvents, BufferSize,
        MaxRestarts, MaxCuts, MaxTokens, MaxOwn, Jitter, StaleAge,
        MaxCoalesce, MaxTime, MaxStops, MaxItems, MaxReads, MaxTurns,
        MaxAssignments} \subseteq Nat
    /\ Period \in Nat \ {0} /\ Jitter < Period

VARIABLES
    component,   \* the one this behaviour is of
    lockPhase, lockLock, lockText, lockRecycled, lockDoomed, lockDeleting,
    logUp, logMemory, logLogged, logTitled, logPending, logClear, logStage,
    logBatch, logTruncates, logFailed, logLines, logTail, logFlushed,
    logCut, logGlued, logCrashes, logUpgrades,
    gatewayOnline, gatewayEpoch, gatewaySeq, gatewayHeader, gatewayPending,
    gatewayWriting, gatewayTail, gatewayLines, gatewayTorn, gatewaySync,
    gatewayAsked, gatewayLink, gatewaySynced, gatewayCursor, gatewaySeen,
    gatewayOwed, gatewayFrames, gatewayHurt, gatewayEpochs, gatewayStops,
    gatewayCuts,
    tokenKind, tokenToken, tokenDue, tokenHonored, tokenIssued, tokenLock,
    tokenPhase, tokenForced, tokenUsing, tokenGot, tokenSevered,
    promptQueue, promptActive, promptTurnOf, promptAborted, promptStage,
    promptQueued, promptCancelling, promptSteering, promptTold,
    promptRunning, promptTurns, promptOwn, promptWire, promptAbandoned,
    mcpEntry, mcpAttempt, mcpStatus, mcpClient, mcpLink, mcpPc, mcpOn, mcpTry,
    cronNow, cronLife, cronTask, cronSeen, cronFile, cronWorks, cronCreated,
    cronFired, cronStops, cronBehind,
    snapshotStreaming, snapshotLogged, snapshotSeq, snapshotWritten,
    snapshotPart, snapshotCache, snapshotStage, snapshotSize,
    snapshotItems, snapshotMark, snapshotBefore, snapshotReads,
    brokerTurn, brokerPhase, brokerWire, brokerApprovals, brokerQuestions,
    brokerOver,
    teamCache, teamChild, teamPatch, teamCall, teamMade, teamTurn,
    teamObserver, teamReceipt, teamTold, teamReported, teamLocked

Lock == INSTANCE ServerLock WITH
    Overlap <- FALSE, LateStarts <- FALSE,
    phase <- lockPhase, lock <- lockLock, text <- lockText,
    recycled <- lockRecycled, doomed <- lockDoomed,
    deleting <- lockDeleting

\* The same servers with nothing to keep their takeovers apart.
Race == INSTANCE ServerLock WITH
    Overlap <- TRUE, LateStarts <- TRUE,
    phase <- lockPhase, lock <- lockLock, text <- lockText,
    recycled <- lockRecycled, doomed <- lockDoomed,
    deleting <- lockDeleting

Log == INSTANCE RecordLog WITH
    up <- logUp, memory <- logMemory, logged <- logLogged,
    titled <- logTitled, pending <- logPending, clear <- logClear,
    stage <- logStage, batch <- logBatch, truncates <- logTruncates,
    failed <- logFailed, lines <- logLines, tail <- logTail,
    flushed <- logFlushed, cut <- logCut, glued <- logGlued,
    crashes <- logCrashes, upgrades <- logUpgrades

Gateway == INSTANCE EventGateway WITH
    MaxStops <- MaxRestarts, WriteFailures <- TRUE,
    online <- gatewayOnline, epoch <- gatewayEpoch, seq <- gatewaySeq,
    header <- gatewayHeader, pending <- gatewayPending,
    writing <- gatewayWriting, tail <- gatewayTail,
    lines <- gatewayLines, torn <- gatewayTorn, sync <- gatewaySync,
    asked <- gatewayAsked, link <- gatewayLink,
    synced <- gatewaySynced, cursor <- gatewayCursor,
    seen <- gatewaySeen, owed <- gatewayOwed, frames <- gatewayFrames,
    hurt <- gatewayHurt, epochs <- gatewayEpochs,
    stops <- gatewayStops, cuts <- gatewayCuts

Token == INSTANCE TokenRefresh WITH
    Locking <- TRUE, Overlap <- {"waiting", "locked", "asking",
    "rejected"},
    kind <- tokenKind, token <- tokenToken, due <- tokenDue,
    honored <- tokenHonored, issued <- tokenIssued, lock <- tokenLock,
    phase <- tokenPhase, forced <- tokenForced, using <- tokenUsing,
    got <- tokenGot, severed <- tokenSevered

PromptQueue == INSTANCE PromptService WITH
    Swift <- FALSE, Overlap <- FALSE,
    queue <- promptQueue, active <- promptActive, turnOf <- promptTurnOf,
    aborted <- promptAborted, stage <- promptStage,
    queued <- promptQueued, cancelling <- promptCancelling,
    steering <- promptSteering, told <- promptTold,
    running <- promptRunning, turns <- promptTurns, own <- promptOwn,
    wire <- promptWire, abandoned <- promptAbandoned

Mcp == INSTANCE McpConnections WITH
    SlowClose <- FALSE,
    entry <- mcpEntry, attempt <- mcpAttempt, status <- mcpStatus,
    client <- mcpClient, link <- mcpLink, pc <- mcpPc, on <- mcpOn,
    try <- mcpTry

Cron == INSTANCE CronTask WITH
    now <- cronNow, life <- cronLife, task <- cronTask, seen <- cronSeen,
    file <- cronFile, works <- cronWorks, created <- cronCreated,
    fired <- cronFired, stops <- cronStops, behind <- cronBehind

Snap == INSTANCE Snapshot WITH
    streaming <- snapshotStreaming, logged <- snapshotLogged,
    seq <- snapshotSeq, written <- snapshotWritten,
    part <- snapshotPart, cache <- snapshotCache,
    stage <- snapshotStage, size <- snapshotSize,
    items <- snapshotItems, mark <- snapshotMark,
    before <- snapshotBefore, reads <- snapshotReads

Broker == INSTANCE Brokers WITH
    turn <- brokerTurn, phase <- brokerPhase, wire <- brokerWire,
    approvals <- brokerApprovals, questions <- brokerQuestions,
    over <- brokerOver

\* A member for the parts that concern one.
One == CHOOSE m \in Member: TRUE

Team == INSTANCE TeamAssignments WITH
    Member <- {One}, Prompted <- {One}, Coordinated <- TRUE,
    cache <- teamCache, child <- teamChild, patch <- teamPatch,
    call <- teamCall, made <- teamMade, turn <- teamTurn,
    observer <- teamObserver, receipt <- teamReceipt, told <- teamTold,
    reported <- teamReported, locked <- teamLocked

\* Two members and one assignment, for the calls that concern several.
Pair == INSTANCE TeamAssignments WITH
    MaxAssignments <- 1, Prompted <- {One}, Coordinated <- TRUE,
    cache <- teamCache, child <- teamChild, patch <- teamPatch,
    call <- teamCall, made <- teamMade, turn <- teamTurn,
    observer <- teamObserver, receipt <- teamReceipt, told <- teamTold,
    reported <- teamReported, locked <- teamLocked

lockVars ==
    << lockPhase, lockLock, lockText, lockRecycled, lockDoomed, lockDeleting
       >>

logVars ==
    << logUp, logMemory, logLogged, logTitled, logPending, logClear,
       logStage, logBatch, logTruncates, logFailed, logLines, logTail,
       logFlushed, logCut, logGlued, logCrashes, logUpgrades >>

gatewayVars ==
    << gatewayOnline, gatewayEpoch, gatewaySeq, gatewayHeader,
       gatewayPending, gatewayWriting, gatewayTail, gatewayLines,
       gatewayTorn, gatewaySync, gatewayAsked, gatewayLink,
       gatewaySynced, gatewayCursor, gatewaySeen, gatewayOwed,
       gatewayFrames, gatewayHurt, gatewayEpochs, gatewayStops,
       gatewayCuts >>

tokenVars ==
    << tokenKind, tokenToken, tokenDue, tokenHonored, tokenIssued, tokenLock,
       tokenPhase, tokenForced, tokenUsing, tokenGot, tokenSevered >>

promptVars ==
    << promptQueue, promptActive, promptTurnOf, promptAborted, promptStage,
       promptQueued, promptCancelling, promptSteering, promptTold,
       promptRunning, promptTurns, promptOwn, promptWire,
       promptAbandoned >>

mcpVars ==
    << mcpEntry, mcpAttempt, mcpStatus, mcpClient, mcpLink, mcpPc, mcpOn,
       mcpTry >>

cronVars ==
    << cronNow, cronLife, cronTask, cronSeen, cronFile, cronWorks,
       cronCreated, cronFired, cronStops, cronBehind >>

snapshotVars ==
    << snapshotStreaming, snapshotLogged, snapshotSeq, snapshotWritten,
       snapshotPart, snapshotCache, snapshotStage, snapshotSize,
       snapshotItems, snapshotMark, snapshotBefore, snapshotReads >>

brokerVars ==
    << brokerTurn, brokerPhase, brokerWire, brokerApprovals, brokerQuestions,
       brokerOver >>

teamVars ==
    << teamCache, teamChild, teamPatch, teamCall, teamMade, teamTurn,
       teamObserver, teamReceipt, teamTold, teamReported, teamLocked
       >>

vars == << component, lockVars, logVars, gatewayVars, tokenVars, promptVars,
            mcpVars, cronVars, snapshotVars, brokerVars,
            teamVars >>

Init ==
    /\ component \in {"lock", "race", "log", "gateway", "token", "prompt",
                   "mcp", "cron", "snapshot", "broker",
                   "team", "pair"}
    /\ Lock!Init
    /\ Log!Init
    /\ Gateway!Init
    /\ Token!Init
    /\ PromptQueue!Init
    /\ Mcp!Init
    /\ Cron!Init
    /\ Snap!Init
    /\ Broker!Init
    /\ IF component = "pair" THEN Pair!Init ELSE Team!Init

\* One component takes its steps, the others stay as they are.
Next ==
    \/ component = "lock" /\ Lock!Next /\ UNCHANGED << component,
           logVars, gatewayVars, tokenVars, promptVars, mcpVars, cronVars,
           snapshotVars, brokerVars, teamVars >>
    \/ component = "race" /\ Race!Next /\ UNCHANGED << component,
           logVars, gatewayVars, tokenVars, promptVars, mcpVars, cronVars,
           snapshotVars, brokerVars, teamVars >>
    \/ component = "log" /\ Log!Next /\ UNCHANGED << component,
           lockVars, gatewayVars, tokenVars, promptVars, mcpVars, cronVars,
           snapshotVars, brokerVars, teamVars >>
    \/ component = "gateway" /\ Gateway!Next /\ UNCHANGED << component,
           lockVars, logVars, tokenVars, promptVars, mcpVars, cronVars,
           snapshotVars, brokerVars, teamVars >>
    \/ component = "token" /\ Token!Next /\ UNCHANGED << component,
           lockVars, logVars, gatewayVars, promptVars, mcpVars, cronVars,
           snapshotVars, brokerVars, teamVars >>
    \/ component = "prompt" /\ PromptQueue!Next /\ UNCHANGED << component,
           lockVars, logVars, gatewayVars, tokenVars, mcpVars, cronVars,
           snapshotVars, brokerVars, teamVars >>
    \/ component = "mcp" /\ Mcp!Next /\ UNCHANGED << component,
           lockVars, logVars, gatewayVars, tokenVars, promptVars, cronVars,
           snapshotVars, brokerVars, teamVars >>
    \/ component = "cron" /\ Cron!Next /\ UNCHANGED << component,
           lockVars, logVars, gatewayVars, tokenVars, promptVars, mcpVars,
           snapshotVars, brokerVars, teamVars >>
    \/ component = "snapshot" /\ Snap!Next /\ UNCHANGED << component,
           lockVars, logVars, gatewayVars, tokenVars, promptVars, mcpVars,
           cronVars, brokerVars, teamVars >>
    \/ component = "broker" /\ Broker!Next /\ UNCHANGED << component,
           lockVars, logVars, gatewayVars, tokenVars, promptVars, mcpVars,
           cronVars, snapshotVars, teamVars >>
    \/ component = "team" /\ Team!Next /\ UNCHANGED << component,
           lockVars, logVars, gatewayVars, tokenVars, promptVars, mcpVars,
           cronVars, snapshotVars, brokerVars >>
    \/ component = "pair" /\ Pair!Next /\ UNCHANGED << component,
           lockVars, logVars, gatewayVars, tokenVars, promptVars, mcpVars,
           cronVars, snapshotVars, brokerVars >>

Spec == Init /\ [][Next]_vars
-----------------------------------------------------------------------------
\* Every variable of the component at work has its type.
TypeOK ==
    /\ component \in {"lock", "race"} => Lock!TypeOK
    /\ component = "log" => Log!TypeOK
    /\ component = "gateway" => Gateway!TypeOK
    /\ component = "token" => Token!TypeOK
    /\ component = "prompt" => PromptQueue!TypeOK
    /\ component = "mcp" => Mcp!TypeOK
    /\ component = "cron" => Cron!TypeOK
    /\ component = "snapshot" => Snap!TypeOK
    /\ component = "broker" => Broker!TypeOK
    /\ component = "team" => Team!TypeOK
    /\ component = "pair" => Pair!TypeOK

\* The file at the path names the server that took it for as long as it holds
\* it: while changes of the owner do not overlap, no takeover, release or
\* cleanup of lock.ts and control.ts deletes the file of a live owner.
LockNamesItsHolder == component = "lock" => Lock!LockNamesItsHolder

\* The log on disk is what the agent remembers.  A flush that returned is kept:
\* after any crash or failed write the log that persistence.ts reads back is
\* readable and begins with every record flushed.  And it has no holes: while the
\* agent runs, what a resume would replay is a beginning of what the agent has in
\* memory, and after the drain all of it.
LogKept == Log!FlushedSurvives /\ Log!NoHoles

\* A client that is connected and has read everything sent to it has missed
\* no failure since its first connection, or was told so by resync_required:
\* not across cuts of the connection, not across restarts of the server, as
\* long as no event was lost before it was in the journal and no connection
\* was cut after a live frame had overtaken the replay.  Under the same condition
\* no number is given twice within an epoch, on which its cursor relies.
JournalExact == Gateway!NoSilentGap /\ Gateway!NumbersOnce

\* Whenever no refresh is past its first read, a stored token is one the
\* provider accepts, unless an answer of the provider never reached the file:
\* doEnsureFresh never leaves a token behind that it has used up.
StoredTokenUsable == Token!StoredTokenUsable

\* The tombstone of doEnsureFresh only ever replaces a token that the provider
\* rejects: no process is logged out because another one refreshed.
NoFalseTombstone == [][Token!TombstoneEarned]_vars

\* A prompt that was submitted is in exactly one place until its end is
\* published: in the queue, on its way out of it, taken by a steer, the active
\* one, being aborted, or refused with an error.  Its end is published once.
\* When the core is idle and everything has been delivered, none is left in the
\* queue and none is taken for running, unless a failed call of submit or steer
\* has left the queue to the end of the next turn.
PromptsServed == PromptQueue!PromptAccounted /\ PromptQueue!NotStranded

\* No server process or connection is left behind: a client that is up is the
\* one of the entry in the map, and one that is starting is still awaited by
\* the call that started it.
NoOrphanClient == Mcp!NoOrphanClient

\* An occurrence is counted in one delivery, over all resumes, except for those
\* behind a process that ended before the file said what it had fired: neither
\* a tick nor a resume replays what was delivered.  And the scheduler never looks
\* past one that no delivery has counted: one whose jitter puts it after the
\* wake-up is kept for the next tick.
OccurrencesOnce == Cron!CountedOnce /\ Cron!NonePassedOver

\* A snapshot is never older than its request: everything that was in the file
\* when it was asked for is in it, whatever the cache held and whichever other
\* snapshots were being read.
SnapshotFresh == Snap!SnapshotFresh

\* No request outlives its turn: once the server knows that a turn is over, no
\* approval and no question of it is pending (else the session would stay
\* awaiting_approval or awaiting_question); and the end of one agent's turn,
\* or of an earlier one, takes away nothing a call still waits for.
RequestsFollowTurns == Broker!RequestsFollowTurns

\* As long as the parent works on fresh copies of its members' records, a member
\* that reported its task within the turn is not reminded of a missing report,
\* and a lease lasts from the call of TeamAssign that gives it to the end of the
\* turn: a late release never takes that of a newer assignment.
TeamAccounted ==
    /\ component = "team" => Team!NoFalseReminder /\ Team!LeaseFollowsTurn
    /\ component = "pair" => Pair!NoFalseReminder /\ Pair!LeaseFollowsTurn
=============================================================================
