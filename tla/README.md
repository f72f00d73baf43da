# Specifications of nori-code

TLA+ modules of the core of nori-code and of the services around it, the TLC
runs that check them on small instances, and TLAPS proofs of what should hold on
every instance. The modules are translations of the code, most of it under
`src/packages/agent-core/src` and `src/packages/server/src`; every definition is
tied to its lines in `PROJECT.json` ("map").

    tlc -workers 2 -config ToolBatch.cfg MCToolBatch.tla      # one run
    tlapm TurnFlowProofs.tla                                  # one proof module

Contents: 1 the system, 2 the modules and how they correspond to the code,
3 the runs, 4 what the runs found, 5 the proofs, 6 what is not modelled,
7 the plan.

---

## 1. The system

nori-code is a coding agent: a TypeScript runtime in which agents talk to a
language model, execute the tools the model calls and keep their work in a
session on disk. The repository is a monorepo; the logic of its own is in
`packages/agent-core` (the agent), `packages/server` (the local server with its
event stream), `packages/oauth` and `packages/agent-core/src/mcp`
(credentials and tool servers). `apps/*` are user interfaces; `packages/kaos`,
`kosong`, `protocol`, `node-sdk`, `pi-tui`, `telemetry` are interfaces to the
outside world.

Everything of one process runs on one JavaScript thread. Concurrency is the
interleaving of promises: code runs atomically from one `await` to the next,
and the awaits that matter are those on something outside - the model, a tool,
a child process, a file, a hook, a timer, a user. Between processes it is the
file system: session directories, the server lock, the credential store.

### Inventory

*State* is what the component keeps, *hard* what makes it difficult to test,
*correct* what it has to guarantee.

| component | state and operations | hard | correct when |
|---|---|---|---|
| **Tool batch** `loop/tool-call.ts`, `tool-scheduler.ts`, `tool-access.ts` | the scheduler's active tasks and queue; prepare, add, start, finish, drain, abort | executions overlap and finish in any order; an abort with a grace timeout; a throwing event dispatch | conflicting calls take effect in provider order; nothing waits for nothing; nothing is left behind |
| **Turn flow** `agent/turn/index.ts`, `loop/run-turn.ts`, `loop/turn-step.ts` | the turn slot, the steer buffer, the step loop; prompt, steer, cancel, launch, the continuations | inputs arrive at every await of a turn; stop while something else ends; compaction in between | every input is answered or discarded by its user, one turn at a time |
| **Full compaction** `agent/compaction/full.ts` | `compacting`, the worker; begin, cancel, apply, reinject, block | the worker outlives its cancellation; it rewrites the history others append to | the history has one writer; no request sees it half rewritten |
| **Goal mode** `agent/goal/index.ts` | the goal record, the driver's loop, the idle timer | status changes from user, model and driver; waits for background work | an active goal is pursued or has a reason to wait |
| **Background tasks** `agent/background/*` | live tasks, ghosts of an earlier process, records and logs on disk | stop, timeout, caller abort, detach and the worker's end race; crash between record and notification | the agent hears of each end once, and never what the record does not say |
| Agent records `agent/records/*` | the write-behind queue of `wire.jsonl`; append, flush, rewrite, replay | torn lines, failed appends, a crash in a rewrite | what was acknowledged is replayed, in order |
| Context memory `agent/context` | the history, open steps, deferred messages; append, loop events, undo, compact, project, resume | messages arrive in the middle of a step; a step is cut off by an abort or a crash; the history changes under a compaction | every call has its result in any request; a resume restores what was there |
| Permissions `agent/permission` | session rules; the policies in order | precedence | the decision of the strictest applicable policy |
| Cron `agent/cron`, `tools/cron` | tasks and cursors; tick, fire, coalesce, reload | fire and persist are two steps; jitter | each occurrence fires once or is coalesced |
| Department `session/subagent-host.ts`, `team-*.ts`, `agent/discussion` | members, write leases, mailboxes, rounds | check, await, act; leases by timestamp | one writer; statements reach their members |
| Session `session/index.ts`, `mount-*.ts` | agents, metadata, the mount forest; close, fork, mount | close while agents run; migration of shadow members | the forest stays a forest; close settles everything |
| Prompt service `services/prompt` | the queue and the active prompt of each session; submit, steer, abort | every operation awaits between its check and its effect | one active prompt; queue order |
| Brokers (approval, question) `server/src/services` | pending requests; ask, resolve, expire | the answer against the end of the turn | each request is settled once |
| Event gateway and snapshot `server/src/services/gateway`, `snapshot` | journal with sequence numbers, subscribers; append, replay, fan out | numbers handed out before they are durable; replay against live events | a client sees a gap-free, duplicate-free stream from its snapshot on |
| Server lock `server/src/lock.ts` | the lock file; acquire, take over, release | two starting servers | one server per home |
| MCP connections `mcp/connection-manager.ts` | entries by name; connect, reconnect, remove, shutdown | every operation awaits in the middle | no client outlives its entry |
| OAuth tokens `oauth-manager.ts` | stored tokens, a lock, tombstones | several processes refresh and log out | a rotated token is never lost, a logout never undone |

The remaining components (execution environments, model providers, HTTP
routes, workspace services, the tools themselves, skills, configuration,
telemetry, SDK, user interfaces) are I/O, translation or rendering; they are
listed in `PROJECT.json` with the reason each is left out. Of the table,
permissions and the session have no module, and of the department only the
assignments have one (section 6).

### How they interact

* A **turn** runs model steps. A step that calls tools runs a **tool batch**
  and waits for it; the turn's abort signal reaches the batch.
* Whoever wants the agent's attention - the user, the **background** manager, a
  **cron** task, the goal's idle timer, a team member - hands an input to the
  **turn flow**, which launches a turn or buffers the input.
* **Compaction** and turns share the history. `FullCompaction.isCompacting`
  defers launches; a turn blocks on a compaction; the end of a compaction calls
  back into the turn flow (`onCompactionFinished`).
* The **goal** driver runs turns one after another inside one turn slot and
  waits for background tasks, whose notification wakes the agent again.
* The server's **prompt service** submits to the turn flow over RPC and follows
  its events; **brokers** answer the approvals a tool batch asks for.

---

## 2. The modules

| module | role |
|---|---|
| `ToolAccess` | the accesses a call declares and when two of them conflict (pure) |
| `ToolOrder` | abstract: conflicting calls take effect in provider order |
| `ToolBatch` | the batch with its scheduler; implements `ToolOrder` |
| `TurnFlow` | turns, steering, goal and compaction of one agent |
| `BackgroundTasks` | the tasks of one agent over crashes of the process |
| `ContextMemory` | the history of an agent, its requests, its replay |
| `RecordLog` | the wire log of an agent over failed writes, crashes and migrations |
| `CronTask` | a scheduled prompt, its cursor and its file |
| `PromptService` | the server's prompt queue of an agent |
| `Brokers` | approvals and questions between the agents and the user |
| `EventGateway` | durable events: journal, replay, a client with a cursor |
| `TeamAssignments` | leases, reports and reminders of a department |
| `Snapshot` | the state a client starts from, read while a turn goes on |
| `ServerLock` | the lock file of the server: starts, takeovers, cleanup |
| `McpConnections` | the connection to one MCP server |
| `TokenRefresh` | an OAuth token refreshed by several processes |
| `MC*` | instances for TLC: model values, symmetry, reference definitions |
| `ToolBatchProofs`, `TurnFlowProofs`, `BackgroundTasksProofs`, `ContextMemoryProofs` | theorems on the agent loop |
| `EventGatewayProofs`, `PromptServiceProofs`, `TeamAssignmentsProofs` | theorems on one service each, for all its constants |
| `ServicesProofs` | theorems on the services as `MCServices` holds them |

A definition named `X_Something` stands before `X` and is `X` with a plausible
bug. No run uses it; substituted for `X` it must make a run fail, which shows
that the property of the run depends on that piece of code.

### ToolAccess and ToolBatch

A path is the sequence of the pieces between its separators, so that doubled
and trailing separators (`Gap`) and case are still there to be normalized.
`Conflict` is `ToolAccesses.conflict`: some access of one call conflicts with
some access of the other.

`ToolBatch` takes the exclusion relation as a constant operator with the two
facts it needs as an assumption; `MCToolBatch` instantiates it with
`ToolAccess!Conflict`, and `ToolBatchProofs` proves the assumption for it.

| specification | code |
|---|---|
| `phase`, `cursor`, `emitted` | where `runToolCallBatch` is: its preparing loop, its draining loop, or the `allSettled` of its error path |
| `task[i]` | `absent`, `recorded` (its `tool.call` was dispatched), `queued`/`active` in the scheduler, `resolved` (result promise settled), `finished` (`finish` has run) |
| `exec[i]` | the tool's own promise; it may outlive the result (`raceExecuteWithGraceTimeout`) |
| `PrepareRunnable`, `PrepareResolved`, `PrepareSkipped` | the outcomes of `prepareToolCall`: hooks, schema and approval are inputs |
| `Add`, `Finish` | `ToolScheduler.add`, and `finish` with `startQueuedTasks` |
| `Resolve`, `ToolReturns` | a result is in, by the tool or by the grace timeout after an abort |
| `Drain`, `DispatchFails`, `Exit` | results in provider order; a dispatch that throws; the wait for what was added |

The scan of the queue is one set expression (`Released`); `ScanReleases` of
`MCToolBatch` compares it with the code's loop, folded task by task. With
`ConflictIsExact` it is the invariant `SchedulerExact`.

`ToolOrder` knows neither scheduler nor cursor: calls arrive, start when no
conflicting call is running and no earlier conflicting one may still run, and
end or are dropped. `ToolBatch!Order` instantiates it (`Fate` is the mapping),
and `ProviderOrder` is a property of a run and a theorem.

### TurnFlow

One agent: `TurnFlow`, `FullCompaction` and `GoalMode` are one module, since
none of them has a meaningful step without the others. The rule for steps:

> A step begins where something outside answers and runs to the next await on
> something outside. Whatever runs after a promise that has *already* settled
> belongs to the step that settled it.

So the end of a turn, the goal driver's decision, the release of the slot and
the launch of the next buffered input are one step (`TurnOver`), as they are
in `turnWorker`: there is no outside await between them.

| specification | code |
|---|---|
| `turn` | `activeTurn` with the locals of the step loop; `phase` is the await it is at: `opening` (prompt hook, MCP start-up), `step` (head of the loop), `blocked` (on a compaction), `call` (model and tools), `stopHook` |
| `buffer`, `place[i]` | `steerBuffer`, and where each input is: in the history (`context`), in some request already (`seen`), discarded by Stop (`dropped`), refused as busy |
| `comp`, `stage[c]`, `cancelled` | `compacting`; the worker of each compaction begun (a worker outlives its cancellation); its abort controller |
| `goal`, `external`, `armed`, `background` | the goal's status, whether its user activated it since the last launch, the idle timer, and whether background work runs or its notice is on the way |
| `Prompt`, `Steer`, `Cancel`, `CancelCompaction`, `BeginManualCompaction`, `UserGoal` | the RPC methods |
| `BeginStep`, `Unblocked`, `StepEnds`, `StepFails`, `StopHookAnswers`, `AfterStop` | `runTurn`'s loop, `beforeStep`, `executeLoopStep`, the passes of `shouldContinueAfterStop` in their order |
| `TurnOver`, `OrdinaryOver`, `DrivenOver`, `Release`, `Continuation` | `turnWorker`, `driveGoal`, `launchBufferedSteerIfIdle` |
| `SummaryApplied`, `SummaryLost`, `Reinjected`, `Finished` | `compactionWorker`, `compactionRound`, `onCompactionFinished` |

Abstracted: token counts (whether a compaction is due is a choice), the
streaming and the retries inside a step, the contents of messages, the budget
arithmetic of a goal (being over budget is a choice), turn ids (one turn is
registered at a time). A tool batch is part of `call`: `ToolBatch` shows that
it ends.

Two constants are switches on what the environment may do, because the code
treats these cases differently and properties hold on one side only:
`CancelStages` (in which stages a user cancels a compaction) and
`LateFailures` (whether a summarizer whose signal was aborted can still fail
with another error, e.g. of the credentials it fetches without that signal).
Neither restricts the runs that look for what goes wrong (section 4), nor the
liveness run.

### BackgroundTasks

| specification | code |
|---|---|
| `task[t]` | a managed task: `phase` is the await its lifecycle is at (`racing` worker against deadline and stop, `grace`, `forcing`, `persisting` the terminal record, `building` the notification), with its queue of record writes and its queue of log appends |
| `waiter[t]` | the tool call that waits for a foreground task |
| `disk`, `log`, `delivered` | the record, `output.log`, and the notifications in the session's history: these survive a crash |
| `scheduled`, `steered` | notification keys this process has scheduled; those in the steer buffer |
| `ghosts`, `process` | the tasks `loadFromDisk` found; marking and restoring at start-up |
| `Register`, `Output`, `Stop`, `Timeout`, `CallerAborts`, `Detach`, `Suppress` | the manager's methods and signals |
| `WorkerEnds`, `GraceOver`, `Forced`, `RecordWritten`, `OutputWritten`, `Notify`, `Deliver` | the continuations of the awaits, and the arrival in the history |
| `Crash`, `Restart`, `MarkLost`, `Restore` | the end of the process at any point, `loadFromDisk`, `markLoadedTasksLost`, `restoreBackgroundTaskNotifications` |

A record write or a log append is one step, in the order of its queue; with
`WriteFailures` it may fail, which the code swallows. A write that fails while
tasks are marked lost rejects the resume of the session: nothing of the process
is left, so it is the same as `Crash`. Task ids are never reused (they are
random), hence `used`.

### The services

Ten modules, one per component; `MCServices` instantiates them side by side.
They share no variable (where one needs another, the other is an environment
inside it, as said below), so a behaviour of `MCServices` is a behaviour of one
of them, chosen by `component` at the start.

**RecordLog.** A record is its number, a line of the file is a record or junk.

| specification | code |
|---|---|
| `pending`, `clear`, `failed` | `pendingRecords`, `shouldClear`, the sticky error of `FileSystemAgentRecordPersistence` |
| `LogRecord`, `Flush` | `AgentRecords.logRecord` with its metadata record, `flush` |
| `TakeBatch`, `OpenFile`, `WriteDone`, `WriteFails` | `drainBatch` between its awaits; a failed or interrupted write leaves any prefix of the batch, torn or not (`Reach`, `Cuts`) |
| `Crash`, `Resume` | any end of the process; `replay` with its rewrite when the file is of an older version |

**CronTask.** A clock of ticks, an expression that names every `Period`-th one.

| specification | code |
|---|---|
| `tick` | `CronScheduler.tick` for the task: base, coalescing (`Due`), delivery (`FireRecurring`, `FireOnce`), cursor (`Advanced`), in one step as in the code |
| `works`, `WriteDone`, `WriteFails` | `persistQueues` of `CronManager`: the write of a record and the removal of its file, in order |
| `stop`, `Exit`, `Crash`, `Resume` | the orderly end, which waits for the queue; a crash; `loadFromDisk` |

**PromptService.** The core is an environment that runs one turn at a time and
starts some of its own accord; calls, answers and events travel on `wire` in
order, as in `rpc/client.ts`.

| specification | code |
|---|---|
| `queue`, `active`, `turnOf`, `aborted` | `_queued`, `_active`, and `turnId` and `aborted` of a prompt's state |
| `Submit`, `CaptureFails`, `Arrive`, `Answered`, `Requeue`, `Failed` | `submit` and `_startPrompt` between their awaits |
| `Deliver` | `_handleBusEvent` for `turn.started` and `turn.ended`, with the start of the next prompt |
| `Steer`, `SteerArrives`, `SteerFails`, `Abort`, `AbortQueued`, `Aborted` | the other methods |

**Brokers.** Requests and events on their way to the server are in `wire`.

| specification | code |
|---|---|
| `Ask`, `Abort`, `EndTurn` | `requestToolApproval` and `AskUserQuestion` inside a turn; the signal of the turn, which the question broker hears and the approval broker does not |
| `Arrives`, `Resolve` | `request`, `dismissForAgent` on `turn.ended`, `resolve` |

**EventGateway.** The failures of a session and one client with a cursor.

| specification | code |
|---|---|
| `Publish` | `_dispatch`: number, journal line, replay buffer, fan-out |
| `Lands`, `WriteDone`, `WriteFails` | `flushOnce`; `FlushForRead` is the flush before a read |
| `Connect`, `Replay`, `Read`, `Acknowledge` | `syncSessions`: from the buffer, from the file, or `resync_required` |
| `Stop`, `Open` | the end of the server and `SessionEventJournal.open`, which goes on in the epoch or starts another |
| `Receive`, `Disconnect`, `CutShort` | the error channel of the web application (`useGlobalErrors.ts`) |

**Snapshot.** `StatFile`, `ReadFile` and `Store` are `_readTranscriptCached`
between its awaits, `Watermark` is `getSnapshotState`; `Begin`, `Log`,
`WritePiece`, `WriteLine` and `Dispatch` are a turn that streams, logs, is
written and announced meanwhile.

**ServerLock.** A step is one file operation or one check.

| specification | code |
|---|---|
| `Acquire`, `WriteContents`, `Refused`, `Stale`, `Clear`, `Retake`, `SlippedIn` | `acquireLockSafe` and `tryExclusiveCreate` |
| `CheckReady`, `MarkReady`, `CheckRelease`, `Release`, `ReleaseForeign` | the handle of `makeReleaseHandle`, check and act apart |
| `End`, `Recycle` | a process ends anywhere; its pid is given to another program |
| `Consider`, `Foreign`, `DecideToDelete`, `Delete`, `Dismiss` | the desktop application: `ensure-server.ts`, `control.ts` |

**McpConnections.** Up to `Op` calls of `connect`, `reconnect`, `remove` and
`shutdown` on one name. `X` and `XOn` are the code before and behind the close
of an earlier client; `Started` and `StartFails` are the two ends of
`connectOne`, `Drops` is `watchForUnexpectedClose`. `try` against `attempt` is
the test of `isCurrent`.

**TokenRefresh.** `Begin` to `Tombstone` are `doEnsureFresh` between its awaits,
per process; `honored` is what the provider would accept, `severed` that its
answer was lost for good. `Login`, `Logout`, `Age` and `Revoke` are the user and
time.

**TeamAssignments.** The parent's session and those of its members. A member's
record (`assignedAt`, `teamReport`) is in its own session (`child`) and as a copy
in the parent's `departmentSnapshots` (`cache`).

| specification | code |
|---|---|
| `Put`, `Land`, `Refresh` | `writeDepartmentMemberState`: the copy at once, the member's session when `patchMember` gets there; `refreshDepartmentDirectory` |
| `Assign`, `AssignNext`, `Unavailable`, `Available`, `Start`, `StartFails` | `assignTeam` with `assignTeamTasks`, between its awaits |
| `Notify`, `Remind`, `Release` | `observeTeamAssignmentTurn` after the turn: `notifyMissingTeamReport`, `releaseTeamAssignment` |
| `Lock`, `LockNext` | `lockTeamAssignments`, which goes by the records it read at its begin |
| `Report`, `Receipt` | `recordTeamReport` and `acknowledgeTeamReport` in the member's session |

One call of the leader is under way at a time, since its tools declare no
accesses and so exclude each other; the user's switch into Discuss, which takes
the same lock, is taken as such a call.

Switches that separate what holds from what does not (section 6):
`ServerLock`'s `Overlap` and `LateStarts`, `PromptService`'s `Swift` and
`Overlap`, `McpConnections`' `SlowClose`, `TeamAssignments`' `Coordinated`, the phases in `TokenRefresh`'s
`Overlap`.

### ContextMemory

`context` is the object; the operators from `Push` to `Compact` are its methods
as functions from one value to the next, and `Apply` is `restoreAgentRecord`.
Live code and replay call the same methods, so the log need not be kept as a
sequence: `log` is what replay would make of it (the context it restores, and
whether a record throws on the way), and `Do` is a method that logs and acts.
Records lost with a crash are not modelled here: the log that is left is that of
an earlier crash (what can be lost is `RecordLog`'s subject).

| specification | code |
|---|---|
| `Begin`, `Part`, `Respond`, `StepFails`, `Finish` | `executeLoopStep` with the events it dispatches; `Finish` also without `step.end`, after an abort |
| `RecordCall`, `RecordResult` | `prepareToolCall` and the draining loop of `runToolCallBatch` |
| `StartTurn`, `SteerTurn`, `Notice` | messages by what undo and compaction make of them: user input, other user-role messages, injections |
| `Gate`, `Pop` | the reminder that asks for one more step, and `popMatchedMessage` at the step limit |
| `TakeBack` | `undoHistory`, `clearContext` |
| `BeginCompaction`, `StillCovered`, `EndCompaction` | `FullCompaction.begin` and the two checks of `compactionRound` before `applyCompaction` |
| `Import` | `migrateShadowTranscript` |
| `Messages`, `Prepared`, `Repaired` | the projection: messages without content dropped, results moved to their calls, missing ones made up |
| `Crash`, `Replay`, `FinishResume` | the end of the process and `Agent.resume` |

`Rash` lets undo and clear come while a turn runs, as REST and the SDK allow;
`Pops` and `Imports` switch the two operations that change the history without
a record.

---

## 3. The runs

| run | instance | states | shows |
|---|---|---|---|
| `tool_batch` | three calls, four declarations: a read and an edit of a file, a search of its directory, a shell command; for `SchedulerExact` every pair of accesses over paths of up to two pieces out of `src`, `SRC`, `app` and the empty piece | 197 000 | `NoConflictingExecution`, `NoMissedWakeup`, `NothingLeftBehind`, `NoStartAfterAbort`, the scan's reference loop, the refinement of `ToolOrder`, that the batch ends, and that two calls exclude each other exactly when one may have any effect or one writes and both touch some file of the tree |
| `turn_inputs` | two messages, one notification, two compactions that only an aborted turn cancels, one overflow retry, one output-limit pass, no step limit | 331 215 | a turn that ends of itself leaves no input unanswered; prompts do not overtake deferred inputs |
| `turn_compaction` | three compactions that may be cancelled while they summarize, one message, one notification, a goal of user or model, background work, a step limit of two | 1 955 725 | the context has one holder, no request misses the reminders, no input is stranded, an active goal is pursued |
| `turn_live` | one message, one notification, two compactions cancelled at any stage that may fail late, an overflow retry, a step limit of two | 47 302 | buffered inputs leave the buffer, aborted turns settle |
| `background_tasks` | two tasks, one slot in the background; one of them with three chunks of output of which one is held in memory, or both silent; two crashes | 266 432 | the log is in order, a waiting tool call's task is not announced, a notification comes after the output it points at and never says what the record does not |
| `background_live` | one task, failing writes, two crashes | 15 627 | stops and timeouts settle, a detached task's end reaches the agent |
| `context_memory` | two steps with up to two calls each, two messages of any kind, one undo or clear (not during a turn), compactions that overlap steps, a reminder taken back, a transcript copied in, one end of the process with its resume | 220 803 | `RequestWellFormed`: every request pairs calls with results; `Resumes`: a resume restores what was there (`ResumeAgrees`), and no record throws on replay (`Resumable`); `IncomingDelivered`: messages keep their order (`IncomingInOrder`), and none is held back for ever (`NothingHeldBack`); `NothingUncovered`: no compaction takes away what its summary does not cover |
| `services` | see below | 1 118 396 | the properties of the ten services |

The instances of `services`, and the properties beside one `TypeOK` for all:

| component | instance | property |
|---|---|---|
| `RecordLog` | three records, two crashes, one migration | `LogKept`: what was flushed is replayed after any crash or failed write, unless a rewrite was cut short or a torn line was written behind (`FlushedSurvives`), and no record is on disk without the ones before it (`NoHoles`) |
| `CronTask` | occurrences every second of nine ticks, jitter one, coalescing up to two, expiry after five, two ends of the process | `OccurrencesOnce`: an occurrence is in one delivery (`CountedOnce`), and the cursor never moves past one that no delivery counted (`NonePassedOver`) |
| `PromptService` | three prompts, one turn of the core's own | `PromptsServed`: a prompt is in one place and its end is published once (`PromptAccounted`), and an idle core has an empty queue (`NotStranded`) |
| `Brokers` | two agents, two turns each | `RequestsFollowTurns`: nothing is pending of a turn known to be over, and an agent still waiting finds its request |
| `TeamAssignments` | one member and two assignments, two members and one | `TeamAccounted`: a member that reported in its turn is not told that a report is missing (`NoFalseReminder`); a lease lasts from its call to the end of the turn, and no late release takes a newer one (`LeaseFollowsTurn`); as long as the parent's copies are fresh (`Coordinated`) |
| `EventGateway` | three events, a buffer of two, one restart, one cut, failing writes | `JournalExact`: a client that has read everything missed no failure without being told (`NoSilentGap`), and within an epoch no number is given twice (`NumbersOnce`) |
| `Snapshot` | two items, two snapshots at once | `SnapshotFresh`: no snapshot is older than its request |
| `ServerLock` | three servers, the desktop, recycled pids | `LockNamesItsHolder`: the file at the path is that of the server that believes to hold it |
| `McpConnections` | four calls | `NoOrphanClient`: a client that is up belongs to the entry in the map |
| `TokenRefresh` | two processes, three tokens | `StoredTokenUsable`: the stored token is one the provider accepts, unless its answer was lost; `NoFalseTombstone`: a tombstone replaces only a token the provider rejects |

With nothing to keep its takeovers apart (`race`), `ServerLock` is checked for
its types only: this shows that the interleavings of section 6 are in the model.

The other four runs end in a counterexample and are section 4.

### Why the bounds are enough

* Three calls are the smallest number with a call that waits behind a queued
  one, which the scheduler's order is about; four declarations give each of the
  cases of `ToolAccess` (shared, exclusive, containing, everything).
* The buffer of `TurnFlow` matters as empty, one, and more than one input with
  an order; `turn_inputs` has three. The stale slot of a compaction needs a
  cancelled worker, a newer holder and a further one: three compactions.
* `MaxSteps = 2` makes the limit bite in the middle of a turn; 0 (no limit) is
  the other branch of the code and the default.
* Two crashes give a crash during the recovery from a crash. Three chunks with
  one held back give a prefix in memory, one spilled and one in the live queue.
* In `ContextMemory` two calls give an exchange that is half answered, two steps
  one that a later step closes, two messages one on either side of a call or both
  behind it; an import takes two of them. A third message was checked once
  (2 727 234 states) and is too slow to be checked every time; that the properties
  do not depend on these numbers is proved (section 5). A step streams one block of
  text: further blocks change the same message.
* In `TeamAssignments` a second assignment of the same member is what a late
  observer of the first can hurt; a second member is what a call that is half
  done and a lock that goes by old records are about. The two are separate
  instances.
* `background_tasks` leaves out that one task prints while the other does
  (`OneOrSilent`): tasks share only the slots in the background and the order
  of notifications, neither of which depends on output.
* In the services three of each is the smallest number with a first, a last and
  one between: three records give a batch that fails in its middle, three events
  with a buffer of two one that only the file still has, three servers one that
  comes while a second takes over from a dead first. Four calls of the MCP
  manager give an entry, its replacement and two calls that overtake both. Nine
  ticks let a recurring task be coalesced, capped and expire.
* Model values that are interchangeable are symmetric in the safety runs only.

Deadlock checking is off in `TurnFlow`, `BackgroundTasks`, `ContextMemory` and the services:
inputs, tasks, prompts and calls are submitted once, so a run may end idle. `ToolBatch` has it on,
with `Done` as its explicit end.

### Fairness

* `ToolBatch`: continuations of settled promises run (`Runtime`, `Exit`), and
  after an abort the hooks and the approval give control back, as they receive
  the signal. A tool is never assumed to return: `BatchEnds` says the batch
  ends *or* waits forever for something outside that nobody aborts.
* `TurnFlow`: weak fairness of the turn's step and of each compaction's worker:
  the model, the hooks and the summarizer answer or time out. Nothing is
  assumed of users, hosts, background tasks or tools that change the goal.
* `BackgroundTasks`: timers fire, file operations and forced stops return, and a
  session that crashed is opened again. Workers need not end: that is what stop
  and grace are for.
* `ContextMemory` and the services state no fairness: what is checked of them is safety.

---

## 4. What the runs found

Four runs check what a comment, a message or an assertion of the repository
promises and end in a behaviour of the code that breaks it.

* **`turn_bare_request`** (`full.ts:204` against the comment at `full.ts:327`).
  A compaction stays "compacting" through the reinjection of reminders, so that
  no request is built before they are back - but its cancellation clears
  `compacting` at any stage and nothing aborts the refresh. The next prompt is
  launched at once and its request lacks the reminders. `CompleteRequests`
  (section 5) proves that this is the only way, late failures aside.
* **`turn_unanswered`** (`turn/index.ts:459` against the comment at `:450`). A
  cancelled compaction that settles during a later turn flushes the buffer into
  that turn's history; `shouldContinueAfterStop` finds the buffer empty, the
  turn ends, and the input is neither answered nor buffered.
* **`record_log_torn`** (`persistence.ts:184` against the comment at `:211`). The
  reader tolerates a torn last line, since "everything before is still
  well-formed". The writer then opens the file with `a` and appends behind the
  piece: the two are one line that ends in a line break and does not parse, and
  from then on every read of the session throws.
* **`context_undo`** (`context/index.ts:489` against its own check at `:542`).
  Nothing refuses an undo or a clear over REST or the SDK while a step streams.
  The next event of the step is logged and then throws, since its step is no
  longer open; the record stays, and every resume throws where it is replayed.

Eight more were met. They need no run: the named formula and constants show them.

* `TurnFlow!InterruptPausesGoal` with one message, `Goals = TRUE` and nothing else
  (`turn/index.ts:501` against `goal/index.ts:231`). An ordinary turn in which the
  model created the goal is interrupted: the goal is neither driven nor paused,
  and stays active with nobody to pursue it.

* `full.ts:346`, with `LateFailures = TRUE`, `CancelStages = {"summarizing"}` and
  two compactions: a cancelled worker that fails on its own cancels the
  compaction that holds the context by then, with the same effect as
  `turn_bare_request`.
* `BackgroundTasks!NothingUndiscoverable` (`background/index.ts:417` against the
  comments of `registerTask` and `finalizeTask`). Suppressing the notification
  of a foreground task, as the close of a session does, writes a record with
  status `running` that its end never rewrites; the next process calls it lost.
* `ContextMemory!ResumeRestores` with `Pops = TRUE` (`context/index.ts:174`
  against the contract at `records/index.ts:32`). At the step limit a turn takes
  the reminder it had appended out of the history, without a record; the next
  resume restores it.
* The same with `Imports = TRUE` (`context/index.ts:86` against that contract and
  the notice of `core-impl.ts:1572`). The transcript of a shadow member is pushed
  into the history without a record. After the next resume the member is told
  that its earlier work was copied here, and the work is gone.
* `ContextMemory!OpenOnlyAtTail` (`context/index.ts:587` against the invariant at
  `:39`). A message that comes between the begin of a step and its first tool
  call stands between the calls and their results. The projector repairs it in
  every request, as `RequestWellFormed` shows; the stated invariant does not
  hold.
* `TeamAssignments!NoFalseReminder` with `Coordinated = FALSE`, one member and one
  assignment (`session/index.ts:1666` against the text of its own reminder,
  `:1691`, and `docs/en/guides/team-engineering.md:57`). A member hired by
  TeamCreate is a session of its own, and its TeamDM report is recorded there
  only (`writeSelfTeamReport`). When its turn ends the parent looks at its copy,
  which still says `unreported` unless something has refreshed the directory in
  between. It then tells member and leader that the turn "finished ... without a
  TeamDM report", and `patchMember` writes the copy over the report, which
  TeamStatus ("whether they have reported") shows as missing from then on. No
  race is needed: it is the ordinary course of an assigned turn.
* `TeamAssignments!LeaseFollowsTurn` with `Coordinated = FALSE`
  (`session/index.ts:804` against the comment at `subagent-host.ts:507`). A
  refresh of the directory between the copy and the landing of a write puts the
  old record back into the copy. A lease lost this way is not released when the
  turn ends ("The write lease is tied to settlement"), one that reappears has
  nobody to release it.

`GoalPursued` is stated with the interrupted ordinary turn as an allowed
reason to be idle, so that it says something beyond `InterruptPausesGoal`.
`NoUnansweredInput` and `NoBareRequest` hold in the passing runs because there
no user cancels a compaction, or only while the summarizer runs.

---

## 5. The proofs

All theorems hold for every value of the constants that satisfies the named
assumptions; TLAPS checks them to the last leaf.

### ToolBatchProofs

`IInv` adds to the properties: the cursor separates what was handed over from
what was not (`CursorSplits`), a running call holds its place while nothing was
aborted (`ExecutionIsStarted`), active calls are pairwise disjoint
(`ActiveAreDisjoint`), and no active call has overtaken a queued one it
conflicts with (`NoOvertaking`). The properties alone are not inductive:
`NoMissedWakeup` needs to know that a blocker of a queued call is an *earlier*
one, and after `Finish` the released set must again be disjoint, which follows
only from the order in which the scan looks.

* `TypeCorrect`, `Exclusion` (`NoConflictingExecution`), `Wakeup`
  (`NoMissedWakeup`), `AbortIsFinal` (`NoStartAfterAbort`), `CleanExit`
  (`NothingLeftBehind`).
* `CleanExit` needs one more conjunct, `LeftIdle`: a batch that was left has no
  call queued or active. It is kept because an exit requires everything handed
  over to be finished, and because a pass over an empty queue starts nothing.
* `Implementation`: `Spec => ProviderOrder`. Initial states map to initial
  states; `Add` and `Finish` map to a start of the released calls or, after an
  abort, to their being dropped; preparation maps to an arrival.
* Assumed: `N > 0`, and that exclusion is mutual and spares `NoAccess`.
  `ConflictIsMutual` is that assumption for the relation of
  the code; `ReadersShare` says that any number of readers overlap.

### TurnFlowProofs

`IInv` holds for every value of the constants; four more invariants stand on it,
some of them under a condition.

* `IInv` = types, `NoStrandedInput`, and `HolderLives`: the compaction named by
  the slot has a live worker and was not cancelled. Without it
  `NoStrandedInput` is not inductive: an input buffered behind a slot whose
  worker is gone would have nobody to replay it. `Finished` is the heart of the
  proof: the worker that goes last launches what waits. It gives `TypeCorrect`
  and `NoneStranded` with no condition - compactions may be cancelled at any
  stage and fail as late as they like.
* `Held`, under `CancelsInTime` (`CancelStages \subseteq {"summarizing"}` and no
  late failures): a turn that is not waiting is alone but for cancelled
  summarizers (`Quiet`); every other live worker is the holder; a worker that
  was cancelled after its summary was applied has the turn that cancelled it
  waiting for it; a blocked turn waits for the holder. It gives `HeldContext`
  (`ContextHeld`) and `CompleteRequests` (`NoBareRequest`). The third conjunct
  is why Stop, unlike the cancellation of the compaction, cannot produce a bare
  request: the blocked turn keeps its slot until the worker is over.
* `OrderInv`, under `OnlyTurnsCancel` (`CancelStages = {}`): an idle agent whose
  context is free has an empty buffer (`Ready`), and what is in the buffer has
  arrived before (`Arrived`). The second is needed because ending a turn launches
  the head of the buffer: it must not be a newcomer. It gives `InOrder`
  (`NoOvertaking`).
* `AnswerInv`, under `Patient` (`CancelStages = {}`, no late failures, no step
  limit), with `Held`: a cancelled worker is waited for by the turn that cancelled
  it (`WaitedFor`), so that no worker writes into the history of a turn that is
  past its request; what is marked as waiting is in the buffer (`Waits`), so that
  an empty buffer means that a flush adds nothing; and after a request the
  history holds nothing unasked (`Taken`). That Stop keeps every notification,
  being a strictly increasing choice of as many positions as there are, is the
  pigeonhole principle. It gives `AllAnswered` (`NoUnansweredInput`); section 4
  has the behaviour without the condition.
* `PursuedInv`, with no condition: whenever an idle agent has an active goal one
  of the reasons of `GoalPursued` holds or a notification waits in the buffer.
  `NoStrandedInput` turns the latter into a launch once the compactions are over.
  It gives `GoalsPursued` (`GoalPursued`).

`Cancel` keeps notifications in their order by choosing the increasing
enumeration of the positions kept rather than with `SelectSeq`, whose recursive
definition the provers cannot use; the two are the same sequence.

### BackgroundTasksProofs

Three invariants over the tasks, their records and their output.

* `IInv` = types, `Fresh` (of an id that was never generated nothing is known),
  `GhostsAreOld` (a record restored from an earlier process is not that of a
  live task, and none still says "running" once they are marked) and `Ends` (a
  tool call waits only for a task that is not detached, and a live task of which
  a notification exists is detached). Types alone are not inductive: that a
  restored notification names an end needs `GhostsAreOld`. It gives
  `TypeCorrect` and `ReportedOnce` (`NoDoubleReport`) with no condition.
* `Recorded`, when writes succeed (`~ WriteFailures`): while the end of a task
  is persisted, the last write queued carries it and is the one awaited; while
  its notification is built, nothing is queued and the record on disk has its
  status; once announced, no write is queued that could change the record. It
  gives `NoticesRecorded` (`NoticeMatchesRecord`). That the queue is empty is
  the point of the proof: a suppression or a detach may queue a record with
  status "running" just before the end, and only awaiting *all* of the queue
  keeps that record from being the one on disk.
* `Kept`, when writes succeed: the log, the queued appends and, before the first
  of them, the output in memory are consecutive stretches of what was printed;
  while a notification is built, the append after those it awaits starts beyond
  the output the task ended with. It gives `CompleteLog` (`LogInOrder`) and
  `OutputFirst` (`NoticeAfterOutput`, an action property).

With failing writes the last two are false, and rightly: an append that fails
leaves a gap in the log, a record that fails leaves the old one on disk, and
the code swallows both errors.

### ContextMemoryProofs

`TypeCorrect`, `RequestsFit` (`RequestWellFormed`), `ResumesAgree` (`Resumes`),
`AllDelivered` (`IncomingDelivered`) and `SummariesCover` (`NothingUncovered`), for
any number of messages, steps, calls, undos and ends of the process. Assumed is
`Calm`: the bounds are numbers, and undo and clear come between turns (`~Rash`;
`context_undo` is the behaviour without). `IInv` says

* of the history, and of the one the log restores, that they are sound (`Sound`):
  every result follows the call it answers, no call and no result is there twice,
  what came in is in order, and what is deferred came in later and waits for a
  result;
* of the turn, that a step that runs is open in both and has none of the calls
  that are still to come (`TurnKept`). Without it the record of a call could throw;
* that the agent and its log await the same results, those the turn still owes,
  and are alike unless something changed the history past the log (`Agreed`);
* that a call without a result that nobody awaits has been overtaken by a message
  (`Overtaken`). This is what a request needs: `Repaired` makes up a result only
  for a call that a message shows to be over;
* that the step that runs is not in what is being summarized (`Covered`), so that
  a summary is not applied while it runs (`NotInStep`).

None of the properties is inductive. `SoundClose` is the induction of the end of a
resume, which closes what is pending call by call; `Exchanges` says that a request
is a sequence of messages each followed by one result per call, and `RepairedFits`
that the projection builds one, message by message (`ExchangesConcat`). What is
left of a history after an undo or a compaction is numbered by the increasing
enumeration of the positions kept (`Those`, `Ranked`), since the provers cannot
use `SelectSeq`.

### EventGatewayProofs

`NoEventMissed` (`NoSilentGap` and `NumbersOnce`), for any number of events, cuts
and restarts and a replay buffer of any size; assumed is only that this size is a
number. Neither conjunct is inductive. `IInv` holds as long as nothing was lost
(`~hurt`: no line lost to a crash or a failed write, no replay cut short behind a
live frame), and has two halves.

* The server: the number of an event is the order of its publication, in one
  epoch (`Numbered`); the lines of the file, of the write under way and of the
  queue behind it are the whole journal, one behind the other (`Journalled`); the
  buffer holds its last events (`BufferHolds`). Without the second a restart could
  resume from a number that is too low, and a replay from the file could leave
  out what is still in the queue: that the drain is awaited before the file is
  read is used exactly there.
* The client: what it is owed was seen, or is on the link, or comes after the
  cursor it sent and is still to be replayed (`ToReplay`, `Replayed`, by the stage
  of the synchronisation). The difficulty is that it is subscribed *before* the
  replay is read: live frames overtake the replay, so what the client received
  says nothing of what is missing. What does is the cursor it asked with, up to
  which it has everything until the acknowledgement brings another (`Unsynced`);
  and behind the acknowledgement only live events with consecutive numbers follow
  (`AckThenLive`), so that from then on it has all but what is on the link
  (`Synced`).

`AfterIs`, `BufferSince` and `FileSince` are the lemmas it leans on: the buffer
serves a cursor exactly when it still holds the event behind it, and then both
sources yield precisely the events the client lacks. `After` enumerates the
positions it keeps instead of calling `SelectSeq`, whose recursive definition
the provers cannot use.

### PromptServiceProofs

`NoneLost` (`PromptAccounted` and `NotStranded`), for any prompts and any number
of turns, while the calls to the core cross one at a time (`InTurn`). Neither
property is inductive; `IInv` adds

* where a prompt is at each stage of its start and what was told of it
  (`Queues`, `Places`): one that waits was never started, and of one that is
  neither waiting nor active the end was published;
* that one prompt is started or active at a time (`OneStart`);
* what is on its way from the core (`WireOrder`): at most the end of the turn
  before, in front; the start of the running one; and the answer to the one
  call there is, behind them;
* what the core made of the prompt that was sent (`Calls`): the active prompt
  has the number of the running turn, or of the one whose end is the next thing
  to arrive. This is the heart: `_handleBusEvent` takes the *first*
  turn.started for the prompt's, and the proof is that it is;
* that something is still to come that starts the next prompt (`Served`).

`Handover` is the lemma for every place that calls `_startNextQueued`. `Without`,
which takes prompts out of the queue, is a recursive function, so that what it
keeps is provable (`WithoutIs`).

### TeamAssignmentsProofs

`CoordinatedAccounts` (`NoFalseReminder` and `LeaseFollowsTurn`), for any members,
assignments and turns, under `Coordinated`: the parent and a member write the
record in turn. The invariant follows a report through all copies of the record
(`ReportKept`): the member's own, the parent's, the writes on their way and what
`lockTeamAssignments` has read before its awaits. `CopyAgrees` says that the
parent's copy differs from what will be there in nothing but what a report
changes, `BeingMade` what holds between the writes of one TeamAssign and its
starts, and `TurnsObserved` that a turn of an assignment has somebody to release
its lease.

### ServicesProofs

For each service the theorem that its property holds of `MCServices!Spec`: the
statement TLC checks, for every value of the constants that satisfies
`BoundsAssumption`. For the gateway, the prompt queue and the team
the inductive invariant is instantiated from their own modules (`GatewayProof!IInv`
and so on; the `...Same` lemmas say that the two instances of a component are one);
the others are proved here.

* `LockHeld` (`LockNamesItsHolder`) and `OneServer`: at most one process is
  changing the owner and nobody holds the lock then (`LockOneChange`), a file
  just created is still the one at the path (`LockOpenedThere`), and only pids
  of ended servers are recycled. The property alone is not inductive: a server
  that deletes a dead owner's file must know that nobody has taken the path
  since it looked.
* `NoneOrphaned` (`NoOrphanClient`): the attempts of the calls on one entry are
  distinct and none is ahead of the entry's counter (`McpCounted`,
  `McpDistinct`), so that at most one call passes `isCurrent`; the entry holds
  that call's client (`McpCurrentOwns`); and nothing is up while a close is
  waited for (`McpQuiet`), which is what lets `remove` and `connect` take the
  entry away afterwards.
* `OccurrencesCounted` (`OccurrencesOnce`): every record that may still be
  resumed from accounts for all occurrences up to its cursor, the queued writes
  included (`CronAllCovered`), and the one a tick goes by, or the next resume
  will, has no occurrence past its cursor that the ends of the process do not
  excuse (`CronBaseSettled`).
* `RequestsEnd` (`RequestsFollowTurns`): what an agent sends arrives in the order
  of its turns, the end of each last (`BrokerInOrder`); a pending entry arrived
  behind everything of the turns before (`BrokerPendingNext`), so that the end
  of another turn cannot take it away; and an approval whose turn is over has
  that end on its way (`BrokerApprovalsHeld`).
* `SnapshotsFresh` (`SnapshotFresh`): the size a transcript is cached under was
  found no later than the transcript was read (`SnapshotSizeFirst`), hence a
  cached transcript covers a file of that size (`SnapshotCacheCovers`).
* `TokenUsable` (`StoredTokenUsable`) and `TombstonesEarned` (`NoFalseTombstone`), for
  any number of processes, crashes and lost answers: a process past the lock has
  it to itself (`TokenAlone`), a rejected token stays rejected and the one to be
  condemned is still the one in the file (`TokenRejected`), and a used-up token in
  the file has somebody about to replace it (`TokenReplaced`). The last two are
  what a refresh relies on across its awaits. They need what the instance has:
  the lock is in use, and no login or logout falls between the answer and its
  save or between the last look and the tombstone.
* `LogIsKept` (`LogKept`), for any number of records, crashes and upgrades. The
  invariant says what memory, drain and file have in common while the file is not
  spoiled (`LogIntact`): what is on the disk, the batch being written and what is
  pending are, one behind the other, what the agent has in memory; after a failed
  write the disk holds a beginning of it; a rewrite has either emptied the file or
  not touched it; and what a flush returned for is a beginning of both.
  `LogDrainWorks` says what the drain holds at each of its stages; without it a
  rewrite could start behind a batch. `LogReachKeeps` is the lemma the rest leans
  on: wherever a write ends, the file has grown by a beginning of the batch, or a
  line was torn.
* `NoneMissed` (`JournalExact`), `PromptsAccounted` (`PromptsServed`), `TeamSafe`
  (`TeamAccounted`): the theorems of the three modules above, under the conditions
  the instances have.

### Only model-checked

Liveness and fairness (`BatchEnds`, `InputConsumed`, `AbortSettles`,
`StopSettles`, `NoticeNeverLost`) are outside this prover, and so is what the
loops over sequences of `MCToolBatch` compute: `SchedulerExact`
(`ConflictIsExact`, `ScanReleases`). `MCServices!TypeOK` is proved of the
components whose invariants contain it (lock, connections, tokens, approvals,
snapshots, the team) and not as a whole.

---

## 6. What is not modelled

Of the modelled components:

* Turn flow: replay of a persisted session (`restorePrompt`, `finishResume`),
  the phases of the Nori workflow other than its review pass, telemetry. The
  restarted step count after an overflow (`turn/index.ts:1216`) is modelled as
  the code has it; no text says what the limit ought to span.
* Goal: accounting and budget arithmetic, rewind checkpoints, replay.
* Compaction: micro compaction, the shrinking retries of the summarizer (one
  stage here), token estimates.
* Background: the reading operations, the ring buffer of recent output, legacy
  records. With failing writes a notification can contradict its record
  (`background/index.ts:632`): `NoticeMatchesRecord` is therefore checked
  without them, `NoticeNeverLost` with them.

* Context memory: token accounting, micro compaction, the transient reminder,
  the strict projection after a rejected request, the content of messages,
  legacy compaction records. `Resumable` is checked with undo and clear between
  turns (`context_undo` shows why), `ResumeAgrees` while nothing has changed the
  history past the log (`unlogged`). An undo that asks for too much changes and
  logs the history, throws, and so skips the rewind of the goal that a replay
  does (`agent/index.ts:407`, `records/index.ts:123`).
* Background also: tasks detached from the foreground do not count against
  `maxRunningTasks` (`background/index.ts:259`); the admission rule is modelled
  as it is. A failed write while loaded tasks are marked lost rejects the resume
  (`:607`), modelled as a crash.
* At the step limit an outcome message is dropped together with the steered
  inputs flushed just before (`turn/index.ts:1090`); `NoUnansweredInput` is
  checked without a limit.

Of the services, what the code does not guarantee and the properties exclude:

* **ServerLock.** Two takeovers at once: both find the owner dead, one unlinks
  and creates the lock, the other unlinks that fresh lock and creates its own
  (`lock.ts:342`). The desktop's stop of an owner it took for foreign against a
  server that is slow to start. `Overlap` and `LateStarts` allow both;
  `OneHolder` is false then.
* **EventGateway.** Numbers reach clients before their lines reach the disk:
  after a crash or a failed write (`sessionEventJournal.ts:193`) the same epoch
  gives them again. A connection that is cut during a replay, after a live frame
  has overtaken it, leaves a cursor ahead of what was received. `hurt` records
  all three, and the properties are about behaviours without.
* **Snapshot.** The records of the agent are written behind its events: an item
  whose event is numbered before its line is in the file is in neither the
  transcript nor the turn in flight of a snapshot taken then, and no event
  follows for it. `protocol/src/rest/snapshot.ts:11` says "No gap and no
  duplication by construction"; the retry that the lines below it ask for is not
  made. `inFlightTurnTracker.ts:74` relies on the same order.
* **PromptService.** A turn that starts or ends while a call crosses to the core
  (`Swift`): a prompt sent back as busy keeps the id of a turn that is not its
  own. Two prompts started at once (`Overlap`, `promptService.ts:348`): the
  second overwrites the first, whose end is never published. A failed submit or
  steer leaves the queue to the next turn's end. Not modelled: a cancel that
  fails, the close of the session, the shadow of the agent's settings.
* **McpConnections.** A client that starts within the time another takes to close
  (`SlowClose`): `remove` deletes whatever entry the map has by then
  (`connection-manager.ts:197`), and a connect resumed after a shutdown opens a
  client again (`:181`).
* **TokenRefresh.** A login or a logout between the provider's answer and the
  save, or between the last re-read and the tombstone, is overwritten
  (`oauth-manager.ts:335`, `:388`). The instance excludes these two phases.
* **RecordLog.** A crash in the rewrite of a migration loses what the file had,
  and one behind a torn line what follows: `cut` and `glued` mark them.
* **CronTask.** A task fired before its cursor is on disk fires again after a
  crash (`cron/scheduler.ts:349`); `CountedOnce` excepts the occurrences behind
  a file that was not up to date. The parser of expressions, several tasks
  and a clock that jumps back are left out.
* **Brokers.** Questions asked in the background, the memory of recently
  resolved ids.
* **TeamAssignments.** `Coordinated`: the parent and a member write the record in
  turn, the parent from a fresh copy; the code does not see to either (section 4).
  A write that fails in the middle of TeamAssign leaves the leases of the members
  before it (`session/index.ts:1464`), one that fails in an observer, or an end of
  the process, the lease of its turn. After the receipt of a report a second one
  of the same assignment is dropped without a word (`:1533`), modelled as it is.
  Other turns of a member (`Prompted`) are prompts by its user, a peer or a
  broadcast; hiring, dismissal, Chat, discussions and the read-only lock of the
  tools are not modelled, nor a member that is an agent of the same session.

Components not modelled at all are in `PROJECT.json`, each with its reason:
planned (section 7), sequential code over one data structure that unit tests
reach (permissions, stores), or I/O, translation and rendering
without a state of their own worth a model. They are most of the repository's
lines: the user interfaces, the terminal library, routes, providers and tools.
A weak spot noticed there: an assigned prompt that a compaction defers counts as
started by whatever turn runs after it (`subagent-host.ts:1541`), and that turn
is the one observed; `Start` has the turn of the assignment itself.

---

## 7. Plan

What is left, in order of importance.

1. The discussions of a department (rounds, votes, dismissal meanwhile) on top
   of `TeamAssignments`, then the mount forest of the session.
2. An abstract turn flow (idle or busy, turn events in order) that `TurnFlow`
   implements and `PromptService` and `Brokers` use as their environment, so
   that the two compose by proof instead of by assumption; the same for
   `RecordLog` under `Snapshot`.
3. Liveness of the services: a queued prompt is started, a resynchronised client
   catches up, a refresh ends.
4. Proofs: the types of the gateway's state after a loss, of the clock of a
   scheduled prompt, and with them `MCServices!TypeOK` as a whole.
