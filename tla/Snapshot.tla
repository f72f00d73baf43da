------------------------------ MODULE Snapshot ------------------------------
(***************************************************************************)
(* The state a client starts from: SnapshotService.read                    *)
(* (packages/server/src/services/snapshot/snapshotService.ts) combines the *)
(* watermark and the turn in flight of the broadcast (wsBroadcastService   *)
(* getSnapshotState, inFlightTurnTracker.ts) with the transcript in the    *)
(* file wire.jsonl, through a cache, while a turn goes on.                 *)
(*                                                                         *)
(* The turn is a sequence of items: the text of a step or the result of a  *)
(* tool.  An item first streams, then its record is logged and written in  *)
(* the background, then a durable event says that it is over.  An item is  *)
(* its number.                                                             *)
(***************************************************************************)
EXTENDS Integers

CONSTANTS
    Request,     \* the snapshots that may be read at the same time
    MaxItems,    \* bound: items of the turn
    MaxReads     \* bound: snapshots read

VARIABLES
    streaming,   \* the next item is streaming
    logged,      \* items whose record was logged
    seq,         \* items whose event was dispatched; the journal's sequence number
    written,     \* records that are complete lines of the file
    part,        \* the file ends with a piece of the next one
    cache,       \* the entry of _transcriptCache: {} or {[size, items]}
    stage,       \* per request: how far _readTranscriptCached is
    size,        \* per request: the size of the file it found
    items,       \* per request: the transcript it has
    mark,        \* per request: the snapshot state it has, {} or {[seq, flight]}
    before,      \* per request: what was in the file when it began
    reads

turn == << streaming, logged, seq >>

file == << written, part >>

request == << stage, size, items, mark, before >>

vars == << turn, file, cache, request, reads >>

Item == 1..MaxItems

Size == (0..MaxItems) \X BOOLEAN

TypeOK ==
    /\ {streaming, part} \subseteq BOOLEAN
    /\ {logged, seq, written} \subseteq 0..MaxItems
    /\ seq <= logged /\ written <= logged
    /\ cache \subseteq [size: Size, items: SUBSET Item]
    /\ stage \in [Request -> {"idle", "stat", "read", "store", "ready", "answered"}]
    /\ size \in [Request -> Size]
    /\ {items, before} \subseteq [Request -> SUBSET Item]
    /\ mark \in [Request -> SUBSET [seq: 0..MaxItems, flight: SUBSET Item]]
    /\ reads \in 0..MaxReads

Init ==
    /\ streaming = FALSE /\ logged = 0 /\ seq = 0
    /\ written = 0 /\ part = FALSE
    /\ cache = {}
    /\ stage = [r \in Request |-> "idle"]
    /\ size = [r \in Request |-> << 0, FALSE >>]
    /\ items = [r \in Request |-> {}]
    /\ mark = [r \in Request |-> {}]
    /\ before = [r \in Request |-> {}]
    /\ reads = 0
-----------------------------------------------------------------------------
\* A step begins to stream, or a tool to run.
Begin ==
    /\ ~streaming /\ seq = logged
    /\ logged < MaxItems
    /\ streaming' = TRUE
    /\ UNCHANGED << logged, seq, file, cache, request, reads >>

\* appendTranscriptRecord: the record goes to the writer of the log.
Log ==
    /\ streaming
    /\ logged = seq
    /\ logged' = logged + 1
    /\ UNCHANGED << streaming, seq, file, cache, request, reads >>

\* emitLiveEvent, later: the event is dispatched and gets its number; the turn
\* tracker forgets the item.
Dispatch ==
    /\ seq < logged
    /\ seq' = seq + 1
    /\ streaming' = FALSE
    /\ UNCHANGED << logged, file, cache, request, reads >>

\* The writer of the log gets a piece of a record, or the rest of it, into the
\* file.
WritePiece ==
    /\ written < logged
    /\ ~part
    /\ part' = TRUE
    /\ UNCHANGED << turn, written, cache, request, reads >>

WriteLine ==
    /\ written < logged
    /\ written' = written + 1
    /\ part' = FALSE
    /\ UNCHANGED << turn, cache, request, reads >>
-----------------------------------------------------------------------------
\* GET /sessions/{sid}/snapshot.
Read(r) ==
    /\ stage[r] \in {"idle", "answered"}
    /\ reads < MaxReads
    /\ reads' = reads + 1
    /\ stage' = [stage EXCEPT ![r] = "stat"]
    /\ items' = [items EXCEPT ![r] = {}]
    /\ mark' = [mark EXCEPT ![r] = {}]
    /\ before' = [before EXCEPT ![r] = 1..written]
    /\ UNCHANGED << turn, file, cache, size >>

\* getSnapshotState, at any time while the transcript is being read.
Watermark(r) ==
    /\ stage[r] \notin {"idle", "answered"}
    /\ mark[r] = {}
    /\ mark' = [mark EXCEPT ![r] =
                    {[seq |-> seq, flight |-> IF streaming THEN {seq + 1} ELSE {}]}]
    /\ UNCHANGED << turn, file, cache, stage, size, items, before, reads >>

\* stat: there is no file yet and what was cached of it is dropped, or the
\* entry is of this very file, or it is dropped and the file is read.
StatFile(r) ==
    /\ stage[r] = "stat"
    /\ size' = [size EXCEPT ![r] = << written, part >>]
    /\ \/ /\ size'[r] = << 0, FALSE >>
          /\ cache' = {}
          /\ stage' = [stage EXCEPT ![r] = "ready"]
          /\ UNCHANGED items
       \/ \E entry \in cache:
            /\ entry.size = size'[r] /\ size'[r] # << 0, FALSE >>
            /\ items' = [items EXCEPT ![r] = entry.items]
            /\ stage' = [stage EXCEPT ![r] = "ready"]
            /\ UNCHANGED cache
       \/ /\ size'[r] # << 0, FALSE >>
          /\ \A entry \in cache: entry.size # size'[r]
          /\ cache' = {}
          /\ stage' = [stage EXCEPT ![r] = "read"]
          /\ UNCHANGED items
    /\ UNCHANGED << turn, file, mark, before, reads >>

\* readWireTranscript: a torn last line is left out.
ReadFile(r) ==
    /\ stage[r] = "read"
    /\ items' = [items EXCEPT ![r] = 1..written]
    /\ stage' = [stage EXCEPT ![r] = "store"]
    /\ UNCHANGED << turn, file, cache, size, mark, before, reads >>

\* Mutant of Store: the entry gets the size the file has by then.
Store_LateSize(r) ==
    /\ stage[r] = "store"
    /\ cache' = {[size |-> << written, part >>, items |-> items[r]]}
    /\ stage' = [stage EXCEPT ![r] = "ready"]
    /\ UNCHANGED << turn, file, size, items, mark, before, reads >>

\* Once its blobs are resolved the transcript is cached under the size found
\* before it was read.
Store(r) ==
    /\ stage[r] = "store"
    /\ cache' = {[size |-> size[r], items |-> items[r]]}
    /\ stage' = [stage EXCEPT ![r] = "ready"]
    /\ UNCHANGED << turn, file, size, items, mark, before, reads >>

Answer(r) ==
    /\ stage[r] = "ready"
    /\ mark[r] # {}
    /\ stage' = [stage EXCEPT ![r] = "answered"]
    /\ UNCHANGED << turn, file, cache, size, items, mark, before, reads >>

Next ==
    \/ Begin \/ Log \/ Dispatch \/ WritePiece \/ WriteLine
    \/ \E r \in Request:
          Read(r) \/ Watermark(r) \/ StatFile(r) \/ ReadFile(r) \/ Store(r) \/ Answer(r)

Spec == Init /\ [][Next]_vars
-----------------------------------------------------------------------------
\* A snapshot is never older than its request: everything that was in the file
\* when it was asked for is in it, whatever the cache held and whichever other
\* snapshots were being read.
SnapshotFresh ==
    \A r \in Request: stage[r] = "answered" => before[r] \subseteq items[r]
=============================================================================
