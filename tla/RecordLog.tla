----------------------------- MODULE RecordLog ------------------------------
(***************************************************************************)
(* The log of one agent: AgentRecords.logRecord and replay                 *)
(* (packages/agent-core/src/agent/records/index.ts) over the file          *)
(* wire.jsonl (records/persistence.ts), with crashes in the middle of a    *)
(* write, writes that fail, and the rewrite that follows a migration.      *)
(*                                                                         *)
(* Records are logged in memory at once and written by a single drain that *)
(* takes everything pending as one batch.  A record is its number, the     *)
(* metadata record is 0.                                                   *)
(***************************************************************************)
EXTENDS Integers, Sequences, SequencesExt

CONSTANTS
    MaxRecords,    \* bound: records other than metadata ever logged
    MaxCrashes,    \* bound: ends of the process, orderly ones included
    MaxUpgrades    \* bound: resumes by a program of a newer wire version

Metadata == 0

\* A line no JSON parser accepts.
Junk == -1

VARIABLES
    up,          \* the agent is resumed and running
    memory,      \* the records behind the state of the agent in memory
    logged,      \* how many records were ever logged
    titled,      \* metadataInitialized
    pending,     \* pendingRecords
    clear,       \* shouldClear
    stage,       \* where drainBatch is: "idle", "taken", "open"
    batch,       \* the records it writes
    truncates,   \* it replaces the contents of the file
    failed,      \* the sticky error
    lines,       \* the complete lines of the file
    tail,        \* what follows the last line break: nothing, or one line
    flushed,     \* memory when flush last returned
    cut,         \* a rewrite was interrupted
    glued,       \* something was written after an unterminated line
    crashes, upgrades

drain == << pending, clear, stage, batch, truncates, failed >>

file == << lines, tail >>

harm == << cut, glued >>

vars == << up, memory, logged, titled, drain, file, flushed, harm, crashes, upgrades >>

Records == Metadata..MaxRecords

TypeOK ==
    /\ up \in BOOLEAN
    /\ {memory, pending, batch, flushed} \subseteq Seq(Records)
    /\ logged \in 0..MaxRecords
    /\ {titled, clear, truncates, failed, cut, glued} \subseteq BOOLEAN
    /\ stage \in {"idle", "taken", "open"}
    /\ lines \in Seq(Records \cup {Junk})
    /\ tail \in Seq(Records \cup {Junk}) /\ Len(tail) \in 0..1
    /\ crashes \in 0..MaxCrashes
    /\ upgrades \in 0..MaxUpgrades

Init ==
    /\ up = TRUE
    /\ memory = << >> /\ logged = 0 /\ titled = FALSE
    /\ pending = << >> /\ clear = FALSE
    /\ stage = "idle" /\ batch = << >> /\ truncates = FALSE
    /\ failed = FALSE
    /\ lines = << >> /\ tail = << >>
    /\ flushed = << >> /\ cut = FALSE /\ glued = FALSE
    /\ crashes = 0 /\ upgrades = 0
-----------------------------------------------------------------------------
\* read(): every line must parse, except what follows the last line break.
Readable == \A n \in DOMAIN lines: lines[n] # Junk

Replayed == lines \o (IF tail = << Junk >> THEN << >> ELSE tail)

\* The rewrite of a migration is not over; replay awaits it.
Migrating == clear \/ truncates

\* logRecord: the first record of a file is preceded by its metadata; after an
\* error append throws.
LogRecord ==
    /\ up /\ ~Migrating /\ ~failed
    /\ logged < MaxRecords
    /\ LET new == (IF titled THEN << >> ELSE << Metadata >>) \o << logged + 1 >>
       IN  memory' = memory \o new /\ pending' = pending \o new
    /\ logged' = logged + 1
    /\ titled' = TRUE
    /\ UNCHANGED << up, clear, stage, batch, truncates, failed, file,
                    flushed, harm, crashes, upgrades >>

\* Mutant of TakeBatch: the drain starts again after a failed write.
TakeBatch_Retries ==
    /\ up
    /\ stage = "idle"
    /\ clear \/ pending # << >>
    /\ stage' = "taken"
    /\ batch' = pending /\ pending' = << >>
    /\ truncates' = clear /\ clear' = FALSE
    /\ UNCHANGED << up, memory, logged, titled, failed, file, flushed, harm,
                    crashes, upgrades >>

\* drainBatch takes what is pending; nothing is taken after an error.
TakeBatch == ~failed /\ TakeBatch_Retries

\* open(path, "w" or "a").
OpenFile ==
    /\ stage = "taken"
    /\ stage' = "open"
    /\ lines' = IF truncates THEN << >> ELSE lines
    /\ tail' = IF truncates THEN << >> ELSE tail
    /\ UNCHANGED << up, memory, logged, titled, pending, clear, batch, truncates,
                    failed, flushed, harm, crashes, upgrades >>

\* The file after the first n lines of the batch and, torn, a piece of the
\* next one ("part") or all of it but the line break ("whole").  What follows
\* an unterminated line becomes part of that line.
Reached(n, torn) ==
    LET next == CASE torn = "part" -> << Junk >>
                  [] torn = "whole" -> << batch[n + 1] >>
                  [] OTHER -> << >>
        written == SubSeq(batch, 1, n)
    IN  CASE tail = << >> -> [lines |-> lines \o written, tail |-> next]
          [] n > 0 /\ tail # << >> ->
                [lines |-> lines \o << Junk >> \o Tail(written), tail |-> next]
          [] n = 0 /\ tail # << >> ->
                [lines |-> lines, tail |-> IF next = << >> THEN tail ELSE << Junk >>]

Reach(n, torn) ==
    /\ lines' = Reached(n, torn).lines
    /\ tail' = Reached(n, torn).tail
    /\ glued' = (glued \/ (tail # << >> /\ (n > 0 \/ torn # "none")))

\* How far a write that does not end got.
Cuts == {c \in (0..Len(batch)) \X {"none", "part", "whole"}:
            c[1] = Len(batch) => c[2] = "none"}

WriteDone ==
    /\ stage = "open"
    /\ Reach(Len(batch), "none")
    /\ stage' = "idle" /\ batch' = << >> /\ truncates' = FALSE
    /\ UNCHANGED << up, memory, logged, titled, pending, clear, failed,
                    flushed, cut, crashes, upgrades >>

\* The write or one of the steps around it fails; the error stays.
WriteFails ==
    /\ stage # "idle"
    /\ IF stage = "open" THEN \E c \in Cuts: Reach(c[1], c[2])
                         ELSE UNCHANGED << file, glued >>
    /\ cut' = (cut \/ truncates)
    /\ stage' = "idle" /\ batch' = << >> /\ truncates' = FALSE
    /\ failed' = TRUE
    /\ UNCHANGED << up, memory, logged, titled, pending, clear, flushed,
                    crashes, upgrades >>

\* Mutant of Flush: it waits for the drain, not for what is still pending.
Flush_BatchOnly ==
    /\ up /\ ~failed
    /\ stage = "idle"
    /\ flushed # memory
    /\ flushed' = memory
    /\ UNCHANGED << up, memory, logged, titled, drain, file, harm, crashes, upgrades >>

\* flush() returns: nothing is pending, nothing is being written, no error.
Flush == ~clear /\ pending = << >> /\ Flush_BatchOnly

\* The process ends, wherever the write is.
Crash ==
    /\ crashes < MaxCrashes
    /\ IF stage = "open" THEN \E c \in Cuts: Reach(c[1], c[2])
                         ELSE UNCHANGED << file, glued >>
    /\ cut' = (cut \/ (stage = "open" /\ truncates))
    /\ crashes' = crashes + 1
    /\ up' = FALSE /\ memory' = << >> /\ titled' = FALSE
    /\ pending' = << >> /\ clear' = FALSE
    /\ stage' = "idle" /\ batch' = << >> /\ truncates' = FALSE
    /\ failed' = FALSE
    /\ UNCHANGED << logged, flushed, upgrades >>

\* replay: the state is rebuilt, and a log of an older wire version is
\* migrated and rewritten in place.
Resume ==
    /\ ~up
    /\ Readable
    /\ up' = TRUE
    /\ memory' = Replayed
    /\ titled' = (Replayed # << >>)
    /\ \/ UNCHANGED << pending, clear, upgrades >>
       \/ /\ upgrades < MaxUpgrades
          /\ Replayed # << >>
          /\ upgrades' = upgrades + 1
          /\ pending' = Replayed
          /\ clear' = TRUE
    /\ UNCHANGED << logged, stage, batch, truncates, failed, file, flushed, harm, crashes >>

Next ==
    \/ LogRecord \/ TakeBatch \/ OpenFile \/ WriteDone \/ WriteFails
    \/ Flush \/ Crash \/ Resume

Spec == Init /\ [][Next]_vars
-----------------------------------------------------------------------------
\* Nothing has spoiled the file: no session wrote on after a line that a crash
\* or an error had left unterminated, and no rewrite was interrupted.
Unspoiled == ~glued /\ ~cut

\* A flush that returned is kept: after any crash or failed write the log that
\* persistence.ts reads back is readable and begins with every record flushed.
FlushedSurvives ==
    Unspoiled /\ ~Migrating => Readable /\ IsPrefix(flushed, Replayed)

\* The log has no holes: while the agent runs, what a resume would replay is
\* a beginning of what the agent has in memory, and after the drain it is all
\* of it.  No record is ever written without the ones before it.
NoHoles ==
    up /\ Unspoiled /\ ~Migrating =>
        /\ IsPrefix(Replayed, memory)
        /\ ~failed /\ stage = "idle" /\ pending = << >> => Replayed = memory

\* A truncated trailing line is tolerated and everything before is still
\* well-formed: whatever happened, the log can be read (parseRecordLine).
StillWellFormed == Readable
=============================================================================
