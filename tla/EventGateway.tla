---------------------------- MODULE EventGateway ----------------------------
(***************************************************************************)
(* How the durable events of a session reach a client that may lose its    *)
(* connection: the journal (packages/server/src/services/gateway/          *)
(* sessionEventJournal.ts), the broadcast with its replay buffer           *)
(* (wsBroadcastService.ts), the synchronisation of a connection            *)
(* (ws/connection.ts), and a client that keeps a cursor, the error channel *)
(* of apps/nori-web/src/hooks/useGlobalErrors.ts.                          *)
(*                                                                         *)
(* The events are the failures, which every connection gets.  An event is  *)
(* its number in the order of publication; the server gives it a sequence  *)
(* number within an epoch.                                                 *)
(***************************************************************************)
EXTENDS Integers, Sequences, FiniteSets

CONSTANTS
    MaxEvents,        \* bound: events published
    BufferSize,       \* maxBufferSize of the broadcast
    MaxStops,         \* bound: ends of the server
    MaxCuts,          \* bound: ends of the connection
    WriteFailures     \* whether a write of the journal may fail

VARIABLES
    online,      \* the server runs
    epoch,       \* the epoch of its journal; epochs are counted
    seq,         \* the last sequence number it gave
    header,      \* headerPending
    pending,     \* pendingLines
    writing,     \* the lines flushOnce is writing
    tail,        \* the replay buffer
    lines,       \* the lines of the journal file
    torn,        \* the last line has no line break
    sync,        \* how far the synchronisation of the connection is
    asked,       \* the cursor the client sent: {} or {cursor}
    link,        \* what is on its way to the client
    synced,      \* the client got the acknowledgement of this connection
    cursor,      \* the cursor of the client: {} or {cursor}
    seen,        \* the events the client received
    owed,        \* the events it should not miss
    frames,      \* per event: the frame it was sent as
    hurt,        \* an event was lost to a crash, a failed write or a cut
    epochs, stops, cuts

journal == << epoch, seq, header, pending, writing, tail >>

file == << lines, torn >>

client == << synced, cursor, seen, owed >>

bounds == << epochs, stops, cuts >>

vars == << online, journal, file, sync, asked, link, client, frames, hurt, bounds >>

\* A line of the file; 0 stands for what a kind of line does not have.
Header(e) == [kind |-> "header", epoch |-> e, seq |-> 0, event |-> 0]

Line(e, n, event) == [kind |-> "event", epoch |-> e, seq |-> n, event |-> event]

Junk == [kind |-> "junk", epoch |-> 0, seq |-> 0, event |-> 0]

Frame(kind, e, n, event) == [kind |-> kind, epoch |-> e, seq |-> n, event |-> event]

Cursor(e, n) == [epoch |-> e, seq |-> n]

Published == DOMAIN frames

TypeOK ==
    /\ {online, header, torn, synced, hurt} \subseteq BOOLEAN
    /\ {epoch, epochs} \subseteq 1..(MaxStops + 1)
    /\ seq \in 0..MaxEvents
    /\ Len(tail) <= BufferSize
    /\ \A n \in DOMAIN tail: tail[n].seq = seq - Len(tail) + n
    /\ sync \in {"closed", "replay", "read", "ack", "live"}
    /\ Cardinality(asked) <= 1 /\ Cardinality(cursor) <= 1
    /\ {seen, owed} \subseteq SUBSET Published

Init ==
    /\ online = TRUE
    /\ epoch = 1 /\ seq = 0 /\ header = TRUE
    /\ pending = << >> /\ writing = << >> /\ tail = << >>
    /\ lines = << >> /\ torn = FALSE
    /\ sync = "closed" /\ asked = {} /\ link = << >>
    /\ synced = FALSE /\ cursor = {} /\ seen = {} /\ owed = {}
    /\ frames = << >>
    /\ hurt = FALSE
    /\ epochs = 1 /\ stops = 0 /\ cuts = 0
-----------------------------------------------------------------------------
\* flushOnce takes the header if it is due and everything pending.
Taken(more) ==
    /\ writing' = (IF header THEN << Header(epoch) >> ELSE << >>) \o pending \o more
    /\ pending' = << >>
    /\ header' = FALSE

\* Mutant of Buffered: nothing is dropped from the replay buffer.
Buffered_Unbounded(entry) == Append(tail, entry)

\* The replay buffer drops its oldest entry when it is full.
Buffered(entry) ==
    LET buffer == Append(tail, entry)
    IN  IF Len(buffer) > BufferSize THEN Tail(buffer) ELSE buffer

\* _dispatch of a durable event: number it, queue its line, buffer it, send
\* it.  The line is written at once unless a write is under way; then it
\* waits, and nothing but the next event or a replay starts its write.
Publish ==
    /\ online
    /\ Len(frames) < MaxEvents
    /\ LET event == Len(frames) + 1
           entry == Line(epoch, seq + 1, event)
       IN  /\ seq' = seq + 1
           /\ frames' = Append(frames, Cursor(epoch, seq + 1))
           /\ tail' = Buffered(entry)
           /\ IF writing = << >>
              THEN Taken(<< entry >>)
              ELSE pending' = Append(pending, entry) /\ UNCHANGED << header, writing >>
           /\ IF sync = "closed"
              THEN UNCHANGED link
              ELSE link' = Append(link, Frame("event", epoch, seq + 1, event))
           /\ owed' = IF cursor # {} \/ sync # "closed" THEN owed \cup {event} ELSE owed
    /\ UNCHANGED << online, epoch, file, sync, asked, synced, cursor, seen, hurt, bounds >>

\* The file after the first n lines of the write and, more, a part of the next
\* one or all of it but the line break.  The first thing written after an
\* unterminated line becomes part of that line.
Landed(n, more) ==
    LET whole == SubSeq(writing, 1, n)
        new == CASE more = "part" -> Append(whole, Junk)
                 [] more = "whole" -> Append(whole, writing[n + 1])
                 [] OTHER -> whole
    IN  /\ lines' = IF torn /\ new # << >>
                    THEN SubSeq(lines, 1, Len(lines) - 1) \o << Junk >> \o Tail(new)
                    ELSE lines \o new
        /\ torn' = IF new = << >> THEN torn ELSE more # "none"

Lands(n, more) ==
    /\ n \in 0..Len(writing)
    /\ more \in {"none", "part", "whole"}
    /\ n = Len(writing) => more = "none"
    /\ Landed(n, more)

WriteDone ==
    /\ online
    /\ writing # << >>
    /\ Landed(Len(writing), "none")
    /\ writing' = << >>
    /\ UNCHANGED << online, epoch, seq, header, pending, tail, sync, asked, link,
                    client, frames, hurt, bounds >>

\* A write that fails is logged and forgotten, the header included.
WriteFails ==
    /\ WriteFailures
    /\ online
    /\ writing # << >>
    /\ \E n \in 0..Len(writing), more \in {"none", "part", "whole"}: Lands(n, more)
    /\ writing' = << >>
    /\ hurt' = TRUE
    /\ UNCHANGED << online, epoch, seq, header, pending, tail, sync, asked, link,
                    client, frames, bounds >>

\* The connection goes before its synchronisation is acknowledged, and the
\* cursor has moved past what the replay was to bring, or there was none yet.
CutShort ==
    sync # "closed" /\ ~synced /\ (asked = {} \/ cursor # asked)

\* The server ends while it has any part of its lines on the file.
Stop ==
    /\ online
    /\ stops < MaxStops
    /\ stops' = stops + 1
    /\ online' = FALSE
    /\ \E n \in 0..Len(writing), more \in {"none", "part", "whole"}:
          /\ Lands(n, more)
          /\ hurt' = (hurt \/ CutShort \/ pending # << >> \/ n < Len(writing))
    /\ writing' = << >> /\ pending' = << >> /\ tail' = << >>
    /\ sync' = "closed" /\ link' = << >>
    /\ UNCHANGED << epoch, seq, header, asked, client, frames, epochs, cuts >>

\* Mutant of LastSeq: the numbers start again after a restart.
LastSeq_Zero == 0

\* The highest number in the file, whatever its epoch.
LastSeq ==
    LET numbers == {lines[n].seq: n \in DOMAIN lines}
    IN  CHOOSE m \in numbers \cup {0}: \A n \in numbers: n <= m

\* SessionEventJournal.open: the first header gives the epoch; without one the
\* journal starts afresh at the end of the same file.
Open ==
    /\ ~online
    /\ online' = TRUE
    /\ LET headers == {n \in DOMAIN lines: lines[n].kind = "header"}
       IN  IF headers = {}
           THEN /\ epoch' = epochs + 1 /\ epochs' = epochs + 1
                /\ seq' = 0 /\ header' = TRUE
           ELSE /\ epoch' = lines[CHOOSE n \in headers: \A m \in headers: n <= m].epoch
                /\ seq' = LastSeq /\ header' = FALSE
                /\ UNCHANGED epochs
    /\ UNCHANGED << pending, writing, tail, file, sync, asked, link, client,
                    frames, hurt, stops, cuts >>
-----------------------------------------------------------------------------
\* The client connects and sends its cursor; it is subscribed first.
Connect ==
    /\ online
    /\ sync = "closed"
    /\ sync' = IF cursor = {} THEN "ack" ELSE "replay"
    /\ asked' = cursor
    /\ synced' = FALSE
    /\ UNCHANGED << online, journal, file, link, cursor, seen, owed, frames, hurt, bounds >>

\* Those of the entries that come after the cursor, as frames in their order.
After(entries, n) ==
    LET new == {i \in DOMAIN entries: entries[i].kind = "event" /\ entries[i].seq > n}
        nth(k) == CHOOSE i \in new: Cardinality({j \in new: j <= i}) = k
        Sent(entry) == Frame("event", entry.epoch, entry.seq, entry.event)
    IN  [k \in 1..Cardinality(new) |-> Sent(entries[nth(k)])]

\* The cursor cannot be served: it is of another epoch, ahead, or too far back.
Unserved(c) == c.epoch # epoch \/ c.seq > seq \/ seq - c.seq > BufferSize

\* Mutant of FromBuffer: one entry may be missing at the front.
FromBuffer_OffByOne(c) == tail # << >> /\ tail[1].seq <= c.seq + 2

FromBuffer(c) == tail # << >> /\ tail[1].seq <= c.seq + 1

\* getBufferedSince: nothing to send, the buffer, the file, or a resync.
Replay ==
    /\ online
    /\ sync = "replay"
    /\ \E c \in asked:
          \/ /\ Unserved(c)
             /\ link' = Append(link, Frame("resync", epoch, seq, Len(frames)))
             /\ sync' = "ack"
          \/ /\ ~Unserved(c)
             /\ c.seq = seq \/ FromBuffer(c)
             /\ link' = link \o After(tail, c.seq)
             /\ sync' = "ack"
          \/ /\ ~Unserved(c)
             /\ c.seq # seq /\ ~FromBuffer(c)
             /\ sync' = "read"
             /\ UNCHANGED link
    /\ UNCHANGED << online, journal, file, asked, client, frames, hurt, bounds >>

\* readSince writes what is pending first ...
FlushForRead ==
    /\ online
    /\ sync = "read"
    /\ writing = << >> /\ pending # << >>
    /\ Taken(<< >>)
    /\ UNCHANGED << online, epoch, seq, tail, file, sync, asked, link, client,
                    frames, hurt, bounds >>

\* Mutant of Read: what is not written yet is not waited for.
Read_Unflushed ==
    /\ online
    /\ sync = "read"
    /\ sync' = "ack"
    /\ \E c \in asked:
          LET found == After(lines, c.seq)
          IN  link' = link \o SubSeq(found, 1, IF Len(found) > BufferSize
                                               THEN BufferSize ELSE Len(found))
    /\ UNCHANGED << online, journal, file, asked, client, frames, hurt, bounds >>

\* ... and sends what it finds in the file, at most as much as the buffer has.
Read == writing = << >> /\ pending = << >> /\ Read_Unflushed

\* The acknowledgement carries the server's cursor.
Acknowledge ==
    /\ online
    /\ sync = "ack"
    /\ sync' = "live"
    /\ link' = Append(link, Frame("ack", epoch, seq, 0))
    /\ UNCHANGED << online, journal, file, asked, client, frames, hurt, bounds >>

Disconnect ==
    /\ sync # "closed"
    /\ cuts < MaxCuts
    /\ cuts' = cuts + 1
    /\ hurt' = (hurt \/ CutShort)
    /\ sync' = "closed" /\ link' = << >>
    /\ UNCHANGED << online, journal, file, asked, client, frames, epochs, stops >>

\* The cursor follows the highest number, whatever its epoch.
Advanced(frame) ==
    IF \E c \in cursor: frame.seq <= c.seq
    THEN cursor
    ELSE {Cursor(frame.epoch, frame.seq)}

\* ws.onmessage: an acknowledgement and a resync replace the cursor; the
\* client reloads nothing after a resync, so what it missed is not owed.
Receive ==
    /\ link # << >>
    /\ link' = Tail(link)
    /\ LET frame == Head(link)
       IN  \/ /\ frame.kind = "event"
              /\ seen' = seen \cup {frame.event}
              /\ cursor' = Advanced(frame)
              /\ UNCHANGED << synced, owed >>
           \/ /\ frame.kind = "resync"
              /\ cursor' = {Cursor(frame.epoch, frame.seq)}
              /\ owed' = owed \ (1..frame.event)
              /\ UNCHANGED << synced, seen >>
           \/ /\ frame.kind = "ack"
              /\ cursor' = {Cursor(frame.epoch, frame.seq)}
              /\ synced' = TRUE
              /\ UNCHANGED << seen, owed >>
    /\ UNCHANGED << online, journal, file, sync, asked, frames, hurt, bounds >>

Next ==
    \/ Publish \/ WriteDone \/ WriteFails \/ Stop \/ Open
    \/ Connect \/ Replay \/ FlushForRead \/ Read \/ Acknowledge
    \/ Disconnect \/ Receive

Spec == Init /\ [][Next]_vars
-----------------------------------------------------------------------------
\* A client that is connected and has read everything sent to it has missed
\* no failure since its first connection, or was told so by resync_required:
\* not across cuts of the connection, not across restarts of the server, as
\* long as no event was lost before it was in the journal and no connection
\* was cut after a live frame had overtaken the replay.
NoSilentGap ==
    ~hurt /\ sync = "live" /\ link = << >> => owed \subseteq seen

\* Within an epoch the journal gives no number twice, restarts included, under
\* the same condition.
NumbersOnce ==
    ~hurt => \A e, f \in Published: frames[e] = frames[f] => e = f
=============================================================================
