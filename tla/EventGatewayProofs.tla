------------------------- MODULE EventGatewayProofs -------------------------
(***************************************************************************)
(* The safety of EventGateway for any number of events, cuts of the        *)
(* connection and restarts of the server, and a buffer of any size.        *)
(*                                                                         *)
(* As long as nothing was lost, the numbers of the journal are the order   *)
(* of publication, and the lines of the file, of the write under way and   *)
(* of the queue behind it follow each other without a hole.  What a client *)
(* is owed has reached it, is on its way, or is still to be replayed.      *)
(***************************************************************************)
EXTENDS EventGateway, FiniteSetTheorems, SequenceTheorems, TLAPS

Entries == [kind: {"header", "event", "junk"}, epoch: Nat, seq: Nat, event: Nat]

Frames == [kind: {"event", "resync", "ack"}, epoch: Nat, seq: Nat, event: Nat]

Cursors == [epoch: Nat, seq: Nat]

\* Line i of the journal when nothing was lost.
Entry(i) == IF i = 1 THEN Header(epoch) ELSE Line(epoch, i - 1, i - 1)

\* The frame of event n.
Event(n) == Frame("event", epoch, n, n)

Typed ==
    /\ BufferSize \in Nat
    /\ online \in BOOLEAN /\ header \in BOOLEAN /\ torn = FALSE
    /\ epoch \in Nat /\ epochs \in Nat /\ epoch <= epochs /\ seq \in Nat
    /\ lines \in Seq(Entries) /\ writing \in Seq(Entries)
    /\ pending \in Seq(Entries) /\ tail \in Seq(Entries)

\* An event has the number of its publication, in one epoch.
Numbered ==
    /\ frames \in Seq(Cursors)
    /\ Len(frames) = seq
    /\ \A n \in 1..seq: frames[n] = Cursor(epoch, n)

\* The file, the write under way and the queue behind it are the journal.
Journalled ==
    /\ header => lines = << >> /\ writing = << >> /\ pending = << >> /\ seq = 0
    /\ ~header => Len(lines) + Len(writing) + Len(pending) = seq + 1
    /\ ~header /\ writing = << >> => Len(lines) > 0
    /\ \A i \in 1..Len(lines): lines[i] = Entry(i)
    /\ \A i \in 1..Len(writing): writing[i] = Entry(Len(lines) + i)
    /\ \A i \in 1..Len(pending): pending[i] = Entry(Len(lines) + Len(writing) + i)
    /\ ~online => writing = << >> /\ pending = << >> /\ tail = << >>

\* The replay buffer holds the last events.
BufferHolds ==
    /\ Len(tail) <= seq
    /\ \A n \in 1..Len(tail):
          tail[n] = Line(epoch, (seq - Len(tail)) + n, (seq - Len(tail)) + n)

ClientTyped ==
    /\ link \in Seq(Frames)
    /\ cursor \in SUBSET Cursors /\ asked \in SUBSET Cursors
    /\ seen \in SUBSET Nat /\ owed \in SUBSET (1..seq)
    /\ synced \in BOOLEAN
    /\ sync \in {"closed", "replay", "read", "ack", "live"}
    /\ ~online => sync = "closed"

\* No cursor and no frame is ahead of the server.
Recent ==
    /\ \A c \in cursor \cup asked: c.epoch <= epochs /\ (c.epoch = epoch => c.seq <= seq)
    /\ (\A c, d \in asked: c = d) /\ (\A c, d \in cursor: c = d)
    /\ \A i \in 1..Len(link): link[i].epoch = epoch /\ link[i].seq <= seq

\* Something on the link brings event e, or tells the client that it is missed.
Coming(e) ==
    \E i \in 1..Len(link): \/ link[i].kind = "event" /\ link[i].event = e
                           \/ link[i].kind = "resync" /\ e <= link[i].event

\* Whoever has this cursor has seen what comes up to it.
Reaches(c) == c.epoch = epoch => \A e \in owed: e <= c.seq => e \in seen

\* A client without a connection has only missed what comes after its cursor.
Apart ==
    sync = "closed" =>
        /\ link = << >>
        /\ cursor = {} => owed = {}
        /\ \A c \in cursor: Reaches(c)

\* The cursor it sent stays true, until it gets another with the acknowledgement.
Unsynced == sync # "closed" /\ ~synced => \A c \in asked: Reaches(c)

\* What is left to replay: what comes after the cursor, once it is read from the
\* file no more than the buffer could hold.
ToReplay ==
    /\ sync \in {"replay", "read"} =>
          \A e \in owed: \/ e \in seen \/ Coming(e)
                         \/ \A c \in asked: c.epoch = epoch => e > c.seq
    /\ sync = "read" =>
          \A c \in asked:
              /\ c.epoch = epoch
              /\ \A e \in owed: e \in seen \/ Coming(e) \/ e <= c.seq + BufferSize

\* Nothing is left once the replay is on its way.
Replayed == sync \in {"ack", "live"} => \A e \in owed: e \in seen \/ Coming(e)

\* After the acknowledgement come the events after the cursor it carries.
AckThenLive ==
    /\ sync \in {"replay", "read", "ack"} =>
          ~synced /\ \A i \in 1..Len(link): link[i].kind # "ack"
    /\ \A i \in 1..Len(link): link[i].kind = "ack" =>
          /\ ~synced
          /\ link[i].seq + (Len(link) - i) = seq
          /\ \A j \in 1..Len(link): j > i => link[j] = Event(link[i].seq + (j - i))

\* From there on the client has all the events but those on the link.
Synced ==
    synced /\ sync # "closed" =>
        /\ Len(link) <= seq
        /\ cursor = {Cursor(epoch, seq - Len(link))}
        /\ \A j \in 1..Len(link): link[j] = Event((seq - Len(link)) + j)
        /\ \A e \in owed: e <= seq - Len(link) => e \in seen

Server == Typed /\ Numbered /\ Journalled /\ BufferHolds

Client ==
    ClientTyped /\ Recent /\ Apart /\ Unsynced /\ ToReplay /\ Replayed /\ AckThenLive /\ Synced

IInv == ~hurt => Server /\ Client

LEMMA Start == ASSUME BufferSize \in Nat PROVE Init => IInv
<1> SUFFICES ASSUME Init PROVE Server /\ Client
  BY DEF IInv
<1>1. Typed
  <2>1. << >> \in Seq(Entries)
    OBVIOUS
  <2>2. /\ lines \in Seq(Entries) /\ writing \in Seq(Entries)
        /\ pending \in Seq(Entries) /\ tail \in Seq(Entries)
    BY <2>1, Zenon DEF Init
  <2>3. /\ epoch \in Nat /\ epochs \in Nat /\ epoch <= epochs /\ seq \in Nat
    BY DEF Init
  <2> QED BY <2>2, <2>3 DEF Init, Typed
<1>2. Numbered /\ Journalled /\ BufferHolds
  BY DEF Init, Numbered, Journalled, BufferHolds
<1>3. Client
  <2>1. << >> \in Seq(Frames)
    OBVIOUS
  <2>2. link \in Seq(Frames)
    BY <2>1, Zenon DEF Init
  <2>3. ClientTyped
    BY <2>2 DEF Init, ClientTyped
  <2>4. Recent /\ Apart /\ Unsynced /\ ToReplay /\ Replayed /\ AckThenLive /\ Synced
    BY DEF Init, Recent, Apart, Unsynced, ToReplay, Replayed, AckThenLive, Synced
  <2> QED BY <2>3, <2>4 DEF Client
<1> QED BY <1>1, <1>2, <1>3 DEF Server
-----------------------------------------------------------------------------
LEMMA SizeOfInterval ==
    ASSUME NEW lo \in Int, NEW hi \in Int, lo <= hi + 1
    PROVE  Cardinality(lo..hi) = hi - lo + 1
BY FS_Interval

\* What After finds, when what comes after the cursor is the rest of the entries.
LEMMA AfterIs ==
    ASSUME NEW entries \in Seq(Entries), NEW n \in Nat, NEW a \in 0..Len(entries),
           \A i \in 1..Len(entries):
              (entries[i].kind = "event" /\ entries[i].seq > n) <=> i > a
    PROVE  After(entries, n) =
             [k \in 1..(Len(entries) - a) |->
                Frame("event", entries[a + k].epoch, entries[a + k].seq, entries[a + k].event)]
<1> DEFINE new == {i \in DOMAIN entries: entries[i].kind = "event" /\ entries[i].seq > n}
           nth(k) == CHOOSE i \in new: Cardinality({j \in new: j <= i}) = k
<1>1. new = (a + 1)..Len(entries)
  <2>1. DOMAIN entries = 1..Len(entries) /\ Len(entries) \in Nat
    OBVIOUS
  <2> QED BY <2>1
<1>2. Cardinality(new) = Len(entries) - a
  <2>1. a + 1 \in Int /\ Len(entries) \in Int /\ Len(entries) >= a
    OBVIOUS
  <2>2. Cardinality((a + 1)..Len(entries)) = Len(entries) - a
    BY <2>1, SizeOfInterval
  <2> QED BY <1>1, <2>2
<1>3. ASSUME NEW i \in new PROVE Cardinality({j \in new: j <= i}) = i - a
  <2>1. i \in Int /\ a + 1 \in Int /\ i >= a + 1 /\ i <= Len(entries) /\ Len(entries) \in Nat
    BY <1>1
  <2>2. {j \in new: j <= i} = (a + 1)..i
    <3> HIDE DEF new
    <3> QED BY <1>1, <2>1
  <2>3. Cardinality((a + 1)..i) = i - a
    BY <2>1, SizeOfInterval
  <2> QED BY <2>2, <2>3
<1>4. ASSUME NEW k \in 1..(Len(entries) - a) PROVE nth(k) = a + k
  <2>1. a + k \in new
    BY <1>1
  <2>2. \A i \in new: Cardinality({j \in new: j <= i}) = k <=> i = a + k
    <3>1. \A i \in new: i \in Int
      BY <1>1
    <3> QED BY <1>3, <3>1
  <2> HIDE DEF new
  <2> QED BY <2>1, <2>2
<1> HIDE DEF nth
<1>5. After(entries, n) = [k \in 1..Cardinality(new) |->
         Frame("event", entries[nth(k)].epoch, entries[nth(k)].seq, entries[nth(k)].event)]
  BY DEF After, nth
<1> HIDE DEF new
<1> QED BY <1>2, <1>4, <1>5

\* The events after n, as they are sent.
Since(n) == [k \in 1..(seq - n) |-> Event(n + k)]

LEMMA BufferSince ==
    ASSUME Typed, BufferHolds, NEW n \in Nat, n <= seq, seq - Len(tail) <= n
    PROVE  After(tail, n) = Since(n)
<1> DEFINE a == n - (seq - Len(tail))
<1>1. a \in 0..Len(tail)
  BY DEF Typed
<1>2. \A i \in 1..Len(tail): (tail[i].kind = "event" /\ tail[i].seq > n) <=> i > a
  <2>1. ASSUME NEW i \in 1..Len(tail)
        PROVE  tail[i].kind = "event" /\ tail[i].seq = (seq - Len(tail)) + i
    <3>1. tail[i] = Line(epoch, (seq - Len(tail)) + i, (seq - Len(tail)) + i)
      BY DEF BufferHolds
    <3> QED BY <3>1 DEF Line
  <2>2. Len(tail) \in Nat /\ seq \in Nat
    BY DEF Typed
  <2> QED BY <2>1, <2>2
<1>3. After(tail, n) = [k \in 1..(Len(tail) - a) |->
         Frame("event", tail[a + k].epoch, tail[a + k].seq, tail[a + k].event)]
  BY <1>1, <1>2, AfterIs DEF Typed
<1>4. Len(tail) - a = seq - n
  BY DEF Typed
<1>5. ASSUME NEW k \in 1..(seq - n) PROVE tail[a + k] = Line(epoch, n + k, n + k)
  <2>1. Len(tail) \in Nat /\ seq \in Nat
    BY DEF Typed
  <2>2. a + k \in 1..Len(tail) /\ (seq - Len(tail)) + (a + k) = n + k
    BY <2>1
  <2> QED BY <2>2 DEF BufferHolds
<1> HIDE DEF a
<1>6. ASSUME NEW k \in 1..(seq - n)
      PROVE  Frame("event", tail[a + k].epoch, tail[a + k].seq, tail[a + k].event) = Event(n + k)
  <2>1. tail[a + k] = Line(epoch, n + k, n + k)
    BY <1>5
  <2> QED BY <2>1 DEF Event, Line
<1> QED BY <1>3, <1>4, <1>6 DEF Since

LEMMA FileSince ==
    ASSUME Server, writing = << >>, pending = << >>, NEW n \in Nat, n <= seq
    PROVE  After(lines, n) = Since(n)
<1>1. CASE header
  <2>1. lines = << >> /\ seq = 0 /\ n = 0
    BY <1>1 DEF Server, Journalled, Typed
  <2>2. After(lines, n) = [k \in 1..(Len(lines) - 0) |->
           Frame("event", lines[0 + k].epoch, lines[0 + k].seq, lines[0 + k].event)]
    <3>1. 0 \in 0..Len(lines) /\ lines \in Seq(Entries) /\ Len(lines) = 0
      BY <2>1 DEF Server, Typed
    <3>2. \A i \in 1..Len(lines): (lines[i].kind = "event" /\ lines[i].seq > n) <=> i > 0
      BY <3>1
    <3> QED BY <3>1, <3>2, AfterIs, ZenonT(60)
  <2> QED BY <2>1, <2>2 DEF Since
<1>2. CASE ~header
  <2>1. Len(lines) = seq + 1 /\ seq \in Nat
    BY <1>2 DEF Server, Journalled, Typed
  <2>2. \A i \in 1..Len(lines): lines[i] = Entry(i)
    BY DEF Server, Journalled
  <2>3. \A i \in 1..Len(lines): (lines[i].kind = "event" /\ lines[i].seq > n) <=> i > n + 1
    BY <2>1, <2>2 DEF Entry, Header, Line
  <2>4. After(lines, n) = [k \in 1..(Len(lines) - (n + 1)) |->
           Frame("event", lines[n + 1 + k].epoch, lines[n + 1 + k].seq, lines[n + 1 + k].event)]
    <3>1. n + 1 \in 0..Len(lines) /\ lines \in Seq(Entries)
      BY <2>1 DEF Server, Typed
    <3> QED BY <2>3, <3>1, AfterIs
  <2>5. ASSUME NEW k \in 1..(seq - n) PROVE lines[n + 1 + k] = Line(epoch, n + k, n + k)
    <3>1. n + 1 + k \in 1..Len(lines) /\ n + 1 + k # 1 /\ (n + 1 + k) - 1 = n + k
      BY <2>1
    <3> QED BY <2>2, <3>1 DEF Entry
  <2>6. ASSUME NEW k \in 1..(seq - n)
        PROVE  Frame("event", lines[n + 1 + k].epoch, lines[n + 1 + k].seq,
                              lines[n + 1 + k].event) = Event(n + k)
    <3>1. lines[n + 1 + k] = Line(epoch, n + k, n + k)
      BY <2>5
    <3> QED BY <3>1 DEF Event, Line
  <2>7. Len(lines) - (n + 1) = seq - n
    BY <2>1
  <2> QED BY <2>4, <2>6, <2>7 DEF Since
<1> QED BY <1>1, <1>2

\* A write that ends puts all of its lines into the file.
LEMMA AllLands ==
    ASSUME Typed, Landed(Len(writing), "none")
    PROVE  lines' = lines \o writing /\ torn' = FALSE
<1>1. SubSeq(writing, 1, Len(writing)) = writing
  BY SubSeqFull DEF Typed
<1> QED BY <1>1 DEF Landed, Typed

\* What the link is like after more frames.
LEMMA LinkGrows ==
    ASSUME link \in Seq(Frames), NEW more \in Seq(Frames), link' = link \o more
    PROVE  /\ link' \in Seq(Frames)
           /\ Len(link') = Len(link) + Len(more)
           /\ \A i \in 1..Len(link): i \in 1..Len(link') /\ link'[i] = link[i]
           /\ \A i \in 1..Len(more):
                 Len(link) + i \in 1..Len(link') /\ link'[Len(link) + i] = more[i]
           /\ \A i \in 1..Len(link'):
                 i \in 1..Len(link) \/ \E k \in 1..Len(more): i = Len(link) + k
<1>1. link' \in Seq(Frames) /\ Len(link') = Len(link) + Len(more)
  BY ConcatProperties
<1>2. \A i \in 1..Len(link): i \in 1..Len(link') /\ link'[i] = link[i]
  BY <1>1
<1>3. \A i \in 1..Len(more): Len(link) + i \in 1..Len(link') /\ link'[Len(link) + i] = more[i]
  BY <1>1
<1>4. ASSUME NEW i \in 1..Len(link'), i \notin 1..Len(link)
      PROVE  \E k \in 1..Len(more): i = Len(link) + k
  <2>1. i - Len(link) \in 1..Len(more) /\ i = Len(link) + (i - Len(link))
    BY <1>1, <1>4
  <2> QED BY <2>1
<1> QED BY <1>1, <1>2, <1>3, <1>4

\* What comes stays on its way while the link only grows.
LEMMA StillComing ==
    ASSUME link \in Seq(Frames), NEW more \in Seq(Frames), link' = link \o more
    PROVE  \A e: Coming(e) => Coming(e)'
BY LinkGrows DEF Coming

\* A step the client has no part in, and no event is published by.
LEMMA ClientSame ==
    ASSUME Client,
           UNCHANGED << online, epoch, epochs, seq, sync, asked, link, synced, cursor, seen, owed >>
    PROVE  Client'
BY DEF Client, ClientTyped, Recent, Apart, Unsynced, ToReplay, Replayed, AckThenLive, Synced,
       Coming, Reaches, Event

\* A step that leaves the journal and its files alone.
LEMMA ServerSame ==
    ASSUME Server,
           UNCHANGED << online, epoch, epochs, seq, header, pending, writing, tail, lines, torn,
                        frames >>
    PROVE  Server'
BY DEF Server, Typed, Numbered, Journalled, BufferHolds, Entry

\* What is written becomes part of the file, whatever becomes of the queue.
LEMMA FileGrows ==
    ASSUME Server, lines' = lines \o writing, writing' = << >>, torn' = FALSE,
           pending' = pending, tail' \in {tail, << >>},
           UNCHANGED << epoch, epochs, seq, header, frames >>,
           online' \in BOOLEAN, ~online' => pending = << >> /\ tail' = << >>
    PROVE  Server'
<1>1. Typed'
  <2>1. lines' \in Seq(Entries)
    BY ConcatProperties DEF Server, Typed
  <2>2. << >> \in Seq(Entries)
    OBVIOUS
  <2>3. writing' \in Seq(Entries) /\ pending' \in Seq(Entries) /\ tail' \in Seq(Entries)
    BY <2>2, Zenon DEF Server, Typed
  <2> QED BY <2>1, <2>3 DEF Server, Typed
<1>2. Numbered'
  BY DEF Server, Numbered
<1>3. Len(lines') = Len(lines) + Len(writing) /\ Len(writing') = 0
  BY DEF Server, Typed
<1>4. ASSUME NEW i \in 1..Len(lines') PROVE lines'[i] = Entry(i)
  <2>1. CASE i <= Len(lines)
    <3>1. i \in 1..Len(lines) /\ lines'[i] = lines[i]
      BY <1>3, <2>1 DEF Server, Typed
    <3> QED BY <3>1 DEF Server, Journalled
  <2>2. CASE i > Len(lines)
    <3>1. i - Len(lines) \in 1..Len(writing) /\ lines'[i] = writing[i - Len(lines)]
      BY <1>3, <2>2 DEF Server, Typed
    <3>2. Len(lines) + (i - Len(lines)) = i
      BY <1>3, <3>1 DEF Server, Typed
    <3> QED BY <3>1, <3>2 DEF Server, Journalled
  <2> QED BY <1>3, <2>1, <2>2 DEF Server, Typed
<1>5. Journalled'
  BY <1>3, <1>4 DEF Server, Typed, Journalled, Entry
<1>6. BufferHolds'
  <2>1. CASE tail' = tail
    BY <2>1 DEF Server, BufferHolds
  <2>2. CASE tail' = << >>
    BY <2>2 DEF Server, Typed, BufferHolds
  <2> QED BY <2>1, <2>2
<1> QED BY <1>1, <1>2, <1>5, <1>6 DEF Server

LEMMA WriteDoneKeeps == ASSUME Server, Client, WriteDone PROVE (Server /\ Client)'
<1>1. lines' = lines \o writing /\ torn' = FALSE
  BY AllLands DEF Server, WriteDone
<1>2. Server'
  <2>1. online' \in BOOLEAN /\ online'
    BY DEF WriteDone, Server, Typed
  <2> QED BY <1>1, <2>1, FileGrows DEF WriteDone, bounds
<1>3. Client'
  BY ClientSame DEF WriteDone, client, bounds
<1> QED BY <1>2, <1>3

\* The connection is gone; as nothing was lost with it, the cursor tells the truth.
LEMMA Closes ==
    ASSUME Client, ~CutShort, sync' = "closed", link' = << >>,
           UNCHANGED << epoch, epochs, seq, asked, synced, cursor, seen, owed >>
    PROVE  Client'
<1>1. (cursor = {} => owed = {}) /\ \A c \in cursor: Reaches(c)
  <2>1. CASE sync = "closed"
    BY <2>1 DEF Client, Apart
  <2>2. CASE sync # "closed" /\ synced
    <3>1. cursor = {Cursor(epoch, seq - Len(link))}
      BY <2>2 DEF Client, Synced
    <3>2. \A e \in owed: e <= seq - Len(link) => e \in seen
      BY <2>2 DEF Client, Synced
    <3>3. ASSUME NEW c \in cursor PROVE Reaches(c)
      <4>1. c.seq = seq - Len(link)
        BY <3>1 DEF Cursor
      <4> QED BY <3>2, <4>1 DEF Reaches
    <3> QED BY <3>1, <3>3
  <2>3. CASE sync # "closed" /\ ~synced
    BY <2>3 DEF Client, Unsynced, CutShort
  <2> QED BY <2>1, <2>2, <2>3
<1>2. ClientTyped'
  <2>1. << >> \in Seq(Frames)
    OBVIOUS
  <2>2. link' \in Seq(Frames)
    BY <2>1, Zenon
  <2> QED BY <2>2 DEF Client, ClientTyped
<1>3. Recent'
  BY DEF Client, Recent
<1>4. Apart'
  BY <1>1 DEF Apart, Reaches
<1>5. (Unsynced /\ ToReplay /\ Replayed /\ AckThenLive /\ Synced)'
  BY DEF Unsynced, ToReplay, Replayed, AckThenLive, Synced
<1> QED BY <1>2, <1>3, <1>4, <1>5 DEF Client

LEMMA DisconnectKeeps == ASSUME Server, Client, Disconnect, ~hurt' PROVE (Server /\ Client)'
<1>1. Server'
  BY ServerSame DEF Disconnect, journal, file
<1>2. Client'
  BY Closes DEF Disconnect, client, journal
<1> QED BY <1>1, <1>2

LEMMA StopKeeps == ASSUME Server, Client, Stop, ~hurt' PROVE (Server /\ Client)'
<1>1. /\ pending = << >> /\ Landed(Len(writing), "none")
      /\ ~CutShort
  <2>1. PICK n \in 0..Len(writing), more \in {"none", "part", "whole"}:
           Lands(n, more) /\ hurt' = (hurt \/ CutShort \/ pending # << >> \/ n < Len(writing))
    BY DEF Stop
  <2>2. ~(n < Len(writing)) /\ ~CutShort /\ pending = << >>
    BY <2>1, Zenon
  <2>3. n = Len(writing)
    BY <2>2 DEF Server, Typed
  <2> QED BY <2>1, <2>2, <2>3 DEF Lands
<1>2. lines' = lines \o writing /\ torn' = FALSE
  BY <1>1, AllLands DEF Server
<1>3. Server'
  BY <1>1, <1>2, FileGrows DEF Stop
<1>4. Client'
  BY <1>1, Closes DEF Stop, client
<1> QED BY <1>3, <1>4
-----------------------------------------------------------------------------
\* The server starts again: where the journal has lines they tell how far it is, and
\* where it has none nothing was ever published.
LEMMA OpenKeeps == ASSUME Server, Client, Open, ~hurt' PROVE (Server /\ Client)'
<1> DEFINE headers == {n \in DOMAIN lines: lines[n].kind = "header"}
<1>1. /\ ~online /\ online'
      /\ writing = << >> /\ pending = << >> /\ tail = << >> /\ sync = "closed"
  BY DEF Open, Server, Journalled, Client, ClientTyped
<1>2. UNCHANGED << pending, writing, tail, lines, torn, sync, asked, link, synced, cursor, seen,
                   owed, frames >>
  BY DEF Open, file, client
<1>3. CASE headers = {}
  <2>1. epoch' = epochs + 1 /\ epochs' = epochs + 1 /\ seq' = 0 /\ header'
    BY <1>3 DEF Open
  <2>2. header
    <3>1. ASSUME ~header PROVE FALSE
      <4>1. 1 \in DOMAIN lines
        BY <1>1, <3>1 DEF Server, Journalled, Typed
      <4>2. lines[1] = Header(epoch)
        <5>1. 1 \in 1..Len(lines)
          BY <4>1 DEF Server, Typed
        <5> QED BY <5>1 DEF Server, Journalled, Entry
      <4>3. lines[1].kind = "header"
        BY <4>2 DEF Header
      <4> QED BY <1>3, <4>1, <4>3
    <3> QED BY <3>1
  <2>3. seq = 0 /\ lines = << >> /\ owed = {} /\ Len(frames) = 0
    BY <2>2 DEF Server, Journalled, Numbered, Client, ClientTyped
  <2>4. Server'
    <3>1. Typed'
      BY <1>1, <1>2, <2>1 DEF Server, Typed
    <3>2. Numbered'
      BY <1>2, <2>1, <2>3 DEF Server, Numbered
    <3>3. Journalled'
      BY <1>1, <1>2, <2>1, <2>3 DEF Journalled
    <3>4. BufferHolds'
      BY <1>1, <1>2, <2>1 DEF BufferHolds
    <3> QED BY <3>1, <3>2, <3>3, <3>4 DEF Server
  <2>5. Client'
    <3>1. \A c \in cursor \cup asked: c.epoch <= epochs /\ c.epoch \in Nat /\ epochs \in Nat
      BY DEF Client, ClientTyped, Recent, Cursors, Server, Typed
    <3>2. ClientTyped'
      BY <1>1, <1>2, <2>1, <2>3 DEF Client, ClientTyped
    <3>3. link = << >>
      BY <1>1 DEF Client, Apart
    <3>4. Recent'
      BY <1>2, <2>1, <3>1, <3>3 DEF Client, Recent
    <3>5. Apart'
      BY <1>2, <2>3, <3>3 DEF Apart, Reaches
    <3>6. (Unsynced /\ ToReplay /\ Replayed /\ AckThenLive /\ Synced)'
      BY <1>1, <1>2, <3>3 DEF Unsynced, ToReplay, Replayed, AckThenLive, Synced
    <3> QED BY <3>2, <3>4, <3>5, <3>6 DEF Client
  <2> QED BY <2>4, <2>5
<1>4. CASE headers # {}
  <2>1. /\ epoch' = lines[CHOOSE n \in headers: \A m \in headers: n <= m].epoch
        /\ seq' = LastSeq /\ header' = FALSE /\ epochs' = epochs
    BY <1>4 DEF Open
  <2>2. ~header /\ Len(lines) = seq + 1 /\ seq \in Nat
    BY <1>1, <1>4 DEF Server, Journalled, Typed
  <2>3. \A i \in 1..(seq + 1): lines[i] = Entry(i)
    BY <2>2 DEF Server, Journalled
  <2>4. DOMAIN lines = 1..(seq + 1)
    BY <2>2 DEF Server, Typed
  <2>5. headers = {1}
    BY <2>2, <2>3, <2>4 DEF Entry, Header, Line
  <2>6. epoch' = epoch
    <3>1. (CHOOSE n \in headers: \A m \in headers: n <= m) = 1
      BY <2>5
    <3>2. lines[1].epoch = epoch
      BY <2>2, <2>3 DEF Entry, Header
    <3> QED BY <2>1, <3>1, <3>2
  <2>7. seq' = seq
    <3> DEFINE numbers == {lines[n].seq: n \in DOMAIN lines}
    <3>1. \A i \in 1..(seq + 1): lines[i].seq = i - 1
      BY <2>2, <2>3 DEF Entry, Header, Line
    <3>2. \A n \in numbers: n \in Int /\ n <= seq
      BY <2>2, <2>4, <3>1
    <3>3. seq \in numbers
      <4>1. seq + 1 \in 1..(seq + 1) /\ (seq + 1) - 1 = seq
        BY <2>2
      <4> QED BY <2>4, <3>1, <4>1
    <3>4. LastSeq = CHOOSE m \in numbers \cup {0}: \A n \in numbers: n <= m
      BY DEF LastSeq
    <3> HIDE DEF numbers
    <3>5. ASSUME NEW m \in numbers \cup {0}, \A n \in numbers: n <= m PROVE m = seq
      BY <2>2, <3>2, <3>3, <3>5
    <3>6. \A n \in numbers: n <= seq
      BY <3>2
    <3> QED BY <2>1, <3>3, <3>4, <3>5, <3>6
  <2>8. Server'
    <3>1. header' = header
      BY <2>1, <2>2 DEF Server, Typed
    <3>2. Typed' /\ Numbered' /\ BufferHolds'
      BY <1>1, <1>2, <2>1, <2>6, <2>7 DEF Server, Typed, Numbered, BufferHolds
    <3>3. Journalled'
      BY <1>1, <1>2, <2>6, <2>7, <3>1 DEF Server, Journalled, Entry
    <3> QED BY <3>2, <3>3 DEF Server
  <2>9. Client'
    BY <1>1, <1>2, <2>1, <2>6, <2>7
    DEF Client, ClientTyped, Recent, Apart, Unsynced, ToReplay, Replayed, AckThenLive, Synced,
        Coming, Reaches
  <2> QED BY <2>8, <2>9
<1> QED BY <1>3, <1>4
-----------------------------------------------------------------------------
LEMMA ConnectKeeps == ASSUME Server, Client, Connect PROVE (Server /\ Client)'
<1>1. Server'
  BY ServerSame DEF Connect, journal, file, bounds
<1>2. /\ link = << >> /\ link' = link /\ asked' = cursor /\ synced' = FALSE
      /\ sync' = (IF cursor = {} THEN "ack" ELSE "replay")
      /\ UNCHANGED << online, epoch, epochs, seq, cursor, seen, owed >>
  BY DEF Connect, journal, bounds, Client, Apart
<1>3. (cursor = {} => owed = {}) /\ (\A c \in cursor: Reaches(c))
  BY DEF Connect, Client, Apart
<1>4. ClientTyped'
  <2>1. online /\ sync' \in {"ack", "replay"}
    BY <1>2 DEF Connect
  <2>2. link' \in Seq(Frames) /\ cursor' \in SUBSET Cursors /\ asked' \in SUBSET Cursors
    BY <1>2 DEF Client, ClientTyped
  <2>3. seen' \in SUBSET Nat /\ owed' \in SUBSET (1..seq')
    BY <1>2 DEF Client, ClientTyped
  <2> QED BY <1>2, <2>1, <2>2, <2>3 DEF ClientTyped
<1>5. \A c, d \in cursor: c = d
  BY DEF Client, Recent
<1>6. Recent'
  BY <1>2, <1>5 DEF Client, Recent
<1>7. (Apart /\ Unsynced /\ AckThenLive /\ Synced)'
  BY <1>2, <1>3 DEF Apart, Unsynced, AckThenLive, Synced, Reaches
<1>8. (ToReplay /\ Replayed)'
  <2>1. \A e \in owed: e \in seen \/ \A c \in cursor: c.epoch = epoch => e > c.seq
    BY <1>3 DEF Client, ClientTyped, Server, Typed, Reaches, Cursors
  <2>2. CASE cursor = {}
    BY <1>2, <1>3, <2>2 DEF ToReplay, Replayed
  <2>3. CASE cursor # {}
    BY <1>2, <2>1, <2>3 DEF ToReplay, Replayed
  <2> QED BY <2>2, <2>3
<1> QED BY <1>1, <1>4, <1>6, <1>7, <1>8 DEF Client

\* What was to be replayed is sent.
LEMMA ReplaySent ==
    ASSUME Client, sync \in {"replay", "read"}, sync' = "ack",
           NEW more \in Seq(Frames), link' = link \o more,
           \A i \in 1..Len(more):
              more[i].kind # "ack" /\ more[i].epoch = epoch /\ more[i].seq <= seq,
           \A e \in owed: \/ e \in seen \/ Coming(e)
                          \/ \E i \in 1..Len(more):
                                \/ more[i].kind = "event" /\ more[i].event = e
                                \/ more[i].kind = "resync" /\ e <= more[i].event,
           UNCHANGED << online, epoch, epochs, seq, asked, synced, cursor, seen, owed >>
    PROVE  Client'
<1>1. link \in Seq(Frames)
  BY DEF Client, ClientTyped
<1>2. /\ link' \in Seq(Frames)
      /\ \A i \in 1..Len(link): i \in 1..Len(link') /\ link'[i] = link[i]
      /\ \A i \in 1..Len(more):
            Len(link) + i \in 1..Len(link') /\ link'[Len(link) + i] = more[i]
      /\ \A i \in 1..Len(link'):
            i \in 1..Len(link) \/ \E k \in 1..Len(more): i = Len(link) + k
  BY <1>1, LinkGrows
<1>3. ~synced /\ \A i \in 1..Len(link): link[i].kind # "ack"
  BY DEF Client, AckThenLive
<1>4. ASSUME NEW i \in 1..Len(link')
      PROVE  link'[i].kind # "ack" /\ link'[i].epoch = epoch /\ link'[i].seq <= seq
  <2>1. CASE i \in 1..Len(link)
    BY <1>2, <1>3, <2>1 DEF Client, Recent
  <2>2. ASSUME NEW k \in 1..Len(more), i = Len(link) + k
        PROVE  link'[i].kind # "ack" /\ link'[i].epoch = epoch /\ link'[i].seq <= seq
    BY <1>2, <2>2
  <2> QED BY <1>2, <2>1, <2>2
<1>5. ClientTyped'
  BY <1>2 DEF Client, ClientTyped
<1>6. Recent'
  BY <1>4 DEF Client, Recent
<1>7. (Apart /\ Unsynced)'
  BY <1>3 DEF Client, Apart, Unsynced, Reaches
<1>8. (AckThenLive /\ Synced)'
  BY <1>3, <1>4 DEF AckThenLive, Synced
<1>9. (ToReplay /\ Replayed)'
  <2>1. ASSUME NEW e \in owed, e \notin seen PROVE Coming(e)'
    <3>1. CASE Coming(e)
      BY <1>1, <3>1, StillComing
    <3>2. CASE \E i \in 1..Len(more): \/ more[i].kind = "event" /\ more[i].event = e
                                      \/ more[i].kind = "resync" /\ e <= more[i].event
      <4>1. PICK i \in 1..Len(more): \/ more[i].kind = "event" /\ more[i].event = e
                                     \/ more[i].kind = "resync" /\ e <= more[i].event
        BY <3>2
      <4>2. Len(link) + i \in 1..Len(link') /\ link'[Len(link) + i] = more[i]
        BY <1>2
      <4> QED BY <4>1, <4>2 DEF Coming
    <3> QED BY <2>1, <3>1, <3>2
  <2> QED BY <2>1 DEF ToReplay, Replayed
<1> QED BY <1>5, <1>6, <1>7, <1>8, <1>9 DEF Client

\* The events after n are frames, and the one of event e is number e - n of them.
LEMMA SinceSent ==
    ASSUME Server, NEW n \in Nat, n <= seq
    PROVE  /\ Since(n) \in Seq(Frames) /\ Len(Since(n)) = seq - n
           /\ \A i \in 1..(seq - n): Since(n)[i] = Event(n + i)
<1>1. seq - n \in Nat /\ epoch \in Nat
  BY DEF Server, Typed
<1>2. \A i \in 1..(seq - n): Event(n + i) \in Frames
  BY <1>1 DEF Event, Frame, Frames
<1>3. Since(n) \in [1..(seq - n) -> Frames]
  BY <1>2 DEF Since
<1>4. Since(n) \in Seq(Frames) /\ Len(Since(n)) = seq - n
  BY <1>1, <1>3
<1> QED BY <1>4 DEF Since

LEMMA ReplayKeeps == ASSUME Server, Client, Replay PROVE (Server /\ Client)'
<1>1. Server'
  BY ServerSame DEF Replay, journal, file, bounds
<1>2. sync = "replay" /\ UNCHANGED << online, epoch, epochs, seq, asked, synced, cursor, seen, owed >>
  BY DEF Replay, journal, client, bounds
<1>3. PICK c \in asked:
         \/ /\ Unserved(c)
            /\ link' = Append(link, Frame("resync", epoch, seq, Len(frames)))
            /\ sync' = "ack"
         \/ /\ ~Unserved(c)
            /\ c.seq = seq \/ FromBuffer(c)
            /\ link' = link \o After(tail, c.seq)
            /\ sync' = "ack"
         \/ /\ ~Unserved(c)
            /\ c.seq # seq /\ ~FromBuffer(c)
            /\ sync' = "read"
            /\ UNCHANGED link
  BY DEF Replay
<1>4. link \in Seq(Frames) /\ c \in Cursors /\ seq \in Nat /\ epoch \in Nat /\ BufferSize \in Nat
  BY DEF Client, ClientTyped, Server, Typed
<1>5. \A e \in owed: \/ e \in seen \/ Coming(e)
                     \/ c.epoch = epoch => e > c.seq
  BY <1>2 DEF Client, ToReplay
<1>6. CASE /\ Unserved(c)
           /\ link' = Append(link, Frame("resync", epoch, seq, Len(frames)))
           /\ sync' = "ack"
  <2>1. PICK f \in Frames: f = Frame("resync", epoch, seq, seq)
    BY <1>4 DEF Frame, Frames
  <2>2. << f >> \in Seq(Frames) /\ Len(<< f >>) = 1 /\ << f >>[1] = f
    BY <2>1
  <2>3. link' = link \o << f >>
    <3>1. link' = Append(link, f)
      BY <1>6, <2>1 DEF Server, Numbered
    <3> QED BY <1>4, <2>1, <3>1, AppendIsConcat
  <2>4. f.kind = "resync" /\ f.epoch = epoch /\ f.seq = seq /\ f.event = seq
    BY <2>1 DEF Frame
  <2>5. \A e \in owed: e <= seq
    BY <1>4 DEF Client, ClientTyped
  <2>6. \A i \in 1..Len(<< f >>):
           << f >>[i].kind # "ack" /\ << f >>[i].epoch = epoch /\ << f >>[i].seq <= seq
    BY <1>4, <2>2, <2>4
  <2>7. \A e \in owed: \E i \in 1..Len(<< f >>):
           << f >>[i].kind = "resync" /\ e <= << f >>[i].event
    BY <2>2, <2>4, <2>5
  <2> HIDE <2>1
  <2>8. Client'
    BY <1>2, <1>6, <2>2, <2>3, <2>6, <2>7, ReplaySent
  <2> QED BY <1>1, <2>8
<1>7. CASE /\ ~Unserved(c)
           /\ c.seq = seq \/ FromBuffer(c)
           /\ link' = link \o After(tail, c.seq)
           /\ sync' = "ack"
  <2>1. c.seq \in Nat /\ c.epoch = epoch /\ c.seq <= seq
    BY <1>4, <1>7 DEF Unserved, Cursors
  <2>2. Len(tail) \in Nat /\ Len(tail) <= seq
    BY DEF Server, Typed, BufferHolds
  <2>3. seq - Len(tail) <= c.seq
    <3>1. CASE c.seq = seq
      BY <1>4, <2>2, <3>1
    <3>2. CASE FromBuffer(c)
      <4>1. 1 \in 1..Len(tail) /\ tail[1].seq <= c.seq + 1
        BY <3>2 DEF FromBuffer, Server, Typed
      <4>2. tail[1] = Line(epoch, (seq - Len(tail)) + 1, (seq - Len(tail)) + 1)
        BY <4>1 DEF Server, BufferHolds
      <4>3. tail[1].seq = (seq - Len(tail)) + 1
        BY <4>2 DEF Line
      <4> QED BY <1>4, <2>1, <2>2, <4>1, <4>3
    <3> QED BY <1>7, <3>1, <3>2
  <2>4. After(tail, c.seq) = Since(c.seq)
    BY <2>1, <2>3, BufferSince DEF Server
  <2>5. PICK n \in Nat: n = c.seq
    BY <2>1
  <2>6. /\ Since(n) \in Seq(Frames) /\ Len(Since(n)) = seq - n
        /\ \A i \in 1..(seq - n): Since(n)[i] = Event(n + i)
    BY <2>1, <2>5, SinceSent
  <2>7. \A i \in 1..Len(Since(n)):
           /\ Since(n)[i].kind # "ack" /\ Since(n)[i].epoch = epoch /\ Since(n)[i].seq <= seq
           /\ Since(n)[i].kind = "event" /\ Since(n)[i].event = n + i
    <3>1. \A i \in 1..(seq - n): Since(n)[i].kind = "event" /\ Since(n)[i].epoch = epoch
             /\ Since(n)[i].seq = n + i /\ Since(n)[i].event = n + i
      BY <2>6 DEF Event, Frame
    <3> QED BY <1>4, <2>6, <3>1
  <2>8. ASSUME NEW e \in owed, e \notin seen, ~Coming(e)
        PROVE  \E i \in 1..Len(Since(n)): Since(n)[i].kind = "event" /\ Since(n)[i].event = e
    <3>1. e > n /\ e \in 1..seq
      BY <1>5, <2>1, <2>5, <2>8 DEF Client, ClientTyped
    <3>2. e - n \in 1..Len(Since(n)) /\ n + (e - n) = e
      BY <1>4, <2>6, <3>1
    <3> QED BY <2>7, <3>2
  <2>9. Client'
    BY <1>2, <1>7, <2>4, <2>5, <2>6, <2>7, <2>8, ReplaySent, ZenonT(60)
  <2> QED BY <1>1, <2>9
<1>8. CASE /\ ~Unserved(c)
           /\ c.seq # seq /\ ~FromBuffer(c)
           /\ sync' = "read"
           /\ UNCHANGED link
  <2>1. c.epoch = epoch /\ c.seq <= seq /\ seq <= c.seq + BufferSize
    BY <1>4, <1>8 DEF Unserved, Cursors
  <2>2. asked = {c}
    BY DEF Client, Recent
  <2>3. (ClientTyped /\ Recent /\ Apart /\ Unsynced /\ Replayed /\ AckThenLive /\ Synced)'
    BY <1>2, <1>8 DEF Client, ClientTyped, Recent, Apart, Unsynced, Replayed, AckThenLive,
                      Synced, Reaches, Event, Replay
  <2>4. \A e: Coming(e)' <=> Coming(e)
    BY <1>8 DEF Coming
  <2>5. \A e \in owed: e <= c.seq + BufferSize
    BY <1>4, <2>1 DEF Client, ClientTyped, Cursors
  <2>6. ToReplay'
    BY <1>2, <1>5, <1>8, <2>1, <2>2, <2>4, <2>5 DEF ToReplay
  <2> QED BY <1>1, <2>3, <2>6 DEF Client
<1> QED BY <1>3, <1>6, <1>7, <1>8

\* The lines of the queue are written for the reader.
LEMMA FlushForReadKeeps == ASSUME Server, Client, FlushForRead PROVE (Server /\ Client)'
<1>1. /\ writing = << >> /\ pending # << >> /\ ~header /\ pending' = << >> /\ header' = FALSE
      /\ UNCHANGED << online, epoch, epochs, seq, tail, lines, torn, frames >>
  BY DEF FlushForRead, Taken, Server, Journalled, file, bounds
<1>2. writing' = pending
  <2>1. writing' = (<< >> \o pending) \o << >>
    BY <1>1 DEF FlushForRead, Taken
  <2>2. pending \in Seq(Entries)
    BY DEF Server, Typed
  <2> QED BY <2>1, <2>2
<1>3. Server'
  <2>1. << >> \in Seq(Entries)
    OBVIOUS
  <2>2. writing' \in Seq(Entries) /\ pending' \in Seq(Entries)
    BY <1>1, <1>2, <2>1, Zenon DEF Server, Typed
  <2>3. Typed' /\ Numbered' /\ BufferHolds'
    BY <1>1, <2>2 DEF Server, Typed, Numbered, BufferHolds
  <2>4. Len(writing) = 0 /\ Len(pending') = 0 /\ Len(pending) # 0 /\ Len(pending) \in Nat
        /\ Len(lines) \in Nat
    BY <1>1 DEF Server, Typed
  <2>5. \A i \in 1..Len(pending): pending[i] = Entry(Len(lines) + i)
    BY <2>4 DEF Server, Journalled
  <2>6. Journalled'
    BY <1>1, <1>2, <2>4, <2>5 DEF Server, Journalled, Entry, FlushForRead
  <2> QED BY <2>3, <2>6 DEF Server
<1>4. Client'
  BY ClientSame DEF FlushForRead, client, bounds
<1> QED BY <1>3, <1>4

LEMMA ReadKeeps == ASSUME Server, Client, Read PROVE (Server /\ Client)'
<1>1. Server'
  BY ServerSame DEF Read, Read_Unflushed, journal, file, bounds
<1>2. /\ sync = "read" /\ sync' = "ack" /\ writing = << >> /\ pending = << >>
      /\ UNCHANGED << online, epoch, epochs, seq, asked, synced, cursor, seen, owed >>
  BY DEF Read, Read_Unflushed, journal, client, bounds
<1>3. PICK c \in asked:
         link' = link \o SubSeq(After(lines, c.seq), 1,
                                IF Len(After(lines, c.seq)) > BufferSize
                                THEN BufferSize ELSE Len(After(lines, c.seq)))
  BY DEF Read, Read_Unflushed
<1>4. link \in Seq(Frames) /\ c \in Cursors /\ seq \in Nat /\ BufferSize \in Nat
  BY DEF Client, ClientTyped, Server, Typed
<1>5. c.epoch = epoch /\ c.seq \in Nat /\ c.seq <= seq
  BY <1>2, <1>4 DEF Client, ToReplay, Recent, Cursors
<1>6. PICK n \in Nat: n = c.seq
  BY <1>5
<1>7. After(lines, n) = Since(n)
  BY <1>2, <1>5, <1>6, FileSince
<1>8. /\ Since(n) \in Seq(Frames) /\ Len(Since(n)) = seq - n
      /\ \A i \in 1..(seq - n): Since(n)[i] = Event(n + i)
  BY <1>5, <1>6, SinceSent
<1>9. PICK k \in Nat: k = IF seq - n > BufferSize THEN BufferSize ELSE seq - n
  BY <1>4, <1>5, <1>6
<1>10. PICK more \in Seq(Frames): more = SubSeq(Since(n), 1, k)
  <2>1. 1 \in 1..(Len(Since(n)) + 1) /\ k \in (1 - 1)..Len(Since(n))
    BY <1>4, <1>5, <1>6, <1>8, <1>9
  <2>2. SubSeq(Since(n), 1, k) \in Seq(Frames)
    BY <1>8, <2>1, SubSeqProperties
  <2> QED BY <2>2
<1>11. Len(more) = k /\ \A i \in 1..k: more[i] = Event(n + i)
  <2>1. 1 \in 1..(Len(Since(n)) + 1) /\ k \in (1 - 1)..Len(Since(n)) /\ k <= seq - n
    BY <1>4, <1>5, <1>6, <1>8, <1>9
  <2>2. Len(more) = k /\ \A i \in 1..k: more[i] = Since(n)[i]
    BY <1>8, <1>10, <2>1, SubSeqProperties
  <2>3. 1..k \subseteq 1..(seq - n)
    BY <1>4, <1>5, <1>6, <2>1
  <2> QED BY <1>8, <2>2, <2>3
<1>12. link' = link \o more
  BY <1>3, <1>6, <1>7, <1>8, <1>9, <1>10
<1>13. \A i \in 1..Len(more):
          /\ more[i].kind # "ack" /\ more[i].epoch = epoch /\ more[i].seq <= seq
          /\ more[i].kind = "event" /\ more[i].event = n + i
  <2>1. \A i \in 1..k: more[i].kind = "event" /\ more[i].epoch = epoch
           /\ more[i].seq = n + i /\ more[i].event = n + i
    BY <1>11 DEF Event, Frame
  <2>2. \A i \in 1..k: n + i <= seq
    BY <1>4, <1>5, <1>6, <1>9
  <2> QED BY <1>11, <2>1, <2>2
<1>14. ASSUME NEW e \in owed, e \notin seen, ~Coming(e)
       PROVE  \E i \in 1..Len(more): more[i].kind = "event" /\ more[i].event = e
  <2>1. e > n /\ e <= n + BufferSize /\ e \in 1..seq
    BY <1>2, <1>5, <1>6, <1>14 DEF Client, ClientTyped, ToReplay
  <2>2. e - n \in 1..k /\ n + (e - n) = e
    BY <1>4, <1>9, <2>1
  <2> QED BY <1>11, <1>13, <2>2
<1>15. Client'
  BY <1>2, <1>12, <1>13, <1>14, ReplaySent
<1> QED BY <1>1, <1>15

LEMMA AcknowledgeKeeps == ASSUME Server, Client, Acknowledge PROVE (Server /\ Client)'
<1>1. Server'
  BY ServerSame DEF Acknowledge, journal, file, bounds
<1>2. /\ online /\ sync = "ack" /\ sync' = "live"
      /\ UNCHANGED << online, epoch, epochs, seq, asked, synced, cursor, seen, owed >>
  BY DEF Acknowledge, journal, client, bounds
<1>3. link \in Seq(Frames) /\ Len(link) \in Nat /\ seq \in Nat /\ epoch \in Nat
  BY DEF Client, ClientTyped, Server, Typed
<1>4. PICK f \in Frames: f = Frame("ack", epoch, seq, 0)
  BY <1>3 DEF Frame, Frames
<1>5. f.kind = "ack" /\ f.epoch = epoch /\ f.seq = seq
  BY <1>4 DEF Frame
<1>6. link' = Append(link, f)
  BY <1>4 DEF Acknowledge
<1>7. /\ link' \in Seq(Frames) /\ Len(link') = Len(link) + 1 /\ link'[Len(link) + 1] = f
      /\ \A i \in 1..Len(link): i \in 1..Len(link') /\ link'[i] = link[i]
  BY <1>3, <1>6
<1>8. ~synced /\ \A i \in 1..Len(link): link[i].kind # "ack"
  BY <1>2 DEF Client, AckThenLive
<1>9. ASSUME NEW i \in 1..Len(link')
      PROVE  /\ link'[i].epoch = epoch /\ link'[i].seq <= seq
             /\ link'[i].kind = "ack" => i = Len(link') /\ link'[i].seq = seq
  <2>1. CASE i = Len(link) + 1
    BY <1>3, <1>5, <1>7, <2>1
  <2>2. CASE i # Len(link) + 1
    <3>1. i \in 1..Len(link)
      BY <1>3, <1>7, <2>2
    <3> QED BY <1>7, <1>8, <3>1 DEF Client, Recent
  <2> QED BY <2>1, <2>2
<1>10. ClientTyped'
  BY <1>2, <1>7 DEF Client, ClientTyped
<1>11. Recent'
  BY <1>2, <1>9 DEF Client, Recent
<1>12. (Apart /\ Unsynced /\ ToReplay /\ Synced)'
  BY <1>2, <1>8 DEF Client, Apart, Unsynced, ToReplay, Synced, Reaches
<1>13. Replayed'
  <2>1. ASSUME NEW e, Coming(e) PROVE Coming(e)'
    BY <1>7, <2>1 DEF Coming
  <2> QED BY <1>2, <2>1 DEF Client, Replayed
<1>14. AckThenLive'
  BY <1>2, <1>3, <1>7, <1>8, <1>9 DEF AckThenLive
<1> QED BY <1>1, <1>10, <1>11, <1>12, <1>13, <1>14 DEF Client
-----------------------------------------------------------------------------
\* The next event is numbered, and its line queued or given to a write.
LEMMA PublishKeepsServer == ASSUME Server, Publish PROVE Server'
<1>1. seq \in Nat /\ epoch \in Nat /\ Len(frames) = seq /\ frames \in Seq(Cursors)
  BY DEF Server, Typed, Numbered
<1>2. PICK entry \in Entries: entry = Line(epoch, seq + 1, seq + 1)
  <2>1. PICK n \in Nat: n = seq + 1
    BY <1>1
  <2>2. Line(epoch, n, n) \in Entries
    BY <1>1 DEF Line, Entries
  <2> QED BY <2>1, <2>2
<1>3. PICK given \in Cursors: given = Cursor(epoch, seq + 1)
  <2>1. PICK n \in Nat: n = seq + 1
    BY <1>1
  <2>2. Cursor(epoch, n) \in Cursors
    BY <1>1 DEF Cursor, Cursors
  <2> QED BY <2>1, <2>2
<1>4. /\ online /\ seq' = seq + 1 /\ frames' = Append(frames, given) /\ tail' = Buffered(entry)
      /\ IF writing = << >>
         THEN Taken(<< entry >>)
         ELSE pending' = Append(pending, entry) /\ UNCHANGED << header, writing >>
      /\ UNCHANGED << online, epoch, epochs, lines, torn >>
  BY <1>1, <1>2, <1>3 DEF Publish, file, bounds
<1>5. entry = Entry(seq + 2)
  BY <1>1, <1>2 DEF Entry
<1>6. Numbered'
  <2>1. /\ frames' \in Seq(Cursors) /\ Len(frames') = seq + 1 /\ frames'[seq + 1] = given
        /\ \A n \in 1..seq: frames'[n] = frames[n]
    BY <1>1, <1>4
  <2> QED BY <1>1, <1>3, <1>4, <2>1 DEF Server, Numbered
<1>7. tail' \in Seq(Entries) /\ BufferHolds'
  <2>1. tail \in Seq(Entries) /\ Len(tail) \in Nat /\ Len(tail) <= seq /\ BufferSize \in Nat
    BY DEF Server, Typed, BufferHolds
  <2>2. PICK buffer \in Seq(Entries): buffer = Append(tail, entry)
    BY <2>1, AppendProperties
  <2>3. /\ Len(buffer) = Len(tail) + 1 /\ buffer[Len(tail) + 1] = entry
        /\ \A n \in 1..Len(tail): buffer[n] = tail[n]
    BY <2>1, <2>2
  <2>4. ASSUME NEW n \in 1..Len(buffer)
        PROVE  buffer[n] = Line(epoch, (seq + 1 - Len(buffer)) + n, (seq + 1 - Len(buffer)) + n)
    <3>1. seq + 1 - Len(buffer) = seq - Len(tail)
      BY <1>1, <2>1, <2>3
    <3>2. CASE n = Len(tail) + 1
      <4>1. (seq - Len(tail)) + n = seq + 1
        BY <1>1, <2>1, <3>2
      <4> QED BY <1>2, <2>3, <3>1, <3>2, <4>1
    <3>3. CASE n # Len(tail) + 1
      <4>1. n \in 1..Len(tail)
        BY <2>1, <2>3, <3>3
      <4> QED BY <2>3, <3>1, <4>1 DEF Server, BufferHolds
    <3> QED BY <3>2, <3>3
  <2>5. CASE tail' = buffer
    <3>1. Len(buffer) <= seq + 1
      BY <1>1, <2>1, <2>3
    <3>2. tail' \in Seq(Entries) /\ seq' = seq + 1 /\ epoch' = epoch
      BY <1>4, <2>5
    <3>3. ASSUME NEW n \in 1..Len(tail')
          PROVE  tail'[n] = Line(epoch', (seq' - Len(tail')) + n, (seq' - Len(tail')) + n)
      <4>1. n \in 1..Len(buffer)
        BY <2>5
      <4>2. (seq' - Len(tail')) + n = (seq + 1 - Len(buffer)) + n
        BY <1>1, <2>5, <3>2, <4>1
      <4> QED BY <2>4, <2>5, <3>2, <4>1, <4>2
    <3>4. Len(tail') <= seq'
      BY <2>5, <3>1, <3>2
    <3> QED BY <3>2, <3>3, <3>4 DEF BufferHolds
  <2>6. CASE tail' = Tail(buffer)
    <3>1. /\ tail' \in Seq(Entries) /\ Len(tail') = Len(tail)
          /\ \A n \in 1..Len(tail): n + 1 \in 1..Len(buffer) /\ tail'[n] = buffer[n + 1]
      BY <2>1, <2>3, <2>6
    <3>2. ASSUME NEW n \in 1..Len(tail)
          PROVE  tail'[n] = Line(epoch, (seq + 1 - Len(tail)) + n, (seq + 1 - Len(tail)) + n)
      <4>1. (seq + 1 - Len(buffer)) + (n + 1) = (seq + 1 - Len(tail)) + n
        BY <1>1, <2>1, <2>3
      <4> QED BY <2>4, <3>1, <4>1
    <3> QED BY <1>1, <1>4, <2>1, <3>1, <3>2 DEF BufferHolds
  <2> QED BY <1>4, <2>2, <2>5, <2>6 DEF Buffered
<1>8. lines \in Seq(Entries) /\ writing \in Seq(Entries) /\ pending \in Seq(Entries)
  BY DEF Server, Typed
<1>9. CASE writing # << >>
  <2>1. ~header /\ header' = header /\ writing' = writing /\ pending' = Append(pending, entry)
    BY <1>4, <1>9 DEF Server, Journalled
  <2>2. /\ pending' \in Seq(Entries) /\ Len(pending') = Len(pending) + 1
        /\ pending'[Len(pending) + 1] = entry
        /\ \A i \in 1..Len(pending): pending'[i] = pending[i]
    BY <1>8, <2>1
  <2>3. Len(lines) + Len(writing) + Len(pending) = seq + 1
    BY <2>1 DEF Server, Journalled
  <2>4. ASSUME NEW i \in 1..Len(pending')
        PROVE  pending'[i] = Entry(Len(lines) + Len(writing) + i)
    <3>1. CASE i = Len(pending) + 1
      <4>1. Len(lines) + Len(writing) + i = seq + 2
        BY <1>1, <1>8, <2>3, <3>1
      <4> QED BY <1>5, <2>2, <3>1, <4>1
    <3>2. CASE i # Len(pending) + 1
      <4>1. i \in 1..Len(pending)
        BY <1>8, <2>2, <3>2
      <4> QED BY <2>2, <4>1 DEF Server, Journalled
    <3> QED BY <3>1, <3>2
  <2>5. Journalled'
    BY <1>1, <1>4, <1>8, <1>9, <2>1, <2>2, <2>3, <2>4 DEF Server, Journalled, Entry
  <2>6. Typed'
    BY <1>4, <1>7, <2>1, <2>2 DEF Server, Typed
  <2> QED BY <1>6, <1>7, <2>5, <2>6 DEF Server
<1>10. CASE writing = << >>
  <2>1. PICK first \in Seq(Entries): first = IF header THEN << Header(epoch) >> ELSE << >>
    <3>1. Header(epoch) \in Entries
      BY <1>1 DEF Header, Entries
    <3>2. << Header(epoch) >> \in Seq(Entries) /\ << >> \in Seq(Entries)
      BY <3>1
    <3> QED BY <3>2
  <2>2. writing' = (first \o pending) \o << entry >> /\ pending' = << >> /\ header' = FALSE
    BY <1>4, <1>10, <2>1 DEF Taken
  <2>3. PICK old \in Seq(Entries): old = first \o pending
    BY <1>8, <2>1, ConcatProperties
  <2>4. writing' = Append(old, entry)
    BY <2>2, <2>3, AppendIsConcat
  <2>5. Len(lines) + Len(old) = seq + 1 /\ \A i \in 1..Len(old): old[i] = Entry(Len(lines) + i)
    <3>1. CASE header
      <4>1. lines = << >> /\ pending = << >> /\ seq = 0
        BY <3>1 DEF Server, Journalled
      <4>2. old = << Header(epoch) >>
        BY <2>1, <2>3, <3>1, <4>1
      <4>3. Len(old) = 1 /\ old[1] = Header(epoch) /\ Len(lines) = 0
        BY <4>1, <4>2
      <4> QED BY <4>1, <4>3 DEF Entry
    <3>2. CASE ~header
      <4>1. old = pending
        BY <1>8, <2>1, <2>3, <3>2
      <4>2. Len(writing) = 0 /\ Len(lines) \in Nat /\ Len(pending) \in Nat
        BY <1>8, <1>10
      <4> QED BY <3>2, <4>1, <4>2 DEF Server, Journalled
    <3> QED BY <3>1, <3>2
  <2>6. /\ writing' \in Seq(Entries) /\ Len(writing') = Len(old) + 1
        /\ writing'[Len(old) + 1] = entry /\ \A i \in 1..Len(old): writing'[i] = old[i]
    BY <2>4
  <2>7. ASSUME NEW i \in 1..Len(writing') PROVE writing'[i] = Entry(Len(lines) + i)
    <3>1. CASE i = Len(old) + 1
      <4>1. Len(lines) + i = seq + 2
        BY <1>1, <1>8, <2>5, <3>1
      <4> QED BY <1>5, <2>6, <3>1, <4>1
    <3>2. CASE i # Len(old) + 1
      <4>1. i \in 1..Len(old)
        BY <2>6, <3>2
      <4> QED BY <2>5, <2>6, <4>1
    <3> QED BY <3>1, <3>2
  <2>8. Len(pending') = 0 /\ writing' # << >>
    BY <2>2, <2>6
  <2>9. Journalled'
    <3>1. Len(lines) + Len(writing') + Len(pending') = seq + 2
      <4>1. Len(lines) \in Nat /\ Len(old) \in Nat
        BY <1>8
      <4> QED BY <1>1, <2>5, <2>6, <2>8, <4>1
    <3>2. \A i \in 1..Len(lines): lines[i] = Entry(i)
      BY DEF Server, Journalled
    <3> QED BY <1>1, <1>4, <2>2, <2>7, <2>8, <3>1, <3>2 DEF Journalled, Entry
  <2>10. Typed'
    <3>1. << >> \in Seq(Entries)
      OBVIOUS
    <3>2. pending' \in Seq(Entries)
      BY <2>2, <3>1, Zenon
    <3>3. seq' \in Nat /\ header' \in BOOLEAN /\ lines' \in Seq(Entries)
      <4>1. seq' = seq + 1 /\ lines' = lines
        BY <1>4
      <4>2. lines' \in Seq(Entries)
        BY <1>8, <4>1, Zenon
      <4>3. seq' \in Nat
        BY <1>1, <4>1
      <4> QED BY <2>2, <4>2, <4>3
    <3> QED BY <1>4, <1>7, <2>6, <3>2, <3>3 DEF Server, Typed
  <2> QED BY <1>6, <1>7, <2>9, <2>10 DEF Server
<1> QED BY <1>9, <1>10

\* What the client is owed grows by the event, which is sent wherever it is connected.
LEMMA PublishKeepsClient == ASSUME Server, Client, Publish PROVE Client'
<1>1. seq \in Nat /\ epoch \in Nat /\ Len(frames) = seq
  BY DEF Server, Typed, Numbered
<1>2. /\ online /\ seq' = seq + 1
      /\ IF sync = "closed"
         THEN UNCHANGED link
         ELSE link' = Append(link, Event(seq + 1))
      /\ owed' = IF cursor # {} \/ sync # "closed" THEN owed \cup {seq + 1} ELSE owed
      /\ UNCHANGED << online, epoch, epochs, sync, asked, synced, cursor, seen >>
  BY <1>1 DEF Publish, bounds, Event
<1>3. link \in Seq(Frames) /\ Len(link) \in Nat /\ owed \in SUBSET (1..seq)
  BY DEF Client, ClientTyped
<1>4. \A e \in owed': e \in owed \/ e = seq + 1
  BY <1>2
<1>5. \A c \in cursor \cup asked: c.seq \in Nat /\ (c.epoch = epoch => c.seq <= seq)
  BY DEF Client, ClientTyped, Recent, Cursors
<1>6. ASSUME NEW c \in cursor \cup asked, Reaches(c) PROVE Reaches(c)'
  <2>1. ASSUME c.epoch = epoch, NEW e \in owed', e <= c.seq PROVE e \in seen
    <3>1. e # seq + 1
      BY <1>1, <1>5, <2>1
    <3> QED BY <1>4, <1>6, <2>1, <3>1 DEF Reaches
  <2> QED BY <1>2, <2>1 DEF Reaches
<1>9. PICK event \in Nat: event = seq + 1
  BY <1>1
<1>10. \A i \in 1..Len(link): link[i].seq \in Nat
  <2>1. \A i \in 1..Len(link): link[i] \in Frames
    BY <1>3
  <2> QED BY <2>1 DEF Frames
<1>7. CASE sync = "closed"
  <2>1. link = << >> /\ link' = link
    BY <1>2, <1>7 DEF Client, Apart
  <2>2. ClientTyped'
    <3>1. owed' \in SUBSET (1..(seq + 1))
      BY <1>1, <1>2, <1>3
    <3> QED BY <1>2, <2>1, <3>1 DEF Client, ClientTyped
  <2>3. Recent'
    BY <1>1, <1>2, <1>5, <2>1 DEF Client, Recent
  <2>4. Apart'
    BY <1>2, <1>6, <1>7, <2>1 DEF Client, Apart
  <2>5. (Unsynced /\ ToReplay /\ Replayed /\ AckThenLive /\ Synced)'
    BY <1>2, <1>7, <2>1 DEF Unsynced, ToReplay, Replayed, AckThenLive, Synced
  <2> QED BY <2>2, <2>3, <2>4, <2>5 DEF Client
<1>8. CASE sync # "closed"
  <2>1. PICK f \in Frames: f = Event(seq + 1)
    <3>1. PICK n \in Nat: n = seq + 1
      BY <1>1
    <3>2. Event(n) \in Frames
      BY <1>1 DEF Event, Frame, Frames
    <3> QED BY <3>1, <3>2
  <2>2. f.kind = "event" /\ f.epoch = epoch /\ f.seq = seq + 1 /\ f.event = seq + 1
    BY <2>1 DEF Event, Frame
  <2>3. link' = Append(link, f)
    BY <1>2, <1>8, <2>1
  <2>4. /\ link' \in Seq(Frames) /\ Len(link') = Len(link) + 1 /\ link'[Len(link) + 1] = f
        /\ \A i \in 1..Len(link): i \in 1..Len(link') /\ link'[i] = link[i]
    BY <1>3, <2>3
  <2>5. \A i \in 1..Len(link'): i \in 1..Len(link) \/ i = Len(link) + 1
    BY <1>3, <2>4
  <2>6. ClientTyped'
    <3>1. owed' \in SUBSET (1..(seq + 1))
      BY <1>1, <1>2, <1>3
    <3> QED BY <1>2, <2>4, <3>1 DEF Client, ClientTyped
  <2>7. Recent'
    <3>1. \A i \in 1..Len(link'): link'[i].epoch = epoch /\ link'[i].seq <= seq + 1
      <4>1. \A i \in 1..Len(link): link[i].epoch = epoch /\ link[i].seq <= seq /\ link[i].seq \in Nat
        BY <1>10 DEF Client, Recent
      <4> QED BY <1>1, <2>2, <2>4, <2>5, <4>1
    <3> QED BY <1>1, <1>2, <1>5, <3>1 DEF Client, Recent
  <2>8. Apart'
    BY <1>2, <1>8 DEF Apart
  <2>9. Unsynced'
    BY <1>2, <1>6 DEF Client, Unsynced
  <2>10. \A e: Coming(e) => Coming(e)'
    BY <2>4 DEF Coming
  <2>11. Coming(event)'
    <3>1. Len(link) + 1 \in 1..Len(link')
      BY <1>3, <2>4
    <3>2. link'[Len(link) + 1].kind = "event" /\ link'[Len(link) + 1].event = event
      BY <1>9, <2>2, <2>4
    <3> QED BY <3>1, <3>2 DEF Coming
  <2>12. (ToReplay /\ Replayed)'
    <3>1. \A e \in owed': e \in owed \/ Coming(e)'
      BY <1>4, <1>9, <2>11
    <3> QED BY <1>2, <2>10, <3>1 DEF Client, ToReplay, Replayed
  <2>13. AckThenLive'
    <3>1. sync \in {"replay", "read", "ack"} =>
             ~synced /\ \A i \in 1..Len(link): link[i].kind # "ack"
      BY DEF Client, AckThenLive
    <3>2. \A i \in 1..Len(link'): link'[i].kind = "ack" => i \in 1..Len(link) /\ link[i].kind = "ack"
      BY <2>2, <2>4, <2>5
    <3>3. ASSUME NEW i \in 1..Len(link), link[i].kind = "ack"
          PROVE  /\ ~synced
                 /\ link'[i].seq + (Len(link') - i) = seq + 1
                 /\ \A j \in 1..Len(link'): j > i => link'[j] = Event(link'[i].seq + (j - i))
      <4>1. /\ ~synced /\ link[i].seq + (Len(link) - i) = seq
            /\ \A j \in 1..Len(link): j > i => link[j] = Event(link[i].seq + (j - i))
        BY <3>3 DEF Client, AckThenLive
      <4>2. link'[i] = link[i] /\ link[i].seq \in Nat
        BY <1>10, <2>4
      <4>3. link[i].seq + ((Len(link) + 1) - i) = seq + 1
        <5>1. PICK a \in Nat: a = link[i].seq
          BY <4>2
        <5>2. a + (Len(link) - i) = seq /\ i \in Int /\ Len(link) \in Int
          BY <1>3, <4>1, <5>1
        <5>3. a + ((Len(link) + 1) - i) = seq + 1
          BY <1>1, <5>2
        <5> QED BY <5>1, <5>3
      <4>4. ASSUME NEW j \in 1..Len(link'), j > i PROVE link'[j] = Event(link[i].seq + (j - i))
        <5>1. CASE j \in 1..Len(link)
          BY <2>4, <4>1, <4>4, <5>1
        <5>2. CASE j = Len(link) + 1
          BY <2>1, <2>4, <4>3, <5>2
        <5> QED BY <2>5, <5>1, <5>2
      <4> QED BY <2>4, <4>1, <4>2, <4>3, <4>4
    <3>4. AckThenLive'
      BY <1>2, <3>1, <3>2, <3>3 DEF AckThenLive, Event
    <3> QED BY <3>4
  <2>14. Synced'
    <3>1. CASE synced
      <4>1. /\ Len(link) <= seq /\ cursor = {Cursor(epoch, seq - Len(link))}
            /\ \A j \in 1..Len(link): link[j] = Event((seq - Len(link)) + j)
            /\ \A e \in owed: e <= seq - Len(link) => e \in seen
        BY <1>8, <3>1 DEF Client, Synced
      <4>2. (seq + 1) - Len(link') = seq - Len(link)
        BY <1>1, <1>3, <2>4
      <4>3. ASSUME NEW j \in 1..Len(link') PROVE link'[j] = Event((seq - Len(link)) + j)
        <5>1. CASE j \in 1..Len(link)
          BY <2>4, <4>1, <5>1
        <5>2. CASE j = Len(link) + 1
          <6>1. (seq - Len(link)) + j = seq + 1
            BY <1>1, <1>3, <5>2
          <6> QED BY <2>1, <2>4, <5>2, <6>1
        <5> QED BY <2>5, <5>1, <5>2
      <4>4. ASSUME NEW e \in owed', e <= seq - Len(link) PROVE e \in seen
        <5>1. e # seq + 1
          BY <1>1, <1>3, <4>4
        <5> QED BY <1>4, <4>1, <4>4, <5>1
      <4>5. Len(link') <= seq + 1
        BY <1>1, <1>3, <2>4, <4>1
      <4> QED BY <1>2, <4>1, <4>2, <4>3, <4>4, <4>5 DEF Synced, Event
    <3> QED BY <1>2, <3>1 DEF Synced
  <2> QED BY <2>6, <2>7, <2>8, <2>9, <2>12, <2>13, <2>14 DEF Client
<1> QED BY <1>7, <1>8

LEMMA PublishKeeps == ASSUME Server, Client, Publish PROVE (Server /\ Client)'
BY PublishKeepsServer, PublishKeepsClient
-----------------------------------------------------------------------------
\* What the client takes off the link it has, and the rest still comes.
LEMMA Takes ==
    ASSUME Client, link # << >>, link' = Tail(link)
    PROVE  /\ link[1] \in Frames /\ link[1].epoch = epoch /\ link[1].seq <= seq
           /\ sync # "closed"
           /\ link' \in Seq(Frames) /\ Len(link') = Len(link) - 1 /\ Len(link) \in Nat
           /\ \A i \in 1..Len(link'): i + 1 \in 1..Len(link) /\ link'[i] = link[i + 1]
           /\ \A e: Coming(e) => \/ Coming(e)'
                                 \/ link[1].kind = "event" /\ link[1].event = e
                                 \/ link[1].kind = "resync" /\ e <= link[1].event
<1>1. link \in Seq(Frames) /\ Len(link) \in Nat /\ 1 \in 1..Len(link)
  BY DEF Client, ClientTyped
<1>2. link[1] \in Frames /\ link[1].epoch = epoch /\ link[1].seq <= seq
  BY <1>1 DEF Client, Recent
<1>3. sync # "closed"
  BY DEF Client, Apart
<1>4. link' \in Seq(Frames) /\ Len(link') = Len(link) - 1
  BY <1>1, HeadTailProperties
<1>5. \A i \in 1..Len(link'): i + 1 \in 1..Len(link) /\ link'[i] = link[i + 1]
  BY <1>1, <1>4
<1>6. ASSUME NEW e, Coming(e), ~Coming(e)'
      PROVE  \/ link[1].kind = "event" /\ link[1].event = e
             \/ link[1].kind = "resync" /\ e <= link[1].event
  <2>1. PICK i \in 1..Len(link): \/ link[i].kind = "event" /\ link[i].event = e
                                 \/ link[i].kind = "resync" /\ e <= link[i].event
    BY <1>6 DEF Coming
  <2>2. ASSUME i # 1 PROVE FALSE
    <3>1. PICK k \in 1..Len(link'): k + 1 = i
      <4>1. i - 1 \in 1..Len(link') /\ (i - 1) + 1 = i
        BY <1>1, <1>4, <2>2
      <4> QED BY <4>1
    <3>2. link'[k] = link[i]
      BY <1>5, <3>1
    <3> QED BY <1>6, <2>1, <3>2 DEF Coming
  <2> QED BY <2>1, <2>2
<1> QED BY <1>1, <1>2, <1>3, <1>4, <1>5, <1>6

\* What stays true of the acknowledgement further back on the link.
LEMMA AckStays ==
    ASSUME Server, Client, link # << >>, link' = Tail(link), UNCHANGED << epoch, seq, sync >>,
           synced' = (synced \/ link[1].kind = "ack")
    PROVE  AckThenLive'
<1>1. /\ link \in Seq(Frames) /\ Len(link') = Len(link) - 1 /\ Len(link) \in Nat
      /\ \A i \in 1..Len(link'): i + 1 \in 1..Len(link) /\ link'[i] = link[i + 1]
      /\ sync # "closed" /\ 1 \in 1..Len(link)
  BY Takes DEF Client, ClientTyped
<1>2. sync \in {"replay", "read", "ack"} => ~synced /\ \A i \in 1..Len(link): link[i].kind # "ack"
  BY DEF Client, AckThenLive
<1>3. \A i \in 1..Len(link): link[i].kind = "ack" =>
          /\ ~synced
          /\ link[i].seq + (Len(link) - i) = seq
          /\ \A j \in 1..Len(link): j > i => link[j] = Event(link[i].seq + (j - i))
  BY DEF Client, AckThenLive
<1>4. link[1].kind # "ack" \/ \A j \in 1..Len(link): j > 1 => link[j].kind = "event"
  BY <1>1, <1>3 DEF Event, Frame
<1>5. ASSUME NEW i \in 1..Len(link'), link'[i].kind = "ack"
      PROVE  /\ ~synced'
             /\ link'[i].seq + (Len(link') - i) = seq
             /\ \A j \in 1..Len(link'): j > i => link'[j] = Event(link'[i].seq + (j - i))
  <2>1. PICK k \in 1..Len(link): k = i + 1
    BY <1>1
  <2>2. link[k].kind = "ack" /\ link'[i] = link[k] /\ k > 1
    BY <1>1, <1>5, <2>1
  <2>3. ~synced'
    BY <1>3, <1>4, <2>2
  <2>4. Len(link') - i = Len(link) - k
    BY <1>1, <2>1
  <2>5. ASSUME NEW j \in 1..Len(link'), j > i
        PROVE  link'[j] = Event(link'[i].seq + (j - i))
    <3>1. j + 1 \in 1..Len(link) /\ j + 1 > k /\ (j + 1) - k = j - i
      BY <1>1, <2>1, <2>5
    <3> QED BY <1>1, <1>3, <2>2, <3>1
  <2> QED BY <1>3, <2>2, <2>3, <2>4, <2>5
<1> QED BY <1>1, <1>2, <1>5, ZenonT(60) DEF AckThenLive, Event

LEMMA ReceiveKeeps == ASSUME Server, Client, Receive PROVE (Server /\ Client)'
<1>1. Server'
  BY ServerSame DEF Receive, journal, file, bounds
<1>2. /\ link # << >> /\ link' = Tail(link)
      /\ UNCHANGED << online, epoch, epochs, seq, sync, asked >>
  BY DEF Receive, journal, bounds
<1>3. /\ link[1] \in Frames /\ link[1].epoch = epoch /\ link[1].seq <= seq
      /\ sync # "closed"
      /\ link' \in Seq(Frames) /\ Len(link') = Len(link) - 1 /\ Len(link) \in Nat
      /\ \A i \in 1..Len(link'): i + 1 \in 1..Len(link) /\ link'[i] = link[i + 1]
      /\ \A e: Coming(e) => \/ Coming(e)'
                            \/ link[1].kind = "event" /\ link[1].event = e
                            \/ link[1].kind = "resync" /\ e <= link[1].event
  BY <1>2, Takes
<1>4. PICK frame \in Frames: frame = link[1]
  BY <1>3
<1>5. \/ /\ frame.kind = "event"
         /\ seen' = seen \cup {frame.event}
         /\ cursor' = Advanced(frame)
         /\ UNCHANGED << synced, owed >>
      \/ /\ frame.kind = "resync"
         /\ cursor' = {Cursor(frame.epoch, frame.seq)}
         /\ owed' = owed \ (1..frame.event)
         /\ UNCHANGED << synced, seen >>
      \/ /\ frame.kind = "ack"
         /\ cursor' = {Cursor(frame.epoch, frame.seq)}
         /\ synced' = TRUE
         /\ UNCHANGED << seen, owed >>
  <2>1. Head(link) = link[1]
    BY <1>2 DEF Client, ClientTyped
  <2> QED BY <1>4, <2>1 DEF Receive
<1>6. /\ frame.epoch = epoch /\ frame.seq <= seq /\ frame.event \in Nat /\ frame.seq \in Nat
      /\ epoch \in Nat /\ epochs \in Nat /\ epoch <= epochs /\ seq \in Nat
  BY <1>3, <1>4 DEF Frames, Server, Typed
<1>7. cursor' \in {cursor, {Cursor(epoch, frame.seq)}}
  BY <1>5, <1>6 DEF Advanced
<1>8. /\ owed' \in SUBSET (1..seq) /\ owed' \subseteq owed
      /\ seen' \in SUBSET Nat /\ seen \subseteq seen'
      /\ synced' \in BOOLEAN /\ synced' = (synced \/ frame.kind = "ack")
  <2>1. owed \in SUBSET (1..seq) /\ seen \in SUBSET Nat /\ synced \in BOOLEAN
    BY DEF Client, ClientTyped
  <2>2. CASE frame.kind = "event"
    BY <1>5, <1>6, <2>1, <2>2
  <2>3. CASE frame.kind = "resync"
    BY <1>5, <1>6, <2>1, <2>3
  <2>4. CASE frame.kind = "ack"
    BY <1>5, <1>6, <2>1, <2>4
  <2> QED BY <1>5, <2>2, <2>3, <2>4
<1>9. \A e \in owed': Coming(e) => e \in seen' \/ Coming(e)'
  <2>1. \A e \in owed: e \in 1..seq
    BY DEF Client, ClientTyped
  <2>2. ASSUME NEW e \in owed', Coming(e), ~Coming(e)' PROVE e \in seen'
    <3>1. \/ frame.kind = "event" /\ frame.event = e
          \/ frame.kind = "resync" /\ e <= frame.event
      BY <1>3, <1>4, <2>2
    <3>2. e \in owed /\ e \in 1..seq
      BY <1>8, <2>1
    <3>3. frame.kind = "resync" /\ e <= frame.event => e \in 1..frame.event
      BY <1>6, <3>2
    <3> QED BY <1>5, <2>2, <3>1, <3>3
  <2> QED BY <2>2
<1>10. ClientTyped'
  <2>1. Cursor(epoch, frame.seq) \in Cursors
    BY <1>6 DEF Cursor, Cursors
  <2>2. cursor' \in SUBSET Cursors
    BY <1>7, <2>1 DEF Client, ClientTyped
  <2> QED BY <1>2, <1>3, <1>8, <2>2 DEF Client, ClientTyped
<1>11. Recent'
  <2>1. ASSUME NEW c \in cursor' PROVE c.epoch <= epochs /\ (c.epoch = epoch => c.seq <= seq)
    BY <1>6, <1>7 DEF Client, Recent, Cursor
  <2>2. \A c, d \in cursor': c = d
    BY <1>7 DEF Client, Recent
  <2>3. \A i \in 1..Len(link'): link'[i].epoch = epoch /\ link'[i].seq <= seq
    BY <1>3 DEF Client, Recent
  <2> QED BY <1>2, <2>1, <2>2, <2>3 DEF Client, Recent
<1>12. Apart'
  BY <1>2, <1>3 DEF Apart
<1>13. Unsynced'
  BY <1>2, <1>8 DEF Client, Unsynced, Reaches
<1>14. (ToReplay /\ Replayed)'
  BY <1>2, <1>8, <1>9 DEF Client, ToReplay, Replayed
<1>15. AckThenLive'
  BY <1>2, <1>4, <1>8, AckStays
<1>16. Synced'
  <2>1. CASE synced
    <3>1. /\ Len(link) <= seq /\ cursor = {Cursor(epoch, seq - Len(link))}
          /\ \A j \in 1..Len(link): link[j] = Event((seq - Len(link)) + j)
          /\ \A e \in owed: e <= seq - Len(link) => e \in seen
      BY <1>3, <2>1 DEF Client, Synced
    <3>2. 1 \in 1..Len(link)
      BY <1>2 DEF Client, ClientTyped
    <3>3. PICK n \in Nat: n = (seq - Len(link)) + 1
      <4>1. (seq - Len(link)) + 1 \in Nat
        BY <1>3, <1>6, <3>1
      <4> QED BY <4>1
    <3>4. seq - Len(link') = n /\ Len(link') <= seq
      BY <1>3, <1>6, <3>1, <3>3
    <3>5. frame.kind = "event" /\ frame.seq = n /\ frame.event = n
      <4>1. link[1] = Event(n)
        BY <3>1, <3>2, <3>3
      <4> QED BY <1>4, <4>1 DEF Event, Frame
    <3>6. cursor' = {Cursor(epoch, n)}
      <4>1. \A c \in cursor: ~(n <= c.seq)
        BY <1>3, <1>6, <3>1, <3>3 DEF Cursor
      <4> QED BY <1>5, <1>6, <3>5, <4>1 DEF Advanced
    <3>7. ASSUME NEW j \in 1..Len(link') PROVE link'[j] = Event(n + j)
      <4>1. j + 1 \in 1..Len(link) /\ (seq - Len(link)) + (j + 1) = n + j
        BY <1>3, <1>6, <3>3
      <4> QED BY <1>3, <3>1, <4>1
    <3>8. ASSUME NEW e \in owed', e <= n PROVE e \in seen'
      <4>1. e \in owed /\ e \in 1..seq
        BY <1>8, <3>8 DEF Client, ClientTyped
      <4>2. CASE e = n
        BY <1>5, <1>8, <3>5, <4>2
      <4>3. CASE e # n
        <5>1. seq \in Nat /\ Len(link) \in Nat
          BY <1>3, <1>6
        <5>2. e <= seq - Len(link)
          BY <3>3, <3>8, <4>1, <4>3, <5>1
        <5> QED BY <1>8, <3>1, <4>1, <5>2
      <4> QED BY <4>2, <4>3
    <3> QED BY <1>2, <3>4, <3>6, <3>7, <3>8 DEF Synced, Event
  <2>2. CASE ~synced /\ frame.kind = "ack"
    <3>1. 1 \in 1..Len(link) /\ link[1].kind = "ack"
      BY <1>2, <1>4, <2>2 DEF Client, ClientTyped
    <3>2. /\ frame.seq + (Len(link) - 1) = seq
          /\ \A j \in 1..Len(link): j > 1 => link[j] = Event(frame.seq + (j - 1))
      BY <1>4, <3>1 DEF Client, AckThenLive
    <3>3. PICK n \in Nat: n = frame.seq
      BY <1>6
    <3>4. seq - Len(link') = n /\ Len(link') <= seq
      BY <1>3, <1>6, <3>2, <3>3
    <3>5. cursor' = {Cursor(epoch, n)}
      BY <1>5, <1>6, <2>2, <3>3
    <3>6. ASSUME NEW j \in 1..Len(link') PROVE link'[j] = Event(n + j)
      <4>1. j + 1 \in 1..Len(link) /\ j + 1 > 1 /\ (j + 1) - 1 = j
        BY <1>3
      <4> QED BY <1>3, <3>2, <3>3, <4>1
    <3>7. ASSUME NEW e \in owed', e <= n PROVE e \in seen'
      <4>1. sync = "live"
        BY <1>3, <3>1 DEF Client, ClientTyped, AckThenLive
      <4>2. e \in seen \/ Coming(e)
        BY <1>8, <4>1 DEF Client, Replayed
      <4>3. ASSUME Coming(e)' PROVE FALSE
        <5>1. \A j \in 1..Len(link'): link'[j].kind = "event" /\ link'[j].event = n + j
          <6>1. ASSUME NEW j \in 1..Len(link')
                PROVE  link'[j].kind = "event" /\ link'[j].event = n + j
            <7>1. link'[j] = Event(n + j)
              BY <3>6
            <7> QED BY <7>1 DEF Event, Frame
          <6> QED BY <6>1
        <5>2. PICK j \in 1..Len(link'): n + j = e
          BY <4>3, <5>1 DEF Coming
        <5> QED BY <1>3, <3>7, <5>2
      <4> QED BY <1>8, <1>9, <4>2, <4>3
    <3> QED BY <1>2, <3>4, <3>5, <3>6, <3>7 DEF Synced, Event
  <2>3. CASE ~synced /\ frame.kind # "ack"
    BY <1>8, <2>3 DEF Synced
  <2> QED BY <2>1, <2>2, <2>3
<1> QED BY <1>1, <1>10, <1>11, <1>12, <1>13, <1>14, <1>15, <1>16 DEF Client
-----------------------------------------------------------------------------
LEMMA Step == IInv /\ [Next]_vars => IInv'
<1> SUFFICES ASSUME Server, Client, [Next]_vars, ~hurt' PROVE (Server /\ Client)'
  <2>1. hurt /\ [Next]_vars => hurt'
    BY DEF Next, Publish, WriteDone, WriteFails, Stop, Open, Connect, Replay, FlushForRead,
           Read, Read_Unflushed, Acknowledge, Disconnect, Receive, vars
  <2> QED BY <2>1 DEF IInv
<1>1. CASE Publish
  BY <1>1, PublishKeeps
<1>2. CASE WriteDone
  BY <1>2, WriteDoneKeeps
<1>3. CASE WriteFails
  BY <1>3 DEF WriteFails
<1>4. CASE Stop
  BY <1>4, StopKeeps
<1>5. CASE Open
  BY <1>5, OpenKeeps
<1>6. CASE Connect
  BY <1>6, ConnectKeeps
<1>7. CASE Replay
  BY <1>7, ReplayKeeps
<1>8. CASE FlushForRead
  BY <1>8, FlushForReadKeeps
<1>9. CASE Read
  BY <1>9, ReadKeeps
<1>10. CASE Acknowledge
  BY <1>10, AcknowledgeKeeps
<1>11. CASE Disconnect
  BY <1>11, DisconnectKeeps
<1>12. CASE Receive
  BY <1>12, ReceiveKeeps
<1>13. CASE UNCHANGED vars
  BY <1>13, ServerSame, ClientSame DEF vars, journal, file, client, bounds
<1> QED BY <1>1, <1>2, <1>3, <1>4, <1>5, <1>6, <1>7, <1>8, <1>9, <1>10, <1>11, <1>12, <1>13
     DEF Next

\* What is asked of the gateway follows: of the client, once nothing is on its way,
LEMMA NoneMissed == IInv => NoSilentGap
<1> SUFFICES ASSUME Server, Client, sync = "live", link = << >>, NEW e \in owed
             PROVE  e \in seen
  BY DEF IInv, NoSilentGap
<1>1. e \in seen \/ Coming(e)
  BY DEF Client, Replayed
<1>2. Len(link) = 0
  OBVIOUS
<1> QED BY <1>1, <1>2 DEF Coming

\* and of the numbers, as each tells its event.
LEMMA OneNumberEach == IInv => NumbersOnce
<1> SUFFICES ASSUME Server, NEW e \in Published, NEW f \in Published, frames[e] = frames[f]
             PROVE  e = f
  BY DEF IInv, NumbersOnce
<1>1. DOMAIN frames = 1..seq
  BY DEF Server, Numbered
<1>2. frames[e] = Cursor(epoch, e) /\ frames[f] = Cursor(epoch, f)
  <2>1. e \in 1..seq /\ f \in 1..seq
    BY <1>1 DEF Published
  <2> QED BY <2>1 DEF Server, Numbered
<1>3. frames[e].seq = e /\ frames[f].seq = f
  <2>1. Cursor(epoch, e).seq = e /\ Cursor(epoch, f).seq = f
    BY DEF Cursor
  <2> QED BY <1>2, <2>1
<1> QED BY <1>3

\* The broadcast of durable events (wsBroadcastService.ts, sessionEventJournal.ts) to a
\* client with a cursor: unless an event was lost before it was in the journal, or a
\* connection was cut after a live frame had overtaken its replay, a client that has read
\* everything sent to it has missed nothing it was not told of, and no number of an epoch
\* is given twice, across any restarts of the server and cuts of the connection, for a
\* replay buffer of any size.
THEOREM NoEventMissed ==
    ASSUME BufferSize \in Nat
    PROVE  Spec => [](NoSilentGap /\ NumbersOnce)
<1>1. Init => IInv
  BY Start
<1>2. IInv => NoSilentGap /\ NumbersOnce
  BY NoneMissed, OneNumberEach
<1> QED BY <1>1, <1>2, Step, PTL DEF Spec
=============================================================================
