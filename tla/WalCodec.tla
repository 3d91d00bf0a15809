------------------------------ MODULE WalCodec ------------------------------
(***************************************************************************)
(* The WAL file byte by byte: what WriteAheadLog::serialize appends        *)
(* (src/wal.rs:52-80) and what TopicManager::recover reads from it, record *)
(* by record, at start-up (src/topic_manager.rs:188-244).                  *)
(*                                                                         *)
(* TopicManager has records where the file has bytes, and says of a crash  *)
(* that it leaves whole records and perhaps a part of one more.  This      *)
(* module is about that step: nothing in the file marks where a record     *)
(* begins, no checksum says that it is one, and the reader takes whatever  *)
(* the bytes say.                                                          *)
(*                                                                         *)
(* A byte is a number below Base, and the four bytes of a length are       *)
(* Width.  Zero and one are the indicators of raw bytes and of a batch.    *)
(* The locks, and which of the file's writes the BufWriter makes when, are *)
(* in WriteAheadLog; here a crash may cut off any part of what is not      *)
(* flushed.                                                                *)
(***************************************************************************)
EXTENDS Naturals, SequencesExt

CONSTANTS
  Base, Width,
  Newline,
  Text,      \* the bytes that String::from_utf8 takes
  Names,     \* names of topics
  Payloads,  \* the payloads of raw records
  Streams,   \* what StreamWriter makes of batches
  EndMark,   \* the bytes at the end of a stream that mark it
  EmptyStreams, \* payloads in which StreamReader finds no batch, and no error
  MaxRecords \* bound on the records in the file

Byte == 0..Base - 1

(* What is left of a number behind each of its bytes, the lowest first.    *)
Left(n) == LET left[i \in 0..Width] == IF i = 0 THEN n ELSE left[i - 1] \div Base IN left

(* What a reader needs of a stream: it stops behind the first batch, and a *)
(* stream has one.                                                         *)
FirstBatch(s) == SubSeq(s, 1, Len(s) - EndMark)

(* A payload has a 32-bit length in the request that carries it.  A batch  *)
(* says itself where it ends, so that none is the beginning of another.    *)
ASSUME CodecAssumption ==
  /\ Base \in Nat \ {0, 1} /\ Width \in Nat \ {0}
  /\ Newline \in Text /\ Text \subseteq Byte
  /\ Names \subseteq Seq(Text)
  /\ \A p \in Payloads \cup Streams : p \in Seq(Byte) /\ Left(Len(p))[Width] = 0
  /\ EndMark \in Nat /\ \A s \in Streams : EndMark < Len(s)
  /\ \A s, t \in Streams : IsPrefix(FirstBatch(s), t) => s = t
  /\ \A s \in Streams, t \in EmptyStreams : ~IsPrefix(FirstBatch(s), t)
  /\ MaxRecords \in Nat

StoredRecord ==
  [topic : Names, indicator : {0}, payload : Payloads]
    \cup [topic : Names, indicator : {1}, payload : Streams]

VARIABLES
  chunks,    \* for each record the bytes of it that are in the file
  flushed,   \* how many of them are surely on disk
  phase,     \* "up", reading at start-up, or failed to start
  rest,      \* what recover has not read
  recovered  \* what it gave to the storage

vars == <<chunks, flushed, phase, rest, recovered>>

File(s) == FlattenSeq([i \in DOMAIN s |-> s[i].bytes])

TypeOK ==
  /\ \A i \in DOMAIN chunks :
       chunks[i].record \in StoredRecord /\ chunks[i].bytes \in Seq(Byte)
  /\ flushed \in 0..Len(chunks)
  /\ phase \in {"up", "reading", "failed"}
  /\ rest \in Seq(Byte)
  /\ recovered \in
       Seq([topic : Seq(Text), indicator : {0, 1}, payload : Seq(Byte)])

Init ==
  /\ chunks = <<>>
  /\ flushed = 0
  /\ phase = "up"
  /\ rest = <<>>
  /\ recovered = <<>>

-----------------------------------------------------------------------------
(* WriteAheadLog::serialize and add *)

LittleEndian(n) == [i \in 1..Width |-> Left(n)[i - 1] % Base]

(* Mutant: the bytes of a record without the length of its payload. *)
SerializeWithoutLength(r) == r.topic \o <<Newline, r.indicator>> \o r.payload

Serialize(r) ==
  r.topic \o <<Newline, r.indicator>> \o LittleEndian(Len(r.payload)) \o r.payload

Write(r, n) ==
  /\ phase = "up"
  /\ Len(chunks) < MaxRecords
  /\ chunks' = Append(chunks, [record |-> r, bytes |-> SubSeq(Serialize(r), 1, n)])
  /\ UNCHANGED <<phase, rest, recovered>>

Add(r) == Write(r, Len(Serialize(r))) /\ UNCHANGED flushed

Whole(c) == c.bytes = Serialize(c.record)

(* A record that is larger than the BufWriter's memory is written by one   *)
(* call, after that memory is emptied; the call may write a part (the disk *)
(* is full) and say so, and nobody listens (src/wal.rs:42).                *)
ShortWrite(r) ==
  /\ \A i \in DOMAIN chunks : Whole(chunks[i])
  /\ \E n \in 1..Len(Serialize(r)) - 1 : Write(r, n)
  /\ flushed' = Len(chunks')

Flush ==
  /\ phase = "up"
  /\ flushed' = Len(chunks)
  /\ UNCHANGED <<chunks, phase, rest, recovered>>

-----------------------------------------------------------------------------
(* Crash and TopicManager::recover *)

(* What a crash leaves of the file: what is flushed, and any bytes more.   *)
Remains ==
  {SubSeq(chunks, 1, k) : k \in flushed..Len(chunks)} \cup
  UNION {{Append(SubSeq(chunks, 1, k - 1),
                 [chunks[k] EXCEPT !.bytes = SubSeq(@, 1, n)]) :
            n \in 1..Len(chunks[k].bytes) - 1} : k \in flushed + 1..Len(chunks)}

Crash ==
  /\ phase # "failed"
  /\ chunks' \in Remains
  /\ flushed' = Len(chunks')
  /\ phase' = "reading"
  /\ rest' = File(chunks')
  /\ recovered' = <<>>

(* read_until stops behind a newline or at the end of the file; the last   *)
(* byte is dropped in either case.                                         *)
Line ==
  LET i == SelectInSeq(rest, LAMBDA b : b = Newline)
  IN  IF i = 0 THEN Len(rest) ELSE i
Topic == SubSeq(rest, 1, Line - 1)

UpTo(s, n) == SubSeq(s, 1, Min({n, Len(s)}))

Header == UpTo(SubSeq(rest, Line + 1, Len(rest)), 1 + Width)

(* The number that bytes stand for, read from the last of them down.       *)
Number(bytes) ==
  LET high[k \in 0..Width] ==
        IF k = 0 THEN 0 ELSE bytes[Width + 1 - k] + Base * high[k - 1]
  IN  high[Width]

Size == Number(Tail(Header))

Rest == SubSeq(rest, Line + 2 + Width, Len(rest))
Payload == UpTo(Rest, Size)

(* The streams whose batch StreamReader may find in a payload: it reads    *)
(* the first, whatever is behind it.                                       *)
Parsed == {s \in Streams : IsPrefix(FirstBatch(s), Payload)}

(* Mutant: a payload that the file's end cuts off is taken as it is. *)
ReadableInPart ==
  /\ Topic \in Seq(Text)
  /\ Len(Header) = 1 + Width
  /\ Head(Header) \in {0, 1}

(* Mutant: a topic is taken whatever its bytes are. *)
ReadableLossy ==
  /\ Len(Header) = 1 + Width
  /\ Head(Header) \in {0, 1}
  /\ Len(Rest) >= Size

Readable ==
  /\ Topic \in Seq(Text)
  /\ Len(Header) = 1 + Width
  /\ Head(Header) \in {0, 1}
  /\ Len(Rest) >= Size

GoOn == rest' = SubSeq(Rest, Size + 1, Len(Rest)) /\ UNCHANGED <<chunks, flushed, phase>>

Recovered(payload) ==
  /\ recovered' = Append(recovered, [topic |-> Topic, indicator |-> Head(Header),
                                     payload |-> payload])
  /\ GoOn

Reading == phase = "reading" /\ rest # <<>>

ReadRaw == Reading /\ Readable /\ Head(Header) = 0 /\ Recovered(Payload)

ReadBatch ==
  /\ Reading /\ Readable /\ Head(Header) = 1
  /\ \E s \in Parsed : Recovered(s)

(* A stream without a batch is passed over in silence.                     *)
SkipStream ==
  /\ Reading /\ Readable /\ Head(Header) = 1
  /\ Payload \in EmptyStreams
  /\ GoOn
  /\ UNCHANGED recovered

(* An error leaves what was read in the storage, and start-up panics.      *)
ReadFails ==
  /\ Reading
  /\ Readable => Head(Header) = 1 /\ Parsed = {} /\ Payload \notin EmptyStreams
  /\ phase' = "failed"
  /\ UNCHANGED <<chunks, flushed, rest, recovered>>

EndOfFile ==
  /\ phase = "reading" /\ rest = <<>>
  /\ phase' = "up"
  /\ UNCHANGED <<chunks, flushed, rest, recovered>>

(* The next start finds the same file. *)
StartPanics == phase = "failed" /\ UNCHANGED vars

Next ==
  \/ \E r \in StoredRecord : Add(r) \/ ShortWrite(r)
  \/ Flush \/ Crash
  \/ ReadRaw \/ ReadBatch \/ SkipStream \/ ReadFails \/ EndOfFile \/ StartPanics

Spec == Init /\ [][Next]_vars

-----------------------------------------------------------------------------
(* Properties *)

(* A record that the reader finds where it is.                             *)
Clean(c) == Whole(c) /\ ~Contains(c.record.topic, Newline)

(* The records before the first one that was cut off, or that has a        *)
(* newline in the name of its topic.                                       *)
Intact ==
  LET n == SelectInSeq(chunks, LAMBDA c : ~Clean(c))
  IN  [i \in 1..(IF n = 0 THEN Len(chunks) ELSE n - 1) |-> chunks[i].record]

(* Damage does not reach back: a start reads every record before it as it  *)
(* was written, whatever bytes payloads hold (newlines, indicators, or all *)
(* that looks like a record), before anything behind the damage is read,   *)
(* or fails (src/topic_manager.rs:197-240).                                *)
IntactRecovered ==
  /\ IsPrefix(recovered, Intact) \/ IsPrefix(Intact, recovered)
  /\ phase = "failed" => IsPrefix(Intact, recovered)

(* A part of a record at the end of the file is never taken for a record,  *)
(* nor left out in silence, wherever a crash cut it off: a start succeeds  *)
(* exactly when the file ends with a whole record, and then the storage    *)
(* has every record of the file.  Excepted are files with damage before    *)
(* their last record.                                                      *)
CutIsNoticed ==
  [][phase = "reading" /\ phase' # "reading"
       /\ (\A i \in 1..Len(chunks) - 1 : Clean(chunks[i]))
       /\ (\A i \in DOMAIN chunks : ~Contains(chunks[i].record.topic, Newline))
     => IF \A i \in DOMAIN chunks : Whole(chunks[i])
        THEN phase' = "up" /\ recovered = Intact
        ELSE phase' = "failed"]_vars

=============================================================================
