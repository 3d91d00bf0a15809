# Herbert in TLA+

TLA+ modules of Herbert, the event streaming server of this repository, with
TLC runs that check them on small instances and TLAPS proofs for instances of any
size. Paths such as `src/wal.rs:89` and `README.md:13` are relative to the root
of the repository.

Herbert is one process: a tokio runtime with many worker threads, one task per
connection, state shared through `std::sync` locks, and two files on disk. What
is hard about it is what happens between two lock operations, between two
system calls, and between a client and a server that do not answer each other.

## 1. Inventory

| Component | Source | State | Operations | Hard behaviour | What makes it correct |
|---|---|---|---|---|---|
| Write-ahead log | `src/wal.rs` | WAL file behind a `BufWriter` and a mutex; queue `buffer` of records that are not yet published, behind another mutex | `add`, `need_to_flush`, `flush` | Two locks taken one after the other; the threshold is asked for after both are gone; the `BufWriter` writes when it likes; a write may fail or be cut off by a crash | The file, the queue and the published log agree record by record; nothing is stuck in the queue; a record is in the file before it is published |
| Topic manager | `src/topic_manager.rs` | Map from topics to schemas behind a read-write lock; the write-ahead log; a storage | `add`, `create`, `exists`, `fetch`, `recover` | Topics are created while others produce; a crash at any point; a recovery that rebuilds topics from records only | A topic has one schema; a restart keeps offsets, published records and schemas; a restart succeeds |
| In-memory log | `src/storage/in_memory_log.rs` | Records per topic and an index from offsets to rows, each behind a read-write lock | `add`, `fetch` | Offsets count rows while records hold any number of them; the two locks are taken in opposite orders | A fetch answers exactly the rows from its offset on; every request returns |
| In-memory queue | `src/storage/in_memory_queue.rs` | Records per topic | `add`, `fetch` (which empties) | Used by `TopicManager::default` in tests only | A record is delivered once |
| Offset manager | `src/offset_manager.rs` | Map from (group, topic) to an offset behind a read-write lock; a JSON file | `set_offset`, `get_offset`, `recover` | The insert and the write of the file are two critical sections; `fs::write` truncates before it writes, and several threads may be in it, each with the entries in an order of its own; names are joined by a colon | The file never falls behind a commit that returned; a restart restores every commit |
| Server | `src/server.rs` | Connections | Start-up with both recoveries, two listeners, a task per connection that handles one request after another | Commits of different connections in any order; panics at start-up | Requests of one connection in order; the server comes up again |
| Request handlers | `src/kafka_api/*`, `src/herbert_api/*` | None | Produce, Fetch, OffsetCommit, OffsetFetch, CreateTopic | Produce and OffsetCommit have no answer, their errors are logged or dropped | |
| Client library | `src/client.rs` | A connection; a consumer's offset | `produce`, `consume`, `consume_continuos`, `consume_record_batches`, `create_topic` | `consume` returns before its commit is handled; records are counted by splitting an answer at zero bytes; one `read` per answer | No record is skipped, none is delivered again to the same client, every record is delivered |
| Configuration, errors, command line | `src/config.rs`, `src/error.rs`, `src/bin/`, `src/main.rs`, `src/lib.rs` | None | | | |

How they interact:

- A **produce** request goes from a connection task to `TopicManager::add`,
  which holds the read lock on the topics' metadata throughout, through
  `WriteAheadLog::add` (file lock from the write to the push into the queue),
  then, if the queue has `num_uncommitted_messages` records, through
  `WriteAheadLog::flush`: the `BufWriter` under the file lock, then the queue
  under its own lock, each record into `InMemoryLog::add`.
- A **fetch** request goes straight to `InMemoryLog::fetch`.
- **OffsetCommit** and **OffsetFetch** go to the offset manager. It knows
  nothing of the log: no offset is checked against it.
- **CreateTopic** takes the write lock on the metadata, and so waits for every
  produce request that is inside.
- **Start-up** reads both files before a connection is accepted, and panics if
  either cannot be read.
- A **consumer** opens a connection, sends OffsetFetch, Fetch and OffsetCommit,
  and continues from the offset it computed itself.

The full list of hazards, each at its line, is in `PROJECT.json`.

## 2. Modules

| Module | Models | Built on |
|---|---|---|
| `OrderedLog` | Abstract: one total order of records, published in that order, each once. If it is `Lossy` a crash may lose a suffix, which with `Durable` holds no published record. | |
| `WriteAheadLog` | `WriteAheadLog::add`, `need_to_flush`, `flush` as `TopicManager::add` drives them, the `BufWriter`, writes that fail or are cut off | refines `OrderedLog` |
| `TopicManager` | Topics, schemas, validation, `create`, crash, `recover` | instance of `WriteAheadLog`; refines `OrderedLog`, `Lossy` |
| `InMemoryLog` | `InMemoryLog::add` and `fetch` | takes from `TopicManager` that no raw record follows a batch, from `WriteAheadLog` that one thread adds at a time |
| `OffsetManager` | `set_offset` with its flush, the order and the pieces in which each thread writes, `get_offset`, `recover`, the keys of the file | |
| `ConsumerGroup` | The client's `consume` and `consume_continuos`, the handlers they talk to, lost and late commits, how the client counts what it reads | takes from the modules above a log that keeps its records, a commit that is one step, and from `InMemoryLog` that the storage may block |
| `WalCodec` | The WAL file byte by byte: `serialize`, writes that are short, and the loop of `recover` | what `TopicManager` takes from it: a crash leaves whole records and perhaps a part of one more, and a start notices the part |
| `HerbertServer` | The whole server: handlers, both managers, both files, start-up, the two locks of the storage, and consumers that fetch and commit | instances of `TopicManager` (and so of `WriteAheadLog`) and `OffsetManager`, one crash for both |
| `SequenceLemmas` | Facts that the proofs share, about numbers, minima, sequences, their prefixes and suffixes, and `FlattenSeq` | |
| `WriteAheadLogProofs`, `TopicManagerProofs`, `OffsetManagerProofs`, `InMemoryLogProofs`, `ConsumerGroupProofs`, `WalCodecProofs`, `HerbertServerProofs` | The theorems of section 5 | the module each is about; those of the storage and of the WAL's bytes use `SequenceLemmas`. `HerbertServerProofs` takes what the topics and the offsets keep from instances of `TopicManagerProofs` and `OffsetManagerProofs`, the former the invariants of the write path from an instance of `WriteAheadLogProofs` |
| `MC*` | Sets, names and symmetry for TLC | |

How state and actions correspond to the code:

**WriteAheadLog.** `pc[t]` is where a connection task is in `TopicManager::add`;
every value of it is a point at which another task can get between two accesses
to shared state. `fileLock` and `bufferLock` are the mutexes; `file`,
`unflushed` and `torn` are the file, the `BufWriter`'s memory and a record that
is on disk in part; `buffer` is the queue, `backend` what the storage has
received. `wal.add` is `WriteBuffered`, or `MakeRoom` with `RoomMade`, or
`GoAround` with `WriteDirect` (which of them depends on sizes, and is a free
choice), followed by `Push`. `need_to_flush` is `NeedToFlush`, `flush` is
`StartFlush`, `FileFlushed`, `StartDrain`, `Publish` for each record, and
`EndDrain`. `WritePart`, `WriteOne` and `WriteFails` are the system calls inside
a write of the `BufWriter`.

**TopicManager.** `Produce` is `TopicManager::add` up to `wal.add`, `Continue`
the rest of it. `Create` needs every `pc` idle, since a produce request holds
the read lock throughout. `Crash` keeps the file and nothing else. `Recover` is
`recover` in one step: it runs before connections are accepted and reads what
nobody writes. `RecoverPanics` is a start that fails.

**OffsetManager.** `Insert` is `set_offset` under its write lock. `Encode`, `Truncate`,
`WritePart` and `Write` are `flush` under the read lock, which several threads may hold:
`fs::write` truncates the file, then writes until the text is out, and `WriteFails` is an
error of it. Each flush collects the entries into a map of its own, whose hasher is its
own, so that two threads write the same entries in different orders (`Orders`; with one
entry there is one). The texts have the same length and each thread writes from the start
of the file; hence `file` has at each of its `Pieces` places a piece of some text, or none
where a truncation has left a hole or the end. It is `Readable` if all places are of one
text. A file that is not full cannot be read: zero bytes and a cut object are not JSON. A
file whose places are of several texts is `Spliced`; it may be refused, or read as one of
`Readings`. A map is a function on the pairs it has; `Key` and `Split` are what
`format!("{}:{}")` and the split at the first colon do to names. In the history variables,
`failed` says that a commit has failed since the last truncation, `pieced` that a write
since then was not that of a whole text.

**InMemoryLog.** `AddLocksTopics` and `AddIndexes` take the locks of `add` in its
order, `FetchLooksUp` and `FetchCollects` those of `fetch`. `Collect` is the
assembly of an answer: of the records from the found one on (`From`), `Texts` is what
goes into the buffer of raw bytes, and `Batches` the slices that the stream writer gets.

**ConsumerGroup.** `Connect`, `AnswerPosition`, `AnswerFetch`, `ReadRecords` or
`ReadNothing` are one round of a consumer, `PrintFails` and `StreamFails` the ones that
`consume_continuos` does not survive: a part that is not text, and a text that begins with
`ARROW1` and is taken for a stream. `Block` is a fetch that meets an add in the storage;
only a crash ends that. `commits` holds the commits that were
sent and not handled; a fetch on a connection is answered only when that
connection's commit is handled (`src/server.rs:81-138` handles one request after
another). `Missing` is what a `read` that returns a part leaves out. Connections have
numbers so that a commit can be told from another connection's. `Count` is the
split at zero bytes, `Counted` adds what `consume_continuos` does with an answer
that begins like an Arrow stream, and `Given` is what the caller gets of it.

**WalCodec.** `chunks` is the file, cut at the points where one record ends and the
next begins, which the file itself does not show; `rest` is what `recover` has not
read. `Add` appends `Serialize(r)`, `ShortWrite` a part of it that the code takes for
a success, `Flush` is the flush of the `BufWriter`. `Line`, `Header` and `Payload` are
what `read_until`, `read_u8` with `read_u32`, and `read_exact` return next; `LittleEndian`
takes a length apart from the low end (`Left` is what is left of it), `Number` puts
bytes together from the high end;
`ReadRaw`, `ReadBatch`, `SkipStream`, `ReadFails` and `EndOfFile` are the ways a round of the
loop in `recover` can end. Of a stream the reader needs the `FirstBatch` only, not the mark
at its end; a payload in which it finds no batch and no error (`EmptyStreams`) is passed
over in silence.

**HerbertServer.** `Produce`, `CreateTopic`, `AskPosition`, `LookUp` with `EndFetch` and
`Commit` are the five handlers, each on the managers' own actions. `LockRecords` is the
first lock of the storage's `add`; the step of `Continue` that publishes a record takes the
second and gives both up. `LookUp` is the first lock of `fetch`, `EndFetch` the second and
the answer (`Answer`); `Abandon` is the answer to a client that has gone. So a fetch and an
add can wait for each other for ever, as in the code (`Deadlocked`). `ReadAnswer`, `ReadMixed` and
`RefuseText` are what a client does with an answer: it counts it, or prints its text
and fails at the batches behind, or, in `consume_record_batches`, fails at once.
`Crash` is one for everything. `Start` is `run` up to the listeners: the topics, then
the offsets; if either cannot be read there is only `StartPanics`. `delivered` is
history: which records somebody of a group got. `Stored` and `Offset` are the places of
a topic's records in the log and the offsets they mean; an answer is a set of places.
The offset manager is the instance `Commits`, for which every natural number is an
offset: it checks none of them.

## 3. What is abstracted

- A crash is one of the process: what a system call has written stays, in the order in
  which it was written. The code never calls `fsync` (neither `src/wal.rs:84-87` nor
  `src/offset_manager.rs:64` does), so that a crash of the machine may lose what is
  counted here as being in a file, published records and returned commits included. No
  property says anything about that.
- Records, schemas and batches are model values; names are model values or
  sequences of the parts between colons; sizes are free choices. Only `WalCodec` has
  the bytes of the WAL file: elsewhere a record is whole, missing or torn, and
  `CutIsNoticed` is why that is enough.
- `WalCodec` has a small alphabet of bytes and a length of two of them. A payload
  whose length does not fit is left out: the request that carries it has a 32-bit
  length, too (`src/server.rs:35`). A payload is a batch if it begins with the first batch
  of one of `Streams`. No stream is the beginning of another, since `StreamWriter::finish` ends each (`src/wal.rs:70-72`). Of a crash in the middle of
  `recover` only that the next start begins anew is seen.
- In `WriteAheadLog` and `TopicManager` a record reaches the storage in one step
  (`Publish`) that never waits: there nobody fetches. The locks inside the storage are the
  subject of `InMemoryLog`, and `HerbertServer` has them next to the write path. A fetch
  that deadlocks with an add stops every produce request after it: `AddReturns` and
  `QueuedIsPublished` are about producers among themselves.
- Names in the offset file have no closing brace. (A splice that is cut short could end
  at one and then be JSON.) What a splice reads as is any of the constant `Readings`.
- The number of bytes that `write` returns is ignored by the code
  (`src/wal.rs:42`); in `WriteAheadLog` a write that succeeds is a whole one, in
  `WalCodec` it may be a part.
- In `HerbertServer` raw records are text without zero bytes and a batch has one row,
  so that offsets count records: rows are the subject of `InMemoryLog`, bytes that of
  `ConsumerGroup`. Its consumers run `consume_continuos` or `consume_record_batches`. The
  answer to a fetch and the reading of it are one step; a fetch that finds nothing is left
  out, since it gives its lock back and is asked again.
- Lock poisoning is left out: no code panics while it holds a lock that another
  task takes.
- After a failed write the record that was not yet in the `BufWriter` is dropped,
  as in the code. Errors of opening files at start-up are left out.
- In `ConsumerGroup` the log survives a crash, a commit is one step, and the bytes
  of a record are reduced to how the client sees them: `plain`, `nul` (contains a
  zero byte: two parts), `empty` (one part and no bytes), `binary` (not text).
  `stream` is a raw record that is an Arrow stream of `StreamRows` rows: one
  record in the log, two parts or more for `consume`, that many rows for
  `consume_continuos`. `arrow` is a text that `consume_continuos` takes for a stream. Records are one byte long when a read is short. An
  OffsetFetch answer arrives in one piece.

## 4. Runs

Each run is `tlc -config <run>.cfg <module>`. The constants of a run are its
bounds: all sets are small, each record is added at most once, and crashes,
failures and the length of a topic have bounds of their own, which are
guards named in the modules. `MaxSessions` bounds the connections that are open or
have a commit that the server has not read.

| Run | Shows |
|---|---|
| `wal_concurrent` | Three producers, writes that fail. `LogFollowsFile`: published log, queue and file agree at every point. `NoStrandedRecords`: a queue that reached the threshold has a thread on its way to drain it. `ImplementsOrderedLog`: the write path implements `OrderedLog`. `AddReturns`, `QueuedIsPublished`: unless a write fails every produce request ends and every queued record is published |
| `wal_race` | finding: `WriteAhead` (a record is in the file before it is published) fails with two producers |
| `topic_concurrent` | `OneSchema`: a topic never mixes schemas, nor has a raw record after a batch. `OffsetsSurvive`: what a crash loses is a suffix of the log |
| `topic_schema_lost` | finding: a topic's schema may be gone after a restart |
| `offset_concurrent` | Three threads that write in two orders and two pieces, failing writes, crashes. `Persisted`: unless a commit failed since the truncation, a file that can be read has every commit that returned; it can be read when no commit is under way and no write was cut short. `SnapshotCurrent`: whoever writes the file holds the present offsets. `CommitsSurvive`: a start from a file that is no splice keeps every such commit of a pair whose key is its own (`Distinct`), while other pairs share keys or come back under other names |
| `log_fetch` | `OffsetsCountRows`: every row has one offset, in order. `FoundExists`: a row that was looked up is there when the fetch gets the second lock, so that no slice panics under it. `FetchIsSuffix`: a fetch answers exactly the rows from its offset on |
| `log_deadlock` | finding: `add` and `fetch` wait for each other for ever |
| `consumer_shared` | Two consumers of a group, records that are text, empty, not text or look like a stream, two crashes or broken connections. `NothingSkipped`: no committed offset lies behind a record nobody got, with late commits. `SessionCommitsGrow`: the commits of one connection never move the offset back. `AllDelivered`: a record that has only text in front of it is delivered, unless the storage is blocked |
| `consumer_miscount` | finding: a zero byte in a record makes the group skip another one |
| `server_sequential` | One producer, one consumer, crashes at any two points. `FetchedSurvives`: no record that could be fetched is lost. `NothingSkipped`: no committed offset lies behind the end of the log that was recovered from the other file, nor behind a record nobody got. `Delivered`: every record reaches the group in the end, unless a file cannot be read, the storage is deadlocked, or the record is a batch behind text |
| `server_restart` | finding: a file that a crash has left in the middle of a write stops every start |
| `wal_codec` | `IntactRecovered`: whatever a short write or a newline in a name does to the file, a start reads everything before it as it was written. `CutIsNoticed`: without such damage a start succeeds exactly when the file ends with a whole record |

Why the bounds are enough. The races of the write path take two threads; the
third in `wal_concurrent` is one that drains while the others write and queue.
The theorems of section 5 remove these bounds for every safety property, and cover every
threshold. `topic_concurrent` has two schemas and two topics, the
least that can be mixed, and three records, so that the queue, the `BufWriter`
and the file can each hold one when the crash comes. In `log_fetch` three records
in every mixture of raw, empty, one-row and two-row batches put an offset into,
at and behind every boundary; the negative offset is one of the inputs. Three
threads in `offset_concurrent` are two writers, the least that make a splice, and one
that waits for them or has just inserted; two pieces are the least that a write can leave
in part, and two orders the least that differ. The keys of its two pairs come to be shared
with pairs that a start makes of them, one comes back under another name, and one pair is
`Distinct`. Two records, one consumer and two crashes in `server_sequential` let one record
be lost and the other take its offset, and a crash come before and after each step of a
delivery; several consumers of a group are the subject of `consumer_shared`, and for the
safety properties section 5 admits any number. A second producer would make
`NothingSkipped` fail (finding 1). The texts of the offsets have one piece there, and no
splice is read. `wal_codec` has three records, of which the second
can be damaged between two whole ones; a payload has the bytes of a whole record, a
stream has a length that takes both bytes, another only one, and the newline in a name is followed by a
valid indicator, so that records are misread in silence behind it. Two records and
three connections in `consumer_shared` let one commit arrive after the commits of a
connection that was opened and ended later, with a record published in between.

Deadlock is checked in the runs of the write path, the topics and the offsets,
where an idle server is a step of its own (`Waiting`) or can always be asked
again, and in the server runs, where clients can always come and go.
It is not checked in `log_fetch` and `log_deadlock`, where the deadlock of
the code is real and is what `RequestsReturn` is about, nor in the consumer runs, where a
blocked storage stops every fetch when no crash is left.

**Failing writes.** No document says what holds after an error. The properties
that errors can break are stated up to the next success: `failed` in
`WriteAheadLog` says that a write failed since the queue was last drained, `failed`
in `OffsetManager` that a commit failed since the file was last truncated. `LogFollowsFile`,
`OneSchema`, `OffsetsSurvive` and `FetchedSurvives` hold whatever fails.

**Fairness.** Weak fairness of a thread's steps in `WriteAheadLog`: tokio keeps
running a task that can run, and since adds are finite no waiting thread is
overtaken for ever. Strong fairness in `InMemoryLog`, where the calls do not
end: a lock that is free again and again is granted. The counterexample of
`log_deadlock` needs no unfair lock. Weak fairness of `Recover` in `TopicManager`
and of `Start` in `HerbertServer`: a server that went down is started until it is up; the
counterexample of `server_restart` is starts that panic every time.
In `ConsumerGroup` client and server finish what they began, each connection's
task reads the requests that reached it, and a continuous consumer that ended is
started again; a fetch is answered only while the storage is not blocked, and nothing
unblocks it but a crash. Nothing ever obliges a client to produce, to create a topic or to
call `consume`, nor the server to crash. In `HerbertServer` the server is started
again and goes on with what it began, and a consumer comes back for its group and
does not leave every time before it has read its answer: strong fairness of
`AskPosition`, `LookUp` and `Read`, since crashes and departures disable them again and
again, and other fetches may have the lock of the index. Weak fairness is enough for
`LockRecords` and `Continue`: one thread drains at a time, and a fetch that has the lock
of the index while a record is added deadlocks with it.

## 5. Proofs

Each theorem holds for every value of the constants that the named assumption of its
module admits. The assumptions say what a bound is (a natural number) and that the
constants that stand for nothing (`NoRecord`, `NoThread`, `NoPair`, `Absent`) are none
of the things.

| Module | Theorem | Statement | Assumed |
|---|---|---|---|
| `WriteAheadLogProofs` | `TypeCorrect` | `Spec => []TypeOK` | `WalAssumption` |
| | `OrderKept` | `Spec => []LogFollowsFile` | |
| | `NothingStranded` | `Spec => []NoStrandedRecords` | |
| | `SequentialWriteAhead` | with at most one thread, `Spec => []WriteAhead` | |
| | `WritePathIsOrderedLog` | `Spec => ImplementsOrderedLog` | |
| `TopicManagerProofs` | `TypeCorrect` | `Spec => []TypeOK` | `TopicAssumption` |
| | `SchemasKeptApart` | `Spec => []OneSchema` | |
| | `OffsetsKept` | `Spec => OffsetsSurvive` | |
| | `SequentialDurability` | with at most one thread, `Spec => FetchedSurvives` | |
| `OffsetManagerProofs` | `TypeCorrect` | `Spec => []TypeOK` | `OffsetAssumption` |
| | `SnapshotsCurrent` | `Spec => []SnapshotCurrent` | |
| | `FilePersists` | `Spec => []Persisted` | |
| | `CommitsKept` | `Spec => CommitsSurvive` | |
| | `AloneNoSplice` | with at most one thread, `Spec => []~Spliced` | |
| `InMemoryLogProofs` | `TypeCorrect` | `Spec => []TypeOK` | `LogAssumption` |
| | `IndexCounts` | `Spec => []OffsetsCountRows` | |
| | `FetchFinds` | `Spec => []FoundExists` | |
| | `FetchAnswersSuffix` | `Spec => FetchIsSuffix` | |
| `ConsumerGroupProofs` | `TypeCorrect` | `Spec => []TypeOK` | `ConsumerAssumption` |
| | `CommitsGrow` | `Spec => SessionCommitsGrow` | |
| | `NoRecordSkipped` | if no record is `nul` or `stream` and no read is short, `Spec => []NothingSkipped` | |
| `WalCodecProofs` | `TypeCorrect` | `Spec => []TypeOK` | `CodecAssumption` |
| | `IntactIsRecovered` | `Spec => []IntactRecovered` | |
| | `CutNoticed` | `Spec => CutIsNoticed` | |
| `HerbertServerProofs` | `TopicsAsAlone` | `Spec => Records!Spec` | `ServerAssumption` |
| | `CommitsAsAlone` | `Spec => Commits!Spec` | |
| | `TypeCorrect` | `Spec => []TypeOK` | |
| | `SchemasKeptApart` | `Spec => []Records!OneSchema` | |
| | `CommitsKept` | `Spec => Commits!CommitsSurvive` | |
| | `FetchedRecordsSurvive` | with at most one thread, `Spec => FetchedSurvives` | |
| | `NothingIsSkipped` | with at most one thread, and `Readings` empty or at most one consumer, `Spec => []NothingSkipped` | |

**Write path.** `TypeOK` alone is not inductive: `Push` appends `rec[t]`, and only
the locks say that it is a record there, and that no other thread is between its
write and its push. `LocksOK` says what the two locks mean in terms of `pc`: the
holder of `fileLock` is exactly the thread inside a section that has it, likewise
`bufferLock`, and a thread has a record exactly while it adds one. `TypeOK /\ LocksOK`
is inductive. `LogFollowsFile` is inductive relative to it: each action moves a record
across one of the boundaries of `backend \o buffer \o Unpushed` and
`file \o unflushed`, and only the lock holder's record can be the unpushed one.
`NothingStranded` needs no more than the types, because a thread that pushes is at
`check` afterwards and the thread that leaves `draining` leaves an empty queue.
`WriteAhead` is false in general (run `wal_race`); with one thread it follows from
`LogFollowsFile` and `DrainAfterFlush`, that nothing is in the `BufWriter` while
that thread drains. The refinement takes `LogFollowsFile` for its step `Reveal`: the
next record of the log is the head of the queue.

**Topics.** The server takes the write path's invariants from an instance of
`WriteAheadLogProofs`: a step of the server that is one of the write path keeps them,
and `ServerInv` adds what a crash leaves, a file and nothing else. `OneSchema` is not
inductive, since it says nothing of the log while the server is down. `SchemaInv` does:
the log is `Uniform` whatever the metadata are (behind a batch there are only batches
of its schema), which a crash keeps because it leaves a prefix; while the server is up
each logged batch `Fits` its topic's schema, and each record that is being added is a
batch exactly if its topic has a schema now. The last part is what the metadata lock is
for: `Create` finds no record under way. `Recover` gives a topic the schema of its first
batch, and `Uniform` makes the others fit it; that a non-empty set of positions has a
least one comes from the library's theorem that `<` is well founded on `Nat`. The
refinement maps a crash to the loss of all behind the file's length. In the durable
log only a step that loses nothing published is allowed, and there one producer is
needed (`DrainAfterFlush` again).

**Offsets.** With `Split(k)` joined again giving `k`, the keys of a text are keys of memory
(`FileKnown`). The pairs in `Distinct` have a key that no other pair has and that is split
into themselves, so what they hold goes to the file and comes back unchanged.
`SnapshotCurrent` is inductive because `Insert` waits for all readers. `Persisted` and
`CommitsSurvive` are not: they say nothing of a file that is being written, in which there
are pieces from threads that go on, that are done, and that were cut off. `FileSettled` says
of every text that has a piece in the file that it has all settled commits, unless a commit
failed since the truncation: whoever puts a piece there has the present offsets, and the
insert after it makes its pair one that is not settled until it has truncated the file
itself. So it does not matter which of the texts is left whole: what a crash leaves is a text
with every returned commit, a splice, or nothing readable. `FileWhole` and `NothingYet` are
for the file that can be read: where only whole texts are written there is one, or a thread
about to write it. `AloneNoSplice` needs that with one thread all pieces are of one text
(`OneText`), whose truncation takes away what an earlier one left.

**Index.** `CountsRows` is inductive because the records and the index of a topic grow in
one step under both locks, and the entries of a record are its rows. `LocksInv` makes it
one adder at a time. The index is stated without a sum of rows, by what each entry points
at, that each row has one, and by their order. For `FetchIsSuffix` the index has to be
connected to the rows of the whole topic, which are a concatenation: `OffsetsAnswer` says
of every offset that what `Collect` makes of the place it points at is the suffix of the
rows from that offset on. It is kept because a new record only puts its rows behind the
answers there are (`CollectGrows`; text and batches are put together apart, so this takes
that no raw record follows a batch), and because the new offsets point into the last
record (`CollectLast`). `FoundInv` carries it over to a fetch that waits for the second
lock, while others add.

**WAL bytes.** A length that fits is read as it was written (`LengthRead`: what `Number` has
after k bytes is what `Left` says is left of the length above the others). With it
`ReadWhole` says that where the bytes of a record begin, whatever is behind them, the
reader's topic, indicator, length, payload and the rest are those of the record, if its
name has no newline: the first newline is then the one behind the name. `ReadCut` says that
a beginning of a record with nothing behind it is not readable. `IntactRecovered` is not
inductive, since it does not say what is still to be read. `IInv` says where the reader is
(`Progress`): K records are before the first damage; as long as at most K are recovered, what
is left is exactly the bytes of the others; more than K are only if there is damage, and
none if that is only a cut at the end; and a start that failed has all K. Every chunk of the
file is a `Part`: the first bytes of a record, at least one.

**Consumers.** `SessionInv` says that a connection has one client and at most one commit
that is not handled, that this client waits and stands at that commit's offset or behind
it, and that nothing on a connection lies before what the group's offset was last set to
by it. So a commit that is handled cannot move back behind an earlier one of the same
connection. For `NothingSkipped` the part `Behind` is added: before the position of a
client that has its answer everything was delivered. It needs `Count` to be the number of
records read, which is where the two conditions enter: without them the property is false
(run `consumer_miscount`).

**Server.** Every step of the composed server is one of `TopicManager` or leaves its
variables alone, so the server implements `TopicManager`, and `SequentialDurability` is
about the server, too. It implements `OffsetManager` as well: the pair and the offset of a
commit come from a consumer, and `ConsumerInv` says that they are a group, a topic and a
natural number. So `OneSchema` and `CommitsSurvive` hold of the whole server.
`NothingSkipped` relates both managers and is not inductive: an offset that nobody
continues from now may come back after a crash. `CoverInv` says of every place where an
offset can be, the position of a client, the map, a text that `flush` is about to write,
and the file, that it is `Got`: the log has that many records of the topic, and the group
got them. "The log" is `Published`: what can be fetched or, while the server is down, what
a start will make of the file. With one producer it only grows, as a step of the durable
log that `TopicManagerProofs` shows the topics to implement loses nothing published
(`PublishedGrows`). So an offset that is covered stays covered (`GotStays`), and
`CoveredAnswer` is the one way to a new offset: the answer to a fetch from a covered
offset covers the offset behind it. This is where the two files meet, and where two
producers break it (finding 1). Of the file, `CoverInv` covers every text that has a piece in
it, not a splice of them, which need not have been anybody's offsets: it takes that a splice
cannot be read, or that there is one consumer and so none (`AloneNoSplice`). The locks of
the storage only stop steps, so that they change nothing in these proofs.

**Induction.** The library's induction theorems take an operator as a parameter, which the
provers cannot instantiate. Where a proof has to count up to a number, it states the fact
as a set of numbers and shows that the set has 0 and with every number the next (`NatSet` of
`SequenceLemmas`). What is recursive is a function, and `IterateExists` and `FlattensExists`
show once that the function that `CHOOSE` picks is the one its equations describe.

*Only model-checked*: liveness (`AddReturns`, `QueuedIsPublished`, `AllDelivered`,
`Delivered`), since fairness is out of the prover's reach. Every other property of a run that
passes is a theorem, under the conditions in the table: `FetchedSurvives` and
`NothingSkipped` of `HerbertServer` with one producer, `NothingSkipped` of `ConsumerGroup` for
records that are counted right; the findings show both to be needed. The five
findings are counterexamples.

## 6. Findings

Five runs end in a counterexample, each against a sentence of the repository that
`PROJECT.json` quotes.

1. A record can be fetched before it is in the WAL file (`src/wal.rs:84-96`); a
   crash then loses it and its offset goes to another record. In `HerbertServer` with
   two producers `NothingSkipped` fails for the same reason: the group's offset is in
   the other file, survives, and points behind records that are produced later.
2. A torn record at the end of the WAL file makes every start panic
   (`src/topic_manager.rs:210-224`, `src/server.rs:237`), and so does an offset file that
   was truncated and not yet written, or written in part (`src/offset_manager.rs:64`,
   `src/server.rs:251`); with it the offsets of all groups are gone. TLC reports the first
   way; with `ServerReturns` weakened to `~up ~> up \/ torn` it finds the second.
3. A topic created with a schema loses it in a restart, unless a batch is in the
   file (`src/topic_manager.rs:179`).
4. `add` and `fetch` of the storage can deadlock
   (`src/storage/in_memory_log.rs:36-46` against `80-103`).
5. The client counts records by zero bytes: a record that contains one, and
   likewise a `read` that returns a part of an answer into a buffer of zeros, makes
   the group skip records (`src/client.rs:170`, `264-265`). A batch that was produced to
   a topic without a schema is one record, but counts with its rows (`132-135`):
   `consumer_miscount` with a continuous client and `Kinds = {"stream"}`.

More behaviours are visible in the modules without a run of their own:

- A colon in a group's name gives its offset to another group after a restart
  (`src/offset_manager.rs:79`). `CommitsSurvive` is about the pairs in `Distinct` only; for
  all pairs it fails in `offset_concurrent`.
- Threads that write the offset file at once write its entries in different orders
  (`src/offset_manager.rs:55-64`). A crash inside one write over another that is done
  leaves a splice of two texts. It may be JSON, have one entry twice and another not at
  all; the next start takes it, and a commit that had returned is gone, although
  `README.md:15` says that offsets are "persisted for durability". `CommitsSurvive` excepts
  a splice (`Spliced`); without the exception it fails in `offset_concurrent`.
- A short write or a newline in a topic's name spoils what is behind it in the WAL
  file: a start fails, or takes other bytes for records (`src/wal.rs:42`, `55`).
- A `consume` right after another may read the offset before the first one's commit
  and get the same records again (`src/client.rs:174`).
- `consume_continuos` ends at a record that is not text, and starts at the same one
  again (`PrintFails`, `src/client.rs:139`); so it does at a text of eight bytes or more that
  begins with `ARROW1` (`StreamFails`, `src/client.rs:125`), both excepted in `AllDelivered`,
  and at text that has batches behind it (`ReadMixed`), excepted in `Delivered`.

## 7. Not modelled

- The in-memory queue: `TopicManager::default` and tests use it, no server does, and
  each of its operations is one critical section. Configuration, errors, the command
  line.
- The encoding of requests by the `kafka_protocol` crate, framing (the length in front of
  an answer counts its header twice, `src/server.rs:74-104`), connections that end inside
  a request, requests without a topic or a partition.
- `consume` on topics of batches, which has a client of its own, and payloads with
  several batches, of which the first is stored.

## 8. Plan

What is left, by importance:

1. Framing: a connection that ends inside a request, and answers whose length is
   more than their bytes.
2. Proofs: `WalCodec` as an implementation of the file of `TopicManager`, whole records and
   perhaps a part of one more.
