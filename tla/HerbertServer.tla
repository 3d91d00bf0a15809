--------------------------- MODULE HerbertServer ---------------------------
(***************************************************************************)
(* The whole server with its consumers: the topics over their write-ahead  *)
(* log (TopicManager), the committed offsets over their file               *)
(* (OffsetManager), the request handlers between them and the connections, *)
(* and start-up, which recovers from both files (src/server.rs:222-284).   *)
(*                                                                         *)
(* The two managers know nothing of each other.  An offset is committed by *)
(* a client that computed it from an answer of the log, is written to one  *)
(* file, and is used after a crash on a log that was read from the other.  *)
(*                                                                         *)
(* A consumer is a connection on which a client runs consume_continuos     *)
(* (src/client.rs:92-148); it asks for the committed offset once, and then *)
(* fetches and commits in turn.  Raw records are text without zero bytes,  *)
(* and a batch has one row: offsets count records here (InMemoryLog has    *)
(* the rows, ConsumerGroup the bytes).                                     *)
(*                                                                         *)
(* Of the storage (src/storage/in_memory_log.rs:34-122) there are the two  *)
(* locks: who adds takes that of the records and then that of the index,   *)
(* who fetches takes them in the opposite order, and each may come to wait *)
(* for the other for ever.                                                 *)
(***************************************************************************)
EXTENDS Naturals, Sequences, FiniteSets

CONSTANTS
  Threads, NumUncommitted, NoRecord, NoThread, Ids, Topics,
  Schemas, Raw, NoSchema, Absent, MaxCrashes,  \* of TopicManager
  Groups, Orders, Pieces, Readings, NoPair,    \* of OffsetManager
  Consumers                                    \* connections of consumers

(* What the managers assume of their constants. *)
ASSUME ServerAssumption ==
  /\ NumUncommitted \in Nat
  /\ NoRecord \notin [id : Ids, topic : Topics, form : Schemas \cup {Raw}]
  /\ NoThread \notin Threads
  /\ Schemas \cap {Raw, NoSchema, Absent} = {}
  /\ NoSchema # Absent
  /\ MaxCrashes \in Nat
  /\ Groups \cup Topics \subseteq Seq(STRING) \ {<<>>}
  /\ Orders # {}
  /\ Pieces \in Nat \ {0}
  /\ \A f \in Readings :
       /\ f \in [DOMAIN f -> Nat]
       /\ \A k \in DOMAIN f : k \in Seq(STRING) \ {<<>>} /\ Len(k) > 1
  /\ NoPair \notin Groups \X Topics

VARIABLES
  pc, rec, fileLock, file, unflushed, torn, bufferLock, buffer, backend, failed,
  metadata, up, crashes,  \* of TopicManager
  commitPc, pair, json, written, offsets, offsetFile, commitFailed,
  pieced,         \* of OffsetManager
  recordsLocked,  \* somebody adds to the storage
  indexLocked,    \* somebody fetches from it
  at,        \* where each consumer is
  reads,     \* the group and topic it consumes for
  pos,       \* its offset
  delivered  \* for each group the records that it got, from any consumer

topicVars ==
  <<pc, rec, fileLock, file, unflushed, torn, bufferLock, buffer, backend, failed,
    metadata, crashes>>
offsetVars == <<commitPc, pair, json, written, offsets, offsetFile, commitFailed, pieced>>
lockVars == <<recordsLocked, indexLocked>>
consumerVars == <<at, reads, pos, delivered>>
vars == <<up, topicVars, offsetVars, lockVars, consumerVars>>

Records == INSTANCE TopicManager
Commits == INSTANCE OffsetManager WITH
  Threads <- Consumers, Offsets <- Nat,
  pc <- commitPc, file <- offsetFile, failed <- commitFailed

Pairs == Groups \X Topics

TypeOK ==
  /\ Records!TypeOK
  /\ Commits!TypeOK
  /\ recordsLocked \in BOOLEAN /\ indexLocked \in BOOLEAN
  /\ at \in [Consumers -> {"idle", "fetch", "collect", "commit"}]
  /\ reads \in [Consumers -> Pairs \cup {NoPair}]
  /\ pos \in [Consumers -> Nat]
  /\ delivered \in [Groups -> SUBSET Ids]

Init ==
  /\ Records!Init
  /\ Commits!Init
  /\ recordsLocked = FALSE /\ indexLocked = FALSE
  /\ at = [c \in Consumers |-> "idle"]
  /\ reads = [c \in Consumers |-> NoPair]
  /\ pos = [c \in Consumers |-> 0]
  /\ delivered = [g \in Groups |-> {}]

-----------------------------------------------------------------------------
(* Requests that reach the topics *)

(* handle_produce_request hands over the records of the first partition of *)
(* the first topic.  A request without them, or one that add refuses, is   *)
(* an error that ends the connection and changes nothing.                  *)
Produce(t, id, p, payload) ==
  /\ \A g \in Groups : id \notin delivered[g]
  /\ Records!Produce(t, id, p, payload)
  /\ UNCHANGED <<offsetVars, lockVars, consumerVars>>

(* The next thing thread t does is to add a record to the storage, as soon *)
(* as it has both locks.                                                   *)
Publishing(t) == pc[t] = "draining" /\ buffer # <<>>

LockRecords(t) ==
  /\ Publishing(t)
  /\ ~recordsLocked
  /\ recordsLocked' = TRUE
  /\ UNCHANGED <<up, topicVars, offsetVars, indexLocked, consumerVars>>

(* Whoever has the lock of the records gives it up when it has added one.  *)
Continue(t) ==
  /\ Records!Continue(t)
  /\ Publishing(t) => recordsLocked /\ ~indexLocked
  /\ recordsLocked' = (recordsLocked /\ ~Publishing(t))
  /\ UNCHANGED <<offsetVars, indexLocked, consumerVars>>

(* handle_herbert_connection; an error of create is only logged. *)
CreateTopic(p, schema) ==
  /\ Records!Create(p, schema)
  /\ UNCHANGED <<offsetVars, lockVars, consumerVars>>

-----------------------------------------------------------------------------
(* A consumer *)

(* What the client keeps: nothing when its call is over. *)
Keep(c, l, p, offset) ==
  /\ at' = [at EXCEPT ![c] = l]
  /\ reads' = [reads EXCEPT ![c] = IF l = "idle" THEN NoPair ELSE p]
  /\ pos' = [pos EXCEPT ![c] = IF l = "idle" THEN 0 ELSE offset]

(* handle_offset_fetch_request *)
AskPosition(c, p) ==
  /\ up
  /\ at[c] = "idle" /\ commitPc[c] = "idle"
  /\ Keep(c, "fetch", p, Commits!GetOffset(offsets, p))
  /\ UNCHANGED <<up, topicVars, offsetVars, lockVars, delivered>>

(* The places of the records of topic p in a log.  The offset of a record  *)
(* is the number of those before it.                                       *)
Stored(log, p) == {i \in DOMAIN log : log[i].topic = p}

Offset(log, i) == Cardinality({j \in Stored(log, log[i].topic) : j < i})

(* Mutant: all records of the topic, whatever the offset. *)
AnswerAll(c) == Stored(backend, reads[c][2])

(* Mutant: the offset is taken for that of the last record the client has. *)
AnswerBehind(c) == {i \in Stored(backend, reads[c][2]) : Offset(backend, i) > pos[c]}

(* handle_fetch_request: the places of what is sent. *)
Answer(c) == {i \in Stored(backend, reads[c][2]) : Offset(backend, i) >= pos[c]}

Texts(places) == {i \in places : backend[i].form = Raw}

(* The next request of a connection waits for the one before it.  A fetch  *)
(* that finds its offset in the index keeps the lock of the index, so that *)
(* nothing is added before it has its answer; one that does not finds      *)
(* nothing and is asked again.                                             *)
LookUp(c) ==
  /\ up /\ at[c] = "fetch" /\ commitPc[c] = "idle"
  /\ Answer(c) # {}
  /\ ~indexLocked
  /\ indexLocked' = TRUE
  /\ Keep(c, "collect", reads[c], pos[c])
  /\ UNCHANGED <<up, topicVars, offsetVars, recordsLocked, delivered>>

(* The fetch gets the lock of the records, too, and ends. *)
EndFetch ==
  /\ up /\ indexLocked /\ ~recordsLocked
  /\ indexLocked' = FALSE
  /\ UNCHANGED <<up, topicVars, offsetVars, recordsLocked>>

Receive(c, places) ==
  delivered' = [delivered EXCEPT ![reads[c][1]] = @ \cup {backend[i].id : i \in places}]

(* Records that are all text, or all rows of batches, are counted right.   *)
ReadAnswer(c) ==
  /\ EndFetch
  /\ at[c] = "collect"
  /\ Texts(Answer(c)) \in {{}, Answer(c)}
  /\ Receive(c, Answer(c))
  /\ Keep(c, "commit", reads[c], pos[c] + Cardinality(Answer(c)))

(* An answer of text and batches, which fetch sends in this order: the     *)
(* client prints the text and fails on the first byte of the batches.      *)
ReadMixed(c) ==
  /\ EndFetch
  /\ at[c] = "collect"
  /\ Texts(Answer(c)) \notin {{}, Answer(c)}
  /\ Receive(c, Texts(Answer(c)))
  /\ Keep(c, "idle", NoPair, 0)

(* consume_record_batches, which ends after one answer, refuses one that   *)
(* does not begin with a batch.                                            *)
RefuseText(c) ==
  /\ EndFetch
  /\ at[c] = "collect"
  /\ Texts(Answer(c)) # {}
  /\ Keep(c, "idle", NoPair, 0)
  /\ UNCHANGED delivered

(* The answer to a client that has left. *)
Abandon ==
  /\ EndFetch
  /\ \A c \in Consumers : at[c] # "collect"
  /\ UNCHANGED consumerVars

(* handle_offset_commit_request calls set_offset, whatever the log holds.  *)
Commit(c) ==
  /\ at[c] = "commit"
  /\ Commits!Insert(c, reads[c], pos[c])
  /\ Keep(c, "fetch", reads[c], pos[c])
  /\ UNCHANGED <<topicVars, lockVars, delivered>>

ContinueCommit(c) ==
  /\ Commits!Step(c)
  /\ UNCHANGED <<topicVars, lockVars, consumerVars>>

(* The client ends, or its connection breaks; a commit on it may be lost.  *)
(* A fetch that has begun goes on without it.                              *)
Leave(c) ==
  /\ up /\ at[c] # "idle"
  /\ Keep(c, "idle", NoPair, 0)
  /\ UNCHANGED <<up, topicVars, offsetVars, lockVars, delivered>>

-----------------------------------------------------------------------------
(* Crash and start-up *)

(* Every connection is gone, with the commits that nobody has read. *)
Crash ==
  /\ Records!Crash
  /\ Commits!Crash
  /\ at' = [c \in Consumers |-> "idle"]
  /\ reads' = [c \in Consumers |-> NoPair]
  /\ pos' = [c \in Consumers |-> 0]
  /\ recordsLocked' = FALSE /\ indexLocked' = FALSE
  /\ UNCHANGED delivered

(* run recovers the topics, then the offsets, and only then listens. *)
Start ==
  /\ Records!Recover
  /\ Commits!Recover
  /\ UNCHANGED <<lockVars, consumerVars>>

(* One of the files cannot be read; that of the offsets is not looked at   *)
(* if it is the other.                                                     *)
StartPanics ==
  \/ ~up /\ torn /\ UNCHANGED vars
  \/ ~torn /\ Commits!RecoverPanics /\ UNCHANGED <<topicVars, lockVars, consumerVars>>

Waiting == Records!Waiting /\ UNCHANGED <<offsetVars, lockVars, consumerVars>>

-----------------------------------------------------------------------------
Read(c) == ReadAnswer(c) \/ ReadMixed(c)

Handle(c) == Commit(c) \/ ContinueCommit(c)

Next ==
  \/ \E t \in Threads, id \in Ids, p \in Topics, payload \in Schemas \cup {Raw} :
       Produce(t, id, p, payload)
  \/ \E t \in Threads : LockRecords(t) \/ Continue(t)
  \/ \E p \in Topics, schema \in Schemas \cup {NoSchema} : CreateTopic(p, schema)
  \/ \E c \in Consumers :
       \/ \E p \in Pairs : AskPosition(c, p)
       \/ LookUp(c) \/ Read(c) \/ RefuseText(c) \/ Handle(c) \/ Leave(c)
  \/ Abandon
  \/ Crash \/ Start \/ StartPanics \/ Waiting

Spec == Init /\ [][Next]_vars

(* The server goes on with what it has begun and is started again when it  *)
(* went down; a consumer comes back for every group and topic, and does    *)
(* not leave every time before it has read its answer.                     *)
FairSpec ==
  /\ Spec
  /\ WF_vars(Start)
  /\ \A t \in Threads : WF_vars(LockRecords(t)) /\ WF_vars(Continue(t))
  /\ WF_vars(Abandon)
  /\ \A c \in Consumers :
       /\ WF_vars(Handle(c))
       /\ SF_vars(LookUp(c))
       /\ SF_vars(Read(c))
       /\ \A p \in Pairs : SF_vars(AskPosition(c, p))

-----------------------------------------------------------------------------
(* Properties *)

(* A log has n records of topic p, and the first n of them are among got.  *)
Covered(log, p, n, got) ==
  /\ n <= Cardinality(Stored(log, p))
  /\ \A i \in Stored(log, p) : Offset(log, i) < n => log[i].id \in got

(* The offset a group continues from never passes a record that no         *)
(* consumer of the group got, nor the end of the log, where records that   *)
(* are produced later would be passed.  Excepted are names that do not     *)
(* come back from the file of the offsets (src/offset_manager.rs:77-91),   *)
(* and what is read from a splice of several texts (OffsetManager).        *)
NothingSkipped ==
  up => \A p \in Commits!Distinct :
          Covered(backend, p[2], Commits!GetOffset(offsets, p), delivered[p[1]])

(* One of the files cannot be read at the next start, or may not. *)
Stuck ==
  ~up /\ (torn \/ (offsetFile # Commits!NoFile /\ ~Commits!Readable))

(* An add waits for the lock of the index, and a fetch for that of the     *)
(* records: both wait for ever, and with them whoever comes later.         *)
Deadlocked == recordsLocked /\ indexLocked

Mixed(i) == backend[i].form # Raw /\ Texts(Stored(backend, backend[i].topic)) # {}

Places(id) == {i \in DOMAIN backend : backend[i].id = id}

(* A record that can be fetched is, in the end, given to every group,      *)
(* however often its consumers leave and come back, and although a crash   *)
(* may take commits and answers away.  Excepted are a server that cannot   *)
(* start, one whose storage is deadlocked, and the batches of a topic that *)
(* begins with text: an answer with both in it ends every client.          *)
Delivered ==
  \A g \in Groups, id \in Ids :
    up /\ Places(id) # {}
      ~> \/ id \in delivered[g]
         \/ Stuck \/ Deadlocked
         \/ \E i \in Places(id) : Mixed(i)

(* src/server.rs:230: "Recover after crash."  A server that crashed comes  *)
(* up again.                                                               *)
ServerReturns == ~up ~> up

(* No crash takes away a record that could be fetched, or its offset.      *)
FetchedSurvives == Records!FetchedSurvives

=============================================================================
