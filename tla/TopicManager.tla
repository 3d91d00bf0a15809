---------------------------- MODULE TopicManager ----------------------------
(***************************************************************************)
(* The topic manager, src/topic_manager.rs, over the write path of         *)
(* WriteAheadLog: topics with or without a schema, produce requests that   *)
(* are validated against it, crashes of the server and its recovery from   *)
(* the WAL file at start-up (src/server.rs:230-242).                       *)
(*                                                                         *)
(* A produce request holds the read lock on the topics' metadata from the  *)
(* moment it looks its topic up until TopicManager::add returns, so a      *)
(* topic is created only while no thread is inside.                        *)
(*                                                                         *)
(* A record is its topic, an id that tells it apart, and its form: the     *)
(* schema of a RecordBatch, or Raw.  Of a crash only the file survives,    *)
(* with the part of a record that was being written (torn).  While the     *)
(* server is down, metadata and backend are what they were before, and     *)
(* nothing reads them; Recover replaces both.                              *)
(***************************************************************************)
EXTENDS Naturals, SequencesExt

CONSTANTS
  Threads, NumUncommitted, NoRecord, NoThread,  \* of WriteAheadLog
  Ids,         \* tell records apart; they bound the length of the log
  Topics,
  Schemas,
  Raw,         \* a record that is not, or not known to be, a RecordBatch
  NoSchema,    \* a topic created without a schema
  Absent,      \* a topic that was not created
  MaxCrashes   \* bound on the number of crashes

Form == Schemas \cup {Raw}
StoredRecord == [id : Ids, topic : Topics, form : Form]

ASSUME TopicAssumption ==
  /\ NumUncommitted \in Nat
  /\ NoRecord \notin StoredRecord
  /\ NoThread \notin Threads
  /\ Schemas \cap {Raw, NoSchema, Absent} = {}
  /\ NoSchema # Absent
  /\ MaxCrashes \in Nat

VARIABLES
  pc, rec, fileLock, file, unflushed, torn, bufferLock, buffer, backend, failed,
  metadata,  \* TopicManager.topic_metadatas: the schema of each topic
  up,        \* the server has recovered and accepts connections
  crashes    \* how many crashes so far

walVars == <<pc, rec, fileLock, file, unflushed, torn, bufferLock, buffer, backend, failed>>
vars == <<walVars, metadata, up, crashes>>

Wal == INSTANCE WriteAheadLog WITH Records <- StoredRecord

TypeOK ==
  /\ Wal!TypeOK
  /\ metadata \in [Topics -> Schemas \cup {NoSchema, Absent}]
  /\ up \in BOOLEAN
  /\ crashes \in 0..MaxCrashes

Init ==
  /\ Wal!Init
  /\ metadata = [p \in Topics |-> Absent]
  /\ up = TRUE
  /\ crashes = 0

-----------------------------------------------------------------------------
Logged == file \o unflushed

FreshId(id) ==
  /\ \A i \in DOMAIN Logged : Logged[i].id # id
  /\ \A t \in Threads : rec[t] # NoRecord => rec[t].id # id

(* What parse_record_batch_from_bytes takes. *)
Accepts(schema, payload) == payload = schema

(* TopicManager::add up to its call of wal.add.  A topic with a schema     *)
(* takes only a batch of that schema, and any other payload is an error    *)
(* that changes nothing; in any other topic the payload is stored as Raw.  *)
Produce(t, id, p, payload) ==
  /\ up
  /\ FreshId(id)
  /\ metadata[p] \in Schemas => Accepts(metadata[p], payload)
  /\ Wal!Add(t, [id |-> id, topic |-> p,
                 form |-> IF metadata[p] \in Schemas THEN payload ELSE Raw])
  /\ UNCHANGED <<metadata, up, crashes>>

(* The rest of TopicManager::add. *)
Continue(t) ==
  /\ Wal!Step(t)
  /\ UNCHANGED <<metadata, up, crashes>>

(* Mutant: a topic is created in the middle of a produce request. *)
CreateAtOnce(p, schema) ==
  /\ up
  /\ metadata[p] = Absent
  /\ metadata' = [metadata EXCEPT ![p] = schema]
  /\ UNCHANGED <<walVars, up, crashes>>

(* TopicManager::create; the write lock waits for all readers.  A topic    *)
(* that exists is an error that changes nothing.                           *)
Create(p, schema) ==
  /\ up
  /\ \A t \in Threads : pc[t] = "idle"
  /\ metadata[p] = Absent
  /\ metadata' = [metadata EXCEPT ![p] = schema]
  /\ UNCHANGED <<walVars, up, crashes>>

-----------------------------------------------------------------------------
(* Crash and recovery *)

Crash ==
  /\ up
  /\ crashes < MaxCrashes
  /\ crashes' = crashes + 1
  /\ up' = FALSE
  /\ pc' = [t \in Threads |-> "idle"]
  /\ rec' = [t \in Threads |-> NoRecord]
  /\ fileLock' = NoThread
  /\ bufferLock' = NoThread
  /\ unflushed' = <<>>
  /\ buffer' = <<>>
  /\ failed' = FALSE
  /\ UNCHANGED <<file, torn, backend, metadata>>

(* Where the file has batches of topic p. *)
Batches(p) == {i \in DOMAIN file : file[i].topic = p /\ file[i].form # Raw}

(* Mutant: a topic of raw records is given what they carry as a schema. *)
MetadataOfAny(p) ==
  LET all == {i \in DOMAIN file : file[i].topic = p}
  IN  IF all = {} THEN Absent ELSE file[Min(all)].form

(* A replayed batch creates its topic, if it is not there yet, with the    *)
(* schema of the batch; a raw record creates none.                         *)
RecoveredMetadata(p) == IF Batches(p) = {} THEN Absent ELSE file[Min(Batches(p))].form

(* Mutant: what is replayed comes after what was there. *)
RecoverTwice ==
  /\ ~up /\ ~torn
  /\ up' = TRUE
  /\ backend' = backend \o file
  /\ metadata' = [p \in Topics |-> RecoveredMetadata(p)]
  /\ UNCHANGED <<pc, rec, fileLock, file, unflushed, torn, bufferLock, buffer, failed,
                 crashes>>

(* TopicManager::recover on the file of a new process: every record goes   *)
(* straight to the storage.                                                *)
Recover ==
  /\ ~up /\ ~torn
  /\ up' = TRUE
  /\ backend' = file
  /\ metadata' = [p \in Topics |-> RecoveredMetadata(p)]
  /\ UNCHANGED <<pc, rec, fileLock, file, unflushed, torn, bufferLock, buffer, failed,
                 crashes>>

(* A file that ends inside a record is an error of recover, and start-up   *)
(* panics.  Nothing shortens the file: the next start finds the same.      *)
RecoverPanics ==
  /\ ~up /\ torn
  /\ UNCHANGED vars

Waiting == up /\ Wal!Waiting /\ UNCHANGED <<metadata, up, crashes>>

Next ==
  \/ \E t \in Threads, id \in Ids, p \in Topics, payload \in Form :
       Produce(t, id, p, payload)
  \/ \E t \in Threads : Continue(t)
  \/ \E p \in Topics, schema \in Schemas \cup {NoSchema} : Create(p, schema)
  \/ Crash \/ Recover \/ RecoverPanics \/ Waiting

Spec == Init /\ [][Next]_vars

(* A server that went down is started again, until it is up. *)
FairSpec == Spec /\ WF_vars(Recover)

-----------------------------------------------------------------------------
(* Properties *)

(* Records of topic p that are still being added. *)
Pending(p) ==
  {rec[t] : t \in {u \in Threads : rec[u] # NoRecord /\ rec[u].topic = p}}

(* A topic holds raw records, then batches of one schema, and that schema  *)
(* is the topic's as long as the server is up: a consumer of a topic with  *)
(* a schema never meets a batch of another one, nor a raw record after a   *)
(* batch, whatever is created, produced and recovered in between.  A       *)
(* record that is still being added is no exception (the metadata lock of  *)
(* src/topic_manager.rs:133).                                              *)
OneSchema ==
  up => \A p \in Topics :
    LET s == Logged IN
    /\ \A i \in DOMAIN s : s[i].topic = p /\ s[i].form # Raw =>
         /\ s[i].form = metadata[p]
         /\ \A j \in DOMAIN s : i <= j /\ s[j].topic = p => s[j].form = s[i].form
    /\ \A r \in Pending(p) : metadata[p] \in Schemas => r.form = metadata[p]

(* A consumer sees what a restart of the server would make of the file.    *)
Published == IF up THEN backend ELSE file

(* The order and the offsets of the log survive every crash: what a crash  *)
(* loses is a suffix of it, and what is published afterwards continues     *)
(* the rest.                                                               *)
Ordered == INSTANCE OrderedLog WITH
  Records <- StoredRecord, Lossy <- TRUE, Durable <- FALSE,
  log <- Logged, published <- Published
OffsetsSurvive == Ordered!Spec

(* Moreover no crash loses a record that could be fetched before it.       *)
DurableLog == INSTANCE OrderedLog WITH
  Records <- StoredRecord, Lossy <- TRUE, Durable <- TRUE,
  log <- Logged, published <- Published
FetchedSurvives == DurableLog!Spec

(* README.md:14: "for the latter the topic is schema-aware and validates   *)
(* incoming data first".  A topic that was given a schema keeps it.        *)
SchemaKept ==
  [][\A p \in Topics : metadata[p] \in Schemas => metadata'[p] = metadata[p]]_vars

=============================================================================
