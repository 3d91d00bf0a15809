---------------------------- MODULE InMemoryLog ----------------------------
(***************************************************************************)
(* The record storage the server runs with, src/storage/in_memory_log.rs:  *)
(* per topic the stored records and an index that maps the offset of a     *)
(* row to its record and its place in it.  Records and index are behind a  *)
(* lock each, for all topics together.  add takes the lock of the records  *)
(* first and then that of the index, fetch takes them the other way round. *)
(*                                                                         *)
(* Only the drain of the write-ahead log adds, under the lock of its queue *)
(* (src/wal.rs:89-96): there is one add at a time.  A topic never has a    *)
(* raw record after a batch (OneSchema of TopicManager).                   *)
(*                                                                         *)
(* A record is its number in the topic and its number of rows, or Raw; a   *)
(* batch may have no rows.  Bytes and Arrow data are left out: an answer   *)
(* is the sequence of rows it carries.                                     *)
(***************************************************************************)
EXTENDS Integers, SequencesExt

CONSTANTS
  Threads,     \* connection tasks that fetch or, inside a drain, add
  Topics,
  RowCounts,   \* numbers of rows a batch may have
  MaxRecords,  \* bound on the records of a topic
  MaxOffset,   \* bound on the offsets asked for
  Raw,
  NoThread

ASSUME LogAssumption ==
  /\ RowCounts \subseteq Nat
  /\ MaxRecords \in Nat /\ MaxOffset \in Nat
  /\ Raw \notin Nat
  /\ NoThread \notin Threads

VARIABLES
  pc,           \* where each thread is in add or fetch
  topic,        \* the topic a thread works on
  arg,          \* what it adds, or the offset it fetches from
  found,        \* RecordOffset that a fetch has looked up
  answer,       \* the last answer a thread got
  topicsLock,   \* holder of InMemoryLog.topics
  offsetsLock,  \* holder of InMemoryLog.offsets
  topics,       \* InMemoryLog.topics
  offsets       \* InMemoryLog.offsets

vars == <<pc, topic, arg, found, answer, topicsLock, offsetsLock, topics, offsets>>

Form == RowCounts \cup {Raw}
Row == (1..MaxRecords) \X Nat
RecordOffset == [batch_index : Nat, row_offset : Nat]
FetchOffsets == -1..MaxOffset
Nowhere == [batch_index |-> 0, row_offset |-> 0]

TypeOK ==
  /\ pc \in [Threads -> {"idle", "add", "index", "fetch", "collect"}]
  /\ topic \in [Threads -> Topics]
  /\ arg \in [Threads -> Form \cup FetchOffsets]
  /\ found \in [Threads -> RecordOffset]
  /\ answer \in [Threads -> Seq(Row)]
  /\ topicsLock \in Threads \cup {NoThread}
  /\ offsetsLock \in Threads \cup {NoThread}
  /\ topics \in [Topics -> Seq([id : 1..MaxRecords, form : Form])]
  /\ offsets \in [Topics -> Seq(RecordOffset)]

Init ==
  /\ pc = [t \in Threads |-> "idle"]
  /\ topic \in {[t \in Threads |-> p] : p \in Topics}
  /\ arg = [t \in Threads |-> 0]
  /\ found = [t \in Threads |-> Nowhere]
  /\ answer = [t \in Threads |-> <<>>]
  /\ topicsLock = NoThread
  /\ offsetsLock = NoThread
  /\ topics = [p \in Topics |-> <<>>]
  /\ offsets = [p \in Topics |-> <<>>]

Goto(t, l) == pc' = [pc EXCEPT ![t] = l]

Call(t, l, p, a) ==
  /\ pc[t] = "idle"
  /\ Goto(t, l)
  /\ topic' = [topic EXCEPT ![t] = p]
  /\ arg' = [arg EXCEPT ![t] = a]
  /\ UNCHANGED <<found, answer, topicsLock, offsetsLock, topics, offsets>>

-----------------------------------------------------------------------------
(* InMemoryLog::add *)

RowsOf(r) ==
  [i \in 1..(IF r.form = Raw THEN 1 ELSE r.form) |-> <<r.id, i - 1>>]

AddCalled(t, p, form) ==
  /\ \A u \in Threads : pc[u] \notin {"add", "index"}
  /\ Len(topics[p]) < MaxRecords
  /\ form = Raw => \A i \in DOMAIN topics[p] : topics[p][i].form = Raw
  /\ Call(t, "add", p, form)

AddLocksTopics(t) ==
  /\ pc[t] = "add"
  /\ topicsLock = NoThread
  /\ topicsLock' = t
  /\ Goto(t, "index")
  /\ UNCHANGED <<topic, arg, found, answer, offsetsLock, topics, offsets>>

(* Mutant: rows are counted from one. *)
AddIndexesFromOne(t) ==
  LET p == topic[t]
      r == [id |-> Len(topics[p]) + 1, form |-> arg[t]]
  IN
  /\ pc[t] = "index"
  /\ offsetsLock = NoThread
  /\ offsets' = [offsets EXCEPT ![p] = @ \o
       [i \in DOMAIN RowsOf(r) |-> [batch_index |-> Len(topics[p]), row_offset |-> i]]]
  /\ topics' = [topics EXCEPT ![p] = Append(@, r)]
  /\ topicsLock' = NoThread
  /\ Goto(t, "idle")
  /\ UNCHANGED <<topic, arg, found, answer, offsetsLock>>

(* Mutant: every record gets one entry, as if none had more rows or fewer. *)
AddIndexesRecord(t) ==
  LET p == topic[t] IN
  /\ pc[t] = "index"
  /\ offsetsLock = NoThread
  /\ offsets' = [offsets EXCEPT ![p] =
       Append(@, [batch_index |-> Len(topics[p]), row_offset |-> 0])]
  /\ topics' = [topics EXCEPT ![p] = Append(@, [id |-> Len(@) + 1, form |-> arg[t]])]
  /\ topicsLock' = NoThread
  /\ Goto(t, "idle")
  /\ UNCHANGED <<topic, arg, found, answer, offsetsLock>>

(* The index gets one entry for a raw record and one per row of a batch;   *)
(* then the record is pushed, and both locks end.                          *)
AddIndexes(t) ==
  LET p == topic[t]
      r == [id |-> Len(topics[p]) + 1, form |-> arg[t]]
  IN
  /\ pc[t] = "index"
  /\ offsetsLock = NoThread
  /\ offsets' = [offsets EXCEPT ![p] = @ \o
       [i \in DOMAIN RowsOf(r) |->
          [batch_index |-> Len(topics[p]), row_offset |-> i - 1]]]
  /\ topics' = [topics EXCEPT ![p] = Append(@, r)]
  /\ topicsLock' = NoThread
  /\ Goto(t, "idle")
  /\ UNCHANGED <<topic, arg, found, answer, offsetsLock>>

-----------------------------------------------------------------------------
(* InMemoryLog::fetch *)

FetchCalled(t, p, offset) == Call(t, "fetch", p, offset)

(* An offset that the index does not have, a negative one included,        *)
(* answers nothing at all.                                                 *)
FetchLooksUp(t) ==
  LET index == offsets[topic[t]]
      n == arg[t] + 1
  IN
  /\ pc[t] = "fetch"
  /\ offsetsLock = NoThread
  /\ IF n \notin DOMAIN index
     THEN /\ answer' = [answer EXCEPT ![t] = <<>>]
          /\ Goto(t, "idle")
          /\ UNCHANGED <<found, offsetsLock>>
     ELSE /\ found' = [found EXCEPT ![t] = index[n]]
          /\ offsetsLock' = t
          /\ Goto(t, "collect")
          /\ UNCHANGED answer
  /\ UNCHANGED <<topic, arg, topicsLock, topics, offsets>>

(* The text of an answer, and the batches: the first of them begins with   *)
(* the row that was looked up.                                             *)
Texts(from) ==
  FlattenSeq([i \in DOMAIN from |->
                IF from[i].form = Raw THEN RowsOf(from[i]) ELSE <<>>])

IsFirst(from, i) == \A j \in DOMAIN from : j < i => from[j].form = Raw

Batches(from, row) ==
  FlattenSeq([i \in DOMAIN from |->
                IF from[i].form = Raw THEN <<>>
                ELSE IF IsFirst(from, i)
                THEN SubSeq(RowsOf(from[i]), row + 1, Len(RowsOf(from[i])))
                ELSE RowsOf(from[i])])

From(queue, o) == SubSeq(queue, o.batch_index + 1, Len(queue))

(* Mutant: every batch of the answer starts at the row that was looked up. *)
SliceAll(queue, o) ==
  Texts(From(queue, o))
    \o FlattenSeq([i \in DOMAIN From(queue, o) |->
                     IF From(queue, o)[i].form = Raw THEN <<>>
                     ELSE SubSeq(RowsOf(From(queue, o)[i]), o.row_offset + 1,
                                 Len(RowsOf(From(queue, o)[i])))])

(* Mutant: the separator after a raw record is a row of its own. *)
CollectSeparators(queue, o) ==
  FlattenSeq([i \in 1..Len(queue) - o.batch_index |->
                RowsOf(queue[o.batch_index + i]) \o <<Raw>>])

(* The records from the one looked up on: text goes into the answer as it  *)
(* comes, the batches are written behind it.                               *)
Collect(queue, o) == Texts(From(queue, o)) \o Batches(From(queue, o), o.row_offset)

FetchCollects(t) ==
  /\ pc[t] = "collect"
  /\ topicsLock = NoThread
  /\ answer' = [answer EXCEPT ![t] = Collect(topics[topic[t]], found[t])]
  /\ offsetsLock' = NoThread
  /\ Goto(t, "idle")
  /\ UNCHANGED <<topic, arg, found, topicsLock, topics, offsets>>

-----------------------------------------------------------------------------
Step(t) ==
  \/ AddLocksTopics(t) \/ AddIndexes(t)
  \/ FetchLooksUp(t) \/ FetchCollects(t)

Next ==
  \/ \E t \in Threads : Step(t)
  \/ \E t \in Threads, p \in Topics :
       \/ \E form \in Form : AddCalled(t, p, form)
       \/ \E offset \in FetchOffsets : FetchCalled(t, p, offset)

Spec == Init /\ [][Next]_vars

(* The runtime keeps running a task that can run; a lock that is free      *)
(* again and again is granted.                                             *)
FairSpec == Spec /\ \A t \in Threads : SF_vars(Step(t))

-----------------------------------------------------------------------------
(* Properties *)

(* A row that a record of the topic has. *)
IsRowOf(queue, o) ==
  o.batch_index < Len(queue) /\ o.row_offset < Len(RowsOf(queue[o.batch_index + 1]))

Before(o, n) ==
  \/ o.batch_index < n.batch_index
  \/ o.batch_index = n.batch_index /\ o.row_offset < n.row_offset

(* The index of a topic has every row of its records once, in their order. *)
CountsRows(queue, index) ==
  /\ \A n \in DOMAIN index : IsRowOf(queue, index[n])
  /\ \A i \in DOMAIN queue : \A k \in DOMAIN RowsOf(queue[i]) :
       \E n \in DOMAIN index : index[n] = [batch_index |-> i - 1, row_offset |-> k - 1]
  /\ \A m, n \in DOMAIN index : m < n => Before(index[m], index[n])

(* Every row of a topic has one offset, no offset is without a row, and    *)
(* offsets are in the order of the rows: a batch takes as many as it has   *)
(* rows, an empty one none (src/storage/in_memory_log.rs:50-69).           *)
OffsetsCountRows == \A p \in Topics : CountsRows(topics[p], offsets[p])

(* The row a fetch has looked up is there when it holds the second lock,   *)
(* whatever was added before.  An offset behind the end of its batch would *)
(* make the length of the slice negative, and the panic would poison both  *)
(* locks for every later request (src/storage/in_memory_log.rs:109-125).    *)
FoundExists ==
  \A t \in Threads : pc[t] = "collect" => IsRowOf(topics[topic[t]], found[t])

(* The rows of a topic in the order of their offsets. *)
Rows(queue) == FlattenSeq([i \in DOMAIN queue |-> RowsOf(queue[i])])

(* Offset n is the n-th row of the topic: a fetch answers exactly the rows *)
(* from its offset on, whatever mixture of raw records, batches and empty  *)
(* batches precedes it and whatever was added while it waited for the      *)
(* second lock (src/storage/in_memory_log.rs:89-132).                      *)
FetchIsSuffix ==
  [][\A t \in Threads :
       pc[t] \in {"fetch", "collect"} /\ pc'[t] = "idle" =>
         LET rows == Rows(topics[topic[t]])
         IN  answer'[t] = IF arg[t] < 0 THEN <<>>
                          ELSE SubSeq(rows, arg[t] + 1, Len(rows))]_vars

(* README.md:12: "a simple single instance multi-threaded TCP server".     *)
(* Every request to the storage returns.                                   *)
RequestsReturn == \A t \in Threads : pc[t] # "idle" ~> pc[t] = "idle"

=============================================================================
