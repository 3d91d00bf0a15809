------------------------- MODULE TopicManagerProofs -------------------------
(***************************************************************************)
(* Theorems about TopicManager for every set of producers, topics and      *)
(* schemas, any number of crashes, and whatever writes fail.               *)
(*                                                                         *)
(* What the write path keeps is known from WriteAheadLogProofs.  The rest  *)
(* is about records that are being added when a topic is created (there    *)
(* are none), and about what a crash leaves and a recovery makes of it.    *)
(***************************************************************************)
EXTENDS TopicManager, SequenceTheorems, WellFoundedInduction, TLAPS

P == INSTANCE WriteAheadLogProofs WITH Records <- StoredRecord

-----------------------------------------------------------------------------
(* The write path *)

(* The constants are as the write path assumes them.                       *)
LEMMA WalConstants == P!WalAssumption
BY TopicAssumption DEF P!WalAssumption

(* A step of the write path is one in the terms of its proofs.             *)
LEMMA WalSteps ==
  ASSUME NEW t \in Threads, Wal!Step(t)
  PROVE  P!Step(t)
<1> USE DEF Wal!Goto, P!Goto, Wal!LockFile, P!LockFile, Wal!fileVars, P!fileVars,
            Wal!bufferVars, P!bufferVars, Wal!Emptying, P!Emptying
<1>1. CASE Wal!WriteBuffered(t)
  BY <1>1 DEF Wal!WriteBuffered, P!WriteBuffered, P!Step
<1>2. CASE Wal!MakeRoom(t)
  BY <1>2 DEF Wal!MakeRoom, P!MakeRoom, P!Step
<1>3. CASE Wal!RoomMade(t)
  BY <1>3 DEF Wal!RoomMade, P!RoomMade, P!Step
<1>4. CASE Wal!GoAround(t)
  BY <1>4 DEF Wal!GoAround, P!GoAround, P!Step
<1>5. CASE Wal!WriteDirect(t)
  BY <1>5 DEF Wal!WriteDirect, P!WriteDirect, P!Step
<1>6. CASE Wal!Push(t)
  BY <1>6 DEF Wal!Push, P!Push, P!Step
<1>7. CASE Wal!NeedToFlush(t)
  BY <1>7 DEF Wal!NeedToFlush, P!NeedToFlush, P!Step
<1>8. CASE Wal!StartFlush(t)
  BY <1>8 DEF Wal!StartFlush, P!StartFlush, P!Step
<1>9. CASE Wal!FileFlushed(t)
  BY <1>9 DEF Wal!FileFlushed, P!FileFlushed, P!Step
<1>10. CASE Wal!StartDrain(t)
  BY <1>10 DEF Wal!StartDrain, P!StartDrain, P!Step
<1>11. CASE Wal!Publish(t)
  BY <1>11 DEF Wal!Publish, P!Publish, P!Step
<1>12. CASE Wal!EndDrain(t)
  BY <1>12 DEF Wal!EndDrain, P!EndDrain, P!Step
<1>13. CASE Wal!WritePart(t)
  BY <1>13 DEF Wal!WritePart, P!WritePart, P!Step
<1>14. CASE Wal!WriteOne(t)
  BY <1>14 DEF Wal!WriteOne, P!WriteOne, P!Step
<1>15. CASE Wal!WriteFails(t)
  BY <1>15 DEF Wal!WriteFails, P!WriteFails, P!Step
<1> QED
  BY <1>1, <1>2, <1>3, <1>4, <1>5, <1>6, <1>7, <1>8, <1>9, <1>10, <1>11, <1>12, <1>13,
     <1>14, <1>15 DEF Wal!Step

(* So is an add.                                                           *)
LEMMA WalAdds ==
  ASSUME NEW t \in Threads, NEW r \in StoredRecord, Wal!Add(t, r)
  PROVE  P!Add(t, r)
BY DEF Wal!Add, P!Add, Wal!Fresh, P!Fresh, Wal!Goto, P!Goto, Wal!fileVars, P!fileVars,
       Wal!bufferVars, P!bufferVars, Wal!ToSet, P!ToSet

(* The types of its variables, whoever names them.                         *)
LEMMA WalTypes ==
  ASSUME P!LocksInv
  PROVE  /\ Wal!TypeOK
         /\ file \in Seq(StoredRecord) /\ unflushed \in Seq(StoredRecord)
         /\ Logged \in Seq(StoredRecord)
         /\ rec \in [Threads -> StoredRecord \cup {NoRecord}]
         /\ \A t \in Threads : pc[t] = "idle" => rec[t] = NoRecord
<1>1. P!TypeOK /\ P!LocksOK
  BY DEF P!LocksInv
<1>2. Wal!TypeOK
  BY <1>1 DEF P!TypeOK, Wal!TypeOK, P!Location, Wal!Location, P!HoldsFile, Wal!HoldsFile
<1>3. file \in Seq(StoredRecord) /\ unflushed \in Seq(StoredRecord)
      /\ rec \in [Threads -> StoredRecord \cup {NoRecord}]
  BY <1>1 DEF P!TypeOK
<1>4. Logged \in Seq(StoredRecord)
  BY <1>3, ConcatProperties DEF Logged
<1>5. \A t \in Threads : pc[t] = "idle" => rec[t] = NoRecord
  BY <1>1, <1>3 DEF P!LocksOK, P!Carries
<1> QED BY <1>2, <1>3, <1>4, <1>5

(* The file is the first part of the log, and all of it when nothing is in *)
(* the memory of the BufWriter.                                            *)
LEMMA FileInLog ==
  ASSUME file \in Seq(StoredRecord), unflushed \in Seq(StoredRecord)
  PROVE  /\ DOMAIN file \subseteq DOMAIN Logged
         /\ \A i \in DOMAIN file : file[i] = Logged[i]
         /\ Len(file) \in 0..Len(Logged)
         /\ SubSeq(Logged, 1, Len(file)) = file
         /\ unflushed = <<>> => Logged = file
<1> DEFINE m == Len(file)
           n == Len(unflushed)
<1>1. m \in Nat /\ n \in Nat /\ DOMAIN file = 1..m
  BY LenProperties
<1>2. /\ Logged \in Seq(StoredRecord) /\ Len(Logged) = m + n
      /\ DOMAIN Logged = 1..m + n
      /\ \A i \in 1..m + n : Logged[i] = IF i <= m THEN file[i] ELSE unflushed[i - m]
  BY ConcatProperties, LenProperties DEF Logged
<1>3. unflushed = <<>> => Logged = file
  BY ConcatEmptySeq DEF Logged
<1> HIDE DEF m, n
<1>4. m \in 0..m + n /\ 1..m \subseteq 1..m + n
      /\ \A i \in 1..m : i \in 1..m + n /\ i <= m
  BY <1>1
<1>5. \A i \in 1..m : Logged[i] = file[i]
  BY <1>2, <1>4
<1>6. SubSeq(Logged, 1, m) = file
  <2>1. SubSeq(Logged, 1, m) \in Seq(StoredRecord)
        /\ Len(SubSeq(Logged, 1, m)) = (IF 1 <= m THEN m - 1 + 1 ELSE 0)
        /\ \A i \in 1..m - 1 + 1 : SubSeq(Logged, 1, m)[i] = Logged[1 + i - 1]
    <3>1. \A i \in 1..m : Logged[i] \in StoredRecord
      BY <1>2, <1>4, ElementOfSeq
    <3> QED BY <1>1, <3>1, SubSeqProperties
  <2>2. Len(SubSeq(Logged, 1, m)) = m /\ \A i \in 1..m : SubSeq(Logged, 1, m)[i] = file[i]
    BY <1>1, <1>5, <2>1
  <2> QED BY <2>1, <2>2, SeqEqual DEF m
<1> QED BY <1>1, <1>2, <1>3, <1>4, <1>5, <1>6 DEF m

(* A set of positions has a first one.                                     *)
LEMMA MinProperties ==
  ASSUME NEW S \in SUBSET Nat, S # {}
  PROVE  Min(S) \in S /\ \A i \in S : Min(S) <= i
<1>1. PICK i \in S : \A j \in S : <<j, i>> \notin OpToRel(<, Nat)
  BY NatLessThanWellFounded, WFMin, Zenon
<1>2. \A j \in S : ~(j < i)
  BY <1>1, Zenon DEF OpToRel
<1>3. \A j \in S : i <= j
  BY <1>2
<1> QED BY <1>3 DEF Min

-----------------------------------------------------------------------------
(* The state of the server *)

(* The write path is in order as long as the server is up; a crash leaves  *)
(* nothing of it but the file.                                             *)
ServerInv ==
  /\ P!LocksInv
  /\ metadata \in [Topics -> Schemas \cup {NoSchema, Absent}]
  /\ up \in BOOLEAN
  /\ crashes \in 0..MaxCrashes
  /\ up => P!LogFollowsFile
  /\ ~up => /\ unflushed = <<>> /\ buffer = <<>>
            /\ \A t \in Threads : pc[t] = "idle"

(* It holds when the server starts for the first time.                     *)
LEMMA ServerInit == Init => ServerInv
<1> SUFFICES ASSUME Init PROVE ServerInv
  OBVIOUS
<1>1. P!Init
  BY DEF Init, Wal!Init, P!Init
<1>2. P!LocksInv /\ P!LogFollowsFile
  BY <1>1, WalConstants, P!LocksInit, P!LogInit
<1> QED BY <1>2, TopicAssumption DEF Init, ServerInv

(* An add and every step of the write path, while the server is up.        *)
LEMMA ServerWal ==
  ASSUME ServerInv, UNCHANGED <<metadata, up, crashes>>, NEW t \in Threads,
         (up /\ \E r \in StoredRecord : Wal!Add(t, r)) \/ Wal!Step(t)
  PROVE  ServerInv' /\ up /\ P!LogInv /\ [P!Next]_(P!walVars)
<1>1. up
  <2>1. Wal!Step(t) => pc[t] # "idle"
    BY DEF Wal!Step, Wal!WriteBuffered, Wal!MakeRoom, Wal!RoomMade, Wal!GoAround,
           Wal!WriteDirect, Wal!Push, Wal!NeedToFlush, Wal!StartFlush, Wal!FileFlushed,
           Wal!StartDrain, Wal!Publish, Wal!EndDrain, Wal!WritePart, Wal!WriteOne,
           Wal!WriteFails, Wal!Emptying
  <2> QED BY <2>1 DEF ServerInv
<1>2. [P!Next]_(P!walVars)
  BY WalSteps, WalAdds DEF P!Next
<1>3. P!LogInv
  BY <1>1 DEF ServerInv, P!LogInv
<1>4. P!LocksInv' /\ P!LogFollowsFile'
  BY <1>2, <1>3, WalConstants, P!LocksNext, P!LogNext DEF P!LogInv
<1> QED BY <1>1, <1>2, <1>3, <1>4 DEF ServerInv

(* A crash gives up every lock and every record that is being added.       *)
LEMMA ServerCrash ==
  ASSUME ServerInv, Crash
  PROVE  ServerInv'
<1> USE DEF Crash
<1>1. P!TypeOK'
  BY EmptySeq DEF ServerInv, P!LocksInv, P!TypeOK, P!Location
<1>2. P!LocksOK'
  BY TopicAssumption DEF P!LocksOK, P!HoldsFile, P!Carries
<1>3. crashes' \in 0..MaxCrashes
  BY TopicAssumption DEF ServerInv
<1> QED BY <1>1, <1>2, <1>3 DEF ServerInv, P!LocksInv

(* A recovered topic has the schema of its first batch, if it has any.     *)
LEMMA RecoveredProperties ==
  ASSUME ServerInv, NEW p \in Topics
  PROVE  /\ RecoveredMetadata(p) \in Schemas \cup {Absent}
         /\ Batches(p) # {} => \E i \in Batches(p) :
              RecoveredMetadata(p) = file[i].form /\ \A j \in Batches(p) : i <= j
<1>1. file \in Seq(StoredRecord)
  BY WalTypes DEF ServerInv
<1>2. CASE Batches(p) = {}
  BY <1>2 DEF RecoveredMetadata
<1>3. CASE Batches(p) # {}
  <2>1. Batches(p) \in SUBSET Nat
    BY <1>1, LenProperties DEF Batches
  <2>2. Min(Batches(p)) \in Batches(p) /\ \A j \in Batches(p) : Min(Batches(p)) <= j
    BY <1>3, <2>1, MinProperties
  <2>3. RecoveredMetadata(p) = file[Min(Batches(p))].form
    BY <1>3 DEF RecoveredMetadata
  <2>4. \A i \in Batches(p) : file[i].form \in Schemas
    <3>1. \A i \in DOMAIN file : file[i] \in StoredRecord
      BY <1>1, LenProperties, ElementOfSeq
    <3> QED BY <3>1 DEF Batches, StoredRecord, Form
  <2> QED BY <2>2, <2>3, <2>4
<1> QED BY <1>2, <1>3

(* A recovery publishes what is in the file.                               *)
LEMMA ServerRecover ==
  ASSUME ServerInv, Recover
  PROVE  ServerInv'
<1> USE DEF Recover
<1>1. P!TypeOK /\ P!LocksOK
  BY DEF ServerInv, P!LocksInv
<1>2. P!LocksInv'
  BY <1>1 DEF P!LocksInv, P!TypeOK, P!LocksOK
<1>3. metadata' \in [Topics -> Schemas \cup {NoSchema, Absent}]
  BY RecoveredProperties
<1>4. P!LogFollowsFile'
  <2>1. unflushed' = <<>> /\ buffer' = <<>> /\ backend' = file /\ file' = file
    BY DEF ServerInv
  <2>2. P!Unpushed' = <<>>
    BY <1>1 DEF P!Unpushed, P!TypeOK, ServerInv
  <2>3. file \in Seq(StoredRecord) /\ file \o <<>> = file
    BY <1>1, ConcatEmptySeq DEF P!TypeOK
  <2> QED BY <2>1, <2>2, <2>3 DEF P!LogFollowsFile
<1> QED BY <1>2, <1>3, <1>4 DEF ServerInv

(* A topic is created, or nothing happens.                                 *)
LEMMA ServerUnchanged ==
  ASSUME ServerInv, UNCHANGED <<walVars, up, crashes>>,
         metadata' \in [Topics -> Schemas \cup {NoSchema, Absent}]
  PROVE  ServerInv'
BY DEF ServerInv, walVars, P!LocksInv, P!TypeOK, P!LocksOK, P!LogFollowsFile, P!Unpushed

(* No step of the server breaks it.                                        *)
LEMMA ServerNext == ServerInv /\ [Next]_vars => ServerInv'
<1> SUFFICES ASSUME ServerInv, [Next]_vars PROVE ServerInv'
  OBVIOUS
<1>1. ASSUME NEW t \in Threads, NEW id \in Ids, NEW p \in Topics, NEW payload \in Form,
             Produce(t, id, p, payload)
      PROVE  ServerInv'
  BY <1>1, ServerWal DEF Produce, StoredRecord, Form
<1>2. ASSUME NEW t \in Threads, Continue(t) PROVE ServerInv'
  BY <1>2, ServerWal DEF Continue
<1>3. ASSUME NEW p \in Topics, NEW schema \in Schemas \cup {NoSchema}, Create(p, schema)
      PROVE  ServerInv'
  <2>1. metadata' \in [Topics -> Schemas \cup {NoSchema, Absent}]
    BY <1>3 DEF Create, ServerInv
  <2> QED BY <1>3, <2>1, ServerUnchanged DEF Create
<1>4. CASE UNCHANGED vars
  BY <1>4, ServerUnchanged DEF vars, ServerInv
<1> QED BY <1>1, <1>2, <1>3, <1>4, ServerCrash, ServerRecover
        DEF Next, RecoverPanics, Waiting, Wal!Waiting, Wal!walVars, Wal!fileVars,
            Wal!bufferVars, vars, walVars

(* So it always holds.                                                     *)
LEMMA ServerAlways == Spec => []ServerInv
BY ServerInit, ServerNext, PTL DEF Spec

(* Every variable has its type; a recovery makes no topic of a raw record. *)
THEOREM TypeCorrect == Spec => []TypeOK
<1>1. ServerInv => TypeOK
  BY WalTypes DEF ServerInv, TypeOK
<1> QED BY <1>1, ServerAlways, PTL

-----------------------------------------------------------------------------
(* Schemas *)

(* In a topic everything behind a batch is a batch of the same schema.     *)
Uniform(s) ==
  \A i, j \in DOMAIN s :
    i <= j /\ s[i].topic = s[j].topic /\ s[i].form # Raw => s[j].form = s[i].form

(* A record that is logged fits its topic's schema, if it is a batch; one  *)
(* that is being added is a batch exactly when its topic has a schema.     *)
Fits(r) == r.form # Raw => r.form = metadata[r.topic]
Adding(r) ==
  r.form = IF metadata[r.topic] \in Schemas THEN metadata[r.topic] ELSE Raw

SchemaInv ==
  /\ Uniform(Logged)
  /\ up => /\ \A i \in DOMAIN Logged : Fits(Logged[i])
           /\ \A t \in Threads : rec[t] # NoRecord => Adding(rec[t])

(* A record that is being added may be written behind the others.          *)
LEMMA UniformAppend ==
  ASSUME NEW s \in Seq(StoredRecord), NEW r \in StoredRecord,
         Uniform(s), \A i \in DOMAIN s : Fits(s[i]), Adding(r)
  PROVE  Uniform(Append(s, r)) /\ \A i \in DOMAIN Append(s, r) : Fits(Append(s, r)[i])
<1> DEFINE a == Append(s, r)
           n == Len(s)
<1>1. /\ n \in Nat /\ DOMAIN s = 1..n /\ DOMAIN a = 1..n + 1
      /\ \A i \in 1..n : a[i] = s[i]
      /\ a[n + 1] = r
      /\ \A i \in 1..n : s[i] \in StoredRecord
  BY AppendProperties, LenProperties, ElementOfSeq
<1>2. Fits(r)
  BY DEF Fits, Adding
<1> HIDE DEF a, n
<1>3. ASSUME NEW i \in 1..n + 1, NEW j \in 1..n + 1, i <= j, a[i].topic = a[j].topic,
             a[i].form # Raw
      PROVE  a[j].form = a[i].form
  <2>1. CASE j \in 1..n
    <3>1. i \in 1..n
      BY <1>1, <1>3, <2>1
    <3> QED BY <1>1, <1>3, <2>1, <3>1 DEF Uniform
  <2>2. CASE j = n + 1 /\ i \in 1..n
    <3>1. a[i] = s[i] /\ a[j] = r
      BY <1>1, <2>2
    <3>2. s[i].form = metadata[s[i].topic] /\ s[i].form \in Schemas
      BY <1>1, <1>3, <2>2, <3>1 DEF Fits, StoredRecord, Form
    <3> QED BY <1>3, <3>1, <3>2 DEF Adding
  <2>3. CASE i = n + 1
    BY <1>1, <1>3, <2>3
  <2> QED BY <1>1, <2>1, <2>2, <2>3
<1>4. ASSUME NEW i \in 1..n + 1 PROVE Fits(a[i])
  <2>1. CASE i = n + 1
    BY <1>1, <1>2, <2>1
  <2>2. CASE i \in 1..n
    BY <1>1, <2>2
  <2> QED BY <1>1, <2>1, <2>2
<1>5. Uniform(a) /\ \A i \in DOMAIN a : Fits(a[i])
  BY <1>1, <1>3, <1>4 DEF Uniform
<1> QED BY <1>5 DEF a

(* A record is validated against the metadata before it is added.          *)
LEMMA SchemaProduce ==
  ASSUME ServerInv, SchemaInv, NEW t \in Threads, NEW id \in Ids, NEW p \in Topics,
         NEW payload \in Form, Produce(t, id, p, payload)
  PROVE  SchemaInv'
<1> DEFINE r == [id |-> id, topic |-> p,
                 form |-> IF metadata[p] \in Schemas THEN payload ELSE Raw]
<1>1. /\ Wal!Add(t, r) /\ up /\ UNCHANGED <<metadata, up>>
      /\ metadata[p] \in Schemas => payload = metadata[p]
  BY DEF Produce, Accepts
<1>2. rec' = [rec EXCEPT ![t] = r] /\ UNCHANGED <<file, unflushed>>
  BY <1>1 DEF Wal!Add, Wal!fileVars
<1>3. Adding(r)
  BY <1>1 DEF Adding
<1>4. Logged' = Logged
  BY <1>2 DEF Logged
<1> HIDE DEF r
<1>5. \A u \in Threads : rec'[u] = IF u = t THEN r ELSE rec[u]
  BY <1>2, WalTypes DEF ServerInv
<1> QED BY <1>1, <1>3, <1>4, <1>5 DEF SchemaInv, Fits, Adding, Uniform

(* The write path writes what is being added.                              *)
LEMMA SchemaContinue ==
  ASSUME ServerInv, SchemaInv, NEW t \in Threads, Continue(t)
  PROVE  SchemaInv'
<1>1. Wal!Step(t) /\ UNCHANGED <<metadata, up, crashes>>
  BY DEF Continue
<1>2. up /\ P!LocksInv
  BY <1>1, ServerWal DEF ServerInv
<1>3. /\ rec' = rec \/ rec' = [rec EXCEPT ![t] = NoRecord]
      /\ \/ Logged' = Logged
         \/ rec[t] \in StoredRecord /\ Logged' = Append(Logged, rec[t])
  BY <1>1, <1>2, WalConstants, WalSteps, P!StepWrites DEF Logged
<1>4. \A u \in Threads : rec'[u] # NoRecord => Adding(rec'[u])
  BY <1>2, <1>3, WalTypes DEF SchemaInv
<1>5. Uniform(Logged') /\ \A i \in DOMAIN Logged' : Fits(Logged'[i])
  <2>1. CASE Logged' = Logged
    BY <1>2, <2>1 DEF SchemaInv
  <2>2. CASE rec[t] \in StoredRecord /\ Logged' = Append(Logged, rec[t])
    <3>1. Logged \in Seq(StoredRecord) /\ Adding(rec[t])
      BY <1>2, <2>2, WalTypes, TopicAssumption DEF SchemaInv
    <3> QED BY <1>2, <2>2, <3>1, UniformAppend DEF SchemaInv
  <2> QED BY <1>3, <2>1, <2>2
<1> QED BY <1>1, <1>4, <1>5 DEF SchemaInv, Uniform, Fits, Adding

(* When a topic is created nothing is being added, and it has no batches.  *)
LEMMA SchemaCreate ==
  ASSUME ServerInv, SchemaInv, NEW p \in Topics, NEW schema \in Schemas \cup {NoSchema},
         Create(p, schema)
  PROVE  SchemaInv'
<1>1. Logged' = Logged /\ rec' = rec /\ up /\ up' /\ metadata[p] = Absent
      /\ metadata' = [metadata EXCEPT ![p] = schema]
  BY DEF Create, Logged, walVars
<1>2. \A t \in Threads : rec[t] = NoRecord
  BY WalTypes DEF Create, ServerInv
<1>3. ASSUME NEW i \in DOMAIN Logged, Logged[i].form # Raw
      PROVE  Logged[i].form = metadata'[Logged[i].topic]
  <2>1. Logged[i] \in StoredRecord
    BY WalTypes, LenProperties, ElementOfSeq DEF ServerInv
  <2>2. Logged[i].form = metadata[Logged[i].topic] /\ Logged[i].form \in Schemas
    BY <1>1, <1>3, <2>1 DEF SchemaInv, Fits, StoredRecord, Form
  <2>3. Logged[i].topic # p
    BY <1>1, <2>2, TopicAssumption
  <2> QED BY <1>1, <2>1, <2>2, <2>3 DEF ServerInv, StoredRecord
<1> QED BY <1>1, <1>2, <1>3 DEF SchemaInv, Uniform, Fits, Adding

(* A crash leaves the first part of the log.                               *)
LEMMA SchemaCrash ==
  ASSUME ServerInv, SchemaInv, Crash
  PROVE  SchemaInv'
<1>1. file \in Seq(StoredRecord) /\ unflushed \in Seq(StoredRecord)
  BY WalTypes DEF ServerInv
<1>2. Logged' = file /\ ~up'
  BY <1>1, ConcatEmptySeq DEF Crash, Logged
<1>3. DOMAIN file \subseteq DOMAIN Logged /\ \A i \in DOMAIN file : file[i] = Logged[i]
  BY <1>1, FileInLog
<1>4. Uniform(file)
  BY <1>3 DEF SchemaInv, Uniform
<1> QED BY <1>2, <1>4 DEF SchemaInv, Uniform

(* The first batch of a topic in the file has the schema of all of them.   *)
LEMMA SchemaRecover ==
  ASSUME ServerInv, SchemaInv, Recover
  PROVE  SchemaInv'
<1>1. Logged = file /\ Logged' = file /\ file \in Seq(StoredRecord)
  BY WalTypes, FileInLog DEF ServerInv, Recover, Logged
<1>2. \A t \in Threads : rec'[t] = NoRecord
  BY WalTypes DEF Recover, ServerInv
<1>3. ASSUME NEW j \in DOMAIN file, file[j].form # Raw
      PROVE  file[j].form = metadata'[file[j].topic]
  <2> DEFINE p == file[j].topic
  <2>1. p \in Topics /\ j \in Batches(p)
    <3>1. file[j] \in StoredRecord
      BY <1>1, LenProperties, ElementOfSeq
    <3> QED BY <1>3, <3>1 DEF Batches, StoredRecord
  <2>2. PICK i \in Batches(p) : RecoveredMetadata(p) = file[i].form /\ i <= j
    BY <2>1, RecoveredProperties
  <2>3. file[j].form = file[i].form
    BY <1>1, <2>2 DEF SchemaInv, Uniform, Batches
  <2>4. metadata'[p] = RecoveredMetadata(p)
    BY <2>1 DEF Recover
  <2> QED BY <2>2, <2>3, <2>4
<1> QED BY <1>1, <1>2, <1>3 DEF SchemaInv, Uniform, Fits, Adding

(* No step of the server mixes schemas.                                    *)
LEMMA SchemaNext == ServerInv /\ SchemaInv /\ [Next]_vars => SchemaInv'
<1> SUFFICES ASSUME ServerInv, SchemaInv, [Next]_vars PROVE SchemaInv'
  OBVIOUS
<1>1. CASE UNCHANGED vars
  BY <1>1 DEF vars, walVars, SchemaInv, Uniform, Fits, Adding, Logged
<1> QED BY <1>1, SchemaProduce, SchemaContinue, SchemaCreate, SchemaCrash, SchemaRecover
        DEF Next, RecoverPanics, Waiting, Wal!Waiting, Wal!walVars, Wal!fileVars,
            Wal!bufferVars, vars, walVars

(* A consumer of a topic with a schema never meets a batch of another one, *)
(* nor a raw record behind a batch, whatever is created, produced, lost    *)
(* and recovered (src/topic_manager.rs:127-164, 176-244).                  *)
THEOREM SchemasKeptApart == Spec => []OneSchema
<1>1. Init => SchemaInv
  <2> SUFFICES ASSUME Init PROVE SchemaInv
    OBVIOUS
  <2>1. Logged = <<>> /\ \A t \in Threads : rec[t] = NoRecord
    BY EmptySeq, ConcatEmptySeq DEF Init, Wal!Init, Logged
  <2>2. DOMAIN <<>> = {}
    BY EmptySeq
  <2> QED BY <2>1, <2>2 DEF SchemaInv, Uniform
<1>2. SchemaInv => OneSchema
  BY DEF SchemaInv, OneSchema, Uniform, Fits, Adding, Pending
<1> QED BY <1>1, <1>2, ServerAlways, SchemaNext, PTL DEF Spec

-----------------------------------------------------------------------------
(* Refinement *)

(* While the server is up it publishes as the write path does.             *)
LEMMA WalIsOrdered ==
  ASSUME ServerInv, NEW t \in Threads, Continue(t)
  PROVE  \/ \E r \in StoredRecord : Ordered!Accept(r) /\ DurableLog!Accept(r)
         \/ Ordered!Reveal /\ DurableLog!Reveal
         \/ UNCHANGED <<Logged, Published>>
<1>1. P!LogInv /\ [P!Next]_(P!walVars) /\ up /\ up'
  BY ServerWal DEF Continue
<1>2. \/ \E r \in StoredRecord : P!Ordered!Accept(r)
      \/ P!Ordered!Reveal
      \/ UNCHANGED P!Ordered!logVars
  BY <1>1, WalConstants, P!StepIsOrdered
<1>3. Published = backend /\ Published' = backend'
  BY <1>1 DEF Published
<1>4. Logged = file \o unflushed /\ Logged' = file' \o unflushed'
  BY DEF Logged
<1> QED BY <1>2, <1>3, <1>4
        DEF P!Ordered!Accept, P!Ordered!Reveal, P!Ordered!logVars, Ordered!Accept,
            Ordered!Reveal, DurableLog!Accept, DurableLog!Reveal

(* A crash keeps what is in the file, and that is published afterwards.    *)
LEMMA CrashLoses ==
  ASSUME ServerInv, Crash
  PROVE  /\ Len(file) \in 0..Len(Logged)
         /\ Ordered!Lose(Len(file))
         /\ Len(backend) <= Len(file) => DurableLog!Lose(Len(file))
<1>1. file \in Seq(StoredRecord) /\ unflushed \in Seq(StoredRecord)
  BY WalTypes DEF ServerInv
<1>2. Len(file) \in 0..Len(Logged) /\ SubSeq(Logged, 1, Len(file)) = file
  BY <1>1, FileInLog
<1>3. Logged' = file /\ Published' = file /\ Published = backend
  BY <1>1, ConcatEmptySeq DEF Crash, Logged, Published
<1> QED BY <1>2, <1>3 DEF Ordered!Lose, DurableLog!Lose

(* A start of the server changes nothing of either.                        *)
LEMMA RecoverPublishes ==
  ASSUME ServerInv, Recover
  PROVE  UNCHANGED <<Logged, Published>>
BY DEF Recover, Logged, Published

(* A step of the server is one of the log, or of no concern to it.         *)
LEMMA StepKinds ==
  ASSUME [Next]_vars
  PROVE  \/ \E t \in Threads : Continue(t)
         \/ Crash
         \/ Recover
         \/ UNCHANGED <<Logged, Published>>
<1> SUFFICES ASSUME UNCHANGED <<file, unflushed, backend, up>>
             PROVE  UNCHANGED <<Logged, Published>>
  <2>1. ASSUME NEW t \in Threads, NEW id \in Ids, NEW p \in Topics, NEW payload \in Form,
               Produce(t, id, p, payload)
        PROVE  UNCHANGED <<file, unflushed, backend, up>>
    <3> DEFINE r == [id |-> id, topic |-> p,
                     form |-> IF metadata[p] \in Schemas THEN payload ELSE Raw]
    <3>1. Wal!Add(t, r) /\ UNCHANGED up
      BY <2>1 DEF Produce
    <3> QED BY <3>1 DEF Wal!Add, Wal!fileVars, Wal!bufferVars
  <2>2. ASSUME NEW p \in Topics, NEW schema \in Schemas \cup {NoSchema}, Create(p, schema)
        PROVE  UNCHANGED <<file, unflushed, backend, up>>
    BY <2>2 DEF Create, walVars
  <2>3. ASSUME RecoverPanics \/ Waiting \/ UNCHANGED vars
        PROVE  UNCHANGED <<file, unflushed, backend, up>>
    BY <2>3 DEF RecoverPanics, Waiting, Wal!Waiting, Wal!walVars, Wal!fileVars,
                Wal!bufferVars, vars, walVars
  <2> QED BY <2>1, <2>2, <2>3 DEF Next
<1> QED BY DEF Logged, Published

(* The log is empty when the server starts for the first time.             *)
LEMMA LogInit == Init => Logged = <<>> /\ Published = <<>>
BY EmptySeq, ConcatEmptySeq DEF Init, Wal!Init, Logged, Published

(* Order and offsets survive every crash: what is lost is a suffix of the  *)
(* log, and what is published afterwards continues the rest                *)
(* (src/wal.rs:38-98, src/topic_manager.rs:189-244).                       *)
THEOREM OffsetsKept == Spec => OffsetsSurvive
<1>1. Init => Ordered!Init
  BY LogInit DEF Ordered!Init
<1>2. ServerInv /\ [Next]_vars => [Ordered!Next]_(Ordered!logVars)
  <2> SUFFICES ASSUME ServerInv, [Next]_vars
               PROVE  Ordered!Next \/ UNCHANGED <<Logged, Published>>
    BY DEF Ordered!logVars
  <2> QED BY StepKinds, WalIsOrdered, CrashLoses, RecoverPublishes DEF Ordered!Next
<1> QED BY <1>1, <1>2, ServerAlways, PTL DEF Spec, OffsetsSurvive, Ordered!Spec

-----------------------------------------------------------------------------
(* One producer *)

(* A single producer's file is ahead of what is published, in every state. *)
LEMMA DrainNext ==
  ASSUME \A t, u \in Threads : t = u
  PROVE  ServerInv /\ P!DrainAfterFlush /\ [Next]_vars => P!DrainAfterFlush'
<1> SUFFICES ASSUME ServerInv, P!DrainAfterFlush, [Next]_vars PROVE P!DrainAfterFlush'
  OBVIOUS
<1>1. ASSUME UNCHANGED <<metadata, up, crashes>>, NEW t \in Threads,
             (up /\ \E r \in StoredRecord : Wal!Add(t, r)) \/ Wal!Step(t)
      PROVE  P!DrainAfterFlush'
  <2>1. P!LogInv /\ [P!Next]_(P!walVars)
    BY <1>1, ServerWal
  <2> QED BY <2>1, WalConstants, P!DrainNext
<1>2. ASSUME NEW t \in Threads, NEW id \in Ids, NEW p \in Topics, NEW payload \in Form,
             Produce(t, id, p, payload)
      PROVE  P!DrainAfterFlush'
  BY <1>1, <1>2 DEF Produce, StoredRecord, Form
<1>3. ASSUME NEW t \in Threads, Continue(t) PROVE P!DrainAfterFlush'
  BY <1>1, <1>3 DEF Continue
<1>4. CASE Crash
  BY <1>4 DEF Crash, P!DrainAfterFlush, P!WriteAhead
<1>5. CASE Recover
  <2>1. Len(file) \in Nat
    BY WalTypes, LenProperties DEF ServerInv
  <2>2. P!IsPrefix(file, file)
    BY <2>1 DEF P!IsPrefix
  <2>3. \A t \in Threads : pc[t] = "idle"
    BY <1>5 DEF Recover, ServerInv
  <2> QED BY <1>5, <2>2, <2>3 DEF Recover, P!DrainAfterFlush, P!WriteAhead
<1>6. ASSUME UNCHANGED walVars PROVE P!DrainAfterFlush'
  BY <1>6 DEF walVars, P!DrainAfterFlush, P!WriteAhead
<1> QED BY <1>2, <1>3, <1>4, <1>5, <1>6
        DEF Next, Create, RecoverPanics, Waiting, Wal!Waiting, Wal!walVars, Wal!fileVars,
            Wal!bufferVars, vars, walVars

(* With one producer no crash loses a record that could be fetched before  *)
(* it; a second one is what it takes (run wal_race).                       *)
THEOREM SequentialDurability ==
  ASSUME \A t, u \in Threads : t = u
  PROVE  Spec => FetchedSurvives
<1>1. Init => DurableLog!Init /\ P!DrainAfterFlush
  <2> SUFFICES ASSUME Init PROVE DurableLog!Init /\ P!DrainAfterFlush
    OBVIOUS
  <2>1. Len(<<>>) = 0
    BY EmptySeq
  <2> QED BY <2>1, LogInit
          DEF DurableLog!Init, Init, Wal!Init, P!DrainAfterFlush, P!WriteAhead, P!IsPrefix
<1>2. ServerInv /\ P!DrainAfterFlush /\ [Next]_vars => [DurableLog!Next]_(DurableLog!logVars)
  <2> SUFFICES ASSUME ServerInv, P!DrainAfterFlush, [Next]_vars
               PROVE  DurableLog!Next \/ UNCHANGED <<Logged, Published>>
    BY DEF DurableLog!logVars
  <2>1. Len(backend) <= Len(file)
    BY DEF P!DrainAfterFlush, P!WriteAhead, P!IsPrefix
  <2> QED BY <2>1, StepKinds, WalIsOrdered, CrashLoses, RecoverPublishes DEF DurableLog!Next
<1>3. ServerInv /\ P!DrainAfterFlush /\ [Next]_vars => P!DrainAfterFlush'
  BY DrainNext
<1> QED BY <1>1, <1>2, <1>3, ServerAlways, PTL DEF Spec, FetchedSurvives, DurableLog!Spec

=============================================================================
