------------------------ MODULE HerbertServerProofs ------------------------
(***************************************************************************)
(* Theorems about the whole server, for every set of producers, consumers, *)
(* groups, topics and schemas: whatever consumers do, the topics behave as *)
(* they do alone, so that what TopicManagerProofs shows of them holds in   *)
(* the server, too.                                                        *)
(***************************************************************************)
EXTENDS HerbertServer, FiniteSetTheorems, SequenceTheorems, TLAPS

T == INSTANCE TopicManagerProofs

(* The constants are as the topic manager assumes them.                    *)
LEMMA TopicConstants == T!TopicAssumption
BY ServerAssumption DEF T!TopicAssumption, T!StoredRecord, T!Form

(* A step of the server is one of the topic manager, or none of its        *)
(* concern: no handler but its own changes its state.                      *)
LEMMA StepOfTopics == [Next]_vars => [Records!Next]_(Records!vars)
<1> SUFFICES ASSUME [Next]_vars PROVE [Records!Next]_(Records!vars)
  OBVIOUS
<1>1. ASSUME UNCHANGED <<up, topicVars>> PROVE UNCHANGED Records!vars
  BY <1>1 DEF topicVars, Records!vars, Records!walVars
<1>2. ASSUME NEW t \in Threads, NEW id \in Ids, NEW p \in Topics,
             NEW payload \in Schemas \cup {Raw}, Produce(t, id, p, payload)
      PROVE  Records!Next
  BY <1>2 DEF Produce, Records!Next, Records!Form
<1>3. ASSUME NEW t \in Threads, LockRecords(t) \/ Continue(t)
      PROVE  Records!Next \/ UNCHANGED Records!vars
  BY <1>1, <1>3 DEF LockRecords, Continue, Records!Next
<1>4. ASSUME NEW p \in Topics, NEW schema \in Schemas \cup {NoSchema},
             CreateTopic(p, schema)
      PROVE  Records!Next
  BY <1>4 DEF CreateTopic, Records!Next
<1>5. ASSUME NEW c \in Consumers,
             \/ \E p \in Pairs : AskPosition(c, p)
             \/ LookUp(c) \/ Read(c) \/ RefuseText(c) \/ Handle(c) \/ Leave(c)
             \/ Abandon
      PROVE  UNCHANGED Records!vars
  <2>1. UNCHANGED up
    BY <1>5 DEF AskPosition, LookUp, Read, ReadAnswer, ReadMixed, RefuseText, Handle,
                Commit, ContinueCommit, Leave, Abandon, EndFetch, Commits!Insert,
                Commits!Step, Commits!Encode, Commits!Truncate, Commits!WritePart,
                Commits!Write, Commits!WriteFails
  <2>2. UNCHANGED topicVars
    BY <1>5 DEF AskPosition, LookUp, Read, ReadAnswer, ReadMixed, RefuseText, Handle,
                Commit, ContinueCommit, Leave, Abandon, EndFetch
  <2> QED BY <1>1, <2>1, <2>2
<1>6. CASE Crash \/ Start
  BY <1>6 DEF Crash, Start, Records!Next
<1>7. CASE StartPanics
  BY <1>1, <1>7 DEF StartPanics, vars, Commits!RecoverPanics
<1>8. CASE Waiting
  BY <1>8 DEF Waiting, Records!Next
<1>9. CASE UNCHANGED vars
  BY <1>1, <1>9 DEF vars
<1>10. CASE Abandon
  BY <1>1, <1>10 DEF Abandon, EndFetch
<1> QED BY <1>2, <1>3, <1>4, <1>5, <1>6, <1>7, <1>8, <1>9, <1>10 DEF Next

(* In the server the topics behave as TopicManager says: what its runs and *)
(* proofs show is not spoilt by consumers, commits, or the start that      *)
(* reads a second file (src/server.rs:222-284).                            *)
THEOREM TopicsAsAlone == Spec => Records!Spec
<1>1. Init => Records!Init
  BY DEF Init
<1> QED BY <1>1, StepOfTopics, PTL DEF Spec, Records!Spec

-----------------------------------------------------------------------------
(* The topic manager in the terms of its proofs *)

(* A step of the write path is one in the terms of the proofs.             *)
LEMMA WalSteps ==
  ASSUME NEW t \in Threads, Records!Wal!Step(t)
  PROVE  T!Wal!Step(t)
<1> USE DEF Records!Wal!Goto, T!Wal!Goto, Records!Wal!LockFile, T!Wal!LockFile,
            Records!Wal!fileVars, T!Wal!fileVars, Records!Wal!bufferVars,
            T!Wal!bufferVars, Records!Wal!Emptying, T!Wal!Emptying
<1>1. CASE Records!Wal!WriteBuffered(t)
  BY <1>1 DEF Records!Wal!WriteBuffered, T!Wal!WriteBuffered, T!Wal!Step
<1>2. CASE Records!Wal!MakeRoom(t)
  BY <1>2 DEF Records!Wal!MakeRoom, T!Wal!MakeRoom, T!Wal!Step
<1>3. CASE Records!Wal!RoomMade(t)
  BY <1>3 DEF Records!Wal!RoomMade, T!Wal!RoomMade, T!Wal!Step
<1>4. CASE Records!Wal!GoAround(t)
  BY <1>4 DEF Records!Wal!GoAround, T!Wal!GoAround, T!Wal!Step
<1>5. CASE Records!Wal!WriteDirect(t)
  BY <1>5 DEF Records!Wal!WriteDirect, T!Wal!WriteDirect, T!Wal!Step
<1>6. CASE Records!Wal!Push(t)
  BY <1>6 DEF Records!Wal!Push, T!Wal!Push, T!Wal!Step
<1>7. CASE Records!Wal!NeedToFlush(t)
  BY <1>7 DEF Records!Wal!NeedToFlush, T!Wal!NeedToFlush, T!Wal!Step
<1>8. CASE Records!Wal!StartFlush(t)
  BY <1>8 DEF Records!Wal!StartFlush, T!Wal!StartFlush, T!Wal!Step
<1>9. CASE Records!Wal!FileFlushed(t)
  BY <1>9 DEF Records!Wal!FileFlushed, T!Wal!FileFlushed, T!Wal!Step
<1>10. CASE Records!Wal!StartDrain(t)
  BY <1>10 DEF Records!Wal!StartDrain, T!Wal!StartDrain, T!Wal!Step
<1>11. CASE Records!Wal!Publish(t)
  BY <1>11 DEF Records!Wal!Publish, T!Wal!Publish, T!Wal!Step
<1>12. CASE Records!Wal!EndDrain(t)
  BY <1>12 DEF Records!Wal!EndDrain, T!Wal!EndDrain, T!Wal!Step
<1>13. CASE Records!Wal!WritePart(t)
  BY <1>13 DEF Records!Wal!WritePart, T!Wal!WritePart, T!Wal!Step
<1>14. CASE Records!Wal!WriteOne(t)
  BY <1>14 DEF Records!Wal!WriteOne, T!Wal!WriteOne, T!Wal!Step
<1>15. CASE Records!Wal!WriteFails(t)
  BY <1>15 DEF Records!Wal!WriteFails, T!Wal!WriteFails, T!Wal!Step
<1> QED
  BY <1>1, <1>2, <1>3, <1>4, <1>5, <1>6, <1>7, <1>8, <1>9, <1>10, <1>11, <1>12, <1>13,
     <1>14, <1>15 DEF Records!Wal!Step

(* So is a step of the topic manager.                                      *)
LEMMA TopicSteps == [Records!Next]_(Records!vars) => [T!Next]_(T!vars)
<1> SUFFICES ASSUME [Records!Next]_(Records!vars) PROVE [T!Next]_(T!vars)
  OBVIOUS
<1> USE DEF Records!StoredRecord, T!StoredRecord, Records!Form, T!Form
<1>1. ASSUME NEW t \in Threads, NEW id \in Ids, NEW p \in Topics,
             NEW payload \in Records!Form, Records!Produce(t, id, p, payload)
      PROVE  T!Produce(t, id, p, payload)
  <2>1. Records!FreshId(id) => T!FreshId(id)
    BY DEF Records!FreshId, T!FreshId, Records!Logged, T!Logged
  <2>2. ASSUME NEW r, Records!Wal!Add(t, r) PROVE T!Wal!Add(t, r)
    BY <2>2 DEF Records!Wal!Add, T!Wal!Add, Records!Wal!Fresh, T!Wal!Fresh,
                Records!Wal!ToSet, T!Wal!ToSet, Records!Wal!Goto, T!Wal!Goto, Records!Wal!fileVars, T!Wal!fileVars,
                Records!Wal!bufferVars, T!Wal!bufferVars
  <2> QED BY <1>1, <2>1, <2>2 DEF Records!Produce, T!Produce, Records!Accepts, T!Accepts
<1>2. ASSUME NEW t \in Threads, Records!Continue(t) PROVE T!Continue(t)
  BY <1>2, WalSteps DEF Records!Continue, T!Continue
<1>3. ASSUME NEW p \in Topics, NEW schema \in Schemas \cup {NoSchema},
             Records!Create(p, schema)
      PROVE  T!Create(p, schema)
  BY <1>3 DEF Records!Create, T!Create, Records!walVars, T!walVars
<1>4. CASE Records!Crash
  BY <1>4 DEF Records!Crash, T!Crash, T!Next
<1>5. CASE Records!Recover
  BY <1>5 DEF Records!Recover, T!Recover, T!Next, Records!RecoveredMetadata,
              T!RecoveredMetadata, Records!Batches, T!Batches, Records!Min, T!Min
<1>6. CASE Records!RecoverPanics \/ UNCHANGED Records!vars
  BY <1>6 DEF Records!RecoverPanics, Records!vars, T!vars, Records!walVars, T!walVars
<1>7. CASE Records!Waiting
  BY <1>7 DEF Records!Waiting, Records!Wal!Waiting, Records!Wal!walVars,
              Records!Wal!fileVars, Records!Wal!bufferVars, T!vars, T!walVars
<1> QED BY <1>1, <1>2, <1>3, <1>4, <1>5, <1>6, <1>7 DEF Records!Next, T!Next

(* The server runs the topic manager that the proofs are about.            *)
LEMMA RunsTopics == Spec => T!Spec
<1>1. Records!Init => T!Init
  BY DEF Records!Init, T!Init, Records!Wal!Init, T!Wal!Init
<1> QED BY <1>1, TopicsAsAlone, TopicSteps, PTL DEF Records!Spec, T!Spec

(* With one producer and any number of consumers no crash of the server    *)
(* takes away a record that could be fetched, or its offset, so that no    *)
(* group has an offset that means another record afterwards.               *)
THEOREM FetchedRecordsSurvive ==
  ASSUME \A t, u \in Threads : t = u
  PROVE  Spec => FetchedSurvives
<1>1. T!Spec => T!FetchedSurvives
  BY TopicConstants, T!SequentialDurability
<1>2. T!DurableLog!Init => Records!DurableLog!Init
  BY DEF T!DurableLog!Init, Records!DurableLog!Init, T!Logged, Records!Logged,
         T!Published, Records!Published
<1>3. [T!DurableLog!Next]_(T!DurableLog!logVars)
        => [Records!DurableLog!Next]_(Records!DurableLog!logVars)
  BY DEF T!DurableLog!Next, Records!DurableLog!Next, T!DurableLog!logVars,
         Records!DurableLog!logVars, T!DurableLog!Accept, Records!DurableLog!Accept,
         T!DurableLog!Reveal, Records!DurableLog!Reveal, T!DurableLog!Lose,
         Records!DurableLog!Lose, T!Logged, Records!Logged, T!Published,
         Records!Published, T!StoredRecord, Records!StoredRecord, T!Form, Records!Form
<1> QED BY <1>1, <1>2, <1>3, RunsTopics, PTL
        DEF T!FetchedSurvives, T!DurableLog!Spec, FetchedSurvives,
            Records!FetchedSurvives, Records!DurableLog!Spec

-----------------------------------------------------------------------------
(* Places and offsets *)

(* The places of a topic's records are finitely many, and so are those     *)
(* before any of them.                                                     *)
LEMMA PlacesProperties ==
  ASSUME NEW S, NEW log \in Seq(S), NEW p
  PROVE  /\ Stored(log, p) \subseteq 1..Len(log)
         /\ IsFiniteSet(Stored(log, p))
         /\ Cardinality(Stored(log, p)) \in Nat
         /\ \A i \in Stored(log, p) :
              /\ Offset(log, i) = Cardinality({j \in Stored(log, p) : j < i})
              /\ Offset(log, i) \in Nat
<1>1. Stored(log, p) \subseteq 1..Len(log)
  BY DEF Stored
<1>2. IsFiniteSet(Stored(log, p)) /\ Cardinality(Stored(log, p)) \in Nat
  <2>1. IsFiniteSet(1..Len(log))
    BY FS_Interval
  <2> QED BY <1>1, <2>1, FS_Subset, FS_CardinalityType
<1>3. ASSUME NEW i \in Stored(log, p)
      PROVE  /\ Offset(log, i) = Cardinality({j \in Stored(log, p) : j < i})
             /\ Offset(log, i) \in Nat
  <2>1. log[i].topic = p
    BY DEF Stored
  <2>2. Offset(log, i) = Cardinality({j \in Stored(log, p) : j < i})
    BY <2>1 DEF Offset
  <2>3. IsFiniteSet({j \in Stored(log, p) : j < i})
    BY <1>2, FS_Subset
  <2> QED BY <2>2, <2>3, FS_CardinalityType
<1> QED BY <1>1, <1>2, <1>3

(* A log of at least n records has n of them before offset n: were there   *)
(* fewer, the first record from n on would have a smaller offset.          *)
LEMMA EnoughBefore ==
  ASSUME NEW S, NEW log \in Seq(S), NEW p, NEW n \in Nat,
         n <= Cardinality(Stored(log, p))
  PROVE  LET before == {i \in Stored(log, p) : Offset(log, i) < n}
         IN  IsFiniteSet(before) /\ Cardinality(before) \in Nat /\ n <= Cardinality(before)
<1> DEFINE P == Stored(log, p)
           before == {i \in P : Offset(log, i) < n}
<1>1. /\ P \subseteq Nat /\ IsFiniteSet(P) /\ n <= Cardinality(P)
      /\ \A i \in P : Offset(log, i) = Cardinality({j \in P : j < i})
                      /\ Offset(log, i) \in Nat
  BY PlacesProperties
<1> HIDE DEF P
<1>2. IsFiniteSet(before) /\ Cardinality(before) \in Nat
  BY <1>1, FS_Subset, FS_CardinalityType
<1>3. n <= Cardinality(before)
  <2>1. CASE before = P
    <3> HIDE DEF before
    <3> QED BY <1>1, <2>1
  <2>2. CASE before # P
    <3> DEFINE rest == P \ before
               least == T!Min(rest)
    <3>1. rest \in SUBSET Nat /\ rest # {}
      BY <1>1, <2>2
    <3> HIDE DEF rest
    <3>2. least \in rest /\ \A j \in rest : least <= j
      BY <3>1, TopicConstants, T!MinProperties
    <3> HIDE DEF least
    <3> USE DEF rest
    <3>3. {j \in P : j < least} \subseteq before
      <4>1. ASSUME NEW j \in P, j < least PROVE j \in before
        <5>1. j \notin P \ before
          <6> HIDE DEF before
          <6> QED BY <1>1, <3>2, <4>1
        <5> QED BY <4>1, <5>1
      <4> QED BY <4>1
    <3>4. Cardinality({j \in P : j < least}) <= Cardinality(before)
      BY <1>2, <3>3, FS_Subset
    <3>5. /\ Offset(log, least) = Cardinality({j \in P : j < least})
          /\ Offset(log, least) \in Nat
          /\ ~(Offset(log, least) < n)
      BY <1>1, <3>2
    <3> HIDE DEF before
    <3> QED BY <1>2, <3>4, <3>5
  <2> QED BY <2>1, <2>2
<1> QED BY <1>2, <1>3 DEF P

(* What a client counts from an answer never leads past the end.           *)
LEMMA CountedRight ==
  ASSUME NEW S, NEW log \in Seq(S), NEW p, NEW n \in Nat,
         n <= Cardinality(Stored(log, p))
  PROVE  LET rest == {i \in Stored(log, p) : Offset(log, i) >= n}
         IN  /\ Cardinality(rest) \in Nat
             /\ n + Cardinality(rest) <= Cardinality(Stored(log, p))
<1> DEFINE P == Stored(log, p)
           before == {i \in P : Offset(log, i) < n}
           rest == {i \in P : Offset(log, i) >= n}
<1>1. /\ IsFiniteSet(P) /\ Cardinality(P) \in Nat
      /\ \A i \in P : Offset(log, i) \in Nat
  BY PlacesProperties
<1>2. IsFiniteSet(before) /\ Cardinality(before) \in Nat /\ n <= Cardinality(before)
  BY EnoughBefore
<1> HIDE DEF P
<1>3. IsFiniteSet(rest) /\ Cardinality(rest) \in Nat
  BY <1>1, FS_Subset, FS_CardinalityType
<1>4. before \cup rest = P /\ before \cap rest = {}
  BY <1>1
<1>5. Cardinality(P) = Cardinality(before) + Cardinality(rest)
  <2>1. Cardinality(before \cup rest)
          = Cardinality(before) + Cardinality(rest) - Cardinality(before \cap rest)
    <3> HIDE DEF before, rest
    <3> QED BY <1>2, <1>3, FS_Union
  <2>2. Cardinality({}) = 0
    BY FS_EmptySet
  <2>3. Cardinality(P) = Cardinality(before) + Cardinality(rest) - 0
    <3> HIDE DEF before, rest
    <3> QED BY <1>4, <2>1, <2>2, Zenon
  <2> HIDE DEF before, rest
  <2> QED BY <1>2, <1>3, <2>3
<1>6. n + Cardinality(rest) <= Cardinality(P)
  <2> HIDE DEF before, rest
  <2> QED BY <1>1, <1>2, <1>3, <1>5
<1> QED BY <1>3, <1>6 DEF P

(* A log that begins with another one. *)
Extends(more, log) ==
  Len(log) <= Len(more) /\ \A i \in 1..Len(log) : more[i] = log[i]

(* What is covered stays so when the log goes on and the group gets more.  *)
LEMMA CoveredGrows ==
  ASSUME NEW S, NEW log \in Seq(S), NEW more \in Seq(S), Extends(more, log),
         NEW p, NEW n \in Nat, NEW got, NEW gotMore, got \subseteq gotMore,
         Covered(log, p, n, got)
  PROVE  Covered(more, p, n, gotMore)
<1> DEFINE P == Stored(log, p)
           Q == Stored(more, p)
<1>1. /\ P \subseteq 1..Len(log) /\ Q \subseteq 1..Len(more)
      /\ IsFiniteSet(P) /\ IsFiniteSet(Q)
      /\ Cardinality(P) \in Nat /\ Cardinality(Q) \in Nat
      /\ \A i \in P : Offset(log, i) = Cardinality({j \in P : j < i})
      /\ \A i \in Q : Offset(more, i) = Cardinality({j \in Q : j < i})
                      /\ Offset(more, i) \in Nat
  BY PlacesProperties
<1>2. /\ Len(log) \in Nat /\ Len(log) <= Len(more)
      /\ \A i \in 1..Len(log) : more[i] = log[i]
  BY DEF Extends
<1>3. P = {i \in Q : i <= Len(log)}
  BY <1>1, <1>2 DEF Stored
<1> HIDE DEF P, Q
<1>4. n <= Cardinality(Q)
  <2>1. Cardinality(P) <= Cardinality(Q)
    BY <1>1, <1>3, FS_Subset
  <2>2. n <= Cardinality(P)
    BY DEF Covered, P
  <2> QED BY <1>1, <2>1, <2>2
<1>5. ASSUME NEW i \in Q, Offset(more, i) < n
      PROVE  more[i].id \in gotMore
  <2>1. CASE i \in P
    <3>1. {j \in Q : j < i} = {j \in P : j < i}
      <4>1. i \in Nat /\ i <= Len(log) /\ \A j \in Q : j \in Nat
        BY <1>1, <1>2, <1>3, <2>1
      <4>2. ASSUME NEW j \in Q, j < i PROVE j \in P
        BY <1>2, <1>3, <4>1, <4>2
      <4> QED BY <1>3, <4>2
    <3>2. Offset(log, i) < n
      BY <1>1, <1>5, <2>1, <3>1
    <3>3. log[i].id \in got
      BY <2>1, <3>2 DEF Covered, P
    <3>4. more[i] = log[i]
      BY <1>1, <1>2, <2>1
    <3> QED BY <3>3, <3>4
  <2>2. CASE i \notin P
    <3>1. P \subseteq {j \in Q : j < i}
      BY <1>1, <1>2, <1>3, <2>2
    <3> DEFINE earlier == {j \in Q : j < i}
    <3>2. IsFiniteSet(earlier) /\ Cardinality(earlier) \in Nat
      BY <1>1, FS_Subset, FS_CardinalityType
    <3>3. Offset(more, i) = Cardinality(earlier)
      BY <1>1
    <3> HIDE DEF earlier
    <3>4. Cardinality(P) <= Cardinality(earlier)
      BY <3>1, <3>2, FS_Subset DEF earlier
    <3>5. n <= Cardinality(P)
      BY DEF Covered, P
    <3> QED BY <1>1, <1>5, <3>2, <3>3, <3>4, <3>5
  <2> QED BY <2>1, <2>2
<1> QED BY <1>4, <1>5 DEF Covered, Q

(* After an answer is read everything before the new offset was given to   *)
(* the group.                                                              *)
LEMMA CoveredAnswer ==
  ASSUME NEW S, NEW log \in Seq(S), NEW p, NEW n \in Nat, NEW got,
         Covered(log, p, n, got)
  PROVE  LET rest == {i \in Stored(log, p) : Offset(log, i) >= n}
         IN  /\ n + Cardinality(rest) \in Nat
             /\ Covered(log, p, n + Cardinality(rest), got \cup {log[i].id : i \in rest})
<1> DEFINE rest == {i \in Stored(log, p) : Offset(log, i) >= n}
<1>1. /\ Cardinality(rest) \in Nat
      /\ n + Cardinality(rest) <= Cardinality(Stored(log, p))
  BY CountedRight DEF Covered
<1>2. ASSUME NEW i \in Stored(log, p) PROVE log[i].id \in got \cup {log[j].id : j \in rest}
  <2>1. Offset(log, i) \in Nat
    BY PlacesProperties
  <2>2. CASE Offset(log, i) < n
    BY <2>2 DEF Covered
  <2>3. CASE Offset(log, i) >= n
    BY <2>3
  <2> QED BY <2>1, <2>2, <2>3
<1> QED BY <1>1, <1>2 DEF Covered

-----------------------------------------------------------------------------
(* The offsets and the consumers *)

O == INSTANCE OffsetManagerProofs WITH
  Threads <- Consumers, Offsets <- Nat,
  pc <- commitPc, file <- offsetFile, failed <- commitFailed

(* The constants are as the offset manager assumes them.                   *)
LEMMA OffsetConstants == O!OffsetAssumption
BY ServerAssumption DEF O!OffsetAssumption, O!Name, O!IsTable

(* The types of what a client keeps; it has a pair as long as it is busy.  *)
ConsumerInv ==
  /\ at \in [Consumers -> {"idle", "fetch", "collect", "commit"}]
  /\ reads \in [Consumers -> Pairs \cup {NoPair}]
  /\ pos \in [Consumers -> Nat]
  /\ delivered \in [Groups -> SUBSET Ids]
  /\ \A c \in Consumers : at[c] # "idle" => reads[c] \in Pairs

(* Texts are the same in the terms of the proofs.                          *)
LEMMA SameTexts ==
  /\ Commits!FirstOrder = O!FirstOrder
  /\ Commits!NoOffsets = O!NoOffsets
  /\ Commits!NoText = O!NoText
  /\ \A f, o : Commits!Text(f, o) = O!Text(f, o)
  /\ \A x : Commits!IsText(x) <=> O!IsText(x)
  /\ \A x : Commits!Filled(x) = O!Filled(x)
<1>1. Commits!FirstOrder = O!FirstOrder /\ Commits!NoOffsets = O!NoOffsets
  BY DEF Commits!FirstOrder, O!FirstOrder, Commits!NoOffsets, O!NoOffsets
<1>2. \A f, o : Commits!Text(f, o) = O!Text(f, o)
  BY <1>1 DEF Commits!Text, O!Text
<1>3. Commits!NoText = O!NoText
  BY <1>1, <1>2 DEF Commits!NoText, O!NoText
<1>4. \A x : Commits!IsText(x) <=> O!IsText(x)
  BY DEF Commits!IsText, O!IsText, Commits!IsTable, O!IsTable, Commits!Name, O!Name
<1>5. \A x : Commits!Filled(x) = O!Filled(x)
  BY DEF Commits!Filled, O!Filled, Commits!Place, O!Place
<1> QED BY <1>1, <1>2, <1>3, <1>4, <1>5

(* So is the file.                                                         *)
LEMMA SameFiles ==
  /\ Commits!NoFile = O!NoFile
  /\ Commits!Readable <=> O!Readable
  /\ Commits!Spliced <=> O!Spliced
  /\ Commits!Content = O!Content
<1>1. Commits!NoFile = O!NoFile
  BY DEF Commits!NoFile, O!NoFile
<1>2. Commits!Full <=> O!Full
  BY <1>1 DEF Commits!Full, O!Full, Commits!Place, O!Place
<1>3. Commits!Readable <=> O!Readable
  BY <1>2 DEF Commits!Readable, O!Readable, Commits!Place, O!Place
<1> QED BY <1>1, <1>2, <1>3
        DEF Commits!Spliced, O!Spliced, Commits!Content, O!Content

(* A step of a commit is one in the terms of the proofs.                   *)
LEMMA CommitSteps ==
  ASSUME NEW c \in Consumers
  PROVE  /\ \A p, n : Commits!Insert(c, p, n) <=> O!Insert(c, p, n)
         /\ Commits!Encode(c) <=> O!Encode(c)
         /\ Commits!Truncate(c) <=> O!Truncate(c)
         /\ Commits!WritePart(c) <=> O!WritePart(c)
         /\ Commits!Write(c) <=> O!Write(c)
         /\ Commits!WriteFails(c) <=> O!WriteFails(c)
<1> USE DEF Commits!Goto, O!Goto, Commits!Reads, O!Reads, Commits!EndCommit,
            O!EndCommit, Commits!Encodings, O!Encodings, Commits!Key, O!Key,
            Commits!fileVars, O!fileVars, Commits!Put, O!Put, Commits!Place, O!Place,
            Commits!Blank, O!Blank
<1> USE SameTexts
<1>1. \A p, n : Commits!Insert(c, p, n) <=> O!Insert(c, p, n)
  BY DEF Commits!Insert, O!Insert
<1>2. Commits!Encode(c) <=> O!Encode(c)
  BY DEF Commits!Encode, O!Encode
<1>3. Commits!Truncate(c) <=> O!Truncate(c)
  BY DEF Commits!Truncate, O!Truncate
<1>4. Commits!Write(c) <=> O!Write(c)
  BY DEF Commits!Write, O!Write
<1>6. Commits!WritePart(c) <=> O!WritePart(c)
  BY DEF Commits!WritePart, O!WritePart
<1>5. Commits!WriteFails(c) <=> O!WriteFails(c)
  BY DEF Commits!WriteFails, O!WriteFails
<1> QED BY <1>1, <1>2, <1>3, <1>4, <1>5, <1>6

(* So is what happens to the file at start-up.                             *)
LEMMA OffsetStart ==
  /\ Commits!Crash <=> O!Crash
  /\ Commits!Recover <=> O!Recover
  /\ Commits!RecoverPanics <=> O!RecoverPanics
<1>1. Commits!Crash <=> O!Crash
  BY DEF Commits!Crash, O!Crash, Commits!fileVars, O!fileVars
<1>2. Commits!Recover <=> O!Recover
  <2>1. \A f : Commits!Decodings(f) = O!Decodings(f)
    BY DEF Commits!Decodings, O!Decodings, Commits!Split, O!Split
  <2>2. Commits!Restart <=> O!Restart
    BY SameTexts DEF Commits!Restart, O!Restart
  <2> QED BY <2>1, <2>2, SameTexts, SameFiles DEF Commits!Recover, O!Recover
<1>3. Commits!RecoverPanics <=> O!RecoverPanics
  BY SameFiles DEF Commits!RecoverPanics, O!RecoverPanics, Commits!Blank, O!Blank,
                   Commits!Place, O!Place
<1> QED BY <1>1, <1>2, <1>3

(* Kinds of steps, by what they do to the offsets and to the consumers:    *)
(* none of these but the first concerns either.                            *)
LEMMA ConsumerSteps ==
  ASSUME [Next]_vars
  PROVE  \/ UNCHANGED <<up, offsetVars, consumerVars>>
         \/ \E c \in Consumers :
              \/ \E p \in Pairs : AskPosition(c, p)
              \/ LookUp(c) \/ ReadAnswer(c) \/ ReadMixed(c) \/ RefuseText(c) \/ Leave(c)
              \/ Commit(c) \/ ContinueCommit(c)
         \/ Crash \/ Start
         \/ Commits!RecoverPanics /\ UNCHANGED consumerVars
<1>1. ASSUME NEW t \in Threads, NEW id \in Ids, NEW p \in Topics,
             NEW payload \in Schemas \cup {Raw}, Produce(t, id, p, payload)
      PROVE  UNCHANGED <<up, offsetVars, consumerVars>>
  BY <1>1 DEF Produce, Records!Produce
<1>2. ASSUME NEW t \in Threads, LockRecords(t) \/ Continue(t)
      PROVE  UNCHANGED <<up, offsetVars, consumerVars>>
  BY <1>2 DEF LockRecords, Continue, Records!Continue
<1>3. ASSUME NEW p \in Topics, NEW schema \in Schemas \cup {NoSchema},
             CreateTopic(p, schema)
      PROVE  UNCHANGED <<up, offsetVars, consumerVars>>
  BY <1>3 DEF CreateTopic, Records!Create
<1>4. CASE StartPanics \/ UNCHANGED vars
  BY <1>4 DEF StartPanics, vars
<1>5. CASE Waiting
  BY <1>5 DEF Waiting, Records!Waiting
<1>6. CASE Abandon
  BY <1>6 DEF Abandon, EndFetch
<1> QED BY <1>1, <1>2, <1>3, <1>4, <1>5, <1>6 DEF Next, Read, Handle

(* Whatever the clients do, the offset manager makes steps of its own.     *)
LEMMA StepOfOffsets == ConsumerInv /\ [Next]_vars => [O!Next]_(O!vars)
<1> SUFFICES ASSUME ConsumerInv, [Next]_vars PROVE [O!Next]_(O!vars)
  OBVIOUS
<1>1. ASSUME UNCHANGED <<up, offsetVars>> PROVE UNCHANGED O!vars
  BY <1>1 DEF offsetVars, O!vars, O!fileVars
<1>2. ASSUME NEW c \in Consumers,
             \/ \E p \in Pairs : AskPosition(c, p)
             \/ LookUp(c) \/ ReadAnswer(c) \/ ReadMixed(c) \/ RefuseText(c) \/ Leave(c)
      PROVE  UNCHANGED <<up, offsetVars>>
  BY <1>2 DEF AskPosition, LookUp, ReadAnswer, ReadMixed, RefuseText, Leave, EndFetch
<1>3. ASSUME NEW c \in Consumers, Commit(c) PROVE O!Next
  <2>1. reads[c] \in Groups \X Topics /\ pos[c] \in Nat
    BY <1>3 DEF Commit, ConsumerInv, Pairs
  <2>2. O!Insert(c, reads[c], pos[c])
    BY <1>3, CommitSteps DEF Commit
  <2> QED BY <2>1, <2>2 DEF O!Next
<1>4. ASSUME NEW c \in Consumers, ContinueCommit(c) PROVE O!Next
  BY <1>4, CommitSteps DEF ContinueCommit, Commits!Step, O!Step, O!Next
<1>5. CASE Crash \/ Start \/ Commits!RecoverPanics
  BY <1>5, OffsetStart DEF Crash, Start, O!Next
<1> QED BY <1>1, <1>2, <1>3, <1>4, <1>5, ConsumerSteps

(* What a client keeps has its type again after each of its steps.         *)
LEMMA KeepTypes ==
  ASSUME ConsumerInv, NEW c \in Consumers, NEW l \in {"idle", "fetch", "collect", "commit"},
         NEW p, p \in Pairs \/ (p = NoPair /\ l = "idle"), NEW n \in Nat, Keep(c, l, p, n),
         delivered' \in [Groups -> SUBSET Ids]
  PROVE  ConsumerInv'
<1>1. /\ at' \in [Consumers -> {"idle", "fetch", "collect", "commit"}]
      /\ reads' \in [Consumers -> Pairs \cup {NoPair}]
      /\ pos' \in [Consumers -> Nat]
  BY DEF Keep, ConsumerInv
<1>2. ASSUME NEW d \in Consumers, at'[d] # "idle" PROVE reads'[d] \in Pairs
  <2>1. CASE d = c
    BY <1>2, <2>1 DEF Keep, ConsumerInv
  <2>2. CASE d # c
    BY <1>2, <2>2 DEF Keep, ConsumerInv
  <2> QED BY <2>1, <2>2
<1> QED BY <1>1, <1>2 DEF ConsumerInv

(* The storage, and what consumers can fetch, are sequences of records.    *)
LogTyped ==
  /\ backend \in Seq(T!StoredRecord)
  /\ T!Published \in Seq(T!StoredRecord)
  /\ T!Logged \in Seq(T!StoredRecord)

LEMMA LogTypes == T!ServerInv => LogTyped
<1> SUFFICES ASSUME T!ServerInv PROVE LogTyped
  OBVIOUS
<1>1. T!Wal!TypeOK /\ file \in Seq(T!StoredRecord) /\ T!Logged \in Seq(T!StoredRecord)
  BY TopicConstants, T!WalTypes DEF T!ServerInv
<1>2. backend \in Seq(T!StoredRecord)
  BY <1>1 DEF T!Wal!TypeOK
<1> QED BY <1>1, <1>2 DEF LogTyped, T!Published

(* No step of the server breaks the types of the consumers.                *)
LEMMA ConsumerNext ==
  T!ServerInv /\ O!IInv /\ ConsumerInv /\ [Next]_vars => ConsumerInv'
<1> SUFFICES ASSUME T!ServerInv, O!IInv, ConsumerInv, [Next]_vars PROVE ConsumerInv'
  OBVIOUS
<1>1. backend \in Seq(T!StoredRecord)
  BY LogTypes DEF LogTyped
<1>2. ASSUME NEW c \in Consumers, NEW p \in Pairs, AskPosition(c, p) PROVE ConsumerInv'
  <2>1. Commits!GetOffset(offsets, p) \in Nat
    BY DEF Commits!GetOffset, O!IInv, O!TypeInv, O!IsMap
  <2>2. Keep(c, "fetch", p, Commits!GetOffset(offsets, p)) /\ delivered' = delivered
    BY <1>2 DEF AskPosition
  <2> QED BY <2>1, <2>2, KeepTypes DEF ConsumerInv
<1>3. ASSUME NEW c \in Consumers, at[c] # "idle"
      PROVE  /\ reads[c] \in Pairs
             /\ Answer(c) \subseteq DOMAIN backend
             /\ pos[c] + Cardinality(Answer(c)) \in Nat
  <2>1. reads[c] \in Pairs /\ pos[c] \in Nat
    BY <1>3 DEF ConsumerInv
  <2>2. Answer(c) \subseteq Stored(backend, reads[c][2])
    BY DEF Answer
  <2>3. Cardinality(Answer(c)) \in Nat
    BY <1>1, <2>2, PlacesProperties, FS_Subset, FS_CardinalityType
  <2> QED BY <2>1, <2>2, <2>3 DEF Stored
<1>4. ASSUME NEW c \in Consumers, NEW S \in SUBSET DOMAIN backend, reads[c] \in Pairs,
             Receive(c, S)
      PROVE  delivered' \in [Groups -> SUBSET Ids]
  <2>1. {backend[i].id : i \in S} \subseteq Ids
    <3>1. ASSUME NEW i \in S PROVE backend[i] \in T!StoredRecord
      BY <1>1, ElementOfSeq
    <3> QED BY <3>1 DEF T!StoredRecord
  <2> QED BY <1>4, <2>1 DEF Receive, ConsumerInv, Pairs
<1>5. ASSUME NEW c \in Consumers, ReadAnswer(c) PROVE ConsumerInv'
  <2>1. Keep(c, "commit", reads[c], pos[c] + Cardinality(Answer(c)))
    BY <1>5 DEF ReadAnswer
  <2>2. delivered' \in [Groups -> SUBSET Ids]
    BY <1>3, <1>4, <1>5 DEF ReadAnswer
  <2> QED BY <1>3, <1>5, <2>1, <2>2, KeepTypes DEF ReadAnswer
<1>6. ASSUME NEW c \in Consumers, ReadMixed(c) PROVE ConsumerInv'
  <2>1. Keep(c, "idle", NoPair, 0)
    BY <1>6 DEF ReadMixed
  <2>2. delivered' \in [Groups -> SUBSET Ids]
    BY <1>3, <1>4, <1>6 DEF ReadMixed, Texts
  <2> QED BY <2>1, <2>2, KeepTypes
<1>7. ASSUME NEW c \in Consumers, RefuseText(c) \/ Leave(c) PROVE ConsumerInv'
  <2>1. Keep(c, "idle", NoPair, 0) /\ delivered' = delivered
    BY <1>7 DEF RefuseText, Leave
  <2> QED BY <2>1, KeepTypes DEF ConsumerInv
<1>8. ASSUME NEW c \in Consumers, Commit(c) PROVE ConsumerInv'
  <2>1. Keep(c, "fetch", reads[c], pos[c]) /\ delivered' = delivered /\ reads[c] \in Pairs
    BY <1>8 DEF Commit, ConsumerInv
  <2> QED BY <2>1, KeepTypes DEF ConsumerInv
<1>9. ASSUME UNCHANGED consumerVars PROVE ConsumerInv'
  BY <1>9 DEF consumerVars, ConsumerInv
<1>10. CASE Crash
  BY <1>10 DEF Crash, ConsumerInv
<1>11. ASSUME NEW c \in Consumers, LookUp(c) PROVE ConsumerInv'
  <2>1. Keep(c, "collect", reads[c], pos[c]) /\ delivered' = delivered /\ reads[c] \in Pairs
    BY <1>11 DEF LookUp, ConsumerInv
  <2> QED BY <2>1, KeepTypes DEF ConsumerInv
<1> QED BY <1>2, <1>5, <1>6, <1>7, <1>8, <1>9, <1>10, <1>11, ConsumerSteps
        DEF ContinueCommit, Start

(* All three are kept together: an offset that is asked for is a number    *)
(* because the map has its type, and the map has it because clients commit *)
(* numbers.                                                                *)
LEMMA TypesAlways == Spec => [](T!ServerInv /\ O!IInv /\ ConsumerInv)
<1>1. Spec => []T!ServerInv
  BY TopicConstants, RunsTopics, T!ServerAlways, PTL
<1>2. Init => O!IInv /\ ConsumerInv
  <2> SUFFICES ASSUME Init PROVE O!IInv /\ ConsumerInv
    OBVIOUS
  <2>1. O!Init
    BY SameTexts, SameFiles DEF Init, Commits!Init, O!Init
  <2> QED BY <2>1, OffsetConstants, O!IndInit DEF Init, ConsumerInv
<1>3. O!IInv /\ [O!Next]_(O!vars) => O!IInv'
  BY OffsetConstants, O!IndNext
<1> QED BY <1>1, <1>2, <1>3, StepOfOffsets, ConsumerNext, PTL DEF Spec

(* In the server the committed offsets behave as OffsetManager says: only  *)
(* a handler that calls it changes them, for a group and a topic there are *)
(* (src/kafka_api/offset_commit.rs:33-57, src/server.rs:244-255).          *)
THEOREM CommitsAsAlone == Spec => Commits!Spec
<1>1. Init => Commits!Init
  BY DEF Init
<1>2. ConsumerInv /\ [Next]_vars => [Commits!Next]_(Commits!vars)
  <2> SUFFICES ASSUME ConsumerInv, [Next]_vars PROVE [Commits!Next]_(Commits!vars)
    OBVIOUS
  <2>1. ASSUME UNCHANGED <<up, offsetVars>> PROVE UNCHANGED Commits!vars
    BY <2>1 DEF offsetVars, Commits!vars, Commits!fileVars
  <2>2. ASSUME NEW c \in Consumers, Commit(c) PROVE Commits!Next
    BY <2>2 DEF Commit, ConsumerInv, Pairs, Commits!Next
  <2>3. ASSUME NEW c \in Consumers, ContinueCommit(c) PROVE Commits!Next
    BY <2>3 DEF ContinueCommit, Commits!Next
  <2>4. CASE Crash \/ Start \/ Commits!RecoverPanics
    BY <2>4 DEF Crash, Start, Commits!Next
  <2> QED BY <2>1, <2>2, <2>3, <2>4, ConsumerSteps
          DEF AskPosition, LookUp, ReadAnswer, ReadMixed, RefuseText, Leave, EndFetch
<1> QED BY <1>1, <1>2, TypesAlways, PTL DEF Spec, Commits!Spec

(* The server runs the offset manager that the proofs are about.           *)
LEMMA RunsOffsets == Spec => O!Spec
<1>1. Init => O!Init
  BY SameTexts, SameFiles DEF Init, Commits!Init, O!Init
<1> QED BY <1>1, StepOfOffsets, TypesAlways, PTL DEF Spec, O!Spec

LocksTyped == recordsLocked \in BOOLEAN /\ indexLocked \in BOOLEAN

(* Every variable of the whole server has its type, at any number of       *)
(* producers, consumers and crashes.                                       *)
THEOREM TypeCorrect == Spec => []TypeOK
<1>1. T!Spec => []T!TypeOK
  BY TopicConstants, T!TypeCorrect
<1>2. T!TypeOK => Records!TypeOK
  BY DEF T!TypeOK, Records!TypeOK, T!Wal!TypeOK, Records!Wal!TypeOK, T!Wal!Location,
         Records!Wal!Location, T!Wal!HoldsFile, Records!Wal!HoldsFile, T!StoredRecord,
         Records!StoredRecord, T!Form, Records!Form
<1>3. O!Spec => []O!TypeOK
  BY OffsetConstants, O!TypeCorrect
<1>4. O!TypeOK => Commits!TypeOK
  BY SameTexts, SameFiles
     DEF O!TypeOK, Commits!TypeOK, O!Name, Commits!Name, O!Place, Commits!Place
<1>5. Spec => []LocksTyped
  <2>1. Init => LocksTyped
    BY DEF Init, LocksTyped
  <2>2. LocksTyped /\ [Next]_vars => LocksTyped'
    BY DEF LocksTyped, Next, Produce, LockRecords, Continue, CreateTopic, AskPosition,
           LookUp, Read, ReadAnswer, ReadMixed, RefuseText, EndFetch, Handle, Commit,
           ContinueCommit, Leave, Abandon, Crash, Start, StartPanics, Waiting, vars, lockVars
  <2> QED BY <2>1, <2>2, PTL DEF Spec
<1>6. Records!TypeOK /\ Commits!TypeOK /\ ConsumerInv /\ LocksTyped => TypeOK
  BY DEF TypeOK, ConsumerInv, LocksTyped
<1> QED BY <1>1, <1>2, <1>3, <1>4, <1>5, <1>6, RunsTopics, RunsOffsets, TypesAlways, PTL

(* In the whole server, too, a topic never mixes schemas, nor has text     *)
(* behind a batch, at any number of producers and whatever is created and  *)
(* recovered in between (src/topic_manager.rs:129-186).                    *)
THEOREM SchemasKeptApart == Spec => []Records!OneSchema
<1>1. T!Spec => []T!OneSchema
  BY TopicConstants, T!SchemasKeptApart
<1>2. T!OneSchema => Records!OneSchema
  BY DEF T!OneSchema, Records!OneSchema, T!Logged, Records!Logged, T!Pending, Records!Pending
<1> QED BY <1>1, <1>2, RunsTopics, PTL

(* In the whole server, too, a crash and the start after it keep every     *)
(* committed offset of a pair whose key in the file is its own, unless a   *)
(* commit failed since the file was truncated or the file is a splice of   *)
(* several texts, at any number of consumers and for any offset that a     *)
(* client computes (src/offset_manager.rs:41-64).                          *)
THEOREM CommitsKept == Spec => Commits!CommitsSurvive
<1>1. O!Spec => O!CommitsSurvive
  BY OffsetConstants, O!CommitsKept
<1>2. O!CommitsSurvive => Commits!CommitsSurvive
  <2>1. Commits!Settled = O!Settled /\ Commits!Distinct = O!Distinct
    BY DEF Commits!Settled, O!Settled, Commits!Distinct, O!Distinct, Commits!Key, O!Key,
           Commits!Split, O!Split
  <2>2. [~up /\ up' /\ ~commitFailed /\ ~O!Spliced =>
           \A p \in O!Settled \cap O!Distinct :
             O!GetOffset(offsets', p) = O!GetOffset(offsets, p)]_(O!vars)
        => [~up /\ up' /\ ~commitFailed /\ ~Commits!Spliced =>
              \A p \in Commits!Settled \cap Commits!Distinct :
                Commits!GetOffset(offsets', p) = Commits!GetOffset(offsets, p)]_(Commits!vars)
    BY <2>1, SameFiles DEF O!GetOffset, Commits!GetOffset, O!vars, Commits!vars,
                           O!fileVars, Commits!fileVars
  <2> QED BY <2>2, PTL DEF O!CommitsSurvive, Commits!CommitsSurvive
<1> QED BY <1>1, <1>2, RunsOffsets, PTL

-----------------------------------------------------------------------------
(* What is covered *)

(* The records that consumers can fetch are the first of the log; no step  *)
(* of a log that keeps what was fetched takes one of them back.            *)
LEMMA PublishedGrows ==
  ASSUME T!ServerInv, T!ServerInv', Extends(T!Logged, T!Published),
         [T!DurableLog!Next]_(T!DurableLog!logVars)
  PROVE  Extends(T!Published', T!Published) /\ Extends(T!Logged', T!Published')
<1> DEFINE log == T!Logged
           seen == T!Published
           m == Len(seen)
           n == Len(log)
<1>1. /\ log \in Seq(T!StoredRecord) /\ seen \in Seq(T!StoredRecord)
      /\ m \in Nat /\ n \in Nat /\ m <= n
      /\ \A i \in 1..m : log[i] = seen[i]
  BY LogTypes DEF LogTyped, Extends
<1> HIDE DEF log, seen, m, n
<1>2. ASSUME NEW r \in T!StoredRecord, log' = Append(log, r), seen' = seen
      PROVE  Extends(seen', seen) /\ Extends(log', seen')
  <2>1. Len(log') = n + 1 /\ \A i \in 1..n : log'[i] = log[i]
    BY <1>1, <1>2, AppendProperties DEF n
  <2> QED BY <1>1, <1>2, <2>1 DEF Extends, m
<1>3. ASSUME m < n, seen' = Append(seen, log[m + 1]), log' = log
      PROVE  Extends(seen', seen) /\ Extends(log', seen')
  <2>1. log[m + 1] \in T!StoredRecord
    BY <1>1, <1>3, ElementOfSeq DEF n
  <2>2. /\ Len(seen') = m + 1 /\ seen'[m + 1] = log[m + 1]
        /\ \A i \in 1..m : seen'[i] = seen[i]
    BY <1>1, <1>3, <2>1, AppendProperties DEF m
  <2>3. \A i \in 1..m + 1 : log[i] = seen'[i]
    BY <1>1, <2>2
  <2> QED BY <1>1, <1>3, <2>2, <2>3 DEF Extends, m, n
<1>4. ASSUME NEW k \in 0..n, m <= k, log' = SubSeq(log, 1, k), seen' = log'
      PROVE  Extends(seen', seen) /\ Extends(log', seen')
  <2>1. \A i \in 1..k : log[i] \in T!StoredRecord
    BY <1>1, <1>4, ElementOfSeq DEF n
  <2>2. Len(SubSeq(log, 1, k)) = k /\ \A i \in 1..k : SubSeq(log, 1, k)[i] = log[i]
    BY <1>1, <1>4, <2>1, SubSeqProperties
  <2>3. Len(seen') = k /\ \A i \in 1..k : seen'[i] = log[i]
    BY <1>4, <2>2
  <2> QED BY <1>1, <1>4, <2>3 DEF Extends, m
<1>5. ASSUME UNCHANGED <<log, seen>>
      PROVE  Extends(seen', seen) /\ Extends(log', seen')
  BY <1>1, <1>5 DEF Extends, m, n
<1>6. \/ \E r \in T!StoredRecord : log' = Append(log, r) /\ seen' = seen
      \/ m < n /\ seen' = Append(seen, log[m + 1]) /\ log' = log
      \/ \E k \in 0..n : m <= k /\ log' = SubSeq(log, 1, k) /\ seen' = log'
      \/ UNCHANGED <<log, seen>>
  BY DEF T!DurableLog!Next, T!DurableLog!Accept, T!DurableLog!Reveal, T!DurableLog!Lose,
         T!DurableLog!logVars, log, seen, m, n
<1>7. Extends(seen', seen) /\ Extends(log', seen')
  BY <1>2, <1>3, <1>4, <1>5, <1>6
<1> QED BY <1>7 DEF log, seen

(* The records of a pair up to offset n can be fetched after the next      *)
(* start, at the latest, and its group got them.                           *)
GotOf(log, got, p, n) == n \in Nat /\ Covered(log, p[2], n, got[p[1]])

Got(p, n) == GotOf(T!Published, delivered, p, n)

(* An offset is Got wherever it comes from and goes to: in a client, in    *)
(* the map, in a text that is about to be written, and in the file.        *)
ClientsCovered ==
  \A c \in Consumers :
    at[c] # "idle" /\ reads[c] \in O!Distinct => Got(reads[c], pos[c])

MapCovered == \A p \in O!Distinct \cap DOMAIN offsets : Got(p, offsets[p])

InText(x) == \A p \in O!Distinct : O!Key(p) \in DOMAIN x.entries => Got(p, x.entries[O!Key(p)])

TextsCovered == \A c \in Consumers : InText(json[c])

FileCovered == \A x \in O!Texts : InText(x)

CoverInv ==
  /\ Extends(T!Logged, T!Published)
  /\ ClientsCovered
  /\ MapCovered
  /\ TextsCovered
  /\ FileCovered

(* What a step does to what was delivered.                                 *)
LEMMA DeliveredGrows ==
  ASSUME ConsumerInv, [Next]_vars, NEW g \in Groups
  PROVE  delivered[g] \subseteq delivered'[g]
<1>1. ASSUME NEW c \in Consumers, NEW S, Receive(c, S)
      PROVE  delivered[g] \subseteq delivered'[g]
  BY <1>1 DEF Receive, ConsumerInv
<1> QED BY <1>1, ConsumerSteps
        DEF AskPosition, LookUp, ReadAnswer, ReadMixed, RefuseText, Leave, Commit,
            ContinueCommit, Crash, Start, consumerVars

(* What is Got stays so.                                                   *)
LEMMA GotStays ==
  ASSUME T!ServerInv, T!ServerInv', ConsumerInv, [Next]_vars,
         Extends(T!Published', T!Published),
         NEW p \in O!Distinct, NEW n, Got(p, n)
  PROVE  GotOf(T!Published', delivered', p, n)
<1>1. p[1] \in Groups /\ n \in Nat
  BY DEF O!Distinct, Got, GotOf
<1>2. delivered[p[1]] \subseteq delivered'[p[1]]
  BY <1>1, DeliveredGrows
<1> DEFINE log == T!Published
           more == T!Published'
           got == delivered[p[1]]
           gotMore == delivered'[p[1]]
<1>3. /\ log \in Seq(T!StoredRecord) /\ more \in Seq(T!StoredRecord)
      /\ Extends(more, log) /\ got \subseteq gotMore /\ Covered(log, p[2], n, got)
  <2>1. LogTyped /\ (T!ServerInv' => LogTyped')
    BY LogTypes, PTL
  <2> QED BY <1>2, <2>1 DEF LogTyped, Got, GotOf
<1> HIDE DEF log, more, got, gotMore
<1>4. Covered(more, p[2], n, gotMore)
  BY <1>1, <1>3, CoveredGrows
<1> QED BY <1>1, <1>4 DEF GotOf, more, gotMore

(* No step of the server breaks it: an offset comes only from where it is  *)
(* Got, or from an answer that makes it so.                                *)
LEMMA CoverNext ==
  /\ T!ServerInv /\ T!ServerInv' /\ O!IInv /\ ConsumerInv /\ CoverInv
  /\ (O!Spliced => Readings = {})
  /\ [T!DurableLog!Next]_(T!DurableLog!logVars)
  /\ [Next]_vars
  => CoverInv'
<1> SUFFICES ASSUME T!ServerInv, T!ServerInv', O!IInv, ConsumerInv, CoverInv,
                    O!Spliced => Readings = {},
                    [T!DurableLog!Next]_(T!DurableLog!logVars), [Next]_vars
             PROVE  CoverInv'
  OBVIOUS
<1> DEFINE Still(p, n) == GotOf(T!Published', delivered', p, n)
<1>1. Extends(T!Published', T!Published) /\ Extends(T!Logged', T!Published')
  BY PublishedGrows DEF CoverInv
<1>2. /\ \A p \in O!Distinct : \A n : Got(p, n) => Still(p, n)
      /\ \A p, n : Got(p, n)' <=> Still(p, n)
  BY <1>1, GotStays DEF Got
<1> DEFINE StillIn(x) ==
             \A p \in O!Distinct : O!Key(p) \in DOMAIN x.entries => Still(p, x.entries[O!Key(p)])
<1>3. \A x : InText(x) => StillIn(x)
  BY <1>2 DEF InText
<1>4. /\ (\A c \in Consumers : StillIn(json'[c])) => TextsCovered'
      /\ (\A x \in O!Texts' : StillIn(x)) => FileCovered'
  BY <1>2 DEF TextsCovered, FileCovered, InText, Got
<1> HIDE DEF StillIn
<1>5. ASSUME UNCHANGED <<at, reads, pos>> \/ (at' = [c \in Consumers |-> "idle"])
      PROVE  ClientsCovered'
  BY <1>2, <1>5 DEF CoverInv, ClientsCovered
<1>6. ASSUME offsets' = offsets PROVE MapCovered'
  BY <1>2, <1>6 DEF CoverInv, MapCovered
<1>7. ASSUME json' = json PROVE TextsCovered'
  BY <1>7, <1>3, <1>4 DEF CoverInv, TextsCovered
<1>8. ASSUME offsetFile' = offsetFile PROVE FileCovered'
  BY <1>8, <1>3, <1>4, O!SameFile, OffsetConstants DEF CoverInv, FileCovered
<1>9. ASSUME NEW c \in Consumers, NEW l, NEW p, NEW n,
             Keep(c, l, p, n), l # "idle" /\ p \in O!Distinct => Still(p, n)
      PROVE  ClientsCovered'
  <2>1. ASSUME NEW d \in Consumers, at'[d] # "idle", reads'[d] \in O!Distinct
        PROVE  Still(reads'[d], pos'[d])
    <3>1. CASE d = c
      <4>1. l # "idle" /\ reads'[d] = p /\ pos'[d] = n
        BY <1>9, <2>1, <3>1 DEF Keep, ConsumerInv
      <4> QED BY <1>9, <2>1, <4>1
    <3>2. CASE d # c
      <4>1. at'[d] = at[d] /\ reads'[d] = reads[d] /\ pos'[d] = pos[d]
        BY <1>9, <3>2 DEF Keep, ConsumerInv
      <4> QED BY <1>2, <2>1, <4>1 DEF CoverInv, ClientsCovered
    <3> QED BY <3>1, <3>2
  <2> QED BY <2>1 DEF ClientsCovered, Got
<1>10. ASSUME UNCHANGED offsetVars PROVE MapCovered' /\ TextsCovered' /\ FileCovered'
  BY <1>6, <1>7, <1>8, <1>10 DEF offsetVars
<1>11. ASSUME NEW c \in Consumers, NEW p \in Pairs, AskPosition(c, p)
      PROVE  ClientsCovered'
  <2> DEFINE n == Commits!GetOffset(offsets, p)
  <2>1. ASSUME p \in O!Distinct PROVE Got(p, n)
    <3>1. CASE p \in DOMAIN offsets
      BY <2>1, <3>1 DEF CoverInv, MapCovered, Commits!GetOffset
    <3>2. CASE p \notin DOMAIN offsets
      <4>1. n = 0
        BY <3>2 DEF Commits!GetOffset
      <4>2. \A i \in Stored(T!Published, p[2]) : Offset(T!Published, i) \in Nat
        BY LogTypes, PlacesProperties DEF LogTyped
      <4>3. Cardinality(Stored(T!Published, p[2])) \in Nat
        BY LogTypes, PlacesProperties DEF LogTyped
      <4> QED BY <4>1, <4>2, <4>3 DEF Got, GotOf, Covered
    <3> QED BY <3>1, <3>2
  <2>2. Keep(c, "fetch", p, n)
    BY <1>11 DEF AskPosition
  <2> HIDE DEF n
  <2> QED BY <1>2, <1>9, <2>1, <2>2
<1>12. ASSUME NEW c \in Consumers, ReadAnswer(c) PROVE ClientsCovered'
  <2> DEFINE g == reads[c][1]
             p == reads[c][2]
             places == Answer(c)
             n == pos[c] + Cardinality(places)
  <2>1. /\ up /\ up' /\ UNCHANGED backend /\ reads[c] \in Pairs
        /\ Keep(c, "commit", reads[c], n)
        /\ delivered'[g] = delivered[g] \cup {backend[i].id : i \in places}
    BY <1>12 DEF ReadAnswer, EndFetch, Receive, ConsumerInv, Pairs, topicVars
  <2>2. T!Published = backend /\ T!Published' = backend
    BY <2>1 DEF T!Published
  <2>3. ASSUME reads[c] \in O!Distinct PROVE Still(reads[c], n)
    <3>1. Got(reads[c], pos[c])
      BY <1>12, <2>3 DEF CoverInv, ClientsCovered, ReadAnswer
    <3>2. /\ backend \in Seq(T!StoredRecord) /\ pos[c] \in Nat
          /\ Covered(backend, p, pos[c], delivered[g])
      BY <2>2, <3>1, LogTypes DEF LogTyped, Got, GotOf
    <3>3. n \in Nat /\ Covered(backend, p, n, delivered[g] \cup {backend[i].id : i \in places})
      BY <3>2, CoveredAnswer DEF Answer
    <3> QED BY <2>1, <2>2, <3>3 DEF GotOf
  <2> HIDE DEF n
  <2> QED BY <1>9, <2>1, <2>3
<1>13. ASSUME NEW c \in Consumers, ReadMixed(c) \/ RefuseText(c) \/ Leave(c)
       PROVE  ClientsCovered'
  BY <1>9, <1>13 DEF ReadMixed, RefuseText, Leave
<1>14. ASSUME NEW c \in Consumers, LookUp(c) PROVE ClientsCovered'
  <2>1. Keep(c, "collect", reads[c], pos[c]) /\ at[c] = "fetch"
    BY <1>14 DEF LookUp
  <2>2. reads[c] \in O!Distinct => Still(reads[c], pos[c])
    BY <1>2, <2>1 DEF CoverInv, ClientsCovered
  <2> QED BY <1>9, <2>1, <2>2
<1>15. ASSUME NEW c \in Consumers, Commit(c)
       PROVE  ClientsCovered' /\ MapCovered' /\ TextsCovered' /\ FileCovered'
  <2>1. O!Insert(c, reads[c], pos[c]) /\ Keep(c, "fetch", reads[c], pos[c]) /\ at[c] = "commit"
    BY <1>15, CommitSteps DEF Commit
  <2>2. reads[c] \in O!Distinct => Got(reads[c], pos[c])
    BY <2>1 DEF CoverInv, ClientsCovered
  <2>3. ClientsCovered'
    BY <1>2, <1>9, <2>1, <2>2
  <2>4. MapCovered'
    BY <1>2, <2>1, <2>2 DEF CoverInv, MapCovered, O!Insert
  <2> QED BY <1>7, <1>8, <2>1, <2>3, <2>4 DEF O!Insert, O!fileVars
<1>16. ASSUME NEW c \in Consumers, ContinueCommit(c)
       PROVE  ClientsCovered' /\ MapCovered' /\ TextsCovered' /\ FileCovered'
  <2>1. O!Step(c)
    BY <1>16, CommitSteps DEF ContinueCommit, Commits!Step, O!Step
  <2>2. ClientsCovered' /\ MapCovered'
    <3>1. offsets' = offsets
      BY <2>1 DEF O!Step, O!Encode, O!Truncate, O!WritePart, O!Write, O!WriteFails
    <3> QED BY <1>5, <1>6, <1>16, <3>1 DEF ContinueCommit, consumerVars
  <2>3. json = [d \in Consumers |-> json[d]] /\ \A d \in Consumers : StillIn(json[d])
    BY <1>3 DEF O!IInv, O!TypeInv, CoverInv, TextsCovered
  <2>4. StillIn(O!NoText)
    BY OffsetConstants, O!NoOffsetsProperties, O!TextProperties, O!FirstIsOrder
       DEF O!NoText, StillIn
  <2>5. CASE O!Encode(c)
    <3>1. PICK f \in O!Encodings(offsets), o \in Orders :
            json' = [json EXCEPT ![c] = O!Text(f, o)]
      BY <2>5 DEF O!Encode
    <3>2. O!IsMap(offsets)
      BY DEF O!IInv, O!TypeInv
    <3>3. O!Text(f, o).entries = f
      BY <3>2, OffsetConstants, O!EncodingProperties, O!TextProperties
    <3>4. ASSUME NEW p \in O!Distinct, O!Key(p) \in DOMAIN f
          PROVE  p \in DOMAIN offsets /\ f[O!Key(p)] = offsets[p]
      <4>1. PICK q \in DOMAIN offsets : O!Key(q) = O!Key(p)
        BY <3>2, <3>4, OffsetConstants, O!EncodingProperties
      <4>2. q = p
        BY <3>2, <4>1, OffsetConstants, O!DistinctKey DEF O!IsMap
      <4> QED BY <3>2, <4>2, OffsetConstants, O!EncodingProperties
    <3>5. StillIn(O!Text(f, o))
      BY <1>2, <3>3, <3>4 DEF CoverInv, MapCovered, StillIn
    <3>6. \A d \in Consumers : json'[d] = IF d = c THEN O!Text(f, o) ELSE json[d]
      BY <2>3, <3>1
    <3>7. TextsCovered'
      BY <1>4, <2>3, <3>5, <3>6
    <3> QED BY <1>8, <2>2, <2>5, <3>7 DEF O!Encode, O!fileVars
  <2>6. CASE O!Truncate(c)
    <3>1. (offsetFile = O!Blank)'
      BY <2>6 DEF O!Truncate, O!Blank, O!Place
    <3>2. O!Texts' = {}
      BY <3>1, OffsetConstants, O!BlankProperties
    <3> QED BY <1>7, <1>4, <2>2, <2>6, <3>2 DEF O!Truncate
  <2>7. ASSUME NEW n \in O!Place, O!Put(c, n), commitPc[c] = "writing" PROVE FileCovered'
    <3>1. O!Texts' \subseteq O!Texts \cup {json[c]}
      BY <2>7, OffsetConstants, O!PutProperties
    <3>2. \A x \in O!Texts : StillIn(x)
      BY <1>3 DEF CoverInv, FileCovered
    <3> QED BY <1>4, <2>3, <3>1, <3>2
  <2>8. ASSUME O!EndCommit(c) PROVE TextsCovered'
    <3>1. \A d \in Consumers : json'[d] = IF d = c THEN O!NoText ELSE json[d]
      BY <2>3, <2>8 DEF O!EndCommit
    <3> QED BY <1>4, <2>3, <2>4, <3>1
  <2>9. CASE O!WritePart(c)
    <3>1. written[c] \in 0..Pieces - 1 /\ Pieces \in Nat \ {0}
      BY ServerAssumption DEF O!IInv, O!TypeInv
    <3>2. written[c] + 1..Pieces - 1 \subseteq O!Place
      BY <3>1 DEF O!Place
    <3> QED BY <1>7, <2>2, <2>7, <2>9, <3>2 DEF O!WritePart
  <2>10. CASE O!Write(c)
    <3>1. Pieces \in O!Place
      BY ServerAssumption DEF O!Place
    <3> QED BY <2>2, <2>7, <2>8, <2>10, <3>1 DEF O!Write
  <2>11. CASE O!WriteFails(c)
    BY <1>8, <2>2, <2>8, <2>11 DEF O!WriteFails
  <2> QED BY <2>1, <2>5, <2>6, <2>9, <2>10, <2>11 DEF O!Step
<1>17. CASE Crash
  BY <1>1, <1>5, <1>6, <1>7, <1>8, <1>17, OffsetStart
     DEF CoverInv, Crash, O!Crash, O!fileVars
<1>18. CASE Start
  <2>1. O!Recover /\ UNCHANGED consumerVars
    BY <1>18, OffsetStart DEF Start
  <2>2. \/ offsets' = O!NoOffsets /\ UNCHANGED offsetFile
        \/ O!Readable /\ offsets' \in O!Decodings(O!Content) /\ UNCHANGED offsetFile
    BY <2>1 DEF O!Recover
  <2>3. ClientsCovered' /\ FileCovered'
    BY <1>5, <1>8, <2>1, <2>2 DEF consumerVars
  <2>4. TextsCovered'
    <3>1. json' = [c \in Consumers |-> O!NoText]
      BY <2>1 DEF O!Recover, O!Restart
    <3>2. StillIn(O!NoText)
      BY OffsetConstants, O!NoOffsetsProperties, O!TextProperties, O!FirstIsOrder
       DEF O!NoText, StillIn
    <3> QED BY <1>4, <3>1, <3>2
  <2>5. MapCovered'
    <3>1. CASE offsets' = O!NoOffsets
      BY <3>1, OffsetConstants, O!NoOffsetsProperties DEF MapCovered
    <3>2. CASE O!Readable /\ offsets' \in O!Decodings(O!Content)
      <4>1. PICK x \in O!Texts : O!Content = x.entries
        BY <3>2, OffsetConstants, O!ReadableContent DEF O!IInv, O!TypeInv
      <4>2. O!IsTable(x.entries) /\ StillIn(x)
        BY <1>3 DEF O!IInv, O!TypeInv, O!IsText, CoverInv, FileCovered
      <4>3. \A p \in DOMAIN offsets' :
              O!Key(p) \in DOMAIN x.entries /\ x.entries[O!Key(p)] = offsets'[p]
        BY <3>2, <4>1, <4>2, OffsetConstants, O!DecodingProperties
      <4> QED BY <1>2, <4>2, <4>3 DEF MapCovered, StillIn
    <3> QED BY <2>2, <3>1, <3>2
  <2> QED BY <1>1, <2>3, <2>4, <2>5 DEF CoverInv
<1>19. CASE Commits!RecoverPanics /\ UNCHANGED consumerVars
  <2>1. O!RecoverPanics
    BY <1>19, OffsetStart
  <2>2. (offsetFile = O!Blank)'
    BY <2>1 DEF O!RecoverPanics, O!Blank, O!Place
  <2>3. FileCovered'
    <3>1. O!Texts' = {}
      BY <2>2, OffsetConstants, O!BlankProperties
    <3> QED BY <1>4, <3>1
  <2> QED BY <1>1, <1>5, <1>6, <1>7, <1>19, <2>1, <2>3
          DEF CoverInv, O!RecoverPanics, consumerVars
<1> QED BY <1>1, <1>5, <1>10, <1>11, <1>12, <1>13, <1>14, <1>15,
          <1>16, <1>17, <1>18, <1>19, ConsumerSteps
        DEF CoverInv, AskPosition, LookUp, ReadAnswer, ReadMixed, RefuseText, Leave,
            EndFetch, consumerVars

(* With one producer, and with any number of groups, topics and crashes,   *)
(* no offset that a group continues from lies behind a record that nobody  *)
(* in the group got, or behind the end of the log, although the log and    *)
(* the offsets are two files that are read back after a crash, each as it  *)
(* was left (src/server.rs:230-255).  If there are several consumers a     *)
(* splice of their texts must be refused at start-up, not read as another  *)
(* text.                                                                   *)
THEOREM NothingIsSkipped ==
  ASSUME \A t, u \in Threads : t = u,
         Readings = {} \/ \A c, d \in Consumers : c = d
  PROVE  Spec => []NothingSkipped
<1>1. T!Spec => T!DurableLog!Spec
  BY TopicConstants, T!SequentialDurability DEF T!FetchedSurvives
<1>2. Init => CoverInv
  <2> SUFFICES ASSUME Init PROVE CoverInv
    OBVIOUS
  <2>1. /\ DOMAIN offsets = {} /\ O!Texts = {}
        /\ \A c \in Consumers : at[c] = "idle" /\ DOMAIN json[c].entries = {}
    BY SameTexts, SameFiles, OffsetConstants, O!NoOffsetsProperties, O!TextProperties,
       O!FirstIsOrder
       DEF Init, Commits!Init, O!Texts, O!NoText
  <2>2. T!Logged = <<>> /\ T!Published = <<>>
    BY EmptySeq, ConcatEmptySeq
       DEF Init, Records!Init, Records!Wal!Init, T!Logged, T!Published
  <2>3. Extends(T!Logged, T!Published)
    <3>1. Len(<<>>) = 0
      BY EmptySeq
    <3> QED BY <2>2, <3>1 DEF Extends
  <2> QED BY <2>1, <2>3 DEF CoverInv, ClientsCovered, MapCovered, TextsCovered, FileCovered, InText
<1>3. Spec => [](O!Spliced => Readings = {})
  <2>1. CASE Readings = {}
    BY <2>1, PTL
  <2>2. CASE \A c, d \in Consumers : c = d
    <3>1. O!Spec => []~O!Spliced
      BY <2>2, OffsetConstants, O!AloneNoSplice
    <3> QED BY <3>1, RunsOffsets, PTL
  <2> QED BY <2>1, <2>2
<1>4. T!ServerInv /\ CoverInv => NothingSkipped
  <2> SUFFICES ASSUME T!ServerInv, CoverInv, up, NEW p \in Commits!Distinct
               PROVE  Covered(backend, p[2], Commits!GetOffset(offsets, p), delivered[p[1]])
    BY DEF NothingSkipped
  <2>1. p \in O!Distinct /\ T!Published = backend
    BY DEF Commits!Distinct, O!Distinct, Commits!Split, O!Split, Commits!Key, O!Key,
           T!Published
  <2>2. CASE p \in DOMAIN offsets
    BY <2>1, <2>2 DEF CoverInv, MapCovered, Got, GotOf, Commits!GetOffset
  <2>3. CASE p \notin DOMAIN offsets
    <3>1. /\ Cardinality(Stored(backend, p[2])) \in Nat
          /\ \A i \in Stored(backend, p[2]) : Offset(backend, i) \in Nat
      BY LogTypes, PlacesProperties DEF LogTyped
    <3>2. Commits!GetOffset(offsets, p) = 0
      BY <2>3 DEF Commits!GetOffset
    <3> QED BY <3>1, <3>2 DEF Covered
  <2> QED BY <2>2, <2>3
<1> QED BY <1>1, <1>2, <1>3, <1>4, RunsTopics, TypesAlways, CoverNext, PTL
        DEF Spec, T!DurableLog!Spec

=============================================================================
