------------------------ MODULE WriteAheadLogProofs ------------------------
(***************************************************************************)
(* Theorems about WriteAheadLog for every set of threads and records,      *)
(* every threshold, and whatever writes of the file fail.                  *)
(*                                                                         *)
(* Everything rests on one inductive invariant, TypeOK /\ LocksOK: who     *)
(* holds a lock is where the lock is held, which makes the critical        *)
(* sections exclusive, and the record a thread carries is a real one.      *)
(***************************************************************************)
EXTENDS WriteAheadLog, SequenceTheorems, TLAPS

-----------------------------------------------------------------------------
(* Sequences *)

(* Moving the head of a queue behind what precedes it changes nothing.     *)
LEMMA MoveHead ==
  ASSUME NEW S, NEW s \in Seq(S), NEW t \in Seq(S), t # <<>>
  PROVE  Append(s, Head(t)) \o Tail(t) = s \o t
<1>1. Head(t) \in S /\ Tail(t) \in Seq(S) /\ Len(Tail(t)) = Len(t) - 1
      /\ \A i \in 1..Len(Tail(t)) : Tail(t)[i] = t[i + 1]
  BY HeadTailProperties
<1>2. Len(t) \in Nat \ {0} /\ Len(s) \in Nat /\ Head(t) = t[1]
  BY EmptySeq, LenProperties
<1>3. Append(s, Head(t)) \in Seq(S) /\ Len(Append(s, Head(t))) = Len(s) + 1
      /\ \A i \in 1..Len(s) : Append(s, Head(t))[i] = s[i]
      /\ Append(s, Head(t))[Len(s) + 1] = Head(t)
  BY <1>1, AppendProperties
<1> DEFINE a == Append(s, Head(t)) \o Tail(t)
           b == s \o t
<1>4. a \in Seq(S) /\ Len(a) = Len(s) + 1 + Len(t) - 1
      /\ \A i \in 1..(Len(s) + 1 + Len(t) - 1) :
           a[i] = IF i <= Len(s) + 1 THEN Append(s, Head(t))[i]
                                     ELSE Tail(t)[i - (Len(s) + 1)]
  <2>1. Len(Append(s, Head(t))) + Len(Tail(t)) = Len(s) + 1 + Len(t) - 1
    BY <1>1, <1>2, <1>3
  <2> QED BY <2>1, <1>1, <1>3, ConcatProperties
<1>5. b \in Seq(S) /\ Len(b) = Len(s) + Len(t)
      /\ \A i \in 1..(Len(s) + Len(t)) :
           b[i] = IF i <= Len(s) THEN s[i] ELSE t[i - Len(s)]
  BY ConcatProperties
<1>6. Len(a) = Len(b)
  BY <1>2, <1>4, <1>5
<1>7. ASSUME NEW i \in 1..Len(a) PROVE a[i] = b[i]
  <2>1. CASE i <= Len(s)
    BY <2>1, <1>2, <1>3, <1>4, <1>5
  <2>2. CASE i = Len(s) + 1
    BY <2>2, <1>2, <1>3, <1>4, <1>5
  <2>3. CASE i > Len(s) + 1
    <3>1. i - (Len(s) + 1) \in 1..Len(Tail(t))
      BY <2>3, <1>1, <1>2, <1>4
    <3>2. Tail(t)[i - (Len(s) + 1)] = t[i - Len(s)]
      BY <3>1, <1>1, <1>2
    <3> QED BY <3>2, <2>3, <1>2, <1>4, <1>5
  <2> QED BY <2>1, <2>2, <2>3, <1>2
<1> QED BY <1>4, <1>5, <1>6, <1>7, SeqEqual

(* Appending to the second part appends to the whole.                      *)
LEMMA AppendToConcat ==
  ASSUME NEW S, NEW s \in Seq(S), NEW t \in Seq(S), NEW e \in S
  PROVE  s \o Append(t, e) = Append(s \o t, e)
<1>1. <<e>> \in Seq(S)
  OBVIOUS
<1>2. s \o t \in Seq(S)
  BY ConcatProperties
<1> QED BY <1>1, <1>2, AppendIsConcat, ConcatAssociative

-----------------------------------------------------------------------------
(* The locks *)

Carries == {"add", "spill", "direct", "push"}

(* Who holds a lock is where the lock is held; the threads that write have *)
(* a record; a write goes around the BufWriter only when that is empty.    *)
LocksOK ==
  \A t \in Threads :
    /\ fileLock = t <=> pc[t] \in HoldsFile
    /\ bufferLock = t <=> pc[t] = "draining"
    /\ pc[t] \in Carries <=> rec[t] \in Records
    /\ pc[t] = "direct" => unflushed = <<>>

LocksInv == TypeOK /\ LocksOK

(* It holds when the server starts ... *)
LEMMA LocksInit == Init => LocksInv
<1> SUFFICES ASSUME Init PROVE LocksInv
  OBVIOUS
<1>1. TypeOK
  BY EmptySeq DEF Init, TypeOK, Location
<1>2. LocksOK
  BY WalAssumption DEF Init, LocksOK, HoldsFile, Carries
<1> QED BY <1>1, <1>2 DEF LocksInv

(* ... and no step of any thread breaks it. *)
LEMMA LocksNext == LocksInv /\ [Next]_walVars => LocksInv'
<1> SUFFICES ASSUME LocksInv, [Next]_walVars PROVE LocksInv'
  OBVIOUS
<1> USE WalAssumption DEF LocksInv, TypeOK, LocksOK, Goto, Location, HoldsFile, Carries,
                          LockFile, fileVars, bufferVars
<1>1. CASE UNCHANGED walVars
  BY <1>1 DEF walVars
<1>2. ASSUME NEW t \in Threads, NEW r \in Records, Add(t, r) PROVE LocksInv'
  BY <1>2 DEF Add
<1>3. ASSUME NEW t \in Threads, WriteBuffered(t) PROVE LocksInv'
  BY <1>3, AppendProperties DEF WriteBuffered
<1>4. ASSUME NEW t \in Threads, MakeRoom(t) PROVE LocksInv'
  BY <1>4 DEF MakeRoom
<1>5. ASSUME NEW t \in Threads, RoomMade(t) PROVE LocksInv'
  <2>1. <<rec[t]>> \in Seq(Records)
    BY <1>5 DEF RoomMade
  <2> QED BY <2>1, <1>5 DEF RoomMade
<1>6. ASSUME NEW t \in Threads, GoAround(t) PROVE LocksInv'
  BY <1>6 DEF GoAround
<1>7. ASSUME NEW t \in Threads, WriteDirect(t) PROVE LocksInv'
  BY <1>7, AppendProperties DEF WriteDirect
<1>8. ASSUME NEW t \in Threads, Push(t) PROVE LocksInv'
  BY <1>8, AppendProperties DEF Push
<1>9. ASSUME NEW t \in Threads, NeedToFlush(t) PROVE LocksInv'
  BY <1>9 DEF NeedToFlush
<1>10. ASSUME NEW t \in Threads, StartFlush(t) PROVE LocksInv'
  BY <1>10 DEF StartFlush
<1>11. ASSUME NEW t \in Threads, FileFlushed(t) PROVE LocksInv'
  BY <1>11 DEF FileFlushed
<1>12. ASSUME NEW t \in Threads, StartDrain(t) PROVE LocksInv'
  BY <1>12 DEF StartDrain
<1>13. ASSUME NEW t \in Threads, Publish(t) PROVE LocksInv'
  BY <1>13, HeadTailProperties, AppendProperties DEF Publish
<1>14. ASSUME NEW t \in Threads, EndDrain(t) PROVE LocksInv'
  BY <1>14 DEF EndDrain
<1>15. ASSUME NEW t \in Threads, WritePart(t) PROVE LocksInv'
  BY <1>15 DEF WritePart, Emptying
<1>16. ASSUME NEW t \in Threads, WriteOne(t) PROVE LocksInv'
  BY <1>16, HeadTailProperties, AppendProperties DEF WriteOne, Emptying
<1>17. ASSUME NEW t \in Threads, WriteFails(t) PROVE LocksInv'
  BY <1>17 DEF WriteFails, Emptying
<1> QED
  BY <1>1, <1>2, <1>3, <1>4, <1>5, <1>6, <1>7, <1>8, <1>9, <1>10, <1>11, <1>12,
     <1>13, <1>14, <1>15, <1>16, <1>17 DEF Next, Step, Waiting

(* So it always holds. *)
LEMMA LocksAlways == Spec => []LocksInv
BY LocksInit, LocksNext, PTL DEF Spec

(* Every variable keeps its type, and no record is ever a missing one.     *)
THEOREM TypeCorrect == Spec => []TypeOK
BY LocksAlways, PTL DEF LocksInv

-----------------------------------------------------------------------------
(* The order of the file *)

LogInv == LocksInv /\ LogFollowsFile

(* At most one record is in the file and not in the queue, a real one. *)
LEMMA UnpushedType == LocksInv => Unpushed \in Seq(Records)
<1> SUFFICES ASSUME LocksInv PROVE Unpushed \in Seq(Records)
  OBVIOUS
<1>1. CASE fileLock # NoThread /\ pc[fileLock] = "push"
  <2>1. rec[fileLock] \in Records
    BY <1>1 DEF LocksInv, TypeOK, LocksOK, Carries
  <2> QED BY <1>1, <2>1 DEF Unpushed
<1>2. CASE ~(fileLock # NoThread /\ pc[fileLock] = "push")
  BY <1>2, EmptySeq DEF Unpushed
<1> QED BY <1>1, <1>2

(* Appending a record at the end of the file's side while it becomes the   *)
(* one that is not yet queued keeps the two sides equal.                   *)
LEMMA Written ==
  ASSUME LocksInv, LogFollowsFile, Unpushed = <<>>, NEW r \in Records
  PROVE  backend \o buffer \o <<r>> = Append(file \o unflushed, r)
<1>1. backend \in Seq(Records) /\ buffer \in Seq(Records)
      /\ backend \o buffer \in Seq(Records)
  BY ConcatProperties DEF LocksInv, TypeOK
<1>2. backend \o buffer \o <<>> = backend \o buffer
  BY <1>1, ConcatEmptySeq
<1>3. backend \o buffer = file \o unflushed
  BY <1>2 DEF LogFollowsFile
<1> QED BY <1>1, <1>3, AppendIsConcat

(* All of them are empty when the server starts. *)
LEMMA LogInit == Init => LogFollowsFile
BY DEF Init, LogFollowsFile, Unpushed

(* Each step moves a record within one of the two sides, from one place to *)
(* the next, or adds the same record to both.                              *)
LEMMA LogNext == LogInv /\ [Next]_walVars => LogFollowsFile'
<1> SUFFICES ASSUME LocksInv, LogFollowsFile, [Next]_walVars PROVE LogFollowsFile'
  BY DEF LogInv
<1> USE WalAssumption DEF Goto, LockFile, fileVars, bufferVars, HoldsFile, Carries
<1>a. TypeOK /\ LocksOK
  BY DEF LocksInv
<1>b. /\ file \in Seq(Records) /\ unflushed \in Seq(Records)
      /\ buffer \in Seq(Records) /\ backend \in Seq(Records)
      /\ Unpushed \in Seq(Records)
      /\ backend \o buffer \in Seq(Records)
  BY UnpushedType, ConcatProperties DEF LocksInv, TypeOK
<1>c. ASSUME NEW t \in Threads, fileLock = t, pc[t] # "push"
      PROVE  Unpushed = <<>>
  BY <1>c DEF Unpushed
<1>d. ASSUME fileLock = NoThread PROVE Unpushed = <<>>
  BY <1>d DEF Unpushed
(* A step that leaves both sides and the push under way alone. *)
<1>e. ASSUME UNCHANGED <<file, unflushed, buffer, backend>>, Unpushed' = Unpushed
      PROVE  LogFollowsFile'
  BY <1>e DEF LogFollowsFile
<1>1. CASE UNCHANGED walVars
  BY <1>1 DEF walVars, LogFollowsFile, Unpushed
<1>2. ASSUME NEW t \in Threads, NEW r \in Records, Add(t, r) PROVE LogFollowsFile'
  BY <1>2, <1>a, <1>e DEF Add, Unpushed, TypeOK, LocksOK
<1>3. ASSUME NEW t \in Threads, WriteBuffered(t) PROVE LogFollowsFile'
  <2>1. rec[t] \in Records /\ Unpushed = <<>>
    BY <1>3, <1>a, <1>d DEF WriteBuffered, LocksOK
  <2>2. Unpushed' = <<rec[t]>>
    BY <1>3, <1>a DEF WriteBuffered, Unpushed, TypeOK
  <2>3. (file \o unflushed)' = Append(file \o unflushed, rec[t])
    BY <1>3, <1>b, <2>1, AppendToConcat DEF WriteBuffered
  <2>4. backend \o buffer \o <<rec[t]>> = Append(file \o unflushed, rec[t])
    BY <2>1, Written
  <2> QED BY <1>3, <2>2, <2>3, <2>4 DEF WriteBuffered, LogFollowsFile
<1>4. ASSUME NEW t \in Threads, MakeRoom(t) PROVE LogFollowsFile'
  BY <1>4, <1>a, <1>e DEF MakeRoom, Unpushed, TypeOK
<1>5. ASSUME NEW t \in Threads, RoomMade(t) PROVE LogFollowsFile'
  <2>1. fileLock = t /\ rec[t] \in Records
    BY <1>5, <1>a DEF RoomMade, LocksOK
  <2>2. Unpushed = <<>>
    BY <2>1, <1>5, <1>c DEF RoomMade
  <2>3. CASE unflushed' = <<rec[t]>> /\ Goto(t, "push")
    <3>1. Unpushed' = <<rec[t]>>
      BY <1>5, <2>1, <2>3, <1>a DEF RoomMade, Unpushed, TypeOK
    <3>2. (file \o unflushed)' = Append(file \o unflushed, rec[t])
      <4>1. file \o unflushed = file
        BY <1>5, <1>b, ConcatEmptySeq DEF RoomMade
      <4> QED BY <4>1, <1>5, <2>1, <2>3, <1>b, AppendIsConcat DEF RoomMade
    <3>3. backend \o buffer \o <<rec[t]>> = Append(file \o unflushed, rec[t])
      BY <2>1, <2>2, Written
    <3> QED BY <1>5, <3>1, <3>2, <3>3 DEF RoomMade, LogFollowsFile
  <2>4. CASE UNCHANGED unflushed /\ Goto(t, "direct")
    <3>1. Unpushed' = <<>>
      BY <1>5, <2>1, <2>4, <1>a DEF RoomMade, Unpushed, TypeOK
    <3> QED BY <1>5, <2>2, <2>4, <3>1, <1>e DEF RoomMade
  <2> QED BY <1>5, <2>3, <2>4 DEF RoomMade
<1>6. ASSUME NEW t \in Threads, GoAround(t) PROVE LogFollowsFile'
  BY <1>6, <1>a, <1>e DEF GoAround, Unpushed, TypeOK
<1>7. ASSUME NEW t \in Threads, WriteDirect(t) PROVE LogFollowsFile'
  <2>1. fileLock = t /\ rec[t] \in Records /\ unflushed = <<>>
    BY <1>7, <1>a DEF WriteDirect, LocksOK
  <2>2. Unpushed = <<>>
    BY <2>1, <1>7, <1>c DEF WriteDirect
  <2>3. Unpushed' = <<rec[t]>>
    BY <1>7, <2>1, <1>a DEF WriteDirect, Unpushed, TypeOK
  <2>4. (file \o unflushed)' = Append(file \o unflushed, rec[t])
    <3>1. Append(file, rec[t]) \in Seq(Records)
      BY <2>1, <1>b, AppendProperties
    <3>2. (file \o unflushed)' = Append(file, rec[t])
      BY <3>1, <1>7, <2>1, ConcatEmptySeq DEF WriteDirect
    <3>3. file \o unflushed = file
      BY <2>1, <1>b, ConcatEmptySeq
    <3> QED BY <3>2, <3>3
  <2>5. backend \o buffer \o <<rec[t]>> = Append(file \o unflushed, rec[t])
    BY <2>1, <2>2, Written
  <2> QED BY <1>7, <2>3, <2>4, <2>5 DEF WriteDirect, LogFollowsFile
<1>8. ASSUME NEW t \in Threads, Push(t) PROVE LogFollowsFile'
  <2>1. fileLock = t /\ rec[t] \in Records
    BY <1>8, <1>a DEF Push, LocksOK
  <2>2. Unpushed = <<rec[t]>> /\ Unpushed' = <<>>
    BY <1>8, <2>1 DEF Push, Unpushed
  <2>3. (backend \o buffer)' = Append(backend \o buffer, rec[t])
    BY <1>8, <2>1, <1>b, AppendToConcat DEF Push
  <2>4. Append(backend \o buffer, rec[t]) = backend \o buffer \o <<rec[t]>>
    BY <2>1, <1>b, AppendIsConcat
  <2>5. (backend \o buffer)' \in Seq(Records)
    BY <2>1, <2>3, <1>b, AppendProperties
  <2>6. (backend \o buffer \o Unpushed)' = (backend \o buffer)'
    BY <2>2, <2>5, ConcatEmptySeq
  <2> QED BY <1>8, <2>2, <2>3, <2>4, <2>6 DEF Push, LogFollowsFile
<1>9. ASSUME NEW t \in Threads, NeedToFlush(t) PROVE LogFollowsFile'
  BY <1>9, <1>a, <1>e DEF NeedToFlush, Unpushed, TypeOK, LocksOK
<1>10. ASSUME NEW t \in Threads, StartFlush(t) PROVE LogFollowsFile'
  BY <1>10, <1>a, <1>e DEF StartFlush, Unpushed, TypeOK
<1>11. ASSUME NEW t \in Threads, FileFlushed(t) PROVE LogFollowsFile'
  BY <1>11, <1>a, <1>c, <1>e DEF FileFlushed, Unpushed, LocksOK
<1>12. ASSUME NEW t \in Threads, StartDrain(t) PROVE LogFollowsFile'
  BY <1>12, <1>a, <1>e DEF StartDrain, Unpushed, TypeOK, LocksOK
<1>13. ASSUME NEW t \in Threads, Publish(t) PROVE LogFollowsFile'
  <2>1. (backend \o buffer)' = backend \o buffer
    BY <1>13, <1>b, MoveHead DEF Publish
  <2>2. Unpushed' = Unpushed
    BY <1>13 DEF Publish, Unpushed
  <2> QED BY <1>13, <2>1, <2>2 DEF Publish, LogFollowsFile
<1>14. ASSUME NEW t \in Threads, EndDrain(t) PROVE LogFollowsFile'
  BY <1>14, <1>a, <1>e DEF EndDrain, Unpushed, TypeOK, LocksOK
<1>15. ASSUME NEW t \in Threads, WritePart(t) PROVE LogFollowsFile'
  BY <1>15, <1>e DEF WritePart, Unpushed
<1>16. ASSUME NEW t \in Threads, WriteOne(t) PROVE LogFollowsFile'
  <2>1. (file \o unflushed)' = file \o unflushed
    BY <1>16, <1>b, MoveHead DEF WriteOne, Emptying
  <2>2. Unpushed' = Unpushed
    BY <1>16 DEF WriteOne, Unpushed
  <2> QED BY <1>16, <2>1, <2>2 DEF WriteOne, LogFollowsFile
<1>17. ASSUME NEW t \in Threads, WriteFails(t) PROVE LogFollowsFile'
  <2>1. fileLock = t /\ pc[t] # "push"
    BY <1>17, <1>a DEF WriteFails, Emptying, LocksOK
  <2>2. Unpushed = <<>> /\ Unpushed' = <<>>
    BY <1>17, <2>1, <1>c DEF WriteFails, Unpushed
  <2> QED BY <1>17, <2>2, <1>e DEF WriteFails
<1> QED
  BY <1>1, <1>2, <1>3, <1>4, <1>5, <1>6, <1>7, <1>8, <1>9, <1>10, <1>11, <1>12,
     <1>13, <1>14, <1>15, <1>16, <1>17 DEF Next, Step, Waiting

(* So order is always kept. *)
LEMMA LogAlways == Spec => []LogInv
BY LocksInit, LocksNext, LogInit, LogNext, PTL DEF Spec, LogInv

(* What consumers can fetch, then what is queued, is what the file holds   *)
(* or will hold, record by record (wal.add and wal.flush, src/wal.rs).     *)
THEOREM OrderKept == Spec => []LogFollowsFile
BY LogAlways, PTL DEF LogInv

-----------------------------------------------------------------------------
(* The queue *)

OnTheWay == {"check", "flush", "flushing", "drain", "draining"}

(* A step that lengthens the queue puts its thread on the way; only the    *)
(* one that leaves the queue empty takes a thread off it.                  *)
LEMMA StrandedNext ==
  LocksInv /\ NoStrandedRecords /\ [Next]_walVars => NoStrandedRecords'
<1> SUFFICES ASSUME LocksInv, NoStrandedRecords, [Next]_walVars, ~failed',
                    (buffer # <<>> /\ Len(buffer) >= NumUncommitted)'
             PROVE  \E u \in Threads : pc'[u] \in OnTheWay
  BY DEF NoStrandedRecords, OnTheWay
<1> USE DEF Goto, LockFile, fileVars, bufferVars, OnTheWay
<1>a. pc \in [Threads -> Location]
  BY DEF LocksInv, TypeOK
<1>b. ASSUME UNCHANGED <<buffer, failed>>
      PROVE  \E u \in Threads : pc[u] \in OnTheWay
  BY <1>b DEF NoStrandedRecords
(* A step that neither queues a record nor leaves the way to the drain.    *)
<1>c. ASSUME NEW t \in Threads, NEW l, UNCHANGED <<buffer, failed>>, Goto(t, l),
             pc[t] \in OnTheWay => l \in OnTheWay
      PROVE  \E u \in Threads : pc'[u] \in OnTheWay
  BY <1>a, <1>b, <1>c
<1>1. CASE UNCHANGED <<pc, buffer, failed>>
  BY <1>1, <1>b
<1>2. ASSUME NEW t \in Threads, NEW r \in Records, Add(t, r)
      PROVE  \E u \in Threads : pc'[u] \in OnTheWay
  BY <1>2, <1>c DEF Add
<1>3. ASSUME NEW t \in Threads,
             \/ WriteBuffered(t) \/ MakeRoom(t) \/ RoomMade(t) \/ GoAround(t)
             \/ WriteDirect(t) \/ StartFlush(t) \/ FileFlushed(t) \/ StartDrain(t)
      PROVE  \E u \in Threads : pc'[u] \in OnTheWay
  BY <1>3, <1>c DEF WriteBuffered, MakeRoom, RoomMade, GoAround, WriteDirect,
                    StartFlush, FileFlushed, StartDrain
<1>4. ASSUME NEW t \in Threads, Push(t) PROVE \E u \in Threads : pc'[u] \in OnTheWay
  BY <1>4, <1>a DEF Push
<1>5. ASSUME NEW t \in Threads, NeedToFlush(t)
      PROVE  \E u \in Threads : pc'[u] \in OnTheWay
  <2>1. Goto(t, "flush")
    BY <1>5 DEF NeedToFlush
  <2> QED BY <1>5, <2>1, <1>c DEF NeedToFlush
<1>6. ASSUME NEW t \in Threads, Publish(t) PROVE \E u \in Threads : pc'[u] \in OnTheWay
  BY <1>6 DEF Publish
<1>7. ASSUME NEW t \in Threads, EndDrain(t) PROVE FALSE
  BY <1>7 DEF EndDrain
<1>8. ASSUME NEW t \in Threads, WritePart(t) \/ WriteOne(t)
      PROVE  \E u \in Threads : pc'[u] \in OnTheWay
  BY <1>8, <1>b DEF WritePart, WriteOne
<1>9. ASSUME NEW t \in Threads, WriteFails(t) PROVE FALSE
  BY <1>9 DEF WriteFails
<1> QED
  BY <1>1, <1>2, <1>3, <1>4, <1>5, <1>6, <1>7, <1>8, <1>9 DEF Next, Step, Waiting, walVars

(* A queue that reached the threshold has a thread on its way to drain it, *)
(* unless a write failed since the last drain                              *)
(* (src/topic_manager.rs:160-163).                                         *)
THEOREM NothingStranded == Spec => []NoStrandedRecords
<1>1. Init => NoStrandedRecords
  BY DEF Init, NoStrandedRecords
<1> QED BY <1>1, LocksAlways, StrandedNext, PTL DEF Spec

-----------------------------------------------------------------------------
(* One producer *)

(* A drain starts with everything in the file, and one producer cannot     *)
(* write while it drains.                                                  *)
DrainAfterFlush ==
  /\ WriteAhead
  /\ \A t \in Threads : pc[t] \in {"drain", "draining"} => unflushed = <<>>

(* A prefix stays one when the longer sequence grows. *)
LEMMA PrefixOfLonger ==
  ASSUME NEW S, NEW s \in Seq(S), NEW t \in Seq(S), NEW e \in S, IsPrefix(s, t)
  PROVE  IsPrefix(s, Append(t, e))
<1>1. Append(t, e) \in Seq(S) /\ Len(Append(t, e)) = Len(t) + 1
      /\ \A i \in 1..Len(t) : Append(t, e)[i] = t[i]
  BY AppendProperties
<1>2. Len(s) \in Nat /\ Len(t) \in Nat /\ Len(s) <= Len(t)
  BY LenProperties DEF IsPrefix
<1>3. SubSeq(Append(t, e), 1, Len(s)) = SubSeq(t, 1, Len(s))
  BY <1>1, <1>2
<1> QED BY <1>1, <1>2, <1>3 DEF IsPrefix

(* The first of two parts is a prefix of the whole. *)
LEMMA PrefixOfConcat ==
  ASSUME NEW S, NEW s \in Seq(S), NEW t \in Seq(S)
  PROVE  IsPrefix(s, s \o t)
<1>1. Len(s) \in Nat /\ Len(t) \in Nat
  BY LenProperties
<1>2. s \o t \in Seq(S) /\ Len(s \o t) = Len(s) + Len(t)
      /\ \A i \in 1..Len(s) + Len(t) :
           (s \o t)[i] = IF i <= Len(s) THEN s[i] ELSE t[i - Len(s)]
  BY ConcatProperties
<1>3. SubSeq(s \o t, 1, Len(s)) = SubSeq(s, 1, Len(s))
  BY <1>1, <1>2
<1> QED BY <1>1, <1>2, <1>3 DEF IsPrefix

(* One producer's steps keep the file ahead of what is published. *)
LEMMA DrainNext ==
  ASSUME \A t, u \in Threads : t = u
  PROVE  LogInv /\ DrainAfterFlush /\ [Next]_walVars => DrainAfterFlush'
<1> SUFFICES ASSUME LogInv, DrainAfterFlush, [Next]_walVars PROVE DrainAfterFlush'
  OBVIOUS
<1> USE DEF Goto, LockFile, fileVars, bufferVars, DrainAfterFlush, WriteAhead
<1>a. TypeOK /\ LocksOK /\ LogFollowsFile
  BY DEF LogInv, LocksInv
<1>b. /\ file \in Seq(Records) /\ unflushed \in Seq(Records)
      /\ buffer \in Seq(Records) /\ backend \in Seq(Records)
      /\ pc \in [Threads -> Location]
  BY <1>a DEF TypeOK
<1>1. CASE UNCHANGED <<file, backend, unflushed, pc>>
  BY <1>1
<1>2. ASSUME NEW t \in Threads, NEW r \in Records, Add(t, r) PROVE DrainAfterFlush'
  BY <1>2, <1>b DEF Add
<1>3. ASSUME NEW t \in Threads, WriteBuffered(t) \/ RoomMade(t) PROVE DrainAfterFlush'
  BY <1>3, <1>b DEF WriteBuffered, RoomMade
<1>4. ASSUME NEW t \in Threads, WriteDirect(t) PROVE DrainAfterFlush'
  <2>1. rec[t] \in Records
    BY <1>4, <1>a DEF WriteDirect, LocksOK, Carries
  <2>2. IsPrefix(backend, Append(file, rec[t]))
    BY <2>1, <1>b, PrefixOfLonger
  <2> QED BY <2>2, <1>4, <1>b DEF WriteDirect
<1>5. ASSUME NEW t \in Threads,
             \/ MakeRoom(t) \/ GoAround(t) \/ Push(t) \/ NeedToFlush(t)
             \/ StartFlush(t) \/ FileFlushed(t) \/ StartDrain(t)
             \/ EndDrain(t) \/ WritePart(t) \/ WriteFails(t)
      PROVE  DrainAfterFlush'
  BY <1>5, <1>b DEF MakeRoom, GoAround, Push, NeedToFlush, StartFlush, FileFlushed,
                    StartDrain, EndDrain, WritePart, WriteFails
<1>6. ASSUME NEW t \in Threads, Publish(t) PROVE DrainAfterFlush'
  <2>1. unflushed = <<>> /\ Unpushed = <<>>
    BY <1>6, <1>a DEF Publish, Unpushed, TypeOK
  <2>2. buffer # <<>> /\ Head(buffer) \in Records /\ Tail(buffer) \in Seq(Records)
    BY <1>6, <1>b, HeadTailProperties DEF Publish
  <2>3. file = Append(backend, Head(buffer)) \o Tail(buffer)
    <3>1. backend \o buffer \in Seq(Records)
      BY <1>b, ConcatProperties
    <3>2. backend \o buffer = file
      BY <2>1, <3>1, <1>a, <1>b, ConcatEmptySeq DEF LogFollowsFile
    <3> QED BY <3>2, <2>2, <1>b, MoveHead
  <2>4. Append(backend, Head(buffer)) \in Seq(Records)
    BY <2>2, <1>b, AppendProperties
  <2>5. IsPrefix(Append(backend, Head(buffer)), file)
    BY <2>2, <2>3, <2>4, PrefixOfConcat
  <2> QED BY <2>1, <2>5, <1>6 DEF Publish
<1>7. ASSUME NEW t \in Threads, WriteOne(t) PROVE DrainAfterFlush'
  <2>1. Head(unflushed) \in Records /\ unflushed # <<>>
    BY <1>7, <1>b, HeadTailProperties DEF WriteOne, Emptying
  <2>2. IsPrefix(backend, Append(file, Head(unflushed)))
    BY <2>1, <1>b, PrefixOfLonger
  <2> QED BY <2>1, <2>2, <1>7, <1>b DEF WriteOne, Emptying
<1> QED
  BY <1>1, <1>2, <1>3, <1>4, <1>5, <1>6, <1>7 DEF Next, Step, Waiting, walVars

(* With one producer, a record is in the file before it can be fetched:    *)
(* only a second producer can write between the flush of the file and the  *)
(* drain of the queue (src/wal.rs:84-96).                                  *)
THEOREM SequentialWriteAhead ==
  ASSUME \A t, u \in Threads : t = u
  PROVE  Spec => []WriteAhead
<1>1. Init => DrainAfterFlush
  BY DEF Init, DrainAfterFlush, WriteAhead, IsPrefix
<1>2. DrainAfterFlush => WriteAhead
  BY DEF DrainAfterFlush
<1> QED BY <1>1, <1>2, LogAlways, DrainNext, PTL DEF Spec

-----------------------------------------------------------------------------
(* Refinement *)

(* A step leaves the log alone or writes the record of its thread, which   *)
(* keeps it until it is queued.                                            *)
LEMMA StepWrites ==
  ASSUME LocksInv, NEW t \in Threads, Step(t)
  PROVE  /\ rec' = rec \/ rec' = [rec EXCEPT ![t] = NoRecord]
         /\ \/ (file \o unflushed)' = file \o unflushed
            \/ /\ rec[t] \in Records
               /\ (file \o unflushed)' = Append(file \o unflushed, rec[t])
               /\ UNCHANGED rec
<1> USE DEF Goto, LockFile, fileVars, bufferVars
<1>a. TypeOK /\ LocksOK
  BY DEF LocksInv
<1>b. file \in Seq(Records) /\ unflushed \in Seq(Records)
  BY <1>a DEF TypeOK
<1>1. CASE WriteBuffered(t)
  <2>1. rec[t] \in Records
    BY <1>1, <1>a DEF WriteBuffered, LocksOK, Carries
  <2>2. (file \o unflushed)' = Append(file \o unflushed, rec[t])
    BY <1>1, <2>1, <1>b, AppendToConcat DEF WriteBuffered
  <2> QED BY <2>1, <2>2, <1>1 DEF WriteBuffered
<1>2. CASE RoomMade(t)
  <2>1. rec[t] \in Records /\ unflushed = <<>>
    BY <1>2, <1>a DEF RoomMade, LocksOK, Carries
  <2>2. CASE unflushed' = <<rec[t]>>
    <3>1. file \o unflushed = file
      BY <2>1, <1>b, ConcatEmptySeq
    <3>2. (file \o unflushed)' = Append(file \o unflushed, rec[t])
      BY <3>1, <2>1, <2>2, <1>2, <1>b, AppendIsConcat DEF RoomMade
    <3> QED BY <3>2, <2>1, <1>2 DEF RoomMade
  <2>3. CASE UNCHANGED unflushed
    BY <2>3, <1>2 DEF RoomMade
  <2> QED BY <1>2, <2>2, <2>3 DEF RoomMade
<1>3. CASE WriteDirect(t)
  <2>1. rec[t] \in Records /\ unflushed = <<>>
    BY <1>3, <1>a DEF WriteDirect, LocksOK, Carries
  <2>2. Append(file, rec[t]) \in Seq(Records)
    BY <2>1, <1>b, AppendProperties
  <2>3. (file \o unflushed)' = Append(file, rec[t]) /\ file \o unflushed = file
    BY <2>1, <2>2, <1>3, <1>b, ConcatEmptySeq DEF WriteDirect
  <2> QED BY <2>1, <2>3, <1>3 DEF WriteDirect
<1>4. CASE WriteOne(t)
  BY <1>4, <1>b, MoveHead DEF WriteOne, Emptying
<1>5. CASE \/ MakeRoom(t) \/ GoAround(t) \/ Push(t) \/ NeedToFlush(t)
           \/ StartFlush(t) \/ FileFlushed(t) \/ StartDrain(t) \/ Publish(t)
           \/ EndDrain(t) \/ WritePart(t) \/ WriteFails(t)
  BY <1>5 DEF MakeRoom, GoAround, Push, NeedToFlush, StartFlush, FileFlushed,
              StartDrain, Publish, EndDrain, WritePart, WriteFails
<1> QED BY <1>1, <1>2, <1>3, <1>4, <1>5 DEF Step

(* A write of a record, wherever it goes, is Accept; handing the head of   *)
(* the queue to the storage is Reveal; every other step is invisible.      *)
LEMMA StepIsOrdered ==
  LogInv /\ [Next]_walVars =>
    \/ \E r \in Records : Ordered!Accept(r)
    \/ Ordered!Reveal
    \/ UNCHANGED Ordered!logVars
<1> SUFFICES ASSUME LogInv, [Next]_walVars
             PROVE  \/ \E r \in Records : Ordered!Accept(r)
                    \/ Ordered!Reveal
                    \/ UNCHANGED Ordered!logVars
  OBVIOUS
<1> USE DEF Goto, LockFile, fileVars, bufferVars, Ordered!logVars
<1>a. TypeOK /\ LocksOK /\ LogFollowsFile
  BY DEF LogInv, LocksInv
<1>b. /\ file \in Seq(Records) /\ unflushed \in Seq(Records)
      /\ buffer \in Seq(Records) /\ backend \in Seq(Records)
  BY <1>a DEF TypeOK
<1>1. ASSUME NEW t \in Threads, Step(t), ~Publish(t)
      PROVE  (\E r \in Records : Ordered!Accept(r)) \/ UNCHANGED Ordered!logVars
  <2>1. UNCHANGED backend
    BY <1>1 DEF Step, WriteBuffered, MakeRoom, RoomMade, GoAround, WriteDirect, Push,
                NeedToFlush, StartFlush, FileFlushed, StartDrain, EndDrain, WritePart,
                WriteOne, WriteFails
  <2> QED BY <1>1, <2>1, StepWrites DEF LogInv, Ordered!Accept
<1>2. ASSUME NEW t \in Threads, Publish(t) PROVE Ordered!Reveal
  <2>1. Unpushed \in Seq(Records) /\ buffer # <<>> /\ Head(buffer) = buffer[1]
        /\ Len(buffer) \in Nat \ {0} /\ Len(backend) \in Nat /\ Len(Unpushed) \in Nat
    BY <1>2, <1>b, UnpushedType, EmptySeq, LenProperties DEF LogInv, Publish
  <2>2. backend \o buffer \in Seq(Records)
        /\ Len(backend \o buffer) = Len(backend) + Len(buffer)
        /\ (backend \o buffer)[Len(backend) + 1] = buffer[1]
    BY <1>b, <2>1, ConcatProperties
  <2>3. Len(backend \o buffer \o Unpushed) = Len(backend) + Len(buffer) + Len(Unpushed)
        /\ (backend \o buffer \o Unpushed)[Len(backend) + 1] = buffer[1]
    BY <2>1, <2>2, ConcatProperties
  <2>4. Len(backend) < Len(file \o unflushed)
        /\ (file \o unflushed)[Len(backend) + 1] = Head(buffer)
    BY <2>1, <2>3, <1>a DEF LogFollowsFile
  <2> QED BY <2>4, <1>2 DEF Publish, Ordered!Reveal
<1>3. ASSUME NEW t \in Threads, NEW r \in Records, Add(t, r)
      PROVE  UNCHANGED Ordered!logVars
  BY <1>3 DEF Add
<1> QED BY <1>1, <1>2, <1>3 DEF Next, Waiting, walVars

(* The write path implements an ordered log: the order of the file is the  *)
(* order in which records become visible, each once (src/wal.rs:38-98).    *)
THEOREM WritePathIsOrderedLog == Spec => ImplementsOrderedLog
<1>1. Init => Ordered!Init
  BY DEF Init, Ordered!Init
<1>2. LogInv /\ [Next]_walVars => [Ordered!Next]_(Ordered!logVars)
  BY StepIsOrdered DEF Ordered!Next
<1> QED BY <1>1, <1>2, LogAlways, PTL DEF Spec, ImplementsOrderedLog, Ordered!Spec

=============================================================================
