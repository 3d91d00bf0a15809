--------------------------- MODULE WriteAheadLog ---------------------------
(***************************************************************************)
(* The write path of a produce request, src/wal.rs as it is driven by      *)
(* TopicManager::add: a record is appended to the WAL file through a       *)
(* BufWriter, queued in `buffer`, and moved to the record storage          *)
(* (`backend`) once enough records are queued.                             *)
(*                                                                         *)
(* A thread is a connection task.  It holds `fileLock` from its write to   *)
(* its push, releases it, asks need_to_flush, and may then flush: the file *)
(* lock for the BufWriter's flush, and, after releasing it, the buffer     *)
(* lock for the whole drain.  Every point at which another thread can get  *)
(* between two accesses is a value of pc.                                  *)
(*                                                                         *)
(* Sizes are not modelled.  Whether a record fits in what is left of the   *)
(* BufWriter's memory, needs it emptied first, or is so large that it goes *)
(* around it, is a free choice.  A write to the file may fail, or be under *)
(* way when the process dies: `torn` says that the record being written is *)
(* on disk in part.  A short write reported as success                     *)
(* (src/wal.rs:42 ignores the count) is not modelled, nor is lock          *)
(* poisoning: no code panics while it holds one of these locks.            *)
(*                                                                         *)
(* The storage has two locks of its own, which a fetch may hold for ever   *)
(* (InMemoryLog, run log_deadlock).  Here nobody fetches, and who drains   *)
(* never waits for the storage; HerbertServer has its locks, too.          *)
(***************************************************************************)
EXTENDS Naturals, SequencesExt

CONSTANTS
  Threads,         \* connection tasks that produce
  Records,         \* records; each is added at most once, which bounds a run
  NumUncommitted,  \* Config.num_uncommitted_messages
  NoRecord,
  NoThread

ASSUME WalAssumption ==
  /\ NumUncommitted \in Nat
  /\ NoRecord \notin Records
  /\ NoThread \notin Threads

VARIABLES
  pc,          \* where each thread is in TopicManager::add
  rec,         \* the record a thread is adding, until it is in `buffer`
  fileLock,    \* holder of WriteAheadLog.file
  file,        \* records completely in the WAL file
  unflushed,   \* records in the BufWriter's memory, in order
  torn,        \* part of the record now being written is in the file
  bufferLock,  \* holder of WriteAheadLog.buffer over a drain
  buffer,      \* WriteAheadLog.buffer
  backend,     \* what RecordStorage::add has received, in order
  failed       \* history: a write failed since the queue was last drained

fileVars == <<fileLock, file, unflushed, torn>>
bufferVars == <<bufferLock, buffer, backend, failed>>
walVars == <<pc, rec, fileVars, bufferVars>>

HoldsFile == {"spill", "direct", "push", "flushing"}
Location == {"idle", "add", "check", "flush", "drain", "draining"} \cup HoldsFile

Goto(t, l) == pc' = [pc EXCEPT ![t] = l]

TypeOK ==
  /\ pc \in [Threads -> Location]
  /\ rec \in [Threads -> Records \cup {NoRecord}]
  /\ fileLock \in Threads \cup {NoThread}
  /\ file \in Seq(Records)
  /\ unflushed \in Seq(Records)
  /\ torn \in BOOLEAN
  /\ bufferLock \in Threads \cup {NoThread}
  /\ buffer \in Seq(Records)
  /\ backend \in Seq(Records)
  /\ failed \in BOOLEAN

Init ==
  /\ pc = [t \in Threads |-> "idle"]
  /\ rec = [t \in Threads |-> NoRecord]
  /\ fileLock = NoThread
  /\ file = <<>>
  /\ unflushed = <<>>
  /\ torn = FALSE
  /\ bufferLock = NoThread
  /\ buffer = <<>>
  /\ backend = <<>>
  /\ failed = FALSE

-----------------------------------------------------------------------------
(* WriteAheadLog::add *)

Fresh(r) ==
  /\ r \notin ToSet(file) \cup ToSet(unflushed)
  /\ \A t \in Threads : rec[t] # r

(* TopicManager::add calls wal.add. *)
Add(t, r) ==
  /\ pc[t] = "idle"
  /\ Fresh(r)
  /\ Goto(t, "add")
  /\ rec' = [rec EXCEPT ![t] = r]
  /\ UNCHANGED <<fileVars, bufferVars>>

LockFile(t) ==
  /\ fileLock = NoThread
  /\ fileLock' = t

(* Mutant: the file lock is gone once the record is written. *)
WriteWithoutHolding(t) ==
  /\ pc[t] = "add"
  /\ fileLock = NoThread
  /\ unflushed' = Append(unflushed, rec[t])
  /\ Goto(t, "push")
  /\ UNCHANGED <<rec, fileLock, file, torn, bufferVars>>

(* The record fits in the BufWriter's memory. *)
WriteBuffered(t) ==
  /\ pc[t] = "add"
  /\ LockFile(t)
  /\ unflushed' = Append(unflushed, rec[t])
  /\ Goto(t, "push")
  /\ UNCHANGED <<rec, file, torn, bufferVars>>

(* It does not: the BufWriter first empties its memory into the file. *)
MakeRoom(t) ==
  /\ pc[t] = "add"
  /\ unflushed # <<>>
  /\ LockFile(t)
  /\ Goto(t, "spill")
  /\ UNCHANGED <<rec, file, unflushed, torn, bufferVars>>

RoomMade(t) ==
  /\ pc[t] = "spill"
  /\ unflushed = <<>>
  /\ \/ unflushed' = <<rec[t]>> /\ Goto(t, "push")
     \/ UNCHANGED unflushed /\ Goto(t, "direct")
  /\ UNCHANGED <<rec, fileLock, file, torn, bufferVars>>

(* The record is at least as large as that memory and goes around it. *)
GoAround(t) ==
  /\ pc[t] = "add"
  /\ unflushed = <<>>
  /\ LockFile(t)
  /\ Goto(t, "direct")
  /\ UNCHANGED <<rec, file, unflushed, torn, bufferVars>>

WriteDirect(t) ==
  /\ pc[t] = "direct"
  /\ file' = Append(file, rec[t])
  /\ torn' = FALSE
  /\ Goto(t, "push")
  /\ UNCHANGED <<rec, fileLock, unflushed, bufferVars>>

(* Mutant: the record is given up before it is queued. *)
PushAfterReset(t) ==
  /\ pc[t] = "push"
  /\ bufferLock = NoThread
  /\ rec' = [rec EXCEPT ![t] = NoRecord]
  /\ buffer' = Append(buffer, rec'[t])
  /\ fileLock' = NoThread
  /\ Goto(t, "check")
  /\ UNCHANGED <<file, unflushed, torn, bufferLock, backend, failed>>

(* The record is queued, still under the file lock, which then ends. *)
Push(t) ==
  /\ pc[t] = "push"
  /\ bufferLock = NoThread
  /\ buffer' = Append(buffer, rec[t])
  /\ rec' = [rec EXCEPT ![t] = NoRecord]
  /\ fileLock' = NoThread
  /\ Goto(t, "check")
  /\ UNCHANGED <<file, unflushed, torn, bufferLock, backend, failed>>

-----------------------------------------------------------------------------
(* WriteAheadLog::need_to_flush and flush *)

(* Mutant: the threshold is one too high. *)
NeedMoreToFlush(t) ==
  /\ pc[t] = "check"
  /\ bufferLock = NoThread
  /\ Goto(t, IF Len(buffer) > NumUncommitted THEN "flush" ELSE "idle")
  /\ UNCHANGED <<rec, fileVars, bufferVars>>

(* Mutant: a thread whose record another one drained keeps asking. *)
SpinToFlush(t) ==
  /\ pc[t] = "check"
  /\ bufferLock = NoThread
  /\ Goto(t, IF Len(buffer) >= NumUncommitted THEN "flush" ELSE "check")
  /\ UNCHANGED <<rec, fileVars, bufferVars>>

NeedToFlush(t) ==
  /\ pc[t] = "check"
  /\ bufferLock = NoThread
  /\ Goto(t, IF Len(buffer) >= NumUncommitted THEN "flush" ELSE "idle")
  /\ UNCHANGED <<rec, fileVars, bufferVars>>

(* Mutant: the queue is drained without a flush of the file. *)
SkipFlush(t) ==
  /\ pc[t] = "flush"
  /\ Goto(t, "drain")
  /\ UNCHANGED <<rec, fileVars, bufferVars>>

StartFlush(t) ==
  /\ pc[t] = "flush"
  /\ LockFile(t)
  /\ Goto(t, "flushing")
  /\ UNCHANGED <<rec, file, unflushed, torn, bufferVars>>

(* The lock on the file ends with the statement that flushes it. *)
FileFlushed(t) ==
  /\ pc[t] = "flushing"
  /\ unflushed = <<>>
  /\ fileLock' = NoThread
  /\ Goto(t, "drain")
  /\ UNCHANGED <<rec, file, unflushed, torn, bufferVars>>

StartDrain(t) ==
  /\ pc[t] = "drain"
  /\ bufferLock = NoThread
  /\ bufferLock' = t
  /\ Goto(t, "draining")
  /\ UNCHANGED <<rec, fileVars, buffer, backend, failed>>

(* Mutant: the queue is drained from its end. *)
PublishNewest(t) ==
  /\ pc[t] = "draining"
  /\ buffer # <<>>
  /\ backend' = Append(backend, Last(buffer))
  /\ buffer' = Front(buffer)
  /\ UNCHANGED <<pc, rec, fileVars, bufferLock, failed>>

(* backend.add, as if nobody fetched.                                      *)
Publish(t) ==
  /\ pc[t] = "draining"
  /\ buffer # <<>>
  /\ backend' = Append(backend, Head(buffer))
  /\ buffer' = Tail(buffer)
  /\ UNCHANGED <<pc, rec, fileVars, bufferLock, failed>>

EndDrain(t) ==
  /\ pc[t] = "draining"
  /\ buffer = <<>>
  /\ bufferLock' = NoThread
  /\ failed' = FALSE
  /\ Goto(t, "idle")
  /\ UNCHANGED <<rec, fileVars, buffer, backend>>

-----------------------------------------------------------------------------
(* The operating system's side of a write to the file *)

Emptying(t) == pc[t] \in {"spill", "flushing"} /\ unflushed # <<>>

WritePart(t) ==
  /\ Emptying(t) \/ pc[t] = "direct"
  /\ ~torn
  /\ torn' = TRUE
  /\ UNCHANGED <<pc, rec, fileLock, file, unflushed, bufferVars>>

WriteOne(t) ==
  /\ Emptying(t)
  /\ file' = Append(file, Head(unflushed))
  /\ unflushed' = Tail(unflushed)
  /\ torn' = FALSE
  /\ UNCHANGED <<pc, rec, fileLock, bufferVars>>

(* The error leaves add or flush by `?`; what is unwritten stays in the    *)
(* BufWriter, a record that was not yet in it is dropped.                  *)
WriteFails(t) ==
  /\ Emptying(t) \/ (pc[t] = "direct" /\ ~torn)
  /\ fileLock' = NoThread
  /\ rec' = [rec EXCEPT ![t] = NoRecord]
  /\ Goto(t, "idle")
  /\ failed' = TRUE
  /\ UNCHANGED <<file, unflushed, torn, bufferLock, buffer, backend>>

-----------------------------------------------------------------------------
(* A step of a thread that is inside TopicManager::add. *)
Step(t) ==
  \/ WriteBuffered(t) \/ MakeRoom(t) \/ RoomMade(t) \/ GoAround(t)
  \/ WriteDirect(t) \/ Push(t)
  \/ NeedToFlush(t) \/ StartFlush(t) \/ FileFlushed(t)
  \/ StartDrain(t) \/ Publish(t) \/ EndDrain(t)
  \/ WritePart(t) \/ WriteOne(t) \/ WriteFails(t)

(* Nobody is producing: the server waits for connections. *)
Waiting == (\A t \in Threads : pc[t] = "idle") /\ UNCHANGED walVars

Next ==
  \/ \E t \in Threads : Step(t) \/ \E r \in Records : Add(t, r)
  \/ Waiting

Spec == Init /\ [][Next]_walVars

(* The runtime keeps running a task that can run.  Nothing makes a client  *)
(* produce.  Weak fairness is enough for the locks: adds are finite unless *)
(* writes fail, so a waiting thread is not overtaken for ever.             *)
FairSpec == Spec /\ \A t \in Threads : WF_walVars(Step(t))

-----------------------------------------------------------------------------
(* Properties *)

(* The record that is in the file but not yet in the queue. *)
Unpushed ==
  IF fileLock # NoThread /\ pc[fileLock] = "push" THEN <<rec[fileLock]>> ELSE <<>>

(* What consumers can fetch, followed by what is queued for them, is what  *)
(* the WAL file holds or will hold, record by record: a recovery from the  *)
(* file reproduces the offsets.  It needs the file lock to cover both the  *)
(* write and the push of wal.add (src/wal.rs:39-47) and one lock over a    *)
(* whole drain (89-96).                                                    *)
LogFollowsFile == backend \o buffer \o Unpushed = file \o unflushed

(* Unless a write has failed since the last drain, a queue that reached    *)
(* the threshold has a thread on its way to drain it, although             *)
(* need_to_flush is asked after the lock on the queue is gone              *)
(* (src/topic_manager.rs:161-163).                                         *)
NoStrandedRecords ==
  ~failed /\ buffer # <<>> /\ Len(buffer) >= NumUncommitted
    => \E t \in Threads : pc[t] \in {"check", "flush", "flushing", "drain", "draining"}

(* A record is in the file before a consumer can fetch it. *)
WriteAhead == IsPrefix(backend, file)

(* Among producers every produce request ends, whatever the others do,     *)
(* unless writes fail (which could let others take the lock of the file    *)
(* again and again).                                                       *)
AddReturns == \A t \in Threads : pc[t] # "idle" ~> pc[t] = "idle" \/ failed

(* With the default threshold, and while no fetch holds a lock of the      *)
(* storage for ever, a record that was queued is published, with no        *)
(* further produce request, unless a write fails (src/config.rs:42).       *)
QueuedIsPublished ==
  \A r \in Records : r \in ToSet(buffer) ~> r \in ToSet(backend) \/ failed

(* Seen from outside, the write path is an ordered log: the order of the   *)
(* file is the order in which records are published, each once, and none   *)
(* is lost as long as the process runs, whatever writes fail.              *)
Ordered == INSTANCE OrderedLog WITH
             Lossy <- FALSE, Durable <- FALSE,
             log <- file \o unflushed, published <- backend
ImplementsOrderedLog == Ordered!Spec

=============================================================================
