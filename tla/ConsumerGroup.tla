--------------------------- MODULE ConsumerGroup ---------------------------
(***************************************************************************)
(* The consumers of one group on one topic: the client's consume and       *)
(* consume_continuos (src/client.rs:92-176) against the handlers of the    *)
(* server's connection tasks (src/server.rs:81-138).                       *)
(*                                                                         *)
(* A consumer opens a connection, asks for the committed offset, fetches   *)
(* from it and commits the offset behind what it got.  The commit has no   *)
(* answer: consume returns as soon as it is sent, and the server handles   *)
(* it later.  A connection's requests are handled in order, those of       *)
(* different connections in any order.                                     *)
(*                                                                         *)
(* Of the server only what a consumer sees is kept: the published records  *)
(* of the topic (TopicManager shows that one producer loses none of them   *)
(* in a crash) and the committed offset of the group.  set_offset is one   *)
(* step here (OffsetManager has its steps).  Of a raw record only how its  *)
(* bytes look to the client is kept.  The client splits an answer at zero  *)
(* bytes to find out how many records it got, and consume_continuos wants  *)
(* each part to be text: a record is "plain" text, has a zero byte in it   *)
(* ("nul"), has no bytes ("empty"), or is not text ("binary").  An answer  *)
(* that begins like an Arrow stream is one for consume_continuos, which    *)
(* counts its rows: so does a batch that was produced to a topic without a *)
(* schema and is one raw record ("stream"); and so does a text of eight    *)
(* bytes or more that begins with ARROW1, which is none ("arrow").  The    *)
(* rows of a batch in a topic with a schema have an offset each and behave *)
(* like plain records.                                                     *)
(*                                                                         *)
(* A fetch and an add may come to hold one lock of the storage each and    *)
(* wait for the other for ever (InMemoryLog has their steps, run           *)
(* log_deadlock): here the storage is blocked from then on.                *)
(***************************************************************************)
EXTENDS Naturals, FiniteSets, SequencesExt

CONSTANTS
  Once,         \* clients that call consume, again and again
  Continuous,   \* clients that call consume_continuos
  Kinds,        \* the kinds of records produced
  StreamRows,   \* the rows in a record that is an Arrow stream
  ShortReads,   \* TRUE: one read may return a part of an answer
  MaxRecords,   \* bound on the records of the topic
  MaxSessions,  \* bound on the connections that are open or not read to their end
  MaxFailures   \* bound on crashes of the server and connections that break

Clients == Once \cup Continuous

ASSUME ConsumerAssumption ==
  /\ Once \cap Continuous = {}
  /\ Kinds \subseteq {"plain", "nul", "empty", "binary", "stream", "arrow"}
  /\ ShortReads \in BOOLEAN
  /\ {StreamRows, MaxRecords, MaxSessions, MaxFailures} \subseteq Nat

VARIABLES
  log,        \* the published records of the topic
  blocked,    \* an add and a fetch wait for each other's lock
  committed,  \* the group's entry in OffsetManager.offsets
  by,         \* the connection that committed it, 0 if none did
  pc,         \* where each client is
  session,    \* its connection
  pos,        \* the offset it fetches from
  got,        \* the records of the answer it is about to read
  commits,    \* commits that were sent and are not handled yet
  delivered,  \* offsets of the records that some client of the group got
  failures    \* how many crashes and broken connections so far

serverVars == <<log, blocked, committed, by>>
vars == <<serverVars, pc, session, pos, got, commits, delivered, failures>>

TypeOK ==
  /\ log \in Seq(Kinds)
  /\ blocked \in BOOLEAN
  /\ committed \in Nat
  /\ by \in 0..MaxSessions
  /\ pc \in [Clients -> {"idle", "position", "fetch", "got"}]
  /\ session \in [Clients -> 0..MaxSessions]
  /\ pos \in [Clients -> Nat]
  /\ got \in [Clients -> Seq(Kinds)]
  /\ commits \subseteq [session : 1..MaxSessions, offset : Nat]
  /\ delivered \subseteq 0..Len(log) - 1
  /\ failures \in 0..MaxFailures

Init ==
  /\ log = <<>>
  /\ blocked = FALSE
  /\ committed = 0
  /\ by = 0
  /\ pc = [c \in Clients |-> "idle"]
  /\ session = [c \in Clients |-> 0]
  /\ pos = [c \in Clients |-> 0]
  /\ got = [c \in Clients |-> <<>>]
  /\ commits = {}
  /\ delivered = {}
  /\ failures = 0

Goto(c, l) == pc' = [pc EXCEPT ![c] = l]

(* What a client keeps from here on: nothing at all when its call is over. *)
Keep(c, l, connection, offset, records) ==
  /\ Goto(c, l)
  /\ session' = [session EXCEPT ![c] = IF l = "idle" THEN 0 ELSE connection]
  /\ pos' = [pos EXCEPT ![c] = IF l = "idle" THEN 0 ELSE offset]
  /\ got' = [got EXCEPT ![c] = IF l = "got" THEN records ELSE <<>>]

-----------------------------------------------------------------------------
(* The server *)

Publish(kind) ==
  /\ Len(log) < MaxRecords
  /\ ~blocked
  /\ log' = Append(log, kind)
  /\ UNCHANGED <<blocked, committed, by, pc, session, pos, got, commits, delivered, failures>>

(* OffsetFetch; the client sends its first Fetch when it has the answer. *)
AnswerPosition(c) ==
  /\ pc[c] = "position"
  /\ Keep(c, "fetch", session[c], committed, <<>>)
  /\ UNCHANGED <<serverVars, commits, delivered, failures>>

Answer(c, records) ==
  /\ pc[c] = "fetch"
  /\ ~blocked
  /\ Keep(c, "got", session[c], pos[c], records)
  /\ UNCHANGED <<serverVars, commits, delivered, failures>>

CommitsHandled(c) == \A k \in commits : k.session # session[c]

(* Mutant: the server answers all records, whatever the offset. *)
AnswerAll(c) == CommitsHandled(c) /\ Answer(c, log)

(* Mutant: a fetch overtakes the commit before it. *)
AnswerAtOnce(c) == Answer(c, SubSeq(log, pos[c] + 1, Len(log)))

(* Fetch, once the commit that precedes it on the connection is handled. *)
AnswerFetch(c) == CommitsHandled(c) /\ Answer(c, SubSeq(log, pos[c] + 1, Len(log)))

(* The fetch has the lock of the index and finds records, an add to some   *)
(* topic has that of the records.                                          *)
Block(c) ==
  /\ pc[c] = "fetch"
  /\ CommitsHandled(c)
  /\ pos[c] < Len(log)
  /\ blocked' = TRUE
  /\ UNCHANGED <<log, committed, by, pc, session, pos, got, commits, delivered, failures>>

(* OffsetCommit; whatever offset was committed before. *)
HandleCommit(k) ==
  /\ k \in commits
  /\ committed' = k.offset
  /\ by' = k.session
  /\ commits' = commits \ {k}
  /\ UNCHANGED <<log, blocked, pc, session, pos, got, delivered, failures>>

Fail ==
  /\ failures < MaxFailures
  /\ failures' = failures + 1
  /\ UNCHANGED <<log, committed, by, delivered>>

(* Every connection is gone, with the commits that nobody has read from    *)
(* it.  A client that was waiting for an answer returns, with no records   *)
(* or, consume_continuos at its next requests, with an error.              *)
Crash ==
  /\ Fail
  /\ pc' = [c \in Clients |-> "idle"]
  /\ session' = [c \in Clients |-> 0]
  /\ pos' = [c \in Clients |-> 0]
  /\ got' = [c \in Clients |-> <<>>]
  /\ commits' = {}
  /\ blocked' = FALSE

(* One connection breaks, with or without the commit on it. *)
Disconnect(c) ==
  /\ Fail
  /\ pc[c] # "idle"
  /\ Keep(c, "idle", 0, 0, <<>>)
  /\ commits' \in {commits, {k \in commits : k.session # session[c]}}
  /\ UNCHANGED blocked

-----------------------------------------------------------------------------
(* The client *)

(* Connections have numbers only here, which are used again when neither   *)
(* a client, nor a commit, nor `by` refers to them.                        *)
Unused ==
  1..MaxSessions \ ({by} \cup {k.session : k \in commits} \cup Range(session))

Connect(c) ==
  /\ pc[c] = "idle"
  /\ Unused # {}
  /\ Keep(c, "position", CHOOSE n \in Unused : TRUE, 0, <<>>)
  /\ UNCHANGED <<serverVars, commits, delivered, failures>>

(* An empty record alone is an answer without bytes. *)
NoBytes(s) == s \in {<<>>, <<"empty">>}

(* A stream has zero bytes in it, too. *)
WithZeros(s) == {i \in DOMAIN s : s[i] \in {"nul", "stream"}}

(* Mutant: one part too many, as if every record ended in a zero byte. *)
CountEnds(s) == Len(s) + 1 + Cardinality(WithZeros(s))

(* The number of parts between zero bytes. *)
Count(s) == Len(s) + Cardinality(WithZeros(s))

(* consume returns; consume_continuos sleeps and fetches again. *)
Onwards(c) == IF c \in Once THEN "idle" ELSE "fetch"

ReadNothing(c) ==
  /\ pc[c] = "got"
  /\ NoBytes(got[c])
  /\ Keep(c, Onwards(c), session[c], pos[c], <<>>)
  /\ UNCHANGED <<serverVars, commits, delivered, failures>>

(* The client is given the first n records of the answer. *)
Deliver(c, n) ==
  /\ pc[c] = "got"
  /\ ~NoBytes(got[c])
  /\ delivered' = delivered \cup pos[c]..(pos[c] + n - 1)
  /\ UNCHANGED <<serverVars, failures>>

IsText(k) == k \notin {"binary", "stream"}

(* An answer that consume_continuos takes for a stream of batches. *)
IsStream(c) ==
  c \in Continuous /\ got[c] # <<>> /\ Head(got[c]) \in {"stream", "arrow"}

(* How many records do not arrive with the client's one call of read.  It  *)
(* fills the start of a buffer of zero bytes, so that each byte that is    *)
(* missing counts as a part; a record is one byte long here, and a stream  *)
(* is read in one piece.                                                   *)
Missing(c) == 0..(IF ShortReads /\ ~IsStream(c) THEN Len(got[c]) ELSE 0)

(* The reader of a stream stops at its end, whatever is behind it.         *)
Given(c, m) == IF IsStream(c) THEN 1 ELSE Len(got[c]) - m

Counted(c, m) == IF IsStream(c) THEN StreamRows ELSE Count(got[c]) + m

(* What is not read begins the next answer on the connection: it cannot be *)
(* decoded then, and consume_continuos returns the error.                  *)
ReadRecords(c) ==
  \E m \in Missing(c) :
    LET offset == pos[c] + Counted(c, m) IN
    /\ IsStream(c) => Head(got[c]) = "stream"
    /\ c \in Continuous /\ ~IsStream(c) =>
         \A i \in 1..Given(c, m) : IsText(got[c][i])
    /\ Deliver(c, Given(c, m))
    /\ commits' = commits \cup {[session |-> session[c], offset |-> offset]}
    /\ Keep(c, IF m > 0 THEN "idle" ELSE Onwards(c), session[c], offset, <<>>)

(* consume_continuos prints part after part and returns an error at the    *)
(* first that is not text, before it commits anything.                     *)
PrintFails(c) ==
  /\ c \in Continuous
  /\ ~IsStream(c)
  /\ \E n \in DOMAIN got[c] :
       /\ n = SelectInSeq(got[c], LAMBDA k : ~IsText(k))
       /\ Deliver(c, n - 1)
  /\ Keep(c, "idle", 0, 0, <<>>)
  /\ UNCHANGED commits

(* Text that is taken for a stream cannot be read as one: consume_continuos *)
(* returns the error before it prints or commits anything.                 *)
StreamFails(c) ==
  /\ pc[c] = "got"
  /\ IsStream(c)
  /\ Head(got[c]) = "arrow"
  /\ Keep(c, "idle", 0, 0, <<>>)
  /\ UNCHANGED <<serverVars, commits, delivered, failures>>

-----------------------------------------------------------------------------
Step(c) ==
  \/ AnswerPosition(c) \/ AnswerFetch(c)
  \/ ReadNothing(c) \/ ReadRecords(c) \/ PrintFails(c) \/ StreamFails(c)

Next ==
  \/ \E kind \in Kinds : Publish(kind)
  \/ \E c \in Clients : Connect(c) \/ Step(c) \/ Block(c) \/ Disconnect(c)
  \/ \E k \in commits : HandleCommit(k)
  \/ Crash

Spec == Init /\ [][Next]_vars

(* Client and server go on with what they have begun, the server reads     *)
(* every request that reached it, and a consumer that runs continuously is *)
(* started again.  A fetch is answered unless the storage is blocked.      *)
FairSpec ==
  /\ Spec
  /\ \A c \in Clients : WF_vars(Step(c))
  /\ \A c \in Continuous : WF_vars(Connect(c))
  /\ \A n \in 1..MaxSessions :
       WF_vars(\E k \in commits : k.session = n /\ HandleCommit(k))

-----------------------------------------------------------------------------
(* Properties *)

(* README.md:15: "Consumers of a topic can commit offsets on a record      *)
(* level".  Every record before the committed offset, or before one that   *)
(* is on its way to the server, was given to a consumer of the group:      *)
(* whoever continues from there misses nothing, whatever other consumers,  *)
(* late commits and crashes did in between.                                *)
NothingSkipped ==
  \A offset \in {committed} \cup {k.offset : k \in commits} :
    0..offset - 1 \subseteq delivered

(* The commits of one connection never move the committed offset back, as  *)
(* long as no other connection commits in between: the server handles the  *)
(* next request of a connection after the one before it.                   *)
SessionCommitsGrow == [][committed' # committed /\ by' = by => committed' > committed]_vars

(* The record at an offset has a chance to be delivered: it and those      *)
(* before it are text that consume_continuos can print and count.          *)
Printable(i) == \A j \in 1..i : log[j] \in {"plain", "empty"}

(* While there is a continuous consumer and the storage is not blocked, a  *)
(* published record is given to somebody of the group when it and all      *)
(* before it can be printed, an empty one at the latest with the record    *)
(* behind it.  What is behind it does not matter.                          *)
AllDelivered ==
  \A i \in 1..MaxRecords :
    /\ Len(log) > i \/ (Len(log) = i /\ log[i] # "empty")
    /\ Printable(i)
    ~> (i - 1) \in delivered \/ blocked

=============================================================================
