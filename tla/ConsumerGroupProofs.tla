------------------------ MODULE ConsumerGroupProofs ------------------------
(***************************************************************************)
(* Theorems about ConsumerGroup for any number of clients, connections,    *)
(* records and failures.                                                   *)
(*                                                                         *)
(* The argument: a connection has one client and at most one commit that   *)
(* is not handled, and never both an answer and a commit; and a client     *)
(* stands behind everything that was committed on its connection.          *)
(***************************************************************************)
EXTENDS ConsumerGroup, SequenceTheorems, FiniteSetTheorems, TLAPS

-----------------------------------------------------------------------------
(* What is counted *)

(* A count is at least the number of records, and is that number when no   *)
(* record has a zero byte in it.                                           *)
LEMMA CountProperties ==
  ASSUME NEW s \in Seq(Kinds)
  PROVE  /\ Count(s) \in Nat /\ Count(s) >= Len(s)
         /\ Kinds \cap {"nul", "stream"} = {} => Count(s) = Len(s)
<1>1. Len(s) \in Nat /\ DOMAIN s = 1..Len(s) /\ \A i \in DOMAIN s : s[i] \in Kinds
  BY LenProperties, ElementOfSeq
<1>2. IsFiniteSet(DOMAIN s)
  BY <1>1, FS_Interval
<1>3. IsFiniteSet(WithZeros(s))
  BY <1>2, FS_Subset DEF WithZeros
<1>4. Cardinality(WithZeros(s)) \in Nat
  BY <1>3, FS_CardinalityType
<1>5. ASSUME Kinds \cap {"nul", "stream"} = {} PROVE Cardinality(WithZeros(s)) = 0
  <2>1. WithZeros(s) = {}
    BY <1>1, <1>5 DEF WithZeros
  <2> QED BY <2>1, FS_EmptySet
<1> DEFINE l == Len(s)
           z == Cardinality(WithZeros(s))
<1>6. l \in Nat /\ z \in Nat /\ Count(s) = l + z
      /\ (Kinds \cap {"nul", "stream"} = {} => z = 0)
  BY <1>1, <1>4, <1>5 DEF Count
<1> HIDE DEF l, z
<1>7. l + z \in Nat /\ l + z >= l /\ (z = 0 => l + z = l)
  BY <1>6
<1>8. Count(s) \in Nat /\ Count(s) >= l
      /\ (Kinds \cap {"nul", "stream"} = {} => Count(s) = l)
  BY <1>6, <1>7
<1> QED BY <1>8 DEF l

(* The records from an offset on.                                          *)
LEMMA SuffixProperties ==
  ASSUME NEW s \in Seq(Kinds), NEW n \in Nat
  PROVE  LET r == SubSeq(s, n + 1, Len(s))
         IN  r \in Seq(Kinds) /\ (r # <<>> => n + Len(r) = Len(s))
<1> DEFINE l == Len(s)
           r == SubSeq(s, n + 1, l)
<1>1. l \in Nat /\ \A i \in 1..l : s[i] \in Kinds
  BY LenProperties, ElementOfSeq
<1>2. \A i \in (n + 1)..l : s[i] \in Kinds
  <2> HIDE DEF l
  <2> QED BY <1>1
<1>3. r \in Seq(Kinds) /\ Len(r) = IF n + 1 <= l THEN l - (n + 1) + 1 ELSE 0
  <2>1. n + 1 \in Int /\ l \in Int
    BY <1>1
  <2> HIDE DEF l
  <2> QED BY <1>2, <2>1, SubSeqProperties
<1>4. ASSUME r # <<>> PROVE n + Len(r) = l
  <2>1. Len(r) # 0
    BY <1>3, <1>4, EmptySeq
  <2> DEFINE k == Len(r)
  <2>2. k # 0 /\ k = (IF n + 1 <= l THEN l - (n + 1) + 1 ELSE 0)
    BY <1>3, <2>1
  <2> HIDE DEF k, l
  <2>3. n + k = l
    BY <1>1, <2>2
  <2> QED BY <2>3 DEF k
<1> QED BY <1>3, <1>4

-----------------------------------------------------------------------------
(* The inductive invariant *)

Labels == {"idle", "position", "fetch", "got"}

ServerInv ==
  /\ log \in Seq(Kinds)
  /\ blocked \in BOOLEAN
  /\ committed \in Nat
  /\ by \in 0..MaxSessions

ClientInv ==
  /\ pc \in [Clients -> Labels]
  /\ session \in [Clients -> 0..MaxSessions]
  /\ pos \in [Clients -> Nat]
  /\ got \in [Clients -> Seq(Kinds)]
  /\ \A c \in Clients : session[c] = 0 <=> pc[c] = "idle"
  /\ \A c \in Clients : got[c] # <<>> => pos[c] + Len(got[c]) <= Len(log)

WireInv ==
  /\ commits \subseteq [session : 1..MaxSessions, offset : Nat]
  /\ delivered \subseteq 0..Len(log) - 1
  /\ failures \in 0..MaxFailures

(* A connection has one client and at most one commit, whose client waits  *)
(* for its next answer; nothing goes back on a connection.                 *)
SessionInv ==
  /\ \A c, d \in Clients : session[c] = session[d] /\ pc[c] # "idle" => c = d
  /\ \A k, l \in commits : k.session = l.session => k = l
  /\ \A c \in Clients, k \in commits :
       k.session = session[c] => pc[c] = "fetch" /\ pos[c] >= k.offset
  /\ \A c \in Clients : pc[c] # "idle" /\ session[c] = by =>
       pc[c] # "position" /\ pos[c] >= committed
  /\ \A k \in commits : k.session = by => k.offset >= committed

IInv == ServerInv /\ ClientInv /\ WireInv /\ SessionInv

(* The invariant holds initially.                                          *)
LEMMA IndInit == Init => IInv
<1> SUFFICES ASSUME Init PROVE IInv
  OBVIOUS
<1>1. <<>> \in Seq(Kinds)
  BY EmptySeq
<1>2. ServerInv
  <2>1. blocked \in BOOLEAN
    BY Zenon DEF Init
  <2>2. log \in Seq(Kinds) /\ committed \in Nat /\ by \in 0..MaxSessions
    BY <1>1, ConsumerAssumption DEF Init
  <2> QED BY <2>1, <2>2, Zenon DEF ServerInv
<1>3. ClientInv
  BY <1>1, ConsumerAssumption DEF Init, ClientInv, Labels
<1>4. WireInv /\ SessionInv
  BY ConsumerAssumption DEF Init, WireInv, SessionInv
<1> QED BY <1>2, <1>3, <1>4 DEF IInv

(* What Keep does to the clients.                                          *)
LEMMA KeepProperties ==
  ASSUME ClientInv, NEW c \in Clients, NEW l \in Labels, NEW n \in 0..MaxSessions,
         NEW o \in Nat, NEW r \in Seq(Kinds), Keep(c, l, n, o, r),
         log' = log, l # "idle" => n # 0,
         l = "got" /\ r # <<>> => o + Len(r) <= Len(log)
  PROVE  /\ ClientInv'
         /\ pc'[c] = l
         /\ l # "idle" => session'[c] = n /\ pos'[c] = o
         /\ l = "idle" => session'[c] = 0
         /\ l = "got" => got'[c] = r
         /\ \A d \in Clients : d # c =>
              pc'[d] = pc[d] /\ session'[d] = session[d] /\ pos'[d] = pos[d]
<1>1. 0 \in 0..MaxSessions /\ 0 \in Nat
  BY ConsumerAssumption
<1>2. <<>> \in Seq(Kinds)
  BY EmptySeq
<1>3. /\ pc' \in [Clients -> Labels] /\ session' \in [Clients -> 0..MaxSessions]
      /\ pos' \in [Clients -> Nat] /\ got' \in [Clients -> Seq(Kinds)]
  BY <1>1, <1>2 DEF ClientInv, Keep, Goto
<1>4. /\ pc'[c] = l
      /\ session'[c] = IF l = "idle" THEN 0 ELSE n
      /\ pos'[c] = IF l = "idle" THEN 0 ELSE o
      /\ got'[c] = IF l = "got" THEN r ELSE <<>>
  BY DEF ClientInv, Keep, Goto
<1>5. \A d \in Clients : d # c =>
        /\ pc'[d] = pc[d] /\ session'[d] = session[d]
        /\ pos'[d] = pos[d] /\ got'[d] = got[d]
  BY DEF ClientInv, Keep, Goto
<1>6. ASSUME NEW d \in Clients
      PROVE  /\ session'[d] = 0 <=> pc'[d] = "idle"
             /\ got'[d] # <<>> => pos'[d] + Len(got'[d]) <= Len(log)
  <2>1. CASE d = c
    BY <1>4, <2>1
  <2>2. CASE d # c
    BY <1>5, <2>2 DEF ClientInv
  <2> QED BY <2>1, <2>2
<1>7. ClientInv'
  BY <1>3, <1>6 DEF ClientInv
<1> QED BY <1>4, <1>5, <1>7

(* A client that is connected has a connection's number.                   *)
LEMMA Connected ==
  ASSUME ClientInv, NEW c \in Clients, pc[c] # "idle"
  PROVE  session[c] \in 1..MaxSessions
BY ConsumerAssumption DEF ClientInv

(* A record is published.                                                  *)
LEMMA IndPublish ==
  ASSUME IInv, NEW kind \in Kinds, Publish(kind)
  PROVE  IInv'
<1> USE DEF IInv, Publish
<1> DEFINE l == Len(log)
           m == Len(log')
<1>1. log' \in Seq(Kinds) /\ l \in Nat /\ m = l + 1
  BY AppendProperties, LenProperties DEF ServerInv
<1>2. ServerInv'
  BY <1>1 DEF ServerInv
<1>3. ClientInv'
  <2>1. \A c \in Clients : got[c] # <<>> => pos[c] + Len(got[c]) <= m
    <3> SUFFICES ASSUME NEW c \in Clients, got[c] # <<>>
                 PROVE  pos[c] + Len(got[c]) <= m
      OBVIOUS
    <3> DEFINE k == Len(got[c])
    <3>1. pos[c] \in Nat /\ k \in Nat /\ pos[c] + k <= l
      BY LenProperties DEF ClientInv
    <3> HIDE DEF k, l, m
    <3>2. pos[c] + k <= m
      BY <1>1, <3>1
    <3> QED BY <3>2 DEF k
  <2> QED BY <2>1 DEF ClientInv
<1>4. WireInv'
  <2>1. delivered \subseteq 0..l - 1
    BY DEF WireInv
  <2> HIDE DEF l, m
  <2>2. delivered \subseteq 0..m - 1
    BY <1>1, <2>1
  <2> QED BY <2>2 DEF WireInv, m
<1>5. SessionInv'
  BY DEF SessionInv
<1> QED BY <1>2, <1>3, <1>4, <1>5

(* The commit of a connection is the only one on it, and its client stands *)
(* behind it.                                                              *)
LEMMA IndHandleCommit ==
  ASSUME IInv, NEW k \in commits, HandleCommit(k)
  PROVE  IInv'
<1> USE DEF IInv, HandleCommit
<1>1. k.session \in 1..MaxSessions /\ k.offset \in Nat
  BY DEF WireInv
<1>2. ServerInv' /\ ClientInv' /\ WireInv'
  BY <1>1 DEF ServerInv, ClientInv, WireInv
<1>3. SessionInv'
  <2>1. \A l \in commits' : l \in commits /\ l.session # k.session
    BY DEF SessionInv
  <2> QED BY <2>1 DEF SessionInv
<1> QED BY <1>2, <1>3

(* A client takes a connection that nothing refers to.                     *)
LEMMA IndConnect ==
  ASSUME IInv, NEW c \in Clients, Connect(c)
  PROVE  IInv'
<1> DEFINE n == CHOOSE i \in Unused : TRUE
<1>1. n \in Unused
  BY DEF Connect
<1>2. /\ n \in 1..MaxSessions /\ n # by
      /\ \A k \in commits : k.session # n
      /\ \A d \in Clients : session[d] # n
  BY <1>1 DEF Unused, Range, IInv, ClientInv
<1>3. Keep(c, "position", n, 0, <<>>)
  BY DEF Connect
<1> HIDE DEF n
<1>4. /\ ClientInv'
      /\ pc'[c] = "position" /\ session'[c] = n
      /\ \A d \in Clients : d # c =>
           pc'[d] = pc[d] /\ session'[d] = session[d] /\ pos'[d] = pos[d]
  <2>1. n \in 0..MaxSessions /\ n # 0 /\ "position" \in Labels /\ <<>> \in Seq(Kinds)
    BY <1>2, EmptySeq, ConsumerAssumption DEF Labels
  <2> QED BY <1>3, <2>1, KeepProperties DEF IInv, Connect, serverVars
<1>5. ServerInv' /\ WireInv'
  BY DEF IInv, ServerInv, WireInv, Connect, serverVars
<1>6. UNCHANGED <<committed, by, commits>> /\ SessionInv
  BY DEF IInv, Connect, serverVars
<1>7. \A d, e \in Clients : session'[d] = session'[e] /\ pc'[d] # "idle" => d = e
  BY <1>2, <1>4, <1>6 DEF SessionInv
<1>8. \A d \in Clients, k \in commits :
        k.session = session'[d] => pc'[d] = "fetch" /\ pos'[d] >= k.offset
  BY <1>2, <1>4, <1>6 DEF SessionInv
<1>9. \A d \in Clients : pc'[d] # "idle" /\ session'[d] = by =>
        pc'[d] # "position" /\ pos'[d] >= committed
  BY <1>2, <1>4, <1>6 DEF SessionInv
<1>10. SessionInv'
  BY <1>6, <1>7, <1>8, <1>9 DEF SessionInv
<1> QED BY <1>4, <1>5, <1>10 DEF IInv

(* The commit a client sends for an offset.                                *)
CommitOf(c, o) == [session |-> session[c], offset |-> o]

(* A connected client goes on, or ends its connection; it may commit where *)
(* it stands when it had an answer.  It disturbs nobody.                   *)
LEMMA IndKeep ==
  ASSUME IInv, NEW c \in Clients, pc[c] # "idle",
         NEW l \in Labels \ {"position"}, NEW o \in Nat, NEW r \in Seq(Kinds),
         Keep(c, l, session[c], o, r),
         l = "got" /\ r # <<>> => o + Len(r) <= Len(log),
         o >= pos[c] \/ (pc[c] = "position" /\ o = committed),
         l = "got" => CommitsHandled(c),
         UNCHANGED serverVars,
         commits' \subseteq commits \cup {CommitOf(c, o)},
         commits' \subseteq commits \/ (pc[c] = "got" /\ l # "got")
  PROVE  /\ ServerInv' /\ ClientInv' /\ SessionInv'
         /\ commits' \subseteq [session : 1..MaxSessions, offset : Nat]
<1> USE DEF serverVars
<1>1. session[c] \in 1..MaxSessions
  BY Connected DEF IInv
<1>2. /\ ClientInv'
      /\ pc'[c] = l
      /\ l # "idle" => session'[c] = session[c] /\ pos'[c] = o
      /\ l = "idle" => session'[c] = 0
      /\ \A d \in Clients : d # c =>
           pc'[d] = pc[d] /\ session'[d] = session[d] /\ pos'[d] = pos[d]
  BY <1>1, KeepProperties DEF IInv
<1>3. ServerInv'
  BY DEF IInv, ServerInv
<1>4. /\ commits' \subseteq [session : 1..MaxSessions, offset : Nat]
      /\ \A k \in commits' : k.session # 0
  BY <1>1, ConsumerAssumption DEF IInv, WireInv, CommitOf
<1>5. ASSUME NEW d \in Clients, NEW e \in Clients, session'[d] = session'[e], pc'[d] # "idle"
      PROVE  d = e
  <2>1. session'[d] # 0 /\ session'[e] # 0 /\ pc'[e] # "idle"
    BY <1>2, <1>5 DEF ClientInv
  <2>2. session[d] = session'[d] /\ session[e] = session'[e] /\ pc[d] # "idle"
    BY <1>2, <1>5, <2>1
  <2> QED BY <1>5, <2>2 DEF IInv, SessionInv
<1>6. ASSUME NEW k \in commits', k \notin commits
      PROVE  /\ k.session = session[c] /\ k.offset = o
             /\ pc[c] = "got" /\ l \in {"idle", "fetch"} /\ o >= pos[c]
             /\ \A j \in commits : j.session # k.session
  <2>1. k.session = session[c] /\ k.offset = o /\ pc[c] = "got" /\ l # "got"
    BY <1>6 DEF CommitOf
  <2>2. \A j \in commits : j.session # session[c]
    BY <2>1 DEF IInv, SessionInv
  <2> QED BY <2>1, <2>2 DEF Labels
<1>7. \A j, k \in commits' : j.session = k.session => j = k
  BY <1>6 DEF IInv, SessionInv, CommitOf
<1>8. ASSUME NEW d \in Clients, NEW k \in commits', k.session = session'[d]
      PROVE  pc'[d] = "fetch" /\ pos'[d] >= k.offset
  <2>1. CASE d # c /\ k \in commits
    BY <1>2, <1>8, <2>1 DEF IInv, SessionInv
  <2>2. CASE d # c /\ k \notin commits
    <3>1. session[d] = session[c]
      BY <1>2, <1>6, <1>8, <2>2
    <3> QED BY <2>2, <3>1 DEF IInv, SessionInv
  <2>3. CASE d = c
    <3>1. l # "idle" /\ k.session = session[c]
      BY <1>2, <1>4, <1>8, <2>3
    <3>2. CASE k \in commits
      <4>1. pc[c] = "fetch" /\ pos[c] >= k.offset
        BY <3>1, <3>2 DEF IInv, SessionInv
      <4>2. l = "fetch"
        BY <3>1, <3>2 DEF Labels, CommitsHandled
      <4>3. o >= k.offset
        BY <3>2, <4>1 DEF IInv, ClientInv, WireInv
      <4> QED BY <1>2, <2>3, <4>2, <4>3
    <3>3. CASE k \notin commits
      BY <1>2, <1>6, <2>3, <3>1, <3>3
    <3> QED BY <3>2, <3>3
  <2> QED BY <2>1, <2>2, <2>3
<1>9. o >= committed \/ session[c] # by
  <2>1. ASSUME session[c] = by PROVE pc[c] # "position" /\ pos[c] >= committed
    BY <2>1 DEF IInv, SessionInv
  <2> QED BY <2>1 DEF IInv, ClientInv, ServerInv
<1>10. ASSUME NEW d \in Clients, pc'[d] # "idle", session'[d] = by
       PROVE  pc'[d] # "position" /\ pos'[d] >= committed
  <2>1. CASE d # c
    BY <1>2, <1>10, <2>1 DEF IInv, SessionInv
  <2>2. CASE d = c
    BY <1>2, <1>9, <1>10, <2>2
  <2> QED BY <2>1, <2>2
<1>11. \A k \in commits' : k.session = by => k.offset >= committed
  BY <1>6, <1>9 DEF IInv, SessionInv
<1>12. SessionInv'
  BY <1>5, <1>7, <1>8, <1>10, <1>11 DEF SessionInv
<1> QED BY <1>2, <1>3, <1>4, <1>12

(* The server answers; a client connection that has an answer has no       *)
(* commit.                                                                 *)
LEMMA IndAnswer ==
  ASSUME IInv, NEW c \in Clients, AnswerPosition(c) \/ AnswerFetch(c)
  PROVE  IInv'
<1>1. WireInv'
  BY DEF IInv, WireInv, AnswerPosition, AnswerFetch, Answer, serverVars
<1>2. CASE AnswerPosition(c)
  <2>1. "fetch" \in Labels \ {"position"} /\ <<>> \in Seq(Kinds) /\ committed \in Nat
    BY EmptySeq DEF Labels, IInv, ServerInv
  <2>2. ServerInv' /\ ClientInv' /\ SessionInv'
    BY <1>2, <2>1, IndKeep DEF AnswerPosition, serverVars
  <2> QED BY <1>1, <2>2 DEF IInv
<1>3. CASE AnswerFetch(c)
  <2> DEFINE r == SubSeq(log, pos[c] + 1, Len(log))
  <2>1. pos[c] \in Nat /\ log \in Seq(Kinds)
    BY DEF IInv, ClientInv, ServerInv
  <2>2. r \in Seq(Kinds) /\ (r # <<>> => pos[c] + Len(r) = Len(log))
    BY <2>1, SuffixProperties
  <2>3. /\ Keep(c, "got", session[c], pos[c], r) /\ pc[c] = "fetch"
        /\ CommitsHandled(c)
        /\ UNCHANGED <<serverVars, commits>>
    BY <1>3 DEF AnswerFetch, Answer
  <2> HIDE DEF r
  <2>4. (r # <<>> => pos[c] + Len(r) <= Len(log)) /\ pos[c] >= pos[c]
    <3> DEFINE k == Len(log)
    <3>1. k \in Nat /\ (r # <<>> => pos[c] + Len(r) = k)
      BY <2>1, <2>2, LenProperties
    <3> HIDE DEF k
    <3>2. (r # <<>> => pos[c] + Len(r) <= k) /\ pos[c] >= pos[c]
      BY <2>1, <3>1
    <3> QED BY <3>2 DEF k
  <2>5. "got" \in Labels \ {"position"}
    BY DEF Labels
  <2>6. ServerInv' /\ ClientInv' /\ SessionInv'
    BY <2>1, <2>2, <2>3, <2>4, <2>5, IndKeep
  <2> QED BY <1>1, <2>6 DEF IInv
<1> QED BY <1>2, <1>3

(* A connection ends; that of an idle client is none.                      *)
LEMMA KeepNothing ==
  ASSUME NEW c \in Clients, Keep(c, "idle", 0, 0, <<>>)
  PROVE  Keep(c, "idle", session[c], pos[c], <<>>)
BY DEF Keep

(* What is delivered is in the topic.                                      *)
LEMMA DeliverProperties ==
  ASSUME IInv, NEW c \in Clients, NEW n \in Nat, Deliver(c, n), n <= Len(got[c])
  PROVE  delivered' \subseteq 0..Len(log) - 1
<1>1. got[c] \in Seq(Kinds) /\ got[c] # <<>> /\ pos[c] \in Nat
  BY DEF Deliver, NoBytes, IInv, ClientInv
<1> DEFINE l == Len(got[c])
           k == Len(log)
<1>2. l \in Nat /\ k \in Nat /\ n <= l /\ pos[c] + l <= k
  BY <1>1, LenProperties DEF IInv, ClientInv, ServerInv
<1>3. delivered \subseteq 0..k - 1
  BY DEF IInv, WireInv
<1> HIDE DEF l, k
<1>4. pos[c]..(pos[c] + n - 1) \subseteq 0..k - 1
  BY <1>1, <1>2
<1>5. delivered' \subseteq 0..k - 1
  BY <1>3, <1>4 DEF Deliver
<1> QED BY <1>5 DEF k

(* What ReadRecords gives to its caller and what it commits.               *)
LEMMA ReadProperties ==
  ASSUME IInv, NEW c \in Clients, NEW m \in Missing(c), got[c] # <<>>
  PROVE  /\ Given(c, m) \in Nat /\ Given(c, m) <= Len(got[c])
         /\ Counted(c, m) \in Nat
<1>1. got[c] \in Seq(Kinds)
  BY DEF IInv, ClientInv
<1> DEFINE l == Len(got[c])
           n == Count(got[c])
<1>2. l \in Nat /\ n \in Nat /\ l # 0
  BY <1>1, LenProperties, EmptySeq, CountProperties
<1>3. CASE IsStream(c)
  <2>1. Given(c, m) = 1 /\ Counted(c, m) = StreamRows
    BY <1>3 DEF Given, Counted
  <2> HIDE DEF l, n
  <2>2. 1 <= l
    BY <1>2
  <2> USE DEF l
  <2> QED BY <2>1, <2>2, ConsumerAssumption
<1>4. CASE ~IsStream(c)
  <2>1. Given(c, m) = l - m /\ Counted(c, m) = n + m
    BY <1>4 DEF Given, Counted
  <2>2. m \in 0..(IF ShortReads THEN l ELSE 0)
    BY <1>4 DEF Missing
  <2> HIDE DEF l, n
  <2>3. l - m \in Nat /\ l - m <= l /\ n + m \in Nat
    BY <1>2, <2>2
  <2> USE DEF l
  <2> QED BY <2>1, <2>3
<1> QED BY <1>3, <1>4

(* A client reads its answer, or goes without one.                         *)
LEMMA IndRead ==
  ASSUME IInv, NEW c \in Clients,
         ReadNothing(c) \/ ReadRecords(c) \/ PrintFails(c) \/ StreamFails(c)
  PROVE  IInv'
<1>1. /\ Onwards(c) \in Labels \ {"position"} /\ "idle" \in Labels \ {"position"}
      /\ Onwards(c) # "got" /\ <<>> \in Seq(Kinds)
  BY EmptySeq DEF Onwards, Labels
<1>2. pos[c] \in Nat /\ got[c] \in Seq(Kinds) /\ pos[c] >= pos[c]
  BY DEF IInv, ClientInv
<1>3. CASE ReadNothing(c)
  <2>1. pc[c] = "got" /\ Keep(c, Onwards(c), session[c], pos[c], <<>>)
        /\ UNCHANGED <<serverVars, commits, delivered, failures>>
    BY <1>3 DEF ReadNothing
  <2>2. ServerInv' /\ ClientInv' /\ SessionInv'
    BY <1>1, <1>2, <2>1, IndKeep
  <2> QED BY <2>1, <2>2 DEF IInv, WireInv, serverVars
<1>4. CASE ReadRecords(c)
  <2>1. PICK m \in Missing(c) :
          LET o == pos[c] + Counted(c, m) IN
          /\ Deliver(c, Given(c, m))
          /\ commits' = commits \cup {CommitOf(c, o)}
          /\ Keep(c, IF m > 0 THEN "idle" ELSE Onwards(c), session[c], o, <<>>)
    BY <1>4 DEF ReadRecords, CommitOf
  <2> DEFINE o == pos[c] + Counted(c, m)
  <2>2. /\ pc[c] = "got" /\ got[c] # <<>>
        /\ UNCHANGED <<serverVars, failures>>
    BY <2>1 DEF Deliver, NoBytes
  <2>3. Given(c, m) \in Nat /\ Given(c, m) <= Len(got[c]) /\ Counted(c, m) \in Nat
    BY <2>2, ReadProperties
  <2>4. o \in Nat /\ o >= pos[c]
    BY <1>2, <2>3
  <2>5. delivered' \subseteq 0..Len(log) - 1
    BY <2>1, <2>3, DeliverProperties
  <2> DEFINE l == IF m > 0 THEN "idle" ELSE Onwards(c)
  <2>6. l \in Labels \ {"position"} /\ l # "got"
    BY <1>1
  <2>7. Keep(c, l, session[c], o, <<>>) /\ commits' = commits \cup {CommitOf(c, o)}
    BY <2>1
  <2> HIDE DEF l, o
  <2>8. /\ ServerInv' /\ ClientInv' /\ SessionInv'
        /\ commits' \subseteq [session : 1..MaxSessions, offset : Nat]
    BY <1>1, <2>2, <2>4, <2>6, <2>7, IndKeep
  <2> QED BY <2>2, <2>5, <2>8 DEF IInv, WireInv, serverVars
<1>5. CASE PrintFails(c)
  <2>1. PICK n \in DOMAIN got[c] : Deliver(c, n - 1)
    BY <1>5 DEF PrintFails
  <2>2. n - 1 \in Nat /\ n - 1 <= Len(got[c])
    <3> DEFINE k == Len(got[c])
    <3>1. k \in Nat /\ n \in 1..k
      BY <1>2, <2>1, LenProperties
    <3> HIDE DEF k
    <3>2. n - 1 \in Nat /\ n - 1 <= k
      BY <3>1
    <3> QED BY <3>2 DEF k
  <2>3. delivered' \subseteq 0..Len(log) - 1
    BY <2>1, <2>2, DeliverProperties
  <2>4. /\ pc[c] = "got" /\ Keep(c, "idle", session[c], pos[c], <<>>)
        /\ UNCHANGED <<serverVars, commits, failures>>
    BY <1>5, <2>1, KeepNothing DEF PrintFails, Deliver
  <2>5. ServerInv' /\ ClientInv' /\ SessionInv'
    BY <1>1, <1>2, <2>4, IndKeep
  <2> QED BY <2>3, <2>4, <2>5 DEF IInv, WireInv, serverVars
<1>6. CASE StreamFails(c)
  <2>1. /\ pc[c] = "got" /\ Keep(c, "idle", session[c], pos[c], <<>>)
        /\ UNCHANGED <<serverVars, commits, delivered, failures>>
    BY <1>6, KeepNothing DEF StreamFails
  <2>2. ServerInv' /\ ClientInv' /\ SessionInv'
    BY <1>1, <1>2, <2>1, IndKeep
  <2> QED BY <2>1, <2>2 DEF IInv, WireInv, serverVars
<1> QED BY <1>3, <1>4, <1>5, <1>6

(* The storage is blocked; the clients do not know.                        *)
LEMMA IndBlock ==
  ASSUME IInv, NEW c \in Clients, Block(c)
  PROVE  IInv'
BY DEF Block, IInv, ServerInv, ClientInv, WireInv, SessionInv

(* A connection breaks, or all of them do.                                 *)
LEMMA IndFail ==
  ASSUME IInv, Crash \/ \E c \in Clients : Disconnect(c)
  PROVE  IInv'
<1>1. failures' \in 0..MaxFailures
  BY ConsumerAssumption DEF Crash, Disconnect, Fail, IInv, WireInv
<1>2. CASE Crash
  <2>1. <<>> \in Seq(Kinds) /\ 0 \in 0..MaxSessions /\ "idle" \in Labels
    BY EmptySeq, ConsumerAssumption DEF Labels
  <2>2. ServerInv' /\ WireInv'
    BY <1>1, <1>2 DEF Crash, Fail, IInv, ServerInv, WireInv, serverVars
  <2>3. ClientInv' /\ SessionInv'
    BY <1>2, <2>1 DEF Crash, ClientInv, SessionInv
  <2> QED BY <2>2, <2>3 DEF IInv
<1>3. ASSUME NEW c \in Clients, Disconnect(c) PROVE IInv'
  <2>1. /\ "idle" \in Labels \ {"position"} /\ <<>> \in Seq(Kinds)
        /\ pos[c] \in Nat /\ pos[c] >= pos[c]
    BY EmptySeq DEF Labels, IInv, ClientInv
  <2>2. /\ pc[c] # "idle" /\ Keep(c, "idle", session[c], pos[c], <<>>)
        /\ UNCHANGED <<serverVars, delivered>> /\ commits' \subseteq commits
    BY <1>3, KeepNothing DEF Disconnect, Fail, serverVars
  <2>3. ServerInv' /\ ClientInv' /\ SessionInv'
    BY <2>1, <2>2, IndKeep
  <2> QED BY <1>1, <2>2, <2>3 DEF IInv, WireInv, serverVars
<1> QED BY <1>2, <1>3

(* Every step preserves the invariant.                                     *)
LEMMA IndNext == IInv /\ [Next]_vars => IInv'
<1> SUFFICES ASSUME IInv, [Next]_vars PROVE IInv'
  OBVIOUS
<1>1. CASE Next
  BY <1>1, IndPublish, IndHandleCommit, IndConnect, IndAnswer, IndRead, IndBlock,
     IndFail DEF Next, Step
<1>2. CASE UNCHANGED vars
  BY <1>2 DEF vars, serverVars, IInv, ServerInv, ClientInv, WireInv, SessionInv
<1> QED BY <1>1, <1>2

(* The invariant holds in every state.                                     *)
LEMMA Inductive == Spec => []IInv
BY IndInit, IndNext, PTL DEF Spec

-----------------------------------------------------------------------------
(* Theorems *)

(* Every variable has its type: the offsets at which something was given   *)
(* to a client are offsets of records that the topic has, however far      *)
(* behind its end clients have counted.                                    *)
THEOREM TypeCorrect == Spec => []TypeOK
<1>1. IInv => TypeOK
  BY DEF IInv, ServerInv, ClientInv, WireInv, TypeOK, Labels
<1> QED BY <1>1, Inductive, PTL

(* The commits of one connection never move the committed offset back,     *)
(* whatever the records are and however the client counts them             *)
(* (src/client.rs:151-176, src/kafka_api/offset_commit.rs:22-59).          *)
THEOREM CommitsGrow == Spec => SessionCommitsGrow
<1>1. ASSUME IInv, Next, committed' # committed, by' = by
      PROVE  committed' > committed
  <2>1. PICK k \in commits : HandleCommit(k)
    BY <1>1 DEF Next, Publish, Connect, Block, Disconnect, Step, AnswerPosition, AnswerFetch,
                Answer, ReadNothing, ReadRecords, PrintFails, StreamFails, Deliver, Crash, Fail, serverVars
  <2>2. committed' = k.offset /\ k.offset >= committed
    BY <1>1, <2>1 DEF HandleCommit, IInv, SessionInv
  <2>3. committed \in Nat /\ k.offset \in Nat
    BY <1>1 DEF IInv, ServerInv, WireInv
  <2> QED BY <1>1, <2>2, <2>3
<1>2. IInv /\ [Next]_vars =>
        [committed' # committed /\ by' = by => committed' > committed]_vars
  BY <1>1
<1> QED BY <1>2, Inductive, PTL DEF Spec, SessionCommitsGrow

-----------------------------------------------------------------------------
(* Records without zero bytes, read whole *)

(* Where a client stands, everything before it was delivered.              *)
Behind ==
  \A c \in Clients : pc[c] \in {"fetch", "got"} => 0..pos[c] - 1 \subseteq delivered

(* A client goes on to an offset before which everything was delivered.    *)
LEMMA KeepBehind ==
  ASSUME IInv, Behind, NEW c \in Clients, NEW l, NEW n, NEW o, NEW r,
         Keep(c, l, n, o, r), delivered \subseteq delivered',
         l \in {"fetch", "got"} => 0..o - 1 \subseteq delivered'
  PROVE  Behind'
<1>1. pc'[c] = l /\ (l # "idle" => pos'[c] = o)
  BY DEF Keep, Goto, IInv, ClientInv
<1>2. \A d \in Clients : d # c => pc'[d] = pc[d] /\ pos'[d] = pos[d]
  BY DEF Keep, Goto, IInv, ClientInv
<1> SUFFICES ASSUME NEW d \in Clients, pc'[d] \in {"fetch", "got"}
             PROVE  0..pos'[d] - 1 \subseteq delivered'
  BY DEF Behind
<1>3. CASE d = c
  BY <1>1, <1>3
<1>4. CASE d # c
  BY <1>2, <1>4 DEF Behind
<1> QED BY <1>3, <1>4

(* Without zero bytes and partial reads, a client commits the offset       *)
(* behind what it was given.                                               *)
LEMMA ReadBehind ==
  ASSUME Kinds \cap {"nul", "stream"} = {}, ~ShortReads,
         IInv, Behind, NothingSkipped, NEW c \in Clients, ReadRecords(c)
  PROVE  Behind' /\ NothingSkipped'
<1>1. got[c] \in Seq(Kinds) /\ pos[c] \in Nat
  BY DEF IInv, ClientInv
<1>2. ~IsStream(c)
  <2> SUFFICES ASSUME IsStream(c) PROVE FALSE
    OBVIOUS
  <2>1. got[c] # <<>> /\ Head(got[c]) = "stream"
    BY DEF ReadRecords, IsStream
  <2>2. Head(got[c]) \in Kinds
    BY <1>1, <2>1, HeadTailProperties
  <2> QED BY <2>1, <2>2
<1> DEFINE l == Len(got[c])
           o == pos[c] + l
<1>3. l \in Nat
  BY <1>1, LenProperties
<1>4. \A m \in Missing(c) : m = 0
  BY <1>2 DEF Missing
<1>5. Given(c, 0) = l - 0 /\ Counted(c, 0) = l + 0
  BY <1>1, <1>2, CountProperties DEF Given, Counted
<1>6. Given(c, 0) = l /\ Counted(c, 0) = l
  <2> HIDE DEF l
  <2> QED BY <1>3, <1>5
<1>7. /\ Deliver(c, l)
      /\ commits' = commits \cup {[session |-> session[c], offset |-> o]}
      /\ \E k \in {"idle", Onwards(c)} : Keep(c, k, session[c], o, <<>>)
  BY <1>4, <1>6 DEF ReadRecords
<1>8. pc[c] = "got" /\ delivered' = delivered \cup pos[c]..(pos[c] + l - 1)
      /\ committed' = committed
  BY <1>7 DEF Deliver, serverVars
<1> HIDE DEF l
<1>9. 0..o - 1 \subseteq delivered'
  <2>1. 0..pos[c] - 1 \subseteq delivered
    BY <1>8 DEF Behind
  <2>2. 0..o - 1 \subseteq (0..pos[c] - 1) \cup (pos[c]..(pos[c] + l - 1))
    BY <1>1, <1>3
  <2> QED BY <1>8, <2>1, <2>2
<1>10. Behind'
  <2> HIDE DEF o
  <2>1. delivered \subseteq delivered'
    BY <1>8
  <2> QED BY <1>7, <1>9, <2>1, KeepBehind
<1>11. NothingSkipped'
  <2> HIDE DEF o
  <2> SUFFICES ASSUME NEW i \in {committed} \cup {k.offset : k \in commits} \cup {o}
               PROVE  0..i - 1 \subseteq delivered'
    BY <1>7, <1>8 DEF NothingSkipped
  <2>1. CASE i = o
    BY <1>9, <2>1
  <2>2. CASE i # o
    BY <1>8, <2>2 DEF NothingSkipped
  <2> QED BY <2>1, <2>2
<1> QED BY <1>10, <1>11

(* Every step keeps it so.                                                 *)
LEMMA BehindNext ==
  ASSUME Kinds \cap {"nul", "stream"} = {}, ~ShortReads
  PROVE  IInv /\ Behind /\ NothingSkipped /\ [Next]_vars => Behind' /\ NothingSkipped'
<1> SUFFICES ASSUME IInv, Behind, NothingSkipped, [Next]_vars
             PROVE  Behind' /\ NothingSkipped'
  OBVIOUS
<1>1. ASSUME delivered \subseteq delivered', committed' = committed, commits' \subseteq commits
      PROVE  NothingSkipped'
  BY <1>1 DEF NothingSkipped
<1>2. ASSUME NEW kind \in Kinds, Publish(kind) PROVE Behind' /\ NothingSkipped'
  BY <1>2 DEF Publish, Behind, NothingSkipped
<1>3. ASSUME NEW k \in commits, HandleCommit(k) PROVE Behind' /\ NothingSkipped'
  BY <1>3 DEF HandleCommit, Behind, NothingSkipped
<1>4. ASSUME NEW c \in Clients, Connect(c) PROVE Behind' /\ NothingSkipped'
  BY <1>1, <1>4, KeepBehind DEF Connect, serverVars
<1>5. ASSUME NEW c \in Clients, AnswerPosition(c) PROVE Behind' /\ NothingSkipped'
  <2>1. 0..committed - 1 \subseteq delivered
    BY DEF NothingSkipped
  <2> QED BY <1>1, <1>5, <2>1, KeepBehind DEF AnswerPosition, serverVars
<1>6. ASSUME NEW c \in Clients, AnswerFetch(c) PROVE Behind' /\ NothingSkipped'
  <2>1. 0..pos[c] - 1 \subseteq delivered
    BY <1>6 DEF Behind, AnswerFetch, Answer
  <2> QED BY <1>1, <1>6, <2>1, KeepBehind DEF AnswerFetch, Answer, serverVars
<1>7. ASSUME NEW c \in Clients, ReadNothing(c) PROVE Behind' /\ NothingSkipped'
  <2>1. 0..pos[c] - 1 \subseteq delivered
    BY <1>7 DEF Behind, ReadNothing
  <2> QED BY <1>1, <1>7, <2>1, KeepBehind DEF ReadNothing, serverVars
<1>8. ASSUME NEW c \in Clients, ReadRecords(c) PROVE Behind' /\ NothingSkipped'
  BY <1>8, ReadBehind
<1>9. ASSUME NEW c \in Clients, PrintFails(c) PROVE Behind' /\ NothingSkipped'
  <2>1. Keep(c, "idle", 0, 0, <<>>) /\ delivered \subseteq delivered'
        /\ committed' = committed /\ commits' = commits
    BY <1>9 DEF PrintFails, Deliver, serverVars
  <2> QED BY <1>1, <2>1, KeepBehind
<1>10. ASSUME NEW c \in Clients, Disconnect(c) PROVE Behind' /\ NothingSkipped'
  <2>1. Keep(c, "idle", 0, 0, <<>>) /\ delivered \subseteq delivered'
        /\ committed' = committed /\ commits' \subseteq commits
    BY <1>10 DEF Disconnect, Fail, serverVars
  <2> QED BY <1>1, <2>1, KeepBehind
<1>11. CASE Crash
  BY <1>1, <1>11 DEF Crash, Fail, serverVars, Behind
<1>12. ASSUME NEW c \in Clients, StreamFails(c) PROVE Behind' /\ NothingSkipped'
  <2>1. Keep(c, "idle", 0, 0, <<>>) /\ UNCHANGED <<committed, commits, delivered>>
    BY <1>12 DEF StreamFails, serverVars
  <2> QED BY <1>1, <2>1, KeepBehind
<1>13. ASSUME NEW c \in Clients, Block(c) PROVE Behind' /\ NothingSkipped'
  BY <1>13 DEF Block, Behind, NothingSkipped
<1>14. CASE UNCHANGED vars
  BY <1>14 DEF vars, serverVars, Behind, NothingSkipped
<1> QED BY <1>2, <1>3, <1>4, <1>5, <1>6, <1>7, <1>8, <1>9, <1>10, <1>11,
          <1>12, <1>13, <1>14 DEF Next, Step

(* No consumer of a group ever misses a record: neither other consumers,   *)
(* late commits, lost ones nor crashes move the group's offset over a      *)
(* record that nobody was given.  That no record has a zero byte in it and *)
(* every answer is read at once is needed: run consumer_miscount.          *)
THEOREM NoRecordSkipped ==
  ASSUME Kinds \cap {"nul", "stream"} = {}, ~ShortReads
  PROVE  Spec => []NothingSkipped
<1>1. Init => Behind /\ NothingSkipped
  BY DEF Init, Behind, NothingSkipped
<1>2. IInv /\ Behind /\ NothingSkipped /\ [Next]_vars => Behind' /\ NothingSkipped'
  BY BehindNext
<1> QED BY <1>1, <1>2, Inductive, PTL DEF Spec

=============================================================================
