------------------------- MODULE InMemoryLogProofs -------------------------
(***************************************************************************)
(* The index of the storage counts the rows of its records, a fetch finds  *)
(* the row it has looked up, and its answer is the rows of the topic from  *)
(* there on, for any number of requests, topics, records and rows.  The    *)
(* argument is about one record more: what it adds to the rows of a topic, *)
(* to its index, and to the answer that every entry of the index leads to. *)
(***************************************************************************)
EXTENDS InMemoryLog, SequenceLemmas

Record == [id : 1..MaxRecords, form : Form]

(* The entries of the index that the record at place n gets.               *)
Entries(r, n) == [i \in DOMAIN RowsOf(r) |-> [batch_index |-> n, row_offset |-> i - 1]]

(* A record has as many rows as its form says.                             *)
LEMMA RowsOfProperties ==
  ASSUME NEW r \in Record
  PROVE  /\ RowsOf(r) \in Seq(Row)
         /\ Len(RowsOf(r)) \in Nat /\ DOMAIN RowsOf(r) = 1..Len(RowsOf(r))
         /\ r.form = Raw => Len(RowsOf(r)) = 1
<1> DEFINE n == IF r.form = Raw THEN 1 ELSE r.form
<1>1. n \in Nat
  BY LogAssumption DEF Record, Form
<1>2. RowsOf(r) = [i \in 1..n |-> <<r.id, i - 1>>]
  BY DEF RowsOf
<1>3. \A i \in 1..n : <<r.id, i - 1>> \in Row
  BY DEF Row, Record
<1>4. r.form = Raw => n = 1
  OBVIOUS
<1> HIDE DEF n
<1>5. RowsOf(r) \in Seq(Row)
  BY <1>1, <1>2, <1>3, IsASeq
<1>6. Len(RowsOf(r)) \in Nat /\ DOMAIN RowsOf(r) = 1..Len(RowsOf(r))
  BY <1>5, LenProperties
<1>7. DOMAIN RowsOf(r) = 1..n
  BY <1>2
<1> QED BY <1>1, <1>4, <1>5, <1>6, <1>7

(* Its entries are as many, and they are the rows in their order.          *)
LEMMA EntriesProperties ==
  ASSUME NEW r \in Record, NEW n \in Nat
  PROVE  /\ Entries(r, n) \in Seq(RecordOffset)
         /\ Len(Entries(r, n)) = Len(RowsOf(r))
         /\ \A i \in 1..Len(RowsOf(r)) :
              Entries(r, n)[i] = [batch_index |-> n, row_offset |-> i - 1]
<1> DEFINE l == Len(RowsOf(r))
           E(i) == [batch_index |-> n, row_offset |-> i - 1]
<1>1. l \in Nat /\ DOMAIN RowsOf(r) = 1..l
  BY RowsOfProperties
<1>2. Entries(r, n) = [i \in 1..l |-> E(i)]
  BY <1>1 DEF Entries
<1>3. \A i \in 1..l : E(i) \in RecordOffset
  BY DEF RecordOffset
<1>4. [i \in 1..l |-> E(i)] \in Seq(RecordOffset)
  <2> HIDE DEF l, E
  <2> QED BY <1>1, <1>3, IsASeq
<1>5. Entries(r, n) \in Seq(RecordOffset) /\ DOMAIN Entries(r, n) = 1..l
  <2> HIDE DEF l
  <2> QED BY <1>2, <1>4
<1>6. Len(Entries(r, n)) = l
  <2> HIDE DEF l
  <2>1. Len(Entries(r, n)) \in Nat /\ DOMAIN Entries(r, n) = 1..Len(Entries(r, n))
    BY <1>5, LenProperties
  <2> QED BY <1>1, <1>5, <2>1
<1> QED BY <1>2, <1>5, <1>6

(* A row that is there stays there when a record is pushed.                *)
LEMMA RowsStay ==
  ASSUME NEW queue \in Seq(Record), NEW r \in Record, NEW o \in RecordOffset,
         IsRowOf(queue, o)
  PROVE  IsRowOf(Append(queue, r), o)
<1>1. /\ Len(queue) \in Nat /\ Len(Append(queue, r)) = Len(queue) + 1
      /\ \A i \in 1..Len(queue) : Append(queue, r)[i] = queue[i]
  BY AppendProperties, LenProperties
<1>2. o.batch_index \in Nat /\ o.batch_index < Len(queue)
  BY DEF IsRowOf, RecordOffset
<1>3. o.batch_index + 1 \in 1..Len(queue) /\ o.batch_index < Len(queue) + 1
  BY <1>1, <1>2
<1> QED BY <1>1, <1>3 DEF IsRowOf

(* The entries of a record that is pushed go behind those of the others.   *)
LEMMA IndexAppend ==
  ASSUME NEW queue \in Seq(Record), NEW index \in Seq(RecordOffset), NEW r \in Record,
         CountsRows(queue, index)
  PROVE  CountsRows(Append(queue, r), index \o Entries(r, Len(queue)))
<1> DEFINE q == Append(queue, r)
           e == Entries(r, Len(queue))
           s == index \o e
           k == Len(queue)
           m == Len(index)
           l == Len(RowsOf(r))
<1>1. /\ k \in Nat /\ DOMAIN queue = 1..k
      /\ q \in Seq(Record) /\ Len(q) = k + 1 /\ DOMAIN q = 1..k + 1
      /\ q[k + 1] = r /\ \A i \in 1..k : q[i] = queue[i]
  BY AppendProperties, LenProperties
<1>2. /\ l \in Nat /\ DOMAIN RowsOf(r) = 1..l
      /\ e \in Seq(RecordOffset) /\ Len(e) = l
      /\ \A i \in 1..l : e[i] = [batch_index |-> k, row_offset |-> i - 1]
  BY <1>1, RowsOfProperties, EntriesProperties
<1>3. m \in Nat /\ DOMAIN index = 1..m /\ \A i \in 1..m : index[i] \in RecordOffset
  BY LenProperties
<1>4. /\ s \in Seq(RecordOffset) /\ DOMAIN s = 1..m + l
      /\ \A i \in 1..m : s[i] = index[i]
      /\ \A i \in 1..l : s[m + i] = e[i]
  <2>1. /\ s \in Seq(RecordOffset) /\ Len(s) = m + l
        /\ \A i \in 1..m + l : s[i] = IF i <= m THEN index[i] ELSE e[i - m]
    <3>1. index \in Seq(RecordOffset) /\ e \in Seq(RecordOffset) /\ Len(e) = l
      BY <1>2
    <3> HIDE DEF e, l
    <3> QED BY <3>1, ConcatProperties
  <2>2. DOMAIN s = 1..m + l
    <3> HIDE DEF s, m, l
    <3> QED BY <2>1, LenProperties
  <2>3. \A i \in 1..m : i \in 1..m + l /\ i <= m
    <3> HIDE DEF m, l
    <3> QED BY <1>2, <1>3
  <2> HIDE DEF s, m, l, e
  <2>4. \A i \in 1..m : s[i] = index[i]
    BY <2>1, <2>3
  <2>5. ASSUME NEW i \in 1..l PROVE s[m + i] = e[i]
    <3> DEFINE j == m + i
    <3>1. j \in 1..m + l /\ ~(j <= m) /\ j - m = i
      BY <1>2, <1>3
    <3> HIDE DEF j
    <3>2. s[j] = e[j - m]
      BY <2>1, <3>1
    <3> QED BY <3>1, <3>2 DEF j
  <2> QED BY <2>1, <2>2, <2>4, <2>5
<1>5. \A n \in DOMAIN s : n \in 1..m \/ \E i \in 1..l : n = m + i
  <2> HIDE DEF s, m, l, e
  <2> SUFFICES ASSUME NEW n \in 1..m + l, n \notin 1..m
               PROVE  \E i \in 1..l : n = m + i
    BY <1>4
  <2>1. n - m \in 1..l /\ n = m + (n - m)
    BY <1>2, <1>3
  <2> QED BY <2>1
<1> HIDE DEF q, s, k, m, l, e
<1>6. ASSUME NEW n \in DOMAIN s PROVE IsRowOf(q, s[n])
  <2>1. CASE n \in 1..m
    <3>1. IsRowOf(queue, index[n])
      BY <1>3, <2>1 DEF CountsRows
    <3> QED BY <1>3, <1>4, <2>1, <3>1, RowsStay DEF q
  <2>2. ASSUME NEW i \in 1..l, n = m + i PROVE IsRowOf(q, s[n])
    <3>1. s[n] = [batch_index |-> k, row_offset |-> i - 1]
      BY <1>2, <1>4, <2>2
    <3>2. k < Len(q) /\ i - 1 < l
      BY <1>1, <1>2
    <3> QED BY <1>1, <3>1, <3>2 DEF IsRowOf, l
  <2> QED BY <1>5, <2>1, <2>2
<1>7. ASSUME NEW i \in DOMAIN q, NEW j \in DOMAIN RowsOf(q[i])
      PROVE  \E n \in DOMAIN s : s[n] = [batch_index |-> i - 1, row_offset |-> j - 1]
  <2>1. CASE i \in 1..k
    <3>1. j \in DOMAIN RowsOf(queue[i])
      BY <1>1, <2>1
    <3>2. PICK n \in DOMAIN index : index[n] = [batch_index |-> i - 1, row_offset |-> j - 1]
      BY <1>1, <2>1, <3>1 DEF CountsRows
    <3>3. n \in DOMAIN s /\ s[n] = index[n]
      BY <1>2, <1>3, <1>4
    <3> QED BY <3>2, <3>3
  <2>2. CASE i = k + 1
    <3>1. j \in 1..l
      BY <1>1, <1>2, <2>2
    <3>2. m + j \in DOMAIN s /\ s[m + j] = [batch_index |-> k, row_offset |-> j - 1]
      BY <1>2, <1>3, <1>4, <3>1
    <3>3. i - 1 = k
      BY <1>1, <2>2
    <3> QED BY <3>2, <3>3
  <2> QED BY <1>1, <2>1, <2>2
<1>8. ASSUME NEW a \in DOMAIN s, NEW b \in DOMAIN s, a < b
      PROVE  Before(s[a], s[b])
  <2>1. CASE b \in 1..m
    <3>1. a \in 1..m
      BY <1>2, <1>3, <1>4, <1>8, <2>1
    <3> QED BY <1>3, <1>4, <1>8, <2>1, <3>1 DEF CountsRows
  <2>2. ASSUME NEW i \in 1..l, b = m + i PROVE Before(s[a], s[b])
    <3>1. s[b] = [batch_index |-> k, row_offset |-> i - 1]
      BY <1>2, <1>4, <2>2
    <3>2. CASE a \in 1..m
      <4>1. s[a] \in RecordOffset /\ IsRowOf(queue, s[a])
        BY <1>3, <1>4, <3>2 DEF CountsRows
      <4>2. s[a].batch_index < k
        BY <4>1 DEF IsRowOf, k
      <4> QED BY <3>1, <4>2 DEF Before
    <3>3. ASSUME NEW h \in 1..l, a = m + h PROVE Before(s[a], s[b])
      <4>1. s[a] = [batch_index |-> k, row_offset |-> h - 1]
        BY <1>2, <1>4, <3>3
      <4>2. h - 1 < i - 1
        BY <1>2, <1>3, <1>8, <2>2, <3>3
      <4> QED BY <3>1, <4>1, <4>2 DEF Before
    <3> QED BY <1>5, <3>2, <3>3
  <2> QED BY <1>5, <2>1, <2>2
<1>9. CountsRows(q, s)
  BY <1>6, <1>7, <1>8 DEF CountsRows
<1> QED BY <1>9 DEF q, s, e

-----------------------------------------------------------------------------
(* What one more record adds to an answer *)

(* A record is appended.                                                   *)
LEMMA Appended ==
  ASSUME NEW queue \in Seq(Record), NEW r \in Record
  PROVE  /\ Len(queue) \in Nat /\ DOMAIN queue = 1..Len(queue)
         /\ Append(queue, r) \in Seq(Record) /\ Len(Append(queue, r)) = Len(queue) + 1
         /\ DOMAIN Append(queue, r) = 1..Len(queue) + 1
         /\ \A i \in 1..Len(queue) : queue[i] \in Record /\ Append(queue, r)[i] = queue[i]
         /\ Append(queue, r)[Len(queue) + 1] = r
<1> DEFINE q == Append(queue, r)
<1>1. /\ q \in Seq(Record) /\ Len(q) = Len(queue) + 1 /\ q[Len(queue) + 1] = r
      /\ \A i \in 1..Len(queue) : q[i] = queue[i]
  BY AppendProperties
<1>2. Len(queue) \in Nat /\ DOMAIN queue = 1..Len(queue)
  BY LenProperties
<1>3. \A i \in 1..Len(queue) : queue[i] \in Record
  BY ElementOfSeq
<1>4. DOMAIN q = 1..Len(q)
  <2> HIDE DEF q
  <2> QED BY <1>1, LenProperties
<1> QED BY <1>1, <1>2, <1>3, <1>4

(* The topic has its rows besides.                                         *)
LEMMA RowsGrow ==
  ASSUME NEW queue \in Seq(Record), NEW r \in Record
  PROVE  /\ Rows(queue) \in Seq(Row)
         /\ Rows(Append(queue, r)) = Rows(queue) \o RowsOf(r)
<1> DEFINE q == Append(queue, r)
           n == Len(queue)
           f == [i \in DOMAIN queue |-> RowsOf(queue[i])]
           g == [i \in DOMAIN q |-> RowsOf(q[i])]
<1>1. /\ n \in Nat /\ DOMAIN queue = 1..n /\ DOMAIN q = 1..n + 1 /\ q[n + 1] = r
      /\ \A i \in 1..n : queue[i] \in Record /\ q[i] = queue[i]
  BY Appended
<1>2. Rows(queue) = FlattenSeq(f) /\ Rows(q) = FlattenSeq(g)
  BY DEF Rows
<1> HIDE DEF q, n
<1>3. /\ f = [i \in 1..n |-> f[i]] /\ g = [i \in 1..n + 1 |-> g[i]]
      /\ \A i \in 1..n : f[i] = RowsOf(queue[i]) /\ g[i] = f[i]
      /\ g[n + 1] = RowsOf(r)
  BY <1>1
<1> HIDE DEF f, g
<1>4. n \in Nat /\ f \in [1..n -> Seq(Row)] /\ g \in [1..n + 1 -> Seq(Row)] /\ Agree(g, f, n)
  <2>1. \A i \in 1..n : f[i] \in Seq(Row) /\ g[i] \in Seq(Row)
    <3>1. \A i \in 1..n : f[i] = RowsOf(queue[i]) /\ queue[i] \in Record
      BY <1>1, <1>3
    <3> QED BY <1>3, <3>1, RowsOfProperties
  <2>2. g[n + 1] \in Seq(Row)
    BY <1>3, RowsOfProperties
  <2>3. \A i \in 1..n + 1 : i \in 1..n \/ i = n + 1
    BY <1>1
  <2>4. \A i \in 1..n + 1 : g[i] \in Seq(Row)
    BY <2>1, <2>2, <2>3
  <2> QED BY <1>1, <1>3, <2>1, <2>4 DEF Agree
<1>5. FlattenSeq(f) \in Seq(Row) /\ FlattenSeq(g) = FlattenSeq(f) \o g[n + 1]
  BY <1>4, FlattenGrows
<1> QED BY <1>1, <1>2, <1>3, <1>5 DEF q

(* The text of an answer has them when the record is raw.                  *)
LEMMA TextsGrow ==
  ASSUME NEW from \in Seq(Record), NEW r \in Record
  PROVE  /\ Texts(from) \in Seq(Row)
         /\ Texts(Append(from, r))
              = Texts(from) \o (IF r.form = Raw THEN RowsOf(r) ELSE <<>>)
<1> DEFINE q == Append(from, r)
           n == Len(from)
           T(e) == IF e.form = Raw THEN RowsOf(e) ELSE <<>>
           f == [i \in DOMAIN from |-> T(from[i])]
           g == [i \in DOMAIN q |-> T(q[i])]
<1>1. /\ n \in Nat /\ DOMAIN from = 1..n /\ DOMAIN q = 1..n + 1 /\ q[n + 1] = r
      /\ \A i \in 1..n : from[i] \in Record /\ q[i] = from[i]
  BY Appended
<1>2. Texts(from) = FlattenSeq(f) /\ Texts(q) = FlattenSeq(g)
  BY DEF Texts
<1>3. \A e \in Record : T(e) \in Seq(Row)
  BY RowsOfProperties, EmptySeq
<1> HIDE DEF q, n, T
<1>4. /\ f = [i \in 1..n |-> f[i]] /\ g = [i \in 1..n + 1 |-> g[i]]
      /\ \A i \in 1..n : f[i] = T(from[i]) /\ g[i] = f[i]
      /\ g[n + 1] = T(r)
  BY <1>1
<1> HIDE DEF f, g
<1>5. n \in Nat /\ f \in [1..n -> Seq(Row)] /\ g \in [1..n + 1 -> Seq(Row)] /\ Agree(g, f, n)
  <2>1. \A i \in 1..n : f[i] \in Seq(Row) /\ g[i] \in Seq(Row)
    BY <1>1, <1>3, <1>4
  <2>2. g[n + 1] \in Seq(Row)
    BY <1>1, <1>3, <1>4
  <2>3. \A i \in 1..n + 1 : i \in 1..n \/ i = n + 1
    BY <1>1
  <2>4. \A i \in 1..n + 1 : g[i] \in Seq(Row)
    BY <2>1, <2>2, <2>3
  <2> QED BY <1>1, <1>4, <2>1, <2>4 DEF Agree
<1>6. FlattenSeq(f) \in Seq(Row) /\ FlattenSeq(g) = FlattenSeq(f) \o g[n + 1]
  BY <1>5, FlattenGrows
<1> QED BY <1>1, <1>2, <1>4, <1>6 DEF q, T

AllRaw(queue) == \A i \in DOMAIN queue : queue[i].form = Raw

(* Its batches have them when it is not: from the row that was looked up,  *)
(* when it is the first of them.                                           *)
LEMMA BatchesGrow ==
  ASSUME NEW from \in Seq(Record), NEW r \in Record, NEW row \in Nat
  PROVE  /\ Batches(from, row) \in Seq(Row)
         /\ Batches(Append(from, r), row)
              = Batches(from, row)
                  \o (IF r.form = Raw THEN <<>>
                      ELSE IF AllRaw(from) THEN SubSeq(RowsOf(r), row + 1, Len(RowsOf(r)))
                      ELSE RowsOf(r))
<1> DEFINE q == Append(from, r)
           n == Len(from)
           B(e, first) == IF e.form = Raw THEN <<>>
                          ELSE IF first THEN SubSeq(RowsOf(e), row + 1, Len(RowsOf(e)))
                          ELSE RowsOf(e)
           f == [i \in DOMAIN from |-> B(from[i], IsFirst(from, i))]
           g == [i \in DOMAIN q |-> B(q[i], IsFirst(q, i))]
<1>1. /\ n \in Nat /\ DOMAIN from = 1..n /\ DOMAIN q = 1..n + 1 /\ q[n + 1] = r
      /\ \A i \in 1..n : from[i] \in Record /\ q[i] = from[i]
  BY Appended
<1>2. Batches(from, row) = FlattenSeq(f) /\ Batches(q, row) = FlattenSeq(g)
  BY DEF Batches
<1>3. ASSUME NEW e \in Record, NEW first \in BOOLEAN PROVE B(e, first) \in Seq(Row)
  <2> DEFINE l == Len(RowsOf(e))
             s == SubSeq(RowsOf(e), row + 1, l)
  <2>1. RowsOf(e) \in Seq(Row) /\ l \in Nat
    BY RowsOfProperties
  <2>2. \A i \in row + 1..l : RowsOf(e)[i] \in Row
    BY <2>1, ElementOfSeq
  <2>3. s \in Seq(Row)
    <3>1. row + 1 \in Int /\ l \in Int
      BY <2>1
    <3> HIDE DEF l
    <3> QED BY <2>2, <3>1, SubSeqProperties
  <2> HIDE DEF s
  <2> QED BY <2>1, <2>3, EmptySeq DEF s
<1> HIDE DEF q, n, B
<1>4. /\ \A i \in 1..n : IsFirst(q, i) = IsFirst(from, i)
      /\ IsFirst(q, n + 1) = AllRaw(from)
      /\ \A i \in 1..n : IsFirst(from, i) \in BOOLEAN
      /\ AllRaw(from) \in BOOLEAN
  <2>1. ASSUME NEW i \in 1..n PROVE IsFirst(q, i) <=> IsFirst(from, i)
    BY <1>1 DEF IsFirst
  <2>2. IsFirst(q, n + 1) <=> AllRaw(from)
    BY <1>1 DEF IsFirst, AllRaw
  <2> QED BY <2>1, <2>2 DEF IsFirst, AllRaw
<1>5. /\ f = [i \in 1..n |-> f[i]] /\ g = [i \in 1..n + 1 |-> g[i]]
      /\ \A i \in 1..n : f[i] = B(from[i], IsFirst(from, i)) /\ g[i] = f[i]
      /\ g[n + 1] = B(r, AllRaw(from))
  BY <1>1, <1>4
<1> HIDE DEF f, g
<1>6. n \in Nat /\ f \in [1..n -> Seq(Row)] /\ g \in [1..n + 1 -> Seq(Row)] /\ Agree(g, f, n)
  <2>1. \A i \in 1..n : f[i] \in Seq(Row) /\ g[i] \in Seq(Row)
    BY <1>1, <1>3, <1>4, <1>5
  <2>2. g[n + 1] \in Seq(Row)
    BY <1>1, <1>3, <1>4, <1>5
  <2>3. \A i \in 1..n + 1 : i \in 1..n \/ i = n + 1
    BY <1>1
  <2>4. \A i \in 1..n + 1 : g[i] \in Seq(Row)
    BY <2>1, <2>2, <2>3
  <2> QED BY <1>1, <1>5, <2>1, <2>4 DEF Agree
<1>7. FlattenSeq(f) \in Seq(Row) /\ FlattenSeq(g) = FlattenSeq(f) \o g[n + 1]
  BY <1>6, FlattenGrows
<1> QED BY <1>1, <1>2, <1>5, <1>7 DEF q, B

(* A record goes behind the records from a place on.                       *)
LEMMA FromGrows ==
  ASSUME NEW queue \in Seq(Record), NEW r \in Record, NEW o \in RecordOffset
  PROVE  /\ o.batch_index < Len(queue)
              => /\ From(queue, o) \in Seq(Record)
                 /\ From(queue, o) # <<>>
                 /\ From(queue, o)[1] = queue[o.batch_index + 1]
                 /\ \A i \in DOMAIN From(queue, o) :
                      \E j \in DOMAIN queue : From(queue, o)[i] = queue[j]
                 /\ From(Append(queue, r), o) = Append(From(queue, o), r)
         /\ o.batch_index = Len(queue) => From(Append(queue, r), o) = Append(<<>>, r)
<1> DEFINE q == Append(queue, r)
           n == Len(queue)
           b == o.batch_index
           from == SubSeq(queue, b + 1, n)
<1>1. /\ n \in Nat /\ DOMAIN queue = 1..n /\ q \in Seq(Record) /\ Len(q) = n + 1
      /\ \A i \in 1..n : queue[i] \in Record
      /\ q[n + 1] = r
  BY Appended
<1>2. b \in Nat
  BY DEF RecordOffset
<1>3. From(queue, o) = from /\ From(q, o) = SubSeq(q, b + 1, n + 1)
  BY <1>1 DEF From
<1>4. q = queue \o <<r>> /\ <<r>> \in Seq(Record)
  BY AppendIsConcat
<1>5. n = Len(queue)
  OBVIOUS
<1> HIDE DEF q, n, b
<1>6. ASSUME b < n
      PROVE  /\ from \in Seq(Record) /\ from # <<>> /\ from[1] = queue[b + 1]
             /\ \A i \in DOMAIN from : \E j \in DOMAIN queue : from[i] = queue[j]
             /\ SubSeq(q, b + 1, n + 1) = Append(from, r)
  <2>1. b + 1 \in 1..n /\ b + 1 \in Int /\ n \in Int
    BY <1>1, <1>2, <1>6
  <2>2. b + 1 \in 1..Len(queue) + 1
    BY <1>1, <1>5, <2>1
  <2>3. /\ from \in Seq(Record) /\ Len(from) = n - b
        /\ \A i \in 1..n - b : from[i] = queue[b + i]
    <3> DEFINE m == b + 1
    <3>1. n - m + 1 = n - b /\ \A i \in 1..n - b : m + i - 1 = b + i
      BY <1>1, <1>2
    <3>2. m \in 1..Len(queue) + 1
      BY <2>2
    <3> HIDE DEF m
    <3>3. /\ SubSeq(queue, m, n) \in Seq(Record)
          /\ Len(SubSeq(queue, m, n)) = n - m + 1
          /\ \A i \in 1..n - m + 1 : SubSeq(queue, m, n)[i] = queue[m + i - 1]
      BY <1>5, <3>2, SuffixProperties
    <3> QED BY <3>1, <3>3 DEF m
  <2> HIDE DEF from
  <2>4. DOMAIN from = 1..n - b /\ 1 \in 1..n - b
    BY <1>1, <1>2, <1>6, <2>3, LenProperties
  <2>5. \A i \in 1..n - b : b + i \in 1..n
    BY <1>1, <1>2
  <2>6. from # <<>>
    BY <1>1, <1>2, <1>6, <2>3, EmptySeq
  <2>7. SubSeq(q, b + 1, n + 1) = from \o <<r>>
    <3>1. Len(q) = n + 1
      BY <1>1
    <3> QED BY <1>4, <1>5, <2>1, <3>1, SuffixOfConcat DEF from
  <2>8. from \o <<r>> = Append(from, r)
    BY <2>3, AppendIsConcat
  <2> QED BY <1>1, <2>3, <2>4, <2>5, <2>6, <2>7, <2>8
<1>7. ASSUME b = n PROVE SubSeq(q, b + 1, n + 1) = Append(<<>>, r)
  <2> DEFINE s == SubSeq(q, n + 1, n + 1)
  <2>1. n + 1 \in Int /\ \A i \in n + 1..n + 1 : q[i] \in Record
    BY <1>1
  <2>2. s \in Seq(Record) /\ Len(s) = 1 /\ \A i \in 1..1 : s[i] = q[n + 1 + i - 1]
    BY <1>1, <2>1, SubSeqProperties
  <2>3. s[1] = r /\ Len(<<r>>) = 1 /\ <<r>>[1] = r
    BY <1>1, <2>2
  <2> HIDE DEF s
  <2>4. s = <<r>>
    BY <1>4, <2>2, <2>3, SeqEqual
  <2>5. Append(<<>>, r) = <<r>>
    OBVIOUS
  <2> QED BY <1>7, <2>4, <2>5 DEF s
<1> QED BY <1>3, <1>6, <1>7 DEF q, n, b

(* Raw records have no batches.                                            *)
LEMMA NoBatches ==
  ASSUME NEW from \in Seq(Record), AllRaw(from), NEW row \in Nat
  PROVE  Batches(from, row) = <<>>
<1> DEFINE n == Len(from)
           f == [i \in DOMAIN from |->
                   IF from[i].form = Raw THEN <<>>
                   ELSE IF IsFirst(from, i)
                   THEN SubSeq(RowsOf(from[i]), row + 1, Len(RowsOf(from[i])))
                   ELSE RowsOf(from[i])]
           S == Seq(Row)
<1>1. n \in Nat /\ DOMAIN from = 1..n
  BY LenProperties
<1>2. Batches(from, row) = FlattenSeq(f)
  BY DEF Batches
<1>3. f = [i \in 1..n |-> f[i]] /\ \A i \in 1..n : f[i] = <<>>
  BY <1>1 DEF AllRaw
<1>4. <<>> \in S
  BY EmptySeq
<1> HIDE DEF f, n, S
<1>5. f \in [1..n -> S]
  BY <1>3, <1>4
<1>6. f \in Seq(S)
  BY <1>1, <1>5, SeqDef
<1>7. DOMAIN f = 1..Len(f)
  BY <1>6, LenProperties
<1>8. DOMAIN f = 1..n
  BY <1>3
<1>9. \A i \in 1..Len(f) : f[i] = <<>>
  BY <1>3, <1>7, <1>8
<1> QED BY <1>2, <1>6, <1>9, FlattenNothing DEF S

(* No records have no text.                                                *)
LEMMA NoTexts == Texts(<<>>) = <<>>
<1> DEFINE f == [i \in DOMAIN <<>> |->
                   IF <<>>[i].form = Raw THEN RowsOf(<<>>[i]) ELSE <<>>]
<1>1. DOMAIN <<>> = {}
  OBVIOUS
<1>2. f = <<>>
  BY <1>1
<1> QED BY <1>2, FlattenEmpty DEF Texts

(* A fetch that began at a row answers one more record's rows.             *)
LEMMA CollectGrows ==
  ASSUME NEW queue \in Seq(Record), NEW r \in Record, r.form = Raw => AllRaw(queue),
         NEW o \in RecordOffset, IsRowOf(queue, o)
  PROVE  /\ Collect(queue, o) \in Seq(Row)
         /\ Collect(Append(queue, r), o) = Collect(queue, o) \o RowsOf(r)
<1> DEFINE from == From(queue, o)
           q == Append(queue, r)
           row == o.row_offset
           rows == RowsOf(r)
           text == Texts(from)
           batch == Batches(from, row)
<1>1. row \in Nat /\ o.batch_index < Len(queue)
  BY DEF RecordOffset, IsRowOf
<1>2. /\ from \in Seq(Record) /\ from # <<>> /\ from[1] = queue[o.batch_index + 1]
      /\ \A i \in DOMAIN from : \E j \in DOMAIN queue : from[i] = queue[j]
      /\ From(q, o) = Append(from, r)
  BY <1>1, FromGrows
<1>3. /\ rows \in Seq(Row) /\ Len(rows) \in Nat
  BY RowsOfProperties
<1>4. Collect(queue, o) = text \o batch /\ Collect(q, o) = Texts(From(q, o)) \o Batches(From(q, o), row)
  BY DEF Collect
<1> HIDE DEF from, q, row, rows
<1>5. /\ text \in Seq(Row)
      /\ Texts(Append(from, r)) = text \o (IF r.form = Raw THEN rows ELSE <<>>)
  BY <1>2, TextsGrow DEF rows
<1>6. /\ batch \in Seq(Row)
      /\ Batches(Append(from, r), row)
           = batch \o (IF r.form = Raw THEN <<>>
                       ELSE IF AllRaw(from) THEN SubSeq(rows, row + 1, Len(rows))
                       ELSE rows)
  BY <1>1, <1>2, BatchesGrow DEF rows
<1>7. r.form = Raw => AllRaw(from)
  BY <1>2 DEF AllRaw
<1>8. AllRaw(from) => batch = <<>>
  BY <1>1, <1>2, NoBatches
<1>9. AllRaw(from) => row = 0
  <2> SUFFICES ASSUME AllRaw(from) PROVE row = 0
    OBVIOUS
  <2>1. Len(from) \in Nat \ {0} /\ DOMAIN from = 1..Len(from)
    BY <1>2, EmptySeq, LenProperties
  <2>2. from[1].form = Raw /\ from[1] \in Record
    BY <1>2, <2>1, ElementOfSeq DEF AllRaw
  <2>3. Len(RowsOf(from[1])) = 1
    BY <2>2, RowsOfProperties
  <2>4. row < Len(RowsOf(queue[o.batch_index + 1]))
    BY DEF IsRowOf, row
  <2> QED BY <1>1, <1>2, <2>3, <2>4
<1> HIDE DEF text, batch
<1>10. text \o batch \in Seq(Row)
  BY <1>5, <1>6, ConcatProperties
<1>11. CASE r.form = Raw
  <2>1. batch = <<>> /\ text \o <<>> = text /\ (text \o rows) \o <<>> = text \o rows
        /\ batch \o <<>> = <<>>
    <3>1. batch = <<>> /\ batch \o <<>> = batch
      BY <1>6, <1>7, <1>8, <1>11, ConcatEmptySeq
    <3>2. text \o <<>> = text
      BY <1>5, ConcatEmptySeq
    <3>3. text \o rows \in Seq(Row)
      BY <1>3, <1>5, ConcatProperties
    <3> QED BY <3>1, <3>2, <3>3, ConcatEmptySeq
  <2> QED BY <1>2, <1>4, <1>5, <1>6, <1>10, <1>11, <2>1 DEF q, rows
<1>12. CASE r.form # Raw
  <2>1. Texts(Append(from, r)) = text
    BY <1>5, <1>12, ConcatEmptySeq
  <2>2. Batches(Append(from, r), row) = batch \o rows
    <3>1. AllRaw(from) => SubSeq(rows, row + 1, Len(rows)) = rows
      BY <1>3, <1>9, SubSeqFull
    <3> QED BY <1>6, <1>12, <3>1
  <2>3. text \o (batch \o rows) = (text \o batch) \o rows
    BY <1>3, <1>5, <1>6, ConcatAssociative
  <2> QED BY <1>2, <1>4, <1>10, <2>1, <2>2, <2>3 DEF q, rows
<1> QED BY <1>11, <1>12

(* A fetch that begins at a row of the last record answers what it has     *)
(* from there on.                                                          *)
LEMMA CollectLast ==
  ASSUME NEW queue \in Seq(Record), NEW r \in Record, NEW i \in 1..Len(RowsOf(r))
  PROVE  Collect(Append(queue, r), [batch_index |-> Len(queue), row_offset |-> i - 1])
           = SubSeq(RowsOf(r), i, Len(RowsOf(r)))
<1> DEFINE o == [batch_index |-> Len(queue), row_offset |-> i - 1]
           q == Append(queue, r)
           one == Append(<<>>, r)
           rows == RowsOf(r)
           l == Len(rows)
           row == i - 1
<1>1. rows \in Seq(Row) /\ l \in Nat /\ (r.form = Raw => l = 1)
  BY RowsOfProperties
<1>2. row \in Nat /\ row + 1 = i /\ i \in 1..l
  <2> HIDE DEF l
  <2>1. i \in 1..l
    BY DEF l
  <2> QED BY <1>1, <2>1
<1>3. o \in RecordOffset /\ o.batch_index = Len(queue) /\ o.row_offset = row
  BY <1>2, Appended DEF RecordOffset
<1>4. <<>> \in Seq(Record) /\ AllRaw(<<>>) /\ <<>> \in Seq(Row)
  BY EmptySeq DEF AllRaw
<1> HIDE DEF o, q, one, rows, l, row
<1>5. Collect(q, o) = Texts(one) \o Batches(one, row)
  BY <1>3, FromGrows DEF Collect, q, one
<1>6. Texts(one) = <<>> \o (IF r.form = Raw THEN rows ELSE <<>>)
  BY <1>4, TextsGrow, NoTexts DEF one, rows
<1>7. Batches(one, row) = <<>> \o (IF r.form = Raw THEN <<>> ELSE SubSeq(rows, row + 1, l))
  <2>1. Batches(<<>>, row) = <<>>
    BY <1>2, <1>4, NoBatches
  <2> QED BY <1>2, <1>4, <2>1, BatchesGrow DEF one, rows, l
<1>8. <<>> \o rows = rows /\ rows \o <<>> = rows
  BY <1>1, ConcatEmptySeq
<1>9. <<>> \o <<>> = <<>>
  BY <1>4, ConcatEmptySeq
<1>10. CASE r.form = Raw
  <2>1. i = 1 /\ Len(rows) = 1
    <3>1. i = 1 /\ l = 1
      BY <1>1, <1>2, <1>10
    <3> QED BY <3>1 DEF l
  <2>2. SubSeq(rows, 1, Len(rows)) = rows
    BY <1>1, SubSeqFull
  <2>3. Collect(q, o) = rows
    BY <1>5, <1>6, <1>7, <1>8, <1>9, <1>10
  <2> QED BY <2>1, <2>2, <2>3 DEF q, o, rows, row
<1>11. CASE r.form # Raw
  <2> DEFINE s == SubSeq(rows, i, l)
  <2>1. s \in Seq(Row)
    BY <1>1, <1>2, SuffixProperties DEF l
  <2>2. Collect(q, o) = <<>> \o (<<>> \o s)
    BY <1>2, <1>5, <1>6, <1>7, <1>9, <1>11
  <2> HIDE DEF s
  <2>3. <<>> \o s = s
    BY <2>1, ConcatEmptySeq
  <2> QED BY <2>2, <2>3 DEF s, q, o, rows, row, l
<1> QED BY <1>10, <1>11

(* The index has as many entries as the topic has rows, and a fetch that   *)
(* begins at the n-th entry answers the rows from the n-th on.             *)
Answers(queue, index) ==
  /\ Len(index) = Len(Rows(queue))
  /\ \A n \in DOMAIN index :
       Collect(queue, index[n]) = SubSeq(Rows(queue), n, Len(Rows(queue)))

(* So it is with one more record.                                          *)
LEMMA AnswersGrow ==
  ASSUME NEW queue \in Seq(Record), NEW index \in Seq(RecordOffset), NEW r \in Record,
         r.form = Raw => AllRaw(queue), CountsRows(queue, index), Answers(queue, index)
  PROVE  Answers(Append(queue, r), index \o Entries(r, Len(queue)))
<1> DEFINE q == Append(queue, r)
           e == Entries(r, Len(queue))
           s == index \o e
           rows == Rows(queue)
           more == RowsOf(r)
           all == Rows(q)
           m == Len(rows)
           l == Len(more)
<1>1. Len(queue) \in Nat
  BY Appended
<1>2. /\ more \in Seq(Row) /\ l \in Nat
      /\ e \in Seq(RecordOffset) /\ Len(e) = l
      /\ \A i \in 1..l : e[i] = [batch_index |-> Len(queue), row_offset |-> i - 1]
  BY <1>1, RowsOfProperties, EntriesProperties
<1>3. rows \in Seq(Row) /\ m \in Nat /\ all = rows \o more
  BY RowsGrow, LenProperties
<1>4. /\ Len(index) = m /\ DOMAIN index = 1..m
      /\ \A n \in 1..m : /\ index[n] \in RecordOffset
                         /\ Collect(queue, index[n]) = SubSeq(rows, n, m)
                         /\ IsRowOf(queue, index[n])
  BY LenProperties DEF Answers, CountsRows
<1>5. m = Len(rows) /\ l = Len(more)
  OBVIOUS
<1> HIDE DEF q, e, rows, more, all, m, l
<1>6. /\ Len(s) = m + l /\ DOMAIN s = 1..m + l
      /\ \A n \in 1..m : s[n] = index[n]
      /\ \A n \in m + 1..m + l : s[n] = e[n - m]
  <2>1. /\ s \in Seq(RecordOffset) /\ Len(s) = m + l
        /\ \A i \in 1..m + l : s[i] = IF i <= m THEN index[i] ELSE e[i - m]
    BY <1>2, <1>4, ConcatProperties
  <2> HIDE DEF s
  <2>2. DOMAIN s = 1..m + l
    BY <2>1, LenProperties
  <2>3. /\ \A n \in 1..m : n \in 1..m + l /\ n <= m
        /\ \A n \in m + 1..m + l : n \in 1..m + l /\ ~(n <= m)
    BY <1>2, <1>3
  <2> QED BY <2>1, <2>2, <2>3
<1> HIDE DEF s
<1>7. Len(all) = m + l
  BY <1>2, <1>3, <1>5, ConcatProperties
<1>8. ASSUME NEW n \in 1..m PROVE Collect(q, s[n]) = SubSeq(all, n, m + l)
  <2>1. Collect(q, index[n]) = Collect(queue, index[n]) \o more
    BY <1>4, CollectGrows DEF q, more
  <2>2. SubSeq(all, n, Len(all)) = SubSeq(rows, n, m) \o more
    BY <1>2, <1>3, <1>5, SuffixOfConcat
  <2> QED BY <1>4, <1>6, <1>7, <2>1, <2>2
<1>9. ASSUME NEW n \in m + 1..m + l PROVE Collect(q, s[n]) = SubSeq(all, n, m + l)
  <2> DEFINE i == n - m
  <2>1. i \in 1..l /\ (m + l) - m = l
    BY <1>2, <1>3
  <2>2. s[n] = [batch_index |-> Len(queue), row_offset |-> i - 1]
    BY <1>2, <1>6, <2>1
  <2> HIDE DEF i
  <2>3. Collect(q, s[n]) = SubSeq(more, i, l)
    BY <1>5, <2>1, <2>2, CollectLast DEF q, more
  <2>4. m + l \in m + 1..m + l
    BY <1>2, <1>3, <2>1
  <2>5. SubSeq(rows \o more, n, m + l) = SubSeq(more, n - m, (m + l) - m)
    BY <1>2, <1>3, <1>5, <2>4, SubSeqOfConcat2
  <2> QED BY <1>3, <2>1, <2>3, <2>5 DEF i
<1>10. \A n \in 1..m + l : n \in 1..m \/ n \in m + 1..m + l
  BY <1>2, <1>3
<1>11. Answers(q, s)
  BY <1>6, <1>7, <1>8, <1>9, <1>10 DEF Answers, all
<1> QED BY <1>11 DEF q, s, e

-----------------------------------------------------------------------------
(* The inductive invariant *)

Adds == {"add", "index"}

(* A lock is held where the code holds it, and one thread adds at a time.  *)
LocksInv ==
  /\ \A t \in Threads :
       /\ topicsLock = t <=> pc[t] = "index"
       /\ offsetsLock = t <=> pc[t] = "collect"
       /\ pc[t] \in {"fetch", "collect"} => arg[t] \in FetchOffsets
  /\ \A t, u \in Threads : pc[t] \in Adds /\ pc[u] \in Adds => t = u

(* There is room for a record on its way, and no batch before a raw one.   *)
AddsInv ==
  \A t \in Threads : pc[t] \in Adds =>
    /\ arg[t] \in Form /\ Len(topics[topic[t]]) < MaxRecords
    /\ arg[t] = Raw => AllRaw(topics[topic[t]])

(* The offset of a row is its place among the rows of its topic.           *)
OffsetsAnswer == \A p \in Topics : Answers(topics[p], offsets[p])

(* What a fetch has found is what the index still says.                    *)
FoundInv ==
  \A t \in Threads : pc[t] = "collect" =>
    /\ arg[t] + 1 \in DOMAIN offsets[topic[t]]
    /\ found[t] = offsets[topic[t]][arg[t] + 1]

IInv == TypeOK /\ LocksInv /\ AddsInv /\ OffsetsCountRows /\ OffsetsAnswer /\ FoundInv

(* The row that a fetch has found is there.                                *)
LEMMA FoundIsRow == IInv => FoundExists
<1> SUFFICES ASSUME IInv, NEW t \in Threads, pc[t] = "collect"
             PROVE  IsRowOf(topics[topic[t]], found[t])
  BY DEF FoundExists
<1>1. topic[t] \in Topics
  BY DEF IInv, TypeOK
<1> QED BY <1>1 DEF IInv, FoundInv, OffsetsCountRows, CountsRows

(* An empty topic has no offset.                                           *)
LEMMA LogInit == Init => IInv
<1> SUFFICES ASSUME Init PROVE IInv
  OBVIOUS
<1>1. <<>> \in Seq(Record) /\ <<>> \in Seq(RecordOffset) /\ <<>> \in Seq(Row)
      /\ DOMAIN <<>> = {}
  BY EmptySeq
<1>2. TypeOK
  <2>1. Nowhere \in RecordOffset
    BY DEF Nowhere, RecordOffset
  <2>2. 0 \in FetchOffsets
    BY LogAssumption DEF FetchOffsets
  <2> QED BY <1>1, <2>1, <2>2 DEF Init, TypeOK, Record
<1>3. LocksInv /\ AddsInv /\ FoundInv
  BY LogAssumption DEF Init, LocksInv, AddsInv, FoundInv, Adds
<1>4. CountsRows(<<>>, <<>>)
  BY <1>1 DEF CountsRows
<1>5. Answers(<<>>, <<>>)
  <2> DEFINE f == [i \in DOMAIN <<>> |-> RowsOf(<<>>[i])]
  <2>1. f = <<>>
    BY <1>1
  <2>2. Rows(<<>>) = <<>>
    BY <2>1, FlattenEmpty DEF Rows
  <2> QED BY <1>1, <2>2 DEF Answers
<1>6. OffsetsCountRows /\ OffsetsAnswer
  <2> SUFFICES ASSUME NEW p \in Topics
               PROVE  CountsRows(topics[p], offsets[p]) /\ Answers(topics[p], offsets[p])
    BY DEF OffsetsCountRows, OffsetsAnswer
  <2>1. topics[p] = <<>> /\ offsets[p] = <<>>
    BY DEF Init
  <2> QED BY <1>4, <1>5, <2>1
<1> QED BY <1>2, <1>3, <1>6 DEF IInv

(* A request begins.                                                       *)
LEMMA CallKeeps ==
  ASSUME IInv, NEW t \in Threads, NEW p \in Topics,
         \/ \E form \in Form : AddCalled(t, p, form)
         \/ \E offset \in FetchOffsets : FetchCalled(t, p, offset)
  PROVE  IInv'
<1>1. PICK l \in {"add", "fetch"}, a \in Form \cup FetchOffsets :
        /\ Call(t, l, p, a)
        /\ l = "add" => /\ a \in Form /\ \A u \in Threads : pc[u] \notin Adds
                        /\ Len(topics[p]) < MaxRecords
                        /\ a = Raw => AllRaw(topics[p])
        /\ l = "fetch" => a \in FetchOffsets
  BY DEF AddCalled, FetchCalled, Adds, AllRaw
<1>2. /\ pc' = [pc EXCEPT ![t] = l] /\ pc[t] = "idle"
      /\ topic' = [topic EXCEPT ![t] = p] /\ arg' = [arg EXCEPT ![t] = a]
      /\ UNCHANGED <<found, answer, topicsLock, offsetsLock, topics, offsets>>
  BY <1>1 DEF Call, Goto
<1>3. TypeOK'
  BY <1>2 DEF IInv, TypeOK
<1>4. LocksInv'
  BY <1>1, <1>2 DEF IInv, TypeOK, LocksInv, Adds
<1>5. OffsetsCountRows' /\ OffsetsAnswer'
  BY <1>2 DEF IInv, OffsetsCountRows, OffsetsAnswer
<1>6. AddsInv'
  BY <1>1, <1>2 DEF IInv, TypeOK, AddsInv, Adds
<1>7. FoundInv'
  BY <1>2 DEF IInv, TypeOK, FoundInv
<1> QED BY <1>3, <1>4, <1>5, <1>6, <1>7 DEF IInv

(* The index and the records grow together, under both locks.              *)
LEMMA AddKeeps ==
  ASSUME IInv, NEW t \in Threads, AddLocksTopics(t) \/ AddIndexes(t)
  PROVE  IInv'
<1>1. CASE AddLocksTopics(t)
  <2>1. TypeOK' /\ LocksInv'
    BY <1>1, LogAssumption DEF AddLocksTopics, Goto, IInv, TypeOK, LocksInv, Adds
  <2>2. OffsetsCountRows' /\ OffsetsAnswer'
    BY <1>1 DEF AddLocksTopics, IInv, OffsetsCountRows, OffsetsAnswer
  <2>3. AddsInv' /\ FoundInv'
    BY <1>1 DEF AddLocksTopics, Goto, IInv, TypeOK, AddsInv, FoundInv, Adds
  <2> QED BY <2>1, <2>2, <2>3 DEF IInv
<1>2. CASE AddIndexes(t)
  <2> DEFINE p == topic[t]
             r == [id |-> Len(topics[p]) + 1, form |-> arg[t]]
             e == Entries(r, Len(topics[p]))
  <2>1. p \in Topics /\ topics[p] \in Seq(Record) /\ offsets[p] \in Seq(RecordOffset)
        /\ Len(topics[p]) \in Nat
    BY LenProperties DEF IInv, TypeOK, Record
  <2>2. pc[t] = "index" /\ arg[t] \in Form /\ Len(topics[p]) < MaxRecords
        /\ (arg[t] = Raw => AllRaw(topics[p]))
    BY <1>2 DEF AddIndexes, IInv, AddsInv, Adds
  <2>3. r \in Record /\ (r.form = Raw => AllRaw(topics[p]))
    BY <2>1, <2>2, LogAssumption DEF Record
  <2>4. /\ offsetsLock = NoThread
        /\ offsets' = [offsets EXCEPT ![p] = offsets[p] \o e]
        /\ topics' = [topics EXCEPT ![p] = Append(topics[p], r)]
        /\ topicsLock' = NoThread /\ pc' = [pc EXCEPT ![t] = "idle"]
        /\ UNCHANGED <<topic, arg, found, answer, offsetsLock>>
    BY <1>2 DEF AddIndexes, Goto, Entries
  <2> HIDE DEF p, r, e
  <2>5. e \in Seq(RecordOffset)
    BY <2>1, <2>3, EntriesProperties DEF e
  <2>6. TypeOK'
    <3>1. offsets[p] \o e \in Seq(RecordOffset) /\ Append(topics[p], r) \in Seq(Record)
      BY <2>1, <2>3, <2>5, ConcatProperties, AppendProperties
    <3> QED BY <2>4, <3>1 DEF IInv, TypeOK, Record
  <2>7. LocksInv'
    BY <2>2, <2>4, LogAssumption DEF IInv, TypeOK, LocksInv, Adds
  <2>8. \A u \in Threads : pc'[u] \notin Adds /\ pc'[u] # "collect"
    BY <2>2, <2>4, LogAssumption DEF IInv, TypeOK, LocksInv, Adds
  <2>9. OffsetsCountRows' /\ OffsetsAnswer'
    <3> SUFFICES ASSUME NEW x \in Topics
                 PROVE  CountsRows(topics'[x], offsets'[x]) /\ Answers(topics'[x], offsets'[x])
      BY DEF OffsetsCountRows, OffsetsAnswer
    <3>1. CountsRows(topics[x], offsets[x]) /\ Answers(topics[x], offsets[x])
      BY DEF IInv, OffsetsCountRows, OffsetsAnswer
    <3>2. CASE x = p
      <4>1. /\ CountsRows(Append(topics[p], r), offsets[p] \o e)
            /\ Answers(Append(topics[p], r), offsets[p] \o e)
        BY <2>1, <2>3, <3>1, <3>2, IndexAppend, AnswersGrow DEF e
      <4>2. topics'[p] = Append(topics[p], r) /\ offsets'[p] = offsets[p] \o e
        BY <2>1, <2>4 DEF IInv, TypeOK
      <4> QED BY <3>2, <4>1, <4>2
    <3>3. CASE x # p
      BY <2>4, <3>1, <3>3 DEF IInv, TypeOK
    <3> QED BY <3>2, <3>3
  <2> QED BY <2>6, <2>7, <2>8, <2>9 DEF IInv, AddsInv, FoundInv
<1> QED BY <1>1, <1>2

(* What a fetch answers, in full; it is the rows from its offset on.       *)
LEMMA FetchAnswers ==
  ASSUME IInv, NEW t \in Threads, FetchLooksUp(t) \/ FetchCollects(t), pc'[t] = "idle"
  PROVE  LET rows == Rows(topics[topic[t]])
             rest == IF arg[t] < 0 THEN <<>> ELSE SubSeq(rows, arg[t] + 1, Len(rows))
         IN  rest \in Seq(Row) /\ answer' = [answer EXCEPT ![t] = rest]
<1> DEFINE queue == topics[topic[t]]
           index == offsets[topic[t]]
           rows == Rows(queue)
           l == Len(rows)
           n == arg[t] + 1
           rest == IF arg[t] < 0 THEN <<>> ELSE SubSeq(rows, arg[t] + 1, l)
<1>1. /\ topic[t] \in Topics /\ queue \in Seq(Record) /\ index \in Seq(RecordOffset)
      /\ arg[t] \in Int /\ pc \in [Threads -> {"idle", "add", "index", "fetch", "collect"}]
  <2>1. pc[t] \in {"fetch", "collect"}
    BY DEF FetchLooksUp, FetchCollects
  <2>2. arg[t] \in FetchOffsets
    BY <2>1 DEF IInv, LocksInv
  <2>3. arg[t] \in Int
    BY <2>2, LogAssumption DEF FetchOffsets
  <2> QED BY <2>3 DEF IInv, TypeOK, Record
<1>2. Answers(queue, index) /\ CountsRows(queue, index)
  BY <1>1 DEF IInv, OffsetsAnswer, OffsetsCountRows
<1>3. DOMAIN index = 1..l /\ l \in Nat
  BY <1>1, <1>2, LenProperties DEF Answers
<1>4. <<>> \in Seq(Row)
  BY EmptySeq
<1>5. CASE n \notin DOMAIN index
  <2>1. FetchLooksUp(t)
    BY <1>5 DEF FetchCollects, IInv, FoundInv
  <2>2. answer' = [answer EXCEPT ![t] = <<>>]
    BY <1>5, <2>1 DEF FetchLooksUp
  <2> HIDE DEF l
  <2>3. arg[t] < 0 \/ l < arg[t] + 1
    BY <1>1, <1>3, <1>5
  <2>4. rest = <<>>
    BY <1>1, <1>3, <2>3, SubSeqEmpty
  <2> QED BY <1>4, <2>2, <2>4 DEF l
<1>6. CASE n \in DOMAIN index
  <2>1. FetchCollects(t)
    BY <1>1, <1>6 DEF FetchLooksUp, Goto
  <2>2. found[t] = index[n] /\ answer' = [answer EXCEPT ![t] = Collect(queue, index[n])]
    BY <2>1 DEF FetchCollects, IInv, FoundInv
  <2>3. Collect(queue, index[n]) = SubSeq(rows, n, l)
    BY <1>2, <1>6 DEF Answers
  <2>4. ~(arg[t] < 0)
    <3> HIDE DEF l
    <3> QED BY <1>1, <1>3, <1>6
  <2>5. rest = Collect(queue, index[n])
    BY <2>3, <2>4
  <2>6. index[n] \in RecordOffset /\ IsRowOf(queue, index[n])
    BY <1>1, <1>2, <1>6, LenProperties DEF CountsRows
  <2>7. PICK r \in Record : r.form = Raw => AllRaw(queue)
    <3>1. Len(queue) \in Nat /\ DOMAIN queue = 1..Len(queue)
      BY <1>1, LenProperties
    <3>2. CASE AllRaw(queue)
      <4>1. queue # <<>>
        BY <2>6, <3>1, EmptySeq DEF IsRowOf, RecordOffset
      <4>2. 1 \in 1..Len(queue)
        BY <1>1, <4>1, EmptySeq
      <4>3. queue[1] \in Record
        BY <1>1, <4>2, ElementOfSeq
      <4> QED BY <3>2, <4>3
    <3>3. CASE ~AllRaw(queue)
      <4>1. PICK i \in DOMAIN queue : queue[i].form # Raw
        BY <3>3 DEF AllRaw
      <4>2. queue[i] \in Record
        BY <1>1, <3>1, ElementOfSeq
      <4> QED BY <4>1, <4>2
    <3> QED BY <3>2, <3>3
  <2>8. Collect(queue, index[n]) \in Seq(Row)
    BY <1>1, <2>6, <2>7, CollectGrows
  <2> QED BY <2>2, <2>5, <2>8
<1> QED BY <1>5, <1>6

(* A fetch takes what the index says, and holds it until it has answered.  *)
LEMMA FetchKeeps ==
  ASSUME IInv, NEW t \in Threads, FetchLooksUp(t) \/ FetchCollects(t)
  PROVE  IInv'
<1>1. UNCHANGED <<topic, arg, topics, offsets, topicsLock>>
  BY DEF FetchLooksUp, FetchCollects
<1>2. OffsetsCountRows' /\ OffsetsAnswer'
  BY <1>1 DEF IInv, OffsetsCountRows, OffsetsAnswer
<1>3. ASSUME pc' = [pc EXCEPT ![t] = "idle"], pc[t] \in {"fetch", "collect"},
             UNCHANGED found,
             offsetsLock' = IF pc[t] = "collect" THEN NoThread ELSE offsetsLock
      PROVE  IInv'
  <2>1. pc'[t] = "idle"
    BY <1>3 DEF IInv, TypeOK
  <2>2. PICK rest \in Seq(Row) : answer' = [answer EXCEPT ![t] = rest]
    BY <2>1, FetchAnswers
  <2>3. TypeOK'
    BY <1>1, <1>3, <2>2, LogAssumption DEF IInv, TypeOK
  <2>4. LocksInv'
    BY <1>1, <1>3, LogAssumption DEF IInv, TypeOK, LocksInv, Adds
  <2>5. AddsInv' /\ FoundInv'
    BY <1>1, <1>3 DEF IInv, TypeOK, AddsInv, FoundInv, Adds
  <2> QED BY <1>2, <2>3, <2>4, <2>5 DEF IInv
<1>4. CASE FetchCollects(t)
  BY <1>3, <1>4 DEF FetchCollects, Goto
<1>5. CASE FetchLooksUp(t) /\ arg[t] + 1 \notin DOMAIN offsets[topic[t]]
  BY <1>3, <1>5 DEF FetchLooksUp, Goto
<1>6. CASE FetchLooksUp(t) /\ arg[t] + 1 \in DOMAIN offsets[topic[t]]
  <2> DEFINE o == offsets[topic[t]][arg[t] + 1]
  <2>1. /\ pc[t] = "fetch" /\ offsetsLock = NoThread /\ offsetsLock' = t /\ UNCHANGED answer
        /\ pc' = [pc EXCEPT ![t] = "collect"] /\ found' = [found EXCEPT ![t] = o]
    BY <1>6 DEF FetchLooksUp, Goto
  <2>2. topic[t] \in Topics /\ offsets[topic[t]] \in Seq(RecordOffset)
    BY DEF IInv, TypeOK
  <2>3. o \in RecordOffset
    BY <1>6, <2>2, LenProperties
  <2>4. FoundInv'
    BY <1>1, <1>6, <2>1 DEF IInv, TypeOK, FoundInv
  <2> HIDE DEF o
  <2>5. TypeOK' /\ LocksInv'
    BY <1>1, <2>1, <2>3, LogAssumption DEF IInv, TypeOK, LocksInv, Adds
  <2>6. AddsInv'
    BY <1>1, <2>1 DEF IInv, TypeOK, AddsInv, Adds
  <2> QED BY <1>2, <2>4, <2>5, <2>6 DEF IInv
<1> QED BY <1>4, <1>5, <1>6

(* So it holds in every state.                                             *)
LEMMA Inductive == Spec => []IInv
<1>1. IInv /\ [Next]_vars => IInv'
  <2> SUFFICES ASSUME IInv, [Next]_vars PROVE IInv'
    OBVIOUS
  <2>1. CASE UNCHANGED vars
    BY <2>1 DEF vars, IInv, TypeOK, LocksInv, AddsInv, OffsetsCountRows, OffsetsAnswer, FoundInv
  <2> QED BY <2>1, CallKeeps, AddKeeps, FetchKeeps DEF Next, Step
<1> QED BY <1>1, LogInit, PTL DEF Spec

-----------------------------------------------------------------------------
(* Theorems *)

(* Every variable has its type: above all a lock has one holder, and an    *)
(* answer is a sequence of rows (src/storage/in_memory_log.rs:34-145).     *)
(* Which rows it is made of is FetchAnswersSuffix.                         *)
THEOREM TypeCorrect == Spec => []TypeOK
<1>1. IInv => TypeOK
  BY DEF IInv
<1> QED BY <1>1, Inductive, PTL

(* Every row has one offset, and offsets are in the order of the rows,     *)
(* for batches of any number of rows, empty ones included                  *)
(* (src/storage/in_memory_log.rs:50-69).                                   *)
THEOREM IndexCounts == Spec => []OffsetsCountRows
<1>1. IInv => OffsetsCountRows
  BY DEF IInv
<1> QED BY <1>1, Inductive, PTL

(* No fetch slices a batch from a row it does not have                     *)
(* (src/storage/in_memory_log.rs:109-125).                                 *)
THEOREM FetchFinds == Spec => []FoundExists
  BY Inductive, FoundIsRow, PTL

(* A fetch answers exactly the rows of the topic from its offset on, for   *)
(* any mixture of raw records, batches and empty batches                   *)
(* (src/storage/in_memory_log.rs:89-132).                                  *)
THEOREM FetchAnswersSuffix == Spec => FetchIsSuffix
<1> DEFINE Rest(t) == LET rows == Rows(topics[topic[t]])
                      IN  IF arg[t] < 0 THEN <<>> ELSE SubSeq(rows, arg[t] + 1, Len(rows))
           Answered == \A t \in Threads :
             pc[t] \in {"fetch", "collect"} /\ pc'[t] = "idle" => answer'[t] = Rest(t)
<1>1. IInv /\ [Next]_vars => [Answered]_vars
  <2> SUFFICES ASSUME IInv, Next, NEW t \in Threads,
                      pc[t] \in {"fetch", "collect"}, pc'[t] = "idle"
               PROVE  answer'[t] = Rest(t)
    BY Zenon
  <2>1. pc \in [Threads -> {"idle", "add", "index", "fetch", "collect"}]
        /\ answer \in [Threads -> Seq(Row)]
    BY DEF IInv, TypeOK
  <2>2. FetchLooksUp(t) \/ FetchCollects(t)
    BY <2>1 DEF Next, Step, AddCalled, FetchCalled, Call, AddLocksTopics, AddIndexes,
                FetchLooksUp, FetchCollects, Goto
  <2>3. answer' = [answer EXCEPT ![t] = Rest(t)]
    BY <2>2, FetchAnswers
  <2> QED BY <2>1, <2>3
<1>2. [][Answered]_vars => FetchIsSuffix
  BY DEF FetchIsSuffix
<1> QED BY <1>1, <1>2, Inductive, PTL DEF Spec

=============================================================================
