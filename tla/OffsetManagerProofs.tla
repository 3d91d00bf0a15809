------------------------ MODULE OffsetManagerProofs ------------------------
(***************************************************************************)
(* Theorems about OffsetManager for every set of threads, groups, topics   *)
(* and offsets, every order of a map, whatever pieces of a text are        *)
(* written, and whatever a splice reads as.                                *)
(*                                                                         *)
(* The argument is in four parts.  Names: a key can be split into a pair   *)
(* that has it, and a Distinct pair is the only one that does.  Readers:   *)
(* while a thread is about to write, nobody inserts, so that what it       *)
(* writes is what is in memory.  Texts: every text of which the file has a *)
(* piece, whole or not, falls behind the memory only for pairs whose       *)
(* commit is under way.  Pieces: as long as whole texts are written, the   *)
(* file is one, or empty and about to be written.                          *)
(***************************************************************************)
EXTENDS OffsetManager, SequenceTheorems, TLAPS

Pairs == Groups \X Topics

-----------------------------------------------------------------------------
(* Names and keys *)

IsKey(k) == k \in Name /\ Len(k) > 1

(* What splitting a key gives.                                             *)
LEMMA KeyProperties ==
  ASSUME NEW k, IsKey(k)
  PROVE  /\ Split(k)[1] \in Name /\ Split(k)[2] \in Name
         /\ Key(Split(k)) = k
<1>1. k \in Seq(STRING) /\ k # <<>> /\ Len(k) \in Nat /\ Len(k) >= 2
  BY DEF IsKey, Name
<1> DEFINE first == SubSeq(k, 1, 1)
<1>6. first \in Seq(STRING) /\ Len(first) = 1
  <2>1. ASSUME NEW i \in 1..1 PROVE k[i] \in STRING
    <3>1. i \in 1..Len(k)
      BY <1>1
    <3> QED BY <3>1, <1>1, ElementOfSeq
  <2> QED BY <2>1, SubSeqProperties
<1>7. Tail(k) \in Seq(STRING) /\ Len(Tail(k)) = Len(k) - 1
  BY <1>1, HeadTailProperties
<1>8. first # <<>> /\ Tail(k) # <<>>
  <2>1. Len(<<>>) = 0
    BY EmptySeq
  <2>2. Len(Tail(k)) # 0 /\ Len(first) # 0
    <3> HIDE DEF first
    <3> QED BY <1>1, <1>6, <1>7
  <2> QED BY <2>1, <2>2, Zenon
<1>9. first \o Tail(k) = k
  <2>1. Tail(k) = SubSeq(k, 2, Len(k))
    BY <1>1, TailIsSubSeq
  <2>2. SubSeq(k, 1, 1) \o SubSeq(k, 2, Len(k)) = SubSeq(k, 1, Len(k))
    <3>1. 1 \in 1..Len(k) + 1 /\ 1 \in 1 - 1..Len(k) /\ Len(k) \in 1..Len(k)
          /\ 1 + 1 = 2
      BY <1>1
    <3>2. SubSeq(k, 1, 1) \o SubSeq(k, 1 + 1, Len(k)) = SubSeq(k, 1, Len(k))
      BY <3>1, <1>1, ConcatAdjacentSubSeq, Zenon
    <3> QED BY <3>1, <3>2
  <2>3. SubSeq(k, 1, Len(k)) = k
    BY <1>1, SubSeqFull
  <2> QED BY <2>1, <2>2, <2>3
<1> QED BY <1>6, <1>7, <1>8, <1>9 DEF Split, Key, Name

(* The key of a committed pair is one.                                     *)
LEMMA PairKey ==
  ASSUME NEW p \in Pairs
  PROVE  IsKey(Key(p))
<1>1. /\ p[1] \in Seq(STRING) /\ p[1] # <<>>
      /\ p[2] \in Seq(STRING) /\ p[2] # <<>>
  BY OffsetAssumption DEF Pairs, Name
<1>2. Len(p[1]) \in Nat \ {0} /\ Len(p[2]) \in Nat \ {0}
  BY <1>1, EmptySeq
<1>3. Key(p) \in Seq(STRING) /\ Len(Key(p)) = Len(p[1]) + Len(p[2])
  BY <1>1, ConcatProperties DEF Key
<1>4. Len(Key(p)) > 1 /\ Len(Key(p)) # 0
  <2> DEFINE m == Len(p[1])
             n == Len(p[2])
             l == Len(Key(p))
  <2>1. m \in Nat \ {0} /\ n \in Nat \ {0} /\ l = m + n
    BY <1>2, <1>3
  <2> HIDE DEF m, n, l
  <2>2. l > 1 /\ l # 0
    BY <2>1
  <2> QED BY <2>2 DEF l
<1>5. Key(p) # <<>>
  BY <1>4, EmptySeq
<1> QED BY <1>3, <1>4, <1>5 DEF IsKey, Name

(* Where a pair in memory comes from: a commit, or a key of the file.      *)
Known(q) == q \in Pairs \/ (IsKey(Key(q)) /\ q = Split(Key(q)))

(* A committed pair is known, and so is one that is read from the file.    *)
LEMMA KnownPairs ==
  /\ \A p \in Pairs : Known(p)
  /\ \A k : IsKey(k) => Known(Split(k))
  /\ \A q : Known(q) => IsKey(Key(q)) /\ q[1] \in Name /\ q[2] \in Name
<1>1. \A p \in Pairs : Known(p)
  BY DEF Known
<1>2. \A k : IsKey(k) => Known(Split(k))
  BY KeyProperties DEF Known
<1>3. ASSUME NEW q, Known(q) PROVE IsKey(Key(q)) /\ q[1] \in Name /\ q[2] \in Name
  <2>1. CASE q \in Pairs
    BY <2>1, PairKey, OffsetAssumption DEF Pairs
  <2>2. CASE IsKey(Key(q)) /\ q = Split(Key(q))
    BY <2>2, KeyProperties
  <2> QED BY <1>3, <2>1, <2>2 DEF Known
<1> QED BY <1>1, <1>2, <1>3

(* No other known pair has the key of a Distinct one.                      *)
LEMMA DistinctKey ==
  ASSUME NEW p \in Distinct, NEW q, Known(q), Key(q) = Key(p)
  PROVE  q = p
BY DEF Distinct, Known, Pairs

-----------------------------------------------------------------------------
(* Maps in memory and in the file *)

IsMap(map) == map \in [DOMAIN map -> Nat] /\ \A q \in DOMAIN map : Known(q)

(* The keys of a table.                                                    *)
LEMMA TableKeys ==
  ASSUME NEW f
  PROVE  IsTable(f) <=> f \in [DOMAIN f -> Nat] /\ \A k \in DOMAIN f : IsKey(k)
BY DEF IsTable, IsKey

(* An encoding has the keys of the map, and of a Distinct pair its offset. *)
LEMMA EncodingProperties ==
  ASSUME NEW map, IsMap(map), NEW f \in Encodings(map)
  PROVE  /\ IsTable(f)
         /\ \A k \in DOMAIN f : \E q \in DOMAIN map : Key(q) = k
         /\ \A p \in Distinct \cap DOMAIN map :
              Key(p) \in DOMAIN f /\ f[Key(p)] = map[p]
<1>1. /\ DOMAIN f = {Key(q) : q \in DOMAIN map}
      /\ \A k \in DOMAIN f : \E q \in DOMAIN map : Key(q) = k /\ f[k] = map[q]
      /\ f \in [DOMAIN f -> {map[q] : q \in DOMAIN map}]
  BY DEF Encodings
<1>2. IsTable(f)
  <2>1. {map[q] : q \in DOMAIN map} \subseteq Nat
    BY DEF IsMap
  <2>2. \A k \in DOMAIN f : IsKey(k)
    BY <1>1, KnownPairs DEF IsMap
  <2> QED BY <1>1, <2>1, <2>2, TableKeys
<1>3. ASSUME NEW p \in Distinct \cap DOMAIN map
      PROVE  Key(p) \in DOMAIN f /\ f[Key(p)] = map[p]
  <2>1. Key(p) \in DOMAIN f
    BY <1>1
  <2>2. PICK q \in DOMAIN map : Key(q) = Key(p) /\ f[Key(p)] = map[q]
    BY <1>1, <2>1
  <2>3. q = p
    BY <2>2, DistinctKey DEF IsMap
  <2> QED BY <2>1, <2>2, <2>3
<1> QED BY <1>1, <1>2, <1>3

(* A decoding is a map, which has the offsets of the file under the pairs  *)
(* that its keys are split into, and under no other.                       *)
LEMMA DecodingProperties ==
  ASSUME NEW f, IsTable(f), NEW map \in Decodings(f)
  PROVE  /\ IsMap(map)
         /\ \A k \in DOMAIN f : Split(k) \in DOMAIN map /\ map[Split(k)] = f[k]
         /\ \A p \in DOMAIN map : Key(p) \in DOMAIN f /\ f[Key(p)] = map[p]
<1>1. /\ DOMAIN map = {Split(k) : k \in DOMAIN f}
      /\ \A p \in DOMAIN map : \E k \in DOMAIN f : Split(k) = p /\ map[p] = f[k]
      /\ map \in [DOMAIN map -> {f[k] : k \in DOMAIN f}]
  BY DEF Decodings
<1>2. IsMap(map)
  <2>1. {f[k] : k \in DOMAIN f} \subseteq Nat
    BY TableKeys
  <2>2. \A q \in DOMAIN map : Known(q)
    BY <1>1, KnownPairs, TableKeys
  <2> QED BY <1>1, <2>1, <2>2 DEF IsMap
<1>3. \A p \in DOMAIN map : Key(p) \in DOMAIN f /\ f[Key(p)] = map[p]
  BY <1>1, KeyProperties, TableKeys
<1>4. \A k \in DOMAIN f : Split(k) \in DOMAIN map /\ map[Split(k)] = f[k]
  BY <1>1, <1>3, KeyProperties, TableKeys
<1> QED BY <1>2, <1>3, <1>4

-----------------------------------------------------------------------------
(* Texts and files *)

(* The texts of which the file has pieces. *)
Texts == IF file = NoFile THEN {} ELSE UNION {file[i] : i \in Place}

IsFile ==
  file # NoFile =>
    /\ file = [i \in Place |-> file[i]]
    /\ \A i \in Place : \A x, y \in file[i] : x = y

(* An order is chosen among those there are.                               *)
LEMMA FirstIsOrder == FirstOrder \in Orders
BY OffsetAssumption DEF FirstOrder

(* A text of a table has its entries.                                      *)
LEMMA TextProperties ==
  ASSUME NEW f, IsTable(f), NEW o \in Orders
  PROVE  IsText(Text(f, o)) /\ Text(f, o).entries = f
BY FirstIsOrder DEF IsText, Text

(* The map without entries, and its text.                                  *)
LEMMA NoOffsetsProperties ==
  /\ DOMAIN NoOffsets = {} /\ IsMap(NoOffsets) /\ IsTable(NoOffsets)
  /\ IsText(NoText)
<1>1. DOMAIN NoOffsets = {} /\ IsMap(NoOffsets) /\ IsTable(NoOffsets)
  BY DEF NoOffsets, IsMap, IsTable
<1> QED BY <1>1, TextProperties, FirstIsOrder DEF NoText

(* A file with places is one that was created.                             *)
LEMMA Created ==
  /\ 1 \in Place /\ Blank # NoFile
  /\ \A x : Filled(x) # NoFile
  /\ \A g : [i \in Place |-> g[i]] # NoFile
<1>1. 1 \in Place
  BY OffsetAssumption DEF Place
<1>2. DOMAIN NoFile = {} /\ DOMAIN Blank = Place
  BY DEF NoFile, Blank
<1>3. \A x : DOMAIN Filled(x) = Place
  BY DEF Filled
<1> QED BY <1>1, <1>2, <1>3

(* What can be read is a text of the file.                                 *)
LEMMA ReadableContent ==
  ASSUME IsFile, Readable
  PROVE  \E x \in Texts : Content = x.entries /\ file = Filled(x)
<1>1. file # NoFile /\ file[1] # {} /\ \A i \in Place : file[i] = file[1]
  BY Created DEF Readable, Full
<1>2. PICK x \in file[1] : Content = x.entries
  BY <1>1 DEF Content
<1>3. file[1] = {x}
  BY <1>1, <1>2, Created DEF IsFile
<1>4. file = Filled(x)
  BY <1>1, <1>3 DEF IsFile, Filled
<1> QED BY <1>1, <1>2, <1>4, Created DEF Texts

(* A file that was filled with a text, in this state and the next.         *)
LEMMA FilledProperties ==
  ASSUME NEW x
  PROVE  /\ file = Filled(x) => Readable /\ IsFile /\ Texts = {x} /\ file # NoFile
         /\ (file = Filled(x) => Readable /\ IsFile /\ Texts = {x} /\ file # NoFile)'
<1>1. ASSUME NEW g, g = Filled(x)
      PROVE  /\ g # NoFile /\ \A i \in Place : g[i] = {x} /\ g[i] # {} /\ g[i] = g[1]
             /\ g = [i \in Place |-> g[i]]
             /\ UNION {g[i] : i \in Place} = {x}
  BY <1>1, Created DEF Filled
<1> QED BY <1>1 DEF Readable, Full, IsFile, Texts

(* An empty file, in this state and the next.                              *)
LEMMA BlankProperties ==
  /\ file = Blank => ~Full /\ ~Readable /\ IsFile /\ Texts = {}
  /\ (file = Blank => ~Full /\ ~Readable /\ IsFile /\ Texts = {})'
<1>1. /\ Blank # NoFile /\ Blank[1] = {} /\ 1 \in Place
      /\ Blank = [i \in Place |-> Blank[i]] /\ \A i \in Place : Blank[i] = {}
      /\ UNION {Blank[i] : i \in Place} = {}
  BY Created DEF Blank
<1> QED BY <1>1 DEF Readable, Full, IsFile, Texts

-----------------------------------------------------------------------------
(* The inductive invariant *)

TypeInv ==
  /\ up \in BOOLEAN
  /\ pc \in [Threads -> {"idle", "inserted", "encoded", "writing"}]
  /\ pair \in [Threads -> Pairs \cup {NoPair}]
  /\ \A t \in Threads : pc[t] = "idle" => pair[t] = NoPair
  /\ json = [t \in Threads |-> json[t]]
  /\ \A t \in Threads : IsText(json[t])
  /\ written \in [Threads -> 0..Pieces - 1]
  /\ IsMap(offsets)
  /\ IsFile /\ \A x \in Texts : IsText(x)
  /\ failed \in BOOLEAN /\ pieced \in BOOLEAN

(* No text has a key that is not in memory. *)
FileKnown == \A x \in Texts : \A k \in DOMAIN x.entries : \E q \in DOMAIN offsets : Key(q) = k

(* Every text has what has been committed. *)
UpToDate(f) ==
  \A p \in Settled \cap Distinct \cap DOMAIN offsets :
    Key(p) \in DOMAIN f /\ f[Key(p)] = offsets[p]
FileSettled == ~failed => \A x \in Texts : UpToDate(x.entries)

(* Who writes has created the file, and all write the same entries. *)
FileCurrent ==
  \A t \in Threads : pc[t] = "writing" =>
    file # NoFile /\ \A x \in Texts : x.entries \in Encodings(offsets)

(* Where only whole texts are written is one, or will be. *)
FileWhole ==
  ~failed /\ ~pieced /\ file # NoFile =>
    Readable \/ (file = Blank /\ \E t \in Threads : pc[t] = "writing")

(* As long as there is no file, no commit has ended well. *)
NothingYet ==
  file = NoFile /\ ~failed =>
    /\ Settled \cap DOMAIN offsets = {}
    /\ (\A t \in Threads : pc[t] = "idle") => offsets = NoOffsets

IInv ==
  TypeInv /\ SnapshotCurrent /\ FileKnown /\ FileSettled /\ FileCurrent /\ FileWhole /\ NothingYet

(* The invariant holds when the server starts for the first time.          *)
LEMMA IndInit == Init => IInv
<1> SUFFICES ASSUME Init PROVE IInv
  OBVIOUS
<1>1. Texts = {} /\ IsFile
  BY DEF Init, Texts, IsFile
<1>2. TypeInv
  <2>1. 0 \in 0..Pieces - 1
    BY OffsetAssumption
  <2> QED BY <1>1, <2>1, NoOffsetsProperties DEF Init, TypeInv
<1>3. SnapshotCurrent /\ FileKnown /\ FileSettled /\ FileCurrent /\ FileWhole /\ NothingYet
  BY <1>1, NoOffsetsProperties
  DEF Init, SnapshotCurrent, Reads, FileKnown, FileSettled, FileCurrent, FileWhole, NothingYet
<1> QED BY <1>2, <1>3 DEF IInv

(* What depends on the file alone stays with it.                           *)
LEMMA SameFile ==
  ASSUME UNCHANGED file
  PROVE  /\ Texts' = Texts /\ IsFile' = IsFile /\ Readable' = Readable /\ Full' = Full
         /\ Content' = Content
BY DEF Texts, IsFile, Readable, Full, Content

(* A commit enters its offset; nobody is reading, and its pair is no       *)
(* longer settled.                                                         *)
LEMMA IndInsert ==
  ASSUME IInv, NEW t \in Threads, NEW p \in Pairs, NEW offset \in Offsets,
         Insert(t, p, offset)
  PROVE  IInv'
<1> USE DEF IInv, Insert, Goto, Pairs, fileVars
<1>1. /\ DOMAIN offsets' = DOMAIN offsets \cup {p}
      /\ offsets'[p] = offset
      /\ \A q \in DOMAIN offsets : q # p => offsets'[q] = offsets[q]
      /\ IsMap(offsets')
  BY KnownPairs, OffsetAssumption DEF IsMap, TypeInv
<1>2. TypeInv'
  BY <1>1, SameFile DEF TypeInv
<1>3. \A u \in Threads : pc[u] # "writing" /\ pc'[u] # "writing" /\ pc'[u] # "encoded"
  BY DEF Reads, TypeInv
<1>4. SnapshotCurrent' /\ FileCurrent'
  BY <1>3 DEF SnapshotCurrent, FileCurrent, Reads
<1>5. FileKnown'
  BY <1>1, SameFile DEF FileKnown
<1>6. Settled' = Settled \ {p}
  <2>1. pair[t] = NoPair /\ p # NoPair
    BY OffsetAssumption DEF TypeInv
  <2>2. \A u \in Threads : pair'[u] = IF u = t THEN p ELSE pair[u]
    BY DEF TypeInv
  <2> QED BY <2>1, <2>2, OffsetAssumption DEF Settled
<1>7. FileSettled'
  <2>1. ASSUME NEW x \in Texts, UpToDate(x.entries) PROVE UpToDate(x.entries)'
    BY <1>1, <1>6, <2>1 DEF UpToDate
  <2> QED BY <2>1, SameFile DEF FileSettled
<1>8. FileWhole'
  BY <1>3, SameFile DEF FileWhole, Readable, Full
<1>9. NothingYet'
  <2>1. pc'[t] # "idle"
    BY DEF TypeInv
  <2> QED BY <1>1, <1>6, <2>1 DEF NothingYet
<1> QED BY <1>2, <1>4, <1>5, <1>7, <1>8, <1>9

(* A thread makes its text of what is in memory.                           *)
LEMMA IndEncode ==
  ASSUME IInv, NEW t \in Threads, Encode(t)
  PROVE  IInv'
<1> USE DEF IInv, Encode, Goto, fileVars
<1>1. PICK f \in Encodings(offsets), o \in Orders : json' = [json EXCEPT ![t] = Text(f, o)]
  OBVIOUS
<1>2. IsText(Text(f, o)) /\ Text(f, o).entries = f
  <2>1. IsTable(f)
    BY EncodingProperties DEF TypeInv
  <2> QED BY <2>1, TextProperties
<1>3. \A u \in Threads : json'[u] = IF u = t THEN Text(f, o) ELSE json[u]
  BY <1>1 DEF TypeInv
<1>4. TypeInv'
  <2>1. json' = [u \in Threads |-> json'[u]]
    BY <1>1 DEF TypeInv
  <2>2. \A u \in Threads : IsText(json'[u])
    BY <1>2, <1>3 DEF TypeInv
  <2> QED BY <2>1, <2>2, SameFile DEF TypeInv
<1>5. \A u \in Threads : pc'[u] = IF u = t THEN "encoded" ELSE pc[u]
  BY DEF TypeInv
<1>6. Encodings(offsets)' = Encodings(offsets)
  BY DEF Encodings
<1>7. SnapshotCurrent'
  BY <1>2, <1>3, <1>5, <1>6 DEF SnapshotCurrent, Reads
<1>8. FileKnown' /\ FileSettled'
  BY SameFile DEF FileKnown, FileSettled, UpToDate, Settled
<1>9. FileCurrent'
  BY <1>5, <1>6, SameFile DEF FileCurrent
<1>10. FileWhole'
  <2>1. pc[t] # "writing"
    OBVIOUS
  <2> QED BY <1>5, <2>1, SameFile DEF FileWhole
<1>11. NothingYet'
  BY <1>5 DEF NothingYet, Settled
<1> QED BY <1>4, <1>7, <1>8, <1>9, <1>10, <1>11

(* The file is emptied.                                                    *)
LEMMA IndTruncate ==
  ASSUME IInv, NEW t \in Threads, Truncate(t)
  PROVE  IInv'
<1> USE DEF IInv, Truncate, Goto
<1>1. Texts' = {} /\ IsFile' /\ file' # NoFile /\ file' = Blank'
  <2>1. file' = Blank'
    BY DEF Blank, Place
  <2> QED BY <2>1, BlankProperties, Created
<1>2. TypeInv'
  BY <1>1 DEF TypeInv
<1>3. \A u \in Threads : pc'[u] = IF u = t THEN "writing" ELSE pc[u]
  BY DEF TypeInv
<1>4. SnapshotCurrent'
  <2>1. Encodings(offsets)' = Encodings(offsets)
    BY DEF Encodings
  <2> QED BY <1>3, <2>1 DEF SnapshotCurrent, Reads
<1>5. FileKnown' /\ FileSettled' /\ FileCurrent' /\ NothingYet'
  BY <1>1 DEF FileKnown, FileSettled, FileCurrent, NothingYet
<1>6. FileWhole'
  BY <1>1, <1>3 DEF FileWhole
<1> QED BY <1>2, <1>4, <1>5, <1>6

(* A thread writes to the file from where it was: no text is in the file   *)
(* but those that were, and its own; and if it wrote a whole text, the     *)
(* file is one.                                                            *)
LEMMA PutProperties ==
  ASSUME IInv, NEW t \in Threads, pc[t] = "writing", NEW n \in Place, Put(t, n)
  PROVE  /\ file' # NoFile /\ IsFile'
         /\ Texts' \subseteq Texts \cup {json[t]}
         /\ ~pieced' => ~pieced /\ Readable'
         /\ \A x \in Texts' : x.entries \in Encodings(offsets)
         /\ \A x \in Texts' : IsText(x)
         /\ pieced' \in BOOLEAN
<1> USE DEF IInv, Put
<1>1. file # NoFile /\ \A x \in Texts : x.entries \in Encodings(offsets)
  BY DEF FileCurrent
<1>2. json[t].entries \in Encodings(offsets) /\ IsText(json[t])
  BY DEF SnapshotCurrent, Reads, TypeInv
<1>3. /\ file' # NoFile /\ file' = [i \in Place |-> file'[i]]
      /\ \A i \in Place : file'[i] = {json[t]} \/ file'[i] = file[i]
  <2>1. file' = [i \in Place |-> file'[i]]
    OBVIOUS
  <2> QED BY <2>1, Created
<1>4. IsFile'
  BY <1>1, <1>3 DEF IsFile, TypeInv, Place
<1>5. Texts' \subseteq Texts \cup {json[t]}
  BY <1>1, <1>3 DEF Texts, Place
<1>6. ASSUME ~pieced' PROVE ~pieced /\ Readable'
  <2>1. ~pieced /\ ~(n - written[t] < Pieces)
    BY <1>6
  <2>2. written[t] = 0 /\ n = Pieces
    <3>1. written[t] \in 0..Pieces - 1 /\ n \in 1..Pieces /\ Pieces \in Nat
      BY OffsetAssumption DEF TypeInv, Place
    <3> QED BY <2>1, <3>1
  <2>3. file' = Filled(json[t])
    BY <2>2, OffsetAssumption DEF Filled, Place
  <2>4. (file = Filled(json[t]))' => Readable'
    BY <1>3, <2>2, <2>3, Created DEF Readable, Full, Filled
  <2>5. \A i \in Place : file'[i] = {json[t]}
    BY <2>3 DEF Filled
  <2> QED BY <1>3, <2>1, <2>5, Created DEF Readable, Full, Place
<1>7. pieced' \in BOOLEAN
  BY DEF TypeInv
<1> QED BY <1>1, <1>2, <1>3, <1>4, <1>5, <1>6, <1>7 DEF TypeInv

(* A text of the present offsets has everything.                           *)
LEMMA CurrentText ==
  ASSUME IInv, NEW f \in Encodings(offsets)
  PROVE  /\ \A k \in DOMAIN f : \E q \in DOMAIN offsets : Key(q) = k
         /\ \A p \in Distinct \cap DOMAIN offsets : Key(p) \in DOMAIN f /\ f[Key(p)] = offsets[p]
BY EncodingProperties DEF IInv, TypeInv

(* What holds of the file when a thread has written to it.                 *)
LEMMA IndPut ==
  ASSUME IInv, NEW t \in Threads, pc[t] = "writing", NEW n \in Place, Put(t, n),
         UNCHANGED <<offsets, failed>>
  PROVE  FileKnown' /\ FileSettled' /\ FileCurrent' /\ FileWhole' /\ NothingYet'
<1>1. \A x \in Texts' : x.entries \in Encodings(offsets)
  BY PutProperties
<1>2. file' # NoFile /\ (~pieced' => Readable')
  BY PutProperties
<1>3. FileKnown'
  BY <1>1, CurrentText DEF FileKnown
<1>4. FileSettled'
  BY <1>1, CurrentText DEF FileSettled, UpToDate
<1>5. FileCurrent'
  <2>1. Encodings(offsets)' = Encodings(offsets)
    BY DEF Encodings
  <2> QED BY <1>1, <1>2, <2>1 DEF FileCurrent
<1>6. FileWhole' /\ NothingYet'
  BY <1>2 DEF FileWhole, NothingYet
<1> QED BY <1>3, <1>4, <1>5, <1>6

(* A thread has written a part.                                            *)
LEMMA IndWritePart ==
  ASSUME IInv, NEW t \in Threads, WritePart(t)
  PROVE  IInv'
<1> USE DEF WritePart
<1>1. PICK n \in written[t] + 1..Pieces - 1 : Put(t, n) /\ written' = [written EXCEPT ![t] = n]
  OBVIOUS
<1>2. n \in Place /\ n \in 0..Pieces - 1
  <2>1. written[t] \in 0..Pieces - 1 /\ Pieces \in Nat
    BY OffsetAssumption DEF IInv, TypeInv
  <2> QED BY <2>1 DEF Place
<1>3. FileKnown' /\ FileSettled' /\ FileCurrent' /\ FileWhole' /\ NothingYet'
  BY <1>1, <1>2, IndPut
<1>4. /\ IsFile' /\ \A x \in Texts' : IsText(x)
      /\ pieced' \in BOOLEAN
  BY <1>1, <1>2, PutProperties
<1>5. TypeInv'
  BY <1>1, <1>2, <1>4 DEF IInv, TypeInv
<1>6. SnapshotCurrent'
  <2>1. Encodings(offsets)' = Encodings(offsets)
    BY DEF Encodings
  <2> QED BY <2>1 DEF IInv, SnapshotCurrent, Reads
<1> QED BY <1>3, <1>5, <1>6 DEF IInv

(* A commit ends: its thread holds nothing any more, and those who still   *)
(* write hold what they held.                                              *)
LEMMA IndEndCommit ==
  ASSUME IInv, NEW t \in Threads, EndCommit(t), UNCHANGED <<up, offsets>>,
         IsFile', \A x \in Texts' : IsText(x), failed' \in BOOLEAN, pieced' \in BOOLEAN
  PROVE  TypeInv' /\ SnapshotCurrent'
<1> USE DEF IInv, EndCommit, Goto
<1>1. \A u \in Threads : json'[u] = IF u = t THEN NoText ELSE json[u]
  BY DEF TypeInv
<1>2. TypeInv'
  <2>1. json' = [u \in Threads |-> json'[u]]
    BY DEF TypeInv
  <2>2. \A u \in Threads : IsText(json'[u])
    BY <1>1, NoOffsetsProperties DEF TypeInv
  <2>3. 0 \in 0..Pieces - 1
    BY OffsetAssumption
  <2>4. pair' \in [Threads -> Pairs \cup {NoPair}] /\ written' \in [Threads -> 0..Pieces - 1]
    BY <2>3 DEF TypeInv
  <2>5. \A u \in Threads : pc'[u] = "idle" => pair'[u] = NoPair
    BY DEF TypeInv
  <2> QED BY <2>1, <2>2, <2>4, <2>5 DEF TypeInv
<1>3. SnapshotCurrent'
  <2>1. Encodings(offsets)' = Encodings(offsets)
    BY DEF Encodings
  <2> QED BY <1>1, <2>1 DEF SnapshotCurrent, Reads, TypeInv
<1> QED BY <1>2, <1>3

(* The file has all of what the thread made, or of what others did since.  *)
LEMMA IndWrite ==
  ASSUME IInv, NEW t \in Threads, Write(t)
  PROVE  IInv'
<1> USE DEF Write
<1>1. Pieces \in Place
  BY OffsetAssumption DEF Place
<1>2. FileKnown' /\ FileSettled' /\ FileCurrent' /\ FileWhole' /\ NothingYet'
  BY <1>1, IndPut
<1>3. /\ IsFile' /\ \A x \in Texts' : IsText(x)
      /\ pieced' \in BOOLEAN
  BY <1>1, PutProperties
<1>4. TypeInv' /\ SnapshotCurrent'
  BY <1>3, IndEndCommit DEF IInv, TypeInv
<1> QED BY <1>2, <1>4 DEF IInv

(* A file that could not be written is excused until one is.               *)
LEMMA IndWriteFails ==
  ASSUME IInv, NEW t \in Threads, WriteFails(t)
  PROVE  IInv'
<1> USE DEF IInv, WriteFails
<1>1. TypeInv' /\ SnapshotCurrent'
  BY SameFile, IndEndCommit DEF TypeInv
<1>2. FileKnown'
  BY SameFile DEF FileKnown
<1>3. FileSettled' /\ FileWhole' /\ NothingYet'
  BY DEF FileSettled, FileWhole, NothingYet
<1>4. FileCurrent'
  <2>1. Encodings(offsets)' = Encodings(offsets)
    BY DEF Encodings
  <2>2. \A u \in Threads : pc'[u] = "writing" => pc[u] = "writing"
    BY DEF EndCommit, Goto, TypeInv
  <2> QED BY <2>1, <2>2, SameFile DEF FileCurrent
<1> QED BY <1>1, <1>2, <1>3, <1>4

(* Nothing but up changes in a crash, and nothing at all in a stutter.     *)
LEMMA IndUnchanged ==
  ASSUME IInv, up' \in BOOLEAN, UNCHANGED <<pc, pair, json, written, offsets, fileVars>>
  PROVE  IInv'
<1> USE DEF IInv, fileVars
<1>1. TypeInv'
  BY SameFile DEF TypeInv
<1>2. Encodings(offsets)' = Encodings(offsets)
  BY DEF Encodings
<1>3. SnapshotCurrent' /\ FileCurrent'
  BY <1>2, SameFile DEF SnapshotCurrent, Reads, FileCurrent
<1>4. FileKnown' /\ FileSettled' /\ FileWhole' /\ NothingYet'
  BY SameFile DEF FileKnown, FileSettled, UpToDate, FileWhole, NothingYet, Settled
<1> QED BY <1>1, <1>3, <1>4

(* A start that reads a table finds in memory what the file has then.      *)
LEMMA IndReadTable ==
  ASSUME IInv, Recover, NEW x, IsText(x), offsets' \in Decodings(x.entries),
         file' = Filled(x)
  PROVE  IInv'
<1> USE DEF IInv, Recover, Restart
<1>1. /\ IsMap(offsets')
      /\ \A k \in DOMAIN x.entries : Split(k) \in DOMAIN offsets' /\ offsets'[Split(k)] = x.entries[k]
      /\ \A p \in DOMAIN offsets' : Key(p) \in DOMAIN x.entries /\ x.entries[Key(p)] = offsets'[p]
  BY DecodingProperties DEF IsText
<1>2. Readable' /\ IsFile' /\ Texts' = {x} /\ file' # NoFile
  <2>1. file' = Filled(x)'
    BY DEF Filled, Place
  <2> QED BY <2>1, FilledProperties
<1>3. \A u \in Threads : pc'[u] = "idle" /\ pair'[u] = NoPair /\ json'[u] = NoText /\ written'[u] = 0
  OBVIOUS
<1>4. TypeInv'
  <2>1. 0 \in 0..Pieces - 1
    BY OffsetAssumption
  <2> QED BY <1>1, <1>2, <2>1, NoOffsetsProperties DEF TypeInv
<1>5. SnapshotCurrent' /\ FileCurrent'
  BY <1>3 DEF SnapshotCurrent, Reads, FileCurrent
<1>6. FileKnown'
  <2>1. \A k \in DOMAIN x.entries : IsKey(k)
    BY TableKeys DEF IsText
  <2> QED BY <1>1, <1>2, <2>1, KeyProperties DEF FileKnown
<1>7. FileSettled'
  BY <1>1, <1>2 DEF FileSettled, UpToDate
<1>8. FileWhole' /\ NothingYet'
  BY <1>2 DEF FileWhole, NothingYet
<1> QED BY <1>4, <1>5, <1>6, <1>7, <1>8

(* What a start of the server reads is what the file has.                  *)
LEMMA IndRecover ==
  ASSUME IInv, Recover
  PROVE  IInv'
<1>1. CASE file = NoFile /\ offsets' = NoOffsets /\ UNCHANGED file
  <2> USE DEF IInv, Recover, Restart
  <2>1. Texts' = {} /\ IsFile'
    BY <1>1 DEF Texts, IsFile
  <2>2. \A u \in Threads : pc'[u] = "idle" /\ pair'[u] = NoPair /\ json'[u] = NoText /\ written'[u] = 0
    OBVIOUS
  <2>3. TypeInv'
    <3>1. 0 \in 0..Pieces - 1
      BY OffsetAssumption
    <3> QED BY <1>1, <2>1, <3>1, NoOffsetsProperties DEF TypeInv
  <2>4. SnapshotCurrent' /\ FileCurrent'
    BY <2>2 DEF SnapshotCurrent, Reads, FileCurrent
  <2>5. FileKnown' /\ FileSettled' /\ FileWhole' /\ NothingYet'
    BY <1>1, <2>1, NoOffsetsProperties DEF FileKnown, FileSettled, FileWhole, NothingYet
  <2> QED BY <2>3, <2>4, <2>5
<1>2. CASE Readable /\ offsets' \in Decodings(Content) /\ UNCHANGED file
  <2>1. PICK x \in Texts : Content = x.entries /\ file = Filled(x)
    BY <1>2, ReadableContent DEF IInv, TypeInv
  <2>2. IsText(x)
    BY DEF IInv, TypeInv
  <2> QED BY <1>2, <2>1, <2>2, IndReadTable
<1>3. ASSUME NEW f \in Readings, offsets' \in Decodings(f),
             file' = Filled(Text(f, FirstOrder))
      PROVE  IInv'
  <2>1. IsText(Text(f, FirstOrder)) /\ Text(f, FirstOrder).entries = f
    BY OffsetAssumption, FirstIsOrder, TextProperties
  <2> QED BY <1>3, <2>1, IndReadTable
<1> QED BY <1>1, <1>2, <1>3 DEF Recover

(* A file that cannot be read stays one.                                   *)
LEMMA IndRecoverPanics ==
  ASSUME IInv, RecoverPanics
  PROVE  IInv'
<1> USE DEF IInv, RecoverPanics
<1>1. Texts' = {} /\ IsFile' /\ file' # NoFile /\ file' = Blank'
  <2>1. file' = Blank'
    BY DEF Blank, Place
  <2> QED BY <2>1, BlankProperties, Created
<1>2. TypeInv'
  BY <1>1 DEF TypeInv
<1>3. SnapshotCurrent'
  <2>1. Encodings(offsets)' = Encodings(offsets)
    BY DEF Encodings
  <2> QED BY <2>1 DEF SnapshotCurrent, Reads
<1>4. FileKnown' /\ FileSettled' /\ FileCurrent' /\ NothingYet'
  BY <1>1 DEF FileKnown, FileSettled, FileCurrent, NothingYet
<1>5. FileWhole'
  BY <1>1 DEF FileWhole
<1> QED BY <1>2, <1>3, <1>4, <1>5

(* Every step preserves the invariant.                                     *)
LEMMA IndNext == IInv /\ [Next]_vars => IInv'
<1> SUFFICES ASSUME IInv, [Next]_vars PROVE IInv'
  OBVIOUS
<1>1. ASSUME NEW t \in Threads, Step(t) PROVE IInv'
  BY <1>1, IndEncode, IndTruncate, IndWritePart, IndWrite, IndWriteFails DEF Step
<1>2. ASSUME NEW t \in Threads, NEW p \in Pairs, NEW offset \in Offsets,
             Insert(t, p, offset)
      PROVE  IInv'
  BY <1>2, IndInsert
<1>3. CASE Crash
  BY <1>3, IndUnchanged DEF Crash
<1>4. CASE Recover
  BY <1>4, IndRecover
<1>5. CASE RecoverPanics
  BY <1>5, IndRecoverPanics
<1>6. CASE UNCHANGED vars
  BY <1>6, IndUnchanged DEF vars, IInv, TypeInv
<1> QED BY <1>1, <1>2, <1>3, <1>4, <1>5, <1>6 DEF Next, Pairs

(* The invariant holds in every state.                                     *)
LEMMA Inductive == Spec => []IInv
BY IndInit, IndNext, PTL DEF Spec

-----------------------------------------------------------------------------
(* Theorems *)

(* Every variable has its type, whatever is read from the file: what it is *)
(* split into are names.                                                   *)
THEOREM TypeCorrect == Spec => []TypeOK
<1>1. ASSUME IInv PROVE TypeOK
  <2>1. file # NoFile =>
          /\ DOMAIN file = Place
          /\ \A i \in Place : \A x, y \in file[i] : IsText(x) /\ x = y
    <3> SUFFICES ASSUME file # NoFile
                 PROVE  /\ DOMAIN file = Place
                        /\ \A i \in Place : \A x, y \in file[i] : IsText(x) /\ x = y
      OBVIOUS
    <3>1. file = [i \in Place |-> file[i]] /\ \A i \in Place : \A x, y \in file[i] : x = y
      BY <1>1 DEF IInv, TypeInv, IsFile
    <3>2. DOMAIN file = Place
      BY <3>1
    <3>3. \A i \in Place : \A x \in file[i] : IsText(x)
      BY <1>1 DEF IInv, TypeInv, Texts
    <3> QED BY <3>1, <3>2, <3>3
  <2> QED BY <1>1, <2>1, KnownPairs DEF IInv, TypeInv, TypeOK, IsMap, Pairs
<1> QED BY <1>1, Inductive, PTL

(* Whoever writes the file holds the present offsets                       *)
(* (src/offset_manager.rs:41-64).                                          *)
THEOREM SnapshotsCurrent == Spec => []SnapshotCurrent
<1>1. IInv => SnapshotCurrent
  BY DEF IInv
<1> QED BY <1>1, Inductive, PTL

(* A splice is no text.                                                    *)
LEMMA WholeIsNoSplice == Readable \/ file = Blank \/ file = NoFile => ~Spliced
BY BlankProperties DEF Spliced, Full

(* Unless a commit failed since the file was truncated: a file that can be *)
(* read has every commit that has returned; and if only whole texts were   *)
(* written since, it is no splice, and it can be read when no commit is    *)
(* under way (src/offset_manager.rs:41-64).                                *)
THEOREM FilePersists == Spec => []Persisted
<1>1. ASSUME IInv, ~failed PROVE Persisted
  <2>1. ASSUME Readable PROVE UpToDate(Content)
    <3>1. PICK x \in Texts : Content = x.entries
      BY <1>1, <2>1, ReadableContent DEF IInv, TypeInv
    <3> QED BY <1>1, <3>1 DEF IInv, FileSettled
  <2>2. ~pieced => ~Spliced
    BY <1>1, WholeIsNoSplice DEF IInv, FileWhole
  <2>3. ASSUME ~pieced, \A t \in Threads : pc[t] = "idle", offsets # NoOffsets
        PROVE  Readable
    BY <1>1, <2>3 DEF IInv, FileWhole, NothingYet
  <2> QED BY <2>1, <2>2, <2>3 DEF Persisted, UpToDate
<1>2. IInv => Persisted
  BY <1>1 DEF Persisted
<1> QED BY <1>2, Inductive, PTL

(* A start of the server changes no offset of a Distinct pair whose commit *)
(* had returned.                                                           *)
LEMMA RecoverKeeps ==
  ASSUME IInv, Recover, ~failed, ~Spliced, NEW p \in Settled \cap Distinct
  PROVE  GetOffset(offsets', p) = GetOffset(offsets, p)
<1> USE DEF IInv, Recover
<1>1. CASE Readable
  <2>1. PICK x \in Texts : Content = x.entries
    BY <1>1, ReadableContent DEF TypeInv
  <2>2. IsTable(x.entries) /\ UpToDate(x.entries)
    BY DEF TypeInv, IsText, FileSettled
  <2>3. file # NoFile /\ offsets' \in Decodings(x.entries)
    BY <1>1, <2>1 DEF Readable, Full
  <2>4. /\ \A k \in DOMAIN x.entries : Split(k) \in DOMAIN offsets' /\ offsets'[Split(k)] = x.entries[k]
        /\ \A q \in DOMAIN offsets' : Key(q) \in DOMAIN x.entries
    BY <2>2, <2>3, DecodingProperties
  <2>5. CASE p \in DOMAIN offsets
    <3>1. Key(p) \in DOMAIN x.entries /\ x.entries[Key(p)] = offsets[p]
      BY <2>2, <2>5 DEF UpToDate
    <3>2. Split(Key(p)) = p
      BY DEF Distinct
    <3> QED BY <2>4, <2>5, <3>1, <3>2 DEF GetOffset
  <2>6. CASE p \notin DOMAIN offsets
    <3>1. ASSUME Key(p) \in DOMAIN x.entries PROVE FALSE
      <4>1. PICK q \in DOMAIN offsets : Key(q) = Key(p)
        BY <2>1, <3>1 DEF FileKnown
      <4>2. q = p
        BY <4>1, DistinctKey DEF TypeInv, IsMap
      <4> QED BY <2>6, <4>1, <4>2
    <3> QED BY <2>4, <2>6, <3>1 DEF GetOffset
  <2> QED BY <2>5, <2>6
<1>2. CASE ~Readable
  <2>1. file = NoFile /\ offsets' = NoOffsets
    BY <1>2
  <2>2. p \notin DOMAIN offsets
    BY <2>1 DEF NothingYet
  <2> QED BY <2>1, <2>2, NoOffsetsProperties DEF GetOffset
<1> QED BY <1>1, <1>2

(* No committed offset of a Distinct pair is lost when the server goes     *)
(* down and starts again, unless a commit failed since the file was        *)
(* truncated, or the file is a splice of several texts.                    *)
THEOREM CommitsKept == Spec => CommitsSurvive
<1>1. ASSUME IInv, Next, ~up, up', ~failed, ~Spliced
      PROVE  \A p \in Settled \cap Distinct :
               GetOffset(offsets', p) = GetOffset(offsets, p)
  <2>1. Recover
    BY <1>1 DEF Next, Step, Insert, Encode, Truncate, WritePart, Write, WriteFails,
                Crash, RecoverPanics, vars
  <2> QED BY <1>1, <2>1, RecoverKeeps
<1>2. IInv /\ [Next]_vars =>
        [~up /\ up' /\ ~failed /\ ~Spliced =>
           \A p \in Settled \cap Distinct :
             GetOffset(offsets', p) = GetOffset(offsets, p)]_vars
  BY <1>1
<1> QED BY <1>2, Inductive, PTL DEF Spec, CommitsSurvive

-----------------------------------------------------------------------------
(* One thread alone *)

(* The file has pieces of one text at most, and that of who writes it.     *)
OneText ==
  /\ \A x, y \in Texts : x = y
  /\ \A t \in Threads : pc[t] = "writing" => Texts \subseteq {json[t]}

(* A thread that is alone writes over nothing but its own text.            *)
LEMMA OneTextNext ==
  ASSUME \A t, u \in Threads : t = u
  PROVE  IInv /\ OneText /\ [Next]_vars => OneText'
<1> SUFFICES ASSUME IInv, OneText, [Next]_vars PROVE OneText'
  OBVIOUS
<1>1. ASSUME Texts' = {} PROVE OneText'
  BY <1>1 DEF OneText
<1>2. ASSUME UNCHANGED file, \A t \in Threads : pc'[t] # "writing" PROVE OneText'
  BY <1>2, SameFile DEF OneText
<1>3. ASSUME UNCHANGED <<file, pc, json>> PROVE OneText'
  BY <1>3, SameFile DEF OneText
<1>4. ASSUME NEW t \in Threads, pc[t] = "writing", NEW n \in Place, Put(t, n)
      PROVE  Texts' \subseteq {json[t]}
  BY <1>4, PutProperties DEF OneText
<1>5. ASSUME NEW t \in Threads, Step(t) PROVE OneText'
  <2>1. CASE Encode(t)
    BY <1>2, <2>1 DEF Encode, Goto, IInv, TypeInv, fileVars
  <2>2. CASE Truncate(t)
    <3>1. (file = Blank)'
      BY <2>2 DEF Truncate, Blank, Place
    <3> QED BY <1>1, <3>1, BlankProperties
  <2>3. CASE WritePart(t)
    <3>1. Texts' \subseteq {json[t]} /\ UNCHANGED json
      <4>1. written[t] \in 0..Pieces - 1 /\ Pieces \in Nat
        BY OffsetAssumption DEF IInv, TypeInv
      <4>2. written[t] + 1..Pieces - 1 \subseteq Place
        BY <4>1 DEF Place
      <4> QED BY <1>4, <2>3, <4>2 DEF WritePart
    <3> QED BY <3>1 DEF OneText
  <2>4. CASE Write(t)
    <3>1. Pieces \in Place
      BY OffsetAssumption DEF Place
    <3>2. Texts' \subseteq {json[t]}
      BY <1>4, <2>4, <3>1 DEF Write
    <3>3. \A u \in Threads : pc'[u] # "writing"
      BY <2>4 DEF Write, EndCommit, Goto, IInv, TypeInv
    <3> QED BY <3>2, <3>3 DEF OneText
  <2>5. CASE WriteFails(t)
    BY <1>2, <2>5 DEF WriteFails, EndCommit, Goto, IInv, TypeInv
  <2> QED BY <1>5, <2>1, <2>2, <2>3, <2>4, <2>5 DEF Step
<1>6. CASE Recover
  <2>1. \A t \in Threads : pc'[t] # "writing"
    BY <1>6 DEF Recover, Restart
  <2>2. CASE UNCHANGED file
    BY <1>2, <2>1, <2>2
  <2>3. ASSUME NEW x, file' = Filled(x) PROVE OneText'
    <3>1. (file = Filled(x))'
      BY <2>3 DEF Filled, Place
    <3>2. Texts' = {x}
      BY <3>1, FilledProperties
    <3> QED BY <2>1, <3>2 DEF OneText
  <2> QED BY <1>6, <2>2, <2>3 DEF Recover
<1>7. CASE RecoverPanics
  <2>1. (file = Blank)'
    BY <1>7 DEF RecoverPanics, Blank, Place
  <2> QED BY <1>1, <2>1, BlankProperties
<1>8. CASE Crash \/ UNCHANGED vars
  BY <1>3, <1>8 DEF Crash, vars, fileVars
<1>9. ASSUME NEW t \in Threads, NEW p \in Pairs, NEW offset \in Offsets, Insert(t, p, offset)
       PROVE  OneText'
  BY <1>2, <1>9 DEF Insert, Goto, IInv, TypeInv, fileVars
<1> QED BY <1>5, <1>6, <1>7, <1>8, <1>9 DEF Next, Pairs

(* Pieces of one text are no splice.                                       *)
LEMMA OneTextWhole == IInv /\ OneText => ~Spliced
<1> SUFFICES ASSUME IInv, OneText, Full PROVE Readable
  BY DEF Spliced
<1>1. file # NoFile /\ \A i \in Place : file[i] # {} /\ file[i] \subseteq Texts
  BY DEF Full, Texts
<1>2. \A i \in Place : file[i] = file[1]
  BY <1>1, Created DEF OneText
<1> QED BY <1>2 DEF Readable

(* As long as the commits of one connection only are written, the file is  *)
(* never a splice, wherever writes end, fail or are cut by a crash         *)
(* (src/offset_manager.rs:53-64).                                          *)
THEOREM AloneNoSplice ==
  ASSUME \A t, u \in Threads : t = u
  PROVE  Spec => []~Spliced
<1>1. Init => OneText
  BY DEF Init, OneText, Texts
<1>2. IInv /\ OneText /\ [Next]_vars => OneText'
  BY OneTextNext
<1> QED BY <1>1, <1>2, Inductive, OneTextWhole, PTL DEF Spec

=============================================================================
