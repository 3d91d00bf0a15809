--------------------------- MODULE OffsetManager ---------------------------
(***************************************************************************)
(* The committed offsets of the consumer groups, src/offset_manager.rs:    *)
(* a map in memory behind a read-write lock, written out as one JSON       *)
(* object after every commit and read back when the server starts          *)
(* (src/server.rs:244-255).                                                *)
(*                                                                         *)
(* A commit inserts under the write lock, gives it up, and then writes the *)
(* file under the read lock, which several threads may hold.  fs::write    *)
(* truncates the file and then writes to it until it has written its whole *)
(* text.  A crash or an error may come before, between and after these; an *)
(* error ends the commit, and the handler ignores it                       *)
(* (src/kafka_api/offset_commit.rs:50).                                    *)
(*                                                                         *)
(* Each thread collects the entries in a map of its own, whose order is    *)
(* its own too (src/offset_manager.rs:55-61): threads that write at once   *)
(* write the same entries in different orders, in texts of one length.  A  *)
(* text has Pieces, and each place of the file a piece of some text, or    *)
(* none where the file ends or has zero bytes.  It reads as the text that  *)
(* all its places are of.  If one has none it cannot be read, and if it is *)
(* spliced from several texts it may read as something else, or not at     *)
(* all.  (Names have no closing brace, at which a splice that is cut short *)
(* could end.)                                                             *)
(*                                                                         *)
(* In the file a group and a topic are joined by a colon and split at the  *)
(* first one.  A name is therefore the sequence of its parts between       *)
(* colons: <<"a">> is "a" and <<"a", "b">> is "a:b".                       *)
(*                                                                         *)
(* A crash stops everything where it is (up = FALSE) and only the file is  *)
(* read afterwards; the other variables keep the values of the moment      *)
(* until Recover replaces them.                                            *)
(***************************************************************************)
EXTENDS Naturals, SequencesExt

CONSTANTS
  Threads,    \* connection tasks that commit
  Groups,     \* names of consumer groups
  Topics,     \* names of topics
  Offsets,    \* the offsets clients commit
  Orders,     \* the orders in which a map may be iterated
  Pieces,     \* of a text: what one write may leave unwritten
  Readings,   \* what a splice of texts may read as
  NoPair

Name == Seq(STRING) \ {<<>>}

(* A key has a part before its first colon and parts behind it. *)
IsTable(f) ==
  /\ f \in [DOMAIN f -> Nat]
  /\ \A k \in DOMAIN f : k \in Name /\ Len(k) > 1

ASSUME OffsetAssumption ==
  /\ Groups \cup Topics \subseteq Name
  /\ Offsets \subseteq Nat
  /\ Orders # {}
  /\ Pieces \in Nat \ {0}
  /\ \A f \in Readings : IsTable(f)
  /\ NoPair \notin Groups \X Topics

VARIABLES
  up,       \* the server has recovered and accepts connections
  pc,       \* where each thread is in set_offset
  pair,     \* the group and topic a thread commits for
  json,     \* the text that a thread writes
  written,  \* how many pieces of it the thread has written
  offsets,  \* OffsetManager.offsets
  file,     \* what is on disk
  failed,   \* history: a commit failed since the file was truncated
  pieced    \* history: a write since then was not that of a whole text

fileVars == <<file, failed, pieced>>
vars == <<up, pc, pair, json, written, offsets, fileVars>>

(* A map, in memory or in a text, is a function on the pairs or keys it has. *)
NoOffsets == [p \in {} |-> 0]

Key(p) == p[1] \o p[2]

Split(k) == <<SubSeq(k, 1, 1), Tail(k)>>

GetOffset(map, p) == IF p \in DOMAIN map THEN map[p] ELSE 0

(* What a thread may collect from the map in memory: when two pairs have   *)
(* one key, the entry that the iteration meets last stays.  The order of   *)
(* this iteration is the same until the map changes.                       *)
Encodings(map) ==
  LET keys == {Key(p) : p \in DOMAIN map} IN
  {f \in [keys -> {map[p] : p \in DOMAIN map}] :
     \A k \in keys : \E p \in DOMAIN map : Key(p) = k /\ f[k] = map[p]}

(* ... and what start-up may make of what it reads. *)
Decodings(f) ==
  LET pairs == {Split(k) : k \in DOMAIN f} IN
  {map \in [pairs -> {f[k] : k \in DOMAIN f}] :
     \A p \in pairs : \E k \in DOMAIN f : Split(k) = p /\ map[p] = f[k]}

(* The order of entries makes a difference to their text if there are      *)
(* several.                                                                *)
FirstOrder == CHOOSE o \in Orders : TRUE

Text(f, o) ==
  [entries |-> f, order |-> IF \E k, l \in DOMAIN f : k # l THEN o ELSE FirstOrder]

NoText == Text(NoOffsets, FirstOrder)

(* A file has at each place the texts of which it has the piece: one or    *)
(* none.  No commit has created it: it has not even places.                *)
Place == 1..Pieces
Filled(x) == [i \in Place |-> {x}]
Blank == [i \in Place |-> {}]
NoFile == [i \in {} |-> {}]

Full == file # NoFile /\ \A i \in Place : file[i] # {}
Readable == Full /\ \A i \in Place : file[i] = file[1]
Spliced == Full /\ ~Readable
Content == (CHOOSE x \in file[1] : TRUE).entries

IsText(x) ==
  x = [entries |-> x.entries, order |-> x.order] /\ IsTable(x.entries) /\ x.order \in Orders

TypeOK ==
  /\ up \in BOOLEAN
  /\ pc \in [Threads -> {"idle", "inserted", "encoded", "writing"}]
  /\ pair \in [Threads -> (Groups \X Topics) \cup {NoPair}]
  /\ \A t \in Threads : IsText(json[t])
  /\ written \in [Threads -> 0..Pieces - 1]
  /\ offsets \in [DOMAIN offsets -> Nat]
  /\ \A p \in DOMAIN offsets : p[1] \in Name /\ p[2] \in Name
  /\ file # NoFile =>
       /\ DOMAIN file = Place
       /\ \A i \in Place : \A x, y \in file[i] : IsText(x) /\ x = y
  /\ failed \in BOOLEAN /\ pieced \in BOOLEAN

Init ==
  /\ up = TRUE
  /\ pc = [t \in Threads |-> "idle"]
  /\ pair = [t \in Threads |-> NoPair]
  /\ json = [t \in Threads |-> NoText]
  /\ written = [t \in Threads |-> 0]
  /\ offsets = NoOffsets
  /\ file = NoFile
  /\ failed = FALSE
  /\ pieced = FALSE

-----------------------------------------------------------------------------
(* OffsetManager::set_offset *)

(* Holds the read lock. *)
Reads(t) == pc[t] \in {"encoded", "writing"}

Goto(t, l) == pc' = [pc EXCEPT ![t] = l]

(* Mutant: the insert does not wait for those who read. *)
InsertAtOnce(t, p, offset) ==
  /\ up /\ pc[t] = "idle"
  /\ offsets' = [q \in DOMAIN offsets \cup {p} |->
                   IF q = p THEN offset ELSE offsets[q]]
  /\ pair' = [pair EXCEPT ![t] = p]
  /\ Goto(t, "inserted")
  /\ UNCHANGED <<up, json, written, fileVars>>

Insert(t, p, offset) ==
  /\ up /\ pc[t] = "idle"
  /\ \A u \in Threads : ~Reads(u)
  /\ offsets' = [q \in DOMAIN offsets \cup {p} |->
                   IF q = p THEN offset ELSE offsets[q]]
  /\ pair' = [pair EXCEPT ![t] = p]
  /\ Goto(t, "inserted")
  /\ UNCHANGED <<up, json, written, fileVars>>

(* flush takes the read lock, for as long as it runs. *)
Encode(t) ==
  /\ up /\ pc[t] = "inserted"
  /\ \E f \in Encodings(offsets), o \in Orders :
       /\ \A u \in Threads : Reads(u) => json[u].entries = f
       /\ json' = [json EXCEPT ![t] = Text(f, o)]
  /\ Goto(t, "encoded")
  /\ UNCHANGED <<up, pair, written, offsets, fileVars>>

Truncate(t) ==
  /\ up /\ pc[t] = "encoded"
  /\ file' = Blank
  /\ failed' = FALSE
  /\ pieced' = FALSE
  /\ Goto(t, "writing")
  /\ UNCHANGED <<up, pair, json, written, offsets>>

(* A write of the text up to its piece n, from where the thread has got.   *)
(* Another thread may have truncated the file, or written to it, since.    *)
Put(t, n) ==
  /\ file' = [i \in Place |-> IF i \in written[t] + 1..n THEN {json[t]} ELSE file[i]]
  /\ pieced' = (pieced \/ n - written[t] < Pieces)

WritePart(t) ==
  /\ up /\ pc[t] = "writing"
  /\ \E n \in written[t] + 1..Pieces - 1 :
       /\ Put(t, n)
       /\ written' = [written EXCEPT ![t] = n]
  /\ UNCHANGED <<up, pc, pair, json, offsets, failed>>

EndCommit(t) ==
  /\ Goto(t, "idle")
  /\ pair' = [pair EXCEPT ![t] = NoPair]
  /\ json' = [json EXCEPT ![t] = NoText]
  /\ written' = [written EXCEPT ![t] = 0]

(* Mutant: only the entry that was committed is written. *)
WriteOwnEntry(t) ==
  /\ up /\ pc[t] = "writing"
  /\ LET k == Key(pair[t]) IN
       file' = Filled(Text([l \in {k} |-> json[t].entries[k]], FirstOrder))
  /\ EndCommit(t)
  /\ UNCHANGED <<up, offsets, failed, pieced>>

(* The last write of a commit. *)
Write(t) ==
  /\ up /\ pc[t] = "writing"
  /\ Put(t, Pieces)
  /\ EndCommit(t)
  /\ UNCHANGED <<up, offsets, failed>>

WriteFails(t) ==
  /\ up /\ Reads(t)
  /\ EndCommit(t)
  /\ failed' = TRUE
  /\ UNCHANGED <<up, offsets, file, pieced>>

-----------------------------------------------------------------------------
(* Crash and recovery *)

Crash ==
  /\ up
  /\ up' = FALSE
  /\ UNCHANGED <<pc, pair, json, written, offsets, fileVars>>

Restart ==
  /\ up' = TRUE
  /\ pc' = [t \in Threads |-> "idle"]
  /\ pair' = [t \in Threads |-> NoPair]
  /\ json' = [t \in Threads |-> NoText]
  /\ written' = [t \in Threads |-> 0]
  /\ failed' = FALSE
  /\ pieced' = FALSE

(* Mutant: keys without their topic. *)
RecoverGroups ==
  /\ ~up
  /\ file = NoFile \/ Readable
  /\ offsets' = IF Readable
                THEN [p \in {<<SubSeq(k, 1, 1), <<>>>> : k \in DOMAIN Content} |-> 0]
                ELSE NoOffsets
  /\ UNCHANGED file
  /\ Restart

(* OffsetManager::recover; no file means no offsets.  What a splice reads  *)
(* as is left open until it is read, and then it is what the file has.     *)
Recover ==
  /\ ~up
  /\ \/ file = NoFile /\ offsets' = NoOffsets /\ UNCHANGED file
     \/ Readable /\ offsets' \in Decodings(Content) /\ UNCHANGED file
     \/ Spliced /\ \E f \in Readings :
          offsets' \in Decodings(f) /\ file' = Filled(Text(f, FirstOrder))
  /\ Restart

(* A file that cannot be read is an error of recover, and start-up panics. *)
(* It stays as it is: a splice that one start has refused, every later one *)
(* refuses, too, which is all that Blank says of it here.                  *)
RecoverPanics ==
  /\ ~up /\ file # NoFile /\ ~Readable
  /\ file' = Blank
  /\ UNCHANGED <<up, pc, pair, json, written, offsets, failed, pieced>>

Step(t) == Encode(t) \/ Truncate(t) \/ WritePart(t) \/ Write(t) \/ WriteFails(t)

Next ==
  \/ \E t \in Threads : Step(t)
  \/ \E t \in Threads, p \in Groups \X Topics, offset \in Offsets : Insert(t, p, offset)
  \/ Crash \/ Recover \/ RecoverPanics

Spec == Init /\ [][Next]_vars

-----------------------------------------------------------------------------
(* Properties *)

(* The pairs for which no commit is under way. *)
Settled == (Groups \X Topics) \ {pair[t] : t \in Threads}

(* The pairs that come back from the file: their key is split where it was *)
(* joined, and no other pair has it.  A group with a colon in its name has *)
(* none, and a topic with one may share its key.                           *)
Distinct ==
  {p \in Groups \X Topics :
     Split(Key(p)) = p /\ \A q \in Groups \X Topics : Key(q) = Key(p) => q = p}

(* Unless a commit failed since the file was truncated: whenever the file  *)
(* can be read it has every commit that has returned, in whatever order    *)
(* the threads that write at once give up the write lock, truncate and     *)
(* write (src/offset_manager.rs:41-64).  If no write was cut short it is   *)
(* no splice either, and can be read when no commit is under way.          *)
Persisted ==
  ~failed =>
    /\ Readable => \A p \in Settled \cap Distinct \cap DOMAIN offsets :
                     Key(p) \in DOMAIN Content /\ Content[Key(p)] = offsets[p]
    /\ ~pieced =>
         /\ ~Spliced
         /\ (\A t \in Threads : pc[t] = "idle") /\ offsets # NoOffsets => Readable

(* Those who write the file hold the present offsets: an insert waits for  *)
(* them, so that the file never falls back behind a commit.                *)
SnapshotCurrent == \A t \in Threads : Reads(t) => json[t].entries \in Encodings(offsets)

(* A start of the server changes no offset whose commit had returned,      *)
(* unless a commit failed since the file was truncated, names share a key, *)
(* or the file is a splice; what else is in the file, wrong entries of     *)
(* such names included, does not touch it.                                 *)
CommitsSurvive ==
  [][~up /\ up' /\ ~failed /\ ~Spliced =>
       \A p \in Settled \cap Distinct : GetOffset(offsets', p) = GetOffset(offsets, p)]_vars

=============================================================================
