--------------------------- MODULE SequenceLemmas ---------------------------
(***************************************************************************)
(* What the proofs need of sequences and the library does not state; first *)
(* of all, what FlattenSeq of SequencesExt, by which the models put        *)
(* sequences together, makes of any sequence of sequences.  It is defined  *)
(* by recursion; that its function exists, that there is one, and what it  *)
(* computes is shown by induction in its set form: a set of numbers that   *)
(* has 0, and with every number the next one, has all of them.             *)
(***************************************************************************)
EXTENDS Integers, SequencesExt, SequenceTheorems, WellFoundedInduction, TLAPS

(* Induction: were a number missing there would be a first one.            *)
LEMMA NatSet ==
  ASSUME NEW S, 0 \in S, \A n \in Nat : n \in S => n + 1 \in S
  PROVE  Nat \subseteq S
<1> DEFINE F == Nat \ S
<1> SUFFICES ASSUME F # {} PROVE FALSE
  OBVIOUS
<1>1. PICK m \in F : \A j \in F : <<j, m>> \notin OpToRel(<, Nat)
  <2>1. F \in SUBSET Nat
    OBVIOUS
  <2> HIDE DEF F
  <2> QED BY <2>1, NatLessThanWellFounded, WFMin, Zenon
<1>2. \A j \in F : ~(j < m)
  BY <1>1, Zenon DEF OpToRel
<1>3. m \in Nat /\ m # 0
  OBVIOUS
<1>4. m - 1 \in Nat /\ m - 1 < m /\ (m - 1) + 1 = m
  BY <1>3
<1>5. m - 1 \in S
  BY <1>2, <1>4
<1>6. m \in S
  BY <1>4, <1>5
<1> QED BY <1>6

(* So every set of numbers that has one has a least one.                   *)
LEMMA MinProperties ==
  ASSUME NEW S \in SUBSET Nat, S # {}
  PROVE  Min(S) \in S /\ \A n \in S : Min(S) <= n
<1>1. PICK m \in S : \A j \in S : <<j, m>> \notin OpToRel(<, Nat)
  BY NatLessThanWellFounded, WFMin, Zenon
<1>2. \A j \in S : ~(j < m)
  BY <1>1, Zenon DEF OpToRel
<1>3. \A j \in S : m <= j
  BY <1>2
<1> QED BY <1>3 DEF Min

(* g is a up to n steps further, each of them by F. *)
IsStep(F, D) == F \in [D \X Nat -> D]
Iterates(g, a, F, n) == g[0] = a /\ \A i \in 1..n : g[i] = F[<<g[i - 1], i>>]

(* A function that goes on from number to number.                          *)
LEMMA IterateExists ==
  ASSUME NEW D, NEW a \in D, NEW F, IsStep(F, D), NEW n \in Nat
  PROVE  \E g \in [0..n -> D] : Iterates(g, a, F, n)
<1> USE DEF IsStep, Iterates
<1> DEFINE P(g, k) == g[0] = a /\ \A i \in 1..k : g[i] = F[<<g[i - 1], i>>]
           S == {k \in Nat : \E g \in [0..k -> D] : P(g, k)}
<1>1. 0 \in S
  <2> DEFINE g == [i \in 0..0 |-> a]
  <2>1. g \in [0..0 -> D] /\ P(g, 0)
    OBVIOUS
  <2> QED BY <2>1
<1>2. ASSUME NEW k \in Nat, k \in S PROVE k + 1 \in S
  <2>1. PICK g \in [0..k -> D] : P(g, k)
    BY <1>2
  <2> DEFINE e == F[<<g[k], k + 1>>]
             h == [i \in 0..k + 1 |-> IF i = k + 1 THEN e ELSE g[i]]
  <2>2. e \in D
    OBVIOUS
  <2>3. h \in [0..k + 1 -> D] /\ h[k + 1] = e /\ \A i \in 0..k : h[i] = g[i]
    <3> HIDE DEF e
    <3> QED BY <2>2
  <2> HIDE DEF h
  <2>4. h[0] = a /\ \A i \in 1..k : h[i] = F[<<h[i - 1], i>>]
    BY <2>1, <2>3
  <2>5. h[k + 1] = F[<<h[(k + 1) - 1], k + 1>>]
    BY <2>3
  <2>6. P(h, k + 1)
    BY <2>4, <2>5
  <2> QED BY <2>3, <2>6
<1> HIDE DEF S
<1>3. n \in S
  BY <1>1, <1>2, NatSet
<1> QED BY <1>3 DEF S

-----------------------------------------------------------------------------
(* The function by which a sequence is flattened *)

(* g has what the first sequences of ss are together. *)
Flattens(ss, n, g) ==
  g = [i \in 1..n |-> IF i = 1 THEN ss[i] ELSE g[i - 1] \o ss[i]]

(* There is such a function for every number of sequences.                 *)
LEMMA FlattensExists ==
  ASSUME NEW ss, NEW n \in Nat
  PROVE  \E g : Flattens(ss, n, g)
<1> DEFINE S == {k \in Nat : \E g : Flattens(ss, k, g)}
<1>1. 0 \in S
  <2> DEFINE g == [i \in 1..0 |-> <<>>]
  <2>1. g = [i \in 1..0 |-> IF i = 1 THEN ss[i] ELSE g[i - 1] \o ss[i]]
    OBVIOUS
  <2> QED BY <2>1 DEF Flattens
<1>2. ASSUME NEW k \in Nat, k \in S PROVE k + 1 \in S
  <2>1. PICK g : Flattens(ss, k, g)
    BY <1>2
  <2> DEFINE E(f, i) == IF i = 1 THEN ss[i] ELSE f[i - 1] \o ss[i]
             h == [i \in 1..k + 1 |-> IF i <= k THEN g[i] ELSE E(g, i)]
  <2>2. ASSUME NEW i \in 1..k + 1 PROVE h[i] = E(h, i)
    <3>1. CASE i <= k
      <4>1. i \in 1..k /\ h[i] = g[i]
        BY <3>1
      <4>2. g[i] = E(g, i)
        BY <2>1, <4>1 DEF Flattens
      <4>3. i # 1 => h[i - 1] = g[i - 1]
        BY <4>1
      <4> QED BY <4>1, <4>2, <4>3
    <3>2. CASE ~(i <= k)
      <4>1. h[i] = E(g, i)
        BY <3>2
      <4>2. i # 1 => h[i - 1] = g[i - 1]
        BY <3>2
      <4> QED BY <4>1, <4>2
    <3> QED BY <3>1, <3>2
  <2>3. h = [i \in 1..k + 1 |-> h[i]]
    OBVIOUS
  <2> HIDE DEF h
  <2>4. h = [i \in 1..k + 1 |-> E(h, i)]
    <3> HIDE DEF E
    <3> QED BY <2>2, <2>3
  <2>5. Flattens(ss, k + 1, h)
    BY <2>4 DEF Flattens
  <2> QED BY <2>5
<1> HIDE DEF S
<1>3. n \in S
  BY <1>1, <1>2, NatSet
<1> QED BY <1>3 DEF S

(* Two sequences are the same as far as n. *)
Agree(f, g, n) == \A i \in 1..n : f[i] = g[i]

(* It is the same for two sequences, as far as they are the same.          *)
LEMMA FlattensUnique ==
  ASSUME NEW ss, NEW tt, NEW n \in Nat, NEW m \in Nat, n <= m,
         NEW g, NEW h, Flattens(ss, n, g), Flattens(tt, m, h),
         Agree(ss, tt, n)
  PROVE  Agree(g, h, n)
<1> DEFINE S == {k \in Nat : k \in 1..n => g[k] = h[k]}
<1>1. 0 \in S
  OBVIOUS
<1>2. ASSUME NEW k \in Nat, k \in S PROVE k + 1 \in S
  <2> SUFFICES ASSUME k + 1 \in 1..n PROVE g[k + 1] = h[k + 1]
    OBVIOUS
  <2>1. k + 1 \in 1..m /\ ss[k + 1] = tt[k + 1] /\ (k + 1) - 1 = k
    BY DEF Agree
  <2>2. CASE k = 0
    <3>1. k + 1 = 1 /\ 1 \in 1..n /\ 1 \in 1..m
      BY <2>1, <2>2
    <3>2. g[1] = ss[1] /\ h[1] = tt[1]
      BY <3>1 DEF Flattens
    <3> QED BY <2>1, <3>1, <3>2
  <2>3. CASE k # 0
    <3>1. g[k] = h[k]
      BY <1>2, <2>3
    <3>2. k + 1 # 1
      BY <2>3
    <3>3. g[k + 1] = g[(k + 1) - 1] \o ss[k + 1]
      BY <3>2 DEF Flattens
    <3>4. h[k + 1] = h[(k + 1) - 1] \o tt[k + 1]
      BY <2>1, <3>2 DEF Flattens
    <3> QED BY <2>1, <3>1, <3>3, <3>4
  <2> QED BY <2>2, <2>3
<1> HIDE DEF S
<1>3. Nat \subseteq S
  BY <1>1, <1>2, NatSet
<1> QED BY <1>3 DEF S, Agree

(* FlattenSeq is its last value.                                           *)
LEMMA FlattenIs ==
  ASSUME NEW ss, NEW n \in Nat, Len(ss) = n, n # 0, NEW h, Flattens(ss, n, h)
  PROVE  FlattenSeq(ss) = h[n]
<1> DEFINE c == CHOOSE g : Flattens(ss, n, g)
<1>1. FlattenSeq(ss) = c[n]
  BY DEF FlattenSeq, Flattens
<1>2. Flattens(ss, n, c)
  BY Zenon
<1> HIDE DEF c
<1>3. n \in 1..n
  OBVIOUS
<1>4. Agree(ss, ss, n)
  BY DEF Agree
<1>5. c[n] = h[n]
  BY <1>2, <1>3, <1>4, FlattensUnique DEF Agree
<1> QED BY <1>1, <1>5

-----------------------------------------------------------------------------
(* Flattening sequences over one set *)

(* No sequences are flattened to none.                                     *)
LEMMA FlattenEmpty == FlattenSeq(<<>>) = <<>>
<1>1. Len(<<>>) = 0
  BY EmptySeq
<1> QED BY <1>1 DEF FlattenSeq

(* One more sequence is put behind what the others are together.           *)
LEMMA FlattenAppend ==
  ASSUME NEW S, NEW ss \in Seq(Seq(S)), NEW s \in Seq(S)
  PROVE  FlattenSeq(Append(ss, s)) = FlattenSeq(ss) \o s
<1> DEFINE n == Len(ss)
           tt == Append(ss, s)
<1>1. /\ n \in Nat /\ Len(tt) = n + 1 /\ tt[n + 1] = s
      /\ \A i \in 1..n : ss[i] = tt[i]
  BY LenProperties, AppendProperties
<1>2. n = 0 => ss = <<>>
  BY EmptySeq
<1>3. n = Len(ss)
  OBVIOUS
<1> HIDE DEF n, tt
<1>4. PICK h : Flattens(tt, n + 1, h)
  <2>1. n + 1 \in Nat
    BY <1>1
  <2> HIDE DEF Flattens
  <2> QED BY <2>1, FlattensExists
<1>5. FlattenSeq(tt) = h[n + 1]
  BY <1>1, <1>4, FlattenIs
<1>6. CASE n = 0
  <2>1. h[1] = tt[1]
    BY <1>4, <1>6 DEF Flattens
  <2>2. <<>> \o s = s
    BY ConcatEmptySeq
  <2> QED BY <1>1, <1>2, <1>5, <1>6, <2>1, <2>2, FlattenEmpty DEF tt
<1>7. CASE n # 0
  <2>1. PICK g : Flattens(ss, n, g)
    BY <1>1, FlattensExists
  <2>2. FlattenSeq(ss) = g[n]
    BY <1>1, <1>3, <1>7, <2>1, FlattenIs
  <2>3. n \in 1..n /\ n + 1 \in Nat /\ n <= n + 1
    BY <1>1, <1>7
  <2>4. g[n] = h[n]
    <3> DEFINE m == n + 1
    <3>1. /\ n \in Nat /\ m \in Nat /\ n <= m /\ Flattens(ss, n, g) /\ Flattens(tt, m, h)
          /\ Agree(ss, tt, n)
      BY <1>1, <1>4, <2>1, <2>3 DEF Agree
    <3> HIDE DEF m
    <3>2. Agree(g, h, n)
      BY <3>1, FlattensUnique
    <3> QED BY <2>3, <3>2 DEF Agree
  <2>5. n + 1 \in 1..n + 1 /\ n + 1 # 1 /\ (n + 1) - 1 = n
    BY <1>1, <1>7
  <2>6. h[n + 1] = h[(n + 1) - 1] \o tt[n + 1]
    BY <1>4, <2>5 DEF Flattens
  <2> QED BY <1>1, <1>5, <2>2, <2>4, <2>5, <2>6 DEF tt
<1> QED BY <1>6, <1>7

(* What is put together of sequences over a set is a sequence over it.     *)
LEMMA FlattenType ==
  ASSUME NEW S, NEW ss \in Seq(Seq(S))
  PROVE  FlattenSeq(ss) \in Seq(S)
<1> DEFINE n == Len(ss)
<1>1. n \in Nat /\ \A i \in 1..n : ss[i] \in Seq(S)
  BY LenProperties
<1>2. n = 0 => ss = <<>>
  BY EmptySeq
<1>3. n = Len(ss)
  OBVIOUS
<1> HIDE DEF n
<1>4. CASE n = 0
  BY <1>2, <1>4, FlattenEmpty, EmptySeq
<1>5. CASE n # 0
  <2>1. PICK g : Flattens(ss, n, g)
    BY <1>1, FlattensExists
  <2> DEFINE T == {k \in Nat : k \in 1..n => g[k] \in Seq(S)}
  <2>2. 0 \in T
    OBVIOUS
  <2>3. ASSUME NEW k \in Nat, k \in T PROVE k + 1 \in T
    <3> SUFFICES ASSUME k + 1 \in 1..n PROVE g[k + 1] \in Seq(S)
      OBVIOUS
    <3>1. ss[k + 1] \in Seq(S)
      BY <1>1
    <3>2. CASE k = 0
      <4>1. k + 1 = 1 /\ g[k + 1] = ss[k + 1]
        BY <2>1, <3>2 DEF Flattens
      <4> QED BY <3>1, <4>1
    <3>3. CASE k # 0
      <4>1. k + 1 # 1 /\ (k + 1) - 1 = k /\ k \in 1..n
        BY <1>1, <3>3
      <4>2. g[k + 1] = g[(k + 1) - 1] \o ss[k + 1]
        BY <2>1, <4>1 DEF Flattens
      <4>3. g[k] \in Seq(S)
        BY <2>3, <4>1
      <4> QED BY <3>1, <4>1, <4>2, <4>3, ConcatProperties
    <3> QED BY <3>2, <3>3
  <2> HIDE DEF T
  <2>4. n \in T
    BY <1>1, <2>2, <2>3, NatSet
  <2>5. g[n] \in Seq(S)
    BY <1>1, <1>5, <2>4 DEF T
  <2> QED BY <1>1, <1>3, <1>5, <2>1, <2>5, FlattenIs
<1> QED BY <1>4, <1>5

(* One sequence alone is what it is.                                       *)
LEMMA FlattenSingle ==
  ASSUME NEW S, NEW s \in Seq(S)
  PROVE  FlattenSeq(<<s>>) = s
<1>1. <<>> \in Seq(Seq(S)) /\ Append(<<>>, s) = <<s>>
  OBVIOUS
<1>2. FlattenSeq(Append(<<>>, s)) = FlattenSeq(<<>>) \o s
  BY <1>1, FlattenAppend
<1>3. <<>> \o s = s
  BY ConcatEmptySeq
<1> QED BY <1>1, <1>2, <1>3, FlattenEmpty

(* One more sequence in front is put before what the others are together.  *)
LEMMA FlattenCons ==
  ASSUME NEW S, NEW ss \in Seq(Seq(S)), NEW s \in Seq(S)
  PROVE  FlattenSeq(<<s>> \o ss) = s \o FlattenSeq(ss)
<1> DEFINE T == Seq(S)
           P(n) == \A tt \in Seq(T) : Len(tt) = n =>
                     FlattenSeq(<<s>> \o tt) = s \o FlattenSeq(tt)
           N == {n \in Nat : P(n)}
<1>1. <<s>> \in Seq(T) /\ s \in T
  OBVIOUS
<1>2. 0 \in N
  <2> SUFFICES ASSUME NEW tt \in Seq(T), Len(tt) = 0
               PROVE  FlattenSeq(<<s>> \o tt) = s \o FlattenSeq(tt)
    OBVIOUS
  <2>1. tt = <<>>
    <3> HIDE DEF T
    <3> QED BY EmptySeq
  <2>2. <<s>> \o tt = <<s>>
    <3> HIDE DEF T
    <3> QED BY <1>1, <2>1, ConcatEmptySeq
  <2> QED BY <2>1, <2>2, FlattenSingle, FlattenEmpty, ConcatEmptySeq
<1>3. ASSUME NEW n \in Nat, P(n), NEW tt \in Seq(T), Len(tt) = n + 1
      PROVE  FlattenSeq(<<s>> \o tt) = s \o FlattenSeq(tt)
  <2>1. PICK uu \in Seq(T), e \in T : tt = Append(uu, e)
    <3>1. tt # <<>>
      BY <1>3, EmptySeq
    <3> HIDE DEF T
    <3> QED BY <3>1, SequenceEmptyOrAppend
  <2>2. Len(uu) = n
    <3>1. Len(uu) \in Nat /\ Len(tt) = Len(uu) + 1
      <4> HIDE DEF T
      <4> QED BY <2>1, AppendProperties, LenProperties
    <3> QED BY <1>3, <3>1
  <2>3. FlattenSeq(<<s>> \o uu) = s \o FlattenSeq(uu)
    BY <1>3, <2>2
  <2>4. <<s>> \o uu \in Seq(T) /\ <<s>> \o tt = Append(<<s>> \o uu, e)
    <3> HIDE DEF T
    <3>1. tt = uu \o <<e>> /\ <<e>> \in Seq(T)
      BY <2>1, AppendIsConcat
    <3>2. <<s>> \o uu \in Seq(T)
      BY <1>1, ConcatProperties
    <3>3. Append(<<s>> \o uu, e) = (<<s>> \o uu) \o <<e>>
      BY <3>2, AppendIsConcat
    <3>4. (<<s>> \o uu) \o <<e>> = <<s>> \o (uu \o <<e>>)
      BY <1>1, <3>1, ConcatAssociative
    <3> QED BY <3>1, <3>2, <3>3, <3>4
  <2>5. FlattenSeq(<<s>> \o tt) = (s \o FlattenSeq(uu)) \o e
    BY <2>3, <2>4, FlattenAppend
  <2>6. FlattenSeq(tt) = FlattenSeq(uu) \o e /\ FlattenSeq(uu) \in Seq(S) /\ e \in Seq(S)
    BY <2>1, FlattenAppend, FlattenType
  <2>7. (s \o FlattenSeq(uu)) \o e = s \o (FlattenSeq(uu) \o e)
    <3> DEFINE f == FlattenSeq(uu)
    <3>1. s \in Seq(S) /\ f \in Seq(S) /\ e \in Seq(S)
      BY <2>6
    <3> HIDE DEF f, T
    <3>2. (s \o f) \o e = s \o (f \o e)
      BY <3>1, ConcatAssociative
    <3> QED BY <3>2 DEF f
  <2> QED BY <2>5, <2>6, <2>7
<1>4. \A n \in Nat : n \in N => n + 1 \in N
  <2>1. ASSUME NEW n \in Nat, P(n) PROVE P(n + 1)
    <3> HIDE DEF T
    <3> QED BY <1>3, <2>1
  <2> HIDE DEF P
  <2> QED BY <2>1
<1> HIDE DEF N
<1>5. Len(ss) \in N
  BY <1>2, <1>4, NatSet, LenProperties
<1> QED BY <1>5 DEF N

(* Empty sequences alone are flattened to none.                            *)
LEMMA FlattenNothing ==
  ASSUME NEW S, NEW ss \in Seq(Seq(S)), \A i \in 1..Len(ss) : ss[i] = <<>>
  PROVE  FlattenSeq(ss) = <<>>
<1>1. Len(ss) \in Nat /\ DOMAIN ss = 1..Len(ss) /\ ss = [i \in 1..Len(ss) |-> ss[i]]
  BY LenProperties
<1>2. <<>> \in Seq({})
  BY EmptySeq
<1>3. ss \in Seq(Seq({}))
  <2> DEFINE n == Len(ss)
             T == Seq({})
  <2>1. n \in Nat /\ ss = [i \in 1..n |-> ss[i]] /\ \A i \in 1..n : ss[i] \in T
    BY <1>1, <1>2
  <2> HIDE DEF n, T
  <2>2. ss \in [1..n -> T]
    BY <2>1
  <2>3. ss \in Seq(T)
    BY <2>1, <2>2
  <2> QED BY <2>3 DEF T
<1> DEFINE f == FlattenSeq(ss)
<1>4. f \in Seq({})
  BY <1>3, FlattenType
<1> HIDE DEF f
<1>5. Len(f) = 0
  <2>1. Len(f) \in Nat
    BY <1>4, LenProperties
  <2>2. ASSUME 1 \in 1..Len(f) PROVE FALSE
    BY <1>4, <2>2, ElementOfSeq
  <2> QED BY <2>1, <2>2
<1>6. f = <<>>
  BY <1>4, <1>5, EmptySeq
<1> QED BY <1>6 DEF f

-----------------------------------------------------------------------------
(* Appending and suffixes *)

(* A function that goes on where a sequence ends.                          *)
LEMMA AppendIs ==
  ASSUME NEW S, NEW f \in Seq(S), NEW e \in S, NEW g,
         g = [i \in 1..Len(f) + 1 |-> g[i]],
         Agree(g, f, Len(f)), g[Len(f) + 1] = e
  PROVE  g = Append(f, e)
<1> DEFINE n == Len(f)
           a == Append(f, e)
<1>1. /\ n \in Nat /\ a \in Seq(S) /\ Len(a) = n + 1 /\ a[n + 1] = e
      /\ \A i \in 1..n : a[i] = f[i]
  BY LenProperties, AppendProperties
<1>2. \A i \in 1..n : f[i] \in S
  BY LenProperties
<1>3. g = [i \in 1..n + 1 |-> g[i]] /\ g[n + 1] = e /\ \A i \in 1..n : g[i] = f[i]
  BY DEF Agree
<1> HIDE DEF n, a
<1>4. \A i \in 1..n + 1 : g[i] \in S /\ g[i] = a[i]
  <2> SUFFICES ASSUME NEW i \in 1..n + 1 PROVE g[i] \in S /\ g[i] = a[i]
    OBVIOUS
  <2>1. CASE i \in 1..n
    BY <1>1, <1>2, <1>3, <2>1
  <2>2. CASE i = n + 1
    BY <1>1, <1>3, <2>2
  <2> QED BY <1>1, <2>1, <2>2
<1>5. g \in Seq(S) /\ Len(g) = n + 1
  <2>1. n + 1 \in Nat
    BY <1>1
  <2>2. g \in [1..n + 1 -> S]
    BY <1>3, <1>4
  <2>3. g \in Seq(S)
    BY <2>1, <2>2
  <2>4. DOMAIN g = 1..n + 1
    BY <1>3
  <2>5. Len(g) \in Nat /\ DOMAIN g = 1..Len(g)
    BY <2>3, LenProperties
  <2> QED BY <2>1, <2>3, <2>4, <2>5
<1>6. g = a
  BY <1>1, <1>4, <1>5, SeqEqual
<1> QED BY <1>6 DEF a

(* A suffix has what its sequence has from a place on.                     *)
LEMMA SuffixProperties ==
  ASSUME NEW S, NEW s \in Seq(S), NEW n \in 1..Len(s) + 1
  PROVE  /\ SubSeq(s, n, Len(s)) \in Seq(S)
         /\ Len(SubSeq(s, n, Len(s))) = Len(s) - n + 1
         /\ \A i \in 1..Len(s) - n + 1 : SubSeq(s, n, Len(s))[i] = s[n + i - 1]
<1> DEFINE l == Len(s)
<1>1. l \in Nat /\ \A i \in 1..l : s[i] \in S
  BY LenProperties
<1>2. n \in 1..l + 1
  OBVIOUS
<1> HIDE DEF l
<1>3. n \in Int /\ l \in Int /\ (n <= l \/ l - n + 1 = 0) /\ \A i \in n..l : s[i] \in S
  BY <1>1, <1>2
<1>4. /\ SubSeq(s, n, l) \in Seq(S)
      /\ Len(SubSeq(s, n, l)) = IF n <= l THEN l - n + 1 ELSE 0
      /\ \A i \in 1..l - n + 1 : SubSeq(s, n, l)[i] = s[n + i - 1]
  BY <1>3, SubSeqProperties
<1> QED BY <1>3, <1>4 DEF l

(* A prefix has what its sequence has up to a place.                       *)
LEMMA PrefixProperties ==
  ASSUME NEW S, NEW s \in Seq(S), NEW n \in 0..Len(s)
  PROVE  /\ SubSeq(s, 1, n) \in Seq(S) /\ Len(SubSeq(s, 1, n)) = n
         /\ \A i \in 1..n : SubSeq(s, 1, n)[i] = s[i]
<1> DEFINE l == Len(s)
<1>1. l \in Nat /\ \A i \in 1..l : s[i] \in S
  BY LenProperties
<1>2. n \in 0..l
  OBVIOUS
<1> HIDE DEF l
<1>3. n \in Int /\ (1 <= n \/ n = 0) /\ n - 1 + 1 = n /\ \A i \in 1..n : s[i] \in S
  BY <1>1, <1>2
<1>4. /\ SubSeq(s, 1, n) \in Seq(S)
      /\ Len(SubSeq(s, 1, n)) = IF 1 <= n THEN n - 1 + 1 ELSE 0
      /\ \A i \in 1..n - 1 + 1 : SubSeq(s, 1, n)[i] = s[1 + i - 1]
  BY <1>3, SubSeqProperties
<1> QED BY <1>3, <1>4

(* What is put behind a sequence is put behind its suffixes.               *)
LEMMA SuffixOfConcat ==
  ASSUME NEW S, NEW s \in Seq(S), NEW t \in Seq(S), NEW n \in 1..Len(s)
  PROVE  SubSeq(s \o t, n, Len(s \o t)) = SubSeq(s, n, Len(s)) \o t
<1> DEFINE c == s \o t
           l == Len(s)
           m == Len(t)
           suffix == SubSeq(s, n, l)
           left == SubSeq(c, n, l + m)
           right == suffix \o t
<1>1. /\ l \in Nat /\ m \in Nat /\ c \in Seq(S) /\ Len(c) = l + m
      /\ \A i \in 1..l : s[i] \in S
      /\ \A i \in 1..l + m : c[i] \in S /\ c[i] = IF i <= l THEN s[i] ELSE t[i - l]
  <2>1. l \in Nat /\ m \in Nat /\ \A i \in 1..l : s[i] \in S
    BY LenProperties
  <2>2. /\ c \in Seq(S) /\ Len(c) = l + m
        /\ \A i \in 1..l + m : c[i] = IF i <= l THEN s[i] ELSE t[i - l]
    BY ConcatProperties
  <2>3. \A i \in 1..Len(c) : c[i] \in S
    <3> HIDE DEF c
    <3> QED BY <2>2, ElementOfSeq
  <2> HIDE DEF c, l, m
  <2> QED BY <2>1, <2>2, <2>3
<1>2. n \in 1..l
  OBVIOUS
<1>3. /\ suffix \in Seq(S) /\ Len(suffix) = l - n + 1
      /\ \A i \in 1..l - n + 1 : suffix[i] = s[n + i - 1]
  <2> HIDE DEF l
  <2>1. \A i \in n..l : s[i] \in S
    BY <1>1, <1>2
  <2> QED BY <1>1, <1>2, <2>1, SubSeqProperties
<1> HIDE DEF c, l, m, suffix
<1>4. /\ left \in Seq(S) /\ Len(left) = l + m - n + 1
      /\ \A i \in 1..l + m - n + 1 : left[i] = c[n + i - 1]
  <2>1. \A i \in n..l + m : c[i] \in S
    BY <1>1, <1>2
  <2> QED BY <1>1, <1>2, <2>1, SubSeqProperties
<1>5. /\ right \in Seq(S) /\ Len(right) = (l - n + 1) + m
      /\ \A i \in 1..(l - n + 1) + m :
           right[i] = IF i <= l - n + 1 THEN suffix[i] ELSE t[i - (l - n + 1)]
  <2> DEFINE k == Len(suffix)
  <2>1. t \in Seq(S) /\ Len(t) = m
    BY DEF m
  <2>2. k = l - n + 1
    BY <1>3
  <2>3. /\ right \in Seq(S) /\ Len(right) = k + m
        /\ \A i \in 1..k + m : right[i] = IF i <= k THEN suffix[i] ELSE t[i - k]
    BY <1>3, <2>1, ConcatProperties
  <2> HIDE DEF k, right
  <2> QED BY <2>2, <2>3
<1> HIDE DEF left, right
<1>6. Len(left) = Len(right)
  BY <1>1, <1>2, <1>4, <1>5
<1>7. ASSUME NEW i \in 1..Len(left) PROVE left[i] = right[i]
  <2>1. i \in 1..l + m - n + 1 /\ i \in 1..(l - n + 1) + m /\ n + i - 1 \in 1..l + m
    BY <1>1, <1>2, <1>4
  <2>2. CASE i <= l - n + 1
    <3>1. n + i - 1 <= l /\ i \in 1..l - n + 1
      BY <1>1, <1>2, <2>1, <2>2
    <3> QED BY <1>1, <1>3, <1>4, <1>5, <2>1, <2>2, <3>1
  <2>3. CASE ~(i <= l - n + 1)
    <3>1. ~(n + i - 1 <= l) /\ (n + i - 1) - l = i - (l - n + 1)
      BY <1>1, <1>2, <2>1, <2>3
    <3>2. left[i] = t[(n + i - 1) - l] /\ right[i] = t[i - (l - n + 1)]
      BY <1>1, <1>4, <1>5, <2>1, <2>3, <3>1
    <3> QED BY <3>1, <3>2
  <2> QED BY <2>2, <2>3
<1>8. left = right
  BY <1>4, <1>5, <1>6, <1>7, SeqEqual
<1>9. Len(c) = l + m
  BY <1>1
<1> QED BY <1>8, <1>9 DEF left, right, suffix, c, l

(* What is put together of a function that goes on where another ends.     *)
LEMMA FlattenGrows ==
  ASSUME NEW S, NEW n \in Nat, NEW f \in [1..n -> Seq(S)], NEW g \in [1..n + 1 -> Seq(S)],
         Agree(g, f, n)
  PROVE  /\ FlattenSeq(f) \in Seq(S)
         /\ FlattenSeq(g) = FlattenSeq(f) \o g[n + 1]
<1> DEFINE T == Seq(S)
<1>1. /\ n \in Nat /\ f \in [1..n -> T]
      /\ g = [i \in 1..n + 1 |-> g[i]] /\ g[n + 1] \in T
  OBVIOUS
<1> HIDE DEF T
<1>2. f \in Seq(T) /\ Len(f) = n
  <2>1. f \in Seq(T)
    BY <1>1, SeqDef
  <2>2. DOMAIN f = 1..n
    BY <1>1
  <2>3. Len(f) \in Nat /\ DOMAIN f = 1..Len(f)
    BY <2>1, LenProperties
  <2> QED BY <1>1, <2>1, <2>2, <2>3
<1>3. g = Append(f, g[n + 1])
  <2> DEFINE e == g[n + 1]
             k == Len(f)
  <2>1. /\ f \in Seq(T) /\ e \in T /\ g = [i \in 1..k + 1 |-> g[i]]
        /\ Agree(g, f, k) /\ g[k + 1] = e
    BY <1>1, <1>2
  <2>2. k = Len(f)
    OBVIOUS
  <2> HIDE DEF e, k
  <2>3. g = Append(f, e)
    BY <2>1, <2>2, AppendIs
  <2> QED BY <2>3 DEF e
<1> QED BY <1>1, <1>2, <1>3, FlattenAppend, FlattenType DEF T

=============================================================================
