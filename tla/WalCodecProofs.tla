--------------------------- MODULE WalCodecProofs ---------------------------
(***************************************************************************)
(* What is written to the WAL file is read back, byte by byte: for any     *)
(* alphabet and width of a length, any names, payloads and streams, any    *)
(* number of records, and wherever crashes and short writes cut the file.  *)
(***************************************************************************)
EXTENDS WalCodec, SequenceLemmas

-----------------------------------------------------------------------------
(* Lengths and their bytes *)

(* What is left of a number, byte by byte.                                 *)
LEMMA LeftProperties ==
  ASSUME NEW n \in Nat
  PROVE  /\ \A i \in 0..Width : Left(n)[i] \in Nat
         /\ Left(n)[0] = n
         /\ \A i \in 1..Width : Left(n)[i] = Left(n)[i - 1] \div Base
<1> DEFINE Is(g) == g = [i \in 0..Width |-> IF i = 0 THEN n ELSE g[i - 1] \div Base]
           left == CHOOSE g : Is(g)
           F == [p \in Nat \X Nat |-> p[1] \div Base]
<1>1. Width \in Nat /\ Base \in Nat \ {0}
  BY CodecAssumption
<1>2. Left(n) = left
  BY DEF Left
<1>3. F \in [Nat \X Nat -> Nat] /\ \A x, i \in Nat : F[<<x, i>>] = x \div Base
  BY <1>1
<1>4. PICK g \in [0..Width -> Nat] : g[0] = n /\ \A i \in 1..Width : g[i] = F[<<g[i - 1], i>>]
  <2>1. IsStep(F, Nat)
    BY <1>3 DEF IsStep
  <2> HIDE DEF F
  <2>2. \E g \in [0..Width -> Nat] : Iterates(g, n, F, Width)
    BY <1>1, <2>1, IterateExists
  <2> QED BY <2>2 DEF Iterates
<1>5. Is(g)
  <2> HIDE DEF F
  <2>1. \A i \in 1..Width : g[i - 1] \in Nat /\ i \in Nat
    BY <1>1, <1>4
  <2>2. \A i \in 1..Width : g[i] = g[i - 1] \div Base
    BY <1>3, <1>4, <2>1
  <2>3. \A i \in 0..Width : i # 0 => i \in 1..Width
    BY <1>1
  <2> QED BY <1>4, <2>2, <2>3
<1>6. Is(left)
  <2> HIDE DEF Is
  <2> QED BY <1>5
<1> HIDE DEF left
<1>7. left[0] = n /\ \A i \in 1..Width : left[i] = left[i - 1] \div Base
  BY <1>1, <1>6
<1> DEFINE S == {i \in Nat : i <= Width => left[i] \in Nat}
<1>8. ASSUME NEW i \in Nat, i \in S PROVE i + 1 \in S
  <2> SUFFICES ASSUME i + 1 <= Width PROVE left[i + 1] \in Nat
    OBVIOUS
  <2>1. left[i] \in Nat /\ i + 1 \in 1..Width /\ (i + 1) - 1 = i
    BY <1>1, <1>8
  <2>2. left[i + 1] = left[i] \div Base
    BY <1>7, <2>1
  <2>3. \A q \in Nat : q \div Base \in Nat
    BY <1>1
  <2> QED BY <2>1, <2>2, <2>3
<1>9. 0 \in S
  BY <1>7
<1> HIDE DEF S
<1>10. Nat \subseteq S
  BY <1>8, <1>9, NatSet
<1>11. \A i \in 0..Width : left[i] \in Nat
  BY <1>1, <1>10 DEF S
<1> QED BY <1>2, <1>7, <1>11

(* The number of bytes, read from the last of them down.                   *)
LEMMA NumberProperties ==
  ASSUME NEW bytes \in [1..Width -> Byte]
  PROVE  \E high \in [0..Width -> Nat] :
           /\ high[0] = 0 /\ Number(bytes) = high[Width]
           /\ \A k \in 1..Width : high[k] = bytes[Width + 1 - k] + Base * high[k - 1]
<1> DEFINE Is(g) == g = [k \in 0..Width |->
                           IF k = 0 THEN 0 ELSE bytes[Width + 1 - k] + Base * g[k - 1]]
           high == CHOOSE g : Is(g)
           B(k) == IF k \in 1..Width THEN bytes[Width + 1 - k] ELSE 0
           F == [p \in Nat \X Nat |-> B(p[2]) + Base * p[1]]
<1>1. Width \in Nat /\ Base \in Nat \ {0}
  BY CodecAssumption
<1>2. Number(bytes) = high[Width]
  BY DEF Number
<1>3. \A k \in 1..Width : bytes[Width + 1 - k] \in Nat
  BY <1>1 DEF Byte
<1>4. \A k : B(k) \in Nat
  BY <1>3
<1>5. F \in [Nat \X Nat -> Nat] /\ \A x, k \in Nat : F[<<x, k>>] = B(k) + Base * x
  <2> HIDE DEF B
  <2> QED BY <1>1, <1>4
<1>6. PICK g \in [0..Width -> Nat] : g[0] = 0 /\ \A i \in 1..Width : g[i] = F[<<g[i - 1], i>>]
  <2>1. IsStep(F, Nat)
    BY <1>5 DEF IsStep
  <2> HIDE DEF F
  <2>2. \E g \in [0..Width -> Nat] : Iterates(g, 0, F, Width)
    BY <1>1, <2>1, IterateExists
  <2> QED BY <2>2 DEF Iterates
<1>7. \A k \in 1..Width : g[k] = bytes[Width + 1 - k] + Base * g[k - 1]
  <2> HIDE DEF F
  <2>1. \A k \in 1..Width : g[k - 1] \in Nat /\ k \in Nat
    BY <1>1, <1>6
  <2>2. \A k \in 1..Width : g[k] = B(k) + Base * g[k - 1]
    <3> HIDE DEF B
    <3> QED BY <1>5, <1>6, <2>1
  <2> QED BY <2>2
<1>8. Is(g)
  <2>1. \A i \in 0..Width : i # 0 => i \in 1..Width
    BY <1>1
  <2> HIDE DEF F, B
  <2> QED BY <1>6, <1>7, <2>1
<1>9. Is(high)
  <2> HIDE DEF Is
  <2> QED BY <1>8
<1> HIDE DEF high
<1>10. /\ high = [k \in 0..Width |-> high[k]] /\ high[0] = 0
       /\ \A k \in 1..Width : high[k] = bytes[Width + 1 - k] + Base * high[k - 1]
  <2> DEFINE E(k) == bytes[Width + 1 - k] + Base * high[k - 1]
  <2>1. high = [k \in 0..Width |-> IF k = 0 THEN 0 ELSE E(k)]
    BY <1>9
  <2> HIDE DEF E
  <2>2. high = [k \in 0..Width |-> high[k]] /\ high[0] = 0
    BY <1>1, <2>1
  <2>3. \A k \in 1..Width : high[k] = E(k)
    BY <1>1, <2>1
  <2> QED BY <2>2, <2>3 DEF E
<1> DEFINE S == {i \in Nat : i <= Width => high[i] \in Nat}
<1>11. ASSUME NEW i \in Nat, i \in S PROVE i + 1 \in S
  <2> SUFFICES ASSUME i + 1 <= Width PROVE high[i + 1] \in Nat
    OBVIOUS
  <2>1. high[i] \in Nat /\ i + 1 \in 1..Width /\ (i + 1) - 1 = i
    BY <1>1, <1>11
  <2>2. high[i + 1] = bytes[Width + 1 - (i + 1)] + Base * high[i]
    BY <1>10, <2>1
  <2>3. bytes[Width + 1 - (i + 1)] \in Nat
    BY <1>3, <2>1
  <2>4. \A b, q \in Nat : b + Base * q \in Nat
    BY <1>1
  <2> QED BY <2>1, <2>2, <2>3, <2>4
<1>12. 0 \in S
  BY <1>10
<1> HIDE DEF S
<1>13. Nat \subseteq S
  BY <1>11, <1>12, NatSet
<1>14. high \in [0..Width -> Nat]
  <2>1. \A i \in 0..Width : high[i] \in Nat
    BY <1>1, <1>13 DEF S
  <2> QED BY <1>10, <2>1
<1> QED BY <1>2, <1>10, <1>14

(* A length is written in bytes.                                           *)
LEMMA LengthBytes ==
  ASSUME NEW n \in Nat
  PROVE  LittleEndian(n) \in [1..Width -> Byte]
<1>1. Width \in Nat /\ Base \in Nat \ {0}
  BY CodecAssumption
<1>2. ASSUME NEW i \in 1..Width PROVE Left(n)[i - 1] % Base \in Byte
  <2>1. Left(n)[i - 1] \in Nat
    BY <1>1, LeftProperties
  <2> QED BY <1>1, <2>1 DEF Byte
<1> QED BY <1>2 DEF LittleEndian

(* A length that fits is read as it was written.                           *)
LEMMA LengthRead ==
  ASSUME NEW n \in Nat, Left(n)[Width] = 0
  PROVE  Number(LittleEndian(n)) = n
<1> DEFINE left == Left(n)
           bytes == LittleEndian(n)
<1>1. Width \in Nat /\ Base \in Nat \ {0}
  BY CodecAssumption
<1>2. /\ \A i \in 0..Width : left[i] \in Nat
      /\ left[0] = n /\ left[Width] = 0
      /\ \A i \in 1..Width : left[i] = left[i - 1] \div Base
  BY LeftProperties
<1>3. \A i \in 1..Width : bytes[i] = left[i - 1] % Base
  BY DEF LittleEndian
<1>4. bytes \in [1..Width -> Byte]
  BY LengthBytes
<1> HIDE DEF left, bytes
<1>5. PICK high \in [0..Width -> Nat] :
        /\ high[0] = 0 /\ Number(bytes) = high[Width]
        /\ \A k \in 1..Width : high[k] = bytes[Width + 1 - k] + Base * high[k - 1]
  BY <1>4, NumberProperties
<1> DEFINE S == {k \in Nat : k <= Width => high[k] = left[Width - k]}
<1>6. ASSUME NEW k \in Nat, k \in S PROVE k + 1 \in S
  <2> SUFFICES ASSUME k + 1 <= Width PROVE high[k + 1] = left[Width - (k + 1)]
    OBVIOUS
  <2> DEFINE i == Width - k
             q == left[i - 1]
  <2>1. k + 1 \in 1..Width /\ i \in 1..Width /\ i - 1 \in 0..Width /\ (k + 1) - 1 = k
        /\ Width + 1 - (k + 1) = i /\ Width - (k + 1) = i - 1
    BY <1>1
  <2>2. high[k] = left[i]
    BY <1>1, <1>6
  <2> HIDE DEF i
  <2>3. q \in Nat /\ left[i] = q \div Base /\ bytes[i] = q % Base
    BY <1>2, <1>3, <2>1
  <2>4. high[k + 1] = bytes[i] + Base * high[k]
    BY <1>5, <2>1
  <2> HIDE DEF q
  <2>5. (q % Base) + Base * (q \div Base) = q
    BY <1>1, <2>3
  <2> QED BY <2>1, <2>2, <2>3, <2>4, <2>5 DEF q
<1>7. 0 \in S
  BY <1>1, <1>2, <1>5
<1> HIDE DEF S
<1>8. Width \in S
  BY <1>1, <1>6, <1>7, NatSet
<1>9. high[Width] = left[0]
  BY <1>1, <1>8 DEF S
<1> QED BY <1>2, <1>5, <1>9 DEF bytes

-----------------------------------------------------------------------------
(* A record in bytes *)

(* What is in a record.                                                    *)
LEMMA RecordProperties ==
  ASSUME NEW r \in StoredRecord
  PROVE  /\ r.topic \in Seq(Text) /\ r.topic \in Seq(Byte)
         /\ r.indicator \in {0, 1} /\ r.indicator \in Byte /\ Newline \in Byte
         /\ r.payload \in Seq(Byte) /\ Left(Len(r.payload))[Width] = 0
         /\ r.indicator = 1 => r.payload \in Streams
         /\ r = [topic |-> r.topic, indicator |-> r.indicator, payload |-> r.payload]
<1>1. r.topic \in Names /\ r.indicator \in {0, 1} /\ r.payload \in Payloads \cup Streams
      /\ (r.indicator = 1 => r.payload \in Streams)
      /\ r = [topic |-> r.topic, indicator |-> r.indicator, payload |-> r.payload]
  BY DEF StoredRecord
<1>2. r.topic \in Seq(Text)
  BY <1>1, CodecAssumption
<1>3. r.topic \in Seq(Byte)
  BY <1>2, SeqMonotonic, CodecAssumption
<1>4. r.payload \in Seq(Byte) /\ Left(Len(r.payload))[Width] = 0
  BY <1>1, CodecAssumption
<1>5. 0 \in Byte /\ 1 \in Byte /\ Newline \in Byte
  BY CodecAssumption DEF Byte
<1> QED BY <1>1, <1>2, <1>3, <1>4, <1>5

(* Where the payload of a record begins, behind its topic, the newline,    *)
(* the indicator and the length.                                           *)
Start(r) == Len(r.topic) + 2 + Width

(* Every byte of a record in its place.                                    *)
LEMMA SerializeProperties ==
  ASSUME NEW r \in StoredRecord
  PROVE  /\ Serialize(r) \in Seq(Byte)
         /\ Len(Serialize(r)) = Start(r) + Len(r.payload)
         /\ \A i \in 1..Len(r.topic) : Serialize(r)[i] = r.topic[i]
         /\ Serialize(r)[Len(r.topic) + 1] = Newline
         /\ Serialize(r)[Len(r.topic) + 2] = r.indicator
         /\ \A i \in 1..Width :
              Serialize(r)[Len(r.topic) + 2 + i] = LittleEndian(Len(r.payload))[i]
         /\ \A i \in 1..Len(r.payload) : Serialize(r)[Start(r) + i] = r.payload[i]
<1> DEFINE t == r.topic
           p == r.payload
           m == <<Newline, r.indicator>>
           e == LittleEndian(Len(p))
           T == Len(t)
           P == Len(p)
           a == t \o m
           b == a \o e
           c == b \o p
<1>1. Serialize(r) = t \o m \o e \o p
  BY DEF Serialize
<1>2. /\ t \in Seq(Byte) /\ T \in Nat /\ p \in Seq(Byte) /\ P \in Nat
      /\ m \in Seq(Byte) /\ Len(m) = 2 /\ m[1] = Newline /\ m[2] = r.indicator
      /\ Width \in Nat
  BY RecordProperties, LenProperties, CodecAssumption
<1>3. e \in Seq(Byte) /\ Len(e) = Width
  <2>1. e \in [1..Width -> Byte]
    BY <1>2, LengthBytes
  <2> HIDE DEF e
  <2>2. e \in Seq(Byte)
    BY <1>2, <2>1, SeqDef
  <2>3. DOMAIN e = 1..Width /\ Len(e) \in Nat /\ DOMAIN e = 1..Len(e)
    BY <2>1, <2>2, LenProperties
  <2> QED BY <1>2, <2>2, <2>3
<1>4. T = Len(t) /\ P = Len(p)
  OBVIOUS
<1> HIDE DEF t, p, m, e, T, P
<1>5. /\ a \in Seq(Byte) /\ Len(a) = T + 2
      /\ \A i \in 1..T + 2 : a[i] = IF i <= T THEN t[i] ELSE m[i - T]
  <2>1. t \in Seq(Byte) /\ m \in Seq(Byte) /\ Len(t) = T /\ Len(m) = 2
    BY <1>2, <1>4
  <2>2. /\ a \in Seq(Byte) /\ Len(a) = Len(t) + Len(m)
        /\ \A i \in 1..Len(t) + Len(m) : a[i] = IF i <= Len(t) THEN t[i] ELSE m[i - Len(t)]
    BY <2>1, ConcatProperties
  <2> HIDE DEF a
  <2> QED BY <2>1, <2>2
<1> HIDE DEF a
<1>6. /\ b \in Seq(Byte) /\ Len(b) = T + 2 + Width
      /\ \A i \in 1..T + 2 + Width : b[i] = IF i <= T + 2 THEN a[i] ELSE e[i - (T + 2)]
  <2> DEFINE n == Len(a)
  <2>1. n = T + 2
    BY <1>5
  <2>2. /\ b \in Seq(Byte) /\ Len(b) = n + Width
        /\ \A i \in 1..n + Width : b[i] = IF i <= n THEN a[i] ELSE e[i - n]
    BY <1>3, <1>5, ConcatProperties
  <2> HIDE DEF n, b
  <2> QED BY <2>1, <2>2
<1> HIDE DEF b
<1>7. /\ c \in Seq(Byte) /\ Len(c) = T + 2 + Width + P
      /\ \A i \in 1..T + 2 + Width + P :
           c[i] = IF i <= T + 2 + Width THEN b[i] ELSE p[i - (T + 2 + Width)]
  <2> DEFINE n == Len(b)
  <2>1. n = T + 2 + Width
    BY <1>6
  <2>2. /\ c \in Seq(Byte) /\ Len(c) = n + P
        /\ \A i \in 1..n + P : c[i] = IF i <= n THEN b[i] ELSE p[i - n]
    <3>1. b \in Seq(Byte) /\ p \in Seq(Byte) /\ Len(p) = P
      BY <1>2, <1>4, <1>6
    <3>2. /\ c \in Seq(Byte) /\ Len(c) = n + Len(p)
          /\ \A i \in 1..n + Len(p) : c[i] = IF i <= n THEN b[i] ELSE p[i - n]
      BY <3>1, ConcatProperties
    <3> HIDE DEF n, c
    <3> QED BY <3>1, <3>2
  <2> HIDE DEF n, c
  <2> QED BY <2>1, <2>2
<1>8. Serialize(r) = c
  BY <1>1 DEF a, b
<1> HIDE DEF c
<1>9. ASSUME NEW i \in 1..T PROVE c[i] = t[i]
  <2>1. i \in 1..T + 2 + Width + P /\ i <= T + 2 + Width
        /\ i \in 1..T + 2 + Width /\ i <= T + 2 /\ i \in 1..T + 2 /\ i <= T
    BY <1>2
  <2> QED BY <1>5, <1>6, <1>7, <2>1
<1>10. ASSUME NEW i \in {1, 2} PROVE c[T + i] = m[i]
  <2> DEFINE j == T + i
  <2>1. j \in 1..T + 2 + Width + P /\ j <= T + 2 + Width
        /\ j \in 1..T + 2 + Width /\ j <= T + 2 /\ j \in 1..T + 2 /\ ~(j <= T) /\ j - T = i
    BY <1>2
  <2> HIDE DEF j
  <2>2. c[j] = m[i]
    BY <1>5, <1>6, <1>7, <2>1
  <2> QED BY <2>2 DEF j
<1>11. ASSUME NEW i \in 1..Width PROVE c[T + 2 + i] = e[i]
  <2> DEFINE j == T + 2 + i
  <2>1. j \in 1..T + 2 + Width + P /\ j <= T + 2 + Width
        /\ j \in 1..T + 2 + Width /\ ~(j <= T + 2) /\ j - (T + 2) = i
    BY <1>2
  <2> HIDE DEF j
  <2>2. c[j] = e[i]
    BY <1>6, <1>7, <2>1
  <2> QED BY <2>2 DEF j
<1>12. ASSUME NEW i \in 1..P PROVE c[T + 2 + Width + i] = p[i]
  <2> DEFINE j == T + 2 + Width + i
  <2>1. j \in 1..T + 2 + Width + P /\ ~(j <= T + 2 + Width) /\ j - (T + 2 + Width) = i
    BY <1>2
  <2> HIDE DEF j
  <2>2. c[j] = p[i]
    BY <1>7, <2>1
  <2> QED BY <2>2 DEF j
<1>13. c[T + 1] = Newline /\ c[T + 2] = r.indicator
  BY <1>2, <1>10
<1> QED BY <1>7, <1>8, <1>9, <1>11, <1>12, <1>13 DEF Start, t, p, e, T, P

-----------------------------------------------------------------------------
(* What is read *)

(* A line ends at the first newline.                                       *)
LEMMA LineFound ==
  ASSUME rest \in Seq(Byte), NEW n \in 1..Len(rest), rest[n] = Newline,
         \A i \in 1..n - 1 : rest[i] # Newline
  PROVE  Line = n
<1> DEFINE I == {i \in 1..Len(rest) : rest[i] = Newline}
<1>1. SelectInSeq(rest, LAMBDA b : b = Newline) = IF I # {} THEN Min(I) ELSE 0
  BY DEF SelectInSeq
<1>2. Len(rest) \in Nat
  BY LenProperties
<1>3. n \in I /\ I \in SUBSET Nat /\ 0 \notin I
  BY <1>2
<1> DEFINE k == Min(I)
<1>4. k \in I /\ k <= n
  <2> HIDE DEF I
  <2> QED BY <1>3, MinProperties
<1>5. k = n
  <2>1. k \in 1..Len(rest) /\ rest[k] = Newline
    BY <1>4
  <2> HIDE DEF k
  <2>2. ~(k \in 1..n - 1)
    BY <2>1
  <2> QED BY <1>2, <1>4, <2>1, <2>2
<1> HIDE DEF I, k
<1> QED BY <1>1, <1>3, <1>5 DEF Line, k

(* Without one it ends with the file.                                      *)
LEMMA NoLine ==
  ASSUME rest \in Seq(Byte), \A i \in 1..Len(rest) : rest[i] # Newline
  PROVE  Line = Len(rest)
<1>1. SelectInSeq(rest, LAMBDA b : b = Newline) = 0
  BY DEF SelectInSeq
<1> QED BY <1>1 DEF Line

(* As many bytes as there are.                                             *)
LEMMA UpToProperties ==
  ASSUME NEW s \in Seq(Byte), NEW n \in Nat
  PROVE  /\ UpTo(s, n) \in Seq(Byte)
         /\ Len(UpTo(s, n)) = IF n <= Len(s) THEN n ELSE Len(s)
         /\ \A i \in 1..Len(UpTo(s, n)) : UpTo(s, n)[i] = s[i]
<1> DEFINE l == Len(s)
           k == Min({n, l})
<1>1. l \in Nat
  BY LenProperties
<1>2. k = IF n <= l THEN n ELSE l
  <2> HIDE DEF l
  <2>1. {n, l} \in SUBSET Nat /\ {n, l} # {} /\ n \in {n, l} /\ l \in {n, l}
    BY <1>1
  <2>2. k \in {n, l} /\ \A i \in {n, l} : k <= i
    BY <2>1, MinProperties
  <2> HIDE DEF k
  <2> QED BY <1>1, <2>2
<1>3. k \in 0..Len(s)
  <2> HIDE DEF k
  <2> QED BY <1>1, <1>2
<1> HIDE DEF k
<1>4. /\ SubSeq(s, 1, k) \in Seq(Byte) /\ Len(SubSeq(s, 1, k)) = k
      /\ \A i \in 1..k : SubSeq(s, 1, k)[i] = s[i]
  BY <1>3, PrefixProperties
<1> QED BY <1>2, <1>4 DEF UpTo, k

(* The header is behind the line.                                          *)
LEMMA HeaderProperties ==
  ASSUME rest \in Seq(Byte), Line \in 0..Len(rest)
  PROVE  /\ Header \in Seq(Byte)
         /\ Len(Header) = IF 1 + Width <= Len(rest) - Line THEN 1 + Width ELSE Len(rest) - Line
         /\ \A i \in 1..Len(Header) : Header[i] = rest[Line + i]
<1> DEFINE l == Len(rest)
           n == Line
           s == SubSeq(rest, n + 1, l)
           h == UpTo(s, 1 + Width)
<1>1. l \in Nat /\ Width \in Nat
  BY LenProperties, CodecAssumption
<1>2. n \in 0..l /\ l = Len(rest)
  OBVIOUS
<1>3. Header = h
  BY DEF Header
<1> HIDE DEF n, l
<1>4. /\ s \in Seq(Byte) /\ Len(s) = l - n
      /\ \A i \in 1..l - n : s[i] = rest[n + i]
  <2> DEFINE m == n + 1
  <2>1. m \in 1..Len(rest) + 1 /\ l - m + 1 = l - n /\ \A i \in 1..l - n : m + i - 1 = n + i
    BY <1>1, <1>2
  <2> HIDE DEF m
  <2>2. /\ SubSeq(rest, m, l) \in Seq(Byte) /\ Len(SubSeq(rest, m, l)) = l - m + 1
        /\ \A i \in 1..l - m + 1 : SubSeq(rest, m, l)[i] = rest[m + i - 1]
    BY <1>2, <2>1, SuffixProperties
  <2> QED BY <2>1, <2>2 DEF m
<1> HIDE DEF s
<1>5. /\ h \in Seq(Byte) /\ Len(h) = IF 1 + Width <= Len(s) THEN 1 + Width ELSE Len(s)
      /\ \A i \in 1..Len(h) : h[i] = s[i]
  <2>1. 1 + Width \in Nat
    BY <1>1
  <2> QED BY <1>4, <2>1, UpToProperties
<1> HIDE DEF h
<1>6. \A i \in 1..Len(h) : i \in 1..l - n
  BY <1>1, <1>2, <1>4, <1>5
<1> QED BY <1>2, <1>3, <1>4, <1>5, <1>6 DEF n, l

(* What is read as topic, indicator and length where a record begins, be   *)
(* it whole or not, unless its topic has a newline.                        *)
LEMMA ReadBeginning ==
  ASSUME rest \in Seq(Byte), NEW r \in StoredRecord, ~Contains(r.topic, Newline),
         \A i \in 1..Len(rest) : i <= Len(Serialize(r)) => rest[i] = Serialize(r)[i]
  PROVE  /\ Len(Header) = 1 + Width => Len(rest) >= Start(r)
         /\ Len(rest) >= Start(r) =>
              /\ Line = Len(r.topic) + 1 /\ Topic = r.topic
              /\ Len(Header) = 1 + Width /\ Head(Header) = r.indicator
              /\ Size = Len(r.payload)
<1> DEFINE l == Len(rest)
           T == Len(r.topic)
           P == Len(r.payload)
           ser == Serialize(r)
           e == LittleEndian(P)
<1>1. /\ l \in Nat /\ T \in Nat /\ P \in Nat /\ Width \in Nat \ {0}
      /\ e \in [1..Width -> Byte] /\ Number(e) = P
  BY RecordProperties, LengthBytes, LengthRead, LenProperties, CodecAssumption
<1>2. /\ Len(ser) = T + 2 + Width + P
      /\ \A i \in 1..T : ser[i] = r.topic[i]
      /\ ser[T + 1] = Newline /\ ser[T + 2] = r.indicator
      /\ \A i \in 1..Width : ser[T + 2 + i] = e[i]
  BY SerializeProperties DEF Start
<1>3. \A i \in 1..T : r.topic[i] # Newline
  BY DEF Contains
<1>4. \A i \in 1..l : i <= Len(ser) => rest[i] = ser[i]
  OBVIOUS
<1>5. l = Len(rest) /\ T = Len(r.topic) /\ Start(r) = T + 2 + Width
  BY DEF Start
<1> HIDE DEF l, T, P, ser, e
<1>6. CASE l <= T
  <2>1. \A i \in 1..Len(rest) : rest[i] # Newline
    <3>1. \A i \in 1..l : i \in 1..T /\ i <= Len(ser)
      BY <1>1, <1>2, <1>6
    <3> QED BY <1>2, <1>3, <1>4, <1>5, <3>1
  <2>2. Line = l
    BY <1>5, <2>1, NoLine
  <2>3. Len(Header) = 0
    BY <1>1, <1>5, <2>2, HeaderProperties
  <2> QED BY <1>1, <1>5, <1>6, <2>3
<1>7. CASE l > T
  <2> DEFINE n == T + 1
  <2>1. n \in 1..Len(rest) /\ n \in 1..l /\ n <= Len(ser) /\ n - 1 = T
    BY <1>1, <1>2, <1>5, <1>7
  <2>2. \A i \in 1..T : i \in 1..l /\ i <= Len(ser)
    BY <1>1, <1>2, <1>7
  <2>3. rest[n] = Newline
    BY <1>2, <1>4, <2>1
  <2>4. \A i \in 1..T : rest[i] = r.topic[i] /\ rest[i] # Newline
    BY <1>2, <1>3, <1>4, <2>2
  <2> HIDE DEF n
  <2>5. Line = n
    BY <2>1, <2>3, <2>4, LineFound
  <2>6. /\ Header \in Seq(Byte)
        /\ Len(Header) = IF 1 + Width <= l - n THEN 1 + Width ELSE l - n
        /\ \A i \in 1..Len(Header) : Header[i] = rest[n + i]
    <3>1. Line \in 0..Len(rest)
      BY <2>1, <2>5
    <3> QED BY <1>5, <2>5, <3>1, HeaderProperties
  <2> DEFINE h == Header
             k == Len(h)
  <2> HIDE DEF h
  <2>7. k = 1 + Width => l >= T + 2 + Width
    <3>1. k = IF 1 + Width <= l - n THEN 1 + Width ELSE l - n
      BY <2>6 DEF h
    <3> HIDE DEF k
    <3> QED BY <1>1, <3>1 DEF n
  <2>8. ASSUME l >= T + 2 + Width
        PROVE  Topic = r.topic /\ k = 1 + Width /\ Head(h) = r.indicator /\ Size = P
    <3>1. k = 1 + Width
      <4>1. k = IF 1 + Width <= l - n THEN 1 + Width ELSE l - n
        BY <2>6 DEF h
      <4> HIDE DEF k
      <4> QED BY <1>1, <2>8, <4>1 DEF n
    <3>2. \A i \in 1..1 + Width : h[i] = rest[n + i]
      BY <2>6, <3>1 DEF h
    <3>3. \A i \in 1..1 + Width : rest[T + 1 + i] = ser[T + 1 + i]
      <4>1. \A i \in 1..1 + Width : T + 1 + i \in 1..l /\ T + 1 + i <= Len(ser)
        BY <1>1, <1>2, <2>8
      <4> QED BY <1>4, <4>1
    <3>4. h[1] = r.indicator
      <4>1. 1 \in 1..1 + Width /\ T + 1 + 1 = T + 2
        BY <1>1
      <4> QED BY <1>2, <3>2, <3>3, <4>1 DEF n
    <3>5. h \in Seq(Byte) /\ h # <<>> /\ Head(h) = h[1]
      <4>1. h \in Seq(Byte)
        BY <2>6 DEF h
      <4>2. Len(h) # 0
        BY <1>1, <3>1
      <4> QED BY <4>1, <4>2, EmptySeq
    <3>6. Tail(h) = e
      <4> DEFINE u == Tail(h)
      <4>1. u \in Seq(Byte) /\ Len(u) = Len(h) - 1 /\ \A i \in 1..Len(u) : u[i] = h[i + 1]
        BY <3>5, HeadTailProperties
      <4> HIDE DEF u
      <4>2. Len(u) = Width
        BY <1>1, <3>1, <4>1
      <4>3. ASSUME NEW i \in 1..Width PROVE u[i] = e[i]
        <5>1. i + 1 \in 1..1 + Width /\ T + 1 + (i + 1) = T + 2 + i
          BY <1>1
        <5>2. u[i] = rest[T + 1 + (i + 1)]
          BY <3>2, <4>1, <4>2, <5>1 DEF n
        <5> QED BY <1>2, <3>3, <5>1, <5>2
      <4>4. e \in Seq(Byte) /\ Len(e) = Width
        <5>1. e \in Seq(Byte)
          BY <1>1, SeqDef
        <5>2. DOMAIN e = 1..Width /\ Len(e) \in Nat /\ DOMAIN e = 1..Len(e)
          BY <1>1, <5>1, LenProperties
        <5> QED BY <1>1, <5>1, <5>2
      <4>5. u = e
        BY <4>1, <4>2, <4>3, <4>4, SeqEqual
      <4> QED BY <4>5 DEF u
    <3>7. Topic = r.topic
      <4> DEFINE t == SubSeq(rest, 1, T)
      <4>1. T \in 0..Len(rest)
        BY <1>1, <1>5, <1>7
      <4>2. t \in Seq(Byte) /\ Len(t) = T /\ \A i \in 1..T : t[i] = rest[i]
        BY <4>1, PrefixProperties
      <4>3. Topic = t
        BY <2>1, <2>5 DEF Topic
      <4> HIDE DEF t
      <4>4. t = r.topic
        BY <1>5, <2>4, <4>2, RecordProperties, SeqEqual
      <4> QED BY <4>3, <4>4
    <3> QED BY <1>1, <3>1, <3>4, <3>5, <3>6, <3>7 DEF Size, h
  <2> QED BY <1>5, <2>5, <2>7, <2>8 DEF h, n, P
<1> QED BY <1>1, <1>6, <1>7

(* A whole record is read as it was written, and what is behind it is left *)
(* for the next.                                                           *)
LEMMA ReadWhole ==
  ASSUME NEW r \in StoredRecord, ~Contains(r.topic, Newline), NEW more \in Seq(Byte),
         rest = Serialize(r) \o more
  PROVE  /\ Readable /\ Topic = r.topic /\ Head(Header) = r.indicator
         /\ Payload = r.payload
         /\ SubSeq(Rest, Size + 1, Len(Rest)) = more
<1> DEFINE ser == Serialize(r)
           p == r.payload
           P == Len(p)
           s == Start(r)
           m == Len(more)
           l == s + P + m
           b == SubSeq(rest, s + 1, l)
<1>1. /\ ser \in Seq(Byte) /\ Len(ser) = s + P
      /\ \A i \in 1..P : ser[s + i] = p[i]
  BY SerializeProperties
<1>2. P \in Nat /\ p \in Seq(Byte) /\ m \in Nat /\ s \in Nat
  BY RecordProperties, LenProperties, CodecAssumption DEF Start
<1>3. m = Len(more) /\ P = Len(p)
  OBVIOUS
<1> HIDE DEF ser, s, P, m
<1>4. /\ rest \in Seq(Byte) /\ Len(rest) = l
      /\ \A i \in 1..s + P : rest[i] = ser[i]
      /\ \A i \in 1..m : rest[s + P + i] = more[i]
  <2> DEFINE n == Len(ser)
             c == ser \o more
  <2>1. n = s + P
    BY <1>1
  <2>2. /\ c \in Seq(Byte) /\ Len(c) = n + m
        /\ \A i \in 1..n + m : c[i] = IF i <= n THEN ser[i] ELSE more[i - n]
    <3>1. ser \in Seq(Byte) /\ more \in Seq(Byte) /\ Len(more) = m
      BY <1>1, <1>3
    <3>2. /\ c \in Seq(Byte) /\ Len(c) = n + Len(more)
          /\ \A i \in 1..n + Len(more) : c[i] = IF i <= n THEN ser[i] ELSE more[i - n]
      BY <3>1, ConcatProperties
    <3> HIDE DEF n, c
    <3> QED BY <3>1, <3>2
  <2>3. rest = c
    BY DEF ser
  <2> HIDE DEF n, c
  <2>4. /\ \A i \in 1..n : i \in 1..n + m /\ i <= n
        /\ \A i \in 1..m : n + i \in 1..n + m /\ ~(n + i <= n) /\ (n + i) - n = i
    BY <1>2, <2>1
  <2>5. \A i \in 1..n : c[i] = ser[i]
    BY <2>2, <2>4
  <2>6. ASSUME NEW i \in 1..m PROVE c[n + i] = more[i]
    <3> DEFINE j == n + i
    <3>1. j \in 1..n + m /\ ~(j <= n) /\ j - n = i
      BY <2>4
    <3> HIDE DEF j
    <3>2. c[j] = more[i]
      BY <2>2, <3>1
    <3> QED BY <3>2 DEF j
  <2> QED BY <2>1, <2>2, <2>3, <2>5, <2>6
<1>5. Line = Len(r.topic) + 1 /\ Topic = r.topic /\ Len(Header) = 1 + Width
      /\ Head(Header) = r.indicator /\ Size = P
  <2>1. \A i \in 1..Len(rest) : i <= Len(ser) => rest[i] = ser[i]
    BY <1>1, <1>2, <1>4
  <2>2. Len(rest) >= Start(r)
    BY <1>2, <1>4 DEF s
  <2> QED BY <1>4, <2>1, <2>2, ReadBeginning DEF ser, P, p
<1>6. Rest = b
  <2>1. Line + 2 + Width = s + 1
    <3>1. Len(r.topic) \in Nat /\ Width \in Nat
      BY RecordProperties, LenProperties, CodecAssumption
    <3> QED BY <1>5, <3>1 DEF s, Start
  <2> QED BY <1>4, <2>1 DEF Rest
<1>7. /\ b \in Seq(Byte) /\ Len(b) = P + m
      /\ \A i \in 1..P : b[i] = p[i]
      /\ \A i \in 1..m : b[P + i] = more[i]
  <2> DEFINE n == s + 1
  <2>1. n \in 1..Len(rest) + 1 /\ l - n + 1 = P + m
        /\ \A i \in 1..P + m : n + i - 1 = s + i
    BY <1>2, <1>4
  <2> HIDE DEF n
  <2>2. /\ SubSeq(rest, n, l) \in Seq(Byte) /\ Len(SubSeq(rest, n, l)) = l - n + 1
        /\ \A i \in 1..l - n + 1 : SubSeq(rest, n, l)[i] = rest[n + i - 1]
    BY <1>4, <2>1, SuffixProperties
  <2>3. b \in Seq(Byte) /\ Len(b) = P + m /\ \A i \in 1..P + m : b[i] = rest[s + i]
    BY <2>1, <2>2 DEF n
  <2> HIDE DEF b
  <2>4. ASSUME NEW i \in 1..P PROVE b[i] = p[i]
    <3>1. i \in 1..P + m /\ s + i \in 1..s + P
      BY <1>2
    <3> QED BY <1>1, <1>4, <2>3, <3>1
  <2>5. ASSUME NEW i \in 1..m PROVE b[P + i] = more[i]
    <3>1. P + i \in 1..P + m /\ s + (P + i) = s + P + i
      BY <1>2
    <3> QED BY <1>4, <2>3, <3>1
  <2> QED BY <2>3, <2>4, <2>5
<1> HIDE DEF b
<1>8. Payload = p
  <2> DEFINE u == UpTo(b, P)
  <2>1. u \in Seq(Byte) /\ Len(u) = P /\ \A i \in 1..P : u[i] = b[i]
    <3>1. P <= Len(b)
      BY <1>2, <1>7
    <3>2. /\ u \in Seq(Byte) /\ Len(u) = IF P <= Len(b) THEN P ELSE Len(b)
          /\ \A i \in 1..Len(u) : u[i] = b[i]
      BY <1>2, <1>7, UpToProperties
    <3> HIDE DEF u
    <3> QED BY <3>1, <3>2
  <2>2. Payload = u
    BY <1>5, <1>6 DEF Payload
  <2> HIDE DEF u, p
  <2>3. u = p
    BY <1>2, <1>3, <1>7, <2>1, SeqEqual
  <2> QED BY <2>2, <2>3
<1>9. SubSeq(b, P + 1, P + m) = more
  <2> DEFINE n == P + 1
             u == SubSeq(b, n, Len(b))
  <2>1. n \in 1..Len(b) + 1 /\ Len(b) - n + 1 = m /\ \A i \in 1..m : n + i - 1 = P + i
    BY <1>2, <1>7
  <2> HIDE DEF n
  <2>2. /\ u \in Seq(Byte) /\ Len(u) = Len(b) - n + 1
        /\ \A i \in 1..Len(b) - n + 1 : u[i] = b[n + i - 1]
    BY <1>7, <2>1, SuffixProperties
  <2> HIDE DEF u
  <2>3. Len(u) = m /\ \A i \in 1..m : u[i] = b[P + i]
    BY <2>1, <2>2
  <2>4. Len(u) = Len(more) /\ \A i \in 1..Len(u) : u[i] = more[i]
    BY <1>3, <1>7, <2>3
  <2>5. u = more
    BY <2>2, <2>4, SeqEqual
  <2> QED BY <1>7, <2>5 DEF n, u
<1>10. Readable
  <2>1. r.topic \in Seq(Text) /\ r.indicator \in {0, 1}
    BY RecordProperties
  <2>2. Len(b) >= P
    BY <1>2, <1>7
  <2> QED BY <1>5, <1>6, <2>1, <2>2 DEF Readable
<1> QED BY <1>5, <1>6, <1>7, <1>8, <1>9, <1>10

(* A part of a record with nothing behind it is not readable.              *)
LEMMA ReadCut ==
  ASSUME NEW r \in StoredRecord, ~Contains(r.topic, Newline),
         NEW n \in 1..Len(Serialize(r)) - 1, rest = SubSeq(Serialize(r), 1, n)
  PROVE  ~Readable
<1> DEFINE ser == Serialize(r)
           P == Len(r.payload)
           s == Start(r)
<1>1. ser \in Seq(Byte) /\ Len(ser) = s + P
  BY SerializeProperties
<1>2. P \in Nat /\ s \in Nat /\ Len(r.topic) \in Nat /\ Width \in Nat
  BY RecordProperties, LenProperties, CodecAssumption DEF Start
<1> HIDE DEF P, s
<1>3. n \in 0..Len(ser) /\ n < s + P
  BY <1>1, <1>2
<1> HIDE DEF ser
<1>4. rest \in Seq(Byte) /\ Len(rest) = n /\ \A i \in 1..n : rest[i] = ser[i]
  <2>1. rest = SubSeq(ser, 1, n)
    BY DEF ser
  <2> QED BY <1>1, <1>3, <2>1, PrefixProperties
<1>5. /\ Len(Header) = 1 + Width => n >= s
      /\ n >= s => Line = Len(r.topic) + 1 /\ Size = P
  <2>1. \A i \in 1..Len(rest) : i <= Len(ser) => rest[i] = ser[i]
    BY <1>4
  <2> QED BY <1>4, <2>1, ReadBeginning DEF ser, P, s
<1>6. CASE n >= s
  <2> DEFINE m == s + 1
             b == SubSeq(rest, m, n)
             k == Len(b)
             z == Size
  <2>1. Rest = b
    <3>1. Line + 2 + Width = s + 1
      BY <1>2, <1>5, <1>6 DEF s, Start
    <3> QED BY <1>4, <3>1 DEF Rest
  <2>2. m \in 1..Len(rest) + 1 /\ n - m + 1 = n - s
    BY <1>2, <1>3, <1>4, <1>6
  <2> HIDE DEF m
  <2>3. k = n - s /\ z = P
    BY <1>4, <1>5, <1>6, <2>2, SuffixProperties
  <2> HIDE DEF b, k, z
  <2>4. ~(k >= z)
    BY <1>2, <1>3, <1>6, <2>3
  <2> QED BY <2>1, <2>4 DEF Readable, k, z
<1>7. CASE ~(n >= s)
  BY <1>5, <1>7 DEF Readable
<1> QED BY <1>6, <1>7

-----------------------------------------------------------------------------
(* The types of what is read *)

(* A line is a part of what is left, and takes something of it.            *)
LEMMA LineType ==
  ASSUME rest \in Seq(Byte)
  PROVE  Line \in 0..Len(rest) /\ (rest # <<>> => Line # 0)
<1> DEFINE I == {i \in 1..Len(rest) : rest[i] = Newline}
           n == SelectInSeq(rest, LAMBDA b : b = Newline)
           k == Min(I)
<1>1. n = IF I # {} THEN k ELSE 0
  BY DEF SelectInSeq
<1>2. Len(rest) \in Nat /\ (rest # <<>> => Len(rest) # 0)
  BY LenProperties, EmptySeq
<1>3. Line = IF n = 0 THEN Len(rest) ELSE n
  BY DEF Line
<1>4. I \in SUBSET Nat /\ I \subseteq 1..Len(rest)
  OBVIOUS
<1> HIDE DEF I
<1>5. I # {} => k \in I
  BY <1>4, MinProperties
<1> HIDE DEF n, k
<1>6. I # {} => k \in Nat /\ 1 <= k /\ k <= Len(rest)
  <2>1. I # {} => k \in 1..Len(rest)
    BY <1>4, <1>5
  <2> QED BY <1>2, <2>1
<1>7. CASE I = {}
  BY <1>1, <1>2, <1>3, <1>7
<1>8. CASE I # {}
  BY <1>1, <1>2, <1>3, <1>6, <1>8
<1> QED BY <1>7, <1>8

(* Whatever the bytes are, what a readable record has is of its type.      *)
LEMMA ReadTypes ==
  ASSUME rest \in Seq(Byte), Readable
  PROVE  /\ Topic \in Seq(Text) /\ Head(Header) \in {0, 1}
         /\ Payload \in Seq(Byte)
         /\ SubSeq(Rest, Size + 1, Len(Rest)) \in Seq(Byte)
<1>1. Topic \in Seq(Text) /\ Len(Header) = 1 + Width /\ Head(Header) \in {0, 1}
  BY DEF Readable
<1>2. Line \in Nat /\ Width \in Nat
  BY LineType, LenProperties, CodecAssumption
<1>3. Size \in Nat
  <2> DEFINE h == Header
             u == Tail(h)
  <2>1. h \in Seq(Byte)
    BY LineType, HeaderProperties
  <2>2. Len(h) = 1 + Width
    BY <1>1
  <2> HIDE DEF h
  <2>3. u \in Seq(Byte) /\ Len(u) = Width
    <3>1. h # <<>>
      BY <1>2, <2>1, <2>2, EmptySeq
    <3>2. u \in Seq(Byte) /\ Len(u) = Len(h) - 1
      BY <2>1, <3>1, HeadTailProperties
    <3> HIDE DEF u
    <3> QED BY <1>2, <2>2, <3>2
  <2> HIDE DEF u
  <2>4. u \in [1..Width -> Byte]
    BY <2>3, LenProperties
  <2>5. PICK high \in [0..Width -> Nat] : Number(u) = high[Width]
    BY <2>4, NumberProperties
  <2> QED BY <1>2, <2>5 DEF Size, u, h
<1>4. Rest \in Seq(Byte)
  <2> DEFINE m == Line + 2 + Width
             n == Len(rest)
  <2>1. m \in Int /\ n \in Int /\ \A i \in m..n : i \in 1..Len(rest)
    BY <1>2, LenProperties
  <2>2. \A i \in m..n : rest[i] \in Byte
    BY <2>1, ElementOfSeq
  <2> HIDE DEF m, n
  <2>3. SubSeq(rest, m, n) \in Seq(Byte)
    BY <2>1, <2>2, SubSeqProperties
  <2> QED BY <2>3 DEF Rest, m, n
<1> DEFINE b == Rest
           z == Size
           k == Len(b)
<1>5. b \in Seq(Byte) /\ z \in Nat /\ k \in Nat /\ k = Len(b)
  BY <1>3, <1>4, LenProperties
<1> HIDE DEF b, z, k
<1>6. SubSeq(b, z + 1, k) \in Seq(Byte)
  <2> DEFINE m == z + 1
  <2>1. m \in Int /\ k \in Int /\ \A i \in m..k : i \in 1..Len(b)
    BY <1>5
  <2>2. \A i \in m..k : b[i] \in Byte
    BY <1>5, <2>1, ElementOfSeq
  <2> HIDE DEF m
  <2>3. SubSeq(b, m, k) \in Seq(Byte)
    BY <2>1, <2>2, SubSeqProperties
  <2> QED BY <2>3 DEF m
<1>7. UpTo(b, z) \in Seq(Byte)
  BY <1>5, UpToProperties
<1> QED BY <1>1, <1>6, <1>7 DEF Payload, b, z, k

-----------------------------------------------------------------------------
(* The file *)

(* What the file has of a record: some of its first bytes, or all.         *)
Part ==
  {c \in [record : StoredRecord, bytes : Seq(Byte)] :
     \E n \in 1..Len(Serialize(c.record)) : c.bytes = SubSeq(Serialize(c.record), 1, n)}

(* The beginning of a record is a part of it.                              *)
LEMMA BeginningIsPart ==
  ASSUME NEW r \in StoredRecord, NEW n \in 1..Len(Serialize(r))
  PROVE  [record |-> r, bytes |-> SubSeq(Serialize(r), 1, n)] \in Part
<1> DEFINE ser == Serialize(r)
<1>1. ser \in Seq(Byte) /\ Len(ser) \in Nat
  BY SerializeProperties, LenProperties
<1>2. n \in 0..Len(ser)
  BY <1>1
<1> HIDE DEF ser
<1>3. SubSeq(ser, 1, n) \in Seq(Byte)
  BY <1>1, <1>2, PrefixProperties
<1> QED BY <1>3 DEF Part, ser

(* So is the beginning of a part.                                          *)
LEMMA PartIsCut ==
  ASSUME NEW c \in Part, NEW m \in 1..Len(c.bytes) - 1
  PROVE  [c EXCEPT !.bytes = SubSeq(@, 1, m)] \in Part
<1>1. c.record \in StoredRecord /\ c = [record |-> c.record, bytes |-> c.bytes]
  BY DEF Part
<1>2. PICK n \in 1..Len(Serialize(c.record)) : c.bytes = SubSeq(Serialize(c.record), 1, n)
  BY DEF Part
<1> DEFINE ser == Serialize(c.record)
           b == SubSeq(ser, 1, n)
           d == SubSeq(b, 1, m)
           e == SubSeq(ser, 1, m)
<1>3. ser \in Seq(Byte) /\ Len(ser) \in Nat /\ n \in 0..Len(ser)
  BY <1>1, SerializeProperties, LenProperties
<1>4. c.bytes = b /\ n \in 1..Len(ser)
  BY <1>2
<1> HIDE DEF ser
<1>5. b \in Seq(Byte) /\ Len(b) = n /\ \A i \in 1..n : b[i] = ser[i]
  BY <1>3, PrefixProperties
<1> HIDE DEF b
<1>6. m \in 1..n - 1
  BY <1>4, <1>5
<1>7. m \in 0..Len(b) /\ m \in 0..Len(ser) /\ m \in 1..Len(ser)
      /\ \A i \in 1..m : i \in 1..n
  BY <1>3, <1>5, <1>6
<1>8. d \in Seq(Byte) /\ Len(d) = m /\ \A i \in 1..m : d[i] = b[i]
  BY <1>5, <1>7, PrefixProperties
<1>9. e \in Seq(Byte) /\ Len(e) = m /\ \A i \in 1..m : e[i] = ser[i]
  BY <1>3, <1>7, PrefixProperties
<1> HIDE DEF d, e
<1>10. d = e
  <2>1. \A i \in 1..m : d[i] = e[i]
    BY <1>5, <1>7, <1>8, <1>9
  <2> QED BY <1>8, <1>9, <2>1, SeqEqual
<1>11. [c EXCEPT !.bytes = SubSeq(@, 1, m)] = [record |-> c.record, bytes |-> d]
  <2>1. [c EXCEPT !.bytes = SubSeq(@, 1, m)] = [record |-> c.record, bytes |-> SubSeq(c.bytes, 1, m)]
    <3> DEFINE B == Seq(Byte)
    <3>1. c \in [record : StoredRecord, bytes : B]
      BY DEF Part
    <3> HIDE DEF B
    <3>2. \A y : [c EXCEPT !.bytes = y] = [record |-> c.record, bytes |-> y]
      BY <3>1
    <3> QED BY <3>2
  <2> QED BY <1>4, <2>1 DEF d
<1>12. [record |-> c.record, bytes |-> e] \in Part
  BY <1>1, <1>7, BeginningIsPart DEF e, ser
<1> QED BY <1>10, <1>11, <1>12

(* A part has a byte at least, and is the whole or a proper beginning.     *)
LEMMA PartProperties ==
  ASSUME NEW c \in Part
  PROVE  /\ c.record \in StoredRecord /\ c.bytes \in Seq(Byte) /\ c.bytes # <<>>
         /\ ~Whole(c) => \E n \in 1..Len(Serialize(c.record)) - 1 :
                           c.bytes = SubSeq(Serialize(c.record), 1, n)
<1>1. c.record \in StoredRecord /\ c.bytes \in Seq(Byte)
  BY DEF Part
<1> DEFINE ser == Serialize(c.record)
<1>2. PICK n \in 1..Len(ser) : c.bytes = SubSeq(ser, 1, n)
  BY DEF Part
<1>3. ser \in Seq(Byte) /\ Len(ser) \in Nat
  BY <1>1, SerializeProperties, LenProperties
<1>4. Whole(c) <=> c.bytes = ser
  BY DEF Whole
<1> HIDE DEF ser
<1>5. Len(c.bytes) = n /\ n # 0 /\ n \in 0..Len(ser)
  <2>1. n \in 0..Len(ser) /\ n # 0
    BY <1>2, <1>3
  <2> QED BY <1>2, <1>3, <2>1, PrefixProperties
<1>6. c.bytes # <<>>
  BY <1>5, EmptySeq
<1>7. n = Len(ser) => c.bytes = ser
  BY <1>2, <1>3, SubSeqFull
<1>8. n # Len(ser) => n \in 1..Len(ser) - 1
  BY <1>2, <1>3
<1> QED BY <1>1, <1>2, <1>4, <1>6, <1>7, <1>8 DEF ser

(* The bytes of the records are a sequence of sequences.                   *)
LEMMA BytesType ==
  ASSUME NEW s \in Seq(Part)
  PROVE  /\ [i \in DOMAIN s |-> s[i].bytes] \in Seq(Seq(Byte))
         /\ Len([i \in DOMAIN s |-> s[i].bytes]) = Len(s)
         /\ File(s) \in Seq(Byte)
<1> DEFINE T == Seq(Byte)
           b == [i \in DOMAIN s |-> s[i].bytes]
<1>1. Len(s) \in Nat /\ DOMAIN s = 1..Len(s)
  BY LenProperties
<1>2. \A i \in 1..Len(s) : s[i].bytes \in T
  <2>1. \A i \in 1..Len(s) : s[i] \in Part
    BY ElementOfSeq
  <2> QED BY <2>1, PartProperties
<1> HIDE DEF T
<1>3. b \in [1..Len(s) -> T]
  BY <1>1, <1>2
<1> HIDE DEF b
<1>4. b \in Seq(T)
  BY <1>1, <1>3, SeqDef
<1>5. Len(b) = Len(s)
  <2>1. DOMAIN b = 1..Len(s) /\ Len(b) \in Nat /\ DOMAIN b = 1..Len(b)
    BY <1>3, <1>4, LenProperties
  <2> QED BY <1>1, <2>1
<1>6. FlattenSeq(b) \in Seq(Byte)
  BY <1>4, FlattenType DEF T
<1> QED BY <1>4, <1>5, <1>6 DEF T, b, File

(* A file without records is empty.                                        *)
LEMMA FileEmpty == File(<<>>) = <<>>
<1> DEFINE b == [i \in DOMAIN <<>> |-> <<>>[i].bytes]
<1>1. <<>> \in Seq(Part) /\ Len(<<>>) = 0
  BY EmptySeq
<1>2. b \in Seq(Seq(Byte)) /\ Len(b) = 0
  BY <1>1, BytesType
<1> DEFINE T == Seq(Byte)
<1> HIDE DEF b, T
<1>3. b = <<>>
  <2>1. b \in Seq(T)
    BY <1>2 DEF T
  <2> QED BY <1>2, <2>1, EmptySeq
<1> QED BY <1>3, FlattenEmpty DEF File, b

(* The bytes of the first of the records that are left, and those behind.  *)
LEMMA FileFrom ==
  ASSUME NEW s \in Seq(Part), NEW k \in 1..Len(s)
  PROVE  /\ SubSeq(s, k + 1, Len(s)) \in Seq(Part)
         /\ File(SubSeq(s, k, Len(s))) = s[k].bytes \o File(SubSeq(s, k + 1, Len(s)))
<1> DEFINE n == Len(s)
           u == SubSeq(s, k, n)
           v == SubSeq(s, k + 1, n)
           T == Seq(Byte)
           b == [i \in DOMAIN u |-> u[i].bytes]
           d == [i \in DOMAIN v |-> v[i].bytes]
           c == s[k].bytes
           w == <<c>> \o d
<1>1. n \in Nat /\ n = Len(s) /\ k \in 1..n
  BY LenProperties
<1> HIDE DEF n
<1>2. /\ u \in Seq(Part) /\ Len(u) = n - k + 1
      /\ \A i \in 1..n - k + 1 : u[i] = s[k + i - 1]
  <2>1. k \in 1..Len(s) + 1
    BY <1>1
  <2> QED BY <1>1, <2>1, SuffixProperties
<1>3. /\ v \in Seq(Part) /\ Len(v) = n - k
      /\ \A i \in 1..n - k : v[i] = s[k + i]
  <2> DEFINE m == k + 1
  <2>1. m \in 1..Len(s) + 1 /\ n - m + 1 = n - k /\ \A i \in 1..n - k : m + i - 1 = k + i
    BY <1>1
  <2> HIDE DEF m
  <2>2. /\ SubSeq(s, m, n) \in Seq(Part) /\ Len(SubSeq(s, m, n)) = n - m + 1
        /\ \A i \in 1..n - m + 1 : SubSeq(s, m, n)[i] = s[m + i - 1]
    BY <1>1, <2>1, SuffixProperties
  <2> QED BY <2>1, <2>2 DEF m
<1>4. c \in T
  <2>1. s[k] \in Part
    BY <1>1, ElementOfSeq
  <2> QED BY <2>1, PartProperties
<1> HIDE DEF u, v
<1>5. b \in Seq(T) /\ Len(b) = n - k + 1 /\ d \in Seq(T) /\ Len(d) = n - k
  BY <1>2, <1>3, BytesType
<1>6. /\ \A i \in 1..n - k + 1 : b[i] = s[k + i - 1].bytes
      /\ \A i \in 1..n - k : d[i] = s[k + i].bytes
  <2>1. DOMAIN u = 1..n - k + 1 /\ DOMAIN v = 1..n - k
    BY <1>2, <1>3, LenProperties
  <2> QED BY <1>2, <1>3, <2>1
<1> HIDE DEF b, d, c, T
<1>7. /\ w \in Seq(T) /\ Len(w) = n - k + 1
      /\ w[1] = c /\ \A i \in 1..n - k : w[i + 1] = d[i]
  <2> DEFINE o == <<c>>
  <2>1. o \in Seq(T) /\ Len(o) = 1 /\ o[1] = c
    BY <1>4
  <2> HIDE DEF o
  <2>2. /\ o \o d \in Seq(T) /\ Len(o \o d) = Len(o) + Len(d)
        /\ \A i \in 1..Len(o) + Len(d) : (o \o d)[i] = IF i <= Len(o) THEN o[i] ELSE d[i - Len(o)]
    BY <1>5, <2>1, ConcatProperties
  <2> DEFINE x == o \o d
  <2>3. x \in Seq(T) /\ Len(x) = n - k + 1
        /\ \A i \in 1..n - k + 1 : x[i] = IF i <= 1 THEN o[i] ELSE d[i - 1]
    <3>1. Len(o) + Len(d) = n - k + 1
      BY <1>1, <1>5, <2>1
    <3> QED BY <2>1, <2>2, <3>1
  <2> HIDE DEF x
  <2>4. \A i \in 1..n - k : i + 1 \in 1..n - k + 1 /\ ~(i + 1 <= 1) /\ (i + 1) - 1 = i
    BY <1>1
  <2>5. ASSUME NEW i \in 1..n - k PROVE x[i + 1] = d[i]
    <3> DEFINE j == i + 1
    <3>1. j \in 1..n - k + 1 /\ ~(j <= 1) /\ j - 1 = i
      BY <2>4
    <3> HIDE DEF j
    <3>2. x[j] = d[i]
      BY <2>3, <3>1
    <3> QED BY <3>2 DEF j
  <2>6. x[1] = c
    BY <1>1, <2>1, <2>3
  <2> QED BY <2>3, <2>5, <2>6 DEF x, o
<1> HIDE DEF w
<1>8. b = w
  <2>1. ASSUME NEW i \in 1..n - k + 1 PROVE b[i] = w[i]
    <3>1. CASE i = 1
      <4>1. k + 1 - 1 = k
        BY <1>1
      <4> QED BY <1>6, <1>7, <3>1, <4>1 DEF c
    <3>2. CASE i # 1
      <4> DEFINE j == i - 1
      <4>1. j \in 1..n - k /\ j + 1 = i /\ k + j = k + i - 1
        BY <1>1, <3>2
      <4> HIDE DEF j
      <4>2. w[j + 1] = d[j] /\ d[j] = s[k + j].bytes
        BY <1>6, <1>7, <4>1
      <4> QED BY <1>6, <4>1, <4>2
    <3> QED BY <3>1, <3>2
  <2> QED BY <1>5, <1>7, <2>1, SeqEqual
<1>9. FlattenSeq(w) = c \o FlattenSeq(d)
  BY <1>4, <1>5, FlattenCons DEF T, w
<1> QED BY <1>1, <1>3, <1>8, <1>9 DEF File, b, d, c, u, v

-----------------------------------------------------------------------------
(* The records before the damage *)

(* The first K of them are what a start must find.                         *)
IsIntact(s, K) ==
  /\ K \in 0..Len(s)
  /\ \A i \in 1..K : Clean(s[i])
  /\ K < Len(s) => ~Clean(s[K + 1])

(* There is such a number, and it is the one that Intact counts to.        *)
LEMMA IntactExists ==
  ASSUME NEW s \in Seq(Part)
  PROVE  LET n == SelectInSeq(s, LAMBDA c : ~Clean(c))
         IN  IsIntact(s, IF n = 0 THEN Len(s) ELSE n - 1)
<1> DEFINE I == {i \in 1..Len(s) : ~Clean(s[i])}
           n == SelectInSeq(s, LAMBDA c : ~Clean(c))
           m == Min(I)
           K == IF n = 0 THEN Len(s) ELSE n - 1
           l == Len(s)
<1>1. n = IF I # {} THEN m ELSE 0
  BY DEF SelectInSeq
<1>2. l \in Nat
  BY LenProperties
<1>3. I \in SUBSET Nat /\ \A i \in I : i \in 1..l /\ ~Clean(s[i])
  OBVIOUS
<1>4. \A i \in 1..l : i \notin I => Clean(s[i])
  OBVIOUS
<1> HIDE DEF I
<1>5. I # {} => m \in I /\ \A i \in I : m <= i
  BY <1>3, MinProperties
<1> HIDE DEF m
<1>6. CASE I = {}
  <2>1. n = 0
    BY <1>1, <1>6
  <2>2. K = l
    BY <2>1
  <2> HIDE DEF n, K
  <2>3. K \in 0..l /\ (\A i \in 1..K : Clean(s[i])) /\ ~(K < l)
    BY <1>2, <1>4, <1>6, <2>2
  <2> QED BY <2>3 DEF IsIntact, K, n, l
<1>7. CASE I # {}
  <2>1. n = m /\ m \in 1..l /\ ~Clean(s[m])
    BY <1>1, <1>3, <1>5, <1>7
  <2>2. K = m - 1
    BY <1>2, <2>1
  <2> HIDE DEF n, K
  <2>3. \A i \in 1..m - 1 : i \in 1..l /\ ~(m <= i)
    BY <1>2, <2>1
  <2>4. \A i \in 1..K : Clean(s[i])
    BY <1>4, <1>5, <1>7, <2>2, <2>3
  <2>5. K \in 0..l /\ K + 1 = m
    BY <1>2, <2>1, <2>2
  <2> QED BY <2>1, <2>4, <2>5 DEF IsIntact, K, n, l
<1> QED BY <1>6, <1>7

(* No other number is.                                                     *)
LEMMA IntactUnique ==
  ASSUME NEW s \in Seq(Part), NEW K, NEW L, IsIntact(s, K), IsIntact(s, L)
  PROVE  K = L
<1>1. Len(s) \in Nat
  BY LenProperties
<1>2. ASSUME NEW i, NEW j, IsIntact(s, i), IsIntact(s, j) PROVE ~(i < j)
  <2>1. i \in 0..Len(s) /\ j \in 0..Len(s)
    BY <1>2 DEF IsIntact
  <2> SUFFICES ASSUME i < j PROVE FALSE
    OBVIOUS
  <2>2. i + 1 \in 1..j /\ i < Len(s)
    BY <1>1, <2>1
  <2> QED BY <1>2, <2>2 DEF IsIntact
<1>3. K \in Nat /\ L \in Nat
  BY <1>1 DEF IsIntact
<1>4. ~(K < L) /\ ~(L < K)
  BY <1>2
<1> QED BY <1>3, <1>4

(* Intact is the records of the first of them.                             *)
LEMMA IntactIs ==
  ASSUME chunks \in Seq(Part), NEW K, IsIntact(chunks, K)
  PROVE  /\ Intact = [i \in 1..K |-> chunks[i].record]
         /\ Intact \in Seq(StoredRecord) /\ Len(Intact) = K
<1> DEFINE n == SelectInSeq(chunks, LAMBDA c : ~Clean(c))
           L == IF n = 0 THEN Len(chunks) ELSE n - 1
           F == [i \in 1..K |-> chunks[i].record]
<1>1. IsIntact(chunks, L)
  BY IntactExists
<1>2. Intact = [i \in 1..L |-> chunks[i].record]
  BY DEF Intact
<1> HIDE DEF n, L
<1>3. L = K
  BY <1>1, IntactUnique
<1>4. K \in Nat /\ \A i \in 1..K : i \in 1..Len(chunks)
  BY LenProperties DEF IsIntact
<1>5. \A i \in 1..K : chunks[i].record \in StoredRecord
  <2>1. \A i \in 1..K : chunks[i] \in Part
    BY <1>4, ElementOfSeq
  <2> QED BY <2>1, PartProperties
<1>6. F \in [1..K -> StoredRecord]
  BY <1>5
<1> HIDE DEF F
<1>7. F \in Seq(StoredRecord)
  BY <1>4, <1>6, SeqDef
<1>8. Len(F) = K
  <2>1. DOMAIN F = 1..K /\ Len(F) \in Nat /\ DOMAIN F = 1..Len(F)
    BY <1>6, <1>7, LenProperties
  <2> QED BY <1>4, <2>1
<1> QED BY <1>2, <1>3, <1>7, <1>8 DEF F

(* One record more does not move the damage.                               *)
LEMMA IntactGrows ==
  ASSUME NEW s \in Seq(Part), NEW c \in Part, NEW K, IsIntact(s, K)
  PROVE  \E L : /\ IsIntact(Append(s, c), L)
                /\ K <= L /\ (K < Len(s) => L = K)
<1> DEFINE t == Append(s, c)
           l == Len(s)
<1>1. l \in Nat /\ l = Len(s) /\ K \in 0..l
  BY LenProperties DEF IsIntact
<1>2. Len(t) = l + 1 /\ (\A i \in 1..l : t[i] = s[i]) /\ t[l + 1] = c
  BY AppendProperties
<1>3. (\A i \in 1..K : Clean(s[i])) /\ (K < l => ~Clean(s[K + 1]))
  BY DEF IsIntact
<1> HIDE DEF t, l
<1>4. \A i \in 1..K : i \in 1..l
  BY <1>1
<1>5. \A i \in 1..K : Clean(t[i])
  BY <1>2, <1>3, <1>4
<1>6. CASE K < l
  <2>1. K + 1 \in 1..l /\ K \in 0..l + 1
    BY <1>1, <1>6
  <2>2. IsIntact(t, K)
    BY <1>2, <1>3, <1>5, <1>6, <2>1 DEF IsIntact
  <2> QED BY <1>1, <2>2 DEF t
<1>7. CASE K = l /\ ~Clean(c)
  <2>1. IsIntact(t, K)
    BY <1>1, <1>2, <1>5, <1>7 DEF IsIntact
  <2> QED BY <1>1, <1>7, <2>1 DEF t
<1>8. CASE K = l /\ Clean(c)
  <2> DEFINE L == l + 1
  <2>1. L \in 0..l + 1 /\ ~(L < l + 1) /\ K <= L /\ ~(K < l)
        /\ \A i \in 1..L : i \in 1..K \/ i = l + 1
    BY <1>1, <1>8
  <2> HIDE DEF L
  <2>2. \A i \in 1..L : Clean(t[i])
    BY <1>2, <1>5, <1>8, <2>1
  <2>3. IsIntact(t, L)
    BY <1>2, <2>1, <2>2 DEF IsIntact
  <2> QED BY <1>1, <2>1, <2>3 DEF t
<1> QED BY <1>1, <1>6, <1>7, <1>8

(* A sequence that agrees with the beginning of another is its prefix.     *)
LEMMA AgreeingIsPrefix ==
  ASSUME NEW S, NEW s \in Seq(S), NEW t \in Seq(S), Len(s) <= Len(t), Agree(s, t, Len(s))
  PROVE  IsPrefix(s, t)
<1> DEFINE n == Len(s)
           u == SubSeq(s, 1, n)
           v == SubSeq(t, 1, n)
<1>1. n \in 0..Len(s) /\ n \in 0..Len(t)
  BY LenProperties
<1>2. \A i \in 1..n : s[i] = t[i]
  BY DEF Agree
<1> HIDE DEF n
<1>3. u \in Seq(S) /\ Len(u) = n /\ \A i \in 1..n : u[i] = s[i]
  BY <1>1, PrefixProperties
<1>4. v \in Seq(S) /\ Len(v) = n /\ \A i \in 1..n : v[i] = t[i]
  BY <1>1, PrefixProperties
<1> HIDE DEF u, v
<1>5. u = v
  BY <1>2, <1>3, <1>4, SeqEqual
<1> QED BY <1>5 DEF IsPrefix, u, v, n

-----------------------------------------------------------------------------
(* The invariant *)

(* What is recovered.                                                      *)
Entry == [topic : Seq(Text), indicator : {0, 1}, payload : Seq(Byte)]

(* Files whose only damage is that the last record is cut off.             *)
OnlyCut(s) ==
  /\ \A i \in 1..Len(s) - 1 : Clean(s[i])
  /\ \A i \in DOMAIN s : ~Contains(s[i].record.topic, Newline)

(* The reader cannot have passed over damage: it is before it, or there is *)
(* none that it could pass over.                                           *)
InPlace(K) == Len(recovered) < K \/ K = Len(chunks) \/ OnlyCut(chunks)

(* Where the reader is, K records being before the damage: as long as it   *)
(* is among these, or just behind, what is left is the bytes of the rest   *)
(* of the records; it gets behind the damage only if there is any, and not *)
(* if that is a cut at the end; it gives up only where the damage is.      *)
Progress(K) ==
  /\ IsIntact(chunks, K)
  /\ \A i \in 1..Len(recovered) : i <= K => recovered[i] = chunks[i].record
  /\ K < Len(recovered) => K < Len(chunks)
  /\ phase = "reading" /\ Len(recovered) <= K /\ InPlace(K) =>
       rest = File(SubSeq(chunks, Len(recovered) + 1, Len(chunks)))
  /\ phase = "reading" /\ OnlyCut(chunks) => Len(recovered) <= K
  /\ phase = "failed" => K <= Len(recovered)

IInv ==
  /\ chunks \in Seq(Part)
  /\ flushed \in 0..Len(chunks)
  /\ phase \in {"up", "reading", "failed"}
  /\ rest \in Seq(Byte)
  /\ recovered \in Seq(Entry)
  /\ \E K : Progress(K)

(* A record is of the type of what is recovered.                           *)
LEMMA RecordIsEntry ==
  ASSUME NEW r \in StoredRecord
  PROVE  r \in Entry
BY RecordProperties DEF Entry

(* Behind the last record nothing is left.                                 *)
LEMMA NothingLeft ==
  ASSUME NEW s \in Seq(Part)
  PROVE  SubSeq(s, Len(s) + 1, Len(s)) = <<>> /\ File(SubSeq(s, Len(s) + 1, Len(s))) = <<>>
<1> DEFINE n == Len(s)
<1>1. n + 1 \in Int /\ n \in Int /\ n < n + 1
  BY LenProperties
<1> HIDE DEF n
<1>2. SubSeq(s, n + 1, n) = <<>>
  BY <1>1, SubSeqEmpty
<1> QED BY <1>2, FileEmpty DEF n

(* Where the reader is among the records before the damage.                *)
LEMMA WhatIsLeft ==
  ASSUME chunks \in Seq(Part), recovered \in Seq(Entry), NEW K, Progress(K),
         phase = "reading", Len(recovered) <= K, InPlace(K)
  PROVE  /\ Len(recovered) = Len(chunks) => rest = <<>>
         /\ Len(recovered) # Len(chunks) =>
              /\ Len(recovered) + 1 \in 1..Len(chunks)
              /\ chunks[Len(recovered) + 1] \in Part
              /\ File(SubSeq(chunks, Len(recovered) + 2, Len(chunks))) \in Seq(Byte)
              /\ rest = chunks[Len(recovered) + 1].bytes
                          \o File(SubSeq(chunks, Len(recovered) + 2, Len(chunks)))
              /\ rest # <<>>
<1> DEFINE k == Len(recovered)
           n == Len(chunks)
           j == k + 1
<1>1. k \in Nat /\ n \in Nat /\ K \in 0..n /\ k <= K /\ j + 1 = k + 2
  BY LenProperties DEF Progress, IsIntact
<1>2. rest = File(SubSeq(chunks, j, n))
  BY DEF Progress
<1>3. k = n => rest = <<>>
  BY <1>2, NothingLeft
<1> HIDE DEF k
<1>4. ASSUME k # n
      PROVE  /\ j \in 1..n /\ chunks[j] \in Part
             /\ File(SubSeq(chunks, j + 1, n)) \in Seq(Byte)
             /\ rest = chunks[j].bytes \o File(SubSeq(chunks, j + 1, n))
             /\ rest # <<>>
  <2>1. j \in 1..n
    BY <1>1, <1>4
  <2> HIDE DEF j
  <2>2. chunks[j] \in Part
    BY <2>1, ElementOfSeq
  <2>3. /\ SubSeq(chunks, j + 1, n) \in Seq(Part)
        /\ File(SubSeq(chunks, j, n)) = chunks[j].bytes \o File(SubSeq(chunks, j + 1, n))
    BY <2>1, FileFrom
  <2>4. File(SubSeq(chunks, j + 1, n)) \in Seq(Byte)
    BY <2>3, BytesType
  <2>5. chunks[j].bytes \in Seq(Byte) /\ chunks[j].bytes # <<>>
    BY <2>2, PartProperties
  <2>6. rest # <<>>
    BY <1>2, <2>3, <2>4, <2>5, ConcatEqualIffEmpty
  <2> QED BY <1>2, <2>1, <2>2, <2>3, <2>4, <2>6
<1> QED BY <1>1, <1>3, <1>4 DEF k, j

(* A record before the damage is read as it was written.                   *)
LEMMA IntactIsRead ==
  ASSUME chunks \in Seq(Part), recovered \in Seq(Entry), NEW K, Progress(K),
         phase = "reading", Len(recovered) < K, NEW r, r = chunks[Len(recovered) + 1].record
  PROVE  /\ Len(recovered) + 1 <= K /\ Len(recovered) # Len(chunks)
         /\ r \in StoredRecord
         /\ Readable /\ Topic = r.topic /\ Head(Header) = r.indicator
         /\ Payload = r.payload
         /\ SubSeq(Rest, Size + 1, Len(Rest))
              = File(SubSeq(chunks, Len(recovered) + 2, Len(chunks)))
<1> DEFINE k == Len(recovered)
           n == Len(chunks)
           more == File(SubSeq(chunks, k + 2, n))
           c == chunks[k + 1]
<1>1. k \in Nat /\ n \in Nat /\ K \in 0..n /\ k < K
  BY LenProperties DEF Progress, IsIntact
<1>2. k <= K /\ k + 1 \in 1..K /\ k # n
  BY <1>1
<1>3. c \in Part /\ more \in Seq(Byte) /\ rest = c.bytes \o more
  BY <1>2, WhatIsLeft DEF InPlace
<1>4. Clean(c)
  BY <1>2 DEF Progress, IsIntact
<1>5. r \in StoredRecord /\ c.bytes = Serialize(r) /\ ~Contains(r.topic, Newline)
  BY <1>3, <1>4, PartProperties DEF Clean, Whole
<1>6. rest = Serialize(r) \o more
  BY <1>3, <1>5
<1> HIDE DEF k, more, c
<1>7. /\ Readable /\ Topic = r.topic /\ Head(Header) = r.indicator
      /\ Payload = r.payload
      /\ SubSeq(Rest, Size + 1, Len(Rest)) = more
  BY <1>3, <1>5, <1>6, ReadWhole
<1> QED BY <1>2, <1>5, <1>7 DEF k, more

(* At a cut at the end nothing is read.                                    *)
LEMMA CutIsNotRead ==
  ASSUME chunks \in Seq(Part), recovered \in Seq(Entry), NEW K, Progress(K),
         phase = "reading", OnlyCut(chunks), Len(recovered) = K, rest # <<>>
  PROVE  ~Readable
<1> DEFINE k == Len(recovered)
           n == Len(chunks)
           c == chunks[k + 1]
           r == c.record
           more == File(SubSeq(chunks, k + 2, n))
<1>1. k \in Nat /\ n \in Nat /\ K \in 0..n /\ k = K /\ k <= K
  BY LenProperties DEF Progress, IsIntact
<1>2. k # n
  BY <1>1, WhatIsLeft DEF InPlace
<1>3. k + 1 \in 1..n /\ c \in Part /\ rest = c.bytes \o more
  BY <1>1, <1>2, WhatIsLeft DEF InPlace
<1>4. ~Clean(c)
  <2>1. K < Len(chunks)
    BY <1>1, <1>2
  <2> QED BY <1>1, <2>1 DEF Progress, IsIntact
<1>5. ~Contains(r.topic, Newline)
  <2>1. k + 1 \in DOMAIN chunks
    BY <1>3, LenProperties
  <2> QED BY <2>1 DEF OnlyCut
<1>6. ~Whole(c)
  BY <1>4, <1>5 DEF Clean
<1>7. k + 1 = n
  <2>1. ~(k + 1 \in 1..n - 1)
    BY <1>4 DEF OnlyCut
  <2> HIDE DEF k, n
  <2> QED BY <1>1, <1>3, <2>1
<1>8. more = <<>>
  <2>1. k + 2 = n + 1
    BY <1>1, <1>7
  <2> QED BY <2>1, NothingLeft
<1>9. r \in StoredRecord /\ c.bytes \in Seq(Byte)
      /\ \E m \in 1..Len(Serialize(r)) - 1 : c.bytes = SubSeq(Serialize(r), 1, m)
  BY <1>3, <1>6, PartProperties
<1> HIDE DEF more, c, r
<1>10. rest = c.bytes
  BY <1>3, <1>8, <1>9, ConcatEmptySeq
<1> QED BY <1>5, <1>9, <1>10, ReadCut

(* The empty file is read.                                                 *)
LEMMA InitInv == Init => IInv
<1> SUFFICES ASSUME Init PROVE IInv
  OBVIOUS
<1>1. chunks = <<>> /\ flushed = 0 /\ phase = "up" /\ rest = <<>> /\ recovered = <<>>
  BY DEF Init
<1>2. chunks \in Seq(Part) /\ rest \in Seq(Byte) /\ recovered \in Seq(Entry)
      /\ Len(chunks) = 0 /\ Len(recovered) = 0
  BY <1>1
<1>3. IsIntact(chunks, 0)
  BY <1>2 DEF IsIntact
<1>4. Progress(0)
  BY <1>1, <1>2, <1>3 DEF Progress
<1> QED BY <1>1, <1>2, <1>4 DEF IInv

(* A record that is added to the file moves nothing that was read.         *)
LEMMA WriteInv ==
  ASSUME IInv, NEW r \in StoredRecord, NEW n \in 1..Len(Serialize(r)), Write(r, n),
         flushed' \in {flushed, Len(chunks')}
  PROVE  IInv'
<1> DEFINE c == [record |-> r, bytes |-> SubSeq(Serialize(r), 1, n)]
           l == Len(chunks)
           k == Len(recovered)
<1>1. c \in Part
  BY BeginningIsPart
<1>2. phase = "up" /\ chunks' = Append(chunks, c) /\ UNCHANGED <<phase, rest, recovered>>
  BY DEF Write
<1> HIDE DEF c
<1>3. chunks \in Seq(Part) /\ flushed \in 0..l /\ rest \in Seq(Byte) /\ recovered \in Seq(Entry)
  BY DEF IInv
<1>4. l \in Nat /\ k \in Nat
  BY <1>3, LenProperties
<1>5. /\ chunks' \in Seq(Part) /\ Len(chunks') = l + 1
      /\ \A i \in 1..l : chunks'[i] = chunks[i]
  BY <1>1, <1>2, <1>3, AppendProperties
<1>6. flushed' \in 0..Len(chunks')
  BY <1>3, <1>4, <1>5
<1>7. PICK K : Progress(K)
  BY DEF IInv
<1>8. IsIntact(chunks, K) /\ K \in 0..l /\ (K < k => K < l)
      /\ \A i \in 1..k : i <= K => recovered[i] = chunks[i].record
  BY <1>7 DEF Progress, IsIntact
<1>9. PICK L : IsIntact(chunks', L) /\ K <= L /\ (K < l => L = K)
  BY <1>1, <1>2, <1>3, <1>8, IntactGrows
<1>10. L \in 0..l + 1
  BY <1>5, <1>9 DEF IsIntact
<1> HIDE DEF l, k
<1>11. /\ L < k => L < l + 1
       /\ \A i \in 1..k : i <= L => i <= K /\ i \in 1..l
  BY <1>4, <1>8, <1>9, <1>10
<1>12. \A i \in 1..k : i <= L => recovered[i] = chunks'[i].record
  BY <1>5, <1>8, <1>11
<1>13. Progress(L)'
  BY <1>2, <1>5, <1>9, <1>11, <1>12 DEF Progress, k
<1> QED BY <1>2, <1>3, <1>5, <1>6, <1>13 DEF IInv

(* A crash starts over with what it left.                                  *)
LEMMA CrashInv ==
  ASSUME IInv, Crash
  PROVE  IInv'
<1> DEFINE n == Len(chunks)
<1>1. chunks \in Seq(Part) /\ n \in Nat /\ flushed \in 0..n
  BY LenProperties DEF IInv
<1>2. /\ chunks' \in Remains /\ flushed' = Len(chunks') /\ phase' = "reading"
      /\ rest' = File(chunks') /\ recovered' = <<>>
  BY DEF Crash
<1>3. chunks' \in Seq(Part)
  <2>1. CASE \E k \in flushed..n : chunks' = SubSeq(chunks, 1, k)
    <3>1. PICK k \in flushed..n : chunks' = SubSeq(chunks, 1, k)
      BY <2>1
    <3>2. k \in 0..Len(chunks)
      BY <1>1
    <3> QED BY <1>1, <3>1, <3>2, PrefixProperties
  <2>2. CASE \E k \in flushed + 1..n : \E m \in 1..Len(chunks[k].bytes) - 1 :
               chunks' = Append(SubSeq(chunks, 1, k - 1),
                                [chunks[k] EXCEPT !.bytes = SubSeq(@, 1, m)])
    <3>9. PICK k \in flushed + 1..n : \E m \in 1..Len(chunks[k].bytes) - 1 :
            chunks' = Append(SubSeq(chunks, 1, k - 1),
                             [chunks[k] EXCEPT !.bytes = SubSeq(@, 1, m)])
      BY <2>2
    <3> DEFINE s == SubSeq(chunks, 1, k - 1)
               c == chunks[k]
    <3>1. PICK m \in 1..Len(c.bytes) - 1 :
            chunks' = Append(s, [c EXCEPT !.bytes = SubSeq(@, 1, m)])
      BY <3>9
    <3> DEFINE d == [c EXCEPT !.bytes = SubSeq(@, 1, m)]
    <3>2. k - 1 \in 0..Len(chunks) /\ k \in 1..Len(chunks)
      BY <1>1
    <3>3. s \in Seq(Part)
      BY <1>1, <3>2, PrefixProperties
    <3>4. c \in Part
      BY <1>1, <3>2, ElementOfSeq
    <3>5. m \in 1..Len(c.bytes) - 1
      OBVIOUS
    <3>6. chunks' = Append(s, d)
      BY <3>1
    <3> HIDE DEF c
    <3>7. d \in Part
      BY <3>4, <3>5, PartIsCut
    <3> HIDE DEF s, d
    <3> QED BY <3>3, <3>6, <3>7, AppendProperties
  <2> QED BY <1>2, <2>1, <2>2 DEF Remains
<1>4. PICK K : IsIntact(chunks', K)
  BY <1>3, IntactExists
<1>5. File(chunks') \in Seq(Byte)
  BY <1>3, BytesType
<1>6. Len(chunks') \in Nat /\ K \in 0..Len(chunks')
  BY <1>3, <1>4, LenProperties DEF IsIntact
<1>7. recovered' \in Seq(Entry) /\ Len(recovered') = 0
  BY <1>2
<1>8. SubSeq(chunks', Len(recovered') + 1, Len(chunks')) = chunks'
  BY <1>3, <1>7, SubSeqFull
<1>9. Progress(K)'
  <2>1. rest' = File(SubSeq(chunks', Len(recovered') + 1, Len(chunks')))
    BY <1>2, <1>8
  <2>2. /\ Len(recovered') <= K /\ ~(K < Len(recovered'))
        /\ \A i : i \notin 1..Len(recovered')
    BY <1>6, <1>7
  <2> QED BY <1>2, <1>4, <2>1, <2>2 DEF Progress
<1> QED BY <1>2, <1>3, <1>5, <1>6, <1>7, <1>9 DEF IInv

(* A record that is read is the next one, if that is before the damage.    *)
LEMMA ReadInv ==
  ASSUME IInv, Reading, Readable, NEW p \in Seq(Byte), Recovered(p),
         p = Payload \/ (Head(Header) = 1 /\ p \in Parsed)
  PROVE  IInv'
<1> DEFINE k == Len(recovered)
           n == Len(chunks)
           e == [topic |-> Topic, indicator |-> Head(Header), payload |-> p]
<1>1. phase = "reading" /\ rest # <<>>
  BY DEF Reading
<1>2. /\ recovered' = Append(recovered, e)
      /\ rest' = SubSeq(Rest, Size + 1, Len(Rest))
      /\ UNCHANGED <<chunks, flushed, phase>>
  BY DEF Recovered, GoOn
<1>3. /\ chunks \in Seq(Part) /\ flushed \in 0..n
      /\ rest \in Seq(Byte) /\ recovered \in Seq(Entry)
  BY DEF IInv
<1>4. k \in Nat /\ n \in Nat
  BY <1>3, LenProperties
<1>5. e \in Entry /\ rest' \in Seq(Byte)
  BY <1>2, <1>3, ReadTypes DEF Entry
<1>6. PICK K : Progress(K)
  BY DEF IInv
<1>7. /\ IsIntact(chunks, K) /\ K \in 0..n /\ (K < k => K < n)
      /\ \A i \in 1..k : i <= K => recovered[i] = chunks[i].record
      /\ OnlyCut(chunks) => k <= K
  BY <1>1, <1>6 DEF Progress, IsIntact
<1>8. ASSUME k < K
      PROVE  e = chunks[k + 1].record /\ rest' = File(SubSeq(chunks, k + 2, n))
  <2> DEFINE r == chunks[k + 1].record
  <2>1. /\ r \in StoredRecord /\ Topic = r.topic /\ Head(Header) = r.indicator
        /\ Payload = r.payload
        /\ SubSeq(Rest, Size + 1, Len(Rest)) = File(SubSeq(chunks, k + 2, n))
    BY <1>1, <1>3, <1>6, <1>8, IntactIsRead
  <2> HIDE DEF r
  <2>2. p = r.payload
    <3>1. CASE p = Payload
      BY <2>1, <3>1
    <3>2. CASE Head(Header) = 1 /\ p \in Parsed
      <4>1. r.payload \in Streams
        BY <2>1, <3>2, RecordProperties
      <4>2. p \in Streams /\ IsPrefix(FirstBatch(p), r.payload)
        BY <2>1, <3>2 DEF Parsed
      <4> QED BY <4>1, <4>2, CodecAssumption
    <3> QED BY <3>1, <3>2
  <2>3. e = r
    BY <2>1, <2>2, RecordProperties
  <2> QED BY <1>2, <2>1, <2>3 DEF r
<1> HIDE DEF e
<1>9. /\ recovered' \in Seq(Entry) /\ Len(recovered') = k + 1
      /\ \A i \in 1..k : recovered'[i] = recovered[i]
      /\ recovered'[k + 1] = e
  BY <1>2, <1>3, <1>5, AppendProperties
<1>10. k = K => K # n
  <2> SUFFICES ASSUME k = K, K = n PROVE FALSE
    OBVIOUS
  <2>1. k <= K /\ k = n
    BY <1>4
  <2> QED BY <1>1, <1>3, <1>6, <2>1, WhatIsLeft DEF InPlace
<1>11. OnlyCut(chunks) => k # K
  <2> SUFFICES ASSUME OnlyCut(chunks), k = K PROVE FALSE
    OBVIOUS
  <2> QED BY <1>1, <1>3, <1>6, CutIsNotRead
<1> HIDE DEF k, n
<1>12. /\ K < k + 1 => K < n
       /\ k + 1 <= K => k < K
       /\ OnlyCut(chunks) => k + 1 <= K
       /\ (k + 1) + 1 = k + 2
       /\ \A i \in 1..k + 1 : i <= K => i \in 1..k \/ (i = k + 1 /\ k < K)
  BY <1>4, <1>7, <1>10, <1>11
<1>13. \A i \in 1..k + 1 : i <= K => recovered'[i] = chunks[i].record
  BY <1>7, <1>8, <1>9, <1>12
<1>14. /\ Len(recovered') <= K => rest' = File(SubSeq(chunks, Len(recovered') + 1, n))
  BY <1>8, <1>9, <1>12
<1>15. Progress(K)'
  <2>1. phase' # "failed" /\ chunks' = chunks /\ n = Len(chunks)
    BY <1>1, <1>2 DEF n
  <2>2. (K < Len(recovered'))  => K < n
    BY <1>9, <1>12
  <2>3. OnlyCut(chunks) => Len(recovered') <= K
    BY <1>9, <1>12
  <2>4. \A i \in 1..Len(recovered') : i <= K => recovered'[i] = chunks[i].record
    BY <1>9, <1>13
  <2> QED BY <1>7, <1>14, <2>1, <2>2, <2>3, <2>4 DEF Progress
<1>16. flushed' \in 0..Len(chunks') /\ phase' \in {"up", "reading", "failed"}
  BY <1>1, <1>2, <1>3 DEF n
<1> QED BY <1>2, <1>3, <1>5, <1>9, <1>15, <1>16 DEF IInv

(* The batch of a stream is found in it.                                   *)
LEMMA BatchIsFound ==
  ASSUME NEW s \in Streams
  PROVE  s \in Seq(Byte) /\ IsPrefix(FirstBatch(s), s)
<1> DEFINE l == Len(s)
           m == l - EndMark
           b == SubSeq(s, 1, m)
<1>1. s \in Seq(Byte) /\ l \in Nat /\ EndMark \in Nat /\ EndMark < l
  BY CodecAssumption, LenProperties
<1> HIDE DEF l
<1>2. m \in 0..l /\ m \in Nat /\ m <= l
  BY <1>1
<1> HIDE DEF m
<1>3. b \in Seq(Byte) /\ Len(b) = m
  BY <1>1, <1>2, PrefixProperties DEF l
<1>4. SubSeq(b, 1, m) = b
  BY <1>3, SubSeqFull
<1>5. FirstBatch(s) = b
  BY DEF FirstBatch, m, l
<1> QED BY <1>1, <1>2, <1>3, <1>4, <1>5 DEF IsPrefix, l

(* What is not readable is no record before the damage; nor is a batch     *)
(* that no stream is found in.                                             *)
LEMMA FailsBehind ==
  ASSUME IInv, ReadFails \/ SkipStream, NEW K, Progress(K)
  PROVE  ~(Len(recovered) < K)
<1> SUFFICES ASSUME Len(recovered) < K PROVE FALSE
  OBVIOUS
<1> DEFINE r == chunks[Len(recovered) + 1].record
<1>1. /\ phase = "reading" /\ (Readable => Head(Header) = 1)
      /\ Readable => Parsed = {} \/ Payload \in EmptyStreams
  BY DEF ReadFails, SkipStream, Reading
<1>2. chunks \in Seq(Part) /\ recovered \in Seq(Entry)
  BY DEF IInv
<1>3. r \in StoredRecord /\ Readable /\ Head(Header) = r.indicator /\ Payload = r.payload
  BY <1>1, <1>2, IntactIsRead
<1> HIDE DEF r
<1>4. r.payload \in Streams /\ r.payload \in Seq(Byte)
  BY <1>1, <1>3, RecordProperties
<1>5. IsPrefix(FirstBatch(r.payload), r.payload)
  BY <1>4, BatchIsFound
<1>6. r.payload \in Parsed
  BY <1>3, <1>4, <1>5 DEF Parsed
<1>7. r.payload \notin EmptyStreams
  BY <1>4, <1>5, CodecAssumption
<1> QED BY <1>1, <1>3, <1>6, <1>7

(* Nothing is passed over but behind the damage.                           *)
LEMMA SkipInv ==
  ASSUME IInv, SkipStream
  PROVE  IInv'
<1> DEFINE k == Len(recovered)
           n == Len(chunks)
<1>1. phase = "reading" /\ rest # <<>> /\ Readable
  BY DEF SkipStream, Reading
<1>2. /\ rest' = SubSeq(Rest, Size + 1, Len(Rest))
      /\ UNCHANGED <<chunks, flushed, phase, recovered>>
  BY DEF SkipStream, GoOn
<1>3. chunks \in Seq(Part) /\ rest \in Seq(Byte) /\ recovered \in Seq(Entry)
  BY DEF IInv
<1>4. rest' \in Seq(Byte)
  BY <1>1, <1>2, <1>3, ReadTypes
<1>5. PICK K : Progress(K)
  BY DEF IInv
<1>6. ~(k < K) /\ k \in Nat /\ n \in Nat /\ K \in 0..n
  BY <1>3, <1>5, FailsBehind, LenProperties DEF Progress, IsIntact
<1>7. ASSUME k <= K, InPlace(K) PROVE FALSE
  <2>1. k = K
    <3> HIDE DEF k, n
    <3> QED BY <1>6, <1>7
  <2>2. CASE K = n
    BY <1>1, <1>3, <1>5, <1>7, <2>1, <2>2, WhatIsLeft
  <2>3. CASE OnlyCut(chunks)
    BY <1>1, <1>3, <1>5, <2>1, <2>3, CutIsNotRead
  <2> QED BY <1>6, <1>7, <2>2, <2>3 DEF InPlace
<1>8. Progress(K)'
  <2>1. ~(Len(recovered') <= K /\ InPlace(K)')
    BY <1>2, <1>7 DEF InPlace
  <2> QED BY <1>1, <1>2, <1>5, <2>1 DEF Progress
<1> QED BY <1>2, <1>3, <1>4, <1>8 DEF IInv

(* Every step keeps the invariant.                                         *)
LEMMA NextInv == IInv /\ [Next]_vars => IInv'
<1> SUFFICES ASSUME IInv, [Next]_vars PROVE IInv'
  OBVIOUS
<1>1. ASSUME NEW r \in StoredRecord, Add(r) PROVE IInv'
  <2> DEFINE n == Len(Serialize(r))
  <2>1. Write(r, n) /\ flushed' = flushed
    BY <1>1 DEF Add
  <2>2. n \in 1..n
    <3> DEFINE a == Len(r.topic)
               b == Len(r.payload)
    <3>1. n = a + 2 + Width + b
      BY SerializeProperties DEF Start
    <3>2. a \in Nat /\ b \in Nat /\ Width \in Nat
      BY RecordProperties, LenProperties, CodecAssumption
    <3> HIDE DEF n, a, b
    <3>3. n \in Nat /\ 1 <= n
      BY <3>1, <3>2
    <3> QED BY <3>3
  <2> QED BY <2>1, <2>2, WriteInv
<1>2. ASSUME NEW r \in StoredRecord, ShortWrite(r) PROVE IInv'
  <2>1. PICK n \in 1..Len(Serialize(r)) - 1 : Write(r, n)
    BY <1>2 DEF ShortWrite
  <2>2. flushed' = Len(chunks')
    BY <1>2 DEF ShortWrite
  <2>3. n \in 1..Len(Serialize(r))
    <3> DEFINE m == Len(Serialize(r))
    <3>1. m \in Nat
      BY SerializeProperties, LenProperties
    <3>2. n \in 1..m - 1
      OBVIOUS
    <3> HIDE DEF m
    <3>3. n \in 1..m
      BY <3>1, <3>2
    <3> QED BY <3>3 DEF m
  <2> QED BY <2>1, <2>2, <2>3, WriteInv
<1>3. CASE Flush
  <2>1. flushed' = Len(chunks) /\ UNCHANGED <<chunks, phase, rest, recovered>>
    BY <1>3 DEF Flush
  <2>2. flushed' \in 0..Len(chunks)
    BY <2>1, LenProperties DEF IInv
  <2> QED BY <2>1, <2>2 DEF IInv, Progress, InPlace
<1>4. CASE Crash
  BY <1>4, CrashInv
<1>5. CASE ReadRaw
  <2>1. Reading /\ Readable /\ Recovered(Payload)
    BY <1>5 DEF ReadRaw
  <2>2. Payload \in Seq(Byte)
    BY <2>1, ReadTypes DEF IInv
  <2> QED BY <2>1, <2>2, ReadInv
<1>6. CASE ReadBatch
  <2>1. Reading /\ Readable /\ Head(Header) = 1
    BY <1>6 DEF ReadBatch
  <2>2. PICK s \in Parsed : Recovered(s)
    BY <1>6 DEF ReadBatch
  <2>3. s \in Seq(Byte)
    BY CodecAssumption DEF Parsed
  <2> QED BY <2>1, <2>2, <2>3, ReadInv
<1>7. CASE ReadFails
  <2>1. phase' = "failed" /\ UNCHANGED <<chunks, flushed, rest, recovered>>
    BY <1>7 DEF ReadFails
  <2>2. PICK K : Progress(K)
    BY DEF IInv
  <2>3. K <= Len(recovered)
    <3>1. ~(Len(recovered) < K)
      BY <1>7, <2>2, FailsBehind
    <3>2. Len(recovered) \in Nat /\ Len(chunks) \in Nat /\ K \in 0..Len(chunks)
      BY <2>2, LenProperties DEF IInv, Progress, IsIntact
    <3> QED BY <3>1, <3>2
  <2>4. Progress(K)'
    BY <2>1, <2>2, <2>3 DEF Progress
  <2> QED BY <2>1, <2>4 DEF IInv
<1>8. CASE EndOfFile
  <2>1. phase' = "up" /\ UNCHANGED <<chunks, flushed, rest, recovered>>
    BY <1>8 DEF EndOfFile
  <2>2. PICK K : Progress(K)
    BY DEF IInv
  <2>3. Progress(K)'
    BY <2>1, <2>2 DEF Progress
  <2> QED BY <2>1, <2>3 DEF IInv
<1>9. CASE StartPanics \/ UNCHANGED vars
  <2>1. UNCHANGED <<chunks, flushed, phase, rest, recovered>>
    BY <1>9 DEF StartPanics, vars
  <2> QED BY <2>1 DEF IInv, Progress, InPlace
<1>10. CASE SkipStream
  BY <1>10, SkipInv
<1> QED BY <1>1, <1>2, <1>3, <1>4, <1>5, <1>6, <1>7, <1>8, <1>9, <1>10 DEF Next

(* The invariant has every variable's type.                                *)
LEMMA TypedInv == IInv => TypeOK
<1> SUFFICES ASSUME IInv PROVE TypeOK
  OBVIOUS
<1>1. /\ chunks \in Seq(Part) /\ flushed \in 0..Len(chunks)
      /\ phase \in {"up", "reading", "failed"} /\ rest \in Seq(Byte)
      /\ recovered \in Seq(Entry)
  BY DEF IInv
<1>2. ASSUME NEW i \in DOMAIN chunks
      PROVE  chunks[i].record \in StoredRecord /\ chunks[i].bytes \in Seq(Byte)
  <2>1. chunks[i] \in Part
    BY <1>1, LenProperties, ElementOfSeq
  <2> QED BY <2>1, PartProperties
<1> QED BY <1>1, <1>2 DEF TypeOK, Entry

(* What was read and what must be agree, one being as far as the other.    *)
LEMMA RecoveredInv == IInv => IntactRecovered
<1> SUFFICES ASSUME IInv PROVE IntactRecovered
  OBVIOUS
<1> DEFINE k == Len(recovered)
<1>1. chunks \in Seq(Part) /\ recovered \in Seq(Entry)
  BY DEF IInv
<1>2. PICK K : Progress(K)
  BY DEF IInv
<1>3. /\ IsIntact(chunks, K)
      /\ \A i \in 1..k : i <= K => recovered[i] = chunks[i].record
      /\ phase = "failed" => K <= k
  BY <1>2 DEF Progress
<1>4. k \in Nat /\ K \in Nat
  BY <1>1, <1>3, LenProperties DEF IsIntact
<1>5. /\ Intact = [i \in 1..K |-> chunks[i].record]
      /\ Intact \in Seq(StoredRecord) /\ Len(Intact) = K
  BY <1>1, <1>3, IntactIs
<1>6. Intact \in Seq(Entry)
  <2>1. StoredRecord \subseteq Entry
    BY RecordIsEntry
  <2> QED BY <1>5, <2>1, SeqMonotonic
<1>7. k <= K => Agree(recovered, Intact, k)
  BY <1>3, <1>4, <1>5 DEF Agree
<1>8. K <= k => Agree(Intact, recovered, K)
  BY <1>3, <1>4, <1>5 DEF Agree
<1>9. k <= K => IsPrefix(recovered, Intact)
  <2> HIDE DEF k
  <2> QED BY <1>1, <1>5, <1>6, <1>7, AgreeingIsPrefix DEF k
<1>10. K <= k => IsPrefix(Intact, recovered)
  BY <1>1, <1>5, <1>6, <1>8, AgreeingIsPrefix
<1> HIDE DEF k
<1> QED BY <1>3, <1>4, <1>9, <1>10 DEF IntactRecovered

(* A start that ends tells a whole file from one with a cut at its end.    *)
LEMMA NoticedStep ==
  ASSUME IInv, [Next]_vars, phase = "reading", phase' # "reading", OnlyCut(chunks)
  PROVE  IF \A i \in DOMAIN chunks : Whole(chunks[i])
         THEN phase' = "up" /\ recovered = Intact
         ELSE phase' = "failed"
<1> DEFINE k == Len(recovered)
           n == Len(chunks)
<1>1. chunks \in Seq(Part) /\ recovered \in Seq(Entry) /\ DOMAIN chunks = 1..n
  BY LenProperties DEF IInv
<1>2. PICK K : Progress(K)
  BY DEF IInv
<1>3. k \in Nat /\ n \in Nat /\ K \in 0..n /\ IsIntact(chunks, K) /\ k <= K
  BY <1>1, <1>2, LenProperties DEF Progress, IsIntact
<1>4. (rest = <<>> /\ phase' = "up") \/ ReadFails
  <2>1. CASE \E r \in StoredRecord : Add(r) \/ ShortWrite(r)
    BY <2>1 DEF Add, ShortWrite, Write
  <2>2. CASE Flush
    BY <2>2 DEF Flush
  <2>3. CASE Crash
    BY <2>3 DEF Crash
  <2>4. CASE ReadRaw \/ ReadBatch \/ SkipStream
    BY <2>4 DEF ReadRaw, ReadBatch, SkipStream, Recovered, GoOn
  <2>5. CASE EndOfFile
    BY <2>5 DEF EndOfFile
  <2>6. CASE StartPanics \/ UNCHANGED vars
    BY <2>6 DEF StartPanics, vars
  <2> QED BY <2>1, <2>2, <2>3, <2>4, <2>5, <2>6 DEF Next
<1>5. CASE \A i \in DOMAIN chunks : Whole(chunks[i])
  <2>1. K = n
    <3>1. \A i \in 1..n : Clean(chunks[i])
      BY <1>1, <1>5 DEF OnlyCut, Clean
    <3>2. K < n => K + 1 \in 1..n
      BY <1>3
    <3>3. ~(K < n)
      BY <1>3, <3>1, <3>2 DEF IsIntact
    <3> HIDE DEF n
    <3> QED BY <1>3, <3>3
  <2>2. rest = <<>> => k = n
    BY <1>1, <1>2, <1>3, WhatIsLeft DEF InPlace
  <2>3. ReadFails => rest # <<>> /\ k = n
    <3>1. ReadFails => rest # <<>> /\ ~(k < K)
      BY <1>2, FailsBehind DEF ReadFails, Reading
    <3> HIDE DEF k, n
    <3> QED BY <1>3, <2>1, <3>1
  <2>4. ~ReadFails
    <3>1. k = n => rest = <<>>
      BY <1>1, <1>2, <1>3, WhatIsLeft DEF InPlace
    <3> QED BY <2>3, <3>1
  <2>5. phase' = "up" /\ k = n
    BY <1>4, <2>2, <2>4
  <2>6. /\ Intact = [i \in 1..K |-> chunks[i].record]
        /\ Intact \in Seq(StoredRecord) /\ Len(Intact) = K
    BY <1>1, <1>3, IntactIs
  <2>7. Intact \in Seq(Entry)
    <3>1. StoredRecord \subseteq Entry
      BY RecordIsEntry
    <3> QED BY <2>6, <3>1, SeqMonotonic
  <2>8. \A i \in 1..k : recovered[i] = Intact[i]
    <3>1. \A i \in 1..k : i <= K => recovered[i] = chunks[i].record
      BY <1>2 DEF Progress
    <3>2. k = K
      BY <2>1, <2>5
    <3> HIDE DEF k
    <3>3. \A i \in 1..k : i <= K /\ i \in 1..K
      BY <1>3, <3>2
    <3> QED BY <2>6, <3>1, <3>3
  <2>9. recovered = Intact
    BY <1>1, <2>1, <2>5, <2>6, <2>7, <2>8, SeqEqual
  <2> QED BY <1>5, <2>5, <2>9
<1>6. CASE ~(\A i \in DOMAIN chunks : Whole(chunks[i]))
  <2>1. K # n
    <3> SUFFICES ASSUME K = n PROVE \A i \in DOMAIN chunks : Whole(chunks[i])
      BY <1>6
    <3> QED BY <1>1, <1>3 DEF IsIntact, Clean
  <2>2. k # n
    <3> HIDE DEF k, n
    <3> QED BY <1>3, <2>1
  <2>3. rest # <<>>
    BY <1>1, <1>2, <1>3, <2>2, WhatIsLeft DEF InPlace
  <2>4. phase' = "failed"
    BY <1>4, <2>3 DEF ReadFails
  <2> QED BY <1>6, <2>4
<1> QED BY <1>5, <1>6

-----------------------------------------------------------------------------
(* Theorems *)

(* The variables keep their types: whatever a payload holds, and wherever  *)
(* the file is cut, what is read has a name that is text, an indicator     *)
(* that is one, and a payload of bytes (src/topic_manager.rs:188-244).     *)
THEOREM TypeCorrect == Spec => []TypeOK
<1>1. Spec => []IInv
  BY InitInv, NextInv, PTL DEF Spec
<1> QED BY <1>1, TypedInv, PTL

(* Damage does not reach back: the records before it are read as they were *)
(* written and before anything else (src/topic_manager.rs:197-240).        *)
THEOREM IntactIsRecovered == Spec => []IntactRecovered
<1>1. Spec => []IInv
  BY InitInv, NextInv, PTL DEF Spec
<1> QED BY <1>1, RecoveredInv, PTL

(* A part of a record at the end of the file makes the start fail, and     *)
(* nothing else does (src/topic_manager.rs:197-240).                       *)
THEOREM CutNoticed == Spec => CutIsNoticed
<1>1. Spec => []IInv
  BY InitInv, NextInv, PTL DEF Spec
<1>2. IInv /\ [Next]_vars =>
        [phase = "reading" /\ phase' # "reading"
           /\ (\A i \in 1..Len(chunks) - 1 : Clean(chunks[i]))
           /\ (\A i \in DOMAIN chunks : ~Contains(chunks[i].record.topic, Newline))
         => IF \A i \in DOMAIN chunks : Whole(chunks[i])
            THEN phase' = "up" /\ recovered = Intact
            ELSE phase' = "failed"]_vars
  BY NoticedStep DEF OnlyCut
<1> QED BY <1>1, <1>2, PTL DEF Spec, CutIsNoticed

=============================================================================
