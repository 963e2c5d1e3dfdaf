--------------------------- MODULE TransferProofs ---------------------------
(***************************************************************************)
(* Proofs about Transfer, for files and chunks of any size, any waves and  *)
(* processes, and any number of rotations, restarts and failures.          *)
(***************************************************************************)
EXTENDS Transfer, SequenceTheorems, WellFoundedInduction, TLAPS

-----------------------------------------------------------------------------
(* Parts of sequences *)

\* A part of a sequence has its elements in their order.
LEMMA PartOf ==
    ASSUME NEW S, NEW s \in Seq(S), NEW a \in Nat, NEW b \in Nat, a <= b, b <= Len(s)
    PROVE  /\ SubSeq(s, a + 1, b) \in Seq(S)
           /\ Len(SubSeq(s, a + 1, b)) = b - a
           /\ \A i \in 1..(b - a) : SubSeq(s, a + 1, b)[i] = s[a + i]
  <1>1. \A i \in (a + 1)..b : s[i] \in S
    OBVIOUS
  <1>2. /\ SubSeq(s, a + 1, b) \in Seq(S)
        /\ Len(SubSeq(s, a + 1, b)) = IF a + 1 <= b THEN b - (a + 1) + 1 ELSE 0
        /\ \A i \in 1..(b - (a + 1) + 1) : SubSeq(s, a + 1, b)[i] = s[a + 1 + i - 1]
    <2>1. a + 1 \in Int /\ b \in Int
      OBVIOUS
    <2>2. QED
      BY <1>1, <2>1, SubSeqProperties
  <1>3. b - (a + 1) + 1 = b - a /\ \A i \in 1..(b - a) : a + 1 + i - 1 = a + i
    OBVIOUS
  <1>4. QED
    BY <1>2, <1>3

\* A part of a part is a part.
LEMMA PartOfPart ==
    ASSUME NEW S, NEW s \in Seq(S), NEW a \in Nat, NEW b \in Nat, a <= b, b <= Len(s),
           NEW m \in Nat, NEW n \in Nat, m <= n, n <= b - a
    PROVE  SubSeq(SubSeq(s, a + 1, b), m + 1, n) = SubSeq(s, (a + m) + 1, a + n)
  <1> DEFINE p == SubSeq(s, a + 1, b)
             q == SubSeq(s, (a + m) + 1, a + n)
             r == SubSeq(p, m + 1, n)
  <1>1. p \in Seq(S) /\ Len(p) = b - a /\ \A i \in 1..(b - a) : p[i] = s[a + i]
    BY PartOf
  <1>2. a + m \in Nat /\ a + n \in Nat /\ a + m <= a + n /\ a + n <= Len(s)
    OBVIOUS
  <1>3. /\ q \in Seq(S) /\ Len(q) = (a + n) - (a + m)
        /\ \A i \in 1..((a + n) - (a + m)) : q[i] = s[(a + m) + i]
    BY <1>2, PartOf
  <1> HIDE DEF p, q
  <1>4. r \in Seq(S) /\ Len(r) = n - m /\ \A i \in 1..(n - m) : r[i] = p[m + i]
    BY <1>1, PartOf
  <1> HIDE DEF r
  <1>5. \A i \in 1..(n - m) : r[i] = q[i]
    <2> SUFFICES ASSUME NEW i \in 1..(n - m) PROVE r[i] = q[i]
      OBVIOUS
    <2>1. m + i \in 1..(b - a) /\ a + (m + i) = (a + m) + i /\ i \in 1..((a + n) - (a + m))
      OBVIOUS
    <2>2. r[i] = s[a + (m + i)] /\ q[i] = s[(a + m) + i]
      BY <1>1, <1>3, <1>4, <2>1
    <2>3. QED
      BY <2>1, <2>2
  <1>6. Len(r) = Len(q) /\ \A i \in 1..Len(r) : r[i] = q[i]
    <2>1. (a + n) - (a + m) = n - m
      OBVIOUS
    <2>2. QED
      BY <1>3, <1>4, <1>5, <2>1
  <1>7. r = q
    BY <1>3, <1>4, <1>6, SeqEqual
  <1>8. QED
    BY <1>7 DEF p, q, r

\* Parts that follow each other are one part.
LEMMA PartsJoin ==
    ASSUME NEW S, NEW s \in Seq(S), NEW a \in Nat, NEW b \in Nat, NEW c \in Nat,
           a <= b, b <= c, c <= Len(s)
    PROVE  SubSeq(s, a + 1, b) \o SubSeq(s, b + 1, c) = SubSeq(s, a + 1, c)
  <1> DEFINE p == SubSeq(s, a + 1, b)
             q == SubSeq(s, b + 1, c)
             r == SubSeq(s, a + 1, c)
  <1>1. p \in Seq(S) /\ Len(p) = b - a /\ \A i \in 1..(b - a) : p[i] = s[a + i]
    BY PartOf
  <1>2. q \in Seq(S) /\ Len(q) = c - b /\ \A i \in 1..(c - b) : q[i] = s[b + i]
    BY PartOf
  <1>3. r \in Seq(S) /\ Len(r) = c - a /\ \A i \in 1..(c - a) : r[i] = s[a + i]
    BY PartOf
  <1> HIDE DEF p, q, r
  <1>4. /\ p \o q \in Seq(S) /\ Len(p \o q) = c - a
        /\ \A i \in 1..(c - a) : (p \o q)[i] = IF i <= b - a THEN p[i] ELSE q[i - (b - a)]
    <2>1. /\ p \o q \in Seq(S) /\ Len(p \o q) = Len(p) + Len(q)
          /\ \A i \in 1..(Len(p) + Len(q)) :
                 (p \o q)[i] = IF i <= Len(p) THEN p[i] ELSE q[i - Len(p)]
      BY <1>1, <1>2, ConcatProperties
    <2>2. Len(p) + Len(q) = c - a
      BY <1>1, <1>2
    <2>3. QED
      BY <1>1, <2>1, <2>2
  <1>5. \A i \in 1..(c - a) : (p \o q)[i] = r[i]
    <2> SUFFICES ASSUME NEW i \in 1..(c - a) PROVE (p \o q)[i] = r[i]
      OBVIOUS
    <2>1. CASE i <= b - a
      BY <1>1, <1>3, <1>4, <2>1
    <2>2. CASE ~ (i <= b - a)
      <3>1. i - (b - a) \in 1..(c - b) /\ b + (i - (b - a)) = a + i
        BY <2>2
      <3>2. QED
        BY <1>2, <1>3, <1>4, <2>2, <3>1
    <2>3. QED
      BY <2>1, <2>2
  <1>6. p \o q = r
    <2>1. \A i \in 1..Len(p \o q) : (p \o q)[i] = r[i]
      BY <1>4, <1>5
    <2>2. QED
      BY <1>3, <1>4, <2>1, SeqEqual
  <1>7. QED
    BY <1>6 DEF p, q, r

\* A function on 1..n is a sequence.
LEMMA FunctionIsSeq ==
    ASSUME NEW S, NEW n \in Nat, NEW f, f = [k \in 1..n |-> f[k]], \A k \in 1..n : f[k] \in S
    PROVE  f \in Seq(S) /\ Len(f) = n
  OBVIOUS

-----------------------------------------------------------------------------
(* Where the chunks of a file begin *)

\* Chunk k + 1 begins after k full chunks; the product is kept out of the proofs.
Offset(k) == k * ChunkSize

\* Offsets are a chunk apart and grow with the number of chunks.
LEMMA Offsets ==
    /\ Offset(0) = 0
    /\ \A k \in Nat : Offset(k) \in Nat /\ Offset(k + 1) = Offset(k) + ChunkSize
    /\ \A j, k \in Nat : Offset(j + k) = Offset(j) + Offset(k)
    /\ \A j, k \in Nat : j <= k => Offset(j) <= Offset(k)
    /\ \A j, k \in Nat : j < k => Offset(j) + ChunkSize <= Offset(k)
  <1>1. ChunkSize \in Nat /\ ChunkSize > 0
    BY ChunkAssumption
  <1>2. Offset(0) = 0
    BY <1>1 DEF Offset
  <1>3. \A k \in Nat : Offset(k) \in Nat /\ Offset(k + 1) = Offset(k) + ChunkSize
    BY <1>1 DEF Offset
  <1>4. \A j, k \in Nat : Offset(j + k) = Offset(j) + Offset(k)
    BY <1>1 DEF Offset
  <1>5. \A j, k \in Nat : j <= k => Offset(j) <= Offset(k)
    <2> SUFFICES ASSUME NEW j \in Nat, NEW k \in Nat, j <= k PROVE Offset(j) <= Offset(k)
      OBVIOUS
    <2>1. k - j \in Nat /\ j + (k - j) = k
      OBVIOUS
    <2>2. Offset(k) = Offset(j) + Offset(k - j)
      BY <1>4, <2>1
    <2>3. QED
      BY <1>3, <2>1, <2>2
  <1>6. \A j, k \in Nat : j < k => Offset(j) + ChunkSize <= Offset(k)
    <2> SUFFICES ASSUME NEW j \in Nat, NEW k \in Nat, j < k PROVE Offset(j) + ChunkSize <= Offset(k)
      OBVIOUS
    <2>1. j + 1 \in Nat /\ j + 1 <= k
      OBVIOUS
    <2>2. Offset(j + 1) <= Offset(k) /\ Offset(j + 1) = Offset(j) + ChunkSize
      BY <1>3, <1>5, <2>1
    <2>3. QED
      BY <2>2
  <1>7. QED
    BY <1>2, <1>3, <1>4, <1>5, <1>6

\* The quotient is the number of full chunks.
LEMMA FullQuotient ==
    ASSUME NEW a \in Nat
    PROVE  /\ a \div ChunkSize \in Nat
           /\ Offset(a \div ChunkSize) <= a /\ a < Offset(a \div ChunkSize) + ChunkSize
           /\ \A n \in Nat : Offset(n) <= a /\ a < Offset(n) + ChunkSize => a \div ChunkSize = n
  <1>1. ChunkSize \in Nat /\ ChunkSize > 0
    BY ChunkAssumption
  <1> DEFINE q == a \div ChunkSize
  <1>2. q \in Nat /\ Offset(q) <= a /\ a < Offset(q) + ChunkSize
    BY <1>1 DEF Offset
  <1> HIDE DEF q
  <1>3. ASSUME NEW n \in Nat, Offset(n) <= a, a < Offset(n) + ChunkSize
        PROVE  q = n
    <2>1. ~ (q < n) /\ ~ (n < q)
      <3>1. Offset(q) \in Nat /\ Offset(n) \in Nat
        BY <1>2, <1>3, Offsets
      <3>2. /\ q < n => Offset(q) + ChunkSize <= Offset(n)
            /\ n < q => Offset(n) + ChunkSize <= Offset(q)
        BY <1>2, Offsets
      <3>3. QED
        BY <1>1, <1>2, <1>3, <3>1, <3>2
    <2>2. QED
      BY <1>2, <2>1
  <1>4. QED
    BY <1>2, <1>3 DEF q

\* What chunkFile cuts: full chunks, and the rest.
Limit(s, k) == IF Offset(k) < Len(s) THEN Offset(k) ELSE Len(s)

\* chunkFile makes n parts for the n with one chunk less than a file of that size.
LEMMA FileParts ==
    ASSUME NEW s, Len(s) \in Nat
    PROVE  \E n \in Nat :
               /\ ChunkFile(s) = [k \in 1..n |-> SubSeq(s, Offset(k - 1) + 1, Limit(s, k))]
               /\ Len(s) <= Offset(n)
               /\ Offset(n) < Len(s) + ChunkSize
               /\ \A k \in 1..n : Offset(k - 1) < Len(s)
  <1>1. ChunkSize \in Nat /\ ChunkSize > 0
    BY ChunkAssumption
  <1> DEFINE a == Len(s) + ChunkSize - 1
             n == a \div ChunkSize
  <1>2. a \in Nat
    BY <1>1
  <1>3. n \in Nat /\ Offset(n) <= a /\ a < Offset(n) + ChunkSize
    <2> HIDE DEF a
    <2>1. QED
      BY <1>2, FullQuotient
  <1>4. ChunkFile(s) = [k \in 1..n |-> SubSeq(s, Offset(k - 1) + 1, Limit(s, k))]
    BY DEF ChunkFile, Offset, Limit
  <1> HIDE DEF n
  <1>5. Offset(n) \in Nat
    BY <1>3, Offsets
  <1>6. Len(s) <= Offset(n) /\ Offset(n) < Len(s) + ChunkSize
    BY <1>1, <1>3, <1>5
  <1>7. ASSUME NEW k \in 1..n
        PROVE  Offset(k - 1) < Len(s)
    <2>1. k - 1 \in Nat /\ k - 1 < n
      BY <1>3
    <2>2. Offset(k - 1) \in Nat /\ Offset(k - 1) + ChunkSize <= Offset(n)
      BY <1>3, <2>1, Offsets
    <2>3. QED
      BY <1>1, <1>5, <1>6, <2>2
  <1>8. QED
    BY <1>3, <1>4, <1>6, <1>7

\* The chunks of a file are known once one knows how many full ones it has.
LEMMA FileOfFullChunks ==
    ASSUME NEW s, Len(s) \in Nat, NEW n \in Nat,
           Len(s) <= Offset(n), Offset(n) < Len(s) + ChunkSize
    PROVE  ChunkFile(s) = [k \in 1..n |-> SubSeq(s, Offset(k - 1) + 1, Limit(s, k))]
  <1>1. PICK m \in Nat :
            /\ ChunkFile(s) = [k \in 1..m |-> SubSeq(s, Offset(k - 1) + 1, Limit(s, k))]
            /\ Len(s) <= Offset(m)
            /\ Offset(m) < Len(s) + ChunkSize
    BY FileParts
  <1>2. Offset(m) \in Nat /\ Offset(n) \in Nat /\ ChunkSize \in Nat
    BY Offsets, ChunkAssumption
  <1>3. /\ m < n => Offset(m) + ChunkSize <= Offset(n)
        /\ n < m => Offset(n) + ChunkSize <= Offset(m)
    BY Offsets
  <1>4. m = n
    BY <1>1, <1>2, <1>3
  <1>5. QED
    BY <1>1, <1>4

-----------------------------------------------------------------------------
(* chunkFileStream cuts as chunkFile does *)

\* n chunks are what c units of s make: all full, and buf what is left.
Cut(s, c, list, buf) ==
    /\ \A k \in 1..Len(list) : list[k] = SubSeq(s, Offset(k - 1) + 1, Offset(k))
    /\ Offset(Len(list)) <= c /\ c < Offset(Len(list)) + ChunkSize
    /\ buf = SubSeq(s, Offset(Len(list)) + 1, c)

\* The loop of the 'data' handler keeps it.
LEMMA DataCuts ==
    ASSUME NEW S, NEW s \in Seq(S), NEW c \in 0..Len(s), chunks \in Seq(Seq(S)),
           Cut(s, c, chunks, buffer), unread = SubSeq(s, c + 1, Len(s)),
           NEW d \in Nat, Data(d)
    PROVE  /\ c + d <= Len(s)
           /\ unread' = SubSeq(s, (c + d) + 1, Len(s))
           /\ chunks' \in Seq(Seq(S))
           /\ Cut(s, c + d, chunks', buffer')
  <1>0. PICK n, o, data, q, full, front, new :
            /\ n = Len(chunks) /\ o = Offset(n)
            /\ data = buffer \o SubSeq(unread, 1, d)
            /\ q = FullChunks(data) /\ full = q * ChunkSize
            /\ front = SubSeq(data, 1, full) /\ new = ChunkFile(front)
    OBVIOUS
  <1>1. /\ n \in Nat /\ o \in Nat /\ c \in Nat /\ Len(s) \in Nat /\ c <= Len(s)
        /\ ChunkSize \in Nat /\ ChunkSize > 0
        /\ o <= c /\ c < o + ChunkSize
    <2>1. n \in Nat
      BY <1>0
    <2>2. QED
      BY <1>0, <2>1, Offsets, ChunkAssumption DEF Cut
  <1>2. unread \in Seq(S) /\ Len(unread) = Len(s) - c
    BY <1>1, PartOf
  <1>3. d \in 1..Len(unread) /\ d <= Len(s) - c /\ c + d <= Len(s) /\ c + d \in Nat
    BY <1>1, <1>2 DEF Data
  <1>4. unread' = SubSeq(s, (c + d) + 1, Len(s))
    <2>1. unread' = SubSeq(unread, d + 1, Len(unread))
      BY DEF Data
    <2>2. SubSeq(SubSeq(s, c + 1, Len(s)), d + 1, Len(s) - c)
              = SubSeq(s, (c + d) + 1, c + (Len(s) - c))
      BY <1>1, <1>3, PartOfPart
    <2>3. c + (Len(s) - c) = Len(s)
      BY <1>1
    <2>4. QED
      BY <1>2, <2>1, <2>2, <2>3
  <1>5. data = SubSeq(s, o + 1, c + d)
    <2>1. SubSeq(unread, 1, d) = SubSeq(s, c + 1, c + d)
      <3>1. SubSeq(SubSeq(s, c + 1, Len(s)), 0 + 1, d) = SubSeq(s, (c + 0) + 1, c + d)
        BY <1>1, <1>3, PartOfPart
      <3>2. 0 + 1 = 1 /\ c + 0 = c
        BY <1>1
      <3>3. QED
        BY <3>1, <3>2
    <2>2. SubSeq(s, o + 1, c) \o SubSeq(s, c + 1, c + d) = SubSeq(s, o + 1, c + d)
      BY <1>1, <1>3, PartsJoin
    <2>3. QED
      BY <1>0, <2>1, <2>2 DEF Cut
  <1>6. data \in Seq(S) /\ Len(data) = c + d - o /\ Len(data) \in Nat
    <2>1. o <= c + d
      BY <1>1, <1>3
    <2>2. SubSeq(s, o + 1, c + d) \in Seq(S) /\ Len(SubSeq(s, o + 1, c + d)) = c + d - o
      BY <1>1, <1>3, <2>1, PartOf
    <2>3. QED
      BY <1>1, <1>3, <1>5, <2>1, <2>2
  <1>7. chunks' = chunks \o new /\ buffer' = SubSeq(data, full + 1, Len(data))
    BY <1>0 DEF Data
  <1>8. q \in Nat /\ full = Offset(q) /\ full <= Len(data) /\ Len(data) < full + ChunkSize
    BY <1>0, <1>6, FullQuotient DEF FullChunks, Offset
  <1>9. front \in Seq(S) /\ Len(front) = full /\ full \in Nat
    <2>1. full \in Nat
      BY <1>8, Offsets
    <2>2. SubSeq(data, 0 + 1, full) \in Seq(S) /\ Len(SubSeq(data, 0 + 1, full)) = full - 0
      BY <1>6, <1>8, <2>1, PartOf
    <2>3. 0 + 1 = 1 /\ full - 0 = full
      BY <2>1
    <2>4. QED
      BY <1>0, <2>1, <2>2, <2>3
  <1>10. new = [k \in 1..q |-> SubSeq(front, Offset(k - 1) + 1, Limit(front, k))]
    <2>1. Len(front) <= Offset(q) /\ Offset(q) < Len(front) + ChunkSize
      BY <1>1, <1>8, <1>9
    <2>2. Len(front) \in Nat
      BY <1>9
    <2>3. ChunkFile(front) = [k \in 1..q |-> SubSeq(front, Offset(k - 1) + 1, Limit(front, k))]
      BY <1>8, <2>1, <2>2, FileOfFullChunks
    <2>4. QED
      BY <1>0, <2>3
  <1>11. ASSUME NEW k \in 1..q
         PROVE  /\ new[k] = SubSeq(s, Offset(n + k - 1) + 1, Offset(n + k))
                /\ new[k] \in Seq(S)
    <2>1. k - 1 \in Nat /\ k \in Nat /\ k - 1 <= k /\ k <= q
      BY <1>8
    <2>2. /\ Offset(k - 1) \in Nat /\ Offset(k) \in Nat
          /\ Offset(k - 1) <= Offset(k) /\ Offset(k) <= full
      BY <1>8, <2>1, Offsets
    <2>3. Limit(front, k) = Offset(k)
      BY <1>9, <2>2 DEF Limit
    <2>4. new[k] = SubSeq(front, Offset(k - 1) + 1, Offset(k))
      BY <1>10, <2>3
    <2>5. new[k] = SubSeq(data, Offset(k - 1) + 1, Offset(k))
      <3>1. SubSeq(SubSeq(data, 0 + 1, full), Offset(k - 1) + 1, Offset(k))
                = SubSeq(data, (0 + Offset(k - 1)) + 1, 0 + Offset(k))
        <4>1. /\ 0 \in Nat /\ full \in Nat /\ 0 <= full /\ full <= Len(data)
              /\ Offset(k) <= full - 0
          BY <1>6, <1>8, <1>9, <2>2
        <4>2. PICK z, x, y : z = 0 /\ x = Offset(k - 1) /\ y = Offset(k)
          OBVIOUS
        <4>3. /\ z \in Nat /\ full \in Nat /\ z <= full /\ full <= Len(data)
              /\ x \in Nat /\ y \in Nat /\ x <= y /\ y <= full - z
          BY <2>2, <4>1, <4>2
        <4>4. SubSeq(SubSeq(data, z + 1, full), x + 1, y) = SubSeq(data, (z + x) + 1, z + y)
          BY <1>6, <4>3, PartOfPart
        <4>5. QED
          BY <4>2, <4>4
      <3>2. 0 + 1 = 1 /\ 0 + Offset(k - 1) = Offset(k - 1) /\ 0 + Offset(k) = Offset(k)
        BY <2>2
      <3>3. QED
        BY <1>0, <2>4, <3>1, <3>2
    <2>6. Offset(k) <= (c + d) - o
      <3>1. Offset(k) \in Nat /\ full \in Nat /\ Offset(k) <= full /\ full <= Len(data)
        BY <1>8, <1>9, <2>2
      <3>2. Len(data) \in Nat
        BY <1>6
      <3>3. Offset(k) <= Len(data)
        BY <3>1, <3>2
      <3>4. Len(data) = (c + d) - o /\ c \in Nat /\ o \in Nat
        BY <1>1, <1>6
      <3>5. QED
        BY <3>1, <3>2, <3>3, <3>4
    <2>7. SubSeq(SubSeq(s, o + 1, c + d), Offset(k - 1) + 1, Offset(k))
              = SubSeq(s, (o + Offset(k - 1)) + 1, o + Offset(k))
      <3>1. o \in Nat /\ c + d \in Nat /\ o <= c + d /\ c + d <= Len(s)
        BY <1>1, <1>3
      <3>2. PICK e, x, y : e = c + d /\ x = Offset(k - 1) /\ y = Offset(k)
        OBVIOUS
      <3>3. /\ o \in Nat /\ e \in Nat /\ o <= e /\ e <= Len(s)
            /\ x \in Nat /\ y \in Nat /\ x <= y /\ y <= e - o
        BY <2>2, <2>6, <3>1, <3>2
      <3>4. SubSeq(SubSeq(s, o + 1, e), x + 1, y) = SubSeq(s, (o + x) + 1, o + y)
        BY <3>3, PartOfPart
      <3>5. QED
        BY <3>2, <3>4
    <2>8. o + Offset(k - 1) = Offset(n + k - 1) /\ o + Offset(k) = Offset(n + k)
      <3>1. n + (k - 1) = n + k - 1
        BY <1>1, <2>1
      <3>2. QED
        BY <1>0, <1>1, <2>1, <3>1, Offsets
    <2>9. new[k] = SubSeq(s, (o + Offset(k - 1)) + 1, o + Offset(k))
      BY <1>5, <2>5, <2>7
    <2>10. SubSeq(s, (o + Offset(k - 1)) + 1, o + Offset(k)) \in Seq(S)
      <3>1. /\ o + Offset(k - 1) \in Nat /\ o + Offset(k) \in Nat
            /\ o + Offset(k - 1) <= o + Offset(k) /\ o + Offset(k) <= Len(s)
        BY <1>1, <1>3, <2>2, <2>6
      <3>2. QED
        BY <3>1, PartOf
    <2>11. QED
      BY <2>8, <2>9, <2>10
  <1>12. new \in Seq(Seq(S)) /\ Len(new) = q
    <2>1. new = [k \in 1..q |-> new[k]]
      BY <1>10
    <2>2. \A k \in 1..q : new[k] \in Seq(S)
      BY <1>11
    <2>3. QED
      BY <1>8, <2>1, <2>2, FunctionIsSeq
  <1>13. /\ chunks' \in Seq(Seq(S)) /\ Len(chunks') = n + q
         /\ \A k \in 1..(n + q) : chunks'[k] = IF k <= n THEN chunks[k] ELSE new[k - n]
    <2>1. /\ chunks \o new \in Seq(Seq(S)) /\ Len(chunks \o new) = Len(chunks) + Len(new)
          /\ \A k \in 1..(Len(chunks) + Len(new)) :
                 (chunks \o new)[k] = IF k <= Len(chunks) THEN chunks[k] ELSE new[k - Len(chunks)]
      BY <1>12, ConcatProperties
    <2>2. Len(chunks) = n /\ Len(new) = q /\ chunks' = chunks \o new
      BY <1>0, <1>7, <1>12
    <2>3. QED
      BY <2>1, <2>2
  <1>14. \A k \in 1..(n + q) : chunks'[k] = SubSeq(s, Offset(k - 1) + 1, Offset(k))
    <2> SUFFICES ASSUME NEW k \in 1..(n + q)
                 PROVE  chunks'[k] = SubSeq(s, Offset(k - 1) + 1, Offset(k))
      OBVIOUS
    <2>1. CASE k <= n
      <3>1. chunks'[k] = chunks[k] /\ k \in 1..n
        BY <1>1, <1>13, <2>1
      <3>2. n = Len(chunks)
        BY <1>0
      <3>3. QED
        BY <3>1, <3>2 DEF Cut
    <2>2. CASE ~ (k <= n)
      <3>1. k - n \in 1..q /\ n + (k - n) = k /\ n + (k - n) - 1 = k - 1
        BY <1>1, <1>8, <2>2
      <3>2. new[k - n] = SubSeq(s, Offset(n + (k - n) - 1) + 1, Offset(n + (k - n)))
        BY <1>11, <3>1
      <3>3. QED
        BY <1>13, <2>2, <3>1, <3>2
    <2>3. QED
      BY <2>1, <2>2
  <1>15. /\ Offset(n + q) = o + full
         /\ o + full <= c + d /\ c + d < o + full + ChunkSize
    <2>1. Offset(n + q) = Offset(n) + Offset(q)
      BY <1>1, <1>8, Offsets
    <2>2. Offset(n + q) = o + full
      BY <1>0, <1>8, <2>1
    <2>3. /\ o \in Nat /\ c + d \in Nat /\ full \in Nat /\ ChunkSize \in Nat
          /\ full <= (c + d) - o /\ (c + d) - o < full + ChunkSize
      BY <1>1, <1>3, <1>6, <1>8, <1>9
    <2>4. o + full <= c + d /\ c + d < o + full + ChunkSize
      BY <2>3
    <2>5. QED
      BY <2>2, <2>4
  <1>16. buffer' = SubSeq(s, (o + full) + 1, c + d)
    <2>1. SubSeq(SubSeq(s, o + 1, c + d), full + 1, (c + d) - o)
              = SubSeq(s, (o + full) + 1, o + ((c + d) - o))
      <3>1. full <= (c + d) - o /\ (c + d) - o <= (c + d) - o /\ (c + d) - o \in Nat /\ o <= c + d
        BY <1>1, <1>3, <1>6, <1>8
      <3>2. QED
        BY <1>1, <1>3, <1>9, <3>1, PartOfPart
    <2>2. o + ((c + d) - o) = c + d /\ Len(data) = (c + d) - o
      BY <1>1, <1>3, <1>6
    <2>3. QED
      BY <1>5, <1>7, <2>1, <2>2
  <1>17. Cut(s, c + d, chunks', buffer')
    BY <1>0, <1>13, <1>14, <1>15, <1>16 DEF Cut
  <1>18. QED
    BY <1>3, <1>4, <1>13, <1>17

\* The 'end' handler completes them.
LEMMA EndCuts ==
    ASSUME NEW S, NEW s \in Seq(S), NEW c \in 0..Len(s), chunks \in Seq(Seq(S)),
           Cut(s, c, chunks, buffer), unread = SubSeq(s, c + 1, Len(s)), End
    PROVE  chunks' = ChunkFile(s)
  <1>0. PICK n, o : n = Len(chunks) /\ o = Offset(n)
    OBVIOUS
  <1>1. /\ n \in Nat /\ o \in Nat /\ c \in Nat /\ Len(s) \in Nat /\ c <= Len(s)
        /\ ChunkSize \in Nat /\ ChunkSize > 0
        /\ o <= c /\ c < o + ChunkSize
    <2>1. n \in Nat
      BY <1>0
    <2>2. QED
      BY <1>0, <2>1, Offsets, ChunkAssumption DEF Cut
  <1>2. c = Len(s)
    <2>1. Len(unread) = Len(s) - c
      BY <1>1, PartOf
    <2>2. Len(unread) = 0
      <3>1. unread = << >>
        BY DEF End
      <3>2. Len(<< >>) = 0
        OBVIOUS
      <3>3. QED
        BY <3>1, <3>2
    <2>3. QED
      BY <1>1, <2>1, <2>2
  <1>3. buffer \in Seq(S) /\ Len(buffer) = c - o
    <2>1. buffer = SubSeq(s, o + 1, c)
      BY <1>0 DEF Cut
    <2>2. SubSeq(s, o + 1, c) \in Seq(S) /\ Len(SubSeq(s, o + 1, c)) = c - o
      BY <1>1, PartOf
    <2>3. QED
      BY <2>1, <2>2
  <1>4. \A k \in 1..n : /\ chunks[k] = SubSeq(s, Offset(k - 1) + 1, Offset(k))
                        /\ Limit(s, k) = Offset(k)
    <2> SUFFICES ASSUME NEW k \in 1..n
                 PROVE  /\ chunks[k] = SubSeq(s, Offset(k - 1) + 1, Offset(k))
                        /\ Limit(s, k) = Offset(k)
      OBVIOUS
    <2>1. k \in Nat /\ k <= n
      BY <1>1
    <2>2. Offset(k) \in Nat /\ Offset(k) <= o
      BY <1>0, <1>1, <2>1, Offsets
    <2>3. QED
      BY <1>0, <1>1, <1>2, <2>2 DEF Cut, Limit
  <1>5. CASE buffer = << >>
    <2>1. c = o
      BY <1>1, <1>3, <1>5
    <2>2. ChunkFile(s) = [k \in 1..n |-> SubSeq(s, Offset(k - 1) + 1, Limit(s, k))]
      <3>1. Len(s) <= Offset(n) /\ Offset(n) < Len(s) + ChunkSize
        <4>1. Offset(n) = Len(s)
          BY <1>0, <1>2, <2>1
        <4>2. QED
          BY <1>1, <4>1
      <3>2. QED
        BY <1>1, <3>1, FileOfFullChunks
    <2>3. chunks' = chunks
      BY <1>5, ConcatEmptySeq DEF End, Rest
    <2>4. chunks = [k \in 1..n |-> chunks[k]]
      BY <1>0, <1>1
    <2>5. QED
      BY <1>4, <2>2, <2>3, <2>4
  <1>6. CASE buffer # << >>
    <2>1. o < c
      BY <1>1, <1>3, <1>6
    <2>2. Offset(n + 1) = o + ChunkSize /\ n + 1 \in Nat
      BY <1>0, <1>1, Offsets
    <2>3. ChunkFile(s) = [k \in 1..(n + 1) |-> SubSeq(s, Offset(k - 1) + 1, Limit(s, k))]
      BY <1>1, <1>2, <2>1, <2>2, FileOfFullChunks
    <2>4. chunks' = chunks \o <<buffer>>
      BY <1>6 DEF End, Rest
    <2>5. /\ chunks' \in Seq(Seq(S)) /\ Len(chunks') = n + 1
          /\ \A k \in 1..(n + 1) : chunks'[k] = IF k <= n THEN chunks[k] ELSE buffer
      <3>1. <<buffer>> \in Seq(Seq(S)) /\ Len(<<buffer>>) = 1 /\ <<buffer>>[1] = buffer
        BY <1>3
      <3>2. \A k \in 1..(n + 1) : ~ (k <= n) => k - n = 1
        BY <1>1
      <3>3. QED
        BY <1>0, <2>4, <3>1, <3>2, ConcatProperties
    <2>6. Limit(s, n + 1) = c /\ (n + 1) - 1 = n
      BY <1>1, <1>2, <2>2 DEF Limit
    <2>7. \A k \in 1..(n + 1) : chunks'[k] = SubSeq(s, Offset(k - 1) + 1, Limit(s, k))
      <3> SUFFICES ASSUME NEW k \in 1..(n + 1)
                   PROVE  chunks'[k] = SubSeq(s, Offset(k - 1) + 1, Limit(s, k))
        OBVIOUS
      <3>1. CASE k <= n
        <4>1. k \in 1..n
          BY <1>1, <3>1
        <4>2. QED
          BY <1>4, <2>5, <3>1, <4>1
      <3>2. CASE ~ (k <= n)
        <4>1. k = n + 1
          BY <1>1, <3>2
        <4>2. buffer = SubSeq(s, Offset(n) + 1, c)
          BY <1>0 DEF Cut
        <4>3. QED
          BY <2>5, <2>6, <3>2, <4>1, <4>2
      <3>3. QED
        BY <3>1, <3>2
    <2>8. chunks' = [k \in 1..(n + 1) |-> chunks'[k]]
      BY <1>1, <2>5
    <2>9. QED
      BY <2>3, <2>7, <2>8
  <1>7. QED
    BY <1>5, <1>6

-----------------------------------------------------------------------------
(* The chunks of a file, put together *)

\* A set of numbers has a least one.
LEMMA LeastOf ==
    ASSUME NEW T, T \subseteq Nat, T # {}
    PROVE  \E i \in T : \A j \in T : i <= j
  <1>1. PICK i \in T : \A j \in T : ~ (<<j, i>> \in OpToRel(<, Nat))
    BY NatLessThanWellFounded, WFMin
  <1>2. \A j \in T : ~ (j < i)
    BY <1>1 DEF OpToRel
  <1>3. QED
    BY <1>2

\* If w has what the first parts are together, for each number of them, the
\* last of w is what FlattenSeq returns: from no part on can they differ.
LEMMA FlattenSteps ==
    ASSUME NEW parts, NEW n \in Nat \ {0}, Len(parts) = n, NEW w,
           \A i \in 1..n : w[i] = IF i = 1 THEN parts[i] ELSE w[i - 1] \o parts[i]
    PROVE  FlattenSeq(parts) = w[n]
  <1> DEFINE Step(f) == [i \in 1..n |-> IF i = 1 THEN parts[i] ELSE f[i - 1] \o parts[i]]
             F == CHOOSE f : f = Step(f)
             v == [i \in 1..n |-> w[i]]
  <1>1. v = Step(v)
    <2>1. \A i \in 1..n : i = 1 \/ i - 1 \in 1..n
      OBVIOUS
    <2>2. \A i \in 1..n : v[i] = IF i = 1 THEN parts[i] ELSE v[i - 1] \o parts[i]
      BY <2>1
    <2>3. QED
      BY <2>2
  <1>2. F = Step(F)
    <2> HIDE DEF v, Step
    <2>1. QED
      BY <1>1
  <1>3. FlattenSeq(parts) = F[n]
    BY DEF FlattenSeq
  <1> HIDE DEF F
  <1>4. \A i \in 1..n : F[i] = IF i = 1 THEN parts[i] ELSE F[i - 1] \o parts[i]
    BY <1>2
  <1>5. ASSUME {i \in 1..n : F[i] # w[i]} # {} PROVE FALSE
    <2> DEFINE T == {i \in 1..n : F[i] # w[i]}
    <2>1. T \subseteq Nat
      OBVIOUS
    <2>2. PICK i \in T : \A j \in T : i <= j
      BY <1>5, <2>1, LeastOf
    <2>3. i \in 1..n /\ F[i] # w[i]
      BY <2>2
    <2>4. CASE i = 1
      BY <1>4, <2>3, <2>4
    <2>5. CASE i # 1
      <3>1. i - 1 \in 1..n /\ ~ (i <= i - 1)
        BY <2>3, <2>5
      <3>2. F[i - 1] = w[i - 1]
        BY <2>2, <3>1
      <3>3. QED
        BY <1>4, <2>3, <2>5, <3>2
    <2>6. QED
      BY <2>4, <2>5
  <1>6. F[n] = w[n]
    BY <1>5
  <1>7. QED
    BY <1>3, <1>6

\* The chunks that a file is cut into are together the file.
LEMMA ChunksMakeTheFile ==
    ASSUME NEW S, NEW s \in Seq(S)
    PROVE  FlattenSeq(ChunkFile(s)) = s
  <1>1. Len(s) \in Nat /\ ChunkSize \in Nat /\ ChunkSize > 0
    BY ChunkAssumption
  <1>2. PICK n \in Nat :
            /\ ChunkFile(s) = [k \in 1..n |-> SubSeq(s, Offset(k - 1) + 1, Limit(s, k))]
            /\ Len(s) <= Offset(n)
            /\ \A k \in 1..n : Offset(k - 1) < Len(s)
    BY <1>1, FileParts
  <1>3. ASSUME NEW k \in 1..n
        PROVE  /\ Offset(k - 1) \in Nat /\ Offset(k) \in Nat /\ Limit(s, k) \in Nat
               /\ Offset(k - 1) <= Limit(s, k) /\ Limit(s, k) <= Len(s)
    <2>1. k - 1 \in Nat /\ k \in Nat /\ k - 1 <= k
      BY <1>2
    <2>2. Offset(k - 1) \in Nat /\ Offset(k) \in Nat /\ Offset(k - 1) <= Offset(k)
      BY <2>1, Offsets
    <2>3. Offset(k - 1) < Len(s)
      BY <1>2
    <2>4. QED
      BY <1>1, <2>2, <2>3 DEF Limit
  <1>4. CASE n = 0
    <2>1. Len(s) = 0
      BY <1>1, <1>2, <1>4, Offsets
    <2>2. s = << >>
      BY <2>1
    <2>3. PICK parts : parts = ChunkFile(s)
      OBVIOUS
    <2>4. parts \in Seq(S) /\ Len(parts) = 0
      <3>1. \A k \in 1..0 : parts[k] \in S
        OBVIOUS
      <3>2. parts = [k \in 1..0 |-> parts[k]]
        BY <1>2, <1>4, <2>3
      <3>3. QED
        BY <3>1, <3>2, FunctionIsSeq
    <2>5. parts = << >>
      BY <2>4
    <2>6. FlattenSeq(parts) = parts
      BY <2>4 DEF FlattenSeq
    <2>7. QED
      BY <2>2, <2>3, <2>5, <2>6
  <1>5. CASE n # 0
    <2> DEFINE w == [i \in 1..n |-> SubSeq(s, 0 + 1, Limit(s, i))]
    <2>1. PICK parts : parts = ChunkFile(s)
      OBVIOUS
    <2>2. \A k \in 1..n : parts[k] = SubSeq(s, Offset(k - 1) + 1, Limit(s, k))
      BY <1>2, <2>1
    <2>3. Len(parts) = n
      BY <1>2, <2>1
    <2>4. \A i \in 1..n : w[i] = IF i = 1 THEN parts[i] ELSE w[i - 1] \o parts[i]
      <3> SUFFICES ASSUME NEW i \in 1..n
                   PROVE  w[i] = IF i = 1 THEN parts[i] ELSE w[i - 1] \o parts[i]
        OBVIOUS
      <3>1. CASE i = 1
        <4>1. Offset(i - 1) = 0
          BY <3>1, Offsets
        <4>2. QED
          BY <2>2, <3>1, <4>1
      <3>2. CASE i # 1
        <4>1. i - 1 \in 1..n
          BY <1>2, <3>2
        <4>2. Limit(s, i - 1) = Offset(i - 1)
          BY <1>2 DEF Limit
        <4>3. w[i - 1] = SubSeq(s, 0 + 1, Offset(i - 1))
          BY <4>1, <4>2
        <4>4. SubSeq(s, 0 + 1, Offset(i - 1)) \o SubSeq(s, Offset(i - 1) + 1, Limit(s, i))
                  = SubSeq(s, 0 + 1, Limit(s, i))
          <5>1. PICK z, b, c : z = 0 /\ b = Offset(i - 1) /\ c = Limit(s, i)
            OBVIOUS
          <5>2. z \in Nat /\ b \in Nat /\ c \in Nat /\ z <= b /\ b <= c /\ c <= Len(s)
            BY <1>3, <5>1
          <5>3. SubSeq(s, z + 1, b) \o SubSeq(s, b + 1, c) = SubSeq(s, z + 1, c)
            BY <5>2, PartsJoin
          <5>4. QED
            BY <5>1, <5>3
        <4>5. QED
          BY <2>2, <3>2, <4>3, <4>4
      <3>3. QED
        BY <3>1, <3>2
    <2>5. w[n] = s
      <3>1. n \in 1..n
        BY <1>5
      <3>2. Limit(s, n) = Len(s)
        BY <1>1, <1>2, <1>3, <3>1 DEF Limit
      <3>3. w[n] = SubSeq(s, 0 + 1, Len(s))
        BY <3>1, <3>2
      <3>4. /\ SubSeq(s, 0 + 1, Len(s)) \in Seq(S) /\ Len(SubSeq(s, 0 + 1, Len(s))) = Len(s) - 0
            /\ \A i \in 1..(Len(s) - 0) : SubSeq(s, 0 + 1, Len(s))[i] = s[0 + i]
        <4>1. PICK z, b : z = 0 /\ b = Len(s)
          OBVIOUS
        <4>2. z \in Nat /\ b \in Nat /\ z <= b /\ b <= Len(s)
          BY <1>1, <4>1
        <4>3. /\ SubSeq(s, z + 1, b) \in Seq(S) /\ Len(SubSeq(s, z + 1, b)) = b - z
              /\ \A i \in 1..(b - z) : SubSeq(s, z + 1, b)[i] = s[z + i]
          BY <4>2, PartOf
        <4>4. QED
          BY <4>1, <4>3
      <3>5. PICK r : r = SubSeq(s, 0 + 1, Len(s))
        OBVIOUS
      <3>6. r \in Seq(S) /\ Len(r) = Len(s) /\ \A i \in 1..Len(s) : r[i] = s[i]
        BY <1>1, <3>4, <3>5
      <3>7. r = s
        BY <3>6, SeqEqual
      <3>8. QED
        BY <3>3, <3>5, <3>7
    <2> HIDE DEF w
    <2>6. FlattenSeq(parts) = w[n]
      BY <1>5, <2>3, <2>4, FlattenSteps
    <2>7. QED
      BY <2>1, <2>5, <2>6
  <1>6. QED
    BY <1>4, <1>5

-----------------------------------------------------------------------------
(* The stream *)

\* While the file is read, the chunks are those of what was delivered; then
\* they are those of the file.
StreamInv ==
    /\ file \in {FileOf(n) : n \in 0..MaxLength}
    /\ unread \in Contents /\ buffer \in Contents
    /\ chunks \in Seq(Contents) /\ Len(chunks) \in 0..MaxChunks
    /\ phase = "reading" =>
           \E c \in 0..Len(file) :
               Cut(file, c, chunks, buffer) /\ unread = SubSeq(file, c + 1, Len(file))
    /\ phase \in {"encrypting", "decrypting", "done"} => chunks = ChunkFile(file)

-----------------------------------------------------------------------------
(* The operations *)

\* An encrypted chunk, with the key that opens it and its version.
StoredChunks == [data : Contents, key : Keys, version : Versions]

\* What an operation has stored is its chunk, and whoever awaits a key runs.
OpsTyped ==
    /\ op \in [Calls -> {"none", "running", "ok", "failed"}]
    /\ asOf \in [Calls -> Versions]
    /\ stored \in [Calls -> {Nothing} \cup StoredChunks]
    /\ \A i \in Calls : stored[i] # Nothing => i <= Len(chunks) /\ stored[i].data = chunks[i]
    /\ \A i \in Calls : fetch[i] # NoFetch => op[i] = "running" /\ i <= Len(chunks)

\* The waves have begun what is before next, and nothing else.
Progress ==
    /\ phase = "reading" => next = 1 /\ \A i \in Calls : op[i] = "none" /\ stored[i] = Nothing
    /\ phase = "encrypting" =>
           \A i \in Calls : /\ op[i] = "ok" <=> stored[i] # Nothing
                            /\ i < next /\ i <= Len(chunks) => op[i] # "none"
                            /\ next <= i => op[i] = "none"
    /\ phase \in {"decrypting", "done"} =>
           \A i \in Calls : i <= Len(chunks) => stored[i] # Nothing

\* The rest of the type invariant.
PhasesTyped ==
    /\ phase \in {"reading", "encrypting", "decrypting", "done", "failed"}
    /\ next \in Nat \ {0}
    /\ writer \in Services /\ reader \in Services
    /\ failures \in 0..MaxFailures

\* What holds of the operations, whatever the stream does.
OpsInv == KeyTypeOK /\ OpsTyped /\ Progress /\ PhasesTyped

\* Until the HSM restarts, an operation that has not stored its chunk has asked
\* for the current key, and was given one that was current since it began.
FreshInv ==
    epoch = 1 =>
        \A i \in Calls :
            /\ asOf[i] <= currentKeyVersion
            /\ stored[i] # Nothing => stored[i].version >= asOf[i]
            /\ stored[i] = Nothing /\ fetch[i].at = "asked" => fetch[i].version = Current
            /\ stored[i] = Nothing /\ fetch[i].at = "answered" /\ fetch[i].key # NoKey =>
                   fetch[i].version >= asOf[i]

\* Until the HSM restarts or a connection breaks, all keys are of its first
\* start, all versions in use are known to it, and nothing fails.
KnownInv ==
    epoch = 1 /\ failures = 0 =>
        /\ phase # "failed"
        /\ \A s \in Services, v \in Versions : masterKeyCache[s][v] \in {NoKey, 1}
        /\ \A i \in Calls :
               /\ op[i] # "failed"
               /\ stored[i] # Nothing => stored[i].key = 1 /\ stored[i].version <= currentKeyVersion
               /\ fetch[i].at = "asked" => fetch[i].version <= currentKeyVersion
               /\ fetch[i].at = "answered" =>
                      fetch[i].key = 1 /\ fetch[i].version <= currentKeyVersion

\* Nothing is assembled before the end, and then the file.
AssembledInv == assembled = IF phase = "done" THEN file ELSE << >>

-----------------------------------------------------------------------------
(* How many chunks there are *)

\* The calls are numbered, and there is at least one.
LEMMA Counts == MaxChunks \in Nat \ {0} /\ MaxLength \in Nat /\ Calls \subseteq Nat \ {0}
  <1>1. MaxLength \in Nat
    BY TransferAssumption
  <1>2. MaxLength \div ChunkSize \in Nat
    BY <1>1, FullQuotient
  <1>3. MaxChunks \in Nat \ {0}
    BY <1>2 DEF MaxChunks
  <1>4. QED
    BY <1>1, <1>3, TransferAssumption

\* The bound on the chunks leaves room for those of the longest file.
LEMMA RoomForChunks ==
    ASSUME NEW n \in Nat, Offset(n) < MaxLength + ChunkSize
    PROVE  n <= MaxChunks
  <1>1. PICK q : q = MaxLength \div ChunkSize
    OBVIOUS
  <1>2. MaxLength \in Nat /\ ChunkSize \in Nat
    BY TransferAssumption, ChunkAssumption
  <1>3. q \in Nat /\ MaxLength < Offset(q) + ChunkSize
    BY <1>1, <1>2, FullQuotient
  <1>4. Offset(q + 1) = Offset(q) + ChunkSize /\ Offset(q) \in Nat /\ Offset(n) \in Nat
    BY <1>3, Offsets
  <1>5. q + 1 < n => Offset(q + 1) + ChunkSize <= Offset(n)
    BY <1>3, Offsets
  <1>6. n <= q + 1
    BY <1>2, <1>3, <1>4, <1>5
  <1>7. QED
    BY <1>1, <1>6 DEF MaxChunks

\* The files are contents of the length they are named by.
LEMMA FilesTyped ==
    ASSUME NEW n \in 0..MaxLength
    PROVE  FileOf(n) \in Contents /\ Len(FileOf(n)) = n
  <1>1. n \in Nat /\ \A k \in 1..n : k \in 1..MaxLength
    BY Counts
  <1>2. PICK f : f = FileOf(n)
    OBVIOUS
  <1>3. f = [k \in 1..n |-> f[k]] /\ \A k \in 1..n : f[k] \in 1..MaxLength
    BY <1>1, <1>2 DEF FileOf
  <1>4. f \in Seq(1..MaxLength) /\ Len(f) = n
    BY <1>1, <1>3, FunctionIsSeq
  <1>5. QED
    BY <1>2, <1>4 DEF Contents

\* The chunks of a file are parts of it, as many as the bound allows.
LEMMA FileChunksTyped ==
    ASSUME NEW s \in Contents, Len(s) <= MaxLength
    PROVE  ChunkFile(s) \in Seq(Contents) /\ Len(ChunkFile(s)) \in 0..MaxChunks
  <1>1. s \in Seq(1..MaxLength) /\ Len(s) \in Nat /\ ChunkSize \in Nat /\ MaxLength \in Nat
    BY Counts, ChunkAssumption DEF Contents
  <1>2. PICK n \in Nat :
            /\ ChunkFile(s) = [k \in 1..n |-> SubSeq(s, Offset(k - 1) + 1, Limit(s, k))]
            /\ Offset(n) < Len(s) + ChunkSize
            /\ \A k \in 1..n : Offset(k - 1) < Len(s)
    BY <1>1, FileParts
  <1>3. ASSUME NEW k \in 1..n
        PROVE  SubSeq(s, Offset(k - 1) + 1, Limit(s, k)) \in Contents
    <2>1. k - 1 \in Nat /\ k \in Nat /\ k - 1 <= k
      BY <1>2
    <2>2. Offset(k - 1) \in Nat /\ Offset(k) \in Nat /\ Offset(k - 1) <= Offset(k)
      BY <2>1, Offsets
    <2>3. Offset(k - 1) < Len(s)
      BY <1>2
    <2>4. PICK a, b : a = Offset(k - 1) /\ b = Limit(s, k)
      OBVIOUS
    <2>5. a \in Nat /\ b \in Nat /\ a <= b /\ b <= Len(s)
      BY <1>1, <2>2, <2>3, <2>4 DEF Limit
    <2>6. SubSeq(s, a + 1, b) \in Seq(1..MaxLength)
      BY <1>1, <2>5, PartOf
    <2>7. QED
      BY <2>4, <2>6 DEF Contents
  <1>4. PICK f : f = ChunkFile(s)
    OBVIOUS
  <1>5. f = [k \in 1..n |-> f[k]] /\ \A k \in 1..n : f[k] \in Contents
    BY <1>2, <1>3, <1>4
  <1>6. f \in Seq(Contents) /\ Len(f) = n
    BY <1>5, FunctionIsSeq
  <1>7. Offset(n) < MaxLength + ChunkSize
    <2>1. Offset(n) \in Nat
      BY <1>2, Offsets
    <2>2. QED
      BY <1>1, <1>2, <2>1
  <1>8. n <= MaxChunks
    BY <1>2, <1>7, RoomForChunks
  <1>9. QED
    BY <1>2, <1>4, <1>6, <1>8, Counts

-----------------------------------------------------------------------------
(* The stream is cut into the chunks of the file *)

\* At first nothing was delivered: the cut after 0 units.
LEMMA StreamStart == ASSUME Init PROVE StreamInv
  <1>1. PICK n \in 0..MaxLength : file = FileOf(n)
    BY DEF Init
  <1>2. file \in Contents /\ Len(file) = n /\ n \in Nat
    BY <1>1, FilesTyped, Counts
  <1>3. unread = file /\ buffer = << >> /\ chunks = << >> /\ phase = "reading"
    BY DEF Init
  <1>4. << >> \in Contents /\ << >> \in Seq(Contents) /\ Len(<< >>) = 0
    BY DEF Contents
  <1>5. Cut(file, 0, chunks, buffer)
    <2>1. Offset(0) = 0 /\ ChunkSize \in Nat \ {0}
      BY Offsets, ChunkAssumption
    <2>2. SubSeq(file, 0 + 1, 0) = << >>
      BY <1>2, SubSeqEmpty DEF Contents
    <2>3. Len(chunks) = 0
      BY <1>3
    <2>4. \A k \in 1..Len(chunks) : chunks[k] = SubSeq(file, Offset(k - 1) + 1, Offset(k))
      BY <2>3
    <2>5. buffer = SubSeq(file, Offset(Len(chunks)) + 1, 0)
      BY <1>3, <2>1, <2>2, <2>3
    <2>6. Offset(Len(chunks)) <= 0 /\ 0 < Offset(Len(chunks)) + ChunkSize
      BY <2>1, <2>3
    <2>7. QED
      BY <2>4, <2>5, <2>6 DEF Cut
  <1>6. unread = SubSeq(file, 0 + 1, Len(file))
    <2>1. PICK z, b : z = 0 /\ b = Len(file)
      OBVIOUS
    <2>2. z \in Nat /\ b \in Nat /\ z <= b /\ b <= Len(file) /\ file \in Seq(1..MaxLength)
      BY <1>2, <2>1 DEF Contents
    <2>3. PICK r : r = SubSeq(file, z + 1, b)
      OBVIOUS
    <2>4. r \in Seq(1..MaxLength) /\ Len(r) = b - z /\ \A i \in 1..(b - z) : r[i] = file[z + i]
      BY <2>2, <2>3, PartOf
    <2>5. Len(r) = Len(file) /\ \A i \in 1..Len(r) : r[i] = file[i]
      BY <2>1, <2>2, <2>4
    <2>6. r = file
      BY <2>2, <2>4, <2>5, SeqEqual
    <2>7. QED
      BY <1>3, <2>1, <2>3, <2>6
  <1>7. 0 \in 0..Len(file)
    BY <1>2
  <1>8. Len(chunks) \in 0..MaxChunks
    BY <1>3, Counts
  <1>9. QED
    BY <1>1, <1>2, <1>3, <1>4, <1>5, <1>6, <1>7, <1>8 DEF StreamInv

\* ReadStream moves the cut on or completes it; no other action touches it.
LEMMA StreamStep == ASSUME StreamInv, [Next]_vars PROVE StreamInv'
  <1>1. PICK n \in 0..MaxLength : file = FileOf(n)
    BY DEF StreamInv
  <1>2. file \in Contents /\ Len(file) = n /\ n \in Nat /\ n <= MaxLength
    BY <1>1, FilesTyped, Counts
  <1>3. ASSUME UNCHANGED <<streamVars, file>>,
               phase' = "reading" => phase = "reading",
               phase' \in {"encrypting", "decrypting", "done"} =>
                   phase \in {"encrypting", "decrypting", "done"}
        PROVE  StreamInv'
    <2>1. unread' = unread /\ buffer' = buffer /\ chunks' = chunks /\ file' = file
      BY <1>3 DEF streamVars
    <2>2. QED
      BY <1>3, <2>1 DEF StreamInv, Cut
  <1>4. CASE ReadStream
    <2>0. file' = file /\ phase = "reading"
      BY <1>4 DEF ReadStream, fixed
    <2>1. PICK c \in 0..Len(file) :
              Cut(file, c, chunks, buffer) /\ unread = SubSeq(file, c + 1, Len(file))
      BY <2>0 DEF StreamInv
    <2>2. file \in Seq(1..MaxLength) /\ chunks \in Seq(Seq(1..MaxLength))
      BY <1>2 DEF StreamInv, Contents
    <2>3. ASSUME NEW d \in 1..Len(unread), Data(d), phase' = phase
          PROVE  StreamInv'
      <3>1. Len(unread) \in Nat
        BY DEF StreamInv, Contents
      <3>2. d \in Nat
        BY <3>1
      <3>3. /\ c + d <= Len(file)
            /\ unread' = SubSeq(file, (c + d) + 1, Len(file))
            /\ chunks' \in Seq(Seq(1..MaxLength))
            /\ Cut(file, c + d, chunks', buffer')
        BY <2>1, <2>2, <2>3, <3>2, DataCuts
      <3>4. PICK e : e = c + d
        OBVIOUS
      <3>5. e \in 0..Len(file) /\ e \in Nat /\ e <= n
        BY <1>2, <3>2, <3>3, <3>4
      <3>6. Cut(file, e, chunks', buffer') /\ unread' = SubSeq(file, e + 1, Len(file))
        BY <3>3, <3>4
      <3>7. unread' \in Contents /\ buffer' \in Contents
        <4>1. unread' \in Seq(1..MaxLength)
          <5>1. Len(file) \in Nat /\ e <= Len(file) /\ Len(file) <= Len(file)
            BY <1>2, <3>5
          <5>2. QED
            BY <2>2, <3>5, <3>6, <5>1, PartOf
        <4>2. buffer' \in Seq(1..MaxLength)
          <5>1. PICK a : a = Offset(Len(chunks'))
            OBVIOUS
          <5>2. Len(chunks') \in Nat
            BY <3>3
          <5>3. a \in Nat
            BY <5>1, <5>2, Offsets
          <5>4. a <= e /\ buffer' = SubSeq(file, a + 1, e) /\ e <= Len(file)
            BY <3>5, <3>6, <5>1 DEF Cut
          <5>5. QED
            BY <2>2, <3>5, <5>3, <5>4, PartOf
        <4>3. QED
          BY <4>1, <4>2 DEF Contents
      <3>8. Len(chunks') \in 0..MaxChunks
        <4>1. Len(chunks') \in Nat
          BY <3>3
        <4>2. Offset(Len(chunks')) \in Nat /\ Offset(Len(chunks')) <= e
          BY <3>6, <4>1, Offsets DEF Cut
        <4>3. Offset(Len(chunks')) < MaxLength + ChunkSize
          BY <1>2, <3>5, <4>2, Counts, ChunkAssumption
        <4>4. Len(chunks') <= MaxChunks
          BY <4>1, <4>3, RoomForChunks
        <4>5. QED
          BY <4>1, <4>4, Counts
      <3>9. phase' = "reading"
        BY <2>0, <2>3
      <3>10. QED
        BY <1>1, <2>0, <3>3, <3>5, <3>6, <3>7, <3>8, <3>9 DEF StreamInv, Contents
    <2>4. CASE End /\ phase' = "encrypting"
      <3>1. chunks' = ChunkFile(file)
        BY <2>1, <2>2, <2>4, EndCuts
      <3>2. chunks' \in Seq(Contents) /\ Len(chunks') \in 0..MaxChunks
        BY <1>2, <3>1, FileChunksTyped
      <3>3. unread' \in Contents /\ buffer' \in Contents
        BY <2>4 DEF End, StreamInv, Contents
      <3>4. QED
        BY <1>1, <2>0, <2>4, <3>1, <3>2, <3>3 DEF StreamInv
    <2>5. CASE UNCHANGED streamVars /\ phase' = "failed"
      BY <1>3, <2>0, <2>5
    <2>6. QED
      BY <1>4, <2>3, <2>4, <2>5 DEF ReadStream
  <1>5. CASE BeginEncryptions \/ BeginDecryptions
    BY <1>3, <1>5 DEF BeginEncryptions, BeginDecryptions, BeginWave, fixed
  <1>6. CASE FinishPhase \/ Reject
    BY <1>3, <1>6 DEF FinishPhase, Reject, fixed
  <1>7. ASSUME NEW i \in Calls, FinishOperation(i) \/ LoseConnection(i)
        PROVE  StreamInv'
    BY <1>3, <1>7 DEF FinishOperation, LoseConnection, fixed
  <1>8. CASE UNCHANGED <<streamVars, file, phase>>
    BY <1>3, <1>8
  <1>9. QED
    BY <1>4, <1>5, <1>6, <1>7, <1>8 DEF Next, vars, fixed

-----------------------------------------------------------------------------
(* Requests and chunks as records *)

\* The answer of the HSM to a request, and what a lost request looks like.
Answer(f, v, k) == [at |-> "answered", service |-> f.service, version |-> v, key |-> k]

\* What a request has by its state.
LEMMA FetchFields ==
    ASSUME NEW f \in Fetches
    PROVE  /\ f = NoFetch \/ f.at = "asked" \/ f.at = "answered"
           /\ f = NoFetch <=> f.at = "none"
           /\ f.at = "asked" => f.service \in Services /\ f.version \in Versions \cup {Current}
           /\ f.at = "answered" => /\ f.service \in Services /\ f.version \in Versions
                                   /\ f.key \in Keys \cup {NoKey}
  BY DEF Fetches, NoFetch

\* The requests and answers that the actions make.
LEMMA NewFetches ==
    /\ NoFetch \in Fetches /\ NoFetch.at = "none"
    /\ \A s \in Services, v \in Versions \cup {Current} :
           Ask(s, v) \in Fetches /\ Ask(s, v).at = "asked" /\ Ask(s, v).version = v
    /\ \A f \in Fetches, v \in Versions, k \in Keys \cup {NoKey} :
           f.at = "asked" =>
               /\ Answer(f, v, k) \in Fetches /\ Answer(f, v, k).at = "answered"
               /\ Answer(f, v, k).version = v /\ Answer(f, v, k).key = k
  BY DEF Fetches, NoFetch, Ask, Answer

\* Versions and keys are numbers, and no key is NoKey.
LEMMA KeysAre ==
    /\ Versions \subseteq Nat \ {0} /\ 1 \in Versions
    /\ Keys \subseteq Nat \ {0} /\ 1 \in Keys /\ NoKey \notin Keys /\ NoKey = 0
    /\ MaxVersion \in Nat /\ MaxEpochs \in Nat
  BY KeyBounds DEF Versions, Keys, NoKey

\* An encrypted chunk is something.
LEMMA ChunkFields ==
    ASSUME NEW d \in Contents, NEW k \in Keys, NEW v \in Versions
    PROVE  LET c == [data |-> d, key |-> k, version |-> v]
           IN  c \in StoredChunks /\ c # Nothing /\ c.data = d /\ c.key = k /\ c.version = v
  <1>1. k # NoKey
    BY KeysAre
  <1>2. [data |-> d, key |-> k, version |-> v].key = k /\ Nothing.key = NoKey
    BY DEF Nothing
  <1>3. QED
    BY <1>1, <1>2 DEF StoredChunks

\* What an operation has stored is its chunk, encrypted.
LEMMA StoredFields ==
    ASSUME OpsTyped, NEW i \in Calls, stored[i] # Nothing
    PROVE  /\ stored[i] \in StoredChunks /\ stored[i].data \in Contents
           /\ stored[i].key \in Keys /\ stored[i].version \in Versions
           /\ i \in 1..Len(chunks) /\ stored[i].data = chunks[i]
  <1>1. stored[i] \in StoredChunks
    BY DEF OpsTyped
  <1>2. i \in Nat \ {0} /\ i <= Len(chunks) /\ stored[i].data = chunks[i]
    BY Counts DEF OpsTyped
  <1>3. QED
    BY <1>1, <1>2 DEF StoredChunks

-----------------------------------------------------------------------------
(* The operations keep their invariant *)

\* At first no operation has begun.
LEMMA OpsStart == ASSUME Init PROVE OpsInv
  <1>1. KeyTypeOK
    <2>1. /\ epoch = 1 /\ currentKeyVersion = 1
          /\ masterKeyCache = [s \in Services |-> NothingCached]
          /\ fetch = [c \in Calls |-> NoFetch] /\ rotation = [s \in Services |-> "none"]
      BY DEF Init, KeyInit
    <2>2. NothingCached \in [Versions -> Keys \cup {NoKey}]
      BY DEF NothingCached
    <2>3. QED
      BY <2>1, <2>2, KeysAre, NewFetches DEF KeyTypeOK
  <1>2. /\ op = [i \in Calls |-> "none"] /\ asOf = [i \in Calls |-> 1]
        /\ stored = [i \in Calls |-> Nothing] /\ fetch = [i \in Calls |-> NoFetch]
        /\ phase = "reading" /\ next = 1 /\ writer \in Services /\ reader \in Services
        /\ failures = 0
    BY DEF Init, KeyInit
  <1>3. OpsTyped
    BY <1>2, KeysAre DEF OpsTyped
  <1>4. Progress
    BY <1>2 DEF Progress
  <1>5. PhasesTyped
    BY <1>2, TransferAssumption DEF PhasesTyped
  <1>6. QED
    BY <1>1, <1>3, <1>4, <1>5 DEF OpsInv

\* ReadStream: operations begin only when it has ended.
LEMMA ReadKeepsOps == ASSUME StreamInv, OpsInv, ReadStream PROVE OpsInv'
  <1>1. /\ phase = "reading" /\ phase' \in {"reading", "encrypting", "failed"}
        /\ UNCHANGED <<keyVars, fixed, next, op, asOf, stored>>
        /\ failures' \in 0..MaxFailures
    <2>1. MaxFailures \in Nat /\ failures \in 0..MaxFailures
      BY TransferAssumption DEF OpsInv, PhasesTyped
    <2>2. QED
      BY <2>1 DEF ReadStream, Failure
  <1>2. next = 1 /\ \A i \in Calls : op[i] = "none" /\ stored[i] = Nothing
    BY <1>1 DEF OpsInv, Progress
  <1>3. \A i \in Calls : fetch[i] = NoFetch
    BY <1>2 DEF OpsInv, OpsTyped
  <1>4. KeyTypeOK'
    BY <1>1 DEF OpsInv, KeyTypeOK, keyVars
  <1>5. OpsTyped'
    BY <1>1, <1>2, <1>3 DEF OpsInv, OpsTyped, keyVars, StoredChunks
  <1>6. Progress'
    <2>1. \A i \in Calls : i \in Nat /\ ~ (i < 1)
      BY Counts
    <2>2. QED
      BY <1>1, <1>2, <2>1 DEF Progress
  <1>7. PhasesTyped'
    BY <1>1 DEF OpsInv, PhasesTyped, fixed
  <1>8. QED
    BY <1>4, <1>5, <1>6, <1>7 DEF OpsInv

\* What every wave has in common.
LEMMA BeginWaveIs ==
    ASSUME StreamInv, OpsInv, BeginWave, UNCHANGED streamVars
    PROVE  /\ chunks' = chunks /\ stored' = stored /\ phase' = phase
           /\ next' = next + Concurrency /\ next' \in Nat \ {0}
           /\ \A i \in Calls : fetch[i] = NoFetch
           /\ \A i \in Calls : i \in Wave <=> next <= i /\ i < next' /\ i <= Len(chunks)
           /\ PhasesTyped'
  <1>1. Concurrency \in Nat \ {0} /\ next \in Nat \ {0} /\ Len(chunks) \in Nat
    BY TransferAssumption DEF OpsInv, PhasesTyped, StreamInv
  <1>2. /\ chunks' = chunks /\ stored' = stored /\ phase' = phase
        /\ next' = next + Concurrency /\ UNCHANGED <<fixed, failures>>
    BY DEF BeginWave, streamVars
  <1>3. next' \in Nat \ {0}
    BY <1>1, <1>2
  <1>4. \A i \in Calls : fetch[i] = NoFetch
    BY DEF BeginWave, Settled, OpsInv, OpsTyped
  <1>5. ASSUME NEW i \in Calls
        PROVE  i \in Wave <=> next <= i /\ i < next' /\ i <= Len(chunks)
    <2>1. i \in Nat \ {0}
      BY Counts
    <2>2. QED
      BY <1>1, <1>2, <2>1 DEF Wave
  <1>6. PhasesTyped'
    BY <1>2, <1>3 DEF OpsInv, PhasesTyped, fixed
  <1>7. QED
    BY <1>2, <1>3, <1>4, <1>5, <1>6

\* A wave of encryptions begins what has not begun and asks for the current key.
LEMMA EncryptionsKeepOps == ASSUME StreamInv, OpsInv, BeginEncryptions PROVE OpsInv'
  <1>1. /\ chunks' = chunks /\ stored' = stored /\ phase' = phase /\ phase = "encrypting"
        /\ next' = next + Concurrency /\ next' \in Nat \ {0}
        /\ \A i \in Calls : fetch[i] = NoFetch
        /\ \A i \in Calls : i \in Wave <=> next <= i /\ i < next' /\ i <= Len(chunks)
        /\ PhasesTyped'
    BY BeginWaveIs DEF BeginEncryptions, BeginWave
  <1>2. /\ op' = [i \in Calls |-> IF i \in Wave THEN "running" ELSE op[i]]
        /\ asOf' = [i \in Calls |-> IF i \in Wave THEN currentKeyVersion ELSE asOf[i]]
        /\ fetch' = [i \in Calls |-> IF i \in Wave THEN Ask(writer, Current) ELSE fetch[i]]
        /\ UNCHANGED <<epoch, currentKeyVersion, masterKeyCache, rotation>>
    BY DEF BeginEncryptions, BeginWave, KeyToEncrypt
  <1>3. Ask(writer, Current) \in Fetches
    BY NewFetches DEF OpsInv, PhasesTyped
  <1>4. KeyTypeOK'
    BY <1>2, <1>3 DEF OpsInv, KeyTypeOK
  <1>5. \A i \in Calls : i \in Wave => op[i] = "none" /\ stored[i] = Nothing
    BY <1>1 DEF OpsInv, Progress
  <1>6. OpsTyped'
    BY <1>1, <1>2 DEF OpsInv, OpsTyped, KeyTypeOK, StoredChunks
  <1>7. Progress'
    <2>1. ASSUME NEW i \in Calls
          PROVE  /\ op'[i] = "ok" <=> stored[i] # Nothing
                 /\ i < next' /\ i <= Len(chunks) => op'[i] # "none"
                 /\ next' <= i => op'[i] = "none"
      <3>1. /\ op[i] = "ok" <=> stored[i] # Nothing
            /\ i < next /\ i <= Len(chunks) => op[i] # "none"
            /\ next <= i => op[i] = "none"
        BY <1>1 DEF OpsInv, Progress
      <3>2. op'[i] = IF i \in Wave THEN "running" ELSE op[i]
        BY <1>2
      <3>3. i \in Nat /\ next \in Nat /\ Len(chunks) \in Nat /\ next <= next'
        BY <1>1, Counts, TransferAssumption DEF OpsInv, PhasesTyped, StreamInv
      <3>4. QED
        BY <1>1, <3>1, <3>2, <3>3
    <2>2. QED
      BY <1>1, <2>1 DEF Progress
  <1>8. QED
    BY <1>1, <1>4, <1>6, <1>7 DEF OpsInv

\* A wave of decryptions uses what is cached and asks for the rest.
LEMMA DecryptionsKeepOps == ASSUME StreamInv, OpsInv, BeginDecryptions PROVE OpsInv'
  <1> DEFINE cached(i) == masterKeyCache[reader][stored[i].version]
  <1>1. /\ chunks' = chunks /\ stored' = stored /\ phase' = phase /\ phase = "decrypting"
        /\ \A i \in Calls : fetch[i] = NoFetch
        /\ \A i \in Calls : i \in Wave <=> next <= i /\ i < next' /\ i <= Len(chunks)
        /\ PhasesTyped'
    BY BeginWaveIs DEF BeginDecryptions, BeginWave
  <1>2. /\ op' = [i \in Calls |-> IF i \notin Wave THEN op[i]
                                 ELSE IF cached(i) = NoKey THEN "running"
                                 ELSE Outcome(i, cached(i))]
        /\ fetch' = [i \in Calls |-> IF i \in Wave /\ cached(i) = NoKey
                                    THEN Ask(reader, stored[i].version) ELSE fetch[i]]
        /\ UNCHANGED <<epoch, currentKeyVersion, masterKeyCache, rotation, asOf>>
    BY DEF BeginDecryptions, BeginWave
  <1> HIDE DEF cached
  <1>3. \A i \in Calls : i \in Wave => stored[i] # Nothing /\ stored[i].version \in Versions
    BY <1>1, StoredFields DEF OpsInv, Progress
  <1>4. \A i \in Calls : i \in Wave => Ask(reader, stored[i].version) \in Fetches
    BY <1>3, NewFetches DEF OpsInv, PhasesTyped
  <1>5. KeyTypeOK'
    BY <1>2, <1>4 DEF OpsInv, KeyTypeOK
  <1>6. \A i \in Calls : Outcome(i, cached(i)) \in {"ok", "failed"}
    BY DEF Outcome
  <1>7. op' \in [Calls -> {"none", "running", "ok", "failed"}]
    BY <1>2, <1>6 DEF OpsInv, OpsTyped
  <1>8. \A i \in Calls : fetch'[i] # NoFetch => op'[i] = "running" /\ i <= Len(chunks)
    BY <1>1, <1>2
  <1>9. OpsTyped'
    BY <1>1, <1>2, <1>7, <1>8 DEF OpsInv, OpsTyped, StoredChunks
  <1>10. Progress'
    BY <1>1 DEF OpsInv, Progress
  <1>11. QED
    BY <1>1, <1>5, <1>9, <1>10 DEF OpsInv

\* An operation that was given its key ends.
LEMMA FinishKeepsOps ==
    ASSUME StreamInv, OpsInv, NEW i \in Calls, FinishOperation(i) PROVE OpsInv'
  <1> DEFINE key == fetch[i].key
             chunk == [data |-> chunks[i], key |-> key, version |-> fetch[i].version]
  <1>1. /\ fetch[i].at = "answered" /\ fetch[i] \in Fetches /\ fetch[i] # NoFetch
        /\ fetch[i].service \in Services /\ fetch[i].version \in Versions
        /\ key \in Keys \cup {NoKey}
    <2>1. fetch[i] \in Fetches /\ fetch[i].at = "answered"
      BY DEF OpsInv, KeyTypeOK, FinishOperation, ReceiveKey
    <2>2. QED
      BY <2>1, FetchFields
  <1>2. op[i] = "running" /\ i <= Len(chunks)
    BY <1>1 DEF OpsInv, OpsTyped
  <1>3. /\ chunks' = chunks /\ phase' = phase /\ next' = next /\ asOf' = asOf
        /\ failures' = failures /\ writer' = writer /\ reader' = reader
        /\ epoch' = epoch /\ currentKeyVersion' = currentKeyVersion /\ rotation' = rotation
        /\ fetch' = [fetch EXCEPT ![i] = NoFetch]
    BY DEF FinishOperation, ReceiveKey, streamVars, fixed
  <1>4. chunks[i] \in Contents
    BY <1>2, Counts DEF StreamInv
  <1>5. KeyTypeOK'
    <2>1. masterKeyCache' \in [Services -> [Versions -> Keys \cup {NoKey}]]
      <3>1. masterKeyCache \in [Services -> [Versions -> Keys \cup {NoKey}]]
        BY DEF OpsInv, KeyTypeOK
      <3>2. CASE key = NoKey
        BY <3>1, <3>2 DEF FinishOperation, ReceiveKey
      <3>3. CASE key # NoKey
        <4>1. masterKeyCache' = [masterKeyCache EXCEPT ![fetch[i].service][fetch[i].version] = key]
          BY <3>3 DEF FinishOperation, ReceiveKey
        <4>2. QED
          BY <1>1, <3>1, <4>1
      <3>4. QED
        BY <3>2, <3>3
    <2>2. fetch' \in [Calls -> Fetches]
      BY <1>3, NewFetches DEF OpsInv, KeyTypeOK
    <2>3. QED
      BY <1>3, <2>1, <2>2 DEF OpsInv, KeyTypeOK
  <1>6. key # NoKey => chunk \in StoredChunks /\ chunk # Nothing /\ chunk.data = chunks[i]
    BY <1>1, <1>4, ChunkFields
  <1>7. /\ op' \in [Calls -> {"none", "running", "ok", "failed"}]
        /\ stored' \in [Calls -> {Nothing} \cup StoredChunks]
        /\ \A j \in Calls : j # i => op'[j] = op[j] /\ stored'[j] = stored[j]
        /\ stored[i] = Nothing => /\ op'[i] = "ok" <=> stored'[i] # Nothing
                                  /\ op'[i] \in {"ok", "failed"}
                                  /\ stored'[i] # Nothing => stored'[i].data = chunks[i]
        /\ stored[i] # Nothing => stored'[i] = stored[i] /\ op'[i] \in {"ok", "failed"}
    <2>1. /\ op \in [Calls -> {"none", "running", "ok", "failed"}]
          /\ stored \in [Calls -> {Nothing} \cup StoredChunks]
      BY DEF OpsInv, OpsTyped
    <2> HIDE DEF key
    <2>2. CASE stored[i] = Nothing /\ key = NoKey
      <3>1. op' = [op EXCEPT ![i] = "failed"] /\ stored' = stored
        BY <2>2 DEF FinishOperation, key
      <3>2. QED
        BY <2>1, <2>2, <3>1
    <2>3. CASE stored[i] = Nothing /\ key # NoKey
      <3>1. op' = [op EXCEPT ![i] = "ok"] /\ stored' = [stored EXCEPT ![i] = chunk]
        BY <2>3 DEF FinishOperation, key
      <3> HIDE DEF chunk
      <3>2. QED
        BY <1>6, <2>1, <2>3, <3>1
    <2>4. CASE stored[i] # Nothing
      <3>1. op' = [op EXCEPT ![i] = Outcome(i, key)] /\ stored' = stored
        BY <2>4 DEF FinishOperation, key
      <3>2. Outcome(i, key) \in {"ok", "failed"}
        BY DEF Outcome
      <3>3. QED
        BY <2>1, <2>4, <3>1, <3>2
    <2>5. QED
      BY <2>2, <2>3, <2>4
  <1> HIDE DEF key, chunk
  <1>8. OpsTyped'
    <2>1. ASSUME NEW j \in Calls
          PROVE  /\ stored'[j] # Nothing => j <= Len(chunks') /\ stored'[j].data = chunks'[j]
                 /\ fetch'[j] # NoFetch => op'[j] = "running" /\ j <= Len(chunks')
      <3>1. /\ stored[j] # Nothing => j <= Len(chunks) /\ stored[j].data = chunks[j]
            /\ fetch[j] # NoFetch => op[j] = "running" /\ j <= Len(chunks)
            /\ fetch'[j] = IF j = i THEN NoFetch ELSE fetch[j]
        BY <1>3 DEF OpsInv, OpsTyped, KeyTypeOK
      <3>2. QED
        BY <1>2, <1>3, <1>7, <3>1
    <2>2. QED
      BY <1>3, <1>7, <2>1 DEF OpsInv, OpsTyped, StoredChunks
  <1>9. Progress'
    <2>1. CASE phase = "reading"
      BY <1>2, <2>1 DEF OpsInv, Progress
    <2>2. CASE phase = "encrypting"
      <3>1. stored[i] = Nothing
        BY <1>2, <2>2 DEF OpsInv, Progress
      <3>2. ~ (next <= i)
        BY <1>2, <2>2 DEF OpsInv, Progress
      <3>3. ASSUME NEW j \in Calls
            PROVE  /\ op'[j] = "ok" <=> stored'[j] # Nothing
                   /\ j < next /\ j <= Len(chunks) => op'[j] # "none"
                   /\ next <= j => op'[j] = "none"
        BY <1>7, <2>2, <3>1, <3>2 DEF OpsInv, Progress
      <3>4. QED
        BY <1>3, <2>2, <3>3 DEF Progress
    <2>3. CASE phase \in {"decrypting", "done"}
      <3>1. \A j \in Calls : j <= Len(chunks) => stored'[j] # Nothing
        BY <1>2, <1>7, <2>3 DEF OpsInv, Progress
      <3>2. QED
        BY <1>3, <2>3, <3>1 DEF Progress
    <2>4. CASE phase = "failed"
      BY <1>3, <2>4 DEF Progress
    <2>5. QED
      BY <2>1, <2>2, <2>3, <2>4 DEF OpsInv, PhasesTyped
  <1>10. PhasesTyped'
    BY <1>3 DEF OpsInv, PhasesTyped
  <1>11. QED
    BY <1>5, <1>8, <1>9, <1>10 DEF OpsInv

\* Decryption begins when every chunk is stored; a failure ends all.
LEMMA PhaseKeepsOps == ASSUME StreamInv, OpsInv, FinishPhase \/ Reject PROVE OpsInv'
  <1>1. /\ UNCHANGED <<keyVars, op, asOf, stored, failures>>
        /\ chunks' = chunks /\ writer' = writer /\ reader' = reader
    BY DEF FinishPhase, Reject, streamVars, fixed
  <1>2. KeyTypeOK'
    BY <1>1 DEF OpsInv, KeyTypeOK, keyVars
  <1>3. OpsTyped'
    BY <1>1 DEF OpsInv, OpsTyped, keyVars, StoredChunks
  <1>4. Progress' /\ PhasesTyped'
    <2>1. CASE Reject
      BY <1>1, <2>1 DEF Reject, OpsInv, Progress, PhasesTyped
    <2>2. CASE FinishPhase /\ phase = "decrypting"
      BY <1>1, <2>2 DEF FinishPhase, OpsInv, Progress, PhasesTyped
    <2>3. CASE FinishPhase /\ phase = "encrypting"
      <3>1. phase' = "decrypting" /\ next' = 1 /\ Settled /\ next > Len(chunks)
        BY <2>3 DEF FinishPhase
      <3>2. ASSUME NEW i \in Calls, i <= Len(chunks)
            PROVE  stored[i] # Nothing
        <4>1. i < next
          BY <3>1, <3>2, Counts DEF OpsInv, PhasesTyped, StreamInv
        <4>2. op[i] # "none" /\ op[i] \in {"none", "ok"}
          BY <2>3, <3>1, <3>2, <4>1 DEF OpsInv, Progress, Settled
        <4>3. QED
          BY <2>3, <4>2 DEF OpsInv, Progress
      <3>3. QED
        BY <1>1, <3>1, <3>2 DEF OpsInv, Progress, PhasesTyped
    <2>4. QED
      BY <2>1, <2>2, <2>3 DEF FinishPhase
  <1>5. QED
    BY <1>2, <1>3, <1>4 DEF OpsInv

\* A request that is answered, with or without a key, still runs.
LEMMA AnswersKeepOps ==
    ASSUME OpsInv, fetch' \in [Calls -> Fetches],
           \A i \in Calls : fetch'[i] # NoFetch => fetch[i] # NoFetch,
           UNCHANGED <<streamVars, fixed, phase, next, op, asOf, stored>>,
           epoch' \in Keys, currentKeyVersion' \in Versions,
           masterKeyCache' \in [Services -> [Versions -> Keys \cup {NoKey}]],
           rotation' \in [Services -> {"none", "asked", "answered"}],
           failures' \in 0..MaxFailures
    PROVE  OpsInv'
  <1>1. chunks' = chunks /\ writer' = writer /\ reader' = reader
    BY DEF streamVars, fixed
  <1>2. KeyTypeOK'
    BY DEF KeyTypeOK
  <1>3. OpsTyped'
    BY <1>1 DEF OpsInv, OpsTyped, StoredChunks
  <1>4. Progress'
    BY <1>1 DEF OpsInv, Progress
  <1>5. PhasesTyped'
    BY <1>1 DEF OpsInv, PhasesTyped
  <1>6. QED
    BY <1>2, <1>3, <1>4, <1>5 DEF OpsInv

\* LoseConnection is one of them,
LEMMA LossKeepsOps ==
    ASSUME StreamInv, OpsInv, NEW i \in Calls, LoseConnection(i) PROVE OpsInv'
  <1>1. fetch[i] \in Fetches /\ fetch[i].at = "asked"
    BY DEF OpsInv, KeyTypeOK, LoseConnection
  <1>2. fetch' = [fetch EXCEPT ![i] = Answer(fetch[i], 1, NoKey)]
    BY DEF LoseConnection, Answer, OpsInv, KeyTypeOK
  <1>3. Answer(fetch[i], 1, NoKey) \in Fetches /\ fetch[i] # NoFetch
    BY <1>1, NewFetches, KeysAre
  <1>4. fetch \in [Calls -> Fetches]
    BY DEF OpsInv, KeyTypeOK
  <1>5. /\ fetch' \in [Calls -> Fetches]
        /\ \A j \in Calls : fetch'[j] # NoFetch => fetch[j] # NoFetch
    BY <1>2, <1>3, <1>4
  <1>6. failures' \in 0..MaxFailures
    BY TransferAssumption DEF LoseConnection, Failure, OpsInv, PhasesTyped
  <1>7. UNCHANGED <<streamVars, fixed, phase, next, op, asOf, stored, epoch,
                    currentKeyVersion, masterKeyCache, rotation>>
    BY DEF LoseConnection
  <1>8. QED
    BY <1>5, <1>6, <1>7, AnswersKeepOps DEF OpsInv, KeyTypeOK

\* the answer of the HSM is another,
LEMMA AnswerKeepsOps ==
    ASSUME StreamInv, OpsInv, NEW i \in Calls, AnswerFetch(i),
           UNCHANGED <<streamVars, fixed, phase, next, op, asOf, stored, failures>>
    PROVE  OpsInv'
  <1>1. PICK v, k : /\ v = IF fetch[i].version = Current THEN currentKeyVersion
                           ELSE fetch[i].version
                    /\ k = IF HasKey(v) THEN epoch ELSE NoKey
    OBVIOUS
  <1>2. /\ fetch[i] \in Fetches /\ fetch[i].at = "asked"
        /\ fetch' = [fetch EXCEPT ![i] = Answer(fetch[i], v, k)]
    BY <1>1 DEF OpsInv, KeyTypeOK, AnswerFetch, Answer
  <1>3. fetch[i] # NoFetch /\ fetch[i].version \in Versions \cup {Current}
    BY <1>2, FetchFields, NewFetches
  <1>4. v \in Versions /\ k \in Keys \cup {NoKey}
    BY <1>1, <1>3 DEF OpsInv, KeyTypeOK
  <1>5. Answer(fetch[i], v, k) \in Fetches
    BY <1>2, <1>4, NewFetches
  <1>6. fetch \in [Calls -> Fetches]
    BY DEF OpsInv, KeyTypeOK
  <1>7. /\ fetch' \in [Calls -> Fetches]
        /\ \A j \in Calls : fetch'[j] # NoFetch => fetch[j] # NoFetch
    BY <1>2, <1>3, <1>5, <1>6
  <1>8. UNCHANGED <<epoch, currentKeyVersion, masterKeyCache, rotation>>
    BY DEF AnswerFetch
  <1>9. QED
    BY <1>7, <1>8, AnswersKeepOps DEF OpsInv, KeyTypeOK, PhasesTyped

\* and so are rotations and a restart, which answers all requests.
LEMMA KeyManagementKeepsOps ==
    ASSUME StreamInv, OpsInv, KeyManagement,
           UNCHANGED <<streamVars, fixed, phase, next, op, asOf, stored, failures>>
    PROVE  OpsInv'
  <1>1. KeyTypeOK /\ failures' \in 0..MaxFailures
    BY DEF OpsInv, PhasesTyped
  <1>2. ASSUME NEW s \in Services, RotateMasterKey(s) \/ AnswerRotation(s) \/ FinishRotation(s)
        PROVE  OpsInv'
    <2>1. fetch' = fetch /\ epoch' = epoch
      BY <1>2 DEF RotateMasterKey, AnswerRotation, FinishRotation
    <2>2. currentKeyVersion' \in Versions
      BY <1>1, <1>2, KeysAre
         DEF RotateMasterKey, AnswerRotation, FinishRotation, KeyTypeOK, Versions
    <2>3. NothingCached \in [Versions -> Keys \cup {NoKey}]
      BY DEF NothingCached
    <2>4. masterKeyCache' \in [Services -> [Versions -> Keys \cup {NoKey}]]
      BY <1>1, <1>2, <2>3 DEF RotateMasterKey, AnswerRotation, FinishRotation, KeyTypeOK
    <2>5. rotation' \in [Services -> {"none", "asked", "answered"}]
      BY <1>1, <1>2 DEF RotateMasterKey, AnswerRotation, FinishRotation, KeyTypeOK
    <2>6. QED
      BY <1>1, <2>1, <2>2, <2>4, <2>5, AnswersKeepOps DEF KeyTypeOK
  <1>3. CASE RestartHsm
    <2>1. /\ fetch' = [c \in Calls |-> IF fetch[c].at = "asked" THEN Answer(fetch[c], 1, NoKey)
                                       ELSE fetch[c]]
          /\ rotation' = [s \in Services |-> IF rotation[s] = "asked" THEN "none" ELSE rotation[s]]
          /\ epoch < MaxEpochs /\ epoch' = epoch + 1 /\ currentKeyVersion' = 1
          /\ masterKeyCache' = masterKeyCache
      BY <1>3 DEF RestartHsm, Answer
    <2>2. epoch' \in Keys /\ currentKeyVersion' \in Versions
      BY <1>1, <2>1, KeysAre DEF KeyTypeOK, Keys
    <2>3. \A c \in Calls : fetch[c] \in Fetches
      BY <1>1 DEF KeyTypeOK
    <2>4. \A c \in Calls : fetch[c].at = "asked" => Answer(fetch[c], 1, NoKey) \in Fetches
      BY <2>3, NewFetches, KeysAre
    <2>5. \A c \in Calls : fetch[c].at = "asked" => fetch[c] # NoFetch
      BY NewFetches
    <2>6. fetch' \in [Calls -> Fetches]
      BY <2>1, <2>3, <2>4
    <2>7. \A c \in Calls : fetch'[c] # NoFetch => fetch[c] # NoFetch
      BY <2>1, <2>5
    <2>8. rotation' \in [Services -> {"none", "asked", "answered"}]
      BY <1>1, <2>1 DEF KeyTypeOK
    <2>9. QED
      BY <1>1, <2>1, <2>2, <2>6, <2>7, <2>8, AnswersKeepOps DEF KeyTypeOK
  <1>4. QED
    BY <1>2, <1>3 DEF KeyManagement

\* Every step keeps the invariant of the operations.
LEMMA OpsStep == ASSUME StreamInv, OpsInv, [Next]_vars PROVE OpsInv'
  <1>1. CASE UNCHANGED vars
    BY <1>1 DEF vars, streamVars, keyVars, fixed, OpsInv, KeyTypeOK, OpsTyped, StoredChunks,
                Progress, PhasesTyped
  <1>2. CASE (KeyManagement \/ \E i \in Calls : AnswerFetch(i))
             /\ UNCHANGED <<streamVars, fixed, phase, next, op, asOf, stored, assembled, failures>>
    BY <1>2, KeyManagementKeepsOps, AnswerKeepsOps
  <1>3. QED
    BY <1>1, <1>2, ReadKeepsOps, EncryptionsKeepOps, DecryptionsKeepOps, PhaseKeepsOps,
       FinishKeepsOps, LossKeepsOps DEF Next

-----------------------------------------------------------------------------
(* What each action does to one operation *)

\* A finished rotation is never ignored.
LEMMA FreshStart == ASSUME Init PROVE FreshInv
  <1>1. /\ currentKeyVersion = 1 /\ asOf = [i \in Calls |-> 1]
        /\ stored = [i \in Calls |-> Nothing] /\ fetch = [i \in Calls |-> NoFetch]
    BY DEF Init, KeyInit
  <1>2. QED
    BY <1>1, NewFetches DEF FreshInv

\* The version that an encryption asks for is chosen by the HSM, after it began.
LEMMA FreshStep ==
    ASSUME StreamInv, OpsInv, FreshInv, [Next]_vars PROVE FreshInv'
  <1> SUFFICES ASSUME epoch' = 1, NEW i \in Calls
               PROVE  /\ asOf'[i] <= currentKeyVersion'
                      /\ stored'[i] # Nothing => stored'[i].version >= asOf'[i]
                      /\ stored'[i] = Nothing /\ fetch'[i].at = "asked" =>
                             fetch'[i].version = Current
                      /\ stored'[i] = Nothing /\ fetch'[i].at = "answered"
                             /\ fetch'[i].key # NoKey => fetch'[i].version >= asOf'[i]
    BY DEF FreshInv
  <1>0. /\ KeyTypeOK /\ fetch \in [Calls -> Fetches] /\ asOf[i] \in Versions
        /\ currentKeyVersion \in Nat /\ asOf[i] \in Nat /\ epoch \in Nat
    BY KeysAre DEF OpsInv, OpsTyped, KeyTypeOK
  <1>1. epoch' = epoch \/ RestartHsm
    BY DEF Next, vars, keyVars, ReadStream, BeginEncryptions, BeginDecryptions, BeginWave,
           FinishPhase, Reject, FinishOperation, ReceiveKey, LoseConnection, AnswerFetch,
           KeyManagement, RotateMasterKey, AnswerRotation, FinishRotation
  <1>2. ~ RestartHsm
    BY <1>0, KeysAre DEF RestartHsm, KeyTypeOK
  <1>3. /\ epoch = 1
        /\ asOf[i] <= currentKeyVersion
        /\ stored[i] # Nothing => stored[i].version >= asOf[i]
        /\ stored[i] = Nothing /\ fetch[i].at = "asked" => fetch[i].version = Current
        /\ stored[i] = Nothing /\ fetch[i].at = "answered" /\ fetch[i].key # NoKey =>
               fetch[i].version >= asOf[i]
    BY <1>1, <1>2 DEF FreshInv
  <1>4. CASE /\ asOf' = asOf /\ stored' = stored /\ fetch' = fetch
             /\ currentKeyVersion' \in {currentKeyVersion, currentKeyVersion + 1}
    BY <1>0, <1>3, <1>4
  <1>5. CASE ReadStream \/ FinishPhase \/ Reject \/ UNCHANGED vars
    BY <1>4, <1>5 DEF ReadStream, FinishPhase, Reject, vars, keyVars
  <1>6. CASE BeginEncryptions
    <2>1. /\ asOf'[i] = IF i \in Wave THEN currentKeyVersion ELSE asOf[i]
          /\ fetch'[i] = IF i \in Wave THEN Ask(writer, Current) ELSE fetch[i]
          /\ stored' = stored /\ currentKeyVersion' = currentKeyVersion
      BY <1>6 DEF BeginEncryptions, BeginWave, KeyToEncrypt
    <2>2. i \in Wave => stored[i] = Nothing
      BY <1>6, BeginWaveIs DEF BeginEncryptions, BeginWave, OpsInv, Progress
    <2>3. Ask(writer, Current).at = "asked" /\ Ask(writer, Current).version = Current
      BY DEF Ask
    <2>4. QED
      BY <1>0, <1>3, <2>1, <2>2, <2>3
  <1>7. CASE BeginDecryptions
    <2>1. /\ asOf' = asOf /\ stored' = stored /\ currentKeyVersion' = currentKeyVersion
          /\ fetch'[i] # fetch[i] => i \in Wave
      BY <1>7 DEF BeginDecryptions, BeginWave
    <2>2. i \in Wave => stored[i] # Nothing
      BY <1>7, BeginWaveIs DEF BeginDecryptions, BeginWave, OpsInv, Progress
    <2>3. QED
      BY <1>0, <1>3, <2>1, <2>2
  <1>8. ASSUME NEW j \in Calls, FinishOperation(j)
        PROVE  /\ asOf'[i] <= currentKeyVersion'
               /\ stored'[i] # Nothing => stored'[i].version >= asOf'[i]
               /\ stored'[i] = Nothing /\ fetch'[i].at = "asked" => fetch'[i].version = Current
               /\ stored'[i] = Nothing /\ fetch'[i].at = "answered" /\ fetch'[i].key # NoKey =>
                      fetch'[i].version >= asOf'[i]
    <2>1. /\ asOf' = asOf /\ currentKeyVersion' = currentKeyVersion
          /\ fetch'[i] = IF i = j THEN NoFetch ELSE fetch[i]
          /\ fetch[j].at = "answered"
      BY <1>0, <1>8 DEF FinishOperation, ReceiveKey
    <2>2. stored'[i] # stored[i] =>
              /\ i = j /\ stored[i] = Nothing /\ fetch[i].key # NoKey
              /\ stored'[i].version = fetch[i].version
      <3>1. stored \in [Calls -> {Nothing} \cup StoredChunks]
        BY DEF OpsInv, OpsTyped
      <3>2. CASE stored[j] = Nothing /\ fetch[j].key # NoKey
        <4>1. stored' = [stored EXCEPT ![j] = [data |-> chunks[j], key |-> fetch[j].key,
                                              version |-> fetch[j].version]]
          BY <1>8, <3>2 DEF FinishOperation
        <4>2. QED
          BY <3>1, <3>2, <4>1
      <3>3. CASE ~ (stored[j] = Nothing /\ fetch[j].key # NoKey)
        BY <1>8, <3>3 DEF FinishOperation
      <3>4. QED
        BY <3>2, <3>3
    <2>3. QED
      BY <1>0, <1>3, <2>1, <2>2, NewFetches
  <1>9. ASSUME NEW j \in Calls, LoseConnection(j)
        PROVE  /\ asOf'[i] <= currentKeyVersion'
               /\ stored'[i] # Nothing => stored'[i].version >= asOf'[i]
               /\ stored'[i] = Nothing /\ fetch'[i].at = "asked" => fetch'[i].version = Current
               /\ stored'[i] = Nothing /\ fetch'[i].at = "answered" /\ fetch'[i].key # NoKey =>
                      fetch'[i].version >= asOf'[i]
    <2>1. /\ asOf' = asOf /\ currentKeyVersion' = currentKeyVersion /\ stored' = stored
          /\ fetch' = [fetch EXCEPT ![j] = Answer(fetch[j], 1, NoKey)]
      BY <1>0, <1>9 DEF LoseConnection, Answer
    <2>2. Answer(fetch[j], 1, NoKey).at = "answered" /\ Answer(fetch[j], 1, NoKey).key = NoKey
      BY DEF Answer
    <2>3. fetch'[i] = IF i = j THEN Answer(fetch[j], 1, NoKey) ELSE fetch[i]
      BY <1>0, <2>1
    <2>4. QED
      BY <1>0, <1>3, <2>1, <2>2, <2>3
  <1>10. ASSUME NEW j \in Calls, AnswerFetch(j), asOf' = asOf, stored' = stored
         PROVE  /\ asOf'[i] <= currentKeyVersion'
                /\ stored'[i] # Nothing => stored'[i].version >= asOf'[i]
                /\ stored'[i] = Nothing /\ fetch'[i].at = "asked" => fetch'[i].version = Current
                /\ stored'[i] = Nothing /\ fetch'[i].at = "answered" /\ fetch'[i].key # NoKey =>
                       fetch'[i].version >= asOf'[i]
    <2>1. PICK v, k : /\ v = IF fetch[j].version = Current THEN currentKeyVersion
                             ELSE fetch[j].version
                      /\ k = IF HasKey(v) THEN epoch ELSE NoKey
      OBVIOUS
    <2>2. /\ fetch' = [fetch EXCEPT ![j] = Answer(fetch[j], v, k)] /\ fetch[j].at = "asked"
          /\ currentKeyVersion' = currentKeyVersion
      BY <1>10, <2>1 DEF AnswerFetch, Answer
    <2>3. Answer(fetch[j], v, k).at = "answered" /\ Answer(fetch[j], v, k).version = v
      BY DEF Answer
    <2>4. fetch'[i] = IF i = j THEN Answer(fetch[j], v, k) ELSE fetch[i]
      BY <1>0, <2>2
    <2>5. QED
      BY <1>0, <1>3, <1>10, <2>1, <2>2, <2>3, <2>4
  <1>11. CASE KeyManagement /\ asOf' = asOf /\ stored' = stored
    <2>1. /\ fetch' = fetch
          /\ currentKeyVersion' \in {currentKeyVersion, currentKeyVersion + 1}
      BY <1>2, <1>11 DEF KeyManagement, RotateMasterKey, AnswerRotation, FinishRotation
    <2>2. QED
      BY <1>4, <1>11, <2>1
  <1>12. QED
    BY <1>5, <1>6, <1>7, <1>8, <1>9, <1>10, <1>11 DEF Next

-----------------------------------------------------------------------------
(* Keys are not lost before the HSM restarts *)

\* What KnownInv says of one call.
KnownTo(i) ==
    /\ op[i] # "failed"
    /\ stored[i] # Nothing => stored[i].key = 1 /\ stored[i].version <= currentKeyVersion
    /\ fetch[i].at = "asked" => fetch[i].version <= currentKeyVersion
    /\ fetch[i].at = "answered" => fetch[i].key = 1 /\ fetch[i].version <= currentKeyVersion

\* At first no key is cached or used.
LEMMA KnownStart == ASSUME Init PROVE KnownInv
  <1>1. /\ currentKeyVersion = 1 /\ op = [i \in Calls |-> "none"] /\ phase = "reading"
        /\ stored = [i \in Calls |-> Nothing] /\ fetch = [i \in Calls |-> NoFetch]
        /\ masterKeyCache = [s \in Services |-> NothingCached]
    BY DEF Init, KeyInit
  <1>2. QED
    BY <1>1, NewFetches DEF KnownInv, NothingCached

\* Rotations add versions and take none away; failures and restarts are excluded.
LEMMA KnownStep ==
    ASSUME StreamInv, OpsInv, KnownInv, [Next]_vars PROVE KnownInv'
  <1> SUFFICES ASSUME epoch' = 1, failures' = 0
               PROVE  /\ phase' # "failed"
                      /\ \A s \in Services, v \in Versions : masterKeyCache'[s][v] \in {NoKey, 1}
                      /\ \A i \in Calls : KnownTo(i)'
    BY DEF KnownInv, KnownTo
  <1>0. /\ KeyTypeOK /\ fetch \in [Calls -> Fetches] /\ failures \in Nat
        /\ currentKeyVersion \in Nat /\ epoch \in Nat \ {0}
        /\ op \in [Calls -> {"none", "running", "ok", "failed"}]
        /\ stored \in [Calls -> {Nothing} \cup StoredChunks]
        /\ masterKeyCache \in [Services -> [Versions -> Keys \cup {NoKey}]]
    BY KeysAre DEF OpsInv, OpsTyped, KeyTypeOK, PhasesTyped
  <1>1. epoch' = epoch \/ RestartHsm
    BY DEF Next, vars, keyVars, ReadStream, BeginEncryptions, BeginDecryptions, BeginWave,
           FinishPhase, Reject, FinishOperation, ReceiveKey, LoseConnection, AnswerFetch,
           KeyManagement, RotateMasterKey, AnswerRotation, FinishRotation
  <1>2. ~ RestartHsm
    <2>1. RestartHsm => epoch' = epoch + 1
      BY DEF RestartHsm
    <2>2. QED
      BY <1>0, <2>1
  <1>3. failures' = failures \/ Failure
    BY DEF Next, vars, ReadStream, BeginEncryptions, BeginDecryptions, BeginWave,
           FinishPhase, Reject, FinishOperation, LoseConnection
  <1>4. ~ Failure
    BY <1>0 DEF Failure
  <1>5. /\ epoch = 1 /\ failures = 0 /\ phase # "failed"
        /\ \A s \in Services, v \in Versions : masterKeyCache[s][v] \in {NoKey, 1}
        /\ \A i \in Calls : KnownTo(i)
    BY <1>1, <1>2, <1>3, <1>4 DEF KnownInv, KnownTo
  <1>6. 1 # NoKey
    BY KeysAre
  <1>7. ASSUME op' = op, stored' = stored, fetch' = fetch,
               currentKeyVersion' \in {currentKeyVersion, currentKeyVersion + 1}
        PROVE  \A i \in Calls : KnownTo(i)'
    <2> SUFFICES ASSUME NEW i \in Calls PROVE KnownTo(i)'
      OBVIOUS
    <2>1. KnownTo(i)
      BY <1>5
    <2>2. stored[i] # Nothing => stored[i].version \in Nat
      BY KeysAre, StoredFields DEF OpsInv
    <2>3. /\ fetch[i].at = "asked" => fetch[i].version \in Nat
          /\ fetch[i].at = "answered" => fetch[i].version \in Nat
      <3>1. fetch[i] \in Fetches /\ \A v \in Versions \cup {Current} : v \in Nat
        BY <1>0, KeysAre DEF Current
      <3>2. QED
        BY <3>1, FetchFields
    <2>4. QED
      BY <1>0, <1>7, <2>1, <2>2, <2>3 DEF KnownTo
  <1>8. CASE ReadStream \/ FinishPhase \/ UNCHANGED vars
    BY <1>4, <1>5, <1>7, <1>8 DEF ReadStream, FinishPhase, vars, keyVars
  <1>9. ~ Reject
    BY <1>5 DEF Reject, KnownTo
  <1>10. CASE BeginEncryptions
    <2>1. /\ op' = [i \in Calls |-> IF i \in Wave THEN "running" ELSE op[i]]
          /\ fetch' = [i \in Calls |-> IF i \in Wave THEN Ask(writer, Current) ELSE fetch[i]]
          /\ stored' = stored /\ phase' = phase
          /\ UNCHANGED <<currentKeyVersion, masterKeyCache>>
      BY <1>10 DEF BeginEncryptions, BeginWave, KeyToEncrypt
    <2>2. /\ Ask(writer, Current).at = "asked" /\ Ask(writer, Current).version = 0
      BY DEF Ask, Current
    <2>3. \A i \in Calls : KnownTo(i)'
      BY <1>0, <1>5, <2>1, <2>2 DEF KnownTo
    <2>4. QED
      BY <1>5, <2>1, <2>3
  <1>11. CASE BeginDecryptions
    <2> DEFINE cached(i) == masterKeyCache[reader][stored[i].version]
    <2>1. /\ op' = [i \in Calls |-> IF i \notin Wave THEN op[i]
                                   ELSE IF cached(i) = NoKey THEN "running"
                                   ELSE Outcome(i, cached(i))]
          /\ fetch' = [i \in Calls |-> IF i \in Wave /\ cached(i) = NoKey
                                      THEN Ask(reader, stored[i].version) ELSE fetch[i]]
          /\ stored' = stored /\ phase' = phase
          /\ UNCHANGED <<currentKeyVersion, masterKeyCache>>
      BY <1>11 DEF BeginDecryptions, BeginWave
    <2>2. ASSUME NEW i \in Calls, i \in Wave
          PROVE  /\ stored[i] # Nothing /\ stored[i].key = 1
                 /\ stored[i].version <= currentKeyVersion /\ cached(i) \in {NoKey, 1}
      <3>1. stored[i] # Nothing
        BY <1>11, <2>2, BeginWaveIs DEF BeginDecryptions, BeginWave, OpsInv, Progress
      <3>2. stored[i].version \in Versions /\ reader \in Services
        BY <3>1, StoredFields DEF OpsInv, PhasesTyped
      <3>3. QED
        BY <1>5, <3>1, <3>2 DEF KnownTo
    <2> HIDE DEF cached
    <2>3. \A i \in Calls : i \in Wave /\ cached(i) # NoKey => Outcome(i, cached(i)) = "ok"
      BY <2>2 DEF Outcome
    <2>4. \A i \in Calls : /\ Ask(reader, stored[i].version).at = "asked"
                           /\ Ask(reader, stored[i].version).version = stored[i].version
      BY DEF Ask
    <2>5. ASSUME NEW i \in Calls PROVE KnownTo(i)'
      <3>1. CASE i \in Wave /\ cached(i) = NoKey
        <4>1. op'[i] = "running" /\ fetch'[i] = Ask(reader, stored[i].version)
          BY <2>1, <3>1
        <4>2. QED
          BY <2>1, <2>2, <2>4, <3>1, <4>1 DEF KnownTo
      <3>2. CASE ~ (i \in Wave /\ cached(i) = NoKey)
        <4>1. op'[i] \in {op[i], "ok"} /\ fetch'[i] = fetch[i]
          BY <2>1, <2>3, <3>2
        <4>2. QED
          BY <1>5, <2>1, <4>1 DEF KnownTo
      <3>3. QED
        BY <3>1, <3>2
    <2>6. QED
      BY <1>5, <2>1, <2>5
  <1>12. ASSUME NEW j \in Calls, FinishOperation(j)
         PROVE  /\ phase' # "failed"
                /\ \A s \in Services, v \in Versions : masterKeyCache'[s][v] \in {NoKey, 1}
                /\ \A i \in Calls : KnownTo(i)'
    <2>1. /\ fetch[j].at = "answered" /\ fetch' = [fetch EXCEPT ![j] = NoFetch]
          /\ currentKeyVersion' = currentKeyVersion /\ phase' = phase
      BY <1>12 DEF FinishOperation, ReceiveKey
    <2>2. fetch[j].key = 1 /\ fetch[j].version <= currentKeyVersion
      BY <1>5, <2>1 DEF KnownTo
    <2>3. fetch[j].service \in Services /\ fetch[j].version \in Versions
      BY <1>0, <2>1, FetchFields
    <2>4. \A s \in Services, v \in Versions : masterKeyCache'[s][v] \in {NoKey, 1}
      <3>1. masterKeyCache' = [masterKeyCache EXCEPT ![fetch[j].service][fetch[j].version] = 1]
        BY <1>6, <1>12, <2>2 DEF FinishOperation, ReceiveKey
      <3>2. QED
        BY <1>0, <1>5, <2>3, <3>1
    <2>5. ASSUME NEW i \in Calls PROVE KnownTo(i)'
      <3>1. KnownTo(i) /\ KnownTo(j)
        BY <1>5
      <3>2. CASE i # j
        <4>1. fetch'[i] = fetch[i] /\ op'[i] = op[i] /\ stored'[i] = stored[i]
          BY <1>0, <1>12, <2>1, <3>2 DEF FinishOperation
        <4>2. QED
          BY <2>1, <3>1, <4>1 DEF KnownTo
      <3>3. CASE i = j /\ stored[j] = Nothing
        <4>1. /\ op' = [op EXCEPT ![j] = "ok"]
              /\ stored' = [stored EXCEPT ![j] = [data |-> chunks[j], key |-> fetch[j].key,
                                                 version |-> fetch[j].version]]
          BY <1>6, <1>12, <2>2, <3>3 DEF FinishOperation
        <4>2. op'[i] = "ok" /\ stored'[i].key = 1 /\ stored'[i].version = fetch[j].version
          BY <1>0, <2>2, <3>3, <4>1
        <4>3. fetch'[i].at = "none"
          BY <1>0, <2>1, <3>3, NewFetches
        <4>4. QED
          BY <2>1, <2>2, <4>2, <4>3 DEF KnownTo
      <3>4. CASE i = j /\ stored[j] # Nothing
        <4>1. /\ op' = [op EXCEPT ![j] = Outcome(j, 1)] /\ stored' = stored
          BY <1>12, <2>2, <3>4 DEF FinishOperation
        <4>2. Outcome(j, 1) = "ok"
          BY <3>1, <3>4 DEF Outcome, KnownTo
        <4>3. op'[i] = "ok" /\ fetch'[i].at = "none"
          BY <1>0, <2>1, <3>4, <4>1, <4>2, NewFetches
        <4>4. QED
          BY <2>1, <3>1, <4>1, <4>3 DEF KnownTo
      <3>5. QED
        BY <3>2, <3>3, <3>4
    <2>6. QED
      BY <1>5, <2>1, <2>4, <2>5
  <1>13. ASSUME NEW j \in Calls PROVE ~ LoseConnection(j)
    BY <1>4 DEF LoseConnection
  <1>14. ASSUME NEW j \in Calls, AnswerFetch(j), op' = op, stored' = stored
         PROVE  \A i \in Calls : KnownTo(i)'
    <2>1. PICK v, k : /\ v = IF fetch[j].version = Current THEN currentKeyVersion
                             ELSE fetch[j].version
                      /\ k = IF HasKey(v) THEN epoch ELSE NoKey
      OBVIOUS
    <2>2. /\ fetch' = [fetch EXCEPT ![j] = Answer(fetch[j], v, k)] /\ fetch[j].at = "asked"
          /\ currentKeyVersion' = currentKeyVersion
      BY <1>14, <2>1 DEF AnswerFetch, Answer
    <2>3. v <= currentKeyVersion
      BY <1>0, <1>5, <2>1, <2>2 DEF KnownTo
    <2>4. k = 1
      BY <1>5, <2>1, <2>3 DEF HasKey
    <2>5. /\ Answer(fetch[j], v, k).at = "answered" /\ Answer(fetch[j], v, k).version = v
          /\ Answer(fetch[j], v, k).key = k
      BY DEF Answer
    <2>6. \A i \in Calls : fetch'[i] = IF i = j THEN Answer(fetch[j], v, k) ELSE fetch[i]
      BY <1>0, <2>2
    <2>7. QED
      BY <1>5, <1>14, <2>2, <2>3, <2>4, <2>5, <2>6 DEF KnownTo
  <1>15. CASE KeyManagement /\ UNCHANGED <<op, stored, phase>>
    <2>1. /\ fetch' = fetch
          /\ currentKeyVersion' \in {currentKeyVersion, currentKeyVersion + 1}
      BY <1>2, <1>15 DEF KeyManagement, RotateMasterKey, AnswerRotation, FinishRotation
    <2>2. \A s \in Services, v \in Versions : masterKeyCache'[s][v] \in {NoKey, 1}
      <3>1. PICK s \in Services :
                \/ masterKeyCache' = masterKeyCache
                \/ masterKeyCache' = [masterKeyCache EXCEPT ![s] = NothingCached]
        BY <1>2, <1>15 DEF KeyManagement, RotateMasterKey, AnswerRotation, FinishRotation
      <3>2. \A v \in Versions : NothingCached[v] = NoKey
        BY DEF NothingCached
      <3>3. QED
        BY <1>0, <1>5, <3>1, <3>2
    <2>3. QED
      BY <1>5, <1>7, <1>15, <2>1, <2>2
  <1>16. QED
    <2>1. CASE \E j \in Calls : AnswerFetch(j) /\ UNCHANGED <<op, stored, phase>>
      <3>1. masterKeyCache' = masterKeyCache
        BY <2>1 DEF AnswerFetch
      <3>2. QED
        BY <1>5, <1>14, <2>1, <3>1
    <2>2. QED
      BY <1>8, <1>9, <1>10, <1>11, <1>12, <1>13, <1>15, <2>1 DEF Next

-----------------------------------------------------------------------------
(* What comes down is what went up *)

\* FinishPhase puts together what was stored, which are the chunks of the file.
LEMMA AssembledStep ==
    ASSUME StreamInv, OpsInv, AssembledInv, [Next]_vars PROVE AssembledInv'
  <1>1. CASE assembled' = assembled /\ file' = file /\ (phase' = "done" <=> phase = "done")
    BY <1>1 DEF AssembledInv
  <1>2. CASE FinishPhase /\ phase = "decrypting"
    <2>1. /\ phase' = "done" /\ file' = file
          /\ assembled' = FlattenSeq([i \in 1..Len(chunks) |-> stored[i].data])
      BY <1>2 DEF FinishPhase, fixed
    <2>2. Len(chunks) \in 0..MaxChunks /\ chunks \in Seq(Contents)
      BY DEF StreamInv
    <2>3. \A i \in 1..Len(chunks) : i \in Calls /\ i <= Len(chunks)
      BY <2>2, Counts, TransferAssumption
    <2>4. \A i \in 1..Len(chunks) : stored[i].data = chunks[i]
      BY <1>2, <2>3 DEF OpsInv, OpsTyped, Progress
    <2>5. [i \in 1..Len(chunks) |-> stored[i].data] = [i \in 1..Len(chunks) |-> chunks[i]]
      BY <2>4
    <2>6. [i \in 1..Len(chunks) |-> chunks[i]] = chunks
      BY <2>2
    <2>7. chunks = ChunkFile(file)
      BY <1>2 DEF StreamInv
    <2>8. file \in Seq(1..MaxLength)
      BY FilesTyped DEF StreamInv, Contents
    <2>9. assembled' = file
      BY <2>1, <2>5, <2>6, <2>7, <2>8, ChunksMakeTheFile
    <2>10. QED
      BY <2>1, <2>9 DEF AssembledInv
  <1>3. CASE FinishPhase /\ phase = "encrypting"
    BY <1>1, <1>3 DEF FinishPhase, fixed
  <1>4. CASE ReadStream \/ BeginEncryptions \/ BeginDecryptions \/ Reject
    BY <1>1, <1>4 DEF ReadStream, BeginEncryptions, BeginDecryptions, BeginWave, Reject, fixed
  <1>5. CASE \E i \in Calls : FinishOperation(i) \/ LoseConnection(i)
    BY <1>1, <1>5 DEF FinishOperation, LoseConnection, fixed
  <1>6. CASE UNCHANGED <<fixed, phase, assembled>>
    BY <1>1, <1>6 DEF fixed
  <1>7. QED
    BY <1>2, <1>3, <1>4, <1>5, <1>6 DEF Next, vars, fixed, FinishPhase

-----------------------------------------------------------------------------
(* The theorems *)

\* The inductive invariant of the transfer.
TransferInv == StreamInv /\ OpsInv /\ FreshInv /\ KnownInv /\ AssembledInv

\* Each part is kept with the help of those before it.
LEMMA TransferInvariant == Spec => []TransferInv
  <1>1. Init => TransferInv
    BY StreamStart, OpsStart, FreshStart, KnownStart DEF TransferInv, AssembledInv, Init
  <1>2. TransferInv /\ [Next]_vars => TransferInv'
    BY StreamStep, OpsStep, FreshStep, KnownStep, AssembledStep DEF TransferInv
  <1>3. QED
    BY <1>1, <1>2, PTL DEF Spec

\* Requests, caches, chunks and operations are well formed, and there are never
\* more chunks than the longest file has, however the stream was delivered.
THEOREM TransferTypeCorrect == Spec => []TypeOK
  <1>1. TransferInv => TypeOK
    <2> SUFFICES ASSUME TransferInv PROVE TypeOK
      OBVIOUS
    <2>1. StreamInv /\ OpsInv /\ AssembledInv
      BY DEF TransferInv
    <2>2. assembled \in Contents
      <3>1. file \in Contents
        BY <2>1, FilesTyped DEF StreamInv
      <3>2. << >> \in Contents
        BY DEF Contents
      <3>3. QED
        BY <2>1, <3>1, <3>2 DEF AssembledInv
    <2>3. \A i \in Calls : stored[i] # Nothing =>
              /\ stored[i].data \in Contents /\ stored[i].key \in Keys
              /\ stored[i].version \in Versions
      BY <2>1, StoredFields DEF OpsInv
    <2>4. QED
      BY <2>1, <2>2, <2>3 DEF TypeOK, StreamInv, OpsInv, OpsTyped, PhasesTyped
  <1>2. QED
    BY <1>1, TransferInvariant, PTL

\* A file that comes down is the one that went up, and its chunks are those of
\* chunkFile although chunkFileStream cut them.
THEOREM FilesComeBack == Spec => []RoundTrip
  <1>1. TransferInv => RoundTrip
    BY DEF TransferInv, StreamInv, AssembledInv, RoundTrip
  <1>2. QED
    BY <1>1, TransferInvariant, PTL

\* Until the HSM restarts, encryptChunk never uses a version of the master key
\* that was replaced before it began.
THEOREM RotationsTakeEffect == Spec => []RotationTakesEffect
  <1>1. TransferInv => RotationTakesEffect
    BY DEF TransferInv, FreshInv, RotationTakesEffect
  <1>2. QED
    BY <1>1, TransferInvariant, PTL

\* Without a restart of the HSM and a lost connection no call fails: rotations
\* alone never make a chunk unreadable, whoever has cached which keys.
THEOREM RotationsKeepChunksReadable == Spec => []ReadableUntilRestart
  <1>1. TransferInv => ReadableUntilRestart
    <2>1. TransferInv => epoch \in Nat \ {0} /\ failures \in Nat
      BY KeysAre, TransferAssumption DEF TransferInv, OpsInv, KeyTypeOK, PhasesTyped
    <2>2. QED
      BY <2>1 DEF TransferInv, KnownInv, ReadableUntilRestart
  <1>2. QED
    BY <1>1, TransferInvariant, PTL
=============================================================================
