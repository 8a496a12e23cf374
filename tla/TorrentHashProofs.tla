-------------------------- MODULE TorrentHashProofs --------------------------
(***************************************************************************)
(* Proofs about the streaming hasher, for files and chunks of any length,  *)
(* any block length and any number of blocks in a piece.                   *)
(***************************************************************************)
EXTENDS TorrentHashes, SequenceTheorems, FiniteSetTheorems, TLAPS

Bytes(f) == {Byte(f, p) : p \in Nat} \cup {ZeroByte}

LEMMA PieceLengthPositive ==
    /\ PieceLength \in Nat \ {0} /\ BlockLength \in Nat \ {0} /\ BlocksPerPiece \in Nat \ {0}
  BY HashesAssumption DEF PieceLength

-----------------------------------------------------------------------------
(* Stretches.                                                              *)

LEMMA StretchIsSeq ==
    ASSUME NEW f, NEW a \in Nat, NEW b \in Nat, a <= b
    PROVE  /\ Stretch(f, a, b) \in Seq(Bytes(f))
           /\ Len(Stretch(f, a, b)) = b - a
           /\ \A i \in 1..(b - a) : Stretch(f, a, b)[i] = Byte(f, a + i - 1)
  <1> DEFINE s == Stretch(f, a, b)
  <1>1. b - a \in Nat  OBVIOUS
  <1>2. s = [i \in 1..(b - a) |-> Byte(f, a + i - 1)]  BY DEF Stretch
  <1>3. \A i \in 1..(b - a) : Byte(f, a + i - 1) \in Bytes(f)
    <2> SUFFICES ASSUME NEW i \in 1..(b - a)  PROVE Byte(f, a + i - 1) \in Bytes(f)
      OBVIOUS
    <2>1. a + i - 1 \in Nat  OBVIOUS
    <2>2. QED  BY <2>1 DEF Bytes
  <1>4. s \in [1..(b - a) -> Bytes(f)]  BY <1>2, <1>3
  <1>5. s \in Seq(Bytes(f))  BY <1>1, <1>4, SeqDef
  <1>6. DOMAIN s = 1..(b - a)  BY <1>2
  <1>7. Len(s) = b - a  BY <1>1, <1>5, <1>6, LenProperties
  <1>8. QED  BY <1>2, <1>5, <1>7

LEMMA ZerosIsSeq ==
    ASSUME NEW f, NEW n \in Nat
    PROVE  Zeros(n) \in Seq(Bytes(f))
  <1>1. Zeros(n) \in [1..n -> Bytes(f)]  BY DEF Zeros, Bytes
  <1>2. QED  BY <1>1, SeqDef

LEMMA StretchEmpty ==
    ASSUME NEW f, NEW a \in Nat, NEW b \in Nat, a <= b
    PROVE  Stretch(f, a, b) = <<>> <=> a = b
  <1>1. Stretch(f, a, b) \in Seq(Bytes(f)) /\ Len(Stretch(f, a, b)) = b - a
    BY StretchIsSeq
  <1>2. a = b => Stretch(f, a, b) = <<>>
    BY <1>1, EmptySeq
  <1>3. a # b => Stretch(f, a, b) # <<>>
    BY <1>1, EmptySeq
  <1>4. QED  BY <1>2, <1>3

LEMMA StretchConcat ==
    ASSUME NEW f, NEW a \in Nat, NEW b \in Nat, NEW c \in Nat, a <= b, b <= c
    PROVE  Stretch(f, a, b) \o Stretch(f, b, c) = Stretch(f, a, c)
  <1> DEFINE s == Stretch(f, a, b)
             t == Stretch(f, b, c)
             u == Stretch(f, a, c)
  <1>1. /\ s \in Seq(Bytes(f)) /\ Len(s) = b - a
        /\ \A i \in 1..(b - a) : s[i] = Byte(f, a + i - 1)
    BY StretchIsSeq
  <1>2. /\ t \in Seq(Bytes(f)) /\ Len(t) = c - b
        /\ \A i \in 1..(c - b) : t[i] = Byte(f, b + i - 1)
    BY StretchIsSeq
  <1>3. /\ u \in Seq(Bytes(f)) /\ Len(u) = c - a
        /\ \A i \in 1..(c - a) : u[i] = Byte(f, a + i - 1)
    <2>1. a <= c  OBVIOUS
    <2>2. QED  BY <2>1, StretchIsSeq
  <1> HIDE DEF s, t, u
  <1>4. /\ s \o t \in Seq(Bytes(f)) /\ Len(s \o t) = Len(s) + Len(t)
        /\ \A i \in 1..(Len(s) + Len(t)) :
              (s \o t)[i] = IF i <= Len(s) THEN s[i] ELSE t[i - Len(s)]
    BY <1>1, <1>2, ConcatProperties
  <1>5. Len(s \o t) = Len(u)  BY <1>1, <1>2, <1>3, <1>4
  <1>6. ASSUME NEW i \in 1..Len(s \o t)  PROVE (s \o t)[i] = u[i]
    <2>1. i \in 1..(c - a) /\ u[i] = Byte(f, a + i - 1)  BY <1>1, <1>2, <1>3, <1>4
    <2>2. CASE i <= b - a
      <3>1. (s \o t)[i] = s[i]  BY <1>1, <1>2, <1>4, <2>1, <2>2
      <3>2. i \in 1..(b - a)  BY <2>1, <2>2
      <3>3. QED  BY <1>1, <2>1, <3>1, <3>2
    <2>3. CASE ~(i <= b - a)
      <3>1. (s \o t)[i] = t[i - (b - a)]  BY <1>1, <1>2, <1>4, <2>1, <2>3
      <3>2. i - (b - a) \in 1..(c - b)  BY <2>1, <2>3
      <3>3. t[i - (b - a)] = Byte(f, b + (i - (b - a)) - 1)  BY <1>2, <3>2
      <3>4. b + (i - (b - a)) - 1 = a + i - 1  BY <2>1
      <3>5. QED  BY <2>1, <3>1, <3>3, <3>4
    <2>4. QED  BY <2>2, <2>3
  <1>7. s \o t = u  BY <1>3, <1>4, <1>5, <1>6, SeqEqual
  <1>8. QED  BY <1>7 DEF s, t, u

\* The m-th to the n-th byte from a on, before b, are those from c to before d.
Part(a, b, c, d, m, n) ==
    /\ a \in Nat /\ b \in Nat /\ c \in Nat /\ d \in Nat
    /\ a <= c /\ c <= d /\ d <= b
    /\ m = c - a + 1 /\ n = d - a

PartIs(f, a, b, c, d, m, n) == SubSeq(Stretch(f, a, b), m, n) = Stretch(f, c, d)

LEMMA StretchPart ==
    ASSUME NEW f, NEW a, NEW b, NEW c, NEW d, NEW m, NEW n, Part(a, b, c, d, m, n)
    PROVE  PartIs(f, a, b, c, d, m, n)
  <1>0. /\ a \in Nat /\ b \in Nat /\ c \in Nat /\ d \in Nat /\ m \in Nat /\ n \in Nat
        /\ a <= c /\ c <= d /\ d <= b /\ m = c - a + 1 /\ n = d - a
    BY DEF Part
  <1> DEFINE s == Stretch(f, a, b)
             u == Stretch(f, c, d)
  <1>1. /\ s \in Seq(Bytes(f)) /\ Len(s) = b - a
        /\ \A i \in 1..(b - a) : s[i] = Byte(f, a + i - 1)
    <2>1. a \in Nat /\ b \in Nat /\ a <= b  BY <1>0
    <2>2. QED  BY <2>1, StretchIsSeq
  <1>2. /\ u \in Seq(Bytes(f)) /\ Len(u) = d - c
        /\ \A i \in 1..(d - c) : u[i] = Byte(f, c + i - 1)
    <2>1. c \in Nat /\ d \in Nat /\ c <= d  BY <1>0
    <2>2. QED  BY <2>1, StretchIsSeq
  <1> HIDE DEF s, u
  <1>3. \A i \in m..n : s[i] \in Bytes(f)
    <2>1. \A i \in m..n : i \in 1..Len(s)  BY <1>0, <1>1
    <2>2. QED  BY <1>1, <2>1, ElementOfSeq
  <1>4. /\ SubSeq(s, m, n) \in Seq(Bytes(f))
        /\ Len(SubSeq(s, m, n)) = IF m <= n THEN n - m + 1 ELSE 0
        /\ \A i \in 1..(n - m + 1) : SubSeq(s, m, n)[i] = s[m + i - 1]
    BY <1>0, <1>3, SubSeqProperties
  <1>5. Len(SubSeq(s, m, n)) = d - c /\ n - m + 1 = d - c
    BY <1>0, <1>4
  <1>6. ASSUME NEW i \in 1..Len(u)  PROVE SubSeq(s, m, n)[i] = u[i]
    <2>1. i \in 1..(d - c) /\ i \in 1..(n - m + 1)  BY <1>2, <1>5
    <2>2. SubSeq(s, m, n)[i] = s[m + i - 1]  BY <1>4, <2>1
    <2>3. m + i - 1 \in 1..(b - a) /\ a + (m + i - 1) - 1 = c + i - 1
      BY <1>0, <2>1
    <2>4. s[m + i - 1] = Byte(f, a + (m + i - 1) - 1)  BY <1>1, <2>3
    <2>5. QED  BY <1>2, <2>1, <2>2, <2>3, <2>4
  <1>7. SubSeq(s, m, n) = u  BY <1>2, <1>4, <1>5, <1>6, SeqEqual
  <1>8. QED  BY <1>7 DEF s, u, PartIs

-----------------------------------------------------------------------------
(* Multiples of the length of a piece.                                     *)

LEMMA Monotonic ==
    ASSUME NEW d \in Nat \ {0}, NEW a \in Nat, NEW b \in Nat, a <= b
    PROVE  a * d \in Nat /\ b * d \in Nat /\ a * d <= b * d
  <1>1. b - a \in Nat /\ b = a + (b - a)  OBVIOUS
  <1>2. (b - a) * d \in Nat  BY <1>1
  <1>3. b * d = a * d + (b - a) * d  BY <1>1
  <1>4. QED  BY <1>2, <1>3

LEMMA NextMultiple ==
    ASSUME NEW d \in Nat \ {0}, NEW a \in Nat
    PROVE  (a + 1) * d = a * d + d
  OBVIOUS

LEMMA DivisionIs ==
    ASSUME NEW d \in Nat \ {0}, NEW n \in Nat, NEW q \in Nat,
           q * d <= n, n < q * d + d
    PROVE  n \div d = q
  <1> DEFINE p == n \div d
  <1>1. p \in Nat /\ p * d <= n /\ n < p * d + d
    <2>1. p \in Int /\ n = d * p + (n % d) /\ (n % d) \in 0..(d - 1)  OBVIOUS
    <2>2. QED  BY <2>1
  <1> HIDE DEF p
  <1>2. ASSUME p < q  PROVE FALSE
    <2>1. p + 1 \in Nat /\ p + 1 <= q  BY <1>1, <1>2
    <2>2. (p + 1) * d <= q * d  BY <2>1, Monotonic
    <2>3. (p + 1) * d = p * d + d  BY <1>1, NextMultiple
    <2>4. p * d \in Nat /\ q * d \in Nat  BY <1>1, <1>2, Monotonic
    <2>5. QED  BY <1>1, <2>2, <2>3, <2>4
  <1>3. ASSUME q < p  PROVE FALSE
    <2>1. q + 1 \in Nat /\ q + 1 <= p  BY <1>1, <1>3
    <2>2. (q + 1) * d <= p * d  BY <1>1, <2>1, Monotonic
    <2>3. (q + 1) * d = q * d + d  BY NextMultiple
    <2>4. p * d \in Nat /\ q * d \in Nat  BY <1>1, <1>3, Monotonic
    <2>5. QED  BY <1>1, <2>2, <2>3, <2>4
  <1>4. p = q  BY <1>1, <1>2, <1>3
  <1>5. QED  BY <1>4 DEF p

\* The number of pieces, from where the last whole one ends.
LEMMA CountIs ==
    ASSUME NEW size \in Nat, NEW k \in Nat,
           k * PieceLength <= size, size < k * PieceLength + PieceLength
    PROVE  PieceCount(size) = IF size = k * PieceLength THEN k ELSE k + 1
  <1> DEFINE PL == PieceLength
  <1>1. PL \in Nat \ {0}  BY PieceLengthPositive
  <1>2. /\ k * PL \in Nat /\ k * PL <= size /\ size < k * PL + PL
        /\ (k + 1) * PL = k * PL + PL
    BY <1>1, NextMultiple
  <1> HIDE DEF PL
  <1>3. size + PL - 1 \in Nat  BY <1>1
  <1>4. CASE size = k * PL
    <2>1. k * PL <= size + PL - 1 /\ size + PL - 1 < k * PL + PL  BY <1>1, <1>2, <1>4
    <2>2. (size + PL - 1) \div PL = k  BY <1>1, <1>3, <2>1, DivisionIs
    <2>3. QED  BY <1>4, <2>2 DEF PieceCount, PL
  <1>5. CASE size # k * PL
    <2>1. k + 1 \in Nat /\ (k + 1) * PL <= size + PL - 1 /\ size + PL - 1 < (k + 1) * PL + PL
      BY <1>1, <1>2, <1>5
    <2>2. (size + PL - 1) \div PL = k + 1  BY <1>1, <1>3, <2>1, DivisionIs
    <2>3. QED  BY <1>5, <2>2 DEF PieceCount, PL
  <1>6. QED  BY <1>4, <1>5

-----------------------------------------------------------------------------
(* The v1 hashes.                                                          *)

Whole(f, k) == [i \in 1..k |-> Stretch(f, (i - 1) * PieceLength, i * PieceLength)]

\* k pieces are behind the hasher, and it has taken the bytes before place at.
Cut(k, at) ==
    /\ k * PieceLength <= at /\ at < k * PieceLength + PieceLength
    /\ at <= pos
    /\ rest1 = Stretch(hashed.file, at, pos)
    /\ piece = Stretch(hashed.file, k * PieceLength, at)
    /\ v1pieces = Whole(hashed.file, k)

HashTypes ==
    /\ stage \in {"idle", "feeding", "raised", "done"}
    /\ hashed \in [file : HashedFiles \cup {None}, size : Nat, pad : BOOLEAN]
    /\ pos \in Nat

Hashing == stage # "done" => \E k, at \in Nat : Cut(k, at)

Quiet == stage # "feeding" => rest1 = <<>>

HInv == HashTypes /\ Hashing /\ Quiet /\ PiecesRight

LEMMA EmptyIsSeq == \A f : <<>> \in Seq(Bytes(f))
  OBVIOUS

LEMMA WholeEmpty == \A f : Whole(f, 0) = <<>>
  BY DEF Whole

LEMMA CutAtStart ==
    ASSUME pos = 0, rest1 = <<>>, piece = <<>>, v1pieces = <<>>
    PROVE  Cut(0, 0)
  <1> DEFINE PL == PieceLength
             f == hashed.file
  <1>1. PL \in Nat \ {0}  BY PieceLengthPositive
  <1>2. 0 * PL = 0  BY <1>1
  <1>3. Stretch(f, 0, 0) = <<>>  BY StretchEmpty
  <1>4. Whole(f, 0) = <<>>  BY WholeEmpty
  <1> HIDE DEF PL
  <1>5. 0 * PL <= 0 /\ 0 < 0 * PL + PL /\ 0 <= pos  BY <1>1, <1>2
  <1>6. piece = Stretch(f, 0 * PL, 0)  BY <1>2, <1>3
  <1>7. QED  BY <1>3, <1>4, <1>5, <1>6 DEF Cut, PL

\* After Restart the cut is at the start.
LEMMA RestartCuts ==
    ASSUME Restart
    PROVE  Cut(0, 0)'
  <1>1. pos' = 0 /\ rest1' = <<>> /\ piece' = <<>> /\ v1pieces' = <<>>  BY DEF Restart
  <1> DEFINE PL == PieceLength
             f == hashed'.file
  <1>2. PL \in Nat \ {0}  BY PieceLengthPositive
  <1>3. 0 * PL = 0  BY <1>2
  <1>4. Stretch(f, 0, 0) = <<>>  BY StretchEmpty
  <1>5. Whole(f, 0) = <<>>  BY WholeEmpty
  <1> HIDE DEF PL
  <1>6. 0 * PL <= 0 /\ 0 < 0 * PL + PL /\ 0 <= pos'  BY <1>1, <1>2, <1>3
  <1>7. piece' = Stretch(f, 0 * PL, 0)  BY <1>1, <1>3, <1>4
  <1>8. QED  BY <1>1, <1>4, <1>5, <1>6, <1>7 DEF Cut, PL

\* A sequence is its beginning with its last element appended.
LEMMA AppendLast ==
    ASSUME NEW n \in Nat, NEW m \in Nat, m = n + 1, NEW h, NEW g,
           h = [i \in 1..m |-> h[i]], g = [i \in 1..n |-> h[i]]
    PROVE  Append(g, h[m]) = h
  <1> DEFINE S == {h[i] : i \in 1..m}
  <1>1. g \in [1..n -> S]  OBVIOUS
  <1>2. h \in [1..m -> S]  OBVIOUS
  <1> HIDE DEF S
  <1>3. g \in Seq(S) /\ Len(g) = n
    <2>1. g \in Seq(S)  BY ONLY <1>1, SeqDef, n \in Nat
    <2>2. DOMAIN g = 1..n  BY <1>1
    <2>3. QED  BY <2>1, <2>2, LenProperties
  <1>4. h \in Seq(S) /\ Len(h) = m
    <2>1. h \in Seq(S)  BY <1>2, SeqDef
    <2>2. DOMAIN h = 1..m  BY <1>2
    <2>3. QED  BY <2>1, <2>2, LenProperties
  <1>5. PICK last : last = h[m]  OBVIOUS
  <1>6. last \in S  BY <1>5 DEF S
  <1>7. /\ Append(g, last) \in Seq(S)
        /\ Len(Append(g, last)) = m
        /\ \A i \in 1..n : Append(g, last)[i] = g[i]
        /\ Append(g, last)[m] = last
    BY <1>3, <1>6, AppendProperties
  <1>8. ASSUME NEW i \in 1..m  PROVE Append(g, last)[i] = h[i]
    <2>1. CASE i = m  BY <1>5, <1>7, <2>1
    <2>2. CASE i # m
      <3>1. i \in 1..n  BY <2>2
      <3>2. g[i] = h[i]  BY <3>1
      <3>3. QED  BY <1>7, <3>1, <3>2
    <2>3. QED  BY <2>1, <2>2
  <1>9. Append(g, last) = h  BY <1>4, <1>7, <1>8, SeqEqual
  <1>10. QED  BY <1>5, <1>9

LEMMA WholeAppend ==
    ASSUME NEW f, NEW k \in Nat
    PROVE  Append(Whole(f, k), Stretch(f, k * PieceLength, k * PieceLength + PieceLength))
             = Whole(f, k + 1)
  <1> DEFINE h == Whole(f, k + 1)
             g == Whole(f, k)
  <1>1. h = [i \in 1..(k + 1) |-> h[i]]  BY DEF Whole
  <1>2. g = [i \in 1..k |-> h[i]]
    <2>1. \A i \in 1..k : i \in 1..(k + 1)  OBVIOUS
    <2>2. \A i \in 1..k : h[i] = Stretch(f, (i - 1) * PieceLength, i * PieceLength)
      BY <2>1 DEF Whole
    <2>3. QED  BY <2>2 DEF Whole
  <1>3. h[k + 1] = Stretch(f, k * PieceLength, k * PieceLength + PieceLength)
    <2>1. k + 1 \in 1..(k + 1) /\ (k + 1) - 1 = k  OBVIOUS
    <2>2. h[k + 1] = Stretch(f, ((k + 1) - 1) * PieceLength, (k + 1) * PieceLength)
      BY <2>1 DEF Whole
    <2>3. (k + 1) * PieceLength = k * PieceLength + PieceLength
      BY PieceLengthPositive, NextMultiple
    <2>4. QED  BY <2>1, <2>2, <2>3
  <1> HIDE DEF g, h
  <1>4. PICK m \in Nat : m = k + 1  OBVIOUS
  <1>5. Append(g, h[m]) = h  BY <1>1, <1>2, <1>4, AppendLast
  <1>6. QED  BY <1>3, <1>4, <1>5 DEF g, h

-----------------------------------------------------------------------------
(* The steps of the hasher.                                                *)

LEMMA UpdateKeeps ==
    ASSUME HInv, NEW n \in Nat \ {0}, Update(n)
    PROVE  HInv'
  <1> DEFINE f == hashed.file
             PL == PieceLength
  <1>1. HashTypes /\ Hashing /\ stage = "feeding" /\ rest1 = <<>>  BY DEF HInv, Update
  <1>2. pos \in Nat /\ hashed.size \in Nat  BY <1>1 DEF HashTypes
  <1>3. PICK k \in Nat, at \in Nat : Cut(k, at)  BY <1>1 DEF Hashing
  <1>4. UNCHANGED <<hashed, piece, v1pieces>>  BY DEF Update
  <1>5. CASE pos + n > hashed.size
    <2>1. stage' = "raised" /\ UNCHANGED <<pos, rest1>>  BY <1>5 DEF Update
    <2>2. HashTypes'  BY <1>1, <1>4, <2>1 DEF HashTypes
    <2>3. Cut(k, at)'  BY <1>3, <1>4, <2>1 DEF Cut
    <2>4. Hashing' /\ Quiet' /\ PiecesRight'
      BY <1>1, <2>1, <2>3 DEF Hashing, Quiet, PiecesRight
    <2>5. QED  BY <2>2, <2>4 DEF HInv
  <1>6. CASE ~(pos + n > hashed.size)
    <2>1. rest1' = Stretch(f, pos, pos + n) /\ pos' = pos + n /\ stage' = "feeding"
      BY <1>1, <1>6 DEF Update
    <2>2. pos' \in Nat  BY <1>2, <2>1
    <2>3. HashTypes'  BY <1>1, <1>4, <2>1, <2>2 DEF HashTypes
    <2>4. at = pos
      <3>1. Stretch(f, at, pos) = <<>> /\ at <= pos  BY <1>1, <1>3 DEF Cut
      <3>2. QED  BY <1>2, <3>1, StretchEmpty
    <2>5. at <= pos'  BY <1>2, <2>1, <2>4
    <2>6. Cut(k, at)'  BY <1>3, <1>4, <2>1, <2>4, <2>5 DEF Cut
    <2>7. Hashing' /\ Quiet' /\ PiecesRight'
      BY <2>1, <2>6 DEF Hashing, Quiet, PiecesRight
    <2>8. QED  BY <2>3, <2>7 DEF HInv
  <1>7. QED  BY <1>5, <1>6

\* A round of the loop takes the bytes from place at to before place next.
Round(from, at, next, end, take, past, all) ==
    /\ from \in Nat /\ at \in Nat /\ next \in Nat /\ end \in Nat
    /\ from <= at /\ at <= next /\ next <= end
    /\ take = next - at /\ past = take + 1 /\ all = end - at

LEMMA RoundCuts ==
    ASSUME NEW f, NEW from, NEW at, NEW next, NEW end, NEW take, NEW past,
           NEW all, Round(from, at, next, end, take, past, all)
    PROVE  /\ SubSeq(Stretch(f, at, end), 1, take) = Stretch(f, at, next)
           /\ SubSeq(Stretch(f, at, end), past, all) = Stretch(f, next, end)
           /\ Stretch(f, from, at) \o Stretch(f, at, next) = Stretch(f, from, next)
  <1>1. /\ from \in Nat /\ at \in Nat /\ next \in Nat /\ end \in Nat
        /\ from <= at /\ at <= next /\ next <= end /\ from <= next
    BY DEF Round
  <1>2. Part(at, end, at, next, 1, take)  BY DEF Round, Part
  <1>3. Part(at, end, next, end, past, all)  BY DEF Round, Part
  <1>4. SubSeq(Stretch(f, at, end), 1, take) = Stretch(f, at, next)
    <2>1. PartIs(f, at, end, at, next, 1, take)  BY <1>2, StretchPart
    <2>2. QED  BY <2>1 DEF PartIs
  <1>5. SubSeq(Stretch(f, at, end), past, all) = Stretch(f, next, end)
    <2>1. PartIs(f, at, end, next, end, past, all)  BY <1>3, StretchPart
    <2>2. QED  BY <2>1 DEF PartIs
  <1>6. Stretch(f, from, at) \o Stretch(f, at, next) = Stretch(f, from, next)
    BY <1>1, StretchConcat
  <1>7. QED  BY <1>4, <1>5, <1>6

LEMMA FillPieceKeeps ==
    ASSUME HInv, FillPiece
    PROVE  HInv'
  <1> DEFINE f == hashed.file
             PL == PieceLength
             Take == Least(Len(rest1), PL - Len(piece))
             grown == piece \o SubSeq(rest1, 1, Take)
  <1>1. HashTypes /\ Hashing /\ Quiet /\ rest1 # <<>>  BY DEF HInv, FillPiece
  <1>2. stage = "feeding"  BY <1>1 DEF Quiet
  <1>3. PICK k \in Nat, at \in Nat : Cut(k, at)  BY <1>1, <1>2 DEF Hashing
  <1>4. PL \in Nat \ {0} /\ pos \in Nat  BY <1>1, PieceLengthPositive DEF HashTypes
  <1>5. PICK from \in Nat : from = k * PL  BY <1>4
  <1>6. from <= at /\ at < from + PL /\ at <= pos  BY <1>3, <1>5 DEF Cut
  <1>7. /\ rest1 = Stretch(f, at, pos) /\ piece = Stretch(f, from, at)
        /\ v1pieces = Whole(f, k)
    BY <1>3, <1>5 DEF Cut
  <1>8. /\ rest1' = SubSeq(rest1, Take + 1, Len(rest1))
        /\ piece' = IF Len(grown) = PL THEN <<>> ELSE grown
        /\ v1pieces' = IF Len(grown) = PL THEN Append(v1pieces, grown) ELSE v1pieces
        /\ UNCHANGED <<stage, hashed, pos>>
    BY DEF FillPiece
  <1> HIDE DEF PL
  <1>9. Len(rest1) = pos - at /\ Len(piece) = at - from
    BY <1>4, <1>6, <1>7, StretchIsSeq
  <1>10. at < pos
    <2>1. at # pos  BY <1>1, <1>4, <1>7, StretchEmpty
    <2>2. QED  BY <1>4, <1>6, <2>1
  <1>11. PICK take \in Nat : /\ take = Take
                             /\ at + take = pos \/ at + take = from + PL
                             /\ at + take <= pos /\ at + take <= from + PL
    <2>1. Take = Least(pos - at, PL - (at - from))  BY <1>9
    <2>2. Take = IF pos - at <= PL - (at - from) THEN pos - at ELSE PL - (at - from)
      BY <2>1 DEF Least
    <2> HIDE DEF Take
    <2>3. Take \in Nat  BY <1>4, <1>6, <2>2
    <2>4. at + Take = pos \/ at + Take = from + PL  BY <1>4, <1>6, <2>2
    <2>5. at + Take <= pos /\ at + Take <= from + PL  BY <1>4, <1>6, <2>2
    <2>6. QED  BY <2>3, <2>4, <2>5
  <1>12. PICK next \in Nat : next = at + take  OBVIOUS
  <1> HIDE DEF Take
  <1>13. /\ rest1' = Stretch(f, next, pos)
         /\ grown = Stretch(f, from, next)
         /\ Len(grown) = next - from
    <2> HIDE DEF f
    <2>1. PICK past \in Nat, all \in Nat : past = take + 1 /\ all = pos - at
      BY <1>4, <1>6
    <2>2. Round(from, at, next, pos, take, past, all)
      BY <1>4, <1>6, <1>11, <1>12, <2>1 DEF Round
    <2>3. /\ SubSeq(Stretch(f, at, pos), 1, take) = Stretch(f, at, next)
          /\ SubSeq(Stretch(f, at, pos), past, all) = Stretch(f, next, pos)
          /\ Stretch(f, from, at) \o Stretch(f, at, next) = Stretch(f, from, next)
      <3>1. SubSeq(Stretch(f, at, pos), 1, take) = Stretch(f, at, next)
        BY <2>2, RoundCuts
      <3>2. SubSeq(Stretch(f, at, pos), past, all) = Stretch(f, next, pos)
        <4>1. Part(at, pos, next, pos, past, all)
          BY <1>4, <1>6, <1>11, <1>12, <2>1 DEF Part
        <4>2. PartIs(f, at, pos, next, pos, past, all)  BY <4>1, StretchPart
        <4>3. QED  BY <4>2 DEF PartIs
      <3>3. Stretch(f, from, at) \o Stretch(f, at, next) = Stretch(f, from, next)
        BY <2>2, RoundCuts
      <3>4. QED  BY <3>1, <3>2, <3>3
    <2>4. rest1' = Stretch(f, next, pos)  BY <1>7, <1>8, <1>9, <1>11, <2>1, <2>3
    <2>5. grown = Stretch(f, from, next)  BY <1>7, <1>11, <2>3
    <2>6. from <= next  BY <1>6, <1>12
    <2>7. Len(Stretch(f, from, next)) = next - from  BY <2>6, StretchIsSeq
    <2>8. QED  BY <2>4, <2>5, <2>7
  <1> HIDE DEF grown
  <1>14. /\ from <= next /\ next <= pos /\ next <= from + PL
         /\ next - from = PL <=> next = from + PL
    BY <1>4, <1>6, <1>11, <1>12
  <1>15. HashTypes' /\ Quiet' /\ PiecesRight'
    BY <1>1, <1>2, <1>8 DEF HashTypes, Quiet, PiecesRight
  <1>16. CASE next = from + PL
    <2>1. Len(grown) = PL  BY <1>13, <1>14, <1>16
    <2>2. piece' = <<>> /\ v1pieces' = Append(Whole(f, k), grown)  BY <1>7, <1>8, <2>1
    <2>3. Append(Whole(f, k), Stretch(f, from, from + PL)) = Whole(f, k + 1)
      BY <1>5, WholeAppend DEF PL
    <2>4. v1pieces' = Whole(f, k + 1)  BY <1>13, <1>16, <2>2, <2>3
    <2>5. k + 1 \in Nat /\ (k + 1) * PL = next  BY <1>4, <1>5, <1>16, NextMultiple
    <2>6. piece' = Stretch(f, next, next)  BY <2>2, StretchEmpty
    <2>7. next <= next /\ next < next + PL  BY <1>4
    <2>8. Cut(k + 1, next)'
      BY <1>8, <1>13, <1>14, <2>4, <2>5, <2>6, <2>7 DEF Cut, PL
    <2>9. Hashing'  BY <2>5, <2>8 DEF Hashing
    <2>10. QED  BY <1>15, <2>9 DEF HInv
  <1>17. CASE next # from + PL
    <2>1. Len(grown) # PL  BY <1>13, <1>14, <1>17
    <2>2. piece' = Stretch(f, from, next) /\ v1pieces' = Whole(f, k)
      BY <1>7, <1>8, <1>13, <2>1
    <2>3. from <= next /\ next < from + PL  BY <1>4, <1>14, <1>17
    <2>4. Cut(k, next)'
      BY <1>5, <1>8, <1>13, <1>14, <2>2, <2>3 DEF Cut, PL
    <2>5. Hashing'  BY <2>4 DEF Hashing
    <2>6. QED  BY <1>15, <2>5 DEF HInv
  <1>18. QED  BY <1>16, <1>17

\* The k-th whole piece is the last one, and ends at place from.
LastWhole(k, from, size) ==
    /\ k \in Nat /\ from \in Nat /\ size \in Nat
    /\ from = k * PieceLength /\ from <= size /\ size < from + PieceLength

\* The hashes of the whole file, from where the last whole piece ends.
LEMMA FinalPieces ==
    ASSUME NEW f, NEW size, NEW pad, NEW k, NEW from, LastWhole(k, from, size)
    PROVE  V1Of(f, size, pad) =
             IF size = from THEN Whole(f, k)
             ELSE Append(Whole(f, k),
                         Stretch(f, from, size)
                             \o IF pad THEN Zeros(PieceLength - (size - from)) ELSE <<>>)
  <1> DEFINE PL == PieceLength
             last == Stretch(f, from, size)
                         \o IF pad THEN Zeros(PL - (size - from)) ELSE <<>>
             v == V1Of(f, size, pad)
             Element(i) == Stretch(f, (i - 1) * PL, PieceEnd(i, size))
                               \o IF pad THEN Zeros(i * PL - PieceEnd(i, size)) ELSE <<>>
  <1>0. /\ k \in Nat /\ from \in Nat /\ size \in Nat
        /\ from = k * PL /\ from <= size /\ size < from + PL
    BY DEF LastWhole
  <1>1. PL \in Nat \ {0}  BY PieceLengthPositive
  <1>2. PieceCount(size) = IF size = from THEN k ELSE k + 1  BY <1>0, CountIs
  <1>3. v = [i \in 1..PieceCount(size) |-> Element(i)]  BY DEF V1Of
  <1>4. ASSUME NEW i \in 1..k
        PROVE  Element(i) = Stretch(f, (i - 1) * PL, i * PL)
    <2>1. i \in Nat /\ i - 1 \in Nat /\ i <= k /\ i - 1 <= i  BY <1>0
    <2>2. PICK a \in Nat, b \in Nat : a = (i - 1) * PL /\ b = i * PL /\ a <= b
      BY <1>1, <2>1, Monotonic
    <2>3. b <= size
      <3>1. i * PL <= k * PL  BY <1>0, <1>1, <2>1, Monotonic
      <3>2. QED  BY <1>0, <1>1, <2>2, <3>1
    <2>4. PieceEnd(i, size) = b  BY <1>0, <2>2, <2>3 DEF PieceEnd, Least
    <2>5. Zeros(b - b) = <<>>
      <3>1. b - b = 0  OBVIOUS
      <3>2. QED  BY <3>1 DEF Zeros
    <2>6. Element(i) = Stretch(f, a, b) \o <<>>  BY <2>2, <2>4, <2>5
    <2>7. Stretch(f, a, b) \o <<>> = Stretch(f, a, b)
      BY <2>2, StretchIsSeq, ConcatEmptySeq
    <2>8. QED  BY <2>2, <2>6, <2>7
  <1>5. CASE size = from
    BY <1>0, <1>2, <1>3, <1>4, <1>5 DEF Whole
  <1>6. CASE size # from
    <2>1. PICK m \in Nat : m = k + 1 /\ PieceCount(size) = m  BY <1>0, <1>2, <1>6
    <2>2. m - 1 = k /\ m \in 1..m  BY <1>0, <2>1
    <2>3. m * PL = from + PL  BY <1>0, <1>1, <2>1, NextMultiple
    <2>4. PieceEnd(m, size) = size  BY <1>0, <1>1, <2>3 DEF PieceEnd, Least
    <2>5. (from + PL) - size = PL - (size - from)  BY <1>0, <1>1
    <2>6. (m - 1) * PL = from /\ m * PL - PieceEnd(m, size) = PL - (size - from)
      BY <1>0, <2>2, <2>3, <2>4, <2>5
    <2>7. Element(m) = last  BY <2>4, <2>6, Zenon
    <2>8. v[m] = last  BY <1>3, <2>1, <2>2, <2>7
    <2>9. v = [i \in 1..m |-> v[i]]
      <3> HIDE DEF Element
      <3>1. QED  BY <1>3, <2>1
    <2>10. Whole(f, k) = [i \in 1..k |-> v[i]]
      <3>1. ASSUME NEW i \in 1..k  PROVE v[i] = Stretch(f, (i - 1) * PL, i * PL)
        <4>1. i \in 1..m  BY <1>0, <2>1
        <4>2. v[i] = Element(i)
          <5> HIDE DEF Element, v
          <5>1. QED  BY <1>3, <2>1, <4>1
        <4>3. QED  BY <1>4, <4>2
      <3>2. QED  BY <3>1 DEF Whole
    <2> HIDE DEF v, last
    <2>11. Append(Whole(f, k), v[m]) = v  BY <1>0, <2>1, <2>9, <2>10, AppendLast
    <2>12. QED  BY <1>6, <2>8, <2>11 DEF v, last
  <1>7. QED  BY <1>5, <1>6

LEMMA FinalizeKeeps ==
    ASSUME HInv, Finalize
    PROVE  HInv'
  <1> DEFINE f == hashed.file
             size == hashed.size
             pad == hashed.pad
             PL == PieceLength
             tail == IF pad THEN Zeros(PL - Len(piece)) ELSE <<>>
  <1>1. HashTypes /\ Hashing /\ stage = "feeding" /\ rest1 = <<>>  BY DEF HInv, Finalize
  <1>2. pos \in Nat /\ size \in Nat /\ pad \in BOOLEAN  BY <1>1 DEF HashTypes
  <1>3. UNCHANGED <<hashed, pos, rest1>>  BY DEF Finalize
  <1>4. PICK k \in Nat, at \in Nat : Cut(k, at)  BY <1>1 DEF Hashing
  <1>5. CASE pos # size
    <2>1. stage' = "raised" /\ UNCHANGED <<piece, v1pieces>>  BY <1>5 DEF Finalize
    <2>2. HashTypes'  BY <1>1, <1>3, <2>1 DEF HashTypes
    <2>3. Cut(k, at)'  BY <1>3, <1>4, <2>1 DEF Cut
    <2>4. Hashing' /\ Quiet' /\ PiecesRight'
      BY <1>1, <1>3, <2>1, <2>3 DEF Hashing, Quiet, PiecesRight
    <2>5. QED  BY <2>2, <2>4 DEF HInv
  <1>6. CASE pos = size
    <2>1. /\ stage' = "done"
          /\ v1pieces' = IF piece = <<>> THEN v1pieces ELSE Append(v1pieces, piece \o tail)
      BY <1>6 DEF Finalize
    <2>2. HashTypes' /\ Hashing' /\ Quiet'
      BY <1>1, <1>3, <2>1 DEF HashTypes, Hashing, Quiet
    <2>3. PL \in Nat \ {0}  BY PieceLengthPositive
    <2>4. PICK from \in Nat : from = k * PL  BY <2>3
    <2>5. /\ from <= at /\ at < from + PL /\ at <= pos
          /\ <<>> = Stretch(f, at, pos) /\ piece = Stretch(f, from, at)
          /\ v1pieces = Whole(f, k)
      BY <1>1, <1>4, <2>4 DEF Cut
    <2>6. at = size  BY <1>2, <1>6, <2>5, StretchEmpty
    <2>7. piece = Stretch(f, from, size) /\ from <= size /\ size < from + PL
      BY <2>5, <2>6
    <2>8. Len(piece) = size - from  BY <1>2, <2>7, StretchIsSeq
    <2>9. piece = <<>> <=> size = from  BY <1>2, <2>7, StretchEmpty
    <2>10. V1Of(f, size, pad) =
             IF size = from THEN Whole(f, k)
             ELSE Append(Whole(f, k),
                         Stretch(f, from, size)
                             \o IF pad THEN Zeros(PL - (size - from)) ELSE <<>>)
      <3>1. LastWhole(k, from, size)  BY <1>2, <2>4, <2>7 DEF LastWhole
      <3>2. \A g, n, p : LastWhole(k, from, n) =>
               V1Of(g, n, p) =
                 IF n = from THEN Whole(g, k)
                 ELSE Append(Whole(g, k),
                             Stretch(g, from, n)
                                 \o IF p THEN Zeros(PL - (n - from)) ELSE <<>>)
        BY FinalPieces
      <3> HIDE DEF f, size, pad
      <3>3. QED  BY <3>1, <3>2, Zenon
    <2>11. v1pieces' = V1Of(f, size, pad)
      <3>1. CASE size = from  BY <2>1, <2>5, <2>9, <2>10, <3>1
      <3>2. CASE size # from  BY <2>1, <2>5, <2>7, <2>8, <2>9, <2>10, <3>2
      <3>3. QED  BY <3>1, <3>2
    <2>12. PiecesRight'  BY <1>3, <2>1, <2>11 DEF PiecesRight
    <2>13. QED  BY <2>2, <2>12 DEF HInv
  <1>7. QED  BY <1>5, <1>6

LEMMA RestartKeeps ==
    ASSUME Restart, stage' \in {"idle", "feeding"},
           hashed' \in [file : HashedFiles \cup {None}, size : Nat, pad : BOOLEAN]
    PROVE  HInv'
  <1>1. pos' = 0 /\ rest1' = <<>>  BY DEF Restart
  <1>2. HashTypes'  BY <1>1 DEF HashTypes
  <1>3. Hashing'  BY RestartCuts DEF Hashing
  <1>4. Quiet' /\ PiecesRight'  BY <1>1 DEF Quiet, PiecesRight
  <1>5. QED  BY <1>2, <1>3, <1>4 DEF HInv

LEMMA HashInitInv == HashInit => HInv
  <1> SUFFICES ASSUME HashInit  PROVE HInv
    OBVIOUS
  <1>1. HashTypes /\ Quiet /\ PiecesRight
    BY DEF HashInit, Unused, HashTypes, Quiet, PiecesRight
  <1>2. Cut(0, 0)  BY CutAtStart DEF HashInit
  <1>3. Hashing  BY <1>2 DEF Hashing
  <1>4. QED  BY <1>1, <1>3 DEF HInv

LEMMA HashNextKeeps == HInv /\ [HashNext]_hashVars => HInv'
  <1> SUFFICES ASSUME HInv, [HashNext]_hashVars  PROVE HInv'
    OBVIOUS
  <1>1. ASSUME NEW f \in HashedFiles, NEW size \in Nat, NEW pad \in BOOLEAN,
               Accumulate(f, size, pad)
        PROVE  HInv'
    <2>1. Restart /\ stage' = "feeding"
          /\ hashed' \in [file : HashedFiles \cup {None}, size : Nat, pad : BOOLEAN]
      BY <1>1 DEF Accumulate
    <2>2. QED  BY <2>1, RestartKeeps
  <1>2. ASSUME NEW n \in Nat \ {0}, Update(n)  PROVE HInv'
    BY <1>2, UpdateKeeps
  <1>3. CASE FillPiece  BY <1>3, FillPieceKeeps
  <1>4. CASE FillBlock
    <2>1. UNCHANGED <<stage, hashed, pos, rest1, piece, v1pieces>>  BY <1>4 DEF FillBlock
    <2>2. HashTypes' /\ Hashing' /\ Quiet' /\ PiecesRight'
      BY <2>1 DEF HInv, HashTypes, Hashing, Cut, Quiet, PiecesRight
    <2>3. QED  BY <2>2 DEF HInv
  <1>5. CASE Reset
    <2>1. Restart /\ stage' = "feeding" /\ UNCHANGED hashed  BY <1>5 DEF Reset
    <2>2. hashed \in [file : HashedFiles \cup {None}, size : Nat, pad : BOOLEAN]
      BY DEF HInv, HashTypes
    <2>3. QED  BY <2>1, <2>2, RestartKeeps
  <1>6. CASE Finalize  BY <1>6, FinalizeKeeps
  <1>7. CASE Discard
    <2>1. Restart /\ stage' = "idle"
          /\ hashed' \in [file : HashedFiles \cup {None}, size : Nat, pad : BOOLEAN]
      BY <1>7 DEF Discard, Unused
    <2>2. QED  BY <2>1, RestartKeeps
  <1>8. CASE UNCHANGED hashVars
    <2>1. UNCHANGED <<stage, hashed, pos, rest1, piece, v1pieces>>  BY <1>8 DEF hashVars
    <2>2. HashTypes' /\ Hashing' /\ Quiet' /\ PiecesRight'
      BY <2>1 DEF HInv, HashTypes, Hashing, Cut, Quiet, PiecesRight
    <2>3. QED  BY <2>2 DEF HInv
  <1>9. QED
    BY <1>1, <1>2, <1>3, <1>4, <1>5, <1>6, <1>7, <1>8 DEF HashNext, HashStep

\* Whatever the chunks, the v1 hashes are those of the pieces of the file
\* (TorrentFileHasher._update_v1, finalize).
THEOREM StreamedPiecesAreRight == HashSpec => []PiecesRight
  <1>1. HInv => PiecesRight  BY DEF HInv
  <1>2. QED  BY HashInitInv, HashNextKeeps, <1>1, PTL DEF HashSpec

-----------------------------------------------------------------------------
(* Induction over numbers, and the functions that are defined by it.       *)

\* A set that has 0, and the successor of each number in it, has every number:
\* otherwise the numbers in it up to the missing one, a finite set, would fit
\* into themselves without 0.
LEMMA SetInduction ==
    ASSUME NEW S, 0 \in S, \A n \in Nat : n \in S => n + 1 \in S
    PROVE  Nat \subseteq S
<1> SUFFICES ASSUME NEW n \in Nat, n \notin S PROVE FALSE
    OBVIOUS
<1> DEFINE A == {k \in 0 .. n : k \in S}
           next == [k \in A |-> k + 1]
<1>1. IsFiniteSet(A) /\ 0 \in A
    <2>1. IsFiniteSet(0 .. n)
      BY FS_Interval
    <2>2. A \subseteq 0 .. n
      OBVIOUS
    <2>3. QED
      BY <2>1, <2>2, FS_Subset
<1>2. IsFiniteSet(A \ {0}) /\ Cardinality(A \ {0}) = Cardinality(A) - 1
    BY <1>1, FS_RemoveElement
<1>3. \A k \in A : k + 1 \in A \ {0}
    OBVIOUS
<1>4. next \in Injection(A, A \ {0})
    BY <1>3 DEF Injection, IsInjective
<1> HIDE DEF A, next
<1>5. Cardinality(A) <= Cardinality(A \ {0})
    BY <1>1, <1>2, <1>4, FS_Injection DEF ExistsInjection
<1>6. Cardinality(A) \in Nat
    BY <1>1, FS_CardinalityType
<1>7. QED
    BY <1>2, <1>5, <1>6

\* g is the beginning up to n of the sequence that starts with zero, and goes on
\* with step.
Begins(zero, step, g, n) ==
    g = [k \in 0 .. n |-> IF k = 0 THEN zero ELSE step[k - 1][g[k - 1]]]

LEMMA BeginningsUnique ==
    ASSUME NEW zero, NEW step, NEW n \in Nat, NEW m \in Nat, n <= m, NEW g, NEW h,
           Begins(zero, step, g, n), Begins(zero, step, h, m)
    PROVE  \A k \in 0 .. n : g[k] = h[k]
<1> DEFINE S == {k \in Nat : k <= n => g[k] = h[k]}
<1>1. \A k \in 0 .. n : g[k] = IF k = 0 THEN zero ELSE step[k - 1][g[k - 1]]
    BY DEF Begins
<1>2. \A k \in 0 .. n : h[k] = IF k = 0 THEN zero ELSE step[k - 1][h[k - 1]]
  <2>1. \A k \in 0 .. m : h[k] = IF k = 0 THEN zero ELSE step[k - 1][h[k - 1]]
    BY DEF Begins
  <2>2. QED
    BY <2>1
<1>3. 0 \in S
    BY <1>1, <1>2
<1>4. \A k \in Nat : k \in S => k + 1 \in S
    BY <1>1, <1>2
<1> HIDE DEF S
<1>5. Nat \subseteq S
    BY <1>3, <1>4, SetInduction
<1>6. QED
    BY <1>5 DEF S

LEMMA BeginningsExist ==
    ASSUME NEW zero, NEW step
    PROVE  \A n \in Nat : \E g : Begins(zero, step, g, n)
<1> DEFINE S == {n \in Nat : \E g : Begins(zero, step, g, n)}
<1>1. 0 \in S
  <2> DEFINE g == [k \in 0 .. 0 |-> zero]
  <2>1. Begins(zero, step, g, 0)
    BY DEF Begins
  <2>2. QED
    BY <2>1
<1>2. ASSUME NEW n \in Nat, n \in S PROVE n + 1 \in S
  <2>1. PICK g : Begins(zero, step, g, n)
    BY <1>2
  <2> DEFINE h == [k \in 0 .. n + 1 |-> IF k <= n THEN g[k] ELSE step[n][g[n]]]
  <2>2. \A k \in 0 .. n : g[k] = IF k = 0 THEN zero ELSE step[k - 1][g[k - 1]]
    BY <2>1 DEF Begins
  <2>3. \A k \in 0 .. n + 1 : h[k] = IF k = 0 THEN zero ELSE step[k - 1][h[k - 1]]
    BY <2>2
  <2>4. Begins(zero, step, h, n + 1)
    BY <2>3 DEF Begins
  <2>5. QED
    BY <2>4
<1> HIDE DEF S
<1>3. Nat \subseteq S
    BY <1>1, <1>2, SetInduction
<1>4. QED
    BY <1>3 DEF S

GoesOn(f, zero, step) == f[0] = zero /\ \A n \in Nat : f[n + 1] = step[n][f[n]]

\* A function on the numbers can be defined from the value before.
LEMMA Recursion ==
    ASSUME NEW D, NEW zero \in D, NEW step \in [Nat -> [D -> D]]
    PROVE  \E f \in [Nat -> D] : GoesOn(f, zero, step)
<1> DEFINE upto(n) == CHOOSE g : Begins(zero, step, g, n)
           f == [n \in Nat |-> upto(n)[n]]
<1>1. \A n \in Nat : Begins(zero, step, upto(n), n)
    BY BeginningsExist
<1> HIDE DEF upto
<1>2. f[0] = zero
    BY <1>1 DEF Begins
<1>3. ASSUME NEW n \in Nat PROVE f[n + 1] = step[n][f[n]]
  <2>1. n + 1 \in Nat /\ n <= n + 1 /\ n \in 0 .. n /\ (n + 1) - 1 = n /\ n + 1 \in 0 .. n + 1
        /\ n + 1 # 0
    OBVIOUS
  <2>2. Begins(zero, step, upto(n + 1), n + 1) /\ Begins(zero, step, upto(n), n)
    BY <1>1, <2>1
  <2>3. \A k \in 0 .. n : upto(n)[k] = upto(n + 1)[k]
    BY <2>1, <2>2, BeginningsUnique
  <2>4. upto(n + 1)[n + 1] = step[n][upto(n + 1)[n]]
    BY <2>1, <2>2 DEF Begins
  <2>5. upto(n)[n] = upto(n + 1)[n]
    BY <2>1, <2>3
  <2>6. QED
    BY <2>1, <2>4, <2>5
<1> HIDE DEF f
<1> DEFINE S == {n \in Nat : f[n] \in D}
<1>4. 0 \in S /\ \A n \in Nat : n \in S => n + 1 \in S
    BY <1>2, <1>3
<1> HIDE DEF S
<1>5. Nat \subseteq S
    BY <1>4, SetInduction
<1>6. \A n \in Nat : f[n] \in D
    BY <1>5 DEF S
<1>7. f \in [Nat -> D]
  <2>1. f = [n \in Nat |-> f[n]]
    BY DEF f
  <2>2. QED
    BY <1>6, <2>1
<1>8. GoesOn(f, zero, step)
    BY <1>2, <1>3 DEF GoesOn
<1>9. QED
    BY <1>7, <1>8

\* TwoTo is what its definition says.
LEMMA TwoToIs ==
    /\ TwoTo \in [Nat -> Nat \ {0}]
    /\ TwoTo[0] = 1
    /\ \A k \in Nat : TwoTo[k + 1] = 2 * TwoTo[k]
<1> DEFINE D == Nat \ {0}
           step == [k \in Nat |-> [x \in D |-> 2 * x]]
<1>1. 1 \in D /\ step \in [Nat -> [D -> D]]
    OBVIOUS
<1> HIDE DEF D, step
<1>2. PICK f \in [Nat -> D] : GoesOn(f, 1, step)
    BY <1>1, Recursion
<1>3. f[0] = 1 /\ \A k \in Nat : f[k + 1] = 2 * f[k]
    BY <1>2 DEF GoesOn, D, step
<1>4. f = [k \in Nat |-> IF k = 0 THEN 1 ELSE 2 * f[k - 1]]
  <2>1. \A k \in Nat : f[k] = IF k = 0 THEN 1 ELSE 2 * f[k - 1]
    <3> SUFFICES ASSUME NEW k \in Nat, k # 0 PROVE f[k] = 2 * f[k - 1]
      BY <1>3
    <3>1. k - 1 \in Nat /\ (k - 1) + 1 = k
      OBVIOUS
    <3>2. f[(k - 1) + 1] = 2 * f[k - 1]
      BY <1>3, <3>1
    <3>3. QED
      BY <3>1, <3>2
  <2>2. QED
    BY <2>1
<1>5. TwoTo = [k \in Nat |-> IF k = 0 THEN 1 ELSE 2 * TwoTo[k - 1]]
    BY <1>4 DEF TwoTo
<1>6. TwoTo[0] = 1 /\ \A k \in Nat : TwoTo[k + 1] = 2 * TwoTo[k]
    BY <1>5
<1> DEFINE S == {k \in Nat : TwoTo[k] \in Nat \ {0}}
<1>7. 0 \in S /\ \A k \in Nat : k \in S => k + 1 \in S
    BY <1>6
<1> HIDE DEF S
<1>8. Nat \subseteq S
    BY <1>7, SetInduction
<1>9. \A k \in Nat : TwoTo[k] \in Nat \ {0}
    BY <1>8 DEF S
<1>10. QED
    BY <1>5, <1>6, <1>9

\* The level above v, whose trees have height k.
Above(v, k) == [b \in Nat |-> NodeHash(v[b], v[b + TwoTo[k]])]

\* g is a beginning of the levels of trees over these leaves.
Levels(leaf, g, n) == g = [k \in 0 .. n |-> IF k = 0 THEN leaf ELSE Above(g[k - 1], k - 1)]

LEMMA LevelsUnique ==
    ASSUME NEW leaf, NEW n \in Nat, NEW m \in Nat, n <= m, NEW g, NEW h,
           Levels(leaf, g, n), Levels(leaf, h, m)
    PROVE  \A k \in 0 .. n : g[k] = h[k]
<1> DEFINE S == {k \in Nat : k <= n => g[k] = h[k]}
<1>1. \A k \in 0 .. n : g[k] = IF k = 0 THEN leaf ELSE Above(g[k - 1], k - 1)
    BY DEF Levels
<1>2. \A k \in 0 .. n : h[k] = IF k = 0 THEN leaf ELSE Above(h[k - 1], k - 1)
  <2>1. \A k \in 0 .. m : h[k] = IF k = 0 THEN leaf ELSE Above(h[k - 1], k - 1)
    BY DEF Levels
  <2>2. QED
    BY <2>1
<1>3. 0 \in S
    BY <1>1, <1>2
<1>4. ASSUME NEW k \in Nat, k \in S PROVE k + 1 \in S
  <2>1. ASSUME k + 1 <= n PROVE g[k + 1] = h[k + 1]
    <3>1. g[k] = h[k] /\ k + 1 \in 0 .. n /\ k + 1 # 0 /\ k + 1 - 1 = k
      BY <1>4, <2>1
    <3>2. g[k + 1] = Above(g[k], k) /\ h[k + 1] = Above(h[k], k)
      BY <1>1, <1>2, <3>1
    <3>3. QED
      BY <3>1, <3>2
  <2>2. QED
    BY <2>1
<1> HIDE DEF S
<1>5. Nat \subseteq S
    BY <1>3, <1>4, SetInduction
<1>6. QED
    BY <1>5 DEF S

LEMMA LevelsExist == ASSUME NEW leaf PROVE \A n \in Nat : \E g : Levels(leaf, g, n)
<1> DEFINE S == {n \in Nat : \E g : Levels(leaf, g, n)}
<1>1. 0 \in S
  <2> DEFINE g == [k \in 0 .. 0 |-> leaf]
  <2>1. Levels(leaf, g, 0)
    BY DEF Levels
  <2>2. QED
    BY <2>1
<1>2. ASSUME NEW n \in Nat, n \in S PROVE n + 1 \in S
  <2>1. PICK g : Levels(leaf, g, n)
    BY <1>2
  <2> DEFINE h == [k \in 0 .. n + 1 |-> IF k <= n THEN g[k] ELSE Above(g[n], n)]
  <2>2. \A k \in 0 .. n : g[k] = IF k = 0 THEN leaf ELSE Above(g[k - 1], k - 1)
    BY <2>1 DEF Levels
  <2>3. \A k \in 0 .. n + 1 : h[k] = IF k = 0 THEN leaf ELSE Above(h[k - 1], k - 1)
    BY <2>2
  <2>4. Levels(leaf, h, n + 1)
    BY <2>3 DEF Levels
  <2>5. QED
    BY <2>4
<1> HIDE DEF S
<1>3. Nat \subseteq S
    BY <1>1, <1>2, SetInduction
<1>4. QED
    BY <1>3 DEF S

\* Tree is what its definition says.
LEMMA TreeIs ==
    ASSUME NEW leaf
    PROVE  /\ Tree(leaf)[0] = leaf
           /\ \A k \in Nat : Tree(leaf)[k + 1] = Above(Tree(leaf)[k], k)
<1> DEFINE upto(n) == CHOOSE g : Levels(leaf, g, n)
           f == [n \in Nat |-> upto(n)[n]]
<1>1. \A n \in Nat : Levels(leaf, upto(n), n)
    BY LevelsExist
<1> HIDE DEF upto
<1>2. \A n \in Nat : f[n] = IF n = 0 THEN leaf ELSE Above(f[n - 1], n - 1)
  <2> SUFFICES ASSUME NEW n \in Nat PROVE f[n] = IF n = 0 THEN leaf ELSE Above(f[n - 1], n - 1)
    OBVIOUS
  <2>1. upto(n)[n] = IF n = 0 THEN leaf ELSE Above(upto(n)[n - 1], n - 1)
    BY <1>1 DEF Levels
  <2>2. ASSUME n # 0 PROVE upto(n)[n - 1] = upto(n - 1)[n - 1]
    <3>1. n - 1 \in Nat /\ n - 1 <= n /\ n - 1 \in 0 .. n - 1
      BY <2>2
    <3>2. Levels(leaf, upto(n - 1), n - 1) /\ Levels(leaf, upto(n), n)
      BY <1>1, <3>1
    <3>3. \A k \in 0 .. n - 1 : upto(n - 1)[k] = upto(n)[k]
      BY <3>1, <3>2, LevelsUnique
    <3>4. QED
      BY <3>1, <3>3
  <2>3. QED
    BY <2>1, <2>2
<1>3. f = [n \in Nat |-> IF n = 0 THEN leaf ELSE Above(f[n - 1], n - 1)]
    BY <1>2
<1> HIDE DEF f
<1>4. Tree(leaf) = [n \in Nat |-> IF n = 0 THEN leaf ELSE Above(Tree(leaf)[n - 1], n - 1)]
    BY <1>3 DEF Tree, Above
<1> DEFINE tree == Tree(leaf)
<1>5. tree = [n \in Nat |-> IF n = 0 THEN leaf ELSE Above(tree[n - 1], n - 1)]
    BY <1>4
<1> HIDE DEF tree
<1>6. tree[0] = leaf /\ \A k \in Nat : tree[k + 1] = Above(tree[k], k)
    BY <1>5
<1>7. QED
    BY <1>6 DEF tree

-----------------------------------------------------------------------------
(* Powers of two and trees.                                                *)

\* The powers of two are not less than their exponents, and grow with them.
LEMMA TwoToGrows ==
    /\ \A k \in Nat : k < TwoTo[k]
    /\ \A j, k \in Nat : j < k => TwoTo[j] < TwoTo[k]
<1> DEFINE S == {k \in Nat : k < TwoTo[k] /\ \A j \in Nat : j < k => TwoTo[j] < TwoTo[k]}
<1>1. 0 \in S
    BY TwoToIs
<1>2. ASSUME NEW k \in Nat, k \in S PROVE k + 1 \in S
  <2>1. TwoTo[k + 1] = 2 * TwoTo[k] /\ TwoTo[k] \in Nat \ {0} /\ k < TwoTo[k]
    BY <1>2, TwoToIs
  <2>2. k + 1 < TwoTo[k + 1] /\ TwoTo[k] < TwoTo[k + 1] /\ TwoTo[k + 1] \in Nat
    BY <2>1
  <2>3. ASSUME NEW j \in Nat, j < k + 1 PROVE TwoTo[j] < TwoTo[k + 1]
    <3>1. CASE j = k
      BY <2>2, <3>1
    <3>2. CASE j # k
      <4>1. TwoTo[j] < TwoTo[k] /\ TwoTo[j] \in Nat
        BY <1>2, <2>3, <3>2, TwoToIs
      <4>2. QED
        BY <2>1, <2>2, <4>1
    <3>3. QED
      BY <3>1, <3>2
  <2>4. QED
    BY <2>2, <2>3
<1> HIDE DEF S
<1>3. Nat \subseteq S
    BY <1>1, <1>2, SetInduction
<1>4. QED
    BY <1>3 DEF S

LEMMA TwoToSum == \A m, k \in Nat : TwoTo[k + m] = TwoTo[k] * TwoTo[m]
<1> SUFFICES ASSUME NEW m \in Nat PROVE \A k \in Nat : TwoTo[k + m] = TwoTo[k] * TwoTo[m]
    OBVIOUS
<1> DEFINE S == {k \in Nat : TwoTo[k + m] = TwoTo[k] * TwoTo[m]}
<1>1. 0 \in S
    BY TwoToIs
<1>2. ASSUME NEW k \in Nat, k \in S PROVE k + 1 \in S
  <2>1. PICK x \in Nat : x = TwoTo[k]
    BY TwoToIs
  <2>2. PICK y \in Nat : y = TwoTo[m]
    BY TwoToIs
  <2>3. (k + m) + 1 = (k + 1) + m /\ k + m \in Nat
    OBVIOUS
  <2>4. TwoTo[(k + m) + 1] = 2 * (x * y)
    BY <1>2, <2>1, <2>2, <2>3, TwoToIs
  <2>5. TwoTo[k + 1] = 2 * x
    BY <2>1, TwoToIs
  <2>6. 2 * (x * y) = (2 * x) * y
    OBVIOUS
  <2>7. QED
    BY <2>2, <2>3, <2>4, <2>5, <2>6
<1> HIDE DEF S
<1>3. Nat \subseteq S
    BY <1>1, <1>2, SetInduction
<1>4. QED
    BY <1>3 DEF S

\* Log2 undoes TwoTo.
LEMMA Log2Is == ASSUME NEW h \in Nat PROVE Log2(TwoTo[h]) = h
<1>1. h \in 0 .. TwoTo[h]
    BY TwoToGrows, TwoToIs
<1>2. \A k \in 0 .. TwoTo[h] : TwoTo[k] = TwoTo[h] => k = h
  <2> SUFFICES ASSUME NEW k \in 0 .. TwoTo[h], TwoTo[k] = TwoTo[h], k # h PROVE FALSE
    OBVIOUS
  <2>1. k \in Nat /\ TwoTo[h] \in Nat
    BY TwoToIs
  <2>2. k < h \/ h < k
    BY <2>1
  <2>3. TwoTo[k] < TwoTo[h] \/ TwoTo[h] < TwoTo[k]
    BY <2>1, <2>2, TwoToGrows
  <2>4. QED
    BY <2>1, <2>3
<1>3. QED
    BY <1>1, <1>2 DEF Log2

-----------------------------------------------------------------------------
(* Trees.                                                                  *)

\* A node is made of the two trees below it.
LEMMA NodeIs ==
    ASSUME NEW leaf, NEW k \in Nat, NEW b \in Nat
    PROVE  Tree(leaf)[k + 1][b] = NodeHash(Tree(leaf)[k][b], Tree(leaf)[k][b + TwoTo[k]])
<1> DEFINE v == Tree(leaf)[k]
<1>1. Tree(leaf)[k + 1] = Above(v, k)
    BY TreeIs
<1> HIDE DEF v
<1>2. Above(v, k)[b] = NodeHash(v[b], v[b + TwoTo[k]])
    BY DEF Above
<1>3. QED
    BY <1>1, <1>2 DEF v

\* The 2^k leaves from a on of the one are those from b on of the other.
SameLeaves(one, a, two, b, k) == \A j \in 0 .. TwoTo[k] - 1 : one[a + j] = two[b + j]

SameRoots(one, a, two, b, k) == Tree(one)[k][a] = Tree(two)[k][b]

\* A tree depends on its own leaves only.
LEMMA TreeLocal ==
    ASSUME NEW one, NEW two
    PROVE  \A k, a, b \in Nat :
               SameLeaves(one, a, two, b, k) => SameRoots(one, a, two, b, k)
<1> DEFINE Same(k, a, b) == \A j \in 0 .. TwoTo[k] - 1 : one[a + j] = two[b + j]
           S == {k \in Nat : \A a, b \in Nat : Same(k, a, b) => Tree(one)[k][a] = Tree(two)[k][b]}
<1>1. 0 \in S
  <2> SUFFICES ASSUME NEW a \in Nat, NEW b \in Nat, Same(0, a, b)
               PROVE  Tree(one)[0][a] = Tree(two)[0][b]
    OBVIOUS
  <2>1. 0 \in 0 .. TwoTo[0] - 1 /\ a + 0 = a /\ b + 0 = b
    BY TwoToIs
  <2>2. one[a] = two[b]
    BY <2>1
  <2>3. QED
    BY <2>2, TreeIs
<1>2. ASSUME NEW k \in Nat, k \in S PROVE k + 1 \in S
  <2> SUFFICES ASSUME NEW a \in Nat, NEW b \in Nat, Same(k + 1, a, b)
               PROVE  Tree(one)[k + 1][a] = Tree(two)[k + 1][b]
    OBVIOUS
  <2>1. PICK t \in Nat : t = TwoTo[k] /\ TwoTo[k + 1] = 2 * t
    BY TwoToIs
  <2>2. Same(k, a, b)
    BY <2>1
  <2>3. Same(k, a + t, b + t)
    <3> SUFFICES ASSUME NEW j \in 0 .. t - 1 PROVE one[(a + t) + j] = two[(b + t) + j]
      BY <2>1
    <3>1. t + j \in 0 .. TwoTo[k + 1] - 1
      BY <2>1
    <3>2. one[a + (t + j)] = two[b + (t + j)]
      BY <3>1
    <3>3. (a + t) + j = a + (t + j) /\ (b + t) + j = b + (t + j)
      BY <2>1
    <3>4. QED
      BY <3>2, <3>3
  <2> HIDE DEF Same
  <2>4. /\ Tree(one)[k][a] = Tree(two)[k][b]
        /\ Tree(one)[k][a + t] = Tree(two)[k][b + t]
    BY <1>2, <2>2, <2>3
  <2>5. QED
    BY <2>1, <2>4, NodeIs
<1> HIDE DEF S
<1>3. Nat \subseteq S
    BY <1>1, <1>2, SetInduction
<1>4. QED
    BY <1>3 DEF S, SameLeaves, SameRoots

LEMMA TreeSame ==
    ASSUME NEW one, NEW two, NEW k \in Nat, NEW a \in Nat, NEW b \in Nat,
           SameLeaves(one, a, two, b, k)
    PROVE  SameRoots(one, a, two, b, k)
BY TreeLocal

\* The leaves of the one are the roots of the trees of height m in the other.
RootsAsLeaves(high, low, m) == \A j \in Nat : high[j] = Tree(low)[m][j * TwoTo[m]]

\* A tree whose leaves are the roots of trees of height m is one tree.
LEMMA TreeOfTrees ==
    ASSUME NEW low, NEW m \in Nat, NEW high, RootsAsLeaves(high, low, m)
    PROVE  \A k, j \in Nat : Tree(high)[k][j] = Tree(low)[k + m][j * TwoTo[m]]
<1> DEFINE S == {k \in Nat : \A j \in Nat : Tree(high)[k][j] = Tree(low)[k + m][j * TwoTo[m]]}
<1>1. 0 \in S
    BY TreeIs DEF RootsAsLeaves
<1>2. ASSUME NEW k \in Nat, k \in S PROVE k + 1 \in S
  <2> SUFFICES ASSUME NEW j \in Nat
               PROVE  Tree(high)[k + 1][j] = Tree(low)[(k + 1) + m][j * TwoTo[m]]
    OBVIOUS
  <2>1. PICK x \in Nat : x = TwoTo[k]
    BY TwoToIs
  <2>2. PICK y \in Nat : y = TwoTo[m]
    BY TwoToIs
  <2>3. PICK z \in Nat : z = j * y
    OBVIOUS
  <2>4. TwoTo[k + m] = x * y /\ x * y \in Nat /\ (j + x) * y = z + x * y
    <3>1. TwoTo[k + m] = x * y
      BY <2>1, <2>2, TwoToSum
    <3>2. x * y \in Nat /\ (j + x) * y = j * y + x * y
      OBVIOUS
    <3>3. QED
      BY <2>3, <3>1, <3>2
  <2>5. (k + 1) + m = (k + m) + 1 /\ k + m \in Nat /\ j + x \in Nat
    OBVIOUS
  <2>6. Tree(low)[(k + m) + 1][z] = NodeHash(Tree(low)[k + m][z], Tree(low)[k + m][z + x * y])
    <3>1. PICK d \in Nat : d = x * y
      BY <2>4
    <3>2. PICK n \in Nat : n = k + m
      BY <2>5
    <3>3. TwoTo[n] = d
      BY <2>4, <3>1, <3>2
    <3>4. Tree(low)[n + 1][z] = NodeHash(Tree(low)[n][z], Tree(low)[n][z + d])
      BY <3>3, NodeIs
    <3>5. QED
      BY <3>1, <3>2, <3>4
  <2>7. Tree(high)[k + 1][j] = NodeHash(Tree(high)[k][j], Tree(high)[k][j + x])
    BY <2>1, NodeIs
  <2>8. /\ Tree(high)[k][j] = Tree(low)[k + m][z]
        /\ Tree(high)[k][j + x] = Tree(low)[k + m][z + x * y]
    BY <1>2, <2>2, <2>3, <2>4, <2>5
  <2>9. QED
    BY <2>2, <2>3, <2>5, <2>6, <2>7, <2>8
<1> HIDE DEF S
<1>3. Nat \subseteq S
    BY <1>1, <1>2, SetInduction
<1>4. QED
    BY <1>3 DEF S

\* What fits as a multiple into n is not more than the quotient.
LEMMA Quotient ==
    ASSUME NEW d \in Nat \ {0}, NEW n \in Nat, NEW i \in Nat
    PROVE  n \div d \in Nat /\ (i <= n \div d <=> i * d <= n)
<1> DEFINE p == n \div d
<1>1. p \in Nat /\ p * d <= n /\ n < p * d + d
  <2>1. p \in Int /\ n = d * p + (n % d) /\ (n % d) \in 0 .. (d - 1)
    OBVIOUS
  <2>2. QED
    BY <2>1
<1> HIDE DEF p
<1>2. ASSUME i <= p PROVE i * d <= n
  <2>1. i * d <= p * d /\ i * d \in Nat /\ p * d \in Nat
    BY <1>1, <1>2, Monotonic
  <2>2. QED
    BY <1>1, <2>1
<1>3. ASSUME p < i PROVE ~ (i * d <= n)
  <2>1. p + 1 \in Nat /\ p + 1 <= i
    BY <1>1, <1>3
  <2>2. (p + 1) * d <= i * d /\ i * d \in Nat /\ (p + 1) * d = p * d + d
    BY <1>1, <2>1, Monotonic, NextMultiple
  <2>3. QED
    BY <1>1, <2>2
<1>4. QED
    BY <1>1, <1>2, <1>3 DEF p

\* The i-th of half as many pairs is made of two that are there.
LEMMA Pairs ==
    ASSUME NEW n \in Nat, NEW t \in Nat \ {0}, NEW i \in 1 .. (n \div (2 * t))
    PROVE  2 * i - 1 \in 1 .. (n \div t) /\ 2 * i \in 1 .. (n \div t)
<1>1. i \in Nat /\ 2 * t \in Nat \ {0} /\ 2 * i \in Nat
    BY Quotient
<1>2. i * (2 * t) <= n
    BY <1>1, Quotient
<1>3. i * (2 * t) = (2 * i) * t
    BY <1>1
<1>4. 2 * i <= n \div t /\ n \div t \in Nat
    BY <1>1, <1>2, <1>3, Quotient
<1>5. i >= 1
    BY Quotient
<1>6. QED
    BY <1>1, <1>4, <1>5

\* The sequence as leaves, with others behind it.
Extended(hashes, empty) == [b \in Nat |-> IF b < Len(hashes) THEN hashes[b + 1] ELSE empty]

\* MerkleRoot pairs up hashes level by level; what it makes is the tree over them.
LEMMA MerkleRootIs ==
    ASSUME NEW hashes, Len(hashes) \in Nat, NEW h \in Nat, NEW target, target = TwoTo[h], NEW empty
    PROVE  MerkleRoot(hashes, target, empty) = Tree(Extended(hashes, empty))[h][0]
<1> DEFINE T == Tree(Extended(hashes, empty))
           Row(v, k) == [i \in 1 .. (target \div TwoTo[k]) |-> NodeHash(v[2 * i - 1], v[2 * i])]
           Is(level) == level = [k \in Nat |->
               IF k = 0 THEN Padded(hashes, target, empty) ELSE Row(level[k - 1], k)]
           w == [k \in Nat |-> [i \in 1 .. (target \div TwoTo[k]) |-> T[k][(i - 1) * TwoTo[k]]]]
<1>0. target \in Nat /\ TwoTo[0] = 1 /\ target \div 1 = target
    BY TwoToIs
<1>a. \A k, b \in Nat : T[k + 1][b] = NodeHash(T[k][b], T[k][b + TwoTo[k]])
  <2> DEFINE leaf == Extended(hashes, empty)
  <2> HIDE DEF leaf
  <2>1. \A k, b \in Nat :
            Tree(leaf)[k + 1][b] = NodeHash(Tree(leaf)[k][b], Tree(leaf)[k][b + TwoTo[k]])
    BY NodeIs
  <2>2. QED
    BY <2>1 DEF leaf
<1>1. w[0] = Padded(hashes, target, empty)
  <2>1. T[0] = Extended(hashes, empty)
    BY TreeIs
  <2>2. \A i \in 1 .. target : T[0][(i - 1) * 1] = IF i <= Len(hashes) THEN hashes[i] ELSE empty
    BY <1>0, <2>1 DEF Extended
  <2> HIDE DEF T
  <2>3. w[0] = [i \in 1 .. target |-> T[0][(i - 1) * 1]]
    BY <1>0
  <2>4. QED
    BY <2>2, <2>3 DEF Padded
<1>2. ASSUME NEW k \in Nat PROVE w[k + 1] = Row(w[k], k + 1)
  <2>1. PICK t \in Nat \ {0} : t = TwoTo[k] /\ TwoTo[k + 1] = 2 * t
    BY TwoToIs
  <2>2. ASSUME NEW i \in 1 .. (target \div (2 * t))
        PROVE  /\ T[k + 1][(i - 1) * (2 * t)] = NodeHash(w[k][2 * i - 1], w[k][2 * i])
    <3>1. 2 * i - 1 \in 1 .. (target \div t) /\ 2 * i \in 1 .. (target \div t)
      BY <1>0, <2>1, Pairs
    <3>2. PICK j \in Nat : i = j + 1
      <4>1. i - 1 \in Nat /\ i = (i - 1) + 1
        BY <3>1
      <4>2. QED
        BY <4>1
    <3>a. PICK b \in Nat : b = j * (2 * t)
      BY SMTT(30), <2>1, <3>2
    <3>3. b = (i - 1) * (2 * t) /\ ((2 * i - 1) - 1) * t = b /\ (2 * i - 1) * t = b + t
      <4>1. i - 1 = j /\ (2 * i - 1) - 1 = 2 * j /\ 2 * i - 1 = 2 * j + 1
        BY <3>2
      <4>2. (2 * j) * t = j * (2 * t) /\ (2 * j + 1) * t = (2 * j) * t + t
        BY <2>1, <3>2
      <4>3. QED
        BY <3>a, <4>1, <4>2
    <3> HIDE DEF T
    <3>4. w[k][2 * i - 1] = T[k][b] /\ w[k][2 * i] = T[k][b + t]
      BY <2>1, <3>1, <3>3
    <3>5. T[k + 1][b] = NodeHash(T[k][b], T[k][b + t])
      BY <1>a, <2>1, <3>a
    <3>6. QED
      BY <3>3, <3>4, <3>5
  <2> DEFINE v == w[k]
  <2>3. w[k + 1] = [i \in 1 .. (target \div (2 * t)) |-> T[k + 1][(i - 1) * (2 * t)]]
    <3> HIDE DEF T
    <3>1. w[k + 1] = [i \in 1 .. (target \div TwoTo[k + 1]) |-> T[k + 1][(i - 1) * TwoTo[k + 1]]]
      OBVIOUS
    <3> HIDE DEF w
    <3>2. QED
      BY <2>1, <3>1
  <2>4. \A i \in 1 .. (target \div (2 * t)) :
            T[k + 1][(i - 1) * (2 * t)] = NodeHash(v[2 * i - 1], v[2 * i])
    BY <2>2
  <2> HIDE DEF T, w, v
  <2>5. w[k + 1] = [i \in 1 .. (target \div (2 * t)) |-> NodeHash(v[2 * i - 1], v[2 * i])]
    BY <2>3, <2>4
  <2>6. QED
    BY <2>1, <2>5 DEF v
<1> HIDE DEF Row
<1>3. Is(w)
  <2>1. \A k \in Nat : w[k] = IF k = 0 THEN Padded(hashes, target, empty) ELSE Row(w[k - 1], k)
    <3> SUFFICES ASSUME NEW k \in Nat, k # 0 PROVE w[k] = Row(w[k - 1], k)
      BY <1>1
    <3>1. k - 1 \in Nat /\ (k - 1) + 1 = k
      OBVIOUS
    <3> HIDE DEF w
    <3>2. QED
      BY <1>2, <3>1
  <2>2. w = [k \in Nat |-> w[k]]
    OBVIOUS
  <2> HIDE DEF w
  <2>3. QED
    BY <2>1, <2>2
<1> DEFINE level == CHOOSE l : Is(l)
<1>4. Is(level)
    BY <1>3
<1>5. MerkleRoot(hashes, target, empty) = level[Log2(target)][1]
    BY DEF MerkleRoot, Row
<1> HIDE DEF level
<1>6. level[h] = w[h]
  <2> DEFINE S == {k \in Nat : level[k] = w[k]}
  <2>1. 0 \in S
    <3> HIDE DEF w
    <3>1. QED
      BY <1>3, <1>4
  <2>2. ASSUME NEW k \in Nat, k \in S PROVE k + 1 \in S
    <3> HIDE DEF w
    <3>1. k + 1 \in Nat /\ k + 1 # 0 /\ (k + 1) - 1 = k
      OBVIOUS
    <3>2. level[k + 1] = Row(level[k], k + 1) /\ w[k + 1] = Row(w[k], k + 1)
      BY <1>3, <1>4, <3>1
    <3>3. QED
      BY <2>2, <3>2
  <2> HIDE DEF S
  <2>3. Nat \subseteq S
    BY <2>1, <2>2, SetInduction
  <2>4. QED
    BY <2>3 DEF S
<1>7. w[h][1] = T[h][0]
  <2>1. target \div TwoTo[h] = 1
    <3>1. PICK x \in Nat \ {0} : x = TwoTo[h]
      BY TwoToIs
    <3>2. 1 * x <= x /\ x < 1 * x + x
      OBVIOUS
    <3>3. x \div x = 1
      BY <3>2, DivisionIs
    <3>4. QED
      BY <3>1, <3>3
  <2>2. (1 - 1) * TwoTo[h] = 0
    BY TwoToIs
  <2> HIDE DEF T
  <2>3. QED
    BY <2>1, <2>2
<1>8. Log2(target) = h
    BY Log2Is
<1>9. QED
    BY <1>5, <1>6, <1>7, <1>8

\* The empty subtree.
LEMMA ZeroSubtreeIs ==
    ASSUME NEW h \in Nat
    PROVE  ZeroSubtreeRoot(TwoTo[h]) = Tree([b \in Nat |-> ZeroHash])[h][0]
<1> DEFINE zero == [b \in Nat |-> ZeroHash]
           Is(r_) == r_ = [k \in Nat |->
               IF k = 0 THEN ZeroHash ELSE NodeHash(r_[k - 1], r_[k - 1])]
           w == [k \in Nat |-> Tree(zero)[k][0]]
<1>1. w[0] = ZeroHash
    BY TreeIs
<1>2. ASSUME NEW k \in Nat PROVE w[k + 1] = NodeHash(w[k], w[k])
  <2>1. TwoTo[k] \in Nat
    BY TwoToIs
  <2>2. SameLeaves(zero, 0, zero, TwoTo[k], k)
    BY <2>1 DEF SameLeaves
  <2> HIDE DEF zero
  <2>3. Tree(zero)[k][0] = Tree(zero)[k][TwoTo[k]]
    <3>1. 0 \in Nat
      OBVIOUS
    <3>2. PICK t \in Nat : t = TwoTo[k]
      BY <2>1
    <3>3. SameRoots(zero, 0, zero, t, k)
      BY <2>2, <3>1, <3>2, TreeSame
    <3>4. QED
      BY <3>2, <3>3 DEF SameRoots
  <2>4. Tree(zero)[k + 1][0] = NodeHash(Tree(zero)[k][0], Tree(zero)[k][0 + TwoTo[k]])
    BY NodeIs
  <2>5. QED
    BY <2>1, <2>3, <2>4
<1> HIDE DEF zero
<1>3. Is(w)
  <2>1. \A k \in Nat : w[k] = IF k = 0 THEN ZeroHash ELSE NodeHash(w[k - 1], w[k - 1])
    <3> SUFFICES ASSUME NEW k \in Nat, k # 0 PROVE w[k] = NodeHash(w[k - 1], w[k - 1])
      BY <1>1
    <3>1. k - 1 \in Nat /\ (k - 1) + 1 = k
      OBVIOUS
    <3> HIDE DEF w
    <3>2. QED
      BY <1>2, <3>1
  <2>2. w = [k \in Nat |-> w[k]]
    OBVIOUS
  <2> HIDE DEF w
  <2>3. QED
    BY <2>1, <2>2
<1> DEFINE r == CHOOSE l : Is(l)
<1>4. Is(r)
    BY <1>3
<1>5. ZeroSubtreeRoot(TwoTo[h]) = r[Log2(TwoTo[h])]
    BY DEF ZeroSubtreeRoot
<1> HIDE DEF r
<1>6. r[h] = w[h]
  <2> DEFINE S == {k \in Nat : r[k] = w[k]}
  <2> HIDE DEF w
  <2>1. 0 \in S
    BY <1>3, <1>4
  <2>2. ASSUME NEW k \in Nat, k \in S PROVE k + 1 \in S
    <3>1. k + 1 \in Nat /\ k + 1 # 0 /\ (k + 1) - 1 = k
      OBVIOUS
    <3>2. r[k + 1] = NodeHash(r[k], r[k]) /\ w[k + 1] = NodeHash(w[k], w[k])
      BY <1>3, <1>4, <3>1
    <3>3. QED
      BY <2>2, <3>2
  <2> HIDE DEF S
  <2>3. Nat \subseteq S
    BY <2>1, <2>2, SetInduction
  <2>4. QED
    BY <2>3 DEF S
<1>7. QED
    BY <1>5, <1>6, Log2Is DEF zero

\* Every set of numbers with one in it has a least one.
LEMMA LeastNumber ==
    ASSUME NEW T, NEW n \in Nat, n \in T
    PROVE  \E m \in Nat : m \in T /\ \A k \in Nat : k < m => k \notin T
<1> SUFFICES ASSUME \A m \in Nat : m \in T => \E k \in Nat : k < m /\ k \in T
             PROVE  FALSE
    OBVIOUS
<1> DEFINE S == {m \in Nat : \A k \in Nat : k <= m => k \notin T}
<1>1. 0 \in S
    OBVIOUS
<1>2. ASSUME NEW m \in Nat, m \in S PROVE m + 1 \in S
  <2>1. \A k \in Nat : k < m + 1 => k \notin T
    BY <1>2
  <2>2. m + 1 \notin T
    BY <2>1
  <2>3. QED
    BY <2>1, <2>2
<1> HIDE DEF S
<1>3. Nat \subseteq S
    BY <1>1, <1>2, SetInduction
<1>4. QED
    BY <1>3 DEF S

\* The first power of two that is not less than n.
LEMMA NextPowerOfTwoIs ==
    ASSUME NEW n \in Nat \ {0}
    PROVE  \E h \in Nat : /\ NextPowerOfTwo(n) = TwoTo[h]
                          /\ n <= TwoTo[h]
                          /\ h = 0 \/ TwoTo[h - 1] < n
<1> DEFINE T == {k \in Nat : TwoTo[k] >= n}
           First(k) == TwoTo[k] >= n /\ (k = 0 \/ TwoTo[k - 1] < n)
<1>1. n \in T
    BY TwoToGrows, TwoToIs
<1>2. \E m \in Nat : m \in T /\ \A k \in Nat : k < m => k \notin T
  <2> HIDE DEF T
  <2>1. QED
    BY <1>1, LeastNumber
<1>3. PICK m \in Nat : m \in T /\ \A k \in Nat : k < m => k \notin T
    BY <1>2
<1>4. First(m)
  <2>1. ASSUME m # 0 PROVE TwoTo[m - 1] < n
    <3>1. m - 1 \in Nat /\ m - 1 < m
      BY <2>1
    <3>2. ~ (TwoTo[m - 1] >= n) /\ TwoTo[m - 1] \in Nat
      BY <1>3, <3>1, TwoToIs
    <3>3. QED
      BY <3>2
  <2>2. QED
    BY <1>3, <2>1
<1>5. m \in 0 .. n
  <2>1. ~ (n < m)
    BY <1>1, <1>3
  <2>2. QED
    BY <2>1
<1> HIDE DEF First
<1> DEFINE h == CHOOSE k \in 0 .. n : First(k)
<1>6. h \in 0 .. n /\ First(h)
    BY <1>4, <1>5
<1>7. NextPowerOfTwo(n) = TwoTo[h]
    BY DEF NextPowerOfTwo, First
<1> HIDE DEF h
<1>8. h \in Nat /\ TwoTo[h] \in Nat
    BY <1>6, TwoToIs
<1>9. QED
    BY <1>6, <1>7, <1>8 DEF First

\* The height of the tree over a whole file.
LEMMA HeightIs ==
    ASSUME NEW size \in Nat, NEW h \in Nat, TwoTo[h] * BlockLength >= size,
           h = 0 \/ TwoTo[h - 1] * BlockLength < size
    PROVE  Height(size) = h
<1> DEFINE BL == BlockLength
           Fits(k) == TwoTo[k] * BL >= size /\ \A g \in 0 .. (k - 1) : TwoTo[g] * BL < size
<1>1. BL \in Nat \ {0}
    BY PieceLengthPositive
<1> HIDE DEF BL
<1>2. ASSUME NEW j \in Nat, NEW k \in Nat, j <= k
      PROVE  TwoTo[j] * BL <= TwoTo[k] * BL /\ TwoTo[j] * BL \in Nat /\ TwoTo[k] * BL \in Nat
  <2>1. TwoTo[j] \in Nat /\ TwoTo[k] \in Nat /\ TwoTo[j] <= TwoTo[k]
    <3>1. TwoTo[j] \in Nat /\ TwoTo[k] \in Nat
      BY TwoToIs
    <3>2. CASE j = k
      BY <3>1, <3>2
    <3>3. CASE j < k
      <4>1. TwoTo[j] < TwoTo[k]
        BY <3>3, TwoToGrows
      <4>2. QED
        BY <3>1, <4>1
    <3>4. QED
      BY <1>2, <3>2, <3>3
  <2>2. QED
    BY <1>1, <2>1, Monotonic
<1>3. \A g \in 0 .. (h - 1) : TwoTo[g] * BL < size
  <2> SUFFICES ASSUME NEW g \in 0 .. (h - 1) PROVE TwoTo[g] * BL < size
    OBVIOUS
  <2>1. g \in Nat /\ h - 1 \in Nat /\ g <= h - 1 /\ h # 0
    OBVIOUS
  <2>2. TwoTo[g] * BL <= TwoTo[h - 1] * BL /\ TwoTo[g] * BL \in Nat /\ TwoTo[h - 1] * BL \in Nat
    BY <1>2, <2>1
  <2>3. TwoTo[h - 1] * BL < size
    BY <2>1 DEF BL
  <2>4. QED
    BY <2>2, <2>3
<1>4. Fits(h)
    BY <1>3 DEF BL
<1>5. h \in 0 .. size
  <2> SUFFICES ASSUME size < h PROVE FALSE
    OBVIOUS
  <2>1. TwoTo[size] * BL < size
    BY <1>3
  <2>2. size < TwoTo[size] /\ TwoTo[size] \in Nat
    BY TwoToGrows, TwoToIs
  <2>3. TwoTo[size] * 1 <= TwoTo[size] * BL
    BY <1>1, <2>2
  <2>4. QED
    BY <1>2, <2>1, <2>2, <2>3
<1>6. \A k \in 0 .. size : Fits(k) => k = h
  <2> SUFFICES ASSUME NEW k \in 0 .. size, Fits(k), k # h PROVE FALSE
    OBVIOUS
  <2>1. k < h \/ h < k
    OBVIOUS
  <2>2. CASE k < h
    <3>1. TwoTo[k] * BL < size /\ TwoTo[k] * BL >= size
      BY <1>3, <2>2
    <3>2. QED
      BY <1>2, <3>1
  <2>3. CASE h < k
    <3>1. TwoTo[h] * BL < size /\ TwoTo[h] * BL >= size
      BY <1>4, <2>3
    <3>2. QED
      BY <1>2, <3>1
  <2>4. QED
    BY <2>1, <2>2, <2>3
<1>7. Height(size) = CHOOSE k \in 0 .. size : Fits(k)
    BY DEF Height, BL
<1> HIDE DEF Fits
<1>8. QED
    BY <1>4, <1>5, <1>6, <1>7

-----------------------------------------------------------------------------
(* Trees over the blocks of a file.                                        *)

Depth == Log2(BlocksPerPiece)

LEMMA DepthIs == Depth \in Nat /\ TwoTo[Depth] = BlocksPerPiece
<1>1. PICK k \in Nat : BlocksPerPiece = TwoTo[k]
    BY HashesAssumption
<1>2. Log2(TwoTo[k]) = k
    BY Log2Is
<1>3. QED
    BY <1>1, <1>2 DEF Depth

\* n hashes of blocks from block s on.
Run(f, size, s, n) == [j \in 1 .. n |-> BlocksOf(f, size)[s + j - 1]]

\* The root of a run of blocks, of a whole tree or up to the end of the file.
LEMMA RunRoot ==
    ASSUME NEW f, NEW size \in Nat, NEW s \in Nat, NEW n \in Nat, NEW h \in Nat,
           NEW target, target = TwoTo[h],
           TwoTo[h] <= n \/ (s + n) * BlockLength >= size
    PROVE  MerkleRoot(Run(f, size, s, n), target, ZeroHash) = TreeAt(f, size, h, s)
<1> DEFINE BL == BlockLength
           run == Run(f, size, s, n)
           blocks == BlocksOf(f, size)
           row == Extended(run, ZeroHash)
<1>1. BL \in Nat \ {0} /\ TwoTo[h] \in Nat
    BY PieceLengthPositive, TwoToIs
<1>2. Len(run) = n
  <2>1. run \in Seq({blocks[s + j - 1] : j \in 1 .. n})
    <3>1. run \in [1 .. n -> {blocks[s + j - 1] : j \in 1 .. n}]
      BY DEF Run
    <3>2. QED
      BY <3>1, SeqDef
  <2>2. DOMAIN run = 1 .. n
    BY DEF Run
  <2>3. QED
    BY <2>1, <2>2, LenProperties
<1>3. ASSUME NEW j \in 0 .. TwoTo[h] - 1 PROVE row[0 + j] = blocks[s + j]
  <2>1. j \in Nat /\ 0 + j = j /\ row[j] = IF j < n THEN run[j + 1] ELSE ZeroHash
    BY <1>1, <1>2 DEF Extended
  <2>2. CASE j < n
    <3>1. j + 1 \in 1 .. n /\ s + (j + 1) - 1 = s + j
      BY <2>1, <2>2
    <3>2. QED
      BY <2>1, <2>2, <3>1 DEF Run
  <2>3. CASE ~ (j < n)
    <3>1. (s + n) * BL >= size
      BY <1>1, <2>3
    <3>2. s + n \in Nat /\ s + j \in Nat /\ s + n <= s + j
      BY <2>1, <2>3
    <3>3. (s + n) * BL <= (s + j) * BL /\ (s + n) * BL \in Nat /\ (s + j) * BL \in Nat
      BY <1>1, <3>2, Monotonic
    <3>4. (s + j) * BL >= size
      BY <3>1, <3>3
    <3>5. blocks[s + j] = ZeroHash
      BY <3>2, <3>4 DEF BlocksOf
    <3>6. QED
      BY <2>1, <2>3, <3>5
  <2>4. QED
    BY <2>2, <2>3
<1> HIDE DEF row, blocks
<1>4. SameLeaves(row, 0, blocks, s, h)
    BY <1>3 DEF SameLeaves
<1>5. Tree(row)[h][0] = Tree(blocks)[h][s]
  <2>1. SameRoots(row, 0, blocks, s, h)
    BY <1>4, TreeSame
  <2>2. QED
    BY <2>1 DEF SameRoots
<1> HIDE DEF run
<1>6. MerkleRoot(run, target, ZeroHash) = Tree(row)[h][0]
    BY <1>2, MerkleRootIs DEF row
<1>7. QED
    BY <1>5, <1>6 DEF TreeAt, blocks, run

\* The roots of the first k pieces of a file.
Roots(f, size, k) == [i \in 1 .. k |-> TreeAt(f, size, Depth, (i - 1) * BlocksPerPiece)]

\* The root of more than one piece is the root of the file.
LEMMA PiecesRoot ==
    ASSUME NEW f, NEW size \in Nat, NEW c \in Nat \ {0}, size <= c * PieceLength, NEW h \in Nat,
           NEW target, target = TwoTo[h]
    PROVE  MerkleRoot(Roots(f, size, c), target, ZeroSubtreeRoot(BlocksPerPiece))
             = TreeAt(f, size, h + Depth, 0)
<1> DEFINE BL == BlockLength
           BPP == BlocksPerPiece
           pieces == Roots(f, size, c)
           blocks == BlocksOf(f, size)
           zero == [b \in Nat |-> ZeroHash]
           z == ZeroSubtreeRoot(BPP)
           high == Extended(pieces, z)
<1>1. BL \in Nat \ {0} /\ BPP \in Nat \ {0} /\ PieceLength = BL * BPP /\ Depth \in Nat
      /\ TwoTo[Depth] = BPP
    BY PieceLengthPositive, DepthIs DEF PieceLength
<1>2. Len(pieces) = c
  <2>1. pieces \in Seq({TreeAt(f, size, Depth, (i - 1) * BPP) : i \in 1 .. c})
    <3>1. pieces \in [1 .. c -> {TreeAt(f, size, Depth, (i - 1) * BPP) : i \in 1 .. c}]
      BY DEF Roots
    <3>2. QED
      BY <3>1, SeqDef
  <2>2. DOMAIN pieces = 1 .. c
    BY DEF Roots
  <2>3. QED
    BY <2>1, <2>2, LenProperties
<1>3. z = Tree(zero)[Depth][0]
    BY <1>1, ZeroSubtreeIs
<1>4. ASSUME NEW j \in Nat PROVE high[j] = Tree(blocks)[Depth][j * BPP]
  <2>1. high[j] = IF j < c THEN pieces[j + 1] ELSE z
    BY <1>2 DEF Extended
  <2>2. CASE j < c
    <3>1. j + 1 \in 1 .. c /\ (j + 1) - 1 = j
      BY <2>2
    <3>2. pieces[j + 1] = TreeAt(f, size, Depth, ((j + 1) - 1) * BPP)
      BY <3>1 DEF Roots
    <3>3. pieces[j + 1] = TreeAt(f, size, Depth, j * BPP)
      BY <3>1, <3>2
    <3>4. QED
      BY <2>1, <2>2, <3>3 DEF TreeAt
  <2>3. CASE ~ (j < c)
    <3>1. PICK s \in Nat : s = j * BPP
      BY <1>1
    <3>2. ASSUME NEW i \in 0 .. BPP - 1 PROVE blocks[s + i] = ZeroHash
      <4>1. s + i \in Nat /\ s <= s + i /\ s \in Nat
        BY <1>1, <3>1
      <4>2. s * BL <= (s + i) * BL /\ s * BL \in Nat /\ (s + i) * BL \in Nat
        BY <1>1, <4>1, Monotonic
      <4>3. c * (BL * BPP) <= j * (BL * BPP)
        <5>1. BL * BPP \in Nat \ {0} /\ c \in Nat /\ c <= j
          BY <1>1, <2>3, PieceLengthPositive
        <5>2. QED
          BY <5>1, Monotonic
      <4>4. s * BL = j * (BL * BPP)
        BY <1>1, <3>1
      <4>5. size <= (s + i) * BL
        <5>1. c * (BL * BPP) \in Nat /\ size <= c * (BL * BPP)
          BY <1>1
        <5>2. QED
          BY <4>2, <4>3, <4>4, <5>1
      <4>6. QED
        BY <4>1, <4>5 DEF BlocksOf
    <3> HIDE DEF blocks
    <3>3. SameLeaves(zero, 0, blocks, s, Depth)
      BY <1>1, <3>2 DEF SameLeaves
    <3> HIDE DEF zero
    <3>4. Tree(zero)[Depth][0] = Tree(blocks)[Depth][s]
      <4>1. SameRoots(zero, 0, blocks, s, Depth)
        BY <1>1, <3>3, TreeSame
      <4>2. QED
        BY <4>1 DEF SameRoots
    <3>5. QED
      BY <1>3, <2>1, <2>3, <3>1, <3>4
  <2>4. QED
    BY <2>2, <2>3
<1> HIDE DEF high, blocks, pieces, z
<1>5. \A j \in Nat : high[j] = Tree(blocks)[Depth][j * TwoTo[Depth]]
    BY <1>1, <1>4
<1>6. \A k, j \in Nat : Tree(high)[k][j] = Tree(blocks)[k + Depth][j * TwoTo[Depth]]
  <2>1. RootsAsLeaves(high, blocks, Depth)
    BY <1>5 DEF RootsAsLeaves
  <2>2. QED
    BY <1>1, <2>1, TreeOfTrees
<1>7. Tree(high)[h][0] = Tree(blocks)[h + Depth][0]
  <2>1. 0 * TwoTo[Depth] = 0
    BY <1>1
  <2>2. QED
    BY <1>6, <2>1
<1>8. MerkleRoot(pieces, target, z) = Tree(high)[h][0]
    BY <1>2, MerkleRootIs DEF high
<1>9. QED
    BY <1>7, <1>8 DEF TreeAt, blocks, pieces, z

-----------------------------------------------------------------------------
(* The end of a file.                                                      *)

\* Places are counted in pieces and blocks.
LEMMA PlaceInBlocks ==
    ASSUME NEW k \in Nat, NEW n \in Nat
    PROVE  /\ k * BlocksPerPiece + n \in Nat
           /\ (k * BlocksPerPiece + n) * BlockLength = k * PieceLength + n * BlockLength
           /\ k * PieceLength \in Nat /\ n * BlockLength \in Nat
<1>1. BlockLength \in Nat \ {0} /\ BlocksPerPiece \in Nat \ {0}
    BY PieceLengthPositive
<1>2. PICK a \in Nat : a = k * BlocksPerPiece
    BY <1>1
<1>3. (a + n) * BlockLength = a * BlockLength + n * BlockLength
    BY <1>1
<1>4. a * BlockLength = k * PieceLength
    BY <1>1, <1>2 DEF PieceLength
<1>5. k * PieceLength \in Nat /\ n * BlockLength \in Nat
    BY <1>1, PieceLengthPositive
<1>6. QED
    BY <1>2, <1>3, <1>4, <1>5

\* Where the file ends there are k whole pieces and m blocks, the last one of
\* them perhaps not whole.
Ends(size, k, m) ==
    /\ size \in Nat /\ k \in Nat /\ m \in Nat /\ m < BlocksPerPiece
    /\ size <= k * PieceLength + m * BlockLength
    /\ IF size = 0 THEN k = 0 /\ m = 0 ELSE k * PieceLength + m * BlockLength < size + BlockLength

LEMMA RootsAre ==
    ASSUME NEW f, NEW size, NEW k \in Nat
    PROVE  /\ Len(Roots(f, size, k)) = k
           /\ Roots(f, size, k) = <<>> <=> k = 0
           /\ Roots(f, size, 0) = <<>>
           /\ k # 0 => Roots(f, size, k)[1] = TreeAt(f, size, Depth, 0)
<1> DEFINE r == Roots(f, size, k)
           S == {TreeAt(f, size, Depth, (i - 1) * BlocksPerPiece) : i \in 1 .. k}
<1>1. r \in [1 .. k -> S]
    BY DEF Roots
<1>2. r \in Seq(S)
    BY <1>1, SeqDef
<1>3. Len(r) = k
  <2>1. DOMAIN r = 1 .. k
    BY <1>1
  <2> HIDE DEF r
  <2>2. QED
    BY <1>2, <2>1, LenProperties
<1>4. k # 0 => r[1] = TreeAt(f, size, Depth, 0)
  <2> SUFFICES ASSUME k # 0 PROVE r[1] = TreeAt(f, size, Depth, 0)
    OBVIOUS
  <2>1. 1 \in 1 .. k /\ (1 - 1) * BlocksPerPiece = 0
    BY PieceLengthPositive
  <2>2. r[1] = TreeAt(f, size, Depth, (1 - 1) * BlocksPerPiece)
    BY <2>1 DEF Roots
  <2>3. QED
    BY <2>1, <2>2
<1>5. Roots(f, size, 0) = <<>>
    BY DEF Roots
<1> HIDE DEF r
<1>6. r = <<>> <=> k = 0
    BY <1>2, <1>3, EmptySeq
<1>7. QED
    BY <1>3, <1>4, <1>5, <1>6 DEF r

\* One more piece.
LEMMA RootsAppend ==
    ASSUME NEW f, NEW size, NEW k \in Nat
    PROVE  Append(Roots(f, size, k), TreeAt(f, size, Depth, k * BlocksPerPiece))
             = Roots(f, size, k + 1)
<1> DEFINE h == Roots(f, size, k + 1)
           g == Roots(f, size, k)
<1>1. h = [i \in 1 .. (k + 1) |-> h[i]]
    BY DEF Roots
<1>2. g = [i \in 1 .. k |-> h[i]]
  <2>1. \A i \in 1 .. k : i \in 1 .. (k + 1)
    OBVIOUS
  <2>2. \A i \in 1 .. k : h[i] = TreeAt(f, size, Depth, (i - 1) * BlocksPerPiece)
    BY <2>1 DEF Roots
  <2>3. QED
    BY <2>2 DEF Roots
<1>3. h[k + 1] = TreeAt(f, size, Depth, k * BlocksPerPiece)
  <2>1. k + 1 \in 1 .. (k + 1) /\ (k + 1) - 1 = k
    OBVIOUS
  <2>2. h[k + 1] = TreeAt(f, size, Depth, ((k + 1) - 1) * BlocksPerPiece)
    BY <2>1 DEF Roots
  <2>3. QED
    BY <2>1, <2>2
<1> HIDE DEF g, h
<1>4. PICK m \in Nat : m = k + 1
    OBVIOUS
<1>5. Append(g, h[m]) = h
    BY <1>1, <1>2, <1>4, AppendLast
<1>6. QED
    BY <1>3, <1>4, <1>5 DEF g, h

\* One more block.
LEMMA RunAppend ==
    ASSUME NEW f, NEW size, NEW s \in Nat, NEW n \in Nat
    PROVE  Append(Run(f, size, s, n), BlocksOf(f, size)[s + n]) = Run(f, size, s, n + 1)
<1> DEFINE h == Run(f, size, s, n + 1)
           g == Run(f, size, s, n)
           blocks == BlocksOf(f, size)
<1> HIDE DEF blocks
<1>1. h = [i \in 1 .. (n + 1) |-> h[i]]
    BY DEF Run
<1>2. g = [i \in 1 .. n |-> h[i]]
  <2>1. \A i \in 1 .. n : i \in 1 .. (n + 1)
    OBVIOUS
  <2>2. \A i \in 1 .. n : h[i] = blocks[s + i - 1]
    BY <2>1 DEF Run, blocks
  <2>3. QED
    BY <2>2 DEF Run, blocks
<1>3. h[n + 1] = blocks[s + n]
  <2>1. n + 1 \in 1 .. (n + 1) /\ s + (n + 1) - 1 = s + n
    OBVIOUS
  <2>2. h[n + 1] = blocks[s + (n + 1) - 1]
    BY <2>1 DEF Run, blocks
  <2>3. QED
    BY <2>1, <2>2
<1> HIDE DEF g, h
<1>4. PICK m \in Nat : m = n + 1
    OBVIOUS
<1>5. Append(g, h[m]) = h
    BY <1>1, <1>2, <1>4, AppendLast
<1>6. QED
    BY <1>3, <1>4, <1>5 DEF g, h, blocks

LEMMA RunIs ==
    ASSUME NEW f, NEW size, NEW s \in Nat, NEW n \in Nat
    PROVE  /\ Len(Run(f, size, s, n)) = n
           /\ Run(f, size, s, n) = <<>> <=> n = 0
           /\ Run(f, size, s, 0) = <<>>
<1> DEFINE r == Run(f, size, s, n)
           S == {BlocksOf(f, size)[s + i - 1] : i \in 1 .. n}
<1>1. r \in [1 .. n -> S]
    BY DEF Run
<1>2. r \in Seq(S)
    BY <1>1, SeqDef
<1>3. Len(r) = n
  <2>1. DOMAIN r = 1 .. n
    BY <1>1
  <2> HIDE DEF r
  <2>2. QED
    BY <1>2, <2>1, LenProperties
<1>5. Run(f, size, s, 0) = <<>>
    BY DEF Run
<1> HIDE DEF r
<1>6. r = <<>> <=> n = 0
    BY <1>2, <1>3, EmptySeq
<1>7. QED
    BY <1>3, <1>5, <1>6 DEF r

RunFacts(f, size, s, n) ==
    /\ Len(Run(f, size, s, n)) = n
    /\ Run(f, size, s, n) = <<>> <=> n = 0

LEMMA RunsAre ==
    ASSUME NEW f, NEW size, NEW s \in Nat, NEW n \in Nat
    PROVE  RunFacts(f, size, s, n)
  BY RunIs DEF RunFacts

-----------------------------------------------------------------------------
(* The roots at the end of the file.                                       *)

TargetFor(size, n) == IF size <= PieceLength THEN NextPowerOfTwo(n) ELSE BlocksPerPiece

\* What Finalize makes of the roots of k pieces and of m leaves.
LastRoots(f, size, k, m) ==
    IF m = 0 THEN Roots(f, size, k)
    ELSE Append(Roots(f, size, k),
                MerkleRoot(Run(f, size, k * BlocksPerPiece, m), TargetFor(size, m), ZeroHash))

RootFrom(pieces, size) ==
    IF pieces = <<>> THEN <<>>
    ELSE IF size <= PieceLength THEN pieces[1]
    ELSE MerkleRoot(pieces, NextPowerOfTwo(Len(pieces)), ZeroSubtreeRoot(BlocksPerPiece))

LEMMA EmptyFile ==
    ASSUME NEW f, NEW k, NEW m, Ends(0, k, m)
    PROVE  /\ LastRoots(f, 0, k, m) = V2Of(f, 0)
           /\ RootFrom(LastRoots(f, 0, k, m), 0) = RootOf(f, 0)
<1>1. k = 0 /\ m = 0
    BY DEF Ends
<1>2. LastRoots(f, 0, k, m) = <<>>
    BY <1>1, RootsAre DEF LastRoots
<1>3. QED
    BY <1>2 DEF RootFrom, V2Of, RootOf

\* A file of one piece: its tree is as high as the file needs.
LEMMA SmallFile ==
    ASSUME NEW f, NEW size, NEW k, NEW m, Ends(size, k, m), size # 0, size <= PieceLength
    PROVE  LastRoots(f, size, k, m) = <<TreeAt(f, size, Height(size), 0)>>
<1> DEFINE BL == BlockLength
           BPP == BlocksPerPiece
           PL == PieceLength
<1>1. BL \in Nat \ {0} /\ BPP \in Nat \ {0} /\ PL \in Nat \ {0} /\ PL = BPP * BL
      /\ Depth \in Nat /\ TwoTo[Depth] = BPP
    BY PieceLengthPositive, DepthIs DEF PieceLength
<1> HIDE DEF BL, BPP, PL
<1>2. /\ size \in Nat \ {0} /\ k \in Nat /\ m \in Nat /\ m < BPP /\ size <= PL
      /\ size <= k * PL + m * BL /\ k * PL + m * BL < size + BL
      /\ k * PL \in Nat /\ m * BL \in Nat
    BY PlaceInBlocks DEF Ends, BL, BPP, PL
<1>3. CASE m = 0
  <2>1. m * BL = 0 /\ size <= k * PL /\ k * PL < size + BL
    <3>1. m * BL = 0
      BY <1>1, <1>3
    <3>2. QED
      BY <1>2, <3>1
  <2>2. BL <= PL
    <3>1. 1 * BL <= BPP * BL /\ 1 * BL = BL
      BY <1>1, Monotonic
    <3>2. QED
      BY <1>1, <3>1
  <2>3. k = 1
    <3>1. k # 0
      <4>1. k = 0 => k * PL = 0
        BY <1>1
      <4>2. QED
        BY <1>2, <2>1, <4>1
    <3>2. ~ (2 <= k)
      <4>1. SUFFICES ASSUME 2 <= k PROVE FALSE
        OBVIOUS
      <4>2. 2 * PL <= k * PL
        BY <1>1, <1>2, <4>1, Monotonic
      <4>3. QED
        BY <1>1, <1>2, <2>1, <2>2, <4>2
    <3>3. QED
      BY <1>2, <3>1, <3>2
  <2>4. k * PL = PL
    BY <1>1, <2>3
  <2>5. Height(size) = Depth
    <3>1. TwoTo[Depth] * BL >= size
      BY <1>1, <1>2
    <3>2. Depth = 0 \/ TwoTo[Depth - 1] * BL < size
      <4> SUFFICES ASSUME Depth # 0 PROVE TwoTo[Depth - 1] * BL < size
        OBVIOUS
      <4>1. PICK d \in Nat : Depth = d + 1
        <5>1. Depth - 1 \in Nat /\ Depth = (Depth - 1) + 1
          BY <1>1
        <5>2. QED
          BY <5>1
      <4>2. PICK t \in Nat \ {0} : t = TwoTo[d] /\ 2 * t = BPP
        BY <1>1, <4>1, TwoToIs
      <4>3. (t + 1) * BL <= BPP * BL /\ (t + 1) * BL = t * BL + BL /\ t * BL \in Nat
        BY <1>1, <4>2, Monotonic, NextMultiple
      <4>4. t * BL < size
        BY <1>1, <1>2, <2>1, <2>4, <4>3
      <4>5. Depth - 1 = d
        BY <4>1
      <4>6. QED
        BY <4>2, <4>4, <4>5
    <3>3. QED
      BY <1>1, <1>2, <3>1, <3>2, HeightIs DEF BL
  <2>6. LastRoots(f, size, k, m) = Roots(f, size, 1)
    BY <1>3, <2>3 DEF LastRoots
  <2>7. Roots(f, size, 1) = <<TreeAt(f, size, Depth, 0)>>
    <3> DEFINE r == Roots(f, size, 1)
    <3>1. r = [i \in 1 .. 1 |-> TreeAt(f, size, Depth, (i - 1) * BPP)]
      BY DEF Roots, BPP
    <3>2. \A i \in 1 .. 1 : TreeAt(f, size, Depth, (i - 1) * BPP) = TreeAt(f, size, Depth, 0)
      <4>1. \A i \in 1 .. 1 : (i - 1) * BPP = 0
        BY <1>1
      <4>2. QED
        BY <4>1
    <3>3. QED
      BY <3>1, <3>2
  <2>8. QED
    BY <2>5, <2>6, <2>7
<1>4. CASE m # 0
  <2>1. PICK p \in Nat : m = p + 1
    <3>1. m - 1 \in Nat /\ m = (m - 1) + 1
      BY <1>2, <1>4
    <3>2. QED
      BY <3>1
  <2>2. m * BL = p * BL + BL /\ p * BL \in Nat
    BY <1>1, <2>1, NextMultiple
  <2>3. k = 0
    <3> SUFFICES ASSUME k # 0 PROVE FALSE
      OBVIOUS
    <3>1. 1 <= k /\ 1 * PL <= k * PL /\ 1 * PL = PL
      BY <1>1, <1>2, Monotonic
    <3>2. QED
      BY <1>1, <1>2, <2>2, <3>1
  <2>4. k * PL = 0 /\ k * BPP = 0
    BY <1>1, <2>3
  <2>5. size <= m * BL /\ p * BL < size
    BY <1>1, <1>2, <2>2, <2>4
  <2>6. PICK h \in Nat : /\ NextPowerOfTwo(m) = TwoTo[h] /\ TwoTo[h] >= m
                         /\ h = 0 \/ TwoTo[h - 1] < m
    BY <1>2, <1>4, NextPowerOfTwoIs
  <2>7. Height(size) = h
    <3>1. TwoTo[h] * BL >= size
      <4>1. TwoTo[h] \in Nat
        BY TwoToIs
      <4>2. m * BL <= TwoTo[h] * BL /\ TwoTo[h] * BL \in Nat
        BY <1>1, <1>2, <2>6, <4>1, Monotonic
      <4>3. QED
        BY <1>2, <2>5, <4>2
    <3>2. h = 0 \/ TwoTo[h - 1] * BL < size
      <4> SUFFICES ASSUME h # 0 PROVE TwoTo[h - 1] * BL < size
        OBVIOUS
      <4>1. h - 1 \in Nat /\ TwoTo[h - 1] \in Nat /\ TwoTo[h - 1] < m
        BY <2>6, TwoToIs
      <4>2. TwoTo[h - 1] <= p
        BY <2>1, <4>1
      <4>3. TwoTo[h - 1] * BL <= p * BL /\ TwoTo[h - 1] * BL \in Nat
        BY <1>1, <4>1, <4>2, Monotonic
      <4>4. QED
        BY <1>2, <2>2, <2>5, <4>3
    <3>3. QED
      BY <1>2, <3>1, <3>2, HeightIs DEF BL
  <2>8. MerkleRoot(Run(f, size, 0, m), TwoTo[h], ZeroHash) = TreeAt(f, size, h, 0)
    <3>1. (0 + m) * BlockLength >= size /\ 0 \in Nat
      BY <1>2, <2>5 DEF BL
    <3>2. QED
      BY <1>2, <3>1, RunRoot
  <2>9. TargetFor(size, m) = TwoTo[h]
    BY <1>2, <2>6 DEF TargetFor, PL
  <2>10. LastRoots(f, size, k, m) = Append(Roots(f, size, 0), TreeAt(f, size, h, 0))
    BY <1>4, <2>3, <2>4, <2>8, <2>9 DEF LastRoots, BPP
  <2>11. Append(<<>>, TreeAt(f, size, h, 0)) = <<TreeAt(f, size, h, 0)>>
    OBVIOUS
  <2>12. QED
    BY <2>7, <2>10, <2>11, RootsAre
<1>5. QED
    BY <1>3, <1>4

\* The number of pieces, from where the last one ends.
LEMMA PiecesAre ==
    ASSUME NEW size \in Nat, NEW p \in Nat, p * PieceLength < size, size <= (p + 1) * PieceLength
    PROVE  PieceCount(size) = p + 1
<1>1. PieceLength \in Nat \ {0}
    BY PieceLengthPositive
<1>2. (p + 1) * PieceLength = p * PieceLength + PieceLength /\ p * PieceLength \in Nat
    BY <1>1, NextMultiple
<1>a. PICK e \in Nat : e = (p + 1) * PieceLength
    BY <1>1
<1>3. CASE size < e
  <2>1. p * PieceLength <= size /\ size < p * PieceLength + PieceLength /\ size # p * PieceLength
    BY <1>2, <1>a, <1>3
  <2>2. QED
    BY <2>1, CountIs
<1>4. CASE size = e
  <2>1. PICK q \in Nat : q = p + 1
    OBVIOUS
  <2>2. q * PieceLength <= size /\ size < q * PieceLength + PieceLength /\ size = q * PieceLength
    BY <1>1, <1>a, <1>4, <2>1
  <2>3. PieceCount(size) = IF size = q * PieceLength THEN q ELSE q + 1
    BY <2>2, CountIs
  <2>4. PieceCount(size) = q
    BY <2>2, <2>3, Zenon
  <2>5. QED
    BY <2>1, <2>4, Zenon
<1>5. size < e \/ size = e
    BY <1>a
<1>6. QED
    BY <1>3, <1>4, <1>5

\* A file of more than one piece.
LEMMA LargeFile ==
    ASSUME NEW f, NEW size, NEW k, NEW m, Ends(size, k, m), PieceLength < size
    PROVE  \E p \in Nat \ {0} :
               /\ LastRoots(f, size, k, m) = Roots(f, size, p + 1)
               /\ p * PieceLength < size /\ size <= (p + 1) * PieceLength
<1> DEFINE BL == BlockLength
           BPP == BlocksPerPiece
           PL == PieceLength
<1>1. BL \in Nat \ {0} /\ BPP \in Nat \ {0} /\ PL \in Nat \ {0} /\ PL = BPP * BL
      /\ Depth \in Nat /\ TwoTo[Depth] = BPP
    BY PieceLengthPositive, DepthIs DEF PieceLength
<1> HIDE DEF BL, BPP, PL
<1>2. /\ size \in Nat \ {0} /\ k \in Nat /\ m \in Nat /\ m < BPP /\ PL < size
      /\ size <= k * PL + m * BL /\ k * PL + m * BL < size + BL
      /\ k * PL \in Nat /\ m * BL \in Nat
    BY <1>1, PlaceInBlocks DEF Ends, BL, BPP, PL
<1>3. BL <= PL
  <2>1. 1 * BL <= BPP * BL /\ 1 * BL = BL
    BY <1>1, Monotonic
  <2>2. QED
    BY <1>1, <2>1
<1>4. k # 0
  <2> SUFFICES ASSUME k = 0 PROVE FALSE
    OBVIOUS
  <2>1. k * PL = 0
    BY <1>1
  <2>2. m * BL <= BPP * BL
    BY <1>1, <1>2, Monotonic
  <2>3. QED
    BY <1>1, <1>2, <2>1, <2>2
<1>5. CASE m = 0
  <2>1. PICK p \in Nat : k = p + 1
    <3>1. k - 1 \in Nat /\ k = (k - 1) + 1
      BY <1>2, <1>4
    <3>2. QED
      BY <3>1
  <2>2. m * BL = 0 /\ k * PL = p * PL + PL /\ p * PL \in Nat
    BY <1>1, <1>5, <2>1, NextMultiple
  <2>3. p * PL < size /\ size <= (p + 1) * PL
    BY <1>1, <1>2, <1>3, <2>1, <2>2
  <2>4. p # 0
    <3>1. p = 0 => p * PL = 0
      BY <1>1
    <3>2. QED
      BY <1>1, <1>2, <2>2, <3>1
  <2>5. LastRoots(f, size, k, m) = Roots(f, size, p + 1)
    BY <1>5, <2>1 DEF LastRoots
  <2>6. QED
    BY <2>3, <2>4, <2>5 DEF PL
<1>6. CASE m # 0
  <2>1. k * PL < size /\ size <= (k + 1) * PL
    <3>1. 1 <= m /\ 1 * BL <= m * BL /\ 1 * BL = BL
      BY <1>1, <1>2, <1>6, Monotonic
    <3>2. m * BL <= BPP * BL
      BY <1>1, <1>2, Monotonic
    <3>3. (k + 1) * PL = k * PL + PL
      BY <1>1, <1>2, NextMultiple
    <3>4. QED
      BY <1>1, <1>2, <3>1, <3>2, <3>3
  <2>2. TargetFor(size, m) = BPP
    BY <1>1, <1>2 DEF TargetFor, PL, BPP
  <2>3. PICK s \in Nat : s = k * BPP
    BY <1>1, <1>2
  <2>4. (s + m) * BlockLength >= size
    BY <1>2, <2>3, PlaceInBlocks DEF BPP, BL, PL
  <2>5. MerkleRoot(Run(f, size, s, m), BPP, ZeroHash) = TreeAt(f, size, Depth, s)
    BY <1>1, <1>2, <2>4, RunRoot
  <2>6. LastRoots(f, size, k, m) = Append(Roots(f, size, k), TreeAt(f, size, Depth, k * BPP))
    BY <1>6, <2>2, <2>3, <2>5 DEF LastRoots, BPP
  <2>7. LastRoots(f, size, k, m) = Roots(f, size, k + 1)
    BY <1>2, <2>6, RootsAppend DEF BPP
  <2>8. QED
    BY <1>2, <1>4, <2>1, <2>7 DEF PL
<1>7. QED
    BY <1>5, <1>6

\* The height of the tree over more than one piece.
LEMMA LargeHeight ==
    ASSUME NEW size \in Nat, NEW p \in Nat \ {0}, p * PieceLength < size,
           size <= (p + 1) * PieceLength, NEW h \in Nat, TwoTo[h] >= p + 1,
           h = 0 \/ TwoTo[h - 1] < p + 1
    PROVE  Height(size) = h + Depth
<1> DEFINE BL == BlockLength
           PL == PieceLength
<1>1. BL \in Nat \ {0} /\ PL \in Nat \ {0} /\ Depth \in Nat
    BY PieceLengthPositive, DepthIs
<1>2. ASSUME NEW g \in Nat PROVE TwoTo[g + Depth] * BL = TwoTo[g] * PL /\ TwoTo[g] \in Nat
  <2>1. PICK a \in Nat : a = TwoTo[g]
    BY TwoToIs
  <2>2. PICK b \in Nat : b = TwoTo[Depth] /\ b = BlocksPerPiece
    BY DepthIs, PieceLengthPositive
  <2>3. TwoTo[g + Depth] = a * b
    BY <1>1, <2>1, <2>2, TwoToSum
  <2>4. (a * b) * BL = a * (BL * b)
    BY <1>1
  <2>5. QED
    BY <2>1, <2>2, <2>3, <2>4 DEF PieceLength
<1> HIDE DEF BL, PL
<1>3. TwoTo[h + Depth] * BL >= size
  <2>1. (p + 1) * PL <= TwoTo[h] * PL /\ TwoTo[h] * PL \in Nat /\ (p + 1) * PL \in Nat
    <3>1. TwoTo[h] \in Nat /\ p + 1 \in Nat /\ p + 1 <= TwoTo[h]
      BY <1>2
    <3>2. QED
      BY <1>1, <3>1, Monotonic
  <2>2. QED
    BY <1>2, <2>1 DEF PL
<1>4. h # 0
  <2>1. TwoTo[0] = 1
    BY TwoToIs
  <2>2. QED
    BY <2>1
<1>5. PICK g \in Nat : h = g + 1
  <2>1. h - 1 \in Nat /\ h = (h - 1) + 1
    BY <1>4
  <2>2. QED
    BY <2>1
<1>6. TwoTo[g] <= p /\ TwoTo[g] \in Nat
  <2>1. h - 1 = g
    BY <1>5
  <2>2. TwoTo[g] < p + 1 /\ TwoTo[g] \in Nat
    BY <1>2, <1>4, <2>1
  <2>3. QED
    BY <2>2
<1>7. TwoTo[g + Depth] * BL < size
  <2>1. TwoTo[g] * PL <= p * PL /\ TwoTo[g] * PL \in Nat /\ p * PL \in Nat
    BY <1>1, <1>6, Monotonic
  <2>2. QED
    BY <1>2, <2>1 DEF PL
<1>8. (h + Depth) - 1 = g + Depth /\ h + Depth \in Nat
    BY <1>1, <1>5
<1>9. QED
    BY <1>3, <1>7, <1>8, HeightIs DEF BL

\* What Finalize makes of the end of the file is what it should be.
LEMMA LastRootsAre ==
    ASSUME NEW f, NEW size, NEW k, NEW m, Ends(size, k, m)
    PROVE  /\ LastRoots(f, size, k, m) = V2Of(f, size)
           /\ RootFrom(LastRoots(f, size, k, m), size) = RootOf(f, size)
<1> DEFINE r == LastRoots(f, size, k, m)
<1>1. size \in Nat /\ PieceLength \in Nat \ {0}
    BY PieceLengthPositive DEF Ends
<1>2. CASE size = 0
    BY <1>2, EmptyFile
<1>3. CASE size # 0 /\ size <= PieceLength
  <2>1. r = <<RootOf(f, size)>>
    BY <1>3, SmallFile DEF RootOf
  <2> HIDE DEF r
  <2>2. r # <<>> /\ r[1] = RootOf(f, size)
    BY <2>1
  <2>3. QED
    BY <1>3, <2>1, <2>2 DEF V2Of, RootFrom, r
<1>4. CASE PieceLength < size
  <2>1. PICK p \in Nat \ {0} :
            r = Roots(f, size, p + 1) /\ p * PieceLength < size /\ size <= (p + 1) * PieceLength
    BY <1>4, LargeFile
  <2> HIDE DEF r
  <2>2. PICK c \in Nat \ {0} : c = p + 1
    OBVIOUS
  <2>3. PieceCount(size) = c
    BY <1>1, <2>1, <2>2, PiecesAre
  <2>4. size # 0 /\ ~ (size <= PieceLength)
    BY <1>1, <1>4
  <2>5. r = V2Of(f, size)
    <3>1. V2Of(f, size) = [i \in 1 .. c |->
              TreeAt(f, size, Log2(BlocksPerPiece), (i - 1) * BlocksPerPiece)]
      BY <2>3, <2>4 DEF V2Of
    <3>2. QED
      BY <2>1, <2>2, <3>1 DEF Roots, Depth
  <2>6. PICK h \in Nat : /\ NextPowerOfTwo(c) = TwoTo[h] /\ TwoTo[h] >= c
                         /\ h = 0 \/ TwoTo[h - 1] < c
    BY NextPowerOfTwoIs
  <2>7. Height(size) = h + Depth
    BY <1>1, <2>1, <2>2, <2>6, LargeHeight
  <2>8. r = Roots(f, size, c) /\ Len(r) = c /\ r # <<>>
    <3>1. r = Roots(f, size, c)
      BY <2>1, <2>2
    <3>2. QED
      BY <3>1, RootsAre
  <2>9. MerkleRoot(Roots(f, size, c), TwoTo[h], ZeroSubtreeRoot(BlocksPerPiece))
          = TreeAt(f, size, h + Depth, 0)
    BY <1>1, <2>1, <2>2, PiecesRoot
  <2>10. RootFrom(r, size) = TreeAt(f, size, h + Depth, 0)
    BY <2>4, <2>6, <2>8, <2>9 DEF RootFrom
  <2>11. RootOf(f, size) = TreeAt(f, size, h + Depth, 0)
    BY <2>4, <2>7 DEF RootOf
  <2>12. QED
    BY <2>5, <2>10, <2>11 DEF r
<1>5. QED
    BY <1>1, <1>2, <1>3, <1>4

-----------------------------------------------------------------------------
(* The v2 hashes.                                                          *)

\* k pieces and n blocks of the next are behind the hasher, s blocks in all,
\* and it has taken the bytes before place at.
CutBlocks(k, n, s, at) ==
    /\ n < BlocksPerPiece /\ s = k * BlocksPerPiece + n
    /\ s * BlockLength <= at /\ at < s * BlockLength + BlockLength
    /\ at <= pos /\ pos <= hashed.size
    /\ rest2 = Stretch(hashed.file, at, pos)
    /\ buffer = Stretch(hashed.file, s * BlockLength, at)
    /\ leaves = Run(hashed.file, hashed.size, k * BlocksPerPiece, n)
    /\ v2pieces = Roots(hashed.file, hashed.size, k)

HashingBlocks == stage # "done" => \E k, n, s, at \in Nat : CutBlocks(k, n, s, at)

QuietBlocks == stage # "feeding" => rest2 = <<>>

RInv == HashTypes /\ HashingBlocks /\ QuietBlocks /\ RootsRight

LEMMA CutBlocksAtStart ==
    ASSUME pos = 0, rest2 = <<>>, buffer = <<>>, leaves = <<>>, v2pieces = <<>>, hashed.size \in Nat
    PROVE  CutBlocks(0, 0, 0, 0)
<1> DEFINE BL == BlockLength
           BPP == BlocksPerPiece
<1>1. BL \in Nat \ {0} /\ BPP \in Nat \ {0}
    BY PieceLengthPositive
<1>2. 0 * BPP = 0 /\ 0 * BL = 0
    BY <1>1
<1>3. /\ Stretch(hashed.file, 0, 0) = <<>> /\ Run(hashed.file, hashed.size, 0, 0) = <<>>
      /\ Roots(hashed.file, hashed.size, 0) = <<>>
    BY StretchEmpty, RunIs, RootsAre
<1> HIDE DEF BL, BPP
<1>4. 0 < BPP /\ 0 = 0 * BPP + 0 /\ 0 * BL <= 0 /\ 0 < 0 * BL + BL /\ 0 <= pos /\ pos <= hashed.size
    BY <1>1, <1>2
<1>5. buffer = Stretch(hashed.file, 0 * BL, 0) /\ leaves = Run(hashed.file, hashed.size, 0 * BPP, 0)
    BY <1>2, <1>3
<1>6. QED
    BY <1>3, <1>4, <1>5 DEF CutBlocks, BL, BPP

\* After Restart the cut is at the start.
LEMMA RestartKeepsBlocks ==
    ASSUME Restart, stage' \in {"idle", "feeding"},
           hashed' \in [file : HashedFiles \cup {None}, size : Nat, pad : BOOLEAN]
    PROVE  RInv'
<1>1. /\ pos' = 0 /\ rest2' = <<>> /\ buffer' = <<>> /\ leaves' = <<>> /\ v2pieces' = <<>>
      /\ hashed'.size \in Nat
    BY DEF Restart
<1>2. HashTypes'
    BY <1>1 DEF HashTypes
<1> DEFINE BL == BlockLength
           BPP == BlocksPerPiece
           f == hashed'.file
           size == hashed'.size
<1>3. BL \in Nat \ {0} /\ BPP \in Nat \ {0}
    BY PieceLengthPositive
<1>4. 0 * BPP = 0 /\ 0 * BL = 0
    BY <1>3
<1>5. Stretch(f, 0, 0) = <<>> /\ Run(f, size, 0, 0) = <<>> /\ Roots(f, size, 0) = <<>>
    BY StretchEmpty, RunIs, RootsAre
<1> HIDE DEF BL, BPP
<1>6. 0 < BPP /\ 0 = 0 * BPP + 0 /\ 0 * BL <= 0 /\ 0 < 0 * BL + BL /\ 0 <= pos' /\ pos' <= size
    BY <1>1, <1>3, <1>4
<1>7. buffer' = Stretch(f, 0 * BL, 0) /\ leaves' = Run(f, size, 0 * BPP, 0)
    BY <1>1, <1>4, <1>5
<1>8. CutBlocks(0, 0, 0, 0)'
    BY <1>1, <1>5, <1>6, <1>7 DEF CutBlocks, BL, BPP
<1>9. HashingBlocks'
    BY <1>8 DEF HashingBlocks
<1>10. QuietBlocks' /\ RootsRight'
    BY <1>1 DEF QuietBlocks, RootsRight
<1>11. QED
    BY <1>2, <1>9, <1>10 DEF RInv

LEMMA UpdateKeepsBlocks ==
    ASSUME RInv, NEW n \in Nat \ {0}, Update(n)
    PROVE  RInv'
<1> DEFINE f == hashed.file
<1>1. HashTypes /\ HashingBlocks /\ stage = "feeding" /\ rest2 = <<>>
    BY DEF RInv, Update
<1>2. pos \in Nat /\ hashed.size \in Nat
    BY <1>1 DEF HashTypes
<1>3. PICK k \in Nat, m \in Nat, s \in Nat, at \in Nat : CutBlocks(k, m, s, at)
    BY <1>1 DEF HashingBlocks
<1>4. UNCHANGED <<hashed, buffer, leaves, v2pieces>>
    BY DEF Update
<1>5. CASE pos + n > hashed.size
  <2>1. stage' = "raised" /\ UNCHANGED <<pos, rest2>>
    BY <1>5 DEF Update
  <2>2. HashTypes'
    BY <1>1, <1>4, <2>1 DEF HashTypes
  <2>3. CutBlocks(k, m, s, at)'
    BY <1>3, <1>4, <2>1 DEF CutBlocks
  <2>4. HashingBlocks' /\ QuietBlocks' /\ RootsRight'
    BY <1>1, <2>1, <2>3 DEF HashingBlocks, QuietBlocks, RootsRight
  <2>5. QED
    BY <2>2, <2>4 DEF RInv
<1>6. CASE ~ (pos + n > hashed.size)
  <2>1. rest2' = Stretch(f, pos, pos + n) /\ pos' = pos + n /\ stage' = "feeding"
    BY <1>1, <1>6 DEF Update
  <2>2. pos' \in Nat /\ pos' <= hashed.size
    BY <1>2, <1>6, <2>1
  <2>3. HashTypes'
    BY <1>1, <1>4, <2>1, <2>2 DEF HashTypes
  <2>4. at = pos
    <3>1. Stretch(f, at, pos) = <<>> /\ at <= pos
      BY <1>1, <1>3 DEF CutBlocks
    <3>2. QED
      BY <1>2, <3>1, StretchEmpty
  <2>5. at <= pos'
    BY <1>2, <2>1, <2>4
  <2>6. CutBlocks(k, m, s, at)'
    BY <1>3, <1>4, <2>1, <2>2, <2>4, <2>5 DEF CutBlocks
  <2>7. HashingBlocks' /\ QuietBlocks' /\ RootsRight'
    BY <2>1, <2>6 DEF HashingBlocks, QuietBlocks, RootsRight
  <2>8. QED
    BY <2>3, <2>7 DEF RInv
<1>7. QED
    BY <1>5, <1>6

\* The block that ends at place next is the s-th of the file.
LEMMA BlockIs ==
    ASSUME NEW f, NEW size \in Nat, NEW s \in Nat, NEW from \in Nat, NEW next \in Nat,
           from = s * BlockLength, from < next, next <= size, next <= from + BlockLength,
           next = size \/ next = from + BlockLength
    PROVE  BlockHash(Stretch(f, from, next)) = BlocksOf(f, size)[s]
<1>1. BlockLength \in Nat \ {0}
    BY PieceLengthPositive
<1>2. (s + 1) * BlockLength = from + BlockLength
    BY <1>1, NextMultiple
<1>3. Least((s + 1) * BlockLength, size) = next
    BY <1>1, <1>2 DEF Least
<1>4. ~ (s * BlockLength >= size)
    BY <1>1
<1>5. QED
    BY <1>3, <1>4 DEF BlocksOf

\* A run of leaves with its next block: what LeavesWith and PiecesWith make of it.
LEMMA BlockDone ==
    ASSUME NEW block, NEW k \in Nat, NEW n \in Nat, NEW s \in Nat, hashed.size \in Nat,
           n < BlocksPerPiece, s = k * BlocksPerPiece + n,
           leaves = Run(hashed.file, hashed.size, k * BlocksPerPiece, n),
           v2pieces = Roots(hashed.file, hashed.size, k),
           BlockHash(block) = BlocksOf(hashed.file, hashed.size)[s]
    PROVE  IF n + 1 = BlocksPerPiece
           THEN /\ LeavesWith(block) = <<>>
                /\ PiecesWith(block) = Roots(hashed.file, hashed.size, k + 1)
           ELSE /\ LeavesWith(block) = Run(hashed.file, hashed.size, k * BlocksPerPiece, n + 1)
                /\ PiecesWith(block) = v2pieces
<1> DEFINE f == hashed.file
           size == hashed.size
           BPP == BlocksPerPiece
<1>1. BPP \in Nat \ {0} /\ Depth \in Nat /\ TwoTo[Depth] = BPP
    BY PieceLengthPositive, DepthIs
<1>2. PICK a \in Nat : a = k * BPP
    BY <1>1
<1>3. Len(leaves) = n
  <2> HIDE DEF f, size
  <2>1. Len(Run(f, size, a, n)) = n
    BY ONLY RunIs, a \in Nat, n \in Nat
  <2>2. QED
    BY <1>2, <2>1 DEF f, size
<1>4. Append(leaves, BlockHash(block)) = Run(f, size, a, n + 1)
  <2>1. \A g, z : Append(Run(g, z, a, n), BlocksOf(g, z)[a + n]) = Run(g, z, a, n + 1)
    BY RunAppend
  <2>2. s = a + n
    BY <1>2
  <2>3. leaves = Run(f, size, a, n) /\ BlockHash(block) = BlocksOf(f, size)[a + n]
    BY <1>2, <2>2
  <2> HIDE DEF f, size
  <2>4. QED
    BY <2>1, <2>3
<1>5. CASE n + 1 = BPP
  <2>1. LeavesWith(block) = <<>>
    BY <1>3, <1>5 DEF LeavesWith
  <2>2. PiecesWith(block)
          = Append(Roots(f, size, k), MerkleRoot(Run(f, size, a, BPP), BPP, ZeroHash))
    BY <1>3, <1>4, <1>5 DEF PiecesWith
  <2> HIDE DEF f
  <2>3. MerkleRoot(Run(f, size, a, BPP), BPP, ZeroHash) = TreeAt(f, size, Depth, a)
    <3>1. size \in Nat /\ TwoTo[Depth] <= BPP
      BY <1>1
    <3> HIDE DEF size
    <3>2. QED
      BY <1>1, <3>1, RunRoot
  <2>4. Append(Roots(f, size, k), TreeAt(f, size, Depth, k * BPP)) = Roots(f, size, k + 1)
    BY RootsAppend
  <2>5. QED
    BY <1>2, <1>5, <2>1, <2>2, <2>3, <2>4 DEF f
<1>6. CASE n + 1 # BPP
    BY <1>2, <1>3, <1>4, <1>6 DEF LeavesWith, PiecesWith
<1>7. QED
    BY <1>5, <1>6

LEMMA FillBlockKeepsBlocks ==
    ASSUME RInv, FillBlock
    PROVE  RInv'
<1> DEFINE f == hashed.file
           size == hashed.size
           BL == BlockLength
           BPP == BlocksPerPiece
           Take == Least(Len(rest2), BL - Len(buffer))
           grown == buffer \o SubSeq(rest2, 1, Take)
<1>1. HashTypes /\ HashingBlocks /\ QuietBlocks /\ rest2 # <<>>
    BY DEF RInv, FillBlock
<1>2. stage = "feeding"
    BY <1>1 DEF QuietBlocks
<1>3. PICK k \in Nat, n \in Nat, s \in Nat, at \in Nat : CutBlocks(k, n, s, at)
    BY <1>1, <1>2 DEF HashingBlocks
<1>4. BL \in Nat \ {0} /\ BPP \in Nat \ {0} /\ pos \in Nat /\ size \in Nat
    BY <1>1, PieceLengthPositive DEF HashTypes
<1>5. PICK from \in Nat : from = s * BL
    BY <1>4
<1>6. from <= at /\ at < from + BL /\ at <= pos /\ pos <= size
    BY <1>3, <1>5 DEF CutBlocks
<1>7. /\ rest2 = Stretch(f, at, pos) /\ buffer = Stretch(f, from, at)
      /\ leaves = Run(f, size, k * BPP, n) /\ v2pieces = Roots(f, size, k)
      /\ n < BPP /\ s = k * BPP + n
    BY <1>3, <1>5 DEF CutBlocks
<1>8. /\ rest2' = SubSeq(rest2, Take + 1, Len(rest2))
      /\ buffer' = IF Len(grown) = BL THEN <<>> ELSE grown
      /\ leaves' = IF Len(grown) = BL THEN LeavesWith(grown) ELSE leaves
      /\ v2pieces' = IF Len(grown) = BL THEN PiecesWith(grown) ELSE v2pieces
      /\ UNCHANGED <<stage, hashed, pos>>
    BY DEF FillBlock
<1> HIDE DEF BL, BPP
<1>9. Len(rest2) = pos - at /\ Len(buffer) = at - from
    BY <1>4, <1>6, <1>7, StretchIsSeq
<1>10. at < pos
  <2>1. at # pos
    BY <1>1, <1>4, <1>7, StretchEmpty
  <2>2. QED
    BY <1>4, <1>6, <2>1
<1>11. PICK take \in Nat : /\ take = Take /\ 0 < take
                           /\ at + take = pos \/ at + take = from + BL
                           /\ at + take <= pos /\ at + take <= from + BL
  <2>1. Take = Least(pos - at, BL - (at - from))
    BY <1>9
  <2>2. Take = IF pos - at <= BL - (at - from) THEN pos - at ELSE BL - (at - from)
    BY <2>1 DEF Least
  <2> HIDE DEF Take
  <2>3. Take \in Nat /\ 0 < Take
    BY <1>4, <1>6, <1>10, <2>2
  <2>4. at + Take = pos \/ at + Take = from + BL
    BY <1>4, <1>6, <2>2
  <2>5. at + Take <= pos /\ at + Take <= from + BL
    BY <1>4, <1>6, <2>2
  <2>6. QED
    BY <2>3, <2>4, <2>5
<1>12. PICK next \in Nat : next = at + take
    OBVIOUS
<1> HIDE DEF Take
<1>13. /\ rest2' = Stretch(f, next, pos)
       /\ grown = Stretch(f, from, next)
       /\ Len(grown) = next - from
  <2> HIDE DEF f
  <2>1. PICK past \in Nat, all \in Nat : past = take + 1 /\ all = pos - at
    BY <1>4, <1>6
  <2>2. Round(from, at, next, pos, take, past, all)
    BY <1>4, <1>6, <1>11, <1>12, <2>1 DEF Round
  <2>3. /\ SubSeq(Stretch(f, at, pos), 1, take) = Stretch(f, at, next)
        /\ SubSeq(Stretch(f, at, pos), past, all) = Stretch(f, next, pos)
        /\ Stretch(f, from, at) \o Stretch(f, at, next) = Stretch(f, from, next)
    <3>1. SubSeq(Stretch(f, at, pos), 1, take) = Stretch(f, at, next)
      BY <2>2, RoundCuts
    <3>2. SubSeq(Stretch(f, at, pos), past, all) = Stretch(f, next, pos)
      <4>1. Part(at, pos, next, pos, past, all)
        BY <1>4, <1>6, <1>11, <1>12, <2>1 DEF Part
      <4>2. PartIs(f, at, pos, next, pos, past, all)
        BY <4>1, StretchPart
      <4>3. QED
        BY <4>2 DEF PartIs
    <3>3. Stretch(f, from, at) \o Stretch(f, at, next) = Stretch(f, from, next)
      BY <2>2, RoundCuts
    <3>4. QED
      BY <3>1, <3>2, <3>3
  <2>4. rest2' = Stretch(f, next, pos)
    BY <1>7, <1>8, <1>9, <1>11, <2>1, <2>3
  <2>5. grown = Stretch(f, from, next)
    BY <1>7, <1>11, <2>3
  <2>6. from <= next
    BY <1>6, <1>12
  <2>7. Len(Stretch(f, from, next)) = next - from
    BY <2>6, StretchIsSeq
  <2>8. QED
    BY <2>4, <2>5, <2>7
<1> HIDE DEF grown
<1>14. /\ from < next /\ next <= pos /\ next <= from + BL
       /\ next - from = BL <=> next = from + BL
    BY <1>4, <1>6, <1>11, <1>12
<1>15. HashTypes' /\ QuietBlocks' /\ RootsRight'
    BY <1>1, <1>2, <1>8 DEF HashTypes, QuietBlocks, RootsRight
<1>16. CASE next = from + BL
  <2>1. Len(grown) = BL
    BY <1>13, <1>14, <1>16
  <2>2. buffer' = <<>> /\ leaves' = LeavesWith(grown) /\ v2pieces' = PiecesWith(grown)
    BY <1>8, <2>1
  <2>3. BlockHash(grown) = BlocksOf(f, size)[s]
    <3>1. next <= size
      BY <1>4, <1>6, <1>14
    <3>2. \A g : \A z \in Nat : next <= z => BlockHash(Stretch(g, from, next)) = BlocksOf(g, z)[s]
      BY <1>4, <1>5, <1>14, <1>16, BlockIs DEF BL
    <3> HIDE DEF f, size
    <3>3. QED
      BY <1>4, <1>13, <3>1, <3>2
  <2>4. IF n + 1 = BPP
        THEN leaves' = <<>> /\ v2pieces' = Roots(f, size, k + 1)
        ELSE leaves' = Run(f, size, k * BPP, n + 1) /\ v2pieces' = Roots(f, size, k)
    BY <1>4, <1>7, <2>2, <2>3, BlockDone DEF BPP
  <2>5. buffer' = Stretch(f, next, next)
    BY <2>2, StretchEmpty
  <2>6. (s + 1) * BL = next /\ s + 1 \in Nat /\ next <= next /\ next < next + BL /\ next <= pos
    BY <1>4, <1>5, <1>14, <1>16, NextMultiple
  <2>7. \E i, j \in Nat :
            /\ j < BPP /\ s + 1 = i * BPP + j
            /\ leaves' = Run(f, size, i * BPP, j) /\ v2pieces' = Roots(f, size, i)
    <3>1. CASE n + 1 = BPP
      <4>1. k + 1 \in Nat /\ 0 < BPP /\ (k + 1) * BPP = k * BPP + BPP /\ (k + 1) * BPP \in Nat
        BY <1>4, NextMultiple
      <4>2. s + 1 = (k + 1) * BPP + 0
        BY <1>4, <1>7, <3>1, <4>1
      <4>3. leaves' = Run(f, size, (k + 1) * BPP, 0)
        <5>1. \A g, z : Run(g, z, (k + 1) * BPP, 0) = <<>>
          BY <4>1, RunIs
        <5>2. QED
          BY <2>4, <3>1, <5>1
      <4>4. QED
        BY <2>4, <3>1, <4>1, <4>2, <4>3
    <3>2. CASE n + 1 # BPP
      <4>1. n + 1 \in Nat /\ n + 1 < BPP /\ s + 1 = k * BPP + (n + 1)
        BY <1>4, <1>7, <3>2
      <4>2. QED
        BY <2>4, <3>2, <4>1
    <3>3. QED
      BY <3>1, <3>2
  <2>8. PICK i \in Nat, j \in Nat :
            /\ j < BPP /\ s + 1 = i * BPP + j
            /\ leaves' = Run(f, size, i * BPP, j) /\ v2pieces' = Roots(f, size, i)
    BY <2>7
  <2>9. CutBlocks(i, j, s + 1, next)'
    BY <1>6, <1>8, <1>13, <2>5, <2>6, <2>8 DEF CutBlocks, BL, BPP
  <2>10. HashingBlocks'
    BY <2>6, <2>9 DEF HashingBlocks
  <2>11. QED
    BY <1>15, <2>10 DEF RInv
<1>17. CASE next # from + BL
  <2>1. Len(grown) # BL
    BY <1>13, <1>14, <1>17
  <2>2. buffer' = Stretch(f, from, next) /\ UNCHANGED <<leaves, v2pieces>>
    BY <1>8, <1>13, <2>1
  <2>3. from <= next /\ next < from + BL
    BY <1>4, <1>14, <1>17
  <2>4. CutBlocks(k, n, s, next)'
    BY <1>5, <1>6, <1>7, <1>8, <1>13, <1>14, <2>2, <2>3 DEF CutBlocks, BL, BPP
  <2>5. HashingBlocks'
    BY <2>4 DEF HashingBlocks
  <2>6. QED
    BY <1>15, <2>5 DEF RInv
<1>18. QED
    BY <1>16, <1>17

LEMMA FinalizeKeepsBlocks ==
    ASSUME RInv, Finalize
    PROVE  RInv'
<1> DEFINE f == hashed.file
           size == hashed.size
           BL == BlockLength
           BPP == BlocksPerPiece
           last == IF buffer = <<>> THEN leaves ELSE LeavesWith(buffer)
           roots == IF buffer = <<>> THEN v2pieces ELSE PiecesWith(buffer)
<1>1. HashTypes /\ HashingBlocks /\ stage = "feeding" /\ rest2 = <<>>
    BY DEF RInv, Finalize
<1>2. pos \in Nat /\ size \in Nat
    BY <1>1 DEF HashTypes
<1>3. UNCHANGED <<hashed, pos, rest2>>
    BY DEF Finalize
<1>4. PICK k \in Nat, n \in Nat, s \in Nat, at \in Nat : CutBlocks(k, n, s, at)
    BY <1>1 DEF HashingBlocks
<1>5. CASE pos # size
  <2>1. stage' = "raised" /\ UNCHANGED <<buffer, leaves, v2pieces>>
    BY <1>5 DEF Finalize
  <2>2. HashTypes'
    BY <1>1, <1>3, <2>1 DEF HashTypes
  <2>3. CutBlocks(k, n, s, at)'
    BY <1>3, <1>4, <2>1 DEF CutBlocks
  <2>4. HashingBlocks' /\ QuietBlocks' /\ RootsRight'
    BY <1>1, <1>3, <2>1, <2>3 DEF HashingBlocks, QuietBlocks, RootsRight
  <2>5. QED
    BY <2>2, <2>4 DEF RInv
<1>6. CASE pos = size
  <2>1. /\ stage' = "done"
        /\ v2pieces' = IF last = <<>> THEN roots
                       ELSE Append(roots, MerkleRoot(last, Target(Len(last)), ZeroHash))
        /\ root' = FileRoot(v2pieces')
    BY <1>6 DEF Finalize
  <2> HIDE DEF last, roots
  <2>2. HashTypes' /\ HashingBlocks' /\ QuietBlocks'
    BY <1>1, <1>3, <2>1 DEF HashTypes, HashingBlocks, QuietBlocks
  <2>3. BL \in Nat \ {0} /\ BPP \in Nat \ {0} /\ PieceLength = BL * BPP
    BY PieceLengthPositive DEF PieceLength
  <2>4. PICK from \in Nat : from = s * BL
    BY <2>3
  <2>5. /\ from <= at /\ at < from + BL /\ at <= pos
        /\ <<>> = Stretch(f, at, pos) /\ buffer = Stretch(f, from, at)
        /\ leaves = Run(f, size, k * BPP, n) /\ v2pieces = Roots(f, size, k)
        /\ n < BPP /\ s = k * BPP + n
    BY <1>1, <1>4, <2>4 DEF CutBlocks
  <2>6. at = size
    BY <1>2, <1>6, <2>5, StretchEmpty
  <2>7. buffer = Stretch(f, from, size) /\ from <= size /\ size < from + BL
    BY <2>5, <2>6
  <2>8. buffer = <<>> <=> size = from
    BY <1>2, <2>7, StretchEmpty
  <2>a. from = k * PieceLength + n * BL /\ k * PieceLength \in Nat /\ n * BL \in Nat
    BY <2>4, <2>5, PlaceInBlocks
  <2>9. PICK i \in Nat, m \in Nat :
            /\ Ends(size, i, m) /\ last = Run(f, size, i * BPP, m) /\ roots = Roots(f, size, i)
    <3>1. CASE size = from
      <4>1. last = Run(f, size, k * BPP, n) /\ roots = Roots(f, size, k)
        BY <2>5, <2>8, <3>1 DEF last, roots
      <4>2. size = 0 => k = 0 /\ n = 0
        <5> SUFFICES ASSUME size = 0 PROVE k = 0 /\ n = 0
          OBVIOUS
        <5>1. k * PieceLength = 0 /\ n * BL = 0
          BY <2>a, <3>1
        <5>2. k # 0 => 1 * PieceLength <= k * PieceLength
          BY PieceLengthPositive, Monotonic
        <5>3. n # 0 => 1 * BL <= n * BL
          BY PieceLengthPositive, Monotonic
        <5>4. QED
          BY <2>3, <5>1, <5>2, <5>3, PieceLengthPositive
      <4>3. Ends(size, k, n)
        BY <1>2, <2>3, <2>5, <2>a, <3>1, <4>2 DEF Ends
      <4>4. QED
        BY <4>1, <4>3
    <3>2. CASE size # from
      <4>1. last = LeavesWith(buffer) /\ roots = PiecesWith(buffer)
        BY <2>8, <3>2 DEF last, roots
      <4>2. BlockHash(buffer) = BlocksOf(f, size)[s]
        <5>1. from < size /\ size <= from + BL
          BY <1>2, <2>3, <2>7, <3>2
        <5>2. \A g : \A z \in Nat : from < z /\ z <= from + BL
                          => BlockHash(Stretch(g, from, z)) = BlocksOf(g, z)[s]
          BY <2>4, BlockIs
        <5> HIDE DEF f, size
        <5>3. QED
          BY <1>2, <2>7, <5>1, <5>2
      <4>3. IF n + 1 = BPP
            THEN last = <<>> /\ roots = Roots(f, size, k + 1)
            ELSE last = Run(f, size, k * BPP, n + 1) /\ roots = Roots(f, size, k)
        BY <1>2, <2>5, <4>1, <4>2, BlockDone
      <4>4. CASE n + 1 = BPP
        <5>1. k + 1 \in Nat /\ (k + 1) * BPP \in Nat
          BY <2>3
        <5>2. last = Run(f, size, (k + 1) * BPP, 0)
          <6>1. \A g, z : Run(g, z, (k + 1) * BPP, 0) = <<>>
            BY <5>1, RunIs
          <6>2. QED
            BY <4>3, <4>4, <6>1
        <5>3. (k + 1) * PieceLength = from + BL /\ 0 * BL = 0
          <6>1. (k + 1) * PieceLength = k * PieceLength + PieceLength
            BY PieceLengthPositive, NextMultiple
          <6>2. (n + 1) * BL = n * BL + BL /\ BPP * BL = PieceLength
            BY <2>3, NextMultiple
          <6>3. n * BL + BL = PieceLength
            BY <4>4, <6>2
          <6>4. QED
            BY <2>3, <2>a, <6>1, <6>3, PieceLengthPositive
        <5>4. Ends(size, k + 1, 0)
          BY <1>2, <2>3, <2>7, <3>2, <5>1, <5>3 DEF Ends
        <5>5. QED
          BY <4>3, <4>4, <5>1, <5>2, <5>4
      <4>5. CASE n + 1 # BPP
        <5>1. n + 1 \in Nat /\ n + 1 < BPP /\ (n + 1) * BL = n * BL + BL
          BY <2>3, <2>5, <4>5, NextMultiple
        <5>2. Ends(size, k, n + 1)
          BY <1>2, <2>3, <2>7, <2>a, <3>2, <5>1 DEF Ends
        <5>3. QED
          BY <4>3, <4>5, <5>1, <5>2
      <4>6. QED
        BY <4>4, <4>5
    <3>3. QED
      BY <3>1, <3>2
  <2>10. PICK a \in Nat : a = i * BPP
    BY <2>3
  <2>11. Len(last) = m /\ (last = <<>> <=> m = 0)
    <3>1. ASSUME NEW g, NEW z PROVE RunFacts(g, z, a, m)
      BY RunsAre
    <3>2. QED
      BY <2>9, <2>10, <3>1 DEF RunFacts
  <2>12. Target(m) = TargetFor(size, m)
    BY DEF Target, TargetFor
  <2>13. v2pieces' = LastRoots(f, size, i, m)
    BY <2>1, <2>9, <2>11, <2>12 DEF LastRoots
  <2>14. root' = RootFrom(v2pieces', size)
    BY <1>3, <2>1 DEF FileRoot, RootFrom
  <2>15. v2pieces' = V2Of(f, size) /\ root' = RootOf(f, size)
    <3>1. \A g, z : Ends(z, i, m) => /\ LastRoots(g, z, i, m) = V2Of(g, z)
                                     /\ RootFrom(LastRoots(g, z, i, m), z) = RootOf(g, z)
      BY LastRootsAre
    <3> HIDE DEF f, size
    <3>2. QED
      BY <2>9, <2>13, <2>14, <3>1, Zenon
  <2>16. RootsRight'
    BY <1>3, <2>1, <2>15 DEF RootsRight
  <2>17. QED
    BY <2>2, <2>16 DEF RInv
<1>7. QED
    BY <1>5, <1>6

LEMMA HashInitBlocks == HashInit => RInv
<1> SUFFICES ASSUME HashInit PROVE RInv
    OBVIOUS
<1>1. HashTypes /\ QuietBlocks /\ RootsRight /\ hashed.size \in Nat
    BY DEF HashInit, Unused, HashTypes, QuietBlocks, RootsRight
<1>2. CutBlocks(0, 0, 0, 0)
    BY <1>1, CutBlocksAtStart DEF HashInit
<1>3. HashingBlocks
    BY <1>2 DEF HashingBlocks
<1>4. QED
    BY <1>1, <1>3 DEF RInv

LEMMA HashNextKeepsBlocks == RInv /\ [HashNext]_hashVars => RInv'
<1> SUFFICES ASSUME RInv, [HashNext]_hashVars PROVE RInv'
    OBVIOUS
<1>1. ASSUME NEW f \in HashedFiles, NEW size \in Nat, NEW pad \in BOOLEAN, Accumulate(f, size, pad)
      PROVE  RInv'
  <2>1. Restart /\ stage' = "feeding"
        /\ hashed' \in [file : HashedFiles \cup {None}, size : Nat, pad : BOOLEAN]
    BY <1>1 DEF Accumulate
  <2>2. QED
    BY <2>1, RestartKeepsBlocks
<1>2. ASSUME NEW n \in Nat \ {0}, Update(n) PROVE RInv'
    BY <1>2, UpdateKeepsBlocks
<1>3. CASE FillPiece
  <2>1. UNCHANGED <<stage, hashed, pos, rest2, buffer, leaves, v2pieces, root>>
    BY <1>3 DEF FillPiece
  <2>2. HashTypes' /\ HashingBlocks' /\ QuietBlocks' /\ RootsRight'
    BY <2>1 DEF RInv, HashTypes, HashingBlocks, CutBlocks, QuietBlocks, RootsRight
  <2>3. QED
    BY <2>2 DEF RInv
<1>4. CASE FillBlock
    BY <1>4, FillBlockKeepsBlocks
<1>5. CASE Reset
  <2>1. Restart /\ stage' = "feeding" /\ UNCHANGED hashed
    BY <1>5 DEF Reset
  <2>2. hashed \in [file : HashedFiles \cup {None}, size : Nat, pad : BOOLEAN]
    BY DEF RInv, HashTypes
  <2>3. QED
    BY <2>1, <2>2, RestartKeepsBlocks
<1>6. CASE Finalize
    BY <1>6, FinalizeKeepsBlocks
<1>7. CASE Discard
  <2>1. Restart /\ stage' = "idle"
        /\ hashed' \in [file : HashedFiles \cup {None}, size : Nat, pad : BOOLEAN]
    BY <1>7 DEF Discard, Unused
  <2>2. QED
    BY <2>1, RestartKeepsBlocks
<1>8. CASE UNCHANGED hashVars
  <2>1. UNCHANGED <<stage, hashed, pos, rest2, buffer, leaves, v2pieces, root>>
    BY <1>8 DEF hashVars
  <2>2. HashTypes' /\ HashingBlocks' /\ QuietBlocks' /\ RootsRight'
    BY <2>1 DEF RInv, HashTypes, HashingBlocks, CutBlocks, QuietBlocks, RootsRight
  <2>3. QED
    BY <2>2 DEF RInv
<1>9. QED
    BY <1>1, <1>2, <1>3, <1>4, <1>5, <1>6, <1>7, <1>8 DEF HashNext, HashStep

\* Whatever the chunks, the v2 hashes are the subtrees and the root of one tree
\* over the blocks of the whole file, which the code never builds
\* (TorrentFileHasher._finish_block, _file_root, merkle_root).
THEOREM StreamedRootsAreRight == HashSpec => []RootsRight
<1>1. RInv => RootsRight
    BY DEF RInv
<1>2. QED
    BY HashInitBlocks, HashNextKeepsBlocks, <1>1, PTL DEF HashSpec

=============================================================================
