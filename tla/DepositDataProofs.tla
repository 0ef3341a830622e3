--------------------------- MODULE DepositDataProofs ---------------------------
(***************************************************************************)
(* What the parsers read out of a deposit of any size: the number that a   *)
(* length spells, the part of the data at an offset, and so the recipient  *)
(* and the amount that the sender has put there.                           *)
(***************************************************************************)
EXTENDS DepositData, SequenceTheorems, WellFoundedInduction, TLAPS

Byte == 0..(Base - 1)

-----------------------------------------------------------------------------
(* Recursion over the positions of a sequence *)

\* Sets of positions have a first member.
LEMMA FirstExists ==
  ASSUME NEW S \in SUBSET Nat, S # {}
  PROVE  \E i \in S : \A j \in S : i <= j
<1>1. \E i \in S : \A j \in S : <<j, i>> \notin OpToRel(<, Nat)
  BY NatLessThanWellFounded, WFMin
<1>2. \A i, j \in Nat : <<j, i>> \notin OpToRel(<, Nat) => i <= j
  BY DEF OpToRel
<1>3. QED
  BY <1>1, <1>2

\* A function given by its first value and by the steps between its values.
Follows(g, n, v, step) == g[0] = v /\ \A i \in 1..n : g[i] = step[i][g[i - 1]]

\* There is such a function.
LEMMA RecursionExists ==
  ASSUME NEW n \in Nat, NEW V, NEW v \in V, NEW step \in [1..n -> [V -> V]]
  PROVE  \E g \in [0..n -> V] : Follows(g, n, v, step)
<1> DEFINE S == {m \in 0..n : ~\E g \in [0..m -> V] : Follows(g, m, v, step)}
<1>1. SUFFICES ASSUME S # {} PROVE FALSE
  OBVIOUS
<1>2. PICK m \in S : \A j \in S : m <= j
  <2>1. S \in SUBSET Nat
    OBVIOUS
  <2>2. QED
    BY <1>1, <2>1, FirstExists
<1>3. m # 0
  <2>1. SUFFICES ASSUME m = 0 PROVE FALSE
    OBVIOUS
  <2>2. [i \in 0..m |-> v] \in [0..m -> V] /\ Follows([i \in 0..m |-> v], m, v, step)
    BY <2>1 DEF Follows
  <2>3. QED
    BY <2>2
<1>4. m \in 1..n /\ m - 1 \in 0..n /\ m - 1 \notin S
  BY <1>2, <1>3
<1>5. PICK g \in [0..(m - 1) -> V] : Follows(g, m - 1, v, step)
  BY <1>4
<1> DEFINE h == [i \in 0..m |-> IF i = m THEN step[m][g[m - 1]] ELSE g[i]]
<1>6. g[m - 1] \in V /\ step[m] \in [V -> V]
  BY <1>4
<1>7. h \in [0..m -> V]
  BY <1>4, <1>6
<1>8. h[0] = v
  BY <1>3, <1>4, <1>5 DEF Follows
<1>9. ASSUME NEW i \in 1..m PROVE h[i] = step[i][h[i - 1]]
  <2>1. i - 1 \in 0..m /\ i - 1 # m /\ h[i - 1] = g[i - 1]
    BY <1>4
  <2>2. CASE i = m
    BY <2>1, <2>2
  <2>3. CASE i # m
    <3>1. i \in 1..(m - 1) /\ h[i] = g[i]
      BY <1>4, <2>3
    <3>2. QED
      BY <2>1, <3>1, <1>5 DEF Follows
  <2>4. QED
    BY <2>2, <2>3
<1>10. QED
  BY <1>7, <1>8, <1>9 DEF Follows

\* Two functions begin alike and go on alike.
GoesWith(g, h, n) ==
  g[0] = h[0] /\ \A i \in 1..n : g[i - 1] = h[i - 1] => g[i] = h[i]

\* Then they are the same.
LEMMA SameValues ==
  ASSUME NEW n \in Nat, NEW g, NEW h, GoesWith(g, h, n)
  PROVE  \A i \in 0..n : g[i] = h[i]
<1> DEFINE S == {m \in 0..n : g[m] # h[m]}
<1>1. SUFFICES ASSUME S # {} PROVE FALSE
  OBVIOUS
<1>2. PICK m \in S : \A j \in S : m <= j
  <2>1. S \in SUBSET Nat
    OBVIOUS
  <2>2. QED
    BY <1>1, <2>1, FirstExists
<1>3. m \in 1..n /\ m - 1 \in 0..n /\ g[m - 1] = h[m - 1]
  BY <1>2 DEF GoesWith
<1>4. QED
  BY <1>2, <1>3 DEF GoesWith

-----------------------------------------------------------------------------
(* Numbers in bytes *)

\* A number is read byte by byte, the first one being the most significant.
LEMMA PrefixValues ==
  ASSUME NEW b \in Bytes
  PROVE  /\ Prefixes(b) \in [0..Len(b) -> Nat]
         /\ Prefixes(b)[0] = 0
         /\ \A i \in 1..Len(b) : Prefixes(b)[i] = Prefixes(b)[i - 1] * Base + b[i]
<1> DEFINE n == Len(b)
           step == [i \in 1..n |-> [x \in Nat |-> x * Base + b[i]]]
           Reads(p) == p = [i \in 0..n |-> IF i = 0 THEN 0 ELSE p[i - 1] * Base + b[i]]
<1>1. n \in Nat /\ Base \in Nat /\ \A i \in 1..n : b[i] \in Nat
  BY DataAssumption, LenProperties DEF Bytes
<1>2. step \in [1..n -> [Nat -> Nat]]
  BY <1>1
<1>3. PICK g \in [0..n -> Nat] : Follows(g, n, 0, step)
  BY <1>1, <1>2, RecursionExists
<1>4. \A i \in 1..n : g[i] = g[i - 1] * Base + b[i]
  <2>1. SUFFICES ASSUME NEW i \in 1..n PROVE g[i] = g[i - 1] * Base + b[i]
    OBVIOUS
  <2>2. i - 1 \in 0..n
    BY <1>1
  <2>3. g[i - 1] \in Nat
    BY <2>2
  <2>4. g[i] = step[i][g[i - 1]]
    BY <1>3 DEF Follows
  <2>5. QED
    BY <2>3, <2>4
<1>5. g[0] = 0
  BY <1>3 DEF Follows
<1>6. Reads(g)
  BY <1>1, <1>4, <1>5
<1>7. Prefixes(b) = CHOOSE p : Reads(p)
  BY DEF Prefixes
<1>8. Reads(Prefixes(b))
  BY <1>6, <1>7
<1>9. \A i \in 0..n : Prefixes(b)[i] = g[i]
  <2>1. Prefixes(b)[0] = g[0]
    BY <1>1, <1>5, <1>8
  <2>2. ASSUME NEW i \in 1..n, Prefixes(b)[i - 1] = g[i - 1] PROVE Prefixes(b)[i] = g[i]
    BY <1>1, <1>4, <1>8, <2>2
  <2>3. GoesWith(Prefixes(b), g, n)
    BY <2>1, <2>2 DEF GoesWith
  <2>4. QED
    BY <1>1, <2>3, SameValues
<1>10. Prefixes(b) \in [0..n -> Nat]
  <2>1. \A i \in 0..n : Prefixes(b)[i] \in Nat
    BY <1>9
  <2>2. QED
    BY <1>8, <2>1
<1>11. QED
  BY <1>1, <1>8, <1>10

\* A number is written byte by byte, the last one being the least significant.
LEMMA QuotientValues ==
  ASSUME NEW n \in Nat, NEW k \in Nat
  PROVE  /\ Quotients(n, k) \in [0..k -> Nat]
         /\ Quotients(n, k)[k] = n
         /\ \A i \in 1..k : Quotients(n, k)[i - 1] = Quotients(n, k)[i] \div Base
<1> DEFINE step == [i \in 1..k |-> [x \in Nat |-> x \div Base]]
           Cuts(q) == q = [i \in 0..k |-> IF i = k THEN n ELSE q[i + 1] \div Base]
<1>1. Base \in Nat \ {0, 1}
  BY DataAssumption
<1>2. \A x \in Nat : x \div Base \in Nat
  BY <1>1
<1>3. step \in [1..k -> [Nat -> Nat]]
  BY <1>2
<1>4. PICK g \in [0..k -> Nat] : Follows(g, k, n, step)
  BY <1>3, RecursionExists
<1>5. g[0] = n
  BY <1>4 DEF Follows
<1>6. \A i \in 1..k : g[i] = g[i - 1] \div Base
  <2>1. SUFFICES ASSUME NEW i \in 1..k PROVE g[i] = g[i - 1] \div Base
    OBVIOUS
  <2>2. g[i - 1] \in Nat
    BY i - 1 \in 0..k
  <2>3. g[i] = step[i][g[i - 1]]
    BY <1>4 DEF Follows
  <2>4. QED
    BY <2>2, <2>3
<1> DEFINE h == [i \in 0..k |-> g[k - i]]
<1>7. h[k] = n
  BY <1>5
<1>8. \A i \in 0..k : i # k => h[i] = h[i + 1] \div Base
  <2>1. SUFFICES ASSUME NEW i \in 0..k, i # k PROVE h[i] = h[i + 1] \div Base
    OBVIOUS
  <2>2. k - i \in 1..k /\ (k - i) - 1 = k - (i + 1) /\ i + 1 \in 0..k
    BY <2>1
  <2>3. QED
    BY <1>6, <2>2
<1>9. Cuts(h)
  BY <1>7, <1>8
<1>10. Cuts(Quotients(n, k))
  <2>1. Quotients(n, k) = CHOOSE q : Cuts(q)
    BY DEF Quotients
  <2>2. QED
    BY <1>9, <2>1
<1> DEFINE r == [i \in 0..k |-> Quotients(n, k)[k - i]]
<1>11. \A i \in 0..k : r[i] = g[i]
  <2>1. r[0] = g[0]
    BY <1>5, <1>10
  <2>2. ASSUME NEW i \in 1..k, r[i - 1] = g[i - 1] PROVE r[i] = g[i]
    <3>1. k - i \in 0..k /\ k - i # k /\ (k - i) + 1 = k - (i - 1) /\ i - 1 \in 0..k
      OBVIOUS
    <3>2. Quotients(n, k)[k - i] = Quotients(n, k)[(k - i) + 1] \div Base
      BY <1>10, <3>1
    <3>3. QED
      BY <1>6, <2>2, <3>1, <3>2
  <2>3. GoesWith(r, g, k)
    BY <2>1, <2>2 DEF GoesWith
  <2> HIDE DEF r
  <2>4. QED
    BY <2>3, SameValues
<1>12. \A i \in 0..k : Quotients(n, k)[i] = g[k - i]
  <2>1. SUFFICES ASSUME NEW i \in 0..k PROVE Quotients(n, k)[i] = g[k - i]
    OBVIOUS
  <2>2. k - i \in 0..k /\ k - (k - i) = i
    OBVIOUS
  <2>3. QED
    BY <1>11, <2>2
<1>13. \A i \in 0..k : Quotients(n, k)[i] \in Nat
  BY <1>12
<1>14. QED
  <2>1. Quotients(n, k) \in [0..k -> Nat]
    BY <1>10, <1>13
  <2>2. ASSUME NEW i \in 1..k
        PROVE  Quotients(n, k)[i - 1] = Quotients(n, k)[i] \div Base
    <3>1. i - 1 \in 0..k /\ i - 1 # k /\ (i - 1) + 1 = i
      OBVIOUS
    <3>2. QED
      BY <1>10, <3>1
  <2>3. QED
    BY <1>10, <2>1, <2>2

\* A number is read as what it was written, if it fits in the bytes.
LEMMA NumberInBytes ==
  ASSUME NEW n \in Nat, NEW k \in Nat, Fits(n, k)
  PROVE  /\ InBytes(n, k) \in Bytes
         /\ Len(InBytes(n, k)) = k
         /\ Number(InBytes(n, k)) = n
<1> DEFINE b == InBytes(n, k)
           q == Quotients(n, k)
<1>1. Base \in Nat \ {0, 1}
  BY DataAssumption
<1>2. /\ q \in [0..k -> Nat] /\ q[k] = n
      /\ \A i \in 1..k : q[i - 1] = q[i] \div Base
  BY QuotientValues
<1>3. q[0] = 0
  BY DEF Fits
<1> HIDE DEF q
<1>4. \A i \in 1..k : q[i] % Base \in 0..(Base - 1)
  BY <1>1, <1>2
<1>5. b = [i \in 1..k |-> q[i] % Base]
  BY DEF InBytes, q
<1>6. b \in Bytes /\ Len(b) = k
  BY <1>4, <1>5 DEF Bytes
<1> HIDE DEF b
<1>7. /\ Prefixes(b)[0] = 0
      /\ \A i \in 1..k : Prefixes(b)[i] = Prefixes(b)[i - 1] * Base + b[i]
  BY <1>6, PrefixValues
<1>8. \A i \in 0..k : Prefixes(b)[i] = q[i]
  <2>1. Prefixes(b)[0] = q[0]
    BY <1>3, <1>7
  <2>2. ASSUME NEW i \in 1..k, Prefixes(b)[i - 1] = q[i - 1] PROVE Prefixes(b)[i] = q[i]
    <3>1. q[i] \in Nat /\ q[i - 1] = q[i] \div Base /\ b[i] = q[i] % Base
      BY <1>2, <1>5
    <3>2. \A x \in Nat : (x \div Base) * Base + (x % Base) = x
      BY <1>1
    <3>3. q[i] = q[i - 1] * Base + b[i]
      BY <3>1, <3>2
    <3>4. QED
      BY <1>7, <2>2, <3>3
  <2>3. GoesWith(Prefixes(b), q, k)
    BY <2>1, <2>2 DEF GoesWith
  <2>4. QED
    BY <2>3, SameValues
<1>9. Number(b) = n
  BY <1>2, <1>6, <1>8 DEF Number
<1>10. QED
  BY <1>6, <1>9 DEF b

-----------------------------------------------------------------------------
(* Parts of the data *)

\* The smaller of two numbers, as subarray needs it.
LEMMA MinOfTwo ==
  ASSUME NEW a \in Nat, NEW b \in Nat
  PROVE  Min({a, b}) = IF a <= b THEN a ELSE b
<1>1. PICK m \in {a, b} : \A x \in {a, b} : m <= x
  OBVIOUS
<1>2. Min({a, b}) \in {a, b} /\ \A x \in {a, b} : Min({a, b}) <= x
  BY <1>1 DEF Min
<1>3. QED
  BY <1>2

\* One part after the other, without what that means byte by byte.
Join(a, b) == a \o b

\* subarray gives the bytes between two others.
LEMMA PartBetween ==
  ASSUME NEW a \in Bytes, NEW b \in Bytes, NEW c \in Bytes
  PROVE  Subarray(Join(Join(a, b), c), Len(a), Len(a) + Len(b)) = b
<1> DEFINE d == a \o b \o c
           m == Len(a)
           n == Len(b)
<1>1. /\ m \in Nat /\ n \in Nat /\ Len(c) \in Nat
      /\ \A i \in 1..n : b[i] \in Byte
  BY LenProperties DEF Bytes, Byte
<1>2. /\ a \o b \in Bytes /\ Len(a \o b) = m + n
      /\ \A i \in 1..(m + n) : (a \o b)[i] = IF i <= m THEN a[i] ELSE b[i - m]
  BY ConcatProperties DEF Bytes
<1>3. /\ Len(d) = m + n + Len(c)
      /\ \A i \in 1..(m + n + Len(c)) : d[i] = IF i <= m + n THEN (a \o b)[i] ELSE c[i - (m + n)]
  BY <1>2, ConcatProperties DEF Bytes
<1>4. \A i \in 1..n : d[m + i] = b[i]
  <2>1. SUFFICES ASSUME NEW i \in 1..n PROVE d[m + i] = b[i]
    OBVIOUS
  <2>2. m + i \in 1..(m + n) /\ m + i \in 1..(m + n + Len(c)) /\ (m + i) - m = i /\ ~(m + i <= m)
    BY <1>1
  <2>3. QED
    BY <1>1, <1>2, <1>3, <2>2
<1>5. Subarray(d, m, m + n) = SubSeq(d, m + 1, m + n)
  <2>1. m + n \in Nat /\ Len(d) \in Nat /\ m + n <= Len(d)
    BY <1>1, <1>3
  <2>2. Min({m + n, Len(d)}) = m + n
    BY <2>1, MinOfTwo
  <2>3. QED
    BY <2>2 DEF Subarray
<1> HIDE DEF d
<1>6. \A i \in (m + 1)..(m + n) : d[i] \in Byte
  <2>1. SUFFICES ASSUME NEW i \in (m + 1)..(m + n) PROVE d[i] \in Byte
    OBVIOUS
  <2>2. i - m \in 1..n /\ m + (i - m) = i
    BY <1>1
  <2>3. QED
    BY <1>1, <1>4, <2>2
<1>7. /\ SubSeq(d, m + 1, m + n) \in Seq(Byte)
      /\ Len(SubSeq(d, m + 1, m + n)) = n
      /\ \A i \in 1..n : SubSeq(d, m + 1, m + n)[i] = b[i]
  <2>1. m + 1 \in Int /\ m + n \in Int
    BY <1>1
  <2>2. /\ SubSeq(d, m + 1, m + n) \in Seq(Byte)
        /\ Len(SubSeq(d, m + 1, m + n)) = IF m + 1 <= m + n THEN (m + n) - (m + 1) + 1 ELSE 0
        /\ \A i \in 1..((m + n) - (m + 1) + 1) :
             SubSeq(d, m + 1, m + n)[i] = d[(m + 1) + i - 1]
    BY <1>6, <2>1, SubSeqProperties
  <2>3. (m + n) - (m + 1) + 1 = n /\ \A i \in 1..n : (m + 1) + i - 1 = m + i
    BY <1>1
  <2>4. m + 1 <= m + n \/ n = 0
    BY <1>1
  <2>5. QED
    BY <1>1, <1>4, <2>2, <2>3, <2>4
<1>8. SubSeq(d, m + 1, m + n) = b
  BY <1>7, SeqEqual DEF Bytes, Byte
<1>9. QED
  BY <1>5, <1>8 DEF d, Join

\* Joined parts are bytes, as many as both have.
LEMMA Joined ==
  ASSUME NEW a \in Bytes, NEW b \in Bytes
  PROVE  /\ Join(a, b) \in Bytes /\ Len(Join(a, b)) = Len(a) + Len(b)
         /\ Len(a) \in Nat /\ Len(b) \in Nat
BY ConcatProperties, LenProperties DEF Bytes, Join

\* Where the parts are cut first does not matter.
LEMMA Regrouped ==
  ASSUME NEW a \in Bytes, NEW b \in Bytes, NEW c \in Bytes
  PROVE  Join(Join(a, b), c) = Join(a, Join(b, c))
BY ConcatAssociative DEF Bytes, Join

\* The first word of the data.
LEMMA FirstPart ==
  ASSUME NEW b \in Bytes, NEW c \in Bytes
  PROVE  Subarray(Join(b, c), 0, Len(b)) = b /\ Len(Join(b, c)) >= Len(b)
<1>1. <<>> \in Bytes /\ Len(<<>>) = 0 /\ Join(<<>>, b) = b
  BY ConcatEmptySeq DEF Bytes, Join
<1>2. Subarray(Join(Join(<<>>, b), c), 0, 0 + Len(b)) = b
  BY <1>1, PartBetween
<1>3. Len(Join(b, c)) = Len(b) + Len(c) /\ Len(b) \in Nat /\ Len(c) \in Nat
  BY Joined
<1>4. QED
  BY <1>1, <1>2, <1>3

-----------------------------------------------------------------------------
(* The two layouts *)

\* Of an asset deposit the decoder takes the recipient that was put there.
LEMMA AssetParts ==
  ASSUME NEW w \in Words, NEW r \in Bytes, NEW x \in Bytes, Fits(Len(r), Word)
  PROVE  /\ AssetRecipient(AssetData(w, r, x)) = r
         /\ Subarray(AssetData(w, r, x), 0, Word) = w
         /\ Len(AssetData(w, r, x)) >= Word
<1> DEFINE l == InBytes(Len(r), Word)
           d == AssetData(w, r, x)
<1>1. w \in Bytes /\ Len(w) = Word /\ Word \in Nat /\ Len(r) \in Nat
  BY LayoutAssumption, DataAssumption, LenProperties DEF Bytes
<1>2. l \in Bytes /\ Len(l) = Word /\ Number(l) = Len(r)
  BY <1>1, NumberInBytes
<1>3. d = Join(Join(Join(w, l), r), x)
  BY DEF AssetData, Join
<1> HIDE DEF l, d
<1>4. Join(w, l) \in Bytes /\ Len(Join(w, l)) = 2 * Word
  <2>1. Join(w, l) \in Bytes
    BY <1>1, <1>2, Joined
  <2>2. Len(Join(w, l)) = Len(w) + Len(l)
    BY <1>1, <1>2, Joined
  <2>3. QED
    BY <1>1, <1>2, <2>1, <2>2
<1>5. d = Join(Join(w, l), Join(r, x)) /\ Join(r, x) \in Bytes
  BY <1>3, <1>4, Regrouped, Joined
<1>6. d = Join(w, Join(l, Join(r, x))) /\ Join(l, Join(r, x)) \in Bytes
  BY <1>1, <1>2, <1>5, Regrouped, Joined
<1>7. Subarray(d, 0, Word) = w /\ Len(d) >= Word
  BY <1>1, <1>6, FirstPart
<1>8. Subarray(d, Word, 2 * Word) = l
  <2>1. Subarray(Join(Join(w, l), Join(r, x)), Len(w), Len(w) + Len(l)) = l
    BY <1>1, <1>2, <1>5, PartBetween
  <2>2. Word + Word = 2 * Word
    BY <1>1
  <2>3. QED
    BY <1>1, <1>2, <1>5, <2>1, <2>2
<1>9. Subarray(d, 2 * Word, 2 * Word + Len(r)) = r
  <2>1. Subarray(Join(Join(Join(w, l), r), x), Len(Join(w, l)), Len(Join(w, l)) + Len(r)) = r
    BY <1>4, PartBetween
  <2>2. QED
    BY <1>3, <1>4, <2>1
<1>10. AssetRecipient(d) = r
  BY <1>2, <1>8, <1>9 DEF AssetRecipient
<1>11. QED
  BY <1>7, <1>10 DEF d

\* Of a generic deposit it takes the address that was put there.
LEMMA GenericParts ==
  ASSUME NEW w \in Words, NEW g \in Bytes, NEW r \in Bytes, NEW x \in Bytes,
         Fits(Len(g), 2), Fits(Len(r), 1)
  PROVE  GenericRecipient(GenericData(w, g, r, x)) = r
<1> DEFINE l == InBytes(Len(g), 2)
           a == InBytes(Len(r), 1)
           d == GenericData(w, g, r, x)
<1>1. w \in Bytes /\ Len(w) = Word /\ Word \in Nat /\ Len(g) \in Nat /\ Len(r) \in Nat
  BY LayoutAssumption, DataAssumption, LenProperties DEF Bytes
<1>2. l \in Bytes /\ Len(l) = 2 /\ Number(l) = Len(g)
  BY <1>1, NumberInBytes
<1>3. a \in Bytes /\ Len(a) = 1 /\ Number(a) = Len(r)
  BY <1>1, NumberInBytes
<1>4. d = Join(Join(Join(Join(Join(w, l), g), a), r), x)
  BY DEF GenericData, Join
<1> HIDE DEF l, a, d
<1> DEFINE after == Word + 2 + Len(g)
<1>5. Join(w, l) \in Bytes /\ Len(Join(w, l)) = Word + 2
  <2>1. Join(w, l) \in Bytes
    BY <1>1, <1>2, Joined
  <2>2. Len(Join(w, l)) = Len(w) + Len(l)
    BY <1>1, <1>2, Joined
  <2>3. QED
    BY <1>1, <1>2, <2>1, <2>2
<1>6. Join(Join(w, l), g) \in Bytes /\ Len(Join(Join(w, l), g)) = after /\ after \in Nat
  <2>1. Join(Join(w, l), g) \in Bytes
    BY <1>1, <1>5, Joined
  <2>2. Len(Join(Join(w, l), g)) = Len(Join(w, l)) + Len(g)
    BY <1>1, <1>5, Joined
  <2>3. QED
    BY <1>1, <1>5, <2>1, <2>2
<1>7. Join(Join(Join(w, l), g), a) \in Bytes /\ Len(Join(Join(Join(w, l), g), a)) = after + 1
  <2>1. Join(Join(Join(w, l), g), a) \in Bytes
    BY <1>3, <1>6, Joined
  <2>2. Len(Join(Join(Join(w, l), g), a)) = Len(Join(Join(w, l), g)) + Len(a)
    BY <1>3, <1>6, Joined
  <2>3. QED
    BY <1>3, <1>6, <2>1, <2>2
<1>8. d = Join(Join(Join(Join(w, l), g), a), Join(r, x)) /\ Join(r, x) \in Bytes
  BY <1>4, <1>7, Regrouped, Joined
<1>9. d = Join(Join(w, l), Join(g, Join(a, Join(r, x)))) /\ Join(g, Join(a, Join(r, x))) \in Bytes
  <2>1. d = Join(Join(Join(w, l), g), Join(a, Join(r, x))) /\ Join(a, Join(r, x)) \in Bytes
    BY <1>3, <1>6, <1>8, Regrouped, Joined
  <2>2. QED
    BY <1>5, <2>1, Regrouped, Joined
<1>10. Subarray(d, Word, Word + 2) = l
  <2>1. Subarray(d, Len(w), Len(w) + Len(l)) = l
    BY <1>1, <1>2, <1>9, PartBetween
  <2>2. QED
    BY <1>1, <1>2, <2>1
<1>11. Subarray(d, after, after + 1) = a
  <2>1. Subarray(d, Len(Join(Join(w, l), g)), Len(Join(Join(w, l), g)) + Len(a)) = a
    BY <1>3, <1>6, <1>8, PartBetween
  <2>2. QED
    BY <1>3, <1>6, <2>1
<1>12. Subarray(d, after + 1, after + 1 + Len(r)) = r
  BY <1>4, <1>7, PartBetween
<1>13. GenericRecipient(d) = r
  BY <1>2, <1>3, <1>10, <1>11, <1>12 DEF GenericRecipient
<1>14. QED
  BY <1>13 DEF d

\* Of data in either layout the parsers read the recipient that the sender named.
LEMMA SentIsRead ==
  ASSUME NEW d, NEW r \in Recipients, SentTo(d, r)
  PROVE  Recipient(d) = r /\ AmountReadable(d) /\ d.resource # "other"
<1>1. PICK w \in Words, x \in Rests :
        \/ /\ d.resource \in {"fungible", "nonFungible"}
           /\ Fits(Len(r), Word)
           /\ d.data = AssetData(w, r, x)
        \/ /\ d.resource = "permissionlessGeneric"
           /\ Fits(Len(r), 1)
           /\ \E g \in Signatures : Fits(Len(g), 2) /\ d.data = GenericData(w, g, r, x)
  BY DEF SentTo, Holds
<1>2. r \in Bytes /\ x \in Bytes
  BY LayoutAssumption
<1>3. CASE d.resource \in {"fungible", "nonFungible"}
  <2>1. d.data = AssetData(w, r, x) /\ Fits(Len(r), Word)
    BY <1>1, <1>3
  <2>2. AssetRecipient(d.data) = r /\ Len(d.data) >= Word
    BY <1>2, <2>1, AssetParts
  <2>3. QED
    BY <1>3, <2>2 DEF Recipient, AmountReadable
<1>4. CASE d.resource = "permissionlessGeneric"
  <2>1. PICK g \in Signatures : Fits(Len(g), 2) /\ d.data = GenericData(w, g, r, x)
    BY <1>1, <1>4
  <2>2. g \in Bytes /\ Fits(Len(r), 1)
    BY <1>1, <1>4, LayoutAssumption
  <2>3. GenericRecipient(d.data) = r
    BY <1>2, <2>1, <2>2, GenericParts
  <2>4. QED
    BY <1>4, <2>3 DEF Recipient, AmountReadable
<1>5. QED
  BY <1>1, <1>3, <1>4

\* A recipient that is an account is located as that account and as nothing else.
LEMMA AccountLocated ==
  ASSUME NEW r \in Bytes, IsAccount(r)
  PROVE  Locations(r) = {<<"stored", SubSeq(r, 5, Len(r))>>}
<1>1. PICK account \in [1..AccountLen -> Byte] : r = AccountPrefix \o account
  BY DEF IsAccount, Byte
<1>2. AccountLen \in Nat /\ Base \in Nat \ {0, 1}
  BY DataAssumption
<1>3. account \in Bytes /\ Len(account) = AccountLen
  BY <1>1, <1>2 DEF Bytes, Byte
<1>4. AccountPrefix \in Bytes /\ Len(AccountPrefix) = 4
  BY <1>2 DEF AccountPrefix, Bytes
<1> HIDE DEF AccountPrefix
<1>5. r = Join(AccountPrefix, account)
  BY <1>1 DEF Join
<1>6. Len(r) = 4 + AccountLen
  <2>1. Len(r) = Len(AccountPrefix) + Len(account)
    BY <1>3, <1>4, <1>5, Joined
  <2>2. QED
    BY <1>3, <1>4, <2>1
<1>7. SubSeq(r, 1, 4) = AccountPrefix
  <2>1. Subarray(r, 0, 4) = AccountPrefix
    BY <1>3, <1>4, <1>5, FirstPart
  <2>2. Min({4, Len(r)}) = 4
    <3>1. 4 \in Nat /\ Len(r) \in Nat /\ 4 <= Len(r)
      BY <1>2, <1>6
    <3>2. QED
      BY <3>1, MinOfTwo
  <2>3. Subarray(r, 0, 4) = SubSeq(r, 1, 4)
    BY <2>2 DEF Subarray
  <2>4. QED
    BY <2>1, <2>3
<1>8. QED
  BY <1>2, <1>6, <1>7 DEF Locations

-----------------------------------------------------------------------------
(* The parser *)

\* The result is one the parser may have made of the deposit.
ParsedInv == deposit \in Deposits /\ (result = NoResult \/ result \in Parsed(deposit))

\* There is only one step, which parses the deposit.
LEMMA AlwaysParsed == Spec => []ParsedInv
<1>1. Init => ParsedInv
  BY DEF Init, ParsedInv
<1>2. ParsedInv /\ [Next]_vars => ParsedInv'
  BY DEF ParsedInv, Next, Parse, vars, Parsed, Destinations, Recipient, AmountReadable, Amount, Decimals
<1>3. QED
  BY <1>1, <1>2, PTL DEF Spec

\* What is stored, and what ends the process.
LEMMA ResultCases ==
  ASSUME ParsedInv, result # NoResult
  PROVE  \E r \in Destinations(deposit) :
           \/ r[1] # "stored" /\ result = Result(r[1], <<>>, <<>>)
           \/ /\ r[1] = "stored" /\ AmountReadable(deposit)
              /\ result = Result("stored", r[2], Amount(deposit))
           \/ /\ r[1] = "stored" /\ ~AmountReadable(deposit)
              /\ result = Result("throws", <<>>, <<>>)
BY DEF ParsedInv, Parsed

\* The only destination of a deposit to an EVM domain, and to an account on Substrate.
LEMMA OneDestination ==
  ASSUME NEW d, NEW r \in Recipients, SentTo(d, r)
  PROVE  /\ d.destination = "evm" => Destinations(d) = {<<"stored", r>>}
         /\ d.destination = "substrate" /\ IsAccount(r) =>
              Destinations(d) = {<<"stored", SubSeq(r, 5, Len(r))>>}
<1>1. Recipient(d) = r /\ d.resource # "other" /\ r \in Bytes
  BY SentIsRead, LayoutAssumption
<1>2. IsAccount(r) => Locations(r) = {<<"stored", SubSeq(r, 5, Len(r))>>}
  BY <1>1, AccountLocated
<1>3. QED
  BY <1>1, <1>2 DEF Destinations

\* parseDestination stores the recipient that the sender has put into the data, whatever
\* the sizes of its parts, the lengths in front of them and the bytes that follow.
THEOREM RecipientIsKept == Spec => []RecipientKept
<1>1. ParsedInv => RecipientKept
  <2>1. SUFFICES ASSUME ParsedInv, result # NoResult, NEW r \in Recipients, SentTo(deposit, r)
                 PROVE  /\ deposit.destination = "evm" =>
                             result.outcome = "stored" /\ result.destination = r
                        /\ deposit.destination = "substrate" /\ IsAccount(r) =>
                             /\ result.outcome = "stored"
                             /\ result.destination = SubSeq(r, 5, Len(r))
    BY DEF RecipientKept
  <2>2. AmountReadable(deposit)
    BY <2>1, SentIsRead
  <2>3. PICK x \in Destinations(deposit) :
          \/ x[1] # "stored" /\ result = Result(x[1], <<>>, <<>>)
          \/ x[1] = "stored" /\ result = Result("stored", x[2], Amount(deposit))
    BY <2>1, <2>2, ResultCases
  <2>4. /\ deposit.destination = "evm" => x = <<"stored", r>>
        /\ deposit.destination = "substrate" /\ IsAccount(r) =>
             x = <<"stored", SubSeq(r, 5, Len(r))>>
    BY <2>1, <2>3, OneDestination
  <2>5. QED
    BY <2>3, <2>4 DEF Result
<1>2. QED
  BY <1>1, AlwaysParsed, PTL

\* decodeAmountOrTokenId stores the amount or the id in the first word of the data; an
\* amount is in the token sent if the token whose decimals scale it has as many.
THEOREM AmountIsKept == Spec => []AmountKept
<1>1. ParsedInv => AmountKept
  <2>1. SUFFICES ASSUME ParsedInv, result.outcome = "stored",
                        NEW w \in Words, NEW r \in Recipients, Holds(deposit, w, r)
                 PROVE  /\ deposit.resource = "fungible"
                             /\ (deposit.origin = "evm" =>
                                   deposit.feeDecimals = deposit.decimals)
                           => result.amount = <<Number(w), deposit.decimals>>
                        /\ deposit.resource = "nonFungible" => result.amount = <<Number(w), 0>>
                        /\ deposit.resource = "permissionlessGeneric" => result.amount = <<>>
    BY DEF AmountKept
  <2>2. result.amount = Amount(deposit)
    BY <2>1, ResultCases DEF Result, NoResult
  <2>3. deposit.origin # "evm" => Decimals(deposit) = deposit.decimals
    BY DEF Decimals
  <2>4. deposit.origin = "evm" => Decimals(deposit) = deposit.feeDecimals
    BY DEF Decimals
  <2>5. deposit.resource \in {"fungible", "nonFungible"} =>
          Subarray(deposit.data, 0, Word) = w
    <3>1. SUFFICES ASSUME deposit.resource \in {"fungible", "nonFungible"}
                   PROVE  Subarray(deposit.data, 0, Word) = w
      OBVIOUS
    <3>2. PICK x \in Rests : Fits(Len(r), Word) /\ deposit.data = AssetData(w, r, x)
      BY <2>1, <3>1 DEF Holds
    <3>3. r \in Bytes /\ x \in Bytes
      BY LayoutAssumption
    <3>4. QED
      BY <3>2, <3>3, AssetParts
  <2>6. QED
    BY <2>2, <2>3, <2>4, <2>5 DEF Amount
<1>2. QED
  BY <1>1, AlwaysParsed, PTL

\* Data in one of the two layouts end the process only if the recipient on Substrate
\* is no account: no decoder throws for its lengths or for what follows its parts.
THEOREM OnlyLocationsEnd == Spec => []OnlyLocationsThrow
<1>1. ParsedInv => OnlyLocationsThrow
  <2>1. SUFFICES ASSUME ParsedInv, result.outcome = "throws",
                        NEW r \in Recipients, SentTo(deposit, r)
                 PROVE  deposit.destination = "substrate" /\ ~IsAccount(r)
    BY DEF OnlyLocationsThrow
  <2>2. AmountReadable(deposit) /\ deposit.resource # "other"
    BY <2>1, SentIsRead
  <2>3. PICK x \in Destinations(deposit) : x[1] = "throws"
    BY <2>1, <2>2, ResultCases DEF Result, NoResult
  <2>4. deposit.destination = "substrate"
    <3>1. deposit.destination # "other"
      BY <2>2, <2>3 DEF Destinations
    <3>2. deposit.destination # "evm"
      BY <2>1, <2>3, OneDestination
    <3>3. QED
      BY <2>1, <3>1, <3>2, DataAssumption DEF ParsedInv, Deposit, Network
  <2>5. ~IsAccount(r)
    BY <2>1, <2>3, <2>4, OneDestination
  <2>6. QED
    BY <2>4, <2>5
<1>2. QED
  BY <1>1, AlwaysParsed, PTL

=============================================================================
