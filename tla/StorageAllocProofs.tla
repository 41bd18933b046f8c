------------------------- MODULE StorageAllocProofs -------------------------
(****************************************************************************)
(* What free_page() and alloc_page() do to the chain of free page segments, *)
(* for every heap: the chain stays in address order, no two segments of it  *)
(* touch, curr_free_page stays on it, and pages are neither lost nor handed *)
(* out twice.                                                               *)
(****************************************************************************)
EXTENDS StorageAlloc, TLAPS, FiniteSetTheorems, SequenceTheorems

----------------------------------------------------------------------------
(* Numbers and sequences. *)

\* A product is monotone.
LEMMA Times ==
  ASSUME NEW a \in Int, NEW b \in Int, NEW p \in Nat \ {0}
  PROVE  /\ a <= b => a * p <= b * p
         /\ a * p < b * p + p => a <= b
<1>1. ASSUME a <= b PROVE a * p <= b * p
  <2>1. (b - a) * p >= 0
    BY <1>1
  <2>2. (b - a) * p = b * p - a * p
    OBVIOUS
  <2> QED BY <2>1, <2>2
<1>2. ASSUME a * p < b * p + p, ~(a <= b) PROVE FALSE
  <2>1. (a - (b + 1)) * p >= 0
    BY <1>2
  <2>2. (a - (b + 1)) * p = a * p - (b * p + p)
    OBVIOUS
  <2>3. a * p >= b * p + p /\ a * p \in Int /\ b * p \in Int
    BY <2>1, <2>2
  <2> QED BY <1>2, <2>3
<1> QED BY <1>1, <1>2

\* What a division yields.
LEMMA Quotient ==
  ASSUME NEW n \in Nat, NEW p \in Nat \ {0}
  PROVE  /\ n \div p \in Nat
         /\ (n \div p) * p <= n /\ n < (n \div p) * p + p
<1>1. /\ n \div p \in Int /\ n % p \in 0..(p - 1) /\ n = (p * (n \div p)) + (n % p)
  OBVIOUS
<1>2. PICK q \in Int, r \in 0..(p - 1) : q = n \div p /\ n = p * q + r
  BY <1>1
<1>3. p * q = q * p /\ q * p \in Int
  OBVIOUS
<1>4. q * p <= n /\ n < q * p + p
  BY <1>2, <1>3
<1>5. q >= 0
  BY <1>4, Times, 0 * p < q * p + p
<1> QED BY <1>2, <1>4, <1>5

\* The whole pages that hold n bytes.
LEMMA AlignFacts ==
  ASSUME NEW n \in Nat
  PROVE  /\ \E k \in Nat : Align(n) = k * PageSize
         /\ Align(n) \in Nat /\ n <= Align(n) /\ Align(n) < n + PageSize
         /\ \A k \in Nat : n <= k * PageSize => Align(n) <= k * PageSize
<1>1. PageSize \in Nat \ {0}
  BY SizesAssumption
<1>2. PICK p \in Nat \ {0} : p = PageSize
  BY <1>1
<1>3. PICK m \in Nat : m = n + p - 1
  BY <1>2
<1>7. PICK q \in Nat : q = m \div p
  BY <1>2, Quotient
<1>4. Align(n) = q * p
  BY <1>2, <1>3, <1>7 DEF Align
<1>5. q * p <= m /\ m < q * p + p /\ q * p \in Nat
  BY <1>7, Quotient
<1>6. ASSUME NEW k \in Nat, n <= k * p PROVE q * p <= k * p
  <2>1. q * p < k * p + p
    BY <1>3, <1>5, <1>6
  <2> QED BY <2>1, Times
<1> QED BY <1>2, <1>3, <1>4, <1>5, <1>6

\* The pages of an object.
LEMMA AlignedFacts ==
  ASSUME NEW n \in Nat
  PROVE  /\ \E k \in Nat : Aligned(n) = k * PageSize
         /\ Aligned(n) \in Nat \ {0} /\ n + HeaderSize <= Aligned(n)
         /\ Aligned(n) < n + HeaderSize + PageSize
         /\ \A k \in Nat : n + HeaderSize <= k * PageSize => Aligned(n) <= k * PageSize
<1>1. PICK q \in Nat : q = n + HeaderSize /\ q > 0
  BY SizesAssumption
<1>2. Aligned(n) = Align(q)
  BY <1>1 DEF Aligned
<1>3. /\ \E k \in Nat : Align(q) = k * PageSize
      /\ Align(q) \in Nat /\ q <= Align(q) /\ Align(q) < q + PageSize
      /\ \A k \in Nat : q <= k * PageSize => Align(q) <= k * PageSize
  BY <1>1, AlignFacts
<1>4. PICK a \in Nat : a = Aligned(n) /\ a = Align(q)
  BY <1>2, <1>3
<1>5. a \in Nat \ {0}
  BY <1>1, <1>3, <1>4
<1> QED BY <1>1, <1>3, <1>4, <1>5

\* The least of a set of numbers.
LEMMA Least ==
  ASSUME NEW S \in SUBSET Nat, S # {}
  PROVE  Min(S) \in S /\ \A y \in S : Min(S) <= y
<1>1. PICK m \in S : \A k \in S : ~(<<k, m>> \in OpToRel(<, Nat))
  BY NatLessThanWellFounded, WFMin
<1>2. \A k \in S : m <= k
  <2> SUFFICES ASSUME NEW k \in S PROVE m <= k
    OBVIOUS
  <2>1. ~(k < m)
    BY <1>1 DEF OpToRel
  <2> QED BY <2>1
<1> QED BY <1>1, <1>2 DEF Min

\* A part of a sequence.
LEMMA SliceFacts ==
  ASSUME NEW s \in Seq(Nat), NEW m \in Nat \ {0}, NEW n \in Nat, m <= n + 1, n <= Len(s),
         NEW t, t = SubSeq(s, m, n)
  PROVE  /\ t \in Seq(Nat) /\ Len(t) = n - m + 1
         /\ \A k \in 1..n - m + 1 : t[k] = s[m + k - 1]
<1>1. \A i \in m..n : s[i] \in Nat
  OBVIOUS
<1>2. /\ t \in Seq(Nat) /\ Len(t) = IF m <= n THEN n - m + 1 ELSE 0
      /\ \A k \in 1..n - m + 1 : t[k] = s[m + k - 1]
  BY <1>1, SubSeqProperties
<1>3. (IF m <= n THEN n - m + 1 ELSE 0) = n - m + 1
  OBVIOUS
<1> QED BY <1>2, <1>3

\* What InsertAt yields.
LEMMA InsertFacts ==
  ASSUME NEW s \in Seq(Nat), NEW i \in 1..Len(s) + 1, NEW e \in Nat
  PROVE  /\ InsertAt(s, i, e) \in Seq(Nat) /\ Len(InsertAt(s, i, e)) = Len(s) + 1
         /\ \A k \in 1..Len(s) + 1 :
              InsertAt(s, i, e)[k] = IF k < i THEN s[k] ELSE IF k = i THEN e ELSE s[k - 1]
<1>1. PICK n \in Nat : n = Len(s) /\ i \in 1..n + 1
  OBVIOUS
<1>2. PICK a, b : a = SubSeq(s, 1, i - 1) /\ b = SubSeq(s, i, n)
  OBVIOUS
<1>3. /\ a \in Seq(Nat) /\ Len(a) = i - 1
      /\ \A k \in 1..i - 1 : a[k] = s[k]
  <2>1. PICK j \in Nat : j = i - 1 /\ 1 <= j + 1 /\ j <= Len(s) /\ a = SubSeq(s, 1, j)
    BY <1>1, <1>2
  <2>2. /\ a \in Seq(Nat) /\ Len(a) = j - 1 + 1
        /\ \A k \in 1..j - 1 + 1 : a[k] = s[1 + k - 1]
    BY <2>1, SliceFacts
  <2> QED BY <1>1, <2>1, <2>2
<1>4. /\ b \in Seq(Nat) /\ Len(b) = n - i + 1
      /\ \A k \in 1..n - i + 1 : b[k] = s[i + k - 1]
  <2>1. i \in Nat \ {0} /\ i <= n + 1 /\ n <= Len(s) /\ b = SubSeq(s, i, n)
    BY <1>1, <1>2
  <2> QED BY <2>1, SliceFacts
<1>5. PICK c : c = a \o <<e>>
  OBVIOUS
<1>6. /\ c \in Seq(Nat) /\ Len(c) = i
      /\ \A k \in 1..i : c[k] = IF k < i THEN s[k] ELSE e
  <2>1. PICK d : d = <<e>>
    OBVIOUS
  <2>2. d \in Seq(Nat) /\ Len(d) = 1 /\ d[1] = e
    BY <2>1
  <2>3. /\ a \o d \in Seq(Nat) /\ Len(a \o d) = Len(a) + Len(d)
        /\ \A k \in 1..Len(a) + Len(d) :
             (a \o d)[k] = IF k <= Len(a) THEN a[k] ELSE d[k - Len(a)]
    BY <1>3, <2>2, ConcatProperties
  <2>4. c = a \o d
    BY <1>5, <2>1
  <2> QED BY <1>1, <1>3, <2>2, <2>3, <2>4
<1>7. /\ c \o b \in Seq(Nat) /\ Len(c \o b) = Len(c) + Len(b)
      /\ \A k \in 1..Len(c) + Len(b) :
           (c \o b)[k] = IF k <= Len(c) THEN c[k] ELSE b[k - Len(c)]
  BY <1>4, <1>6, ConcatProperties
<1>8. PICK t : t = InsertAt(s, i, e)
  OBVIOUS
<1>9. t = c \o b
  BY <1>1, <1>2, <1>5, <1>8 DEF InsertAt
<1>10. t \in Seq(Nat) /\ Len(t) = n + 1
  BY <1>1, <1>4, <1>6, <1>7, <1>9
<1>11. ASSUME NEW k \in 1..n + 1
       PROVE  t[k] = IF k < i THEN s[k] ELSE IF k = i THEN e ELSE s[k - 1]
  <2>1. k \in 1..Len(c) + Len(b) /\ Len(c) = i
    BY <1>1, <1>4, <1>6
  <2>2. t[k] = IF k <= Len(c) THEN c[k] ELSE b[k - Len(c)]
    BY <1>7, <1>9, <2>1
  <2>3. CASE k <= i
    <3>1. t[k] = c[k] /\ k \in 1..i
      BY <2>1, <2>2, <2>3
    <3> QED BY <1>6, <3>1
  <2>4. CASE ~(k <= i)
    <3>1. PICK m \in 1..n - i + 1 : m = k - i /\ i + m - 1 = k - 1
      BY <1>1, <2>4
    <3>2. t[k] = b[m] /\ b[m] = s[i + m - 1]
      BY <1>4, <2>1, <2>2, <2>4, <3>1
    <3> QED BY <2>4, <3>1, <3>2
  <2> QED BY <2>3, <2>4
<1> QED BY <1>1, <1>8, <1>10, <1>11

\* What RemoveAt yields.
LEMMA RemoveFacts ==
  ASSUME NEW s \in Seq(Nat), NEW i \in 1..Len(s)
  PROVE  /\ RemoveAt(s, i) \in Seq(Nat) /\ Len(RemoveAt(s, i)) = Len(s) - 1
         /\ \A k \in 1..Len(s) - 1 : RemoveAt(s, i)[k] = IF k < i THEN s[k] ELSE s[k + 1]
<1>1. PICK n \in Nat : n = Len(s) /\ i \in 1..n
  OBVIOUS
<1>2. PICK a, b : a = SubSeq(s, 1, i - 1) /\ b = SubSeq(s, i + 1, n)
  OBVIOUS
<1>3. /\ a \in Seq(Nat) /\ Len(a) = i - 1
      /\ \A k \in 1..i - 1 : a[k] = s[k]
  <2>1. PICK j \in Nat : j = i - 1 /\ 1 <= j + 1 /\ j <= Len(s) /\ a = SubSeq(s, 1, j)
    BY <1>1, <1>2
  <2>2. /\ a \in Seq(Nat) /\ Len(a) = j - 1 + 1
        /\ \A k \in 1..j - 1 + 1 : a[k] = s[1 + k - 1]
    BY <2>1, SliceFacts
  <2> QED BY <1>1, <2>1, <2>2
<1>4. /\ b \in Seq(Nat) /\ Len(b) = n - i
      /\ \A k \in 1..n - i : b[k] = s[i + k]
  <2>1. PICK j \in Nat \ {0} : j = i + 1 /\ j <= n + 1 /\ n <= Len(s) /\ b = SubSeq(s, j, n)
    BY <1>1, <1>2
  <2>2. /\ b \in Seq(Nat) /\ Len(b) = n - j + 1
        /\ \A k \in 1..n - j + 1 : b[k] = s[j + k - 1]
    <3>1. j \in Nat \ {0} /\ n \in Nat /\ j <= n + 1 /\ n <= Len(s) /\ b = SubSeq(s, j, n)
      BY <1>1, <2>1
    <3> QED BY <3>1, SliceFacts
  <2> QED BY <1>1, <2>1, <2>2
<1>5. /\ a \o b \in Seq(Nat) /\ Len(a \o b) = Len(a) + Len(b)
      /\ \A k \in 1..Len(a) + Len(b) :
           (a \o b)[k] = IF k <= Len(a) THEN a[k] ELSE b[k - Len(a)]
  BY <1>3, <1>4, ConcatProperties
<1>6. PICK t : t = RemoveAt(s, i)
  OBVIOUS
<1>7. t = a \o b
  BY <1>1, <1>2, <1>6 DEF RemoveAt
<1>10. /\ t \in Seq(Nat) /\ Len(t) = Len(a) + Len(b)
       /\ \A k \in 1..Len(a) + Len(b) : t[k] = IF k <= Len(a) THEN a[k] ELSE b[k - Len(a)]
  BY <1>5, <1>7
<1>8. t \in Seq(Nat) /\ Len(t) = n - 1
  BY <1>1, <1>3, <1>4, <1>10
<1>9. ASSUME NEW k \in 1..n - 1
      PROVE  t[k] = IF k < i THEN s[k] ELSE s[k + 1]
  <2>1. k \in 1..Len(a) + Len(b) /\ Len(a) = i - 1
    BY <1>1, <1>3, <1>4
  <2>2. CASE k < i
    <3>1. k \in 1..i - 1 /\ k <= Len(a)
      BY <1>1, <1>9, <2>1, <2>2
    <3>2. t[k] = a[k] /\ a[k] = s[k]
      BY <1>3, <1>10, <2>1, <3>1
    <3> QED BY <2>2, <3>2
  <2>3. CASE ~(k < i)
    <3>1. PICK m \in 1..n - i : m = k - (i - 1) /\ i + m = k + 1
      BY <1>1, <1>9, <2>3
    <3>2. t[k] = b[m] /\ b[m] = s[i + m]
      BY <1>1, <1>4, <1>10, <2>1, <2>3, <3>1
    <3> QED BY <2>3, <3>1, <3>2
  <2> QED BY <2>2, <2>3
<1> QED BY <1>1, <1>6, <1>8, <1>9

----------------------------------------------------------------------------
(* The chain of free page segments. *)

\* The types of the fields of a heap.
LEMMA HeapFields ==
  ASSUME NEW h, Shaped(h)
  PROVE  /\ h.cell \in [DOMAIN h.cell -> Header] /\ h.chain \in Seq(Nat)
         /\ h.curr \in Nat /\ h.map \in Nat /\ h.fsize \in Nat
         /\ Len(h.chain) \in Nat /\ DOMAIN h.chain = 1..Len(h.chain)
         /\ \A i \in 1..Len(h.chain) : h.chain[i] \in Nat
         /\ \A a \in DOMAIN h.cell : h.cell[a].cid \in Nat /\ h.cell[a].size \in Nat
BY DEF Shaped, Header

\* The segments of the chain lie in the file, in order.
LEMMA ChainFacts ==
  ASSUME NEW h, Shaped(h), Chained(h)
  PROVE  /\ \A i \in 1..Len(h.chain) :
              /\ h.chain[i] \in DOMAIN h.cell /\ h.chain[i] \in Nat \ {0}
              /\ End(h, h.chain[i]) \in Nat /\ h.chain[i] < End(h, h.chain[i])
              /\ End(h, h.chain[i]) <= h.fsize
              /\ h.cell[h.chain[i]].cid = free_object
              /\ h.cell[h.chain[i]].size + HeaderSize = Aligned(h.cell[h.chain[i]].size)
         /\ \A i, j \in 1..Len(h.chain) :
              i < j => End(h, h.chain[i]) < h.chain[j] /\ h.chain[i] < h.chain[j]
<1>1. HeaderSize \in Nat \ {0}
  BY SizesAssumption
<1>2. ASSUME NEW i \in 1..Len(h.chain)
      PROVE  /\ h.chain[i] \in DOMAIN h.cell /\ h.chain[i] \in Nat \ {0}
             /\ End(h, h.chain[i]) \in Nat /\ h.chain[i] < End(h, h.chain[i])
             /\ End(h, h.chain[i]) <= h.fsize
             /\ h.cell[h.chain[i]].cid = free_object
             /\ h.cell[h.chain[i]].size + HeaderSize = Aligned(h.cell[h.chain[i]].size)
  <2>1. /\ h.chain[i] # Null /\ h.chain[i] \in DOMAIN h.cell
        /\ End(h, h.chain[i]) <= h.fsize
        /\ h.cell[h.chain[i]].cid = free_object
        /\ h.cell[h.chain[i]].size + HeaderSize = Aligned(h.cell[h.chain[i]].size)
    BY <1>2 DEF Chained
  <2>2. h.chain[i] \in Nat /\ h.cell[h.chain[i]].size \in Nat
    BY <2>1, HeapFields
  <2> QED BY <1>1, <2>1, <2>2 DEF End, Null
<1>3. \A i, j \in 1..Len(h.chain) : i < j => End(h, h.chain[i]) < h.chain[j]
  BY DEF Chained
<1> QED
  <2> SUFFICES ASSUME NEW i \in 1..Len(h.chain), NEW j \in 1..Len(h.chain), i < j
               PROVE  End(h, h.chain[i]) < h.chain[j] /\ h.chain[i] < h.chain[j]
    BY <1>2
  <2>1. PICK a \in Nat, b \in Nat, e \in Nat :
          a = h.chain[i] /\ b = h.chain[j] /\ e = End(h, h.chain[i]) /\ a < e
    BY <1>2
  <2> QED BY <1>3, <2>1

\* The bytes of the segments.
LEMMA FreeByte ==
  ASSUME NEW h, Shaped(h), Chained(h), NEW x
  PROVE  x \in FreeBytes(h) <=> /\ x \in Nat
                                /\ \E i \in 1..Len(h.chain) :
                                     h.chain[i] <= x /\ x < End(h, h.chain[i])
<1>1. \A i \in 1..Len(h.chain) : h.chain[i] \in Nat /\ End(h, h.chain[i]) \in Nat
  BY ChainFacts
<1>2. x \in FreeBytes(h) <=> \E i \in 1..Len(h.chain) :
                               x \in h.chain[i] .. End(h, h.chain[i]) - 1
  BY DEF FreeBytes
<1> QED BY <1>1, <1>2

\* The bytes of a segment given to an object.
LEMMA TakenByte ==
  ASSUME NEW a \in Nat, NEW s \in Nat, NEW x
  PROVE  x \in Taken(a, s) <=> x \in Nat /\ a <= x /\ x < a + Aligned(s)
<1>1. Aligned(s) \in Nat
  BY AlignedFacts
<1> QED BY <1>1 DEF Taken

\* The walk of free_page() stops at the first segment behind fp, wherever
\* curr_free_page lets it start.
LEMMA SpotFacts ==
  ASSUME NEW h, Shaped(h), Chained(h), NEW fp \in Nat
  PROVE  /\ Spot(h, fp) \in 1..Len(h.chain) + 1
         /\ \A k \in 1..Len(h.chain) : /\ k < Spot(h, fp) => h.chain[k] < fp
                                       /\ k >= Spot(h, fp) => h.chain[k] >= fp
<1>1. PICK s \in Seq(Nat), n \in Nat : s = h.chain /\ n = Len(s)
  BY HeapFields
<1>2. \A i, j \in 1..n : i < j => s[i] < s[j]
  BY <1>1, ChainFacts
<1>3. \A i \in 1..n : s[i] \in Nat
  BY <1>1
<1>4. PICK c : c = IF h.curr # Null /\ h.curr < fp THEN Position(h.chain, h.curr) ELSE 0
  OBVIOUS
<1>5. c \in 0..n /\ (c # 0 => s[c] < fp)
  <2>1. CASE h.curr # Null /\ h.curr < fp
    <3>1. CASE h.curr \in Range(s)
      <4>1. \E i \in 1..n : s[i] = h.curr
        BY <1>1, <3>1 DEF Range
      <4>2. c = CHOOSE i \in 1..n : s[i] = h.curr
        BY <1>1, <1>4, <2>1, <3>1 DEF Position
      <4> QED BY <2>1, <4>1, <4>2
    <3>2. CASE h.curr \notin Range(s)
      BY <1>1, <1>4, <2>1, <3>2 DEF Position
    <3> QED BY <3>1, <3>2
  <2> QED BY <1>4, <2>1
<1>6. \A k \in 1..c : s[k] < fp
  <2> SUFFICES ASSUME NEW k \in 1..c PROVE s[k] < fp
    OBVIOUS
  <2>1. c \in 1..n /\ k \in 1..n /\ s[c] \in Nat /\ s[k] \in Nat
    BY <1>3, <1>5
  <2> QED BY <1>2, <1>5, <2>1
<1>7. PICK past : past = {i \in c+1..n : s[i] >= fp}
  OBVIOUS
<1>8. Spot(h, fp) = IF past = {} THEN n + 1 ELSE Min(past)
  BY <1>1, <1>4, <1>7 DEF Spot
<1>9. CASE past = {}
  <2>1. \A k \in 1..n : s[k] < fp
    BY <1>3, <1>5, <1>6, <1>7, <1>9
  <2> QED BY <1>1, <1>3, <1>8, <1>9, <2>1
<1>10. CASE past # {}
  <2>1. past \in SUBSET Nat
    BY <1>5, <1>7
  <2>2. PICK m : m = Min(past)
    OBVIOUS
  <2>3. m \in past /\ \A y \in past : m <= y
    BY <1>10, <2>1, <2>2, Least
  <2>4. m \in c+1..n /\ s[m] >= fp /\ m \in Nat /\ m \in 1..n
    BY <1>5, <1>7, <2>3
  <2>5. ASSUME NEW k \in 1..n, k < m PROVE s[k] < fp
    BY <1>3, <1>5, <1>6, <1>7, <2>3, <2>4, <2>5
  <2>6. ASSUME NEW k \in 1..n, k >= m PROVE s[k] >= fp
    <3>1. s[k] \in Nat /\ s[m] \in Nat /\ (k = m \/ m < k)
      BY <1>3, <2>4, <2>6
    <3> QED BY <1>2, <2>4, <2>6, <3>1
  <2>7. Spot(h, fp) = m
    BY <1>8, <1>10, <2>2
  <2> QED BY <1>1, <2>4, <2>5, <2>6, <2>7
<1> QED BY <1>9, <1>10

\* The chain when fp has been linked in front of the at-th segment (d = at) or
\* merged with the one before it (d = at - 1), and then merged with the one
\* behind it (m = at + 1) or not (m = at).
Spliced(s, at, fp, d, m) ==
  LET linked == IF d < at THEN s ELSE InsertAt(s, at, fp)
  IN  IF m > at THEN RemoveAt(linked, d + 1) ELSE linked

\* The links of that chain.
LEMMA SpliceFacts ==
  ASSUME NEW s \in Seq(Nat), NEW at \in 1..Len(s) + 1, NEW fp \in Nat,
         NEW d \in 1..Len(s) + 1, d = at - 1 \/ d = at,
         NEW m \in 1..Len(s) + 1, m = at + 1 \/ m = at
  PROVE  /\ Spliced(s, at, fp, d, m) \in Seq(Nat)
         /\ Len(Spliced(s, at, fp, d, m)) = d + Len(s) + 1 - m
         /\ \A k \in 1..d + Len(s) + 1 - m :
              Spliced(s, at, fp, d, m)[k] = IF k < d THEN s[k]
                                            ELSE IF k > d THEN s[k - d - 1 + m]
                                            ELSE IF d < at THEN s[d] ELSE fp
<1> DEFINE n == Len(s)
<1>1. n \in Nat
  OBVIOUS
<1> SUFFICES ASSUME NEW t, t = Spliced(s, at, fp, d, m)
             PROVE  /\ t \in Seq(Nat) /\ Len(t) = d + n + 1 - m
                    /\ \A k \in 1..d + n + 1 - m :
                         t[k] = IF k < d THEN s[k]
                                ELSE IF k > d THEN s[k - d - 1 + m]
                                ELSE IF d < at THEN s[d] ELSE fp
  OBVIOUS
<1>2. PICK l : l = IF d < at THEN s ELSE InsertAt(s, at, fp)
  OBVIOUS
<1>3. PICK p \in Nat : p = IF d < at THEN n ELSE n + 1
  OBVIOUS
<1>4. /\ l \in Seq(Nat) /\ Len(l) = p
      /\ \A k \in 1..p :
           l[k] = IF d < at \/ k < at THEN s[k] ELSE IF k = at THEN fp ELSE s[k - 1]
  <2>1. CASE d < at
    BY <1>2, <1>3, <2>1
  <2>2. CASE ~(d < at)
    <3>1. l = InsertAt(s, at, fp) /\ p = n + 1
      BY <1>2, <1>3, <2>2
    <3>2. at \in 1..Len(s) + 1
      OBVIOUS
    <3>3. /\ InsertAt(s, at, fp) \in Seq(Nat) /\ Len(InsertAt(s, at, fp)) = Len(s) + 1
          /\ \A k \in 1..Len(s) + 1 :
               InsertAt(s, at, fp)[k] = IF k < at THEN s[k] ELSE IF k = at THEN fp ELSE s[k - 1]
      BY <3>2, InsertFacts
    <3> QED BY <2>2, <3>1, <3>3
  <2> QED BY <2>1, <2>2
<1>5. CASE m > at
  <2>1. d + 1 \in 1..p /\ m = at + 1
    BY <1>3, <1>5
  <2>2. t = RemoveAt(l, d + 1)
    BY <1>2, <1>5 DEF Spliced
  <2>3. /\ t \in Seq(Nat) /\ Len(t) = Len(l) - 1
        /\ \A k \in 1..Len(l) - 1 : t[k] = IF k < d + 1 THEN l[k] ELSE l[k + 1]
    <3>1. PICK j : j = d + 1 /\ j \in 1..Len(l)
      BY <1>4, <2>1
    <3>2. /\ RemoveAt(l, j) \in Seq(Nat) /\ Len(RemoveAt(l, j)) = Len(l) - 1
          /\ \A k \in 1..Len(l) - 1 : RemoveAt(l, j)[k] = IF k < j THEN l[k] ELSE l[k + 1]
      BY <1>4, <3>1, RemoveFacts
    <3> QED BY <2>2, <3>1, <3>2
  <2>4. Len(l) - 1 = d + n + 1 - m /\ Len(l) = p
    <3>1. Len(l) = p /\ Len(l) = IF d < at THEN n ELSE n + 1
      BY <1>3, <1>4
    <3>2. m = at + 1 /\ n \in Nat /\ at \in Nat
      BY <1>1, <2>1
    <3> QED BY <3>1, <3>2
  <2>5. ASSUME NEW k \in 1..d + n + 1 - m
        PROVE  t[k] = IF k < d THEN s[k]
                      ELSE IF k > d THEN s[k - d - 1 + m]
                      ELSE IF d < at THEN s[d] ELSE fp
    <3>1. k \in 1..Len(l) - 1 /\ k \in 1..p /\ k + 1 \in 1..p
      BY <2>4, <2>5
    <3>2. t[k] = IF k < d + 1 THEN l[k] ELSE l[k + 1]
      BY <2>3, <3>1
    <3>3. /\ l[k] = IF d < at \/ k < at THEN s[k] ELSE IF k = at THEN fp ELSE s[k - 1]
          /\ l[k + 1] = IF d < at \/ k + 1 < at THEN s[k + 1]
                        ELSE IF k + 1 = at THEN fp ELSE s[k]
      <4>1. \A i \in 1..p :
              l[i] = IF d < at \/ i < at THEN s[i] ELSE IF i = at THEN fp ELSE s[i - 1]
        BY <1>4
      <4>2. l[k] = IF d < at \/ k < at THEN s[k] ELSE IF k = at THEN fp ELSE s[k - 1]
        BY <3>1, <4>1
      <4>3. PICK j \in 1..p : j = k + 1 /\ j - 1 = k
        BY <2>5, <3>1
      <4>4. l[j] = IF d < at \/ j < at THEN s[j] ELSE IF j = at THEN fp ELSE s[k]
        BY <4>1, <4>3
      <4> QED BY <4>2, <4>3, <4>4
    <3>4. CASE d < at
      BY <2>1, <3>2, <3>3, <3>4
    <3>5. CASE ~(d < at)
      <4>1. d = at /\ k - d - 1 + m = k
        BY <2>1, <3>5
      <4>2. /\ k < at => t[k] = s[k]
            /\ k = at => t[k] = fp
            /\ k > at => t[k] = s[k]
        BY <2>5, <3>2, <3>3, <3>5, <4>1
      <4>3. s[k - d - 1 + m] = s[k]
        BY <4>1
      <4> QED BY <2>5, <3>5, <4>1, <4>2, <4>3
    <3> QED BY <3>4, <3>5
  <2> QED BY <2>3, <2>4, <2>5
<1>6. CASE ~(m > at)
  <2>1. t = l /\ m = at
    BY <1>2, <1>6 DEF Spliced
  <2>2. p = d + n + 1 - m
    BY <1>3, <2>1
  <2>3. ASSUME NEW k \in 1..p
        PROVE  t[k] = IF k < d THEN s[k]
                      ELSE IF k > d THEN s[k - d - 1 + m]
                      ELSE IF d < at THEN s[d] ELSE fp
    <3>1. l[k] = IF d < at \/ k < at THEN s[k] ELSE IF k = at THEN fp ELSE s[k - 1]
      BY <1>4
    <3>2. CASE d < at
      BY <2>1, <3>1, <3>2
    <3>3. CASE ~(d < at)
      <4>1. d = at /\ k - d - 1 + m = k - 1 /\ (k < at \/ k = at \/ k > at)
        BY <2>1, <3>3
      <4>2. t[k] = IF k < at THEN s[k] ELSE IF k = at THEN fp ELSE s[k - 1]
        BY <2>1, <3>1, <3>3
      <4>3. s[k - d - 1 + m] = s[k - 1]
        BY <4>1
      <4> QED BY <3>3, <4>1, <4>2, <4>3
    <3> QED BY <3>2, <3>3
  <2> QED BY <1>4, <2>1, <2>2, <2>3
<1> QED BY <1>5, <1>6

\* The fields of a heap that free_page() returns.
LEMMA FreePageFields ==
  ASSUME NEW h, Shaped(h), NEW fp \in DOMAIN h.cell,
         NEW at, at = Spot(h, fp),
         NEW prev, prev = (IF at > 1 THEN h.chain[at - 1] ELSE Null),
         NEW next, next = (IF at <= Len(h.chain) THEN h.chain[at] ELSE Null),
         NEW n, n = Aligned(h.cell[fp].size) - HeaderSize,
         NEW g, g = free_page(h, fp)
  PROVE  LET low  == prev # Null /\ prev + h.cell[prev].size + HeaderSize = fp
             high == next # Null /\ fp + n + HeaderSize = next
             seg  == IF low THEN prev ELSE fp
             size == n + (IF low  THEN h.cell[prev].size + HeaderSize ELSE 0)
                       + (IF high THEN h.cell[next].size + HeaderSize ELSE 0)
             gone == (IF low THEN {fp} ELSE {}) \cup (IF high THEN {next} ELSE {})
             linked == IF low THEN h.chain ELSE InsertAt(h.chain, at, fp)
         IN  /\ g.cell = Without([h.cell EXCEPT ![seg] = [cid |-> free_object, size |-> size]],
                                 gone)
             /\ g.chain = IF high THEN RemoveAt(linked, IF low THEN at ELSE at + 1) ELSE linked
             /\ g.curr = seg /\ g.map = h.map /\ g.fsize = h.fsize
             /\ g.blocks = h.blocks /\ g.held = h.held
             /\ DOMAIN g = DOMAIN h
             /\ g = [h EXCEPT !.cell = g.cell, !.chain = g.chain, !.bits = g.bits, !.curr = g.curr]
BY DEF free_page, Shaped

\* A heap with new cells and a new chain is shaped as before.
LEMMA ShapeKept ==
  ASSUME NEW h, Shaped(h), NEW g,
         g = [h EXCEPT !.cell = g.cell, !.chain = g.chain, !.bits = g.bits, !.curr = g.curr],
         g.cell \in [DOMAIN g.cell -> Header], g.chain \in Seq(Nat), g.curr \in Nat
  PROVE  Shaped(g)
BY DEF Shaped

\* A segment at fp that ends at e lies in the file, apart from the chain.
Apart(h, fp, e) ==
  /\ fp \in DOMAIN h.cell /\ fp \in Nat \ {0} /\ e = fp + Aligned(h.cell[fp].size)
  /\ e <= h.fsize
  /\ \A i \in 1..Len(h.chain) : End(h, h.chain[i]) <= fp \/ e <= h.chain[i]

\* Where free_page() puts a segment: at or merged with its neighbours.
Joins(h, fp, e, at, d, m, seg, last) ==
  /\ at = Spot(h, fp)
  /\ d = IF at > 1 /\ End(h, h.chain[at - 1]) = fp THEN at - 1 ELSE at
  /\ m = IF at <= Len(h.chain) /\ h.chain[at] = e THEN at + 1 ELSE at
  /\ seg = IF d < at THEN h.chain[d] ELSE fp
  /\ last = IF m > at THEN End(h, h.chain[at]) ELSE e

\* The size of what is put there.
LEMMA JoinedSize ==
  ASSUME NEW h, Shaped(h), Chained(h), NEW fp, NEW e, Apart(h, fp, e),
         NEW at, NEW d, NEW m, NEW seg, NEW last, Joins(h, fp, e, at, d, m, seg, last),
         NEW size, size + HeaderSize = last - seg, size \in Int
  PROVE  /\ size \in Nat /\ size + HeaderSize = Aligned(size)
         /\ seg \in Nat \ {0} /\ last \in Nat /\ seg < last /\ last <= h.fsize
         /\ seg <= fp /\ e <= last /\ fp < e /\ e \in Nat
<1>1. PICK p \in Nat \ {0}, f \in Nat : p = PageSize /\ f = HeaderSize /\ 0 < f /\ f < p
  BY SizesAssumption
<1>2. h.cell[fp].size \in Nat /\ fp \in Nat \ {0} /\ e = fp + Aligned(h.cell[fp].size) /\ e <= h.fsize
  BY HeapFields DEF Apart
<1>3. PICK s \in Seq(Nat), n \in Nat : s = h.chain /\ n = Len(s)
  BY HeapFields
<1>4. /\ at \in 1..n + 1
      /\ \A k \in 1..n : (k < at => s[k] < fp) /\ (k >= at => s[k] >= fp)
  BY <1>2, <1>3, SpotFacts DEF Joins
<1>5. PICK j \in Nat : Aligned(h.cell[fp].size) = j * p /\ h.cell[fp].size + f <= j * p
  BY <1>1, <1>2, AlignedFacts
<1>6. ASSUME NEW i \in 1..n
      PROVE  \E k \in Nat : End(h, s[i]) = s[i] + k * p
  <2>1. h.cell[s[i]].size \in Nat /\ s[i] \in Nat
    BY <1>3, ChainFacts, HeapFields
  <2>2. PICK k \in Nat : Aligned(h.cell[s[i]].size) = k * p
    BY <1>1, <2>1, AlignedFacts
  <2>3. h.cell[s[i]].size + HeaderSize = k * p
    BY <1>3, <2>2, ChainFacts
  <2>4. End(h, s[i]) = s[i] + k * p
    <3>1. PICK x, y : y \in Nat /\ x = k * p /\ y = h.cell[s[i]].size /\ y + HeaderSize = x
      BY <2>1, <2>3
    <3>2. HeaderSize \in Nat
      BY SizesAssumption
    <3>3. End(h, s[i]) = s[i] + y + HeaderSize
      BY <3>1 DEF End
    <3> QED BY <2>1, <3>1, <3>2, <3>3
  <2> QED BY <2>4
<1>7. \E k \in Nat : last = e + k * p /\ e <= last /\ last \in Nat /\ last <= h.fsize
  <2>1. CASE m > at
    <3>1. at \in 1..n /\ s[at] = e /\ last = End(h, s[at])
      BY <1>3, <1>4, <2>1 DEF Joins
    <3>2. PICK k \in Nat : last = s[at] + k * p
      BY <1>6, <3>1
    <3>3. last \in Nat /\ s[at] < last /\ last <= h.fsize
      BY <1>3, <3>1, ChainFacts
    <3> QED BY <1>3, <3>1, <3>2, <3>3
  <2>2. CASE ~(m > at)
    <3>1. last = e /\ e \in Nat
      BY <1>1, <1>2, <1>5, <2>2, SMTT(30) DEF Joins
    <3>2. e = e + 0 * p
      BY <3>1
    <3> QED BY <1>1, <1>2, <3>1, <3>2
  <2> QED BY <2>1, <2>2
<1>8. \E k \in Nat : fp = seg + k * p /\ seg \in Nat \ {0}
  <2>1. CASE d < at
    <3>1. d \in 1..n /\ End(h, s[d]) = fp /\ seg = s[d]
      BY <1>3, <1>4, <2>1 DEF Joins
    <3>2. PICK k \in Nat : fp = seg + k * p
      BY <1>6, <3>1
    <3>3. seg \in Nat \ {0}
      BY <1>3, <3>1, ChainFacts
    <3> QED BY <3>2, <3>3
  <2>2. CASE ~(d < at)
    <3>1. seg = fp /\ fp = seg + 0 * p
      BY <1>1, <1>2, <2>2 DEF Joins
    <3> QED BY <1>2, <3>1
  <2> QED BY <2>1, <2>2
<1>9. PICK k1 \in Nat, k2 \in Nat :
        /\ last = e + k1 * p /\ e <= last /\ last \in Nat /\ last <= h.fsize
        /\ fp = seg + k2 * p /\ seg \in Nat \ {0}
  BY <1>7, <1>8
<1>10. e = fp + j * p /\ fp < e
  BY <1>1, <1>2, <1>5
<1>11. PICK k \in Nat : k = k1 + k2 + j
  OBVIOUS
<1>12. last - seg = k * p
  <2>1. k * p = k1 * p + k2 * p + j * p
    BY <1>11
  <2>2. k1 * p \in Nat /\ k2 * p \in Nat /\ j * p \in Nat
    OBVIOUS
  <2>3. PICK x1 \in Nat, x2 \in Nat, x3 \in Nat : x1 = k1 * p /\ x2 = k2 * p /\ x3 = j * p
    BY <2>2
  <2>4. last = e + x1 /\ fp = seg + x2 /\ e = fp + x3 /\ k * p = x1 + x2 + x3
    BY <1>9, <1>10, <2>1, <2>3
  <2> QED BY <1>2, <1>9, <2>4
<1>13. /\ k2 * p \in Nat /\ seg <= fp /\ seg < last
  BY <1>1, <1>2, <1>9, <1>10
<1>14. size + f = k * p /\ size \in Nat
  <2>1. last - seg >= j * p /\ h.cell[fp].size + f <= j * p
    <3>1. j * p \in Nat
      OBVIOUS
    <3> QED BY <1>2, <1>5, <1>9, <1>10, <1>13, <3>1
  <2> QED BY <1>1, <1>2, <1>12, <2>1
<1>15. size + f = Aligned(size)
  <2>1. PICK q \in Nat : q = size + f
    BY <1>14
  <2>2. q <= Align(q) /\ Align(q) <= k * p /\ Align(q) \in Nat
    BY <1>1, <1>14, <2>1, AlignFacts
  <2> QED BY <1>1, <1>14, <2>1, <2>2 DEF Aligned
<1> QED BY <1>1, <1>2, <1>9, <1>10, <1>13, <1>14, <1>15

\* free_page() as the rest of the proofs see it.
LEMMA FreePageIs ==
  ASSUME NEW h, Shaped(h), Chained(h), NEW fp, NEW e, Apart(h, fp, e),
         NEW at, NEW d, NEW m, NEW seg, NEW last, Joins(h, fp, e, at, d, m, seg, last),
         NEW g, g = free_page(h, fp)
  PROVE  /\ Shaped(g) /\ g.map = h.map /\ g.fsize = h.fsize
         /\ g.chain = Spliced(h.chain, at, fp, d, m) /\ g.curr = seg
         /\ DOMAIN g.cell = DOMAIN h.cell \ ((IF d < at THEN {fp} ELSE {})
                                               \cup (IF m > at THEN {e} ELSE {}))
         /\ seg \in DOMAIN g.cell /\ g.cell[seg].cid = free_object /\ End(g, seg) = last
         /\ g.cell[seg].size + HeaderSize = Aligned(g.cell[seg].size)
         /\ \A a \in DOMAIN g.cell : a # seg => g.cell[a] = h.cell[a]
<1>1. PICK s \in Seq(Nat), l \in Nat : s = h.chain /\ l = Len(s)
  BY HeapFields
<1>2. PICK z \in Nat : z = h.cell[fp].size
  BY HeapFields DEF Apart
<1>3. /\ fp \in DOMAIN h.cell /\ fp \in Nat \ {0} /\ e = fp + Aligned(z) /\ Aligned(z) \in Nat \ {0}
      /\ HeaderSize \in Nat
  BY <1>2, AlignedFacts, SizesAssumption DEF Apart
<1>4. at \in 1..l + 1 /\ at = Spot(h, fp)
  BY <1>1, <1>3, SpotFacts DEF Joins
<1>5. PICK prev : prev = IF at > 1 THEN h.chain[at - 1] ELSE Null
  OBVIOUS
<1>6. PICK next : next = IF at <= Len(h.chain) THEN h.chain[at] ELSE Null
  OBVIOUS
<1>7. PICK n \in Int : n = Aligned(z) - HeaderSize /\ fp + n + HeaderSize = e
  BY <1>3
<1> DEFINE low    == prev # Null /\ prev + h.cell[prev].size + HeaderSize = fp
           high   == next # Null /\ fp + n + HeaderSize = next
           size   == n + (IF low  THEN h.cell[prev].size + HeaderSize ELSE 0)
                       + (IF high THEN h.cell[next].size + HeaderSize ELSE 0)
           gone   == (IF low THEN {fp} ELSE {}) \cup (IF high THEN {next} ELSE {})
           linked == IF low THEN h.chain ELSE InsertAt(h.chain, at, fp)
<1>8. /\ g.cell = Without([h.cell EXCEPT ![IF low THEN prev ELSE fp] =
                             [cid |-> free_object, size |-> size]], gone)
      /\ g.chain = IF high THEN RemoveAt(linked, IF low THEN at ELSE at + 1) ELSE linked
      /\ g.curr = (IF low THEN prev ELSE fp) /\ g.map = h.map /\ g.fsize = h.fsize
      /\ g = [h EXCEPT !.cell = g.cell, !.chain = g.chain, !.bits = g.bits, !.curr = g.curr]
  <2>1. n = Aligned(h.cell[fp].size) - HeaderSize /\ fp \in DOMAIN h.cell /\ at = Spot(h, fp)
    BY <1>2, <1>3, <1>4, <1>7
  <2> QED BY <1>5, <1>6, <2>1 DEF free_page, Shaped
<1>9. low <=> d < at
  <2>1. CASE at > 1
    <3>1. at - 1 \in 1..l /\ prev = s[at - 1] /\ prev \in Nat \ {0}
      BY <1>1, <1>4, <1>5, <2>1, ChainFacts
    <3>2. low <=> End(h, h.chain[at - 1]) = fp
      BY <1>1, <3>1 DEF End, Null
    <3> QED BY <1>4, <2>1, <3>2 DEF Joins
  <2>2. CASE ~(at > 1)
    BY <1>4, <1>5, <2>2 DEF Joins
  <2> QED BY <2>1, <2>2
<1>10. high <=> m > at
  <2>1. CASE at <= l
    <3>1. at \in 1..l /\ next = s[at] /\ next \in Nat \ {0}
      BY <1>1, <1>4, <1>6, <2>1, ChainFacts
    <3> QED BY <1>1, <1>4, <1>7, <2>1, <3>1 DEF Joins, Null
  <2>2. CASE ~(at <= l)
    BY <1>1, <1>4, <1>6, <2>2 DEF Joins
  <2> QED BY <2>1, <2>2
<1>11. /\ d < at => d = at - 1 /\ d \in 1..l /\ prev = s[d] /\ prev # Null /\ End(h, prev) = fp
       /\ seg = IF low THEN prev ELSE fp
  BY <1>1, <1>4, <1>5, <1>9 DEF Joins, End
<1>12. m > at => at \in 1..l /\ next = s[at] /\ next = e /\ last = End(h, next)
  BY <1>1, <1>4, <1>6, <1>7, <1>10 DEF Joins
<1>13. PICK zz : zz = size
  OBVIOUS
<1>14. zz \in Int /\ zz + HeaderSize = last - seg
  <2>1. low => h.cell[prev].size \in Nat /\ prev \in Nat
    BY <1>1, <1>9, <1>11, ChainFacts, HeapFields
  <2>2. high => h.cell[next].size \in Nat /\ next \in Nat
    BY <1>1, <1>10, <1>12, ChainFacts, HeapFields
  <2>3. PICK x \in Int : x = IF low THEN h.cell[prev].size + HeaderSize ELSE 0
    BY <1>3, <2>1
  <2>4. PICK y \in Int : y = IF high THEN h.cell[next].size + HeaderSize ELSE 0
    BY <1>3, <2>2
  <2>5. zz = n + x + y
    BY <1>13, <2>3, <2>4
  <2>6. fp = seg + x
    <3>1. CASE low
      <4>1. prev + h.cell[prev].size + HeaderSize = fp /\ seg = prev
        BY <1>11, <3>1
      <4>2. x = h.cell[prev].size + HeaderSize
        BY <2>3, <3>1
      <4>3. h.cell[prev].size \in Nat /\ prev \in Nat
        BY <2>1, <3>1
      <4>4. PICK v \in Nat, w \in Nat, b \in Nat :
              v = h.cell[prev].size /\ w = HeaderSize /\ b = prev
        BY <1>3, <4>3
      <4>5. b + v + w = fp /\ x = v + w /\ seg = b
        BY <4>1, <4>2, <4>4
      <4> QED BY <4>4, <4>5
    <3>2. CASE ~low
      BY <1>3, <1>11, <2>3, <3>2
    <3> QED BY <3>1, <3>2
  <2>7. last = e + y
    <3>1. CASE high
      <4>1. next = e /\ last = next + h.cell[next].size + HeaderSize
        BY <1>10, <1>12, <3>1 DEF End
      <4>2. y = h.cell[next].size + HeaderSize
        BY <2>4, <3>1
      <4> HIDE DEF high
      <4>3. PICK v \in Nat, w \in Nat, b \in Nat :
              v = h.cell[next].size /\ w = HeaderSize /\ b = next
        BY <1>3, <2>2, <3>1
      <4> QED BY <4>1, <4>2, <4>3
    <3>2. CASE ~high
      <4>1. last = e /\ y = 0 /\ e \in Int
        BY <1>3, <1>10, <2>4, <3>2 DEF Joins
      <4> QED BY <4>1
    <3> QED BY <3>1, <3>2
  <2>8. seg \in Int
    BY <1>3, <1>11, <2>1
  <2>9. zz \in Int
    BY <2>5
  <2>10. PICK v \in Int, w \in Nat : v = fp + n + w /\ w = HeaderSize /\ v = e
    BY <1>3, <1>7
  <2>11. zz + w = (v + y) - seg
    BY <1>3, <2>5, <2>6, <2>8, <2>10
  <2> QED BY <2>7, <2>9, <2>10, <2>11
<1>15. /\ zz \in Nat /\ zz + HeaderSize = Aligned(zz) /\ seg \in Nat \ {0} /\ seg < last
       /\ seg <= fp /\ e <= last /\ fp < e /\ e \in Nat /\ last \in Nat
  BY <1>14, JoinedSize
<1>16. g.cell = Without([h.cell EXCEPT ![seg] = [cid |-> free_object, size |-> zz]], gone)
  BY <1>8, <1>11, <1>13
<1>17. PICK G : G = gone
  OBVIOUS
<1>18. G = (IF d < at THEN {fp} ELSE {}) \cup (IF m > at THEN {e} ELSE {})
  <2>1. G = (IF d < at THEN {fp} ELSE {}) \cup (IF m > at THEN {next} ELSE {})
    BY <1>9, <1>10, <1>17
  <2> QED BY <1>12, <2>1
<1>19. g.chain = Spliced(h.chain, at, fp, d, m)
  <2>1. PICK L : L = linked
    OBVIOUS
  <2>2. L = IF d < at THEN h.chain ELSE InsertAt(h.chain, at, fp)
    BY <1>9, <2>1
  <2>3. g.chain = IF high THEN RemoveAt(L, IF low THEN at ELSE at + 1) ELSE L
    BY <1>8, <2>1
  <2>4. (IF low THEN at ELSE at + 1) = d + 1
    BY <1>1, <1>4, <1>9 DEF Joins
  <2>5. g.chain = IF m > at THEN RemoveAt(L, d + 1) ELSE L
    BY <1>10, <2>3, <2>4
  <2> QED BY <2>2, <2>5 DEF Spliced
<1>20. seg \in DOMAIN h.cell /\ seg \notin G
  <2>1. seg \in DOMAIN h.cell
    BY <1>1, <1>3, <1>9, <1>11, ChainFacts
  <2>2. d < at => seg # fp
    <3> SUFFICES ASSUME d < at PROVE seg # fp
      OBVIOUS
    <3>1. seg = s[d] /\ d \in 1..l /\ s[d] < End(h, s[d]) /\ End(h, s[d]) = fp
      BY <1>1, <1>9, <1>11, ChainFacts
    <3> QED BY <1>3, <1>15, <3>1
  <2>3. seg # e
    BY <1>3, <1>15
  <2> QED BY <1>18, <2>1, <2>2, <2>3
<1>21. /\ DOMAIN g.cell = DOMAIN h.cell \ G
       /\ \A a \in DOMAIN h.cell \ G :
            g.cell[a] = IF a = seg THEN [cid |-> free_object, size |-> zz] ELSE h.cell[a]
  <2>1. PICK c : c = h.cell
    OBVIOUS
  <2>2. c \in [DOMAIN c -> Header]
    BY <2>1, HeapFields
  <2>3. PICK f : f = [c EXCEPT ![seg] = [cid |-> free_object, size |-> zz]]
    OBVIOUS
  <2>4. DOMAIN f = DOMAIN c /\ \A a \in DOMAIN c :
          f[a] = IF a = seg THEN [cid |-> free_object, size |-> zz] ELSE c[a]
    BY <2>2, <2>3
  <2>5. g.cell = [a \in DOMAIN f \ G |-> f[a]]
    BY <1>16, <1>17, <2>1, <2>3 DEF Without
  <2> QED BY <2>1, <2>4, <2>5
<1>22. g.cell \in [DOMAIN g.cell -> Header]
  <2>1. [cid |-> free_object, size |-> zz] \in Header
    BY <1>15 DEF Header, free_object
  <2>2. \A a \in DOMAIN h.cell : h.cell[a] \in Header
    BY HeapFields
  <2>3. \A a \in DOMAIN g.cell : g.cell[a] \in Header
    BY <1>21, <2>1, <2>2
  <2>4. g.cell = [a \in DOMAIN g.cell |-> g.cell[a]]
    <3>1. PICK f : f = [h.cell EXCEPT ![seg] = [cid |-> free_object, size |-> zz]]
      OBVIOUS
    <3>2. g.cell = [a \in DOMAIN f \ G |-> f[a]]
      BY <1>16, <1>17, <3>1 DEF Without
    <3> QED BY <3>2
  <2> QED BY <2>3, <2>4
<1>23. Shaped(g)
  <2>1. g.chain \in Seq(Nat) /\ g.curr \in Nat
    <3>1. /\ d \in 1..l + 1 /\ (d = at - 1 \/ d = at)
          /\ m \in 1..l + 1 /\ (m = at + 1 \/ m = at)
      BY <1>1, <1>4, <1>11, <1>12 DEF Joins
    <3>2. PICK t : t = g.chain /\ t = Spliced(s, at, fp, d, m)
      BY <1>1, <1>19
    <3>4. l \in Nat /\ s \in Seq(Nat) /\ fp \in Nat
      BY <1>3
    <3>3. t \in Seq(Nat)
      <4>1. /\ l = Len(s) /\ at \in 1..l + 1 /\ d \in 1..l + 1 /\ m \in 1..l + 1
            /\ (d = at - 1 \/ d = at) /\ (m = at + 1 \/ m = at)
        BY <1>1, <1>4, <3>1
      <4> HIDE DEF low, high, size, gone, linked
      <4>2. PICK A \in Nat, D \in Nat, M \in Nat, F \in Nat : A = at /\ D = d /\ M = m /\ F = fp
        BY <3>4, <4>1
      <4>3. t = Spliced(s, A, F, D, M)
        BY <3>2, <4>2
      <4>4. /\ A \in 1..l + 1 /\ D \in 1..l + 1 /\ M \in 1..l + 1
            /\ (D = A - 1 \/ D = A) /\ (M = A + 1 \/ M = A)
        BY <4>1, <4>2
      <4>5. Spliced(s, A, F, D, M) \in Seq(Nat)
        BY <3>4, <4>1, <4>4, SpliceFacts
      <4> QED BY <4>3, <4>5
    <3> QED BY <1>8, <1>11, <1>15, <3>2, <3>3
  <2> QED BY <1>8, <1>22, <2>1, ShapeKept
<1>24. g.cell[seg] = [cid |-> free_object, size |-> zz]
  BY <1>20, <1>21
<1>25. End(g, seg) = last
  <2>1. g.cell[seg].size = zz /\ last \in Nat /\ seg \in Nat
    BY <1>15, <1>24
  <2>2. PICK w \in Nat : w = HeaderSize
    BY <1>3
  <2>3. seg + zz + w = last
    BY <1>14, <1>15, <2>2
  <2> QED BY <2>1, <2>2, <2>3 DEF End
<1>26. /\ g.cell[seg].cid = free_object
       /\ g.cell[seg].size + HeaderSize = Aligned(g.cell[seg].size)
  BY <1>15, <1>24
<1>27. /\ seg \in DOMAIN g.cell /\ \A a \in DOMAIN g.cell : a # seg => g.cell[a] = h.cell[a]
  BY <1>20, <1>21
<1>28. g.curr = seg /\ g.map = h.map /\ g.fsize = h.fsize
  BY <1>8, <1>11
<1>29. DOMAIN g.cell = DOMAIN h.cell \ ((IF d < at THEN {fp} ELSE {})
                                           \cup (IF m > at THEN {e} ELSE {}))
  BY <1>18, <1>21
<1> QED BY <1>19, <1>23, <1>25, <1>26, <1>27, <1>28, <1>29

\* The links in front of the new segment end below it, and the links behind
\* it start above it: no two segments of the new chain touch.
LEMMA JoinedApart ==
  ASSUME NEW h, Shaped(h), Chained(h), NEW fp, NEW e, Apart(h, fp, e),
         NEW at, NEW d, NEW m, NEW seg, NEW last, Joins(h, fp, e, at, d, m, seg, last)
  PROVE  /\ at \in 1..Len(h.chain) + 1 /\ d \in 1..Len(h.chain) + 1 /\ m \in 1..Len(h.chain) + 1
         /\ (d = at - 1 \/ d = at) /\ (m = at + 1 \/ m = at)
         /\ \A k \in 1..Len(h.chain) : /\ k < d => End(h, h.chain[k]) < seg
                                       /\ k >= m => last < h.chain[k]
<1>1. PICK s \in Seq(Nat), l \in Nat : s = h.chain /\ l = Len(s)
  BY HeapFields
<1>2. PICK f \in Nat, b \in Nat :
        f = fp /\ b = e /\ f < b
  <2>1. h.cell[fp].size \in Nat /\ fp \in Nat /\ e = fp + Aligned(h.cell[fp].size)
    BY HeapFields DEF Apart
  <2>2. Aligned(h.cell[fp].size) \in Nat \ {0}
    BY <2>1, AlignedFacts
  <2>3. fp \in Nat /\ e \in Nat /\ fp < e
    BY <2>1, <2>2
  <2> QED BY <2>3
<1>3. PICK a \in Nat : a = at /\ a \in 1..l + 1
  BY <1>1, <1>2, SpotFacts DEF Joins
<1>4. \A k \in 1..l : (k < a => s[k] < f) /\ (k >= a => s[k] >= f)
  BY <1>1, <1>2, <1>3, SpotFacts DEF Joins
<1>5. PICK D \in Nat : D = d /\ D \in 1..l + 1 /\ (D = a - 1 \/ D = a)
                       /\ (D < a => End(h, s[D]) = f /\ D \in 1..l /\ seg = s[D])
                       /\ (D = a => seg = f /\ (a > 1 => End(h, s[a - 1]) # f))
  BY <1>1, <1>2, <1>3, SMTT(30) DEF Joins
<1>6. PICK M \in Nat : M = m /\ M \in 1..l + 1 /\ (M = a + 1 \/ M = a)
                       /\ (M > a => s[a] = b /\ a \in 1..l /\ last = End(h, s[a]))
                       /\ (M = a => last = b /\ (a <= l => s[a] # b))
  BY <1>1, <1>2, <1>3, SMTT(30) DEF Joins
<1>7. \A k \in 1..l : /\ s[k] \in Nat /\ End(h, s[k]) \in Nat /\ s[k] < End(h, s[k])
                      /\ (End(h, s[k]) <= f \/ b <= s[k])
  BY <1>1, <1>2, ChainFacts DEF Apart
<1>8. \A i, j \in 1..l : i < j => End(h, s[i]) < s[j]
  BY <1>1, ChainFacts
<1>9. ASSUME NEW k \in 1..l, k < D PROVE End(h, s[k]) < seg
  <2>1. CASE D < a
    <3>1. D \in 1..l /\ seg = s[D]
      BY <1>5, <2>1
    <3> QED BY <1>8, <1>9, <3>1
  <2>2. CASE D = a
    <3>1. seg = f /\ k < a /\ a > 1 /\ End(h, s[a - 1]) # f /\ a - 1 \in 1..l
      BY <1>3, <1>5, <1>9, <2>2
    <3>2. End(h, s[k]) <= f
      <4>1. s[k] < f /\ s[k] \in Nat
        BY <1>4, <1>7, <3>1
      <4> QED BY <1>2, <1>7, <4>1
    <3>3. CASE k = a - 1
      <4>1. PICK x \in Nat : x = End(h, s[k])
        BY <1>7
      <4> QED BY <3>1, <3>2, <3>3, <4>1
    <3>4. CASE k < a - 1
      <4>1. PICK c \in Nat : c = a - 1 /\ c \in 1..l /\ k < c /\ c < a
        BY <3>1, <3>4
      <4>2. PICK x \in Nat, y \in Nat : x = End(h, s[k]) /\ y = s[c]
        BY <1>7, <4>1
      <4>3. x < y
        BY <1>8, <4>1, <4>2
      <4>4. y < f
        BY <1>4, <4>1, <4>2
      <4> QED BY <3>1, <4>2, <4>3, <4>4
    <3> QED BY <3>1, <3>3, <3>4
  <2> QED BY <1>5, <2>1, <2>2
<1>10. ASSUME NEW k \in 1..l, k >= M PROVE last < s[k]
  <2>1. CASE M > a
    BY <1>6, <1>8, <1>10, <2>1
  <2>2. CASE M = a
    <3>1. k >= a /\ a <= l /\ a \in 1..l /\ last = b /\ s[a] # b
      BY <1>3, <1>6, <1>10, <2>2
    <3>2. PICK x \in Nat, y \in Nat, z \in Nat : x = s[a] /\ y = End(h, s[a]) /\ z = s[k]
      BY <1>7, <3>1
    <3>3. b <= x
      <4>1. x >= f /\ x < y /\ (y <= f \/ b <= x)
        BY <1>4, <1>7, <3>1, <3>2
      <4> QED BY <4>1
    <3>4. x <= z
      <4>1. CASE k = a
        BY <3>2, <4>1
      <4>2. CASE a < k
        <5>1. y < z /\ x < y
          BY <1>7, <1>8, <3>1, <3>2, <4>2
        <5> QED BY <5>1
      <4> QED BY <3>1, <4>1, <4>2
    <3> QED BY <3>1, <3>2, <3>3, <3>4
  <2> QED BY <1>6, <2>1, <2>2
<1> QED BY <1>1, <1>3, <1>5, <1>6, <1>9, <1>10

\* The links of the chain that free_page() leaves: those below the segment
\* it puts there, that segment, and those above it.
LEMMA FreePageLinks ==
  ASSUME NEW h, Shaped(h), Chained(h), NEW fp, NEW e, Apart(h, fp, e),
         NEW at, NEW d, NEW m, NEW seg, NEW last, Joins(h, fp, e, at, d, m, seg, last),
         NEW g, g = free_page(h, fp), NEW N, N = d + Len(h.chain) + 1 - m
  PROVE  /\ N \in Nat /\ N = Len(g.chain) /\ d \in 1..N
         /\ g.chain[d] = seg /\ End(g, seg) = last /\ seg \in DOMAIN g.cell
         /\ \A k \in 1..N : k < d => /\ g.chain[k] = h.chain[k] /\ k \in 1..Len(h.chain)
                                     /\ End(h, h.chain[k]) < seg
         /\ \A k \in 1..N : k > d => /\ g.chain[k] = h.chain[k - d - 1 + m]
                                     /\ k - d - 1 + m \in m..Len(h.chain)
                                     /\ last < h.chain[k - d - 1 + m]
<1>1. PICK s \in Seq(Nat), l \in Nat : s = h.chain /\ l = Len(s)
  BY HeapFields
<1>2. PICK A \in Nat, D \in Nat, M \in Nat :
        /\ A = at /\ D = d /\ M = m
        /\ A \in 1..l + 1 /\ D \in 1..l + 1 /\ M \in 1..l + 1
        /\ (D = A - 1 \/ D = A) /\ (M = A + 1 \/ M = A)
        /\ \A k \in 1..l : /\ k < D => End(h, s[k]) < seg
                           /\ k >= M => last < s[k]
  <2>1. /\ at \in 1..l + 1 /\ d \in 1..l + 1 /\ m \in 1..l + 1
        /\ (d = at - 1 \/ d = at) /\ (m = at + 1 \/ m = at)
        /\ \A k \in 1..l : /\ k < d => End(h, s[k]) < seg
                           /\ k >= m => last < s[k]
    <3>1. /\ at \in 1..Len(h.chain) + 1 /\ d \in 1..Len(h.chain) + 1 /\ m \in 1..Len(h.chain) + 1
          /\ (d = at - 1 \/ d = at) /\ (m = at + 1 \/ m = at)
          /\ \A k \in 1..Len(h.chain) : /\ k < d => End(h, h.chain[k]) < seg
                                        /\ k >= m => last < h.chain[k]
      BY JoinedApart
    <3> QED BY <1>1, <3>1
  <2>2. at \in Nat /\ d \in Nat /\ m \in Nat
    BY <2>1
  <2> QED BY <2>1, <2>2
<1>4. PICK F \in Nat : F = fp
  BY DEF Apart
<1>5. PICK t : t = Spliced(s, A, F, D, M)
  OBVIOUS
<1>6. t = g.chain
  BY <1>1, <1>2, <1>4, <1>5, FreePageIs
<1>7. PICK n \in Nat : n = D + l + 1 - M /\ n = N /\ D \in 1..n
  BY <1>1, <1>2
<1>8. /\ Len(t) = n
      /\ \A k \in 1..n : t[k] = IF k < D THEN s[k] ELSE IF k > D THEN s[k - D - 1 + M]
                                ELSE IF D < A THEN s[D] ELSE F
  <2>1. /\ Len(Spliced(s, A, F, D, M)) = D + l + 1 - M
        /\ \A k \in 1..D + l + 1 - M :
             Spliced(s, A, F, D, M)[k] = IF k < D THEN s[k]
                                         ELSE IF k > D THEN s[k - D - 1 + M]
                                         ELSE IF D < A THEN s[D] ELSE F
    <3>1. /\ s \in Seq(Nat) /\ l \in Nat /\ l = Len(s) /\ F \in Nat
          /\ A \in 1..l + 1 /\ D \in 1..l + 1 /\ M \in 1..l + 1
          /\ (D = A - 1 \/ D = A) /\ (M = A + 1 \/ M = A)
      BY <1>1, <1>2, <1>4
    <3>4. /\ A \in 1..Len(s) + 1 /\ D \in 1..Len(s) + 1 /\ M \in 1..Len(s) + 1
      BY <3>1
    <3>5. /\ Len(Spliced(s, A, F, D, M)) = D + Len(s) + 1 - M
          /\ \A i \in 1..D + Len(s) + 1 - M :
               Spliced(s, A, F, D, M)[i] = IF i < D THEN s[i]
                                           ELSE IF i > D THEN s[i - D - 1 + M]
                                           ELSE IF D < A THEN s[D] ELSE F
      <4>1. s \in Seq(Nat) /\ F \in Nat /\ (D = A - 1 \/ D = A) /\ (M = A + 1 \/ M = A)
        BY <3>1
      <4> QED BY <3>4, <4>1, SpliceFacts, ZenonT(120)
    <3>2. Len(Spliced(s, A, F, D, M)) = D + l + 1 - M
      BY <3>1, <3>5
    <3>3. ASSUME NEW k \in 1..D + l + 1 - M
          PROVE  Spliced(s, A, F, D, M)[k] = IF k < D THEN s[k]
                                             ELSE IF k > D THEN s[k - D - 1 + M]
                                             ELSE IF D < A THEN s[D] ELSE F
      <4>1. k \in 1..D + Len(s) + 1 - M
        BY <3>1
      <4> QED BY <3>5, <4>1
    <3> QED BY <3>2, <3>3
  <2> QED BY <1>5, <1>7, <2>1
<1>9. t[D] = seg
  <2>1. seg = IF D < A THEN s[D] ELSE F
    BY <1>1, <1>2, <1>4 DEF Joins
  <2> QED BY <1>7, <1>8, <2>1
<1>10. End(g, seg) = last /\ seg \in DOMAIN g.cell
  BY FreePageIs
<1>11. \A k \in 1..n : k < D => t[k] = s[k] /\ k \in 1..l /\ End(h, s[k]) < seg
  BY <1>2, <1>7, <1>8
<1>12. ASSUME NEW k \in 1..n, k > D
       PROVE  t[k] = s[k - D - 1 + M] /\ k - D - 1 + M \in M..l /\ last < s[k - D - 1 + M]
  <2>1. k - D - 1 + M \in M..l /\ k - D - 1 + M \in 1..l
    BY <1>2, <1>7, <1>12
  <2> QED BY <1>2, <1>8, <1>12, <2>1
<1> QED BY <1>1, <1>2, <1>6, <1>7, <1>8, <1>9, <1>10, <1>11, <1>12

\* Every link free_page() leaves but the segment itself is a link it found,
\* whose header it has not touched.
LEMMA OldLink ==
  ASSUME NEW h, Shaped(h), Chained(h), NEW fp, NEW e, Apart(h, fp, e),
         NEW at, NEW d, NEW m, NEW seg, NEW last, Joins(h, fp, e, at, d, m, seg, last),
         NEW g, g = free_page(h, fp),
         NEW i \in 1..Len(h.chain), i < d \/ i >= m
  PROVE  /\ h.chain[i] \in DOMAIN g.cell /\ g.cell[h.chain[i]] = h.cell[h.chain[i]]
         /\ End(g, h.chain[i]) = End(h, h.chain[i]) /\ h.chain[i] # seg
<1>1. PICK s \in Seq(Nat), l \in Nat : s = h.chain /\ l = Len(s) /\ i \in 1..l
  BY HeapFields
<1>2. PICK x \in Nat, y \in Nat :
        x = s[i] /\ y = End(h, s[i]) /\ x < y /\ x \in DOMAIN h.cell
  <2>1. s[i] \in Nat /\ End(h, s[i]) \in Nat /\ s[i] < End(h, s[i]) /\ s[i] \in DOMAIN h.cell
    BY <1>1, ChainFacts
  <2> QED BY <2>1
<1>3. /\ d \in 1..l + 1 /\ m \in 1..l + 1
      /\ (i < d => y < seg) /\ (i >= m => last < x)
  BY <1>1, <1>2, JoinedApart, ZenonT(40)
<1>4. \E z : z \in Int /\ z + HeaderSize = last - seg /\ seg \in Nat /\ last \in Nat
  <2>1. /\ g.cell[seg].size \in Nat /\ End(g, seg) = last /\ seg \in DOMAIN g.cell
    BY FreePageIs, HeapFields
  <2>2. seg \in Nat
    <3>1. g.curr = seg /\ Shaped(g)
      BY FreePageIs
    <3> QED BY <3>1, HeapFields
  <2>3. HeaderSize \in Nat
    BY SizesAssumption
  <2>4. PICK z \in Nat, w \in Nat : z = g.cell[seg].size /\ w = HeaderSize
    BY <2>1, <2>3
  <2>5. last = seg + z + w
    BY <2>1, <2>4 DEF End
  <2>6. z + w = last - seg
    BY <2>2, <2>4, <2>5
  <2>7. z \in Int /\ z + HeaderSize = last - seg /\ last \in Nat
    <3>1. z + HeaderSize = last - seg
      BY <2>4, <2>6
    <3>2. PICK u \in Nat : u = seg
      BY <2>2
    <3>3. last = u + z + w
      BY <2>5, <3>2
    <3>4. u + z + w \in Nat
      BY <2>4, <3>2
    <3> QED BY <2>4, <3>1, <3>3, <3>4
  <2> QED BY <2>2, <2>7
<1>5. PICK f \in Nat, b \in Nat, u \in Nat, v \in Nat :
        f = fp /\ b = e /\ u = seg /\ v = last /\ u <= f /\ f < b /\ b <= v /\ u < v
  <2>1. /\ seg <= fp /\ e <= last /\ fp < e /\ e \in Nat /\ seg < last
        /\ seg \in Nat /\ last \in Nat
    BY <1>4, JoinedSize
  <2>2. fp \in Nat
    BY DEF Apart
  <2> QED BY <2>1, <2>2
<1>6. x # f /\ x # b /\ x # u
  BY <1>2, <1>3, <1>5, SMTT(30)
<1>7. x \in DOMAIN g.cell
  BY <1>2, <1>5, <1>6, FreePageIs
<1>8. g.cell[x] = h.cell[x]
  BY <1>5, <1>6, <1>7, FreePageIs
<1> QED BY <1>1, <1>2, <1>5, <1>6, <1>7, <1>8 DEF End

\* The names of Joins exist.
LEMMA JoinsExist ==
  ASSUME NEW h, NEW fp, NEW e
  PROVE  \E at, d, m, seg, last : Joins(h, fp, e, at, d, m, seg, last)
BY DEF Joins

\* free_page() returns a segment to the chain, merged with a neighbour it
\* touches on either side: the chain stays in address order with no two
\* segments touching, curr_free_page is a link of it, exactly the bytes of
\* the segment have become free, and no header in use is touched.
THEOREM FreePageKeepsChain ==
  ASSUME NEW h, Shaped(h), Chained(h), NEW fp, NEW e, Apart(h, fp, e),
         NEW g, g = free_page(h, fp)
  PROVE  /\ Shaped(g) /\ Chained(g)
         /\ FreeBytes(g) = FreeBytes(h) \cup Taken(fp, h.cell[fp].size)
         /\ g.map = h.map /\ g.fsize = h.fsize
         /\ DOMAIN g.cell \subseteq DOMAIN h.cell
         /\ \A a \in DOMAIN h.cell \ ({fp} \cup Range(h.chain)) :
              a \in DOMAIN g.cell /\ g.cell[a] = h.cell[a]
<1>1. PICK at, d, m, seg, last : Joins(h, fp, e, at, d, m, seg, last)
  BY JoinsExist
<1>2. PICK s \in Seq(Nat), l \in Nat : s = h.chain /\ l = Len(s)
  BY HeapFields
<1>3. PICK D \in Nat, M \in Nat : /\ D = d /\ M = m /\ D \in 1..l + 1 /\ M \in 1..l + 1 /\ at \in 1..l + 1
                                  /\ (D = at - 1 \/ D = at) /\ (M = at + 1 \/ M = at)
  <2>1. /\ at \in 1..l + 1 /\ d \in 1..l + 1 /\ m \in 1..l + 1
        /\ (d = at - 1 \/ d = at) /\ (m = at + 1 \/ m = at)
    BY <1>1, <1>2, JoinedApart
  <2> QED BY <2>1
<1>4. PICK n \in Nat : n = D + l + 1 - M /\ D \in 1..n
  BY <1>3
<1>5. /\ Shaped(g) /\ g.map = h.map /\ g.fsize = h.fsize /\ g.curr = seg
      /\ DOMAIN g.cell = DOMAIN h.cell \ ((IF d < at THEN {fp} ELSE {})
                                            \cup (IF m > at THEN {e} ELSE {}))
      /\ seg \in DOMAIN g.cell /\ g.cell[seg].cid = free_object /\ End(g, seg) = last
      /\ g.cell[seg].size + HeaderSize = Aligned(g.cell[seg].size)
      /\ \A a \in DOMAIN g.cell : a # seg => g.cell[a] = h.cell[a]
  BY <1>1, FreePageIs
<1>6. PICK t \in Seq(Nat) :
        /\ t = g.chain /\ Len(t) = n /\ t[D] = seg
        /\ \A k \in 1..n : k < D => t[k] = s[k] /\ k \in 1..l /\ End(h, s[k]) < seg
        /\ \A k \in 1..n : k > D => /\ t[k] = s[k - D - 1 + M]
                                    /\ k - D - 1 + M \in M..l /\ last < s[k - D - 1 + M]
  <2>1. g.chain \in Seq(Nat)
    BY <1>5, HeapFields
  <2>2. n = d + Len(h.chain) + 1 - m
    BY <1>2, <1>3, <1>4
  <2>3. /\ Len(g.chain) = n /\ g.chain[d] = seg
        /\ \A k \in 1..n : k < d => /\ g.chain[k] = h.chain[k] /\ k \in 1..Len(h.chain)
                                    /\ End(h, h.chain[k]) < seg
        /\ \A k \in 1..n : k > d => /\ g.chain[k] = h.chain[k - d - 1 + m]
                                    /\ k - d - 1 + m \in m..Len(h.chain)
                                    /\ last < h.chain[k - d - 1 + m]
    BY <1>1, <2>2, FreePageLinks
  <2> QED BY <1>2, <1>3, <2>1, <2>3, ZenonT(40)
<1>7. \A i \in 1..l : (i < D \/ i >= M) =>
        /\ s[i] \in DOMAIN g.cell /\ g.cell[s[i]] = h.cell[s[i]]
        /\ End(g, s[i]) = End(h, s[i]) /\ s[i] # seg
  BY <1>1, <1>2, <1>3, OldLink
<1>8. PICK f \in Nat, b \in Nat, u \in Nat, v \in Nat :
        /\ f = fp /\ b = e /\ u = seg /\ v = last /\ u <= f /\ f < b /\ b <= v /\ u < v /\ u # 0
        /\ v <= h.fsize
  <2>1. seg \in Nat /\ g.cell[seg].size \in Nat /\ HeaderSize \in Nat
    BY <1>5, HeapFields, SizesAssumption
  <2>2. PICK z \in Nat, w \in Nat, x \in Nat : z = g.cell[seg].size /\ w = HeaderSize /\ x = seg
    BY <2>1
  <2>3. z + HeaderSize = last - seg /\ z \in Int
    BY <1>5, <2>2 DEF End
  <2>4. /\ seg <= fp /\ e <= last /\ fp < e /\ e \in Nat /\ seg < last
        /\ seg \in Nat \ {0} /\ last \in Nat /\ last <= h.fsize
    BY <1>1, <2>3, JoinedSize
  <2>5. fp \in Nat
    BY DEF Apart
  <2> QED BY <2>4, <2>5
<1>9. ASSUME NEW k \in 1..n
      PROVE  /\ t[k] # Null /\ t[k] \in DOMAIN g.cell /\ End(g, t[k]) <= g.fsize
             /\ g.cell[t[k]].cid = free_object
             /\ g.cell[t[k]].size + HeaderSize = Aligned(g.cell[t[k]].size)
  <2>1. CASE k = D
    BY <1>5, <1>6, <1>8, <2>1 DEF Null
  <2>2. CASE k # D
    <3>1. PICK i \in 1..l : t[k] = s[i] /\ (i < D \/ i >= M)
      <4>1. CASE k < D
        BY <1>6, <4>1
      <4>2. CASE k > D
        <5>1. t[k] = s[k - D - 1 + M] /\ k - D - 1 + M \in M..l
          BY <1>6, <4>2
        <5>2. k - D - 1 + M \in 1..l /\ k - D - 1 + M >= M
          BY <1>3, <5>1
        <5> QED BY <5>1, <5>2
      <4>3. k < D \/ k > D
        BY <1>3, <2>2
      <4> QED BY <4>1, <4>2, <4>3
    <3>2. /\ s[i] \in DOMAIN g.cell /\ g.cell[s[i]] = h.cell[s[i]]
          /\ End(g, s[i]) = End(h, s[i])
      BY <1>7, <3>1
    <3>3. /\ s[i] # 0 /\ End(h, s[i]) <= h.fsize /\ h.cell[s[i]].cid = free_object
          /\ h.cell[s[i]].size + HeaderSize = Aligned(h.cell[s[i]].size)
      BY <1>2, ChainFacts
    <3> QED BY <1>5, <3>1, <3>2, <3>3 DEF Null
  <2> QED BY <2>1, <2>2
<1>10. ASSUME NEW i \in 1..n, NEW j \in 1..n, i < j
       PROVE  End(g, t[i]) < t[j]
  <2>1. CASE j < D
    <3>1. t[i] = s[i] /\ t[j] = s[j] /\ i \in 1..l /\ j \in 1..l
      BY <1>6, <1>10, <2>1
    <3>2. End(g, s[i]) = End(h, s[i]) /\ End(h, s[i]) < s[j]
      BY <1>2, <1>7, <1>10, <2>1, <3>1, ChainFacts
    <3> QED BY <3>1, <3>2
  <2>2. CASE j = D
    <3>1. t[i] = s[i] /\ t[j] = seg /\ i \in 1..l /\ End(h, s[i]) < seg
      BY <1>6, <1>10, <2>2
    <3>2. End(g, s[i]) = End(h, s[i])
      BY <1>7, <1>10, <2>2, <3>1
    <3> QED BY <3>1, <3>2
  <2>3. CASE i = D
    <3>1. t[j] = s[j - D - 1 + M] /\ last < s[j - D - 1 + M] /\ t[i] = seg
      BY <1>6, <1>10, <2>3
    <3> QED BY <1>5, <3>1
  <2>4. CASE i > D
    <3>1. /\ t[i] = s[i - D - 1 + M] /\ t[j] = s[j - D - 1 + M]
          /\ i - D - 1 + M \in M..l /\ j - D - 1 + M \in M..l
      BY <1>6, <1>10, <2>4
    <3>2. PICK x \in 1..l, y \in 1..l : /\ x = i - D - 1 + M /\ y = j - D - 1 + M
                                        /\ x >= M /\ x < y
      <4>1. /\ i - D - 1 + M \in 1..l /\ j - D - 1 + M \in 1..l
            /\ i - D - 1 + M >= M /\ i - D - 1 + M < j - D - 1 + M
        BY <1>3, <1>10, <3>1
      <4> QED BY <4>1
    <3>3. End(g, s[x]) = End(h, s[x]) /\ End(h, s[x]) < s[y]
      BY <1>2, <1>7, <3>2, ChainFacts
    <3> QED BY <3>1, <3>2, <3>3
  <2>5. CASE i < D /\ j > D
    <3>1. t[i] = s[i] /\ i \in 1..l /\ End(h, s[i]) < seg
      BY <1>6, <1>10, <2>5
    <3>2. PICK y \in 1..l : t[j] = s[y] /\ last < s[y]
      <4>1. t[j] = s[j - D - 1 + M] /\ j - D - 1 + M \in M..l /\ last < s[j - D - 1 + M]
        BY <1>6, <1>10, <2>5
      <4> QED BY <1>3, <4>1
    <3>3. End(g, s[i]) = End(h, s[i])
      BY <1>7, <2>5, <3>1
    <3>4. PICK p \in Nat, q \in Nat : p = End(h, s[i]) /\ q = s[y]
      BY <1>2, <3>1, ChainFacts
    <3> QED BY <1>8, <3>1, <3>2, <3>3, <3>4
  <2> QED BY <1>3, <1>10, <2>1, <2>2, <2>3, <2>4, <2>5
<1>11. Chained(g)
  <2>1. t # <<>> /\ g.curr \in Range(t)
    <3>1. D \in DOMAIN t /\ t[D] = g.curr
      BY <1>4, <1>5, <1>6
    <3> QED BY <3>1 DEF Range
  <2> QED BY <1>6, <1>9, <1>10, <2>1 DEF Chained
<1>12. FreeBytes(g) = FreeBytes(h) \cup {x \in Nat : f <= x /\ x < b}
  <2>1. (D < at => D \in 1..l /\ u = s[D] /\ End(h, s[D]) = f) /\ (D = at => u = f)
    <3>1. CASE D < at
      <4>1. D = at - 1 /\ D \in 1..l /\ d < at
        BY <1>3, <3>1
      <4>2. at > 1 /\ End(h, h.chain[at - 1]) = fp /\ seg = h.chain[d]
        BY <1>1, <4>1 DEF Joins
      <4>3. h.chain[at - 1] = s[D] /\ seg = s[D]
        BY <1>2, <1>3, <4>1, <4>2
      <4> QED BY <1>3, <1>8, <3>1, <4>1, <4>2, <4>3
    <3>2. CASE D = at
      BY <1>1, <1>3, <1>8, <3>2 DEF Joins
    <3> QED BY <1>3, <3>1, <3>2
  <2>2. (M > at => at \in 1..l /\ s[at] = b /\ End(h, s[at]) = v) /\ (M = at => v = b)
    BY <1>1, <1>2, <1>3, <1>8 DEF Joins
  <2>3. ASSUME NEW x \in Nat, NEW k \in 1..n, t[k] <= x, x < End(g, t[k])
        PROVE  \/ \E i \in 1..l : s[i] <= x /\ x < End(h, s[i])
               \/ f <= x /\ x < b
    <3>1. CASE k < D
      <4>1. t[k] = s[k] /\ k \in 1..l /\ End(g, s[k]) = End(h, s[k])
        BY <1>6, <1>7, <3>1
      <4> QED BY <2>3, <4>1
    <3>2. CASE k > D
      <4>1. t[k] = s[k - D - 1 + M] /\ k - D - 1 + M \in M..l
        BY <1>6, <3>2
      <4>2. PICK i \in 1..l : i = k - D - 1 + M /\ i >= M
        BY <1>3, <4>1
      <4>3. End(g, s[i]) = End(h, s[i])
        BY <1>7, <4>2
      <4> QED BY <2>3, <4>1, <4>2, <4>3
    <3>3. CASE k = D
      <4>1. u <= x /\ x < v
        BY <1>5, <1>6, <1>8, <2>3, <3>3
      <4>2. x < f => \E i \in 1..l : s[i] <= x /\ x < End(h, s[i])
        BY <1>3, <2>1, <4>1
      <4>3. b <= x => \E i \in 1..l : s[i] <= x /\ x < End(h, s[i])
        BY <1>3, <2>2, <4>1
      <4> QED BY <4>2, <4>3
    <3> QED BY <1>3, <3>1, <3>2, <3>3
  <2>4. ASSUME NEW x \in Nat, NEW i \in 1..l, s[i] <= x, x < End(h, s[i])
        PROVE  \E k \in 1..n : t[k] <= x /\ x < End(g, t[k])
    <3>1. CASE i < D
      <4>1. i \in 1..n /\ t[i] = s[i] /\ End(g, s[i]) = End(h, s[i])
        BY <1>4, <1>6, <1>7, <3>1
      <4> QED BY <2>4, <4>1
    <3>2. CASE i >= M
      <4>1. PICK k \in 1..n : k > D /\ i = k - D - 1 + M
        <5>1. PICK k \in Int : k = i + D + 1 - M
          BY <1>3
        <5> QED BY <1>3, <1>4, <3>2, <5>1
      <4>2. t[k] = s[i] /\ End(g, s[i]) = End(h, s[i])
        BY <1>6, <1>7, <3>2, <4>1
      <4> QED BY <2>4, <4>2
    <3>3. CASE ~(i < D) /\ ~(i >= M)
      <4>1. t[D] = u /\ End(g, t[D]) = v
        BY <1>5, <1>6, <1>8
      <4>2. (i = D /\ D < at) \/ (i = at /\ M > at)
        BY <1>3, <3>3
      <4>3. u <= x /\ x < v
        <5>1. PICK p \in Nat, q \in Nat : p = s[i] /\ q = End(h, s[i])
          BY <1>2, ChainFacts
        <5> QED BY <1>8, <2>1, <2>2, <2>4, <4>2, <5>1
      <4> QED BY <1>4, <4>1, <4>3
    <3> QED BY <1>3, <3>1, <3>2, <3>3
  <2>5. ASSUME NEW x \in Nat, f <= x, x < b
        PROVE  \E k \in 1..n : t[k] <= x /\ x < End(g, t[k])
    <3>1. t[D] = u /\ End(g, t[D]) = v
      BY <1>5, <1>6, <1>8
    <3>2. u <= x /\ x < v
      BY <1>8, <2>5
    <3> QED BY <1>4, <3>1, <3>2
  <2>6. \A x \in Nat : x \in FreeBytes(g) <=> \E k \in 1..n : t[k] <= x /\ x < End(g, t[k])
    BY <1>5, <1>6, <1>11, FreeByte
  <2>7. \A x \in Nat : x \in FreeBytes(h) <=> \E i \in 1..l : s[i] <= x /\ x < End(h, s[i])
    BY <1>2, FreeByte
  <2>8. FreeBytes(g) \subseteq Nat /\ FreeBytes(h) \subseteq Nat
    BY <1>5, <1>11, FreeByte
  <2>9. \A x \in Nat : x \in FreeBytes(g) <=> x \in FreeBytes(h) \/ (f <= x /\ x < b)
    BY <2>3, <2>4, <2>5, <2>6, <2>7
  <2> QED BY <2>8, <2>9
<1>13. Taken(fp, h.cell[fp].size) = {x \in Nat : f <= x /\ x < b}
  <2>1. h.cell[fp].size \in Nat /\ e = fp + Aligned(h.cell[fp].size) /\ fp \in Nat
    BY HeapFields DEF Apart
  <2>2. \A x : x \in Taken(fp, h.cell[fp].size) <=> x \in Nat /\ f <= x /\ x < b
    BY <1>8, <2>1, TakenByte
  <2> QED BY <2>2
<1>14. ASSUME NEW a \in DOMAIN h.cell \ ({fp} \cup Range(h.chain))
       PROVE  a \in DOMAIN g.cell /\ g.cell[a] = h.cell[a]
  <2>1. \A i \in 1..l : a # s[i]
    BY <1>2, <1>14 DEF Range
  <2>2. M > at => at \in 1..l /\ s[at] = e
    BY <1>1, <1>2, <1>3 DEF Joins
  <2>3. M > at => a # e
    BY <2>1, <2>2
  <2>4. a \in DOMAIN g.cell
    BY <1>3, <1>5, <1>14, <2>3
  <2>5. seg = fp \/ (D \in 1..l /\ seg = s[D])
    BY <1>1, <1>2, <1>3 DEF Joins
  <2>6. a # seg
    BY <1>14, <2>1, <2>5
  <2> QED BY <1>5, <2>4, <2>6
<1>15. DOMAIN g.cell \subseteq DOMAIN h.cell
  BY <1>5
<1> QED BY <1>5, <1>11, <1>12, <1>13, <1>14, <1>15

----------------------------------------------------------------------------
(* alloc_page() takes pages. *)

\* The segment the search yields is large enough.
LEMMA FitFacts ==
  ASSUME NEW h, Shaped(h), NEW size \in Nat, NEW i, i = FirstFit(h, size), i # 0
  PROVE  i \in 1..Len(h.chain) /\ h.cell[h.chain[i]].size >= size
<1>1. PICK c : c = Position(h.chain, h.curr)
  OBVIOUS
<1>2. PICK l \in Nat : l = Len(h.chain)
  BY HeapFields
<1>3. c \in 0..l
  <2>1. CASE h.curr \in Range(h.chain)
    <3>1. \E j \in 1..l : h.chain[j] = h.curr
      BY <1>2, <2>1, HeapFields DEF Range
    <3>2. c = CHOOSE j \in 1..l : h.chain[j] = h.curr
      BY <1>1, <1>2, <2>1 DEF Position
    <3> QED BY <3>1, <3>2
  <2>2. CASE h.curr \notin Range(h.chain)
    BY <1>1, <1>2, <2>2 DEF Position
  <2> QED BY <2>1, <2>2
<1>4. PICK A, B : /\ A = {j \in c+1..l : h.cell[h.chain[j]].size >= size}
                  /\ B = {j \in 1..c : h.cell[h.chain[j]].size >= size}
  OBVIOUS
<1>5. i = IF A # {} THEN Min(A) ELSE IF B # {} THEN Min(B) ELSE 0
  BY <1>1, <1>2, <1>4 DEF FirstFit
<1>6. A \in SUBSET Nat /\ B \in SUBSET Nat
  BY <1>3, <1>4
<1>7. i \in A \/ i \in B
  <2>1. CASE A # {}
    <3>1. i = Min(A)
      BY <1>5, <2>1
    <3>2. Min(A) \in A
      BY <1>6, <2>1, Least
    <3> QED BY <3>1, <3>2
  <2>2. CASE A = {}
    <3>1. B # {} /\ i = Min(B)
      BY <1>5, <2>2
    <3>2. Min(B) \in B
      BY <1>6, <3>1, Least
    <3> QED BY <3>1, <3>2
  <2> QED BY <2>1, <2>2
<1> QED BY <1>2, <1>3, <1>4, <1>7

\* A segment of whole pages that is large enough holds the pages asked for,
\* and what is left of it is nothing or whole pages with a header of its own.
LEMMA RestFacts ==
  ASSUME NEW z \in Nat, NEW size \in Nat, size <= z, z + HeaderSize = Aligned(z),
         NEW rest, rest = z - Aligned(size)
  PROVE  /\ rest \in Int
         /\ rest > 0 => rest \in Nat /\ rest + HeaderSize = Aligned(rest)
         /\ ~(rest > 0) => Aligned(size) = z + HeaderSize
<1>1. PICK p \in Nat \ {0}, f \in Nat : p = PageSize /\ f = HeaderSize /\ 0 < f /\ f < p
  BY SizesAssumption
<1>2. PICK k \in Nat : Aligned(z) = k * p /\ z + f = k * p
  BY <1>1, AlignedFacts
<1>3. PICK j \in Nat : Aligned(size) = j * p /\ size + f <= j * p /\ j * p <= k * p
  <2>1. size + f <= k * p
    BY <1>2
  <2>2. /\ \E i \in Nat : Aligned(size) = i * p
        /\ Aligned(size) \in Nat \ {0} /\ size + f <= Aligned(size)
        /\ Aligned(size) <= k * p
    BY <1>1, <2>1, AlignedFacts
  <2> QED BY <2>2
<1>4. j <= k
  <2>1. j * p \in Nat /\ k * p \in Nat
    OBVIOUS
  <2>2. j * p < k * p + p
    BY <1>1, <1>3, <2>1
  <2> QED BY <2>2, Times
<1>5. PICK q \in Nat : q = k - j
  BY <1>4
<1>6. q * p = k * p - j * p /\ q * p \in Nat
  BY <1>5
<1>7. PICK x \in Nat, y \in Nat, w \in Nat : x = q * p /\ y = k * p /\ w = j * p
  BY <1>6
<1>8. rest + f = x /\ rest \in Int /\ x = y - w
  BY <1>1, <1>2, <1>3, <1>6, <1>7
<1>9. ASSUME rest > 0 PROVE rest \in Nat /\ rest + HeaderSize = Aligned(rest)
  <2>1. rest \in Nat /\ rest + f <= q * p
    BY <1>7, <1>8, <1>9
  <2>2. Aligned(rest) \in Nat /\ rest + f <= Aligned(rest) /\ Aligned(rest) <= q * p
    BY <1>1, <2>1, AlignedFacts
  <2> QED BY <1>1, <1>7, <1>8, <2>1, <2>2
<1>10. ASSUME ~(rest > 0) PROVE Aligned(size) = z + HeaderSize
  <2>1. x < p
    BY <1>1, <1>8, <1>10
  <2>2. q * p < 0 * p + p
    BY <1>7, <2>1
  <2>3. q <= 0
    BY <2>2, Times
  <2>4. k = j
    BY <1>5, <2>3
  <2> QED BY <1>1, <1>2, <1>3, <2>4
<1> QED BY <1>8, <1>9, <1>10

\* A heap with new cells, a new chain and a new file size is shaped as before.
LEMMA ShapeGrown ==
  ASSUME NEW h, Shaped(h), NEW g,
         g = [h EXCEPT !.cell = g.cell, !.chain = g.chain, !.curr = g.curr, !.fsize = g.fsize],
         g.cell \in [DOMAIN g.cell -> Header], g.chain \in Seq(Nat), g.curr \in Nat,
         g.fsize \in Nat
  PROVE  Shaped(g)
BY DEF Shaped

\* What a step that hands out pages for an object of a given size promises:
\* the chain stays sound; the pages were free, or are new ones at the end of
\* the file; they are not free any more, and no other page has changed hands.
Handed(h, g, at, cid, size) ==
  /\ Shaped(g) /\ Chained(g) /\ InFile(g) /\ g.map = h.map /\ h.fsize <= g.fsize
  /\ at \in Nat \ {0} /\ at \in DOMAIN g.cell /\ g.cell[at] = [cid |-> cid, size |-> size]
  /\ at + Aligned(size) <= g.fsize
  /\ FreeBytes(g) = FreeBytes(h) \ Taken(at, size)
  /\ \/ Taken(at, size) \subseteq FreeBytes(h) /\ g.fsize = h.fsize
     \/ at = h.fsize /\ g.fsize = h.fsize + Aligned(size)
  /\ \A a \in DOMAIN h.cell \ ({at} \cup Range(h.chain)) :
       a \in DOMAIN g.cell /\ g.cell[a] = h.cell[a]

\* No segment fits: the file grows.
LEMMA ReserveEnd ==
  ASSUME NEW h, Shaped(h), Chained(h), InFile(h), h.fsize # 0,
         NEW cid \in Nat, NEW size \in Nat, FirstFit(h, size) = 0,
         NEW r, r = Reserve(h, cid, size)
  PROVE  Handed(h, r.heap, r.at, cid, size)
<1>0. PICK g : g = r.heap
  OBVIOUS
<1>1. PICK f \in Nat, w \in Nat : g = r.heap /\ f = h.fsize /\ w = Aligned(size) /\ w > 0
  <2>1. h.fsize \in Nat /\ Aligned(size) \in Nat /\ Aligned(size) > 0
    BY HeapFields, AlignedFacts
  <2> QED BY <1>0, <2>1
<1>2. /\ r.at = f /\ g.chain = h.chain /\ g.curr = h.curr /\ g.map = h.map /\ g.fsize = f + w
      /\ g.cell = [a \in DOMAIN h.cell \cup {f} |->
                     IF a = f THEN [cid |-> cid, size |-> size] ELSE h.cell[a]]
      /\ g = [h EXCEPT !.cell = g.cell, !.chain = g.chain, !.curr = g.curr, !.fsize = g.fsize]
  BY <1>1 DEF Reserve, Shaped
<1>3. /\ g.cell \in [DOMAIN g.cell -> Header] /\ DOMAIN g.cell = DOMAIN h.cell \cup {f}
      /\ g.cell[f] = [cid |-> cid, size |-> size]
      /\ \A a \in DOMAIN h.cell : a # f => g.cell[a] = h.cell[a]
  <2>1. PICK c : c = h.cell /\ c \in [DOMAIN c -> Header]
    BY HeapFields
  <2>2. PICK k : k = [a \in DOMAIN c \cup {f} |->
                        IF a = f THEN [cid |-> cid, size |-> size] ELSE c[a]]
    OBVIOUS
  <2>3. /\ k \in [DOMAIN k -> Header] /\ DOMAIN k = DOMAIN c \cup {f}
        /\ k[f] = [cid |-> cid, size |-> size]
        /\ \A a \in DOMAIN c : a # f => k[a] = c[a]
    BY <2>1, <2>2 DEF Header
  <2>4. g.cell = k
    BY <1>2, <2>1, <2>2
  <2> QED BY <2>1, <2>3, <2>4
<1>4. Shaped(g)
  <2>1. g.chain \in Seq(Nat) /\ g.curr \in Nat /\ g.fsize \in Nat
    BY <1>1, <1>2, HeapFields
  <2> QED BY <1>2, <1>3, <2>1, ShapeGrown
<1>5. PICK s \in Seq(Nat), l \in Nat : s = h.chain /\ l = Len(s)
  BY HeapFields
<1>6. ASSUME NEW i \in 1..l
      PROVE  /\ s[i] # Null /\ s[i] \in DOMAIN g.cell /\ End(g, s[i]) <= g.fsize
             /\ g.cell[s[i]] = h.cell[s[i]] /\ End(g, s[i]) = End(h, s[i])
  <2>1. PICK x \in Nat \ {0}, y \in Nat : /\ x = s[i] /\ y = End(h, s[i])
                                          /\ x < y /\ y <= f /\ x \in DOMAIN h.cell
    <3>1. /\ s[i] \in Nat \ {0} /\ End(h, s[i]) \in Nat /\ s[i] < End(h, s[i])
          /\ End(h, s[i]) <= h.fsize /\ s[i] \in DOMAIN h.cell
      BY <1>5, ChainFacts
    <3> QED BY <1>1, <3>1
  <2>2. x # f
    BY <1>1, <2>1
  <2>3. g.cell[x] = h.cell[x] /\ x \in DOMAIN g.cell
    BY <1>3, <2>1, <2>2
  <2>4. End(g, x) = y
    BY <2>1, <2>3 DEF End
  <2> QED BY <1>1, <1>2, <2>1, <2>3, <2>4 DEF Null
<1>7. Chained(g)
  <2>1. ASSUME NEW i \in 1..l
        PROVE  /\ g.cell[s[i]].cid = free_object
               /\ g.cell[s[i]].size + HeaderSize = Aligned(g.cell[s[i]].size)
    <3>1. /\ h.cell[s[i]].cid = free_object
          /\ h.cell[s[i]].size + HeaderSize = Aligned(h.cell[s[i]].size)
      BY <1>5, ChainFacts
    <3> QED BY <1>6, <3>1
  <2>2. \A i, j \in 1..l : i < j => End(g, s[i]) < s[j]
    BY <1>5, <1>6, ChainFacts
  <2>3. IF s = <<>> THEN g.curr = Null ELSE g.curr \in Range(s)
    BY <1>2, <1>5 DEF Chained
  <2>4. g.chain = s
    BY <1>2, <1>5
  <2>5. \A i \in 1..Len(g.chain) :
           LET a == g.chain[i]
           IN  /\ a # Null /\ a \in DOMAIN g.cell /\ End(g, a) <= g.fsize
               /\ g.cell[a].cid = free_object
               /\ g.cell[a].size + HeaderSize = Aligned(g.cell[a].size)
    BY <1>5, <1>6, <2>1, <2>4
  <2> QED BY <1>5, <2>2, <2>3, <2>4, <2>5 DEF Chained
<1>8. InFile(g)
  <2> SUFFICES ASSUME NEW a \in DOMAIN g.cell PROVE a \in Nat /\ a < g.fsize
    BY DEF InFile
  <2>1. a = f \/ (a \in DOMAIN h.cell /\ a \in Nat /\ a < f)
    BY <1>1, <1>3 DEF InFile
  <2> QED BY <1>1, <1>2, <2>1
<1>9. FreeBytes(g) = FreeBytes(h)
  <2>1. FreeBytes(g) = {x \in Nat : \E i \in 1..l : s[i] <= x /\ x < End(g, s[i])}
    BY <1>2, <1>4, <1>5, <1>7, FreeByte
  <2>2. FreeBytes(h) = {x \in Nat : \E i \in 1..l : s[i] <= x /\ x < End(h, s[i])}
    BY <1>5, FreeByte
  <2> QED BY <1>6, <2>1, <2>2
<1>10. FreeBytes(h) \cap Taken(f, size) = {}
  <2> SUFFICES ASSUME NEW x \in Nat, x \in FreeBytes(h), f <= x PROVE FALSE
    BY <1>1, TakenByte
  <2>1. PICK i \in 1..l : x < End(h, s[i])
    BY <1>5, FreeByte
  <2>2. End(h, s[i]) \in Nat /\ End(h, s[i]) <= f
    BY <1>1, <1>5, ChainFacts
  <2> QED BY <2>1, <2>2
<1>11. /\ f \in Nat \ {0} /\ f \in DOMAIN g.cell /\ f + Aligned(size) <= g.fsize
       /\ h.fsize <= g.fsize /\ g.fsize = h.fsize + Aligned(size)
  BY <1>1, <1>2, <1>3
<1>12. FreeBytes(g) = FreeBytes(h) \ Taken(f, size)
  BY <1>9, <1>10
<1>13. \A a \in DOMAIN h.cell \ ({f} \cup Range(h.chain)) :
         a \in DOMAIN g.cell /\ g.cell[a] = h.cell[a]
  BY <1>3
<1>14. r.at = f /\ g.map = h.map /\ f = h.fsize /\ g.cell[f] = [cid |-> cid, size |-> size]
  BY <1>1, <1>2, <1>3
<1> QED BY <1>1, <1>4, <1>7, <1>8, <1>11, <1>12, <1>13, <1>14 DEF Handed

\* The segments of the chain lie below or above the one at place i.
LEMMA Others ==
  ASSUME NEW h, Shaped(h), Chained(h), NEW i \in 1..Len(h.chain),
         NEW k \in 1..Len(h.chain), k # i
  PROVE  /\ h.chain[k] \in Nat /\ h.chain[k] < End(h, h.chain[k]) /\ h.chain[k] # h.chain[i]
         /\ End(h, h.chain[k]) \in Nat
         /\ End(h, h.chain[k]) < h.chain[i] \/ End(h, h.chain[i]) < h.chain[k]
<1>1. k < i \/ i < k
  BY HeapFields
<1>2. PICK a \in Nat, b \in Nat, x \in Nat, y \in Nat :
        /\ a = h.chain[i] /\ b = End(h, h.chain[i]) /\ a < b
        /\ x = h.chain[k] /\ y = End(h, h.chain[k]) /\ x < y
  <2>1. /\ h.chain[i] \in Nat /\ End(h, h.chain[i]) \in Nat /\ h.chain[i] < End(h, h.chain[i])
        /\ h.chain[k] \in Nat /\ End(h, h.chain[k]) \in Nat /\ h.chain[k] < End(h, h.chain[k])
    BY ChainFacts
  <2> QED BY <2>1
<1>3. y < a \/ b < x
  BY <1>1, <1>2, ChainFacts
<1> QED BY <1>2, <1>3

\* The tail of a segment is taken.
LEMMA ReserveTail ==
  ASSUME NEW h, Shaped(h), Chained(h), InFile(h),
         NEW cid \in Nat, NEW size \in Nat, NEW i, i = FirstFit(h, size), i # 0,
         h.cell[h.chain[i]].size - Aligned(size) > 0,
         NEW r, r = Reserve(h, cid, size)
  PROVE  Handed(h, r.heap, r.at, cid, size)
<1>1. PICK g : g = r.heap
  OBVIOUS
<1>2. PICK s \in Seq(Nat), l \in Nat : s = h.chain /\ l = Len(s)
  BY HeapFields
<1>3. i \in 1..l /\ h.cell[s[i]].size >= size
  BY <1>2, FitFacts
<1>4. PICK b \in Nat, z \in Nat, w \in Nat, H \in Nat, q \in Nat :
        /\ b = s[i] /\ z = h.cell[b].size /\ w = Aligned(size) /\ H = HeaderSize
        /\ q = z - w /\ q > 0 /\ w > 0 /\ b > 0 /\ H > 0 /\ b \in DOMAIN h.cell
        /\ q + H = Aligned(q) /\ b + z + H = End(h, b) /\ b + z + H <= h.fsize
  <2>1. /\ s[i] \in Nat \ {0} /\ s[i] \in DOMAIN h.cell /\ h.cell[s[i]].size \in Nat
        /\ h.cell[s[i]].size + HeaderSize = Aligned(h.cell[s[i]].size)
        /\ End(h, s[i]) <= h.fsize
    BY <1>2, <1>3, ChainFacts, HeapFields
  <2>2. Aligned(size) \in Nat \ {0} /\ HeaderSize \in Nat \ {0}
    BY AlignedFacts, SizesAssumption
  <2>3. PICK z \in Nat, w \in Nat, b \in Nat, H \in Nat :
          /\ z = h.cell[s[i]].size /\ w = Aligned(size) /\ b = s[i] /\ H = HeaderSize
          /\ w > 0 /\ b > 0 /\ H > 0
    BY <2>1, <2>2
  <2>4. PICK q : q = z - w
    OBVIOUS
  <2>5. q > 0 /\ size <= z /\ z + HeaderSize = Aligned(z)
    BY <1>2, <1>3, <2>1, <2>3, <2>4
  <2>6. q \in Nat /\ q + H = Aligned(q)
    <3>1. q = z - Aligned(size) /\ z \in Nat /\ size \in Nat /\ H = HeaderSize
      BY <2>3, <2>4
    <3>2. q \in Int /\ (q > 0 => q \in Nat /\ q + HeaderSize = Aligned(q))
      BY <2>5, <3>1, RestFacts
    <3> QED BY <2>5, <3>1, <3>2
  <2>7. b + z + H = End(h, b)
    BY <2>3 DEF End
  <2>8. b \in DOMAIN h.cell /\ z = h.cell[b].size /\ b + z + H <= h.fsize
    BY <2>1, <2>3, <2>7
  <2> QED BY <2>3, <2>4, <2>5, <2>6, <2>7, <2>8
<1>5. PICK at \in Nat : /\ at = b + q + H /\ b < at /\ at + w = b + z + H /\ at < b + z + H
                       /\ at < h.fsize
  <2>0. /\ b \in Nat /\ q \in Nat /\ H \in Nat /\ w \in Nat /\ z \in Nat
        /\ q > 0 /\ w > 0 /\ q = z - w
    BY <1>4
  <2>1. b + q + H \in Nat /\ b < b + q + H
    BY <2>0
  <2>2. (b + q + H) + w = b + z + H /\ b + q + H < b + z + H
    BY <2>0
  <2>3. b + q + H < h.fsize
    <3>1. PICK f \in Nat : f = h.fsize
      BY HeapFields
    <3>2. b + z + H <= f
      BY <1>4, <3>1
    <3> QED BY <1>4, <2>1, <2>2, <3>1, <3>2
  <2> QED BY <2>1, <2>2, <2>3
<1>6. PICK c : c = h.cell /\ c \in [DOMAIN c -> Header] /\ b \in DOMAIN c
  BY <1>4, HeapFields
<1>7. PICK k : k = [a \in DOMAIN c \cup {at} |->
                      IF a = at THEN [cid |-> cid, size |-> size]
                      ELSE [c EXCEPT ![b].size = q][a]]
  OBVIOUS
<1>8. /\ r.at = at /\ g.chain = h.chain /\ g.curr = b /\ g.map = h.map /\ g.fsize = h.fsize
      /\ g.cell = k
      /\ g = [h EXCEPT !.cell = g.cell, !.chain = g.chain, !.curr = g.curr, !.fsize = g.fsize]
  <2>1. h.chain[i] = b /\ h.cell[b].size - Aligned(size) = q /\ b + q + HeaderSize = at
    BY <1>2, <1>4, <1>5
  <2> QED BY <1>1, <1>4, <1>6, <1>7, <2>1 DEF Reserve, Shaped
<1>9. /\ k \in [DOMAIN k -> Header] /\ DOMAIN k = DOMAIN c \cup {at}
      /\ k[at] = [cid |-> cid, size |-> size]
      /\ k[b] = [c[b] EXCEPT !.size = q]
      /\ k[b].cid = c[b].cid /\ k[b].size = q
      /\ \A a \in DOMAIN c : a # at /\ a # b => k[a] = c[a]
  <2>1. c[b] \in Header
    BY <1>6
  <2>2. PICK n : n = [c[b] EXCEPT !.size = q]
    OBVIOUS
  <2>3. n \in Header /\ n.cid = c[b].cid /\ n.size = q
    BY <1>4, <2>1, <2>2 DEF Header
  <2>4. PICK d : d = [c EXCEPT ![b].size = q]
    OBVIOUS
  <2>5. d = [c EXCEPT ![b] = n]
    BY <2>2, <2>4
  <2>6. DOMAIN d = DOMAIN c /\ d[b] = n /\ \A a \in DOMAIN c : a # b => d[a] = c[a]
    BY <1>6, <2>5
  <2>7. k = [a \in DOMAIN c \cup {at} |-> IF a = at THEN [cid |-> cid, size |-> size] ELSE d[a]]
    BY <1>7, <2>4
  <2>8. /\ DOMAIN k = DOMAIN c \cup {at} /\ k[at] = [cid |-> cid, size |-> size]
        /\ \A a \in DOMAIN c : a # at => k[a] = d[a]
    BY <2>7
  <2>9. [cid |-> cid, size |-> size] \in Header
    BY DEF Header
  <2>10. \A a \in DOMAIN k : k[a] \in Header
    BY <1>6, <2>3, <2>6, <2>8, <2>9
  <2>11. k = [a \in DOMAIN k |-> k[a]]
    BY <2>7
  <2>12. k[b] = n
    BY <1>5, <1>6, <2>6, <2>8
  <2>13. \A a \in DOMAIN c : a # at /\ a # b => k[a] = c[a]
    BY <2>6, <2>8
  <2> QED BY <2>2, <2>3, <2>8, <2>10, <2>11, <2>12, <2>13
<1>10. Shaped(g)
  <2>1. /\ g.chain \in Seq(Nat) /\ g.curr \in Nat /\ g.fsize \in Nat
        /\ g.cell \in [DOMAIN g.cell -> Header]
    BY <1>4, <1>8, <1>9, HeapFields
  <2> QED BY <1>8, <2>1, ShapeGrown
<1>11. ASSUME NEW j \in 1..l, j # i
       PROVE  /\ s[j] \in DOMAIN g.cell /\ g.cell[s[j]] = h.cell[s[j]]
              /\ End(g, s[j]) = End(h, s[j]) /\ s[j] # b /\ s[j] \in Nat
              /\ End(h, s[j]) \in Nat /\ s[j] < End(h, s[j])
              /\ End(h, s[j]) < b \/ b + z + H < s[j]
  <2>1. /\ s[j] \in Nat /\ s[j] < End(h, s[j]) /\ s[j] # b /\ End(h, s[j]) \in Nat
        /\ End(h, s[j]) < b \/ b + z + H < s[j]
    BY <1>2, <1>3, <1>4, <1>11, Others
  <2>2. s[j] # at
    BY <1>4, <1>5, <2>1
  <2>3. s[j] \in DOMAIN h.cell
    BY <1>2, ChainFacts
  <2>4. s[j] \in DOMAIN g.cell /\ g.cell[s[j]] = h.cell[s[j]]
    BY <1>6, <1>8, <1>9, <2>1, <2>2, <2>3
  <2> QED BY <2>1, <2>4 DEF End
<1>12. /\ b \in DOMAIN g.cell /\ End(g, b) = at /\ End(h, b) = b + z + H
       /\ g.cell[b].cid = free_object
       /\ g.cell[b].size + HeaderSize = Aligned(g.cell[b].size)
  <2>1. b \in DOMAIN g.cell /\ g.cell[b].size = q /\ g.cell[b].cid = h.cell[b].cid
    BY <1>6, <1>8, <1>9
  <2>2. End(g, b) = at
    BY <1>4, <1>5, <2>1 DEF End
  <2>3. h.cell[b].cid = free_object
    BY <1>2, <1>3, <1>4, ChainFacts
  <2> QED BY <1>4, <2>1, <2>2, <2>3
<1>13. Chained(g)
  <2>1. g.chain = s
    BY <1>2, <1>8
  <2>2. ASSUME NEW j \in 1..l
        PROVE  /\ s[j] # Null /\ s[j] \in DOMAIN g.cell /\ End(g, s[j]) <= g.fsize
               /\ g.cell[s[j]].cid = free_object
               /\ g.cell[s[j]].size + HeaderSize = Aligned(g.cell[s[j]].size)
    <3>1. CASE j = i
      <4>1. at <= h.fsize
        <5>1. PICK f \in Nat : f = h.fsize
          BY HeapFields
        <5> QED BY <1>5, <5>1, SMTT(30)
      <4> QED BY <1>4, <1>8, <1>12, <3>1, <4>1 DEF Null
    <3>2. CASE j # i
      <4>1. /\ s[j] # 0 /\ End(h, s[j]) <= h.fsize
            /\ h.cell[s[j]].cid = free_object
            /\ h.cell[s[j]].size + HeaderSize = Aligned(h.cell[s[j]].size)
        BY <1>2, ChainFacts
      <4> QED BY <1>8, <1>11, <3>2, <4>1 DEF Null
    <3> QED BY <3>1, <3>2
  <2>3. ASSUME NEW x \in 1..l, NEW y \in 1..l, x < y PROVE End(g, s[x]) < s[y]
    <3>1. PICK u \in Nat, v \in Nat : u = End(h, s[x]) /\ v = s[y] /\ u < v
      <4>1. End(h, s[x]) < s[y] /\ End(h, s[x]) \in Nat /\ s[y] \in Nat
        BY <1>2, <2>3, ChainFacts
      <4> QED BY <4>1
    <3>2. CASE x = i
      <4>1. End(g, s[x]) = at /\ u = b + z + H
        BY <1>4, <1>12, <3>1, <3>2
      <4> QED BY <1>4, <1>5, <3>1, <4>1, SMTT(30)
    <3>3. CASE x # i
      BY <1>11, <3>1, <3>3
    <3> QED BY <3>2, <3>3
  <2>4. s # <<>> /\ g.curr \in Range(s)
    BY <1>2, <1>3, <1>4, <1>8 DEF Range
  <2>5. \A j \in 1..Len(g.chain) :
           LET a == g.chain[j]
           IN  /\ a # Null /\ a \in DOMAIN g.cell /\ End(g, a) <= g.fsize
               /\ g.cell[a].cid = free_object
               /\ g.cell[a].size + HeaderSize = Aligned(g.cell[a].size)
    BY <1>2, <2>1, <2>2
  <2> QED BY <1>2, <2>1, <2>3, <2>4, <2>5 DEF Chained
<1>14. InFile(g)
  <2> SUFFICES ASSUME NEW a \in DOMAIN g.cell PROVE a \in Nat /\ a < g.fsize
    BY DEF InFile
  <2>1. a = at \/ (a \in DOMAIN h.cell /\ a \in Nat /\ a < h.fsize)
    BY <1>6, <1>8, <1>9 DEF InFile
  <2>2. at < h.fsize
    BY <1>5
  <2> QED BY <1>5, <1>8, <2>1, <2>2
<1>15. FreeBytes(g) = {x \in Nat : \E j \in 1..l : s[j] <= x /\ x < End(g, s[j])}
  BY <1>2, <1>8, <1>10, <1>13, FreeByte
<1>16. FreeBytes(h) = {x \in Nat : \E j \in 1..l : s[j] <= x /\ x < End(h, s[j])}
  BY <1>2, FreeByte
<1>17. Taken(at, size) = {x \in Nat : at <= x /\ x < b + z + H}
  BY <1>4, <1>5, TakenByte
<1>18. ASSUME NEW x \in Nat
       PROVE  x \in FreeBytes(g) <=> x \in FreeBytes(h) /\ ~(at <= x /\ x < b + z + H)
  <2>1. ASSUME NEW j \in 1..l, s[j] <= x, x < End(g, s[j])
        PROVE  x \in FreeBytes(h) /\ ~(at <= x /\ x < b + z + H)
    <3>1. CASE j = i
      <4>1. s[j] = b /\ b <= x /\ x < at /\ x < b + z + H
        BY <1>4, <1>5, <1>12, <2>1, <3>1
      <4>2. End(h, s[j]) = b + z + H
        BY <1>12, <4>1
      <4>3. x \in FreeBytes(h)
        BY <1>16, <2>1, <4>1, <4>2
      <4> QED BY <1>5, <4>1, <4>3
    <3>2. CASE j # i
      <4>1. PICK u \in Nat, v \in Nat : /\ u = s[j] /\ v = End(h, s[j]) /\ End(g, s[j]) = v
                                        /\ (v < b \/ b + z + H < u)
        BY <1>11, <3>2
      <4>2. u <= x /\ x < v
        BY <2>1, <4>1
      <4>3. x \in FreeBytes(h)
        BY <1>16, <4>1, <4>2
      <4> QED BY <1>4, <1>5, <4>1, <4>2, <4>3, SMTT(30)
    <3> QED BY <3>1, <3>2
  <2>2. ASSUME NEW j \in 1..l, s[j] <= x, x < End(h, s[j]), ~(at <= x /\ x < b + z + H)
        PROVE  x \in FreeBytes(g)
    <3>1. CASE j = i
      <4>1. s[j] = b /\ x < b + z + H /\ End(g, s[j]) = at
        BY <1>4, <1>12, <2>2, <3>1
      <4>2. x < at
        BY <1>4, <1>5, <2>2, <4>1
      <4> QED BY <1>15, <2>2, <4>1, <4>2
    <3>2. CASE j # i
      BY <1>11, <1>15, <2>2, <3>2
    <3> QED BY <3>1, <3>2
  <2> QED BY <1>15, <1>16, <2>1, <2>2
<1>19. FreeBytes(g) = FreeBytes(h) \ Taken(at, size)
  BY <1>15, <1>16, <1>17, <1>18
<1>20. Taken(at, size) \subseteq FreeBytes(h)
  <2> SUFFICES ASSUME NEW x \in Nat, at <= x, x < b + z + H PROVE x \in FreeBytes(h)
    BY <1>17
  <2>1. s[i] <= x /\ x < End(h, s[i])
    BY <1>4, <1>5, <1>12
  <2> QED BY <1>3, <1>16, <2>1
<1>21. /\ at \in Nat \ {0} /\ at \in DOMAIN g.cell /\ at + Aligned(size) <= g.fsize
       /\ h.fsize <= g.fsize /\ g.cell[at] = [cid |-> cid, size |-> size]
  <2>1. PICK f \in Nat : f = h.fsize /\ f = g.fsize
    BY <1>8, HeapFields
  <2>2. at \in Nat \ {0} /\ at + w <= f
    BY <1>4, <1>5, <2>1
  <2> QED BY <1>4, <1>8, <1>9, <2>1, <2>2
<1>22. ASSUME NEW a \in DOMAIN h.cell \ ({at} \cup Range(h.chain))
       PROVE  a \in DOMAIN g.cell /\ g.cell[a] = h.cell[a]
  <2>1. a # b
    BY <1>2, <1>3, <1>4, <1>22 DEF Range
  <2> QED BY <1>6, <1>8, <1>9, <1>22, <2>1
<1>23. r.at = at /\ g.map = h.map /\ g.fsize = h.fsize
  BY <1>8
<1> QED BY <1>1, <1>10, <1>13, <1>14, <1>19, <1>20, <1>21, <1>22, <1>23 DEF Handed

\* A whole segment is taken.
LEMMA ReserveWhole ==
  ASSUME NEW h, Shaped(h), Chained(h), InFile(h),
         NEW cid \in Nat, NEW size \in Nat, NEW i, i = FirstFit(h, size), i # 0,
         ~(h.cell[h.chain[i]].size - Aligned(size) > 0),
         NEW r, r = Reserve(h, cid, size)
  PROVE  Handed(h, r.heap, r.at, cid, size)
<1>1. PICK g : g = r.heap
  OBVIOUS
<1>2. PICK s \in Seq(Nat), l \in Nat : s = h.chain /\ l = Len(s)
  BY HeapFields
<1>3. i \in 1..l /\ h.cell[s[i]].size >= size
  BY <1>2, FitFacts
<1>4. PICK b \in Nat, w \in Nat :
        /\ b = s[i] /\ w = Aligned(size) /\ w > 0 /\ b > 0 /\ b \in DOMAIN h.cell
        /\ End(h, b) = b + w /\ b + w <= h.fsize
  <2>1. /\ s[i] \in Nat \ {0} /\ s[i] \in DOMAIN h.cell /\ h.cell[s[i]].size \in Nat
        /\ h.cell[s[i]].size + HeaderSize = Aligned(h.cell[s[i]].size)
        /\ End(h, s[i]) <= h.fsize
    BY <1>2, <1>3, ChainFacts, HeapFields
  <2>2. Aligned(size) \in Nat \ {0} /\ HeaderSize \in Nat \ {0}
    BY AlignedFacts, SizesAssumption
  <2>3. PICK z \in Nat, w \in Nat, b \in Nat, H \in Nat :
          /\ z = h.cell[s[i]].size /\ w = Aligned(size) /\ b = s[i] /\ H = HeaderSize
          /\ w > 0 /\ b > 0 /\ H > 0
    BY <2>1, <2>2
  <2>4. PICK q : q = z - w
    OBVIOUS
  <2>5. ~(q > 0) /\ size <= z /\ z + HeaderSize = Aligned(z)
    BY <1>2, <1>3, <2>1, <2>3, <2>4
  <2>6. w = z + H
    <3>1. q = z - Aligned(size) /\ z \in Nat /\ size \in Nat /\ H = HeaderSize /\ w = Aligned(size)
      BY <2>3, <2>4
    <3>2. ~(q > 0) => Aligned(size) = z + HeaderSize
      BY <2>5, <3>1, RestFacts
    <3> QED BY <2>5, <3>1, <3>2
  <2>7. End(h, b) = b + w
    <3>1. End(h, b) = b + z + HeaderSize
      BY <2>3 DEF End
    <3> QED BY <2>3, <2>6, <3>1, SMTT(30)
  <2>8. b \in DOMAIN h.cell /\ b + w <= h.fsize
    BY <2>1, <2>3, <2>7
  <2> QED BY <2>3, <2>7, <2>8
<1>5. PICK c : c = h.cell /\ c \in [DOMAIN c -> Header] /\ b \in DOMAIN c
  BY <1>4, HeapFields
<1>6. PICK k : k = [a \in DOMAIN c \cup {b} |->
                      IF a = b THEN [cid |-> cid, size |-> size] ELSE c[a]]
  OBVIOUS
<1>7. PICK t : t = RemoveAt(s, i)
  OBVIOUS
<1>8. PICK u : u = IF i < l THEN s[i + 1] ELSE Head0(t)
  OBVIOUS
<1>9. /\ r.at = b /\ g.chain = t /\ g.curr = u /\ g.map = h.map /\ g.fsize = h.fsize
      /\ g.cell = k
      /\ g = [h EXCEPT !.cell = g.cell, !.chain = g.chain, !.curr = g.curr, !.fsize = g.fsize]
  <2>1. h.chain[i] = b /\ ~(h.cell[b].size - Aligned(size) > 0)
    BY <1>2, <1>4
  <2> QED BY <1>1, <1>2, <1>5, <1>6, <1>7, <1>8, <2>1 DEF Reserve, Shaped
<1>10. PICK n \in Nat :
         /\ n = l - 1 /\ t \in Seq(Nat) /\ Len(t) = n
         /\ \A j \in 1..n : t[j] = IF j < i THEN s[j] ELSE s[j + 1]
  <2>1. /\ t \in Seq(Nat) /\ Len(t) = Len(s) - 1
        /\ \A j \in 1..Len(s) - 1 : t[j] = IF j < i THEN s[j] ELSE s[j + 1]
    BY <1>2, <1>3, <1>7, RemoveFacts
  <2>2. l - 1 \in Nat
    BY <1>2, <1>3
  <2> QED BY <1>2, <2>1, <2>2
<1>11. /\ k \in [DOMAIN k -> Header] /\ DOMAIN k = DOMAIN c /\ k[b] = [cid |-> cid, size |-> size]
       /\ \A a \in DOMAIN c : a # b => k[a] = c[a]
  BY <1>5, <1>6 DEF Header
<1>12. IF t = <<>> THEN u = Null ELSE u \in Range(t)
  <2>1. CASE i < l
    <3>1. i \in 1..n /\ u = s[i + 1] /\ t[i] = s[i + 1]
      BY <1>3, <1>8, <1>10, <2>1
    <3>2. u \in Range(t) /\ t # <<>>
      BY <1>10, <3>1 DEF Range
    <3> QED BY <3>2
  <2>2. CASE ~(i < l)
    <3>1. u = Head0(t)
      BY <1>8, <2>2
    <3>2. CASE t = <<>>
      BY <3>1, <3>2 DEF Head0
    <3>3. CASE t # <<>>
      <4>1. u = t[1] /\ 1 \in 1..Len(t)
        BY <1>10, <3>1, <3>3 DEF Head0
      <4> QED BY <1>10, <3>3, <4>1 DEF Range
    <3> QED BY <3>2, <3>3
  <2> QED BY <2>1, <2>2
<1>13. Shaped(g)
  <2>1. u \in Nat
    BY <1>10, <1>12 DEF Range, Null
  <2>2. /\ g.chain \in Seq(Nat) /\ g.curr \in Nat /\ g.fsize \in Nat
        /\ g.cell \in [DOMAIN g.cell -> Header]
    BY <1>9, <1>10, <1>11, <2>1, HeapFields
  <2> QED BY <1>9, <2>2, ShapeGrown
<1>14. ASSUME NEW j \in 1..l, j # i
       PROVE  /\ s[j] \in DOMAIN g.cell /\ g.cell[s[j]] = h.cell[s[j]]
              /\ End(g, s[j]) = End(h, s[j]) /\ s[j] \in Nat
              /\ End(h, s[j]) \in Nat /\ s[j] < End(h, s[j])
              /\ End(h, s[j]) < b \/ b + w < s[j]
  <2>1. /\ s[j] \in Nat /\ s[j] < End(h, s[j]) /\ s[j] # b /\ End(h, s[j]) \in Nat
        /\ End(h, s[j]) < b \/ b + w < s[j]
    BY <1>2, <1>3, <1>4, <1>14, Others
  <2>2. s[j] \in DOMAIN h.cell
    BY <1>2, ChainFacts
  <2>3. s[j] \in DOMAIN g.cell /\ g.cell[s[j]] = h.cell[s[j]]
    BY <1>5, <1>9, <1>11, <2>1, <2>2
  <2> QED BY <2>1, <2>3 DEF End
<1>15. ASSUME NEW j \in 1..n
       PROVE  \E o \in 1..l : /\ o # i /\ t[j] = s[o]
                              /\ (j < i => o = j) /\ (~(j < i) => o = j + 1)
  BY <1>3, <1>10, SMTT(30)
<1>16. Chained(g)
  <2>1. g.chain = t
    BY <1>9
  <2>2. ASSUME NEW j \in 1..n
        PROVE  /\ t[j] # Null /\ t[j] \in DOMAIN g.cell /\ End(g, t[j]) <= g.fsize
               /\ g.cell[t[j]].cid = free_object
               /\ g.cell[t[j]].size + HeaderSize = Aligned(g.cell[t[j]].size)
    <3>1. PICK o \in 1..l : o # i /\ t[j] = s[o]
      BY <1>15
    <3>2. /\ s[o] # 0 /\ End(h, s[o]) <= h.fsize
          /\ h.cell[s[o]].cid = free_object
          /\ h.cell[s[o]].size + HeaderSize = Aligned(h.cell[s[o]].size)
      BY <1>2, ChainFacts
    <3> QED BY <1>9, <1>14, <3>1, <3>2 DEF Null
  <2>3. ASSUME NEW x \in 1..n, NEW y \in 1..n, x < y PROVE End(g, t[x]) < t[y]
    <3>1. PICK o \in 1..l : /\ o # i /\ t[x] = s[o]
                            /\ (x < i => o = x) /\ (~(x < i) => o = x + 1)
      BY <1>15
    <3>2. PICK p \in 1..l : /\ p # i /\ t[y] = s[p]
                            /\ (y < i => p = y) /\ (~(y < i) => p = y + 1)
      BY <1>15
    <3>3. o < p
      BY <1>3, <2>3, <3>1, <3>2
    <3>4. End(h, s[o]) < s[p]
      BY <1>2, <3>3, ChainFacts
    <3> QED BY <1>14, <3>1, <3>2, <3>4
  <2>4. \A j \in 1..Len(g.chain) :
           LET a == g.chain[j]
           IN  /\ a # Null /\ a \in DOMAIN g.cell /\ End(g, a) <= g.fsize
               /\ g.cell[a].cid = free_object
               /\ g.cell[a].size + HeaderSize = Aligned(g.cell[a].size)
    BY <1>10, <2>1, <2>2
  <2>5. IF g.chain = <<>> THEN g.curr = Null ELSE g.curr \in Range(g.chain)
    BY <1>9, <1>12
  <2> QED BY <1>10, <2>1, <2>3, <2>4, <2>5 DEF Chained
<1>17. InFile(g)
  BY <1>5, <1>9, <1>11 DEF InFile
<1>18. FreeBytes(g) = {x \in Nat : \E j \in 1..n : t[j] <= x /\ x < End(g, t[j])}
  BY <1>9, <1>10, <1>13, <1>16, FreeByte
<1>19. FreeBytes(h) = {x \in Nat : \E j \in 1..l : s[j] <= x /\ x < End(h, s[j])}
  BY <1>2, FreeByte
<1>20. Taken(b, size) = {x \in Nat : b <= x /\ x < b + w}
  BY <1>4, TakenByte
<1>21. ASSUME NEW x \in Nat
       PROVE  x \in FreeBytes(g) <=> x \in FreeBytes(h) /\ ~(b <= x /\ x < b + w)
  <2>1. ASSUME NEW j \in 1..n, t[j] <= x, x < End(g, t[j])
        PROVE  x \in FreeBytes(h) /\ ~(b <= x /\ x < b + w)
    <3>1. PICK o \in 1..l : o # i /\ t[j] = s[o]
      BY <1>15
    <3>2. PICK y \in Nat, z \in Nat : /\ y = s[o] /\ z = End(h, s[o]) /\ End(g, s[o]) = z
                                      /\ (z < b \/ b + w < y)
      BY <1>14, <3>1
    <3>3. y <= x /\ x < z
      BY <2>1, <3>1, <3>2
    <3>4. x \in FreeBytes(h)
      BY <1>19, <3>2, <3>3
    <3> QED BY <1>4, <3>2, <3>3, <3>4
  <2>2. ASSUME NEW o \in 1..l, s[o] <= x, x < End(h, s[o]), ~(b <= x /\ x < b + w)
        PROVE  x \in FreeBytes(g)
    <3>1. o # i
      BY <1>4, <2>2
    <3>2. End(g, s[o]) = End(h, s[o])
      BY <1>14, <3>1
    <3>3. PICK j \in 1..n : t[j] = s[o]
      <4>1. CASE o < i
        <5>1. o \in 1..n /\ t[o] = s[o]
          BY <1>3, <1>10, <4>1
        <5> QED BY <5>1
      <4>2. CASE o > i
        <5>1. PICK j \in 1..n : j = o - 1 /\ ~(j < i) /\ j + 1 = o
          BY <1>3, <1>10, <4>2
        <5>2. t[j] = s[o]
          BY <1>10, <5>1
        <5> QED BY <5>2
      <4> QED BY <1>3, <3>1, <4>1, <4>2
    <3> QED BY <1>18, <2>2, <3>2, <3>3
  <2> QED BY <1>18, <1>19, <2>1, <2>2
<1>22. FreeBytes(g) = FreeBytes(h) \ Taken(b, size)
  BY <1>18, <1>19, <1>20, <1>21
<1>23. Taken(b, size) \subseteq FreeBytes(h)
  <2> SUFFICES ASSUME NEW x \in Nat, b <= x, x < b + w PROVE x \in FreeBytes(h)
    BY <1>20
  <2>1. s[i] <= x /\ x < End(h, s[i])
    BY <1>4
  <2> QED BY <1>3, <1>19, <2>1
<1>24. /\ b \in Nat \ {0} /\ b \in DOMAIN g.cell /\ b + Aligned(size) <= g.fsize
       /\ h.fsize <= g.fsize /\ g.cell[b] = [cid |-> cid, size |-> size]
  <2>1. PICK f \in Nat : f = h.fsize /\ f = g.fsize
    BY <1>9, HeapFields
  <2>2. b \in Nat \ {0} /\ b + w <= f
    BY <1>4, <2>1
  <2>3. b \in DOMAIN g.cell /\ g.cell[b] = [cid |-> cid, size |-> size]
    BY <1>5, <1>9, <1>11
  <2> QED BY <1>4, <2>1, <2>2, <2>3
<1>25. ASSUME NEW a \in DOMAIN h.cell \ ({b} \cup Range(h.chain))
       PROVE  a \in DOMAIN g.cell /\ g.cell[a] = h.cell[a]
  BY <1>5, <1>9, <1>11, <1>25
<1>26. r.at = b /\ g.map = h.map /\ g.fsize = h.fsize
  BY <1>9
<1> QED BY <1>1, <1>13, <1>16, <1>17, <1>22, <1>23, <1>24, <1>25, <1>26 DEF Handed

\* Taking pages from the chain or from the end of the file: the chain stays in
\* address order with no two segments touching and curr_free_page on it; what
\* is handed out was free, or lies beyond the end of the file, and is free no
\* more; no other page and no header in use is touched.
THEOREM ReserveKeepsChain ==
  ASSUME NEW h, Shaped(h), Chained(h), InFile(h), h.fsize # 0,
         NEW cid \in Nat, NEW size \in Nat, NEW r, r = Reserve(h, cid, size)
  PROVE  Handed(h, r.heap, r.at, cid, size)
<1>1. CASE FirstFit(h, size) = 0
  BY <1>1, ReserveEnd
<1>2. CASE FirstFit(h, size) # 0
  <2>1. PICK i : i = FirstFit(h, size)
    OBVIOUS
  <2>2. CASE h.cell[h.chain[i]].size - Aligned(size) > 0
    BY <1>2, <2>1, <2>2, ReserveTail
  <2>3. CASE ~(h.cell[h.chain[i]].size - Aligned(size) > 0)
    BY <1>2, <2>1, <2>3, ReserveWhole
  <2> QED BY <2>2, <2>3
<1> QED BY <1>1, <1>2

----------------------------------------------------------------------------
(* The pages no object has. *)

\* An object has the byte at its address.
LEMMA OwnByte ==
  ASSUME NEW a \in Nat, NEW size \in Nat
  PROVE  a \in Taken(a, size)
<1>1. PICK w \in Nat : w = Aligned(size) /\ w > 0
  BY AlignedFacts
<1> QED BY <1>1, TakenByte

\* The links of the chain are free bytes, and free bytes lie in the file.
LEMMA ChainBytes ==
  ASSUME NEW h, Shaped(h), Chained(h)
  PROVE  /\ Range(h.chain) \subseteq FreeBytes(h) /\ FreeBytes(h) \subseteq Nat
         /\ \A x \in FreeBytes(h) : x < h.fsize
<1>1. PICK s \in Seq(Nat), l \in Nat, f \in Nat : s = h.chain /\ l = Len(s) /\ f = h.fsize
  BY HeapFields
<1>2. FreeBytes(h) = {x \in Nat : \E i \in 1..l : s[i] <= x /\ x < End(h, s[i])}
  BY <1>1, FreeByte
<1>3. \A i \in 1..l : /\ s[i] \in Nat /\ End(h, s[i]) \in Nat /\ s[i] < End(h, s[i])
                      /\ End(h, s[i]) <= f
  BY <1>1, ChainFacts
<1>4. ASSUME NEW x \in Range(h.chain) PROVE x \in FreeBytes(h)
  <2>1. PICK i \in 1..l : x = s[i]
    BY <1>1, <1>4 DEF Range
  <2> QED BY <1>2, <1>3, <2>1
<1>5. ASSUME NEW x \in FreeBytes(h) PROVE x < f
  <2>1. PICK i \in 1..l : x < End(h, s[i]) /\ x \in Nat
    BY <1>2, <1>5
  <2> QED BY <1>1, <1>3, <2>1
<1> QED BY <1>1, <1>2, <1>4, <1>5

\* A segment none of whose bytes is free lies apart from the chain.
LEMMA ApartOf ==
  ASSUME NEW h, Shaped(h), Chained(h), NEW fp \in DOMAIN h.cell, fp \in Nat \ {0},
         fp + Aligned(h.cell[fp].size) <= h.fsize,
         Taken(fp, h.cell[fp].size) \cap FreeBytes(h) = {}
  PROVE  Apart(h, fp, fp + Aligned(h.cell[fp].size))
<1>1. PICK f \in Nat, w \in Nat : f = fp /\ w = Aligned(h.cell[fp].size) /\ w > 0
  <2>1. h.cell[fp].size \in Nat
    BY HeapFields
  <2> QED BY <2>1, AlignedFacts
<1>2. ASSUME NEW i \in 1..Len(h.chain)
      PROVE  End(h, h.chain[i]) <= fp \/ fp + Aligned(h.cell[fp].size) <= h.chain[i]
  <2>1. PICK x \in Nat, y \in Nat : x = h.chain[i] /\ y = End(h, h.chain[i]) /\ x < y
    BY ChainFacts
  <2>2. ASSUME f < y, x < f + w PROVE FALSE
    <3>1. PICK z \in Nat : z = IF x < f THEN f ELSE x
      OBVIOUS
    <3>2. x <= z /\ z < y /\ f <= z /\ z < f + w
      BY <1>1, <2>1, <2>2, <3>1
    <3>3. z \in FreeBytes(h)
      BY <2>1, <3>2, FreeByte
    <3>4. z \in Taken(fp, h.cell[fp].size)
      BY <1>1, <3>2 DEF Taken
    <3> QED BY <3>3, <3>4
  <2> QED BY <1>1, <2>1, <2>2
<1> QED BY <1>2 DEF Apart

\* What the steps of an allocation promise: Regrown when they only move the
\* page map, Took when they hand pages out, too.  A header outside the spare
\* bytes, that of an object, stays what it is.
Kept(h, g) ==
  /\ PagesSound(g) /\ h.fsize <= g.fsize
  /\ \A a \in DOMAIN h.cell \ Spare(h) : a \in DOMAIN g.cell /\ g.cell[a] = h.cell[a]

Regrown(h, g) == Kept(h, g) /\ Spare(g) = Spare(h)

Took(h, g, at, cid, size) ==
  /\ Kept(h, g)
  /\ at \in Nat \ {0} /\ at \in DOMAIN g.cell /\ g.cell[at] = [cid |-> cid, size |-> size]
  /\ at + Aligned(size) <= g.fsize
  /\ Taken(at, size) \subseteq Spare(h)
  /\ Spare(g) = Spare(h) \ Taken(at, size)

\* Reserve() takes what it hands out from the spare bytes.
LEMMA ReserveTakes ==
  ASSUME NEW h, PagesSound(h), NEW cid \in Nat, NEW size \in Nat,
         NEW r, r = Reserve(h, cid, size), NEW g, g = r.heap
  PROVE  /\ Handed(h, g, r.at, cid, size) /\ Took(h, g, r.at, cid, size)
         /\ MapBytes(g) = MapBytes(h) /\ Taken(r.at, size) \cap MapBytes(h) = {}
         /\ h.map # Null => h.map \in DOMAIN g.cell /\ g.cell[h.map] = h.cell[h.map]
<1>1. Shaped(h) /\ Chained(h) /\ InFile(h) /\ MapApart(h) /\ h.fsize # 0
  BY DEF PagesSound
<1>2. PICK at : at = r.at
  OBVIOUS
<1>3. Handed(h, g, at, cid, size)
  BY <1>1, <1>2, ReserveKeepsChain
<1>4. PICK f \in Nat, w \in Nat, e \in Nat : f = h.fsize /\ w = Aligned(size) /\ e = g.fsize /\ w > 0
  <2>1. h.fsize \in Nat /\ g.fsize \in Nat /\ Aligned(size) \in Nat \ {0}
    BY <1>1, <1>3, HeapFields, AlignedFacts DEF Handed
  <2> QED BY <2>1
<1>5. /\ at \in Nat \ {0} /\ at \in DOMAIN g.cell /\ g.cell[at] = [cid |-> cid, size |-> size]
      /\ at + w <= e /\ f <= e /\ g.map = h.map
      /\ FreeBytes(g) = FreeBytes(h) \ Taken(at, size)
      /\ (Taken(at, size) \subseteq FreeBytes(h) /\ e = f) \/ (at = f /\ e = f + w)
      /\ Shaped(g) /\ Chained(g) /\ InFile(g)
  BY <1>3, <1>4 DEF Handed
<1>6. /\ FreeBytes(h) \subseteq Nat /\ \A x \in FreeBytes(h) : x < f
      /\ Range(h.chain) \subseteq FreeBytes(h)
  BY <1>1, <1>4, ChainBytes
<1>7. \A x : x \in Taken(at, size) <=> x \in Nat /\ at <= x /\ x < at + w
  BY <1>4, <1>5, TakenByte
<1>8. at \in Taken(at, size)
  BY <1>5, OwnByte
<1>9. \A x \in MapBytes(h) : x \in Nat /\ x < f /\ x \notin FreeBytes(h)
  <2> SUFFICES ASSUME NEW x \in MapBytes(h) PROVE x \in Nat /\ x < f /\ x \notin FreeBytes(h)
    OBVIOUS
  <2>1. /\ h.map # Null /\ x \in Nat /\ h.map <= x
        /\ x < h.map + Aligned(h.cell[h.map].size)
    <3>1. h.map # Null /\ x \in Taken(h.map, h.cell[h.map].size)
      BY DEF MapBytes
    <3>2. h.map \in Nat /\ h.cell[h.map].size \in Nat
      BY <1>1, <3>1, HeapFields DEF MapApart
    <3> QED BY <3>1, <3>2, TakenByte
  <2>2. h.map \in DOMAIN h.cell /\ h.map + Aligned(h.cell[h.map].size) <= h.fsize
    BY <1>1, <2>1 DEF MapApart
  <2>3. h.map \in Nat /\ h.cell[h.map].size \in Nat
    BY <1>1, <2>2, HeapFields
  <2>4. PICK m \in Nat, v \in Nat : m = h.map /\ v = Aligned(h.cell[h.map].size)
    BY <2>3, AlignedFacts
  <2>5. x < f
    BY <1>4, <2>1, <2>2, <2>4
  <2> QED BY <1>1, <2>1, <2>5 DEF MapApart
<1>10. Taken(at, size) \cap MapBytes(h) = {}
  <2> SUFFICES ASSUME NEW x \in Taken(at, size), x \in MapBytes(h) PROVE FALSE
    OBVIOUS
  <2>1. x \in Nat /\ x < f /\ x \notin FreeBytes(h) /\ at <= x
    BY <1>7, <1>9
  <2>2. at = f
    BY <1>5, <2>1
  <2> QED BY <1>4, <2>1, <2>2
<1>11. ASSUME NEW a \in DOMAIN h.cell, a \notin FreeBytes(h)
       PROVE  a \in DOMAIN g.cell /\ g.cell[a] = h.cell[a]
  <2>1. a \in Nat /\ a < f
    BY <1>1, <1>4 DEF InFile
  <2>2. a # at
    BY <1>4, <1>5, <1>8, <1>11, <2>1
  <2>3. a \notin Range(h.chain)
    BY <1>6, <1>11
  <2> QED BY <1>3, <2>2, <2>3 DEF Handed
<1>12. h.map # Null => h.map \in DOMAIN g.cell /\ g.cell[h.map] = h.cell[h.map]
  <2> SUFFICES ASSUME h.map # Null
               PROVE  h.map \in DOMAIN g.cell /\ g.cell[h.map] = h.cell[h.map]
    OBVIOUS
  <2>1. h.map \in DOMAIN h.cell /\ h.map \in Nat /\ h.cell[h.map].size \in Nat
    BY <1>1, HeapFields DEF MapApart
  <2>2. h.map \in MapBytes(h)
    BY <2>1, OwnByte DEF MapBytes
  <2> QED BY <1>9, <1>11, <2>1, <2>2
<1>13. MapBytes(g) = MapBytes(h)
  BY <1>5, <1>12 DEF MapBytes
<1>14. MapApart(g)
  <2>1. MapBytes(g) \cap FreeBytes(g) = {}
    BY <1>5, <1>9, <1>13
  <2>2. ASSUME g.map # Null
        PROVE  g.map \in DOMAIN g.cell /\ g.map + Aligned(g.cell[g.map].size) <= g.fsize
    <3>1. g.map = h.map /\ h.map # Null /\ g.cell[g.map] = h.cell[h.map] /\ g.map \in DOMAIN g.cell
      BY <1>5, <1>12, <2>2
    <3>2. h.map + Aligned(h.cell[h.map].size) <= f /\ h.map \in DOMAIN h.cell
      BY <1>1, <1>4, <3>1 DEF MapApart
    <3>3. h.map \in Nat /\ h.cell[h.map].size \in Nat
      BY <1>1, <3>2, HeapFields
    <3>4. PICK m \in Nat, v \in Nat : m = h.map /\ v = Aligned(h.cell[h.map].size)
      BY <3>3, AlignedFacts
    <3>5. m + v <= e
      BY <1>4, <1>5, <3>2, <3>4
    <3> QED BY <1>4, <3>1, <3>4, <3>5
  <2> QED BY <2>1, <2>2 DEF MapApart
<1>15. PagesSound(g)
  <2>1. g.fsize # 0
    BY <1>1, <1>4, <1>5
  <2> QED BY <1>5, <1>14, <2>1 DEF PagesSound
<1>16. Kept(h, g)
  <2>1. \A a \in DOMAIN h.cell \ Spare(h) : a \in DOMAIN g.cell /\ g.cell[a] = h.cell[a]
    BY <1>11 DEF Spare
  <2>2. h.fsize <= g.fsize
    BY <1>4, <1>5
  <2> QED BY <1>15, <2>1, <2>2 DEF Kept
<1>17. Taken(at, size) \subseteq Spare(h)
  <2> SUFFICES ASSUME NEW x \in Taken(at, size) PROVE x \in FreeBytes(h) \/ (x \in Nat /\ f <= x)
    BY <1>4 DEF Spare
  <2> QED BY <1>5, <1>7
<1>18. Spare(g) = Spare(h) \ Taken(at, size)
  <2>1. \A x : x \in Spare(h) <=> x \in FreeBytes(h) \/ x \in MapBytes(h) \/ (x \in Nat /\ f <= x)
    BY <1>4 DEF Spare
  <2>2. \A x : x \in Spare(g) <=> x \in FreeBytes(g) \/ x \in MapBytes(h) \/ (x \in Nat /\ e <= x)
    BY <1>4, <1>13 DEF Spare
  <2>3. CASE Taken(at, size) \subseteq FreeBytes(h) /\ e = f
    <3>1. \A x : x \in Spare(g) <=> x \in Spare(h) /\ x \notin Taken(at, size)
      <4> SUFFICES ASSUME NEW x PROVE x \in Spare(g) <=> x \in Spare(h) /\ x \notin Taken(at, size)
        OBVIOUS
      <4>1. x \in Taken(at, size) => x \in Nat /\ x < f /\ x \notin MapBytes(h)
        BY <1>6, <1>10, <2>3
      <4>2. x \in FreeBytes(g) <=> x \in FreeBytes(h) /\ x \notin Taken(at, size)
        BY <1>5
      <4>3. x \in Taken(at, size) => ~(x \in Nat /\ f <= x)
        BY <1>4, <4>1
      <4> QED BY <2>1, <2>2, <2>3, <4>1, <4>2, <4>3
    <3> QED BY <3>1
  <2>4. CASE at = f /\ e = f + w
    <3>1. \A x : x \in Spare(g) <=> x \in Spare(h) /\ x \notin Taken(at, size)
      <4> SUFFICES ASSUME NEW x PROVE x \in Spare(g) <=> x \in Spare(h) /\ x \notin Taken(at, size)
        OBVIOUS
      <4>1. x \in Taken(at, size) <=> x \in Nat /\ f <= x /\ ~(e <= x)
        BY <1>4, <1>7, <2>4
      <4>2. x \in Nat /\ e <= x => f <= x
        BY <1>4, <1>5
      <4>3. x \in FreeBytes(g) <=> x \in FreeBytes(h) /\ x \notin Taken(at, size)
        BY <1>5
      <4>4. x \in MapBytes(h) => x \notin Taken(at, size)
        BY <1>10
      <4> QED BY <2>1, <2>2, <4>1, <4>2, <4>3, <4>4
    <3> QED BY <3>1
  <2> QED BY <1>5, <2>3, <2>4
<1>19. at + Aligned(size) <= g.fsize
  BY <1>4, <1>5
<1>20. Took(h, g, at, cid, size)
  BY <1>5, <1>16, <1>17, <1>18, <1>19 DEF Took
<1> QED BY <1>2, <1>3, <1>10, <1>12, <1>13, <1>20

\* The size of a page map is a number.
LEMMA MapSizeFacts ==
  ASSUME NEW f \in Nat, NEW k \in Nat \ {0}
  PROVE  MapSize(f, k) \in Nat
<1>1. PICK p \in Nat, b \in Nat, H \in Nat :
        p = PageSize /\ b = BitsPerByte /\ H = HeaderSize /\ p > 1 /\ b > 0 /\ H > 0
  BY SizesAssumption
<1>2. p * b \in Nat /\ p * b > 1
  <2>1. 1 * p <= b * p
    BY <1>1, Times
  <2>2. b * p = p * b
    OBVIOUS
  <2> QED BY <1>1, <2>1, <2>2
<1>3. PICK x \in Nat : x = p * b /\ x > 1
  BY <1>2
<1>4. PICK n \in Nat, q \in Nat \ {0} : n = f + H + x - 2 /\ q = x - 1
  <2>1. f + H + x - 2 \in Nat /\ x - 1 \in Nat \ {0}
    BY <1>1, <1>3
  <2> QED BY <2>1
<1>5. PICK m \in Nat : m = n \div q
  BY <1>4, Quotient
<1>6. MapNeeds(f) = m
  BY <1>1, <1>3, <1>4, <1>5 DEF MapNeeds
<1>7. PICK y \in Nat : y = Align(m + H) /\ m + H <= y
  <2>1. m + H \in Nat
    OBVIOUS
  <2> QED BY <2>1, AlignFacts
<1>8. y * k >= y /\ y * k \in Nat
  <2>1. 1 * y <= k * y \/ y = 0
    BY Times
  <2>2. k * y = y * k /\ 1 * y = y
    OBVIOUS
  <2> QED BY <2>1, <2>2
<1>9. PICK z \in Nat : z = y * k /\ z >= y
  BY <1>8
<1>10. MapSize(f, k) = z - H
  BY <1>1, <1>6, <1>7, <1>9 DEF MapSize
<1> QED BY <1>1, <1>7, <1>9, <1>10

\* Where the page map lies.
LEMMA MapFacts ==
  ASSUME NEW h, PagesSound(h), h.map # Null
  PROVE  /\ h.map \in DOMAIN h.cell /\ h.map \in Nat \ {0} /\ h.cell[h.map].size \in Nat
         /\ h.map + Aligned(h.cell[h.map].size) <= h.fsize
         /\ MapBytes(h) = Taken(h.map, h.cell[h.map].size)
         /\ MapBytes(h) \cap FreeBytes(h) = {} /\ h.map \in MapBytes(h)
         /\ \A x \in MapBytes(h) : x \in Nat /\ x < h.fsize
<1>1. Shaped(h) /\ MapApart(h)
  BY DEF PagesSound
<1>2. /\ h.map \in DOMAIN h.cell /\ h.map \in Nat /\ h.cell[h.map].size \in Nat
      /\ h.map + Aligned(h.cell[h.map].size) <= h.fsize
      /\ MapBytes(h) \cap FreeBytes(h) = {}
  BY <1>1, HeapFields DEF MapApart
<1>3. MapBytes(h) = Taken(h.map, h.cell[h.map].size)
  BY DEF MapBytes
<1>4. h.map \in MapBytes(h)
  BY <1>2, <1>3, OwnByte
<1>5. ASSUME NEW x \in MapBytes(h) PROVE x \in Nat /\ x < h.fsize
  <2>1. PICK m \in Nat, v \in Nat, f \in Nat :
          m = h.map /\ v = Aligned(h.cell[h.map].size) /\ f = h.fsize
    BY <1>1, <1>2, AlignedFacts, HeapFields
  <2>2. x \in Nat /\ x < m + v /\ m + v <= f
    BY <1>2, <1>3, <1>5, <2>1 DEF Taken
  <2> QED BY <2>1, <2>2
<1> QED BY <1>2, <1>3, <1>4, <1>5 DEF Null

\* A free page chain does not depend on where the page map is.
LEMMA MapMoved ==
  ASSUME NEW k, Shaped(k), Chained(k), InFile(k), k.fsize # 0, NEW m \in Nat \ {0},
         m \in DOMAIN k.cell, m + Aligned(k.cell[m].size) <= k.fsize,
         Taken(m, k.cell[m].size) \cap FreeBytes(k) = {},
         NEW j, Shaped(j), j.cell = k.cell, j.chain = k.chain, j.curr = k.curr,
         j.fsize = k.fsize, j.map = m
  PROVE  /\ PagesSound(j) /\ j.cell = k.cell /\ j.fsize = k.fsize
         /\ FreeBytes(j) = FreeBytes(k) /\ MapBytes(j) = Taken(m, k.cell[m].size)
<1>1. /\ j.cell = k.cell /\ j.chain = k.chain /\ j.curr = k.curr /\ j.fsize = k.fsize
      /\ j.map = m /\ Shaped(j)
  OBVIOUS
<1>2. \A a : End(j, a) = End(k, a)
  BY <1>1 DEF End
<1>3. Chained(j)
  BY <1>1, <1>2 DEF Chained
<1>4. FreeBytes(j) = FreeBytes(k)
  BY <1>1, <1>2 DEF FreeBytes
<1>5. MapBytes(j) = Taken(m, k.cell[m].size)
  BY <1>1 DEF MapBytes, Null
<1>6. InFile(j) /\ MapApart(j) /\ j.fsize # 0
  BY <1>1, <1>4, <1>5 DEF InFile, MapApart
<1> QED BY <1>1, <1>3, <1>4, <1>5, <1>6 DEF PagesSound

\* Reallocating the page map: the new one is taken, the old one is freed.
LEMMA GrowMapKeeps ==
  ASSUME NEW h, PagesSound(h)
  PROVE  Regrown(h, GrowMap(h))
<1>1. CASE h.map = Null \/ MapCovers(h)
  <2>1. GrowMap(h) = h
    BY <1>1 DEF GrowMap
  <2>2. h.fsize \in Nat
    BY HeapFields DEF PagesSound
  <2> QED BY <2>1, <2>2 DEF Regrown, Kept
<1>2. CASE ~(h.map = Null \/ MapCovers(h))
  <2>1. PICK size \in Nat : size = MapSize(h.fsize, 2)
    <3>1. h.fsize \in Nat
      BY HeapFields DEF PagesSound
    <3> QED BY <3>1, MapSizeFacts
  <2>2. PICK r : r = Reserve(h, page_map_cid, size)
    OBVIOUS
  <2>3. PICK g : g = r.heap
    OBVIOUS
  <2>4. PICK m : m = r.at
    OBVIOUS
  <2>5. PICK k : k = free_page(g, h.map)
    OBVIOUS
  <2>6. PICK j : j = GrowMap(h) /\ j = [k EXCEPT !.map = m]
    BY <1>2, <2>1, <2>2, <2>3, <2>4, <2>5 DEF GrowMap
  <2>7. /\ Handed(h, g, m, page_map_cid, size) /\ Took(h, g, m, page_map_cid, size)
        /\ MapBytes(g) = MapBytes(h) /\ Taken(m, size) \cap MapBytes(h) = {}
        /\ h.map \in DOMAIN g.cell /\ g.cell[h.map] = h.cell[h.map]
    <3>1. page_map_cid \in Nat
      BY DEF page_map_cid
    <3> QED BY <1>2, <2>2, <2>3, <2>4, <3>1, ReserveTakes
  <2>8. /\ PagesSound(g) /\ Shaped(g) /\ Chained(g) /\ InFile(g) /\ g.fsize # 0
        /\ g.map = h.map /\ h.fsize <= g.fsize
        /\ m \in Nat \ {0} /\ m \in DOMAIN g.cell /\ g.cell[m] = [cid |-> page_map_cid, size |-> size]
        /\ m + Aligned(size) <= g.fsize
        /\ FreeBytes(g) = FreeBytes(h) \ Taken(m, size)
        /\ Taken(m, size) \subseteq Spare(h) /\ Spare(g) = Spare(h) \ Taken(m, size)
        /\ \A a \in DOMAIN h.cell \ Spare(h) : a \in DOMAIN g.cell /\ g.cell[a] = h.cell[a]
    BY <2>7 DEF Handed, Took, Kept, PagesSound
  <2>9. PICK fp \in Nat : /\ fp = h.map /\ fp # 0 /\ fp \in DOMAIN g.cell
                          /\ fp + Aligned(g.cell[fp].size) <= g.fsize
                          /\ MapBytes(g) = Taken(fp, g.cell[fp].size)
                          /\ MapBytes(g) \cap FreeBytes(g) = {} /\ fp \in MapBytes(g)
    BY <1>2, <2>8, MapFacts
  <2>10. Apart(g, fp, fp + Aligned(g.cell[fp].size))
    BY <2>8, <2>9, ApartOf
  <2>11. PICK e : e = fp + Aligned(g.cell[fp].size)
    OBVIOUS
  <2>12. /\ Shaped(k) /\ Chained(k) /\ k.fsize = g.fsize
         /\ FreeBytes(k) = FreeBytes(g) \cup MapBytes(g)
         /\ DOMAIN k.cell \subseteq DOMAIN g.cell
         /\ \A a \in DOMAIN g.cell \ ({fp} \cup Range(g.chain)) :
              a \in DOMAIN k.cell /\ k.cell[a] = g.cell[a]
    BY <2>5, <2>8, <2>9, <2>10, <2>11, FreePageKeepsChain
  <2>13. ASSUME NEW a \in DOMAIN g.cell, a \notin FreeBytes(g), a \notin MapBytes(g)
         PROVE  a \in DOMAIN k.cell /\ k.cell[a] = g.cell[a]
    <3>1. Range(g.chain) \subseteq FreeBytes(g)
      BY <2>8, ChainBytes
    <3> QED BY <2>9, <2>12, <2>13, <3>1
  <2>14. InFile(k) /\ k.fsize # 0
    BY <2>8, <2>12 DEF InFile
  <2>15. /\ m \in DOMAIN k.cell /\ k.cell[m] = g.cell[m] /\ k.cell[m].size = size
         /\ Taken(m, size) \cap FreeBytes(k) = {}
    <3>1. m \in Taken(m, size)
      BY <2>8, OwnByte
    <3>2. m \notin FreeBytes(g) /\ m \notin MapBytes(g)
      BY <2>7, <2>8, <3>1
    <3>3. m \in DOMAIN k.cell /\ k.cell[m] = g.cell[m]
      BY <2>8, <2>13, <3>2
    <3>4. Taken(m, size) \cap FreeBytes(k) = {}
      BY <2>7, <2>8, <2>12
    <3> QED BY <2>8, <3>3, <3>4
  <2>16. j = [k EXCEPT !.map = m, !.bits = k.bits]
    BY <2>6, <2>12 DEF Shaped
  <2>17. /\ PagesSound(j) /\ j.cell = k.cell /\ j.fsize = k.fsize
         /\ FreeBytes(j) = FreeBytes(k) /\ MapBytes(j) = Taken(m, size)
    <3>1. /\ Shaped(k) /\ Chained(k) /\ InFile(k) /\ k.fsize # 0
          /\ m \in Nat \ {0} /\ m \in DOMAIN k.cell /\ m + Aligned(k.cell[m].size) <= k.fsize
          /\ Taken(m, k.cell[m].size) \cap FreeBytes(k) = {}
      BY <2>8, <2>12, <2>14, <2>15
    <3>2. /\ Shaped(j) /\ j.cell = k.cell /\ j.chain = k.chain /\ j.curr = k.curr
          /\ j.fsize = k.fsize /\ j.map = m
      BY <2>8, <2>12, <2>16 DEF Shaped
    <3>3. /\ PagesSound(j) /\ j.cell = k.cell /\ j.fsize = k.fsize
          /\ FreeBytes(j) = FreeBytes(k) /\ MapBytes(j) = Taken(m, k.cell[m].size)
      BY <3>1, <3>2, MapMoved
    <3> QED BY <2>15, <3>3
  <2>18. Spare(j) = Spare(h)
    <3>1. Spare(j) = FreeBytes(g) \cup MapBytes(g) \cup Taken(m, size) \cup {x \in Nat : g.fsize <= x}
      BY <2>12, <2>17 DEF Spare
    <3>2. Spare(j) = Spare(g) \cup Taken(m, size)
      BY <3>1 DEF Spare
    <3> QED BY <2>8, <3>2
  <2>19. ASSUME NEW a \in DOMAIN h.cell \ Spare(h)
         PROVE  a \in DOMAIN j.cell /\ j.cell[a] = h.cell[a]
    <3>1. a \in DOMAIN g.cell /\ g.cell[a] = h.cell[a]
      BY <2>8
    <3>2. a \notin FreeBytes(g) /\ a \notin MapBytes(g)
      BY <2>8 DEF Spare
    <3> QED BY <2>13, <2>17, <3>1, <3>2
  <2> QED BY <2>6, <2>8, <2>12, <2>17, <2>18, <2>19 DEF Regrown, Kept
<1> QED BY <1>1, <1>2

\* Creating the page map.
LEMMA MakeMapKeeps ==
  ASSUME NEW h, PagesSound(h)
  PROVE  Regrown(h, MakeMap(h))
<1>1. CASE h.map # Null
  <2>1. MakeMap(h) = h
    BY <1>1 DEF MakeMap
  <2>2. h.fsize \in Nat
    BY HeapFields DEF PagesSound
  <2> QED BY <2>1, <2>2 DEF Regrown, Kept
<1>2. CASE h.map = Null
  <2>1. PICK size \in Nat : size = MapSize(h.fsize, init_page_map_size)
    <3>1. h.fsize \in Nat /\ init_page_map_size \in Nat \ {0}
      BY HeapFields, SizesAssumption DEF PagesSound
    <3> QED BY <3>1, MapSizeFacts
  <2>2. PICK r : r = Reserve(h, page_map_cid, size)
    OBVIOUS
  <2>3. PICK g : g = r.heap
    OBVIOUS
  <2>4. PICK m : m = r.at
    OBVIOUS
  <2>5. PICK j : j = MakeMap(h) /\ j = [g EXCEPT !.map = m, !.bits = {}]
    BY <1>2, <2>1, <2>2, <2>3, <2>4 DEF MakeMap
  <2>6. Handed(h, g, m, page_map_cid, size) /\ Took(h, g, m, page_map_cid, size)
    <3>1. page_map_cid \in Nat
      BY DEF page_map_cid
    <3> QED BY <2>2, <2>3, <2>4, <3>1, ReserveTakes
  <2>7. /\ PagesSound(g) /\ Shaped(g) /\ Chained(g) /\ InFile(g) /\ g.fsize # 0
        /\ g.map = Null /\ h.fsize <= g.fsize
        /\ m \in Nat \ {0} /\ m \in DOMAIN g.cell /\ g.cell[m].size = size
        /\ m + Aligned(g.cell[m].size) <= g.fsize
        /\ FreeBytes(g) = FreeBytes(h) \ Taken(m, size)
        /\ Taken(m, size) \subseteq Spare(h) /\ Spare(g) = Spare(h) \ Taken(m, size)
        /\ \A a \in DOMAIN h.cell \ Spare(h) : a \in DOMAIN g.cell /\ g.cell[a] = h.cell[a]
    BY <1>2, <2>6 DEF Handed, Took, Kept, PagesSound
  <2>8. Taken(m, g.cell[m].size) \cap FreeBytes(g) = {}
    BY <2>7
  <2>9. /\ PagesSound(j) /\ j.cell = g.cell /\ j.fsize = g.fsize
        /\ FreeBytes(j) = FreeBytes(g) /\ MapBytes(j) = Taken(m, size)
    <3>1. /\ Shaped(g) /\ Chained(g) /\ InFile(g) /\ g.fsize # 0
          /\ m \in Nat \ {0} /\ m \in DOMAIN g.cell /\ m + Aligned(g.cell[m].size) <= g.fsize
          /\ Taken(m, g.cell[m].size) \cap FreeBytes(g) = {}
      BY <2>7, <2>8
    <3>2. /\ Shaped(j) /\ j.cell = g.cell /\ j.chain = g.chain /\ j.curr = g.curr
          /\ j.fsize = g.fsize /\ j.map = m
      BY <2>5, <2>7 DEF Shaped
    <3>3. /\ PagesSound(j) /\ j.cell = g.cell /\ j.fsize = g.fsize
          /\ FreeBytes(j) = FreeBytes(g) /\ MapBytes(j) = Taken(m, g.cell[m].size)
      BY <3>1, <3>2, MapMoved
    <3> QED BY <2>7, <3>3
  <2>10. Spare(j) = Spare(h)
    <3>1. MapBytes(g) = {}
      BY <2>7 DEF MapBytes
    <3>2. Spare(j) = Spare(g) \cup Taken(m, size)
      BY <2>9, <3>1 DEF Spare
    <3> QED BY <2>7, <3>2
  <2> QED BY <2>5, <2>7, <2>9, <2>10 DEF Regrown, Kept
<1> QED BY <1>1, <1>2

\* A move of the page map leaves what was handed out alone.
LEMMA TookThenRegrown ==
  ASSUME NEW h, NEW k, NEW j, NEW at, NEW cid \in Nat, NEW size \in Nat,
         h.fsize \in Nat, Took(h, k, at, cid, size), Regrown(k, j)
  PROVE  Took(h, j, at, cid, size)
<1>1. h.fsize <= j.fsize /\ at + Aligned(size) <= j.fsize
  <2>1. k.fsize \in Nat /\ j.fsize \in Nat /\ Aligned(size) \in Nat /\ at \in Nat
    BY AlignedFacts, HeapFields DEF Took, Regrown, Kept, PagesSound
  <2>2. h.fsize <= k.fsize /\ k.fsize <= j.fsize /\ at + Aligned(size) <= k.fsize
    BY DEF Took, Regrown, Kept
  <2> QED BY <2>1, <2>2
<1>2. at \in DOMAIN j.cell /\ j.cell[at] = [cid |-> cid, size |-> size]
  <2>1. at \in Taken(at, size) /\ at \in DOMAIN k.cell /\ k.cell[at] = [cid |-> cid, size |-> size]
    BY OwnByte DEF Took
  <2>2. at \notin Spare(k)
    BY <2>1 DEF Took
  <2> QED BY <2>1, <2>2 DEF Regrown, Kept
<1>3. \A a \in DOMAIN h.cell \ Spare(h) : a \in DOMAIN j.cell /\ j.cell[a] = h.cell[a]
  BY DEF Took, Regrown, Kept
<1>4. PagesSound(j) /\ Spare(j) = Spare(k)
  BY DEF Regrown, Kept
<1> QED BY <1>1, <1>2, <1>3, <1>4 DEF Took, Kept

\* A block that serves a size and how many of them a page holds.
LEMMA SlotsFacts ==
  ASSUME NEW size \in Nat, IsSmall(size), NEW b, b = block_size[Class(size)]
  PROVE  /\ b \in Nat \ {0} /\ Cardinality(Slots(size)) \in Nat
         /\ \A i \in 1..Cardinality(Slots(size)) - 1 :
              i * b \in Nat \ {0} /\ i * b < PageSize
<1>1. PICK p \in Nat, G \in Nat \ {0}, H \in Nat :
        p = PageSize /\ G = Grain /\ H = HeaderSize /\ H > 0 /\ p > 0 /\ Half % G = 0
  BY SizesAssumption
<1>2. PICK f \in Nat : f = Half /\ f <= p
  <2>1. PICK t \in Nat : t = p \div 2
    BY Quotient
  <2>2. t * 2 <= p
    BY <2>1, Quotient
  <2> QED BY <1>1, <2>1, <2>2 DEF Half
<1>3. PICK u \in Nat : u = f \div G /\ f = u * G
  <2>1. f \div G \in Nat
    BY Quotient
  <2>2. f % G = 0 /\ f = (G * (f \div G)) + (f % G)
    BY <1>1, <1>2
  <2>3. PICK u \in Nat : u = f \div G
    BY <2>1
  <2>4. G * u = u * G /\ u * G \in Nat
    OBVIOUS
  <2> QED BY <2>2, <2>3, <2>4
<1>4. PICK n \in Nat : n = size + H + G - 1 /\ n >= G /\ n < f + G
  <2>1. size + H <= f
    BY <1>1, <1>2 DEF IsSmall
  <2>2. size + H + G - 1 \in Nat /\ size + H + G - 1 >= G
    BY <1>1
  <2> QED BY <2>1, <2>2
<1>5. PICK q \in Nat : q = n \div G /\ q * G <= n /\ n < q * G + G
  BY <1>4, Quotient
<1>6. q >= 1 /\ q <= u
  <2>1. q * G \in Nat /\ u * G \in Nat
    OBVIOUS
  <2>2. q * G < u * G + G
    BY <1>3, <1>4, <1>5, <2>1
  <2>3. 1 * G < q * G + G
    BY <1>4, <1>5, <2>1
  <2> QED BY <2>2, <2>3, Times
<1>7. Class(size) = q - 1 /\ q - 1 \in Index
  BY <1>1, <1>2, <1>3, <1>4, <1>5, <1>6 DEF Class, Index
<1>8. b \in Nat \ {0} /\ b <= p
  <2>1. PICK c \in Nat : c = q - 1 /\ c \in Index /\ b = block_size[c]
    BY <1>6, <1>7
  <2>2. b \in Nat /\ (c + 1) * G <= b /\ b <= f
    BY <1>1, <1>2, <2>1, TablesAssumption
  <2>3. 1 * G <= (c + 1) * G
    BY <2>1, Times
  <2> QED BY <1>2, <2>2, <2>3
<1>9. PICK v \in Nat, m \in Nat : v = p - b /\ m = v \div b /\ m * b <= v
  <2>1. PICK v \in Nat : v = p - b
    BY <1>8
  <2>2. v \div b \in Nat /\ (v \div b) * b <= v
    BY <1>8, <2>1, Quotient
  <2> QED BY <2>1, <2>2
<1>10. Slots(size) = {i * b : i \in 0..m}
  BY <1>1, <1>9 DEF Slots
<1>11. IsFiniteSet(Slots(size)) /\ Cardinality(Slots(size)) \in Nat
       /\ Cardinality(Slots(size)) <= m + 1
  <2>1. IsFiniteSet(0..m) /\ Cardinality(0..m) = m + 1
    BY FS_Interval
  <2>2. PICK F : F = [i \in 0..m |-> i * b]
    OBVIOUS
  <2>3. {F[i] : i \in 0..m} = Slots(size)
    BY <1>10, <2>2
  <2>4. F \in Surjection(0..m, Slots(size))
    BY <1>10, <2>2 DEF Surjection
  <2>5. IsFiniteSet(Slots(size)) /\ Cardinality(Slots(size)) <= Cardinality(0..m)
    BY <2>1, <2>4, FS_Surjection
  <2> QED BY <2>1, <2>5, FS_CardinalityType
<1>12. ASSUME NEW i \in 1..Cardinality(Slots(size)) - 1
       PROVE  i * b \in Nat \ {0} /\ i * b < PageSize
  <2>1. i \in 1..m
    BY <1>11, <1>12
  <2>2. i * b <= m * b /\ 1 * b <= i * b
    BY <1>8, <2>1, Times
  <2>3. i * b \in Int /\ m * b \in Int
    BY <1>8, <2>1
  <2>4. PICK x \in Int, y \in Int : x = i * b /\ y = m * b
    BY <2>3
  <2>5. x <= v /\ b <= x /\ v < p
    BY <1>8, <1>9, <2>2, <2>4
  <2> QED BY <1>1, <1>8, <1>9, <2>4, <2>5
<1> QED BY <1>8, <1>11, <1>12

\* An object has at least one page.
LEMMA OnePage ==
  ASSUME NEW size \in Nat
  PROVE  PageSize <= Aligned(size)
<1>1. PICK p \in Nat \ {0} : p = PageSize
  BY SizesAssumption
<1>2. PICK k \in Nat : Aligned(size) = k * p /\ k * p # 0
  BY <1>1, AlignedFacts
<1>3. k >= 1
  <2>1. k = 0 => k * p = 0
    OBVIOUS
  <2> QED BY <1>2, <2>1
<1>4. 1 * p <= k * p
  BY <1>3, Times
<1> QED BY <1>1, <1>2, <1>4

\* Cutting the page handed out into blocks touches nothing outside it.
LEMMA CarveKeeps ==
  ASSUME NEW h, NEW k, NEW at, NEW cid \in Nat, NEW size \in Nat, IsSmall(size),
         Took(h, k, at, cid, size), NEW g, g = Carve(k, at, size)
  PROVE  Took(h, g, at, cid, size)
<1>1. /\ PagesSound(k) /\ Shaped(k) /\ Chained(k) /\ InFile(k) /\ MapApart(k) /\ k.fsize # 0
      /\ at \in Nat \ {0} /\ at \in DOMAIN k.cell /\ k.cell[at] = [cid |-> cid, size |-> size]
      /\ at + Aligned(size) <= k.fsize /\ h.fsize <= k.fsize
      /\ Taken(at, size) \subseteq Spare(h) /\ Spare(k) = Spare(h) \ Taken(at, size)
      /\ \A a \in DOMAIN h.cell \ Spare(h) : a \in DOMAIN k.cell /\ k.cell[a] = h.cell[a]
  BY DEF Took, Kept, PagesSound
<1>2. PICK b : b = block_size[Class(size)]
  OBVIOUS
<1>3. PICK n \in Nat : /\ n = Cardinality(Slots(size)) /\ b \in Nat \ {0}
                       /\ \A i \in 1..n - 1 : i * b \in Nat \ {0} /\ i * b < PageSize
  BY <1>2, SlotsFacts
<1>4. PICK B : B = {at + i * b : i \in 1..n - 1}
  OBVIOUS
<1>5. PICK c : c = k.cell /\ c \in [DOMAIN c -> Header]
  BY <1>1, HeapFields
<1>6. PICK F : F = [i \in 1..n - 1 |-> at + i * b]
  OBVIOUS
<1>7. Range(F) = B
  BY <1>4, <1>6 DEF Range
<1>8. /\ g.cell = [a \in DOMAIN c \cup B |->
                     IF a \in B THEN [cid |-> free_object, size |-> size] ELSE c[a]]
      /\ g.chain = k.chain /\ g.curr = k.curr /\ g.map = k.map /\ g.fsize = k.fsize
      /\ g.bits = k.bits /\ g.held = k.held
      /\ DOMAIN g = DOMAIN k
      /\ g = [k EXCEPT !.cell = g.cell, !.blocks = g.blocks]
  BY <1>1, <1>2, <1>3, <1>5, <1>6, <1>7 DEF Carve, Shaped
<1>9. ASSUME NEW x \in B
      PROVE  x \in Taken(at, size) /\ x # at /\ x \in Nat /\ x < k.fsize
  <2>1. PICK i \in 1..n - 1 : x = at + i * b
    BY <1>4
  <2>2. PICK y \in Nat, p \in Nat, w \in Nat, f \in Nat, t \in Nat :
          /\ y = i * b /\ y # 0 /\ y < p /\ p = PageSize /\ w = Aligned(size) /\ p <= w
          /\ f = k.fsize /\ t = at
    <3>1. i * b \in Nat \ {0} /\ i * b < PageSize
      BY <1>3
    <3>2. PageSize \in Nat /\ Aligned(size) \in Nat /\ PageSize <= Aligned(size)
      BY SizesAssumption, AlignedFacts, OnePage
    <3>3. k.fsize \in Nat /\ at \in Nat
      BY <1>1, HeapFields
    <3> QED BY <3>1, <3>2, <3>3
  <2>3. t + w <= f /\ x = t + y
    BY <1>1, <2>1, <2>2
  <2>4. x \in Nat /\ x < f /\ x # t /\ t <= x /\ x < t + w
    BY <2>2, <2>3
  <2> QED BY <2>2, <2>4 DEF Taken
<1>10. \A x \in B : x \notin Spare(k)
  BY <1>1, <1>9
<1>11. /\ DOMAIN g.cell = DOMAIN c \cup B
       /\ \A a \in DOMAIN c \ B : g.cell[a] = c[a]
       /\ g.cell \in [DOMAIN g.cell -> Header]
  <2>1. [cid |-> free_object, size |-> size] \in Header
    BY DEF Header, free_object
  <2> QED BY <1>5, <1>8, <2>1
<1>12. Shaped(g)
  BY <1>1, <1>8, <1>11 DEF Shaped
<1>13. ASSUME NEW i \in 1..Len(k.chain)
       PROVE  /\ k.chain[i] \in DOMAIN g.cell /\ g.cell[k.chain[i]] = k.cell[k.chain[i]]
              /\ End(g, k.chain[i]) = End(k, k.chain[i])
  <2>1. k.chain[i] \in DOMAIN k.cell
    BY <1>1, ChainFacts
  <2>2. k.chain[i] \in Range(k.chain)
    BY <1>1, HeapFields DEF Range
  <2>3. k.chain[i] \in Spare(k)
    BY <1>1, <2>2, ChainBytes DEF Spare
  <2>4. k.chain[i] \in DOMAIN g.cell /\ g.cell[k.chain[i]] = k.cell[k.chain[i]]
    BY <1>5, <1>10, <1>11, <2>1, <2>3
  <2> QED BY <2>4 DEF End
<1>14. Chained(g)
  <2>1. \A i \in 1..Len(g.chain) :
           LET a == g.chain[i]
           IN  /\ a # Null /\ a \in DOMAIN g.cell /\ End(g, a) <= g.fsize
               /\ g.cell[a].cid = free_object
               /\ g.cell[a].size + HeaderSize = Aligned(g.cell[a].size)
    <3> SUFFICES ASSUME NEW i \in 1..Len(k.chain), NEW a, a = k.chain[i]
                 PROVE  /\ a # Null /\ a \in DOMAIN g.cell /\ End(g, a) <= g.fsize
                        /\ g.cell[a].cid = free_object
                        /\ g.cell[a].size + HeaderSize = Aligned(g.cell[a].size)
      BY <1>8
    <3>1. /\ a # Null /\ End(k, a) <= k.fsize
          /\ k.cell[a].cid = free_object
          /\ k.cell[a].size + HeaderSize = Aligned(k.cell[a].size)
      BY <1>1, ChainFacts DEF Null
    <3>2. a \in DOMAIN g.cell /\ g.cell[a] = k.cell[a] /\ End(g, a) = End(k, a)
      BY <1>13
    <3> QED BY <1>8, <3>1, <3>2
  <2>2. \A i, j \in 1..Len(g.chain) : i < j => End(g, g.chain[i]) < g.chain[j]
    <3> SUFFICES ASSUME NEW i \in 1..Len(k.chain), NEW j \in 1..Len(k.chain), i < j
                 PROVE  End(g, k.chain[i]) < k.chain[j]
      BY <1>8
    <3>1. End(k, k.chain[i]) < k.chain[j]
      BY <1>1, ChainFacts
    <3> QED BY <1>13, <3>1
  <2>3. IF g.chain = <<>> THEN g.curr = Null ELSE g.curr \in Range(g.chain)
    BY <1>1, <1>8 DEF Chained
  <2> QED BY <2>1, <2>2, <2>3 DEF Chained
<1>15. FreeBytes(g) = FreeBytes(k)
  <2>1. FreeBytes(g) = UNION {k.chain[i] .. End(g, k.chain[i]) - 1 : i \in 1..Len(k.chain)}
    BY <1>8 DEF FreeBytes
  <2>2. FreeBytes(k) = UNION {k.chain[i] .. End(k, k.chain[i]) - 1 : i \in 1..Len(k.chain)}
    BY DEF FreeBytes
  <2>3. \A i \in 1..Len(k.chain) :
          k.chain[i] .. End(g, k.chain[i]) - 1 = k.chain[i] .. End(k, k.chain[i]) - 1
    BY <1>13
  <2> QED BY <2>1, <2>2, <2>3
<1>16. k.map # Null => k.map \in DOMAIN g.cell /\ g.cell[k.map] = k.cell[k.map]
  <2> SUFFICES ASSUME k.map # Null
               PROVE  k.map \in DOMAIN g.cell /\ g.cell[k.map] = k.cell[k.map]
    OBVIOUS
  <2>1. k.map \in DOMAIN k.cell /\ k.map \in MapBytes(k)
    BY <1>1, MapFacts
  <2>2. k.map \in Spare(k)
    BY <2>1 DEF Spare
  <2> QED BY <1>5, <1>10, <1>11, <2>1, <2>2
<1>17. MapBytes(g) = MapBytes(k)
  BY <1>8, <1>16 DEF MapBytes
<1>18. MapApart(g)
  <2>1. MapBytes(g) \cap FreeBytes(g) = {}
    BY <1>1, <1>15, <1>17 DEF MapApart
  <2> QED BY <1>1, <1>8, <1>16, <2>1 DEF MapApart
<1>19. InFile(g)
  <2> SUFFICES ASSUME NEW a \in DOMAIN g.cell PROVE a \in Nat /\ a < k.fsize
    BY <1>8 DEF InFile
  <2> QED BY <1>1, <1>5, <1>9, <1>11 DEF InFile
<1>20. PagesSound(g)
  BY <1>1, <1>8, <1>12, <1>14, <1>18, <1>19 DEF PagesSound
<1>21. Spare(g) = Spare(k)
  BY <1>8, <1>15, <1>17 DEF Spare
<1>22. at \in DOMAIN g.cell /\ g.cell[at] = [cid |-> cid, size |-> size]
  BY <1>1, <1>5, <1>9, <1>11
<1>23. \A a \in DOMAIN h.cell \ Spare(h) : a \in DOMAIN g.cell /\ g.cell[a] = h.cell[a]
  BY <1>1, <1>5, <1>9, <1>11
<1> QED BY <1>1, <1>8, <1>20, <1>21, <1>22, <1>23 DEF Took, Kept

\* Setting bits of the page map changes none of this.
LEMMA BitsKeep ==
  ASSUME NEW h, PagesSound(h), NEW B, NEW g, g = [h EXCEPT !.bits = B]
  PROVE  Regrown(h, g)
<1>1. /\ g.cell = h.cell /\ g.chain = h.chain /\ g.curr = h.curr /\ g.fsize = h.fsize
      /\ g.map = h.map /\ Shaped(g)
  BY DEF Shaped, PagesSound
<1>2. \A a : End(g, a) = End(h, a)
  BY <1>1 DEF End
<1>3. Chained(g)
  BY <1>1, <1>2 DEF Chained, PagesSound
<1>4. FreeBytes(g) = FreeBytes(h) /\ MapBytes(g) = MapBytes(h)
  BY <1>1, <1>2 DEF FreeBytes, MapBytes
<1>5. PagesSound(g)
  BY <1>1, <1>3, <1>4 DEF PagesSound, InFile, MapApart
<1>6. h.fsize \in Nat
  BY HeapFields DEF PagesSound
<1> QED BY <1>1, <1>4, <1>5, <1>6 DEF Regrown, Kept, Spare

\* alloc_page() hands out a segment made of bytes no object has, and these and
\* no others are lost to the allocator, whatever the page map does meanwhile:
\* it is moved or created among the spare bytes, never over the new object.
\* The chain, curr_free_page and the page map are sound again, and no header
\* of another object is touched.
THEOREM AllocPageTakesSpare ==
  ASSUME NEW h, PagesSound(h), NEW cid \in Nat, NEW size \in Nat,
         NEW r, r = alloc_page(h, cid, size)
  PROVE  Took(h, r.heap, r.at, cid, size)
<1>1. PICK q : q = Reserve(h, cid, size)
  OBVIOUS
<1>2. PICK at : at = q.at
  OBVIOUS
<1>3. PICK g0 : g0 = q.heap
  OBVIOUS
<1>4. Took(h, g0, at, cid, size)
  BY <1>1, <1>2, <1>3, ReserveTakes
<1>5. PICK g1 : g1 = IF g0.fsize # h.fsize THEN GrowMap(g0) ELSE g0
  OBVIOUS
<1>6. h.fsize \in Nat
  BY HeapFields DEF PagesSound
<1>7. Took(h, g1, at, cid, size)
  <2>1. PagesSound(g0)
    BY <1>4 DEF Took, Kept
  <2>2. Regrown(g0, GrowMap(g0))
    BY <2>1, GrowMapKeeps
  <2>3. CASE g0.fsize # h.fsize
    BY <1>4, <1>5, <1>6, <2>2, <2>3, TookThenRegrown
  <2>4. CASE ~(g0.fsize # h.fsize)
    BY <1>4, <1>5, <2>4
  <2> QED BY <2>3, <2>4
<1>8. PICK inner : inner = InnerPages(at, size)
  OBVIOUS
<1>9. /\ r.at = at
      /\ r.heap = IF IsSmall(size) THEN Carve(g1, at, size)
                  ELSE IF inner # {} THEN [MakeMap(g1) EXCEPT !.bits = @ \cup inner]
                  ELSE g1
  BY <1>1, <1>2, <1>3, <1>5, <1>8 DEF alloc_page
<1>10. CASE IsSmall(size)
  BY <1>7, <1>9, <1>10, CarveKeeps
<1>11. CASE ~IsSmall(size) /\ inner # {}
  <2>1. PICK m : m = MakeMap(g1)
    OBVIOUS
  <2>2. Took(h, m, at, cid, size)
    <3>1. Regrown(g1, m)
      BY <1>7, <2>1, MakeMapKeeps DEF Took, Kept
    <3> QED BY <1>6, <1>7, <3>1, TookThenRegrown
  <2>3. PICK B : B = m.bits \cup inner
    OBVIOUS
  <2>4. r.heap = [m EXCEPT !.bits = B]
    BY <1>9, <1>11, <2>1, <2>3
  <2>5. Regrown(m, r.heap)
    <3>1. PagesSound(m)
      BY <2>2 DEF Took, Kept
    <3> QED BY <2>4, <3>1, BitsKeep
  <2> QED BY <1>6, <1>9, <2>2, <2>5, TookThenRegrown
<1>12. CASE ~IsSmall(size) /\ ~(inner # {})
  BY <1>7, <1>9, <1>12
<1> QED BY <1>10, <1>11, <1>12

\* free_page() makes the bytes of an object spare, exactly these, and keeps
\* the chain, curr_free_page, the page map and the headers of other objects.
THEOREM FreePageMakesSpare ==
  ASSUME NEW h, PagesSound(h), NEW fp \in DOMAIN h.cell, fp # Null,
         fp + Aligned(h.cell[fp].size) <= h.fsize,
         Taken(fp, h.cell[fp].size) \cap Spare(h) = {},
         NEW g, g = free_page(h, fp)
  PROVE  /\ PagesSound(g) /\ g.fsize = h.fsize
         /\ Spare(g) = Spare(h) \cup Taken(fp, h.cell[fp].size)
         /\ \A a \in DOMAIN h.cell \ (Spare(h) \cup {fp}) :
              a \in DOMAIN g.cell /\ g.cell[a] = h.cell[a]
<1>1. Shaped(h) /\ Chained(h) /\ InFile(h) /\ MapApart(h) /\ h.fsize # 0
  BY DEF PagesSound
<1>2. fp \in Nat \ {0} /\ h.cell[fp].size \in Nat
  BY <1>1, HeapFields DEF InFile, Null
<1>3. PICK T : T = Taken(fp, h.cell[fp].size)
  OBVIOUS
<1>4. T \cap FreeBytes(h) = {} /\ T \cap MapBytes(h) = {}
  BY <1>3 DEF Spare
<1>5. PICK e : e = fp + Aligned(h.cell[fp].size)
  OBVIOUS
<1>6. Apart(h, fp, e)
  BY <1>1, <1>2, <1>3, <1>4, <1>5, ApartOf
<1>7. /\ Shaped(g) /\ Chained(g) /\ g.map = h.map /\ g.fsize = h.fsize
      /\ FreeBytes(g) = FreeBytes(h) \cup T
      /\ DOMAIN g.cell \subseteq DOMAIN h.cell
      /\ \A a \in DOMAIN h.cell \ ({fp} \cup Range(h.chain)) :
           a \in DOMAIN g.cell /\ g.cell[a] = h.cell[a]
  BY <1>1, <1>3, <1>6, FreePageKeepsChain
<1>8. Range(h.chain) \subseteq FreeBytes(h)
  BY <1>1, ChainBytes
<1>9. h.map # Null => h.map \in DOMAIN g.cell /\ g.cell[h.map] = h.cell[h.map]
  <2> SUFFICES ASSUME h.map # Null
               PROVE  h.map \in DOMAIN g.cell /\ g.cell[h.map] = h.cell[h.map]
    OBVIOUS
  <2>1. h.map \in DOMAIN h.cell /\ h.map \in MapBytes(h) /\ MapBytes(h) \cap FreeBytes(h) = {}
    BY MapFacts
  <2>2. fp \in T
    BY <1>2, <1>3, OwnByte
  <2> QED BY <1>4, <1>7, <1>8, <2>1, <2>2
<1>10. MapBytes(g) = MapBytes(h)
  BY <1>7, <1>9 DEF MapBytes
<1>11. MapApart(g)
  <2>1. MapBytes(g) \cap FreeBytes(g) = {}
    BY <1>1, <1>4, <1>7, <1>10 DEF MapApart
  <2> QED BY <1>1, <1>7, <1>9, <2>1 DEF MapApart
<1>12. InFile(g)
  BY <1>1, <1>7 DEF InFile
<1>13. PagesSound(g)
  BY <1>1, <1>7, <1>11, <1>12 DEF PagesSound
<1>14. Spare(g) = Spare(h) \cup T
  BY <1>7, <1>10 DEF Spare
<1>15. \A a \in DOMAIN h.cell \ (Spare(h) \cup {fp}) :
         a \in DOMAIN g.cell /\ g.cell[a] = h.cell[a]
  BY <1>7, <1>8 DEF Spare
<1> QED BY <1>3, <1>7, <1>13, <1>14, <1>15
=============================================================================
