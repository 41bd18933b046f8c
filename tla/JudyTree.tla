---------------------------- MODULE JudyTree ----------------------------
(****************************************************************************)
(* The digital tree of a Judy array (Judy/src/JudyCommon): Judy Pointers    *)
(* (JPs), the objects they refer to, what these objects cost, and the       *)
(* operators that create, split and release them.  A JP carries its level   *)
(* (the digits left to decode) and                                          *)
(*   null                                                                   *)
(*   immed  keys, vals            a few indexes in the JP itself            *)
(*   leaf   dcd, pop0, keys, vals a linear leaf                             *)
(*   B1     dcd, pop0, bits, vals a bitmap leaf of level 1                  *)
(*   full   dcd, pop0             all of level 1 (Judy1 only)               *)
(*   L, B, U  dcd, pop0, ...      linear, bitmap, uncompressed branch       *)
(* dcd are the decode digits above the level, without the digit of the root *)
(* branch; pop0 is the population less one.  Digits are 0..Radix-1.         *)
(****************************************************************************)
EXTENDS Integers, Sequences, FiniteSets, SequencesExt

CONSTANTS Judy1,          \* TRUE: a set of indexes; FALSE: indexes with values
          Radix,          \* cJU_SUBEXPPERSTATE, 256
          RootState,      \* cJU_ROOTSTATE, the digits of an index
          BitsPerSubexp,  \* digits per subexpanse of a bitmap
          BranchLMaxJPs, BranchLMaxPop, BtoUPopIncrement, BranchBMinPop, BranchBMaxPop,
          LeafWMax,       \* cJU_LEAFW_MAXPOP1
          LeafMax,        \* LeafMax[l] = cJU_LEAFl_MAXPOP1, 0 where there is no such leaf
          ImmedMax,       \* ImmedMax[l] = cJU_IMMEDl_MAXPOP1
          AllocSizes,     \* the object sizes, in words, that are asked for
          NoValue         \* the value of an index of a Judy1 array

Digits    == 0..Radix - 1
Subexps   == 0..(Radix \div BitsPerSubexp) - 1
Index     == 0..Radix^RootState - 1

\* What the code takes for granted of its thresholds: a leaf's pop0 fits one
\* digit, a leaf that moves down a level still fits there, an immediate is
\* smaller than the leaf that replaces it, also one level up, and a root
\* leaf has more indexes than an immediate of the level below it.
JudyParameters ==
  /\ Judy1 \in BOOLEAN /\ Radix % BitsPerSubexp = 0 /\ RootState >= 2
  /\ \A l \in 1..RootState - 1 :
       /\ LeafMax[l] \in 0..(IF Judy1 THEN Radix - 1 ELSE Radix) /\ ImmedMax[l] \in 1..Radix - 1
       /\ l > 1 => LeafMax[l] > ImmedMax[l] /\ LeafMax[l] > ImmedMax[l - 1]
       /\ l > 2 => LeafMax[l] < LeafMax[l - 1]
       /\ Judy1 => ImmedMax[l] >= 2
  /\ IF Judy1 THEN LeafMax[1] = 0 ELSE LeafMax[1] > ImmedMax[1]
  /\ LeafWMax \in ImmedMax[RootState - 1] + 1 .. LeafMax[RootState - 1] - 1

-----------------------------------------------------------------------------
\* Digits of an index.

DigitAtState(ix, s) == (ix \div Radix^(s - 1)) % Radix

LeastBytes(ix, s) == ix % Radix^s

TrimToDcdSize(ix) == LeastBytes(ix, RootState - 1)

DcdAt(ix, s) == TrimToDcdSize(ix) \div Radix^s

DcdNotMatchIndex(ix, jp) == DcdAt(ix, jp.l) # jp.dcd

\* Digits in increasing order.
Ascending(ds) == SelectSeq([i \in 1..Radix |-> i - 1], LAMBDA d : d \in ds)

Subexp(d) == d \div BitsPerSubexp

\* The digits of bits in one subexpanse, and the offset of d among them.
SubexpBits(bits, s) == {d \in bits : Subexp(d) = s}

BitOffset(bits, d) == Cardinality({e \in SubexpBits(bits, Subexp(d)) : e < d}) + 1

\* SEARCHLEAFNATIVE and SEARCHLEAFNONNAT: the offset of k, or the
\* complement of the offset where it belongs.
RECURSIVE Bisect(_, _, _, _)
Bisect(keys, k, low, high) ==
  LET mid == (high + low) \div 2 IN
  IF high - low > 1
    THEN IF keys[mid + 1] > k THEN Bisect(keys, k, low, mid) ELSE Bisect(keys, k, mid, high)
  ELSE IF low = -1 \/ keys[low + 1] # k THEN -1 - high ELSE low

SearchLeaf(keys, k) == Bisect(keys, k, -1, Len(keys))

-----------------------------------------------------------------------------
(****************************************************************************)
(* Memory.  pm stands for what an operation shares through the JPM: its     *)
(* population and the population at the last conversion to an uncompressed  *)
(* branch, the words that are allocated, those of them that this operation  *)
(* has lost, and the number of allocations that succeed before memory runs  *)
(* out.                                                                     *)
(****************************************************************************)
Fit(words) == CHOOSE a \in AllocSizes : a >= words /\ \A b \in AllocSizes : b >= words => a <= b

CeilWords(bytes) == (bytes + RootState - 1) \div RootState

ValueWords(n) == IF Judy1 THEN 0 ELSE n

\* The tables PopToWords that GenTable writes: an object of n elements and so
\* many words is as large as the allocator's sizes let it be, but no larger
\* than one of max elements.
PopToWords(n, max, words, most) ==
  IF n = max \/ most < Fit(words) THEN most ELSE Fit(words)

JPMWords      == 6
JBLWords      == 2 * BranchLMaxJPs + 1
JBBWords      == 2 * Cardinality(Subexps)
JBUWords      == 2 * Radix
JLB1Words     == Cardinality(Subexps) * IF Judy1 THEN 1 ELSE 2
JBBJPWords(n) == PopToWords(n, BitsPerSubexp, 2 * n, 2 * BitsPerSubexp)
LeafObject(l, n) == CeilWords(l * n) + ValueWords(n)
JLLWords(l, n) == PopToWords(n, LeafMax[l], LeafObject(l, n), LeafObject(l, LeafMax[l]))
RootObject(n)  == 1 + n + ValueWords(n)
JLWWords(n)   == PopToWords(n, LeafWMax, RootObject(n), RootObject(LeafWMax))
JVWords(n)    == IF Judy1 THEN 0 ELSE PopToWords(n, BitsPerSubexp, n, BitsPerSubexp)

\* J__U_GROWCK: one more index would not need a larger object.
GrowInPlace(n, max, Words(_)) == n # max /\ Words(n) = Words(n + 1)

SumSeq(s) == FoldSeq(LAMBDA x, y : x + y, 0, s)

\* The objects of sizes ws are allocated in this order; when one of them
\* cannot be had, those before it are released again.
Alloc(pm, ws) ==
  IF Len(ws) <= pm.left
    THEN [ok |-> TRUE,  pm |-> [pm EXCEPT !.live = @ + SumSeq(ws), !.left = @ - Len(ws)]]
    ELSE [ok |-> FALSE, pm |-> [pm EXCEPT !.left = 0]]

Free(pm, words) == [pm EXCEPT !.live = @ - words]

\* An error path forgets objects that nothing refers to.
Lost(pm, words) == [pm EXCEPT !.lost = @ + words]

-----------------------------------------------------------------------------
\* Judy Pointers.

Null(l) == [t |-> "null", l |-> l]

\* JPIMMED_l_01 keeps all digits of the index but the first one.
Immed01(l, ix, v) == [t |-> "immed", l |-> l, keys |-> <<TrimToDcdSize(ix)>>, vals |-> <<v>>]

LowKeys(keys, l) == [i \in DOMAIN keys |-> LeastBytes(keys[i], l)]

\* JPIMMED_l_02 and more keep the last l digits.
Immed(l, keys, vals) == [t |-> "immed", l |-> l, keys |-> LowKeys(keys, l), vals |-> vals]

Leaf(l, dcd, pop0, keys, vals) ==
  [t |-> "leaf", l |-> l, dcd |-> dcd, pop0 |-> pop0, keys |-> LowKeys(keys, l), vals |-> vals]

\* Set bits of the leaf, and the value areas of its subexpanses.
LeafB1(dcd, pop0, keys, vals) ==
  [t |-> "B1", l |-> 1, dcd |-> dcd, pop0 |-> pop0,
   bits |-> {LeastBytes(keys[i], 1) : i \in DOMAIN keys},
   vals |-> [s \in Subexps |->
               LET of == SelectSeq([i \in DOMAIN keys |-> i],
                                   LAMBDA i : ~Judy1 /\ Subexp(LeastBytes(keys[i], 1)) = s)
               IN  [i \in DOMAIN of |-> vals[of[i]]]]]

FullPopU1(dcd) == [t |-> "full", l |-> 1, dcd |-> dcd, pop0 |-> Radix - 1]

BranchL(l, dcd, pop0, exp, jps) ==
  [t |-> "L", l |-> l, dcd |-> dcd, pop0 |-> pop0, exp |-> exp, jps |-> jps]

\* exp in increasing order; jps[s] are the JPs of subexpanse s.
BranchB(l, dcd, pop0, exp, jps) ==
  [t |-> "B", l |-> l, dcd |-> dcd, pop0 |-> pop0, bits |-> ToSet(exp),
   jps |-> [s \in Subexps |->
              LET of == SelectSeq([i \in DOMAIN exp |-> i], LAMBDA i : Subexp(exp[i]) = s)
              IN  [i \in DOMAIN of |-> jps[of[i]]]]]

BranchU(l, dcd, pop0, at) ==
  [t |-> "U", l |-> l, dcd |-> dcd, pop0 |-> pop0, jps |-> at]

\* The sizes of the objects of a bitmap branch, and of a bitmap leaf.
Populated(bits) == Ascending({s \in Subexps : SubexpBits(bits, s) # {}})

BranchBSizes(bits) ==
  <<JBBWords>> \o [i \in DOMAIN Populated(bits) |->
                     JBBJPWords(Cardinality(SubexpBits(bits, Populated(bits)[i])))]

LeafB1Sizes(bits) ==
  IF Judy1 THEN <<JLB1Words>>
  ELSE <<JLB1Words>> \o [i \in DOMAIN Populated(bits) |->
                           JVWords(Cardinality(SubexpBits(bits, Populated(bits)[i])))]

\* The population below a JP.
Pop1(jp) ==
  CASE jp.t = "null"  -> 0
    [] jp.t = "immed" -> Len(jp.keys)
    [] OTHER          -> jp.pop0 + 1

-----------------------------------------------------------------------------
\* Result of a walk: 1 done, 0 nothing to do, -1 no memory.
Result(rc, jp, pm) == [rc |-> rc, jp |-> jp, pm |-> pm]

\* The JP that took in an index has its population increased unless it is
\* an immediate.
Counted(r) ==
  IF r.rc = 1 /\ r.jp.t # "immed" THEN [r EXCEPT !.jp.pop0 = @ + 1] ELSE r

\* j__udyCreateBranchU: a bitmap branch becomes an uncompressed one.
CreateBranchU(jp, pm) ==
  LET a == Alloc(pm, <<JBUWords>>) IN
  IF ~a.ok THEN Result(-1, jp, a.pm)
  ELSE Result(1, BranchU(jp.l, jp.dcd, jp.pop0,
                         [d \in Digits |-> IF d \in jp.bits THEN jp.jps[Subexp(d)][BitOffset(jp.bits, d)]
                                                            ELSE Null(jp.l - 1)]),
              Free(a.pm, SumSeq(BranchBSizes(jp.bits))))

\* j__udyCreateBranchB for the JPs of the linear branch jp.
CreateBranchB(jp, pm) ==
  LET a == Alloc(pm, BranchBSizes(ToSet(jp.exp))) IN
  IF ~a.ok THEN Result(-1, jp, a.pm)
  ELSE Result(1, BranchB(jp.l, jp.dcd, jp.pop0, jp.exp, jp.jps), Free(a.pm, JBLWords))

\* The lowest level at which ix and a narrow pointer differ.
RECURSIVE OutlierLevel(_, _, _)
OutlierLevel(l, dcd, ixdcd) ==
  IF dcd = ixdcd THEN l ELSE OutlierLevel(l + 1, dcd \div Radix, ixdcd \div Radix)

\* j__udyInsertBranch: a linear branch between a narrow pointer and its
\* object takes in the index that does not belong below the pointer.
InsertBranch(jp, ix, v, pm) ==
  LET l  == OutlierLevel(jp.l, jp.dcd, DcdAt(ix, jp.l))
      o  == (jp.dcd \div Radix^(l - 1 - jp.l)) % Radix
      n  == DigitAtState(ix, l)
      im == Immed01(l - 1, ix, v)
      a  == Alloc(pm, <<JBLWords>>)
  IN  IF ~a.ok THEN Result(-1, jp, a.pm)
      ELSE Result(1, BranchL(l, jp.dcd \div Radix^(l - jp.l), jp.pop0,
                             IF n > o THEN <<o, n>> ELSE <<n, o>>,
                             IF n > o THEN <<jp, im>> ELSE <<im, jp>>), a.pm)

-----------------------------------------------------------------------------
(***************************************************************************)
(* Splitting a full leaf (JudyCascade.c).  The indexes of level l + 1 that *)
(* share a digit become one JP of level l.                                 *)
(***************************************************************************)
StageSizes(l, n, keys) ==
  IF n = 1 THEN <<>>
  ELSE IF n <= ImmedMax[l] THEN IF Judy1 THEN <<>> ELSE <<JVWords(n)>>
  ELSE IF l = 1 /\ n > LeafMax[1] THEN LeafB1Sizes({LeastBytes(keys[i], 1) : i \in DOMAIN keys})
  ELSE <<JLLWords(l, n)>>

StageJP(l, dcd, keys, vals) ==
  LET n   == Len(keys)
      sub == (dcd * Radix + DigitAtState(keys[1], l + 1)) % Radix^(RootState - 1 - l)
  IN  IF n = 1 THEN Immed01(l, dcd * Radix^(l + 1) + keys[1], vals[1])
      ELSE IF n <= ImmedMax[l] THEN Immed(l, keys, vals)
      ELSE IF l = 1 /\ n > LeafMax[1] THEN LeafB1(sub, n - 1, keys, vals)
      ELSE Leaf(l, sub, n - 1, keys, vals)

\* The first digits of keys, and the run of keys (or their values) with digit d.
Expanses(keys, s) == Ascending({DigitAtState(keys[i], s) : i \in DOMAIN keys})

RunOf(keys, what, s, d) ==
  LET of == SelectSeq([i \in DOMAIN keys |-> i], LAMBDA i : DigitAtState(keys[i], s) = d)
  IN  [i \in DOMAIN of |-> what[of[i]]]

SplaySizes(keys, s, exp) ==
  FlattenSeq([e \in DOMAIN exp |->
     StageSizes(s - 1, Len(RunOf(keys, keys, s, exp[e])), RunOf(keys, keys, s, exp[e]))])

Splay(keys, vals, s, dcd, exp) ==
  [e \in DOMAIN exp |-> StageJP(s - 1, dcd, RunOf(keys, keys, s, exp[e]), RunOf(keys, vals, s, exp[e]))]

\* j__udyStageJBBtoJBB or j__udyCreateBranchL for the staged JPs.
StageBranch(s, dcd, pop0, exp, jps) ==
  IF Len(exp) <= BranchLMaxJPs THEN BranchL(s, dcd, pop0, exp, jps)
                               ELSE BranchB(s, dcd, pop0, exp, jps)

StageBranchSizes(exp) ==
  IF Len(exp) <= BranchLMaxJPs THEN <<JBLWords>> ELSE BranchBSizes(ToSet(exp))

\* j__udyCascade1: a leaf of level 1 becomes a bitmap leaf.
Cascade1(jp, pm) ==
  LET a == Alloc(pm, LeafB1Sizes(ToSet(jp.keys))) IN
  IF ~a.ok THEN Result(-1, jp, a.pm)
  ELSE Result(1, LeafB1(jp.dcd, jp.pop0, jp.keys, jp.vals), a.pm)

\* All indexes of the leaf share their first digit: the leaf moves down.
CompressedSizes(jp) ==
  IF jp.l = 2 THEN LeafB1Sizes({LeastBytes(jp.keys[i], 1) : i \in DOMAIN jp.keys})
              ELSE <<JLLWords(jp.l - 1, Len(jp.keys))>>

Compressed(jp) ==
  LET dcd == jp.dcd * Radix + DigitAtState(jp.keys[1], jp.l) IN
  IF jp.l = 2 THEN LeafB1(dcd, jp.pop0, jp.keys, jp.vals)
              ELSE Leaf(jp.l - 1, dcd, jp.pop0, jp.keys, jp.vals)

\* j__udyCascade2 .. j__udyCascade7, for leaves of level 2 and more.
CascadeUp(jp, pm, exp) ==
  LET sizes == IF Len(exp) = 1 THEN CompressedSizes(jp)
                               ELSE SplaySizes(jp.keys, jp.l, exp) \o StageBranchSizes(exp)
      a     == Alloc(pm, sizes)
  IN  IF ~a.ok THEN Result(-1, jp, a.pm)
      ELSE IF Len(exp) = 1 THEN Result(1, Compressed(jp), a.pm)
      ELSE Result(1, StageBranch(jp.l, jp.dcd, jp.pop0, exp,
                                 Splay(jp.keys, jp.vals, jp.l, jp.dcd, exp)), a.pm)

Cascade(jp, pm) ==
  IF jp.l = 1 THEN Cascade1(jp, pm) ELSE CascadeUp(jp, pm, Expanses(jp.keys, jp.l))

\* j__udyCascadeL: the root leaf becomes a branch.  Unlike the cascades
\* above it does not release the leaves it has made when one cannot be had,
\* nor the only leaf when the branch cannot be had.
CascadeLJP(keys, vals, exp) ==
  LET s == RootState IN
  IF Len(exp) = 1
    THEN BranchL(s, 0, 0, exp, <<Leaf(s - 1, 0, Len(keys) - 1, keys, vals)>>)
    ELSE StageBranch(s, 0, 0, exp, Splay(LowKeys(keys, s), vals, s, 0, exp))

CascadeLSizes(keys, exp) ==
  IF Len(exp) = 1 THEN <<JLLWords(RootState - 1, Len(keys))>> ELSE SplaySizes(keys, RootState, exp)

CascadeL(keys, vals, pm, exp) ==
  LET leaves == CascadeLSizes(keys, exp)
      branch == StageBranchSizes(exp)
      kept   == IF pm.left < Len(leaves) THEN SubSeq(leaves, 1, pm.left)
                ELSE IF Len(exp) = 1 THEN leaves ELSE <<>>
      a      == Alloc(pm, leaves \o branch)
  IN  IF a.ok THEN Result(1, CascadeLJP(keys, vals, exp), a.pm)
      ELSE Result(-1, Null(RootState), Lost([a.pm EXCEPT !.live = @ + SumSeq(kept)], SumSeq(kept)))
=============================================================================
