----------------------------- MODULE JudyWalk -----------------------------
(***************************************************************************)
(* Looking up an index (JudyGet.c) and its neighbours (JudyPrevNext.c,     *)
(* JudyFirst.c).  dir is -1 for Prev and 1 for Next.  The walk down keeps  *)
(* the branches it came through in hist (SM1), goes back to the lowest one *)
(* that has a digit beside the one taken (SM2), and down again along the   *)
(* edge of what is there (SM3).                                            *)
(***************************************************************************)
EXTENDS JudyDel

CONSTANT JPsPerCL     \* Judy Pointers per cache line

NotFound     == [found |-> FALSE]
Found(ix, v) == [found |-> TRUE, ix |-> ix, v |-> v]

\* JU_SETDIGIT, JU_SETDIGITS, JU_SETDCD
SetDigit(ix, d, s) == ix + (d - DigitAtState(ix, s)) * Radix^(s - 1)

SetDigits(ix, low, s) == ix - LeastBytes(ix, s) + LeastBytes(low, s)

SetDcd(ix, jp) ==
  IF jp.l >= RootState - 1 THEN ix
  ELSE SetDigits(ix, jp.dcd * Radix^jp.l + LeastBytes(ix, jp.l), RootState - 1)

Narrow(jp) == jp.t \notin {"null", "immed"} /\ jp.l < RootState

-----------------------------------------------------------------------------
\* Judy1Test, JudyLGet

RECURSIVE Get(_, _)

GetBranchL(jp, ix, off) == IF off < 0 THEN NotFound ELSE Get(jp.jps[off + 1], ix)

GetBranchB(jp, ix, d) ==
  IF d \notin jp.bits THEN NotFound ELSE Get(jp.jps[Subexp(d)][BitOffset(jp.bits, d)], ix)

GetBranchU(jp, ix, d) == Get(jp.jps[d], ix)

GetLeaf(jp, ix, off) == IF off < 0 THEN NotFound ELSE Found(ix, jp.vals[off + 1])

GetLeafB1(jp, ix, d) ==
  IF d \notin jp.bits THEN NotFound
  ELSE Found(ix, IF Judy1 THEN NoValue ELSE jp.vals[Subexp(d)][BitOffset(jp.bits, d)])

GetImmed01(jp, ix) == IF jp.keys[1] # TrimToDcdSize(ix) THEN NotFound ELSE Found(ix, jp.vals[1])

Get(jp, ix) ==
  CASE jp.t = "null" -> NotFound
    [] jp.t = "immed" -> IF Len(jp.keys) = 1 THEN GetImmed01(jp, ix)
                         ELSE GetLeaf(jp, ix, SearchLeaf(jp.keys, LeastBytes(ix, jp.l)))
    [] Narrow(jp) /\ DcdNotMatchIndex(ix, jp) -> NotFound
    [] jp.t = "L" -> GetBranchL(jp, ix, SearchLeaf(jp.exp, DigitAtState(ix, jp.l)))
    [] jp.t = "B" -> GetBranchB(jp, ix, DigitAtState(ix, jp.l))
    [] jp.t = "U" -> GetBranchU(jp, ix, DigitAtState(ix, jp.l))
    [] jp.t = "leaf" -> GetLeaf(jp, ix, SearchLeaf(jp.keys, LeastBytes(ix, jp.l)))
    [] jp.t = "B1"   -> GetLeafB1(jp, ix, DigitAtState(ix, 1))
    [] jp.t = "full" -> Found(ix, NoValue)

JudyGet(root, ix) ==
  CASE root.t = "empty" -> NotFound
    [] root.t = "leafw" -> GetLeaf(root, ix, SearchLeaf(root.keys, ix))
    [] root.t = "jpm"   -> Get(root.jp, ix)

\* Judy1Unset, JudyLDel: an index that is not there is not walked to.
JudyDelete(root, ix, pm) ==
  CASE ~JudyGet(root, ix).found -> RootResult(0, root, pm)
    [] root.t = "leafw" -> DelLeafW(root, pm, SearchLeaf(root.keys, ix))
    [] root.t = "jpm"   -> DelTree(DelWalk(root.jp, ix, RootState, pm))

-----------------------------------------------------------------------------
(****************************************************************************)
(* Sideways in a branch: the digit beside d in direction dir that has a JP, *)
(* or -1.                                                                   *)
(****************************************************************************)
Nearest(ds, dir) ==
  IF ds = {} THEN -1
  ELSE CHOOSE e \in ds : \A f \in ds : IF dir = 1 THEN e <= f ELSE e >= f

Beyond(ds, d, dir) == {e \in ds : IF dir = 1 THEN e > d ELSE e < d}

\* The offset beside a digit that was found (off >= 0) or not.
BesideL(jp, off, dir) ==
  LET o == IF off >= 0 THEN off + dir ELSE IF dir = 1 THEN -1 - off ELSE -2 - off
  IN  IF o \in 0..Len(jp.exp) - 1 THEN jp.exp[o + 1] ELSE -1

\* In the subexpanse of d first, then in the nearest one that is not empty.
BesideBits(bits, d, dir) ==
  LET here == Beyond(SubexpBits(bits, Subexp(d)), d, dir)
      next == Nearest({s \in Beyond(Subexps, Subexp(d), dir) : SubexpBits(bits, s) # {}}, dir)
  IN  IF here # {} THEN Nearest(here, dir)
      ELSE IF next = -1 THEN -1 ELSE Nearest(SubexpBits(bits, next), dir)

BesideU(jp, d, dir) == Nearest(Beyond({e \in Digits : jp.jps[e].t # "null"}, d, dir), dir)

Beside(jp, d, dir) ==
  CASE jp.t = "L" -> BesideL(jp, SearchLeaf(jp.exp, d), dir)
    [] jp.t = "B" -> BesideBits(jp.bits, d, dir)
    [] jp.t = "U" -> BesideU(jp, d, dir)

\* The first digit in direction dir, seen from outside the branch.
Edge(dir) == IF dir = 1 THEN -1 ELSE Radix

LimitL(jp, dir) == IF dir = 1 THEN jp.exp[1] ELSE jp.exp[Len(jp.exp)]
LimitB(bits, dir) == Nearest(SubexpBits(bits, Nearest({Subexp(d) : d \in bits}, dir)), dir)
LimitU(jp, dir) == BesideU(jp, Edge(dir), dir)

Limit(jp, dir) ==
  CASE jp.t = "L" -> LimitL(jp, dir)
    [] jp.t = "B" -> LimitB(jp.bits, dir)
    [] jp.t = "U" -> LimitU(jp, dir)

\* The index at offset off of a leaf or an immediate.
AtOffset(jp, ix, off) == Found(SetDigits(ix, jp.keys[off + 1], jp.l), jp.vals[off + 1])

LimitOffset(jp, dir) == IF dir = 1 THEN 0 ELSE Len(jp.keys) - 1

\* The index of digit d of a bitmap leaf.
AtDigit(jp, ix, d) == Found(SetDigit(ix, d, 1), GetLeafB1(jp, ix, d).v)

-----------------------------------------------------------------------------
RECURSIVE SM3Findlimit(_, _, _)

SM3Branch(jp, ix, d, dir) ==
  SM3Findlimit(BranchJP(jp, d), SetDigit(SetDcd(ix, jp), d, jp.l), dir)

SM3Leaf(jp, ix, dir) == AtOffset(jp, SetDcd(ix, jp), LimitOffset(jp, dir))

SM3LeafB1(jp, ix, dir) == AtDigit(jp, SetDcd(ix, jp), LimitB(jp.bits, dir))

SM3FullPopU1(jp, ix, dir) ==
  Found(SetDigit(SetDcd(ix, jp), IF dir = 1 THEN 0 ELSE Radix - 1, 1), NoValue)

SM3Immed(jp, ix, dir) == AtOffset(jp, ix, LimitOffset(jp, dir))

SM3Findlimit(jp, ix, dir) ==
  CASE jp.t \in {"L", "B", "U"} -> SM3Branch(jp, ix, Limit(jp, dir), dir)
    [] jp.t = "leaf"  -> SM3Leaf(jp, ix, dir)
    [] jp.t = "B1"    -> SM3LeafB1(jp, ix, dir)
    [] jp.t = "full"  -> SM3FullPopU1(jp, ix, dir)
    [] jp.t = "immed" -> SM3Immed(jp, ix, dir)

RECURSIVE SM2Backtrack(_, _, _)

\* Digit e beside the one the walk came through, or further back.
SM2Branch(hist, ix, jp, e, dir) ==
  IF e = -1 THEN SM2Backtrack(Front(hist), ix, dir)
  ELSE SM3Findlimit(BranchJP(jp, e), SetDigit(ix, e, jp.l), dir)

SM2Backtrack(hist, ix, dir) ==
  IF hist = <<>> THEN NotFound
  ELSE SM2Branch(hist, ix, Last(hist).jp, Beside(Last(hist).jp, Last(hist).d, dir), dir)

RECURSIVE SM1Get(_, _, _, _)

\* *Variant*: Prev and Next are taken for each other.
SM1OutlierSwapped(jp, ix, hist, dir) ==
  IF IF dir = 1 THEN DcdAt(ix, jp.l) < jp.dcd ELSE DcdAt(ix, jp.l) > jp.dcd
    THEN SM2Backtrack(hist, ix, dir)
    ELSE SM3Findlimit(jp, ix, dir)

\* CHECKDCD: what is below the pointer lies before or behind the index.
SM1Outlier(jp, ix, hist, dir) ==
  IF IF dir = 1 THEN DcdAt(ix, jp.l) > jp.dcd ELSE DcdAt(ix, jp.l) < jp.dcd
    THEN SM2Backtrack(hist, ix, dir)
    ELSE SM3Findlimit(jp, ix, dir)

\* The digit has no JP: the one beside it, or back.
SM1Sideways(jp, ix, hist, e, dir) ==
  IF e = -1 THEN SM2Backtrack(hist, ix, dir)
  ELSE SM3Findlimit(BranchJP(jp, e), SetDigit(ix, e, jp.l), dir)

SM1BranchL(jp, ix, hist, d, dir) ==
  LET off == SearchLeaf(jp.exp, d) IN
  IF off >= 0 THEN SM1Get(jp.jps[off + 1], ix, Append(hist, [jp |-> jp, d |-> d]), dir)
  ELSE SM1Sideways(jp, ix, hist, BesideL(jp, off, dir), dir)

SM1BranchB(jp, ix, hist, d, dir) ==
  IF d \in jp.bits THEN SM1Get(BranchJP(jp, d), ix, Append(hist, [jp |-> jp, d |-> d]), dir)
  ELSE SM1Sideways(jp, ix, hist, BesideBits(jp.bits, d, dir), dir)

SM1BranchU(jp, ix, hist, d, dir) ==
  IF jp.jps[d].t # "null" THEN SM1Get(jp.jps[d], ix, Append(hist, [jp |-> jp, d |-> d]), dir)
  ELSE SM1Sideways(jp, ix, hist, BesideU(jp, d, dir), dir)

\* SM1LeafLImm: the index, or the one beside where it belongs.
SM1LeafBeside(jp, ix, hist, o, dir) ==
  IF o \in 0..Len(jp.keys) - 1 THEN AtOffset(jp, ix, o) ELSE SM2Backtrack(hist, ix, dir)

SM1LeafLImm(jp, ix, hist, off, dir) ==
  IF off >= 0 THEN Found(ix, jp.vals[off + 1])
  ELSE SM1LeafBeside(jp, ix, hist, IF dir = 1 THEN -1 - off ELSE -2 - off, dir)

SM1LeafB1(jp, ix, hist, d, dir) ==
  LET e == BesideBits(jp.bits, d, dir) IN
  IF d \in jp.bits THEN AtDigit(jp, ix, d)
  ELSE IF e = -1 THEN SM2Backtrack(hist, ix, dir) ELSE AtDigit(jp, ix, e)

\* SM1IMM_01 compares all digits that the JP has.
Immed01Offset(jp, ix) ==
  LET k == jp.keys[1] IN
  IF k < TrimToDcdSize(ix) THEN -2 ELSE IF k = TrimToDcdSize(ix) THEN 0 ELSE -1

SM1Get(jp, ix, hist, dir) ==
  CASE jp.t = "immed" ->
         SM1LeafLImm(jp, ix, hist, IF Len(jp.keys) = 1 THEN Immed01Offset(jp, ix)
                                   ELSE SearchLeaf(jp.keys, LeastBytes(ix, jp.l)), dir)
    [] Narrow(jp) /\ DcdNotMatchIndex(ix, jp) -> SM1Outlier(jp, ix, hist, dir)
    [] jp.t = "L" -> SM1BranchL(jp, ix, hist, DigitAtState(ix, jp.l), dir)
    [] jp.t = "B" -> SM1BranchB(jp, ix, hist, DigitAtState(ix, jp.l), dir)
    [] jp.t = "U" -> SM1BranchU(jp, ix, hist, DigitAtState(ix, jp.l), dir)
    [] jp.t = "leaf" -> SM1LeafLImm(jp, ix, hist, SearchLeaf(jp.keys, LeastBytes(ix, jp.l)), dir)
    [] jp.t = "B1"   -> SM1LeafB1(jp, ix, hist, DigitAtState(ix, 1), dir)
    [] jp.t = "full" -> Found(ix, NoValue)

NeighbourLeafW(root, ix, off, dir) ==
  LET o == IF off >= 0 THEN off ELSE IF dir = 1 THEN -1 - off ELSE -2 - off IN
  IF o \in 0..Len(root.keys) - 1 THEN Found(root.keys[o + 1], root.vals[o + 1]) ELSE NotFound

\* From ix on; Prev and Next start beside the index they are given.
NeighbourFrom(root, ix, dir) ==
  CASE root.t = "empty" \/ ix \notin Index -> NotFound
    [] root.t = "leafw" -> NeighbourLeafW(root, ix, SearchLeaf(root.keys, ix), dir)
    [] root.t = "jpm"   -> SM1Get(root.jp, ix, <<>>, dir)

\* Judy1Prev, JudyLPrev, Judy1Next, JudyLNext
Neighbour(root, ix, dir) == NeighbourFrom(root, ix + dir, dir)

\* Judy1First, JudyLFirst, Judy1Last, JudyLLast: the index itself, or beside it.
JudyFirst(root, ix) == IF JudyGet(root, ix).found THEN JudyGet(root, ix) ELSE Neighbour(root, ix, 1)

JudyLast(root, ix) == IF JudyGet(root, ix).found THEN JudyGet(root, ix) ELSE Neighbour(root, ix, -1)

-----------------------------------------------------------------------------
(* The nearest index that is not in the array (JudyPrevNextEmpty.c,          *)
(* JudyFirst.c).  dir is -1 for PrevEmpty and 1 for NextEmpty.  The walk     *)
(* ends with an index, or starts again beside a part of the array that it    *)
(* has seen to be full.                                                      *)

EmptyAt(ix) == Found(ix, NoValue)

\* A leaf whose order the search contradicts, or a read beyond the leaf.
Corrupt == [found |-> FALSE, corrupt |-> TRUE]

\* SMRESTART: from the edge of the expanse of the last l digits on.
EdgeOf(ix, l, dir) == ix - LeastBytes(ix, l) + IF dir = 1 THEN Radix^l - 1 ELSE 0

Restart(ix, l, dir) == [restart |-> EdgeOf(ix, l, dir)]

\* CLEARLEASTDIGITS_D, SETLEASTDIGITS_D: where the walk enters digit e.
EnterDigit(ix, e, l, dir) == SetDigit(EdgeOf(ix, l, -dir), e, l)

\* JPFULL, for a JP below a branch of level l.
JPFull(jp, l) ==
  IF l = 2 THEN IF Judy1 THEN jp.t = "full" ELSE jp.t = "B1" /\ jp.pop0 = Radix - 1
  ELSE jp.t \in {"L", "B", "U"} /\ jp.l = l - 1 /\ jp.pop0 = Radix^(l - 1) - 1

-----------------------------------------------------------------------------
\* LEAF_EDGE, LEAF_EDGE_SET: all indexes up to the last one k are there.
LeafEdge(ix, k, l, dir) ==
  IF k = LeastBytes(EdgeOf(0, l, dir), l) THEN Restart(ix, l, dir)
  ELSE EmptyAt(SetDigits(ix, k + dir, l))

\* The first number from k on that is not next in the leaf; -1 at its end.
RECURSIVE Hole(_, _, _, _)
Hole(keys, s, k, dir) ==
  IF s \notin DOMAIN keys THEN -1
  ELSE IF keys[s] = k THEN Hole(keys, s + dir, k + dir, dir) ELSE k

\* *Variant*: the position that was found is taken to hold the index.
LeafHoleNoTest(keys, s, ix, k, l, dir) ==
  LET p == Nearest({i \in DOMAIN keys : (i - s) * dir >= 0 /\ (keys[i] - k) * dir >= 0}, dir)
      h == Hole(keys, p, keys[p], dir)
  IN  IF p = -1 THEN Corrupt
      ELSE IF h = -1 THEN Corrupt ELSE EmptyAt(SetDigits(ix, h, l))

\* LEAF_HOLE_EVEN: from position s on to k or beyond it, and to the hole.
LeafHole(keys, s, ix, k, l, dir) ==
  LET p == Nearest({i \in DOMAIN keys : (i - s) * dir >= 0 /\ (keys[i] - k) * dir >= 0}, dir)
      h == Hole(keys, p, k, dir)
  IN  IF p = -1 THEN Corrupt
      ELSE IF keys[p] # k THEN EmptyAt(ix)
      ELSE IF h = -1 THEN Corrupt ELSE EmptyAt(SetDigits(ix, h, l))

\* JSLE_EVEN: the distance to the edge of the leaf tells where the index is
\* if nothing is missing up to there.
JSLEEven(keys, ix, k, l, dir) ==
  LET n    == Len(keys)
      edge == IF dir = 1 THEN keys[n] ELSE keys[1]
      far  == (edge - k) * dir
      slot == IF dir = 1 THEN n - far ELSE far + 1
  IN  IF far < 0 THEN EmptyAt(ix)
      ELSE IF far = 0 THEN LeafEdge(ix, edge, l, dir)
      ELSE IF far >= n THEN LeafHole(keys, IF dir = 1 THEN 1 ELSE n, ix, k, l, dir)
      ELSE IF keys[slot] = k THEN LeafEdge(ix, edge, l, dir)
      ELSE IF (keys[slot] - k) * dir > 0 THEN Corrupt
      ELSE LeafHole(keys, slot + dir, ix, k, l, dir)

\* JSLE_ODD: the index is searched for, and the hole from there.
JSLEOdd(keys, ix, k, l, dir, off) ==
  LET h == Hole(keys, off + 1 + dir, k + dir, dir) IN
  IF off < 0 THEN EmptyAt(ix)
  ELSE IF h = -1 THEN LeafEdge(ix, IF dir = 1 THEN keys[Len(keys)] ELSE keys[1], l, dir)
  ELSE EmptyAt(SetDigits(ix, h, l))

\* j__udySearchLeafEmpty1 .. j__udySearchLeafEmptyL
SearchLeafEmpty(keys, ix, k, l, dir) ==
  IF l \in {1, 2, 4, 8} THEN JSLEEven(keys, ix, k, l, dir)
  ELSE JSLEOdd(keys, ix, k, l, dir, SearchLeaf(keys, k))

EmptyImmed01(jp, ix, dir) ==
  IF jp.keys[1] # TrimToDcdSize(ix) THEN EmptyAt(ix)
  ELSE LeafEdge(ix, LeastBytes(jp.keys[1], jp.l), jp.l, dir)

EmptyLeafB1(jp, ix, d, dir) ==
  LET e == Nearest(Beyond(Digits, d, dir) \ jp.bits, dir) IN
  IF d \notin jp.bits THEN EmptyAt(ix)
  ELSE IF e = -1 THEN Restart(ix, 1, dir) ELSE EmptyAt(EnterDigit(ix, e, 1, dir))

EmptyFullPopU1(ix, dir) == Restart(ix, 1, dir)

-----------------------------------------------------------------------------
RECURSIVE EmptyWalk(_, _, _)

\* The digit e beside the one of the index where something is missing.
EmptyBeside(jp, ix, e, there, dir) ==
  IF e = -1 THEN Restart(ix, jp.l, dir)
  ELSE IF e \notin there THEN EmptyAt(EnterDigit(ix, e, jp.l, dir))
  ELSE EmptyWalk(BranchJP(jp, e), EnterDigit(ix, e, jp.l, dir), dir)

NotFull(jp, there, d, dir) ==
  Nearest({e \in Beyond(Digits, d, dir) : e \notin there \/ ~JPFull(BranchJP(jp, e), jp.l)}, dir)

\* SMBranchL, SMBranchB, SMBranchU: there are the digits that have a JP.
EmptyBranchL(jp, ix, d, dir) ==
  LET there == ToSet(jp.exp) IN
  IF d \notin there THEN EmptyAt(ix)
  ELSE IF ~JPFull(BranchJP(jp, d), jp.l) THEN EmptyWalk(BranchJP(jp, d), ix, dir)
  ELSE EmptyBeside(jp, ix, NotFull(jp, there, d, dir), there, dir)

EmptyBranchB(jp, ix, d, dir) ==
  IF d \notin jp.bits THEN EmptyAt(ix)
  ELSE IF ~JPFull(BranchJP(jp, d), jp.l) THEN EmptyWalk(BranchJP(jp, d), ix, dir)
  ELSE EmptyBeside(jp, ix, NotFull(jp, jp.bits, d, dir), jp.bits, dir)

EmptyBranchU(jp, ix, d, dir) ==
  LET there == {e \in Digits : jp.jps[e].t # "null"} IN
  IF d \notin there THEN EmptyAt(ix)
  ELSE IF ~JPFull(jp.jps[d], jp.l) THEN EmptyWalk(jp.jps[d], ix, dir)
  ELSE EmptyBeside(jp, ix, NotFull(jp, there, d, dir), there, dir)

\* SMGetContinue
EmptyWalk(jp, ix, dir) ==
  CASE jp.t = "immed" -> IF Len(jp.keys) = 1 THEN EmptyImmed01(jp, ix, dir)
                         ELSE SearchLeafEmpty(jp.keys, ix, LeastBytes(ix, jp.l), jp.l, dir)
    [] Narrow(jp) /\ DcdNotMatchIndex(ix, jp) -> EmptyAt(ix)
    [] jp.t = "L" -> EmptyBranchL(jp, ix, DigitAtState(ix, jp.l), dir)
    [] jp.t = "B" -> EmptyBranchB(jp, ix, DigitAtState(ix, jp.l), dir)
    [] jp.t = "U" -> EmptyBranchU(jp, ix, DigitAtState(ix, jp.l), dir)
    [] jp.t = "leaf" -> SearchLeafEmpty(jp.keys, ix, LeastBytes(ix, jp.l), jp.l, dir)
    [] jp.t = "B1"   -> EmptyLeafB1(jp, ix, DigitAtState(ix, 1), dir)
    [] jp.t = "full" -> EmptyFullPopU1(ix, dir)

\* SMGetRestart: a root leaf is searched as a leaf of whole words, which
\* have a power of two of digits.
EmptyStep(root, ix, dir) ==
  CASE root.t = "empty" -> EmptyAt(ix)
    [] root.t = "leafw" -> JSLEEven(root.keys, ix, ix, RootState, dir)
    [] root.t = "jpm"   -> EmptyWalk(root.jp, ix, dir)

RECURSIVE EmptyFrom(_, _, _)
EmptyFrom(root, ix, dir) ==
  IF ix \notin Index THEN NotFound
  ELSE LET r == EmptyStep(root, ix, dir) IN
       IF "restart" \in DOMAIN r THEN EmptyFrom(root, r.restart + dir, dir) ELSE r

\* Judy1PrevEmpty, JudyLPrevEmpty, Judy1NextEmpty, JudyLNextEmpty
NeighbourEmpty(root, ix, dir) == EmptyFrom(root, ix + dir, dir)

\* Judy1FirstEmpty, JudyLFirstEmpty
JudyFirstEmpty(root, ix) == IF JudyGet(root, ix).found THEN NeighbourEmpty(root, ix, 1) ELSE EmptyAt(ix)

\* Judy1LastEmpty, JudyLLastEmpty
JudyLastEmpty(root, ix) == IF JudyGet(root, ix).found THEN NeighbourEmpty(root, ix, -1) ELSE EmptyAt(ix)

-----------------------------------------------------------------------------
(****************************************************************************)
(* Counting the indexes of a range (JudyCount.c) and finding the index of a *)
(* given rank (JudyByCount.c), from the populations that the JPs keep.      *)
(****************************************************************************)
\* j__udyJPPop1, summed over the JPs of some digits of a branch.
PopsOf(jp, ds) == [i \in DOMAIN ds |-> Pop1(BranchJP(jp, ds[i]))]

\* The digits of a branch above d, and those up to d.
Above(jp, d) == SelectSeq(BranchDigits(jp), LAMBDA e : e > d)
UpTo(jp, d)  == SelectSeq(BranchDigits(jp), LAMBDA e : e <= d)

\* CLPERJPS: cache lines below and above the one of digit d.
CacheLines(n) == (n + JPsPerCL - 1) \div JPsPerCL

LinesOf(bits, subs) == SumSeq([i \in DOMAIN subs |-> CacheLines(Cardinality(SubexpBits(bits, subs[i])))])

LinesBelow(bits, d) ==
  LinesOf(bits, SelectSeq(Populated(bits), LAMBDA s : s < Subexp(d)))
    + CacheLines(BitOffset(bits, d)) - 1

LinesAbove(bits, d) ==
  LinesOf(bits, SelectSeq(Populated(bits), LAMBDA s : s >= Subexp(d))) - CacheLines(BitOffset(bits, d))

\* The offset of a digit of a bitmap leaf, from the nearer end.
CountLeafB1(jp, d) ==
  IF Subexp(d) < Cardinality(Subexps) \div 2
    THEN Cardinality({e \in jp.bits : e <= d}) - 1
    ELSE jp.pop0 + 1 - Cardinality({e \in jp.bits : e >= d})

\* The indexes at or above ix, which is there.
RECURSIVE CountSM(_, _, _)

CountBranchL(jp, ix, pop1, d) ==
  SumSeq(PopsOf(jp, Above(jp, d))) + CountSM(BranchJP(jp, d), ix, pop1)

CountBranchB(jp, ix, pop1, d) ==
  CountSM(BranchJP(jp, d), ix, pop1)
    + IF LinesBelow(jp.bits, d) < LinesAbove(jp.bits, d)
        THEN pop1 - SumSeq(PopsOf(jp, UpTo(jp, d)))
        ELSE SumSeq(PopsOf(jp, Above(jp, d)))

\* *Variant*: from the lower end, the JP of the digit is not taken away.
CountBranchUKept(jp, ix, pop1, d) ==
  CountSM(BranchJP(jp, d), ix, pop1)
    + IF d < Radix \div 2 THEN pop1 - SumSeq(PopsOf(jp, UpTo(jp, d - 1)))
                          ELSE SumSeq(PopsOf(jp, Above(jp, d)))

CountBranchU(jp, ix, pop1, d) ==
  CountSM(BranchJP(jp, d), ix, pop1)
    + IF d < Radix \div 2 THEN pop1 - SumSeq(PopsOf(jp, UpTo(jp, d)))
                          ELSE SumSeq(PopsOf(jp, Above(jp, d)))

CountLeaf(jp, ix) == Len(jp.keys) - SearchLeaf(jp.keys, LeastBytes(ix, jp.l))

\* The root branch has the population of the array.
BranchPop1(jp, pop1) == IF jp.l = RootState THEN pop1 ELSE jp.pop0 + 1

CountSM(jp, ix, pop1) ==
  CASE jp.t = "L" -> CountBranchL(jp, ix, pop1, DigitAtState(ix, jp.l))
    [] jp.t = "B" -> CountBranchB(jp, ix, BranchPop1(jp, pop1), DigitAtState(ix, jp.l))
    [] jp.t = "U" -> CountBranchU(jp, ix, BranchPop1(jp, pop1), DigitAtState(ix, jp.l))
    [] jp.t = "leaf"  -> CountLeaf(jp, ix)
    [] jp.t = "B1"    -> jp.pop0 + 1 - CountLeafB1(jp, DigitAtState(ix, 1))
    [] jp.t = "full"  -> Radix - DigitAtState(ix, 1)
    [] jp.t = "immed" -> IF Len(jp.keys) = 1 THEN 1 ELSE CountLeaf(jp, ix)

RootPop1(root) == IF root.t = "leafw" THEN Len(root.keys) ELSE root.pop0 + 1

\* The indexes from the first one at or above ix on; none when it is not there.
CountFrom(root, first) ==
  IF ~first.found THEN 0
  ELSE IF root.t = "leafw" THEN Len(root.keys) - SearchLeaf(root.keys, first.ix)
  ELSE CountSM(root.jp, first.ix, root.pop0 + 1)

\* Judy1Count, JudyLCount
Count(root, i1, i2) ==
  CASE root.t = "empty" \/ i1 > i2 -> 0
    [] root.t # "empty" /\ i1 = i2 -> IF JudyGet(root, i1).found THEN 1 ELSE 0
    [] OTHER ->
         LET above1 == IF i1 = 0 THEN RootPop1(root) ELSE CountFrom(root, JudyFirst(root, i1)) IN
         IF above1 = 0 \/ i2 + 1 \notin Index THEN above1
         ELSE above1 - CountFrom(root, JudyFirst(root, i2 + 1))

-----------------------------------------------------------------------------
(***************************************************************************)
(* ByCount.  The part with rank c0 (from 0) is looked for from the nearer  *)
(* end; lower is the population below the parts that are looked at.        *)
(***************************************************************************)
LowerHalf(c0, lower, pop1) == c0 - lower < pop1 \div 2

RECURSIVE Upward(_, _, _, _)
Upward(pops, i, c0, lower) ==
  IF i > Len(pops) THEN [at |-> 0, lower |-> lower]
  ELSE IF lower + pops[i] > c0 THEN [at |-> i, lower |-> lower]
  ELSE Upward(pops, i + 1, c0, lower + pops[i])

\* lower includes the parts up to i.
RECURSIVE Downward(_, _, _, _)
Downward(pops, i, c0, lower) ==
  IF i = 0 THEN [at |-> 0, lower |-> lower]
  ELSE IF lower - pops[i] = 0 \/ lower - pops[i] - 1 < c0 THEN [at |-> i, lower |-> lower - pops[i]]
  ELSE Downward(pops, i - 1, c0, lower - pops[i])

FromNearerEnd(pops, c0, lower, pop1) ==
  IF LowerHalf(c0, lower, pop1) THEN Upward(pops, 1, c0, lower)
                                ELSE Downward(pops, Len(pops), c0, lower + pop1)

RECURSIVE SMByCount(_, _, _, _, _)

\* The JP at position p.at of the digits ds of the branch.
ByCountBelow(jp, ix, c0, ds, p) ==
  IF p.at = 0 THEN Corrupt
  ELSE SMByCount(BranchJP(jp, ds[p.at]), SetDigit(ix, ds[p.at], jp.l), c0, p.lower, 0)

ByCountBranchL(jp, ix, c0, lower) ==
  ByCountBelow(jp, ix, c0, jp.exp, Upward(PopsOf(jp, jp.exp), 1, c0, lower))

ByCountBranchB(jp, ix, c0, lower, pop1) ==
  ByCountBelow(jp, ix, c0, Ascending(jp.bits),
               FromNearerEnd(PopsOf(jp, Ascending(jp.bits)), c0, lower, pop1))

ByCountBranchU(jp, ix, c0, lower, pop1) ==
  ByCountBelow(jp, ix, c0, BranchDigits(jp),
               FromNearerEnd(PopsOf(jp, BranchDigits(jp)), c0, lower, pop1))

ByCountLeaf(jp, ix, c0, lower) == AtOffset(jp, SetDcd(ix, jp), c0 - lower)

ByCountImmed(jp, ix, c0, lower) == AtOffset(jp, ix, IF Len(jp.keys) = 1 THEN 0 ELSE c0 - lower)

\* The subexpanse of the bitmap leaf first, then the digit.
ByCountLeafB1(jp, ix, c0, lower) ==
  LET p == FromNearerEnd([i \in 1..Cardinality(Subexps) |-> Cardinality(SubexpBits(jp.bits, i - 1))],
                         c0, lower, jp.pop0 + 1)
  IN  IF p.at = 0 THEN Corrupt
      ELSE AtDigit(jp, SetDcd(ix, jp), Ascending(SubexpBits(jp.bits, p.at - 1))[c0 - p.lower + 1])

ByCountFullPopU1(jp, ix, c0, lower) == Found(SetDigit(SetDcd(ix, jp), c0 - lower, 1), NoValue)

SMByCount(jp, ix, c0, lower, pop1) ==
  CASE jp.t = "L" -> ByCountBranchL(jp, SetDcd(ix, jp), c0, lower)
    [] jp.t = "B" -> ByCountBranchB(jp, SetDcd(ix, jp), c0, lower, BranchPop1(jp, pop1))
    [] jp.t = "U" -> ByCountBranchU(jp, SetDcd(ix, jp), c0, lower, BranchPop1(jp, pop1))
    [] jp.t = "leaf"  -> ByCountLeaf(jp, ix, c0, lower)
    [] jp.t = "immed" -> ByCountImmed(jp, ix, c0, lower)
    [] jp.t = "B1"    -> ByCountLeafB1(jp, ix, c0, lower)
    [] jp.t = "full"  -> ByCountFullPopU1(jp, ix, c0, lower)

\* Judy1ByCount, JudyLByCount; ix is what *PIndex holds before.  Rank 0
\* wraps to the largest rank.
JudyByCount(root, count, ix) ==
  CASE root.t = "empty" \/ count = 0 -> NotFound
    [] root.t = "leafw" -> IF count > Len(root.keys) THEN NotFound
                           ELSE Found(root.keys[count], root.vals[count])
    [] root.t = "jpm"   -> IF count - 1 > root.pop0 THEN NotFound
                           ELSE SMByCount(root.jp, ix, count - 1, 0, root.pop0 + 1)
=============================================================================
