----------------------------- MODULE JudyDel -----------------------------
(****************************************************************************)
(* Judy1Unset and JudyLDel (JudyDel.c, JudyDecascade.c).  The operators     *)
(* named Del... are the cases of j__udyDelWalk, which is only called for an *)
(* index that is present.  It returns 1 when the index is gone, 2 when the  *)
(* linear branch it leaves has a single JP, and -1 when memory ran out.     *)
(****************************************************************************)
EXTENDS JudyIns

\* JU_DELETEINPLACE, JU_DELETECOPY: s without its element at offset off.
Deleted(s, off) == RemoveAt(s, off + 1)

-----------------------------------------------------------------------------
(***************************************************************************)
(* Compression: the indexes below a JP move to a linear leaf one level up. *)
(***************************************************************************)
\* The values of a bitmap leaf in the order of its digits.
B1Values(jp) ==
  IF Judy1 THEN [i \in 1..Cardinality(jp.bits) |-> NoValue]
           ELSE FlattenSeq([i \in 1..Cardinality(Subexps) |-> jp.vals[i - 1]])

\* j__udyLeaf1ToLeaf2 .. j__udyLeaf6ToLeaf7, j__udyLeaf7ToLeafW: the indexes
\* below jp, with prefix before their last l digits.  A JP that is not of
\* level l, a branch or a full JP is not expected, and gives no index.
LeafToLeaf(jp, l, prefix) ==
  CASE jp.t = "null" \/ jp.l # l -> <<>>
    [] jp.t = "B1"               -> [i \in 1..Cardinality(jp.bits) |-> prefix + Ascending(jp.bits)[i]]
    [] jp.t \in {"leaf", "immed"} -> [i \in DOMAIN jp.keys |-> prefix + LeastBytes(jp.keys[i], l)]
    [] OTHER                     -> <<>>

LeafToLeafValues(jp, l) ==
  CASE jp.t = "null" \/ jp.l # l -> <<>>
    [] jp.t = "B1"               -> B1Values(jp)
    [] jp.t \in {"leaf", "immed"} -> jp.vals
    [] OTHER                     -> <<>>

\* What the object of a leaf or an immediate occupies.
LeafWords(jp) ==
  CASE jp.t = "B1"    -> SumSeq(LeafB1Sizes(jp.bits))
    [] jp.t = "leaf"  -> JLLWords(jp.l, Len(jp.keys))
    [] jp.t = "immed" -> IF Len(jp.keys) = 1 THEN 0 ELSE JVWords(Len(jp.keys))
    [] OTHER          -> 0

\* The digits of a branch in increasing order, the JP of a digit, and what
\* the objects of the branch occupy.
BranchDigits(jp) ==
  CASE jp.t = "L" -> jp.exp
    [] jp.t = "B" -> Ascending(jp.bits)
    [] jp.t = "U" -> Ascending({d \in Digits : jp.jps[d].t # "null"})

BranchJP(jp, d) ==
  CASE jp.t = "L" -> jp.jps[CHOOSE i \in DOMAIN jp.exp : jp.exp[i] = d]
    [] jp.t = "B" -> jp.jps[Subexp(d)][BitOffset(jp.bits, d)]
    [] jp.t = "U" -> jp.jps[d]

BranchWords(jp) ==
  CASE jp.t = "L" -> JBLWords
    [] jp.t = "B" -> SumSeq(BranchBSizes(jp.bits))
    [] jp.t = "U" -> JBUWords

Gathered(jp, ds) ==
  FlattenSeq([i \in DOMAIN ds |->
                LeafToLeaf(BranchJP(jp, ds[i]), jp.l - 1, ds[i] * Radix^(jp.l - 1))])

GatheredValues(jp, ds) ==
  FlattenSeq([i \in DOMAIN ds |-> LeafToLeafValues(BranchJP(jp, ds[i]), jp.l - 1)])

\* The words released with a branch whose indexes were gathered.
GatheredWords(jp, ds) ==
  BranchWords(jp) + SumSeq([i \in DOMAIN ds |-> LeafWords(BranchJP(jp, ds[i]))])

\* JU_BRANCHL_COMPRESS, JU_BRANCHB_COMPRESS, JU_BRANCHU_COMPRESS
BranchToLeaf(jp, pm, ds) ==
  LET a == Alloc(pm, <<JLLWords(jp.l, LeafMax[jp.l])>>) IN
  IF ~a.ok THEN Result(-1, jp, a.pm)
  ELSE Result(1, Leaf(jp.l, jp.dcd, jp.pop0, Gathered(jp, ds), GatheredValues(jp, ds)),
              Free(a.pm, GatheredWords(jp, ds)))

\* j__udyBranchBToBranchL
BranchBToBranchL(jp, pm, ds) ==
  LET a == Alloc(pm, <<JBLWords>>) IN
  IF ~a.ok THEN Result(-1, jp, a.pm)
  ELSE Result(1, BranchL(jp.l, jp.dcd, jp.pop0, ds, [i \in DOMAIN ds |-> BranchJP(jp, ds[i])]),
              Free(a.pm, SumSeq(BranchBSizes(jp.bits))))

\* j__udyLeafB1ToLeaf1
LeafB1ToLeaf1(jp, pm) ==
  LET a == Alloc(pm, <<JLLWords(1, LeafMax[1])>>) IN
  IF ~a.ok THEN Result(-1, jp, a.pm)
  ELSE Result(1, Leaf(1, jp.dcd, jp.pop0, Ascending(jp.bits), B1Values(jp)),
              Free(a.pm, SumSeq(LeafB1Sizes(jp.bits))))

\* JU_LEAF_UPLEVEL: a leaf under a narrow pointer that fits a leaf of the
\* next level moves there; the digit it gains is the last one of its dcd.
UpLevel(jp, parent) ==
  /\ jp.l < parent - 1
  /\ jp.pop0 + 1 = LeafMax[jp.l + 1]

LeafUpLevel(jp, ix, pm) ==
  LET l == jp.l + 1
      a == Alloc(pm, <<JLLWords(l, LeafMax[l])>>)
  IN  IF ~a.ok THEN Result(-1, jp, a.pm)
      ELSE Result(1, Leaf(l, jp.dcd \div Radix, jp.pop0,
                          LeafToLeaf(jp, jp.l, DigitAtState(ix, l) * Radix^jp.l),
                          LeafToLeafValues(jp, jp.l)),
                  Free(a.pm, LeafWords(jp)))

-----------------------------------------------------------------------------
\* BranchLKeep, when the JP of the digit holds only the index.
DelBranchLJP(jp, pm, off) ==
  Result(IF Len(jp.exp) - 1 <= 1 THEN 2 ELSE 1,
         [jp EXCEPT !.exp = Deleted(@, off), !.jps = Deleted(@, off)], pm)

\* *Variant*: that the branch cannot be shrunk is reported as a failure.
ShrinkBranchBReported(jp, before, pm) ==
  IF before > BranchLMaxJPs THEN Result(1, jp, pm) ELSE BranchBToBranchL(jp, pm, Ascending(jp.bits))

\* BranchBKeep, when the JP of the digit holds only the index.  The branch
\* becomes a linear one when it had few JPs before this one went; that it
\* cannot when memory is short is ignored.
ShrinkBranchB(jp, before, pm) ==
  LET r == BranchBToBranchL(jp, pm, Ascending(jp.bits)) IN
  IF before > BranchLMaxJPs THEN Result(1, jp, pm) ELSE [r EXCEPT !.rc = 1]

DelBranchBJP(jp, d, pm) ==
  LET s == Subexp(d)
      n == Cardinality(SubexpBits(jp.bits, s))
      q == [jp EXCEPT !.bits = @ \ {d}, !.jps[s] = Deleted(@, BitOffset(jp.bits, d) - 1)]
      a == Alloc(pm, <<JBBJPWords(n - 1)>>)
  IN  IF n = 1 THEN ShrinkBranchB(q, Cardinality(jp.bits), Free(pm, JBBJPWords(1)))
      ELSE IF GrowInPlace(n - 1, BitsPerSubexp, JBBJPWords)
        THEN ShrinkBranchB(q, Cardinality(jp.bits), pm)
      ELSE IF ~a.ok THEN Result(-1, jp, a.pm)
      ELSE ShrinkBranchB(q, Cardinality(jp.bits), Free(a.pm, JBBJPWords(n)))

\* JU_LEAF_TOIMMED, JU_LEAF_TOIMMED_01: the leaf becomes an immediate.
DelLeafToImmed(jp, ix, pm, off) ==
  LET n    == Len(jp.keys) - 1
      keys == Deleted(jp.keys, off)
      vals == Deleted(jp.vals, off)
      a    == Alloc(pm, <<JVWords(n)>>)
  IN  IF n = 1 THEN Result(1, Immed01(jp.l, ix - LeastBytes(ix, jp.l) + keys[1], vals[1]),
                           Free(pm, JLLWords(jp.l, 2)))
      ELSE IF Judy1 THEN Result(1, Immed(jp.l, keys, vals), Free(pm, JLLWords(jp.l, n + 1)))
      ELSE IF ~a.ok THEN Result(-1, jp, a.pm)
      ELSE Result(1, Immed(jp.l, keys, vals), Free(a.pm, JLLWords(jp.l, n + 1)))

\* *Variant*: the old leaf is released with the size of the new one.
DelLeafShrinkNewSize(jp, pm, off) ==
  LET n == Len(jp.keys)
      q == [jp EXCEPT !.keys = Deleted(@, off), !.vals = Deleted(@, off)]
      a == Alloc(pm, <<JLLWords(jp.l, n - 1)>>)
  IN  IF GrowInPlace(n - 1, LeafMax[jp.l], LAMBDA i : JLLWords(jp.l, i)) THEN Result(1, q, pm)
      ELSE IF ~a.ok THEN Result(-1, jp, a.pm)
      ELSE Result(1, q, Free(a.pm, JLLWords(jp.l, n - 1)))

\* JU_LEAF_INPLACE, JU_LEAF_SHRINK
DelLeafShrink(jp, pm, off) ==
  LET n == Len(jp.keys)
      q == [jp EXCEPT !.keys = Deleted(@, off), !.vals = Deleted(@, off)]
      a == Alloc(pm, <<JLLWords(jp.l, n - 1)>>)
  IN  IF GrowInPlace(n - 1, LeafMax[jp.l], LAMBDA i : JLLWords(jp.l, i)) THEN Result(1, q, pm)
      ELSE IF ~a.ok THEN Result(-1, jp, a.pm)
      ELSE Result(1, q, Free(a.pm, JLLWords(jp.l, n)))

\* Bitmap leaf of Judy1, which becomes an immediate when it fits one.
DelLeafB1Set(jp, d, pm) ==
  LET rest == Ascending(jp.bits \ {d}) IN
  IF jp.pop0 = ImmedMax[1]
    THEN Result(1, Immed(1, rest, [i \in DOMAIN rest |-> NoValue]), Free(pm, JLB1Words))
    ELSE Result(1, [jp EXCEPT !.bits = @ \ {d}], pm)

\* Bitmap leaf of JudyL.
DelLeafB1Value(jp, d, pm) ==
  LET s == Subexp(d)
      n == Cardinality(SubexpBits(jp.bits, s))
      q == [jp EXCEPT !.bits = @ \ {d}, !.vals[s] = Deleted(@, BitOffset(jp.bits, d) - 1)]
      a == Alloc(pm, <<JVWords(n - 1)>>)
  IN  IF n = 1 THEN Result(1, q, Free(pm, JVWords(1)))
      ELSE IF GrowInPlace(n - 1, BitsPerSubexp, JVWords) THEN Result(1, q, pm)
      ELSE IF ~a.ok THEN Result(-1, jp, a.pm)
      ELSE Result(1, q, Free(a.pm, JVWords(n)))

\* A full JP becomes a bitmap leaf again.
DelFullPopU1(jp, d, pm) ==
  LET rest == Ascending(Digits \ {d})
      a    == Alloc(pm, <<JLB1Words>>)
  IN  IF ~a.ok THEN Result(-1, jp, a.pm)
      ELSE Result(1, LeafB1(jp.dcd, jp.pop0, rest, [i \in DOMAIN rest |-> NoValue]), a.pm)

\* JU_IMMED_01, only in an uncompressed branch.
DelImmed01(jp, pm) == Result(1, Null(jp.l), pm)

\* JU_IMMED_02
DelImmed02(jp, ix, pm) ==
  LET o == IF jp.keys[1] = LeastBytes(ix, jp.l) THEN 2 ELSE 1 IN
  Result(1, Immed01(jp.l, ix - LeastBytes(ix, jp.l) + jp.keys[o], jp.vals[o]), Free(pm, JVWords(2)))

\* JU_IMMED
DelImmed(jp, pm, off) ==
  LET n == Len(jp.keys)
      q == Immed(jp.l, Deleted(jp.keys, off), Deleted(jp.vals, off))
      a == Alloc(pm, <<JVWords(n - 1)>>)
  IN  IF Judy1 \/ GrowInPlace(n - 1, BitsPerSubexp, JVWords) THEN Result(1, q, pm)
      ELSE IF ~a.ok THEN Result(-1, jp, a.pm)
      ELSE Result(1, q, Free(a.pm, JVWords(n)))

-----------------------------------------------------------------------------
RECURSIVE DelWalk(_, _, _, _)

ContinueDelWalk(r, ix, parent) == IF r.rc = -1 THEN r ELSE DelWalk(r.jp, ix, parent, r.pm)

\* The end of j__udyDelWalk: the JP that lost the index has its population
\* decreased, or is replaced by the single JP of its linear branch.
Collapsed(r) ==
  CASE r.rc = 1 /\ r.jp.t \notin {"immed", "null"} -> Result(1, [r.jp EXCEPT !.pop0 = @ - 1], r.pm)
    [] r.rc = 2 -> Result(1, r.jp.jps[1], Free(r.pm, JBLWords))
    [] OTHER    -> r

Only(jp, l) == jp.t = "immed" /\ jp.l = l /\ Len(jp.keys) = 1

DelBranchL(jp, ix, pm, off) ==
  IF Only(jp.jps[off + 1], jp.l - 1) THEN DelBranchLJP(jp, pm, off)
  ELSE Below(Collapsed(DelWalk(jp.jps[off + 1], ix, jp.l, pm)), LAMBDA sub : [jp EXCEPT !.jps[off + 1] = sub])

DelBranchB(jp, ix, pm, d) ==
  IF Only(BranchJP(jp, d), jp.l - 1) THEN DelBranchBJP(jp, d, pm)
  ELSE Below(Collapsed(DelWalk(BranchJP(jp, d), ix, jp.l, pm)),
             LAMBDA sub : [jp EXCEPT !.jps[Subexp(d)][BitOffset(jp.bits, d)] = sub])

DelBranchU(jp, ix, pm, d) ==
  Below(Collapsed(DelWalk(jp.jps[d], ix, jp.l, pm)), LAMBDA sub : [jp EXCEPT !.jps[d] = sub])

\* JU_BRANCH_KEEP: a branch that fits a leaf is made one first.
DelBranch(jp, ix, parent, pm, d) ==
  IF jp.l < RootState /\ jp.pop0 + 1 <= LeafMax[jp.l]
    THEN ContinueDelWalk(BranchToLeaf(jp, pm, BranchDigits(jp)), ix, parent)
  ELSE CASE jp.t = "L" -> DelBranchL(jp, ix, pm, (CHOOSE i \in DOMAIN jp.exp : jp.exp[i] = d) - 1)
         [] jp.t = "B" -> DelBranchB(jp, ix, pm, d)
         [] jp.t = "U" -> DelBranchU(jp, ix, pm, d)

\* JU_LEAF
DelLeaf(jp, ix, parent, pm, off) ==
  IF UpLevel(jp, parent) THEN ContinueDelWalk(LeafUpLevel(jp, ix, pm), ix, parent)
  ELSE IF jp.pop0 = ImmedMax[jp.l] THEN DelLeafToImmed(jp, ix, pm, off)
  ELSE DelLeafShrink(jp, pm, off)

DelLeafB1(jp, ix, parent, pm, d) ==
  IF UpLevel(jp, parent) THEN ContinueDelWalk(LeafUpLevel(jp, ix, pm), ix, parent)
  ELSE IF Judy1 THEN DelLeafB1Set(jp, d, pm)
  ELSE IF jp.pop0 + 1 = LeafMax[1] THEN ContinueDelWalk(LeafB1ToLeaf1(jp, pm), ix, parent)
  ELSE DelLeafB1Value(jp, d, pm)

\* j__udyDelWalk, below a branch of level parent
DelWalk(jp, ix, parent, pm) ==
  CASE jp.t \in {"L", "B", "U"} -> DelBranch(jp, ix, parent, pm, DigitAtState(ix, jp.l))
    [] jp.t = "leaf" -> DelLeaf(jp, ix, parent, pm, SearchLeaf(jp.keys, LeastBytes(ix, jp.l)))
    [] jp.t = "B1"   -> DelLeafB1(jp, ix, parent, pm, DigitAtState(ix, 1))
    [] jp.t = "full" -> DelFullPopU1(jp, DigitAtState(ix, 1), pm)
    [] jp.t = "immed" ->
         CASE Len(jp.keys) = 1 -> DelImmed01(jp, pm)
           [] Len(jp.keys) = 2 -> DelImmed02(jp, ix, pm)
           [] OTHER -> DelImmed(jp, pm, SearchLeaf(jp.keys, LeastBytes(ix, jp.l)))

-----------------------------------------------------------------------------
DelLeafW(root, pm, off) ==
  LET n == Len(root.keys)
      q(w) == LeafW(Deleted(root.keys, off), Deleted(root.vals, off), w)
      a == Alloc(pm, <<JLWWords(n - 1)>>)
  IN  IF n = 1 THEN RootResult(1, Empty, Free(pm, root.words))
      ELSE IF GrowInPlace(n - 1, LeafWMax, JLWWords) THEN RootResult(1, q(root.words), pm)
      ELSE IF ~a.ok THEN RootResult(-1, root, a.pm)
      ELSE RootResult(1, q(JLWWords(n - 1)), Free(a.pm, root.words))

\* The array fits a root leaf again.  The index is gone whether or not the
\* leaf can be had.
JPMToLeafW(jp, pm, ds) ==
  LET a == Alloc(pm, <<JLWWords(LeafWMax)>>) IN
  IF ~a.ok THEN RootResult(-1, JPM(jp, pm.pop0, pm.lastU), a.pm)
  ELSE RootResult(1, LeafW(Gathered(jp, ds), GatheredValues(jp, ds), JLWWords(LeafWMax)),
                  Free(a.pm, JPMWords + GatheredWords(jp, ds)))

DelTree(r) ==
  IF r.rc = -1 THEN RootResult(-1, JPM(r.jp, r.pm.pop0, r.pm.lastU), r.pm)
  ELSE IF r.pm.pop0 # LeafWMax THEN RootResult(1, JPM(r.jp, r.pm.pop0 - 1, r.pm.lastU), r.pm)
  ELSE JPMToLeafW(r.jp, [r.pm EXCEPT !.pop0 = @ - 1], BranchDigits(r.jp))
=============================================================================
