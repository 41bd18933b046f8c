----------------------------- MODULE JudyBuild -----------------------------
(****************************************************************************)
(* An array from a list of indexes (JudyInsArray.c), the release of a whole *)
(* array (JudyFreeArray.c) and its size (JudyMemUsed.c, JudyMemActive.c).   *)
(****************************************************************************)
EXTENDS JudyWalk

Sorted(keys) == \A i \in 2..Len(keys) : keys[i - 1] < keys[i]

\* SAMESUBEXP: the first and the last index agree above their last l digits.
SameSubexp(keys, l) == keys[1] \div Radix^l = keys[Len(keys)] \div Radix^l

\* What a call of j__udyInsArray leaves: the parent's JP and the number n of
\* indexes stored; ok is FALSE after an error.
Built(ok, jp, n, pm) == [ok |-> ok, jp |-> jp, n |-> n, pm |-> pm]

\* SETJPNULL_PARENT, as in NOMEM and CHECKLEAFORDER
Failed(l, pm) == Built(FALSE, Null(l), 0, pm)

\* JPIMMED_*_02 and more
BuildImmed(l, keys, vals, pm) ==
  LET a == Alloc(pm, IF Judy1 THEN <<>> ELSE <<JVWords(Len(keys))>>) IN
  IF ~Sorted(keys) THEN Failed(l, pm)
  ELSE IF ~a.ok THEN Failed(l, a.pm)
  ELSE Built(TRUE, Immed(l, keys, vals), Len(keys), a.pm)

\* The highest level, up to l, at which n indexes fit a leaf, or 0.
LeafLevel(l, n) == Nearest({s \in 0..l : s = 0 \/ n <= LeafMax[s]}, -1)

\* A leaf of level s <= l, under a narrow pointer when s < l.
BuildLeaf(l, s, keys, vals, pm) ==
  LET a == Alloc(pm, <<JLLWords(s, Len(keys))>>) IN
  IF ~Sorted(keys) THEN Failed(l, pm)
  ELSE IF ~a.ok THEN Failed(l, a.pm)
  ELSE Built(TRUE, Leaf(s, DcdAt(keys[1], s), Len(keys) - 1, keys, vals), Len(keys), a.pm)

\* The bitmap leaf with the subexpanses whose values could be stored: the
\* first k that are populated.  One without any is not released; the caller
\* overwrites the JP.
KeptValues(keys, vals, pm, k) ==
  LET subs == Populated({LeastBytes(keys[i], 1) : i \in DOMAIN keys})
      n    == Len(SelectSeq(keys, LAMBDA x : k >= Len(subs) \/ Subexp(LeastBytes(x, 1)) < subs[k + 1]))
      jp   == LeafB1(DcdAt(keys[1], 1), n - 1, SubSeq(keys, 1, n), SubSeq(vals, 1, n))
  IN  IF n = 0 THEN Built(FALSE, Null(1), 0, Lost(pm, JLB1Words))
      ELSE Built(n = Len(keys), jp, n, Alloc(pm, Tail(LeafB1Sizes(jp.bits))).pm)

\* JPLEAF_B1 or JPFULLPOPU1.
BuildLeafB1(l, keys, vals, pm) ==
  LET a == Alloc(pm, <<JLB1Words>>) IN
  IF ~Sorted(keys) THEN Failed(l, pm)
  ELSE IF Judy1 /\ Len(keys) = Radix THEN Built(TRUE, FullPopU1(DcdAt(keys[1], 1)), Radix, pm)
  ELSE IF ~a.ok THEN Failed(l, a.pm)
  ELSE IF Judy1 THEN Built(TRUE, LeafB1(DcdAt(keys[1], 1), Len(keys) - 1, keys, vals), Len(keys), a.pm)
  ELSE KeptValues(keys, vals, a.pm, a.pm.left)

-----------------------------------------------------------------------------
\* The branch that was built uncompressed, in the form that suits it.
CompressBranch(jp, n, pm, ds) ==
  LET small == Len(ds) <= BranchLMaxJPs
      a     == Alloc(pm, IF small THEN <<JBLWords>> ELSE BranchBSizes(ToSet(ds)))
      jps   == [i \in DOMAIN ds |-> jp.jps[ds[i]]]
  IN  IF n > (IF small THEN BranchLMaxPop ELSE BranchBMaxPop) THEN [jp |-> jp, pm |-> pm]
      ELSE IF ~a.ok THEN [jp |-> jp, pm |-> a.pm]
      ELSE [jp |-> IF small THEN BranchL(jp.l, jp.dcd, jp.pop0, ds, jps)
                            ELSE BranchB(jp.l, jp.dcd, jp.pop0, ds, jps),
            pm |-> Free(a.pm, JBUWords)]

\* SetParent, when n indexes of the list are below the branch.  key is what
\* PIndex points to.
FinishBranch(l, s, r, n) ==
  LET jp == BranchU(s, IF l = RootState THEN 0 ELSE DcdAt(r.key, s),
                    IF l = RootState THEN 0 ELSE n - 1, r.at)
      c  == CompressBranch(jp, n, r.pm, BranchDigits(jp))
  IN  IF n = 0 THEN Failed(l, Free(r.pm, JBUWords)) ELSE Built(r.ok, c.jp, n, c.pm)

\* The length of the run of indexes at the front that have digit d at level s.
RunLength(keys, s, d) ==
  Nearest({n \in 0..Len(keys) : \A i \in 1..n : DigitAtState(keys[i], s) = d}, -1)

RECURSIVE InsArray(_, _, _, _)
RECURSIVE BuildDigits(_, _, _, _, _, _, _)

\* The loop over the digits of a branch of level s.  at are the JPs so far,
\* rest counts the indexes that are not stored.
BuildRun(s, d, keys, vals, at, pm, n) ==
  LET sub == IF n = 1 THEN Built(TRUE, Immed01(s - 1, keys[1], vals[1]), 1, pm)
             ELSE InsArray(s - 1, SubSeq(keys, 1, n), SubSeq(vals, 1, n), pm)
      put == IF sub.n = 0 THEN at ELSE [at EXCEPT ![d] = sub.jp]
  IN  IF sub.ok THEN BuildDigits(s, d + 1, SubSeq(keys, n + 1, Len(keys)),
                                 SubSeq(vals, n + 1, Len(vals)), put, sub.pm, keys[1])
      ELSE [ok |-> FALSE, at |-> put, rest |-> Len(keys) - sub.n, pm |-> sub.pm, key |-> keys[1]]

BuildDigits(s, d, keys, vals, at, pm, key) ==
  CASE keys = <<>> -> [ok |-> TRUE, at |-> at, rest |-> 0, pm |-> pm, key |-> key]
    [] keys # <<>> /\ (d = Radix \/ d > DigitAtState(keys[1], s)) ->
         [ok |-> FALSE, at |-> at, rest |-> Len(keys), pm |-> pm, key |-> keys[1]]
    [] keys # <<>> /\ d < DigitAtState(keys[1], s) -> BuildDigits(s, d + 1, keys, vals, at, pm, keys[1])
    [] OTHER -> BuildRun(s, d, keys, vals, at, pm, RunLength(keys, s, d))

\* BuildBranch: at the lowest level at which the first and the last index differ.
BranchLevel(l, keys) ==
  IF l = RootState THEN l
  ELSE Nearest({s \in 2..l : s = l \/ SameSubexp(keys, s)}, 1)

BuildBranch(l, s, keys, vals, pm) ==
  LET a == Alloc(pm, <<JBUWords>>)
      r == BuildDigits(s, 0, keys, vals, [d \in Digits |-> Null(s - 1)], a.pm, keys[1])
  IN  IF ~a.ok THEN Failed(l, a.pm) ELSE FinishBranch(l, s, r, Len(keys) - r.rest)

\* j__udyInsArray: a JP of level l for a list of indexes.
InsArray(l, keys, vals, pm) ==
  LET n == Len(keys)
      s == IF l = RootState THEN 0 ELSE LeafLevel(l, n)
  IN  CASE l < RootState /\ n <= ImmedMax[l] -> BuildImmed(l, keys, vals, pm)
        [] l < RootState /\ n > ImmedMax[l] /\ s > 0 /\ (s = l \/ SameSubexp(keys, s)) ->
             BuildLeaf(l, s, keys, vals, pm)
        [] l < RootState /\ n > ImmedMax[l] /\ s = 0 /\ (l = 1 \/ SameSubexp(keys, 1)) ->
             BuildLeafB1(l, keys, vals, pm)
        [] OTHER -> BuildBranch(l, BranchLevel(l, keys), keys, vals, pm)

\* The JPM after j__udyInsArray: what is stored remains after an error.
BuildTree(r) ==
  IF r.n = 0 THEN RootResult(-1, Empty, Free(r.pm, JPMWords))
  ELSE RootResult(IF r.ok THEN 1 ELSE -1, JPM(r.jp, r.n - 1, 0), r.pm)

\* A root leaf is allocated for one index more than it gets.
BuildLeafW(keys, vals, pm) ==
  LET words == JLWWords(Len(keys) + 1)
      a     == Alloc(pm, <<words>>)
  IN  IF ~Sorted(keys) THEN RootResult(-1, Empty, pm)
      ELSE IF keys = <<>> THEN RootResult(1, Empty, pm)
      ELSE IF ~a.ok THEN RootResult(-1, Empty, a.pm)
      ELSE RootResult(1, LeafW(keys, vals, words), a.pm)

\* Judy1SetArray, JudyLInsArray
JudyInsArray(root, keys, vals, pm) ==
  LET a == Alloc(pm, <<JPMWords>>) IN
  IF root.t # "empty" THEN RootResult(-1, root, pm)
  ELSE IF Len(keys) <= LeafWMax THEN BuildLeafW(keys, vals, pm)
  ELSE IF ~a.ok THEN RootResult(-1, Empty, a.pm)
  ELSE BuildTree(InsArray(RootState, keys, vals, a.pm))

-----------------------------------------------------------------------------
\* j__udyFreeSM: the words released with the objects below a JP.
RECURSIVE FreeSM(_)
FreeSM(jp) ==
  IF jp.t \in {"L", "B", "U"}
    THEN BranchWords(jp) + SumSeq([i \in DOMAIN BranchDigits(jp) |->
                                     FreeSM(BranchJP(jp, BranchDigits(jp)[i]))])
    ELSE LeafWords(jp)

\* What the root is after JudyFreeArray has found the array corrupt: the
\* objects are released, and it still refers to them.
Dangling == [t |-> "dangling"]

Footprint(root) ==
  CASE root.t \in {"empty", "dangling"} -> 0
    [] root.t = "leafw" -> root.words
    [] root.t = "jpm"   -> JPMWords + FreeSM(root.jp)

\* Judy1FreeArray, JudyLFreeArray.  total is jpm_TotalMemWords; the root stays
\* when that is not what was released.
JudyFreeArray(root, live, total) ==
  LET corrupt == root.t = "jpm" /\ total # Footprint(root) IN
  [rc   |-> IF corrupt THEN -1 ELSE IF root.t = "empty" THEN 0 ELSE 1,
   root |-> IF corrupt THEN Dangling ELSE Empty,
   live |-> live - Footprint(root), lost |-> 0]

\* Judy1MemUsed, JudyLMemUsed, in words
MemUsed(root, total) ==
  CASE root.t = "empty" -> 0
    [] root.t = "leafw" -> JLWWords(Len(root.keys))
    [] root.t = "jpm"   -> total

\* j__udyGetMemActive, in bytes of which a word has one per digit
LeafBytes(jp) ==
  CASE jp.t = "leaf"  -> (jp.l + ValueWords(RootState)) * (jp.pop0 + 1)
    [] jp.t = "B1"    -> RootState * (JLB1Words + ValueWords(jp.pop0 + 1))
    [] jp.t = "immed" -> IF Len(jp.keys) = 1 THEN 0 ELSE RootState * ValueWords(Len(jp.keys))
    [] OTHER          -> 0

RECURSIVE GetMemActive(_)
GetMemActive(jp) ==
  IF jp.t \in {"L", "B", "U"}
    THEN SumSeq([i \in DOMAIN BranchDigits(jp) |-> GetMemActive(BranchJP(jp, BranchDigits(jp)[i]))])
           + RootState * (CASE jp.t = "L" -> JBLWords
                            [] jp.t = "B" -> JBBWords + 2 * Cardinality(jp.bits)
                            [] jp.t = "U" -> JBUWords)
    ELSE LeafBytes(jp)

\* Judy1MemActive, JudyLMemActive
MemActive(root) ==
  CASE root.t = "empty" -> 0
    [] root.t = "leafw" -> RootState * (1 + Len(root.keys) + ValueWords(Len(root.keys)))
    [] root.t = "jpm"   -> GetMemActive(root.jp) + RootState * JPMWords
=============================================================================
