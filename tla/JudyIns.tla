----------------------------- MODULE JudyIns -----------------------------
(***************************************************************************)
(* Judy1Set and JudyLIns (JudyIns.c).  The operators named Ins... are the  *)
(* cases of j__udyInsWalk; v is the value that the caller stores through   *)
(* the pointer JudyLIns returns.  A value is therefore written where the   *)
(* code leaves jpm_PValue.                                                 *)
(***************************************************************************)
EXTENDS JudyTree

Inserted(s, off, x) == InsertAt(s, -off, x)

\* JPNULL becomes an immediate with one index.
InsNull(jp, ix, v, pm) == Result(1, Immed01(jp.l, ix, v), pm)

\* ConvertBranchLtoU
ConvertBranchLtoU(jp, pm) ==
  LET a == Alloc(pm, <<JBUWords>>) IN
  IF ~a.ok THEN Result(-1, jp, a.pm)
  ELSE Result(1, BranchU(jp.l, jp.dcd, jp.pop0,
                         [d \in Digits |-> IF d \in ToSet(jp.exp)
                                             THEN jp.jps[CHOOSE i \in DOMAIN jp.exp : jp.exp[i] = d]
                                             ELSE Null(jp.l - 1)]),
              [Free(a.pm, JBLWords) EXCEPT !.lastU = pm.pop0])

\* The population below a branch: the root branch takes it from the JPM.
ExpPop(jp, pm) == IF jp.l = RootState THEN pm.pop0 ELSE jp.pop0

\* A bitmap branch becomes an uncompressed one when the array has grown
\* enough since the last time, is large, and the branch is populated.
BtoU(jp, pm) ==
  /\ pm.pop0 - pm.lastU > BtoUPopIncrement
  /\ pm.pop0 > BranchBMaxPop
  /\ ExpPop(jp, pm) > BranchBMinPop

\* A digit that the bitmap branch does not have yet.
InsBranchBNew(jp, ix, v, pm, d) ==
  LET s == Subexp(d)
      n == Cardinality(SubexpBits(jp.bits, s))
      q == [jp EXCEPT !.bits = @ \cup {d},
                      !.jps[s] = InsertAt(@, BitOffset(jp.bits, d), Immed01(jp.l - 1, ix, v))]
      a == Alloc(pm, <<JBBJPWords(n + 1)>>)
  IN  IF GrowInPlace(n, BitsPerSubexp, JBBJPWords) /\ n > 0 THEN Result(1, q, pm)
      ELSE IF ~a.ok THEN Result(-1, jp, a.pm)
      ELSE Result(1, q, IF n = 0 THEN a.pm ELSE Free(a.pm, JBBJPWords(n)))

\* JU_LEAFGROW: into the leaf, or into a larger one.
InsLeafGrow(jp, ix, v, pm, off) ==
  LET n == Len(jp.keys)
      q == [jp EXCEPT !.keys = Inserted(@, off, LeastBytes(ix, jp.l)), !.vals = Inserted(@, off, v)]
      a == Alloc(pm, <<JLLWords(jp.l, n + 1)>>)
  IN  IF GrowInPlace(n, LeafMax[jp.l], LAMBDA i : JLLWords(jp.l, i)) THEN Result(1, q, pm)
      ELSE IF ~a.ok THEN Result(-1, jp, a.pm)
      ELSE Result(1, q, Free(a.pm, JLLWords(jp.l, n)))

\* Bitmap leaf of Judy1; the last index makes it the full population.
InsLeafB1Set(jp, ix, pm) ==
  LET d == DigitAtState(ix, 1) IN
  IF d \in jp.bits THEN Result(0, jp, pm)
  ELSE IF jp.pop0 + 1 < Radix - 1 THEN Result(1, [jp EXCEPT !.bits = @ \cup {d}], pm)
  ELSE Result(1, [FullPopU1(jp.dcd) EXCEPT !.pop0 = jp.pop0], Free(pm, JLB1Words))

\* Bitmap leaf of JudyL: a value goes into the value area of its subexpanse.
InsLeafB1Value(jp, ix, v, pm) ==
  LET d   == DigitAtState(ix, 1)
      s   == Subexp(d)
      n   == Cardinality(SubexpBits(jp.bits, s))
      off == BitOffset(jp.bits, d)
      q   == [jp EXCEPT !.bits = @ \cup {d}, !.vals[s] = InsertAt(@, off, v)]
      a   == Alloc(pm, <<JVWords(n + 1)>>)
  IN  IF d \in jp.bits THEN Result(0, [jp EXCEPT !.vals[s][off] = v], pm)
      ELSE IF n > 0 /\ GrowInPlace(n, BitsPerSubexp, JVWords) THEN Result(1, q, pm)
      ELSE IF ~a.ok THEN Result(-1, jp, a.pm)
      ELSE Result(1, q, IF n = 0 THEN a.pm ELSE Free(a.pm, JVWords(n)))

\* JU_IMMSET_01: two indexes in the JP, or (JU_IMMSET_01_CASCADE) a leaf.
InsImmed01(jp, ix, v, pm) ==
  LET old  == jp.keys[1]
      new  == TrimToDcdSize(ix)
      keys == IF old < new THEN <<old, new>> ELSE <<new, old>>
      vals == IF old < new THEN <<jp.vals[1], v>> ELSE <<v, jp.vals[1]>>
      a    == Alloc(pm, <<IF ImmedMax[jp.l] > 1 THEN JVWords(2) ELSE JLLWords(jp.l, 2)>>)
  IN  IF old = new THEN Result(0, [jp EXCEPT !.vals[1] = v], pm)
      ELSE IF Judy1 /\ ImmedMax[jp.l] > 1 THEN Result(1, Immed(jp.l, keys, vals), pm)
      ELSE IF ~a.ok THEN Result(-1, jp, a.pm)
      ELSE IF ImmedMax[jp.l] > 1 THEN Result(1, Immed(jp.l, keys, vals), a.pm)
      ELSE Result(1, Leaf(jp.l, DcdAt(ix, jp.l), 0, keys, vals), a.pm)

\* *Variant*: the new leaf has its population set before the caller adds one.
ImmedCascadeJPCountedTwice(l, dcd, keys, vals) ==
  IF l = 1 /\ LeafMax[1] <= ImmedMax[1] THEN LeafB1(dcd, Len(keys) - 1, keys, vals)
                                        ELSE Leaf(l, dcd, Len(keys) - 1, keys, vals)

\* What replaces an immediate that is full, and its sizes.
ImmedCascadeSizes(l, keys) ==
  IF l = 1 /\ LeafMax[1] <= ImmedMax[1] THEN LeafB1Sizes(ToSet(keys)) ELSE <<JLLWords(l, Len(keys))>>

ImmedCascadeJP(l, dcd, keys, vals) ==
  IF l = 1 /\ LeafMax[1] <= ImmedMax[1] THEN LeafB1(dcd, Len(keys) - 2, keys, vals)
                                        ELSE Leaf(l, dcd, Len(keys) - 2, keys, vals)

\* JU_IMMSETINPLACE and JU_IMMSETCASCADE: pop0 is set for the old
\* population and increased by the caller.
InsImmed(jp, ix, v, pm, off) ==
  LET n    == Len(jp.keys)
      keys == Inserted(jp.keys, off, LeastBytes(ix, jp.l))
      vals == Inserted(jp.vals, off, v)
      grow == n < ImmedMax[jp.l]
      a    == Alloc(pm, IF grow THEN <<JVWords(n + 1)>> ELSE ImmedCascadeSizes(jp.l, keys))
  IN  IF off >= 0 THEN Result(0, [jp EXCEPT !.vals[off + 1] = v], pm)
      ELSE IF grow /\ Judy1 THEN Result(1, Immed(jp.l, keys, vals), pm)
      ELSE IF ~a.ok THEN Result(-1, jp, a.pm)
      ELSE Result(1, IF grow THEN Immed(jp.l, keys, vals)
                             ELSE ImmedCascadeJP(jp.l, DcdAt(ix, jp.l), keys, vals),
                  Free(a.pm, JVWords(n)))

RECURSIVE InsWalk(_, _, _, _)

\* The walk goes on with the JP that replaced jp (ContinueInsWalk).
ContinueInsWalk(r, ix, v) == IF r.rc = -1 THEN r ELSE InsWalk(r.jp, ix, v, r.pm)

\* The walk goes on below; Put(sub) is jp with the JP sub in its place.
Below(r, Put(_)) == Result(r.rc, Put(r.jp), r.pm)

InsBranchL(jp, ix, v, pm, off) ==
  IF ExpPop(jp, pm) > BranchLMaxPop THEN ContinueInsWalk(ConvertBranchLtoU(jp, pm), ix, v)
  ELSE IF off >= 0
    THEN Below(Counted(InsWalk(jp.jps[off + 1], ix, v, pm)),
               LAMBDA sub : [jp EXCEPT !.jps[off + 1] = sub])
  ELSE IF Len(jp.exp) < BranchLMaxJPs
    THEN Result(1, [jp EXCEPT !.exp = Inserted(@, off, DigitAtState(ix, jp.l)),
                              !.jps = Inserted(@, off, Immed01(jp.l - 1, ix, v))], pm)
  ELSE ContinueInsWalk(CreateBranchB(jp, pm), ix, v)

InsBranchB(jp, ix, v, pm, d) ==
  LET s   == Subexp(d)
      off == BitOffset(jp.bits, d)
      u   == CreateBranchU(jp, pm)
  IN  IF BtoU(jp, pm)
        THEN ContinueInsWalk([u EXCEPT !.pm.lastU = IF u.rc = 1 THEN pm.pop0 ELSE @], ix, v)
      ELSE IF d \in jp.bits
        THEN Below(Counted(InsWalk(jp.jps[s][off], ix, v, pm)),
                   LAMBDA sub : [jp EXCEPT !.jps[s][off] = sub])
      ELSE InsBranchBNew(jp, ix, v, pm, d)

InsBranchU(jp, ix, v, pm, d) ==
  Below(Counted(InsWalk(jp.jps[d], ix, v, pm)), LAMBDA sub : [jp EXCEPT !.jps[d] = sub])

InsLeaf(jp, ix, v, pm, off) ==
  LET c == Cascade(jp, pm) IN
  IF off >= 0 THEN Result(0, [jp EXCEPT !.vals[off + 1] = v], pm)
  ELSE IF Len(jp.keys) < LeafMax[jp.l] THEN InsLeafGrow(jp, ix, v, pm, off)
  ELSE ContinueInsWalk([c EXCEPT !.pm = IF c.rc = -1 THEN @ ELSE Free(@, JLLWords(jp.l, LeafMax[jp.l]))],
                       ix, v)

\* j__udyInsWalk
InsWalk(jp, ix, v, pm) ==
  CASE jp.t = "null" -> InsNull(jp, ix, v, pm)
    [] jp.t = "immed" ->
         IF Len(jp.keys) = 1 THEN InsImmed01(jp, ix, v, pm)
         ELSE InsImmed(jp, ix, v, pm, SearchLeaf(jp.keys, LeastBytes(ix, jp.l)))
    [] jp.t \notin {"null", "immed"} /\ jp.l < RootState /\ DcdNotMatchIndex(ix, jp) ->
         InsertBranch(jp, ix, v, pm)
    [] jp.t = "L" -> InsBranchL(jp, ix, v, pm, SearchLeaf(jp.exp, DigitAtState(ix, jp.l)))
    [] jp.t = "B" -> InsBranchB(jp, ix, v, pm, DigitAtState(ix, jp.l))
    [] jp.t = "U" -> InsBranchU(jp, ix, v, pm, DigitAtState(ix, jp.l))
    [] jp.t = "leaf" -> InsLeaf(jp, ix, v, pm, SearchLeaf(jp.keys, LeastBytes(ix, jp.l)))
    [] jp.t = "B1"   -> IF Judy1 THEN InsLeafB1Set(jp, ix, pm) ELSE InsLeafB1Value(jp, ix, v, pm)
    [] jp.t = "full" -> Result(0, jp, pm)

-----------------------------------------------------------------------------
(***************************************************************************)
(* The root: nothing, a leaf of whole indexes, or a JPM.                   *)
(***************************************************************************)
Empty == [t |-> "empty"]

\* words is what was allocated for the leaf.
LeafW(keys, vals, words) == [t |-> "leafw", keys |-> keys, vals |-> vals, words |-> words]

JPM(jp, pop0, lastU) == [t |-> "jpm", jp |-> jp, pop0 |-> pop0, lastU |-> lastU]

Pm(root, live, left) ==
  [pop0 |-> IF root.t = "jpm" THEN root.pop0 ELSE 0,
   lastU |-> IF root.t = "jpm" THEN root.lastU ELSE 0, live |-> live, lost |-> 0, left |-> left]

RootResult(rc, root, pm) == [rc |-> rc, root |-> root, live |-> pm.live, lost |-> pm.lost]

\* The root is a JPM: the walk, and the population of the array.
InsTree(r) ==
  RootResult(r.rc, JPM(r.jp, IF r.rc = 1 THEN r.pm.pop0 + 1 ELSE r.pm.pop0, r.pm.lastU), r.pm)

\* *Variant*: the root leaf is not released once it is cascaded.
InsLeafWCascadeLeafKept(root, ix, v, pm) ==
  LET a == Alloc(pm, <<JPMWords>>)
      c == CascadeL(root.keys, root.vals, [a.pm EXCEPT !.pop0 = LeafWMax - 1],
                    Expanses(root.keys, RootState))
  IN  IF ~a.ok THEN RootResult(-1, root, a.pm)
      ELSE IF c.rc = -1 THEN RootResult(-1, root, Lost(c.pm, JPMWords))
      ELSE InsTree(InsWalk(c.jp, ix, v, c.pm))

\* A full root leaf: a JPM is allocated, the leaf is cascaded and released,
\* and the root is the JPM from here on, whatever the walk does.  When the
\* cascade fails nothing refers to the JPM any more.
InsLeafWCascade(root, ix, v, pm) ==
  LET a == Alloc(pm, <<JPMWords>>)
      c == CascadeL(root.keys, root.vals, [a.pm EXCEPT !.pop0 = LeafWMax - 1],
                    Expanses(root.keys, RootState))
  IN  IF ~a.ok THEN RootResult(-1, root, a.pm)
      ELSE IF c.rc = -1 THEN RootResult(-1, root, Lost(c.pm, JPMWords))
      ELSE InsTree(InsWalk(c.jp, ix, v, Free(c.pm, root.words)))

InsLeafW(root, ix, v, pm, off) ==
  LET n == Len(root.keys)
      q(w) == LeafW(Inserted(root.keys, off, ix), Inserted(root.vals, off, v), w)
      a == Alloc(pm, <<JLWWords(n + 1)>>)
  IN  IF off >= 0 THEN RootResult(0, [root EXCEPT !.vals[off + 1] = v], pm)
      ELSE IF GrowInPlace(n, LeafWMax, JLWWords) THEN RootResult(1, q(root.words), pm)
      ELSE IF n < LeafWMax
        THEN IF ~a.ok THEN RootResult(-1, root, a.pm)
             ELSE RootResult(1, q(JLWWords(n + 1)), Free(a.pm, root.words))
      ELSE InsLeafWCascade(root, ix, v, pm)

\* Judy1Set, JudyLIns
JudyInsert(root, ix, v, pm) ==
  LET a == Alloc(pm, <<JLWWords(1)>>) IN
  CASE root.t = "empty" -> IF a.ok THEN RootResult(1, LeafW(<<ix>>, <<v>>, JLWWords(1)), a.pm)
                                   ELSE RootResult(-1, root, a.pm)
    [] root.t = "leafw" -> InsLeafW(root, ix, v, pm, SearchLeaf(root.keys, ix))
    [] root.t = "jpm"   -> InsTree(InsWalk(root.jp, ix, v, pm))
=============================================================================
