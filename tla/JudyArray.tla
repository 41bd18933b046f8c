---------------------------- MODULE JudyArray ----------------------------
(***************************************************************************)
(* One Judy array, Judy1 or JudyL, as a state machine: root is what the    *)
(* user's pointer refers to and live the words that were allocated for it  *)
(* and not released.  Memory may run out after any number of allocations.  *)
(*                                                                         *)
(* Some error paths forget objects: lost are the words of live that        *)
(* nothing refers to any more, and hidden those of them that               *)
(* jpm_TotalMemWords still counts.                                         *)
(*                                                                         *)
(* A root that is a JPM is told from a root leaf by its population: the    *)
(* first word is read and compared with LeafWMax.  A failure just when a   *)
(* root leaf becomes a tree or a tree a root leaf, or half way through a   *)
(* list, can leave a JPM too small to be told; whatever is done with such  *)
(* a root, or with one that refers to released memory, is undefined and    *)
(* not modelled.                                                           *)
(***************************************************************************)
EXTENDS JudyBuild

CONSTANTS Key, ValueOf(_),  \* the indexes that are used, and their values
          List,             \* the lists that arrays are made from
          Probe,            \* the indexes that are looked up
          Lefts,            \* allocations that succeed before memory runs out
          MaxLost           \* memory runs out only until so many words are lost

VARIABLES root, live, lost, hidden

vars == <<root, live, lost, hidden>>

Plenty == 1000

-----------------------------------------------------------------------------
(*****************************************************************************)
(* The indexes and values below a JP, in order; prefix are the digits of the *)
(* path above it.                                                            *)
(*****************************************************************************)
RECURSIVE Entries(_, _)

Prefixed(keys, vals, l, prefix) ==
  [i \in DOMAIN keys |-> <<prefix * Radix^l + LeastBytes(keys[i], l), vals[i]>>]

\* The digits above a JP that a branch of level l has for its digit d.
PrefixOf(jp, l, prefix, d) ==
  IF jp.t = "immed" THEN prefix * Radix + d
  ELSE (prefix * Radix + d) * Radix^(l - 1 - jp.l) + (jp.dcd % Radix^(l - 1 - jp.l))

EntriesBelow(jp, prefix, ds) ==
  FlattenSeq([i \in DOMAIN ds |-> Entries(BranchJP(jp, ds[i]), PrefixOf(BranchJP(jp, ds[i]), jp.l, prefix, ds[i]))])

Entries(jp, prefix) ==
  CASE jp.t \in {"immed", "leaf"} -> Prefixed(jp.keys, jp.vals, jp.l, prefix)
    [] jp.t = "B1"   -> Prefixed(Ascending(jp.bits), B1Values(jp), 1, prefix)
    [] jp.t = "full" -> [i \in 1..Radix |-> <<prefix * Radix + i - 1, NoValue>>]
    [] OTHER -> EntriesBelow(jp, prefix, BranchDigits(jp))

Listing(r) ==
  CASE r.t \in {"empty", "dangling"} -> <<>>
    [] r.t = "leafw" -> Prefixed(r.keys, r.vals, RootState, 0)
    [] r.t = "jpm"   -> Entries(r.jp, 0)

MapOf(s) == [ix \in {s[i][1] : i \in DOMAIN s} |-> s[CHOOSE i \in DOMAIN s : s[i][1] = ix][2]]

-----------------------------------------------------------------------------
\* JU_LEAFW_POP0(*PPArray) < cJU_LEAFW_MAXPOP1 tells a root leaf.
Readable(r) == r.t # "dangling" /\ (r.t = "jpm" => r.pop0 >= LeafWMax)

TotalMemWords == live - lost + hidden

Becomes(res) ==
  /\ root' = res.root /\ live' = res.live
  /\ lost' = lost + res.lost
  /\ hidden' = IF res.root.t = "jpm" THEN hidden + res.lost ELSE 0

Init == root = Empty /\ live = 0 /\ lost = 0 /\ hidden = 0

\* Judy1Set, or JudyLIns and the caller's store through the pointer.
Set(ix, v, left) == \E res \in {JudyInsert(root, ix, v, Pm(root, live, left))} : Becomes(res)

\* Judy1Unset, JudyLDel
Unset(ix, left) == \E res \in {JudyDelete(root, ix, Pm(root, live, left))} : Becomes(res)

\* Judy1SetArray, JudyLInsArray
Values(keys) == [i \in DOMAIN keys |-> ValueOf(keys[i])]

SetArray(keys, left) ==
  \E res \in {JudyInsArray(root, keys, Values(keys), Pm(root, live, left))} : Becomes(res)

\* Judy1FreeArray, JudyLFreeArray
FreeArray == \E res \in {JudyFreeArray(root, live, TotalMemWords)} : Becomes(res)

Faults == {left \in Lefts : lost <= MaxLost}

Next ==
  /\ Readable(root)
  /\ \/ \E ix \in Key, left \in Faults \cup {Plenty} :
          Unset(ix, left) \/ Set(ix, ValueOf(ix), left)
     \/ \E keys \in List, left \in Faults \cup {Plenty} : SetArray(keys, left)
     \/ FreeArray

Spec == Init /\ [][Next]_vars

-----------------------------------------------------------------------------
\* The indexes that are really below a JP.
RECURSIVE Held(_)
Held(jp) ==
  CASE jp.t = "null" -> 0
    [] jp.t \in {"immed", "leaf"} -> Len(jp.keys)
    [] jp.t = "B1"   -> Cardinality(jp.bits)
    [] jp.t = "full" -> Radix
    [] OTHER -> SumSeq([i \in DOMAIN BranchDigits(jp) |-> Held(BranchJP(jp, BranchDigits(jp)[i]))])

LeafSound(jp) ==
  CASE jp.t = "immed" -> Len(jp.keys) \in 1..ImmedMax[jp.l] /\ Len(jp.vals) = Len(jp.keys)
    [] jp.t = "leaf"  -> Len(jp.keys) \in ImmedMax[jp.l] + 1..LeafMax[jp.l] /\ Len(jp.vals) = Len(jp.keys)
    [] jp.t = "B1"    -> IF Judy1 THEN Cardinality(jp.bits) < Radix
                         ELSE \A s \in Subexps : Len(jp.vals[s]) = Cardinality(SubexpBits(jp.bits, s))
    [] OTHER -> TRUE

BranchSound(jp) ==
  CASE jp.t = "L" -> Sorted(jp.exp) /\ Len(jp.exp) \in 1..BranchLMaxJPs /\ Len(jp.jps) = Len(jp.exp)
    [] jp.t = "B" -> \A s \in Subexps : Len(jp.jps[s]) = Cardinality(SubexpBits(jp.bits, s))
    [] OTHER -> TRUE

\* A JP below digit d of a branch of level l; prefix is the path to the branch.
RECURSIVE SoundAt(_, _, _, _)

SoundBelow(jp, prefix) ==
  \A d \in ToSet(BranchDigits(jp)) : SoundAt(BranchJP(jp, d), jp.l, prefix, d)

SoundAt(jp, l, prefix, d) ==
  CASE jp.t = "null"  -> jp.l = l - 1
    [] jp.t = "immed" -> jp.l = l - 1 /\ LeafSound(jp)
    [] OTHER -> /\ jp.l < l /\ jp.pop0 + 1 = Held(jp)
                /\ jp.dcd \div Radix^(l - 1 - jp.l) = (prefix * Radix + d) % Radix^(RootState - l)
                /\ IF jp.t \in {"L", "B", "U"}
                     THEN BranchSound(jp) /\ SoundBelow(jp, PrefixOf(jp, l, prefix, d))
                     ELSE LeafSound(jp)

\* Every population, decode digit and bitmap that the tree keeps agrees with
\* what is below it, also after an operation that ran out of memory, and the
\* indexes are in order.
TreeSound ==
  /\ root.t = "jpm" => /\ root.pop0 + 1 = Held(root.jp)
                       /\ BranchSound(root.jp) /\ SoundBelow(root.jp, 0)
  /\ \E s \in {Listing(root)} : \A i \in 2..Len(s) : s[i - 1][1] < s[i][1]

\* The index of ks that is nearest to ix in direction dir, ix included.
ReferenceFrom(m, ks, ix, dir) ==
  LET k == Nearest({j \in ks : (j - ix) * dir >= 0}, dir) IN
  IF k = -1 THEN NotFound ELSE Found(k, m[k])

\* Get, First, Last, Next and Prev find what the map has at or beside an
\* index, whichever leaves and narrow pointers lie on the way.
LookupsAgree ==
  Readable(root) => \E m \in {MapOf(Listing(root))} : \A ix \in Probe :
    /\ JudyGet(root, ix) = IF ix \in DOMAIN m THEN Found(ix, m[ix]) ELSE NotFound
    /\ JudyFirst(root, ix) = ReferenceFrom(m, DOMAIN m, ix, 1)
    /\ JudyLast(root, ix) = ReferenceFrom(m, DOMAIN m, ix, -1)
    /\ Neighbour(root, ix, 1) = ReferenceFrom(m, DOMAIN m, ix + 1, 1)
    /\ Neighbour(root, ix, -1) = ReferenceFrom(m, DOMAIN m, ix - 1, -1)

\* The first index from ix on in direction dir that is not in ks.
RECURSIVE ReferenceEmpty(_, _, _)
ReferenceEmpty(ks, ix, dir) ==
  IF ix \notin Index THEN NotFound
  ELSE IF ix \notin ks THEN EmptyAt(ix) ELSE ReferenceEmpty(ks, ix + dir, dir)

\* FirstEmpty, LastEmpty, NextEmpty and PrevEmpty find the nearest index that
\* is not there, across full leaves and branches, and never report a
\* corrupt leaf.
EmptiesAgree ==
  Readable(root) => \E ks \in {DOMAIN MapOf(Listing(root))} : \A ix \in Probe :
    /\ JudyFirstEmpty(root, ix) = ReferenceEmpty(ks, ix, 1)
    /\ JudyLastEmpty(root, ix) = ReferenceEmpty(ks, ix, -1)
    /\ NeighbourEmpty(root, ix, 1) = ReferenceEmpty(ks, ix + 1, 1)
    /\ NeighbourEmpty(root, ix, -1) = ReferenceEmpty(ks, ix - 1, -1)

\* Count and ByCount, which add up and take away kept populations from the
\* nearer end, agree with the list of the indexes; what *PIndex held before
\* ByCount leaves no trace.
CountsAgree ==
  Readable(root) => \E s \in {Listing(root)} :
    /\ \A r \in {<<i, Radix^RootState - 1>> : i \in Probe} \cup {<<0, i>> : i \in Key} \cup {<<i, i>> : i \in Key} :
         Count(root, r[1], r[2]) = Cardinality({n \in DOMAIN s : s[n][1] \in r[1]..r[2]})
    /\ \A n \in 0..Len(s) + 1, ix \in {0, Radix^RootState - 1} :
         JudyByCount(root, n, ix) = IF n \in DOMAIN s THEN Found(s[n][1], s[n][2]) ELSE NotFound

\* What is allocated is what the root refers to and so FreeArray will release,
\* and the words that the error paths marked Lost forget: no other operation,
\* with memory enough or not, loses an object or releases one twice.  The
\* active bytes fit the words in use.
MemoryBalanced ==
  /\ live = Footprint(root) + lost
  /\ root # Dangling =>
       /\ MemActive(root) <= RootState * MemUsed(root, TotalMemWords)
       /\ MemUsed(root, TotalMemWords) <= live

Map == INSTANCE IndexMap

\* Every operation, with memory enough or not, does to the map what IndexMap
\* promises of it: it changes what it is for and nothing else, tells the
\* truth about it, and changes nothing when it fails.  Only the deletion that
\* cannot have the root leaf it needs fails with the index gone, and
\* FreeArray fails when it finds lost words counted.
MapImplemented ==
  Readable(root) => \E m \in {MapOf(Listing(root))} : \A left \in Lefts \cup {Plenty} :
    /\ \A ix \in Key :
         /\ \A v \in {ValueOf(ix), NoValue} :
              \E res \in {JudyInsert(root, ix, v, Pm(root, live, left))} :
              \E n \in {MapOf(Listing(res.root))} :
                Map!Inserts(m, n, res.rc, ix, v) \/ (left # Plenty /\ Map!Fails(m, n, res.rc))
         /\ \E res \in {JudyDelete(root, ix, Pm(root, live, left))} :
            \E n \in {MapOf(Listing(res.root))} :
              \/ Map!Deletes(m, n, res.rc, ix)
              \/ left # Plenty /\ Map!Fails(m, n, res.rc)
              \/ left # Plenty /\ res.rc = -1 /\ Map!Deletes(m, n, 1, ix) /\ ~Readable(res.root)
    /\ \A keys \in List :
         \E res \in {JudyInsArray(root, keys, Values(keys), Pm(root, live, left))} :
         \E n \in {MapOf(Listing(res.root))} :
           Map!Makes(m, n, res.rc, keys, Values(keys)) \/ Map!Fails(m, n, res.rc)
    /\ \E res \in {JudyFreeArray(root, live, TotalMemWords)} :
         IF hidden = 0 THEN Map!Clears(m, MapOf(Listing(res.root)), res.rc) ELSE res.rc = -1

\* A call that fails for want of memory leaves the same indexes and values, as
\* the manual says.  This fails: a deletion at the root fails after it is done.
FailureKeepsData ==
  Readable(root) => \E m \in {MapOf(Listing(root))} : \A ix \in Key, left \in Lefts :
    \A res \in {JudyInsert(root, ix, ValueOf(ix), Pm(root, live, left)),
               JudyDelete(root, ix, Pm(root, live, left))} :
      res.rc = -1 => MapOf(Listing(res.root)) = m
=============================================================================
