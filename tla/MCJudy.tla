------------------------------- MODULE MCJudy -------------------------------
(***************************************************************************)
(* A Judy1 array with digits 0..5 and a JudyL array with digits 0..3, both *)
(* of four digits, for TLC.  The limits keep the order that JudyParameters *)
(* asks for, so that root leaves, leaves, bitmap leaves, full expanses,    *)
(* narrow pointers and all three kinds of branches occur with eight        *)
(* indexes.                                                                *)
(***************************************************************************)
EXTENDS Integers, Sequences

CONSTANTS Key1, KeyL, Lefts, MaxLost

VARIABLES kind, root, live, lost, hidden

Probes1 == {0, 1295} \cup UNION {{k - 1, k, k + 1} \cap (0..1295) : k \in Key1}
ProbesL == {0, 255} \cup UNION {{k - 1, k, k + 1} \cap (0..255) : k \in KeyL}
Sizes == {2, 4, 6, 10, 16, 24, 48}
ValueOf(ix) == ix + 1
Zero(ix) == 0

\* Lists that are in order, and lists that are not.
Lists1 == {<<7>>, <<0, 1, 2, 3, 4, 5, 216>>, <<0, 1, 7, 216, 432>>,
          <<0, 2, 1, 3, 216>>, <<0, 1, 2, 3, 216, 7>>, <<1, 1, 2, 3>>}
ListsL == {<<7>>, <<0, 1, 2, 3, 4, 64>>, <<0, 1, 2, 16, 64, 128>>,
          <<0, 2, 1, 3, 64>>, <<0, 1, 2, 64, 16>>, <<1, 1, 2, 3>>, <<0, 16, 17, 64, 65, 66, 67, 68>>}

J1 == INSTANCE JudyArray WITH
  Judy1 <- TRUE, Radix <- 6, RootState <- 4, BitsPerSubexp <- 3,
  BranchLMaxJPs <- 2, BranchLMaxPop <- 6, BtoUPopIncrement <- 2, BranchBMinPop <- 2, BranchBMaxPop <- 4,
  LeafWMax <- 3, LeafMax <- <<0, 5, 4>>, ImmedMax <- <<3, 2, 2>>, AllocSizes <- Sizes,
  NoValue <- 0, JPsPerCL <- 1, Key <- Key1, ValueOf <- Zero, List <- Lists1, Probe <- Probes1

JL == INSTANCE JudyArray WITH
  Judy1 <- FALSE, Radix <- 4, RootState <- 4, BitsPerSubexp <- 2,
  BranchLMaxJPs <- 2, BranchLMaxPop <- 5, BtoUPopIncrement <- 2, BranchBMinPop <- 2, BranchBMaxPop <- 4,
  LeafWMax <- 2, LeafMax <- <<3, 4, 3>>, ImmedMax <- <<2, 2, 1>>, AllocSizes <- Sizes,
  NoValue <- 0, JPsPerCL <- 1, Key <- KeyL, List <- ListsL, Probe <- ProbesL

ASSUME J1!JudyParameters /\ JL!JudyParameters

vars == <<kind, root, live, lost, hidden>>

Init == kind \in {"Judy1", "JudyL"} /\ J1!Init

Judy1Step == kind = "Judy1" /\ kind' = kind /\ J1!Next
JudyLStep == kind = "JudyL" /\ kind' = kind /\ JL!Next

Next == Judy1Step \/ JudyLStep

Spec == Init /\ [][Next]_vars

\* Populations, decode digits, bitmaps and order are right in both arrays
\* after every Set, Unset and SetArray (j__udyInsWalk, j__udyDelWalk,
\* j__udyInsArray), also one that ran out of memory.
TreeSound == IF kind = "Judy1" THEN J1!TreeSound ELSE JL!TreeSound

\* Get, First, Last, Next and Prev agree with the map in both arrays.
LookupsAgree == IF kind = "Judy1" THEN J1!LookupsAgree ELSE JL!LookupsAgree

\* FirstEmpty, LastEmpty, NextEmpty and PrevEmpty agree with the map.
EmptiesAgree == IF kind = "Judy1" THEN J1!EmptiesAgree ELSE JL!EmptiesAgree

\* Count and ByCount agree with the ordered indexes in both arrays.
CountsAgree == IF kind = "Judy1" THEN J1!CountsAgree ELSE JL!CountsAgree

\* The words allocated are those that FreeArray will release and those that
\* three error paths forget (JudyIns.c:1825, j__udyCascadeL, the bitmap leaf
\* of JudyInsArray.c): no other step of an insertion, a deletion, a list or a
\* release loses or doubly releases an object, whichever allocation fails.
MemoryBalanced == IF kind = "Judy1" THEN J1!MemoryBalanced ELSE JL!MemoryBalanced

\* Every operation does to the map what IndexMap promises, or fails and
\* changes nothing, also where a root leaf becomes a tree and back, but for
\* the deletion that cannot have its root leaf (JudyDel.c:1989).
MapImplemented == IF kind = "Judy1" THEN J1!MapImplemented ELSE JL!MapImplemented

\* Whichever allocation of an insertion or a deletion fails, the call that
\* reports it leaves the same data in the array (Judy_3.htm).  It does not:
\* the deletion that makes the array fit a root leaf has removed the index
\* when it finds that it cannot have the leaf.
FailureKeepsData == IF kind = "Judy1" THEN J1!FailureKeepsData ELSE JL!FailureKeepsData
=============================================================================
