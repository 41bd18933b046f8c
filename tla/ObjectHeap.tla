----------------------------- MODULE ObjectHeap -----------------------------
(***************************************************************************)
(* What the allocator promises: objects are disjoint ranges of bytes; an   *)
(* allocation adds one and moves none; freeing only takes away; a          *)
(* rollback brings back the objects of the last commit.                    *)
(***************************************************************************)
EXTENDS Integers, FiniteSets

CONSTANT Byte

VARIABLES live,   \* byte ranges of the objects
          count,  \* how many objects clients hold
          kept    \* the objects of the last commit

vars == <<live, count, kept>>

Init == live = {} /\ count = 0 /\ kept = {}

Allocate ==
  /\ \E o \in live' :
       /\ o # {} /\ o \subseteq Byte
       /\ \A p \in live : o \cap p = {}
       /\ live' = live \cup {o}
  /\ count' = count + 1
  /\ UNCHANGED kept

Free ==
  /\ live' \in SUBSET live
  /\ count' = Cardinality(live')
  /\ UNCHANGED kept

Commit == kept' = live /\ UNCHANGED <<live, count>>

Rollback ==
  /\ live' = kept
  /\ count' = Cardinality(kept)
  /\ UNCHANGED kept

Next == Allocate \/ Free \/ Commit \/ Rollback

Spec == Init /\ [][Next]_vars
=============================================================================
