------------------------------ MODULE Collection -----------------------------
(****************************************************************************)
(* What the containers of POST++ promise, without their structure: items is *)
(* what the container holds, res what the last call returned.  A search     *)
(* tree and a spatial index hold a set of objects, a hash table for every   *)
(* name the objects put under it, the newest first, a dynamic array a       *)
(* sequence.                                                                *)
(****************************************************************************)
EXTENDS Naturals, FiniteSets, SequencesExt

CONSTANTS NULL, Object, Key, Name,
          Yes, No       \* the truth values a call may return

VARIABLES kind, items, res

Bool(b) == IF b THEN Yes ELSE No

Nothing(k) == CASE k = "hash"  -> [n \in Name |-> <<>>]
                [] k = "array" -> <<>>
                [] OTHER       -> {}

\* An array may be created with elements; a text is never changed.
Init == /\ kind \in {"avl", "ttree", "rtree", "hash", "array", "text"}
        /\ items = Nothing(kind) \/ (kind = "array" /\ items = <<NULL>>)
        /\ res = NULL

\* A tree of unique keys gives back the equal object it already has.
InsertUnique(o) ==
  /\ kind = "avl"
  /\ IF \E x \in items : Key[x] = Key[o]
       THEN UNCHANGED items /\ res' = CHOOSE x \in items : Key[x] = Key[o]
       ELSE items' = items \cup {o} /\ res' = o

Insert(o) == kind \in {"ttree", "rtree"} /\ items' = items \cup {o} /\ res' = NULL

RemoveObject(o) ==
  /\ kind \in {"avl", "ttree", "rtree"}
  /\ items' = items \ {o}
  /\ res' = Bool(o \in items)

Put(n, o) == kind = "hash" /\ items' = [items EXCEPT ![n] = <<o>> \o @] /\ res' = NULL

\* The newest object under the name goes, or the newest that is this object.
DelName(n) ==
  /\ kind = "hash"
  /\ items' = [items EXCEPT ![n] = IF @ = <<>> THEN @ ELSE Tail(@)]
  /\ res' = Bool(items[n] # <<>>)

Del(n, o) ==
  /\ kind = "hash"
  /\ items' = [items EXCEPT ![n] = RemoveFirst(@, o)]
  /\ res' = Bool(o \in ToSet(items[n]))

Clear == kind \in {"ttree", "rtree", "hash"} /\ items' = Nothing(kind) /\ res' = NULL

\* The array grows and shrinks at any place; popping returns the last one.
Resize(n) ==
  /\ kind = "array"
  /\ items' = [i \in 1..n |-> IF i <= Len(items) THEN items[i] ELSE NULL]
  /\ res' = NULL

Splice(pos, out, in) ==
  /\ kind = "array"
  /\ pos + out <= Len(items)
  /\ items' = SubSeq(items, 1, pos) \o in \o SubSeq(items, pos + out + 1, Len(items))
  /\ res' = NULL

Pop ==
  /\ kind = "array"
  /\ items # <<>>
  /\ items' = Front(items)
  /\ res' = Last(items)

Next ==
  \/ \E o \in Object : InsertUnique(o) \/ Insert(o) \/ RemoveObject(o)
  \/ \E n \in Name : DelName(n) \/ (\E o \in Object : Put(n, o) \/ Del(n, o))
  \/ Clear \/ Pop
  \/ \E n \in 0..Cardinality(Object) : Resize(n)
  \/ \E pos, out, c \in 0..Cardinality(Object), o \in Object :
       Splice(pos, out, [i \in 1..c |-> o])

Spec == Init /\ [][Next]_<<kind, items, res>>
=============================================================================
