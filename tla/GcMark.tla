------------------------------- MODULE GcMark -------------------------------
(***************************************************************************)
(* The mark phase of storage::garbage_collection(shift), which also moves  *)
(* every reference it visits by the distance the file has been remapped.   *)
(*                                                                         *)
(* Reference fields are numbered like addresses: a segment is a run of     *)
(* consecutive fields, and an object's constructor, called while gc_stack  *)
(* is set, pushes the segments its class declares (REF, REFS, VREFS).      *)
(* The sweep that follows is in StorageAlloc; it keeps the marked objects. *)
(***************************************************************************)
EXTENDS Integers, Sequences, FiniteSets

CONSTANTS Object, Null,
          Slot,        \* reference fields, the header's included
          root_object, class_dictionary,  \* fields of the header
          static_data, \* segment of the header
          Fields,      \* Fields[o]: the segments o's constructor pushes
          Words,       \* Words[o]: size of o in pointers
          InitCap      \* gc_init_stack_size

Segment     == [ptr : Slot, len : Nat]
In(seg)     == seg.ptr .. seg.ptr + seg.len - 1
Spans(segs) == UNION {In(segs[i]) : i \in 1..Len(segs)}
Slots(o)    == Spans(Fields[o])
HeaderSlot  == {root_object, class_dictionary} \cup In(static_data)

ASSUME GcAssumption ==
  /\ Null \notin Object
  /\ Slot \subseteq Nat /\ HeaderSlot \subseteq Slot
  /\ static_data \in Segment
  /\ Fields \in [Object -> Seq(Segment)]
  /\ \A o \in Object : Slots(o) \subseteq Slot
  /\ Words \in [Object -> Nat]
  /\ \A o \in Object : Len(Fields[o]) <= Words[o]
  /\ InitCap \in Nat /\ InitCap > 2

\* The segments of a sequence have no field in common.
Apart(segs) ==
  \A i, j \in 1..Len(segs) : i # j => In(segs[i]) \cap In(segs[j]) = {}

\* Every field is part of one object, or of the header, and is declared once.
ASSUME FieldsAssumption ==
  /\ root_object # class_dictionary
  /\ {root_object, class_dictionary} \cap In(static_data) = {}
  /\ \A o \in Object : Apart(Fields[o]) /\ Slots(o) \cap HeaderSlot = {}
  /\ \A o, p \in Object : o # p => Slots(o) \cap Slots(p) = {}

VARIABLES
  ref,      \* what each field refers to
  moves,    \* how often each field has been moved by shift
  marked,   \* objects whose header has gc_marked
  stack,    \* pending segments, bottom first
  cap,      \* number of segments the stack has room for
  opp,      \* field the inner loop is at
  len,      \* fields left in the segment being scanned
  pc        \* "start", "pop", "scan", "done", or "wild" outside any segment

vars == <<ref, moves, marked, stack, cap, opp, len, pc>>

TypeOK ==
  /\ ref \in [Slot -> Object \cup {Null}]
  /\ moves \in [Slot -> Nat]
  /\ marked \subseteq Object
  /\ stack \in Seq(Segment)
  /\ cap \in Nat
  /\ opp \in Nat /\ len \in Nat
  /\ pc \in {"start", "pop", "scan", "done", "wild"}

\* storage_header::adjust_references() has moved the header's fields already.
Init ==
  /\ ref \in [Slot -> Object \cup {Null}]
  /\ moves = [s \in Slot |-> IF s \in HeaderSlot THEN 1 ELSE 0]
  /\ marked = {} /\ stack = <<>> /\ cap = InitCap
  /\ opp = 0 /\ len = 0 /\ pc = "start"

One(slot) == IF ref[slot] = Null THEN <<>> ELSE << [ptr |-> slot, len |-> 1] >>

\* The header's references are pushed, and moved back.
PushRoots ==
  /\ pc = "start"
  /\ stack' = One(root_object) \o One(class_dictionary)
                \o (IF static_data.len > 0 THEN <<static_data>> ELSE <<>>)
  /\ moves' = [s \in Slot |-> IF s \in HeaderSlot THEN 0 ELSE moves[s]]
  /\ pc' = "pop"
  /\ UNCHANGED <<ref, marked, cap, opp, len>>

Pop ==
  /\ pc = "pop" /\ stack # <<>>
  /\ LET top == stack[Len(stack)]
     IN  opp' = top.ptr /\ len' = top.len
  /\ stack' = SubSeq(stack, 1, Len(stack) - 1)
  /\ pc' = "scan"
  /\ UNCHANGED <<ref, moves, marked, cap>>

\* Variant: the size of the object is left out.
GrownTwice(n, o) == IF n >= cap THEN 2 * n ELSE cap

\* The stack is reallocated when the object could fill it.
Grown(n, o) == IF n + Words[o] >= cap THEN 2 * n + Words[o] ELSE cap

\* Variant: an object met again is scanned again.
MarkAgain(o) ==
  /\ marked' = marked \cup {o}
  /\ cap' = Grown(Len(stack), o)
  /\ stack' = stack \o Fields[o]

\* Variant: the constructor is not called.
MarkOnly(o) == marked' = marked \cup {o} /\ UNCHANGED <<cap, stack>>

Mark(o) ==
  IF o \in marked THEN UNCHANGED <<marked, cap, stack>>
  ELSE /\ marked' = marked \cup {o}
       /\ cap' = Grown(Len(stack), o)
       /\ stack' = stack \o Fields[o]

\* Variant: the loop goes on without stepping over a null reference.
ScanContinue ==
  /\ pc = "scan" /\ len > 0 /\ ref[opp] # Null
  /\ moves' = [moves EXCEPT ![opp] = @ + 1]
  /\ Mark(ref[opp])
  /\ opp' = opp + 1
  /\ len' = len - 1
  /\ pc' = IF len = 1 THEN "pop" ELSE "scan"
  /\ UNCHANGED ref

\* One round of the inner loop; the loop tests the length after it.
Scan ==
  /\ pc = "scan" /\ len > 0
  /\ IF ref[opp] = Null THEN UNCHANGED <<moves, marked, cap, stack>>
     ELSE /\ moves' = [moves EXCEPT ![opp] = @ + 1]
          /\ Mark(ref[opp])
  /\ opp' = opp + 1
  /\ len' = len - 1
  /\ pc' = IF len = 1 THEN "pop" ELSE "scan"
  /\ UNCHANGED ref

Finish ==
  /\ pc = "pop" /\ stack = <<>>
  /\ pc' = "done"
  /\ UNCHANGED <<ref, moves, marked, stack, cap, opp, len>>

\* A segment without fields: the body of the do loop runs, the unsigned length
\* wraps around, and the loop leaves the object.
ScanEmpty ==
  /\ pc = "scan" /\ len = 0
  /\ pc' = "wild"
  /\ UNCHANGED <<ref, moves, marked, stack, cap, opp, len>>

Next == PushRoots \/ Pop \/ Scan \/ Finish

Spec == Init /\ [][Next]_vars
FairSpec == Spec /\ WF_vars(Next)

\* Objects may have empty variable parts, as array_of_ptr::create(store, 0).
EmptySpec == Init /\ [][Next \/ ScanEmpty]_vars

-----------------------------------------------------------------------------
(* Correctness.                                                            *)

\* Sets of objects that hold what the header refers to and what they refer to.
Closed(S) ==
  /\ \A s \in HeaderSlot : ref[s] # Null => ref[s] \in S
  /\ \A o \in S : \A s \in Slots(o) : ref[s] # Null => ref[s] \in S

Reachable == {o \in Object : \A S \in SUBSET Object : Closed(S) => o \in S}

\* Fields the collector knows of.
Visited == HeaderSlot \cup UNION {Slots(o) : o \in marked}

Rest    == IF pc = "scan" THEN opp .. opp + len - 1 ELSE {}
Pending == Spans(stack) \cup Rest

\* While it runs the collector marks only what is reachable and keeps track of
\* every field of a marked object: it has been followed, or it is pending.
NothingHidden ==
  /\ marked \subseteq Reachable
  /\ pc # "start" =>
       \A s \in Visited :
         ref[s] # Null => s \in Pending \/ ref[s] \in marked

\* When the sweep begins exactly the reachable objects are marked.
MarksReachable == pc = "done" => marked = Reachable

\* The references that survive have been moved once each, the header's too:
\* a field reached twice would point outside its object.
MovedOnce ==
  pc = "done" =>
    \A s \in Visited : ref[s] # Null => moves[s] = 1

\* A constructor never pushes beyond the end of the stack.
StackFits == Len(stack) <= cap

\* The scan stays inside the segments: what it takes for a reference is one,
\* as the assertions of get_header() demand.
ScanInside == pc # "wild"

\* The collection comes to an end, cycles or not.
MarkEnds == <>(pc = "done")
=============================================================================
