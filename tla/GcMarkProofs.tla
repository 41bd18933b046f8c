---------------------------- MODULE GcMarkProofs ----------------------------
(***************************************************************************)
(* The mark phase of GcMark is correct for every graph of objects.         *)
(***************************************************************************)
EXTENDS GcMark, SequenceTheorems, TLAPS

(***************************************************************************)
(* The inductive invariant.  A field is unknown, pending (once, and not    *)
(* moved yet) or followed (moved once, its object marked).                 *)
(***************************************************************************)
PendingInv ==
  /\ pc = "start" => marked = {} /\ stack = <<>> /\ cap = InitCap
  /\ Pending \subseteq Slot
  /\ pc # "start" => Pending \subseteq Visited
  /\ Apart(stack) /\ Rest \cap Spans(stack) = {}

MovesInv ==
  /\ \A o \in Object \ marked : \A s \in Slots(o) : moves[s] = 0
  /\ pc # "start" =>
       /\ \A s \in Pending : moves[s] = 0
       /\ \A s \in Visited \ Pending : ref[s] # Null => moves[s] = 1

DoneInv == pc = "done" => stack = <<>>

MarkInv == TypeOK /\ NothingHidden /\ StackFits /\ PendingInv /\ MovesInv /\ DoneInv

-----------------------------------------------------------------------------
(* Sequences of segments.                                                  *)

\* No segments, no fields.
LEMMA SpansEmpty == Spans(<<>>) = {} /\ Apart(<<>>)
BY DEF Spans, Apart

\* A single segment.
LEMMA SpansOne ==
  ASSUME NEW x \in Segment
  PROVE  Spans(<<x>>) = In(x) /\ Apart(<<x>>)
<1>1. Len(<<x>>) = 1 /\ <<x>>[1] = x
  OBVIOUS
<1>2. 1..1 = {1}
  OBVIOUS
<1>3. Spans(<<x>>) = In(x)
  BY <1>1, <1>2 DEF Spans
<1>4. Apart(<<x>>)
  BY <1>1, <1>2 DEF Apart
<1> QED BY <1>3, <1>4

\* What a constructor pushes adds its fields.
LEMMA SpansConcat ==
  ASSUME NEW s \in Seq(Segment), NEW t \in Seq(Segment)
  PROVE  Spans(s \o t) = Spans(s) \cup Spans(t)
<1>1. \A i \in 1..Len(s) : i \in 1..Len(s \o t) /\ (s \o t)[i] = s[i]
  OBVIOUS
<1>2. \A i \in 1..Len(t) : Len(s) + i \in 1..Len(s \o t) /\ (s \o t)[Len(s) + i] = t[i]
  OBVIOUS
<1>3. \A k \in 1..Len(s \o t) :
        \/ k \in 1..Len(s) /\ (s \o t)[k] = s[k]
        \/ k - Len(s) \in 1..Len(t) /\ (s \o t)[k] = t[k - Len(s)]
  OBVIOUS
<1>4. Spans(s \o t) \subseteq Spans(s) \cup Spans(t)
  BY <1>3 DEF Spans
<1>5. Spans(s) \subseteq Spans(s \o t)
  BY <1>1 DEF Spans
<1>6. Spans(t) \subseteq Spans(s \o t)
  BY <1>2 DEF Spans
<1> QED BY <1>4, <1>5, <1>6

\* Segments of two sequences that have no field in common.
LEMMA ApartConcat ==
  ASSUME NEW s \in Seq(Segment), NEW t \in Seq(Segment),
         Apart(s), Apart(t), Spans(s) \cap Spans(t) = {}
  PROVE  Apart(s \o t)
<1>1. \A i \in 1..Len(s) : In(s[i]) \subseteq Spans(s)
  BY DEF Spans
<1>2. \A i \in 1..Len(t) : In(t[i]) \subseteq Spans(t)
  BY DEF Spans
<1>3. \A i \in 1..Len(s), j \in 1..Len(t) : In(s[i]) \cap In(t[j]) = {}
  BY <1>1, <1>2
<1>4. \A k \in 1..Len(s \o t) :
        \/ k \in 1..Len(s) /\ (s \o t)[k] = s[k]
        \/ /\ k \in Int /\ k - Len(s) \in 1..Len(t)
           /\ (s \o t)[k] = t[k - Len(s)]
  OBVIOUS
<1> SUFFICES ASSUME NEW i \in 1..Len(s \o t), NEW j \in 1..Len(s \o t), i # j
             PROVE  In((s \o t)[i]) \cap In((s \o t)[j]) = {}
  BY DEF Apart
<1> DEFINE a == (s \o t)[i]
           b == (s \o t)[j]
<1>5. \/ i \in 1..Len(s) /\ a = s[i]
      \/ i \in Int /\ i - Len(s) \in 1..Len(t) /\ a = t[i - Len(s)]
  BY <1>4
<1>6. \/ j \in 1..Len(s) /\ b = s[j]
      \/ j \in Int /\ j - Len(s) \in 1..Len(t) /\ b = t[j - Len(s)]
  BY <1>4
<1> HIDE DEF a, b
<1>7. Len(s) \in Nat
  OBVIOUS
<1>8. \A m, n \in 1..Len(s) : m # n => In(s[m]) \cap In(s[n]) = {}
  BY DEF Apart
<1>9. \A m, n \in 1..Len(t) : m # n => In(t[m]) \cap In(t[n]) = {}
  BY DEF Apart
<1>10. i \in Int /\ j \in Int => i - Len(s) # j - Len(s)
  BY <1>7
<1>11. In(a) \cap In(b) = {}
  BY <1>3, <1>5, <1>6, <1>8, <1>9, <1>10
<1> QED BY <1>11 DEF a, b

\* Popping a segment takes its fields from the stack and nothing else.
LEMMA SpansFront ==
  ASSUME NEW s \in Seq(Segment), s # <<>>
  PROVE  LET f == SubSeq(s, 1, Len(s) - 1)
         IN  /\ f \in Seq(Segment) /\ Len(f) = Len(s) - 1
             /\ s[Len(s)] \in Segment
             /\ Spans(s) = Spans(f) \cup In(s[Len(s)])
             /\ Apart(s) => Apart(f) /\ In(s[Len(s)]) \cap Spans(f) = {}
<1> DEFINE f == SubSeq(s, 1, Len(s) - 1)
<1>0. Len(s) \in Nat \ {0}
  BY EmptySeq
<1>1. /\ f \in Seq(Segment) /\ Len(f) = Len(s) - 1
      /\ Len(s) \in 1..Len(s) /\ s[Len(s)] \in Segment
      /\ \A i \in 1..Len(f) : f[i] = s[i] /\ i \in 1..Len(s) /\ i # Len(s)
  <2>1. \A i \in 1..Len(s) : s[i] \in Segment
    OBVIOUS
  <2>2. \A i \in 1..Len(s) - 1 : s[i] \in Segment
    BY <1>0, <2>1
  <2>3. /\ f \in Seq(Segment)
        /\ Len(f) = IF 1 <= Len(s) - 1 THEN Len(s) - 1 - 1 + 1 ELSE 0
        /\ \A i \in 1..Len(s) - 1 - 1 + 1 : f[i] = s[1 + i - 1]
    BY <1>0, <2>2, SubSeqProperties
  <2> HIDE DEF f
  <2>4. Len(f) = Len(s) - 1
    <3> DEFINE n == Len(s)
    <3>1. n \in Nat \ {0} /\ Len(f) = IF 1 <= n - 1 THEN n - 1 - 1 + 1 ELSE 0
      BY <1>0, <2>3
    <3> HIDE DEF n
    <3>2. Len(f) = n - 1
      BY <3>1
    <3> QED BY <3>2 DEF n
  <2>5. \A i \in 1..Len(f) : f[i] = s[i] /\ i \in 1..Len(s) /\ i # Len(s)
    BY <1>0, <2>3, <2>4
  <2> QED BY <1>0, <2>1, <2>3, <2>4, <2>5
<1>2. \A i \in 1..Len(s) : i = Len(s) \/ i \in 1..Len(f)
  BY <1>1
<1> HIDE DEF f
<1>3. Spans(s) \subseteq Spans(f) \cup In(s[Len(s)])
  BY <1>1, <1>2 DEF Spans
<1>4. Spans(f) \cup In(s[Len(s)]) \subseteq Spans(s)
  BY <1>1 DEF Spans
<1>5. ASSUME Apart(s) PROVE Apart(f) /\ In(s[Len(s)]) \cap Spans(f) = {}
  <2>1. Apart(f)
    BY <1>1, <1>5 DEF Apart
  <2>2. \A i \in 1..Len(f) : In(s[Len(s)]) \cap In(f[i]) = {}
    BY <1>1, <1>5 DEF Apart
  <2> QED BY <2>1, <2>2 DEF Spans
<1> QED BY <1>1, <1>3, <1>4, <1>5 DEF f

-----------------------------------------------------------------------------
(* Reachability.                                                           *)

\* What a reachable object or the header refers to is reachable.
LEMMA ReachableClosed ==
  ASSUME TypeOK, marked \subseteq Reachable, NEW s \in Visited, s \in Slot,
         ref[s] # Null
  PROVE  ref[s] \in Reachable
<1>1. ref[s] \in Object
  BY DEF TypeOK
<1> SUFFICES ASSUME NEW S \in SUBSET Object, Closed(S)
             PROVE  ref[s] \in S
  BY <1>1 DEF Reachable
<1>2. CASE s \in HeaderSlot
  BY <1>2 DEF Closed
<1>3. CASE s \in UNION {Slots(o) : o \in marked}
  <2>1. PICK o \in marked : s \in Slots(o)
    BY <1>3
  <2>2. o \in S
    BY <2>1 DEF Reachable
  <2> QED BY <2>1, <2>2 DEF Closed
<1> QED BY <1>2, <1>3 DEF Visited

\* Reachability does not change: the collector writes no other reference.
LEMMA ReachableStable ==
  ASSUME UNCHANGED ref
  PROVE  Reachable' = Reachable
BY DEF Reachable, Closed

\* When no field is pending, the marked objects are the reachable ones.
LEMMA DoneReachable ==
  ASSUME MarkInv, pc = "done"
  PROVE  marked = Reachable
<1> USE DEF MarkInv
<1>1. Pending = {}
  BY SpansEmpty DEF DoneInv, Pending, Rest
<1>2. \A s \in Visited : ref[s] # Null => ref[s] \in marked
  BY <1>1 DEF NothingHidden
<1>3. Closed(marked)
  BY <1>2 DEF Closed, Visited
<1>4. marked \in SUBSET Object
  BY DEF TypeOK
<1>5. Reachable \subseteq marked
  BY <1>3, <1>4 DEF Reachable
<1> QED BY <1>5 DEF NothingHidden

-----------------------------------------------------------------------------
(* The invariant is inductive.                                             *)

\* Before the roots are pushed only the header's references are moved.
LEMMA InitInv == Init => MarkInv
<1> SUFFICES ASSUME Init PROVE MarkInv
  OBVIOUS
<1> USE GcAssumption DEF Init
<1>1. TypeOK
  BY DEF TypeOK
<1>2. Pending = {} /\ Apart(stack) /\ Rest = {}
  BY SpansEmpty DEF Pending, Rest
<1>3. NothingHidden /\ StackFits /\ DoneInv
  BY DEF NothingHidden, StackFits, DoneInv
<1>4. PendingInv
  BY <1>2 DEF PendingInv
<1>5. MovesInv
  <2>1. \A o \in Object : \A s \in Slots(o) : s \in Slot /\ s \notin HeaderSlot
    BY FieldsAssumption
  <2> QED BY <2>1 DEF MovesInv
<1> QED BY <1>1, <1>3, <1>4, <1>5 DEF MarkInv

\* The segment pushed for one reference of the header.
LEMMA OneSegment ==
  ASSUME NEW x \in Slot, Slot \subseteq Nat
  PROVE  /\ One(x) \in Seq(Segment) /\ Len(One(x)) <= 1 /\ Apart(One(x))
         /\ Spans(One(x)) = IF ref[x] = Null THEN {} ELSE {x}
<1>1. CASE ref[x] = Null
  BY <1>1, SpansEmpty DEF One
<1>2. CASE ref[x] # Null
  <2> DEFINE seg == [ptr |-> x, len |-> 1]
  <2>1. seg \in Segment /\ In(seg) = {x}
    BY DEF Segment, In
  <2>2. One(x) = <<seg>>
    BY <1>2 DEF One
  <2> HIDE DEF seg
  <2> QED BY <1>2, <2>1, <2>2, SpansOne
<1> QED BY <1>1, <1>2

\* PushRoots: every reference of the header is pending and not moved.
LEMMA PushRootsInv ==
  ASSUME MarkInv, PushRoots
  PROVE  MarkInv'
<1> USE GcAssumption
<1> DEFINE A == One(root_object)
           B == One(class_dictionary)
           C == IF static_data.len > 0 THEN <<static_data>> ELSE <<>>
<1>1. root_object \in Slot /\ class_dictionary \in Slot
  BY DEF HeaderSlot
<1>2. /\ A \in Seq(Segment) /\ Len(A) <= 1 /\ Apart(A)
      /\ Spans(A) = IF ref[root_object] = Null THEN {} ELSE {root_object}
  BY <1>1, OneSegment
<1>3. /\ B \in Seq(Segment) /\ Len(B) <= 1 /\ Apart(B)
      /\ Spans(B) = IF ref[class_dictionary] = Null THEN {} ELSE {class_dictionary}
  BY <1>1, OneSegment
<1>4. C \in Seq(Segment) /\ Len(C) <= 1 /\ Apart(C) /\ Spans(C) = In(static_data)
  <2>1. CASE static_data.len > 0
    BY <2>1, SpansOne
  <2>2. CASE ~(static_data.len > 0)
    <3>1. In(static_data) = {}
      <4>1. static_data.ptr \in Nat /\ static_data.len \in Nat
        BY DEF Segment
      <4>2. static_data.len = 0
        BY <2>2, <4>1
      <4> QED BY <4>1, <4>2 DEF In
    <3> QED BY <2>2, <3>1, SpansEmpty
  <2> QED BY <2>1, <2>2
<1>5. stack' = (A \o B) \o C
  BY DEF PushRoots
<1> HIDE DEF A, B, C
<1>6. A \o B \in Seq(Segment) /\ Len(A \o B) <= 2
  BY <1>2, <1>3
<1>7. stack' \in Seq(Segment) /\ Len(stack') <= 3
  BY <1>4, <1>5, <1>6
<1>8. Spans(A \o B) = Spans(A) \cup Spans(B)
  BY <1>2, <1>3, SpansConcat
<1>9. Spans(stack') = Spans(A) \cup Spans(B) \cup In(static_data)
  BY <1>4, <1>5, <1>6, <1>8, SpansConcat
<1>10. Apart(A \o B)
  BY <1>2, <1>3, FieldsAssumption, ApartConcat
<1>11. Apart(stack')
  <2>1. Spans(A \o B) \cap Spans(C) = {}
    BY <1>2, <1>3, <1>4, <1>8, FieldsAssumption
  <2> QED BY <1>4, <1>5, <1>6, <1>10, <2>1, ApartConcat
<1>12. Pending' = Spans(stack') /\ Rest' = {}
  BY DEF PushRoots, Pending, Rest
<1>13. Pending' \subseteq HeaderSlot
  BY <1>2, <1>3, <1>9, <1>12 DEF HeaderSlot
<1>14. \A s \in HeaderSlot : ref[s] # Null => s \in Pending'
  BY <1>2, <1>3, <1>9, <1>12 DEF HeaderSlot
<1>15. marked = {} /\ marked' = {} /\ ref' = ref /\ cap' = InitCap
  BY DEF PushRoots, MarkInv, PendingInv
<1>16. Visited' = HeaderSlot
  BY <1>15 DEF Visited
<1>17. TypeOK'
  BY <1>7, <1>15 DEF MarkInv, TypeOK, PushRoots
<1>18. NothingHidden'
  BY <1>14, <1>15, <1>16 DEF NothingHidden
<1>19. StackFits' /\ DoneInv'
  BY <1>7, <1>15 DEF StackFits, DoneInv, PushRoots
<1>20. PendingInv'
  <2>1. pc' # "start"
    BY DEF PushRoots
  <2> QED BY <1>11, <1>12, <1>13, <1>16, <2>1 DEF PendingInv
<1>21. MovesInv'
  <2>1. \A s \in Slot : moves'[s] = IF s \in HeaderSlot THEN 0 ELSE moves[s]
    BY DEF PushRoots
  <2>2. \A o \in Object : \A s \in Slots(o) : moves'[s] = 0
    BY <1>15, <2>1, FieldsAssumption DEF MarkInv, MovesInv
  <2>3. \A s \in Pending' : moves'[s] = 0
    BY <1>13, <2>1
  <2> QED BY <1>14, <1>15, <1>16, <2>2, <2>3 DEF MovesInv
<1> QED BY <1>17, <1>18, <1>19, <1>20, <1>21 DEF MarkInv

\* Pop: the fields of the segment on top are pending as before.
LEMMA PopInv ==
  ASSUME MarkInv, Pop
  PROVE  MarkInv'
<1> USE GcAssumption
<1> DEFINE top == stack[Len(stack)]
           front == SubSeq(stack, 1, Len(stack) - 1)
<1>1. stack \in Seq(Segment) /\ stack # <<>>
  BY DEF MarkInv, TypeOK, Pop
<1>2. /\ front \in Seq(Segment) /\ Len(front) = Len(stack) - 1 /\ top \in Segment
      /\ Spans(stack) = Spans(front) \cup In(top)
      /\ Apart(front) /\ In(top) \cap Spans(front) = {}
  BY <1>1, SpansFront DEF MarkInv, PendingInv
<1>3. stack' = front /\ opp' = top.ptr /\ len' = top.len
  BY DEF Pop
<1> HIDE DEF top, front
<1>4. Rest' = In(top) /\ Rest = {}
  BY <1>3 DEF Rest, In, Pop
<1>5. Pending' = Pending
  BY <1>2, <1>3, <1>4 DEF Pending
<1>6. Visited' = Visited /\ marked' = marked /\ ref' = ref /\ moves' = moves
  BY DEF Visited, Pop
<1>7. Reachable' = Reachable
  BY <1>6, ReachableStable
<1>8. pc = "pop" /\ pc' = "scan" /\ cap' = cap
  BY DEF Pop
<1>9. TypeOK'
  BY <1>2, <1>3, <1>6, <1>8 DEF MarkInv, TypeOK, Segment
<1>10. NothingHidden' /\ DoneInv'
  BY <1>5, <1>6, <1>7, <1>8 DEF MarkInv, NothingHidden, DoneInv
<1>11. StackFits'
  BY <1>1, <1>2, <1>3, <1>8 DEF MarkInv, StackFits, TypeOK
<1>12. PendingInv'
  BY <1>2, <1>3, <1>4, <1>5, <1>6, <1>8 DEF MarkInv, PendingInv
<1>13. MovesInv'
  BY <1>5, <1>6, <1>8 DEF MarkInv, MovesInv
<1> QED BY <1>9, <1>10, <1>11, <1>12, <1>13 DEF MarkInv

\* Finish: nothing is pending.
LEMMA FinishInv ==
  ASSUME MarkInv, Finish
  PROVE  MarkInv'
<1>1. /\ ref' = ref /\ moves' = moves /\ marked' = marked /\ stack' = stack
      /\ cap' = cap /\ opp' = opp /\ len' = len
      /\ pc = "pop" /\ pc' = "done" /\ stack = <<>>
  BY DEF Finish
<1>2. Pending' = Pending /\ Rest' = Rest /\ Visited' = Visited
  BY <1>1 DEF Pending, Rest, Visited
<1>3. Reachable' = Reachable
  BY <1>1, ReachableStable
<1> QED BY <1>1, <1>2, <1>3 DEF MarkInv, TypeOK, NothingHidden, StackFits,
          PendingInv, MovesInv, DoneInv

\* Steps of the program outside the mark phase.
LEMMA StutterInv ==
  ASSUME MarkInv, UNCHANGED vars
  PROVE  MarkInv'
<1>1. /\ ref' = ref /\ moves' = moves /\ marked' = marked /\ stack' = stack
      /\ cap' = cap /\ opp' = opp /\ len' = len /\ pc' = pc
  BY DEF vars
<1>2. Pending' = Pending /\ Rest' = Rest /\ Visited' = Visited
  BY <1>1 DEF Pending, Rest, Visited
<1>3. Reachable' = Reachable
  BY <1>1, ReachableStable
<1> QED BY <1>1, <1>2, <1>3 DEF MarkInv, TypeOK, NothingHidden, StackFits,
          PendingInv, MovesInv, DoneInv
\* The collector knows fields of the header and of marked objects only.
LEMMA VisitedSlots ==
  ASSUME marked \subseteq Object
  PROVE  /\ Visited \subseteq Slot
         /\ \A o \in Object \ marked : Slots(o) \cap Visited = {}
<1>1. ASSUME NEW s \in Visited PROVE s \in HeaderSlot \/ \E p \in marked : s \in Slots(p)
  BY DEF Visited
<1>2. Visited \subseteq Slot
  BY <1>1, GcAssumption
<1>3. ASSUME NEW o \in Object, o \notin marked, NEW s \in Slots(o), s \in Visited
      PROVE  FALSE
  <2>1. s \notin HeaderSlot
    BY <1>3, FieldsAssumption
  <2>2. PICK p \in marked : s \in Slots(p)
    BY <1>1, <1>3, <2>1
  <2>3. p \in Object /\ p # o
    BY <1>3, <2>2
  <2> QED BY <1>3, <2>2, <2>3, FieldsAssumption
<1> QED BY <1>2, <1>3

\* Scan, on any field: what the field and the rest of the segment are.
LEMMA ScanField ==
  ASSUME MarkInv, Scan
  PROVE  /\ opp \in Rest /\ opp \in Pending /\ opp \in Slot /\ opp \in Visited
         /\ opp \notin Spans(stack) /\ moves[opp] = 0
         /\ Rest' = Rest \ {opp}
         /\ ref' = ref /\ pc = "scan" /\ pc' \in {"pop", "scan"}
         /\ opp' \in Nat /\ len' \in Nat
<1>1. opp \in Nat /\ len \in Nat /\ len > 0 /\ pc = "scan"
  BY DEF MarkInv, TypeOK, Scan
<1>2. opp' = opp + 1 /\ len' = len - 1 /\ ref' = ref
      /\ pc' = IF len = 1 THEN "pop" ELSE "scan"
  BY DEF Scan
<1>3. Rest = opp .. opp + len - 1 /\ opp \in Rest
  BY <1>1 DEF Rest
<1>4. Rest' = Rest \ {opp}
  <2>1. CASE len = 1
    <3>1. Rest' = {}
      BY <1>2, <2>1 DEF Rest
    <3>2. Rest = {opp}
      BY <1>1, <1>3, <2>1
    <3> QED BY <3>1, <3>2
  <2>2. CASE len # 1
    <3>1. Rest' = opp + 1 .. opp + 1 + (len - 1) - 1
      BY <1>2, <2>2 DEF Rest
    <3> QED BY <1>1, <1>3, <3>1
  <2> QED BY <2>1, <2>2
<1>5. opp \in Pending
  BY <1>3 DEF Pending
<1>6. opp \in Slot /\ opp \in Visited /\ moves[opp] = 0 /\ opp \notin Spans(stack)
  BY <1>1, <1>3, <1>5 DEF MarkInv, PendingInv, MovesInv
<1> QED BY <1>1, <1>2, <1>3, <1>4, <1>5, <1>6

\* Scan, on a field whose object is marked already or that is null.
LEMMA ScanNoMark ==
  ASSUME MarkInv, Scan, ref[opp] = Null \/ ref[opp] \in marked
  PROVE  MarkInv'
<1> USE GcAssumption
<1>1. /\ opp \in Rest /\ opp \in Pending /\ opp \in Slot /\ opp \in Visited
      /\ opp \notin Spans(stack) /\ moves[opp] = 0
      /\ Rest' = Rest \ {opp}
      /\ ref' = ref /\ pc = "scan" /\ pc' \in {"pop", "scan"}
      /\ opp' \in Nat /\ len' \in Nat
  BY ScanField
<1>2. marked' = marked /\ cap' = cap /\ stack' = stack
  <2>1. CASE ref[opp] = Null
    BY <2>1 DEF Scan
  <2>2. CASE ref[opp] # Null
    BY <2>2 DEF Scan, Mark
  <2> QED BY <2>1, <2>2
<1>3. Pending' = Pending \ {opp}
  BY <1>1, <1>2 DEF Pending
<1>4. Visited' = Visited
  BY <1>2 DEF Visited
<1>5. Reachable' = Reachable
  BY <1>1, ReachableStable
<1>6. /\ moves' \in [Slot -> Nat]
      /\ \A s \in Slot \ {opp} : moves'[s] = moves[s]
      /\ ref[opp] # Null => moves'[opp] = 1
  <2>1. moves \in [Slot -> Nat]
    BY DEF MarkInv, TypeOK
  <2>2. CASE ref[opp] = Null
    BY <2>1, <2>2 DEF Scan
  <2>3. CASE ref[opp] # Null
    <3>1. moves' = [moves EXCEPT ![opp] = moves[opp] + 1]
      BY <2>3 DEF Scan
    <3> QED BY <1>1, <2>1, <3>1
  <2> QED BY <2>2, <2>3
<1>7. TypeOK'
  BY <1>1, <1>2, <1>6 DEF MarkInv, TypeOK
<1>8. NothingHidden' /\ DoneInv' /\ StackFits'
  BY <1>1, <1>2, <1>3, <1>4, <1>5 DEF MarkInv, NothingHidden, DoneInv, StackFits
<1>9. PendingInv'
  BY <1>1, <1>2, <1>3, <1>4 DEF MarkInv, PendingInv
<1>10. MovesInv'
  <2>1. Visited \subseteq Slot
    BY VisitedSlots DEF MarkInv, TypeOK
  <2>2. \A o \in Object \ marked : \A s \in Slots(o) : s \in Slot \ {opp}
    <3>1. \A o \in Object \ marked : Slots(o) \cap Visited = {}
      BY VisitedSlots DEF MarkInv, TypeOK
    <3> QED BY <1>1, <3>1
  <2>3. \A s \in Pending' : moves'[s] = 0
    BY <1>1, <1>3, <1>6 DEF MarkInv, PendingInv, MovesInv
  <2>4. \A s \in Visited \ Pending' : ref[s] # Null => moves'[s] = 1
    BY <1>1, <1>3, <1>6, <2>1 DEF MarkInv, MovesInv
  <2>5. \A o \in Object \ marked : \A s \in Slots(o) : moves'[s] = 0
    BY <1>6, <2>2 DEF MarkInv, MovesInv
  <2> QED BY <1>1, <1>2, <1>4, <2>3, <2>4, <2>5 DEF MovesInv
<1> QED BY <1>7, <1>8, <1>9, <1>10 DEF MarkInv

\* Scan, on the first field that refers to an object: its fields are pending.
LEMMA ScanMark ==
  ASSUME MarkInv, Scan, ref[opp] # Null, ref[opp] \notin marked
  PROVE  MarkInv'
<1> USE GcAssumption
<1> DEFINE o == ref[opp]
<1>1. /\ opp \in Rest /\ opp \in Pending /\ opp \in Slot /\ opp \in Visited
      /\ opp \notin Spans(stack) /\ moves[opp] = 0
      /\ Rest' = Rest \ {opp}
      /\ ref' = ref /\ pc = "scan" /\ pc' \in {"pop", "scan"}
      /\ opp' \in Nat /\ len' \in Nat
  BY ScanField
<1>2. o \in Object /\ o \notin marked
  BY <1>1 DEF MarkInv, TypeOK
<1>3. /\ marked' = marked \cup {o} /\ cap' = Grown(Len(stack), o)
      /\ stack' = stack \o Fields[o]
      /\ moves' = [moves EXCEPT ![opp] = moves[opp] + 1]
  BY DEF Scan, Mark
<1>4. o \in Reachable
  BY <1>1, ReachableClosed DEF MarkInv, NothingHidden
<1>5. o = ref[opp]
  OBVIOUS
<1> HIDE DEF o
<1>6. /\ stack \in Seq(Segment) /\ Fields[o] \in Seq(Segment)
      /\ moves \in [Slot -> Nat] /\ cap \in Nat /\ marked \subseteq Object
  BY <1>2 DEF MarkInv, TypeOK
<1>7. Slots(o) \subseteq Slot /\ Apart(Fields[o]) /\ Slots(o) = Spans(Fields[o])
  BY <1>2, FieldsAssumption DEF Slots
<1>8. Slots(o) \cap Visited = {}
  BY <1>2, <1>6, VisitedSlots
<1>9. Visited' = Visited \cup Slots(o)
  BY <1>3 DEF Visited
<1>10. Spans(stack') = Spans(stack) \cup Slots(o)
  BY <1>3, <1>6, <1>7, SpansConcat
<1>11. Pending' = (Pending \ {opp}) \cup Slots(o)
  BY <1>1, <1>8, <1>10 DEF Pending
<1>12. Pending \subseteq Visited /\ Pending \subseteq Slot /\ Apart(stack)
       /\ Rest \cap Spans(stack) = {}
  BY <1>1 DEF MarkInv, PendingInv
<1>13. Spans(stack) \cap Slots(o) = {} /\ Rest \cap Slots(o) = {}
  BY <1>8, <1>12 DEF Pending
<1>14. Apart(stack')
  BY <1>3, <1>6, <1>7, <1>12, <1>13, ApartConcat
<1>15. Reachable' = Reachable
  BY <1>1, ReachableStable
<1>16. cap' \in Nat /\ stack' \in Seq(Segment) /\ Len(stack') <= cap'
  <2> DEFINE n == Len(stack)
             k == Len(Fields[o])
             w == Words[o]
  <2>1. n \in Nat /\ k \in Nat /\ w \in Nat /\ k <= w
    BY <1>2, <1>6
  <2>2. stack' \in Seq(Segment) /\ Len(stack') = n + k
    BY <1>3, <1>6
  <2>3. cap' = IF n + w >= cap THEN 2 * n + w ELSE cap
    BY <1>3 DEF Grown
  <2> HIDE DEF n, k, w
  <2> QED BY <1>6, <2>1, <2>2, <2>3
<1>17. /\ moves' \in [Slot -> Nat] /\ moves'[opp] = 1
       /\ \A s \in Slot \ {opp} : moves'[s] = moves[s]
  BY <1>1, <1>3, <1>6
<1>18. TypeOK'
  BY <1>1, <1>2, <1>3, <1>6, <1>16, <1>17 DEF MarkInv, TypeOK
<1>19. NothingHidden'
  <2>1. marked' \subseteq Reachable'
    BY <1>3, <1>4, <1>15 DEF MarkInv, NothingHidden
  <2>2. ASSUME NEW s \in Visited', ref[s] # Null
        PROVE  s \in Pending' \/ ref[s] \in marked'
    <3>1. CASE s \in Slots(o)
      BY <1>11, <3>1
    <3>2. CASE s = opp
      BY <1>3, <1>5, <3>2
    <3>3. CASE s \in Visited /\ s # opp
      BY <1>1, <1>3, <1>11, <2>2, <3>3 DEF MarkInv, NothingHidden
    <3> QED BY <1>9, <3>1, <3>2, <3>3
  <2> QED BY <1>1, <2>1, <2>2 DEF NothingHidden
<1>20. DoneInv' /\ StackFits'
  BY <1>1, <1>16 DEF DoneInv, StackFits
<1>21. PendingInv'
  <2>1. Pending' \subseteq Slot /\ Pending' \subseteq Visited'
    BY <1>7, <1>9, <1>11, <1>12
  <2>2. Rest' \cap Spans(stack') = {}
    BY <1>1, <1>10, <1>12, <1>13
  <2> QED BY <1>1, <1>14, <2>1, <2>2 DEF PendingInv
<1>22. MovesInv'
  <2>1. \A p \in Object \ marked : Slots(p) \cap Visited = {} /\ Slots(p) \subseteq Slot
    BY <1>6, VisitedSlots
  <2>2. \A p \in Object \ marked : \A s \in Slots(p) : moves'[s] = 0
    <3>1. \A p \in Object \ marked : \A s \in Slots(p) : moves[s] = 0
      BY DEF MarkInv, MovesInv
    <3>2. \A p \in Object \ marked : \A s \in Slots(p) : s \in Slot \ {opp}
      BY <1>1, <2>1
    <3> QED BY <1>17, <3>1, <3>2
  <2>3. \A s \in Pending' : moves'[s] = 0
    <3>1. \A s \in Pending \ {opp} : moves'[s] = 0
      BY <1>1, <1>12, <1>17 DEF MarkInv, MovesInv
    <3> QED BY <1>2, <1>11, <2>2, <3>1
  <2>4. ASSUME NEW s \in Visited' \ Pending', ref[s] # Null
        PROVE  moves'[s] = 1
    <3>1. s \in Visited
      BY <1>9, <1>11
    <3>2. s \in Slot
      BY <1>6, <3>1, VisitedSlots
    <3>3. CASE s = opp
      BY <1>17, <3>3
    <3>4. CASE s # opp
      <4>1. s \in Visited \ Pending
        BY <1>11, <3>1, <3>4
      <4> QED BY <1>1, <1>17, <2>4, <3>2, <3>4, <4>1 DEF MarkInv, MovesInv
    <3> QED BY <3>3, <3>4
  <2> QED BY <1>1, <1>3, <2>2, <2>3, <2>4 DEF MovesInv
<1> QED BY <1>18, <1>19, <1>20, <1>21, <1>22 DEF MarkInv

-----------------------------------------------------------------------------
(* The theorems.  An object with an empty segment, which leaves the loop     *)
(* (ScanEmpty, not a step of Spec), is outside of them.                      *)

\* MarkInv holds throughout the mark phase of garbage_collection().
THEOREM MarkInvariance == Spec => []MarkInv
<1>1. MarkInv /\ [Next]_vars => MarkInv'
  <2> SUFFICES ASSUME MarkInv, [Next]_vars PROVE MarkInv'
    OBVIOUS
  <2>1. CASE PushRoots
    BY <2>1, PushRootsInv
  <2>2. CASE Pop
    BY <2>2, PopInv
  <2>3. CASE Scan
    BY <2>3, ScanNoMark, ScanMark
  <2>4. CASE Finish
    BY <2>4, FinishInv
  <2>5. CASE UNCHANGED vars
    BY <2>5, StutterInv
  <2> QED BY <2>1, <2>2, <2>3, <2>4, <2>5 DEF Next
<1> QED BY <1>1, InitInv, PTL DEF Spec

\* The collector keeps track of every reference of a marked object, and marks
\* no object the program cannot reach.
THEOREM NothingIsHidden == Spec => [](TypeOK /\ NothingHidden)
<1>1. MarkInv => TypeOK /\ NothingHidden
  BY DEF MarkInv
<1> QED BY <1>1, MarkInvariance, PTL

\* The sweep finds marked exactly the objects the program can reach, so that
\* it frees all the others and none of these.
THEOREM MarkCorrect == Spec => []MarksReachable
<1>1. MarkInv => MarksReachable
  BY DoneReachable DEF MarksReachable
<1> QED BY <1>1, MarkInvariance, PTL

\* When the file is mapped at another address every reference that survives
\* is moved by the distance once.
THEOREM ReferencesMovedOnce == Spec => []MovedOnce
<1>1. MarkInv => MovedOnce
  <2> SUFFICES ASSUME MarkInv, pc = "done"
               PROVE  \A s \in Visited : ref[s] # Null => moves[s] = 1
    BY DEF MovedOnce
  <2>1. Pending = {}
    BY SpansEmpty DEF MarkInv, DoneInv, Pending, Rest
  <2> QED BY <2>1 DEF MarkInv, MovesInv
<1> QED BY <1>1, MarkInvariance, PTL

\* The mark stack is grown before a constructor could push beyond its end.
THEOREM StackNeverOverrun == Spec => []StackFits
<1>1. MarkInv => StackFits
  BY DEF MarkInv
<1> QED BY <1>1, MarkInvariance, PTL
=============================================================================
