-------------------------------- MODULE TTree --------------------------------
(****************************************************************************)
(* dbTtree (ttree.cxx, ttree.h) and its iterator (iterator.cxx).  A node is *)
(* [item, nItems, left, right, balance]; item keeps all its slots, used or  *)
(* not, because the class description REFS(item) covers all of them.        *)
(****************************************************************************)
EXTENDS Rotations, Sequences

CONSTANTS NULL, Key,
          pageSize,     \* slots of a node (125 in ttree.h)
          Unlimited     \* "no bound" for firstKey and lastKey

minItems == pageSize - 2

Slots == 0..pageSize - 1

\* The constructor; allocation has cleared the other slots.
TNode(obj) == [item |-> [i \in Slots |-> IF i = 0 THEN obj ELSE NULL],
               nItems |-> 1, left |-> NULL, right |-> NULL, balance |-> 0]

Compare(a, b) == Key[a] - Key[b]

\* item[r..n] moves up by one and obj takes slot r.
ItemsInserted(p, r, obj) ==
  [p EXCEPT !.item = [i \in Slots |-> IF i = r THEN obj
                                      ELSE IF i > r /\ i <= p.nItems THEN p.item[i - 1]
                                      ELSE p.item[i]],
            !.nItems = @ + 1]

\* The slot found by the binary search in the middle of insert(), which
\* stops at the first equal item it meets.
RECURSIVE InsertPoint(_, _, _, _)
InsertPoint(p, obj, l, r) ==
  LET i    == (l + r) \div 2
      diff == Compare(obj, p.item[i])
  IN  IF l >= r       THEN r
      ELSE IF diff > 0 THEN InsertPoint(p, obj, i + 1, r)
      ELSE IF diff = 0 THEN i
      ELSE InsertPoint(p, obj, l, i)

\* A full node takes obj before item[r]: the item pushed out at one end.
Pushed(p, r, obj) ==
  IF p.balance >= 0
    THEN [out |-> p.item[0],
          p |-> [p EXCEPT !.item = [i \in Slots |-> IF i < r - 1 THEN p.item[i + 1]
                                                    ELSE IF i = r - 1 THEN obj ELSE p.item[i]]]]
    ELSE [out |-> p.item[pageSize - 1],
          p |-> [p EXCEPT !.item = [i \in Slots |-> IF i > r THEN p.item[i - 1]
                                                    ELSE IF i = r THEN obj ELSE p.item[i]]]]

\* dbTtreeNode::insert(); h is 1 when the branch grew.
RECURSIVE ttree_node_insert(_, _)
ttree_node_insert(p, obj) ==
  LET n     == p.nItems
      low   == Compare(obj, p.item[0])
      high  == Compare(obj, p.item[n - 1])
      r     == InsertPoint(p, obj, 1, n - 1)
      Into(side) ==
        LET sub == IF p[side] = NULL THEN [p |-> TNode(obj), h |-> 1]
                                     ELSE ttree_node_insert(p[side], obj)
            q   == [p EXCEPT ![side] = sub.p]
        IN  IF sub.h = 0 THEN [p |-> q, h |-> 0] ELSE Grew(q, side)
  IN  IF low <= 0
        THEN IF (p.left = NULL \/ low = 0) /\ n # pageSize
               THEN [p |-> ItemsInserted(p, 0, obj), h |-> 0]
               ELSE Into("left")
      ELSE IF high >= 0
        THEN IF (p.right = NULL \/ high = 0) /\ n # pageSize
               THEN [p |-> ItemsInserted(p, n, obj), h |-> 0]
               ELSE Into("right")
      ELSE IF n # pageSize
        THEN [p |-> ItemsInserted(p, r, obj), h |-> 0]
        ELSE LET x == Pushed(p, r, obj) IN ttree_node_insert(x.p, x.out)

\* dbTtree::insert()
ttree_insert(root, obj) ==
  IF root = NULL THEN TNode(obj) ELSE ttree_node_insert(root, obj).p

balanceLeftBranch(p)  == Shrank(p, "left")

balanceRightBranch(p) == Shrank(p, "right")

RECURSIVE Last(_)
Last(p) == IF p.right = NULL THEN p.item[p.nItems - 1] ELSE Last(p.right)

RECURSIVE First(_)
First(p) == IF p.left = NULL THEN p.item[0] ELSE First(p.left)

\* Slot i is filled from below, or from above, and the end slot takes obj.
FilledFromBelow(p, i, obj) ==
  [p EXCEPT !.item = [k \in Slots |-> IF k = 0 THEN obj
                                      ELSE IF k <= i THEN p.item[k - 1] ELSE p.item[k]]]

FilledFromAbove(p, i, obj) ==
  [p EXCEPT !.item = [k \in Slots |-> IF k = p.nItems - 1 THEN obj
                                      ELSE IF k >= i /\ k < p.nItems THEN p.item[k + 1]
                                      ELSE p.item[k]]]

\* The slots above i move down; the last one keeps its old pointer.
ItemRemoved(p, i) ==
  [p EXCEPT !.item = [k \in Slots |-> IF k >= i /\ k < p.nItems - 1 THEN p.item[k + 1]
                                      ELSE p.item[k]],
            !.nItems = @ - 1]

\* dbTtreeNode::remove(); h is -1 when the object was not found and -2 when
\* the assertion after the search of the left branch fails.
RECURSIVE ttree_node_remove(_, _)
ttree_node_remove(p, obj) ==
  LET n    == p.nItems
      diff == Compare(obj, p.item[0])
      lsub == IF diff <= 0 /\ p.left # NULL THEN ttree_node_remove(p.left, obj)
                                            ELSE [p |-> p.left, h |-> -1]
      at   == {i \in 0..n - 1 : p.item[i] = obj}
      i    == CHOOSE k \in at : \A j \in at : k <= j
      Right(q, o) ==
        LET sub == ttree_node_remove(q.right, o)
            s   == [q EXCEPT !.right = sub.p]
        IN  IF sub.h > 0 THEN balanceRightBranch(s) ELSE [p |-> s, h |-> sub.h]
      Left(q, o) ==
        LET sub == ttree_node_remove(q.left, o)
            s   == [q EXCEPT !.left = sub.p]
        IN  IF sub.h > 0 THEN balanceLeftBranch(s) ELSE [p |-> s, h |-> sub.h]
  IN  IF lsub.h > 0 THEN balanceLeftBranch([p EXCEPT !.left = lsub.p])
      ELSE IF lsub.h = 0 THEN [p |-> [p EXCEPT !.left = lsub.p], h |-> 0]
      ELSE IF diff < 0 \/ lsub.h = -2 THEN [p |-> p, h |-> -2]
      ELSE IF Compare(obj, p.item[n - 1]) <= 0 /\ at # {}
        THEN IF n = 1 /\ p.right = NULL     THEN [p |-> p.left, h |-> 1]
             ELSE IF n = 1 /\ p.left = NULL THEN [p |-> p.right, h |-> 1]
             ELSE IF n <= minItems /\ p.left # NULL /\ p.balance <= 0
               THEN Left(FilledFromBelow(p, i, Last(p.left)), Last(p.left))
             ELSE IF n <= minItems /\ p.right # NULL
               THEN Right(FilledFromAbove(p, i, First(p.right)), First(p.right))
             ELSE [p |-> ItemRemoved(p, i), h |-> 0]
      ELSE IF p.right # NULL THEN Right(p, obj)
      ELSE [p |-> p, h |-> -1]

\* dbTtree::remove(): the object must be in the tree.
ttree_remove(root, obj) == ttree_node_remove(root, obj)

\* dbTtree::purge()
ttree_purge(root) == NULL

-----------------------------------------------------------------------------
(***************************************************************************)
(* dbTtree::find().  A search context is [firstKey, lastKey, firstIncl,    *)
(* lastIncl, limit, accept]; found is the buffer, more the value that the  *)
(* node's find() returns.                                                  *)
(***************************************************************************)
\* Variant: the two meanings of firstKeyInclusion are swapped.
BeforeFirstSwapped(sc, obj) ==
  LET d == sc.firstKey - Key[obj] IN d >= IF sc.firstIncl THEN 0 ELSE 1

BeforeFirst(sc, obj) ==
  LET d == sc.firstKey - Key[obj] IN d >= IF sc.firstIncl THEN 1 ELSE 0

AfterLast(sc, obj) ==
  /\ sc.lastKey # Unlimited
  /\ Key[obj] - sc.lastKey >= IF sc.lastIncl THEN 1 ELSE 0

\* The loop over item[i..n-1].
RECURSIVE Select(_, _, _, _)
Select(p, i, sc, found) ==
  IF i = p.nItems THEN [found |-> found, more |-> TRUE]
  ELSE IF AfterLast(sc, p.item[i]) THEN [found |-> found, more |-> FALSE]
  ELSE LET add == p.item[i] \in sc.accept
           f   == IF add THEN Append(found, p.item[i]) ELSE found
       IN  IF add /\ Len(f) = sc.limit THEN [found |-> f, more |-> FALSE]
           ELSE Select(p, i + 1, sc, f)

\* The binary search for the first item that is not before firstKey.
RECURSIVE FirstMatch(_, _, _, _)
FirstMatch(p, sc, l, r) ==
  LET m == (l + r) \div 2 IN
  IF l >= r THEN r
  ELSE IF BeforeFirst(sc, p.item[m]) THEN FirstMatch(p, sc, m + 1, r)
  ELSE FirstMatch(p, sc, l, m)

RECURSIVE ttree_node_find(_, _, _)
ttree_node_find(p, sc, found) ==
  LET Rest(s)  == IF s.more /\ p.right # NULL THEN ttree_node_find(p.right, sc, s.found) ELSE s
      inside   == sc.firstKey # Unlimited /\ BeforeFirst(sc, p.item[0])
      all      == [found |-> found, more |-> TRUE]
      before   == IF p.left # NULL THEN ttree_node_find(p.left, sc, found) ELSE all
  IN  IF inside
        THEN IF BeforeFirst(sc, p.item[p.nItems - 1]) THEN Rest(all)
             ELSE Rest(Select(p, FirstMatch(p, sc, 0, p.nItems), sc, found))
        ELSE IF ~before.more THEN before ELSE Rest(Select(p, 0, sc, before.found))

ttree_find(root, sc) ==
  IF root = NULL THEN <<>> ELSE ttree_node_find(root, sc, <<>>).found

-----------------------------------------------------------------------------
(***************************************************************************)
(* Ttree_iterator: the node, the position (-1: not valid) and the two      *)
(* stacks, which move together.                                            *)
(***************************************************************************)
End(node, side) == IF side = "left" THEN 0 ELSE node.nItems - 1

\* Down to the outermost node of the branch on one side.
RECURSIVE Outermost(_, _)
Outermost(it, side) ==
  IF it.node[side] = NULL THEN it
  ELSE Outermost([node  |-> it.node[side], pos |-> End(it.node[side], side),
                  stack |-> Append(it.stack, [node |-> it.node, pos |-> it.pos])], side)

Iterator(root, side) ==
  IF root = NULL THEN [node |-> NULL, pos |-> -1, stack |-> <<>>]
  ELSE Outermost([node |-> root, pos |-> End(root, side), stack |-> <<>>], side)

\* The node has been passed in the direction step, 1 or -1.
Passed(it, step) == IF step = 1 THEN it.pos >= it.node.nItems ELSE it.pos < 0

\* Up to the first node that is not finished in this direction.
RECURSIVE Up(_, _)
Up(it, step) ==
  LET top == it.stack[Len(it.stack)] IN
  IF ~Passed(it, step) \/ it.stack = <<>> THEN it
  ELSE Up([node |-> top.node, pos |-> top.pos, stack |-> SubSeq(it.stack, 1, Len(it.stack) - 1)], step)

\* Into the branch sub beside the current node.
Beside(it, sub, side) ==
  Outermost([node |-> sub, pos |-> End(sub, side),
             stack |-> Append(it.stack, [node |-> it.node, pos |-> it.pos])], side)

\* Variant: the first node of the right branch is its root, not its left end.
IncrementStopsAtRoot(it) ==
  LET next == [it EXCEPT !.pos = @ + 1]
      up   == Up(next, 1)
  IN  IF ~Passed(next, 1)           THEN next
      ELSE IF it.node.right # NULL  THEN
        [node |-> it.node.right, pos |-> 0,
         stack |-> Append(it.stack, [node |-> it.node, pos |-> next.pos])]
      ELSE IF Passed(up, 1)         THEN [up EXCEPT !.pos = -1] ELSE up

\* operator++
Increment(it) ==
  LET next == [it EXCEPT !.pos = @ + 1]
      up   == Up(next, 1)
  IN  IF ~Passed(next, 1)           THEN next
      ELSE IF it.node.right # NULL  THEN Beside(next, it.node.right, "left")
      ELSE IF Passed(up, 1)         THEN [up EXCEPT !.pos = -1] ELSE up

\* operator--
Decrement(it) ==
  LET next == [it EXCEPT !.pos = @ - 1]
  IN  IF ~Passed(next, -1)         THEN next
      ELSE IF it.node.left # NULL  THEN Beside(next, it.node.left, "right")
      ELSE Up(next, -1)

\* The objects seen by stepping until the iterator is not valid.
RECURSIVE Walk(_, _)
Walk(it, step) ==
  IF it.pos = -1 THEN <<>>
  ELSE <<it.node.item[it.pos]>> \o Walk(IF step = 1 THEN Increment(it) ELSE Decrement(it), step)

-----------------------------------------------------------------------------
\* What the structure means.

Items(p) == [i \in 1..p.nItems |-> p.item[i - 1]]

RECURSIVE TObjects(_)
TObjects(p) == IF p = NULL THEN <<>> ELSE TObjects(p.left) \o Items(p) \o TObjects(p.right)

RECURSIVE THeight(_)
THeight(p) ==
  IF p = NULL THEN 0
  ELSE LET l == THeight(p.left)  r == THeight(p.right) IN 1 + IF l > r THEN l ELSE r

RECURSIVE TBalanced(_)
TBalanced(p) ==
  \/ p = NULL
  \/ /\ p.balance = THeight(p.right) - THeight(p.left)
     /\ p.balance \in -1..1
     /\ p.nItems \in 1..pageSize
     /\ TBalanced(p.left) /\ TBalanced(p.right)

\* All pointers the collector follows from the node, used slots or not.
RECURSIVE TSlots(_)
TSlots(p) == IF p = NULL THEN {}
             ELSE {p.item[i] : i \in Slots} \cup TSlots(p.left) \cup TSlots(p.right)
=============================================================================
