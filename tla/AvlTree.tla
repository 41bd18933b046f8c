------------------------------- MODULE AvlTree -------------------------------
(***************************************************************************)
(* avl_tree and the list of its keys (avltree.cxx, avltree.h).  A tree is  *)
(* [root, list]: root is NULL or a node [key, left, right, balance], list  *)
(* is the ring of l2elem links read from the tree's own element, which is  *)
(* the head of the ring.  A key is an object; Key gives the value that     *)
(* compare() looks at, so that two objects may be equal.                   *)
(***************************************************************************)
EXTENDS Rotations, SequencesExt

CONSTANTS NULL,    \* the null pointer
          Key      \* the value of every object: [objects -> Int]

AvlEmpty == [root |-> NULL, list |-> <<>>]

AvlNode(key) == [key |-> key, left |-> NULL, right |-> NULL, balance |-> 0]

Place(list, key) == CHOOSE i \in 1..Len(list) : list[i] = key

link_after(list, key, after)   == InsertAt(list, Place(list, after) + 1, key)

link_before(list, key, before) == InsertAt(list, Place(list, before), key)

unlink(list, key) == Remove(list, key)

\* avl_tree_node::insert(): the branch, whether it grew, the list and the key
\* that is in the tree under this value afterwards.
RECURSIVE avl_node_insert(_, _, _)
avl_node_insert(p, list, key) ==
  LET side == IF Key[key] < Key[p.key] THEN "left" ELSE "right"
      new  == [p |-> AvlNode(key), h |-> 1, key |-> key,
               list |-> IF side = "left" THEN link_before(list, key, p.key)
                                         ELSE link_after(list, key, p.key)]
      sub  == IF p[side] = NULL THEN new ELSE avl_node_insert(p[side], list, key)
      q    == [p EXCEPT ![side] = sub.p]
      up   == IF sub.h = 0 THEN [p |-> q, h |-> 0] ELSE Grew(q, side)
  IN  IF Key[key] = Key[p.key]
        THEN [p |-> p, h |-> 0, list |-> list, key |-> p.key]
        ELSE [p |-> up.p, h |-> up.h, list |-> sub.list, key |-> sub.key]

\* avl_tree::insert(): the tree and the key the method returns.
avl_insert(t, key) ==
  IF t.root = NULL
    THEN [t |-> [root |-> AvlNode(key), list |-> <<key>> \o t.list], res |-> key]
    ELSE LET r == avl_node_insert(t.root, t.list, key)
         IN  [t |-> [root |-> r.p, list |-> r.list], res |-> r.key]

\* avl_tree_node::remove(p, q): the greatest key of the branch goes to the
\* node that is being emptied.
RECURSIVE avl_take_last(_)
avl_take_last(p) ==
  IF p.right = NULL
    THEN [p |-> p.left, h |-> 1, key |-> p.key]
    ELSE LET sub == avl_take_last(p.right)
             q   == [p EXCEPT !.right = sub.p]
             up  == IF sub.h = 0 THEN [p |-> q, h |-> 0] ELSE Shrank(q, "right")
         IN  [p |-> up.p, h |-> up.h, key |-> sub.key]

\* avl_tree_node::remove(p, del_key): h is -1 when the key is not there.
RECURSIVE avl_node_remove(_, _)
avl_node_remove(p, key) ==
  IF Key[key] # Key[p.key]
    THEN LET side == IF Key[key] < Key[p.key] THEN "left" ELSE "right"
             sub  == avl_node_remove(p[side], key)
             q    == [p EXCEPT ![side] = sub.p]
         IN  IF p[side] = NULL THEN [p |-> p, h |-> -1]
             ELSE IF sub.h > 0 THEN Shrank(q, side)
             ELSE [p |-> q, h |-> sub.h]
  ELSE IF p.key # key        THEN [p |-> p, h |-> -1]
  ELSE IF p.right = NULL     THEN [p |-> p.left, h |-> 1]
  ELSE IF p.left = NULL      THEN [p |-> p.right, h |-> 1]
  ELSE LET sub == avl_take_last(p.left)
           q   == [p EXCEPT !.left = sub.p, !.key = sub.key]
       IN  IF sub.h = 0 THEN [p |-> q, h |-> 0] ELSE Shrank(q, "left")

\* avl_tree::remove()
avl_remove(t, key) ==
  LET r == avl_node_remove(t.root, key)
  IN  IF t.root = NULL \/ r.h < 0
        THEN [t |-> t, res |-> FALSE]
        ELSE [t |-> [root |-> r.p, list |-> unlink(t.list, key)], res |-> TRUE]

\* avl_tree::search(), from the node np on.
RECURSIVE avl_search(_, _)
avl_search(np, key) ==
  IF np = NULL                    THEN NULL
  ELSE IF Key[key] < Key[np.key]  THEN avl_search(np.left, key)
  ELSE IF Key[key] > Key[np.key]  THEN avl_search(np.right, key)
  ELSE np.key

-----------------------------------------------------------------------------
\* What the structure means.

RECURSIVE AvlKeys(_)
AvlKeys(p) == IF p = NULL THEN <<>> ELSE AvlKeys(p.left) \o <<p.key>> \o AvlKeys(p.right)

RECURSIVE AvlHeight(_)
AvlHeight(p) ==
  IF p = NULL THEN 0
  ELSE LET l == AvlHeight(p.left)  r == AvlHeight(p.right) IN 1 + IF l > r THEN l ELSE r

RECURSIVE AvlBalanced(_)
AvlBalanced(p) ==
  \/ p = NULL
  \/ /\ p.balance = AvlHeight(p.right) - AvlHeight(p.left)
     /\ p.balance \in -1..1
     /\ AvlBalanced(p.left) /\ AvlBalanced(p.right)
=============================================================================
