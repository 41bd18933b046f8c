------------------------------ MODULE Rotations ------------------------------
(***************************************************************************)
(* The rebalancing shared by avl_tree_node (avltree.cxx) and dbTtreeNode   *)
(* (ttree.cxx), which repeat the same text for either side.  A node is a   *)
(* record with the fields left, right and balance, and possibly others;    *)
(* NULL is the empty branch.  The source writes every case twice, once for *)
(* each side; here the side is a parameter, a field name.                  *)
(***************************************************************************)
EXTENDS Integers

Other(side) == IF side = "left" THEN "right" ELSE "left"

\* The sign of balance when the branch on that side is the higher one.
Lean(side) == IF side = "left" THEN -1 ELSE 1

\* The child on one side takes the place of its parent.
SingleTurn(p, side, down, up) ==
  LET c == p[side]
  IN  [c EXCEPT ![Other(side)] = [p EXCEPT ![side] = c[Other(side)], !.balance = down],
                !.balance = up]

\* The inner grandchild on one side takes the place of its grandparent.
DoubleTurn(p, side) ==
  LET c == p[side]
      g == c[Other(side)]
  IN  [g EXCEPT
        ![side] = [c EXCEPT ![Other(side)] = g[side],
                            !.balance = IF g.balance = Lean(Other(side)) THEN Lean(side) ELSE 0],
        ![Other(side)] = [p EXCEPT ![side] = g[Other(side)],
                                   !.balance = IF g.balance = Lean(side) THEN Lean(Other(side)) ELSE 0],
        !.balance = 0]

(***************************************************************************)
(* The tail of insert(): the branch of p on one side has grown.  h tells   *)
(* whether the branch that starts at p has grown as well.                  *)
(***************************************************************************)
Grew(p, side) ==
  IF p.balance = 0
    THEN [p |-> [p EXCEPT !.balance = Lean(side)], h |-> 1]
  ELSE IF p.balance # Lean(side)
    THEN [p |-> [p EXCEPT !.balance = 0], h |-> 0]
  ELSE [p |-> IF p[side].balance = Lean(side) THEN SingleTurn(p, side, 0, 0)
                                              ELSE DoubleTurn(p, side),
        h |-> 0]

(****************************************************************************)
(* balance_left_branch() and balance_right_branch(): the branch of p on one *)
(* side has become lower.  h is 1 when the branch at p is lower as well.    *)
(****************************************************************************)
\* Variant: the level child is turned as if it leant outwards.
ShrankForgetsLevel(p, side) ==
  LET far == Other(side) IN
  IF p.balance = Lean(side)
    THEN [p |-> [p EXCEPT !.balance = 0], h |-> 1]
  ELSE IF p.balance = 0
    THEN [p |-> [p EXCEPT !.balance = Lean(far)], h |-> 0]
  ELSE IF p[far].balance # Lean(side)
    THEN [p |-> SingleTurn(p, far, 0, 0), h |-> 1]
  ELSE [p |-> DoubleTurn(p, far), h |-> 1]

Shrank(p, side) ==
  LET far == Other(side) IN
  IF p.balance = Lean(side)
    THEN [p |-> [p EXCEPT !.balance = 0], h |-> 1]
  ELSE IF p.balance = 0
    THEN [p |-> [p EXCEPT !.balance = Lean(far)], h |-> 0]
  ELSE IF p[far].balance = 0
    THEN [p |-> SingleTurn(p, far, Lean(far), Lean(side)), h |-> 0]
  ELSE IF p[far].balance = Lean(far)
    THEN [p |-> SingleTurn(p, far, 0, 0), h |-> 1]
  ELSE [p |-> DoubleTurn(p, far), h |-> 1]
=============================================================================
