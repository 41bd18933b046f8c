-------------------------------- MODULE RTree --------------------------------
(*****************************************************************************)
(* R_tree (rtree.cxx, rtree.h).  A tree is [root, height, n_records]; a page *)
(* is the sequence of its branches [rect, p], p being a page or, on the      *)
(* lowest level, an object.  A rectangle is <<x0, y0, x1, y1>>.  The pages   *)
(* waiting to be reinserted, which the source chains through the last slot   *)
(* of each, are a sequence.                                                  *)
(*****************************************************************************)
EXTENDS Integers, SequencesExt

CONSTANTS NULL, card    \* the branches a page has room for

min_fill == card \div 2

LOCAL Least(a, b)    == IF a <= b THEN a ELSE b
LOCAL Greatest(a, b) == IF a >= b THEN a ELSE b

area(r) == (r[3] - r[1]) * (r[4] - r[2])

Join(r, s) == <<Least(r[1], s[1]), Least(r[2], s[2]), Greatest(r[3], s[3]), Greatest(r[4], s[4])>>

Overlaps(r, s) == r[1] <= s[3] /\ s[1] <= r[3] /\ r[2] <= s[4] /\ s[2] <= r[4]

Branch(r, p) == [rect |-> r, p |-> p]

RTreeEmpty == [root |-> NULL, height |-> 0, n_records |-> 0]

\* R_page::cover()
cover(b) == FoldLeft(LAMBDA r, br : Join(r, br.rect), b[1].rect, Tail(b))

-----------------------------------------------------------------------------
\* R_page::split_page()

\* What a pair of rectangles wastes in one cover.
Waste(r, s) == area(Join(r, s)) - area(r) - area(s)

\* The two of the card + 1 rectangles that waste most, the first such pair
\* in the order of the loops.
Seeds(rects) ==
  CHOOSE q \in {<<i, j>> \in (DOMAIN rects) \X (DOMAIN rects) : i < j} :
    \A i, j \in DOMAIN rects : i < j =>
      LET d == Waste(rects[q[1]], rects[q[2]]) - Waste(rects[i], rects[j])
      IN  \/ d > 0
          \/ d = 0 /\ (q[1] < i \/ (q[1] = i /\ q[2] <= j))

\* How much more the rectangle adds to the first group than to the second.
Attraction(g, r) ==
  (area(Join(g.rect[1], r)) - area(g.rect[1])) - (area(Join(g.rect[2], r)) - area(g.rect[2]))

Abs(n) == IF n < 0 THEN -n ELSE n

\* The slots that belong to no group yet.
Unassigned(b, g) == DOMAIN b \ (ToSet(g.new) \cup g.old)

\* The branch most attracted to one group, the first of equals.
Chosen(b, g, left) ==
  CHOOSE i \in left : \A k \in left :
    LET d == Abs(Attraction(g, b[i].rect)) - Abs(Attraction(g, b[k].rect))
    IN  d > 0 \/ (d = 0 /\ i <= k)

\* Slot i joins group 1, whose branches are copied to the new page, or 2.
Assigned(g, i, k) ==
  IF k = 1 THEN [g EXCEPT !.new = Append(@, i), !.card[1] = @ + 1]
           ELSE [g EXCEPT !.old = @ \cup {i}, !.card[2] = @ + 1]

\* The branches that are left go to the group that has fewer.
Evened(b, g) ==
  FoldLeft(LAMBDA h, i : Assigned(h, i, IF h.card[1] >= h.card[2] THEN 2 ELSE 1), g,
           SelectSeq([i \in 1..Len(b) |-> i], LAMBDA i : i \in Unassigned(b, g)))

\* The chosen branch joins the group it enlarges less, whose cover grows.
Joined(b, g, i) ==
  LET k == IF Attraction(g, b[i].rect) < 0 THEN 1 ELSE 2
  IN  [Assigned(g, i, k) EXCEPT !.rect[k] = Join(@, b[i].rect)]

\* g.new: the slots that go to the new page in the order they are copied,
\* g.old: the ones that stay.
RECURSIVE Distributed(_, _)
Distributed(b, g) ==
  IF \/ g.card[1] + g.card[2] = card + 1
     \/ g.card[1] >= card + 1 - min_fill
     \/ g.card[2] >= card + 1 - min_fill
    THEN Evened(b, g)
    ELSE Distributed(b, Joined(b, g, Chosen(b, g, Unassigned(b, g))))

\* The branches in these slots, in the order of the slots.
InOrder(b, slots) ==
  LET is == SelectSeq([i \in 1..Len(b) |-> i], LAMBDA i : i \in slots)
  IN  [j \in 1..Len(is) |-> b[is[j]]]

\* The new page starts with the first seed; the page closes its gaps.
Parted(seed, b, g) ==
  [page |-> InOrder(b, g.old),
   new  |-> <<seed>> \o [i \in 1..Len(g.new) |-> b[g.new[i]]]]

\* b holds the branches without the first seed; t is the slot of the second.
Divided(seed, b, t) ==
  Parted(seed, b, Distributed(b, [rect |-> <<seed.rect, b[t].rect>>, card |-> <<1, 1>>,
                                  new |-> <<>>, old |-> {t}]))

\* The branch added, br, takes the slot of the first seed unless it is the seed.
SplitAt(page, br, q) ==
  Divided(IF q[1] = 1 THEN br ELSE page[q[1] - 1],
          IF q[1] = 1 THEN page ELSE [page EXCEPT ![q[1] - 1] = br],
          q[2] - 1)

split_page(page, br) ==
  SplitAt(page, br, Seeds(<<br.rect>> \o [i \in DOMAIN page |-> page[i].rect]))

-----------------------------------------------------------------------------
\* Insertion.  new is the page split off, NULL when there is none.

add_branch(page, br) ==
  IF Len(page) < card THEN [page |-> Append(page, br), new |-> NULL]
                      ELSE split_page(page, br)

\* The branch that grows least, the smallest of those, the first of equals.
Cost(s, r) == <<area(Join(s, r)) - area(s), area(s)>>

BestBranch(page, r) ==
  CHOOSE i \in DOMAIN page : \A k \in DOMAIN page :
    LET c == Cost(page[i].rect, r)  d == Cost(page[k].rect, r)
    IN  \/ c[1] < d[1]
        \/ c[1] = d[1] /\ c[2] < d[2]
        \/ c = d /\ i <= k

\* What R_page::insert() does after the insertion into branch i gave q.
Absorbed(page, i, r, q) ==
  IF q.new = NULL
    THEN [page |-> [page EXCEPT ![i] = Branch(Join(@.rect, r), q.page)], new |-> NULL]
    ELSE add_branch([page EXCEPT ![i] = Branch(cover(q.page), q.page)], Branch(cover(q.new), q.new))

\* R_page::insert()
RECURSIVE rpage_insert(_, _, _, _)
rpage_insert(page, r, obj, level) ==
  IF level = 1 THEN add_branch(page, Branch(r, obj))
  ELSE LET i == BestBranch(page, r)
       IN  Absorbed(page, i, r, rpage_insert(page[i].p, r, obj, level - 1))

\* The tree after root->insert() gave q: a new root when the old one split.
Rooted(t, q) ==
  IF q.new = NULL THEN [t EXCEPT !.root = q.page]
  ELSE [t EXCEPT !.root = <<Branch(cover(q.page), q.page), Branch(cover(q.new), q.new)>>,
                 !.height = @ + 1]

RootInsert(t, r, obj, level) == Rooted(t, rpage_insert(t.root, r, obj, level))

\* R_tree::insert()
rtree_insert(t, r, obj) ==
  IF t.root = NULL
    THEN [root |-> <<Branch(r, obj)>>, height |-> 1, n_records |-> t.n_records + 1]
    ELSE [RootInsert(t, r, obj, t.height) EXCEPT !.n_records = @ + 1]

-----------------------------------------------------------------------------
\* Removal.

\* Branch i lost the object: its page is covered again or, with too few
\* branches, taken out of the tree.
Shrunk(page, i, sub) ==
  IF Len(sub.page) >= min_fill
    THEN [page |-> [page EXCEPT ![i] = Branch(cover(sub.page), sub.page)],
          out |-> sub.out, found |-> TRUE]
    ELSE [page |-> RemoveAt(page, i), out |-> <<sub.page>> \o sub.out, found |-> TRUE]

\* R_page::remove() from branch i on: the page, the pages taken out of the
\* tree, the highest first, and whether the object was found.
RECURSIVE rpage_remove(_, _, _, _, _)
rpage_remove(page, r, obj, level, i) ==
  IF i > Len(page) THEN [page |-> page, out |-> <<>>, found |-> FALSE]
  ELSE IF level = 1
    THEN IF page[i].p = obj THEN [page |-> RemoveAt(page, i), out |-> <<>>, found |-> TRUE]
         ELSE rpage_remove(page, r, obj, level, i + 1)
  ELSE LET sub == rpage_remove(page[i].p, r, obj, level - 1, 1)
       IN  IF Overlaps(page[i].rect, r) /\ sub.found THEN Shrunk(page, i, sub)
           ELSE rpage_remove(page, r, obj, level, i + 1)

\* The level, counted as in R_page::insert(), that the branches of a page
\* taken out at this level go back to.
ReinsertLevel(t, level) == t.height - level

\* The branches of the page go back to the level they came from.
Reinserted(t, branches, level) ==
  FoldLeft(LAMBDA u, br : RootInsert(u, br.rect, br.p, ReinsertLevel(u, level)), t, branches)

RECURSIVE ReinsertAll(_, _)
ReinsertAll(t, out) ==
  IF out = <<>> THEN t
  ELSE ReinsertAll(Reinserted(t, Head(out), Len(out) - 1), Tail(out))

\* A root with one branch gives way to its child.
Lowered(t) ==
  IF Len(t.root) = 1 /\ t.height > 1
    THEN [t EXCEPT !.root = t.root[1].p, !.height = @ - 1] ELSE t

\* R_tree::remove() when root->remove() gave x.
Removed(t, x) ==
  IF ~x.found THEN [t |-> t, res |-> FALSE]
  ELSE [t |-> [Lowered(ReinsertAll([t EXCEPT !.root = x.page], x.out)) EXCEPT !.n_records = @ - 1],
        res |-> TRUE]

rtree_remove(t, r, obj) ==
  IF t.height = 0 THEN [t |-> t, res |-> FALSE]
  ELSE Removed(t, rpage_remove(t.root, r, obj, t.height, 1))

\* R_tree::purge(); height keeps its value.
rtree_purge(t) == [t EXCEPT !.root = NULL, !.n_records = 0]

-----------------------------------------------------------------------------
\* R_tree::search(), both forms: the objects in the order they are met.
RECURSIVE rpage_search(_, _, _)
rpage_search(page, r, level) ==
  LET Hit(br) == IF ~Overlaps(r, br.rect) THEN <<>>
                 ELSE IF level = 1 THEN <<br.p>> ELSE rpage_search(br.p, r, level - 1)
  IN  FlattenSeq([i \in DOMAIN page |-> Hit(page[i])])

rtree_search(t, r) == IF t.n_records = 0 THEN <<>> ELSE rpage_search(t.root, r, t.height)

-----------------------------------------------------------------------------
\* What the structure means.

RECURSIVE Leaves(_, _)
Leaves(page, level) ==
  IF level = 1 THEN {<<page[i].rect, page[i].p>> : i \in DOMAIN page}
  ELSE UNION {Leaves(page[i].p, level - 1) : i \in DOMAIN page}

\* Pages have as many branches as they may, and rectangles are the covers of
\* what is below them.
RECURSIVE Covered(_, _, _)
Covered(page, level, fill) ==
  /\ Len(page) \in fill..card
  /\ level > 1 => \A i \in DOMAIN page : /\ Covered(page[i].p, level - 1, min_fill)
                                         /\ page[i].rect = cover(page[i].p)
=============================================================================
