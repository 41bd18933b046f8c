----------------------------- MODULE Containers ------------------------------
(*****************************************************************************)
(* The containers of POST++ under any sequence of their calls.  A behaviour  *)
(* is about one container, kind; body is its structure and res the value the *)
(* last call returned.                                                       *)
(*****************************************************************************)
EXTENDS Integers, FiniteSets

CONSTANTS NULL, Object, Key,
          Yes, No,                  \* true and false
          pageSize, Unlimited,      \* T-tree
          Bounds,                   \* the limits of the ranges looked for
          Name, Hash, size,         \* hash table
          card, Rect,               \* R-tree: the rectangle of every object
          Char, upper_case, lower_case, Patterns, Texts,   \* text search
          Population,               \* the objects used with each kind
          MaxLen,                   \* bound on array length and on chains
          MaxRemovals               \* bound on removals from the R-tree

VARIABLES kind, body, res,
          inserted                  \* R-tree: how many insertions and removals

INSTANCE AvlTree
T == INSTANCE TTree
INSTANCE HashTable
R == INSTANCE RTree
D == INSTANCE DynArray
X == INSTANCE TextSearch

vars == <<kind, body, res, inserted>>

Kinds == {"avl", "ttree", "hash", "rtree", "array", "text"}

Init ==
  /\ res = NULL /\ inserted = <<0, 0>>
  /\ \/ kind = "avl"   /\ body = AvlEmpty
     \/ kind = "ttree" /\ body = NULL
     \/ kind = "hash"  /\ body = HashEmpty
     \/ kind = "rtree" /\ body = R!RTreeEmpty
     \/ kind = "array" /\ \E n \in 0..1, u \in 0..1 : body = D!DynNew(n, u)
     \/ kind = "text"  /\ \E p \in Patterns, t \in Texts :
          body = [ctx |-> X!search_ctx(p.patterns, p.and, p.exact), text |-> t, position |-> -1]

Objects == Population[kind]

Truth(b) == IF b THEN Yes ELSE No

-----------------------------------------------------------------------------
\* The calls.  Each takes its arguments from the objects of the kind.

AvlInsert(o) ==
  /\ kind = "avl"
  /\ \E r \in {avl_insert(body, o)} : body' = r.t /\ res' = r.res
  /\ UNCHANGED <<kind, inserted>>

AvlRemove(o) ==
  /\ kind = "avl"
  /\ \E r \in {avl_remove(body, o)} : body' = r.t /\ res' = Truth(r.res)
  /\ UNCHANGED <<kind, inserted>>

\* An object is put into a T-tree once, and only what is there is removed:
\* dbTtree::remove() asserts it, and follows root without a test.
TtreeInsert(o) ==
  /\ kind = "ttree"
  /\ o \notin ToSet(T!TObjects(body))
  /\ body' = T!ttree_insert(body, o)
  /\ res' = NULL
  /\ UNCHANGED <<kind, inserted>>

TtreeRemove(o) ==
  /\ kind = "ttree"
  /\ o \in ToSet(T!TObjects(body))
  /\ \E r \in {T!ttree_remove(body, o)} : body' = r.p /\ res' = Truth(r.h >= 0)
  /\ UNCHANGED <<kind, inserted>>

TtreePurge ==
  /\ kind = "ttree"
  /\ body' = T!ttree_purge(body)
  /\ res' = NULL
  /\ UNCHANGED <<kind, inserted>>

HashPut(n, o) ==
  /\ kind = "hash"
  /\ Len(body[Bucket(n)]) < MaxLen
  /\ body' = hash_put(body, n, o)
  /\ res' = NULL
  /\ UNCHANGED <<kind, inserted>>

HashDelName(n) ==
  /\ kind = "hash"
  /\ \E r \in {hash_del_name(body, n)} : body' = r.t /\ res' = Truth(r.res)
  /\ UNCHANGED <<kind, inserted>>

HashDel(n, o) ==
  /\ kind = "hash"
  /\ \E r \in {hash_del(body, n, o)} : body' = r.t /\ res' = Truth(r.res)
  /\ UNCHANGED <<kind, inserted>>

HashPurge ==
  /\ kind = "hash"
  /\ body' = hash_purge(body)
  /\ res' = NULL
  /\ UNCHANGED <<kind, inserted>>

\* The objects go into the R-tree in their order.  remove() must not follow
\* purge(): height still says that there is a root.
RtreeInsert(o) ==
  /\ kind = "rtree"
  /\ o = inserted[1] + 1
  /\ body' = R!rtree_insert(body, Rect[o], o)
  /\ res' = NULL
  /\ inserted' = [inserted EXCEPT ![1] = o]
  /\ UNCHANGED kind

RtreeRemove(o) ==
  /\ kind = "rtree"
  /\ body.root = NULL => body.height = 0
  /\ inserted[2] < MaxRemovals
  /\ \E r \in {R!rtree_remove(body, Rect[o], o)} : body' = r.t /\ res' = Truth(r.res)
  /\ inserted' = [inserted EXCEPT ![2] = @ + 1]
  /\ UNCHANGED kind

RtreePurge ==
  /\ kind = "rtree"
  /\ inserted[2] < MaxRemovals
  /\ body' = R!rtree_purge(body)
  /\ res' = NULL
  /\ inserted' = [inserted EXCEPT ![2] = @ + 1]
  /\ UNCHANGED kind

ArrayPush(o) ==
  /\ kind = "array"
  /\ body.used < MaxLen
  /\ body' = D!push(body, o)
  /\ res' = NULL
  /\ UNCHANGED <<kind, inserted>>

ArraySetSize(n) ==
  /\ kind = "array"
  /\ body' = D!set_size(body, n)
  /\ res' = NULL
  /\ UNCHANGED <<kind, inserted>>

ArrayIns(pos, count, o) ==
  /\ kind = "array"
  /\ pos <= body.used /\ body.used + count <= MaxLen
  /\ body' = D!ins(body, pos, count, o)
  /\ res' = NULL
  /\ UNCHANGED <<kind, inserted>>

ArrayDel(pos, count) ==
  /\ kind = "array"
  /\ pos + count <= body.used
  /\ body' = D!del(body, pos, count)
  /\ res' = NULL
  /\ UNCHANGED <<kind, inserted>>

ArrayPutAt(i, o) ==
  /\ kind = "array"
  /\ i < body.used
  /\ body' = D!put_at(body, i, o)
  /\ res' = NULL
  /\ UNCHANGED <<kind, inserted>>

ArrayPop ==
  /\ kind = "array"
  /\ body.used # 0
  /\ body' = D!pop(body)
  /\ res' = body.buf[body.used]
  /\ UNCHANGED <<kind, inserted>>

\* text::search() goes on behind the last match.
TextFind ==
  /\ kind = "text"
  /\ body.position # X!Fault
  /\ \E at \in X!text_search(body.ctx, body.text, body.position) :
       body' = [body EXCEPT !.position = at]
  /\ UNCHANGED <<kind, res, inserted>>

Next ==
  \/ \E o \in Objects : AvlInsert(o) \/ AvlRemove(o)
  \/ \E o \in Objects : TtreeInsert(o) \/ TtreeRemove(o)
  \/ TtreePurge
  \/ \E n \in Name : HashDelName(n) \/ \E o \in Objects : HashPut(n, o) \/ HashDel(n, o)
  \/ HashPurge
  \/ \E o \in Objects : RtreeInsert(o) \/ RtreeRemove(o)
  \/ RtreePurge
  \/ \E o \in Objects : ArrayPush(o)
  \/ \E n \in 0..MaxLen : ArraySetSize(n)
  \/ \E pos, count \in 0..MaxLen, o \in Objects : ArrayIns(pos, count, o)
  \/ \E pos, count \in 0..MaxLen : ArrayDel(pos, count)
  \/ \E i \in 0..MaxLen, o \in Objects : ArrayPutAt(i, o)
  \/ ArrayPop
  \/ TextFind

Spec == Init /\ [][Next]_vars

-----------------------------------------------------------------------------
\* What a container holds, read from its structure.
Held ==
  CASE kind = "avl"   -> ToSet(AvlKeys(body.root))
    [] kind = "ttree" -> ToSet(T!TObjects(body))
    [] kind = "hash"  -> [n \in Name |->
                           LET own == SelectSeq(body[Bucket(n)], LAMBDA ip : ip.name = n)
                           IN  [i \in DOMAIN own |-> own[i].obj]]
    [] kind = "rtree" -> IF body.root = NULL THEN {}
                         ELSE {l[2] : l \in R!Leaves(body.root, body.height)}
    [] kind = "array" -> D!Contents(body)
    [] OTHER          -> {}

Abstract == INSTANCE Collection WITH items <- Held

\* Every call on every container changes what it holds, and returns, as the
\* plain collection says, whatever turns, splits, reinsertions, borrowings
\* and reallocations it takes inside.
ImplementsCollection == Abstract!Spec

Sorted(s) == \A i, j \in DOMAIN s : i < j => Key[s[i]] <= Key[s[j]]

\* The structure stays what the algorithms rely on: the trees are ordered,
\* hold an object once and have the balance their nodes say; the chain of
\* keys is the order of the AVL tree; R-tree pages are filled to min_fill
\* and every branch has the exact cover of its page, all leaves on one level.
Shape ==
  CASE kind = "avl"   -> /\ AvlBalanced(body.root)
                         /\ Sorted(AvlKeys(body.root))
                         /\ body.list = AvlKeys(body.root)
    [] kind = "ttree" -> /\ T!TBalanced(body)
                         /\ Sorted(T!TObjects(body))
                         /\ Cardinality(Held) = Len(T!TObjects(body))
    [] kind = "rtree" -> body.root # NULL =>
                         /\ R!Covered(body.root, body.height, IF body.height = 1 THEN 0 ELSE 2)
                         /\ body.n_records = Cardinality(Held)
    [] kind = "hash"  -> \A h \in DOMAIN body : \A i \in DOMAIN body[h] : Bucket(body[h][i].name) = h
    [] OTHER          -> TRUE

Within(k, sc) ==
  /\ sc.firstKey # Unlimited => IF sc.firstIncl THEN k >= sc.firstKey ELSE k > sc.firstKey
  /\ sc.lastKey # Unlimited => IF sc.lastIncl THEN k <= sc.lastKey ELSE k < sc.lastKey

\* Every way to look something up finds what is there: search() of the AVL
\* tree, get() of the hash table, search() of the R-tree for every
\* rectangle, find() of the T-tree for every range and every limit.
SearchAgrees ==
  CASE kind = "avl"   -> \A o \in Objects :
                           LET hit == {x \in Held : Key[x] = Key[o]}
                           IN  {avl_search(body.root, o)} = IF hit = {} THEN {NULL} ELSE hit
    [] kind = "hash"  -> \A n \in Name :
                           hash_get(body, n) = IF Held[n] = <<>> THEN NULL ELSE Held[n][1]
    [] kind = "rtree" -> \A r \in {Rect[o] : o \in Objects} :
                           LET found == R!rtree_search(body, r)
                           IN  /\ ToSet(found) = {o \in Held : R!Overlaps(Rect[o], r)}
                               /\ Len(found) = Cardinality(ToSet(found))
    [] kind = "ttree" -> \A f, l \in Bounds, incl \in BOOLEAN, limit \in 0..1 :
                           LET sc  == [firstKey |-> f, lastKey |-> l, firstIncl |-> incl, lastIncl |-> ~incl,
                                       limit |-> limit, accept |-> Objects]
                               all == SelectSeq(T!TObjects(body), LAMBDA o : Within(Key[o], sc))
                           IN  T!ttree_find(body, sc) =
                                 IF limit = 0 \/ limit >= Len(all) THEN all ELSE SubSeq(all, 1, limit)
    [] OTHER          -> TRUE

\* Stepping the T-tree iterator to its end, in either direction, sees every
\* object once and in order.
IteratorVisits ==
  kind = "ttree" =>
    /\ T!Walk(T!Iterator(body, "left"), 1) = T!TObjects(body)
    /\ T!Walk(T!Iterator(body, "right"), -1) = Reverse(T!TObjects(body))

\* What text::search() may answer from here, if it returns.
Answers == X!text_search(body.ctx, body.text, body.position) \ {X!Fault}

\* text::search() succeeds when every pattern of and_mask, or without one any
\* pattern, occurs behind the position it starts from, whatever the shifts;
\* with at most one bit in and_mask it stops at the first such place.
TextFound ==
  kind = "text" /\ body.position # X!Fault =>
    LET expected == X!Expected(body.ctx, body.text, body.position)
    IN  \A at \in Answers :
          /\ at = -1 <=> expected = -1
          /\ Cardinality(body.ctx.and) <= 1 => at = expected

\* What textobj.h:33-35 says of search_ctx::search(): with more than one bit in
\* and_mask it does not set position, which is -1 in a new context.  It does:
\* this fails.
AndKeepsPosition ==
  kind = "text" /\ Cardinality(body.ctx.and) > 1 => body.position < 0

\* The collector follows every slot of the block of a dynamic array: what is
\* behind its end has been cleared.
ArrayTailClear ==
  kind = "array" => \A i \in DOMAIN body.buf : i > body.used => body.buf[i] = NULL

\* The collector follows every slot of a T-tree node: no slot refers to an
\* object that was taken out of the tree, which its owner is free to delete.
SlotsAlive == kind = "ttree" => T!TSlots(body) \subseteq Held \cup {NULL}
=============================================================================
