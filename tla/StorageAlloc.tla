---------------------------- MODULE StorageAlloc ----------------------------
(***************************************************************************)
(* The allocator of class storage: page segments kept in an address-       *)
(* ordered free chain, fixed-size blocks cut from single pages, the page   *)
(* map that tells which pages continue a large object, and the sweep of    *)
(* the garbage collector.                                                  *)
(*                                                                         *)
(* An address is an offset from hdr.  The heap is one record, the part of  *)
(* the mapped file the allocator owns and the transient curr_free_page:    *)
(*   cell    headers: every page segment and every block starts with an    *)
(*           object_header [cid, size]; the first block of a page shares   *)
(*           its header with the page                                      *)
(*   chain   hdr->free_page_chain, the segments in link order              *)
(*   curr    curr_free_page, Null (0) if there is none                     *)
(*   blocks  hdr->free_block_chain[], each in link order                   *)
(*   map     hdr->page_map, Null if not yet allocated                      *)
(*   bits    pages whose bit is set in the page map                        *)
(*   fsize   hdr->file_size                                                *)
(*   held    history: the number of objects handed out and not taken back  *)
(* Every operation runs under storage::mutex, so it is one step.           *)
(***************************************************************************)
EXTENDS Integers, SequencesExt, FiniteSetsExt

CONSTANTS PageSize,          \* page_size
          HeaderSize,        \* sizeof(object_header)
          Grain,             \* 8: sizes are rounded up to it
          BitsPerByte,       \* 8
          init_page_map_size,
          block_size,        \* the two tables of block sizes and chains
          block_chain,
          Sizes,             \* object sizes clients ask for
          MaxSize,           \* mapped_size
          MaxObjects         \* bound on the objects alive at once

Half  == PageSize \div 2
Index == 0..(Half \div Grain) - 1
Null  == 0

free_object  == 0
page_map_cid == 2
first_cid    == 3

\* What the code takes for granted about its tables: a block holds every
\* size it serves, and the blocks of one chain are of one size.
ASSUME TablesAssumption ==
  /\ block_size \in [Index -> Nat] /\ DOMAIN block_chain = Index
  /\ \A i \in Index : (i + 1) * Grain <= block_size[i] /\ block_size[i] <= Half
  /\ \A i, j \in Index :
        (block_chain[i] = block_chain[j]) <=> (block_size[i] = block_size[j])

ASSUME SizesAssumption ==
  /\ {PageSize, HeaderSize, Grain, BitsPerByte, init_page_map_size} \subseteq Nat \ {0}
  /\ HeaderSize < PageSize /\ Half % Grain = 0

VARIABLES heap,   \* the heap as the process sees it
          saved   \* the heap of the last committed transaction

vars == <<heap, saved>>

-----------------------------------------------------------------------------
(* Sizes.                                                                  *)

Align(n)   == ((n + PageSize - 1) \div PageSize) * PageSize
Aligned(s) == Align(s + HeaderSize)
IsSmall(s) == s + HeaderSize <= Half
Class(s)   == (s + HeaderSize + Grain - 1) \div Grain - 1
PageOf(a)  == a \div PageSize

\* Pages but the first of a segment at a that holds s bytes.
InnerPages(a, s) == PageOf(a)+1 .. PageOf(a + Aligned(s)) - 1

\* Offsets of the blocks of one page that serve objects of size s.
Slots(s) == LET b == block_size[Class(s)]
            IN  {i * b : i \in 0..(PageSize - b) \div b}

\* Bytes a page map needs to cover a file of f bytes and itself.
MapNeeds(f)    == (f + HeaderSize + PageSize * BitsPerByte - 2)
                     \div (PageSize * BitsPerByte - 1)
MapSize(f, k)  == Align(MapNeeds(f) + HeaderSize) * k - HeaderSize
MapCovers(h)   == h.fsize <= h.cell[h.map].size * PageSize * BitsPerByte

Without(f, S)  == [a \in DOMAIN f \ S |-> f[a]]
Ascending(S)   == [i \in 1..Cardinality(S) |->
                     CHOOSE a \in S : Cardinality({b \in S : b < a}) = i - 1]
Head0(s)       == IF s = <<>> THEN Null ELSE Head(s)
Position(s, a) == IF a \in Range(s) THEN CHOOSE i \in 1..Len(s) : s[i] = a
                  ELSE 0

-----------------------------------------------------------------------------
(* Pages.                                                                  *)

\* Variant: the segment is pushed on the chain as a block is.
FreePagePush(h, fp) ==
  [h EXCEPT !.cell[fp] = [cid |-> free_object,
                          size |-> Aligned(@.size) - HeaderSize],
            !.chain = <<fp>> \o @,
            !.bits = @ \ InnerPages(fp, h.cell[fp].size),
            !.curr = fp]

\* The link in front of which a segment belongs: the walk starts behind
\* curr_free_page if that lies below fp.
Spot(h, fp) ==
  LET c    == IF h.curr # Null /\ h.curr < fp THEN Position(h.chain, h.curr)
              ELSE 0
      past == {i \in c+1..Len(h.chain) : h.chain[i] >= fp}
  IN  IF past = {} THEN Len(h.chain) + 1 ELSE Min(past)

\* free_page()
free_page(h, fp) ==
  LET at   == Spot(h, fp)
      End(a, n) == a + n + HeaderSize
      n    == Aligned(h.cell[fp].size) - HeaderSize
      prev == IF at > 1 THEN h.chain[at - 1] ELSE Null
      next == IF at <= Len(h.chain) THEN h.chain[at] ELSE Null
      low  == prev # Null /\ End(prev, h.cell[prev].size) = fp
      high == next # Null /\ End(fp, n) = next
      seg  == IF low THEN prev ELSE fp
      size == n + (IF low  THEN h.cell[prev].size + HeaderSize ELSE 0)
                + (IF high THEN h.cell[next].size + HeaderSize ELSE 0)
      gone == (IF low THEN {fp} ELSE {}) \cup (IF high THEN {next} ELSE {})
      linked == IF low THEN h.chain ELSE InsertAt(h.chain, at, fp)
      inner  == IF h.cell[fp].cid \in {free_object, page_map_cid} THEN {}
                ELSE InnerPages(fp, h.cell[fp].size)
  IN [h EXCEPT
        !.cell  = Without([@ EXCEPT ![seg] = [cid |-> free_object, size |-> size]],
                          gone),
        !.chain = IF high THEN RemoveAt(linked, IF low THEN at ELSE at + 1)
                  ELSE linked,
        !.bits  = @ \ inner,
        !.curr  = seg]

\* Variant: the next segment whatever its size.
NextSegment(h, size) ==
  IF h.chain = <<>> THEN 0
  ELSE IF Position(h.chain, h.curr) < Len(h.chain)
       THEN Position(h.chain, h.curr) + 1 ELSE 1

\* The segment alloc_page() takes: the first one behind curr_free_page that
\* is large enough, else the first one from the head up to curr_free_page.
FirstFit(h, size) ==
  LET c == Position(h.chain, h.curr)
      fits(I) == {i \in I : h.cell[h.chain[i]].size >= size}
  IN  IF fits(c+1..Len(h.chain)) # {} THEN Min(fits(c+1..Len(h.chain)))
      ELSE IF fits(1..c) # {} THEN Min(fits(1..c)) ELSE 0

\* alloc_page() up to the page map: a segment's tail, a whole segment, or new
\* pages at the end of the file.  Yields the heap and the address.
Reserve(h, cid, size) ==
  LET i    == FirstFit(h, size)
      bp   == h.chain[i]
      rest == h.cell[bp].size - Aligned(size)
      at   == IF i = 0 THEN h.fsize
              ELSE IF rest > 0 THEN bp + rest + HeaderSize ELSE bp
      new  == [cid |-> cid, size |-> size]
      put(cell) == [a \in DOMAIN cell \cup {at} |-> IF a = at THEN new ELSE cell[a]]
      unlinked == RemoveAt(h.chain, i)
  IN [at |-> at,
      heap |->
        IF i = 0 THEN
          [h EXCEPT !.cell = put(@), !.fsize = @ + Aligned(size)]
        ELSE IF rest > 0 THEN
          [h EXCEPT !.cell = put([@ EXCEPT ![bp].size = rest]), !.curr = bp]
        ELSE
          [h EXCEPT !.cell = put(@), !.chain = unlinked,
                    !.curr = IF i < Len(h.chain) THEN h.chain[i + 1]
                             ELSE Head0(unlinked)]]

\* Variant: a page map is never reallocated.
KeepMap(h) == h

\* Variant: the storage goes on using the old page map.
GrowMapStale(h) ==
  IF h.map = Null \/ MapCovers(h) THEN h
  ELSE free_page(Reserve(h, page_map_cid, MapSize(h.fsize, 2)).heap, h.map)

\* After the file has grown: a page map that has become too short is
\* reallocated, copied and freed.
GrowMap(h) ==
  IF h.map = Null \/ MapCovers(h) THEN h
  ELSE LET r == Reserve(h, page_map_cid, MapSize(h.fsize, 2))
       IN  [free_page(r.heap, h.map) EXCEPT !.map = r.at]

\* The first object of several pages creates the page map.
MakeMap(h) ==
  IF h.map # Null THEN h
  ELSE LET r == Reserve(h, page_map_cid, MapSize(h.fsize, init_page_map_size))
       IN  [r.heap EXCEPT !.map = r.at, !.bits = {}]

\* Cut the page at `at', whose first block is in use, into free blocks.
Carve(h, at, size) ==
  LET b    == block_size[Class(size)]
      free == [i \in 1..Cardinality(Slots(size)) - 1 |-> at + i * b]
  IN [h EXCEPT
        !.cell = [a \in DOMAIN @ \cup Range(free) |->
                    IF a \in Range(free)
                    THEN [cid |-> free_object, size |-> size]
                    ELSE @[a]],
        !.blocks[block_chain[Class(size)]] = free \o @]

alloc_page(h, cid, size) ==
  LET r == Reserve(h, cid, size)
      g == IF r.heap.fsize # h.fsize THEN GrowMap(r.heap) ELSE r.heap
      inner == InnerPages(r.at, size)
  IN  [at |-> r.at,
       heap |-> IF IsSmall(size) THEN Carve(g, r.at, size)
                ELSE IF inner # {} THEN [MakeMap(g) EXCEPT !.bits = @ \cup inner]
                ELSE g]

-----------------------------------------------------------------------------
(* Objects.                                                                *)

\* Variant: the shortcut for powers of two taken for every block size.
GetHeaderMasked(h, addr) ==
  LET hp == PageOf(addr) * PageSize
      b  == block_size[Class(h.cell[hp].size)]
  IN  IF h.map # Null /\ PageOf(addr) \in h.bits
      THEN Max({p \in 0..PageOf(addr) : p \notin h.bits}) * PageSize
      ELSE IF IsSmall(h.cell[hp].size) THEN addr - (addr % b) ELSE hp

\* Variant: the page before is taken for the first one.
GetHeaderPrevious(h, addr) ==
  LET page == PageOf(addr)
      hp   == page * PageSize
      b    == block_size[Class(h.cell[hp].size)]
  IN  IF h.map # Null /\ page \in h.bits THEN hp - PageSize
      ELSE IF IsSmall(h.cell[hp].size) THEN addr - ((addr % PageSize) % b) ELSE hp

\* get_header(): the object the byte at addr, a header's length below the
\* pointer's target, belongs to.
get_header(h, addr) ==
  LET page  == PageOf(addr)
      first == Max({p \in 0..page : p \notin h.bits})
      hp    == page * PageSize
      b     == block_size[Class(h.cell[hp].size)]
  IN  IF h.map # Null /\ page \in h.bits THEN first * PageSize
      ELSE IF IsSmall(h.cell[hp].size)
           THEN addr - ((addr % PageSize) % b)
           ELSE hp

\* Variant: the block stays linked.
AllocatedLinked(h, cid, size) ==
  LET chain == block_chain[Class(size)]
      bp    == Head(h.blocks[chain])
  IN  IF IsSmall(size) /\ h.blocks[chain] # <<>>
      THEN [at |-> bp, heap |-> [h EXCEPT !.cell[bp] = [cid |-> cid, size |-> size]]]
      ELSE alloc_page(h, cid, size)

\* _allocate()
Allocated(h, cid, size) ==
  LET chain == block_chain[Class(size)]
      bp    == Head(h.blocks[chain])
  IN  IF IsSmall(size) /\ h.blocks[chain] # <<>>
      THEN [at |-> bp,
            heap |-> [h EXCEPT !.blocks[chain] = Tail(@),
                               !.cell[bp] = [cid |-> cid, size |-> size]]]
      ELSE alloc_page(h, cid, size)

\* free()
Freed(h, obj) ==
  LET hp == get_header(h, obj)
  IN  IF IsSmall(h.cell[hp].size)
      THEN [h EXCEPT !.cell[hp].cid = free_object,
                     !.blocks[block_chain[Class(h.cell[hp].size)]] = <<hp>> \o @]
      ELSE free_page(h, hp)

Objects(h) == {a \in DOMAIN h.cell : h.cell[a].cid >= first_cid}

\* One round of the sweep: the segment at bp, whose marked objects stay.
Sweep(marked, h, bp) ==
  LET size  == h.cell[bp].size
      chain == block_chain[Class(size)]
      slots == {bp + s : s \in Slots(size)}
      free  == Ascending(slots \ marked)
      erase(cell) == [a \in DOMAIN cell |->
                        IF a \in Range(free)
                        THEN [cell[a] EXCEPT !.cid = free_object] ELSE cell[a]]
  IN  IF ~IsSmall(size)
      THEN IF bp \in marked THEN h ELSE free_page(h, bp)
      ELSE IF slots \cap marked = {}
           THEN free_page([h EXCEPT !.cell = Without(erase(@), slots \ {bp})], bp)
           ELSE [h EXCEPT !.cell = erase(@), !.blocks[chain] = free \o @]

\* Variant: the block chains are not thrown away.
SweptOnto(h, marked) ==
  FoldLeft(LAMBDA acc, bp : Sweep(marked \cup {h.map}, acc, bp),
           [h EXCEPT !.chain = <<>>, !.curr = Null],
           Ascending({a \in DOMAIN h.cell : a % PageSize = 0}))

\* garbage_collection(): both kinds of chain are thrown away and rebuilt while
\* the segments are visited in address order.
Swept(h, marked) ==
  FoldLeft(LAMBDA acc, bp : Sweep(marked \cup {h.map}, acc, bp),
           [h EXCEPT !.chain = <<>>, !.curr = Null,
                     !.blocks = [c \in DOMAIN @ |-> <<>>]],
           Ascending({a \in DOMAIN h.cell : a % PageSize = 0}))

-----------------------------------------------------------------------------
(* Operations.                                                             *)

\* What the data file holds of the heap: all but curr_free_page.
Image(h) == [h EXCEPT !.curr = Null]

Init ==
  /\ heap = [cell |-> <<>>, chain |-> <<>>, curr |-> Null, map |-> Null,
             blocks |-> [c \in {block_chain[i] : i \in Index} |-> <<>>],
             bits |-> {}, fsize |-> PageSize, held |-> 0]
  /\ saved = Image(heap)

\* A failing set_size() ends the process in handle_error().
allocate(size) ==
  LET r == Allocated(heap, first_cid, size)
  IN  /\ heap.held < MaxObjects
      /\ r.heap.fsize <= MaxSize
      /\ heap' = [r.heap EXCEPT !.held = @ + 1]
      /\ UNCHANGED saved

free(obj) ==
  /\ heap' = [Freed(heap, obj) EXCEPT !.held = @ - 1]
  /\ UNCHANGED saved

garbage_collection ==
  \E live \in SUBSET Objects(heap) :
    /\ heap' = [Swept(heap, live) EXCEPT !.held = Cardinality(live)]
    /\ UNCHANGED saved

commit ==
  /\ saved' = Image(heap)
  /\ UNCHANGED heap

\* Variant: curr_free_page survives.
RollbackKeepsCurr ==
  /\ heap' = [saved EXCEPT !.curr = heap.curr]
  /\ UNCHANGED saved

\* The pages hold the committed images again; curr_free_page is reset.  The
\* same happens when a process ends and the storage is opened again.
rollback ==
  /\ heap' = [saved EXCEPT !.curr = Head0(saved.chain)]
  /\ UNCHANGED saved

Operate ==
  \/ \E size \in Sizes : allocate(size)
  \/ \E obj \in Objects(heap) : free(obj)
  \/ garbage_collection

Next == Operate \/ commit \/ rollback

Spec == Init /\ [][Next]_vars

\* One long transaction, for larger instances.
HeapSpec == Init /\ [][Operate]_vars

-----------------------------------------------------------------------------
(* Correctness.                                                            *)

Multiple(a) == a % PageSize = 0
Segments(h) == {a \in DOMAIN h.cell : Multiple(a)}

\* Bytes that belong to the header at a: a block of its page, or whole pages.
Extent(h, a) ==
  LET seg == PageOf(a) * PageSize
  IN  IF seg \in DOMAIN h.cell /\ IsSmall(h.cell[seg].size)
      THEN a .. a + block_size[Class(h.cell[seg].size)] - 1
      ELSE a .. a + Aligned(h.cell[a].size) - 1

TypeOK ==
  /\ DOMAIN heap.cell \subseteq PageSize..heap.fsize - 1
  /\ \A a \in DOMAIN heap.cell : heap.cell[a].cid \in {free_object, page_map_cid, first_cid}
  /\ heap.bits \subseteq 0..PageOf(heap.fsize) - 1
  /\ heap.fsize \in PageSize..MaxSize /\ Multiple(heap.fsize)

\* The segments tile the file: walking from one header to the next, as the
\* sweep and adjust_references() do, meets every page once and nothing else.
SegmentsTile ==
  /\ \A a \in Segments(heap) :
       LET end == a + Aligned(heap.cell[a].size)
       IN  /\ end = heap.fsize \/ end \in Segments(heap)
           /\ \A b \in Segments(heap) : b <= a \/ b >= end
  /\ heap.fsize > PageSize => PageSize \in Segments(heap)

\* curr_free_page, which alloc_page() dereferences without a test, is a link
\* of the chain whenever the chain is not empty.
CurrOnChain == IF heap.chain = <<>> THEN heap.curr = Null
               ELSE heap.curr \in Range(heap.chain)

\* Every free block of a page cut into blocks is on the chain of its size
\* exactly once, and these chains hold nothing else.
BlocksSound ==
  \A k \in DOMAIN heap.blocks :
    /\ IsInjective(heap.blocks[k])
    /\ Range(heap.blocks[k]) =
         UNION {LET s == heap.cell[a].size
                IN  IF IsSmall(s) /\ block_chain[Class(s)] = k
                    THEN {b \in {a + o : o \in Slots(s)} :
                            heap.cell[b].cid = free_object}
                    ELSE {} : a \in Segments(heap)}

\* The page map is long enough for the file, so that no bit is read or set
\* outside it, also after the map itself has moved.
PageMapCovers == heap.map # Null => MapCovers(heap)

\* From any byte of a live object get_header() finds that object, on the inner
\* pages of a large one by searching back over the bits of the page map, also
\* after the map has moved or pages have been reused: this is what the mark
\* phase and free() rely on for pointers into an object.
HeaderFound ==
  \A a \in Objects(heap) : \A b \in Extent(heap, a) : get_header(heap, b) = a

\* The blocks and segments of live objects, seen as a heap of byte ranges
\* that allocation, collection and transactions respect.
Live(h)  == {Extent(h, a) : a \in Objects(h)}
Abstract == INSTANCE ObjectHeap WITH live <- Live(heap), count <- heap.held,
                                     kept <- Live(saved), Byte <- PageSize..MaxSize - 1
ImplementsObjectHeap == Abstract!Spec
-----------------------------------------------------------------------------
(* The free pages of a heap.                                               *)

Header == [cid : Nat, size : Nat]
Shaped(h) ==
  h \in [cell : [DOMAIN h.cell -> Header], chain : Seq(Nat), curr : Nat, map : Nat,
         blocks : {h.blocks}, bits : {h.bits}, fsize : Nat, held : {h.held}]

End(h, a) == a + h.cell[a].size + HeaderSize

\* The chain links free segments of whole pages in address order; no two of
\* them touch, because free_page() has coalesced them, and curr_free_page is
\* one of them.
Chained(h) ==
  /\ \A i \in 1..Len(h.chain) :
       LET a == h.chain[i]
       IN  /\ a # Null /\ a \in DOMAIN h.cell /\ End(h, a) <= h.fsize
           /\ h.cell[a].cid = free_object
           /\ h.cell[a].size + HeaderSize = Aligned(h.cell[a].size)
  /\ \A i, j \in 1..Len(h.chain) : i < j => End(h, h.chain[i]) < h.chain[j]
  /\ IF h.chain = <<>> THEN h.curr = Null ELSE h.curr \in Range(h.chain)

FreeBytes(h) == UNION {h.chain[i] .. End(h, h.chain[i]) - 1 : i \in 1..Len(h.chain)}

\* The bytes of a segment at a that was allocated for s.
Taken(a, s) == a .. a + Aligned(s) - 1

MapBytes(h) == IF h.map = Null THEN {} ELSE Taken(h.map, h.cell[h.map].size)

\* The bytes no object has: free pages, the page map and all that lies beyond
\* the end of the file.
Spare(h) == FreeBytes(h) \cup MapBytes(h) \cup {x \in Nat : h.fsize <= x}

\* The page map is in the file and not on the chain.
MapApart(h) ==
  /\ h.map # Null => /\ h.map \in DOMAIN h.cell
                     /\ h.map + Aligned(h.cell[h.map].size) <= h.fsize
  /\ MapBytes(h) \cap FreeBytes(h) = {}

\* Every header lies in the file.
InFile(h) == \A a \in DOMAIN h.cell : a \in Nat /\ a < h.fsize

PagesSound(h) == /\ Shaped(h) /\ Chained(h) /\ InFile(h) /\ MapApart(h)
                 /\ h.fsize # 0

\* Every page has one owner: the free page chain, which links every free
\* segment once, the page map, which is moved in the middle of an allocation,
\* or the object or the blocks it was given to.
PagesApart ==
  /\ PagesSound(heap)
  /\ Range(heap.chain) = {a \in Segments(heap) : heap.cell[a].cid = free_object
                                                /\ ~IsSmall(heap.cell[a].size)}
  /\ \A a \in Segments(heap) \ ({heap.map} \cup Range(heap.chain)) :
       LET bytes == Taken(a, heap.cell[a].size)
       IN  bytes \cap (FreeBytes(heap) \cup MapBytes(heap)) = {}
=============================================================================
