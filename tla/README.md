# POST++: a verification development

POST++ is a persistent object storage: C++ objects live in a file that is
mapped into memory, with an allocator and a garbage collector of its own, and
either a transaction log of page images or a flush through a temporary file.
This directory holds TLA+ models of its core, the TLC runs that check them on
small instances, and TLAPS proofs that lift the central results to every
instance.

Contents: [inventory](#inventory), [modules](#modules-and-their-code),
[runs](#runs), [what the runs found](#what-the-runs-found),
[proofs](#proofs), [assumptions and limits](#assumptions-and-limits),
[plan](#plan).

## Inventory

| Component | State | Operations | Interacts with |
|---|---|---|---|
| `post_file`, transaction mode (`file.cxx`) | data file, log file, `size`, `allocated_size`, page protections, `locked_page` | open, recovery, `create_shadow_page`, `commit`, `rollback`, `set_size`, `close` | storage calls it; the kernel writes pages back when it likes; the SIGSEGV handler enters it |
| `post_file`, other modes | file, private or anonymous mapping, descriptor | open, `set_size`, `flush`, `close` | as above |
| fault handler under threads | the same, no lock taken | `sigsegv_handler`, `create_shadow_page`, `flush_log_buffer` | all threads that store into a storage |
| allocator (`storage.cxx`, `storage.h`) | `free_page_chain`, `free_block_chain[]`, `curr_free_page`, `page_map`, object headers, `file_size` | `allocate`, `free`, `alloc_page`, `free_page`, `get_header` | grows the file by `set_size`; heap pages are undone by rollback, `curr_free_page` is not in them |
| collector | mark bits, stack of segments, `gc_stack` | mark, sweep | calls constructors of application classes, which push their references |
| open/close, reference adjustment, class dictionary, static data | `hdr->base_address`, timestamp, flags, stored descriptors, two mappings of ids | `open`, `load_class_dictionary`, `adjust_references`, `update_class_dictionary`, `close` | moves every reference if the file is mapped elsewhere; allocates in the storage while it opens |
| several storages and threads | `chain`, `global_mutex`, a mutex for each storage, `gc_stack`, `base_address_shift` | `find_storage`, critical sections, constructors | constructors read what a collection or an open of any storage writes |
| class library | AVL tree with its list, T-tree and iterator, R-tree, hash table, dynamic arrays, text search | insert, remove, search | allocates and deletes objects; the collector scans its nodes |
| Judy arrays (`Judy/src/JudyCommon`, `judyarr.*`) | a digital tree of branches, leaves and immediates, populations, allocated words | set, unset, get, neighbours, empty neighbours, counts, building from a list, release | allocates in the storage through `JudyMalloc` |
| adapters | none | C interface, `operator new`, STL allocator | one storage call each |

What is hard in this code: a crash or a power loss between any two system
calls of commit, recovery, the fault handler or close; the freedom of the
kernel to write back pages in any order; several threads in a handler that
takes no lock, and in constructors that read global variables; state in memory
(`size`, `curr_free_page`, `max_locked_pages`) that a rollback or a recovery has
to bring in line with the file; an allocator that calls itself to move its own
page map; loops that walk raw memory by sizes they read from it; trees that
turn, split, borrow and reinsert; and a digital tree with nine shapes of node,
in which any of a dozen allocations of one call may fail.

What makes each part correct:

* transaction file: after any failure the log takes the file back to the last
  committed transaction; the log runs ahead of the data; no access beyond the
  end of the file;
* copying modes: the file changes only from one complete image to the next;
* allocator: segments tile the file, chains hold exactly the free memory, live
  objects never overlap, an interior pointer leads to its object;
* collector: marks exactly the reachable objects, moves each reference once,
  stays inside its stack and inside the objects, and ends;
* open: whatever program opens the file at whatever address, class ids,
  references and virtual tables mean what they meant when they were stored;
* several storages: no thread takes the collection or the open of another
  storage for its own, and an object leads to its storage;
* class library: each container does what a set, a multimap or a sequence does,
  and keeps the shape its speed depends on;
* Judy: a map, all of whose queries agree, and which an operation that runs out
  of memory leaves unchanged.

`PROJECT.json` lists the components with their status, and the hazards line by
line with the properties that cover them.

## Modules and their code

### PostFile, PostFileInv, TxnImage: the transactional file

`PostFile` models `post_file` for Unix in mode `shadow_pages_transaction`
(`file.cxx` 1168-1779) and the operating system under it. The data file exists
twice: `fdata` is what processes see (the page cache), `disk` what a power loss
leaves; the log likewise (`log`, `dlog`), and `pend` says that its truncation
has not reached the disk. `rw` is the set of writable pages, `locked` the pages
under `mlock()`. Page 0 is the header, whose content determines
`hdr->file_size`. Long operations are split at the system calls after which a
crash makes a difference:

| action | code |
|---|---|
| `OpenNew`, `OpenExisting` | `open()`, log file absent or present |
| `RecoverRecord`, `RecoverEnd` | `recover_file()`, one record at a time; from `open()` (`pc = "recover"`) or `rollback()` (`"undo"`) |
| `commit`, `Msync`, `TruncateLog`, `Protect` | `commit()` |
| `set_size`, `ExtendHeader` | `set_size()` and the store of `file_size` in `alloc_page` |
| `create_shadow_page`, `Store` | the fault handler, and the store it lets through |
| `close`, `UnlinkLog` | `close()` |
| `CrashProcess`, `LosePower`, `WriteBack`, `WriteBackLog` | environment |

`committed`, `durable`, `unsaved` and `unlocked` are history variables.
`TxnImage` is the abstract specification: a current image, a committed one and
the one a power loss falls back on; commit and close replace the committed
image in one step, everything else shows it unchanged. `PostFileInv` holds the
refinement mapping and the inductive invariant.

### ShadowRace: several threads in the handler

The same handler with one step for each system call and any number of threads:
`mprotect`, `writev`, the test of `n_locked_pages`, `mlock`, the push,
`fsync`, `munlock`. `PostFile` takes the handler as one step, which is right
for one thread.

### FlushFile, AtomicFile: the copying modes

`copy_on_write_map` and `load_in_memory`: `flush()` writes the image to a
temporary file page by page and renames it. `AtomicFile` is the promise: the
stored image changes only to the complete current image. `set_size()` rounds the
length of the file up to the extension quantum also where that takes it beyond
`max_file_size`, and a later `open()` maps all of a longer file (`mapped`), so
that the longest file is `Capacity`, `max_file_size` rounded up.

### StorageAlloc, ObjectHeap: the allocator

The heap is a record of object headers by address, the two kinds of free chain,
`curr_free_page`, the page map and its bits, and the file size. `alloc_page`,
`free_page`, `get_header` and the sweep are operators on it, put together from
one operator for each part of the C++ function (`FirstFit`, `Reserve`,
`GrowMap`, `MakeMap`, `Carve`, and `Spot` for the walk of `free_page()`);
`allocate`, `free`, `garbage_collection`, `commit` and `rollback` are the
actions. `ObjectHeap` is the abstract heap: a set of disjoint byte ranges that
allocation adds to and deallocation takes from, and that a rollback sets back. A
section at the end of the module says what a sound arrangement of the free pages
is (`PagesSound`) and which bytes no object has (`Spare`: free pages, the page
map, everything beyond the end of the file); `PagesApart` is the invariant built
from it. It adds that every free segment is on the chain and that no other
segment overlaps chain or map.

### GcMark: the mark phase

Reference fields are numbered like addresses and a segment is a run of them;
the constructor of an object pushes its segments while `gc_stack` is set.
`PushRoots`, `Pop`, `Scan`, `Mark`, `Finish` are the parts of the two loops.
`moves` counts how often a field was moved by the distance the file was
remapped. The sweep, in `StorageAlloc`, starts from any set of marked objects.

### StorageOpen: open, class dictionary, relocation, static data

`StorageOpen` models a storage through the life of several programs. The image
is a header and cells; a reference is the address it holds and, as a ghost, the
cell it was made for. `open` is the part of `storage::open` up to the end of the
reference adjustment, `update_class` one round of `update_class_dictionary`,
`open_done` its end with the commit; then come `new`, `delete`, the root,
static data, `commit`, `rollback`, `close` and a crash at any point. A program
has its own list of classes, so that ids differ between the program and the
file. The log is the content, at the last commit, of what has changed since
(what `PostFile` shows a log to be worth). What garbage collection at open does
to references is here; the order in which it does it is in `GcMark`.

The loops over linked cells, the walk of `load_class_dictionary` and the marking
of a collection, are given by what they visit: `Reach` is the intersection of
the sets of cells that are closed under the references. The number of entries
left to visit is then a cardinality, and `LoadedId` is `count` after its
decrements. The inductive invariant `OpenInv` stands at the end of the module.

### Storages, StoragesInv: threads with several storages

Every access to shared memory is a step: taking and releasing the global and
the local mutex, loading `gc_stack` and `base_address_shift` in a constructor
(the macro `CLASSINFO`), pushing or moving the field, storing `gc_stack` back,
each round of the mark loop, each link of the chain. `garbage_collection`,
`open`, `close`, `new` and `delete` only begin an operation. The constant
`Apart` is the discipline the code leaves to the application, no more of it than
the properties need: no object is made while some storage is collected, though
one may be made while another storage is opened, moved or closed; and no storage
is closed that a search on its way passes, though those opened before the one it
looks for may be (`Passed`, by the walk `From` of `find_storage()`). The assumptions on the constants
are that a storage has finitely many objects and roots, that there are more
addresses to map at than storages, and that `None`, the null pointer, is none of
the things pointed to. `StoragesInv` holds the inductive invariant.

### Containers, Collection: the class library

`Containers` is a state machine whose state is one container, `body`, and the
result of the last call, `res`; its actions are the calls. The structures are
modules of operators: `AvlTree` and `TTree` (over `Rotations`, the rebalancing
they share), `RTree`, `HashTable`, `DynArray`, `TextSearch`. Nodes are records
that contain their subtrees; slots that are not in use keep their content, as
the collector sees them. `Collection` is the abstract specification: a set of
objects, a sequence of objects for each name, or a sequence, and what each call
returns; `Containers` is checked to implement it. In the search for several
patterns that must all occur the code compares on before the start of pattern and
text when a match does not complete the mask; that changes nothing unless the
memory ends there, so `TextFind` has one outcome more in which the process ends
(`Fault`), and `TextFound` is about the calls that return.

### Judy modules, IndexMap: Judy1 and JudyL

`JudyTree` has the Judy pointers with the objects they refer to, the sizes that
are allocated for them, and creation, splitting and release of branches and
leaves (`JudyCreateBranch.c`, `JudyCascade.c`, `JudyMallocIF.c`, `JudyTables.c`,
parts of `JudyPrivate*.h`). `JudyIns` and `JudyDel` are `j__udyInsWalk` and
`j__udyDelWalk` with what surrounds them (`JudyIns.c`, `JudyInsertBranch.c`,
`JudyDel.c`, `JudyDecascade.c`); `JudyWalk` is lookup, search for
neighbours and for absent indexes, counting and rank, `JudyBuild`
the array from a list, release and memory use. Radix, digits, the limits of
leaves, immediates and branches are constants; `JudyParameters` states the order among them that the code relies on. Each
allocation asks a budget that is part of the state of a call, so that it can
fail at any place, the root included. Three error paths forget what they have
allocated (`JudyIns.c:1825`, `j__udyCascadeL`, `JudyInsArray.c:750`; `Judy.h:127`
gives no guarantee against it): `Lost` adds up these words in `lost`, and
`MemoryBalanced` says that whatever else is allocated is what the root refers
to. `hidden` is the part of them that `jpm_TotalMemWords` still counts, which
`JudyFreeArray` takes for a corrupt array: it returns an error and leaves the
pointer to what it has released (`Dangling`). `MaxLost` bounds them: memory runs
out only until so many words are lost.
`JudyArray` is the state machine and its reference definitions, `IndexMap` what
an operation promises, `MCJudy` the two arrays that are checked.

## Runs

Constants are in the `.cfg` files and the `MC` modules. Every property has a
variant of a definition (commented *Variant*) that breaks it.

| run | cfg | what is checked | instance |
|---|---|---|---|
| recovery | MCPostFile.cfg | `CrashRecoverable`, `PowerLossRecoverable`, `ShadowOnce`, `SizeCoversCommitted`, `IInv` (which includes the type invariant), `ImplementsTxnImage`, `RecoveryEnds` | two pages, three contents, room for two page locks or none, torn records: 220,095 states |
| growth | MCPostFileGrowth.cfg | `NoBusError` | three pages, process crashes, no torn records: 4.9 million states |
| threads_apart | MCShadowRace.cfg | `ChangesUndone`, `SyncWriteAhead` | two threads, four pages, both log modes: 231,360 states |
| flush_atomic | MCFlushFile.cfg | `ImplementsAtomicFile` | `max_file_size` three pages, extension quantum two, both modes: 97,810 states |
| heap | MCStorageAllocHeap.cfg | `SegmentsTile`, `BlocksSound`, `PageMapCovers`, `PagesApart`, `HeaderFound`, `ImplementsObjectHeap` | four objects of a block, two and three pages, file of twelve pages: 25,253 states |
| heap_transactions | MCStorageAlloc.cfg | `CurrOnChain`, `ImplementsObjectHeap` | the tables and page size of the default build, two objects, commit and rollback: 122,197 states |
| mark | MCGcMark.cfg | `MarksReachable`, `MovedOnce`, `StackFits`, `MarkEnds` | every graph over three objects and eight fields: 954,384 states |
| reopen | MCStorageOpen.cfg | `ClassesResolve`, `RefsResolve`, `VirtualTables` | two versions of a program, two addresses, two objects, three changes in a transaction: 865,584 states |
| storages | MCStorages.cfg | `RefsWhole`, `FoundOwner`, deadlock | two threads, two storages, three addresses, `Apart`: 886,632 states |
| containers | MCContainers.cfg | `Shape`, `SearchAgrees`, `IteratorVisits`, `TextFound`, `ArrayTailClear`, `ImplementsCollection` | every order of insertion of seven keys (AVL) and six (T-tree, three to a node), fifteen rectangles, all texts up to five characters: 147,011 states |
| judy | MCJudy.cfg | `TreeSound`, `LookupsAgree`, `EmptiesAgree`, `CountsAgree`, `MemoryBalanced`, `MapImplemented` | eight indexes (Judy1), seven (JudyL), of four digits; 0, 1, 2 or 5 allocations before memory runs out: 18,539 states |
| close_not_synced | MCPostFileClose.cfg | `CrashRecoverable`, violated | see below |

Why the bounds are enough for the questions asked:

* two pages are a header and a page that may or may not be in use, so that the
  file grows, is rolled back and shrinks; three contents let an image be
  committed, changed and changed again. With two page locks both the locked and
  the flushing branch of the handler happen. The results of this run are proved
  for all bounds; the run is there to have checked the invariant first.
* `growth` needs three lengths: one to fall back to, one to have grown to and
  one in between, which is the `ftruncate()` that shortens the file.
* with four pages and room for one lock both threads can be inside
  `flush_log_buffer()` at the same time and one of them can go on to lock
  another page.
* pages of eight bytes with one-byte headers and a page map of one byte for
  each page let the map be created and outgrown within twelve pages, and an
  object of three pages has a byte from which `get_header()` searches back over
  two set bits; blocks of three and of four bytes are the two cases of its block
  arithmetic. The second heap run allocates with the real tables.
* three objects are a cycle, a shared object and an object that is not
  reachable; the stack starts with room for three segments and is outgrown.
* the newer program has a class the older one lacks, registered in front of the
  common one, so that every id moves; two addresses and two programs make all
  four combinations of moved references and stale virtual tables, each before
  and after a crash, a rollback and a deletion.
* a storage of one root and one object that may refer to itself is enough for a
  reference to be missed, moved twice or moved by another's distance; a third
  address lets a storage come back elsewhere while the other one is open.
* seven keys reach an AVL tree of height four, with single and
  double turns on both sides; three slots make a T-tree node with an inner
  slot; fifteen rectangles in pages of four make an R-tree of three levels whose
  root splits and shrinks. Removals are bounded (`MaxRemovals`) from every
  population reached.
* the limits of the two small Judy arrays keep the order of the real ones
  (`JudyParameters`, an assumption of the run) and let root leaves, leaves of
  each level, bitmap leaves, full expanses, narrow pointers and the three kinds
  of branch occur with eight indexes. Failures of the first three allocations
  of a call reach every error path but one; the sixth is the value area whose
  bitmap leaf `JudyInsArray` forgets. States in which a tree reads as a root
  leaf or the root refers to released memory are reached and end there.

Deadlock checking is off where the system stops: the mark phase ends, a
population of a container is used up, and nothing is defined of a Judy array
whose root cannot be read.

Fairness. `RecoveryEnds` assumes weak fairness of `Recover` and `Finish`: once
`open()` or `commit()` runs, nothing in it waits for anyone. `MarkEnds` assumes
weak fairness of the only, sequential process. No fairness is assumed of
clients, of the kernel or of other threads.

### What the runs found

`close_not_synced` shows a disagreement between the code and its manual:
`close()` is not a commit. It removes the log without syncing the pages, so that
a power loss after it can lose part of the transaction. `PROJECT.json` quotes the lines.

Other behaviours that the models contain and the passing runs leave out, by a
constant or as a property they do not check; setting or adding it shows them:

* a log that ends in a torn record makes `recover_file()` return before it
  resets `size`; after a rollback and a smaller allocation the file is cut below
  a page that is in the log (`CrashSpec` with `TornTail = TRUE`, four pages,
  `HeadersOnly`: `NoBusError` fails);
* the handler opens a page before it copies it; a store of another thread in
  between becomes part of the "old" image (`Touches <- Shared`: `ChangesUndone`
  fails);
* two threads flush a buffered log; the later one unlocks a page that was
  logged, locked and changed after its own `fsync()` (`WriteAhead` fails);
* a reachable `array_of_ptr` without elements pushes a segment of length 0, and
  the mark loop, which tests the length after its body, runs out of the object
  (`EmptySpec` with `EmptyArray`: `ScanInside` fails);
* the pages of a file that was empty at `open()` are not protected, so a crash
  in the very first `open()` is not undone: a class may be linked into the
  dictionary that `n_classes` does not count, and the next open gives out the id
  of the page map (`CrashWhenNew = TRUE`: `ClassesResolve` fails);
* an open with `read_only` of a file that has moved rewrites it without a log,
  and ignores the log of a crashed transaction (`ReadOnlyKeepsFile` fails);
* `search_ctx::search()` sets the position of a match with any number of bits in
  `and_mask`, where `textobj.h:33` says that it does not with more than one
  (`AndKeepsPosition` as an invariant of MCContainers fails);
* a deletion from a Judy array that runs out of memory when the tree is to become
  a root leaf reports an error with the index gone (`JudyDel.c:1979` before
  `JudyDel.c:1989`), where `Judy_3.htm:195` promises the same data
  (`FailureKeepsData` as an invariant of MCJudy fails);
* a constructor of the application takes no lock, although `CHANGES:19` announces
  synchronization for several storages: a new object in one storage stores its
  fields in the stack of a collection of the other, over references that the
  collection has still to follow, and the sweep frees objects that are referred
  to (`Apart = FALSE`: `RefsWhole` fails);
* a `close()` of a storage that a `find_storage()` on its way passes unmaps the
  header that is being read (`Apart = FALSE`: `FoundOwner` fails);
* removal from a T-tree leaves references in the slots beyond `nItems`, which
  the collector follows (`SlotsAlive` fails);
* `R_tree::purge` keeps `height`, so that a removal from the purged tree follows
  a null root; `dbTtree::remove` follows a null root as well. The models do not
  take these calls;

Judy tells a root leaf from a tree by the first word it finds. When memory runs
out just as a root leaf has become a tree (`JudyIns.c:1836`), as a tree is to
become a root leaf (`JudyDel.c:1989`), or early in a list (`JudyInsArray.c:251`),
a tree stays behind with a population that reads as a root leaf. The run `judy`
reaches these states, checks memory and the tree in them (`TreeSound`,
`MemoryBalanced`), and stops there.

## Proofs

Each table is what one module proves of every instance of a specification. What
stands before `Spec` is a hypothesis on the constants.

### PostFileProofs

For every number of pages, page content, extension quantum and number of page
locks, and, except for the last line, with and without torn records:

| theorem | statement |
|---|---|
| `TypeCorrect` | `Spec => []TypeOK` |
| `Invariance` | `Spec => []IInv` |
| `CrashSafety` | `Spec => []CrashRecoverable` |
| `PowerLossSafety` | `Spec => []PowerLossRecoverable` |
| `LogBounded` | `Spec => []ShadowOnce` |
| `SizeSafety` | `Spec => []SizeCoversCommitted` |
| `Refinement` | `Spec => ImplementsTxnImage` |
| `AccessWithinFile` | `~TornTail => (Spec => []NoBusError)` |

The assumptions are `SizesAssumption` and `ContentAssumption`, that there is at
least one page, that the quantum is positive, and that a page of zero bytes
says that the file is empty.

The argument. `CrashRecoverable` is not inductive by itself, since it does not
say why a page may be written without being logged. `IInv` adds, in named
parts:

* `HeaderInv`: `file_size` never falls below the committed one, on disk or in
  the cache, and `size` is at least that, which is why `commit()` protects every
  committed page;
* `LogInv`: while a client works, the writable committed pages are exactly the
  logged ones. This is the core: a store needs a writable page, so it changes a
  logged page or one beyond the committed file;
* `ReplayInv`: records already copied back agree with the committed image, and
  when recovery ends all live pages do;
* `DiskInv`, `DurableInv`: a page differs on disk from the committed (durable)
  image only if it is in the log (the log on disk) or was left dirty by close;
* `SyncedInv`, `PendingInv`: how the log on disk relates to the log in the
  cache, before and after a truncation has reached the disk: a logged page is
  on disk in the log or locked in memory.

The proof has a lemma for each action, and a step for each part it can disturb.

`AccessWithinFile` has an invariant of its own on top of `IInv`, `BoundInv`:

* `LengthInv`: the file is never shorter than the committed image, nor than what
  the header or `allocated_size` says while a process uses it;
* `LoggedInv`: records in the log, and protected pages, lie inside the committed
  image, in the cache and on disk;
* `SizeInv`: `size` is the header's `file_size` from the end of recovery to the
  end of the next commit.

The last one is what a torn record breaks: `recover_file()` then returns before
it resets `size`, and the hypothesis is needed (see
[what the runs found](#what-the-runs-found)). `growth` checks the property
without power loss; the theorem covers the full `Spec`.

### ShadowRaceProofs

For any number of threads, pages and page locks:

| theorem | statement |
|---|---|
| `RaceInvariance` | `OwnPages => (Spec => []RaceInv)` |
| `ThreadsUndone` | `OwnPages => (Spec => []ChangesUndone)` |
| `ThreadsWriteAhead` | `OwnPages => (Spec => []SyncWriteAhead)` |

`OwnPages` says that no two threads store into the same page, which is the case
the code handles: the handler opens a page before it copies it. `RaceInv` says
where in the handler a page can be: closed and unchanged, opened by the one
thread that is about to copy it, or copied. The log has one record for a page,
with its committed content, and without buffering all of it is on the disk. A
thread that has pages of its own finds them as it left them whatever the others
do in between.

### FlushFileProofs

For every `max_file_size` and extension quantum, whether or not the one is a
multiple of the other, and both modes:

| theorem | statement |
|---|---|
| `FlushInvariance` | `Spec => []FlushInv` |
| `FlushRefinement` | `Spec => ImplementsAtomicFile` |

`FlushInv` relates the temporary file to the image while it is written: the
pages before the position of the copy are those of the image, so that at the
`rename()` all of them are. It also says that `size` spans what is in use, so
that no `ftruncate()` cuts off a stored page. The step that makes the temporary
file the file maps to a flush, and the others leave the stored image alone.

### StoragesProofs

For any number of threads, storages, objects and roots:

| theorem | statement |
|---|---|
| `WholeInvariance` | `Apart => (Spec => []WholeInv)` |
| `SearchFindsOwner` | `Apart => (Spec => []FoundOwner)` |
| `ReferencesWhole` | `Apart => (Spec => []RefsWhole)` |

The hypothesis `Apart` is the discipline of the application, without which both
properties fail. What is proved is therefore what remains: `SearchFindsOwner` of
searches during any opens, and during closes of storages that were opened before
the one looked for; `ReferencesWhole` of any collections, opens, closes and
deletions in several storages at a time, and of objects made beside opens and
closes, but not beside collections. The parts of `WholeInv`:

* `ControlInv`: which operation is at which of its points; the global mutex lets
  one open, close or collection run at a time, and none of them shares its
  storage with another operation;
* `ChainInv`, `SearchInv`: the chain has no cycle and holds every mapped storage
  but the one being opened or closed, and a search has its storage still ahead of
  it, beyond no storage that is being closed; that `close()` links its neighbours
  around a storage takes nothing else from any walk (`FromWithout`). What is ahead is `From`, the least set closed under `next`, so that no
  induction along the chain is needed. `AddressInv`: mapped storages have
  different addresses;
* `StackInv`, `ShiftInv`: outside a collection there is no stack to push on, and
  outside an open nothing moves. This is why a constructor that has loaded
  `gc_stack` or `base_address_shift` still has the right value when it uses it;
* `RestInv`, `ObjectInv`, `OwnCellInv`: in a storage nobody moves every reference
  is null or leads to a live object by the present address; an object under
  construction is null and one being deleted is not referred to, and no two
  threads have the same one;
* `AdjustInv`: while `adjust_references()` runs, the objects left to do hold the
  old address and the others the new one;
* `RootsInv`, `PositionInv`, `StackedInv`, `MarkInv`: while a collection runs, a
  field that is on the stack or under construction is pending and not moved, any
  other field of a root or marked object was followed, and no field is on the
  stack twice, so that the stack needs `Depth` places and no field moves twice.

`RefsWhole` is `RestInv` of the storages nobody works on; all the other parts
say how such a storage is reached again.

### StorageOpenProofs

For any programs with any finite lists of classes, any addresses, any number of
objects and entries of static data, and both flags of `open()`:

| theorem | statement |
|---|---|
| `OpenInvariance` | `Hyp => (Spec => []OpenInv)` |
| `ClassesKeepMeaning` | `Hyp => (Spec => []ClassesResolve)` |
| `ReferencesLeadHome` | `Hyp => (Spec => []RefsResolve)` |
| `TablesRenewed` | `Hyp => (Spec => []VirtualTables)` |

`Hyp` is `~CrashWhenNew /\ ~ReadAfterCrash`, as in the run `reopen`. The first
open of a new file writes pages nobody protects, so that a crash before its
commit leaves half a header behind; a file that is opened `read_only` after a
crash is mapped without a look at its log. The code neither prevents nor
repairs this, and without the hypotheses the statements are false.
`OpenAssumption` takes addresses to be larger than the file (a reference that is
not null stays so when it moves) and the list of a program to have each class
once. The bound `MaxChanges` is any value at all.

The properties speak of the times when a program uses the storage. `OpenInv`
says what holds in between, in three layers:

* `LogInv`: an item that is not in the log has the content of the last commit, so
  that recovery and rollback give the image `saved`, which is sound and counted
  because `commit()` found it so;
* `PlaceInv`, `KindInv`, `FreeInv`: every reference is its cell's address under
  the base that is stored in the header; objects refer to objects, and the free
  chain holds the free cells, all of them and once. A chain is a set that is
  reached from its first cell and in which no cell is reached again from the
  next one (`Chain`); this survives taking the first cell, putting one in front,
  moving everything, and the sweep, which links each unused cell to the one
  before it (lemma `Descending`). `Renews` says what the three ways of `open()`
  (first open, adjustment, collection) have in common, and `RenewSound` proves
  soundness once for all of them;
* `DictInv`, `ObjectInv`, `MapInv`: the dictionary has each class once, an
  object has the number of its class counted from the end of the dictionary
  (`Id`), and both mappings of the process agree with it. A class put in front
  changes no number behind it, which is why ids may be given while objects
  exist. `LoadedNames` shows that the counting down of `load_class_dictionary()`
  gives the same numbers, provided `n_classes` is the length of the dictionary.
  While `update_class_dictionary()` runs it is not, and a process without
  transactions that ended there would leave the file that way: `open()`
  stores the count last and `Counted` is only claimed of what was committed or
  closed.

`VirtualTables` rests on the timestamp: all objects have the table of the
program that is stored there, and `open()` renews them when it is another one.

### GcMarkProofs

For every set of objects and classes and every graph:

| theorem | statement |
|---|---|
| `MarkInvariance` | `Spec => []MarkInv` |
| `NothingIsHidden` | `Spec => [](TypeOK /\ NothingHidden)` |
| `MarkCorrect` | `Spec => []MarksReachable` |
| `ReferencesMovedOnce` | `Spec => []MovedOnce` |
| `StackNeverOverrun` | `Spec => []StackFits` |

The assumptions are `GcAssumption` (fields are addresses; an object declares no
more segments than it has words; the stack starts with room for the three
segments of the header) and `FieldsAssumption` (no field belongs to two objects
or is declared twice). A class that declares a field twice would have it moved
twice. `Spec` has no step for a segment without fields, so the theorems say
nothing of what follows one.

The argument. `MovedOnce` is about the end of the phase only. `MarkInv` says of
every field the collector knows of that it is either pending and not moved, or
followed and moved once, and of every other field that it is not moved. That a
followed field is not met again needs `PendingInv`: the segments on the stack
and the rest of the one being scanned have no field in common and lie inside
the header and the marked objects, so the fields a first visit pushes are new.
`MarksReachable` then follows without induction on paths: with nothing pending
the marked objects form a set closed under references, and `Reachable` is the
intersection of these sets.

### StorageAllocProofs

For every heap, whatever the objects in it, and every size, with any page size,
header size and number of bits in a byte of the page map:

| theorem | statement |
|---|---|
| `FreePageKeepsChain` | `free_page(h, fp)` keeps `Shaped` and `Chained`; `FreeBytes` grows by exactly the bytes of the segment |
| `ReserveKeepsChain` | `Reserve(h, cid, size)` keeps them; what is handed out was free or lies beyond the file, and `FreeBytes` loses nothing else |
| `AllocPageTakesSpare` | `alloc_page(h, cid, size)` keeps `PagesSound`; `Spare` loses exactly the bytes of the new segment |
| `FreePageMakesSpare` | `free_page(h, fp)` of an object keeps `PagesSound`; `Spare` gains exactly the bytes of the object |

All four say too that no header of a segment in use is touched. They are about
the operators, not about `Spec`, and their hypotheses are the heap the call
finds: the chain is sound (`Shaped`, `Chained`) and every header lies in the
file; for the last two, `PagesSound`, and that the pages given back are not
spare already. The run heap checks this of every state it reaches, under the name
`PagesApart`, so that `allocate` and `free` meet the hypotheses; the heaps
between two pages the sweep returns are not states of the run. The assumption on
the constants is `SizesAssumption`: sizes are positive and a header is smaller
than a page.

The last two theorems form a conservation law. It matters because the allocator
calls itself: when the file grows, `alloc_page()` reserves a
second segment for a larger page map and frees the old one while the first
segment is neither linked nor marked. The proof follows these calls. `Reserve`
takes the new object out of `Spare`; `GrowMapKeeps` and `MakeMapKeeps` show that
the map's move is neutral, because both its old and its new place count as
spare, and that the second `Reserve` cannot meet the first segment, which is not
spare any more; `CarveKeeps` and `BitsKeep` finish with steps that stay within
the new segment and the map's bits. `TookThenRegrown` composes them.

For the chain itself, `free_page()` either links a segment at `Spot` or joins it
with a neighbour on one side or on both. `Spliced` writes the four cases as one
sequence with two parameters, `SpliceFacts` says what each of its links is, and
`JoinedApart` and `JoinedSize` that the joined segment ends before its right
neighbour begins, with bytes in between: two segments that touch would stay
apart for ever, because only `free_page()` joins. That the search of
`free_page()` may start at `curr_free_page` needs `curr_free_page` on the chain,
the reason `Chained` includes it.

### Only model-checked

Liveness (`RecoveryEnds`, `MarkEnds`) is out of the prover's reach. In
`StorageAlloc` the sweep and `get_header()` walk memory from block to block by
their sizes, and the containers and Judy compute over trees: what they return
cannot be proved without induction over data. That keeps the invariants of
`StorageAlloc` with TLC as invariants: `garbage_collection` is one of its
actions, and what its walk meets depends on all the headers before. Its page
operations, which every action goes through, are proved one by one (above).

## Assumptions and limits

What the models take for granted of the environment:

* changes of the data file's length take effect on disk in order; the log's
  truncation reaches the disk before later records, and records in order;
* no power loss while pages that `close()` left dirty are unwritten, nor after
  a process crash that dropped the locks of pages whose records were still in
  the cache, until the next recovery ends. The code does not survive the first
  (run `close_not_synced`) nor the second (buffered log writes only);
* after a power loss the file falls back to the last transaction whose
  truncated log reached the disk: `commit()` does not sync the truncation, so
  that the transaction committed last may be undone as a whole;
* the storage was committed at least once. The first open of a new file writes
  to unprotected pages, which a crash before its commit does not undo
  (`CrashWhenNew` in StorageOpen);
* `read()` of the log does not fail: `open()` ignores the failure and truncates
  the log;
* threads do not commit or roll back while another one is inside a store, and
  in ShadowRace `mlock()` succeeds;
* in FlushFile only the process fails. `flush()` renames a file it has not
  synced and has no defence against power loss.

* in StorageOpen classes of one name have one size, which the code asserts in
  debug builds only, and programs do not open a crashed file with `read_only`
  (`ReadAfterCrash`);
* in Storages the application keeps to `Apart`;
* a Judy array is used by one thread, and a call that leaves a misread root is
  the last one (`Readable`), as is one that loses more than `MaxLost` words the
  last to run out of memory; values and indexes are words the caller owns.

Not modelled:

* the Win32 and Win95 versions of `post_file`, which are other programs with the
  same interface; `map_file`, which promises nothing after a crash;
* failing system calls that end in `handle_error()` other than as a crash;
  wording of errors and traces;
* JudySL and JudyHS, which POST++ does not use and which map strings to JudyL
  arrays; the debug checks and the statistics of Judy; its tools;
* GiST, a library that keeps its pages in a POST++ storage: it is a client;
* the C interface, `operator new` and the STL allocator, which pass each call on;
  strings, matrices and arrays of scalars, which have no state of their own;
* the chain of open files that the fault handler walks, test programs, and
  `guess`, `dumpmem` and `comptime`.

## Plan

Done, in this order: PostFile with its abstract specification and proofs,
StorageAlloc, GcMark, ShadowRace, FlushFile, StorageOpen, the containers, Judy,
Storages.

Left to prove: that the sweep keeps `PagesSound`. Each page it returns goes
through `free_page()`, so that `FreePageMakesSpare` is its step; what is missing
is the induction over the walk, and with it `PagesApart` as a theorem of `Spec`.

Composition worth stating: allocator over transactional file, where one
allocation is several page stores and a crash falls between them; the present
link is that both refine specifications in which a rollback restores exactly
the committed state.
