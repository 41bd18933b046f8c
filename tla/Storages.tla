------------------------------ MODULE Storages ------------------------------
(***************************************************************************)
(* Threads that use several storages: the global mutex and the mutex of    *)
(* each storage, the chain of open storages, which find_storage() walks    *)
(* without a lock, and the two globals gc_stack and base_address_shift,    *)
(* by which a collection or an open tells the constructors of objects what *)
(* to do, and which the constructors of new objects read as well           *)
(* (storage.cxx, storage.h, object.h, classinfo.h).                        *)
(*                                                                         *)
(* A storage has references in its header and cells, one for each object,  *)
(* with one reference in each.  A reference is the address of the mapping  *)
(* it was made for and the number of a cell.  Every access to what threads *)
(* share is a step of its own.                                             *)
(***************************************************************************)
EXTENDS Integers, FiniteSets

CONSTANTS Thread, Storage,
          Cell,   \* objects of a storage
          Roots,  \* references of its header
          Base,   \* addresses at which files are mapped
          Home,   \* the address each file was mapped at before
          None,   \* no thread, no storage, no position of a stack
          Apart   \* the application makes no object while it collects a storage,
                  \* and closes no storage that a search on its way passes

ASSUME StoragesAssumption ==
  /\ Cell \subseteq Nat \ {0} /\ Roots \subseteq Nat /\ Base \subseteq Nat \ {0}
  /\ Cardinality(Base) > Cardinality(Storage)
  /\ IsFiniteSet(Cell) /\ IsFiniteSet(Roots)
  /\ Home \in [Storage -> Base] /\ Apart \in BOOLEAN
  /\ None \notin Thread \cup Storage \cup (Thread \X Nat)

Depth == Cardinality(Roots) + Cardinality(Cell)

VARIABLES
  chain, next,          \* the chain of open storages
  hdr, mapped,          \* where storages are mapped, and which are
  img,                  \* what the files hold
  global_mutex, mutex,  \* the threads that hold them
  gc_stack,             \* None, or a position <<thread, n>> of a stack
  base_address_shift,
  stack,                \* the stack of the collection a thread makes
  th                    \* what a thread is doing

list == <<chain, next>>
map  == <<hdr, mapped>>
locks == <<global_mutex, mutex>>
globals == <<gc_stack, base_address_shift>>
vars == <<list, map, img, locks, globals, stack, th>>

-----------------------------------------------------------------------------
(* References and the fields that hold them.                               *)

NULL == [to |-> 0, base |-> 0]
Ptr(b, c) == [to |-> c, base |-> b]
Moved(p, shift) == IF p = NULL THEN p ELSE [p EXCEPT !.base = @ + shift]

\* A field is <<storage, "root", i>> or <<storage, "cell", c>>.
Content(f) == IF f[2] = "root" THEN img[f[1]].root[f[3]] ELSE img[f[1]].ref[f[3]]
Put(f, p)  == IF f[2] = "root" THEN [img EXCEPT ![f[1]].root[f[3]] = p]
                               ELSE [img EXCEPT ![f[1]].ref[f[3]] = p]

Refers(s, c) == \E p \in {img[s].root[i] : i \in Roots}
                         \cup {img[s].ref[d] : d \in img[s].live} : p.to = c

-----------------------------------------------------------------------------
(* Operations and who may be at them.                                      *)

Idle == [pc |-> "idle", op |-> "none", s |-> None, gc |-> FALSE, shift |-> 0,
         cell |-> 0, todo |-> {}, sp |-> None, gs |-> None, sh |-> 0,
         cur |-> None, want |-> None]

Busy(s)      == \E u \in Thread : th[u].want = s
Making       == \E u \in Thread : th[u].op = "new" /\ th[u].pc # "use"
Searching(t) == th[t].pc = "find"
Closing(t)   == th[t].op = "close"
Collecting   == \E u \in Thread : th[u].op = "collect" \/ th[u].gc
Changing(s)  == \E u \in Thread : th[u].want = s /\ th[u].op \in {"collect", "close"}

\* From(nx, a) is what a walk along nx finds from a: what every set has that
\* has a and, with each storage, the next one.  A search for w that starts at
\* the head passes the storages that were opened after w.
Follows(nx, S) == \A r \in S : nx[r] \in S \cup {None}
From(nx, a) == {b \in Storage : \A S \in SUBSET Storage :
                  Follows(nx, S) /\ a \in S \cup {None} => b \in S}
Passed(s, w) == w \in From(next, next[s])

\* The storages an application may use: their open() has returned.
Ready(s) == s \in mapped /\ ~\E u \in Thread : th[u].want = s /\ th[u].op = "open"

Start(t, op, s, gc, pc) ==
  /\ th[t] = Idle
  /\ th' = [th EXCEPT ![t] = [Idle EXCEPT !.pc = pc, !.op = op, !.s = s,
                                          !.gc = gc, !.want = s]]
  /\ UNCHANGED <<list, map, img, locks, globals, stack>>

Step(t, pc) == th' = [th EXCEPT ![t].pc = pc]

Init ==
  /\ chain = None /\ next = [s \in Storage |-> None]
  /\ hdr = Home /\ mapped = {}
  /\ img = [s \in Storage |-> [base |-> Home[s], live |-> {},
                               root |-> [i \in Roots |-> NULL],
                               ref |-> [c \in Cell |-> NULL]]]
  /\ global_mutex = None /\ mutex = [s \in Storage |-> None]
  /\ gc_stack = None /\ base_address_shift = 0
  /\ stack = [t \in Thread |-> [n \in 1..Depth |-> None]]
  /\ th = [t \in Thread |-> Idle]

\* Variant: a collection takes the mutex of its storage only.
CollectLocally(t, s) ==
  /\ Ready(s) /\ ~Busy(s)
  /\ Apart => ~Making
  /\ Start(t, "collect", s, FALSE, "lock")

\* Nobody uses a storage while it is collected or closed: the application
\* has to see to that.
garbage_collection(t, s) ==
  /\ Ready(s) /\ ~Busy(s)
  /\ Apart => ~Making
  /\ Start(t, "collect", s, FALSE, "global")

open(t, s, gc) ==
  /\ s \notin mapped /\ ~Busy(s)
  /\ Apart /\ gc => ~Making
  /\ Start(t, "open", s, gc, "global")

close(t, s) ==
  /\ Ready(s) /\ ~Busy(s)
  /\ Apart => \A u \in Thread : Searching(u) => ~Passed(s, th[u].want)
  /\ Start(t, "close", s, FALSE, "global")

\* operator new takes the storage as an argument; its constructor follows.
new(t, s) ==
  /\ Ready(s) /\ ~Changing(s)
  /\ Apart => ~Collecting
  /\ Start(t, "new", s, FALSE, "lock")

\* operator delete, and likewise get_size() and get_classinfo(), look for the
\* storage of the object.  Only what nothing refers to is deleted, once.
delete(t, s, c) ==
  /\ Ready(s) /\ ~Changing(s)
  /\ c \in img[s].live /\ ~Refers(s, c)
  /\ ~\E u \in Thread : th[u].want = s /\ th[u].cell = c
  /\ Apart => \A u \in Thread : Closing(u) => ~Passed(th[u].want, s)
  /\ th[t] = Idle
  /\ th' = [th EXCEPT ![t] = [Idle EXCEPT !.pc = "find", !.op = "delete", !.cell = c,
                                          !.cur = chain, !.want = s]]
  /\ UNCHANGED <<list, map, img, locks, globals, stack>>

\* The application lets go of an object.
Forget(t, s, i) ==
  /\ th[t] = Idle /\ Ready(s) /\ ~Changing(s)
  /\ img' = Put(<<s, "root", i>>, NULL)
  /\ UNCHANGED <<list, map, locks, globals, stack, th>>

-----------------------------------------------------------------------------
(* Mutexes: CS2(global_mutex, mutex) and CS(mutex).                        *)

LockGlobal(t) ==
  /\ th[t].pc = "global" /\ global_mutex = None
  /\ global_mutex' = t
  /\ Step(t, "lock")
  /\ UNCHANGED <<list, map, img, mutex, globals, stack>>

Body == [collect |-> "roots", open |-> "map", close |-> "unlink",
         new |-> "allocate", delete |-> "free"]

Lock(t) ==
  LET s == th[t].s IN
  /\ th[t].pc = "lock" /\ mutex[s] = None
  /\ mutex' = [mutex EXCEPT ![s] = t]
  /\ Step(t, Body[th[t].op])
  /\ UNCHANGED <<list, map, img, global_mutex, globals, stack>>

\* The end of the scope of both critical sections.
Unlock(t) ==
  LET s == th[t].s IN
  /\ th[t].pc = "unlock"
  /\ mutex' = [mutex EXCEPT ![s] = None]
  /\ global_mutex' = IF global_mutex = t THEN None ELSE global_mutex
  /\ th' = [th EXCEPT ![t] = Idle]
  /\ UNCHANGED <<list, map, img, globals, stack>>

-----------------------------------------------------------------------------
(* Constructors, as CLASSINFO writes them.                                 *)

LoadStack(t) ==
  /\ th[t].pc = "load stack"
  /\ th' = [th EXCEPT ![t].gs = gc_stack, ![t].pc = "load shift"]
  /\ UNCHANGED <<list, map, img, locks, globals, stack>>

\* Where the caller of a constructor goes on.
After(t) == IF th[t].op = "new" THEN "use"
            ELSE IF th[t].op = "collect" \/ th[t].gc THEN "back" ELSE "adjust"

LoadShift(t) ==
  /\ th[t].pc = "load shift"
  /\ th' = [th EXCEPT ![t].sh = base_address_shift, ![t].pc = "fields"]
  /\ UNCHANGED <<list, map, img, locks, globals, stack>>

\* The field is pushed on the stack, which was given room for it, or moved.
Fields(t) ==
  LET f  == <<th[t].s, "cell", th[t].cell>>
      gs == th[t].gs
  IN  /\ th[t].pc = "fields"
      /\ IF gs # None
           THEN /\ gs[2] < Depth
                /\ stack' = [stack EXCEPT ![gs[1]][gs[2] + 1] = f]
                /\ Step(t, "store stack")
                /\ UNCHANGED img
           ELSE /\ img' = Put(f, Moved(Content(f), th[t].sh))
                /\ Step(t, After(t))
                /\ UNCHANGED stack
      /\ UNCHANGED <<list, map, locks, globals>>

StoreStack(t) ==
  /\ th[t].pc = "store stack"
  /\ gc_stack' = <<th[t].gs[1], th[t].gs[2] + 1>>
  /\ Step(t, After(t))
  /\ UNCHANGED <<list, map, img, locks, base_address_shift, stack>>

-----------------------------------------------------------------------------
(* storage::garbage_collection().                                          *)

\* The stack starts with the references of the header; called by an
\* application the collection moves nothing.
PushRoots(t) ==
  LET s == th[t].s
      used == {i \in Roots : img[s].root[i] # NULL}
      nth(n) == CHOOSE i \in used : Cardinality({j \in used : j < i}) = n - 1
  IN  /\ th[t].pc = "roots"
      /\ stack' = [stack EXCEPT ![t] = [n \in 1..Depth |->
                     IF n <= Cardinality(used) THEN <<s, "root", nth(n)>> ELSE None]]
      /\ th' = [th EXCEPT ![t].sp = <<t, Cardinality(used)>>, ![t].todo = {},
                          ![t].pc = "pop"]
      /\ base_address_shift' = IF th[t].op = "collect" THEN 0 ELSE base_address_shift
      /\ UNCHANGED <<list, map, img, locks, gc_stack>>

\* One reference is followed and moved; todo holds the marked cells.  With the
\* stack pointer of nobody, or of another thread's empty stack, it stops.
Pop(t) ==
  LET sp == <<th[t].sp[1], th[t].sp[2] - 1>>
      f  == stack[sp[1]][sp[2] + 1]
      p  == Moved(Content(f), th[t].shift)
  IN  /\ th[t].pc = "pop" /\ th[t].sp \notin {None} \cup (Thread \X {0})
      /\ img' = Put(f, p)
      /\ IF p = NULL \/ p.to \in th[t].todo
           THEN th' = [th EXCEPT ![t].sp = sp] /\ UNCHANGED gc_stack
           ELSE /\ th' = [th EXCEPT ![t].sp = sp, ![t].cell = p.to, ![t].todo = @ \cup {p.to},
                                    ![t].pc = "load stack"]
                /\ gc_stack' = sp
      /\ UNCHANGED <<list, map, locks, base_address_shift, stack>>

Back(t) ==
  /\ th[t].pc = "back"
  /\ th' = [th EXCEPT ![t].sp = gc_stack, ![t].pc = "pop"]
  /\ UNCHANGED <<list, map, img, locks, globals, stack>>

\* The sweep: a freed object keeps its content.  The stack is of no use now.
Sweep(t) ==
  LET s == th[t].s IN
  /\ th[t].pc = "pop" /\ th[t].sp = <<t, 0>>
  /\ gc_stack' = None
  /\ img' = [img EXCEPT ![s].live = @ \cap th[t].todo]
  /\ base_address_shift' = IF th[t].op = "open" THEN 0 ELSE base_address_shift
  /\ stack' = [stack EXCEPT ![t] = [n \in 1..Depth |-> None]]
  /\ th' = [th EXCEPT ![t].todo = {}, ![t].pc = IF th[t].op = "open" THEN "link" ELSE "unlock"]
  /\ UNCHANGED <<list, map, locks>>

-----------------------------------------------------------------------------
(* storage::open() and storage::close().                                   *)

\* The header's references move here, unless a collection is to follow them.
Map(t) ==
  LET s == th[t].s IN
  /\ th[t].pc = "map"
  /\ \E b \in Base \ {hdr[r] : r \in mapped} :
       LET shift == b - img[s].base
       IN  /\ hdr' = [hdr EXCEPT ![s] = b] /\ mapped' = mapped \cup {s}
           /\ base_address_shift' =
                IF shift = 0 /\ ~th[t].gc THEN base_address_shift ELSE shift
           /\ img' = [img EXCEPT ![s].base = b,
                        ![s].root = IF th[t].gc THEN @
                                    ELSE [i \in Roots |-> Moved(@[i], shift)]]
           /\ th' = [th EXCEPT ![t].shift = shift,
                       ![t].todo = IF shift = 0 THEN {} ELSE img[s].live,
                       ![t].pc = IF th[t].gc THEN "roots" ELSE "adjust"]
  /\ UNCHANGED <<list, locks, gc_stack, stack>>

\* adjust_references(): the constructor of every object is called.
Adjust(t) ==
  LET todo == th[t].todo
      c    == CHOOSE c \in todo : \A d \in todo : c <= d
  IN  /\ th[t].pc = "adjust"
      /\ IF todo = {}
           THEN /\ base_address_shift' = IF th[t].shift = 0 THEN base_address_shift ELSE 0
                /\ Step(t, "link")
           ELSE /\ th' = [th EXCEPT ![t].cell = c, ![t].todo = todo \ {c},
                                    ![t].pc = "load stack"]
                /\ UNCHANGED base_address_shift
      /\ UNCHANGED <<list, map, img, locks, gc_stack, stack>>

\* Variant: next is not set.
LinkNoNext(t) ==
  /\ th[t].pc = "link"
  /\ Step(t, "publish")
  /\ UNCHANGED <<list, map, img, locks, globals, stack>>

LinkNext(t) ==
  /\ th[t].pc = "link"
  /\ next' = [next EXCEPT ![th[t].s] = chain]
  /\ Step(t, "publish")
  /\ UNCHANGED <<chain, map, img, locks, globals, stack>>

LinkChain(t) ==
  /\ th[t].pc = "publish"
  /\ chain' = th[t].s
  /\ Step(t, "unlock")
  /\ UNCHANGED <<next, map, img, locks, globals, stack>>

\* The storage is taken out of the chain; its own link stays.
Unlink(t) ==
  LET s == th[t].s IN
  /\ th[t].pc = "unlink"
  /\ IF chain = s THEN chain' = next[s] /\ UNCHANGED next
     ELSE /\ UNCHANGED chain
          /\ next' = [r \in Storage |-> IF next[r] = s /\ r \in mapped THEN next[s] ELSE next[r]]
  /\ Step(t, "unmap")
  /\ UNCHANGED <<map, img, locks, globals, stack>>

Unmap(t) ==
  /\ th[t].pc = "unmap"
  /\ mapped' = mapped \ {th[t].s}
  /\ Step(t, "unlock")
  /\ UNCHANGED <<list, hdr, img, locks, globals, stack>>

-----------------------------------------------------------------------------
(* Objects.                                                                *)

\* allocate(): the mutex is released when it returns, and the memory is what
\* was left there.  A storage without a free cell would grow.
Allocate(t) ==
  LET s == th[t].s IN
  /\ th[t].pc = "allocate"
  /\ \/ \E c \in Cell \ img[s].live :
          /\ img' = [img EXCEPT ![s].live = @ \cup {c}]
          /\ th' = [th EXCEPT ![t].cell = c, ![t].pc = "memset"]
     \/ /\ Cell \subseteq img[s].live
        /\ th' = [th EXCEPT ![t] = Idle] /\ UNCHANGED img
  /\ mutex' = [mutex EXCEPT ![s] = None]
  /\ UNCHANGED <<list, map, global_mutex, globals, stack>>

\* operator new clears the object before its constructor runs.
Memset(t) ==
  /\ th[t].pc = "memset"
  /\ img' = Put(<<th[t].s, "cell", th[t].cell>>, NULL)
  /\ Step(t, "load stack")
  /\ UNCHANGED <<list, map, locks, globals, stack>>

\* The application makes a root refer to the new object, and the object to
\* itself or to what the root referred to, or leaves it alone.
Use(t) ==
  LET s == th[t].s
      c == th[t].cell
  IN  /\ th[t].pc = "use"
      /\ \/ \E i \in Roots : \E p \in {Ptr(hdr[s], c), img[s].root[i]} :
              img' = [img EXCEPT ![s].root[i] = Ptr(hdr[s], c), ![s].ref[c] = p]
         \/ UNCHANGED img
      /\ th' = [th EXCEPT ![t] = Idle]
      /\ UNCHANGED <<list, map, locks, globals, stack>>

\* find_storage(): a test reads the header in the mapping of the storage.
FindStorage(t) ==
  LET r == th[t].cur IN
  /\ th[t].pc = "find"
  /\ th' = [th EXCEPT ![t] =
       IF r = None \/ r \notin mapped THEN [@ EXCEPT !.pc = "fault"]
       ELSE IF hdr[r] = hdr[th[t].want] THEN [@ EXCEPT !.s = r, !.pc = "lock"]
       ELSE [@ EXCEPT !.cur = next[r]]]
  /\ UNCHANGED <<list, map, img, locks, globals, stack>>

Free(t) ==
  LET s == th[t].s IN
  /\ th[t].pc = "free"
  /\ img' = [img EXCEPT ![s].live = @ \ {th[t].cell}]
  /\ Step(t, "unlock")
  /\ UNCHANGED <<list, map, locks, globals, stack>>

-----------------------------------------------------------------------------
Begin(t) ==
  \E s \in Storage :
    \/ garbage_collection(t, s) \/ close(t, s) \/ new(t, s)
    \/ \E gc \in BOOLEAN : open(t, s, gc)
    \/ \E c \in Cell : delete(t, s, c)
    \/ \E i \in Roots : Forget(t, s, i)

Continue(t) ==
  \/ LockGlobal(t) \/ Lock(t) \/ Unlock(t)
  \/ LoadStack(t) \/ LoadShift(t) \/ Fields(t) \/ StoreStack(t)
  \/ PushRoots(t) \/ Pop(t) \/ Back(t) \/ Sweep(t)
  \/ Map(t) \/ Adjust(t) \/ LinkNext(t) \/ LinkChain(t) \/ Unlink(t) \/ Unmap(t)
  \/ Allocate(t) \/ Memset(t) \/ Use(t) \/ FindStorage(t) \/ Free(t)

Next == \E t \in Thread : Begin(t) \/ Continue(t)

Spec == Init /\ [][Next]_vars

-----------------------------------------------------------------------------
(* Correctness.                                                            *)

\* While nobody is at work on a storage, each reference of its header and of
\* its objects is null or holds the address where the storage is mapped and
\* refers to an object that is there: no collection has missed an object,
\* no open a reference, and no constructor that open or the collection calls
\* was misled by the gc_stack or the base_address_shift of another thread's
\* storage.  The constructors of new objects are kept away from collections by
\* the application alone: without Apart this fails.
RefsWhole ==
  \A s \in mapped : Busy(s) \/
    \A p \in {img[s].root[i] : i \in Roots} \cup {img[s].ref[c] : c \in img[s].live} :
      p = NULL \/ (p.base = hdr[s] /\ p.to \in img[s].live)

\* find_storage() finds the storage an object lies in and touches nothing that
\* is not mapped, while storages are opened at the head of the chain and closed
\* behind the one it looks for.  A storage that it passes is not closed: the
\* application has to see to that, and without Apart this fails.
FoundOwner ==
  \A t \in Thread : th[t].op = "delete" =>
    th[t].pc # "fault" /\ (th[t].pc \in {"lock", "free"} => th[t].s = th[t].want)
=============================================================================
