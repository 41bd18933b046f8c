---------------------------- MODULE StorageOpen ----------------------------
(****************************************************************************)
(* storage::open() and what depends on it: the class dictionary that gives  *)
(* class ids in the file a meaning for programs with different classes,     *)
(* the adjustment of references when the file is mapped at another          *)
(* address, the renewal of virtual tables, collection at open, static       *)
(* data, and transactions and crashes around them (storage.cxx, storage.h,  *)
(* classinfo.cxx, classinfo.h).                                             *)
(*                                                                          *)
(* The stored image is a header and cells, one cell for one object and one  *)
(* reference in each.  A reference is the address it holds, as in the       *)
(* code, and with it, as a ghost, the cell it was made to refer to.  The    *)
(* layout of cells is the subject of StorageAlloc, the order of collection  *)
(* that of GcMark, and the log that of PostFile: here the log is the set    *)
(* of items changed since the last commit, with their content at that time. *)
(****************************************************************************)
EXTENDS Integers, Sequences, FiniteSets, Functions

CONSTANTS Program,        \* programs that use the storage, one after another
          Registry,       \* the classes of a program, in the order of its list
          Base,           \* addresses at which the file may be mapped
          MaxObjects,     \* bound: objects of the application
          MaxChanges,     \* bound: items a transaction of the application changes
          maxStaticData,  \* entries of the table of static data
          Modes,          \* flags of open(): <<tx, virt>> as below
          CrashWhenNew,   \* whether the first open of a file may be cut short
          ReadAfterCrash, \* whether a crashed file may be opened read_only
          MetaClass, PageMapClass, \* the classes of the library itself
          None            \* no class, no program

Class == UNION {Range(Registry[p]) : p \in Program}
MaxCell == MaxObjects + Cardinality(Class)
Cell == 1..MaxCell
Header == 0
metaclass_cid == 1
page_map_cid == 2
first_cid == 3
free_object == 0

ASSUME OpenAssumption ==
  /\ MaxObjects \in Nat /\ maxStaticData \in Nat
  /\ IsFiniteSet(Class)
  /\ \A p \in Program : Registry[p] \in Seq(Class) /\ IsInjective(Registry[p])
  /\ Base \subseteq Nat /\ \A b \in Base : b > MaxCell
  /\ Modes \subseteq BOOLEAN \X BOOLEAN
  /\ {None, MetaClass, PageMapClass} \cap (Class \cup Program) = {}
  /\ Cardinality({None, MetaClass, PageMapClass}) = 3

VARIABLES
  file,    \* the image of the storage, as it is mapped or as it was left
  saved,   \* the image of the last commit
  dirty,   \* items whose content at the last commit is in the log
  pc,      \* closed, dictionary (inside open), ready or reading
  prog,    \* the program that has the storage open
  hdr,     \* the address of the mapping
  fresh,   \* the pages of the file were not protected when it was opened
  app_class_mapping,  \* id in the file of a class of the program
  dbs_class_mapping,  \* class of the program for an id in the file
  list,    \* classes update_class_dictionary() has still to look at
  static,  \* static_data_index, or -1 outside a static data section
  tx,      \* the storage is used with use_transaction_log
  virt     \* the storage is used with support_virtual_functions

vars == <<file, saved, dirty, pc, prog, hdr, fresh, app_class_mapping,
          dbs_class_mapping, list, static, tx, virt>>
process == <<prog, hdr, fresh, app_class_mapping, dbs_class_mapping, list, static>>
kind == <<tx, virt>>

----------------------------------------------------------------------------
(* References. *)

NULL == [at |-> 0, to |-> 0]

Ptr(base, c) == IF c = 0 THEN NULL ELSE [at |-> base + c, to |-> c]

Shift(p, shift) == IF p.at = 0 THEN p ELSE [p EXCEPT !.at = @ + shift]

Free(next) == [cid |-> free_object, ptr |-> next, own |-> None, vt |-> None]

Empty == [base |-> 0, n_classes |-> 0, timestamp |-> None, top |-> 0,
          root |-> NULL, class_dictionary |-> NULL, free |-> NULL,
          n_static |-> 0, static |-> [i \in 1..maxStaticData |-> NULL],
          cell |-> [c \in Cell |-> Free(NULL)]]

\* Where a reference leads in a file that is mapped at base: 0 is nowhere.
Target(base, p) == IF p.at = 0 THEN 0 ELSE p.at - base

\* What is found from the cells in from along the references nx: what every
\* set has that has these cells and, with each cell, the next one.
Closed(nx) ==
  LET edges == {<<c, nx[c]>> : c \in Cell}
  IN  {S \in SUBSET Cell : \A e \in edges : e[1] \in S => e[2] \in S \cup {0}}
Reach(nx, from) ==
  LET around == {S \in Closed(nx) : from \subseteq S \cup {0}}
  IN  {c \in Cell : \A S \in around : c \in S}

\* What the log brings back; cells beyond the end of the file do not count.
Recovered ==
  [(IF Header \in dirty THEN saved ELSE file) EXCEPT
     !.cell = [c \in Cell |->
                 IF c > saved.top /\ Header \in dirty THEN Free(NULL)
                 ELSE IF c \in dirty THEN saved.cell[c] ELSE file.cell[c]]]

\* The items a store adds to the log: pages beyond the size of the last
\* commit, and those of a file that was empty, are not protected.
Logged(items) ==
  IF tx /\ ~fresh THEN dirty \cup {i \in items : i <= saved.top} ELSE dirty

\* The image of the last commit is kept in transaction mode only.
Saved(img) == IF tx THEN img ELSE saved

\* The items open() logs when it changes one image into another.
Stored(img, res) ==
  {i \in 0..img.top : /\ tx /\ img.base # 0
                      /\ IF i = Header THEN [img EXCEPT !.cell = 0] # [res EXCEPT !.cell = 0]
                                       ELSE img.cell[i] # res.cell[i]}

----------------------------------------------------------------------------
(* Reference adjustment. *)

\* Static data moves without a test for NULL.
StaticAdjusted(img, shift) ==
  [i \in DOMAIN img.static |->
     IF i <= img.n_static THEN [img.static[i] EXCEPT !.at = @ + shift] ELSE img.static[i]]

HeaderAdjusted(img, shift) ==
  [img EXCEPT !.root = Shift(@, shift), !.free = Shift(@, shift),
              !.class_dictionary = Shift(@, shift),
              !.static = StaticAdjusted(img, shift)]

\* call_constructor(): the references move, the virtual table is set.
Constructed(x, shift, p) ==
  [x EXCEPT !.ptr = Shift(@, shift), !.vt = IF virt THEN p ELSE None]

\* The link of a free cell moves.
Relinked(x, shift) == [x EXCEPT !.ptr = Shift(@, shift)]

\* Variant: links between free cells stay as they are.
CellsAdjustedNotFree(img, shift, p) ==
  [img EXCEPT !.cell = [c \in Cell |->
     IF c > img.top \/ @[c].cid = free_object THEN @[c]
     ELSE Constructed(@[c], shift, p)]]

CellsAdjusted(img, shift, p) ==
  [img EXCEPT !.cell = [c \in Cell |->
     IF c > img.top THEN @[c]
     ELSE IF @[c].cid = free_object THEN Relinked(@[c], shift)
     ELSE Constructed(@[c], shift, p)]]

\* The cells the mark phase reaches from the header, whose references have
\* been moved already, in a file whose other references have not.
Reached(img, b, shift) ==
  Reach([c \in Cell |-> Target(b, Shift(img.cell[c].ptr, shift))],
        {Target(b, img.root), Target(b, img.class_dictionary)}
          \cup {Target(b, img.static[i]) : i \in 1..img.n_static})

\* The last cell of a set, 0 if there is none.
LastOf(cells) == IF cells = {} THEN 0 ELSE CHOOSE c \in cells : \A d \in cells : d <= c

\* garbage_collection(shift): what the roots reach is constructed, the rest
\* is freed, and the chain of free cells is made anew.
Collected(img, b, shift, p) ==
  LET live == Reached(img, b, shift)
      unused == (1..img.top) \ live
  IN  [img EXCEPT
         !.free = Ptr(b, LastOf(unused)),
         !.cell = [c \in Cell |->
                     IF c > img.top THEN @[c]
                     ELSE IF c \in live THEN Constructed(@[c], shift, p)
                     ELSE Free(Ptr(b, LastOf({d \in unused : d < c})))]]

----------------------------------------------------------------------------
(* The class dictionary. *)

\* The entries of the dictionary from a reference on.
Links(img) == [c \in Cell |-> Target(img.base, img.cell[c].ptr)]
Entries(img, p) == Reach(Links(img), {Target(img.base, p)})

\* load_class_dictionary(): the ids count down along the dictionary, from the
\* newest class on: one less for each entry up to c.
\* Variant: they count up.
LoadedIdUp(img, entries, c) ==
  first_cid - 1 + Cardinality(entries \ Entries(img, img.cell[c].ptr))

LoadedId(img, entries, c) ==
  img.n_classes + first_cid - Cardinality(entries \ Entries(img, img.cell[c].ptr))

\* The names that load_class_dictionary() finds, with their ids.
Loaded(img, p) ==
  LET entries == Entries(img, img.class_dictionary)
  IN  {<<img.cell[c].own, LoadedId(img, entries, c)>> :
         c \in {d \in entries : img.cell[d].own \in Range(Registry[p])}}

AppMapping(loaded, p) ==
  [c \in Range(Registry[p]) |->
     IF \E l \in loaded : l[1] = c THEN (CHOOSE l \in loaded : l[1] = c)[2] ELSE 0]

DbsMapping(loaded) ==
  [i \in 0..(Cardinality(Class) + first_cid) |->
     IF \E l \in loaded : l[2] = i THEN (CHOOSE l \in loaded : l[2] = i)[1]
     ELSE IF i = metaclass_cid THEN MetaClass
     ELSE IF i = page_map_cid THEN PageMapClass ELSE None]

----------------------------------------------------------------------------
(* storage::open(). *)

\* The image open() works on: in transaction mode the log is applied first.
\* A file that is opened read_only is mapped without looking at the log.
Opened(ro) == IF tx /\ ~ro THEN Recovered ELSE file

\* Variant: the timestamp is not compared.
MustAdjustNoStamp(img, b, p, gc) == img.base # b \/ gc

MustAdjust(img, b, p, gc) ==
  \/ img.base # b
  \/ gc
  \/ virt /\ img.timestamp # p

\* The references of an image that was mapped before.
Moved(img, b, p, gc) ==
  LET shift == b - img.base
      top == HeaderAdjusted(img, shift)
  IN  IF gc THEN Collected(top, b, shift, p) ELSE CellsAdjusted(top, shift, p)

\* The cells whose constructor open() calls.
ToConstruct(img, b, p, gc) ==
  LET shift == b - img.base
  IN  IF img.base = 0 \/ ~MustAdjust(img, b, p, gc) THEN {}
      ELSE IF gc THEN Reached(HeaderAdjusted(img, shift), b, shift)
      ELSE {c \in 1..img.top : img.cell[c].cid # free_object}

\* The image after the header has been brought up to date.
Adjusted(img, b, p, gc) ==
  IF ~MustAdjust(img, b, p, gc) THEN img
  ELSE [(IF img.base = 0 THEN img ELSE Moved(img, b, p, gc)) EXCEPT
          !.base = b, !.timestamp = IF virt THEN p ELSE None]

\* open() up to update_class_dictionary().  It is refused for an empty file
\* that is opened read_only and, with the flag fixed, at another address; a
\* class without constructor ends the process, as Crash does.
open(p, b, ro, gc) ==
  /\ pc = "closed"
  /\ ro => Opened(ro).base # 0 /\ (dirty # {} => ReadAfterCrash)
  /\ hdr' = b /\ prog' = p
  /\ \E img \in {Opened(ro)} : \E res \in {Adjusted(img, b, p, gc)} :
       /\ \E loaded \in {Loaded(img, p)} :
            /\ dbs_class_mapping' = DbsMapping(loaded)
            /\ app_class_mapping' = AppMapping(loaded, p)
       /\ \A c \in ToConstruct(img, b, p, gc) : dbs_class_mapping'[img.cell[c].cid] # None
       /\ file' = res
       /\ fresh' = (img.base = 0)
       /\ IF ro THEN saved' = Saved(IF dirty = {} THEN res ELSE saved)
                     /\ UNCHANGED dirty
                ELSE saved' = Saved(img) /\ dirty' = Stored(img, res)
  /\ list' = Registry[p] /\ static' = -1
  /\ pc' = IF ro THEN "reading" ELSE "dictionary"
  /\ UNCHANGED kind

\* A cell for an object: the first free one, or one at the end of the file.
Alloc(img) ==
  IF img.free.at # 0
    THEN LET c == img.free.at - hdr
         IN  <<c, [img EXCEPT !.free = img.cell[c].ptr]>>
    ELSE <<img.top + 1, [img EXCEPT !.top = @ + 1]>>

Object(cid, ptr, own) == [cid |-> cid, ptr |-> ptr, own |-> own,
                         vt |-> IF virt THEN prog ELSE None]

\* The id of the next class that is stored.
NextId ==
  file.n_classes + first_cid
    + Cardinality({c \in DOMAIN app_class_mapping :
                     app_class_mapping[c] >= file.n_classes + first_cid})

\* One turn of update_class_dictionary(): a class the file does not know gets
\* the next id and is linked into the dictionary.
update_class ==
  /\ pc = "dictionary" /\ list # <<>>
  /\ list' = Tail(list)
  /\ IF app_class_mapping[Head(list)] # 0
       THEN UNCHANGED <<file, dirty, app_class_mapping, dbs_class_mapping>>
       ELSE /\ LET a == Alloc(file)
                   c == a[1]
               IN  /\ file' = [a[2] EXCEPT
                         !.cell[c] = Object(metaclass_cid, file.class_dictionary, Head(list)),
                         !.class_dictionary = Ptr(hdr, c)]
                   /\ dirty' = Logged({Header, c})
            /\ app_class_mapping' = [app_class_mapping EXCEPT ![Head(list)] = NextId]
            /\ dbs_class_mapping' = [dbs_class_mapping EXCEPT ![NextId] = Head(list)]
  /\ UNCHANGED <<saved, pc, prog, hdr, fresh, static, kind>>

\* The rest of open(): the number of classes is stored and the changes are
\* committed.
open_done ==
  /\ pc = "dictionary" /\ list = <<>>
  /\ file' = [file EXCEPT !.n_classes = NextId - first_cid]
  /\ saved' = Saved(file') /\ dirty' = {} /\ pc' = "ready" /\ fresh' = FALSE
  /\ UNCHANGED <<prog, hdr, app_class_mapping, dbs_class_mapping, list, static, kind>>

----------------------------------------------------------------------------
(* The application. *)

\* Cells an application may refer to.
Live(img) == {c \in 1..img.top : img.cell[c].cid >= first_cid}

\* A change the application makes.
Change(items) ==
  /\ pc = "ready" /\ dirty' = Logged(items)
  /\ Cardinality(dirty') <= MaxChanges
  /\ UNCHANGED <<saved, pc, prog, hdr, fresh, app_class_mapping,
                 dbs_class_mapping, list, kind>>

\* operator new: an object of a class of the program.
new(c, q) ==
  /\ Cardinality(Live(file)) < MaxObjects
  /\ LET a == Alloc(file)
     IN  /\ file' = [a[2] EXCEPT !.cell[a[1]] =
                       Object(app_class_mapping[c], Ptr(hdr, q), c)]
         /\ Change({Header, a[1]})
  /\ UNCHANGED static

\* operator delete: applications delete what nothing refers to.
delete(c) ==
  /\ \A d \in Live(file) : file.cell[d].ptr.to # c
  /\ file.root.to # c /\ \A i \in 1..file.n_static : file.static[i].to # c
  /\ file' = [file EXCEPT !.cell[c] = Free(file.free), !.free = Ptr(hdr, c)]
  /\ Change({Header, c})
  /\ UNCHANGED static

set_root_object(c) ==
  /\ file' = [file EXCEPT !.root = Ptr(hdr, c)]
  /\ Change({Header})
  /\ UNCHANGED static

begin_static_data ==
  /\ static' = 0
  /\ Change({})
  /\ UNCHANGED file

\* get_static_data() moves on only when there is an entry.
get_static_data ==
  /\ static >= 0 /\ static < file.n_static
  /\ static' = static + 1
  /\ Change({})
  /\ UNCHANGED file

\* set_static_data(): the entry becomes the last one.
set_static_data(c) ==
  /\ static >= 0
  /\ file.n_static < maxStaticData
  /\ file' = [file EXCEPT !.static[static + 1] = Ptr(hdr, c), !.n_static = static + 1]
  /\ static' = static + 1
  /\ Change({Header})

end_static_data ==
  /\ static >= 0 /\ static' = -1
  /\ Change({})
  /\ UNCHANGED file

commit ==
  /\ pc = "ready" /\ tx
  /\ saved' = file /\ dirty' = {}
  /\ UNCHANGED <<file, pc, process, kind>>

\* Applications do not roll back inside a static data section, where it would
\* take back entries but not the index.
rollback ==
  /\ pc = "ready" /\ tx /\ static = -1
  /\ file' = Recovered
  /\ UNCHANGED <<saved, dirty, pc, process, kind>>

\* Nothing of the process is left.
Gone ==
  /\ prog' = None /\ hdr' = 0 /\ fresh' = FALSE /\ list' = <<>> /\ static' = -1
  /\ app_class_mapping' = <<>> /\ dbs_class_mapping' = <<>>

close ==
  /\ pc \in {"ready", "reading"} /\ pc' = "closed"
  /\ IF pc = "ready" THEN saved' = Saved(file) /\ dirty' = {} ELSE UNCHANGED <<saved, dirty>>
  /\ Gone
  /\ UNCHANGED <<file, kind>>

\* The process ends.  Only transaction mode promises anything about that.
Crash ==
  /\ pc # "closed" /\ tx /\ pc' = "closed"
  /\ fresh => CrashWhenNew
  /\ Gone
  /\ UNCHANGED <<file, saved, dirty, kind>>

Init ==
  /\ file = Empty /\ saved = Empty /\ dirty = {} /\ pc = "closed"
  /\ prog = None /\ hdr = 0 /\ fresh = FALSE /\ list = <<>> /\ static = -1
  /\ app_class_mapping = <<>> /\ dbs_class_mapping = <<>>
  /\ \E m \in Modes : tx = m[1] /\ virt = m[2]

Next ==
  \/ \E p \in Program, b \in Base, ro, gc \in BOOLEAN : open(p, b, ro, gc)
  \/ update_class
  \/ open_done
  \/ \E c \in DOMAIN app_class_mapping, q \in {0} \cup Live(file) : new(c, q)
  \/ \E c \in Live(file) : delete(c)
  \/ \E c \in {0} \cup Live(file) : set_root_object(c)
  \/ begin_static_data
  \/ get_static_data
  \/ \E c \in Live(file) : set_static_data(c)
  \/ end_static_data
  \/ commit
  \/ rollback
  \/ close
  \/ Crash

Spec == Init /\ [][Next]_vars

----------------------------------------------------------------------------
(* Properties. *)

Pointer == [at : Nat, to : {0} \cup Cell]
Image ==
  [base : {0} \cup Base, n_classes : Nat, timestamp : Program \cup {None},
   top : 0..MaxCell, root : Pointer, class_dictionary : Pointer, free : Pointer,
   n_static : 0..maxStaticData, static : [1..maxStaticData -> Pointer],
   cell : [Cell -> [cid : Nat, ptr : Pointer, own : Class \cup {None},
                    vt : Program \cup {None}]]]

\* Type correctness of the storage and of what open() sets up.
TypeOK ==
  /\ file \in Image /\ saved \in Image
  /\ dirty \subseteq {Header} \cup Cell
  /\ pc \in {"closed", "dictionary", "ready", "reading"}
  /\ prog \in Program \cup {None} /\ hdr \in {0} \cup Base
  /\ fresh \in BOOLEAN /\ tx \in BOOLEAN /\ virt \in BOOLEAN
  /\ static \in -1..maxStaticData

InUse == pc \in {"ready", "reading"}

\* Class ids keep their meaning from program to program: an object belongs to
\* the class it was created with, in every program that has that class, and a
\* class of the program has one id, that of its objects in the file, which
\* is not one of the library's own (load_class_dictionary(),
\* update_class_dictionary()).
ClassesResolve ==
  InUse =>
    /\ pc = "ready" => \A c \in DOMAIN app_class_mapping :
                         app_class_mapping[c] >= first_cid
    /\ \A c \in Live(file) :
         LET x == file.cell[c]
         IN  IF x.own \in DOMAIN app_class_mapping
               THEN dbs_class_mapping[x.cid] = x.own /\ app_class_mapping[x.own] = x.cid
               ELSE dbs_class_mapping[x.cid] = None

\* Wherever the file is mapped, every reference in it (between objects, from
\* the header, from static data, along the chain of free cells) leads to what
\* it referred to when it was stored (both adjust_references(), collection at
\* open), and an object in use is never free.
RefsResolve ==
  InUse =>
    LET ok(p) == p = Ptr(hdr, p.to) /\ p.to <= file.top
        used(p) == p.to # 0 => file.cell[p.to].cid # free_object
    IN  /\ file.base = hdr
        /\ \A p \in {file.root, file.class_dictionary} 
                 \cup {file.static[i] : i \in 1..file.n_static} :
             ok(p) /\ used(p)
        /\ ok(file.free) /\ (file.free.to # 0 => ~used(file.free))
        /\ \A c \in 1..file.top :
             LET x == file.cell[c]
             IN  ok(x.ptr) /\ (x.cid # free_object => used(x.ptr))

\* With support_virtual_functions every object has the virtual table of the
\* program that has the storage open.
VirtualTables ==
  InUse /\ virt => \A c \in Live(file) : file.cell[c].vt = prog

\* readme.htm: a file opened read_only is converted in a copy of its pages,
\* so that the stored image stays as it is.
ReadOnlyKeepsFile == [][pc = "closed" /\ pc' = "reading" => file' = file]_vars
----------------------------------------------------------------------------
(* The inductive invariant. *)

FreeCells(img) == {c \in 1..img.top : img.cell[c].cid = free_object}
Meta(img)      == {c \in 1..img.top : img.cell[c].cid = metaclass_cid}
To(img)        == [c \in Cell |-> img.cell[c].ptr.to]

\* From a, the references lead through the given cells one by one to the end.
Chain(nx, a, cells) == /\ Reach(nx, {a}) = cells
                       /\ \A c \in cells : c \notin Reach(nx, {nx[c]})

\* The id of the class that is stored in d: its number, counted from the end.
Id(img, d) == first_cid - 1 + Cardinality(Reach(To(img), {d}))

\* References hold the address of the cell they were made for.
PlaceInv(img) ==
  /\ \A p \in {img.root, img.class_dictionary, img.free} : p = Ptr(img.base, p.to)
  /\ \A i \in 1..img.n_static : img.static[i] = Ptr(img.base, img.static[i].to)
  /\ \A c \in Cell : img.cell[c].ptr = Ptr(img.base, img.cell[c].ptr.to)

\* Objects, dictionary and free cells refer to their own kind; the rest of the
\* file is blank.
KindInv(img) ==
  /\ \A c \in 1..img.top : c \in FreeCells(img) \cup Meta(img) \cup Live(img)
  /\ \A c \in Cell : c > img.top => img.cell[c] = Free(NULL)
  /\ img.root.to \in {0} \cup Live(img)
  /\ \A i \in 1..img.n_static : img.static[i].to \in Live(img)
  /\ \A c \in Live(img) : img.cell[c].ptr.to \in {0} \cup Live(img)

FreeInv(img) == Chain(To(img), img.free.to, FreeCells(img))

\* Every class is in the dictionary once.
DictInv(img) ==
  /\ Chain(To(img), img.class_dictionary.to, Meta(img))
  /\ \A d \in Meta(img) : img.cell[d].own \in Class
  /\ \A d, e \in Meta(img) : img.cell[d].own = img.cell[e].own => d = e

\* An object has the id of its class.
ObjectInv(img) ==
  /\ Cardinality(Live(img)) <= MaxObjects
  /\ \A c \in Live(img) : \E d \in Meta(img) :
       img.cell[c].own = img.cell[d].own /\ img.cell[c].cid = Id(img, d)

TableInv(img) ==
  virt => \A c \in Live(img) \cup Meta(img) : img.cell[c].vt = img.timestamp

Sound(img) ==
  /\ img \in Image /\ (img.base = 0 => img = Empty)
  /\ PlaceInv(img) /\ KindInv(img) /\ FreeInv(img) /\ DictInv(img)
  /\ ObjectInv(img) /\ TableInv(img)

Counted(img) == img.n_classes = Cardinality(Meta(img))

\* The log holds what differs from the last commit.
LogInv ==
  /\ dirty \subseteq 0..saved.top
  /\ fresh => pc = "dictionary"
  /\ tx /\ ~fresh =>
       /\ Header \notin dirty => [file EXCEPT !.cell = 0] = [saved EXCEPT !.cell = 0]
       /\ \A c \in 1..saved.top : c \in dirty \/ file.cell[c] = saved.cell[c]

\* The mappings fit the dictionary of an image.
MapInv(img) ==
  /\ \A d \in Meta(img) :
       IF img.cell[d].own \in DOMAIN app_class_mapping
       THEN /\ app_class_mapping[img.cell[d].own] = Id(img, d)
            /\ dbs_class_mapping[Id(img, d)] = img.cell[d].own
       ELSE dbs_class_mapping[Id(img, d)] = None
  /\ \A c \in DOMAIN app_class_mapping :
       app_class_mapping[c] = 0 \/ \E d \in Meta(img) : img.cell[d].own = c

\* An image is that of the process that has the file open.
MappedInv(img) == /\ img.base = hdr /\ (virt => img.timestamp = prog)
                  /\ MapInv(img)

ProcessInv ==
  pc # "closed" =>
    /\ prog \in Program /\ hdr \in Base
    /\ DOMAIN app_class_mapping = Range(Registry[prog])
    /\ DOMAIN dbs_class_mapping = 0..(Cardinality(Class) + first_cid)
    /\ MappedInv(file) /\ (pc = "ready" /\ tx => MappedInv(saved))
    /\ static <= file.n_static
    /\ pc = "dictionary" =>
         /\ list \in Seq(DOMAIN app_class_mapping)
         /\ NextId = Cardinality(Meta(file)) + first_cid
    /\ pc = "ready" => list = <<>>
    /\ pc \in {"dictionary", "ready"} =>
         \A c \in DOMAIN app_class_mapping \ Range(list) : app_class_mapping[c] # 0

OpenInv ==
  /\ TypeOK
  /\ Sound(file) /\ Sound(saved) /\ (tx => Counted(saved))
  /\ (pc \in {"ready", "reading"} \/ (~tx /\ pc = "closed")) => Counted(file)
  /\ LogInv /\ ProcessInv
=============================================================================
