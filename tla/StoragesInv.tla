---------------------------- MODULE StoragesInv ----------------------------
(***************************************************************************)
(* The inductive invariant behind the references and the searches of       *)
(* Storages.                                                               *)
(***************************************************************************)
EXTENDS Storages

(***************************************************************************)
(* Who is where: each operation at one of its own points, open(), close()  *)
(* and collections alone on their storage and, by the global mutex, one    *)
(* after another.                                                          *)
(***************************************************************************)
Building == {"load stack", "load shift", "fields"}
Marking  == {"pop", "store stack", "back"} \cup Building

Points(op, gc) ==
  CASE op = "collect" -> {"global", "lock", "roots", "unlock"} \cup Marking
    [] op = "open"    -> {"global", "lock", "map", "link", "publish", "unlock"}
                           \cup (IF gc THEN {"roots"} \cup Marking
                                       ELSE {"adjust"} \cup Building)
    [] op = "close"   -> {"global", "lock", "unlink", "unmap", "unlock"}
    [] op = "new"     -> {"lock", "allocate", "memset", "use"} \cup Building
    [] op = "delete"  -> {"find", "lock", "free", "unlock"}

Point == {"idle", "global", "lock", "unlock", "roots", "map", "adjust", "link", "publish",
          "unlink", "unmap", "allocate", "memset", "use", "find", "free", "fault"}
            \cup Marking
Position == {None} \cup (Thread \X Nat)
Serial == {"collect", "open", "close"}
Operations == Serial \cup {"new", "delete"}

Activity ==
  [pc : Point, op : Operations \cup {"none"}, s : Storage \cup {None},
   gc : BOOLEAN, shift : Int,
   cell : {0} \cup Cell, todo : SUBSET Cell, sp : Position, gs : Position,
   sh : Int, cur : Storage \cup {None}, want : Storage \cup {None}]

Pointer == [to : {0} \cup Cell, base : Int]
Image == [base : Base, live : SUBSET Cell, root : [Roots -> Pointer],
          ref : [Cell -> Pointer]]

TypeOK ==
  /\ chain \in Storage \cup {None} /\ next \in [Storage -> Storage \cup {None}]
  /\ hdr \in [Storage -> Base] /\ mapped \subseteq Storage
  /\ img \in [Storage -> Image]
  /\ global_mutex \in Thread \cup {None}
  /\ gc_stack \in Position /\ base_address_shift \in Int
  /\ DOMAIN stack = Thread
  /\ \A t \in Thread : DOMAIN stack[t] = 1..Depth
  /\ th \in [Thread -> Activity]

PointInv ==
  \A t \in Thread :
    \/ th[t] = Idle
    \/ /\ th[t].op \in Operations /\ th[t].pc \in Points(th[t].op, th[t].gc)
       /\ th[t].gc => th[t].op = "open"
       /\ th[t].want \in Storage
       /\ th[t].s = IF th[t].pc = "find" THEN None ELSE th[t].want

SerialInv ==
  \A t \in Thread :
    th[t].op \in Serial /\ th[t].pc # "global" <=> global_mutex = t

AloneInv ==
  \A t, u \in Thread :
    t # u /\ th[t].want = th[u].want /\ th[t].want # None => th[t].op \notin Serial

MappedInv ==
  \A t \in Thread : th[t] # Idle =>
    (th[t].want \in mapped <=>
       \/ th[t].op = "open" /\ th[t].pc \notin {"global", "lock", "map"}
       \/ th[t].op = "close" /\ th[t].pc # "unlock"
       \/ th[t].op \notin {"open", "close"})

ApartInv ==
  Apart => (Making => ~Collecting)

ControlInv == TypeOK /\ PointInv /\ SerialInv /\ AloneInv /\ MappedInv /\ ApartInv

(***************************************************************************)
(* The chain, and the searches that are on their way along it.             *)
(***************************************************************************)
Linked == From(next, chain)

ChainInv ==
  /\ Linked \subseteq mapped
  /\ \A s \in Linked : s \notin From(next, next[s])
  /\ \A s \in mapped : \/ s \in Linked
                       \/ \E t \in Thread : /\ th[t].want = s
                                            /\ th[t].op = "open" \/ th[t].pc = "unmap"
  /\ \A t \in Thread : /\ th[t].op = "open" /\ th[t].pc # "unlock" => th[t].want \notin Linked
                       /\ th[t].op = "open" /\ th[t].pc = "unlock" => th[t].want \in Linked
                       /\ th[t].pc = "publish" => next[th[t].want] = chain
                       /\ th[t].pc = "unmap" => th[t].want \notin Linked

AddressInv == /\ \A r, s \in mapped : hdr[r] = hdr[s] => r = s
              /\ \A s \in mapped : hdr[s] = img[s].base

SearchInv ==
  \A t \in Thread : Searching(t) =>
    /\ th[t].cur \in Linked /\ th[t].want \in From(next, th[t].cur)
    /\ Apart => \A u \in Thread : Closing(u) => ~Passed(th[u].want, th[t].want)

(***************************************************************************)
(* The globals: outside a collection there is no stack, and outside an     *)
(* open nothing moves.                                                     *)
(***************************************************************************)
Collects(t) == th[t].op = "collect" \/ th[t].gc

StackInv ==
  /\ gc_stack # None => \E t \in Thread : Collects(t) /\ th[t].pc \in Marking
  /\ Apart => \A t \in Thread :
       ~Collects(t) /\ th[t].pc \in {"load shift", "fields"} => th[t].gs = None

ShiftInv ==
  /\ base_address_shift # 0 =>
       \E t \in Thread : th[t].op = "open" /\ th[t].pc \in {"adjust", "roots"} \cup Marking
  /\ \A t \in Thread : th[t].op = "open" /\ ~th[t].gc =>
       /\ th[t].pc \in {"adjust"} \cup Building => base_address_shift = th[t].shift
       /\ th[t].pc = "fields" => th[t].sh = th[t].shift
  /\ \A t \in Thread : th[t].op = "collect" => th[t].shift = 0

(***************************************************************************)
(* The references of a storage nobody moves; an object under construction  *)
(* is null from Memset on, and one that is deleted is not referred to.     *)
(***************************************************************************)
Good(s, p, b) == p = NULL \/ (p.base = b /\ p.to \in img[s].live)

Moves(t) == /\ th[t].op \in {"open", "collect"}
            /\ th[t].pc \in {"adjust", "roots"} \cup Marking
Raw(s, c) == \E t \in Thread : th[t].want = s /\ th[t].pc = "memset" /\ th[t].cell = c

RestInv(s) ==
  (\A t \in Thread : th[t].want = s => ~Moves(t)) =>
    /\ \A i \in Roots : Good(s, img[s].root[i], img[s].base)
    /\ \A c \in img[s].live : Raw(s, c) \/ Good(s, img[s].ref[c], img[s].base)

Makes(t)   == th[t].op = "new" /\ th[t].pc \notin {"lock", "allocate"}
Deletes(t) == th[t].op = "delete" /\ th[t].pc # "unlock"
Unreferred(s, c) ==
  /\ \A i \in Roots : img[s].root[i].to # c
  /\ \A d \in img[s].live : Raw(s, d) \/ img[s].ref[d].to # c

ObjectInv(t) ==
  /\ Makes(t) \/ Deletes(t) => th[t].cell \in img[th[t].want].live
  /\ Makes(t) /\ th[t].pc # "memset" => img[th[t].want].ref[th[t].cell] = NULL
  /\ Deletes(t) => Unreferred(th[t].want, th[t].cell)

OwnCellInv ==
  \A t, u \in Thread :
    /\ t # u /\ th[t].want = th[u].want
    /\ Makes(t) \/ Deletes(t)
    /\ Makes(u) \/ Deletes(u)
    => th[t].cell # th[u].cell

(***************************************************************************)
(* The references of a storage that open() moves: those of the objects     *)
(* left to do hold the address of the last mapping.                        *)
(***************************************************************************)
OldBase(t) == img[th[t].want].base - th[t].shift
Left(t) == th[t].todo \cup (IF th[t].pc \in Building THEN {th[t].cell} ELSE {})
Adjusts(t) == /\ th[t].op = "open" /\ ~th[t].gc
              /\ th[t].pc \in {"adjust"} \cup Building

AdjustInv(t) ==
  Adjusts(t) =>
    LET s == th[t].want
    IN  /\ Left(t) \subseteq img[s].live
        /\ th[t].pc \in Building => th[t].cell \notin th[t].todo
        /\ \A i \in Roots : Good(s, img[s].root[i], img[s].base)
        /\ \A c \in img[s].live :
             Good(s, img[s].ref[c], IF c \in Left(t) THEN OldBase(t) ELSE img[s].base)

(***************************************************************************)
(* The references of a storage that is collected.  Pending are the fields  *)
(* it has still to follow: those on its stack, and that of the object      *)
(* whose constructor runs.  The others lead to marked objects.             *)
(***************************************************************************)
Marks(t) == Collects(t) /\ th[t].pc \in Marking
Height(t) == IF th[t].pc = "pop" THEN th[t].sp[2]
             ELSE IF th[t].pc = "store stack" THEN th[t].gs[2] + 1 ELSE gc_stack[2]
OnStack(t, f) == \E n \in 1..Height(t) : stack[t][n] = f
CellField(t) == <<th[t].want, "cell", th[t].cell>>
Pending(t, f) == OnStack(t, f) \/ (th[t].pc \in Building /\ f = CellField(t))
Followed(t, p) == p = NULL \/ (p.base = img[th[t].want].base /\ p.to \in th[t].todo)

PositionInv(t) ==
  Marks(t) =>
    /\ Height(t) \in 0..Depth
    /\ th[t].pc = "pop" => th[t].sp = <<t, Height(t)>>
    /\ th[t].pc \in Building \cup {"back"} => gc_stack = <<t, Height(t)>>
    /\ th[t].pc \in {"load shift", "fields"} => th[t].gs = gc_stack
    /\ th[t].pc = "store stack" => th[t].gs = <<t, Height(t) - 1>> /\ Height(t) > 0

StackedInv(t) ==
  Marks(t) =>
    /\ th[t].todo \subseteq img[th[t].want].live
    /\ th[t].pc \in Building => /\ th[t].cell \in th[t].todo
                                /\ ~OnStack(t, CellField(t))
    /\ \A n \in 1..Height(t) :
         \/ \E i \in Roots : stack[t][n] = <<th[t].want, "root", i>>
         \/ \E c \in th[t].todo : stack[t][n] = <<th[t].want, "cell", c>>
    /\ \A m, n \in 1..Height(t) : stack[t][m] = stack[t][n] => m = n

RootsInv(t) ==
  th[t].pc = "roots" =>
    LET s == th[t].want
    IN  /\ \A i \in Roots : Good(s, img[s].root[i], OldBase(t))
        /\ \A c \in img[s].live : Good(s, img[s].ref[c], OldBase(t))

MarkInv(t) ==
  Marks(t) =>
    LET s == th[t].want
    IN  /\ \A i \in Roots :
             IF Pending(t, <<s, "root", i>>) THEN Good(s, img[s].root[i], OldBase(t))
                                            ELSE Followed(t, img[s].root[i])
        /\ \A c \in img[s].live :
             IF c \in th[t].todo /\ ~Pending(t, <<s, "cell", c>>)
             THEN Followed(t, img[s].ref[c]) ELSE Good(s, img[s].ref[c], OldBase(t))

ImageInv == /\ \A s \in Storage : RestInv(s)
            /\ OwnCellInv
            /\ \A t \in Thread : /\ ObjectInv(t) /\ AdjustInv(t) /\ PositionInv(t)
                                 /\ RootsInv(t) /\ StackedInv(t) /\ MarkInv(t)

WholeInv == /\ ControlInv /\ ChainInv /\ AddressInv /\ SearchInv
            /\ StackInv /\ ShiftInv /\ ImageInv
=============================================================================
