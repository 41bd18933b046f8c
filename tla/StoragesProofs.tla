--------------------------- MODULE StoragesProofs ---------------------------
(***************************************************************************)
(* Any number of threads may open, close, collect and use any number of    *)
(* storages at once: find_storage() finds the storage of an object, and    *)
(* the references of a storage nobody works on are whole, provided the     *)
(* application keeps the operations apart that Apart names.                *)
(***************************************************************************)
EXTENDS StoragesInv, TLAPS, FiniteSetTheorems

-----------------------------------------------------------------------------
(* What a step does to the activity of its thread.                         *)

\* A thread at rest has a well-typed activity.
LEMMA IdleType == Idle \in Activity
<1>1. /\ None \in Storage \cup {None} /\ None \in Position /\ 0 \in Int
      /\ 0 \in {0} \cup Cell /\ {} \in SUBSET Cell /\ FALSE \in BOOLEAN
  BY DEF Position
<1>2. "idle" \in Point /\ "none" \in Operations \cup {"none"}
  BY DEF Point
<1> QED BY <1>1, <1>2 DEF Idle, Activity

\* The other threads, and what a thread keeps inside an operation.
Others(t) == \A u \in Thread \ {t} : th'[u] = th[u]
KeepsOp(t) == /\ th'[t].op = th[t].op /\ th'[t].gc = th[t].gc
              /\ th'[t].want = th[t].want
KeepsWork(t) == /\ th'[t].shift = th[t].shift /\ th'[t].cell = th[t].cell
                /\ th'[t].todo = th[t].todo /\ th'[t].sp = th[t].sp
                /\ th'[t].gs = th[t].gs /\ th'[t].sh = th[t].sh

\* The activity of one thread is replaced.
LEMMA Becomes ==
  ASSUME TypeOK, NEW t \in Thread, NEW a \in Activity, th' = [th EXCEPT ![t] = a]
  PROVE  th' \in [Thread -> Activity] /\ Others(t) /\ th'[t] = a
BY DEF TypeOK, Others

\* A step that only moves a thread on to another point.
LEMMA StepMoves ==
  ASSUME TypeOK, NEW t \in Thread, NEW pc \in Point, Step(t, pc)
  PROVE  /\ th' \in [Thread -> Activity] /\ Others(t)
         /\ KeepsOp(t) /\ KeepsWork(t)
         /\ th'[t].pc = pc /\ th'[t].s = th[t].s /\ th'[t].cur = th[t].cur
<1>1. th[t] \in Activity
  BY DEF TypeOK
<1>2. [th[t] EXCEPT !.pc = pc] \in Activity
  BY <1>1 DEF Activity
<1>3. th' = [th EXCEPT ![t] = [th[t] EXCEPT !.pc = pc]]
  BY DEF Step
<1>4. th' \in [Thread -> Activity] /\ Others(t) /\ th'[t] = [th[t] EXCEPT !.pc = pc]
  BY <1>2, <1>3, Becomes
<1> QED BY <1>1, <1>4 DEF Activity, KeepsOp, KeepsWork

-----------------------------------------------------------------------------
(* References and fields. *)

\* NULL stays NULL; another reference keeps its object.
LEMMA MovedFacts ==
  ASSUME NEW p \in Pointer, NEW shift \in Int
  PROVE  /\ Moved(p, shift) \in Pointer
         /\ Moved(p, shift).to = p.to
         /\ p = NULL => Moved(p, shift) = NULL
         /\ p # NULL => Moved(p, shift).base = p.base + shift
BY DEF Moved, Pointer, NULL

\* A store into the header of a storage.
LEMMA PutRoot ==
  ASSUME TypeOK, NEW s \in Storage, NEW i \in Roots, NEW p \in Pointer,
         img' = Put(<<s, "root", i>>, p)
  PROVE  /\ img' \in [Storage -> Image]
         /\ \A r \in Storage : /\ r # s => img'[r] = img[r]
                              /\ img'[r].base = img[r].base
                              /\ img'[r].live = img[r].live
                              /\ img'[r].ref = img[r].ref
         /\ img'[s].root[i] = p
         /\ \A j \in Roots : j # i => img'[s].root[j] = img[s].root[j]
<1>1. img' = [img EXCEPT ![s].root[i] = p]
  BY DEF Put
<1>2. img \in [Storage -> Image] /\ img[s] \in Image
  BY DEF TypeOK
<1>3. img' = [img EXCEPT ![s] = [img[s] EXCEPT !.root = [img[s].root EXCEPT ![i] = p]]]
  BY <1>1
<1>4. [img[s].root EXCEPT ![i] = p] \in [Roots -> Pointer]
  BY <1>2 DEF Image
<1>5. /\ img'[s] = [img[s] EXCEPT !.root = [img[s].root EXCEPT ![i] = p]]
      /\ \A r \in Storage : r # s => img'[r] = img[r]
  BY <1>2, <1>3
<1>6. /\ img'[s].root = [img[s].root EXCEPT ![i] = p] /\ img'[s].base = img[s].base
      /\ img'[s].live = img[s].live /\ img'[s].ref = img[s].ref
      /\ img'[s] \in Image
  BY <1>2, <1>4, <1>5 DEF Image
<1>7. img' \in [Storage -> Image]
  BY <1>2, <1>3, <1>5, <1>6
<1>8. img[s].root \in [Roots -> Pointer]
  BY <1>2 DEF Image
<1> QED BY <1>5, <1>6, <1>7, <1>8

\* A store into an object.
LEMMA PutCell ==
  ASSUME TypeOK, NEW s \in Storage, NEW c \in Cell, NEW p \in Pointer,
         img' = Put(<<s, "cell", c>>, p)
  PROVE  /\ img' \in [Storage -> Image]
         /\ \A r \in Storage : /\ r # s => img'[r] = img[r]
                              /\ img'[r].base = img[r].base
                              /\ img'[r].live = img[r].live
                              /\ img'[r].root = img[r].root
         /\ img'[s].ref[c] = p
         /\ \A d \in Cell : d # c => img'[s].ref[d] = img[s].ref[d]
<1>1. img' = [img EXCEPT ![s].ref[c] = p]
  BY DEF Put
<1>2. img \in [Storage -> Image] /\ img[s] \in Image
  BY DEF TypeOK
<1>3. img' = [img EXCEPT ![s] = [img[s] EXCEPT !.ref = [img[s].ref EXCEPT ![c] = p]]]
  BY <1>1
<1>4. [img[s].ref EXCEPT ![c] = p] \in [Cell -> Pointer]
  BY <1>2 DEF Image
<1>5. /\ img'[s] = [img[s] EXCEPT !.ref = [img[s].ref EXCEPT ![c] = p]]
      /\ \A r \in Storage : r # s => img'[r] = img[r]
  BY <1>2, <1>3
<1>6. /\ img'[s].ref = [img[s].ref EXCEPT ![c] = p] /\ img'[s].base = img[s].base
      /\ img'[s].live = img[s].live /\ img'[s].root = img[s].root
      /\ img'[s] \in Image
  BY <1>2, <1>4, <1>5 DEF Image
<1>7. img' \in [Storage -> Image]
  BY <1>2, <1>3, <1>5, <1>6
<1>8. img[s].ref \in [Cell -> Pointer]
  BY <1>2 DEF Image
<1> QED BY <1>5, <1>6, <1>7, <1>8

-----------------------------------------------------------------------------
(* Where a thread is.                                                      *)

\* A thread inside an operation.
LEMMA Inside ==
  ASSUME TypeOK, PointInv, NEW t \in Thread, th[t].pc # "idle"
  PROVE  /\ th[t] # Idle /\ th[t] \in Activity /\ th[t].op \in Operations
         /\ th[t].pc \in Points(th[t].op, th[t].gc)
         /\ th[t].gc => th[t].op = "open"
         /\ th[t].want \in Storage
         /\ th[t].s = IF th[t].pc = "find" THEN None ELSE th[t].want
<1>1. th[t] # Idle
  BY DEF Idle
<1> QED BY <1>1 DEF TypeOK, PointInv

\* The operation a thread is at, from the point where it is.
LEMMA AtPoint ==
  ASSUME TypeOK, PointInv, NEW t \in Thread
  PROVE  /\ th[t].pc = "global" => th[t].op \in Serial
         /\ th[t].pc \in {"map", "link", "publish"} => th[t].op = "open"
         /\ th[t].pc = "adjust" => th[t].op = "open" /\ ~th[t].gc
         /\ th[t].pc \in {"unlink", "unmap"} => th[t].op = "close" /\ ~th[t].gc
         /\ th[t].pc \in {"allocate", "memset", "use"} => th[t].op = "new" /\ ~th[t].gc
         /\ th[t].pc \in {"find", "free"} => th[t].op = "delete" /\ ~th[t].gc
         /\ th[t].pc \in {"roots", "pop", "store stack", "back"} =>
              Collects(t) /\ th[t].op \in {"collect", "open"}
         /\ th[t].pc \in Building => th[t].op \in {"collect", "open", "new"}
         /\ Collects(t) => th[t].op \in {"collect", "open"}
         /\ th[t].pc # "fault"
<1>1. CASE th[t] = Idle
  BY <1>1 DEF Idle, Building, Collects
<1>2. CASE th[t] # Idle
  BY <1>2 DEF PointInv, Points, Operations, Serial, Building, Marking, Collects
<1> QED BY <1>1, <1>2

-----------------------------------------------------------------------------
(* The steps that change more than the point of a thread.                  *)

\* The constructor reads gc_stack.
LEMMA LoadStackMoves ==
  ASSUME TypeOK, NEW t \in Thread, LoadStack(t)
  PROVE  /\ th' \in [Thread -> Activity] /\ Others(t) /\ KeepsOp(t)
         /\ th'[t].pc = "load shift" /\ th'[t].gs = gc_stack
         /\ th'[t].s = th[t].s /\ th'[t].shift = th[t].shift
         /\ th'[t].cell = th[t].cell /\ th'[t].todo = th[t].todo
<1>1. th[t] \in Activity /\ gc_stack \in Position /\ "load shift" \in Point
  BY DEF TypeOK, Point, Marking, Building
<1>2. [th[t] EXCEPT !.gs = gc_stack, !.pc = "load shift"] \in Activity
  BY <1>1 DEF Activity
<1>3. th' = [th EXCEPT ![t] = [th[t] EXCEPT !.gs = gc_stack, !.pc = "load shift"]]
  BY DEF LoadStack, TypeOK
<1>4. /\ th' \in [Thread -> Activity] /\ Others(t)
      /\ th'[t] = [th[t] EXCEPT !.gs = gc_stack, !.pc = "load shift"]
  BY <1>2, <1>3, Becomes
<1> QED BY <1>1, <1>4 DEF Activity, KeepsOp

\* The constructor reads base_address_shift.
LEMMA LoadShiftMoves ==
  ASSUME TypeOK, NEW t \in Thread, LoadShift(t)
  PROVE  /\ th' \in [Thread -> Activity] /\ Others(t) /\ KeepsOp(t)
         /\ th'[t].pc = "fields" /\ th'[t].sh = base_address_shift
         /\ th'[t].s = th[t].s /\ th'[t].shift = th[t].shift
         /\ th'[t].cell = th[t].cell /\ th'[t].todo = th[t].todo
         /\ th'[t].gs = th[t].gs
<1>1. th[t] \in Activity /\ base_address_shift \in Int /\ "fields" \in Point
  BY DEF TypeOK, Point, Marking, Building
<1>2. [th[t] EXCEPT !.sh = base_address_shift, !.pc = "fields"] \in Activity
  BY <1>1 DEF Activity
<1>3. th' = [th EXCEPT ![t] = [th[t] EXCEPT !.sh = base_address_shift, !.pc = "fields"]]
  BY DEF LoadShift, TypeOK
<1>4. /\ th' \in [Thread -> Activity] /\ Others(t)
      /\ th'[t] = [th[t] EXCEPT !.sh = base_address_shift, !.pc = "fields"]
  BY <1>2, <1>3, Becomes
<1> QED BY <1>1, <1>4 DEF Activity, KeepsOp

\* The collection takes the stack back from the constructor.
LEMMA BackMoves ==
  ASSUME TypeOK, NEW t \in Thread, Back(t)
  PROVE  /\ th' \in [Thread -> Activity] /\ Others(t) /\ KeepsOp(t)
         /\ th'[t].pc = "pop" /\ th'[t].sp = gc_stack
         /\ th'[t].s = th[t].s /\ th'[t].shift = th[t].shift
         /\ th'[t].cell = th[t].cell /\ th'[t].todo = th[t].todo
<1>1. th[t] \in Activity /\ gc_stack \in Position /\ "pop" \in Point
  BY DEF TypeOK, Point, Marking
<1>2. [th[t] EXCEPT !.sp = gc_stack, !.pc = "pop"] \in Activity
  BY <1>1 DEF Activity
<1>3. th' = [th EXCEPT ![t] = [th[t] EXCEPT !.sp = gc_stack, !.pc = "pop"]]
  BY DEF Back, TypeOK
<1>4. /\ th' \in [Thread -> Activity] /\ Others(t)
      /\ th'[t] = [th[t] EXCEPT !.sp = gc_stack, !.pc = "pop"]
  BY <1>2, <1>3, Becomes
<1> QED BY <1>1, <1>4 DEF Activity, KeepsOp

\* The collection starts with n references on the stack.
LEMMA PushMoves ==
  ASSUME TypeOK, NEW t \in Thread, NEW n \in Nat,
         th' = [th EXCEPT ![t].sp = <<t, n>>, ![t].todo = {}, ![t].pc = "pop"]
  PROVE  /\ th' \in [Thread -> Activity] /\ Others(t) /\ KeepsOp(t)
         /\ th'[t].pc = "pop" /\ th'[t].sp = <<t, n>> /\ th'[t].todo = {}
         /\ th'[t].s = th[t].s /\ th'[t].shift = th[t].shift
<1>1. th[t] \in Activity /\ <<t, n>> \in Position /\ "pop" \in Point /\ {} \in SUBSET Cell
  BY DEF TypeOK, Point, Marking, Position
<1>2. [th[t] EXCEPT !.sp = <<t, n>>, !.todo = {}, !.pc = "pop"] \in Activity
  BY <1>1 DEF Activity
<1>3. th' = [th EXCEPT ![t] = [th[t] EXCEPT !.sp = <<t, n>>, !.todo = {}, !.pc = "pop"]]
  BY DEF TypeOK
<1>4. /\ th' \in [Thread -> Activity] /\ Others(t)
      /\ th'[t] = [th[t] EXCEPT !.sp = <<t, n>>, !.todo = {}, !.pc = "pop"]
  BY <1>2, <1>3, Becomes
<1> QED BY <1>1, <1>4 DEF Activity, KeepsOp

\* A reference that leads to nothing new.
LEMMA PopMoves ==
  ASSUME TypeOK, NEW t \in Thread, NEW sp \in Position, th' = [th EXCEPT ![t].sp = sp]
  PROVE  /\ th' \in [Thread -> Activity] /\ Others(t) /\ KeepsOp(t)
         /\ th'[t].sp = sp
         /\ th'[t].pc = th[t].pc /\ th'[t].s = th[t].s /\ th'[t].shift = th[t].shift
         /\ th'[t].cell = th[t].cell /\ th'[t].todo = th[t].todo
<1>1. th[t] \in Activity
  BY DEF TypeOK
<1>2. [th[t] EXCEPT !.sp = sp] \in Activity
  BY <1>1 DEF Activity
<1>3. th' = [th EXCEPT ![t] = [th[t] EXCEPT !.sp = sp]]
  BY DEF TypeOK
<1>4. th' \in [Thread -> Activity] /\ Others(t) /\ th'[t] = [th[t] EXCEPT !.sp = sp]
  BY <1>2, <1>3, Becomes
<1> QED BY <1>1, <1>4 DEF Activity, KeepsOp

\* A reference that leads to an object not marked before.
LEMMA PopMarkMoves ==
  ASSUME TypeOK, NEW t \in Thread, NEW sp \in Position, NEW c \in Cell,
         th' = [th EXCEPT ![t].sp = sp, ![t].cell = c, ![t].todo = @ \cup {c},
                          ![t].pc = "load stack"]
  PROVE  /\ th' \in [Thread -> Activity] /\ Others(t) /\ KeepsOp(t)
         /\ th'[t].pc = "load stack" /\ th'[t].sp = sp /\ th'[t].cell = c
         /\ th'[t].todo = th[t].todo \cup {c}
         /\ th'[t].s = th[t].s /\ th'[t].shift = th[t].shift
<1> DEFINE a == [th[t] EXCEPT !.sp = sp, !.cell = c, !.todo = th[t].todo \cup {c},
                              !.pc = "load stack"]
<1>1. /\ th[t] \in Activity /\ "load stack" \in Point
      /\ th[t].todo \cup {c} \in SUBSET Cell
  BY DEF TypeOK, Point, Marking, Building, Activity
<1>2. a \in Activity
  BY <1>1 DEF Activity
<1>3. th' = [th EXCEPT ![t] = a]
  BY DEF TypeOK
<1>4. th' \in [Thread -> Activity] /\ Others(t) /\ th'[t] = a
  BY <1>2, <1>3, Becomes
<1> QED BY <1>1, <1>4 DEF Activity, KeepsOp

\* The end of a collection.
LEMMA SweepMoves ==
  ASSUME TypeOK, NEW t \in Thread, NEW pc \in Point,
         th' = [th EXCEPT ![t].todo = {}, ![t].pc = pc]
  PROVE  /\ th' \in [Thread -> Activity] /\ Others(t) /\ KeepsOp(t)
         /\ th'[t].pc = pc /\ th'[t].todo = {}
         /\ th'[t].s = th[t].s /\ th'[t].shift = th[t].shift
<1>1. th[t] \in Activity /\ {} \in SUBSET Cell
  BY DEF TypeOK
<1>2. [th[t] EXCEPT !.todo = {}, !.pc = pc] \in Activity
  BY <1>1 DEF Activity
<1>3. th' = [th EXCEPT ![t] = [th[t] EXCEPT !.todo = {}, !.pc = pc]]
  BY DEF TypeOK
<1>4. th' \in [Thread -> Activity] /\ Others(t) /\ th'[t] = [th[t] EXCEPT !.todo = {}, !.pc = pc]
  BY <1>2, <1>3, Becomes
<1> QED BY <1>1, <1>4 DEF Activity, KeepsOp

\* The file has been mapped.
LEMMA MapMoves ==
  ASSUME TypeOK, NEW t \in Thread, NEW shift \in Int, NEW todo \in SUBSET Cell,
         NEW pc \in Point,
         th' = [th EXCEPT ![t].shift = shift, ![t].todo = todo, ![t].pc = pc]
  PROVE  /\ th' \in [Thread -> Activity] /\ Others(t) /\ KeepsOp(t)
         /\ th'[t].pc = pc /\ th'[t].shift = shift /\ th'[t].todo = todo
         /\ th'[t].s = th[t].s
<1>1. th[t] \in Activity
  BY DEF TypeOK
<1>2. [th[t] EXCEPT !.shift = shift, !.todo = todo, !.pc = pc] \in Activity
  BY <1>1 DEF Activity
<1>3. th' = [th EXCEPT ![t] = [th[t] EXCEPT !.shift = shift, !.todo = todo, !.pc = pc]]
  BY DEF TypeOK
<1>4. /\ th' \in [Thread -> Activity] /\ Others(t)
      /\ th'[t] = [th[t] EXCEPT !.shift = shift, !.todo = todo, !.pc = pc]
  BY <1>2, <1>3, Becomes
<1> QED BY <1>1, <1>4 DEF Activity, KeepsOp

\* open() takes up an object.
LEMMA CellMoves ==
  ASSUME TypeOK, NEW t \in Thread, NEW c \in Cell, NEW todo \in SUBSET Cell,
         NEW pc \in Point,
         th' = [th EXCEPT ![t].cell = c, ![t].todo = todo, ![t].pc = pc]
  PROVE  /\ th' \in [Thread -> Activity] /\ Others(t) /\ KeepsOp(t)
         /\ th'[t].pc = pc /\ th'[t].cell = c /\ th'[t].todo = todo
         /\ th'[t].s = th[t].s /\ th'[t].shift = th[t].shift
<1> DEFINE a == [th[t] EXCEPT !.cell = c, !.todo = todo, !.pc = pc]
<1>1. th[t] \in Activity
  BY DEF TypeOK
<1>2. a \in Activity
  BY <1>1 DEF Activity
<1>3. th' = [th EXCEPT ![t] = a]
  BY DEF TypeOK
<1>4. th' \in [Thread -> Activity] /\ Others(t) /\ th'[t] = a
  BY <1>2, <1>3, Becomes
<1> QED BY <1>1, <1>4 DEF Activity, KeepsOp

\* operator new takes a cell.
LEMMA AllocateMoves ==
  ASSUME TypeOK, NEW t \in Thread, NEW c \in Cell,
         th' = [th EXCEPT ![t].cell = c, ![t].pc = "memset"]
  PROVE  /\ th' \in [Thread -> Activity] /\ Others(t) /\ KeepsOp(t)
         /\ th'[t].pc = "memset" /\ th'[t].cell = c /\ th'[t].s = th[t].s
<1> DEFINE a == [th[t] EXCEPT !.cell = c, !.pc = "memset"]
<1>1. th[t] \in Activity /\ "memset" \in Point
  BY DEF TypeOK, Point
<1>2. a \in Activity
  BY <1>1 DEF Activity
<1>3. th' = [th EXCEPT ![t] = a]
  BY DEF TypeOK
<1>4. th' \in [Thread -> Activity] /\ Others(t) /\ th'[t] = a
  BY <1>2, <1>3, Becomes
<1> QED BY <1>1, <1>4 DEF Activity, KeepsOp

-----------------------------------------------------------------------------
(* Who is where: ControlInv.                                               *)

\* A step inside an operation.
LEMMA StepControl ==
  ASSUME ControlInv, TypeOK', NEW t \in Thread, th[t].pc # "idle",
         Others(t), KeepsOp(t), th'[t].pc \in Points(th[t].op, th[t].gc),
         th'[t].s = IF th'[t].pc = "find" THEN None ELSE th[t].want,
         th[t].pc # "use",
         SerialInv', MappedInv'
  PROVE  ControlInv'
<1>1. /\ TypeOK /\ PointInv /\ SerialInv /\ AloneInv /\ MappedInv /\ ApartInv
  BY DEF ControlInv
<1>2. /\ th[t] # Idle /\ th[t].op \in Operations /\ (th[t].gc => th[t].op = "open")
      /\ th[t].want \in Storage
  BY <1>1, Inside
<1>3. PointInv'
  <2> SUFFICES ASSUME NEW u \in Thread, th'[u] # Idle
               PROVE  /\ th'[u].op \in Operations
                      /\ th'[u].pc \in Points(th'[u].op, th'[u].gc)
                      /\ th'[u].gc => th'[u].op = "open"
                      /\ th'[u].want \in Storage
                      /\ th'[u].s = IF th'[u].pc = "find" THEN None ELSE th'[u].want
    BY DEF PointInv
  <2>1. CASE u = t
    BY <2>1, <1>2 DEF KeepsOp
  <2>2. CASE u # t
    BY <2>2, <1>1 DEF Others, PointInv
  <2> QED BY <2>1, <2>2
<1>4. AloneInv'
  BY <1>1 DEF AloneInv, Others, KeepsOp
<1>5. ApartInv'
  <2>1. Making' => Making
    BY DEF Making, Others, KeepsOp
  <2>2. Collecting' => Collecting
    BY DEF Collecting, Others, KeepsOp
  <2> QED BY <1>1, <2>1, <2>2 DEF ApartInv
<1> QED BY <1>3, <1>4, <1>5 DEF ControlInv

\* The same, with the mutexes and the mappings as they are.
LEMMA InnerControl ==
  ASSUME ControlInv, TypeOK', NEW t \in Thread, th[t].pc \notin {"idle", "global"},
         Others(t), KeepsOp(t), th'[t].pc \in Points(th[t].op, th[t].gc) \ {"global"},
         th'[t].s = IF th'[t].pc = "find" THEN None ELSE th[t].want,
         th[t].pc # "use",
         global_mutex' = global_mutex, mapped' = mapped,
         th[t].op = "open" =>
           (th'[t].pc \in {"lock", "map"} <=> th[t].pc \in {"lock", "map"}),
         th[t].op = "close" => "unlock" \notin {th[t].pc, th'[t].pc}
  PROVE  ControlInv'
<1>1. TypeOK /\ PointInv /\ SerialInv /\ MappedInv
  BY DEF ControlInv
<1>2. SerialInv'
  BY <1>1 DEF SerialInv, Others, KeepsOp
<1>3. MappedInv'
  <2> SUFFICES ASSUME NEW u \in Thread, th'[u] # Idle
               PROVE  (th'[u].want \in mapped <=>
                         \/ th'[u].op = "open" /\ th'[u].pc \notin {"global", "lock", "map"}
                         \/ th'[u].op = "close" /\ th'[u].pc # "unlock"
                         \/ th'[u].op \notin {"open", "close"})
    BY DEF MappedInv
  <2>1. CASE u = t
    BY <2>1, <1>1, Inside DEF KeepsOp, MappedInv
  <2>2. CASE u # t
    BY <2>2, <1>1 DEF Others, MappedInv
  <2> QED BY <2>1, <2>2
<1> QED BY <1>2, <1>3, StepControl

\* An operation ends.
LEMMA EndControl ==
  ASSUME ControlInv, TypeOK', NEW t \in Thread, th[t].pc \notin {"idle", "global"},
         Others(t), th'[t] = Idle, mapped' = mapped,
         global_mutex' = IF global_mutex = t THEN None ELSE global_mutex
  PROVE  ControlInv'
<1>1. /\ TypeOK /\ PointInv /\ SerialInv /\ AloneInv /\ MappedInv /\ ApartInv
  BY DEF ControlInv
<1>2. /\ th'[t].op = "none" /\ th'[t].pc = "idle" /\ th'[t].want = None /\ th'[t].gc = FALSE
  BY DEF Idle
<1>3. PointInv'
  BY <1>1 DEF PointInv, Others
<1>4. SerialInv'
  BY <1>1, <1>2, StoragesAssumption DEF SerialInv, Others, Serial
<1>5. AloneInv'
  BY <1>1, <1>2 DEF AloneInv, Others
<1>6. MappedInv'
  BY <1>1 DEF MappedInv, Others
<1>7. ApartInv'
  <2>1. Making' => Making
    BY <1>2 DEF Making, Others
  <2>2. Collecting' => Collecting
    BY <1>2 DEF Collecting, Others
  <2> QED BY <1>1, <2>1, <2>2 DEF ApartInv
<1> QED BY <1>3, <1>4, <1>5, <1>6, <1>7 DEF ControlInv

\* An operation starts.
LEMMA StartControl ==
  ASSUME ControlInv, TypeOK', NEW t \in Thread, NEW s \in Storage, th[t] = Idle,
         Others(t), mapped' = mapped, global_mutex' = global_mutex,
         th'[t].op \in Operations, th'[t].pc \in Points(th'[t].op, th'[t].gc),
         th'[t].gc => th'[t].op = "open", th'[t].want = s,
         th'[t].s = IF th'[t].pc = "find" THEN None ELSE s,
         th'[t].op \in Serial => th'[t].pc = "global" /\ ~Busy(s),
         th'[t].op \notin Serial =>
           \A u \in Thread : th[u].want = s => th[u].op \notin Serial,
         th'[t].op = "open" <=> s \notin mapped,
         Apart => /\ th'[t].op = "new" => ~Collecting
                  /\ th'[t].op = "collect" \/ th'[t].gc => ~Making
  PROVE  ControlInv'
<1>1. /\ TypeOK /\ PointInv /\ SerialInv /\ AloneInv /\ MappedInv /\ ApartInv
  BY DEF ControlInv
<1>2. /\ th[t].op = "none" /\ th[t].pc = "idle" /\ th[t].want = None /\ th[t].gc = FALSE
  BY DEF Idle
<1>3. PointInv'
  BY <1>1 DEF PointInv, Others
<1>4. SerialInv'
  BY <1>1, <1>2 DEF SerialInv, Others, Serial
<1>5. AloneInv'
  BY <1>1 DEF AloneInv, Others, Busy
<1>6. MappedInv'
  <2> SUFFICES ASSUME NEW u \in Thread, th'[u] # Idle
               PROVE  (th'[u].want \in mapped <=>
                         \/ th'[u].op = "open" /\ th'[u].pc \notin {"global", "lock", "map"}
                         \/ th'[u].op = "close" /\ th'[u].pc # "unlock"
                         \/ th'[u].op \notin {"open", "close"})
    BY DEF MappedInv
  <2>1. CASE u = t
    BY <2>1 DEF Serial
  <2>2. CASE u # t
    BY <2>2, <1>1 DEF Others, MappedInv
  <2> QED BY <2>1, <2>2
<1>7. ApartInv'
  <2>1. CASE th'[t].op = "new"
    <3>1. ~th'[t].gc
      BY <2>1
    <3>2. Apart => ~Collecting'
      BY <2>1, <3>1 DEF Collecting, Others
    <3> QED BY <3>2 DEF ApartInv
  <2>2. CASE th'[t].op # "new"
    <3>1. Making' => Making
      BY <2>2 DEF Making, Others
    <3>2. Collecting' => Collecting \/ th'[t].op = "collect" \/ th'[t].gc
      BY DEF Collecting, Others
    <3> QED BY <1>1, <3>1, <3>2 DEF ApartInv
  <2> QED BY <2>1, <2>2
<1> QED BY <1>3, <1>4, <1>5, <1>6, <1>7 DEF ControlInv

-----------------------------------------------------------------------------
(* Walks along the chain.                                                  *)

Links == [Storage -> Storage \cup {None}]

\* A walk stays in every set that follows the links.
LEMMA FromWithin ==
  ASSUME NEW nx \in Links, NEW S \in SUBSET Storage, Follows(nx, S),
         NEW a \in S \cup {None}
  PROVE  From(nx, a) \subseteq S
BY DEF From

\* A walk finds where it starts, and what comes after all it finds.
LEMMA FromFacts ==
  ASSUME NEW nx \in Links, NEW a \in Storage \cup {None}
  PROVE  /\ From(nx, a) \in SUBSET Storage
         /\ Follows(nx, From(nx, a))
         /\ a \in Storage => a \in From(nx, a)
         /\ From(nx, None) = {}
<1>1. From(nx, a) \in SUBSET Storage
  BY DEF From
<1>2. ASSUME NEW r \in From(nx, a), nx[r] # None
      PROVE  nx[r] \in From(nx, a)
  <2>1. r \in Storage /\ nx[r] \in Storage
    BY <1>1, <1>2 DEF Links
  <2>2. ASSUME NEW S \in SUBSET Storage, Follows(nx, S), a \in S \cup {None}
        PROVE  nx[r] \in S
    <3>1. r \in S
      BY <2>2 DEF From
    <3> QED BY <1>2, <2>2, <3>1 DEF Follows
  <2> QED BY <2>1, <2>2 DEF From
<1>3. a \in Storage => a \in From(nx, a)
  BY StoragesAssumption DEF From
<1>4. From(nx, None) \subseteq {}
  <2>1. Follows(nx, {})
    BY DEF Follows
  <2> QED BY <2>1, FromWithin
<1> QED BY <1>1, <1>2, <1>3, <1>4 DEF Follows

\* A walk from what a walk finds finds nothing else.
LEMMA FromSub ==
  ASSUME NEW nx \in Links, NEW a \in Storage \cup {None}, NEW b \in From(nx, a)
  PROVE  From(nx, b) \subseteq From(nx, a)
BY FromFacts, FromWithin

\* What a walk finds beyond its start, the walk from the next storage finds.
LEMMA FromNext ==
  ASSUME NEW nx \in Links, NEW a \in Storage, NEW b \in From(nx, a), b # a
  PROVE  nx[a] \in Storage /\ b \in From(nx, nx[a])
<1>1. nx[a] \in Storage \cup {None}
  BY DEF Links
<1> DEFINE S == From(nx, nx[a])
<1>2. S \in SUBSET Storage /\ Follows(nx, S) /\ (nx[a] \in Storage => nx[a] \in S)
  BY <1>1, FromFacts
<1>3. Follows(nx, S \cup {a})
  BY <1>1, <1>2 DEF Follows
<1>4. b \in S \cup {a}
  BY <1>2, <1>3, FromWithin
<1>5. nx[a] = None => S = {}
  BY FromFacts
<1> QED BY <1>1, <1>4, <1>5

\* Links that agree along a walk lead to the same walk.
LEMMA FromAgrees ==
  ASSUME NEW nx \in Links, NEW ny \in Links, NEW a \in Storage \cup {None},
         \A r \in From(nx, a) : ny[r] = nx[r]
  PROVE  From(ny, a) = From(nx, a)
<1> DEFINE K == From(nx, a)
<1>1. K \in SUBSET Storage /\ Follows(nx, K) /\ a \in K \cup {None}
  BY FromFacts
<1>2. Follows(ny, K)
  BY <1>1 DEF Follows
<1>3. From(ny, a) \subseteq K
  BY <1>1, <1>2, FromWithin
<1>4. K \subseteq From(ny, a)
  <2> SUFFICES ASSUME NEW b \in K, NEW S \in SUBSET Storage, Follows(ny, S),
                      a \in S \cup {None}
               PROVE  b \in S
    BY <1>1 DEF From
  <2>1. Follows(nx, S \cap K)
    BY <1>1 DEF Follows
  <2>2. a \in (S \cap K) \cup {None}
    BY <1>1
  <2>3. K \subseteq S \cap K
    BY <2>1, <2>2, FromWithin
  <2> QED BY <2>3
<1> QED BY <1>3, <1>4

\* Linking a storage that a walk does not find does not change the walk.
LEMMA FromAside ==
  ASSUME NEW nx \in Links, NEW a \in Storage \cup {None}, NEW s \in Storage,
         s \notin From(nx, a), NEW x \in Storage \cup {None}
  PROVE  From([nx EXCEPT ![s] = x], a) = From(nx, a)
<1> DEFINE ny == [nx EXCEPT ![s] = x]
<1>1. ny \in Links /\ \A r \in Storage \ {s} : ny[r] = nx[r]
  BY DEF Links
<1>2. From(nx, a) \in SUBSET Storage
  BY FromFacts
<1> HIDE DEF ny
<1>3. \A r \in From(nx, a) : ny[r] = nx[r]
  BY <1>1, <1>2
<1>4. From(ny, a) = From(nx, a)
  BY <1>1, <1>3, FromAgrees
<1> QED BY <1>4 DEF ny

\* A storage is put before the head of the chain.
LEMMA FromHead ==
  ASSUME NEW nx \in Links, NEW s \in Storage
  PROVE  From(nx, s) = {s} \cup From(nx, nx[s])
<1>1. nx[s] \in Storage \cup {None}
  BY DEF Links
<1> DEFINE K == From(nx, nx[s])
<1>2. K \in SUBSET Storage /\ Follows(nx, K) /\ (nx[s] \in Storage => nx[s] \in K)
  BY <1>1, FromFacts
<1>3. Follows(nx, {s} \cup K)
  BY <1>1, <1>2 DEF Follows
<1>4. From(nx, s) \subseteq {s} \cup K
  BY <1>2, <1>3, FromWithin
<1>5. s \in From(nx, s) /\ Follows(nx, From(nx, s)) /\ From(nx, s) \in SUBSET Storage
  BY FromFacts
<1>6. nx[s] \in From(nx, s) \cup {None}
  BY <1>5 DEF Follows
<1>7. K \subseteq From(nx, s)
  BY <1>5, <1>6, FromWithin
<1> QED BY <1>4, <1>5, <1>7

\* A storage is taken out of a chain without cycles: from its head, or by
\* leading the links to it on to what comes after it.
LEMMA FromWithout ==
  ASSUME NEW nx \in Links, NEW c \in Storage, NEW s \in From(nx, c),
         \A r \in From(nx, c) : r \notin From(nx, nx[r])
  PROVE  /\ c = s => From(nx, nx[s]) = From(nx, c) \ {s}
         /\ c # s => \A ny \in Links :
              (\A r \in From(nx, c) : ny[r] = IF nx[r] = s THEN nx[s] ELSE nx[r]) =>
                /\ From(ny, c) = From(nx, c) \ {s}
                /\ \A r \in From(nx, c) : From(ny, ny[r]) \subseteq From(nx, nx[r])
<1> DEFINE K == From(nx, c)
<1>1. K \in SUBSET Storage /\ Follows(nx, K) /\ c \in K
  BY FromFacts
<1>2. s \in Storage /\ nx[s] \in K \cup {None} /\ nx[s] # s /\ s # None
  <2>1. s \in Storage /\ nx[s] \in K \cup {None}
    BY <1>1 DEF Follows
  <2>2. nx[s] = s => s \in From(nx, nx[s])
    BY <2>1, FromFacts
  <2> QED BY <2>1, <2>2, StoragesAssumption
<1>3. c = s => From(nx, nx[s]) = K \ {s}
  BY FromHead
<1>4. ASSUME c # s, NEW ny \in Links,
             \A r \in K : ny[r] = IF nx[r] = s THEN nx[s] ELSE nx[r]
      PROVE  /\ From(ny, c) = K \ {s}
             /\ \A r \in K : From(ny, ny[r]) \subseteq From(nx, nx[r])
  <2>1. Follows(ny, K \ {s})
    BY <1>1, <1>2, <1>4 DEF Follows
  <2>2. From(ny, c) \subseteq K \ {s}
    BY <1>1, <1>4, <2>1, FromWithin
  <2>3. K \ {s} \subseteq From(ny, c)
    <3> SUFFICES ASSUME NEW b \in K \ {s}, NEW S \in SUBSET Storage, Follows(ny, S), c \in S
                 PROVE  b \in S
      BY <1>1, StoragesAssumption DEF From
    <3> DEFINE T == S \cap K
    <3>1. \A r \in T : ny[r] \in T \cup {None}
      <4> SUFFICES ASSUME NEW r \in T PROVE ny[r] \in T \cup {None}
        OBVIOUS
      <4>1. ny[r] \in S \cup {None}
        BY DEF Follows
      <4>2. ny[r] \in K \cup {None}
        BY <1>1, <1>2, <1>4 DEF Follows
      <4> QED BY <4>1, <4>2
    <3>2. CASE \E r \in T : nx[r] = s
      <4>1. nx[s] \in T \cup {None}
        BY <3>1, <3>2, <1>4
      <4>2. Follows(nx, T \cup {s})
        BY <4>1, <3>1, <1>4 DEF Follows
      <4>3. K \subseteq T \cup {s}
        BY <4>2, <1>1, <1>2, FromWithin
      <4> QED BY <4>3
    <3>3. CASE ~\E r \in T : nx[r] = s
      <4>1. Follows(nx, T)
        BY <3>1, <3>3, <1>4 DEF Follows
      <4>2. K \subseteq T
        BY <4>1, <1>1, FromWithin
      <4> QED BY <4>2
    <3> QED BY <3>2, <3>3
  <2>4. ASSUME NEW r \in K PROVE From(ny, ny[r]) \subseteq From(nx, nx[r])
    <3>1. nx[r] \in K \cup {None} /\ r \in Storage
      BY <1>1 DEF Follows
    <3> DEFINE S == From(nx, nx[r])
    <3>2. S \in SUBSET Storage /\ Follows(nx, S) /\ nx[r] \in S \cup {None}
      BY <3>1, <1>1, FromFacts
    <3>3. S \subseteq K
      <4>1. CASE nx[r] = None
        BY <4>1, FromFacts
      <4>2. CASE nx[r] \in K
        BY <4>2, FromSub
      <4> QED BY <3>1, <4>1, <4>2
    <3>4. Follows(ny, S)
      <4> SUFFICES ASSUME NEW q \in S PROVE ny[q] \in S \cup {None}
        BY DEF Follows
      <4>1. nx[q] \in S \cup {None} /\ q \in K
        BY <3>2, <3>3 DEF Follows
      <4>2. nx[q] = s => nx[s] \in S \cup {None}
        BY <4>1, <3>2, <1>2 DEF Follows
      <4> QED BY <4>1, <4>2, <1>4
    <3>5. ny[r] \in S \cup {None}
      <4>1. nx[r] = s => nx[s] \in S \cup {None}
        BY <3>2, <1>2 DEF Follows
      <4> QED BY <4>1, <3>2, <1>4
    <3> QED BY <3>2, <3>4, <3>5, FromWithin
  <2> QED BY <2>2, <2>3, <2>4
<1> QED BY <1>3, <1>4

-----------------------------------------------------------------------------
(* What a step leaves alone.                                               *)

\* At most one thread is inside open(), close() or a collection.
LEMMA OneSerial ==
  ASSUME ControlInv, NEW t \in Thread, NEW u \in Thread,
         th[t].op \in Serial, th[t].pc # "global",
         th[u].op \in Serial, th[u].pc # "global"
  PROVE  t = u
BY DEF ControlInv, SerialInv

\* The points and operations behind the names of the image invariant.
LEMMA Kinds ==
  ASSUME TypeOK, PointInv, NEW t \in Thread
  PROVE  /\ Moves(t) => th[t].op \in Serial /\ th[t].pc # "global" /\ th[t].want \in Storage
         /\ Marks(t) => Moves(t)
         /\ Adjusts(t) => Moves(t)
         /\ th[t].pc = "roots" => Moves(t)
         /\ Makes(t) \/ Deletes(t) => th[t].op \notin Serial /\ th[t].want \in Storage
         /\ Makes(t) \/ Deletes(t) => th[t].cell \in {0} \cup Cell
<1>1. th[t].pc # "idle" => /\ th[t].op \in Operations /\ th[t].want \in Storage
                           /\ th[t].pc \in Points(th[t].op, th[t].gc)
                           /\ th[t].gc => th[t].op = "open"
  BY Inside
<1>2. th[t].pc = "idle" => th[t].op = "none" /\ ~th[t].gc
  <2>1. CASE th[t] = Idle
    BY <2>1 DEF Idle
  <2>2. CASE th[t] # Idle
    BY <2>2 DEF PointInv, Points, Operations, Serial, Marking, Building
  <2> QED BY <2>1, <2>2
<1>3. th[t].cell \in {0} \cup Cell
  BY DEF TypeOK, Activity
<1>4. Moves(t) => th[t].op \in Serial /\ th[t].pc # "global" /\ th[t].want \in Storage
  BY <1>1, <1>2 DEF Moves, Serial, Marking, Building
<1>5. Marks(t) => Moves(t)
  BY <1>1 DEF Moves, Marks, Collects, Marking, Building
<1>6. Adjusts(t) => Moves(t)
  BY DEF Moves, Adjusts, Marking
<1>7. th[t].pc = "roots" => Moves(t)
  BY AtPoint DEF Moves
<1>8. Makes(t) \/ Deletes(t) => th[t].op \notin Serial /\ th[t].want \in Storage
  BY <1>1, <1>2 DEF Makes, Deletes, Serial
<1> QED BY <1>3, <1>4, <1>5, <1>6, <1>7, <1>8

\* The chain and who is linking or unlinking stay as they are.
LEMMA ChainFrame ==
  ASSUME ChainInv, NEW t \in Thread, Others(t),
         chain' = chain, next' = next, mapped' = mapped,
         th'[t].op = "open" => (th'[t].want \in Linked <=> th'[t].pc = "unlock"),
         th'[t].pc \notin {"publish", "unmap"},
         th[t].op = "open" \/ th[t].pc = "unmap" =>
           \/ th[t].want \in Linked
           \/ th'[t].op = "open" /\ th'[t].want = th[t].want
  PROVE  ChainInv'
<1>1. Linked' = Linked
  BY DEF Linked
<1>2. (\A s \in Linked : s \notin From(next, next[s]))'
  BY <1>1 DEF ChainInv
<1>3. (\A s \in mapped : \/ s \in Linked
                         \/ \E u \in Thread : /\ th[u].want = s
                                              /\ th[u].op = "open" \/ th[u].pc = "unmap")'
  BY <1>1 DEF ChainInv, Others
<1>4. ASSUME NEW u \in Thread
      PROVE  (/\ th[u].op = "open" /\ th[u].pc # "unlock" => th[u].want \notin Linked
              /\ th[u].op = "open" /\ th[u].pc = "unlock" => th[u].want \in Linked
              /\ th[u].pc = "publish" => next[th[u].want] = chain
              /\ th[u].pc = "unmap" => th[u].want \notin Linked)'
  <2>1. CASE u = t
    BY <2>1, <1>1
  <2>2. CASE u # t
    BY <2>2, <1>1 DEF ChainInv, Others
  <2> QED BY <2>1, <2>2
<1> QED BY <1>1, <1>2, <1>3, <1>4 DEF ChainInv

\* The mappings stay as they are.
LEMMA AddressFrame ==
  ASSUME TypeOK, AddressInv, hdr' = hdr, mapped' = mapped,
         \A s \in Storage : img'[s].base = img[s].base
  PROVE  AddressInv'
BY DEF TypeOK, AddressInv

\* Nobody starts or goes on with a search, and no close() starts.
LEMMA SearchFrame ==
  ASSUME SearchInv, NEW t \in Thread, Others(t), chain' = chain, next' = next,
         th'[t].pc # "find", KeepsOp(t) \/ th'[t].op # "close"
  PROVE  SearchInv'
<1> SUFFICES ASSUME NEW u \in Thread, Searching(u)'
             PROVE  (/\ th[u].cur \in Linked /\ th[u].want \in From(next, th[u].cur)
                     /\ Apart => \A v \in Thread :
                          Closing(v) => ~Passed(th[v].want, th[u].want))'
  BY DEF SearchInv
<1>1. th'[u] = th[u] /\ Searching(u)
  BY DEF Searching, Others
<1>2. \A v \in Thread : Closing(v)' => Closing(v) /\ th'[v].want = th[v].want
  BY DEF Closing, Others, KeepsOp
<1> QED BY <1>1, <1>2 DEF SearchInv, Linked, Passed

\* A storage is in the chain until its close() has taken it out.
LEMMA ClosesLinked ==
  ASSUME ControlInv, ChainInv, NEW t \in Thread, th[t].op = "close",
         th[t].pc \in {"global", "lock", "unlink"}
  PROVE  th[t].want \in Linked
<1>1. AloneInv /\ MappedInv /\ th[t] # Idle /\ th[t].want # None
  BY Inside, StoragesAssumption DEF ControlInv, Idle
<1>2. th[t].want \in mapped
  BY <1>1 DEF MappedInv
<1>3. \A u \in Thread \ {t} : th[u].want # th[t].want
  BY <1>1 DEF AloneInv, Serial
<1> QED BY <1>2, <1>3 DEF ChainInv

\* gc_stack stays as it is.
LEMMA StackFrame ==
  ASSUME StackInv, NEW t \in Thread, Others(t), gc_stack' = gc_stack,
         Marks(t) => Marks(t)' \/ gc_stack = None,
         Apart => (~Collects(t)' /\ th'[t].pc \in {"load shift", "fields"} => th'[t].gs = None)
  PROVE  StackInv'
<1>1. ASSUME gc_stack' # None PROVE \E u \in Thread : Marks(u)'
  <2>1. PICK u \in Thread : Marks(u)
    BY <1>1 DEF StackInv, Marks
  <2>2. CASE u = t
    BY <1>1, <2>1, <2>2
  <2>3. CASE u # t
    BY <2>1, <2>3 DEF Marks, Collects, Others
  <2> QED BY <2>2, <2>3
<1>2. ASSUME Apart, NEW u \in Thread, ~Collects(u)', th'[u].pc \in {"load shift", "fields"}
      PROVE  th'[u].gs = None
  <2>1. CASE u = t
    BY <1>2, <2>1
  <2>2. CASE u # t
    BY <1>2, <2>2 DEF StackInv, Collects, Others
  <2> QED BY <2>1, <2>2
<1> QED BY <1>1, <1>2 DEF StackInv, Marks, Collects

\* base_address_shift stays as it is.
Shifts(t) == th[t].op = "open" /\ th[t].pc \in {"adjust", "roots"} \cup Marking
LEMMA ShiftFrame ==
  ASSUME ShiftInv, NEW t \in Thread, Others(t),
         base_address_shift' = base_address_shift,
         Shifts(t) => Shifts(t)' \/ base_address_shift = 0,
         th'[t].op = "open" /\ ~th'[t].gc =>
           /\ th'[t].pc \in {"adjust"} \cup Building => base_address_shift = th'[t].shift
           /\ th'[t].pc = "fields" => th'[t].sh = th'[t].shift,
         th'[t].op = "collect" => th'[t].shift = 0
  PROVE  ShiftInv'
<1>1. ASSUME base_address_shift' # 0 PROVE \E u \in Thread : Shifts(u)'
  <2>1. PICK u \in Thread : Shifts(u)
    BY <1>1 DEF ShiftInv, Shifts
  <2>2. CASE u = t
    BY <1>1, <2>1, <2>2
  <2>3. CASE u # t
    BY <2>1, <2>3 DEF Shifts, Others
  <2> QED BY <2>2, <2>3
<1>2. ASSUME NEW u \in Thread
      PROVE  /\ th'[u].op = "open" /\ ~th'[u].gc =>
                  /\ th'[u].pc \in {"adjust"} \cup Building =>
                       base_address_shift' = th'[u].shift
                  /\ th'[u].pc = "fields" => th'[u].sh = th'[u].shift
             /\ th'[u].op = "collect" => th'[u].shift = 0
  <2>1. CASE u = t
    BY <2>1
  <2>2. CASE u # t
    BY <2>2 DEF ShiftInv, Others
  <2> QED BY <2>1, <2>2
<1> QED BY <1>1, <1>2 DEF ShiftInv, Shifts

\* The parts of the image invariant that belong to one thread or storage
\* depend on that thread, on its storage and, in a collection, on its stack.
SameRest(s) ==
  /\ img'[s] = img[s]
  /\ \A u \in Thread : th'[u].want = s \/ th[u].want = s => th'[u] = th[u]

LEMMA RestSame ==
  ASSUME NEW s, SameRest(s), RestInv(s)
  PROVE  RestInv(s)' /\ \A c : Raw(s, c)' <=> Raw(s, c)
<1>1. ASSUME NEW c PROVE Raw(s, c)' <=> Raw(s, c)
  BY DEF Raw, SameRest
<1>2. (\A u \in Thread : th'[u].want = s => ~Moves(u)') =>
         (\A u \in Thread : th[u].want = s => ~Moves(u))
  BY DEF Moves, SameRest
<1>3. \A p, b : Good(s, p, b)' <=> Good(s, p, b)
  BY DEF Good, SameRest
<1> QED BY <1>1, <1>2, <1>3 DEF RestInv, SameRest

LEMMA ObjectSame ==
  ASSUME NEW t \in Thread, th'[t] = th[t], ObjectInv(t),
         Makes(t) \/ Deletes(t) => SameRest(th[t].want)
  PROVE  ObjectInv(t)'
<1> SUFFICES ASSUME Makes(t) \/ Deletes(t) PROVE ObjectInv(t)'
  BY DEF ObjectInv, Makes, Deletes
<1>1. ASSUME NEW s, NEW c, SameRest(s) PROVE Raw(s, c)' <=> Raw(s, c)
  BY <1>1 DEF Raw, SameRest
<1>2. Unreferred(th[t].want, th[t].cell) => Unreferred(th[t].want, th[t].cell)'
  BY <1>1 DEF Unreferred, SameRest
<1> QED BY <1>2 DEF ObjectInv, Makes, Deletes, SameRest

LEMMA MovingSame ==
  ASSUME NEW t \in Thread, th'[t] = th[t], img'[th[t].want] = img[th[t].want],
         AdjustInv(t), RootsInv(t)
  PROVE  AdjustInv(t)' /\ RootsInv(t)'
<1>1. \A p, b : Good(th[t].want, p, b)' <=> Good(th[t].want, p, b)
  BY DEF Good
<1>2. OldBase(t)' = OldBase(t) /\ Left(t)' = Left(t) /\ (Adjusts(t)' <=> Adjusts(t))
  BY DEF OldBase, Left, Adjusts
<1>3. AdjustInv(t)'
  BY <1>1, <1>2 DEF AdjustInv
<1>4. RootsInv(t)'
  BY <1>1, <1>2 DEF RootsInv
<1> QED BY <1>3, <1>4

LEMMA MarkSame ==
  ASSUME NEW t \in Thread, th'[t] = th[t], img'[th[t].want] = img[th[t].want],
         stack'[t] = stack[t], gc_stack' = gc_stack,
         PositionInv(t), StackedInv(t), MarkInv(t)
  PROVE  PositionInv(t)' /\ StackedInv(t)' /\ MarkInv(t)'
<1>1. \A p, b : Good(th[t].want, p, b)' <=> Good(th[t].want, p, b)
  BY DEF Good
<1>2. \A p : Followed(t, p)' <=> Followed(t, p)
  BY DEF Followed
<1>3. OldBase(t)' = OldBase(t) /\ (Marks(t)' <=> Marks(t)) /\ Height(t)' = Height(t)
      /\ CellField(t)' = CellField(t)
  BY DEF OldBase, Marks, Height, Collects, CellField
<1>4. \A f : (OnStack(t, f)' <=> OnStack(t, f)) /\ (Pending(t, f)' <=> Pending(t, f))
  BY <1>3 DEF OnStack, Pending
<1>5. PositionInv(t)'
  BY <1>3 DEF PositionInv
<1>6. StackedInv(t)'
  BY <1>3, <1>4 DEF StackedInv
<1>7. MarkInv(t)'
  BY <1>1, <1>2, <1>3, <1>4 DEF MarkInv
<1> QED BY <1>5, <1>6, <1>7

\* A step of open(), close() or a collection concerns its own storage.
LEMMA SerialImage ==
  ASSUME ControlInv, ControlInv', ImageInv, NEW t \in Thread, NEW s \in Storage,
         th[t].op \in Serial, th[t].want = s, Others(t), KeepsOp(t),
         \A r \in Storage : r # s => img'[r] = img[r],
         th[t].pc # "global" \/ (gc_stack' = gc_stack /\ stack' = stack),
         RestInv(s)', AdjustInv(t)', RootsInv(t)',
         PositionInv(t)', StackedInv(t)', MarkInv(t)'
  PROVE  ImageInv'
<1>1. /\ TypeOK /\ PointInv /\ SerialInv /\ AloneInv
  BY DEF ControlInv
<1>2. th[t].want \in Storage /\ th[t].want # None
  <2>1. th[t] # Idle
    BY DEF Idle, Serial
  <2> QED BY <1>1, <2>1, StoragesAssumption DEF PointInv
<1>3. \A u \in Thread \ {t} : th[u].want # th[t].want \/ th[u].op \notin Serial
  BY <1>1, <1>2 DEF AloneInv
<1>4. \A u \in Thread \ {t} : th[u].want # th[t].want
  BY <1>1, <1>2 DEF AloneInv
<1>5. \A r \in Storage : r # s => SameRest(r)
  BY DEF SameRest, Others, KeepsOp
<1>6. ASSUME NEW r \in Storage PROVE RestInv(r)'
  <2>1. CASE r = s
    BY <2>1
  <2>2. CASE r # s
    BY <2>2, <1>5, RestSame DEF ImageInv
  <2> QED BY <2>1, <2>2
<1>7. th'[t].op \in Serial
  BY DEF KeepsOp
<1>8. OwnCellInv'
  <2>1. ~Makes(t)' /\ ~Deletes(t)'
    BY <1>7 DEF Makes, Deletes, Serial
  <2>2. OwnCellInv
    BY DEF ImageInv
  <2> QED BY <2>1, <2>2 DEF OwnCellInv, Makes, Deletes, Others
<1>9. ASSUME NEW u \in Thread
      PROVE  ObjectInv(u)' /\ AdjustInv(u)' /\ PositionInv(u)' /\ RootsInv(u)'
             /\ StackedInv(u)' /\ MarkInv(u)'
  <2>1. CASE u = t
    <3>1. ~Makes(t)' /\ ~Deletes(t)'
      BY <1>7 DEF Makes, Deletes, Serial
    <3> QED BY <2>1, <3>1 DEF ObjectInv
  <2>2. CASE u # t
    <3>1. th'[u] = th[u] /\ th[u].want # th[t].want
      BY <2>2, <1>4 DEF Others
    <3>2. /\ ObjectInv(u) /\ AdjustInv(u) /\ PositionInv(u) /\ RootsInv(u)
          /\ StackedInv(u) /\ MarkInv(u)
      BY DEF ImageInv
    <3>3. ObjectInv(u)'
      BY <3>1, <3>2, <1>1, <1>5, Kinds, ObjectSame
    <3>4. th[u].want \in Storage => img'[th[u].want] = img[th[u].want]
      BY <3>1
    <3>5. AdjustInv(u)' /\ RootsInv(u)'
      <4>1. CASE Moves(u)
        BY <4>1, <3>1, <3>2, <3>4, <1>1, Kinds, MovingSame
      <4>2. CASE ~Moves(u)
        <5>1. ~Adjusts(u) /\ th[u].pc # "roots"
          BY <4>2, <1>1, Kinds
        <5> QED BY <5>1, <3>1 DEF AdjustInv, RootsInv, Adjusts
      <4> QED BY <4>1, <4>2
    <3>6. PositionInv(u)' /\ StackedInv(u)' /\ MarkInv(u)'
      <4>1. CASE Marks(u)
        <5>1. th[u].op \in Serial /\ th[u].pc # "global" /\ th[u].want \in Storage
          BY <4>1, <1>1, Kinds
        <5>2. gc_stack' = gc_stack /\ stack' = stack
          BY <5>1, <2>2, OneSerial
        <5> QED BY <5>1, <5>2, <3>1, <3>2, <3>4, MarkSame
      <4>2. CASE ~Marks(u)
        BY <4>2, <3>1 DEF PositionInv, StackedInv, MarkInv, Marks, Collects
      <4> QED BY <4>1, <4>2
    <3> QED BY <3>3, <3>5, <3>6
  <2> QED BY <2>1, <2>2
<1> QED BY <1>6, <1>8, <1>9 DEF ImageInv

\* A step of operator new or delete concerns its own storage.
LEMMA ObjectImage ==
  ASSUME ControlInv, ControlInv', ImageInv, NEW t \in Thread, NEW s \in Storage,
         \A u \in Thread : th[u].want = s => th[u].op \notin Serial,
         Others(t), th[t] = Idle \/ th[t].want = s,
         th'[t] = Idle \/ (th'[t].want = s /\ th'[t].op \notin Serial),
         \A r \in Storage : r # s => img'[r] = img[r],
         gc_stack' = gc_stack, stack' = stack,
         RestInv(s)', OwnCellInv',
         \A u \in Thread : th'[u].want = s => ObjectInv(u)'
  PROVE  ImageInv'
<1>1. TypeOK /\ PointInv /\ TypeOK' /\ PointInv'
  BY DEF ControlInv
<1>2. \A r \in Storage : r # s => SameRest(r)
  BY StoragesAssumption DEF SameRest, Others, Idle
<1>3. ASSUME NEW r \in Storage PROVE RestInv(r)'
  <2>1. CASE r = s
    BY <2>1
  <2>2. CASE r # s
    BY <2>2, <1>2, RestSame DEF ImageInv
  <2> QED BY <2>1, <2>2
<1>4. ASSUME NEW u \in Thread
      PROVE  ObjectInv(u)' /\ AdjustInv(u)' /\ PositionInv(u)' /\ RootsInv(u)'
             /\ StackedInv(u)' /\ MarkInv(u)'
  <2>1. CASE u = t
    <3>1. th'[t].op \notin {"open", "collect"} /\ ~th'[t].gc
      <4>1. th'[t] = Idle => th'[t].op = "none" /\ ~th'[t].gc
        BY DEF Idle
      <4>2. th'[t] # Idle => (th'[t].gc => th'[t].op = "open")
        BY <1>1 DEF PointInv
      <4> QED BY <4>1, <4>2 DEF Serial
    <3>2. th'[t].pc # "roots"
      <4>1. th'[t] = Idle => th'[t].pc = "idle"
        BY DEF Idle
      <4>2. th'[t] # Idle => th'[t].op \in Operations /\ th'[t].pc \in Points(th'[t].op, th'[t].gc)
        BY <1>1 DEF PointInv
      <4> QED BY <4>1, <4>2, <3>1 DEF Points, Operations, Serial, Building
    <3>3. ~Adjusts(t)' /\ ~Marks(t)'
      BY <3>1 DEF Adjusts, Marks, Collects
    <3>4. ObjectInv(t)'
      <4>1. CASE th'[t] = Idle
        BY <4>1 DEF ObjectInv, Makes, Deletes, Idle
      <4> QED BY <4>1
    <3> QED BY <2>1, <3>2, <3>3, <3>4
            DEF AdjustInv, PositionInv, RootsInv, StackedInv, MarkInv
  <2>2. CASE u # t
    <3>1. th'[u] = th[u]
      BY <2>2 DEF Others
    <3>2. /\ ObjectInv(u) /\ AdjustInv(u) /\ PositionInv(u) /\ RootsInv(u)
          /\ StackedInv(u) /\ MarkInv(u)
      BY DEF ImageInv
    <3>3. ObjectInv(u)'
      <4>1. CASE th[u].want = s
        BY <4>1, <3>1
      <4>2. CASE th[u].want # s
        BY <4>2, <3>1, <3>2, <1>1, <1>2, Kinds, ObjectSame
      <4> QED BY <4>1, <4>2
    <3>4. CASE Moves(u)
      <4>1. th[u].want \in Storage /\ th[u].want # s
        BY <3>4, <1>1, Kinds
      <4> QED BY <4>1, <3>1, <3>2, <3>3, MovingSame, MarkSame
    <3>5. CASE ~Moves(u)
      <4>1. ~Adjusts(u) /\ ~Marks(u) /\ th[u].pc # "roots"
        BY <3>5, <1>1, Kinds
      <4> QED BY <4>1, <3>1, <3>3
              DEF AdjustInv, RootsInv, Adjusts, PositionInv, StackedInv, MarkInv, Marks, Collects
    <3> QED BY <3>4, <3>5
  <2> QED BY <2>1, <2>2
<1> QED BY <1>3, <1>4 DEF ImageInv

\* A step that touches neither images nor stacks, of a thread that neither
\* moves references nor clears an object.
LEMMA QuietImage ==
  ASSUME ControlInv, ControlInv', ImageInv, NEW t \in Thread, Others(t),
         img' = img, gc_stack' = gc_stack, stack' = stack,
         ~Moves(t), ~Moves(t)', th[t].pc # "memset", th'[t].pc # "memset",
         ObjectInv(t)', OwnCellInv'
  PROVE  ImageInv'
<1>1. TypeOK /\ PointInv /\ TypeOK' /\ PointInv'
  BY DEF ControlInv
<1>2. \A s, c : Raw(s, c)' <=> Raw(s, c)
  BY DEF Raw, Others
<1>3. \A s, p, b : Good(s, p, b)' <=> Good(s, p, b)
  BY DEF Good
<1>4. ASSUME NEW s \in Storage PROVE RestInv(s)'
  <2>1. (\A u \in Thread : th'[u].want = s => ~Moves(u)') =>
          (\A u \in Thread : th[u].want = s => ~Moves(u))
    <3> SUFFICES ASSUME NEW u \in Thread, th'[u].want = s => ~Moves(u)', th[u].want = s
                 PROVE  ~Moves(u)
      OBVIOUS
    <3>1. CASE u = t
      BY <3>1
    <3>2. CASE u # t
      BY <3>2 DEF Moves, Others
    <3> QED BY <3>1, <3>2
  <2>2. RestInv(s)
    BY DEF ImageInv
  <2> QED BY <2>1, <2>2, <1>2, <1>3 DEF RestInv
<1>5. ASSUME NEW u \in Thread
      PROVE  ObjectInv(u)' /\ AdjustInv(u)' /\ PositionInv(u)' /\ RootsInv(u)'
             /\ StackedInv(u)' /\ MarkInv(u)'
  <2>1. CASE u = t
    <3>1. ~Adjusts(t)' /\ ~Marks(t)' /\ th'[t].pc # "roots"
      <4>1. Adjusts(t)' => Moves(t)'
        BY DEF Adjusts, Moves, Marking
      <4>2. CASE th'[t] = Idle
        BY <4>1, <4>2 DEF Marks, Collects, Marking, Building, Idle
      <4>3. CASE th'[t] # Idle
        <5>1. /\ th'[t].op \in Operations /\ th'[t].pc \in Points(th'[t].op, th'[t].gc)
              /\ th'[t].gc => th'[t].op = "open"
          BY <4>3, <1>1 DEF PointInv
        <5>2. Marks(t)' => Moves(t)'
          BY <5>1 DEF Marks, Collects, Moves
        <5>3. th'[t].pc = "roots" => Moves(t)'
          BY <5>1 DEF Moves, Points, Operations, Serial, Building
        <5> QED BY <4>1, <5>2, <5>3
      <4> QED BY <4>2, <4>3
    <3> QED BY <2>1, <3>1 DEF AdjustInv, PositionInv, RootsInv, StackedInv, MarkInv
  <2>2. CASE u # t
    <3>1. th'[u] = th[u]
      BY <2>2 DEF Others
    <3>2. /\ ObjectInv(u) /\ AdjustInv(u) /\ PositionInv(u) /\ RootsInv(u)
          /\ StackedInv(u) /\ MarkInv(u)
      BY DEF ImageInv
    <3>3. ObjectInv(u)'
      BY <3>1, <3>2, <1>2 DEF ObjectInv, Makes, Deletes, Unreferred
    <3> QED BY <3>1, <3>2, <3>3, MovingSame, MarkSame
  <2> QED BY <2>1, <2>2
<1> QED BY <1>4, <1>5 DEF ImageInv

-----------------------------------------------------------------------------
(* Operations start and end, mutexes are taken.                            *)

\* Collections, open(), close() and operator new begin.
LEMMA StartWhole ==
  ASSUME WholeInv, NEW t \in Thread, NEW s \in Storage, NEW gc \in BOOLEAN,
         NEW op \in Serial \cup {"new"}, NEW pc,
         pc = IF op = "new" THEN "lock" ELSE "global", gc => op = "open",
         Start(t, op, s, gc, pc),
         op \in Serial => ~Busy(s),
         op = "new" => \A u \in Thread : th[u].want = s => th[u].op \notin Serial,
         op = "open" <=> s \notin mapped,
         Apart => /\ op = "new" => ~Collecting
                  /\ op = "collect" \/ gc => ~Making
                  /\ op = "close" => \A u \in Thread :
                                       Searching(u) => ~Passed(s, th[u].want)
  PROVE  WholeInv'
<1>1. /\ ControlInv /\ ChainInv /\ AddressInv /\ SearchInv /\ StackInv /\ ShiftInv
      /\ ImageInv /\ TypeOK
  BY DEF WholeInv, ControlInv
<1> DEFINE a == [Idle EXCEPT !.pc = pc, !.op = op, !.s = s, !.gc = gc, !.want = s]
<1>2. /\ a.pc = pc /\ a.op = op /\ a.s = s /\ a.gc = gc /\ a.want = s /\ a.shift = 0
      /\ a.cell = 0
  BY DEF Idle
<1>3. pc \in Point /\ op \in Operations \cup {"none"}
  BY DEF Point, Operations
<1>4. a \in Activity
  <2>1. s \in Storage \cup {None}
    OBVIOUS
  <2> QED BY <1>3, <2>1, IdleType DEF Activity
<1>5. /\ th[t] = Idle /\ th' = [th EXCEPT ![t] = a]
      /\ chain' = chain /\ next' = next /\ hdr' = hdr /\ mapped' = mapped /\ img' = img
      /\ global_mutex' = global_mutex /\ gc_stack' = gc_stack
      /\ base_address_shift' = base_address_shift /\ stack' = stack
  BY DEF Start, list, map, locks, globals
<1> HIDE DEF a
<1>6. th' \in [Thread -> Activity] /\ Others(t) /\ th'[t] = a
  BY <1>1, <1>4, <1>5, Becomes
<1>7. TypeOK'
  BY <1>1, <1>5, <1>6 DEF TypeOK
<1>8. ControlInv'
  <2>1. pc \in Points(op, gc) /\ op \in Operations /\ pc # "find"
    BY DEF Points, Operations, Serial
  <2>2. op \in Serial => pc = "global" /\ ~Busy(s)
    BY DEF Serial
  <2> QED BY <1>1, <1>2, <1>5, <1>6, <1>7, <2>1, <2>2, StartControl
<1>9. th[t].op = "none" /\ th[t].pc = "idle"
  BY <1>5 DEF Idle
<1>10. ChainInv'
  BY <1>1, <1>2, <1>5, <1>6, <1>9, ChainFrame DEF ChainInv
<1>11. AddressInv'
  BY <1>1, <1>5, AddressFrame
<1>12. SearchInv'
  <2> SUFFICES ASSUME NEW u \in Thread, Searching(u)'
               PROVE  (/\ th[u].cur \in Linked /\ th[u].want \in From(next, th[u].cur)
                       /\ Apart => \A v \in Thread :
                            Closing(v) => ~Passed(th[v].want, th[u].want))'
    BY DEF SearchInv
  <2>1. th'[u] = th[u] /\ Searching(u)
    BY <1>2, <1>6 DEF Searching, Others
  <2>2. Apart => \A v \in Thread : Closing(v)' => ~Passed(th'[v].want, th[u].want)
    BY <1>1, <1>2, <1>6, <2>1 DEF SearchInv, Closing, Others
  <2> QED BY <1>1, <1>5, <2>1, <2>2 DEF SearchInv, Linked, Passed
<1>13. StackInv'
  BY <1>1, <1>2, <1>5, <1>6, <1>9, StackFrame DEF Marks, Marking, Building
<1>14. ShiftInv'
  BY <1>1, <1>2, <1>5, <1>6, <1>9, ShiftFrame DEF Shifts, Building
<1>15. ImageInv'
  <2>1. ~Moves(t) /\ ~Moves(t)'
    BY <1>2, <1>6, <1>9 DEF Moves, Marking, Building
  <2>2. ~Makes(t)' /\ ~Deletes(t)'
    BY <1>2, <1>6 DEF Makes, Deletes, Serial
  <2>3. ObjectInv(t)'
    BY <2>2 DEF ObjectInv
  <2>4. OwnCellInv'
    BY <2>2, <1>1, <1>6 DEF ImageInv, OwnCellInv, Others, Makes, Deletes
  <2> QED BY <1>1, <1>2, <1>5, <1>6, <1>8, <1>9, <2>1, <2>3, <2>4, QuietImage
<1> QED BY <1>8, <1>10, <1>11, <1>12, <1>13, <1>14, <1>15 DEF WholeInv

\* operator delete begins its search at the head of the chain.
LEMMA DeleteWhole ==
  ASSUME WholeInv, NEW t \in Thread, NEW s \in Storage, NEW c \in Cell, delete(t, s, c)
  PROVE  WholeInv'
<1>1. /\ ControlInv /\ ChainInv /\ AddressInv /\ SearchInv /\ StackInv /\ ShiftInv
      /\ ImageInv /\ TypeOK
  BY DEF WholeInv, ControlInv
<1> DEFINE a == [Idle EXCEPT !.pc = "find", !.op = "delete", !.cell = c,
                             !.cur = chain, !.want = s]
<1>2. /\ a.pc = "find" /\ a.op = "delete" /\ a.s = None /\ a.gc = FALSE /\ a.want = s
      /\ a.cell = c /\ a.cur = chain
  BY DEF Idle
<1>3. "find" \in Point /\ "delete" \in Operations /\ chain \in Storage \cup {None}
  BY <1>1 DEF Point, Operations, TypeOK
<1>4. a \in Activity
  BY <1>3, IdleType DEF Activity, Idle
<1>5. /\ th[t] = Idle /\ th' = [th EXCEPT ![t] = a]
      /\ chain' = chain /\ next' = next /\ hdr' = hdr /\ mapped' = mapped /\ img' = img
      /\ global_mutex' = global_mutex /\ gc_stack' = gc_stack
      /\ base_address_shift' = base_address_shift /\ stack' = stack
      /\ Ready(s) /\ ~Changing(s)
  BY DEF delete, list, map, locks, globals
<1> HIDE DEF a
<1>6. th' \in [Thread -> Activity] /\ Others(t) /\ th'[t] = a
  BY <1>1, <1>4, <1>5, Becomes
<1>7. TypeOK'
  BY <1>1, <1>5, <1>6 DEF TypeOK
<1>8. \A u \in Thread : th[u].want = s => th[u].op \notin Serial
  BY <1>5 DEF Ready, Changing, Serial
<1>9. ControlInv'
  <2>1. "find" \in Points("delete", FALSE) /\ "delete" \notin Serial
    BY DEF Points, Serial
  <2>2. s \in mapped
    BY <1>5 DEF Ready
  <2> QED BY <1>1, <1>2, <1>3, <1>5, <1>6, <1>7, <1>8, <2>1, <2>2, StartControl
<1>10. th[t].op = "none" /\ th[t].pc = "idle"
  BY <1>5 DEF Idle
<1>11. ChainInv'
  BY <1>1, <1>2, <1>5, <1>6, <1>10, ChainFrame
<1>12. AddressInv'
  BY <1>1, <1>5, AddressFrame
<1>13. SearchInv'
  <2>1. s \in Linked
    <3>1. s \in mapped /\ ~\E u \in Thread : th[u].want = s /\ th[u].op = "open"
      BY <1>5 DEF Ready
    <3>2. ~\E u \in Thread : th[u].want = s /\ th[u].pc = "unmap"
      BY <1>1, <1>8, AtPoint DEF ControlInv, Serial
    <3> QED BY <1>1, <3>1, <3>2 DEF ChainInv
  <2>2. next \in Links
    BY <1>1 DEF TypeOK, Links
  <2>3. chain \in Linked
    BY <1>3, <2>1, <2>2, FromFacts DEF Linked
  <2>4. \A v \in Thread : Closing(v)' => Closing(v) /\ th'[v].want = th[v].want
    BY <1>2, <1>6 DEF Closing, Others
  <2>5. Linked' = Linked
    BY <1>5 DEF Linked
  <2>6. s \in From(next, chain)
    BY <2>1 DEF Linked
  <2>7. \A r, w : Passed(r, w)' <=> Passed(r, w)
    BY <1>5 DEF Passed
  <2> SUFFICES ASSUME NEW u \in Thread, Searching(u)'
               PROVE  (/\ th[u].cur \in Linked /\ th[u].want \in From(next, th[u].cur)
                       /\ Apart => \A v \in Thread :
                            Closing(v) => ~Passed(th[v].want, th[u].want))'
    BY DEF SearchInv
  <2>8. CASE u = t
    <3>1. Apart => \A v \in Thread : Closing(v) => ~Passed(th[v].want, s)
      BY DEF delete
    <3> QED BY <1>2, <1>5, <1>6, <2>3, <2>4, <2>5, <2>6, <2>7, <2>8, <3>1
  <2>9. CASE u # t
    <3>1. th'[u] = th[u] /\ Searching(u)
      BY <1>6, <2>9 DEF Searching, Others
    <3> QED BY <1>1, <1>5, <2>4, <2>5, <2>7, <3>1 DEF SearchInv
  <2> QED BY <2>8, <2>9
<1>14. StackInv'
  BY <1>1, <1>2, <1>5, <1>6, <1>10, StackFrame DEF Marks, Marking, Building
<1>15. ShiftInv'
  BY <1>1, <1>2, <1>5, <1>6, <1>10, ShiftFrame DEF Shifts, Marking, Building
<1>16. ImageInv'
  <2>1. ~Moves(t) /\ ~Moves(t)'
    BY <1>2, <1>6, <1>10 DEF Moves
  <2>2. ~Makes(t)' /\ ~Makes(t) /\ ~Deletes(t)
    BY <1>2, <1>6, <1>10 DEF Makes, Deletes
  <2>3. \A r, d : Raw(r, d)' <=> Raw(r, d)
    BY <1>2, <1>6, <1>10 DEF Raw, Others
  <2>4. ObjectInv(t)'
    <3>1. c \in img[s].live /\ ~Refers(s, c)
      BY DEF delete
    <3>2. Unreferred(s, c)
      BY <3>1 DEF Refers, Unreferred
    <3>3. Unreferred(th[t].want, th[t].cell)'
      BY <3>2, <2>3, <1>2, <1>5, <1>6 DEF Unreferred
    <3> QED BY <3>1, <3>3, <2>2, <1>2, <1>5, <1>6 DEF ObjectInv
  <2>5. OwnCellInv'
    <3>1. \A u \in Thread : th[u].want = s => th[u].cell # c
      BY DEF delete
    <3>2. OwnCellInv
      BY <1>1 DEF ImageInv
    <3> QED BY <3>1, <3>2, <1>2, <1>6 DEF OwnCellInv, Others, Makes, Deletes
  <2> QED BY <1>1, <1>2, <1>5, <1>6, <1>9, <1>10, <2>1, <2>4, <2>5, QuietImage
<1> QED BY <1>9, <1>11, <1>12, <1>13, <1>14, <1>15, <1>16 DEF WholeInv

\* Every operation that begins keeps the invariant.
LEMMA BeginWhole ==
  ASSUME WholeInv, NEW t \in Thread, NEW s \in Storage,
         \/ garbage_collection(t, s) \/ close(t, s) \/ new(t, s)
         \/ \E gc \in BOOLEAN : open(t, s, gc)
         \/ \E c \in Cell : delete(t, s, c)
  PROVE  WholeInv'
<1>1. CASE garbage_collection(t, s)
  <2>1. Ready(s) /\ ~Busy(s) /\ (Apart => ~Making) /\ Start(t, "collect", s, FALSE, "global")
    BY <1>1 DEF garbage_collection
  <2>2. s \in mapped /\ "collect" \in Serial \cup {"new"}
    BY <2>1 DEF Ready, Serial
  <2> QED BY <2>1, <2>2, StartWhole
<1>2. CASE close(t, s)
  <2>1. /\ Ready(s) /\ ~Busy(s) /\ Start(t, "close", s, FALSE, "global")
        /\ Apart => \A u \in Thread : Searching(u) => ~Passed(s, th[u].want)
    BY <1>2 DEF close
  <2>2. s \in mapped /\ "close" \in Serial \cup {"new"}
    BY <2>1 DEF Ready, Serial
  <2> QED BY <2>1, <2>2, StartWhole
<1>3. CASE new(t, s)
  <2>1. Ready(s) /\ ~Changing(s) /\ (Apart => ~Collecting) /\ Start(t, "new", s, FALSE, "lock")
    BY <1>3 DEF new
  <2>2. s \in mapped /\ "new" \in Serial \cup {"new"} /\ "new" \notin Serial
    BY <2>1 DEF Ready, Serial
  <2>3. \A u \in Thread : th[u].want = s => th[u].op \notin Serial
    BY <2>1 DEF Ready, Changing, Serial
  <2> QED BY <2>1, <2>2, <2>3, StartWhole
<1>4. ASSUME NEW gc \in BOOLEAN, open(t, s, gc) PROVE WholeInv'
  <2>1. s \notin mapped /\ ~Busy(s) /\ (Apart /\ gc => ~Making) /\ Start(t, "open", s, gc, "global")
    BY <1>4 DEF open
  <2>2. "open" \in Serial \cup {"new"}
    BY DEF Serial
  <2> QED BY <2>1, <2>2, StartWhole
<1> QED BY <1>1, <1>2, <1>3, <1>4, DeleteWhole

\* The application lets go of an object.
LEMMA ForgetWhole ==
  ASSUME WholeInv, NEW t \in Thread, NEW s \in Storage, NEW i \in Roots, Forget(t, s, i)
  PROVE  WholeInv'
<1>1. /\ ControlInv /\ ChainInv /\ AddressInv /\ SearchInv /\ StackInv /\ ShiftInv
      /\ ImageInv /\ TypeOK
  BY DEF WholeInv, ControlInv
<1>2. /\ th[t] = Idle /\ Ready(s) /\ ~Changing(s) /\ img' = Put(<<s, "root", i>>, NULL)
      /\ chain' = chain /\ next' = next /\ hdr' = hdr /\ mapped' = mapped /\ th' = th
      /\ global_mutex' = global_mutex /\ gc_stack' = gc_stack
      /\ base_address_shift' = base_address_shift /\ stack' = stack
  BY DEF Forget, list, map, locks, globals
<1>3. NULL \in Pointer
  BY DEF NULL, Pointer
<1>4. /\ img' \in [Storage -> Image]
      /\ \A r \in Storage : /\ r # s => img'[r] = img[r]
                           /\ img'[r].base = img[r].base
                           /\ img'[r].live = img[r].live
                           /\ img'[r].ref = img[r].ref
      /\ img'[s].root[i] = NULL
      /\ \A j \in Roots : j # i => img'[s].root[j] = img[s].root[j]
  BY <1>1, <1>2, <1>3, PutRoot
<1>5. TypeOK'
  BY <1>1, <1>2, <1>4 DEF TypeOK
<1>6. ControlInv'
  BY <1>1, <1>2, <1>5 DEF ControlInv, PointInv, SerialInv, AloneInv, MappedInv, ApartInv,
     Making, Collecting
<1>7. ChainInv' /\ SearchInv' /\ StackInv' /\ ShiftInv'
  <2>1. ChainInv' /\ StackInv' /\ ShiftInv'
    BY <1>1, <1>2 DEF ChainInv, StackInv, ShiftInv, Linked, Collects
  <2>2. SearchInv'
    BY <1>1, <1>2 DEF SearchInv, Searching, Closing, Passed, Linked
  <2> QED BY <2>1, <2>2
<1>8. AddressInv'
  BY <1>1, <1>2, <1>4, AddressFrame
<1>9. \A u \in Thread : th[u].want = s => th[u].op \notin Serial
  BY <1>2 DEF Ready, Changing, Serial
<1>10. \A r, d : Raw(r, d)' <=> Raw(r, d)
  BY <1>2 DEF Raw
<1>11. RestInv(s)'
  <2>1. (\A u \in Thread : th'[u].want = s => ~Moves(u)') =>
          (\A u \in Thread : th[u].want = s => ~Moves(u))
    BY <1>2 DEF Moves
  <2>2. \A p, b : Good(s, p, b)' <=> Good(s, p, b)
    BY <1>4 DEF Good
  <2>3. \A b : Good(s, NULL, b)
    BY DEF Good
  <2> QED BY <1>1, <1>4, <1>10, <2>1, <2>2, <2>3 DEF RestInv, ImageInv
<1>12. OwnCellInv'
  BY <1>1, <1>2 DEF ImageInv, OwnCellInv, Makes, Deletes
<1>13. ASSUME NEW u \in Thread, th[u].want = s PROVE ObjectInv(u)'
  <2>1. ObjectInv(u)
    BY <1>1 DEF ImageInv
  <2>2. Deletes(u) => Unreferred(s, th[u].cell)'
    <3>1. Deletes(u) => th[u].cell # 0
      <4>1. Deletes(u) => th[u].cell \in img[s].live
        BY <2>1, <1>13 DEF ObjectInv
      <4>2. img[s].live \subseteq Cell
        BY <1>1 DEF TypeOK, Image
      <4> QED BY <4>1, <4>2, StoragesAssumption
    <3>2. Deletes(u) => Unreferred(s, th[u].cell)
      BY <2>1, <1>13 DEF ObjectInv
    <3> QED BY <3>1, <3>2, <1>2, <1>4, <1>10 DEF Unreferred, NULL
  <2> QED BY <2>1, <2>2, <1>2, <1>4, <1>13 DEF ObjectInv, Makes, Deletes
<1>14. ImageInv'
  <2>1. th'[t] = Idle /\ Others(t)
    BY <1>2 DEF Others
  <2>2. \A u \in Thread : th'[u].want = s => ObjectInv(u)'
    BY <1>2, <1>13
  <2> QED BY <1>1, <1>2, <1>4, <1>6, <1>9, <1>11, <1>12, <2>1, <2>2, ObjectImage
<1> QED BY <1>6, <1>7, <1>8, <1>14 DEF WholeInv

\* The part of the invariant that a step inside an operation keeps when it
\* changes neither chain nor mappings nor the global mutex.
LEMMA InnerFrame ==
  ASSUME WholeInv, TypeOK', NEW t \in Thread,
         th[t].pc \notin {"idle", "global", "find", "unmap", "use"},
         Others(t), KeepsOp(t),
         th'[t].pc \in Points(th[t].op, th[t].gc) \ {"global", "find", "publish", "unmap"},
         th'[t].s = th[t].s,
         global_mutex' = global_mutex, chain' = chain, next' = next,
         hdr' = hdr, mapped' = mapped, \A r \in Storage : img'[r].base = img[r].base,
         th[t].op = "open" =>
           (th'[t].pc \in {"lock", "map"} <=> th[t].pc \in {"lock", "map"}),
         th[t].op \in {"open", "close"} => "unlock" \notin {th[t].pc, th'[t].pc}
  PROVE  ControlInv' /\ ChainInv' /\ AddressInv' /\ SearchInv'
<1>1. /\ ControlInv /\ ChainInv /\ AddressInv /\ SearchInv /\ TypeOK /\ PointInv
  BY DEF WholeInv, ControlInv
<1>2. th[t].s = th[t].want
  BY <1>1, Inside
<1>3. ControlInv'
  BY <1>1, <1>2, InnerControl
<1>4. ChainInv'
  <2>1. th[t].op = "open" => th[t].want \notin Linked
    BY <1>1 DEF ChainInv
  <2> QED BY <1>1, <2>1, ChainFrame DEF KeepsOp
<1>5. AddressInv'
  BY <1>1, AddressFrame
<1>6. SearchInv'
  BY <1>1, SearchFrame
<1> QED BY <1>3, <1>4, <1>5, <1>6

\* CS2 takes the global mutex.
LEMMA LockGlobalWhole ==
  ASSUME WholeInv, NEW t \in Thread, LockGlobal(t) PROVE WholeInv'
<1>1. /\ ControlInv /\ ChainInv /\ AddressInv /\ SearchInv /\ StackInv /\ ShiftInv
      /\ ImageInv /\ TypeOK /\ PointInv /\ SerialInv /\ MappedInv
  BY DEF WholeInv, ControlInv
<1>2. /\ th[t].pc = "global" /\ Step(t, "lock") /\ global_mutex = None /\ global_mutex' = t
      /\ chain' = chain /\ next' = next /\ hdr' = hdr /\ mapped' = mapped /\ img' = img
      /\ gc_stack' = gc_stack /\ base_address_shift' = base_address_shift /\ stack' = stack
  BY DEF LockGlobal, list, map, globals
<1>3. "lock" \in Point
  BY DEF Point
<1>4. /\ th' \in [Thread -> Activity] /\ Others(t) /\ KeepsOp(t) /\ KeepsWork(t)
      /\ th'[t].pc = "lock" /\ th'[t].s = th[t].s
  BY <1>1, <1>2, <1>3, StepMoves
<1>5. /\ th[t].op \in Serial /\ th[t].s = th[t].want
  BY <1>1, <1>2, AtPoint, Inside
<1>6. TypeOK'
  BY <1>1, <1>2, <1>4 DEF TypeOK
<1>7. ControlInv'
  <2>1. SerialInv'
    BY <1>1, <1>2, <1>4, <1>5, StoragesAssumption DEF SerialInv, Others, KeepsOp
  <2>2. MappedInv'
    <3> SUFFICES ASSUME NEW u \in Thread, th'[u] # Idle
                 PROVE  (th'[u].want \in mapped <=>
                           \/ th'[u].op = "open" /\ th'[u].pc \notin {"global", "lock", "map"}
                           \/ th'[u].op = "close" /\ th'[u].pc # "unlock"
                           \/ th'[u].op \notin {"open", "close"})
      BY <1>2 DEF MappedInv
    <3>1. CASE u = t
      BY <3>1, <1>1, <1>2, <1>4, Inside DEF KeepsOp, MappedInv
    <3>2. CASE u # t
      BY <3>2, <1>1, <1>4 DEF Others, MappedInv
    <3> QED BY <3>1, <3>2
  <2>3. "lock" \in Points(th[t].op, th[t].gc)
    BY <1>5 DEF Points, Serial
  <2> QED BY <1>1, <1>2, <1>4, <1>5, <1>6, <2>1, <2>2, <2>3, StepControl
<1>8. ChainInv'
  BY <1>1, <1>2, <1>4, ChainFrame DEF KeepsOp, ChainInv
<1>9. AddressInv'
  BY <1>1, <1>2, AddressFrame
<1>10. SearchInv'
  BY <1>1, <1>2, <1>4, SearchFrame
<1>11. StackInv'
  BY <1>1, <1>2, <1>4, StackFrame DEF Marks, Marking, Building
<1>12. ShiftInv'
  BY <1>1, <1>2, <1>4, ShiftFrame DEF Shifts, Marking, Building, KeepsOp, KeepsWork, ShiftInv
<1>13. ImageInv'
  <2>1. ~Moves(t) /\ ~Moves(t)' /\ ~Makes(t)' /\ ~Deletes(t)'
    BY <1>2, <1>4, <1>5 DEF Moves, Makes, Deletes, Marking, Building, KeepsOp, Serial
  <2>2. OwnCellInv'
    BY <1>1, <1>4, <2>1 DEF ImageInv, OwnCellInv, Makes, Deletes, Others
  <2>3. ObjectInv(t)'
    BY <2>1 DEF ObjectInv
  <2> QED BY <1>1, <1>2, <1>4, <1>7, <2>1, <2>2, <2>3, QuietImage
<1> QED BY <1>7, <1>8, <1>9, <1>10, <1>11, <1>12, <1>13 DEF WholeInv

\* Nobody else is at a storage that is opened, closed or collected; in
\* particular no object of it is being cleared.
LEMMA AloneAt ==
  ASSUME ControlInv, NEW t \in Thread, th[t].op \in Serial, NEW s, th[t].want = s
  PROVE  /\ s \in Storage /\ s # None
         /\ \A u \in Thread : th[u].want = s => u = t
         /\ \A c : ~Raw(s, c)
<1>1. TypeOK /\ PointInv /\ AloneInv
  BY DEF ControlInv
<1>2. th[t] # Idle
  BY DEF Idle, Serial
<1>3. s \in Storage /\ s # None
  BY <1>1, <1>2, StoragesAssumption DEF PointInv
<1>4. \A u \in Thread : th[u].want = s => u = t
  BY <1>1, <1>3 DEF AloneInv
<1>5. th[t].pc # "memset"
  BY <1>1, AtPoint DEF Serial
<1> QED BY <1>3, <1>4, <1>5 DEF Raw

\* CS and CS2 take the mutex of the storage.
LEMMA LockWhole ==
  ASSUME WholeInv, NEW t \in Thread, Lock(t) PROVE WholeInv'
<1>1. /\ ControlInv /\ ChainInv /\ AddressInv /\ SearchInv /\ StackInv /\ ShiftInv
      /\ ImageInv /\ TypeOK /\ PointInv
  BY DEF WholeInv, ControlInv
<1>2. /\ th[t].pc = "lock" /\ Step(t, Body[th[t].op]) /\ global_mutex' = global_mutex
      /\ chain' = chain /\ next' = next /\ hdr' = hdr /\ mapped' = mapped /\ img' = img
      /\ gc_stack' = gc_stack /\ base_address_shift' = base_address_shift /\ stack' = stack
  BY DEF Lock, list, map, globals
<1>3. th[t].op \in Operations /\ th[t].s = th[t].want /\ th[t].want \in Storage
  BY <1>1, <1>2, Inside
<1> DEFINE pc == Body[th[t].op]
<1>4. /\ th[t].op = "collect" => pc = "roots"
      /\ th[t].op = "open" => pc = "map"
      /\ th[t].op = "close" => pc = "unlink"
      /\ th[t].op = "new" => pc = "allocate"
      /\ th[t].op = "delete" => pc = "free"
  BY DEF Body
<1> HIDE DEF pc
<1>5. pc \in Point \ {"memset", "global", "find", "publish", "unmap", "unlock", "lock"}
      /\ pc \in Points(th[t].op, th[t].gc) /\ pc \notin Marking
  BY <1>3, <1>4 DEF Point, Points, Operations, Serial, Marking, Building
<1>6. /\ th' \in [Thread -> Activity] /\ Others(t) /\ KeepsOp(t) /\ KeepsWork(t)
      /\ th'[t].pc = pc /\ th'[t].s = th[t].s
  BY <1>1, <1>2, <1>5, StepMoves DEF pc
<1>7. TypeOK'
  BY <1>1, <1>2, <1>6 DEF TypeOK
<1>8. ControlInv' /\ ChainInv' /\ AddressInv' /\ SearchInv'
  BY <1>2, <1>4, <1>5, <1>6, <1>7, InnerFrame
<1>9. StackInv'
  BY <1>1, <1>2, <1>5, <1>6, StackFrame DEF Marks, Marking, Building
<1>10. ShiftInv'
  <2>1. ~Shifts(t) /\ (th'[t].op = "open" => th'[t].pc = "map")
    BY <1>2, <1>4, <1>6 DEF Shifts, Marking, Building, KeepsOp
  <2> QED BY <1>1, <1>2, <1>6, <2>1, ShiftFrame DEF Building, KeepsOp, KeepsWork, ShiftInv
<1>11. ImageInv'
  <2>1. CASE th[t].op = "collect"
    <3>1. PICK s \in Storage : th[t].want = s
      BY <1>3
    <3>2. th[t].op \in Serial /\ th[t].shift = 0
      BY <2>1, <1>1 DEF Serial, ShiftInv
    <3>3. /\ \A u \in Thread : th[u].want = s => u = t
          /\ \A c : ~Raw(s, c)
      BY <1>1, <3>1, <3>2, AloneAt
    <3>4. ~Moves(t) /\ Moves(t)' /\ ~Adjusts(t)' /\ ~Marks(t)' /\ th'[t].want = s
      BY <1>2, <1>4, <1>5, <1>6, <2>1, <3>1
         DEF Moves, Adjusts, Marks, Marking, Building, KeepsOp
    <3>5. /\ \A i \in Roots : Good(s, img[s].root[i], img[s].base)
          /\ \A c \in img[s].live : Good(s, img[s].ref[c], img[s].base)
      BY <1>1, <3>3, <3>4 DEF ImageInv, RestInv
    <3>6. OldBase(t)' = img[s].base
      <4>1. img[s].base \in Int
        BY <1>1, StoragesAssumption DEF TypeOK, Image
      <4> QED BY <4>1, <1>2, <1>6, <3>2, <3>4 DEF OldBase, KeepsWork
    <3>7. RootsInv(t)'
      BY <1>2, <3>4, <3>5, <3>6 DEF RootsInv, Good
    <3>8. RestInv(s)'
      BY <3>4 DEF RestInv
    <3>9. AdjustInv(t)' /\ PositionInv(t)' /\ StackedInv(t)' /\ MarkInv(t)'
      BY <3>4 DEF AdjustInv, PositionInv, StackedInv, MarkInv
    <3> QED BY <1>1, <1>2, <1>6, <1>8, <3>1, <3>2, <3>7, <3>8, <3>9, SerialImage
  <2>2. CASE th[t].op # "collect"
    <3>1. ~Moves(t) /\ ~Moves(t)' /\ ~Makes(t)' /\ (Deletes(t)' => Deletes(t))
      BY <1>2, <1>3, <1>4, <1>5, <1>6, <2>2
         DEF Moves, Makes, Deletes, Marking, Building, KeepsOp, Operations, Serial
    <3>2. \A r, d : Raw(r, d)' <=> Raw(r, d)
      BY <1>2, <1>5, <1>6 DEF Raw, Others
    <3>3. OwnCellInv'
      BY <1>1, <1>6, <3>1 DEF ImageInv, OwnCellInv, Makes, Deletes, Others, KeepsOp, KeepsWork
    <3>4. ObjectInv(t)'
      <4>1. ObjectInv(t)
        BY <1>1 DEF ImageInv
      <4>2. th'[t].want = th[t].want /\ th'[t].cell = th[t].cell
        BY <1>6 DEF KeepsOp, KeepsWork
      <4>3. ASSUME NEW r, NEW c, Unreferred(r, c) PROVE Unreferred(r, c)'
        BY <4>3, <3>2, <1>2 DEF Unreferred
      <4>4. Deletes(t) => Unreferred(th[t].want, th[t].cell)'
        BY <4>1, <4>2, <4>3, <3>2, <1>2 DEF ObjectInv, Unreferred
      <4> QED BY <4>1, <4>2, <4>4, <3>1, <1>2 DEF ObjectInv
    <3> QED BY <1>1, <1>2, <1>5, <1>6, <1>8, <3>1, <3>3, <3>4, QuietImage
  <2> QED BY <2>1, <2>2
<1> QED BY <1>8, <1>9, <1>10, <1>11 DEF WholeInv

\* The end of an operation that holds mutexes.
LEMMA UnlockWhole ==
  ASSUME WholeInv, NEW t \in Thread, Unlock(t) PROVE WholeInv'
<1>1. /\ ControlInv /\ ChainInv /\ AddressInv /\ SearchInv /\ StackInv /\ ShiftInv
      /\ ImageInv /\ TypeOK /\ PointInv
  BY DEF WholeInv, ControlInv
<1>2. /\ th[t].pc = "unlock" /\ th' = [th EXCEPT ![t] = Idle]
      /\ global_mutex' = IF global_mutex = t THEN None ELSE global_mutex
      /\ chain' = chain /\ next' = next /\ hdr' = hdr /\ mapped' = mapped /\ img' = img
      /\ gc_stack' = gc_stack /\ base_address_shift' = base_address_shift /\ stack' = stack
  BY DEF Unlock, list, map, globals
<1>3. th' \in [Thread -> Activity] /\ Others(t) /\ th'[t] = Idle
  BY <1>1, <1>2, IdleType, Becomes
<1>4. TypeOK'
  BY <1>1, <1>2, <1>3 DEF TypeOK
<1>5. ControlInv'
  BY <1>1, <1>2, <1>3, <1>4, EndControl
<1>6. th'[t].op = "none" /\ th'[t].pc = "idle" /\ th'[t].gc = FALSE
  BY <1>3 DEF Idle
<1>7. ChainInv'
  BY <1>1, <1>2, <1>3, <1>6, ChainFrame DEF ChainInv
<1>8. AddressInv'
  BY <1>1, <1>2, AddressFrame
<1>9. SearchInv'
  BY <1>1, <1>2, <1>3, <1>6, SearchFrame
<1>10. StackInv'
  BY <1>1, <1>2, <1>3, <1>6, StackFrame DEF Marks, Marking, Building
<1>11. ShiftInv'
  BY <1>1, <1>2, <1>3, <1>6, ShiftFrame DEF Shifts, Marking, Building
<1>12. ImageInv'
  <2>1. ~Moves(t) /\ ~Moves(t)' /\ ~Makes(t)' /\ ~Deletes(t)'
    BY <1>2, <1>6 DEF Moves, Makes, Deletes, Marking, Building
  <2>2. OwnCellInv'
    BY <1>1, <1>3, <2>1 DEF ImageInv, OwnCellInv, Makes, Deletes, Others
  <2>3. ObjectInv(t)'
    BY <2>1 DEF ObjectInv
  <2> QED BY <1>1, <1>2, <1>3, <1>5, <1>6, <2>1, <2>2, <2>3, QuietImage
<1> QED BY <1>5, <1>7, <1>8, <1>9, <1>10, <1>11, <1>12 DEF WholeInv

-----------------------------------------------------------------------------
(* The chain of open storages.                                             *)

\* A step of open() or close() at the chain leaves images and globals alone.
LEMMA QuietStep ==
  ASSUME WholeInv, ControlInv', NEW t \in Thread, th[t].op \in Serial,
         Others(t), KeepsOp(t), KeepsWork(t),
         th[t].pc \in {"link", "publish", "unlink", "unmap"},
         th'[t].pc \in {"publish", "unlock", "unmap"},
         img' = img, gc_stack' = gc_stack, stack' = stack,
         base_address_shift' = base_address_shift
  PROVE  StackInv' /\ ShiftInv' /\ ImageInv'
<1>1. /\ ControlInv /\ StackInv /\ ShiftInv /\ ImageInv
  BY DEF WholeInv
<1>2. StackInv'
  BY <1>1, StackFrame DEF Marks, Marking, Building
<1>3. ShiftInv'
  BY <1>1, ShiftFrame DEF Shifts, Marking, Building, KeepsOp, KeepsWork, ShiftInv
<1>4. ImageInv'
  <2>1. ~Moves(t) /\ ~Moves(t)' /\ ~Makes(t)' /\ ~Deletes(t)'
    BY DEF Moves, Makes, Deletes, Marking, Building, KeepsOp, Serial
  <2>2. OwnCellInv'
    BY <1>1, <2>1 DEF ImageInv, OwnCellInv, Makes, Deletes, Others
  <2>3. ObjectInv(t)'
    BY <2>1 DEF ObjectInv
  <2> QED BY <1>1, <2>1, <2>2, <2>3, QuietImage
<1> QED BY <1>2, <1>3, <1>4

\* open() lets its storage lead to the head of the chain.
LEMMA LinkNextWhole ==
  ASSUME WholeInv, NEW t \in Thread, LinkNext(t) PROVE WholeInv'
<1>1. /\ ControlInv /\ ChainInv /\ AddressInv /\ SearchInv /\ TypeOK /\ PointInv
  BY DEF WholeInv, ControlInv
<1>2. /\ th[t].pc = "link" /\ Step(t, "publish") /\ next' = [next EXCEPT ![th[t].s] = chain]
      /\ global_mutex' = global_mutex /\ chain' = chain /\ hdr' = hdr /\ mapped' = mapped
      /\ img' = img /\ gc_stack' = gc_stack /\ base_address_shift' = base_address_shift
      /\ stack' = stack
  BY DEF LinkNext, map, locks, globals
<1>3. PICK s \in Storage : th[t].want = s /\ th[t].s = s
  BY <1>1, <1>2, Inside
<1>4. th[t].op = "open" /\ th[t].op \in Serial
  BY <1>1, <1>2, AtPoint DEF Serial
<1>5. "publish" \in Point
  BY DEF Point
<1>6. /\ th' \in [Thread -> Activity] /\ Others(t) /\ KeepsOp(t) /\ KeepsWork(t)
      /\ th'[t].pc = "publish" /\ th'[t].s = th[t].s
  BY <1>1, <1>2, <1>5, StepMoves
<1>7. TypeOK'
  BY <1>1, <1>2, <1>3, <1>6 DEF TypeOK
<1>8. ControlInv'
  <2>1. "publish" \in Points(th[t].op, th[t].gc)
    BY <1>4 DEF Points
  <2> QED BY <1>1, <1>2, <1>3, <1>4, <1>6, <1>7, <2>1, InnerControl
<1>9. next \in Links /\ chain \in Storage \cup {None}
  BY <1>1 DEF TypeOK, Links
<1>10. s \notin Linked /\ Linked \in SUBSET Storage /\ Follows(next, Linked)
  BY <1>1, <1>2, <1>3, <1>4, <1>9, FromFacts DEF ChainInv, Linked
<1>11. \A a \in Linked \cup {None} : From(next', a) = From(next, a)
  <2> SUFFICES ASSUME NEW a \in Linked \cup {None} PROVE From(next', a) = From(next, a)
    OBVIOUS
  <2>1. From(next, a) \subseteq Linked
    BY <1>9, <1>10, FromWithin
  <2>2. a \in Storage \cup {None} /\ s \notin From(next, a)
    BY <2>1, <1>10
  <2>3. From([next EXCEPT ![s] = chain], a) = From(next, a)
    BY <2>2, <1>9, FromAside
  <2> QED BY <2>3, <1>2, <1>3
<1>12. Linked' = Linked
  <2>1. chain \in Linked \cup {None}
    BY <1>9, FromFacts DEF Linked
  <2> QED BY <2>1, <1>2, <1>11 DEF Linked
<1>13. \A u \in Thread \ {t} : th[u].pc # "publish"
  BY <1>1, <1>2, <1>4, AtPoint, OneSerial DEF Serial
<1>14. next'[s] = chain
  BY <1>2, <1>3, <1>9 DEF Links
<1>15. ChainInv'
  <2>1. (\A r \in Linked : r \notin From(next, next[r]))'
    <3> SUFFICES ASSUME NEW r \in Linked PROVE r \notin From(next', next'[r])
      BY <1>12
    <3>1. next'[r] = next[r] /\ next[r] \in Linked \cup {None}
      BY <1>2, <1>3, <1>9, <1>10 DEF Follows, Links
    <3> QED BY <1>1, <1>11, <3>1 DEF ChainInv
  <2>2. (\A r \in mapped : \/ r \in Linked
                           \/ \E u \in Thread : /\ th[u].want = r
                                                /\ th[u].op = "open" \/ th[u].pc = "unmap")'
    BY <1>1, <1>2, <1>4, <1>6, <1>12 DEF ChainInv, Others, KeepsOp
  <2>3. ASSUME NEW u \in Thread
        PROVE  (/\ th[u].op = "open" /\ th[u].pc # "unlock" => th[u].want \notin Linked
                /\ th[u].op = "open" /\ th[u].pc = "unlock" => th[u].want \in Linked
                /\ th[u].pc = "publish" => next[th[u].want] = chain
                /\ th[u].pc = "unmap" => th[u].want \notin Linked)'
    <3>1. CASE u = t
      BY <3>1, <1>2, <1>3, <1>6, <1>10, <1>12, <1>14 DEF KeepsOp
    <3>2. CASE u # t
      BY <3>2, <1>1, <1>6, <1>12, <1>13 DEF ChainInv, Others
    <3> QED BY <3>1, <3>2
  <2> QED BY <1>1, <1>2, <1>12, <2>1, <2>2, <2>3 DEF ChainInv
<1>16. AddressInv'
  BY <1>1, <1>2, AddressFrame
<1>17. SearchInv'
  <2> SUFFICES ASSUME NEW u \in Thread, Searching(u)'
               PROVE  (/\ th[u].cur \in Linked /\ th[u].want \in From(next, th[u].cur)
                       /\ Apart => \A v \in Thread :
                            Closing(v) => ~Passed(th[v].want, th[u].want))'
    BY DEF SearchInv
  <2>1. th'[u] = th[u] /\ Searching(u)
    BY <1>6 DEF Searching, Others
  <2>2. ASSUME NEW v \in Thread, Closing(v)'
        PROVE  Closing(v) /\ th'[v] = th[v] /\ (Passed(th[v].want, th[u].want)' =>
                                                Passed(th[v].want, th[u].want))
    <3>1. v # t /\ th'[v] = th[v] /\ Closing(v)
      BY <2>2, <1>4, <1>6 DEF Closing, Others, KeepsOp
    <3>2. th[v].pc = "global"
      BY <1>1, <1>2, <1>4, <3>1, OneSerial DEF Closing, Serial
    <3>3. th[v].want \in Linked
      BY <1>1, <3>1, <3>2, ClosesLinked DEF Closing
    <3>4. next'[th[v].want] = next[th[v].want] /\ next[th[v].want] \in Linked \cup {None}
      BY <1>2, <1>3, <1>9, <1>10, <3>3 DEF Follows, Links
    <3> QED BY <1>11, <2>1, <3>1, <3>4 DEF Passed
  <2> QED BY <1>1, <1>11, <1>12, <2>1, <2>2 DEF SearchInv
<1>18. StackInv' /\ ShiftInv' /\ ImageInv'
  BY <1>2, <1>4, <1>6, <1>8, QuietStep
<1> QED BY <1>8, <1>15, <1>16, <1>17, <1>18 DEF WholeInv

\* open() makes its storage the head of the chain.
LEMMA LinkChainWhole ==
  ASSUME WholeInv, NEW t \in Thread, LinkChain(t) PROVE WholeInv'
<1>1. /\ ControlInv /\ ChainInv /\ AddressInv /\ SearchInv /\ TypeOK /\ PointInv
  BY DEF WholeInv, ControlInv
<1>2. /\ th[t].pc = "publish" /\ Step(t, "unlock") /\ chain' = th[t].s
      /\ global_mutex' = global_mutex /\ next' = next /\ hdr' = hdr /\ mapped' = mapped
      /\ img' = img /\ gc_stack' = gc_stack /\ base_address_shift' = base_address_shift
      /\ stack' = stack
  BY DEF LinkChain, map, locks, globals
<1>3. PICK s \in Storage : th[t].want = s /\ th[t].s = s
  BY <1>1, <1>2, Inside
<1>4. th[t].op = "open" /\ th[t].op \in Serial
  BY <1>1, <1>2, AtPoint DEF Serial
<1>5. "unlock" \in Point
  BY DEF Point
<1>6. /\ th' \in [Thread -> Activity] /\ Others(t) /\ KeepsOp(t) /\ KeepsWork(t)
      /\ th'[t].pc = "unlock" /\ th'[t].s = th[t].s
  BY <1>1, <1>2, <1>5, StepMoves
<1>7. TypeOK'
  BY <1>1, <1>2, <1>3, <1>6 DEF TypeOK
<1>8. ControlInv'
  <2>1. "unlock" \in Points(th[t].op, th[t].gc)
    BY <1>4 DEF Points
  <2> QED BY <1>1, <1>2, <1>3, <1>4, <1>6, <1>7, <2>1, InnerControl
<1>9. next \in Links
  BY <1>1 DEF TypeOK, Links
<1>10. s \notin Linked /\ next[s] = chain
  BY <1>1, <1>2, <1>3, <1>4 DEF ChainInv
<1>11. Linked' = {s} \cup Linked
  BY <1>2, <1>3, <1>9, <1>10, FromHead DEF Linked
<1>12. \A u \in Thread \ {t} : th[u].want # s /\ th[u].pc # "publish"
  BY <1>1, <1>2, <1>3, <1>4, AtPoint, OneSerial, AloneAt DEF Serial
<1>13. s \in mapped
  <2>1. th[t] # Idle /\ MappedInv
    BY <1>1, <1>2, Inside DEF ControlInv
  <2> QED BY <1>2, <1>3, <1>4, <2>1 DEF MappedInv
<1>14. ChainInv'
  <2>1. (\A r \in Linked : r \notin From(next, next[r]))'
    BY <1>1, <1>2, <1>10, <1>11 DEF ChainInv, Linked
  <2>2. (\A r \in mapped : \/ r \in Linked
                           \/ \E u \in Thread : /\ th[u].want = r
                                                /\ th[u].op = "open" \/ th[u].pc = "unmap")'
    BY <1>1, <1>2, <1>3, <1>4, <1>6, <1>11 DEF ChainInv, Others, KeepsOp
  <2>3. ASSUME NEW u \in Thread
        PROVE  (/\ th[u].op = "open" /\ th[u].pc # "unlock" => th[u].want \notin Linked
                /\ th[u].op = "open" /\ th[u].pc = "unlock" => th[u].want \in Linked
                /\ th[u].pc = "publish" => next[th[u].want] = chain
                /\ th[u].pc = "unmap" => th[u].want \notin Linked)'
    <3>1. CASE u = t
      BY <3>1, <1>3, <1>6, <1>11 DEF KeepsOp
    <3>2. CASE u # t
      BY <3>2, <1>1, <1>6, <1>11, <1>12 DEF ChainInv, Others
    <3> QED BY <3>1, <3>2
  <2>4. Linked' \subseteq mapped'
    BY <1>1, <1>2, <1>11, <1>13 DEF ChainInv
  <2> QED BY <2>1, <2>2, <2>3, <2>4 DEF ChainInv
<1>15. AddressInv'
  BY <1>1, <1>2, AddressFrame
<1>16. SearchInv'
  <2> SUFFICES ASSUME NEW u \in Thread, Searching(u)'
               PROVE  (/\ th[u].cur \in Linked /\ th[u].want \in From(next, th[u].cur)
                       /\ Apart => \A v \in Thread :
                            Closing(v) => ~Passed(th[v].want, th[u].want))'
    BY DEF SearchInv
  <2>1. th'[u] = th[u] /\ Searching(u)
    BY <1>6 DEF Searching, Others
  <2>2. \A v \in Thread : Closing(v)' => Closing(v) /\ th'[v] = th[v]
    BY <1>4, <1>6 DEF Closing, Others, KeepsOp
  <2> QED BY <1>1, <1>2, <1>11, <2>1, <2>2 DEF SearchInv, Passed
<1>17. StackInv' /\ ShiftInv' /\ ImageInv'
  BY <1>2, <1>4, <1>6, <1>8, QuietStep
<1> QED BY <1>8, <1>14, <1>15, <1>16, <1>17 DEF WholeInv

\* close() takes its storage out of the chain; no search on its way passes it.
LEMMA UnlinkWhole ==
  ASSUME Apart, WholeInv, NEW t \in Thread, Unlink(t) PROVE WholeInv'
<1>1. /\ ControlInv /\ ChainInv /\ AddressInv /\ SearchInv /\ TypeOK /\ PointInv
  BY DEF WholeInv, ControlInv
<1>2. /\ th[t].pc = "unlink" /\ Step(t, "unmap")
      /\ global_mutex' = global_mutex /\ hdr' = hdr /\ mapped' = mapped
      /\ img' = img /\ gc_stack' = gc_stack /\ base_address_shift' = base_address_shift
      /\ stack' = stack
  BY DEF Unlink, map, locks, globals
<1>3. PICK s \in Storage : th[t].want = s /\ th[t].s = s
  BY <1>1, <1>2, Inside
<1>4. th[t].op = "close" /\ th[t].op \in Serial
  BY <1>1, <1>2, AtPoint DEF Serial
<1>5. "unmap" \in Point
  BY DEF Point
<1>6. /\ th' \in [Thread -> Activity] /\ Others(t) /\ KeepsOp(t) /\ KeepsWork(t)
      /\ th'[t].pc = "unmap" /\ th'[t].s = th[t].s
  BY <1>1, <1>2, <1>5, StepMoves
<1>7. next \in Links /\ chain \in Storage \cup {None}
  BY <1>1 DEF TypeOK, Links
<1>8. /\ chain = s => chain' = next[s] /\ next' = next
      /\ chain # s => /\ chain' = chain
                      /\ next' = [r \in Storage |->
                           IF next[r] = s /\ r \in mapped THEN next[s] ELSE next[r]]
  BY <1>3 DEF Unlink
<1>9. next' \in Links /\ chain' \in Storage \cup {None}
  BY <1>3, <1>7, <1>8 DEF Links
<1>10. TypeOK'
  BY <1>1, <1>2, <1>6, <1>9 DEF TypeOK, Links
<1>11. ControlInv'
  <2>1. "unmap" \in Points(th[t].op, th[t].gc)
    BY <1>4 DEF Points
  <2> QED BY <1>1, <1>2, <1>3, <1>4, <1>6, <1>10, <2>1, InnerControl
<1>12. \A u \in Thread \ {t} : th[u].want # s /\ th[u].pc # "publish"
  BY <1>1, <1>2, <1>3, <1>4, AtPoint, OneSerial, AloneAt DEF Serial
<1>13. s \in mapped
  <2>1. th[t] # Idle /\ MappedInv
    BY <1>1, <1>2, Inside DEF ControlInv
  <2> QED BY <1>2, <1>3, <1>4, <2>1 DEF MappedInv
<1>14. s \in Linked
  BY <1>1, <1>2, <1>3, <1>4, ClosesLinked
<1>15. chain \in Storage
  BY <1>7, <1>14, FromFacts DEF Linked
<1>16. \A r \in Linked : r \notin From(next, next[r])
  BY <1>1 DEF ChainInv
<1>17. chain # s => \A r \in Linked : next'[r] = IF next[r] = s THEN next[s] ELSE next[r]
  <2>1. Linked \subseteq mapped /\ mapped \subseteq Storage
    BY <1>1 DEF ChainInv, TypeOK
  <2> QED BY <2>1, <1>8
<1>18. /\ Linked' = Linked \ {s}
       /\ \A r \in Linked : From(next', next'[r]) \subseteq From(next, next[r])
  <2>1. CASE chain = s
    <3>1. From(next, next[s]) = From(next, chain) \ {s}
      BY <2>1, <1>7, <1>14, <1>15, <1>16, FromWithout DEF Linked
    <3> QED BY <3>1, <2>1, <1>8 DEF Linked
  <2>2. CASE chain # s
    <3>1. /\ From(next', chain) = From(next, chain) \ {s}
          /\ \A r \in From(next, chain) : From(next', next'[r]) \subseteq From(next, next[r])
      BY <2>2, <1>17, <1>7, <1>9, <1>14, <1>15, <1>16, FromWithout DEF Linked
    <3> QED BY <3>1, <2>2, <1>8 DEF Linked
  <2> QED BY <2>1, <2>2
<1>19. ChainInv'
  <2>1. (\A r \in Linked : r \notin From(next, next[r]))'
    BY <1>16, <1>18
  <2>2. (\A r \in mapped : \/ r \in Linked
                           \/ \E u \in Thread : /\ th[u].want = r
                                                /\ th[u].op = "open" \/ th[u].pc = "unmap")'
    <3> SUFFICES ASSUME NEW r \in mapped, r # s, r \notin Linked
                 PROVE  \E u \in Thread : /\ th'[u].want = r
                                          /\ th'[u].op = "open" \/ th'[u].pc = "unmap"
      BY <1>2, <1>3, <1>6, <1>18 DEF KeepsOp
    <3>1. PICK u \in Thread : th[u].want = r /\ (th[u].op = "open" \/ th[u].pc = "unmap")
      BY <1>1 DEF ChainInv
    <3> QED BY <3>1, <1>3, <1>6 DEF Others
  <2>3. ASSUME NEW u \in Thread
        PROVE  (/\ th[u].op = "open" /\ th[u].pc # "unlock" => th[u].want \notin Linked
                /\ th[u].op = "open" /\ th[u].pc = "unlock" => th[u].want \in Linked
                /\ th[u].pc = "publish" => next[th[u].want] = chain
                /\ th[u].pc = "unmap" => th[u].want \notin Linked)'
    <3>1. CASE u = t
      BY <3>1, <1>3, <1>4, <1>6, <1>18 DEF KeepsOp
    <3>2. CASE u # t
      BY <3>2, <1>1, <1>6, <1>12, <1>18 DEF ChainInv, Others
    <3> QED BY <3>1, <3>2
  <2> QED BY <1>1, <1>2, <1>18, <2>1, <2>2, <2>3 DEF ChainInv
<1>20. AddressInv'
  BY <1>1, <1>2, AddressFrame
<1>21. SearchInv'
  <2> SUFFICES ASSUME NEW u \in Thread, Searching(u)'
               PROVE  (/\ th[u].cur \in Linked /\ th[u].want \in From(next, th[u].cur)
                       /\ \A v \in Thread :
                            Closing(v) => ~Passed(th[v].want, th[u].want))'
    BY DEF SearchInv
  <2>1. u # t /\ th'[u] = th[u] /\ Searching(u)
    BY <1>6 DEF Searching, Others
  <2> DEFINE a == th[u].cur
             w == th[u].want
  <2>2. /\ a \in Linked /\ w \in From(next, a) /\ w # s
        /\ \A v \in Thread : Closing(v) => ~Passed(th[v].want, w)
    BY <1>1, <1>12, <2>1 DEF SearchInv
  <2>3. Linked \in SUBSET Storage /\ a \in Storage
    BY <1>7, <2>2, FromFacts DEF Linked
  <2> HIDE DEF a, w
  <2>4. a # s
    <3>1. ~Passed(s, w)
      BY <1>3, <1>4, <2>2 DEF Closing
    <3> QED BY <1>3, <1>7, <2>2, <3>1, FromNext DEF Passed
  <2>5. w \in From(next', a)
    <3>1. CASE chain = s
      BY <1>8, <2>2, <3>1
    <3>2. CASE chain # s
      <4>1. From(next, a) \subseteq Linked
        BY <1>7, <2>2, FromSub DEF Linked
      <4>2. CASE s \in From(next, a)
        <5>1. From(next', a) = From(next, a) \ {s}
          BY <1>7, <1>9, <1>16, <1>17, <2>3, <2>4, <3>2, <4>1, <4>2, FromWithout
        <5> QED BY <2>2, <5>1
      <4>3. CASE s \notin From(next, a)
        <5>1. s # None /\ \A r \in From(next, a) : next[r] # s
          BY <1>7, <2>3, <4>3, FromFacts, StoragesAssumption DEF Follows
        <5>2. From(next', a) = From(next, a)
          BY <1>7, <1>9, <1>17, <2>3, <3>2, <4>1, <5>1, FromAgrees
        <5> QED BY <2>2, <5>2
      <4> QED BY <4>2, <4>3
    <3> QED BY <3>1, <3>2
  <2>6. ASSUME NEW v \in Thread, Closing(v)' PROVE ~Passed(th[v].want, th[u].want)'
    <3>1. Closing(v) /\ th'[v].want = th[v].want
      BY <2>6, <1>6 DEF Closing, Others, KeepsOp
    <3>2. th[v].want \in Linked
      <4>1. CASE v = t
        BY <4>1, <1>3, <1>14
      <4>2. CASE v # t
        <5>1. th[v].pc = "global"
          BY <1>1, <1>2, <1>4, <3>1, <4>2, OneSerial DEF Closing, Serial
        <5> QED BY <1>1, <3>1, <5>1, ClosesLinked DEF Closing
      <4> QED BY <4>1, <4>2
    <3>3. ~Passed(th[v].want, w)
      BY <2>2, <3>1
    <3> QED BY <1>18, <2>1, <3>1, <3>2, <3>3 DEF Passed, w
  <2> QED BY <1>18, <2>1, <2>2, <2>4, <2>5, <2>6 DEF a, w
<1>22. StackInv' /\ ShiftInv' /\ ImageInv'
  BY <1>2, <1>4, <1>6, <1>11, QuietStep
<1> QED BY <1>11, <1>19, <1>20, <1>21, <1>22 DEF WholeInv

\* close() removes the mapping of its storage.
LEMMA UnmapWhole ==
  ASSUME WholeInv, NEW t \in Thread, Unmap(t) PROVE WholeInv'
<1>1. /\ ControlInv /\ ChainInv /\ AddressInv /\ SearchInv /\ TypeOK /\ PointInv
      /\ SerialInv /\ MappedInv
  BY DEF WholeInv, ControlInv
<1>2. /\ th[t].pc = "unmap" /\ Step(t, "unlock") /\ mapped' = mapped \ {th[t].s}
      /\ global_mutex' = global_mutex /\ chain' = chain /\ next' = next /\ hdr' = hdr
      /\ img' = img /\ gc_stack' = gc_stack /\ base_address_shift' = base_address_shift
      /\ stack' = stack
  BY DEF Unmap, list, locks, globals
<1>3. PICK s \in Storage : th[t].want = s /\ th[t].s = s
  BY <1>1, <1>2, Inside
<1>4. th[t].op = "close" /\ th[t].op \in Serial
  BY <1>1, <1>2, AtPoint DEF Serial
<1>5. "unlock" \in Point
  BY DEF Point
<1>6. /\ th' \in [Thread -> Activity] /\ Others(t) /\ KeepsOp(t) /\ KeepsWork(t)
      /\ th'[t].pc = "unlock" /\ th'[t].s = th[t].s
  BY <1>1, <1>2, <1>5, StepMoves
<1>7. TypeOK'
  BY <1>1, <1>2, <1>6 DEF TypeOK
<1>8. \A u \in Thread \ {t} : th[u].want # s
  BY <1>1, <1>3, <1>4, AloneAt
<1>9. ControlInv'
  <2>1. "unlock" \in Points(th[t].op, th[t].gc)
    BY <1>4 DEF Points
  <2>2. SerialInv'
    BY <1>1, <1>2, <1>6 DEF SerialInv, Others, KeepsOp
  <2>3. MappedInv'
    <3> SUFFICES ASSUME NEW u \in Thread, th'[u] # Idle
                 PROVE  (th'[u].want \in mapped' <=>
                           \/ th'[u].op = "open" /\ th'[u].pc \notin {"global", "lock", "map"}
                           \/ th'[u].op = "close" /\ th'[u].pc # "unlock"
                           \/ th'[u].op \notin {"open", "close"})
      BY DEF MappedInv
    <3>1. CASE u = t
      BY <3>1, <1>2, <1>3, <1>4, <1>6 DEF KeepsOp
    <3>2. CASE u # t
      BY <3>2, <1>1, <1>2, <1>3, <1>6, <1>8 DEF Others, MappedInv
    <3> QED BY <3>1, <3>2
  <2> QED BY <1>1, <1>2, <1>3, <1>6, <1>7, <2>1, <2>2, <2>3, StepControl
<1>10. s \notin Linked /\ Linked' = Linked
  BY <1>1, <1>2, <1>3 DEF ChainInv, Linked
<1>11. ChainInv'
  <2>1. (\A r \in Linked : r \notin From(next, next[r]))'
    BY <1>1, <1>2, <1>10 DEF ChainInv
  <2>2. (\A r \in mapped : \/ r \in Linked
                           \/ \E u \in Thread : /\ th[u].want = r
                                                /\ th[u].op = "open" \/ th[u].pc = "unmap")'
    <3> SUFFICES ASSUME NEW r \in mapped, r # s, r \notin Linked
                 PROVE  \E u \in Thread : /\ th'[u].want = r
                                          /\ th'[u].op = "open" \/ th'[u].pc = "unmap"
      BY <1>2, <1>3, <1>10
    <3>1. PICK u \in Thread : th[u].want = r /\ (th[u].op = "open" \/ th[u].pc = "unmap")
      BY <1>1 DEF ChainInv
    <3> QED BY <3>1, <1>3, <1>6 DEF Others
  <2>3. ASSUME NEW u \in Thread
        PROVE  (/\ th[u].op = "open" /\ th[u].pc # "unlock" => th[u].want \notin Linked
                /\ th[u].op = "open" /\ th[u].pc = "unlock" => th[u].want \in Linked
                /\ th[u].pc = "publish" => next[th[u].want] = chain
                /\ th[u].pc = "unmap" => th[u].want \notin Linked)'
    <3>1. CASE u = t
      BY <3>1, <1>4, <1>6 DEF KeepsOp
    <3>2. CASE u # t
      BY <3>2, <1>1, <1>2, <1>6, <1>10 DEF ChainInv, Others
    <3> QED BY <3>1, <3>2
  <2>4. Linked' \subseteq mapped'
    BY <1>1, <1>2, <1>3, <1>10 DEF ChainInv
  <2> QED BY <2>1, <2>2, <2>3, <2>4 DEF ChainInv
<1>12. AddressInv'
  BY <1>1, <1>2 DEF AddressInv
<1>13. SearchInv'
  BY <1>1, <1>2, <1>6, SearchFrame
<1>14. StackInv' /\ ShiftInv' /\ ImageInv'
  BY <1>2, <1>4, <1>6, <1>9, QuietStep
<1> QED BY <1>9, <1>11, <1>12, <1>13, <1>14 DEF WholeInv

\* find_storage() tests a storage of the chain, which is mapped, and the one
\* at the address it looks for is the one it looks for.
LEMMA FindStorageWhole ==
  ASSUME WholeInv, NEW t \in Thread, FindStorage(t) PROVE WholeInv'
<1>1. /\ ControlInv /\ ChainInv /\ AddressInv /\ SearchInv /\ TypeOK /\ PointInv
      /\ StackInv /\ ShiftInv /\ ImageInv /\ MappedInv
  BY DEF WholeInv, ControlInv
<1>2. /\ th[t].pc = "find"
      /\ global_mutex' = global_mutex /\ chain' = chain /\ next' = next /\ hdr' = hdr
      /\ mapped' = mapped
      /\ img' = img /\ gc_stack' = gc_stack /\ base_address_shift' = base_address_shift
      /\ stack' = stack
  BY DEF FindStorage, list, map, locks, globals
<1>3. /\ th[t].op = "delete" /\ ~th[t].gc /\ th[t] \in Activity /\ th[t] # Idle
      /\ th[t].want \in Storage /\ th[t].s = None
  BY <1>1, <1>2, AtPoint, Inside
<1>4. PICK r \in Storage : r = th[t].cur /\ r \in mapped /\ r \in Linked
                           /\ th[t].want \in From(next, r)
  BY <1>1, <1>2 DEF SearchInv, Searching, ChainInv, TypeOK
<1>5. r # None /\ th[t].want \in mapped
  BY <1>1, <1>3, StoragesAssumption DEF MappedInv
<1>6. next \in Links /\ chain \in Storage \cup {None}
  BY <1>1 DEF TypeOK, Links
<1>7. /\ th' \in [Thread -> Activity] /\ Others(t) /\ KeepsOp(t) /\ th'[t].cell = th[t].cell
      /\ \/ th'[t].pc = "lock" /\ th'[t].s = th[t].want
         \/ /\ th'[t].pc = "find" /\ th'[t].s = None
            /\ th'[t].cur \in Linked /\ th[t].want \in From(next, th'[t].cur)
  <2>1. CASE hdr[r] = hdr[th[t].want]
    <3>1. r = th[t].want
      BY <1>1, <1>4, <1>5, <2>1 DEF AddressInv
    <3>2. "lock" \in Point
      BY DEF Point
    <3>3. [th[t] EXCEPT !.s = r, !.pc = "lock"] \in Activity
      BY <1>3, <3>2 DEF Activity
    <3>4. th' = [th EXCEPT ![t] = [th[t] EXCEPT !.s = r, !.pc = "lock"]]
      BY <1>1, <1>4, <1>5, <2>1 DEF FindStorage, TypeOK
    <3>5. /\ th' \in [Thread -> Activity] /\ Others(t)
          /\ th'[t] = [th[t] EXCEPT !.s = r, !.pc = "lock"]
      BY <1>1, <3>3, <3>4, Becomes
    <3> QED BY <1>3, <3>1, <3>5 DEF Activity, KeepsOp
  <2>2. CASE hdr[r] # hdr[th[t].want]
    <3>1. next[r] \in Storage /\ th[t].want \in From(next, next[r])
      BY <1>4, <1>6, <2>2, FromNext
    <3>2. next[r] \in Linked
      BY <1>4, <1>6, <3>1, FromFacts, StoragesAssumption DEF Linked, Follows
    <3>3. [th[t] EXCEPT !.cur = next[r]] \in Activity
      BY <1>3, <3>1 DEF Activity
    <3>4. th' = [th EXCEPT ![t] = [th[t] EXCEPT !.cur = next[r]]]
      BY <1>1, <1>4, <1>5, <2>2 DEF FindStorage, TypeOK
    <3>5. /\ th' \in [Thread -> Activity] /\ Others(t)
          /\ th'[t] = [th[t] EXCEPT !.cur = next[r]]
      BY <1>1, <3>3, <3>4, Becomes
    <3> QED BY <1>2, <1>3, <3>1, <3>2, <3>5 DEF Activity, KeepsOp
  <2> QED BY <2>1, <2>2
<1>8. TypeOK'
  BY <1>1, <1>2, <1>7 DEF TypeOK
<1>9. ControlInv'
  <2>1. {"lock", "find"} \subseteq Points(th[t].op, th[t].gc)
    BY <1>3 DEF Points
  <2> QED BY <1>1, <1>2, <1>3, <1>7, <1>8, <2>1, InnerControl
<1>10. ChainInv'
  BY <1>1, <1>2, <1>3, <1>7, ChainFrame DEF KeepsOp
<1>11. AddressInv'
  BY <1>1, <1>2, AddressFrame
<1>12. SearchInv'
  <2>1. Linked' = Linked
    BY <1>2 DEF Linked
  <2>2. \A v \in Thread : /\ th'[v].want = th[v].want
                          /\ Closing(v)' => Closing(v)
                          /\ Searching(v)' => Searching(v)
    BY <1>2, <1>7 DEF Closing, Searching, Others, KeepsOp
  <2>3. \A v \in Thread : Searching(v)' =>
          th'[v].cur \in Linked /\ th[v].want \in From(next, th'[v].cur)
    BY <1>1, <1>7, <2>2 DEF SearchInv, Searching, Others
  <2>4. \A r1, w : Passed(r1, w)' <=> Passed(r1, w)
    BY <1>2 DEF Passed
  <2> QED BY <1>1, <1>2, <2>1, <2>2, <2>3, <2>4 DEF SearchInv
<1>13. StackInv'
  BY <1>1, <1>2, <1>7, StackFrame DEF Marks, Marking, Building
<1>14. ShiftInv'
  BY <1>1, <1>2, <1>3, <1>7, ShiftFrame DEF Shifts, Marking, Building, KeepsOp
<1>15. ImageInv'
  <2>1. ~Moves(t) /\ ~Moves(t)' /\ ~Makes(t)' /\ Deletes(t)' /\ ~Makes(t) /\ Deletes(t)
    BY <1>2, <1>3, <1>7 DEF Moves, Makes, Deletes, KeepsOp
  <2>2. OwnCellInv'
    BY <1>1, <1>7, <2>1 DEF ImageInv, OwnCellInv, Makes, Deletes, Others, KeepsOp
  <2>3. \A q, d : Raw(q, d)' <=> Raw(q, d)
    BY <1>2, <1>7 DEF Raw, Others
  <2>4. ObjectInv(t)
    BY <1>1 DEF ImageInv
  <2>5. PICK s \in Storage : th[t].want = s /\ th'[t].want = s
    BY <1>3, <1>7 DEF KeepsOp
  <2>6. Unreferred(s, th[t].cell)
    BY <2>1, <2>4, <2>5 DEF ObjectInv
  <2>7. Unreferred(s, th[t].cell)'
    BY <2>3, <2>6, <1>2, <1>7 DEF Unreferred
  <2>8. ObjectInv(t)'
    BY <2>1, <2>4, <2>5, <2>7, <1>2, <1>7 DEF ObjectInv
  <2> QED BY <1>1, <1>2, <1>7, <1>9, <2>1, <2>2, <2>8, QuietImage
<1> QED BY <1>9, <1>10, <1>11, <1>12, <1>13, <1>14, <1>15 DEF WholeInv

-----------------------------------------------------------------------------
(* Constructors.                                                           *)

\* Without a collection of its own a constructor finds no stack.
LEMMA NoStack ==
  ASSUME Apart, WholeInv, NEW t \in Thread, th[t].pc \in Building, ~Collects(t)
  PROVE  gc_stack = None
<1>1. ControlInv /\ StackInv /\ TypeOK /\ PointInv /\ ApartInv
  BY DEF WholeInv, ControlInv
<1> SUFFICES ASSUME gc_stack # None PROVE FALSE
  OBVIOUS
<1>2. PICK u \in Thread : Collects(u) /\ th[u].pc \in Marking
  BY <1>1 DEF StackInv
<1>3. th[t].op \in {"collect", "open", "new"}
  BY <1>1, AtPoint
<1>4. CASE th[t].op = "new"
  <2>1. Making /\ Collecting
    BY <1>2, <1>4 DEF Making, Collecting, Collects, Building
  <2> QED BY <1>1, <2>1 DEF ApartInv
<1>5. CASE th[t].op # "new"
  <2>1. th[t].op \in Serial /\ th[t].pc # "global"
    BY <1>3, <1>5 DEF Serial, Building
  <2>2. th[u].op \in Serial /\ th[u].pc # "global"
    BY <1>1, <1>2, AtPoint DEF Serial, Marking, Building
  <2>3. t = u
    BY <1>1, <2>1, <2>2, OneSerial
  <2> QED BY <1>2, <2>3
<1> QED BY <1>4, <1>5

\* A thread that takes up no other object keeps the objects apart.
LEMMA OwnCellSame ==
  ASSUME OwnCellInv, NEW t \in Thread, Others(t),
         Makes(t)' \/ Deletes(t)' => /\ Makes(t) \/ Deletes(t)
                                     /\ th'[t].want = th[t].want /\ th'[t].cell = th[t].cell
  PROVE  OwnCellInv'
<1>1. ASSUME NEW u \in Thread, Makes(u)' \/ Deletes(u)'
      PROVE  /\ Makes(u) \/ Deletes(u)
             /\ th'[u].want = th[u].want /\ th'[u].cell = th[u].cell
  <2>1. CASE u = t
    BY <1>1, <2>1
  <2>2. CASE u # t
    BY <1>1, <2>2 DEF Makes, Deletes, Others
  <2> QED BY <2>1, <2>2
<1> QED BY <1>1 DEF OwnCellInv

\* A constructor that is called with an object of its storage goes on.
LEMMA BuildingSame ==
  ASSUME ControlInv, ControlInv', ImageInv, NEW t \in Thread, Others(t), KeepsOp(t),
         th[t].pc \in Building, th'[t].pc \in Building,
         th'[t].shift = th[t].shift, th'[t].cell = th[t].cell, th'[t].todo = th[t].todo,
         Marks(t) /\ th'[t].pc # "load stack" => th'[t].gs = gc_stack,
         img' = img, stack' = stack, gc_stack' = gc_stack
  PROVE  ImageInv'
<1>1. TypeOK /\ PointInv /\ TypeOK'
  BY DEF ControlInv
<1>2. /\ AdjustInv(t) /\ PositionInv(t) /\ StackedInv(t) /\ MarkInv(t) /\ ObjectInv(t)
      /\ OwnCellInv
  BY DEF ImageInv
<1>3. th[t].want \in Storage /\ th[t].op \in {"collect", "open", "new"}
  BY <1>1, Inside, AtPoint DEF Building
<1>4. PICK s \in Storage : th[t].want = s /\ th'[t].want = s
  BY <1>3 DEF KeepsOp
<1>5. CASE th[t].op = "new"
  <2>1. ~Moves(t) /\ ~Moves(t)' /\ th[t].pc # "memset" /\ th'[t].pc # "memset"
    BY <1>5 DEF Moves, Building, KeepsOp
  <2>2. Makes(t) /\ Makes(t)' /\ ~Deletes(t) /\ ~Deletes(t)'
    BY <1>5 DEF Makes, Deletes, Building, KeepsOp
  <2>3. OwnCellInv'
    BY <1>2, <2>2, OwnCellSame DEF KeepsOp
  <2>4. ObjectInv(t)'
    BY <1>2, <1>4, <2>1, <2>2 DEF ObjectInv
  <2> QED BY <2>1, <2>3, <2>4, QuietImage
<1>6. CASE th[t].op # "new"
  <2>1. th[t].op \in Serial /\ th[t].pc # "global"
    BY <1>3, <1>6 DEF Serial, Building
  <2>2. Moves(t)' /\ th'[t].pc # "roots"
    BY <1>3, <1>6 DEF Moves, Marking, Building, KeepsOp
  <2>3. RestInv(s)' /\ RootsInv(t)'
    BY <1>4, <2>2 DEF RestInv, RootsInv
  <2>4. /\ Marks(t)' <=> Marks(t)
        /\ Adjusts(t)' <=> Adjusts(t)
        /\ OldBase(t)' = OldBase(t) /\ Left(t)' = Left(t) /\ CellField(t)' = CellField(t)
        /\ Height(t)' = Height(t)
    BY DEF Marks, Collects, Adjusts, OldBase, Left, CellField, Height, KeepsOp, Marking,
           Building
  <2>5. /\ \A p, b : Good(s, p, b)' <=> Good(s, p, b)
        /\ \A p : Followed(t, p)' <=> Followed(t, p)
    BY <1>4 DEF Good, Followed
  <2>6. \A f : (OnStack(t, f)' <=> OnStack(t, f)) /\ (Pending(t, f)' <=> Pending(t, f))
    BY <2>4 DEF OnStack, Pending
  <2>7. AdjustInv(t)'
    BY <1>2, <1>4, <2>4, <2>5 DEF AdjustInv
  <2>8. PositionInv(t)'
    BY <1>2, <2>4 DEF PositionInv, Building
  <2>9. StackedInv(t)'
    <3> SUFFICES ASSUME Marks(t)' PROVE StackedInv(t)'
      BY DEF StackedInv
    <3>1. Marks(t)
      BY <2>4
    <3>2. th'[t].todo \subseteq img'[s].live
      BY <1>2, <1>4, <3>1 DEF StackedInv
    <3>3. th'[t].cell \in th'[t].todo /\ ~OnStack(t, CellField(t))'
      <4>1. th[t].cell \in th[t].todo /\ ~OnStack(t, CellField(t))
        BY <1>2, <3>1 DEF StackedInv
      <4>2. PICK f : f = CellField(t) /\ f = CellField(t)'
        BY <2>4
      <4>3. ~OnStack(t, f)'
        BY <4>1, <4>2, <2>6
      <4> QED BY <4>1, <4>2, <4>3
    <3>4. (/\ \A n \in 1..Height(t) :
                \/ \E i \in Roots : stack[t][n] = <<th[t].want, "root", i>>
                \/ \E c \in th[t].todo : stack[t][n] = <<th[t].want, "cell", c>>
           /\ \A m, n \in 1..Height(t) : stack[t][m] = stack[t][n] => m = n)'
      BY <1>2, <1>4, <2>4, <3>1 DEF StackedInv
    <3> QED BY <1>4, <3>2, <3>3, <3>4 DEF StackedInv
  <2>10. MarkInv(t)'
    BY <1>2, <1>4, <2>4, <2>5, <2>6 DEF MarkInv
  <2> QED BY <1>4, <2>1, <2>3, <2>7, <2>8, <2>9, <2>10, SerialImage
<1> QED BY <1>5, <1>6

\* A constructor reads the globals.
LEMMA ReadWhole ==
  ASSUME WholeInv, NEW t \in Thread, th[t].pc \in Building,
         th' \in [Thread -> Activity], Others(t), KeepsOp(t), th'[t].s = th[t].s,
         th'[t].pc \in {"load shift", "fields"},
         th'[t].shift = th[t].shift, th'[t].cell = th[t].cell, th'[t].todo = th[t].todo,
         Marks(t) => th'[t].gs = gc_stack,
         Apart /\ ~Collects(t) => th'[t].gs = None,
         Adjusts(t) /\ th'[t].pc = "fields" => th'[t].sh = base_address_shift,
         UNCHANGED <<list, map, img, locks, globals, stack>>
  PROVE  WholeInv'
<1>1. /\ ControlInv /\ StackInv /\ ShiftInv /\ ImageInv /\ TypeOK /\ PointInv
  BY DEF WholeInv, ControlInv
<1>2. /\ chain' = chain /\ next' = next /\ hdr' = hdr /\ mapped' = mapped /\ img' = img
      /\ global_mutex' = global_mutex /\ gc_stack' = gc_stack
      /\ base_address_shift' = base_address_shift /\ stack' = stack
  BY DEF list, map, locks, globals
<1>3. TypeOK'
  BY <1>1, <1>2 DEF TypeOK
<1>4. /\ th[t].op \in {"collect", "open", "new"} /\ th[t].op \in Operations
      /\ th[t].pc \in Points(th[t].op, th[t].gc)
  BY <1>1, AtPoint, Inside DEF Building
<1>5. th'[t].pc \in Points(th[t].op, th[t].gc)
  BY <1>4 DEF Points, Marking, Building
<1>6. ControlInv' /\ ChainInv' /\ AddressInv' /\ SearchInv'
  BY <1>2, <1>3, <1>4, <1>5, InnerFrame DEF Building
<1>7. Marks(t)' <=> Marks(t)
  BY DEF Marks, Collects, Marking, Building, KeepsOp
<1>8. StackInv'
  BY <1>1, <1>2, <1>7, StackFrame DEF Collects, KeepsOp
<1>9. ShiftInv'
  <2>1. Shifts(t)' <=> Shifts(t)
    BY DEF Shifts, Marking, Building, KeepsOp
  <2>2. th[t].op = "open" /\ ~th[t].gc => base_address_shift = th[t].shift /\ Adjusts(t)
    BY <1>1 DEF ShiftInv, Adjusts
  <2> QED BY <1>1, <1>2, <2>1, <2>2, ShiftFrame DEF ShiftInv, KeepsOp
<1>10. ImageInv'
  BY <1>1, <1>2, <1>6, BuildingSame DEF Building
<1> QED BY <1>6, <1>8, <1>9, <1>10 DEF WholeInv

LEMMA LoadStackWhole ==
  ASSUME Apart, WholeInv, NEW t \in Thread, LoadStack(t) PROVE WholeInv'
<1>1. TypeOK /\ th[t].pc = "load stack" /\ th[t].pc \in Building
  BY DEF WholeInv, ControlInv, LoadStack, Building
<1>2. ~Collects(t) => gc_stack = None
  BY <1>1, NoStack
<1> QED BY <1>1, <1>2, LoadStackMoves, ReadWhole DEF LoadStack

LEMMA LoadShiftWhole ==
  ASSUME Apart, WholeInv, NEW t \in Thread, LoadShift(t) PROVE WholeInv'
<1>1. /\ TypeOK /\ th[t].pc = "load shift" /\ th[t].pc \in Building
      /\ StackInv /\ PositionInv(t)
  BY DEF WholeInv, ControlInv, LoadShift, Building, ImageInv
<1>2. Marks(t) => th[t].gs = gc_stack
  BY <1>1 DEF PositionInv
<1>3. ~Collects(t) => th[t].gs = None
  BY <1>1 DEF StackInv
<1> QED BY <1>1, <1>2, <1>3, LoadShiftMoves, ReadWhole DEF LoadShift

\* A reference that is moved.
LEMMA MovedGood ==
  ASSUME NEW s, NEW p \in Pointer, NEW b \in Int, NEW shift \in Int, Good(s, p, b)
  PROVE  Good(s, Moved(p, shift), b + shift)
BY MovedFacts DEF Good

\* A store of what is there.
LEMMA PutCellSame ==
  ASSUME TypeOK, NEW s \in Storage, NEW c \in Cell,
         img' = Put(<<s, "cell", c>>, img[s].ref[c])
  PROVE  img' = img
<1>1. img \in [Storage -> Image] /\ img[s] \in Image /\ img[s].ref \in [Cell -> Pointer]
  BY DEF TypeOK, Image
<1>2. img' = [img EXCEPT ![s] = [img[s] EXCEPT !.ref = [img[s].ref EXCEPT ![c] = img[s].ref[c]]]]
  BY DEF Put
<1>3. [img[s].ref EXCEPT ![c] = img[s].ref[c]] = img[s].ref
  BY <1>1
<1>4. [img[s] EXCEPT !.ref = img[s].ref] = img[s]
  BY <1>1 DEF Image
<1> QED BY <1>1, <1>2, <1>3, <1>4

LEMMA DepthNat == Depth \in Nat
BY StoragesAssumption, FS_CardinalityType DEF Depth

\* In a collection the constructor pushes the field of its object.
LEMMA FieldsMark ==
  ASSUME WholeInv, NEW t \in Thread, Fields(t), Collects(t) PROVE WholeInv'
<1>1. /\ ControlInv /\ StackInv /\ ShiftInv /\ ImageInv /\ TypeOK /\ PointInv
      /\ PositionInv(t) /\ StackedInv(t) /\ MarkInv(t)
  BY DEF WholeInv, ControlInv, ImageInv
<1>2. th[t].pc = "fields" /\ Marks(t)
  BY DEF Fields, Marks, Marking, Building
<1>3. /\ th[t].op \in {"collect", "open"} /\ th[t].op \in Serial /\ th[t].op \in Operations
      /\ th[t].pc \in Points(th[t].op, th[t].gc)
  BY <1>1, <1>2, AtPoint, Inside DEF Serial
<1>4. PICK s \in Storage : th[t].want = s /\ th[t].s = s
  BY <1>1, <1>2, Inside
<1> DEFINE n == Height(t)
           f == <<s, "cell", th[t].cell>>
<1>5. n \in 0..Depth /\ gc_stack = <<t, n>> /\ th[t].gs = <<t, n>>
  BY <1>1, <1>2 DEF PositionInv, Building
<1>6. th[t].gs # None /\ th[t].gs[1] = t /\ th[t].gs[2] = n
  BY <1>5, StoragesAssumption
<1>7. CellField(t) = f
  BY <1>4 DEF CellField
<1> HIDE DEF n, f
<1>8. /\ n < Depth /\ stack' = [stack EXCEPT ![t][n + 1] = f] /\ Step(t, "store stack")
      /\ chain' = chain /\ next' = next /\ hdr' = hdr /\ mapped' = mapped /\ img' = img
      /\ global_mutex' = global_mutex /\ gc_stack' = gc_stack
      /\ base_address_shift' = base_address_shift
  BY <1>4, <1>6 DEF Fields, list, map, locks, globals, f
<1>9. "store stack" \in Point
  BY DEF Point, Marking
<1>10. /\ th' \in [Thread -> Activity] /\ Others(t) /\ KeepsOp(t) /\ KeepsWork(t)
       /\ th'[t].pc = "store stack" /\ th'[t].s = th[t].s
  BY <1>1, <1>8, <1>9, StepMoves
<1>11. /\ DOMAIN stack' = Thread /\ \A u \in Thread : DOMAIN stack'[u] = 1..Depth
       /\ n + 1 \in 1..Depth
       /\ stack'[t][n + 1] = f
       /\ \A m \in 1..n : stack'[t][m] = stack[t][m]
  <2>1. n \in 0..Depth /\ n < Depth
    BY <1>5, <1>8
  <2>2. n + 1 \in 1..Depth /\ 1..n \subseteq 1..Depth /\ n + 1 \notin 1..n
    BY <2>1, DepthNat
  <2> QED BY <1>1, <1>8, <2>2 DEF TypeOK
<1>12. TypeOK'
  BY <1>1, <1>8, <1>10, <1>11 DEF TypeOK
<1>13. ControlInv' /\ ChainInv' /\ AddressInv' /\ SearchInv'
  <2>1. "store stack" \in Points(th[t].op, th[t].gc)
    BY <1>2, <1>3 DEF Points, Marking, Collects
  <2> QED BY <1>2, <1>3, <1>8, <1>10, <1>12, <2>1, InnerFrame
<1>14. Marks(t)'
  BY <1>10 DEF Marks, Marking, KeepsOp, Collects
<1>15. StackInv'
  BY <1>1, <1>8, <1>10, <1>14, StackFrame
<1>16. ShiftInv'
  <2>1. Shifts(t)' <=> Shifts(t)
    BY <1>2, <1>10 DEF Shifts, Marking, Building, KeepsOp
  <2>2. th[t].op = "open" => th[t].gc
    BY DEF Collects
  <2> QED BY <1>1, <1>8, <1>10, <2>1, <2>2, ShiftFrame DEF ShiftInv, KeepsOp, KeepsWork
<1>17. ImageInv'
  <2>1. th'[t].want = s /\ th'[t].cell = th[t].cell /\ th'[t].todo = th[t].todo
        /\ th'[t].gs = th[t].gs
    BY <1>4, <1>10 DEF KeepsOp, KeepsWork
  <2>2. Height(t)' = n + 1
    BY <1>6, <1>10, <2>1 DEF Height
  <2>3. /\ OldBase(t)' = OldBase(t)
        /\ \A p, b : Good(s, p, b)' <=> Good(s, p, b)
        /\ \A p : Followed(t, p)' <=> Followed(t, p)
    BY <1>4, <1>8, <1>10, <2>1 DEF OldBase, KeepsWork, Good, Followed
  <2>4. \A g : OnStack(t, g)' <=> OnStack(t, g) \/ g = f
    <3> SUFFICES ASSUME NEW g PROVE OnStack(t, g)' <=> OnStack(t, g) \/ g = f
      OBVIOUS
    <3>1. OnStack(t, g)' <=> \E m \in 1..(n + 1) : stack'[t][m] = g
      BY <2>2 DEF OnStack
    <3>2. OnStack(t, g) <=> \E m \in 1..n : stack[t][m] = g
      BY DEF OnStack, n
    <3>3. 1..(n + 1) = (1..n) \cup {n + 1}
      BY <1>5
    <3> QED BY <1>11, <3>1, <3>2, <3>3
  <2>5. \A g : Pending(t, g)' <=> Pending(t, g)
    BY <1>2, <1>7, <1>10, <2>4 DEF Pending, Building
  <2>6. PositionInv(t)'
    <3>1. n \in 0..Depth /\ n < Depth
      BY <1>5, <1>8
    <3>2. n + 1 \in 0..Depth /\ n + 1 > 0 /\ (n + 1) - 1 = n
      BY <3>1, DepthNat
    <3> QED BY <1>5, <1>10, <2>1, <2>2, <3>2 DEF PositionInv, Building
  <2>7. StackedInv(t)'
    <3>1. /\ th[t].todo \subseteq img[s].live
          /\ th[t].cell \in th[t].todo /\ ~OnStack(t, f)
          /\ \A m \in 1..n :
               \/ \E i \in Roots : stack[t][m] = <<s, "root", i>>
               \/ \E c \in th[t].todo : stack[t][m] = <<s, "cell", c>>
          /\ \A m, k \in 1..n : stack[t][m] = stack[t][k] => m = k
      BY <1>1, <1>2, <1>4, <1>7 DEF StackedInv, Building, n
    <3>2. 1..(n + 1) = (1..n) \cup {n + 1}
      BY <1>5
    <3>3. ASSUME NEW m \in 1..(n + 1)
          PROVE  \/ \E i \in Roots : stack'[t][m] = <<s, "root", i>>
                 \/ \E c \in th[t].todo : stack'[t][m] = <<s, "cell", c>>
      BY <3>1, <3>2, <1>11 DEF f
    <3>4. \A m \in 1..n : stack[t][m] # f
      BY <3>1 DEF OnStack, n
    <3>5. ASSUME NEW m \in 1..(n + 1), NEW k \in 1..(n + 1), stack'[t][m] = stack'[t][k]
          PROVE  m = k
      BY <3>1, <3>2, <3>4, <3>5, <1>11
    <3>6. th'[t].pc \notin Building
      BY <1>10 DEF Building
    <3>7. (th[t].todo \subseteq img[th[t].want].live)'
      BY <3>1, <2>1, <1>8
    <3>8. (\A m \in 1..Height(t) :
              \/ \E i \in Roots : stack[t][m] = <<th[t].want, "root", i>>
              \/ \E c \in th[t].todo : stack[t][m] = <<th[t].want, "cell", c>>)'
      BY <3>3, <2>1, <2>2
    <3>9. (\A m, k \in 1..Height(t) : stack[t][m] = stack[t][k] => m = k)'
      BY <3>5, <2>2
    <3> QED BY <3>6, <3>7, <3>8, <3>9 DEF StackedInv
  <2>8. MarkInv(t)'
    BY <1>1, <1>2, <1>4, <1>8, <2>1, <2>3, <2>5 DEF MarkInv
  <2>9. RestInv(s)' /\ RootsInv(t)' /\ AdjustInv(t)'
    <3>1. Moves(t)' /\ ~Adjusts(t)' /\ th'[t].pc # "roots"
      BY <1>3, <1>10 DEF Moves, Adjusts, Marking, Building, KeepsOp
    <3> QED BY <3>1, <2>1 DEF RestInv, RootsInv, AdjustInv
  <2> QED BY <1>1, <1>2, <1>3, <1>4, <1>8, <1>10, <1>13, <2>6, <2>7, <2>8, <2>9, SerialImage
<1> QED BY <1>13, <1>15, <1>16, <1>17 DEF WholeInv

\* In an open() that adjusts references the constructor moves its own.
LEMMA FieldsAdjust ==
  ASSUME Apart, WholeInv, NEW t \in Thread, Fields(t), ~Collects(t), th[t].op = "open"
  PROVE  WholeInv'
<1>1. /\ ControlInv /\ StackInv /\ ShiftInv /\ ImageInv /\ TypeOK /\ PointInv /\ AdjustInv(t)
  BY DEF WholeInv, ControlInv, ImageInv
<1>2. th[t].pc = "fields" /\ ~th[t].gc /\ Adjusts(t) /\ th[t].op \in Serial
  BY DEF Fields, Collects, Adjusts, Building, Serial
<1>3. PICK s \in Storage : th[t].want = s /\ th[t].s = s
  BY <1>1, <1>2, Inside
<1>4. th[t].gs = None /\ th[t].sh = th[t].shift /\ th[t].shift \in Int
  BY <1>1, <1>2 DEF StackInv, ShiftInv, TypeOK, Activity
<1>5. img[s] \in Image /\ img[s].base \in Int /\ img[s].live \subseteq Cell
  BY <1>1, StoragesAssumption DEF TypeOK, Image
<1>6. PICK c \in Cell : th[t].cell = c /\ c \in img[s].live /\ c \notin th[t].todo
  BY <1>1, <1>2, <1>3, <1>5 DEF AdjustInv, Left, Building
<1>7. img[s].ref[c] \in Pointer
  BY <1>5 DEF Image
<1> DEFINE p == Moved(img[s].ref[c], th[t].shift)
<1>8. p \in Pointer
  BY <1>4, <1>7, MovedFacts
<1>9. /\ img' = Put(<<s, "cell", c>>, p) /\ Step(t, "adjust") /\ stack' = stack
      /\ chain' = chain /\ next' = next /\ hdr' = hdr /\ mapped' = mapped
      /\ global_mutex' = global_mutex /\ gc_stack' = gc_stack
      /\ base_address_shift' = base_address_shift
  BY <1>2, <1>3, <1>4, <1>6 DEF Fields, After, Content, list, map, locks, globals
<1>10. /\ img' \in [Storage -> Image]
       /\ \A r \in Storage : /\ r # s => img'[r] = img[r]
                            /\ img'[r].base = img[r].base
                            /\ img'[r].live = img[r].live
                            /\ img'[r].root = img[r].root
       /\ img'[s].ref[c] = p
       /\ \A d \in Cell : d # c => img'[s].ref[d] = img[s].ref[d]
  BY <1>1, <1>8, <1>9, PutCell
<1>11. "adjust" \in Point
  BY DEF Point
<1>12. /\ th' \in [Thread -> Activity] /\ Others(t) /\ KeepsOp(t) /\ KeepsWork(t)
       /\ th'[t].pc = "adjust" /\ th'[t].s = th[t].s
  BY <1>1, <1>9, <1>11, StepMoves
<1>13. TypeOK'
  BY <1>1, <1>9, <1>10, <1>12 DEF TypeOK
<1>14. ControlInv' /\ ChainInv' /\ AddressInv' /\ SearchInv'
  <2>1. "adjust" \in Points(th[t].op, th[t].gc)
    BY <1>2 DEF Points
  <2> QED BY <1>2, <1>9, <1>10, <1>12, <1>13, <2>1, InnerFrame
<1>15. StackInv'
  BY <1>1, <1>9, <1>12, StackFrame DEF Marks
<1>16. ShiftInv'
  <2>1. Shifts(t)' /\ base_address_shift = th[t].shift
    BY <1>1, <1>2, <1>12 DEF Shifts, KeepsOp, ShiftInv, Building
  <2> QED BY <1>1, <1>2, <1>9, <1>12, <2>1, ShiftFrame DEF KeepsOp, KeepsWork
<1>17. ImageInv'
  <2>1. /\ th'[t].want = s /\ th'[t].todo = th[t].todo /\ th'[t].shift = th[t].shift
        /\ th'[t].op = "open" /\ ~th'[t].gc
    BY <1>2, <1>3, <1>12 DEF KeepsOp, KeepsWork
  <2>2. /\ Left(t) = th[t].todo \cup {c} /\ Left(t)' = th[t].todo
        /\ OldBase(t) = img[s].base - th[t].shift /\ OldBase(t)' = OldBase(t)
    BY <1>2, <1>3, <1>6, <1>10, <1>12, <2>1 DEF Left, OldBase, Building
  <2>3. \A q, b : Good(s, q, b)' <=> Good(s, q, b)
    BY <1>10 DEF Good
  <2>4. /\ Left(t) \subseteq img[s].live
        /\ \A i \in Roots : Good(s, img[s].root[i], img[s].base)
        /\ \A d \in img[s].live :
             Good(s, img[s].ref[d], IF d \in Left(t) THEN OldBase(t) ELSE img[s].base)
    BY <1>1, <1>2, <1>3 DEF AdjustInv
  <2>5. Good(s, p, img[s].base)
    <3>1. Good(s, img[s].ref[c], OldBase(t))
      BY <1>6, <2>2, <2>4
    <3>2. OldBase(t) \in Int /\ OldBase(t) + th[t].shift = img[s].base
      BY <1>4, <1>5, <2>2
    <3>3. Good(s, p, OldBase(t) + th[t].shift)
      BY <1>4, <1>7, <3>1, <3>2, MovedGood
    <3> QED BY <3>2, <3>3
  <2>6. ASSUME NEW d \in img[s].live
        PROVE  Good(s, img'[s].ref[d], IF d \in th[t].todo THEN OldBase(t) ELSE img[s].base)
    <3>1. CASE d = c
      BY <3>1, <1>6, <1>10, <2>5
    <3>2. CASE d # c
      BY <3>2, <1>5, <1>10, <2>2, <2>4
    <3> QED BY <3>1, <3>2
  <2>7. AdjustInv(t)'
    <3>1. (Left(t) \subseteq img[s].live)'
      BY <1>10, <2>2, <2>4
    <3>2. (\A i \in Roots : Good(s, img[s].root[i], img[s].base))'
      BY <1>10, <2>3, <2>4
    <3>3. (\A d \in img[s].live :
             Good(s, img[s].ref[d], IF d \in Left(t) THEN OldBase(t) ELSE img[s].base))'
      BY <1>10, <2>2, <2>3, <2>6
    <3> QED BY <1>12, <2>1, <3>1, <3>2, <3>3 DEF AdjustInv, Building
  <2>8. Moves(t)' /\ ~Marks(t)'
    BY <1>12, <2>1 DEF Moves, Marks, Collects
  <2>9. RestInv(s)' /\ RootsInv(t)' /\ PositionInv(t)' /\ StackedInv(t)' /\ MarkInv(t)'
    BY <1>12, <2>1, <2>8 DEF RestInv, RootsInv, PositionInv, StackedInv, MarkInv
  <2> QED BY <1>1, <1>2, <1>3, <1>10, <1>12, <1>14, <2>7, <2>9, SerialImage
<1> QED BY <1>14, <1>15, <1>16, <1>17 DEF WholeInv

\* The constructor of a new object leaves its cleared fields as they are.
LEMMA FieldsNew ==
  ASSUME Apart, WholeInv, NEW t \in Thread, Fields(t), ~Collects(t), th[t].op = "new"
  PROVE  WholeInv'
<1>1. /\ ControlInv /\ StackInv /\ ShiftInv /\ ImageInv /\ TypeOK /\ PointInv
      /\ ObjectInv(t) /\ OwnCellInv
  BY DEF WholeInv, ControlInv, ImageInv
<1>2. th[t].pc = "fields" /\ Makes(t)
  BY DEF Fields, Makes
<1>3. PICK s \in Storage : th[t].want = s /\ th[t].s = s
  BY <1>1, <1>2, Inside
<1>4. th[t].gs = None
  BY <1>1, <1>2 DEF StackInv
<1>5. img[s].live \subseteq Cell
  BY <1>1 DEF TypeOK, Image
<1>6. PICK c \in Cell : th[t].cell = c /\ c \in img[s].live /\ img[s].ref[c] = NULL
  BY <1>1, <1>2, <1>3, <1>5 DEF ObjectInv
<1>7. Moved(img[s].ref[c], th[t].sh) = img[s].ref[c]
  BY <1>6 DEF Moved
<1>8. /\ img' = Put(<<s, "cell", c>>, img[s].ref[c]) /\ Step(t, "use") /\ stack' = stack
      /\ chain' = chain /\ next' = next /\ hdr' = hdr /\ mapped' = mapped
      /\ global_mutex' = global_mutex /\ gc_stack' = gc_stack
      /\ base_address_shift' = base_address_shift
  BY <1>2, <1>3, <1>4, <1>6, <1>7 DEF Fields, After, Content, list, map, locks, globals
<1>9. img' = img
  BY <1>1, <1>8, PutCellSame
<1>10. "use" \in Point
  BY DEF Point
<1>11. /\ th' \in [Thread -> Activity] /\ Others(t) /\ KeepsOp(t) /\ KeepsWork(t)
       /\ th'[t].pc = "use" /\ th'[t].s = th[t].s
  BY <1>1, <1>8, <1>10, StepMoves
<1>12. TypeOK'
  BY <1>1, <1>8, <1>9, <1>11 DEF TypeOK
<1>13. ControlInv' /\ ChainInv' /\ AddressInv' /\ SearchInv'
  <2>1. "use" \in Points(th[t].op, th[t].gc)
    BY DEF Points
  <2> QED BY <1>2, <1>8, <1>9, <1>11, <1>12, <2>1, InnerFrame
<1>14. StackInv'
  BY <1>1, <1>8, <1>11, StackFrame DEF Marks
<1>15. ShiftInv'
  BY <1>1, <1>8, <1>11, ShiftFrame DEF Shifts, KeepsOp
<1>16. ImageInv'
  <2>1. ~Moves(t) /\ ~Moves(t)' /\ Makes(t)' /\ ~Deletes(t)'
    BY <1>11 DEF Moves, Makes, Deletes, KeepsOp
  <2>2. th'[t].want = s /\ th'[t].cell = c
    BY <1>3, <1>6, <1>11 DEF KeepsOp, KeepsWork
  <2>3. OwnCellInv'
    BY <1>1, <1>2, <1>3, <1>6, <1>11, <2>2, OwnCellSame
  <2>4. ObjectInv(t)'
    BY <1>6, <1>9, <2>1, <2>2 DEF ObjectInv
  <2> QED BY <1>1, <1>2, <1>8, <1>9, <1>11, <1>13, <2>1, <2>3, <2>4, QuietImage
<1> QED BY <1>13, <1>14, <1>15, <1>16 DEF WholeInv

LEMMA FieldsWhole ==
  ASSUME Apart, WholeInv, NEW t \in Thread, Fields(t) PROVE WholeInv'
<1>1. th[t].op \in {"collect", "open", "new"}
  BY AtPoint DEF Fields, Building, WholeInv, ControlInv
<1>2. th[t].op = "collect" => Collects(t)
  BY DEF Collects
<1> QED BY <1>1, <1>2, FieldsMark, FieldsAdjust, FieldsNew

-----------------------------------------------------------------------------
(* Collections.                                                            *)

\* A collection that is at work may have any stack of its own.
LEMMA StackOwn ==
  ASSUME StackInv, NEW t \in Thread, Others(t), Marks(t)' PROVE StackInv'
<1>1. ASSUME Apart, NEW u \in Thread, ~Collects(u)', th'[u].pc \in {"load shift", "fields"}
      PROVE  th'[u].gs = None
  <2>1. u # t
    BY <1>1 DEF Marks
  <2> QED BY <1>1, <2>1 DEF StackInv, Collects, Others
<1> QED BY <1>1 DEF StackInv, Marks

\* The shift is that of an open() that goes on with its collection.
LEMMA ShiftOwn ==
  ASSUME ShiftInv, NEW t \in Thread, Others(t), KeepsOp(t), Marks(t), Marks(t)',
         th'[t].shift = th[t].shift, base_address_shift' = base_address_shift
  PROVE  ShiftInv'
<1>1. Shifts(t)' <=> Shifts(t)
  BY DEF Shifts, Marks, KeepsOp
<1>2. th[t].op = "open" => th[t].gc
  BY DEF Marks, Collects
<1> QED BY <1>1, <1>2, ShiftFrame DEF ShiftInv, KeepsOp

KeepsMarks(t) == /\ th'[t].s = th[t].s /\ th'[t].shift = th[t].shift
                 /\ th'[t].todo = th[t].todo

Passing == {"store stack", "back"}

LEMMA HeightPassed ==
  ASSUME NEW t, NEW n, th'[t].pc \in {"back", "pop"},
         gc_stack' = <<t, n>>, th'[t].pc = "pop" => th'[t].sp = <<t, n>>
  PROVE  Height(t)' = n
<1>1. gc_stack'[2] = n
  OBVIOUS
<1>2. th'[t].pc = "pop" => th'[t].sp[2] = n
  OBVIOUS
<1> QED BY <1>1, <1>2 DEF Height

\* The stack pointer is passed on between a constructor and the collection.
LEMMA PassWhole ==
  ASSUME WholeInv, NEW t \in Thread, th[t].pc \in Passing,
         th' \in [Thread -> Activity], Others(t), KeepsOp(t), KeepsMarks(t),
         th'[t].pc \in {"back", "pop"}, NEW n \in Nat, n = Height(t),
         gc_stack' = <<t, n>>, th'[t].pc = "pop" => th'[t].sp = <<t, n>>,
         UNCHANGED <<list, map, img, locks, base_address_shift, stack>>
  PROVE  WholeInv'
<1>1. /\ ControlInv /\ StackInv /\ ShiftInv /\ ImageInv /\ TypeOK /\ PointInv
      /\ PositionInv(t) /\ StackedInv(t) /\ MarkInv(t)
  BY DEF WholeInv, ControlInv, ImageInv
<1>2. /\ Collects(t) /\ th[t].op \in {"collect", "open"}
  BY <1>1, AtPoint DEF Passing
<1>3. Marks(t) /\ Marks(t)' /\ th[t].op \in Serial
  BY <1>2 DEF Marks, Marking, Collects, KeepsOp, Serial, Passing
<1>4. PICK s \in Storage : th[t].want = s /\ th'[t].want = s
  BY <1>1, Inside DEF KeepsOp, Passing
<1>5. /\ chain' = chain /\ next' = next /\ hdr' = hdr /\ mapped' = mapped /\ img' = img
      /\ global_mutex' = global_mutex /\ base_address_shift' = base_address_shift
      /\ stack' = stack
  BY DEF list, map, locks
<1>6. n \in 0..Depth
  BY <1>1, <1>3 DEF PositionInv
<1>7. TypeOK'
  <2>1. gc_stack' \in Position
    BY DEF Position
  <2> QED BY <1>1, <1>5, <2>1 DEF TypeOK
<1>8. ControlInv' /\ ChainInv' /\ AddressInv' /\ SearchInv'
  <2>1. {"back", "pop"} \subseteq Points(th[t].op, th[t].gc)
    BY <1>2 DEF Points, Marking, Collects
  <2> QED BY <1>5, <1>7, <2>1, InnerFrame DEF KeepsMarks, Passing
<1>9. StackInv' /\ ShiftInv'
  BY <1>1, <1>3, <1>5, StackOwn, ShiftOwn DEF KeepsMarks
<1>10. Height(t)' = n
  BY HeightPassed
<1>11. ImageInv'
  <2>1. th[t].pc \notin Building /\ th'[t].pc \notin Building \cup {"store stack", "roots", "adjust"}
    BY DEF Building, Passing
  <2>2. /\ OldBase(t)' = OldBase(t)
        /\ \A p, b : Good(s, p, b)' <=> Good(s, p, b)
        /\ \A p : Followed(t, p)' <=> Followed(t, p)
    BY <1>4, <1>5 DEF OldBase, Good, Followed, KeepsMarks
  <2>3. \A f : (OnStack(t, f)' <=> OnStack(t, f)) /\ (Pending(t, f)' <=> Pending(t, f))
    BY <1>5, <1>6, <1>10, <2>1 DEF OnStack, Pending
  <2>4. PositionInv(t)'
    BY <1>6, <1>10, <2>1 DEF PositionInv, Building
  <2>5. StackedInv(t)'
    <3>1. /\ th[t].todo \subseteq img[s].live
          /\ \A m \in 1..n :
               \/ \E i \in Roots : stack[t][m] = <<s, "root", i>>
               \/ \E c \in th[t].todo : stack[t][m] = <<s, "cell", c>>
          /\ \A m, k \in 1..n : stack[t][m] = stack[t][k] => m = k
      BY <1>1, <1>3, <1>4, <1>6 DEF StackedInv
    <3>2. (\A m \in 1..Height(t) :
              \/ \E i \in Roots : stack[t][m] = <<th[t].want, "root", i>>
              \/ \E c \in th[t].todo : stack[t][m] = <<th[t].want, "cell", c>>)'
      BY <3>1, <1>4, <1>5, <1>10 DEF KeepsMarks
    <3> QED BY <1>4, <1>5, <1>10, <2>1, <3>1, <3>2 DEF StackedInv, KeepsMarks
  <2>6. MarkInv(t)'
    BY <1>1, <1>3, <1>4, <1>5, <2>2, <2>3 DEF MarkInv, KeepsMarks
  <2>7. Moves(t)' /\ ~Adjusts(t)'
    BY <1>2, <2>1 DEF Moves, Adjusts, Marking, KeepsOp
  <2>8. RestInv(s)' /\ RootsInv(t)' /\ AdjustInv(t)'
    BY <1>4, <2>1, <2>7 DEF RestInv, RootsInv, AdjustInv
  <2> QED BY <1>1, <1>3, <1>4, <1>5, <1>8, <2>4, <2>5, <2>6, <2>8, SerialImage DEF Passing
<1> QED BY <1>8, <1>9, <1>11 DEF WholeInv

LEMMA StoreStackWhole ==
  ASSUME WholeInv, NEW t \in Thread, StoreStack(t) PROVE WholeInv'
<1>1. TypeOK /\ PointInv /\ PositionInv(t) /\ th[t].pc = "store stack"
  BY DEF WholeInv, ControlInv, ImageInv, StoreStack
<1>2. Marks(t) /\ th[t].op \in {"collect", "open"} /\ Collects(t)
  BY <1>1, AtPoint DEF Marks, Marking
<1>3. Height(t) \in 0..Depth /\ th[t].gs = <<t, Height(t) - 1>>
  BY <1>1, <1>2 DEF PositionInv
<1>4. PICK n \in Nat : n = Height(t) /\ th[t].gs = <<t, n - 1>>
  BY <1>3, DepthNat
<1>5. gc_stack' = <<t, n>>
  <2>1. th[t].gs[1] = t /\ th[t].gs[2] + 1 = n
    BY <1>4
  <2> QED BY <2>1 DEF StoreStack
<1>6. After(t) = "back"
  BY <1>2 DEF After, Collects
<1>7. "back" \in Point
  BY DEF Point, Marking
<1>8. /\ th' \in [Thread -> Activity] /\ Others(t) /\ KeepsOp(t) /\ KeepsWork(t)
      /\ th'[t].pc = "back" /\ th'[t].s = th[t].s
  BY <1>1, <1>6, <1>7, StepMoves DEF StoreStack
<1>9. KeepsMarks(t) /\ UNCHANGED <<list, map, img, locks, base_address_shift, stack>>
  BY <1>8 DEF StoreStack, KeepsWork, KeepsMarks
<1> QED BY <1>1, <1>4, <1>5, <1>8, <1>9, PassWhole DEF Passing

LEMMA BackWhole ==
  ASSUME WholeInv, NEW t \in Thread, Back(t) PROVE WholeInv'
<1>1. TypeOK /\ PointInv /\ PositionInv(t) /\ th[t].pc = "back"
  BY DEF WholeInv, ControlInv, ImageInv, Back
<1>2. Marks(t)
  BY <1>1, AtPoint DEF Marks, Marking
<1>3. Height(t) \in 0..Depth /\ gc_stack = <<t, Height(t)>> /\ gc_stack' = gc_stack
  BY <1>1, <1>2 DEF PositionInv, Back, globals
<1>4. PICK n \in Nat : n = Height(t) /\ gc_stack = <<t, n>>
  BY <1>3, DepthNat
<1>5. /\ th' \in [Thread -> Activity] /\ Others(t) /\ KeepsOp(t) /\ th'[t].pc = "pop"
      /\ th'[t].sp = <<t, n>> /\ KeepsMarks(t)
  BY <1>1, <1>4, BackMoves DEF KeepsMarks
<1>6. gc_stack' = <<t, n>> /\ UNCHANGED <<list, map, img, locks, base_address_shift, stack>>
  BY <1>3, <1>4 DEF Back, globals
<1> QED BY <1>1, <1>4, <1>5, <1>6, PassWhole DEF Passing

\* A store into a field of a storage.
Stored(s, f, p) ==
  /\ img' \in [Storage -> Image]
  /\ \A r \in Storage : /\ r # s => img'[r] = img[r]
                       /\ img'[r].base = img[r].base
                       /\ img'[r].live = img[r].live
  /\ \A i \in Roots : img'[s].root[i] = IF f = <<s, "root", i>> THEN p ELSE img[s].root[i]
  /\ \A c \in Cell : img'[s].ref[c] = IF f = <<s, "cell", c>> THEN p ELSE img[s].ref[c]

LEMMA PutField ==
  ASSUME TypeOK, NEW s \in Storage, NEW p \in Pointer, NEW f,
         \/ \E i \in Roots : f = <<s, "root", i>>
         \/ \E c \in Cell : f = <<s, "cell", c>>,
         img' = Put(f, p)
  PROVE  Stored(s, f, p)
<1>1. CASE \E i \in Roots : f = <<s, "root", i>>
  <2>1. PICK i \in Roots : f = <<s, "root", i>>
    BY <1>1
  <2>2. img' = Put(<<s, "root", i>>, p)
    BY <2>1
  <2>3. /\ \A j \in Roots : f = <<s, "root", j>> <=> j = i
        /\ \A c \in Cell : f # <<s, "cell", c>>
    BY <2>1
  <2>4. /\ img' \in [Storage -> Image]
        /\ \A r \in Storage : /\ r # s => img'[r] = img[r]
                             /\ img'[r].base = img[r].base
                             /\ img'[r].live = img[r].live
                             /\ img'[r].ref = img[r].ref
        /\ img'[s].root[i] = p
        /\ \A j \in Roots : j # i => img'[s].root[j] = img[s].root[j]
    BY <2>2, PutRoot
  <2> QED BY <2>3, <2>4 DEF Stored
<1>2. CASE \E c \in Cell : f = <<s, "cell", c>>
  <2>1. PICK c \in Cell : f = <<s, "cell", c>>
    BY <1>2
  <2>2. img' = Put(<<s, "cell", c>>, p)
    BY <2>1
  <2>3. /\ \A d \in Cell : f = <<s, "cell", d>> <=> d = c
        /\ \A i \in Roots : f # <<s, "root", i>>
    BY <2>1
  <2>4. /\ img' \in [Storage -> Image]
        /\ \A r \in Storage : /\ r # s => img'[r] = img[r]
                             /\ img'[r].base = img[r].base
                             /\ img'[r].live = img[r].live
                             /\ img'[r].root = img[r].root
        /\ img'[s].ref[c] = p
        /\ \A d \in Cell : d # c => img'[s].ref[d] = img[s].ref[d]
    BY <2>2, PutCell
  <2> QED BY <2>3, <2>4 DEF Stored
<1> QED BY <1>1, <1>2

\* The fields on a stack of n fields, and on the stack without the last one.
LEMMA Popped ==
  ASSUME NEW t, NEW n \in Nat, n > 0, Height(t) = n, Height(t)' = n - 1,
         stack' = stack, NEW f, f = stack[t][n],
         \A m, k \in 1..n : stack[t][m] = stack[t][k] => m = k
  PROVE  \A g : OnStack(t, g)' <=> OnStack(t, g) /\ g # f
<1> SUFFICES ASSUME NEW g PROVE OnStack(t, g)' <=> OnStack(t, g) /\ g # f
  OBVIOUS
<1>1. OnStack(t, g) <=> \E m \in 1..n : stack[t][m] = g
  BY DEF OnStack
<1>2. OnStack(t, g)' <=> \E m \in 1..(n - 1) : stack[t][m] = g
  BY DEF OnStack
<1>3. 1..n = (1..(n - 1)) \cup {n} /\ n \notin 1..(n - 1)
  OBVIOUS
<1> QED BY <1>1, <1>2, <1>3

\* A field that was on the stack has been followed; what it led to, if it was
\* not marked before, is marked and its own field is to be followed.
LEMMA PopMark ==
  ASSUME NEW t, NEW s \in Storage, th[t].want = s, th'[t].want = s, Marks(t),
         th[t].pc \notin Building, MarkInv(t),
         img[s].live \subseteq Cell, NEW f, NEW p,
         img'[s].base = img[s].base, img'[s].live = img[s].live,
         \A i \in Roots : img'[s].root[i] = IF f = <<s, "root", i>> THEN p
                                                                    ELSE img[s].root[i],
         \A c \in Cell : img'[s].ref[c] = IF f = <<s, "cell", c>> THEN p
                                                                  ELSE img[s].ref[c],
         OnStack(t, f),
         \A c : f = <<s, "cell", c>> => c \in th[t].todo,
         OldBase(t)' = OldBase(t), Followed(t, p)',
         th[t].todo \subseteq th'[t].todo,
         \A g : Pending(t, g)' <=> \/ OnStack(t, g) /\ g # f
                                   \/ \E d \in th'[t].todo \ th[t].todo : g = <<s, "cell", d>>
  PROVE  MarkInv(t)'
<1>1. /\ \A i \in Roots :
           IF OnStack(t, <<s, "root", i>>) THEN Good(s, img[s].root[i], OldBase(t))
                                           ELSE Followed(t, img[s].root[i])
      /\ \A c \in img[s].live :
           IF c \in th[t].todo /\ ~OnStack(t, <<s, "cell", c>>)
           THEN Followed(t, img[s].ref[c]) ELSE Good(s, img[s].ref[c], OldBase(t))
  BY DEF MarkInv, Pending
<1> DEFINE W(q) == q = NULL \/ (q.base = img[s].base /\ q.to \in th'[t].todo)
<1>2. /\ \A q, b : Good(s, q, b)' <=> Good(s, q, b)
      /\ \A q : Followed(t, q)' <=> W(q)
      /\ \A q : Followed(t, q) => W(q)
      /\ W(p)
  BY DEF Good, Followed
<1> HIDE DEF W
<1>3. ASSUME NEW i \in Roots
      PROVE  IF Pending(t, <<s, "root", i>>)' THEN Good(s, img'[s].root[i], OldBase(t))
                                              ELSE W(img'[s].root[i])
  <2>1. \A d : <<s, "root", i>> # <<s, "cell", d>>
    OBVIOUS
  <2>2. Pending(t, <<s, "root", i>>)' <=> OnStack(t, <<s, "root", i>>) /\ <<s, "root", i>> # f
    BY <2>1
  <2>3. CASE f = <<s, "root", i>>
    BY <1>2, <2>2, <2>3
  <2>4. CASE f # <<s, "root", i>>
    BY <1>1, <1>2, <2>2, <2>4
  <2> QED BY <2>3, <2>4
<1>4. ASSUME NEW c \in img[s].live
      PROVE  IF c \in th'[t].todo /\ ~Pending(t, <<s, "cell", c>>)'
             THEN W(img'[s].ref[c]) ELSE Good(s, img'[s].ref[c], OldBase(t))
  <2>1. \A d : <<s, "cell", c>> = <<s, "cell", d>> => d = c
    OBVIOUS
  <2>2. Pending(t, <<s, "cell", c>>)' <=>
           \/ OnStack(t, <<s, "cell", c>>) /\ <<s, "cell", c>> # f
           \/ c \in th'[t].todo \ th[t].todo
    BY <2>1
  <2>3. CASE f = <<s, "cell", c>>
    <3>1. c \in th[t].todo /\ ~Pending(t, <<s, "cell", c>>)'
      BY <2>2, <2>3
    <3> QED BY <1>2, <2>3, <3>1
  <2>4. CASE f # <<s, "cell", c>>
    <3>1. img'[s].ref[c] = img[s].ref[c]
      BY <2>4
    <3>2. (c \in th'[t].todo /\ ~Pending(t, <<s, "cell", c>>)') <=>
             c \in th[t].todo /\ ~OnStack(t, <<s, "cell", c>>)
      BY <2>2, <2>4
    <3> QED BY <1>1, <1>2, <3>1, <3>2
  <2> QED BY <2>3, <2>4
<1>5. (\A i \in Roots :
         IF Pending(t, <<s, "root", i>>) THEN Good(s, img[s].root[i], OldBase(t))
                                         ELSE Followed(t, img[s].root[i]))'
  BY <1>2, <1>3
<1>6. (\A c \in img[s].live :
         IF c \in th[t].todo /\ ~Pending(t, <<s, "cell", c>>)
         THEN Followed(t, img[s].ref[c]) ELSE Good(s, img[s].ref[c], OldBase(t)))'
  BY <1>2, <1>4
<1> QED BY <1>5, <1>6 DEF MarkInv

\* What Pop does with n references on the stack, p being the last one.
PopsOld(t, n, p) ==
  /\ p = NULL \/ p.to \in th[t].todo
  /\ th' = [th EXCEPT ![t].sp = <<t, n - 1>>] /\ gc_stack' = gc_stack
PopsNew(t, n, p) ==
  /\ p # NULL /\ p.to \notin th[t].todo
  /\ th' = [th EXCEPT ![t].sp = <<t, n - 1>>, ![t].cell = p.to,
                      ![t].todo = @ \cup {p.to}, ![t].pc = "load stack"]
  /\ gc_stack' = <<t, n - 1>>

LEMMA PopSteps ==
  ASSUME NEW t \in Thread, NEW n \in Nat, th[t].sp = <<t, n>>, Pop(t),
         NEW f, f = stack[t][n], NEW p, p = Moved(Content(f), th[t].shift)
  PROVE  /\ n > 0 /\ img' = Put(f, p) /\ (PopsOld(t, n, p) \/ PopsNew(t, n, p))
         /\ chain' = chain /\ next' = next /\ hdr' = hdr /\ mapped' = mapped
         /\ global_mutex' = global_mutex /\ base_address_shift' = base_address_shift
         /\ stack' = stack
<1>1. th[t].sp[1] = t /\ th[t].sp[2] = n
  OBVIOUS
<1>2. n > 0
  <2>1. th[t].sp \notin Thread \X {0}
    BY DEF Pop
  <2> QED BY <2>1
<1> DEFINE sp == <<th[t].sp[1], th[t].sp[2] - 1>>
<1>3. sp = <<t, n - 1>> /\ sp[1] = t /\ sp[2] + 1 = n
  BY <1>1
<1>4. stack[sp[1]][sp[2] + 1] = f
  BY <1>3
<1>5. /\ img' = Put(f, p)
      /\ IF p = NULL \/ p.to \in th[t].todo
           THEN th' = [th EXCEPT ![t].sp = sp] /\ UNCHANGED gc_stack
           ELSE /\ th' = [th EXCEPT ![t].sp = sp, ![t].cell = p.to,
                                    ![t].todo = @ \cup {p.to}, ![t].pc = "load stack"]
                /\ gc_stack' = sp
      /\ UNCHANGED <<list, map, locks, base_address_shift, stack>>
  BY <1>4 DEF Pop
<1> HIDE DEF sp
<1>6. /\ chain' = chain /\ next' = next /\ hdr' = hdr /\ mapped' = mapped
      /\ global_mutex' = global_mutex /\ base_address_shift' = base_address_shift
      /\ stack' = stack
  BY <1>5 DEF list, map, locks
<1>7. PopsOld(t, n, p) \/ PopsNew(t, n, p)
  BY <1>3, <1>5 DEF PopsOld, PopsNew
<1> QED BY <1>2, <1>5, <1>6, <1>7

\* A reference is taken from the stack, moved and followed.
LEMMA PopWhole ==
  ASSUME WholeInv, NEW t \in Thread, Pop(t) PROVE WholeInv'
<1>1. /\ ControlInv /\ StackInv /\ ShiftInv /\ ImageInv /\ TypeOK /\ PointInv
      /\ PositionInv(t) /\ StackedInv(t) /\ MarkInv(t)
  BY Zenon DEF WholeInv, ControlInv, ImageInv
<1>2. th[t].pc = "pop" /\ th[t].pc \notin Building
  BY DEF Pop, Building
<1>3. /\ Collects(t) /\ th[t].op \in {"collect", "open"} /\ Marks(t) /\ th[t].op \in Serial
  BY <1>1, <1>2, AtPoint DEF Marks, Marking, Serial
<1>4. PICK s \in Storage : th[t].want = s
  BY <1>1, <1>2, Inside
<1>5. Height(t) \in 0..Depth /\ th[t].sp = <<t, Height(t)>>
  BY <1>1, <1>2, <1>3 DEF PositionInv
<1>6. PICK n \in Nat : n = Height(t) /\ n \in 0..Depth /\ th[t].sp = <<t, n>>
  BY <1>5, DepthNat
<1>f. PICK f : f = stack[t][n]
  OBVIOUS
<1>p. PICK p : p = Moved(Content(f), th[t].shift)
  OBVIOUS
<1>7. /\ n > 0 /\ img' = Put(f, p) /\ (PopsOld(t, n, p) \/ PopsNew(t, n, p))
      /\ chain' = chain /\ next' = next /\ hdr' = hdr /\ mapped' = mapped
      /\ global_mutex' = global_mutex /\ base_address_shift' = base_address_shift
      /\ stack' = stack
  BY <1>6, <1>f, <1>p, PopSteps
<1>n. n > 0
  BY <1>7
<1>8. /\ th[t].todo \subseteq img[s].live
      /\ \A m \in 1..n :
           \/ \E i \in Roots : stack[t][m] = <<s, "root", i>>
           \/ \E c \in th[t].todo : stack[t][m] = <<s, "cell", c>>
      /\ \A m, k \in 1..n : stack[t][m] = stack[t][k] => m = k
  BY <1>1, <1>3, <1>4, <1>6 DEF StackedInv
<1>9. n \in 1..n /\ 1..(n - 1) \subseteq 1..n
  BY <1>n
<1>10. /\ img[s] \in Image /\ img[s].live \subseteq Cell /\ img[s].base \in Int
       /\ th[t].shift \in Int
  BY <1>1, StoragesAssumption DEF TypeOK, Image, Activity
<1>11. OnStack(t, f) /\ (\A c : f = <<s, "cell", c>> => c \in th[t].todo)
  BY <1>6, <1>8, <1>9, <1>f DEF OnStack
<1>12. \/ \E i \in Roots : f = <<s, "root", i>>
       \/ \E c \in Cell : f = <<s, "cell", c>>
  BY <1>8, <1>9, <1>10, <1>f
<1>13. Content(f) \in Pointer /\ Good(s, Content(f), OldBase(t))
  <2>1. /\ \A i \in Roots : OnStack(t, <<s, "root", i>>) => Good(s, img[s].root[i], OldBase(t))
        /\ \A c \in img[s].live : OnStack(t, <<s, "cell", c>>) => Good(s, img[s].ref[c], OldBase(t))
    BY <1>1, <1>3, <1>4 DEF MarkInv, Pending
  <2>2. ASSUME NEW i \in Roots, f = <<s, "root", i>>
        PROVE  Content(f) \in Pointer /\ Good(s, Content(f), OldBase(t))
    <3>1. Content(f) = img[s].root[i]
      BY <2>2 DEF Content
    <3> QED BY <3>1, <2>1, <2>2, <1>10, <1>11 DEF Image
  <2>3. ASSUME NEW c \in Cell, f = <<s, "cell", c>>
        PROVE  Content(f) \in Pointer /\ Good(s, Content(f), OldBase(t))
    <3>1. Content(f) = img[s].ref[c] /\ c \in img[s].live
      BY <2>3, <1>8, <1>11 DEF Content
    <3> QED BY <3>1, <2>1, <2>3, <1>10, <1>11 DEF Image
  <2> QED BY <1>12, <2>2, <2>3
<1>14. p \in Pointer /\ Good(s, p, img[s].base)
  <2>1. OldBase(t) \in Int /\ OldBase(t) + th[t].shift = img[s].base
    BY <1>4, <1>10 DEF OldBase
  <2>2. Good(s, p, OldBase(t) + th[t].shift)
    BY <2>1, <1>10, <1>13, <1>p, MovedGood
  <2> QED BY <2>1, <2>2, <1>10, <1>13, <1>p, MovedFacts
<1>15. /\ img' \in [Storage -> Image]
       /\ \A r \in Storage : /\ r # s => img'[r] = img[r]
                            /\ img'[r].base = img[r].base
                            /\ img'[r].live = img[r].live
       /\ \A i \in Roots : img'[s].root[i] = IF f = <<s, "root", i>> THEN p
                                                                     ELSE img[s].root[i]
       /\ \A c \in Cell : img'[s].ref[c] = IF f = <<s, "cell", c>> THEN p
                                                                   ELSE img[s].ref[c]
  <2>1. Stored(s, f, p)
    BY <1>1, <1>7, <1>12, <1>14, PutField
  <2> QED BY <2>1 DEF Stored
<1>16. <<t, n - 1>> \in Position /\ n - 1 \in 0..Depth /\ n - 1 \in Nat
  BY <1>6, <1>n, DepthNat DEF Position
<1>17. /\ th' \in [Thread -> Activity] /\ Others(t) /\ KeepsOp(t)
       /\ th'[t].s = th[t].s /\ th'[t].shift = th[t].shift
       /\ \/ /\ th'[t].pc = "pop" /\ th'[t].sp = <<t, n - 1>> /\ th'[t].todo = th[t].todo
             /\ gc_stack' = gc_stack /\ (p = NULL \/ p.to \in th[t].todo)
          \/ /\ th'[t].pc = "load stack" /\ gc_stack' = <<t, n - 1>> /\ p # NULL
             /\ p.to \notin th[t].todo /\ th'[t].cell = p.to
             /\ th'[t].todo = th[t].todo \cup {p.to}
  <2>1. p # NULL => p.to \in img[s].live
    BY <1>14 DEF Good
  <2>2. CASE PopsOld(t, n, p)
    <3>1. /\ th' = [th EXCEPT ![t].sp = <<t, n - 1>>] /\ gc_stack' = gc_stack
          /\ p = NULL \/ p.to \in th[t].todo
      BY <2>2 DEF PopsOld
    <3>2. /\ th' \in [Thread -> Activity] /\ Others(t) /\ KeepsOp(t)
          /\ th'[t].sp = <<t, n - 1>>
          /\ th'[t].pc = th[t].pc /\ th'[t].s = th[t].s /\ th'[t].shift = th[t].shift
          /\ th'[t].cell = th[t].cell /\ th'[t].todo = th[t].todo
      BY <3>1, <1>1, <1>16, PopMoves
    <3> QED BY <3>1, <3>2, <1>2
  <2>3. CASE PopsNew(t, n, p)
    <3>1. PICK c \in Cell : c = p.to
      BY <2>1, <2>3, <1>10 DEF PopsNew
    <3>2. PICK sp \in Position : sp = <<t, n - 1>>
      BY <1>16
    <3>3. /\ p # NULL /\ p.to \notin th[t].todo /\ gc_stack' = <<t, n - 1>>
          /\ th' = [th EXCEPT ![t].sp = sp, ![t].cell = c,
                              ![t].todo = @ \cup {c}, ![t].pc = "load stack"]
      BY <2>3, <3>1, <3>2 DEF PopsNew
    <3>4. /\ th' \in [Thread -> Activity] /\ Others(t) /\ KeepsOp(t)
          /\ th'[t].pc = "load stack" /\ th'[t].sp = sp /\ th'[t].cell = c
          /\ th'[t].todo = th[t].todo \cup {c}
          /\ th'[t].s = th[t].s /\ th'[t].shift = th[t].shift
      BY <3>3, <1>1, PopMarkMoves
    <3> QED BY <3>1, <3>3, <3>4
  <2> QED BY <1>7, <2>2, <2>3
<1>18. TypeOK'
  BY <1>1, <1>7, <1>15, <1>16, <1>17 DEF TypeOK
<1>19. ControlInv' /\ ChainInv' /\ AddressInv' /\ SearchInv'
  <2>1. {"pop", "load stack"} \subseteq Points(th[t].op, th[t].gc)
    BY <1>3 DEF Points, Marking, Building, Collects
  <2>2. th'[t].pc \in {"pop", "load stack"}
    BY <1>17
  <2> QED BY <1>2, <1>7, <1>15, <1>17, <1>18, <2>1, <2>2, InnerFrame
<1>20. Marks(t)' /\ th'[t].want = s
  BY <1>3, <1>4, <1>17 DEF Marks, Marking, Building, Collects, KeepsOp
<1>21. StackInv' /\ ShiftInv'
  BY <1>1, <1>3, <1>7, <1>17, <1>20, StackOwn, ShiftOwn
<1>22. Height(t)' = n - 1
  <2>1. CASE th'[t].pc = "pop" /\ th'[t].sp = <<t, n - 1>>
    <3>1. th'[t].sp[2] = n - 1
      BY <2>1
    <3> QED BY <2>1, <3>1 DEF Height
  <2>2. CASE th'[t].pc = "load stack" /\ gc_stack' = <<t, n - 1>>
    <3>1. gc_stack'[2] = n - 1
      BY <2>2
    <3> QED BY <2>2, <3>1 DEF Height
  <2> QED BY <1>17, <2>1, <2>2
<1>23. \A g : OnStack(t, g)' <=> OnStack(t, g) /\ g # f
  BY <1>6, <1>7, <1>n, <1>f, <1>8, <1>22, Popped
<1>24. \A d \in th'[t].todo \ th[t].todo : d = p.to /\ th'[t].pc = "load stack"
  BY <1>17
<1>25. \A d : ~OnStack(t, <<s, "cell", d>>) \/ d \in th[t].todo
  <2> SUFFICES ASSUME NEW d, OnStack(t, <<s, "cell", d>>) PROVE d \in th[t].todo
    OBVIOUS
  <2>1. PICK m \in 1..n : stack[t][m] = <<s, "cell", d>>
    BY <1>6 DEF OnStack
  <2> QED BY <2>1, <1>8
<1>26. \A g : Pending(t, g)' <=> \/ OnStack(t, g) /\ g # f
                                 \/ \E d \in th'[t].todo \ th[t].todo : g = <<s, "cell", d>>
  <2>1. CASE th'[t].pc = "pop"
    <3>1. th'[t].todo = th[t].todo /\ th'[t].pc \notin Building
      BY <2>1, <1>17 DEF Building
    <3> QED BY <3>1, <1>23 DEF Pending
  <2>2. CASE th'[t].pc = "load stack"
    <3>1. th'[t].todo \ th[t].todo = {p.to} /\ th'[t].pc \in Building
      BY <2>2, <1>17 DEF Building
    <3>2. CellField(t)' = <<s, "cell", p.to>>
      BY <2>2, <1>17, <1>20 DEF CellField
    <3> QED BY <3>1, <3>2, <1>23 DEF Pending
  <2> QED BY <1>17, <2>1, <2>2
<1>27. OldBase(t)' = OldBase(t) /\ th[t].todo \subseteq th'[t].todo
  BY <1>4, <1>15, <1>17, <1>20 DEF OldBase
<1>28. Followed(t, p)'
  <2>1. p = NULL \/ (p.base = img'[s].base /\ p.to \in th'[t].todo)
    BY <1>14, <1>15, <1>17 DEF Good
  <2> QED BY <2>1, <1>20 DEF Followed
<1>29. MarkInv(t)'
  BY <1>1, <1>2, <1>3, <1>4, <1>10, <1>11, <1>15, <1>20, <1>26, <1>27, <1>28, PopMark
<1>30. StackedInv(t)'
  <2>1. th'[t].todo \subseteq img'[s].live
    <3>1. p # NULL => p.to \in img[s].live
      BY <1>14 DEF Good
    <3>2. \A d \in th'[t].todo : d \in th[t].todo \/ (p # NULL /\ d = p.to)
      BY <1>17
    <3>3. img'[s].live = img[s].live
      BY <1>15
    <3> QED BY <1>8, <3>1, <3>2, <3>3
  <2>2. ASSUME th'[t].pc \in Building
        PROVE  th'[t].cell \in th'[t].todo /\ ~OnStack(t, CellField(t))'
    <3>1. th'[t].pc = "load stack"
      BY <2>2, <1>17 DEF Building
    <3>2. /\ th'[t].cell = p.to /\ p.to \in th'[t].todo /\ p.to \notin th[t].todo
      BY <3>1, <1>17
    <3>3. CellField(t)' = <<s, "cell", p.to>>
      BY <3>2, <1>20 DEF CellField
    <3> QED BY <3>2, <3>3, <1>23, <1>25
  <2>3. \A m \in 1..(n - 1) :
          \/ \E i \in Roots : stack'[t][m] = <<s, "root", i>>
          \/ \E c \in th'[t].todo : stack'[t][m] = <<s, "cell", c>>
    BY <1>7, <1>8, <1>9, <1>27
  <2>4. \A m, k \in 1..(n - 1) : stack'[t][m] = stack'[t][k] => m = k
    BY <1>7, <1>8, <1>9
  <2>5. (\A m \in 1..Height(t) :
           \/ \E i \in Roots : stack[t][m] = <<th[t].want, "root", i>>
           \/ \E c \in th[t].todo : stack[t][m] = <<th[t].want, "cell", c>>)'
    BY <2>3, <1>20, <1>22
  <2>6. (\A m, k \in 1..Height(t) : stack[t][m] = stack[t][k] => m = k)'
    BY <2>4, <1>22
  <2>7. (th[t].todo \subseteq img[th[t].want].live)'
    BY <2>1, <1>20
  <2> QED BY <2>2, <2>5, <2>6, <2>7 DEF StackedInv
<1>31. PositionInv(t)'
  <2>1. CASE th'[t].pc = "pop"
    <3>1. th'[t].sp = <<t, n - 1>>
      BY <2>1, <1>17
    <3> QED BY <2>1, <3>1, <1>16, <1>22 DEF PositionInv, Building
  <2>2. CASE th'[t].pc = "load stack"
    <3>1. gc_stack' = <<t, n - 1>>
      BY <2>2, <1>17
    <3> QED BY <2>2, <3>1, <1>16, <1>22 DEF PositionInv, Building
  <2> QED BY <1>17, <2>1, <2>2
<1>32. ImageInv'
  <2>1. Moves(t)' /\ ~Adjusts(t)' /\ th'[t].pc # "roots"
    <3>1. th'[t].pc \in Marking /\ th'[t].pc \notin {"roots", "adjust"}
      BY <1>17 DEF Marking, Building
    <3>2. th'[t].op \in {"collect", "open"} /\ (th'[t].op = "open" => th'[t].gc)
      BY <1>3, <1>17 DEF KeepsOp, Collects
    <3> QED BY <3>1, <3>2 DEF Moves, Adjusts
  <2>2. RestInv(s)' /\ RootsInv(t)' /\ AdjustInv(t)'
    BY <1>20, <2>1 DEF RestInv, RootsInv, AdjustInv
  <2> QED BY <1>1, <1>2, <1>3, <1>4, <1>15, <1>17, <1>19, <1>29, <1>30, <1>31, <2>2, SerialImage
<1> QED BY <1>19, <1>21, <1>32 DEF WholeInv

\* With nothing left on the stack all that is referred to is marked, and the
\* sweep keeps it.
LEMMA SweepWhole ==
  ASSUME WholeInv, NEW t \in Thread, Sweep(t) PROVE WholeInv'
<1>1. /\ ControlInv /\ StackInv /\ ShiftInv /\ ImageInv /\ TypeOK /\ PointInv
      /\ PositionInv(t) /\ StackedInv(t) /\ MarkInv(t)
  BY DEF WholeInv, ControlInv, ImageInv
<1>2. th[t].pc = "pop" /\ th[t].pc \notin Building /\ th[t].sp = <<t, 0>>
  BY DEF Sweep, Building
<1>3. /\ Collects(t) /\ th[t].op \in {"collect", "open"} /\ Marks(t) /\ th[t].op \in Serial
  BY <1>1, <1>2, AtPoint DEF Marks, Marking, Serial
<1>4. PICK s \in Storage : th[t].want = s /\ th[t].s = s
  BY <1>1, <1>2, Inside
<1>5. PICK pc : pc = IF th[t].op = "open" THEN "link" ELSE "unlock"
  OBVIOUS
<1>6. /\ gc_stack' = None /\ img' = [img EXCEPT ![s].live = @ \cap th[t].todo]
      /\ base_address_shift' = IF th[t].op = "open" THEN 0 ELSE base_address_shift
      /\ stack' = [stack EXCEPT ![t] = [n \in 1..Depth |-> None]]
      /\ th' = [th EXCEPT ![t].todo = {}, ![t].pc = pc]
      /\ chain' = chain /\ next' = next /\ hdr' = hdr /\ mapped' = mapped
      /\ global_mutex' = global_mutex
  BY <1>4, <1>5 DEF Sweep, list, map, locks
<1>7. pc \in Point /\ pc \in {"link", "unlock"}
  BY <1>5 DEF Point
<1>8. /\ th' \in [Thread -> Activity] /\ Others(t) /\ KeepsOp(t)
      /\ th'[t].pc = pc /\ th'[t].s = th[t].s /\ th'[t].shift = th[t].shift
  BY <1>1, <1>6, <1>7, SweepMoves
<1>9. /\ img' \in [Storage -> Image]
      /\ \A r \in Storage : r # s => img'[r] = img[r]
      /\ img'[s].live = img[s].live \cap th[t].todo
      /\ img'[s].base = img[s].base /\ img'[s].root = img[s].root /\ img'[s].ref = img[s].ref
  <2>1. img \in [Storage -> Image] /\ img[s] \in Image
    BY <1>1 DEF TypeOK
  <2> QED BY <1>6, <2>1 DEF Image
<1>10. TypeOK'
  <2>1. DOMAIN stack' = Thread /\ \A u \in Thread : DOMAIN stack'[u] = 1..Depth
    BY <1>1, <1>6 DEF TypeOK
  <2>2. gc_stack' \in Position /\ base_address_shift' \in Int
    BY <1>1, <1>6 DEF TypeOK, Position
  <2> QED BY <1>1, <1>6, <1>8, <1>9, <2>1, <2>2 DEF TypeOK
<1>11. ControlInv' /\ ChainInv' /\ AddressInv' /\ SearchInv'
  <2>1. pc \in Points(th[t].op, th[t].gc)
    BY <1>3, <1>5 DEF Points
  <2>2. \A r \in Storage : img'[r].base = img[r].base
    BY <1>9
  <2> QED BY <1>2, <1>3, <1>5, <1>6, <1>7, <1>8, <1>10, <2>1, <2>2, InnerFrame
<1>12. \A u \in Thread \ {t} : th[u].op \in Serial => th[u].pc = "global"
  BY <1>1, <1>2, <1>3, OneSerial
<1>13. StackInv'
  BY <1>1, <1>6, <1>7, <1>8 DEF StackInv, Collects, Others
<1>14. ShiftInv'
  <2>1. CASE th[t].op = "open"
    <3>1. ASSUME NEW u \in Thread
          PROVE  /\ th'[u].op = "open" => th'[u].pc \notin {"adjust"} \cup Building
                 /\ th'[u].op = "collect" => th'[u].shift = 0
      <4>1. CASE u = t
        BY <2>1, <4>1, <1>7, <1>8 DEF Building, KeepsOp
      <4>2. CASE u # t
        BY <4>2, <1>1, <1>8, <1>12 DEF Others, ShiftInv, Serial, Building
      <4> QED BY <4>1, <4>2
    <3>2. "fields" \in Building
      BY DEF Building
    <3> QED BY <2>1, <3>1, <3>2, <1>6 DEF ShiftInv
  <2>2. CASE th[t].op # "open"
    BY <2>2, <1>1, <1>6, <1>8, ShiftFrame DEF Shifts, KeepsOp, ShiftInv
  <2> QED BY <2>1, <2>2
<1>15. /\ \A i \in Roots : Followed(t, img[s].root[i])
       /\ \A c \in img[s].live : c \in th[t].todo => Followed(t, img[s].ref[c])
  <2>1. Height(t) = 0
    BY <1>2 DEF Height
  <2>2. \A f : ~Pending(t, f)
    BY <1>2, <2>1 DEF Pending, OnStack
  <2> QED BY <1>1, <1>3, <1>4, <2>2 DEF MarkInv
<1>16. \A p : Followed(t, p) => Good(s, p, img[s].base)'
  <2>1. th[t].todo \subseteq img[s].live
    BY <1>1, <1>3, <1>4 DEF StackedInv
  <2> QED BY <1>4, <1>9, <2>1 DEF Followed, Good
<1>17. RestInv(s)'
  <2>1. (\A i \in Roots : Good(s, img[s].root[i], img[s].base))'
    BY <1>9, <1>15, <1>16
  <2>2. (\A c \in img[s].live : Good(s, img[s].ref[c], img[s].base))'
    BY <1>9, <1>15, <1>16
  <2> QED BY <2>1, <2>2 DEF RestInv
<1>18. ImageInv'
  <2>1. ~Adjusts(t)' /\ ~Marks(t)' /\ th'[t].pc # "roots"
    BY <1>7, <1>8 DEF Adjusts, Marks, Marking, Building
  <2>2. AdjustInv(t)' /\ RootsInv(t)' /\ PositionInv(t)' /\ StackedInv(t)' /\ MarkInv(t)'
    BY <2>1 DEF AdjustInv, RootsInv, PositionInv, StackedInv, MarkInv
  <2> QED BY <1>1, <1>2, <1>3, <1>4, <1>8, <1>9, <1>11, <1>17, <2>2, SerialImage
<1> QED BY <1>11, <1>13, <1>14, <1>18 DEF WholeInv

-----------------------------------------------------------------------------
(* open().                                                                 *)

\* What Map does once the address is chosen.
MapsTo(t, s, b) ==
  LET shift == b - img[s].base
  IN  /\ hdr' = [hdr EXCEPT ![s] = b] /\ mapped' = mapped \cup {s}
      /\ base_address_shift' =
           IF shift = 0 /\ ~th[t].gc THEN base_address_shift ELSE shift
      /\ img' = [img EXCEPT ![s].base = b,
                   ![s].root = IF th[t].gc THEN @
                               ELSE [i \in Roots |-> Moved(@[i], shift)]]
      /\ th' = [th EXCEPT ![t].shift = shift,
                  ![t].todo = IF shift = 0 THEN {} ELSE img[s].live,
                  ![t].pc = IF th[t].gc THEN "roots" ELSE "adjust"]

\* The file is mapped where no other file is.
LEMMA MapWhole ==
  ASSUME WholeInv, NEW t \in Thread, Map(t) PROVE WholeInv'
<1>1. /\ ControlInv /\ StackInv /\ ShiftInv /\ ImageInv /\ TypeOK /\ PointInv
      /\ ChainInv /\ AddressInv /\ SearchInv /\ SerialInv /\ MappedInv
  BY DEF WholeInv, ControlInv
<1>2. th[t].pc = "map" /\ th[t].op = "open" /\ th[t].op \in Serial /\ th[t] # Idle
  BY <1>1, AtPoint, Inside DEF Map, Serial
<1>3. PICK s \in Storage : th[t].want = s /\ th[t].s = s
  BY <1>1, <1>2, Inside, Zenon
<1>4. PICK b \in Base \ {hdr[r] : r \in mapped} : MapsTo(t, th[t].s, b)
  BY DEF Map, MapsTo
<1>5. /\ chain' = chain /\ next' = next /\ gc_stack' = gc_stack /\ stack' = stack
      /\ global_mutex' = global_mutex
  BY DEF Map, list, locks
<1>6. PICK shift : shift = b - img[s].base
  OBVIOUS
<1>7. PICK todo : todo = IF shift = 0 THEN {} ELSE img[s].live
  OBVIOUS
<1>8. PICK pc : pc = IF th[t].gc THEN "roots" ELSE "adjust"
  OBVIOUS
<1>9. /\ img[s] \in Image /\ img[s].base \in Int /\ img[s].live \in SUBSET Cell
      /\ b \in Int /\ img[s].root \in [Roots -> Pointer]
  BY <1>1, StoragesAssumption DEF TypeOK, Image
<1>10. shift \in Int /\ todo \in SUBSET Cell /\ b - shift = img[s].base
  BY <1>6, <1>7, <1>9
<1>11. pc \in Point /\ pc \in {"roots", "adjust"}
  BY <1>8 DEF Point
<1>12. /\ hdr' = [hdr EXCEPT ![s] = b] /\ mapped' = mapped \cup {s}
       /\ base_address_shift' = IF shift = 0 /\ ~th[t].gc THEN base_address_shift ELSE shift
       /\ th' = [th EXCEPT ![t].shift = shift, ![t].todo = todo, ![t].pc = pc]
  BY <1>3, <1>4, <1>6, <1>7, <1>8 DEF MapsTo
<1>13. /\ th' \in [Thread -> Activity] /\ Others(t) /\ KeepsOp(t)
       /\ th'[t].pc = pc /\ th'[t].shift = shift /\ th'[t].todo = todo
       /\ th'[t].s = th[t].s
  BY <1>1, <1>10, <1>11, <1>12, MapMoves
<1>14. /\ img' \in [Storage -> Image]
       /\ \A r \in Storage : r # s => img'[r] = img[r]
       /\ img'[s].base = b /\ img'[s].live = img[s].live /\ img'[s].ref = img[s].ref
       /\ th[t].gc => img'[s].root = img[s].root
       /\ ~th[t].gc => \A i \in Roots : img'[s].root[i] = Moved(img[s].root[i], shift)
  <2>1. PICK root : root = IF th[t].gc THEN img[s].root
                           ELSE [i \in Roots |-> Moved(img[s].root[i], shift)]
    OBVIOUS
  <2>2. root \in [Roots -> Pointer]
    BY <1>9, <1>10, <2>1, MovedFacts
  <2>3. img \in [Storage -> Image]
    BY <1>1 DEF TypeOK
  <2>4. img' = [img EXCEPT ![s] = [img[s] EXCEPT !.base = b, !.root = root]]
    BY <1>3, <1>4, <1>6, <1>9, <2>1, <2>3 DEF MapsTo, Image
  <2>5. [img[s] EXCEPT !.base = b, !.root = root] \in Image
    BY <1>9, <2>2 DEF Image
  <2>6. img'[s] = [img[s] EXCEPT !.base = b, !.root = root]
    BY <2>3, <2>4
  <2>7. /\ img'[s].base = b /\ img'[s].live = img[s].live /\ img'[s].ref = img[s].ref
        /\ img'[s].root = root
    BY <1>9, <2>6 DEF Image
  <2>8. img' \in [Storage -> Image] /\ \A r \in Storage : r # s => img'[r] = img[r]
    BY <2>3, <2>4, <2>5
  <2> QED BY <2>1, <2>7, <2>8
<1>15. \A u \in Thread \ {t} : th[u].want # s /\ (th[u].op \in Serial => th[u].pc = "global")
  BY <1>1, <1>2, <1>3, AloneAt, OneSerial
<1>16. s \notin mapped /\ s \notin Linked
  BY <1>1, <1>2, <1>3 DEF MappedInv, ChainInv
<1>17. TypeOK'
  <2>1. base_address_shift' \in Int /\ hdr' \in [Storage -> Base] /\ mapped' \subseteq Storage
    BY <1>1, <1>10, <1>12 DEF TypeOK
  <2> QED BY <1>1, <1>5, <1>13, <1>14, <2>1 DEF TypeOK
<1>18. ControlInv'
  <2>1. SerialInv'
    BY <1>1, <1>2, <1>5, <1>11, <1>13 DEF SerialInv, Others, KeepsOp
  <2>2. MappedInv'
    <3> SUFFICES ASSUME NEW u \in Thread, th'[u] # Idle
                 PROVE  (th'[u].want \in mapped' <=>
                           \/ th'[u].op = "open" /\ th'[u].pc \notin {"global", "lock", "map"}
                           \/ th'[u].op = "close" /\ th'[u].pc # "unlock"
                           \/ th'[u].op \notin {"open", "close"})
      BY DEF MappedInv
    <3>1. CASE u = t
      BY <3>1, <1>2, <1>3, <1>11, <1>12, <1>13 DEF KeepsOp
    <3>2. CASE u # t
      BY <3>2, <1>1, <1>12, <1>13, <1>15 DEF Others, MappedInv
    <3> QED BY <3>1, <3>2
  <2>3. pc \in Points(th[t].op, th[t].gc)
    BY <1>2, <1>8 DEF Points
  <2> QED BY <1>1, <1>2, <1>3, <1>11, <1>13, <1>17, <2>1, <2>2, <2>3, StepControl
<1>19. Linked' = Linked
  BY <1>5 DEF Linked
<1>20. ChainInv'
  <2>1. (\A r \in Linked : r \notin From(next, next[r]))'
    BY <1>1, <1>5, <1>19 DEF ChainInv
  <2>2. (\A r \in mapped : \/ r \in Linked
                           \/ \E u \in Thread : /\ th[u].want = r
                                                /\ th[u].op = "open" \/ th[u].pc = "unmap")'
    <3> SUFFICES ASSUME NEW r \in mapped, r # s, r \notin Linked
                 PROVE  \E u \in Thread : /\ th'[u].want = r
                                          /\ th'[u].op = "open" \/ th'[u].pc = "unmap"
      BY <1>2, <1>3, <1>12, <1>13, <1>19 DEF KeepsOp
    <3>1. PICK u \in Thread : th[u].want = r /\ (th[u].op = "open" \/ th[u].pc = "unmap")
      BY <1>1 DEF ChainInv
    <3> QED BY <3>1, <1>3, <1>13 DEF Others
  <2>3. ASSUME NEW u \in Thread
        PROVE  (/\ th[u].op = "open" /\ th[u].pc # "unlock" => th[u].want \notin Linked
                /\ th[u].op = "open" /\ th[u].pc = "unlock" => th[u].want \in Linked
                /\ th[u].pc = "publish" => next[th[u].want] = chain
                /\ th[u].pc = "unmap" => th[u].want \notin Linked)'
    <3>1. CASE u = t
      BY <3>1, <1>3, <1>11, <1>13, <1>16, <1>19 DEF KeepsOp
    <3>2. CASE u # t
      BY <3>2, <1>1, <1>5, <1>13, <1>19 DEF ChainInv, Others
    <3> QED BY <3>1, <3>2
  <2>4. Linked' \subseteq mapped'
    BY <1>1, <1>12, <1>19 DEF ChainInv
  <2> QED BY <2>1, <2>2, <2>3, <2>4 DEF ChainInv
<1>21. AddressInv'
  <2>1. /\ hdr'[s] = b /\ \A r \in mapped : hdr'[r] = hdr[r] /\ hdr[r] # b /\ r \in Storage
    BY <1>1, <1>12, <1>16 DEF TypeOK
  <2>2. \A q, r \in mapped' : hdr'[q] = hdr'[r] => q = r
    BY <1>1, <1>12, <2>1 DEF AddressInv
  <2>3. \A r \in mapped' : hdr'[r] = img'[r].base
    BY <1>1, <1>12, <1>14, <1>16, <2>1 DEF AddressInv
  <2> QED BY <2>2, <2>3 DEF AddressInv
<1>22. SearchInv'
  BY <1>1, <1>5, <1>11, <1>13, SearchFrame
<1>23. StackInv'
  BY <1>1, <1>2, <1>5, <1>11, <1>13, StackFrame DEF Marks, Marking, Building
<1>24. ShiftInv'
  <2>1. base_address_shift = 0
    <3> SUFFICES ASSUME base_address_shift # 0 PROVE FALSE
      OBVIOUS
    <3>1. PICK u \in Thread : th[u].op = "open" /\ th[u].pc \in {"adjust", "roots"} \cup Marking
      BY <1>1 DEF ShiftInv
    <3> QED BY <3>1, <1>2, <1>15 DEF Serial, Marking, Building
  <2>2. th'[t].op = "open" /\ th'[t].pc \in {"adjust", "roots"} \cup Marking
    BY <1>2, <1>11, <1>13 DEF KeepsOp
  <2>3. ASSUME NEW u \in Thread
        PROVE  (/\ th[u].op = "open" /\ ~th[u].gc =>
                     /\ th[u].pc \in {"adjust"} \cup Building => base_address_shift = th[u].shift
                     /\ th[u].pc = "fields" => th[u].sh = th[u].shift
                /\ th[u].op = "collect" => th[u].shift = 0)'
    <3>1. CASE u = t
      BY <3>1, <2>1, <1>2, <1>11, <1>12, <1>13 DEF KeepsOp
    <3>2. CASE u # t
      BY <3>2, <1>1, <1>13, <1>15 DEF ShiftInv, Others, Serial, Building
    <3> QED BY <3>1, <3>2
  <2> QED BY <2>2, <2>3 DEF ShiftInv
<1>25. /\ \A i \in Roots : Good(s, img[s].root[i], img[s].base)
       /\ \A c \in img[s].live : Good(s, img[s].ref[c], img[s].base)
  <2>1. /\ \A u \in Thread : th[u].want = s => u = t
        /\ \A c : ~Raw(s, c)
    BY <1>1, <1>2, <1>3, AloneAt
  <2>2. ~Moves(t)
    BY <1>2 DEF Moves, Marking, Building
  <2> QED BY <1>1, <2>1, <2>2 DEF ImageInv, RestInv
<1>26. \A p, x : Good(s, p, x)' <=> Good(s, p, x)
  BY <1>14 DEF Good
<1>27. /\ th'[t].want = s /\ OldBase(t)' = img[s].base
       /\ th'[t].op = "open" /\ th'[t].gc = th[t].gc
  BY <1>2, <1>3, <1>10, <1>13, <1>14 DEF OldBase, KeepsOp
<1>28. RootsInv(t)'
  <2>1. th'[t].pc = "roots" => img'[s].root = img[s].root
    BY <1>8, <1>13, <1>14
  <2> QED BY <2>1, <1>14, <1>25, <1>26, <1>27 DEF RootsInv
<1>29. AdjustInv(t)'
  <2> SUFFICES ASSUME Adjusts(t)' PROVE AdjustInv(t)'
    BY DEF AdjustInv
  <2>1. ~th[t].gc /\ th'[t].pc = "adjust" /\ th'[t].pc \notin Building
    BY <1>8, <1>13, <1>27 DEF Adjusts, Building
  <2>2. Left(t)' = todo
    BY <2>1, <1>13 DEF Left
  <2>3. (\A i \in Roots : Good(s, img[s].root[i], img[s].base))'
    <3> SUFFICES ASSUME NEW i \in Roots PROVE Good(s, Moved(img[s].root[i], shift), b)
      BY <2>1, <1>14, <1>26
    <3>1. img[s].root[i] \in Pointer /\ img[s].base + shift = b
      BY <1>6, <1>9
    <3>2. Good(s, Moved(img[s].root[i], shift), img[s].base + shift)
      BY <3>1, <1>9, <1>10, <1>25, MovedGood
    <3> QED BY <3>1, <3>2
  <2>4. (\A c \in img[s].live :
           Good(s, img[s].ref[c], IF c \in Left(t) THEN OldBase(t) ELSE img[s].base))'
    <3> SUFFICES ASSUME NEW c \in img[s].live
                 PROVE  Good(s, img[s].ref[c], IF c \in todo THEN img[s].base ELSE b)
      BY <2>2, <1>14, <1>26, <1>27
    <3>1. c \notin todo => b = img[s].base
      BY <1>6, <1>7, <1>9
    <3> QED BY <3>1, <1>25
  <2>5. (Left(t) \subseteq img[s].live)'
    BY <2>2, <1>7, <1>14
  <2> QED BY <2>1, <2>3, <2>4, <2>5, <1>27 DEF AdjustInv
<1>30. ImageInv'
  <2>1. Moves(t)' /\ ~Marks(t)'
    BY <1>11, <1>13, <1>27 DEF Moves, Marks, Marking, Building
  <2>2. RestInv(s)' /\ PositionInv(t)' /\ StackedInv(t)' /\ MarkInv(t)'
    BY <2>1, <1>27 DEF RestInv, PositionInv, StackedInv, MarkInv
  <2> QED BY <1>1, <1>2, <1>3, <1>13, <1>14, <1>18, <1>28, <1>29, <2>2, SerialImage
<1> QED BY <1>18, <1>20, <1>21, <1>22, <1>23, <1>24, <1>30 DEF WholeInv

\* A set of numbers has a least one.
LEMMA Least ==
  ASSUME NEW S \in SUBSET Nat, S # {}
  PROVE  \E c \in S : \A d \in S : c <= d
<1>1. IsWellFoundedOn(OpToRel(<, Nat), Nat)
  BY NatLessThanWellFounded
<1>2. PICK c \in S : \A d \in S : ~(<<d, c>> \in OpToRel(<, Nat))
  BY <1>1, WFMin
<1>3. \A d \in S : ~(d < c)
  BY <1>2 DEF OpToRel
<1>4. \A d \in S : c <= d
  BY <1>3
<1> QED BY <1>4

\* The last object is done: every reference of the storage is moved.
LEMMA AdjustEnd ==
  ASSUME WholeInv, NEW t \in Thread, Adjust(t), th[t].todo = {} PROVE WholeInv'
<1>1. /\ ControlInv /\ StackInv /\ ShiftInv /\ ImageInv /\ TypeOK /\ PointInv /\ AdjustInv(t)
  BY DEF WholeInv, ControlInv, ImageInv
<1>2. th[t].pc = "adjust" /\ th[t].op = "open" /\ ~th[t].gc /\ th[t].op \in Serial
  BY <1>1, AtPoint DEF Adjust, Serial
<1>3. PICK s \in Storage : th[t].want = s /\ th[t].s = s
  BY <1>1, <1>2, Inside
<1>4. /\ Step(t, "link")
      /\ base_address_shift' = IF th[t].shift = 0 THEN base_address_shift ELSE 0
      /\ chain' = chain /\ next' = next /\ hdr' = hdr /\ mapped' = mapped /\ img' = img
      /\ global_mutex' = global_mutex /\ gc_stack' = gc_stack /\ stack' = stack
  BY DEF Adjust, list, map, locks
<1>5. /\ th' \in [Thread -> Activity] /\ Others(t) /\ KeepsOp(t) /\ KeepsWork(t)
      /\ th'[t].pc = "link" /\ th'[t].s = th[t].s
  BY <1>1, <1>4, StepMoves DEF Point
<1>6. base_address_shift' = 0
  BY <1>1, <1>2, <1>4 DEF ShiftInv
<1>7. TypeOK'
  BY <1>1, <1>4, <1>5, <1>6 DEF TypeOK
<1>8. ControlInv' /\ ChainInv' /\ AddressInv' /\ SearchInv'
  <2>1. "link" \in Points(th[t].op, th[t].gc)
    BY <1>2 DEF Points
  <2> QED BY <1>2, <1>4, <1>5, <1>7, <2>1, InnerFrame
<1>9. StackInv'
  BY <1>1, <1>2, <1>4, <1>5, StackFrame DEF Marks, Marking, Building
<1>10. ShiftInv'
  <2>1. \A u \in Thread \ {t} : th[u].op \in Serial => th[u].pc = "global"
    BY <1>1, <1>2, OneSerial
  <2>2. ASSUME NEW u \in Thread
        PROVE  /\ th'[u].op = "open" => th'[u].pc \notin {"adjust"} \cup Building
               /\ th'[u].op = "collect" => th'[u].shift = 0
    <3>1. CASE u = t
      BY <3>1, <1>2, <1>5 DEF Building, KeepsOp
    <3>2. CASE u # t
      BY <3>2, <1>1, <1>5, <2>1 DEF Others, ShiftInv, Serial, Building
    <3> QED BY <3>1, <3>2
  <2>3. "fields" \in Building
    BY DEF Building
  <2> QED BY <2>2, <2>3, <1>6 DEF ShiftInv
<1>11. RestInv(s)'
  <2>1. Adjusts(t) /\ Left(t) = {}
    BY <1>2 DEF Adjusts, Left, Building
  <2>2. /\ \A i \in Roots : Good(s, img[s].root[i], img[s].base)
        /\ \A c \in img[s].live : Good(s, img[s].ref[c], img[s].base)
    BY <1>1, <1>3, <2>1 DEF AdjustInv
  <2> QED BY <2>2, <1>4 DEF RestInv, Good
<1>12. ImageInv'
  <2>1. ~Adjusts(t)' /\ ~Marks(t)' /\ th'[t].pc # "roots"
    BY <1>5 DEF Adjusts, Marks, Marking, Building
  <2>2. AdjustInv(t)' /\ RootsInv(t)' /\ PositionInv(t)' /\ StackedInv(t)' /\ MarkInv(t)'
    BY <2>1 DEF AdjustInv, RootsInv, PositionInv, StackedInv, MarkInv
  <2> QED BY <1>1, <1>2, <1>3, <1>4, <1>5, <1>8, <1>11, <2>2, SerialImage
<1> QED BY <1>8, <1>9, <1>10, <1>12 DEF WholeInv

\* The constructor of one more object is called.
LEMMA AdjustNext ==
  ASSUME WholeInv, NEW t \in Thread, Adjust(t), th[t].todo # {} PROVE WholeInv'
<1>1. /\ ControlInv /\ StackInv /\ ShiftInv /\ ImageInv /\ TypeOK /\ PointInv /\ AdjustInv(t)
  BY DEF WholeInv, ControlInv, ImageInv
<1>2. th[t].pc = "adjust" /\ th[t].op = "open" /\ ~th[t].gc /\ th[t].op \in Serial
  BY <1>1, AtPoint DEF Adjust, Serial
<1>3. PICK s \in Storage : th[t].want = s /\ th[t].s = s
  BY <1>1, <1>2, Inside
<1>4. PICK todo : todo = th[t].todo
  OBVIOUS
<1>5. todo \in SUBSET Cell /\ todo \in SUBSET Nat /\ todo # {}
  <2>1. th[t] \in Activity
    BY <1>1, <1>2, Inside
  <2> QED BY <1>4, <2>1, StoragesAssumption DEF Activity
<1>6. PICK c : c = CHOOSE e \in todo : \A d \in todo : e <= d
  OBVIOUS
<1>7. c \in todo /\ c \in Cell /\ todo \ {c} \in SUBSET Cell
  <2>1. c \in todo
    BY <1>5, <1>6, Least
  <2> QED BY <1>5, <2>1
<1>8. /\ th' = [th EXCEPT ![t].cell = c, ![t].todo = todo \ {c}, ![t].pc = "load stack"]
      /\ base_address_shift' = base_address_shift
      /\ chain' = chain /\ next' = next /\ hdr' = hdr /\ mapped' = mapped /\ img' = img
      /\ global_mutex' = global_mutex /\ gc_stack' = gc_stack /\ stack' = stack
  BY <1>4, <1>5, <1>6 DEF Adjust, list, map, locks
<1>9. /\ th' \in [Thread -> Activity] /\ Others(t) /\ KeepsOp(t)
      /\ th'[t].pc = "load stack" /\ th'[t].cell = c /\ th'[t].todo = todo \ {c}
      /\ th'[t].s = th[t].s /\ th'[t].shift = th[t].shift
  <2>1. "load stack" \in Point
    BY DEF Point, Marking, Building
  <2> QED BY <1>1, <1>7, <1>8, <2>1, CellMoves
<1>10. TypeOK'
  BY <1>1, <1>8, <1>9 DEF TypeOK
<1>11. ControlInv' /\ ChainInv' /\ AddressInv' /\ SearchInv'
  <2>1. "load stack" \in Points(th[t].op, th[t].gc)
    BY <1>2 DEF Points, Building
  <2> QED BY <1>2, <1>8, <1>9, <1>10, <2>1, InnerFrame
<1>12. StackInv'
  BY <1>1, <1>2, <1>8, <1>9, StackFrame DEF Marks, Marking, Building
<1>13. ShiftInv'
  <2>1. base_address_shift = th[t].shift
    BY <1>1, <1>2 DEF ShiftInv
  <2>2. Shifts(t)'
    BY <1>2, <1>9 DEF Shifts, Marking, Building, KeepsOp
  <2> QED BY <2>1, <2>2, <1>1, <1>2, <1>8, <1>9, ShiftFrame DEF KeepsOp
<1>14. AdjustInv(t)'
  <2>1. Adjusts(t) /\ Left(t) = todo /\ Left(t)' = todo
    BY <1>2, <1>4, <1>7, <1>9 DEF Adjusts, Left, Building
  <2>2. PICK old : old = OldBase(t)
    OBVIOUS
  <2>3. OldBase(t)' = old /\ th'[t].want = s
    BY <1>3, <1>8, <1>9, <2>2 DEF OldBase, KeepsOp
  <2>4. \A p, x : Good(s, p, x)' <=> Good(s, p, x)
    BY <1>8 DEF Good
  <2>5. /\ todo \subseteq img[s].live
        /\ \A i \in Roots : Good(s, img[s].root[i], img[s].base)
        /\ \A d \in img[s].live :
             Good(s, img[s].ref[d], IF d \in todo THEN old ELSE img[s].base)
    BY <1>1, <1>3, <2>1, <2>2 DEF AdjustInv
  <2>6. (\A i \in Roots : Good(s, img[s].root[i], img[s].base))'
    BY <1>8, <2>4, <2>5
  <2>7. (\A d \in img[s].live :
           Good(s, img[s].ref[d], IF d \in Left(t) THEN OldBase(t) ELSE img[s].base))'
    <3> SUFFICES ASSUME NEW d \in img[s].live
                 PROVE  Good(s, img[s].ref[d], IF d \in todo THEN old ELSE img[s].base)
      <4>1. img'[s].live = img[s].live /\ img'[s].ref = img[s].ref /\ img'[s].base = img[s].base
        BY <1>8
      <4>2. OldBase(t)' = old /\ Left(t)' = todo
        BY <2>1, <2>3
      <4> QED BY <4>1, <4>2, <2>4
    <3> QED BY <2>5
  <2>8. th'[t].cell \notin th'[t].todo /\ Left(t)' \subseteq img'[s].live
    BY <1>8, <1>9, <2>1, <2>5
  <2> QED BY <2>3, <2>6, <2>8, <2>7 DEF AdjustInv
<1>15. ImageInv'
  <2>1. Moves(t)' /\ ~Marks(t)' /\ th'[t].pc # "roots"
    BY <1>2, <1>9 DEF Moves, Marks, Collects, Marking, Building, KeepsOp
  <2>2. RestInv(s)' /\ RootsInv(t)' /\ PositionInv(t)' /\ StackedInv(t)' /\ MarkInv(t)'
    BY <2>1, <1>3, <1>9 DEF RestInv, RootsInv, PositionInv, StackedInv, MarkInv, KeepsOp
  <2> QED BY <1>1, <1>2, <1>3, <1>8, <1>9, <1>11, <1>14, <2>2, SerialImage
<1> QED BY <1>11, <1>12, <1>13, <1>15 DEF WholeInv

\* adjust_references() moves each reference once.
LEMMA AdjustWhole ==
  ASSUME WholeInv, NEW t \in Thread, Adjust(t) PROVE WholeInv'
BY AdjustEnd, AdjustNext

-----------------------------------------------------------------------------
(* The start of a collection.                                              *)

\* The members of a set of numbers below one of them, and its n-th member.
Below(S, i) == {j \in S : j < i}
Nth(S, n) == CHOOSE i \in S : Cardinality(Below(S, i)) = n - 1

\* Each number of a finite set has a rank of its own.
LEMMA Ranks ==
  ASSUME NEW S \in SUBSET Nat, IsFiniteSet(S)
  PROVE  /\ \A n \in 1..Cardinality(S) :
              Nth(S, n) \in S /\ Cardinality(Below(S, Nth(S, n))) = n - 1
         /\ \A i \in S : \E n \in 1..Cardinality(S) : Nth(S, n) = i
<1>1. PICK N \in Nat : N = Cardinality(S)
  BY FS_CardinalityType
<1>2. ASSUME NEW i \in S
      PROVE  /\ IsFiniteSet(Below(S, i)) /\ Cardinality(Below(S, i)) \in Nat
             /\ IsFiniteSet(Below(S, i) \cup {i})
             /\ Cardinality(Below(S, i) \cup {i}) = Cardinality(Below(S, i)) + 1
  <2>1. Below(S, i) \in SUBSET S /\ i \notin Below(S, i)
    BY DEF Below
  <2>2. IsFiniteSet(Below(S, i))
    BY <2>1, FS_Subset
  <2> QED BY <2>1, <2>2, FS_CardinalityType, FS_AddElement
<1>3. ASSUME NEW i \in S PROVE Cardinality(Below(S, i)) \in 0..N - 1
  <2>1. Below(S, i) \cup {i} \in SUBSET S
    BY DEF Below
  <2>2. Cardinality(Below(S, i) \cup {i}) <= N
    BY <1>1, <2>1, FS_Subset
  <2> QED BY <1>2, <2>2
<1>4. ASSUME NEW i \in S, NEW k \in S, i < k
      PROVE  Cardinality(Below(S, i)) < Cardinality(Below(S, k))
  <2>1. Below(S, i) \cup {i} \in SUBSET Below(S, k)
    <3>1. \A j \in S : j < i => j < k
      BY <1>4
    <3> QED BY <1>4, <3>1 DEF Below
  <2>2. Cardinality(Below(S, i) \cup {i}) <= Cardinality(Below(S, k))
    BY <1>2, <2>1, FS_Subset
  <2>3. /\ Cardinality(Below(S, i)) \in Nat /\ Cardinality(Below(S, k)) \in Nat
        /\ Cardinality(Below(S, i) \cup {i}) = Cardinality(Below(S, i)) + 1
    BY <1>2
  <2> QED BY <2>2, <2>3
<1>5. \A i, k \in S : Cardinality(Below(S, i)) = Cardinality(Below(S, k)) => i = k
  <2> SUFFICES ASSUME NEW i \in S, NEW k \in S, i # k
               PROVE  Cardinality(Below(S, i)) # Cardinality(Below(S, k))
    OBVIOUS
  <2>1. i < k \/ k < i
    OBVIOUS
  <2>2. Cardinality(Below(S, i)) \in Nat /\ Cardinality(Below(S, k)) \in Nat
    BY <1>2
  <2> QED BY <2>1, <2>2, <1>4
<1>6. PICK f : f = [i \in S |-> Cardinality(Below(S, i))]
  OBVIOUS
<1>7. f \in Injection(S, 0..N - 1)
  BY <1>3, <1>5, <1>6 DEF Injection, IsInjective
<1>8. IsFiniteSet(0..N - 1) /\ Cardinality(0..N - 1) = N
  <2>1. N - 1 \in Int /\ (0 > N - 1 => N = 0)
    OBVIOUS
  <2>2. /\ IsFiniteSet(0..N - 1)
        /\ Cardinality(0..N - 1) = IF 0 > N - 1 THEN 0 ELSE (N - 1) - 0 + 1
    BY <2>1, FS_Interval
  <2> QED BY <2>1, <2>2
<1>9. f \in Surjection(S, 0..N - 1)
  BY <1>1, <1>7, <1>8, FS_Injection
<1>10. ASSUME NEW n \in 1..N PROVE Nth(S, n) \in S /\ Cardinality(Below(S, Nth(S, n))) = n - 1
  <2>1. n - 1 \in 0..N - 1
    OBVIOUS
  <2>2. \E i \in S : Cardinality(Below(S, i)) = n - 1
    BY <1>6, <1>9, <2>1 DEF Surjection
  <2> QED BY <2>2 DEF Nth
<1>11. ASSUME NEW i \in S PROVE \E n \in 1..N : Nth(S, n) = i
  <2>1. PICK n \in 1..N : n - 1 = Cardinality(Below(S, i))
    <3>1. Cardinality(Below(S, i)) \in 0..N - 1
      BY <1>3
    <3>2. Cardinality(Below(S, i)) + 1 \in 1..N
      BY <3>1
    <3> QED BY <3>1, <3>2
  <2> QED BY <2>1, <1>5, <1>10
<1> QED BY <1>1, <1>10, <1>11

\* The stack with the references S of the header.
Pushed(t, s, S) ==
  stack' = [stack EXCEPT ![t] = [n \in 1..Depth |->
              IF n <= Cardinality(S) THEN <<s, "root", Nth(S, n)>> ELSE None]]

\* Every reference of the header that is not null is on the stack, once.
LEMMA PushRootsWhole ==
  ASSUME WholeInv, NEW t \in Thread, PushRoots(t) PROVE WholeInv'
<1>1. /\ ControlInv /\ StackInv /\ ShiftInv /\ ImageInv /\ TypeOK /\ PointInv /\ RootsInv(t)
  BY DEF WholeInv, ControlInv, ImageInv
<1>2. th[t].pc = "roots"
  BY DEF PushRoots
<1>3. Collects(t) /\ th[t].op \in {"collect", "open"} /\ th[t].op \in Serial
  BY <1>1, <1>2, AtPoint DEF Serial
<1>4. PICK s \in Storage : th[t].want = s /\ th[t].s = s
  BY <1>1, <1>2, Inside
<1>5. PICK used : used = {i \in Roots : img[s].root[i] # NULL}
  OBVIOUS
<1>6. used \in SUBSET Roots /\ used \in SUBSET Nat
  BY <1>5, StoragesAssumption
<1>7. IsFiniteSet(used) /\ Cardinality(used) \in Nat /\ Cardinality(used) <= Depth
  <2>1. IsFiniteSet(Roots) /\ IsFiniteSet(Cell)
    BY StoragesAssumption
  <2>2. IsFiniteSet(used) /\ Cardinality(used) <= Cardinality(Roots)
    BY <1>6, <2>1, FS_Subset
  <2>3. /\ Cardinality(Roots) \in Nat /\ Cardinality(Cell) \in Nat
        /\ Cardinality(used) \in Nat
    BY <2>1, <2>2, FS_CardinalityType
  <2> QED BY <2>2, <2>3 DEF Depth
<1>8. PICK N \in Nat : N = Cardinality(used) /\ N <= Depth
  BY <1>7
<1>9. /\ stack' = [stack EXCEPT ![t] = [n \in 1..Depth |->
                     IF n <= N THEN <<s, "root", Nth(used, n)>> ELSE None]]
      /\ th' = [th EXCEPT ![t].sp = <<t, N>>, ![t].todo = {}, ![t].pc = "pop"]
      /\ base_address_shift' = IF th[t].op = "collect" THEN 0 ELSE base_address_shift
      /\ chain' = chain /\ next' = next /\ hdr' = hdr /\ mapped' = mapped /\ img' = img
      /\ global_mutex' = global_mutex /\ gc_stack' = gc_stack
  <2>1. used = {i \in Roots : img[th[t].s].root[i] # NULL}
    BY <1>4, <1>5
  <2>2. Pushed(t, th[t].s, {i \in Roots : img[th[t].s].root[i] # NULL})
    BY DEF PushRoots, Pushed, Nth, Below
  <2>3. Pushed(t, s, used)
    BY <1>4, <2>1, <2>2
  <2>4. stack' = [stack EXCEPT ![t] = [n \in 1..Depth |->
                    IF n <= N THEN <<s, "root", Nth(used, n)>> ELSE None]]
    BY <1>8, <2>3 DEF Pushed
  <2>5. th' = [th EXCEPT ![t].sp = <<t, Cardinality({i \in Roots : img[th[t].s].root[i] # NULL})>>,
                         ![t].todo = {}, ![t].pc = "pop"]
    BY DEF PushRoots
  <2>6. th' = [th EXCEPT ![t].sp = <<t, N>>, ![t].todo = {}, ![t].pc = "pop"]
    BY <1>8, <2>1, <2>5
  <2>7. base_address_shift' = IF th[t].op = "collect" THEN 0 ELSE base_address_shift
    BY DEF PushRoots
  <2>8. /\ chain' = chain /\ next' = next /\ hdr' = hdr /\ mapped' = mapped /\ img' = img
        /\ global_mutex' = global_mutex /\ gc_stack' = gc_stack
    BY DEF PushRoots, list, map, locks
  <2> QED BY <2>4, <2>6, <2>7, <2>8
<1>10. /\ th' \in [Thread -> Activity] /\ Others(t) /\ KeepsOp(t)
       /\ th'[t].pc = "pop" /\ th'[t].sp = <<t, N>> /\ th'[t].todo = {}
       /\ th'[t].s = th[t].s /\ th'[t].shift = th[t].shift
  BY <1>1, <1>9, PushMoves
<1>11. \A n \in 1..N : stack'[t][n] = <<s, "root", Nth(used, n)>>
  <2>1. \A n \in 1..N : n \in 1..Depth /\ n <= N
    BY <1>8, DepthNat
  <2>2. DOMAIN stack = Thread
    BY <1>1 DEF TypeOK
  <2>3. stack'[t] = [n \in 1..Depth |->
                       IF n <= N THEN <<s, "root", Nth(used, n)>> ELSE None]
    BY <1>9, <2>2
  <2> QED BY <2>1, <2>3
<1>12. TypeOK'
  <2>1. DOMAIN stack' = Thread /\ \A u \in Thread : DOMAIN stack'[u] = 1..Depth
    BY <1>1, <1>9 DEF TypeOK
  <2>2. base_address_shift' \in Int
    BY <1>1, <1>9 DEF TypeOK
  <2> QED BY <1>1, <1>9, <1>10, <2>1, <2>2 DEF TypeOK
<1>13. ControlInv' /\ ChainInv' /\ AddressInv' /\ SearchInv'
  <2>1. "pop" \in Points(th[t].op, th[t].gc)
    BY <1>3 DEF Points, Marking, Collects
  <2> QED BY <1>2, <1>3, <1>9, <1>10, <1>12, <2>1, InnerFrame
<1>14. Marks(t)' /\ Moves(t)' /\ th'[t].pc \notin Building
  BY <1>3, <1>10 DEF Marks, Moves, Collects, Marking, Building, KeepsOp
<1>15. StackInv'
  BY <1>1, <1>10, <1>14, StackOwn
<1>16. ShiftInv'
  <2>1. CASE th[t].op = "collect"
    <3>1. \A u \in Thread \ {t} : th[u].op \in Serial => th[u].pc = "global"
      BY <1>1, <1>2, <1>3, OneSerial
    <3>2. ASSUME NEW u \in Thread
          PROVE  /\ th'[u].op = "open" => th'[u].pc \notin {"adjust"} \cup Building
                 /\ th'[u].op = "collect" => th'[u].shift = 0
      <4>1. CASE u = t
        BY <2>1, <4>1, <1>1, <1>10 DEF KeepsOp, ShiftInv
      <4>2. CASE u # t
        BY <4>2, <1>1, <1>10, <3>1 DEF Others, ShiftInv, Serial, Building
      <4> QED BY <4>1, <4>2
    <3>3. "fields" \in Building
      BY DEF Building
    <3> QED BY <2>1, <3>2, <3>3, <1>9 DEF ShiftInv
  <2>2. CASE th[t].op # "collect"
    <3>1. Shifts(t)' /\ base_address_shift' = base_address_shift /\ th'[t].gc
      BY <2>2, <1>3, <1>9, <1>10 DEF Shifts, Collects, Marking, KeepsOp
    <3> QED BY <2>2, <3>1, <1>1, <1>10, ShiftFrame DEF KeepsOp
  <2> QED BY <2>1, <2>2
<1>17. Height(t)' = N /\ th'[t].want = s
  BY <1>4, <1>10 DEF Height, KeepsOp
<1>18. PositionInv(t)'
  <2>1. N \in 0..Depth
    BY <1>8, DepthNat
  <2>2. th'[t].pc \notin {"back", "load shift", "fields", "store stack"}
    BY <1>10
  <2> QED BY <2>1, <2>2, <1>10, <1>14, <1>17 DEF PositionInv
<1>19. \A f : Pending(t, f)' <=> \E i \in used : f = <<s, "root", i>>
  <2>1. \A f : Pending(t, f)' <=> \E n \in 1..N : f = <<s, "root", Nth(used, n)>>
    BY <1>11, <1>14, <1>17 DEF Pending, OnStack
  <2> QED BY <2>1, <1>6, <1>7, <1>8, Ranks
<1>20. StackedInv(t)'
  <2>1. \A n \in 1..N : Nth(used, n) \in Roots
    BY <1>6, <1>7, <1>8, Ranks
  <2>2. (\A n \in 1..Height(t) :
           \/ \E i \in Roots : stack[t][n] = <<th[t].want, "root", i>>
           \/ \E c \in th[t].todo : stack[t][n] = <<th[t].want, "cell", c>>)'
    BY <1>11, <1>17, <2>1
  <2>3. ASSUME NEW m \in 1..N, NEW n \in 1..N, stack'[t][m] = stack'[t][n] PROVE m = n
    <3>1. Nth(used, m) = Nth(used, n)
      BY <2>3, <1>11
    <3>2. m - 1 = n - 1
      BY <3>1, <1>6, <1>7, <1>8, Ranks
    <3> QED BY <3>2
  <2>4. (\A m, n \in 1..Height(t) : stack[t][m] = stack[t][n] => m = n)'
    BY <2>3, <1>17
  <2>5. th'[t].todo \subseteq img'[s].live
    BY <1>10
  <2> QED BY <2>2, <2>4, <2>5, <1>14, <1>17 DEF StackedInv
<1>21. MarkInv(t)'
  <2>1. PICK old : old = OldBase(t)
    OBVIOUS
  <2>2. OldBase(t)' = old
    BY <1>4, <1>9, <1>10, <2>1 DEF OldBase, KeepsOp
  <2>3. \A p, x : Good(s, p, x)' <=> Good(s, p, x)
    BY <1>9 DEF Good
  <2>4. /\ \A i \in Roots : Good(s, img[s].root[i], old)
        /\ \A c \in img[s].live : Good(s, img[s].ref[c], old)
    BY <1>1, <1>2, <1>4, <2>1 DEF RootsInv
  <2>5. img'[s].root = img[s].root /\ img'[s].ref = img[s].ref /\ img'[s].live = img[s].live
    BY <1>9
  <2>6. ASSUME NEW i \in Roots
        PROVE  (IF Pending(t, <<s, "root", i>>) THEN Good(s, img[s].root[i], OldBase(t))
                                               ELSE Followed(t, img[s].root[i]))'
    <3>1. Good(s, img[s].root[i], OldBase(t))'
      BY <2>2, <2>3, <2>4, <2>5
    <3>2. i \in used => Pending(t, <<s, "root", i>>)'
      BY <1>19
    <3>3. i \notin used => img'[s].root[i] = NULL
      BY <1>5, <2>5
    <3> QED BY <3>1, <3>2, <3>3 DEF Followed
  <2>7. (\A c \in img[s].live : Good(s, img[s].ref[c], OldBase(t)))'
    BY <2>2, <2>3, <2>4, <2>5
  <2> QED BY <2>6, <2>7, <1>10, <1>17 DEF MarkInv
<1>22. ImageInv'
  <2>1. th'[t].pc # "roots" /\ ~Adjusts(t)'
    BY <1>10, <1>14 DEF Adjusts
  <2>2. RestInv(s)' /\ RootsInv(t)' /\ AdjustInv(t)'
    BY <2>1, <1>14, <1>17 DEF RestInv, RootsInv, AdjustInv
  <2> QED BY <1>1, <1>2, <1>3, <1>4, <1>9, <1>10, <1>13, <1>18, <1>20, <1>21, <2>2,
             SerialImage
<1> QED BY <1>13, <1>15, <1>16, <1>22 DEF WholeInv

-----------------------------------------------------------------------------
(* Objects.                                                                *)

\* Nobody opens, closes or collects a storage while an object of it is made
\* or deleted.
LEMMA Shared ==
  ASSUME ControlInv, NEW t \in Thread, NEW s, th[t].want = s, s # None, th[t].op \notin Serial
  PROVE  /\ \A u \in Thread : th[u].want = s => th[u].op \notin Serial
         /\ \A u \in Thread : th[u].want = s => ~Moves(u)
<1>1. \A u \in Thread : th[u].want = s => th[u].op \notin Serial
  BY DEF ControlInv, AloneInv
<1> QED BY <1>1 DEF Moves, Serial

\* A step in the middle of new or delete.
LEMMA ObjectFrame ==
  ASSUME WholeInv, NEW t \in Thread, th[t].op \in {"new", "delete"},
         th[t].pc \in {"allocate", "memset", "free"},
         th' \in [Thread -> Activity], Others(t), KeepsOp(t), th'[t].s = th[t].s,
         th'[t].pc \in {"memset", "load stack", "unlock"},
         th'[t].pc \in Points(th[t].op, th[t].gc),
         img' \in [Storage -> Image], \A r \in Storage : img'[r].base = img[r].base,
         chain' = chain, next' = next, hdr' = hdr, mapped' = mapped,
         global_mutex' = global_mutex, gc_stack' = gc_stack, stack' = stack,
         base_address_shift' = base_address_shift
  PROVE  /\ ControlInv' /\ ChainInv' /\ AddressInv' /\ SearchInv'
         /\ StackInv' /\ ShiftInv'
<1>1. ControlInv /\ StackInv /\ ShiftInv /\ TypeOK
  BY DEF WholeInv, ControlInv
<1>2. TypeOK'
  BY <1>1 DEF TypeOK
<1>3. ControlInv' /\ ChainInv' /\ AddressInv' /\ SearchInv'
  BY <1>2, InnerFrame
<1>4. StackInv'
  BY <1>1, StackFrame DEF Marks, Marking, Building
<1>5. ShiftInv'
  BY <1>1, ShiftFrame DEF Shifts, KeepsOp
<1> QED BY <1>3, <1>4, <1>5

\* The end of new.
LEMMA NewEnd ==
  ASSUME WholeInv, NEW t \in Thread, th[t].pc \in {"allocate", "use"},
         th' = [th EXCEPT ![t] = Idle],
         img' \in [Storage -> Image], \A r \in Storage : img'[r].base = img[r].base,
         chain' = chain, next' = next, hdr' = hdr, mapped' = mapped,
         global_mutex' = global_mutex, gc_stack' = gc_stack, stack' = stack,
         base_address_shift' = base_address_shift
  PROVE  /\ th'[t] = Idle /\ Others(t)
         /\ ControlInv' /\ ChainInv' /\ AddressInv' /\ SearchInv'
         /\ StackInv' /\ ShiftInv'
<1>1. /\ ControlInv /\ ChainInv /\ AddressInv /\ SearchInv /\ StackInv /\ ShiftInv
      /\ ImageInv /\ TypeOK /\ PointInv /\ SerialInv
  BY DEF WholeInv, ControlInv
<1>2. th[t].op = "new" /\ ~th[t].gc
  BY <1>1, AtPoint
<1>3. th' \in [Thread -> Activity] /\ Others(t) /\ th'[t] = Idle
  BY <1>1, IdleType, Becomes
<1>4. TypeOK'
  BY <1>1, <1>3 DEF TypeOK
<1>5. ControlInv'
  <2>1. global_mutex # t
    BY <1>1, <1>2 DEF SerialInv, Serial
  <2> QED BY <1>1, <1>3, <1>4, <2>1, EndControl
<1>6. th'[t].op = "none" /\ th'[t].pc = "idle" /\ th'[t].gc = FALSE
  BY <1>3 DEF Idle
<1>7. ChainInv'
  BY <1>1, <1>2, <1>3, <1>6, ChainFrame
<1>8. AddressInv'
  BY <1>1, AddressFrame
<1>9. SearchInv'
  BY <1>1, <1>3, <1>6, SearchFrame
<1>10. StackInv'
  BY <1>1, <1>3, <1>6, StackFrame DEF Marks, Marking, Building
<1>11. ShiftInv'
  BY <1>1, <1>2, <1>3, <1>6, ShiftFrame DEF Shifts
<1> QED BY <1>3, <1>5, <1>7, <1>8, <1>9, <1>10, <1>11

\* new ends without a change to the storage.
LEMMA NewEndSame ==
  ASSUME WholeInv, NEW t \in Thread, th[t].pc \in {"allocate", "use"},
         th' = [th EXCEPT ![t] = Idle], img' = img,
         chain' = chain, next' = next, hdr' = hdr, mapped' = mapped,
         global_mutex' = global_mutex, gc_stack' = gc_stack, stack' = stack,
         base_address_shift' = base_address_shift
  PROVE  WholeInv'
<1>1. ControlInv /\ ImageInv /\ TypeOK
  BY DEF WholeInv, ControlInv
<1>2. /\ th'[t] = Idle /\ Others(t)
      /\ ControlInv' /\ ChainInv' /\ AddressInv' /\ SearchInv' /\ StackInv' /\ ShiftInv'
  BY <1>1, NewEnd DEF TypeOK
<1>3. th'[t].op = "none" /\ th'[t].pc = "idle"
  BY <1>2 DEF Idle
<1>4. ~Moves(t) /\ ~Moves(t)' /\ ~Makes(t)' /\ ~Deletes(t)'
  BY <1>3 DEF Moves, Makes, Deletes, Marking, Building
<1>5. OwnCellInv'
  BY <1>1, <1>2, <1>4, OwnCellSame DEF ImageInv
<1>6. ObjectInv(t)'
  BY <1>4 DEF ObjectInv
<1>7. ImageInv'
  BY <1>1, <1>2, <1>3, <1>4, <1>5, <1>6, QuietImage
<1> QED BY <1>2, <1>7 DEF WholeInv

\* A free cell is taken; its memory is what was left there.
LEMMA AllocateCell ==
  ASSUME WholeInv, NEW t \in Thread, th[t].pc = "allocate",
         NEW s \in Storage, th[t].want = s, NEW c \in Cell \ img[s].live,
         img' = [img EXCEPT ![s].live = @ \cup {c}],
         th' = [th EXCEPT ![t].cell = c, ![t].pc = "memset"],
         chain' = chain, next' = next, hdr' = hdr, mapped' = mapped,
         global_mutex' = global_mutex, gc_stack' = gc_stack, stack' = stack,
         base_address_shift' = base_address_shift
  PROVE  WholeInv'
<1>1. /\ ControlInv /\ ImageInv /\ TypeOK /\ PointInv /\ RestInv(s) /\ OwnCellInv
      /\ \A u \in Thread : ObjectInv(u)
  BY DEF WholeInv, ControlInv, ImageInv
<1>2. th[t].op = "new" /\ ~th[t].gc /\ th[t].op \notin Serial /\ th[t].s = s
  BY <1>1, AtPoint, Inside DEF Serial
<1>3. s # None
  BY StoragesAssumption
<1>4. /\ th' \in [Thread -> Activity] /\ Others(t) /\ KeepsOp(t)
      /\ th'[t].pc = "memset" /\ th'[t].cell = c /\ th'[t].s = th[t].s
  <2>1. c \in Cell
    OBVIOUS
  <2> QED BY <1>1, <2>1, AllocateMoves
<1>5. /\ img' \in [Storage -> Image]
      /\ \A r \in Storage : r # s => img'[r] = img[r]
      /\ img'[s].live = img[s].live \cup {c}
      /\ img'[s].base = img[s].base /\ img'[s].root = img[s].root /\ img'[s].ref = img[s].ref
  <2>1. img \in [Storage -> Image] /\ img[s] \in Image
    BY <1>1 DEF TypeOK
  <2> QED BY <2>1 DEF Image
<1>6. \A r \in Storage : img'[r].base = img[r].base
  BY <1>5
<1>7. /\ ControlInv' /\ ChainInv' /\ AddressInv' /\ SearchInv' /\ StackInv' /\ ShiftInv'
  <2>1. "memset" \in Points(th[t].op, th[t].gc)
    BY <1>2 DEF Points
  <2> QED BY <1>2, <1>4, <1>5, <1>6, <2>1, ObjectFrame
<1>8. /\ \A u \in Thread : th[u].want = s => th[u].op \notin Serial
      /\ \A u \in Thread : th[u].want = s => ~Moves(u)
  BY <1>1, <1>2, <1>3, Shared
<1>9. Raw(s, c)' /\ \A d : Raw(s, d) => Raw(s, d)'
  <2>1. th'[t].want = s
    BY <1>4 DEF KeepsOp
  <2> QED BY <2>1, <1>4 DEF Raw, Others
<1>10. RestInv(s)'
  <2>1. \A p, b : Good(s, p, b) => Good(s, p, b)'
    BY <1>5 DEF Good
  <2>2. /\ \A i \in Roots : Good(s, img[s].root[i], img[s].base)
        /\ \A d \in img[s].live : Raw(s, d) \/ Good(s, img[s].ref[d], img[s].base)
    BY <1>1, <1>8 DEF RestInv
  <2>3. (\A i \in Roots : Good(s, img[s].root[i], img[s].base))'
    BY <1>5, <2>1, <2>2
  <2>4. (\A d \in img[s].live : Raw(s, d) \/ Good(s, img[s].ref[d], img[s].base))'
    BY <1>5, <1>9, <2>1, <2>2
  <2> QED BY <2>3, <2>4 DEF RestInv
<1>11. \A u \in Thread : th[u].want = s /\ (Makes(u) \/ Deletes(u)) => th[u].cell \in img[s].live
  BY <1>1 DEF ObjectInv
<1>12. \A u \in Thread \ {t} : (Makes(u)' <=> Makes(u)) /\ (Deletes(u)' <=> Deletes(u))
  BY <1>4 DEF Makes, Deletes, Others
<1>13. OwnCellInv'
  <2> SUFFICES ASSUME NEW u \in Thread, NEW v \in Thread,
                      u # v, th'[u].want = th'[v].want,
                      Makes(u)' \/ Deletes(u)', Makes(v)' \/ Deletes(v)'
               PROVE  th'[u].cell # th'[v].cell
    BY DEF OwnCellInv
  <2>1. th'[t].want = s
    BY <1>4 DEF KeepsOp
  <2>2. CASE u = t
    BY <2>1, <2>2, <1>4, <1>11, <1>12 DEF Others
  <2>3. CASE v = t
    BY <2>1, <2>3, <1>4, <1>11, <1>12 DEF Others
  <2>4. CASE u # t /\ v # t
    BY <2>4, <1>1, <1>4, <1>12 DEF Others, OwnCellInv
  <2> QED BY <2>2, <2>3, <2>4
<1>14. ASSUME NEW u \in Thread, th'[u].want = s PROVE ObjectInv(u)'
  <2>1. CASE u = t
    <3>1. ~Deletes(t)'
      BY <1>2, <1>4 DEF Deletes, KeepsOp
    <3> QED BY <2>1, <3>1, <1>4, <1>5, <1>14 DEF ObjectInv
  <2>2. CASE u # t
    <3>1. th'[u] = th[u] /\ ObjectInv(u) /\ th[u].want = s
      BY <2>2, <1>1, <1>4, <1>14 DEF Others
    <3>2. /\ Makes(u)' \/ Deletes(u)' => th'[u].cell \in img'[s].live
          /\ Makes(u)' /\ th'[u].pc # "memset" => img'[s].ref[th'[u].cell] = NULL
      BY <2>2, <3>1, <1>5, <1>12 DEF ObjectInv
    <3>3. Deletes(u)' => Unreferred(s, th[u].cell)'
      <4>1. Deletes(u) => Unreferred(s, th[u].cell)
        BY <3>1 DEF ObjectInv
      <4>2. Unreferred(s, th[u].cell) => Unreferred(s, th[u].cell)'
        BY <3>1, <1>5, <1>9 DEF Unreferred
      <4> QED BY <2>2, <4>1, <4>2, <1>12
    <3> QED BY <3>1, <3>2, <3>3 DEF ObjectInv
  <2> QED BY <2>1, <2>2
<1>15. ImageInv'
  <2>1. th'[t].want = s /\ th'[t].op \notin Serial
    BY <1>2, <1>4 DEF KeepsOp
  <2> QED BY <1>1, <1>4, <1>5, <1>7, <1>8, <1>10, <1>13, <1>14, <2>1, ObjectImage
<1> QED BY <1>7, <1>15 DEF WholeInv

\* allocate() gives a cell to one thread only.
LEMMA AllocateWhole ==
  ASSUME WholeInv, NEW t \in Thread, Allocate(t) PROVE WholeInv'
<1>1. TypeOK /\ PointInv /\ th[t].pc = "allocate"
  BY DEF WholeInv, ControlInv, Allocate
<1>2. PICK s \in Storage : th[t].want = s /\ th[t].s = s
  BY <1>1, Inside
<1>3. /\ chain' = chain /\ next' = next /\ hdr' = hdr /\ mapped' = mapped
      /\ global_mutex' = global_mutex /\ gc_stack' = gc_stack /\ stack' = stack
      /\ base_address_shift' = base_address_shift
  BY DEF Allocate, list, map, globals
<1>4. CASE \E c \in Cell \ img[th[t].s].live :
             /\ img' = [img EXCEPT ![th[t].s].live = @ \cup {c}]
             /\ th' = [th EXCEPT ![t].cell = c, ![t].pc = "memset"]
  <2>1. PICK c \in Cell \ img[th[t].s].live :
             /\ img' = [img EXCEPT ![th[t].s].live = @ \cup {c}]
             /\ th' = [th EXCEPT ![t].cell = c, ![t].pc = "memset"]
    BY <1>4
  <2>2. c \in Cell \ img[s].live /\ img' = [img EXCEPT ![s].live = @ \cup {c}]
    BY <1>2, <2>1
  <2> QED BY <1>1, <1>2, <1>3, <2>1, <2>2, AllocateCell
<1>5. CASE th' = [th EXCEPT ![t] = Idle] /\ img' = img
  BY <1>1, <1>3, <1>5, NewEndSame
<1> QED BY <1>4, <1>5 DEF Allocate

\* operator new clears an object that nobody else has.
LEMMA MemsetWhole ==
  ASSUME WholeInv, NEW t \in Thread, Memset(t) PROVE WholeInv'
<1>1. /\ ControlInv /\ ImageInv /\ TypeOK /\ PointInv /\ OwnCellInv
      /\ \A u \in Thread : ObjectInv(u)
  BY DEF WholeInv, ControlInv, ImageInv
<1>2. th[t].pc = "memset" /\ th[t].op = "new" /\ ~th[t].gc /\ th[t].op \notin Serial /\ Makes(t)
  BY <1>1, AtPoint DEF Memset, Serial, Makes
<1>3. PICK s \in Storage : th[t].want = s /\ th[t].s = s /\ s # None
  BY <1>1, <1>2, Inside, StoragesAssumption
<1>4. PICK c \in Cell : th[t].cell = c /\ c \in img[s].live
  <2>1. th[t].cell \in img[s].live
    BY <1>1, <1>2, <1>3 DEF ObjectInv
  <2>2. img[s].live \subseteq Cell
    BY <1>1 DEF TypeOK, Image
  <2> QED BY <2>1, <2>2
<1>5. /\ img' = Put(<<s, "cell", c>>, NULL) /\ Step(t, "load stack")
      /\ chain' = chain /\ next' = next /\ hdr' = hdr /\ mapped' = mapped
      /\ global_mutex' = global_mutex /\ gc_stack' = gc_stack /\ stack' = stack
      /\ base_address_shift' = base_address_shift
  BY <1>3, <1>4 DEF Memset, list, map, locks, globals
<1>6. /\ img' \in [Storage -> Image]
      /\ \A r \in Storage : /\ r # s => img'[r] = img[r]
                           /\ img'[r].base = img[r].base
                           /\ img'[r].live = img[r].live
                           /\ img'[r].root = img[r].root
      /\ img'[s].ref[c] = NULL
      /\ \A d \in Cell : d # c => img'[s].ref[d] = img[s].ref[d]
  <2>1. NULL \in Pointer
    BY DEF NULL, Pointer
  <2> QED BY <1>1, <1>5, <2>1, PutCell
<1>7. /\ th' \in [Thread -> Activity] /\ Others(t) /\ KeepsOp(t) /\ KeepsWork(t)
      /\ th'[t].pc = "load stack" /\ th'[t].s = th[t].s
  <2>1. "load stack" \in Point
    BY DEF Point, Marking, Building
  <2> QED BY <1>1, <1>5, <2>1, StepMoves
<1>8. /\ ControlInv' /\ ChainInv' /\ AddressInv' /\ SearchInv' /\ StackInv' /\ ShiftInv'
  <2>1. "load stack" \in Points(th[t].op, th[t].gc)
    BY <1>2 DEF Points, Building
  <2> QED BY <1>2, <1>5, <1>6, <1>7, <2>1, ObjectFrame
<1>9. /\ \A u \in Thread : th[u].want = s => th[u].op \notin Serial
      /\ \A u \in Thread : th[u].want = s => ~Moves(u)
  BY <1>1, <1>2, <1>3, Shared
<1>10. \A d : d # c /\ Raw(s, d) => Raw(s, d)'
  BY <1>3, <1>4, <1>7 DEF Raw, Others
<1>11. img[s].live \subseteq Cell
  BY <1>1 DEF TypeOK, Image
<1>12. RestInv(s)'
  <2>1. \A p, b : Good(s, p, b) => Good(s, p, b)'
    BY <1>6 DEF Good
  <2>2. \A b : Good(s, NULL, b)'
    BY DEF Good
  <2>3. /\ \A i \in Roots : Good(s, img[s].root[i], img[s].base)
        /\ \A d \in img[s].live : Raw(s, d) \/ Good(s, img[s].ref[d], img[s].base)
    BY <1>1, <1>9 DEF RestInv, ImageInv
  <2>4. (\A i \in Roots : Good(s, img[s].root[i], img[s].base))'
    BY <1>6, <2>1, <2>3
  <2>5. (\A d \in img[s].live : Raw(s, d) \/ Good(s, img[s].ref[d], img[s].base))'
    BY <1>6, <1>10, <1>11, <2>1, <2>2, <2>3
  <2> QED BY <2>4, <2>5 DEF RestInv
<1>13. /\ Makes(t)' /\ ~Deletes(t)' /\ th'[t].want = s /\ th'[t].cell = c
       /\ th'[t].op \notin Serial
  BY <1>2, <1>3, <1>4, <1>7 DEF Makes, Deletes, KeepsOp, KeepsWork
<1>14. OwnCellInv'
  BY <1>1, <1>2, <1>3, <1>4, <1>7, <1>13, OwnCellSame
<1>15. ASSUME NEW u \in Thread, th'[u].want = s PROVE ObjectInv(u)'
  <2>1. CASE u = t
    BY <2>1, <1>4, <1>6, <1>13 DEF ObjectInv
  <2>2. CASE u # t
    <3>1. th'[u] = th[u] /\ ObjectInv(u) /\ th[u].want = s
      BY <2>2, <1>1, <1>7, <1>15 DEF Others
    <3>2. (Makes(u)' <=> Makes(u)) /\ (Deletes(u)' <=> Deletes(u))
      BY <3>1 DEF Makes, Deletes
    <3>3. Makes(u) \/ Deletes(u) => th[u].cell \in img[s].live
      BY <3>1 DEF ObjectInv
    <3>4. Makes(u) /\ th[u].pc # "memset" => img'[s].ref[th[u].cell] = NULL
      <4>1. Makes(u) /\ th[u].pc # "memset" => img[s].ref[th[u].cell] = NULL
        BY <3>1 DEF ObjectInv
      <4> QED BY <3>3, <4>1, <1>6, <1>11
    <3>5. Deletes(u) => Unreferred(s, th[u].cell)'
      <4> SUFFICES ASSUME Deletes(u) PROVE Unreferred(s, th[u].cell)'
        OBVIOUS
      <4>1. PICK e : e = th[u].cell
        OBVIOUS
      <4>2. Unreferred(s, e) /\ e # 0
        BY <3>1, <3>3, <4>1, <1>11, StoragesAssumption DEF ObjectInv
      <4>3. NULL.to # e
        BY <4>2 DEF NULL
      <4>4. Unreferred(s, e)'
        BY <4>2, <4>3, <1>6, <1>10, <1>11 DEF Unreferred
      <4> QED BY <3>1, <4>1, <4>4
    <3> QED BY <3>1, <3>2, <3>3, <3>4, <3>5, <1>6 DEF ObjectInv
  <2> QED BY <2>1, <2>2
<1>16. ImageInv'
  BY <1>1, <1>3, <1>5, <1>6, <1>7, <1>8, <1>9, <1>12, <1>13, <1>14, <1>15, ObjectImage
<1> QED BY <1>8, <1>16 DEF WholeInv

\* What nothing refers to is freed.
LEMMA FreeWhole ==
  ASSUME WholeInv, NEW t \in Thread, Free(t) PROVE WholeInv'
<1>1. /\ ControlInv /\ ImageInv /\ TypeOK /\ PointInv /\ OwnCellInv
      /\ \A u \in Thread : ObjectInv(u)
  BY DEF WholeInv, ControlInv, ImageInv
<1>2. /\ th[t].pc = "free" /\ th[t].op = "delete" /\ ~th[t].gc /\ th[t].op \notin Serial
      /\ Deletes(t)
  BY <1>1, AtPoint DEF Free, Serial, Deletes
<1>3. PICK s \in Storage : th[t].want = s /\ th[t].s = s /\ s # None
  BY <1>1, <1>2, Inside, StoragesAssumption
<1>4. PICK c : th[t].cell = c /\ Unreferred(s, c)
  BY <1>1, <1>2, <1>3 DEF ObjectInv
<1>5. /\ img' = [img EXCEPT ![s].live = @ \ {c}] /\ Step(t, "unlock")
      /\ chain' = chain /\ next' = next /\ hdr' = hdr /\ mapped' = mapped
      /\ global_mutex' = global_mutex /\ gc_stack' = gc_stack /\ stack' = stack
      /\ base_address_shift' = base_address_shift
  BY <1>3, <1>4 DEF Free, list, map, locks, globals
<1>6. /\ img' \in [Storage -> Image]
      /\ \A r \in Storage : r # s => img'[r] = img[r]
      /\ img'[s].live = img[s].live \ {c}
      /\ img'[s].base = img[s].base /\ img'[s].root = img[s].root /\ img'[s].ref = img[s].ref
  <2>1. img \in [Storage -> Image] /\ img[s] \in Image
    BY <1>1 DEF TypeOK
  <2> QED BY <1>5, <2>1 DEF Image
<1>7. /\ th' \in [Thread -> Activity] /\ Others(t) /\ KeepsOp(t) /\ KeepsWork(t)
      /\ th'[t].pc = "unlock" /\ th'[t].s = th[t].s
  <2>1. "unlock" \in Point
    BY DEF Point
  <2> QED BY <1>1, <1>5, <2>1, StepMoves
<1>8. /\ ControlInv' /\ ChainInv' /\ AddressInv' /\ SearchInv' /\ StackInv' /\ ShiftInv'
  <2>1. "unlock" \in Points(th[t].op, th[t].gc)
    BY <1>2 DEF Points
  <2>2. \A r \in Storage : img'[r].base = img[r].base
    BY <1>6
  <2> QED BY <1>2, <1>5, <1>6, <1>7, <2>1, <2>2, ObjectFrame
<1>9. /\ \A u \in Thread : th[u].want = s => th[u].op \notin Serial
      /\ \A u \in Thread : th[u].want = s => ~Moves(u)
  BY <1>1, <1>2, <1>3, Shared
<1>10. \A d : Raw(s, d) => Raw(s, d)'
  BY <1>2, <1>7 DEF Raw, Others
<1>11. RestInv(s)'
  <2>1. \A p, b : Good(s, p, b) /\ p.to # c => Good(s, p, b)'
    BY <1>6 DEF Good
  <2>2. /\ \A i \in Roots : Good(s, img[s].root[i], img[s].base)
        /\ \A d \in img[s].live : Raw(s, d) \/ Good(s, img[s].ref[d], img[s].base)
    BY <1>1, <1>9 DEF RestInv, ImageInv
  <2>3. (\A i \in Roots : Good(s, img[s].root[i], img[s].base))'
    BY <1>4, <1>6, <2>1, <2>2 DEF Unreferred
  <2>4. (\A d \in img[s].live : Raw(s, d) \/ Good(s, img[s].ref[d], img[s].base))'
    BY <1>4, <1>6, <1>10, <2>1, <2>2 DEF Unreferred
  <2> QED BY <2>3, <2>4 DEF RestInv
<1>12. ~Makes(t)' /\ ~Deletes(t)' /\ th'[t].want = s /\ th'[t].op \notin Serial
  BY <1>2, <1>3, <1>7 DEF Makes, Deletes, KeepsOp
<1>13. OwnCellInv'
  BY <1>1, <1>7, <1>12, OwnCellSame
<1>14. ASSUME NEW u \in Thread, th'[u].want = s PROVE ObjectInv(u)'
  <2>1. CASE u = t
    BY <2>1, <1>12 DEF ObjectInv
  <2>2. CASE u # t
    <3>1. th'[u] = th[u] /\ ObjectInv(u) /\ th[u].want = s
      BY <2>2, <1>1, <1>7, <1>14 DEF Others
    <3>2. (Makes(u)' <=> Makes(u)) /\ (Deletes(u)' <=> Deletes(u))
      BY <3>1 DEF Makes, Deletes
    <3>3. Makes(u) \/ Deletes(u) => th[u].cell \in img'[s].live
      <4>1. Makes(u) \/ Deletes(u) => th[u].cell # c
        BY <2>2, <3>1, <1>1, <1>2, <1>3, <1>4 DEF OwnCellInv
      <4>2. Makes(u) \/ Deletes(u) => th[u].cell \in img[s].live
        BY <3>1 DEF ObjectInv
      <4> QED BY <4>1, <4>2, <1>6
    <3>4. Makes(u) /\ th[u].pc # "memset" => img'[s].ref[th[u].cell] = NULL
      BY <3>1, <1>6 DEF ObjectInv
    <3>5. Deletes(u) => Unreferred(s, th[u].cell)'
      <4> SUFFICES ASSUME Deletes(u) PROVE Unreferred(s, th[u].cell)'
        OBVIOUS
      <4>1. PICK e : e = th[u].cell
        OBVIOUS
      <4>2. Unreferred(s, e)
        BY <3>1, <4>1 DEF ObjectInv
      <4>3. Unreferred(s, e)'
        BY <4>2, <1>6, <1>10 DEF Unreferred
      <4> QED BY <3>1, <4>1, <4>3
    <3> QED BY <3>1, <3>2, <3>3, <3>4, <3>5 DEF ObjectInv
  <2> QED BY <2>1, <2>2
<1>15. ImageInv'
  BY <1>1, <1>3, <1>5, <1>6, <1>7, <1>8, <1>9, <1>11, <1>12, <1>13, <1>14, ObjectImage
<1> QED BY <1>8, <1>15 DEF WholeInv

\* The image of one storage is replaced.
LEMMA ImagePut ==
  ASSUME TypeOK, NEW s \in Storage, NEW image \in Image, img' = [img EXCEPT ![s] = image]
  PROVE  img' \in [Storage -> Image] /\ \A r \in Storage : r # s => img'[r] = img[r]
BY DEF TypeOK

\* A root and the new object are made to refer to what is there.
LEMMA UseObject ==
  ASSUME WholeInv, NEW t \in Thread, th[t].pc = "use",
         NEW s \in Storage, th[t].want = s, NEW c, th[t].cell = c,
         NEW i \in Roots, NEW p \in {Ptr(hdr[s], c), img[s].root[i]},
         img' = [img EXCEPT ![s].root[i] = Ptr(hdr[s], c), ![s].ref[c] = p],
         th' = [th EXCEPT ![t] = Idle],
         chain' = chain, next' = next, hdr' = hdr, mapped' = mapped,
         global_mutex' = global_mutex, gc_stack' = gc_stack, stack' = stack,
         base_address_shift' = base_address_shift
  PROVE  WholeInv'
<1>1. /\ ControlInv /\ ImageInv /\ TypeOK /\ PointInv /\ OwnCellInv /\ AddressInv /\ MappedInv
      /\ \A u \in Thread : ObjectInv(u)
  BY DEF WholeInv, ControlInv, ImageInv
<1>2. th[t].op = "new" /\ ~th[t].gc /\ th[t].op \notin Serial /\ Makes(t) /\ th[t] # Idle
  BY <1>1, AtPoint, Inside DEF Serial, Makes
<1>3. s # None
  BY StoragesAssumption
<1>4. hdr[s] = img[s].base /\ hdr[s] \in Int
  <2>1. s \in mapped
    BY <1>1, <1>2 DEF MappedInv
  <2> QED BY <1>1, <2>1, StoragesAssumption DEF AddressInv, TypeOK
<1>5. c \in img[s].live /\ c \in Cell
  <2>1. c \in img[s].live
    BY <1>1, <1>2 DEF ObjectInv
  <2>2. img[s].live \subseteq Cell
    BY <1>1 DEF TypeOK, Image
  <2> QED BY <2>1, <2>2
<1>6. PICK q : q = Ptr(hdr[s], c)
  OBVIOUS
<1>7. q \in Pointer /\ q.to = c /\ q.base = img[s].base
  BY <1>4, <1>5, <1>6 DEF Ptr, Pointer
<1>8. img[s] \in Image /\ img \in [Storage -> Image]
  BY <1>1 DEF TypeOK
<1>9. p \in Pointer /\ p \in {q, img[s].root[i]}
  BY <1>6, <1>7, <1>8 DEF Image
<1>10. /\ img' \in [Storage -> Image]
       /\ \A r \in Storage : r # s => img'[r] = img[r]
       /\ img'[s].base = img[s].base /\ img'[s].live = img[s].live
       /\ img'[s].root = [img[s].root EXCEPT ![i] = q]
       /\ img'[s].ref = [img[s].ref EXCEPT ![c] = p]
  <2>1. PICK root : root = [img[s].root EXCEPT ![i] = q]
    OBVIOUS
  <2>2. PICK ref : ref = [img[s].ref EXCEPT ![c] = p]
    OBVIOUS
  <2>3. root \in [Roots -> Pointer] /\ ref \in [Cell -> Pointer]
    BY <1>5, <1>7, <1>8, <1>9, <2>1, <2>2 DEF Image
  <2>4. img' = [img EXCEPT ![s] = [img[s] EXCEPT !.root = root, !.ref = ref]]
    BY <1>6, <1>8, <2>1, <2>2 DEF Image
  <2>5. [img[s] EXCEPT !.root = root, !.ref = ref] \in Image
    BY <1>8, <2>3 DEF Image
  <2>6. img'[s] = [img[s] EXCEPT !.root = root, !.ref = ref]
    BY <1>8, <2>4
  <2>7. /\ img'[s].base = img[s].base /\ img'[s].live = img[s].live
        /\ img'[s].root = root /\ img'[s].ref = ref
    BY <1>8, <2>6 DEF Image
  <2>8. img' \in [Storage -> Image] /\ \A r \in Storage : r # s => img'[r] = img[r]
    <3>1. PICK image \in Image : image = [img[s] EXCEPT !.root = root, !.ref = ref]
      BY <2>5
    <3>2. img' = [img EXCEPT ![s] = image]
      BY <2>4, <3>1
    <3> QED BY <1>1, <3>2, ImagePut, Zenon
  <2> QED BY <2>1, <2>2, <2>7, <2>8
<1>11. /\ img'[s].root[i] = q /\ \A j \in Roots : j # i => img'[s].root[j] = img[s].root[j]
       /\ img'[s].ref[c] = p /\ \A d \in Cell : d # c => img'[s].ref[d] = img[s].ref[d]
       /\ img[s].live \subseteq Cell
  BY <1>5, <1>8, <1>10 DEF Image
<1>12. /\ th'[t] = Idle /\ Others(t)
       /\ ControlInv' /\ ChainInv' /\ AddressInv' /\ SearchInv' /\ StackInv' /\ ShiftInv'
  <2>1. \A r \in Storage : img'[r].base = img[r].base
    BY <1>10
  <2> QED BY <1>10, <2>1, NewEnd
<1>13. /\ \A u \in Thread : th[u].want = s => th[u].op \notin Serial
       /\ \A u \in Thread : th[u].want = s => ~Moves(u)
  BY <1>1, <1>2, <1>3, Shared
<1>14. \A d : Raw(s, d) => Raw(s, d)'
  BY <1>12 DEF Raw, Others
<1>15. /\ \A j \in Roots : Good(s, img[s].root[j], img[s].base)
       /\ \A d \in img[s].live : Raw(s, d) \/ Good(s, img[s].ref[d], img[s].base)
  BY <1>1, <1>13 DEF RestInv, ImageInv
<1>16. RestInv(s)'
  <2>1. \A x, b : Good(s, x, b) => Good(s, x, b)'
    BY <1>10 DEF Good
  <2>2. Good(s, q, img[s].base) /\ Good(s, p, img[s].base)
    <3>1. Good(s, q, img[s].base)
      BY <1>5, <1>7 DEF Good
    <3> QED BY <3>1, <1>9, <1>15
  <2>3. (\A j \in Roots : Good(s, img[s].root[j], img[s].base))'
    BY <1>10, <1>11, <1>15, <2>1, <2>2
  <2>4. (\A d \in img[s].live : Raw(s, d) \/ Good(s, img[s].ref[d], img[s].base))'
    BY <1>10, <1>11, <1>14, <1>15, <2>1, <2>2
  <2> QED BY <2>3, <2>4 DEF RestInv
<1>17. th'[t].op = "none" /\ th'[t].pc = "idle" /\ ~Makes(t)' /\ ~Deletes(t)'
  BY <1>12 DEF Idle, Makes, Deletes
<1>18. OwnCellInv'
  BY <1>1, <1>12, <1>17, OwnCellSame
<1>19. ASSUME NEW u \in Thread, th'[u].want = s PROVE ObjectInv(u)'
  <2>1. CASE u = t
    BY <2>1, <1>17 DEF ObjectInv
  <2>2. CASE u # t
    <3>1. th'[u] = th[u] /\ ObjectInv(u) /\ th[u].want = s
      BY <2>2, <1>1, <1>12, <1>19 DEF Others
    <3>2. (Makes(u)' <=> Makes(u)) /\ (Deletes(u)' <=> Deletes(u))
      BY <3>1 DEF Makes, Deletes
    <3>3. Makes(u) \/ Deletes(u) => th[u].cell \in img[s].live
      BY <3>1 DEF ObjectInv
    <3>4. Makes(u) \/ Deletes(u) => th[u].cell # c
      BY <2>2, <3>1, <1>1, <1>2 DEF OwnCellInv
    <3>5. Makes(u) /\ th[u].pc # "memset" => img'[s].ref[th[u].cell] = NULL
      <4>1. Makes(u) /\ th[u].pc # "memset" => img[s].ref[th[u].cell] = NULL
        BY <3>1 DEF ObjectInv
      <4> QED BY <3>3, <3>4, <4>1, <1>11
    <3>6. Deletes(u) => Unreferred(s, th[u].cell)'
      <4> SUFFICES ASSUME Deletes(u) PROVE Unreferred(s, th[u].cell)'
        OBVIOUS
      <4>1. PICK e : e = th[u].cell
        OBVIOUS
      <4>2. Unreferred(s, e) /\ e # c
        BY <3>1, <3>4, <4>1 DEF ObjectInv
      <4>3. q.to # e /\ p.to # e
        BY <4>2, <1>7, <1>9 DEF Unreferred
      <4>4. Unreferred(s, e)'
        BY <4>2, <4>3, <1>10, <1>11, <1>14 DEF Unreferred
      <4> QED BY <3>1, <4>1, <4>4
    <3> QED BY <3>1, <3>2, <3>3, <3>5, <3>6, <1>10 DEF ObjectInv
  <2> QED BY <2>1, <2>2
<1>20. ImageInv'
  BY <1>1, <1>10, <1>12, <1>13, <1>16, <1>18, <1>19, ObjectImage, Zenon
<1> QED BY <1>12, <1>20 DEF WholeInv

\* The application uses the new object or leaves it alone.
LEMMA UseWhole ==
  ASSUME WholeInv, NEW t \in Thread, Use(t) PROVE WholeInv'
<1>1. TypeOK /\ PointInv /\ th[t].pc = "use"
  BY DEF WholeInv, ControlInv, Use
<1>2. PICK s \in Storage : th[t].want = s /\ th[t].s = s
  BY <1>1, Inside, Zenon
<1>3. /\ chain' = chain /\ next' = next /\ hdr' = hdr /\ mapped' = mapped
      /\ global_mutex' = global_mutex /\ gc_stack' = gc_stack /\ stack' = stack
      /\ base_address_shift' = base_address_shift /\ th' = [th EXCEPT ![t] = Idle]
  BY DEF Use, list, map, locks, globals
<1>4. PICK c : th[t].cell = c
  OBVIOUS
<1>5. CASE img' = img
  BY <1>1, <1>3, <1>5, NewEndSame
<1>6. CASE \E i \in Roots : \E p \in {Ptr(hdr[th[t].s], th[t].cell), img[th[t].s].root[i]} :
             img' = [img EXCEPT ![th[t].s].root[i] = Ptr(hdr[th[t].s], th[t].cell),
                                ![th[t].s].ref[th[t].cell] = p]
  <2>1. PICK i \in Roots :
          \E p \in {Ptr(hdr[th[t].s], th[t].cell), img[th[t].s].root[i]} :
            img' = [img EXCEPT ![th[t].s].root[i] = Ptr(hdr[th[t].s], th[t].cell),
                               ![th[t].s].ref[th[t].cell] = p]
    BY <1>6
  <2>2. PICK p \in {Ptr(hdr[th[t].s], th[t].cell), img[th[t].s].root[i]} :
          img' = [img EXCEPT ![th[t].s].root[i] = Ptr(hdr[th[t].s], th[t].cell),
                             ![th[t].s].ref[th[t].cell] = p]
    BY <2>1
  <2>3. /\ p \in {Ptr(hdr[s], c), img[s].root[i]}
        /\ img' = [img EXCEPT ![s].root[i] = Ptr(hdr[s], c), ![s].ref[c] = p]
    BY <1>2, <1>4, <2>2
  <2> QED BY <1>1, <1>2, <1>3, <1>4, <2>3, UseObject
<1> QED BY <1>5, <1>6 DEF Use

-----------------------------------------------------------------------------
(* The theorems.                                                           *)

\* The invariant holds at the start.
LEMMA InitWhole == ASSUME Init PROVE WholeInv
<1>1. /\ chain = None /\ next = [s \in Storage |-> None] /\ hdr = Home /\ mapped = {}
      /\ global_mutex = None /\ gc_stack = None /\ base_address_shift = 0
      /\ th = [t \in Thread |-> Idle]
  BY DEF Init
<1>2. \A t \in Thread : /\ th[t] = Idle /\ th[t].pc = "idle" /\ th[t].op = "none"
                        /\ th[t].want = None /\ ~th[t].gc
  BY <1>1 DEF Idle
<1>3. NULL \in Pointer
  BY DEF NULL, Pointer
<1>4. img \in [Storage -> Image]
  BY <1>3, StoragesAssumption DEF Init, Image
<1>5. TypeOK
  <2>1. th \in [Thread -> Activity]
    BY <1>1, IdleType
  <2>2. DOMAIN stack = Thread /\ \A t \in Thread : DOMAIN stack[t] = 1..Depth
    BY DEF Init
  <2>3. next \in [Storage -> Storage \cup {None}] /\ hdr \in [Storage -> Base]
    BY <1>1, StoragesAssumption
  <2> QED BY <1>1, <1>4, <2>1, <2>2, <2>3 DEF TypeOK, Position
<1>6. ControlInv
  <2>1. PointInv /\ AloneInv /\ MappedInv
    BY <1>2 DEF PointInv, AloneInv, MappedInv
  <2>2. SerialInv
    BY <1>1, <1>2, StoragesAssumption DEF SerialInv, Serial
  <2>3. ApartInv
    BY <1>2 DEF ApartInv, Making
  <2> QED BY <1>5, <2>1, <2>2, <2>3 DEF ControlInv
<1>7. ChainInv /\ SearchInv /\ AddressInv
  <2>1. next \in Links
    BY <1>5 DEF TypeOK, Links
  <2>2. Linked = {}
    BY <1>1, <2>1, FromFacts DEF Linked
  <2> QED BY <1>1, <1>2, <2>2 DEF ChainInv, SearchInv, Searching, AddressInv
<1>8. StackInv /\ ShiftInv
  BY <1>1, <1>2 DEF StackInv, ShiftInv
<1>9. ImageInv
  <2>1. \A s \in Storage : img[s].live = {} /\ \A i \in Roots : img[s].root[i] = NULL
    BY DEF Init
  <2>2. \A s \in Storage : RestInv(s)
    BY <2>1 DEF RestInv, Good
  <2>3. \A t \in Thread : ~Makes(t) /\ ~Deletes(t) /\ ~Adjusts(t) /\ ~Marks(t)
    BY <1>2 DEF Makes, Deletes, Adjusts, Marks, Collects
  <2>4. OwnCellInv
    BY <2>3 DEF OwnCellInv
  <2>5. \A t \in Thread : ObjectInv(t) /\ AdjustInv(t)
    BY <2>3 DEF ObjectInv, AdjustInv
  <2>6. \A t \in Thread : PositionInv(t) /\ StackedInv(t) /\ MarkInv(t)
    BY <2>3 DEF PositionInv, StackedInv, MarkInv
  <2>7. \A t \in Thread : RootsInv(t)
    BY <1>2 DEF RootsInv
  <2> QED BY <2>2, <2>4, <2>5, <2>6, <2>7 DEF ImageInv
<1> QED BY <1>6, <1>7, <1>8, <1>9 DEF WholeInv

\* Every step keeps it.
LEMMA NextWhole == ASSUME Apart, WholeInv, [Next]_vars PROVE WholeInv'
<1>1. CASE Next
  <2>1. PICK t \in Thread : Begin(t) \/ Continue(t)
    BY <1>1 DEF Next
  <2>2. CASE Begin(t)
    <3>1. PICK s \in Storage :
            \/ garbage_collection(t, s) \/ close(t, s) \/ new(t, s)
            \/ \E gc \in BOOLEAN : open(t, s, gc)
            \/ \E c \in Cell : delete(t, s, c)
            \/ \E i \in Roots : Forget(t, s, i)
      BY <2>2 DEF Begin
    <3>2. CASE \E i \in Roots : Forget(t, s, i)
      BY <3>2, ForgetWhole
    <3>3. CASE ~\E i \in Roots : Forget(t, s, i)
      BY <3>1, <3>3, BeginWhole
    <3> QED BY <3>2, <3>3
  <2>3. CASE LockGlobal(t) \/ Lock(t) \/ Unlock(t)
    BY <2>3, LockGlobalWhole, LockWhole, UnlockWhole
  <2>4. CASE LoadStack(t) \/ LoadShift(t) \/ Fields(t) \/ StoreStack(t)
    BY <2>4, LoadStackWhole, LoadShiftWhole, FieldsWhole, StoreStackWhole
  <2>5. CASE PushRoots(t) \/ Pop(t) \/ Back(t) \/ Sweep(t)
    BY <2>5, PushRootsWhole, PopWhole, BackWhole, SweepWhole
  <2>6. CASE Map(t) \/ Adjust(t) \/ LinkNext(t) \/ LinkChain(t) \/ Unlink(t) \/ Unmap(t)
    BY <2>6, MapWhole, AdjustWhole, LinkNextWhole, LinkChainWhole, UnlinkWhole, UnmapWhole
  <2>7. CASE Allocate(t) \/ Memset(t) \/ Use(t) \/ FindStorage(t) \/ Free(t)
    BY <2>7, AllocateWhole, MemsetWhole, UseWhole, FindStorageWhole, FreeWhole
  <2> QED BY <2>1, <2>2, <2>3, <2>4, <2>5, <2>6, <2>7 DEF Continue
<1>2. CASE UNCHANGED vars
  <2>1. /\ chain' = chain /\ next' = next /\ hdr' = hdr /\ mapped' = mapped /\ img' = img
        /\ global_mutex' = global_mutex /\ gc_stack' = gc_stack
        /\ base_address_shift' = base_address_shift /\ stack' = stack /\ th' = th
    BY <1>2 DEF vars, list, map, locks, globals
  <2>2. ControlInv'
    BY <2>1 DEF WholeInv, ControlInv, TypeOK, PointInv, SerialInv, AloneInv, MappedInv,
       ApartInv, Making, Collecting
  <2>3. ChainInv' /\ AddressInv' /\ StackInv' /\ ShiftInv' /\ SearchInv'
    <3>1. ChainInv' /\ AddressInv' /\ StackInv' /\ ShiftInv'
      BY <2>1 DEF WholeInv, ChainInv, AddressInv, StackInv, ShiftInv, Linked, Collects
    <3>2. SearchInv'
      BY <2>1 DEF WholeInv, SearchInv, Searching, Closing, Passed, Linked
    <3> QED BY <3>1, <3>2
  <2>4. \A s \in Storage : RestInv(s)'
    <3>1. \A s \in Storage : SameRest(s) /\ RestInv(s)
      BY <2>1 DEF SameRest, WholeInv, ImageInv
    <3> QED BY <3>1, RestSame
  <2>5. OwnCellInv'
    BY <2>1 DEF WholeInv, ImageInv, OwnCellInv, Makes, Deletes
  <2>6. ASSUME NEW t \in Thread PROVE ObjectInv(t)'
    <3>1. SameRest(th[t].want) /\ th'[t] = th[t] /\ ObjectInv(t)
      BY <2>1 DEF SameRest, WholeInv, ImageInv
    <3> QED BY <3>1, ObjectSame
  <2>7. ASSUME NEW t \in Thread
        PROVE  /\ AdjustInv(t)' /\ RootsInv(t)'
               /\ PositionInv(t)' /\ StackedInv(t)' /\ MarkInv(t)'
    <3>1. /\ AdjustInv(t) /\ RootsInv(t) /\ PositionInv(t) /\ StackedInv(t) /\ MarkInv(t)
          /\ th'[t] = th[t] /\ img'[th[t].want] = img[th[t].want]
          /\ stack'[t] = stack[t] /\ gc_stack' = gc_stack
      BY <2>1 DEF WholeInv, ImageInv
    <3>2. AdjustInv(t)' /\ RootsInv(t)'
      BY <3>1, MovingSame
    <3>3. PositionInv(t)' /\ StackedInv(t)' /\ MarkInv(t)'
      BY <3>1, MarkSame
    <3> QED BY <3>2, <3>3
  <2> QED BY <2>2, <2>3, <2>4, <2>5, <2>6, <2>7 DEF WholeInv, ImageInv
<1> QED BY <1>1, <1>2

\* The invariant of several threads and several storages holds throughout,
\* as long as the application makes no object while it collects a storage and
\* closes no storage that a search on its way passes.
THEOREM WholeInvariance == Apart => (Spec => []WholeInv)
<1> SUFFICES ASSUME Apart PROVE Spec => []WholeInv
  OBVIOUS
<1>1. Init => WholeInv
  BY InitWhole
<1>2. WholeInv /\ [Next]_vars => WholeInv'
  BY NextWhole
<1> QED BY <1>1, <1>2, PTL DEF Spec

\* find_storage() finds the storage of the object and reads no header that is
\* not mapped, while other threads open storages at the head of the chain it
\* walks and close storages behind the one it looks for.  A close of a storage
\* that the search passes is left to the application (Apart): the code takes no
\* lock that would keep it away.
THEOREM SearchFindsOwner == Apart => (Spec => []FoundOwner)
<1> SUFFICES ASSUME Apart PROVE Spec => []FoundOwner
  OBVIOUS
<1>1. WholeInv => FoundOwner
  <2> SUFFICES ASSUME WholeInv, NEW t \in Thread, th[t].op = "delete"
               PROVE  /\ th[t].pc # "fault"
                      /\ th[t].pc \in {"lock", "free"} => th[t].s = th[t].want
    BY DEF FoundOwner
  <2>1. TypeOK /\ PointInv
    BY DEF WholeInv, ControlInv
  <2>2. th[t].pc # "fault"
    BY <2>1, AtPoint
  <2>3. ASSUME th[t].pc \in {"lock", "free"} PROVE th[t].s = th[t].want
    BY <2>1, <2>3, Inside
  <2> QED BY <2>2, <2>3
<1>2. Spec => []WholeInv
  BY WholeInvariance
<1> QED BY <1>1, <1>2, PTL

\* While nobody works on a storage its references are whole, whatever
\* collections and opens of other storages, one after another, and deletions
\* run at the time, and whatever constructors run beside opens that move
\* references and beside closes.  Constructors beside a collection, even of
\* another storage, are left to the application (Apart).
THEOREM ReferencesWhole == Apart => (Spec => []RefsWhole)
<1> SUFFICES ASSUME Apart PROVE Spec => []RefsWhole
  OBVIOUS
<1>1. WholeInv => RefsWhole
  <2> SUFFICES ASSUME WholeInv, NEW s \in mapped, ~Busy(s)
               PROVE  \A p \in {img[s].root[i] : i \in Roots}
                                \cup {img[s].ref[c] : c \in img[s].live} :
                        p = NULL \/ (p.base = hdr[s] /\ p.to \in img[s].live)
    BY DEF RefsWhole
  <2>1. s \in Storage /\ RestInv(s) /\ hdr[s] = img[s].base
    BY DEF WholeInv, ControlInv, TypeOK, ImageInv, AddressInv
  <2>2. /\ \A u \in Thread : th[u].want # s
        /\ \A c : ~Raw(s, c)
    BY DEF Busy, Raw
  <2>3. /\ \A i \in Roots : Good(s, img[s].root[i], img[s].base)
        /\ \A c \in img[s].live : Good(s, img[s].ref[c], img[s].base)
    BY <2>1, <2>2 DEF RestInv
  <2> QED BY <2>1, <2>3 DEF Good
<1>2. Spec => []WholeInv
  BY WholeInvariance
<1> QED BY <1>1, <1>2, PTL
=============================================================================
