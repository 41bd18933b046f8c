-------------------------- MODULE FlushFileProofs --------------------------
(***************************************************************************)
(* FlushFile implements AtomicFile, for every max_file_size, extension     *)
(* quantum and page content, whether or not the one is a multiple of the   *)
(* other: in the copying modes the file only ever goes from one complete   *)
(* image to the next.                                                      *)
(***************************************************************************)
EXTENDS FlushFile, TLAPS

USE FlushAssumption

-----------------------------------------------------------------------------
(* Facts about the operators. *)

\* Multiplication by a positive number keeps the order.
LEMMA Multiples ==
  ASSUME NEW d \in Int, NEW k \in Int, NEW q \in Nat \ {0}, d * q < (k + 1) * q
  PROVE  d <= k
<1>1. SUFFICES ASSUME d >= k + 1 PROVE FALSE
  OBVIOUS
<1>2. PICK e \in Nat : d = k + 1 + e
  <2>1. d - (k + 1) \in Nat /\ d = k + 1 + (d - (k + 1))
    BY <1>1
  <2> QED BY <2>1
<1>3. d * q = (k + 1) * q + e * q /\ e * q >= 0
  BY <1>2
<1> QED BY <1>3

\* The longest file is a number of whole quanta that spans max_file_size.
LEMMA CapacityWhole ==
  /\ Capacity \in Nat /\ MaxPages <= Capacity
  /\ \E k \in Nat : Capacity = k * Quantum
<1> DEFINE k == (MaxPages + Quantum - 1) \div Quantum
<1>1. k \in Nat /\ MaxPages + Quantum - 1 < k * Quantum + Quantum
  OBVIOUS
<1> HIDE DEF k
<1>2. k * Quantum \in Nat /\ MaxPages <= k * Quantum
  BY <1>1
<1>3. Capacity = k * Quantum
  BY DEF Capacity, AlignUp, k
<1> QED BY <1>1, <1>2, <1>3

\* allocated_size is rounded up to the extension quantum (set_size), which
\* takes it no further than the longest file.
LEMMA AlignUpRange ==
  ASSUME NEW n \in 0..Capacity
  PROVE  AlignUp(n) \in n..Capacity
<1> DEFINE d == (n + Quantum - 1) \div Quantum
<1>1. d \in Int /\ d * Quantum <= n + Quantum - 1 /\ n + Quantum - 1 < d * Quantum + Quantum
  BY CapacityWhole
<1>2. PICK k \in Nat : Capacity = k * Quantum
  BY CapacityWhole
<1> HIDE DEF d
<1>3. (k + 1) * Quantum = k * Quantum + Quantum
  OBVIOUS
<1>4. d * Quantum < (k + 1) * Quantum
  BY <1>1, <1>2, <1>3
<1>5. d <= k
  BY <1>1, <1>4, Multiples
<1>6. d * Quantum <= k * Quantum
  <2>1. PICK e \in Nat : k = d + e
    <3>1. k - d \in Nat /\ k = d + (k - d)
      BY <1>1, <1>5
    <3> QED BY <3>1
  <2>2. k * Quantum = d * Quantum + e * Quantum /\ e * Quantum >= 0
    BY <1>1, <2>1
  <2> QED BY <1>1, <2>2
<1> QED BY <1>1, <1>2, <1>6 DEF AlignUp, d

LEMMA CapacityNat == Capacity \in Nat
BY CapacityWhole

USE CapacityNat

\* ftruncate() to a length that covers the pages in use changes only the
\* length of the file.
LEMMA TruncatedImage ==
  ASSUME NEW n \in 0..Capacity, FlushInv, fd = "file" => n >= file.used
  PROVE  /\ Truncated(n) \in Contents
         /\ Image(Truncated(n)) = Image(file)
         /\ Truncated(n).used = file.used /\ Truncated(n).data = file.data
         /\ Truncated(n).len = IF fd = "file" THEN n ELSE file.len
BY DEF FlushInv, TypeOK, FileInv, BlankTail, Truncated, Image, Contents, Page

-----------------------------------------------------------------------------
(* Every action keeps the invariant. *)

LEMMA InitInv == Init => FlushInv
BY DEF Init, FlushInv, TypeOK, FileInv, BlankTail, DescriptorInv, MemoryInv, TmpInv,
       NoFile, Blank, Image, Contents, Page

LEMMA OpenInv == ASSUME FlushInv, NEW m \in Mode, open(m) PROVE FlushInv'
<1> USE DEF open
<1>1. TypeOK'
  <2>1. size' \in 0..Capacity /\ mapped' \in 0..Capacity
    BY CapacityWhole DEF FlushInv, TypeOK, Contents
  <2> QED BY <2>1 DEF FlushInv, TypeOK, Contents, Image
<1>2. FileInv'
  BY DEF FlushInv, FileInv, BlankTail
<1>3. DescriptorInv'
  BY DEF FlushInv, TypeOK, Contents, DescriptorInv, Image
<1>4. MemoryInv'
  BY DEF FlushInv, TypeOK, Contents, FileInv, MemoryInv, BlankTail, Image
<1>5. TmpInv'
  BY DEF TmpInv
<1> QED BY <1>1, <1>2, <1>3, <1>4, <1>5 DEF FlushInv

LEMMA SetSizeInv == ASSUME FlushInv, NEW v \in Value, set_size(v) PROVE FlushInv'
<1> USE DEF set_size
<1> DEFINE n == mem.used + 1
<1>1. n \in 1..Capacity
  BY DEF FlushInv, TypeOK
<1>2. /\ mem' = [used |-> n, data |-> [mem.data EXCEPT ![n - 1] = v]]
      /\ size' = n /\ mapped' = mapped /\ tmp' = tmp /\ mode' = mode /\ fd' = fd /\ pc' = pc /\ pc = "ready"
  OBVIOUS
<1>3. /\ asize' \in 0..Capacity
      /\ asize' # asize => asize' >= n /\ fd # "none" /\ n > asize
  BY <1>1, AlignUpRange DEF FlushInv, TypeOK
<1>4. /\ file' \in Contents /\ file'.used = file.used /\ file'.data = file.data
      /\ file'.len = IF fd = "file" /\ asize' # asize THEN asize' ELSE file.len
  <2>1. CASE asize' # asize
    BY <1>1, <1>3, <2>1, TruncatedImage DEF FlushInv, DescriptorInv, TypeOK, Contents
  <2>2. CASE asize' = asize
    BY <2>2 DEF FlushInv, TypeOK
  <2> QED BY <2>1, <2>2
<1> HIDE DEF n, set_size
<1>5. TypeOK'
  BY <1>1, <1>2, <1>3, <1>4 DEF FlushInv, TypeOK, Contents, Page
<1>6. FileInv'
  BY <1>1, <1>2, <1>3, <1>4 DEF FlushInv, TypeOK, Contents, FileInv, BlankTail, DescriptorInv
<1>7. DescriptorInv'
  BY <1>1, <1>2, <1>3, <1>4 DEF FlushInv, TypeOK, Contents, DescriptorInv, n
<1>8. MemoryInv'
  BY <1>1, <1>2 DEF FlushInv, TypeOK, MemoryInv, BlankTail, Page, n
<1>9. TmpInv'
  BY <1>2 DEF FlushInv, TmpInv
<1> QED BY <1>5, <1>6, <1>7, <1>8, <1>9 DEF FlushInv

LEMMA StoreInv ==
  ASSUME FlushInv, NEW p \in Page, NEW v \in Value, Store(p, v) PROVE FlushInv'
<1> USE DEF Store
<1>1. TypeOK'
  BY DEF FlushInv, TypeOK
<1>2. FileInv' /\ DescriptorInv'
  BY DEF FlushInv, TypeOK, FileInv, BlankTail, DescriptorInv
<1>3. MemoryInv'
  BY DEF FlushInv, TypeOK, MemoryInv, BlankTail, Page
<1>4. TmpInv'
  BY DEF TmpInv
<1> QED BY <1>1, <1>2, <1>3, <1>4 DEF FlushInv

LEMMA FlushStartInv == ASSUME FlushInv, flush PROVE FlushInv'
<1>1. /\ pc' = "write"
      /\ UNCHANGED <<file, mem, mode, fd, size, asize, mapped>>
      /\ tmp' = [len |-> 0, used |-> 0, data |-> Blank]
  BY DEF flush, process, NoFile
<1>2. Blank \in [Page -> Value \cup {Zero}] /\ \A p \in Page : Blank[p] = Zero
  BY DEF Blank
<1>3. tmp' \in Contents
  BY <1>1, <1>2 DEF Contents
<1>4. TypeOK'
  BY <1>1, <1>3 DEF FlushInv, TypeOK
<1>5. FileInv' /\ DescriptorInv' /\ MemoryInv'
  BY <1>1 DEF flush, FlushInv, FileInv, BlankTail, DescriptorInv, MemoryInv
<1>6. TmpInv'
  BY <1>1, <1>2 DEF FlushInv, TypeOK, TmpInv, Page
<1> QED BY <1>4, <1>5, <1>6 DEF FlushInv

LEMMA WritePageInv == ASSUME FlushInv, WritePage PROVE FlushInv'
<1> USE DEF WritePage, process
<1>1. tmp.len \in 0..Capacity - 1 /\ tmp.len < size
  BY DEF FlushInv, TypeOK, TmpInv
<1>2. TypeOK'
  BY <1>1 DEF FlushInv, TypeOK, Contents, Page
<1>3. FileInv' /\ DescriptorInv' /\ MemoryInv'
  BY DEF FlushInv, FileInv, BlankTail, DescriptorInv, MemoryInv
<1>4. TmpInv'
  BY <1>1 DEF FlushInv, TypeOK, Contents, TmpInv, Page
<1> QED BY <1>2, <1>3, <1>4 DEF FlushInv

LEMMA WrittenInv == ASSUME FlushInv, Written PROVE FlushInv'
BY DEF Written, process, FlushInv, TypeOK, FileInv, BlankTail, DescriptorInv, MemoryInv, TmpInv

\* What rename() puts in place is the image in memory.
LEMMA TmpComplete == ASSUME FlushInv, pc = "rename" PROVE Image(tmp) = mem
<1>1. tmp.used = mem.used
  BY DEF FlushInv, TypeOK, Contents, MemoryInv, TmpInv
<1>2. \A p \in Page : tmp.data[p] = mem.data[p]
  BY DEF FlushInv, TypeOK, MemoryInv, TmpInv, BlankTail, Page
<1> QED BY <1>1, <1>2 DEF FlushInv, TypeOK, Contents, Image

LEMMA RenameInv == ASSUME FlushInv, rename PROVE FlushInv'
<1>1. Image(tmp) = mem
  BY TmpComplete DEF rename
<1>2. tmp.used = mem.used /\ tmp.data = mem.data
  BY <1>1 DEF FlushInv, TypeOK, Contents, Image
<1> QED BY <1>2 DEF rename, FlushInv, TypeOK, FileInv, BlankTail, DescriptorInv, MemoryInv,
            TmpInv, NoFile, Blank, Contents, Page

\* A process that ends leaves a file of which only the length may have changed.
LEMMA ClosedInv ==
  ASSUME FlushInv, Closed, tmp' = tmp, file' \in Contents,
         file'.used = file.used, file'.data = file.data,
         file.used <= file'.len \/ file.used = 0
  PROVE  FlushInv'
BY DEF Closed, FlushInv, TypeOK, FileInv, BlankTail, DescriptorInv, MemoryInv, TmpInv,
       Image, Contents, Page

LEMMA CrashInv == ASSUME FlushInv, Crash PROVE FlushInv'
BY ClosedInv DEF Crash, FlushInv, TypeOK, FileInv

LEMMA CloseInv == ASSUME FlushInv, close PROVE FlushInv'
<1>1. CASE fd # "none" /\ size # asize
  <2>1. fd = "file" => size >= file.used
    BY DEF close, FlushInv, TypeOK, Contents, DescriptorInv, MemoryInv
  <2> QED BY <1>1, <2>1, TruncatedImage, ClosedInv DEF close, FlushInv, TypeOK, FileInv, Contents
<1>2. CASE ~(fd # "none" /\ size # asize)
  BY <1>2, ClosedInv DEF close, FlushInv, TypeOK, FileInv
<1> QED BY <1>1, <1>2

LEMMA StepInv == FlushInv /\ [Next]_vars => FlushInv'
<1> SUFFICES ASSUME FlushInv, [Next]_vars PROVE FlushInv'
  OBVIOUS
<1>1. CASE \E m \in Mode : open(m)
  BY <1>1, OpenInv
<1>2. CASE \E v \in Value : set_size(v)
  BY <1>2, SetSizeInv
<1>3. CASE \E v \in Value, p \in Page : Store(p, v)
  BY <1>3, StoreInv
<1>4. CASE flush
  BY <1>4, FlushStartInv
<1>5. CASE WritePage
  BY <1>5, WritePageInv
<1>6. CASE Written
  BY <1>6, WrittenInv
<1>7. CASE rename
  BY <1>7, RenameInv
<1>8. CASE close
  BY <1>8, CloseInv
<1>9. CASE Crash
  BY <1>9, CrashInv
<1>10. CASE UNCHANGED vars
  BY <1>10 DEF vars, FlushInv, TypeOK, FileInv, BlankTail, DescriptorInv, MemoryInv, TmpInv
<1> QED
  BY <1>1, <1>2, <1>3, <1>4, <1>5, <1>6, <1>7, <1>8, <1>9, <1>10 DEF Next

\* In every state of a storage opened in a copying mode the descriptor, the two
\* sizes, the temporary file and the image in memory fit together (FlushInv):
\* no ftruncate() of set_size() or close() reaches a page in use.
THEOREM FlushInvariance == Spec => []FlushInv
<1>1. Init => FlushInv
  BY InitInv
<1>2. FlushInv /\ [Next]_vars => FlushInv'
  BY StepInv
<1> QED BY <1>1, <1>2, PTL DEF Spec

-----------------------------------------------------------------------------
(* Every step is one of AtomicFile or changes nothing it shows. *)

\* set_size() may lengthen the file, which leaves its image alone.
LEMMA SetSizeSimulates ==
  ASSUME FlushInv, NEW v \in Value, set_size(v) PROVE Abstract!Modify
<1>1. mem'.used = mem.used + 1 /\ mem.used \in 0..Capacity - 1
  BY DEF set_size, FlushInv, TypeOK
<1>2. Image(file') = Image(file)
  <2>1. CASE asize' # asize
    <3>1. asize' \in mem.used + 1..Capacity
      BY <1>1, <2>1, AlignUpRange DEF set_size, FlushInv, TypeOK
    <3>2. file' = Truncated(asize') /\ (fd = "file" => asize' >= file.used)
      BY <1>1, <2>1, <3>1 DEF set_size, FlushInv, DescriptorInv, TypeOK, Contents
    <3> QED BY <1>1, <3>1, <3>2, TruncatedImage
  <2>2. CASE asize' = asize
    BY <2>2 DEF set_size
  <2> QED BY <2>1, <2>2
<1>3. mem' # mem
  BY <1>1
<1> QED BY <1>2, <1>3 DEF Abstract!Modify

LEMMA CloseSimulates == ASSUME FlushInv, close PROVE Abstract!Reload
<1>1. Image(file') = Image(file)
  <2>1. CASE fd # "none" /\ size # asize
    <3>1. fd = "file" => size >= file.used
      BY DEF close, FlushInv, TypeOK, Contents, DescriptorInv, MemoryInv
    <3> QED BY <2>1, <3>1, TruncatedImage DEF close, FlushInv, TypeOK
  <2>2. CASE ~(fd # "none" /\ size # asize)
    BY <2>2 DEF close
  <2> QED BY <2>1, <2>2
<1> QED BY <1>1 DEF close, Closed, Abstract!Reload

LEMMA StepSimulates == FlushInv /\ [Next]_vars => [Abstract!Next]_(Abstract!vars)
<1> SUFFICES ASSUME FlushInv, [Next]_vars PROVE [Abstract!Next]_(Abstract!vars)
  OBVIOUS
<1> USE DEF Abstract!Next, Abstract!vars
<1>1. CASE \E m \in Mode : open(m)
  BY <1>1 DEF open, Abstract!Reload
<1>2. CASE \E v \in Value : set_size(v)
  BY <1>2, SetSizeSimulates
<1>3. ASSUME NEW v \in Value, NEW p \in Page, Store(p, v) PROVE Abstract!Modify
  <2>1. mem'.data[p] = v /\ mem.data[p] # v /\ file' = file
    BY <1>3 DEF Store, FlushInv, TypeOK
  <2> QED BY <2>1 DEF Abstract!Modify
<1>4. CASE flush \/ WritePage \/ Written
  BY <1>4 DEF flush, WritePage, Written, process
<1>5. CASE rename
  BY <1>5, TmpComplete DEF rename, Abstract!Flush
<1>6. CASE close
  BY <1>6, CloseSimulates
<1>7. CASE Crash
  BY <1>7 DEF Crash, Closed, Abstract!Reload
<1>8. CASE UNCHANGED vars
  BY <1>8 DEF vars
<1> QED
  BY <1>1, <1>2, <1>3, <1>4, <1>5, <1>6, <1>7, <1>8 DEF Next

\* Whatever a process does with a file opened in a copying mode, and wherever
\* it dies in flush(), set_size() or close(), the stored image is the one of
\* the last completed flush().
THEOREM FlushRefinement == Spec => ImplementsAtomicFile
<1>1. Init => Abstract!Init
  BY DEF Init, Abstract!Init
<1>2. FlushInv /\ [Next]_vars => [Abstract!Next]_(Abstract!vars)
  BY StepSimulates
<1> QED BY <1>1, <1>2, FlushInvariance, PTL DEF Spec, ImplementsAtomicFile, Abstract!Spec
=============================================================================
