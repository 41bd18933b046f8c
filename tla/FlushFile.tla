------------------------------ MODULE FlushFile ------------------------------
(***************************************************************************)
(* class post_file (Unix version) in the modes that work on a copy:        *)
(*   copy_on_write_map  the file is mapped private                         *)
(*   load_in_memory     the file is read into anonymous memory             *)
(* flush() writes the whole image to a temporary file and renames it.  The *)
(* file descriptor of a private mapping stays with the old file then.      *)
(*                                                                         *)
(* An image is the pages and how many of them are in use, which is what    *)
(* hdr->file_size says.  A page in use holds a value other than Zero.      *)
(***************************************************************************)
EXTENDS Integers

CONSTANTS MaxPages,   \* max_file_size
          Quantum,    \* file_extension_granularity
          Value, Zero,
          Mode        \* the modes the storage is opened in

ASSUME FlushAssumption ==
  /\ MaxPages \in Nat /\ Quantum \in Nat \ {0}
  /\ Zero \notin Value
  /\ Mode \subseteq {"copy_on_write_map", "load_in_memory"}

AlignUp(n) == ((n + Quantum - 1) \div Quantum) * Quantum

\* set_size() rounds the length of the file up to the quantum, also beyond
\* max_file_size; a later open() maps all of a file that has become longer.
Capacity == AlignUp(MaxPages)

Page   == 0..Capacity - 1
Blank  == [p \in Page |-> Zero]
NoFile == [len |-> -1, used |-> 0, data |-> Blank]

VARIABLES
  file,    \* what the name refers to: its length in pages and its content
  tmp,     \* the temporary file
  mem,     \* the image the process works on
  mode,
  fd,      \* "none", "file", or "old": of a file that has been replaced
  size, asize,  \* post_file::size, post_file::allocated_size
  mapped,  \* mapped_size
  pc       \* "closed", "ready", "write", "rename"

vars == <<file, tmp, mem, mode, fd, size, asize, mapped, pc>>
process == <<mem, mode, fd, size, asize, mapped>>

Contents == [len : -1..Capacity, used : 0..Capacity,
             data : [Page -> Value \cup {Zero}]]

TypeOK ==
  /\ file \in Contents /\ tmp \in Contents
  /\ mem \in [used : 0..Capacity, data : [Page -> Value \cup {Zero}]]
  /\ mode \in Mode
  /\ fd \in {"none", "file", "old"}
  /\ size \in 0..Capacity /\ asize \in 0..Capacity /\ mapped \in 0..Capacity
  /\ pc \in {"closed", "ready", "write", "rename"}

Image(f) == [used |-> f.used, data |-> f.data]

Closed ==
  /\ pc' = "closed" /\ fd' = "none" /\ size' = 0 /\ asize' = 0 /\ mapped' = 0
  /\ mem' = Image(file') /\ UNCHANGED mode

Init ==
  /\ file = NoFile /\ tmp = NoFile
  /\ mem = Image(NoFile) /\ mode \in Mode /\ fd = "none"
  /\ size = 0 /\ asize = 0 /\ mapped = 0 /\ pc = "closed"

\* A file that is missing is an empty storage; load_in_memory closes the file
\* once it has read it.
open(m) ==
  /\ pc = "closed"
  /\ mode' = m
  /\ fd' = IF file.len >= 0 /\ m # "load_in_memory" THEN "file" ELSE "none"
  /\ size' = IF file.len < 0 THEN 0 ELSE file.len
  /\ asize' = size'
  /\ mapped' = IF size' > MaxPages THEN size' ELSE MaxPages
  /\ mem' = Image(file)
  /\ pc' = "ready"
  /\ UNCHANGED <<file, tmp>>

\* ftruncate(fd, n): of the file under the name, unless that was replaced.
Truncated(n) ==
  IF fd # "file" THEN file
  ELSE [len |-> n, used |-> file.used,
        data |-> [p \in Page |-> IF p < n THEN file.data[p] ELSE Zero]]

\* alloc_page() at the end of the file: set_size(), then hdr->file_size.
set_size(v) ==
  LET n == mem.used + 1
  IN  /\ pc = "ready" /\ n <= mapped
      /\ mem' = [used |-> n, data |-> [mem.data EXCEPT ![n - 1] = v]]
      /\ size' = n
      /\ IF fd # "none" /\ n > asize
         THEN asize' = AlignUp(n) ELSE UNCHANGED asize
      /\ file' = IF asize' # asize THEN Truncated(asize') ELSE file
      /\ UNCHANGED <<tmp, mode, fd, mapped, pc>>

Store(p, v) ==
  /\ pc = "ready" /\ p < mem.used /\ v # mem.data[p]
  /\ mem' = [mem EXCEPT !.data[p] = v]
  /\ UNCHANGED <<file, tmp, mode, fd, size, asize, mapped, pc>>

\* Variant: the file itself is opened with O_TRUNC.
FlushInPlace ==
  /\ pc = "ready"
  /\ file' = [NoFile EXCEPT !.len = 0] /\ tmp' = file'
  /\ pc' = "write"
  /\ UNCHANGED process

\* open(tmp_name, O_TRUNC)
flush ==
  /\ pc = "ready"
  /\ tmp' = [NoFile EXCEPT !.len = 0]
  /\ pc' = "write"
  /\ UNCHANGED <<file, process>>

\* write() of the image, page by page.
WritePage ==
  /\ pc = "write" /\ tmp.len < size
  /\ tmp' = [len |-> tmp.len + 1, used |-> mem.used,
             data |-> [tmp.data EXCEPT ![tmp.len] = mem.data[tmp.len]]]
  /\ UNCHANGED <<file, process, pc>>

Written ==
  /\ pc = "write" /\ tmp.len = size
  /\ pc' = "rename"
  /\ UNCHANGED <<file, tmp, process>>

\* A failing write ends the process in handle_error(); so may anything else.
Crash ==
  /\ pc # "closed"
  /\ UNCHANGED <<file, tmp>>
  /\ Closed

rename ==
  /\ pc = "rename"
  /\ file' = tmp /\ tmp' = NoFile
  /\ fd' = IF fd = "file" THEN "old" ELSE fd
  /\ pc' = "ready"
  /\ UNCHANGED <<mem, mode, size, asize, mapped>>

close ==
  /\ pc = "ready"
  /\ file' = IF fd # "none" /\ size # asize THEN Truncated(size) ELSE file
  /\ UNCHANGED tmp
  /\ Closed

Next ==
  \/ \E m \in Mode : open(m)
  \/ \E v \in Value : set_size(v) \/ \E p \in Page : Store(p, v)
  \/ flush \/ WritePage \/ Written \/ rename
  \/ close \/ Crash

Spec == Init /\ [][Next]_vars

-----------------------------------------------------------------------------
(* Correctness.                                                            *)

\* With the copying modes a fault at any moment, also in the middle of a
\* flush(), leaves the image of the last completed flush() in the file: the
\* file changes only when a complete image replaces it.
Abstract == INSTANCE AtomicFile WITH stored <- Image(file), image <- mem
ImplementsAtomicFile == Abstract!Spec

-----------------------------------------------------------------------------
(* The inductive invariant.                                                *)

\* Beyond the pages in use an image is blank.
BlankTail(i) == \A p \in Page : p >= i.used => i.data[p] = Zero

\* The pages in use lie inside the file; there are none without a file.
FileInv == BlankTail(file) /\ (file.used <= file.len \/ file.used = 0)

\* An open descriptor of the file itself: allocated_size is its length, and
\* size spans what the file and the memory have in use, so that ftruncate()
\* never cuts off a page in use.
DescriptorInv ==
  fd = "file" => file.len >= 0 /\ asize = file.len /\ file.used <= mem.used

MemoryInv == BlankTail(mem) /\ (pc # "closed" => mem.used <= size)

\* The temporary file holds the pages of the image written so far.
TmpInv ==
  /\ pc \in {"write", "rename"} =>
       /\ tmp.len \in 0..size
       /\ tmp.used = IF tmp.len = 0 THEN 0 ELSE mem.used
       /\ \A p \in Page : tmp.data[p] = IF p < tmp.len THEN mem.data[p] ELSE Zero
  /\ pc = "rename" => tmp.len = size

FlushInv == TypeOK /\ FileInv /\ DescriptorInv /\ MemoryInv /\ TmpInv
==============================================================================
