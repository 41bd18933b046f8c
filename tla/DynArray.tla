------------------------------- MODULE DynArray ------------------------------
(***************************************************************************)
(* dyn_array_of_ptr (array.h): a block of allocated_size slots, the length *)
(* of buf, of which the first used are the array.  The block is what the   *)
(* collector sees, so that the slots past used matter too.                 *)
(***************************************************************************)
EXTENDS Naturals, SequencesExt

CONSTANTS NULL

LOCAL Clear(n) == [i \in 1..n |-> NULL]

\* The constructor.
DynNew(init_allocated_len, init_used_len) ==
  [buf  |-> Clear(IF init_used_len > init_allocated_len THEN init_used_len ELSE init_allocated_len),
   used |-> init_used_len]

\* array_of_ptr::reallocate(); the new block is cleared by the allocator.
reallocate(buf, new_size) ==
  [i \in 1..new_size |-> IF i <= Len(buf) THEN buf[i] ELSE NULL]

\* Variant: shrinking leaves the old pointers behind the end.
set_size_keeps(a, new_size) ==
  [buf  |-> IF new_size <= Len(a.buf) THEN a.buf
            ELSE reallocate(a.buf, IF new_size < 2 * Len(a.buf) THEN 2 * Len(a.buf) ELSE new_size),
   used |-> new_size]

set_size(a, new_size) ==
  [buf  |-> IF new_size > Len(a.buf)
              THEN reallocate(a.buf, IF new_size < 2 * Len(a.buf) THEN 2 * Len(a.buf) ELSE new_size)
              ELSE [i \in DOMAIN a.buf |-> IF i > new_size /\ i <= a.used THEN NULL ELSE a.buf[i]],
   used |-> new_size]

push(a, val) ==
  LET buf == IF a.used = Len(a.buf) THEN reallocate(a.buf, (Len(a.buf) + 1) * 2) ELSE a.buf
  IN  [buf |-> [buf EXCEPT ![a.used + 1] = val], used |-> a.used + 1]

\* pos counts from 0, as in the source.
ins(a, pos, count, val) ==
  LET b == set_size(a, a.used + count)
  IN  [b EXCEPT !.buf = [i \in DOMAIN b.buf |->
         IF i <= pos \/ i > b.used   THEN b.buf[i]
         ELSE IF i <= pos + count    THEN val
         ELSE b.buf[i - count]]]

del(a, pos, count) ==
  [buf  |-> [i \in DOMAIN a.buf |->
               IF i <= pos \/ i > a.used        THEN a.buf[i]
               ELSE IF i <= a.used - count      THEN a.buf[i + count]
               ELSE NULL],
   used |-> a.used - count]

pop(a) == [buf |-> [a.buf EXCEPT ![a.used] = NULL], used |-> a.used - 1]

put_at(a, i, val) == [a EXCEPT !.buf[i + 1] = val]

\* What the array holds.
Contents(a) == SubSeq(a.buf, 1, a.used)
=============================================================================
