----------------------------- MODULE AtomicFile -----------------------------
(***************************************************************************)
(* What a fault tolerant storage promises without transactions: the file   *)
(* holds the image of one completed flush(), whatever happens in between.  *)
(***************************************************************************)
VARIABLES stored,  \* what the file holds
          image    \* what the process has in memory

vars == <<stored, image>>

Init   == image = stored
Modify == image' # image /\ UNCHANGED stored
Flush  == stored' = image /\ UNCHANGED image
Reload == image' = stored /\ UNCHANGED stored

Next == Modify \/ Flush \/ Reload
Spec == Init /\ [][Next]_vars
=============================================================================
