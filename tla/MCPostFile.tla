---------------------------- MODULE MCPostFile ----------------------------
(***************************************************************************)
(* Constants for model checking PostFile.  A page holds a number; as the   *)
(* header, n says that the file has SizeN[n] pages.                        *)
(***************************************************************************)
EXTENDS PostFileInv, TLC

TwoPages   == (0 :> 0) @@ (1 :> 1) @@ (2 :> 2)
ThreePages == (0 :> 0) @@ (1 :> 1) @@ (2 :> 2) @@ (3 :> 3)
FourPages  == (0 :> 0) @@ (2 :> 2) @@ (3 :> 3) @@ (4 :> 4)

\* Only headers matter where a run is about the length of the file.
HeadersOnly == \A p \in Page \ {0} : fdata[p] = 0
============================================================================
