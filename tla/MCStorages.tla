---------------------------- MODULE MCStorages ----------------------------
(***************************************************************************)
(* Two threads and two storages with one root and one object, which may    *)
(* refer to itself, and a third address so that a storage can come back    *)
(* elsewhere.                                                              *)
(***************************************************************************)
EXTENDS StoragesInv, TLC

CONSTANTS t1, t2, s1, s2

Homes == (s1 :> 1) @@ (s2 :> 2)
Symmetry == Permutations({t1, t2})
===========================================================================
