--------------------------- MODULE MCStorageAlloc ---------------------------
(***************************************************************************)
(* Constants for model checking StorageAlloc: pages of eight bytes with    *)
(* blocks of three and four bytes, so that a page map of one page covers   *)
(* seven pages and is soon outgrown; and the tables of the default build.  *)
(***************************************************************************)
EXTENDS StorageAlloc

BlockSize  == (0 :> 3) @@ (1 :> 3) @@ (2 :> 3) @@ (3 :> 4)
BlockChain == (0 :> 0) @@ (1 :> 0) @@ (2 :> 0) @@ (3 :> 1)

\* A table from its runs <<last index, value>>.
Table(runs) ==
  [i \in 0..runs[Len(runs)][1] |->
     runs[Min({r \in 1..Len(runs) : i <= runs[r][1]})][2]]

BlockSize512 == Table(<< <<1, 16>>, <<2, 24>>, <<3, 32>>, <<4, 40>>, <<5, 48>>,
  <<6, 56>>, <<7, 64>>, <<8, 72>>, <<9, 80>>, <<11, 96>>, <<15, 128>>,
  <<20, 168>>, <<31, 256>> >>)
BlockChain512 == Table(<< <<1, 0>>, <<2, 1>>, <<3, 2>>, <<4, 3>>, <<5, 4>>,
  <<6, 5>>, <<7, 6>>, <<8, 7>>, <<9, 8>>, <<11, 9>>, <<15, 10>>,
  <<20, 11>>, <<31, 12>> >>)
=============================================================================
