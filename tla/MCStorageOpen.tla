--------------------------- MODULE MCStorageOpen ---------------------------
(***************************************************************************)
(* Constants for model checking StorageOpen: a program with one class and  *)
(* a later version of it with another class, which is registered last and  *)
(* so stands first in the list.                                            *)
(***************************************************************************)
EXTENDS StorageOpen

CONSTANTS old, newer, A, B

Versions == [p \in Program |-> IF p = old THEN <<A>> ELSE <<B, A>>]

\* With and without transactions and virtual functions.
AllModes == BOOLEAN \X BOOLEAN
=============================================================================
