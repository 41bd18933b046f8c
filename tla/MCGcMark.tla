------------------------------ MODULE MCGcMark ------------------------------
(***************************************************************************)
(* Constants for model checking GcMark: every graph over three objects, of *)
(* a class with two single references, one with an array of two and one    *)
(* without references.                                                     *)
(***************************************************************************)
EXTENDS GcMark, TLC

CONSTANTS a, b, c

Static     == [ptr |-> 3, len |-> 2]
SizeOf     == (a :> 2) @@ (b :> 2) @@ (c :> 1)
FieldsOf   == (a :> << [ptr |-> 5, len |-> 1], [ptr |-> 6, len |-> 1] >>)
                @@ (b :> << [ptr |-> 7, len |-> 2] >>) @@ (c :> << >>)
EmptyArray == (a :> << [ptr |-> 5, len |-> 1], [ptr |-> 6, len |-> 1] >>)
                @@ (b :> << [ptr |-> 7, len |-> 0] >>) @@ (c :> << >>)
=============================================================================
