---------------------------- MODULE MCShadowRace ----------------------------
(***************************************************************************)
(* Constants for model checking ShadowRace: two threads that store into    *)
(* pages of their own, or into one page.                                   *)
(***************************************************************************)
EXTENDS ShadowRace, TLC

CONSTANTS t1, t2, p1, p2, p3, p4

Apart  == (t1 :> {p1, p3}) @@ (t2 :> {p2})
Wide   == (t1 :> {p1, p3, p4}) @@ (t2 :> {p2})
Shared == (t1 :> {p1}) @@ (t2 :> {p1})
=============================================================================
