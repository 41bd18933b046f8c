----------------------------- MODULE IndexMap -----------------------------
(***************************************************************************)
(* What a Judy array promises: a map from indexes to values.  An operation *)
(* takes the map m to the map n and tells with r whether it changed which  *)
(* indexes there are (1), not (0), or failed for want of memory or because *)
(* its input is wrong (-1), and then has changed nothing.  Only an array   *)
(* made from a list may keep, after a failure, the beginning of the list.  *)
(***************************************************************************)
EXTENDS Integers, Sequences, TLC

Inserts(m, n, r, ix, v) == r = (IF ix \in DOMAIN m THEN 0 ELSE 1) /\ n = (ix :> v) @@ m

Deletes(m, n, r, ix) == /\ r = IF ix \in DOMAIN m THEN 1 ELSE 0
                        /\ n = [i \in DOMAIN m \ {ix} |-> m[i]]

Makes(m, n, r, keys, vals) ==
  /\ m = <<>>
  /\ \E k \in 0..Len(keys) : /\ r = IF k = Len(keys) THEN 1 ELSE -1
                             /\ n = [ix \in {keys[i] : i \in 1..k} |-> vals[CHOOSE i \in 1..k : keys[i] = ix]]

Clears(m, n, r) == r = (IF m = <<>> THEN 0 ELSE 1) /\ n = <<>>

Fails(m, n, r) == r = -1 /\ n = m
=============================================================================
