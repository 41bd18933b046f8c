---------------------------- MODULE MCContainers -----------------------------
(*****************************************************************************)
(* Instances of Containers for TLC: seven objects with keys of which two are *)
(* equal, a T-tree of three slots, an R-tree of four branches.               *)
(*****************************************************************************)
EXTENDS Containers

Keys == [o \in Object |-> CASE o = 7 -> 3 [] o = 6 -> 2 [] OTHER -> o]

Populations == [k \in Kinds |-> CASE k = "avl"   -> 1..7
                                  [] k = "ttree" -> 1..6
                                  [] k = "rtree" -> 1..15
                                  [] OTHER       -> 1..2]

Codes == [n \in Name |-> CASE n = "p" -> 1 [] n = "q" -> 3 [] OTHER -> 4]

Rects == [o \in Object |-> LET x == (7 * o) % 11  y == (5 * o) % 13
                           IN  <<x, y, x + (o % 3), y + (o % 2) + 1>>]

Upper == [c \in Char |-> IF c = "a" THEN "A" ELSE c]
Lower == [c \in Char |-> IF c = "A" THEN "a" ELSE c]

Strings(n) == UNION {[1..k -> Char] : k \in 0..n}
TextSet == Strings(5)
PatternSet == {[patterns |-> <<<<"a", "b", "a">>>>, and |-> {1}, exact |-> {1}],
               [patterns |-> <<<<"a", "B", "a">>>>, and |-> {1}, exact |-> {}],
               [patterns |-> <<<<"a", "A">>, <<"B", "a", "a">>>>, and |-> {}, exact |-> {}],
               [patterns |-> <<<<"a", "B">>, <<"B", "B", "a">>>>, and |-> {1, 2}, exact |-> {2}],
               [patterns |-> <<<<"a">>, <<"a", "B">>>>, and |-> {2}, exact |-> {1, 2}]}
=============================================================================
