-------------------------- MODULE StorageOpenProofs --------------------------
(****************************************************************************)
(* For any programs, classes, addresses and numbers of objects: after any   *)
(* sequence of opens, crashes, rollbacks and collections, class ids,        *)
(* references and virtual tables mean what they meant when they were        *)
(* stored, provided the first open of a file was not cut short and no       *)
(* crashed file is opened read_only.                                        *)
(****************************************************************************)
EXTENDS StorageOpen, TLAPS, FiniteSetTheorems

Link == [Cell -> {0} \cup Cell]

\* Cells and classes are finitely many, and 0 is no cell.
LEMMA Numbers == /\ MaxCell \in Nat /\ Cell \subseteq Nat /\ 0 \notin Cell
                 /\ IsFiniteSet(Class) /\ Cardinality(Class) \in Nat
                 /\ IsFiniteSet(Cell)
<1>1. IsFiniteSet(Class) /\ Cardinality(Class) \in Nat /\ MaxObjects \in Nat
  BY OpenAssumption, FS_CardinalityType
<1>2. MaxCell \in Nat
  BY <1>1 DEF MaxCell
<1>3. IsFiniteSet(Cell)
  BY <1>2, FS_Interval DEF Cell
<1> QED BY <1>1, <1>2, <1>3 DEF Cell

----------------------------------------------------------------------------
(* What is reached along references. *)

\* A set is closed when the reference of each of its cells stays in it or ends.
LEMMA ClosedSet ==
  ASSUME NEW nx, NEW S \in SUBSET Cell
  PROVE  S \in Closed(nx) <=> \A c \in S : nx[c] \in S \cup {0}
<1>1. ASSUME S \in Closed(nx), NEW c \in S PROVE nx[c] \in S \cup {0}
  <2>1. <<c, nx[c]>> \in {<<d, nx[d]>> : d \in Cell}
    OBVIOUS
  <2> QED BY <1>1, <2>1 DEF Closed
<1>2. ASSUME \A c \in S : nx[c] \in S \cup {0} PROVE S \in Closed(nx)
  BY <1>2 DEF Closed
<1> QED BY <1>1, <1>2

\* What is reached lies in every closed set that holds the start.
LEMMA ReachWithin ==
  ASSUME NEW nx, NEW from, NEW S \in SUBSET Cell, from \subseteq S \cup {0},
         \A c \in S : nx[c] \in S \cup {0}
  PROVE  Reach(nx, from) \subseteq S
BY ClosedSet DEF Reach

\* What is reached holds the start and is closed itself.
LEMMA ReachFacts ==
  ASSUME NEW nx \in Link, NEW from \in SUBSET ({0} \cup Cell)
  PROVE  /\ Reach(nx, from) \in SUBSET Cell
         /\ from \subseteq Reach(nx, from) \cup {0}
         /\ \A c \in Reach(nx, from) : nx[c] \in Reach(nx, from) \cup {0}
<1>1. Reach(nx, from) \in SUBSET Cell
  BY DEF Reach
<1>2. from \subseteq Reach(nx, from) \cup {0}
  BY DEF Reach
<1>3. ASSUME NEW c \in Reach(nx, from), nx[c] # 0 PROVE nx[c] \in Reach(nx, from)
  <2>1. nx[c] \in Cell
    BY <1>1, <1>3 DEF Link
  <2>2. ASSUME NEW S \in Closed(nx), from \subseteq S \cup {0} PROVE nx[c] \in S
    <3>1. S \in SUBSET Cell
      BY DEF Closed
    <3>2. c \in S
      BY <2>2 DEF Reach
    <3> QED BY <1>3, <3>1, <3>2, ClosedSet
  <2> QED BY <2>1, <2>2 DEF Reach
<1> QED BY <1>1, <1>2, <1>3

\* From cells that are reached nothing else is reached.
LEMMA ReachSub ==
  ASSUME NEW nx \in Link, NEW from \in SUBSET ({0} \cup Cell),
         NEW a \in SUBSET ({0} \cup Cell), a \subseteq Reach(nx, from) \cup {0}
  PROVE  Reach(nx, a) \subseteq Reach(nx, from)
BY ReachFacts, ReachWithin

\* From nowhere nothing is reached.
LEMMA ReachNone ==
  ASSUME NEW nx PROVE Reach(nx, {0}) = {}
<1>1. PICK S : S = {}
  OBVIOUS
<1>2. S \in SUBSET Cell /\ {0} \subseteq S \cup {0} /\ \A c \in S : nx[c] \in S \cup {0}
  BY <1>1
<1>3. Reach(nx, {0}) \subseteq S
  BY <1>2, ReachWithin
<1> QED BY <1>1, <1>3

\* What is reached depends on the references of the cells reached only.
LEMMA ReachAgree ==
  ASSUME NEW nx \in Link, NEW mx \in Link, NEW from \in SUBSET ({0} \cup Cell),
         \A c \in Reach(nx, from) : mx[c] = nx[c]
  PROVE  Reach(mx, from) = Reach(nx, from)
<1> DEFINE T == Reach(nx, from)
           U == Reach(mx, from)
<1>1. /\ T \in SUBSET Cell /\ from \subseteq T \cup {0}
      /\ \A c \in T : nx[c] \in T \cup {0}
  BY ReachFacts
<1>2. /\ U \in SUBSET Cell /\ from \subseteq U \cup {0}
      /\ \A c \in U : mx[c] \in U \cup {0}
  BY ReachFacts
<1>3. \A c \in T : mx[c] = nx[c]
  OBVIOUS
<1> HIDE DEF T, U
<1>4. Reach(mx, from) \subseteq T
  BY <1>1, <1>3, ReachWithin
<1>5. U \cap T \in SUBSET Cell /\ from \subseteq (U \cap T) \cup {0}
  BY <1>1, <1>2
<1>6. \A c \in U \cap T : nx[c] \in (U \cap T) \cup {0}
  BY <1>1, <1>2, <1>3
<1>7. Reach(nx, from) \subseteq U \cap T
  BY <1>5, <1>6, ReachWithin
<1> QED BY <1>4, <1>7 DEF T, U

\* A cell reaches itself and what its reference reaches.
LEMMA ReachFirst ==
  ASSUME NEW nx \in Link, NEW c \in Cell
  PROVE  Reach(nx, {c}) = {c} \cup Reach(nx, {nx[c]})
<1>1. nx[c] \in {0} \cup Cell /\ 0 \notin Cell
  BY Numbers DEF Link
<1> DEFINE T == Reach(nx, {nx[c]})
<1>2. /\ T \in SUBSET Cell /\ {nx[c]} \subseteq T \cup {0}
      /\ \A d \in T : nx[d] \in T \cup {0}
  <2>1. {nx[c]} \in SUBSET ({0} \cup Cell)
    BY <1>1
  <2> QED BY <2>1, ReachFacts
<1>3. /\ c \in Reach(nx, {c}) /\ nx[c] \in Reach(nx, {c}) \cup {0}
  <2>1. {c} \subseteq Reach(nx, {c}) \cup {0} /\ Reach(nx, {c}) \in SUBSET Cell
        /\ \A d \in Reach(nx, {c}) : nx[d] \in Reach(nx, {c}) \cup {0}
    <3>1. {c} \in SUBSET ({0} \cup Cell)
      OBVIOUS
    <3> QED BY <3>1, ReachFacts
  <2> QED BY <1>1, <2>1
<1>4. T \subseteq Reach(nx, {c})
  BY <1>1, <1>3, ReachSub
<1> HIDE DEF T
<1>5. Reach(nx, {c}) \subseteq {c} \cup T
  <2>1. {c} \cup T \in SUBSET Cell /\ \A d \in {c} \cup T : nx[d] \in ({c} \cup T) \cup {0}
    BY <1>2
  <2> QED BY <2>1, ReachWithin
<1> QED BY <1>3, <1>4, <1>5 DEF T

----------------------------------------------------------------------------
(* Chains. *)

\* The start of a chain and its references stay among its cells.
LEMMA ChainWithin ==
  ASSUME NEW nx \in Link, NEW a \in {0} \cup Cell, NEW cells, Chain(nx, a, cells)
  PROVE  /\ cells \in SUBSET Cell /\ a \in cells \cup {0}
         /\ \A c \in cells : nx[c] \in cells \cup {0}
         /\ a = 0 => cells = {}
<1>1. cells = Reach(nx, {a}) /\ {a} \in SUBSET ({0} \cup Cell)
  BY DEF Chain
<1>2. /\ Reach(nx, {a}) \in SUBSET Cell /\ {a} \subseteq Reach(nx, {a}) \cup {0}
      /\ \A c \in Reach(nx, {a}) : nx[c] \in Reach(nx, {a}) \cup {0}
  BY <1>1, ReachFacts
<1>3. a = 0 => cells = {}
  BY <1>1, ReachNone
<1> QED BY <1>1, <1>2, <1>3

\* What lies ahead of a cell of the chain.
LEMMA ChainRest ==
  ASSUME NEW nx \in Link, NEW a \in {0} \cup Cell, NEW cells, Chain(nx, a, cells),
         NEW c \in cells
  PROVE  /\ c \in Cell /\ nx[c] \in {0} \cup Cell
         /\ Reach(nx, {c}) = {c} \cup Reach(nx, {nx[c]})
         /\ c \notin Reach(nx, {nx[c]})
         /\ Reach(nx, {c}) \subseteq cells
<1>1. c \in Cell /\ cells = Reach(nx, {a})
  BY ChainWithin DEF Chain
<1>2. nx[c] \in {0} \cup Cell
  BY <1>1 DEF Link
<1>3. Reach(nx, {c}) = {c} \cup Reach(nx, {nx[c]})
  BY <1>1, ReachFirst
<1>4. Reach(nx, {c}) \subseteq cells
  BY <1>1, ReachSub
<1> QED BY <1>1, <1>2, <1>3, <1>4 DEF Chain

\* A chain is one along other references that agree on its cells.
LEMMA ChainAgree ==
  ASSUME NEW nx \in Link, NEW mx \in Link, NEW a \in {0} \cup Cell, NEW cells,
         Chain(nx, a, cells), \A c \in cells : mx[c] = nx[c]
  PROVE  /\ Chain(mx, a, cells)
         /\ \A c \in cells : Reach(mx, {c}) = Reach(nx, {c})
<1>1. Reach(mx, {a}) = cells
  <2>1. Reach(nx, {a}) = cells
    BY DEF Chain
  <2> QED BY <2>1, ReachAgree
<1>2. ASSUME NEW c \in cells
      PROVE  /\ Reach(mx, {c}) = Reach(nx, {c}) /\ Reach(mx, {nx[c]}) = Reach(nx, {nx[c]})
  <2>1. /\ c \in Cell /\ nx[c] \in {0} \cup Cell
        /\ Reach(nx, {c}) \subseteq cells /\ Reach(nx, {nx[c]}) \subseteq cells
    BY ChainRest
  <2>2. Reach(mx, {c}) = Reach(nx, {c})
    BY <2>1, ReachAgree
  <2>3. Reach(mx, {nx[c]}) = Reach(nx, {nx[c]})
    BY <2>1, ReachAgree
  <2> QED BY <2>2, <2>3
<1>3. \A c \in cells : c \notin Reach(mx, {mx[c]})
  BY <1>2 DEF Chain
<1> QED BY <1>1, <1>2, <1>3 DEF Chain

\* Taking the first cell of a chain.
LEMMA ChainTail ==
  ASSUME NEW nx \in Link, NEW a \in Cell, NEW cells, Chain(nx, a, cells)
  PROVE  a \in cells /\ Chain(nx, nx[a], cells \ {a})
<1>1. a \in cells /\ 0 \notin Cell
  BY ChainWithin, Numbers
<1>2. /\ Reach(nx, {a}) = {a} \cup Reach(nx, {nx[a]})
      /\ a \notin Reach(nx, {nx[a]})
  BY <1>1, ChainRest
<1>3. Reach(nx, {nx[a]}) = cells \ {a}
  BY <1>2 DEF Chain
<1> QED BY <1>1, <1>3 DEF Chain

\* Putting a cell in front of a chain.
LEMMA ChainPush ==
  ASSUME NEW nx \in Link, NEW mx \in Link, NEW a \in {0} \cup Cell, NEW cells,
         Chain(nx, a, cells), NEW c \in Cell, c \notin cells, mx[c] = a,
         \A d \in cells : mx[d] = nx[d]
  PROVE  /\ Chain(mx, c, cells \cup {c})
         /\ \A d \in cells : Reach(mx, {d}) = Reach(nx, {d})
         /\ Reach(mx, {c}) = cells \cup {c}
<1>1. /\ Chain(mx, a, cells)
      /\ \A d \in cells : Reach(mx, {d}) = Reach(nx, {d})
  BY ChainAgree
<1>2. Reach(mx, {c}) = {c} \cup cells
  <2>1. Reach(mx, {c}) = {c} \cup Reach(mx, {mx[c]})
    BY ReachFirst
  <2> QED BY <1>1, <2>1 DEF Chain
<1>3. \A d \in cells \cup {c} : d \notin Reach(mx, {mx[d]})
  BY <1>1 DEF Chain
<1> QED BY <1>1, <1>2, <1>3 DEF Chain

\* Any two cells of a chain are one ahead of the other.
LEMMA ChainTotal ==
  ASSUME NEW nx \in Link, NEW a \in {0} \cup Cell, NEW cells, Chain(nx, a, cells),
         NEW c \in cells, NEW d \in cells
  PROVE  c \in Reach(nx, {d}) \/ d \in Reach(nx, {c})
<1> DEFINE T == {e \in cells : c \in Reach(nx, {e})} \cup Reach(nx, {c})
<1>1. /\ cells \in SUBSET Cell /\ a \in cells \cup {0} /\ 0 \notin Cell
      /\ \A e \in cells : nx[e] \in cells \cup {0}
  BY ChainWithin, Numbers
<1>2. /\ c \in Cell /\ Reach(nx, {c}) \subseteq cells /\ c \in Reach(nx, {c})
      /\ \A e \in Reach(nx, {c}) : nx[e] \in Reach(nx, {c}) \cup {0}
  <2>1. /\ c \in Cell /\ Reach(nx, {c}) \subseteq cells
        /\ Reach(nx, {c}) = {c} \cup Reach(nx, {nx[c]})
    BY ChainRest
  <2> QED BY <2>1, ReachFacts
<1>3. c \in Reach(nx, {a})
  BY DEF Chain
<1>4. T \in SUBSET Cell /\ {a} \subseteq T \cup {0}
  BY <1>1, <1>2, <1>3
<1>5. ASSUME NEW e \in T PROVE nx[e] \in T \cup {0}
  <2>1. CASE e \in Reach(nx, {c})
    BY <1>2, <2>1
  <2>2. CASE e \in cells /\ c \in Reach(nx, {e}) /\ e # c
    <3>1. Reach(nx, {e}) = {e} \cup Reach(nx, {nx[e]})
      BY <2>2, ChainRest
    <3>2. c \in Reach(nx, {nx[e]})
      BY <2>2, <3>1
    <3>3. nx[e] # 0
      BY <3>2, ReachNone
    <3> QED BY <1>1, <2>2, <3>2, <3>3
  <2> QED BY <1>2, <2>1, <2>2
<1> HIDE DEF T
<1>6. Reach(nx, {a}) \subseteq T
  BY <1>4, <1>5, ReachWithin
<1>7. d \in T
  BY <1>6 DEF Chain
<1> QED BY <1>7 DEF T

\* The numbers of the cells of a chain, counted from its end.
LEMMA ChainRank ==
  ASSUME NEW nx \in Link, NEW a \in {0} \cup Cell, NEW cells, Chain(nx, a, cells),
         NEW c \in cells
  PROVE  /\ IsFiniteSet(cells) /\ Cardinality(cells) \in Nat
         /\ Cardinality(Reach(nx, {c})) \in Nat
         /\ 1 <= Cardinality(Reach(nx, {c}))
         /\ Cardinality(Reach(nx, {c})) <= Cardinality(cells)
         /\ Cardinality(Reach(nx, {c})) = Cardinality(Reach(nx, {nx[c]})) + 1
         /\ Cardinality(cells \ Reach(nx, {nx[c]}))
              = Cardinality(cells) - Cardinality(Reach(nx, {c})) + 1
<1>1. /\ Reach(nx, {c}) = {c} \cup Reach(nx, {nx[c]})
      /\ c \notin Reach(nx, {nx[c]}) /\ Reach(nx, {c}) \subseteq cells
      /\ cells \in SUBSET Cell
  BY ChainRest, ChainWithin
<1>2. IsFiniteSet(cells) /\ Cardinality(cells) \in Nat
  BY <1>1, Numbers, FS_Subset, FS_CardinalityType
<1>3. /\ IsFiniteSet(Reach(nx, {c})) /\ Cardinality(Reach(nx, {c})) \in Nat
      /\ Cardinality(Reach(nx, {c})) <= Cardinality(cells)
  BY <1>1, <1>2, FS_Subset, FS_CardinalityType
<1>4. /\ IsFiniteSet(Reach(nx, {nx[c]})) /\ Reach(nx, {nx[c]}) \subseteq cells
      /\ Cardinality(Reach(nx, {nx[c]})) \in Nat
  BY <1>1, <1>2, FS_Subset, FS_CardinalityType
<1>5. Cardinality(Reach(nx, {c})) = Cardinality(Reach(nx, {nx[c]})) + 1
  <2>1. Reach(nx, {c}) = Reach(nx, {nx[c]}) \cup {c}
    BY <1>1
  <2>2. Cardinality(Reach(nx, {nx[c]}) \cup {c}) = Cardinality(Reach(nx, {nx[c]})) + 1
    BY <1>1, <1>4, FS_AddElement
  <2> QED BY <2>1, <2>2
<1>6. Cardinality(cells \ Reach(nx, {nx[c]}))
        = Cardinality(cells) - Cardinality(cells \cap Reach(nx, {nx[c]}))
  BY <1>2, FS_Difference
<1>7. cells \cap Reach(nx, {nx[c]}) = Reach(nx, {nx[c]})
  BY <1>4
<1>8. PICK x, y, n : /\ x = Cardinality(Reach(nx, {c})) /\ n = Cardinality(cells)
                     /\ y = Cardinality(Reach(nx, {nx[c]}))
  OBVIOUS
<1>9. /\ x \in Nat /\ y \in Nat /\ n \in Nat /\ x <= n /\ x = y + 1
      /\ Cardinality(cells \ Reach(nx, {nx[c]})) = n - y
  BY <1>2, <1>3, <1>4, <1>5, <1>6, <1>7, <1>8
<1>10. 1 <= x /\ n - y = n - x + 1
  BY <1>9
<1> QED BY <1>2, <1>5, <1>8, <1>9, <1>10

\* Different cells have different numbers.
LEMMA ChainNumbers ==
  ASSUME NEW nx \in Link, NEW a \in {0} \cup Cell, NEW cells, Chain(nx, a, cells),
         NEW c \in cells, NEW d \in cells, c # d
  PROVE  Cardinality(Reach(nx, {c})) # Cardinality(Reach(nx, {d}))
<1>1. ASSUME NEW x \in cells, NEW y \in cells, x # y, y \in Reach(nx, {x})
      PROVE  Cardinality(Reach(nx, {y})) < Cardinality(Reach(nx, {x}))
  <2>1. /\ x \in Cell /\ y \in Cell /\ nx[x] \in {0} \cup Cell
        /\ Reach(nx, {x}) = {x} \cup Reach(nx, {nx[x]}) /\ Reach(nx, {x}) \subseteq cells
    BY ChainRest
  <2>2. Reach(nx, {y}) \subseteq Reach(nx, {nx[x]})
    <3>1. {y} \subseteq Reach(nx, {nx[x]}) \cup {0}
      BY <1>1, <2>1
    <3> QED BY <2>1, <3>1, ReachSub
  <2>3. IsFiniteSet(Reach(nx, {nx[x]}))
    <3>1. Reach(nx, {nx[x]}) \subseteq cells /\ IsFiniteSet(cells)
      BY <2>1, ChainRank
    <3> QED BY <3>1, FS_Subset
  <2>4. /\ Cardinality(Reach(nx, {y})) <= Cardinality(Reach(nx, {nx[x]}))
        /\ Cardinality(Reach(nx, {nx[x]})) \in Nat
    BY <2>2, <2>3, FS_Subset, FS_CardinalityType
  <2>5. /\ Cardinality(Reach(nx, {x})) = Cardinality(Reach(nx, {nx[x]})) + 1
        /\ Cardinality(Reach(nx, {y})) \in Nat
    BY ChainRank
  <2> QED BY <2>4, <2>5
<1>2. Cardinality(Reach(nx, {c})) \in Nat /\ Cardinality(Reach(nx, {d})) \in Nat
  BY ChainRank
<1>3. c \in Reach(nx, {d}) \/ d \in Reach(nx, {c})
  BY ChainTotal
<1> QED BY <1>1, <1>2, <1>3

\* Cells in descending order are a chain.
LEMMA LastFacts ==
  ASSUME NEW cells \in SUBSET Cell
  PROVE  /\ LastOf(cells) \in cells \cup {0}
         /\ cells # {} => LastOf(cells) \in cells /\ \A d \in cells : d <= LastOf(cells)
         /\ cells = {} => LastOf(cells) = 0
<1>1. ASSUME cells # {}
      PROVE  \E c \in cells : \A d \in cells : d <= c
  <2>1. MaxCell \in Nat /\ \A d \in cells : d <= MaxCell
    BY Numbers DEF Cell
  <2>2. PICK n \in Nat : \A d \in cells : d <= n
    BY <2>1
  <2>3. PICK S : S = {m \in Nat : \A d \in cells : d <= m}
    OBVIOUS
  <2>4. PICK m \in S : \A k \in S : ~(<<k, m>> \in OpToRel(<, Nat))
    BY <2>2, <2>3, NatLessThanWellFounded, WFMin
  <2>5. m \in Nat /\ (\A d \in cells : d <= m) /\ \A k \in S : ~(k < m)
    BY <2>3, <2>4 DEF OpToRel
  <2>6. CASE m \in cells
    BY <2>5, <2>6
  <2>7. CASE m \notin cells
    <3>1. \A d \in cells : d \in Nat /\ d # 0 /\ d # m
      BY <2>7, Numbers
    <3>2. m > 0
      BY <1>1, <2>5, <3>1
    <3>3. m - 1 \in Nat /\ \A d \in cells : d <= m - 1
      BY <2>5, <3>1, <3>2
    <3> QED BY <2>3, <2>5, <3>3
  <2> QED BY <2>6, <2>7
<1>2. ASSUME cells # {}
      PROVE  LastOf(cells) \in cells /\ \A d \in cells : d <= LastOf(cells)
  BY <1>1, <1>2 DEF LastOf
<1> QED BY <1>2 DEF LastOf

\* Cells that each refer to the last one before them are a chain: the sweep
\* leaves one.
LEMMA Descending ==
  ASSUME NEW nx \in Link, NEW cells \in SUBSET Cell,
         \A c \in cells : nx[c] = LastOf({d \in cells : d < c})
  PROVE  Chain(nx, LastOf(cells), cells)
<1>1. cells \subseteq Nat /\ 0 \notin cells /\ 0 \notin Cell
  BY Numbers
<1>2. ASSUME NEW c \in cells
      PROVE  /\ nx[c] \in cells \cup {0}
             /\ nx[c] < c
             /\ \A d \in cells : d < c => d <= nx[c]
  <2>1. PICK S : S = {d \in cells : d < c}
    OBVIOUS
  <2>2. S \in SUBSET Cell /\ S \in SUBSET cells
    BY <2>1
  <2>3. /\ LastOf(S) \in S \cup {0}
        /\ S # {} => LastOf(S) \in S /\ \A d \in S : d <= LastOf(S)
    BY <2>2, LastFacts
  <2>4. nx[c] = LastOf(S)
    BY <2>1
  <2>5. c \in Nat /\ c # 0
    BY <1>1
  <2> QED BY <2>1, <2>3, <2>4, <2>5
<1>3. LastOf(cells) \in cells \cup {0} /\ LastOf(cells) \in {0} \cup Cell
  BY LastFacts
<1>4. Reach(nx, {LastOf(cells)}) \subseteq cells
  BY <1>2, <1>3, ReachWithin
<1>5. cells \subseteq Reach(nx, {LastOf(cells)})
  <2> DEFINE R == Reach(nx, {LastOf(cells)})
  <2>1. /\ R \in SUBSET Cell /\ {LastOf(cells)} \subseteq R \cup {0}
        /\ \A c \in R : nx[c] \in R \cup {0}
    <3>1. {LastOf(cells)} \in SUBSET ({0} \cup Cell)
      BY <1>3
    <3> QED BY <3>1, ReachFacts
  <2> HIDE DEF R
  <2>2. SUFFICES ASSUME NEW e \in cells, e \notin R PROVE FALSE
    BY DEF R
  <2>3. PICK S : S = {d \in R : d >= e}
    OBVIOUS
  <2>4. PICK a : a = LastOf(cells)
    OBVIOUS
  <2>5. a \in S /\ a \in Nat
    <3>1. a \in cells /\ e <= a
      BY <2>2, <2>4, LastFacts
    <3> QED BY <1>1, <2>1, <2>3, <2>4, <3>1
  <2>6. S \subseteq Nat /\ S # {} /\ e \in Nat
    BY <1>1, <2>1, <2>3, <2>5, Numbers
  <2>7. PICK m \in S : \A k \in S : ~(<<k, m>> \in OpToRel(<, Nat))
    BY <2>6, NatLessThanWellFounded, WFMin
  <2>8. m \in R /\ m \in Nat /\ m >= e /\ \A k \in S : ~(k < m)
    BY <2>3, <2>6, <2>7 DEF OpToRel
  <2>9. m \in cells /\ m # e
    BY <1>4, <2>2, <2>8 DEF R
  <2>10. nx[m] \in cells \cup {0} /\ nx[m] < m /\ e <= nx[m]
    BY <1>2, <2>6, <2>8, <2>9
  <2>11. nx[m] # 0
    BY <1>1, <2>6, <2>10
  <2>12. nx[m] \in S
    BY <1>1, <2>1, <2>3, <2>6, <2>8, <2>10, <2>11
  <2> QED BY <2>8, <2>10, <2>12
<1>6. ASSUME NEW c \in cells PROVE c \notin Reach(nx, {nx[c]})
  <2>1. PICK S : S = {d \in cells : d < c}
    OBVIOUS
  <2>2. S \in SUBSET Cell /\ {nx[c]} \subseteq S \cup {0} /\ c \in Nat
    BY <1>1, <1>2, <2>1
  <2>3. ASSUME NEW d \in S PROVE nx[d] \in S \cup {0}
    <3>1. d \in cells /\ d \in Nat /\ d < c
      BY <1>1, <2>1
    <3>2. nx[d] \in cells \cup {0} /\ nx[d] < d
      BY <1>2, <3>1
    <3>3. nx[d] \in Nat
      <4>1. nx[d] \in cells \cup {0}
        BY <3>2
      <4>2. \A x \in cells \cup {0} : x \in Nat
        BY <1>1
      <4> QED BY <4>1, <4>2, Zenon
    <3>4. nx[d] < c
      BY <2>2, <3>1, <3>2, <3>3
    <3> QED BY <2>1, <3>2, <3>4
  <2>4. Reach(nx, {nx[c]}) \subseteq S
    BY <2>2, <2>3, ReachWithin
  <2> QED BY <2>1, <2>2, <2>4
<1> QED BY <1>4, <1>5, <1>6 DEF Chain

----------------------------------------------------------------------------
(* Images. *)

CellRecord == [cid : Nat, ptr : Pointer, own : Class \cup {None}, vt : Program \cup {None}]

\* The types of the fields of an image.
LEMMA ImageFields ==
  ASSUME NEW img \in Image
  PROVE  /\ img.base \in {0} \cup Base /\ img.n_classes \in Nat
         /\ img.timestamp \in Program \cup {None} /\ img.top \in 0..MaxCell
         /\ img.root \in Pointer /\ img.class_dictionary \in Pointer
         /\ img.free \in Pointer /\ img.n_static \in 0..maxStaticData
         /\ img.static \in [1..maxStaticData -> Pointer]
         /\ img.cell \in [Cell -> CellRecord]
BY DEF Image, CellRecord

\* The null reference and the blank cell are of their types.
LEMMA NullPointer == NULL \in Pointer /\ Free(NULL) \in CellRecord
BY DEF NULL, Pointer, Free, CellRecord, free_object

\* A reference that is made for a cell leads to it.
LEMMA PointerAt ==
  ASSUME NEW b \in Base \cup {0}, NEW c \in {0} \cup Cell
  PROVE  /\ Ptr(b, c) \in Pointer /\ Ptr(b, c).to = c
         /\ (Ptr(b, c).at = 0 <=> c = 0)
         /\ Target(b, Ptr(b, c)) = c
         /\ Ptr(b, 0) = NULL
<1>1. b \in Nat /\ c \in Nat /\ (c # 0 => b + c \in Nat /\ b + c # 0 /\ c \in Cell /\ b + c - b = c)
  BY OpenAssumption, Numbers
<1> QED BY <1>1 DEF Ptr, NULL, Pointer, Target

\* The header without the cells.
LEMMA HeaderCells ==
  ASSUME NEW f \in Image, NEW g \in Image,
         [f EXCEPT !.cell = 0] = [g EXCEPT !.cell = 0]
  PROVE  [f EXCEPT !.cell = g.cell] = g /\ f.top = g.top
<1>1. PICK ff, gg : ff = [f EXCEPT !.cell = 0] /\ gg = [g EXCEPT !.cell = 0]
  OBVIOUS
<1>2. /\ ff.base = f.base /\ ff.n_classes = f.n_classes /\ ff.timestamp = f.timestamp
      /\ ff.top = f.top /\ ff.root = f.root /\ ff.class_dictionary = f.class_dictionary
      /\ ff.free = f.free /\ ff.n_static = f.n_static /\ ff.static = f.static
  BY <1>1 DEF Image
<1>3. /\ gg.base = g.base /\ gg.n_classes = g.n_classes /\ gg.timestamp = g.timestamp
      /\ gg.top = g.top /\ gg.root = g.root /\ gg.class_dictionary = g.class_dictionary
      /\ gg.free = g.free /\ gg.n_static = g.n_static /\ gg.static = g.static
  BY <1>1 DEF Image
<1>4. ff = gg
  BY <1>1
<1>5. [f EXCEPT !.cell = g.cell] = g
  BY <1>2, <1>3, <1>4 DEF Image
<1> QED BY <1>2, <1>3, <1>4, <1>5

\* An update that stores the same cells changes nothing.
LEMMA SameCells ==
  ASSUME NEW f \in Image PROVE [f EXCEPT !.cell = f.cell] = f
BY DEF Image

\* The cells that references were made for, as a function.
LEMMA LinkType ==
  ASSUME NEW img \in Image
  PROVE  /\ To(img) \in Link
         /\ \A c \in Cell : To(img)[c] = img.cell[c].ptr.to
<1>1. \A c \in Cell : img.cell[c].ptr.to \in {0} \cup Cell
  BY ImageFields DEF CellRecord, Pointer
<1> QED BY <1>1 DEF To, Link

\* Objects, dictionary and free cells are in the file, apart from each other
\* and finitely many.
LEMMA Kinds ==
  ASSUME NEW img \in Image
  PROVE  /\ 1..img.top \in SUBSET Cell /\ img.top \in Nat /\ img.top <= MaxCell
         /\ FreeCells(img) \subseteq 1..img.top /\ Meta(img) \subseteq 1..img.top
         /\ Live(img) \subseteq 1..img.top
         /\ FreeCells(img) \cap Meta(img) = {} /\ FreeCells(img) \cap Live(img) = {}
         /\ Meta(img) \cap Live(img) = {}
         /\ IsFiniteSet(Live(img)) /\ IsFiniteSet(Meta(img))
         /\ Cardinality(Live(img)) \in Nat /\ Cardinality(Meta(img)) \in Nat
<1>1. img.top \in Nat /\ img.top <= MaxCell /\ 1..img.top \in SUBSET Cell
  BY ImageFields, Numbers DEF Cell
<1>2. /\ FreeCells(img) \subseteq 1..img.top /\ Meta(img) \subseteq 1..img.top
      /\ Live(img) \subseteq 1..img.top
  BY DEF FreeCells, Meta, Live
<1>3. /\ FreeCells(img) \cap Meta(img) = {} /\ FreeCells(img) \cap Live(img) = {}
      /\ Meta(img) \cap Live(img) = {}
  BY DEF FreeCells, Meta, Live, free_object, metaclass_cid, first_cid
<1>4. IsFiniteSet(1..img.top)
  BY <1>1, Numbers, FS_Subset
<1>5. IsFiniteSet(Live(img)) /\ IsFiniteSet(Meta(img))
  BY <1>2, <1>4, FS_Subset
<1> QED BY <1>1, <1>2, <1>3, <1>5, FS_CardinalityType

\* In a file whose references are in place, addresses lead where the
\* references were made for.
LEMMA LinksAre ==
  ASSUME NEW img \in Image, PlaceInv(img)
  PROVE  /\ Links(img) = To(img)
         /\ Target(img.base, img.class_dictionary) = img.class_dictionary.to
         /\ \A c \in Cell : Target(img.base, img.cell[c].ptr) = To(img)[c]
<1>1. ASSUME NEW p \in Pointer, p = Ptr(img.base, p.to) PROVE Target(img.base, p) = p.to
  <2>1. p.to \in {0} \cup Cell /\ img.base \in Base \cup {0}
    BY ImageFields DEF Pointer
  <2>2. PICK t \in {0} \cup Cell : t = p.to
    BY <2>1
  <2>3. p = Ptr(img.base, t)
    BY <1>1, <2>2
  <2>4. Target(img.base, Ptr(img.base, t)) = t
    BY <2>1, PointerAt
  <2> QED BY <2>2, <2>3, <2>4
<1>2. \A c \in Cell : img.cell[c].ptr \in Pointer
  BY ImageFields DEF CellRecord
<1>3. \A c \in Cell : Target(img.base, img.cell[c].ptr) = img.cell[c].ptr.to
  BY <1>1, <1>2 DEF PlaceInv
<1>4. Target(img.base, img.class_dictionary) = img.class_dictionary.to
  BY <1>1, ImageFields DEF PlaceInv
<1>5. Links(img) = To(img)
  BY <1>3 DEF Links, To
<1> QED BY <1>3, <1>4, <1>5, LinkType

\* What the log brings back is the last commit.
LEMMA Restored ==
  ASSUME Sound(file), Sound(saved), LogInv, tx, ~fresh
  PROVE  Recovered = saved
<1>1. file \in Image /\ saved \in Image
  BY DEF Sound
<1>2. PICK cells : cells = [c \in Cell |->
                 IF c > saved.top /\ Header \in dirty THEN Free(NULL)
                 ELSE IF c \in dirty THEN saved.cell[c] ELSE file.cell[c]]
  OBVIOUS
<1>3. /\ saved.top \in Nat /\ dirty \subseteq 0..saved.top
      /\ Header \notin dirty => [file EXCEPT !.cell = 0] = [saved EXCEPT !.cell = 0]
      /\ \A c \in 1..saved.top : c \in dirty \/ file.cell[c] = saved.cell[c]
  BY <1>1, Kinds DEF LogInv
<1>4. Header \notin dirty => [file EXCEPT !.cell = saved.cell] = saved /\ file.top = saved.top
  BY <1>1, <1>3, HeaderCells
<1>5. /\ \A c \in Cell : c > saved.top => saved.cell[c] = Free(NULL)
      /\ \A c \in Cell : c > file.top => file.cell[c] = Free(NULL)
  BY DEF Sound, KindInv
<1>6. ASSUME NEW c \in Cell PROVE cells[c] = saved.cell[c]
  <2>1. c \in Nat /\ c # 0
    BY Numbers
  <2>2. CASE c > saved.top
    <3>1. c \notin dirty
      BY <1>3, <2>1, <2>2
    <3>2. cells[c] = IF Header \in dirty THEN Free(NULL) ELSE file.cell[c]
      BY <1>2, <2>2, <3>1
    <3> QED BY <1>4, <1>5, <2>2, <3>2
  <2>3. CASE ~(c > saved.top)
    <3>1. c \in 1..saved.top
      BY <1>3, <2>1, <2>3
    <3>2. cells[c] = IF c \in dirty THEN saved.cell[c] ELSE file.cell[c]
      BY <1>2, <2>3
    <3> QED BY <1>3, <3>1, <3>2
  <2> QED BY <2>2, <2>3
<1>7. cells = saved.cell
  <2>1. saved.cell \in [Cell -> CellRecord]
    BY <1>1, ImageFields
  <2>2. DOMAIN cells = Cell /\ cells = [c \in Cell |-> cells[c]]
    BY <1>2
  <2> QED BY <1>6, <2>1, <2>2
<1>8. Recovered = [(IF Header \in dirty THEN saved ELSE file) EXCEPT !.cell = cells]
  BY <1>2 DEF Recovered
<1> QED BY <1>1, <1>4, <1>7, <1>8, SameCells

----------------------------------------------------------------------------
(* A cell for an object. *)

\* An image has room for one more object or class.
LEMMA Room ==
  ASSUME NEW img, Sound(img), img.free.to = 0,
         Cardinality(Live(img)) + Cardinality(Meta(img)) < MaxCell
  PROVE  img.top < MaxCell
<1>1. img \in Image
  BY DEF Sound
<1>2. FreeCells(img) = {}
  <2>1. To(img) \in Link /\ Chain(To(img), 0, FreeCells(img))
    BY <1>1, LinkType DEF Sound, FreeInv
  <2> QED BY <2>1, ChainWithin
<1>3. 1..img.top = Live(img) \cup Meta(img)
  BY <1>1, <1>2, Kinds DEF Sound, KindInv
<1>4. /\ IsFiniteSet(Live(img)) /\ IsFiniteSet(Meta(img)) /\ Live(img) \cap Meta(img) = {}
      /\ Cardinality(Live(img)) \in Nat /\ Cardinality(Meta(img)) \in Nat
      /\ img.top \in Nat
  BY <1>1, Kinds
<1>5. Cardinality(Live(img) \cup Meta(img))
        = Cardinality(Live(img)) + Cardinality(Meta(img)) - Cardinality(Live(img) \cap Meta(img))
  BY <1>4, FS_Union
<1>6. Cardinality({}) = 0
  BY FS_EmptySet
<1>7. Cardinality(1..img.top) = img.top
  <2>1. PICK n \in Int : n = img.top
    BY <1>4
  <2>2. PICK a \in Int : a = 1
    OBVIOUS
  <2>3. Cardinality(a..n) = IF a > n THEN 0 ELSE n - a + 1
    BY FS_Interval
  <2> QED BY <1>4, <2>1, <2>2, <2>3
<1>8. img.top = Cardinality(Live(img)) + Cardinality(Meta(img))
  <2>1. Cardinality(Live(img) \cap Meta(img)) = 0
    BY <1>4, <1>6
  <2>2. img.top = Cardinality(Live(img) \cup Meta(img))
    BY <1>3, <1>7
  <2> QED BY <1>4, <1>5, <2>1, <2>2
<1> QED BY <1>8

\* The classes in the dictionary, when one is missing.
LEMMA Missing ==
  ASSUME NEW img, Sound(img), NEW k \in Class,
         \A d \in Meta(img) : img.cell[d].own # k
  PROVE  Cardinality(Meta(img)) < Cardinality(Class)
<1>1. img \in Image
  BY DEF Sound
<1>2. PICK f : f = [d \in Meta(img) |-> img.cell[d].own]
  OBVIOUS
<1>3. PICK rest : rest = Class \ {k}
  OBVIOUS
<1>4. /\ IsFiniteSet(rest) /\ Cardinality(rest) = Cardinality(Class) - 1
      /\ Cardinality(Class) \in Nat
  BY <1>3, Numbers, FS_RemoveElement
<1>5. /\ f \in [Meta(img) -> rest]
      /\ \A d, e \in Meta(img) : f[d] = f[e] => d = e
  BY <1>2, <1>3 DEF Sound, DictInv
<1>6. f \in Injection(Meta(img), rest)
  BY <1>5 DEF Injection, IsInjective
<1>7. Cardinality(Meta(img)) <= Cardinality(rest)
  BY <1>4, <1>6, FS_Injection
<1> QED BY <1>1, <1>4, <1>7, Kinds

\* What _allocate() does to an image.
Allots(img, c, res) ==
  /\ c \in Cell /\ c \notin Live(img) \cup Meta(img)
  /\ res \in Image
  /\ res.base = img.base /\ res.n_classes = img.n_classes
  /\ res.timestamp = img.timestamp /\ res.root = img.root
  /\ res.class_dictionary = img.class_dictionary
  /\ res.n_static = img.n_static /\ res.static = img.static /\ res.cell = img.cell
  /\ 1..res.top = (1..img.top) \cup {c}
  /\ \A d \in Cell : d > res.top => d > img.top /\ d # c
  /\ res.free = Ptr(img.base, res.free.to)
  /\ Chain(To(img), res.free.to, FreeCells(img) \ {c})

\* _allocate() returns a free cell or a new one, when there is room for one.
LEMMA AllocAllots ==
  ASSUME NEW img, Sound(img), img.base = hdr, hdr \in Base,
         Cardinality(Live(img)) + Cardinality(Meta(img)) < MaxCell
  PROVE  Allots(img, Alloc(img)[1], Alloc(img)[2])
<1>1. img \in Image /\ PlaceInv(img) /\ KindInv(img) /\ FreeInv(img)
  BY DEF Sound
<1>2. /\ img.free \in Pointer /\ img.free.to \in {0} \cup Cell
      /\ img.free = Ptr(hdr, img.free.to) /\ hdr \in Base \cup {0}
  BY <1>1, ImageFields DEF Pointer, PlaceInv
<1>3. (img.free.at = 0 <=> img.free.to = 0) /\ Target(hdr, img.free) = img.free.to
  <2>1. PICK c \in {0} \cup Cell : c = img.free.to
    BY <1>2
  <2>2. img.free = Ptr(hdr, c)
    BY <1>2, <2>1
  <2>3. (Ptr(hdr, c).at = 0 <=> c = 0) /\ Target(hdr, Ptr(hdr, c)) = c
    BY <1>2, PointerAt
  <2> QED BY <2>1, <2>2, <2>3
<1>4. /\ To(img) \in Link /\ 0 \notin Cell /\ img.top \in Nat /\ 1..img.top \in SUBSET Cell
      /\ Chain(To(img), img.free.to, FreeCells(img))
  BY <1>1, LinkType, Kinds, Numbers DEF FreeInv
<1>5. CASE img.free.to # 0
  <2>1. PICK c : c = img.free.to
    OBVIOUS
  <2>2. PICK res : res = [img EXCEPT !.free = img.cell[c].ptr]
    OBVIOUS
  <2>3. Alloc(img) = <<c, res>>
    <3>1. img.free.at # 0 /\ img.free.at - hdr = c
      BY <1>3, <1>5, <2>1 DEF Target
    <3> QED BY <2>2, <3>1 DEF Alloc
  <2>4. c \in Cell /\ c \in FreeCells(img) /\ Chain(To(img), To(img)[c], FreeCells(img) \ {c})
    BY <1>2, <1>4, <1>5, <2>1, ChainTail
  <2>5. c \notin Live(img) \cup Meta(img) /\ c \in 1..img.top
    BY <1>1, <2>4, Kinds
  <2>6. img.cell[c].ptr \in Pointer /\ img.cell[c].ptr.to = To(img)[c]
    BY <1>1, <2>4, ImageFields, LinkType DEF CellRecord
  <2>7. /\ res \in Image
        /\ res.base = img.base /\ res.n_classes = img.n_classes
        /\ res.timestamp = img.timestamp /\ res.root = img.root
        /\ res.class_dictionary = img.class_dictionary
        /\ res.n_static = img.n_static /\ res.static = img.static /\ res.cell = img.cell
        /\ res.top = img.top /\ res.free = img.cell[c].ptr
    BY <1>1, <2>2, <2>6 DEF Image
  <2>8. 1..res.top = (1..img.top) \cup {c}
    BY <2>5, <2>7
  <2>9. \A d \in Cell : d > res.top => d > img.top /\ d # c
    BY <1>4, <2>5, <2>7
  <2>10. res.free = Ptr(img.base, res.free.to)
    BY <1>1, <2>4, <2>7 DEF PlaceInv
  <2>11. Chain(To(img), res.free.to, FreeCells(img) \ {c})
    BY <2>4, <2>6, <2>7
  <2>12. Allots(img, c, res)
    BY <2>4, <2>5, <2>7, <2>8, <2>9, <2>10, <2>11 DEF Allots
  <2> QED BY <2>3, <2>12
<1>6. CASE img.free.to = 0
  <2>1. PICK c : c = img.top + 1
    OBVIOUS
  <2>2. PICK res : res = [img EXCEPT !.top = img.top + 1]
    OBVIOUS
  <2>3. Alloc(img) = <<c, res>>
    BY <1>3, <1>6, <2>1, <2>2 DEF Alloc
  <2>4. c \in Cell /\ c \in 0..MaxCell /\ c \notin 1..img.top
    BY <1>4, <1>6, <2>1, Room, Numbers DEF Cell
  <2>5. c \notin Live(img) \cup Meta(img) /\ c \notin FreeCells(img)
    BY <1>1, <2>4, Kinds
  <2>6. /\ res \in Image
        /\ res.base = img.base /\ res.n_classes = img.n_classes
        /\ res.timestamp = img.timestamp /\ res.root = img.root
        /\ res.class_dictionary = img.class_dictionary
        /\ res.n_static = img.n_static /\ res.static = img.static /\ res.cell = img.cell
        /\ res.top = c /\ res.free = img.free
    BY <1>1, <2>1, <2>2, <2>4 DEF Image
  <2>7. 1..res.top = (1..img.top) \cup {c}
    BY <1>4, <2>1, <2>6
  <2>8. \A d \in Cell : d > res.top => d > img.top /\ d # c
    BY <1>4, <2>1, <2>6, Numbers
  <2>9. res.free = Ptr(img.base, res.free.to)
    BY <1>2, <2>6
  <2>10. Chain(To(img), res.free.to, FreeCells(img) \ {c})
    <3>1. FreeCells(img) \ {c} = FreeCells(img)
      BY <2>5
    <3> QED BY <1>4, <2>6, <3>1
  <2>11. Allots(img, c, res)
    BY <2>4, <2>5, <2>6, <2>7, <2>8, <2>9, <2>10 DEF Allots
  <2> QED BY <2>3, <2>11
<1> QED BY <1>5, <1>6

\* An object is put into a new cell.
Puts(img, c, x, res) ==
  /\ c \in Cell /\ x \in CellRecord /\ res \in Image /\ \E r : /\ Allots(img, c, r)
     /\ res.base = img.base /\ res.n_classes = img.n_classes
     /\ res.timestamp = img.timestamp /\ res.root = img.root
     /\ res.n_static = img.n_static /\ res.static = img.static
     /\ res.top = r.top /\ res.free = r.free
  /\ res.cell = [img.cell EXCEPT ![c] = x]

\* What the other cells are when a cell has been filled.
LEMMA PutCells ==
  ASSUME NEW img, Sound(img), NEW c, NEW x, NEW res, Puts(img, c, x, res)
  PROVE  /\ \A d \in Cell : d # c => res.cell[d] = img.cell[d] /\ To(res)[d] = To(img)[d]
         /\ res.cell[c] = x /\ To(res)[c] = x.ptr.to
         /\ \A d \in Cell : d > res.top => res.cell[d] = Free(NULL)
         /\ 1..res.top = (1..img.top) \cup {c}
         /\ c \notin Live(img) \cup Meta(img)
         /\ FreeCells(res) \ {c} = FreeCells(img) \ {c}
         /\ Meta(res) \ {c} = Meta(img) /\ Live(res) \ {c} = Live(img)
<1>1. PICK r : /\ Allots(img, c, r) /\ res.top = r.top /\ res.free = r.free
  BY DEF Puts
<1>2. img \in Image /\ res \in Image /\ c \in Cell /\ x \in CellRecord
  BY DEF Sound, Puts
<1>3. /\ \A d \in Cell : d # c => res.cell[d] = img.cell[d]
      /\ res.cell[c] = x
  BY <1>2, ImageFields DEF Puts
<1>4. /\ \A d \in Cell : d # c => To(res)[d] = To(img)[d]
      /\ To(res)[c] = x.ptr.to
  BY <1>2, <1>3, LinkType
<1>5. 1..res.top = (1..img.top) \cup {c} /\ c \notin Live(img) \cup Meta(img)
  BY <1>1 DEF Allots
<1>6. \A d \in Cell : d > res.top => res.cell[d] = Free(NULL)
  BY <1>1, <1>3 DEF Allots, Sound, KindInv
<1>7. \A d \in 1..img.top : d \in Cell
  BY <1>2, Kinds
<1>8. FreeCells(res) \ {c} = FreeCells(img) \ {c}
  BY <1>3, <1>5, <1>7 DEF FreeCells
<1>9. Meta(res) \ {c} = Meta(img) \ {c}
  BY <1>3, <1>5, <1>7 DEF Meta
<1>10. Live(res) \ {c} = Live(img) \ {c}
  BY <1>3, <1>5, <1>7 DEF Live
<1> QED BY <1>3, <1>4, <1>5, <1>6, <1>8, <1>9, <1>10

\* The free chain is sound when its first cell has been filled.
LEMMA PutFree ==
  ASSUME NEW img, Sound(img), NEW c, NEW x, NEW res, Puts(img, c, x, res),
         x.cid # free_object
  PROVE  FreeInv(res) /\ FreeCells(res) = FreeCells(img) \ {c}
<1>1. PICK r : Allots(img, c, r) /\ res.free = r.free
  BY DEF Puts
<1>2. /\ img \in Image /\ res \in Image /\ c \in Cell /\ res.cell[c] = x
      /\ \A d \in Cell : d # c => To(res)[d] = To(img)[d]
      /\ FreeCells(res) \ {c} = FreeCells(img) \ {c}
  <2>1. img \in Image /\ res \in Image /\ c \in Cell
    BY DEF Sound, Puts
  <2> QED BY <2>1, PutCells
<1>3. FreeCells(res) = FreeCells(img) \ {c}
  BY <1>2 DEF FreeCells
<1>4. Chain(To(img), res.free.to, FreeCells(res))
  BY <1>1, <1>3 DEF Allots
<1>5. /\ To(img) \in Link /\ To(res) \in Link /\ res.free.to \in {0} \cup Cell
      /\ FreeCells(img) \subseteq Cell
  BY <1>2, LinkType, ImageFields, Kinds DEF Pointer
<1>6. \A d \in FreeCells(res) : To(res)[d] = To(img)[d]
  BY <1>2, <1>3, <1>5
<1>7. Chain(To(res), res.free.to, FreeCells(res))
  BY <1>4, <1>5, <1>6, ChainAgree
<1> QED BY <1>3, <1>7 DEF FreeInv

\* References hold their addresses when a cell has been filled.
LEMMA PutPlaces ==
  ASSUME NEW img, Sound(img), NEW c, NEW x, NEW res, Puts(img, c, x, res),
         x.ptr = Ptr(img.base, x.ptr.to),
         res.class_dictionary = Ptr(img.base, res.class_dictionary.to)
  PROVE  PlaceInv(res)
<1>1. PICK r : /\ Allots(img, c, r) /\ res.base = img.base /\ res.root = img.root
               /\ res.n_static = img.n_static /\ res.static = img.static /\ res.free = r.free
  BY DEF Puts
<1>2. /\ res.cell[c] = x
      /\ \A d \in Cell : d # c => res.cell[d] = img.cell[d]
  BY PutCells
<1>3. res.free = Ptr(res.base, res.free.to)
  BY <1>1 DEF Allots
<1>4. PlaceInv(img)
  BY DEF Sound
<1>5. /\ res.root = Ptr(res.base, res.root.to)
      /\ \A i \in 1..res.n_static : res.static[i] = Ptr(res.base, res.static[i].to)
  BY <1>1, <1>4 DEF PlaceInv
<1>6. ASSUME NEW d \in Cell PROVE res.cell[d].ptr = Ptr(res.base, res.cell[d].ptr.to)
  <2>1. CASE d = c
    BY <1>1, <1>2, <2>1
  <2>2. CASE d # c
    BY <1>1, <1>2, <1>4, <2>2 DEF PlaceInv
  <2> QED BY <2>1, <2>2
<1> QED BY <1>1, <1>3, <1>5, <1>6 DEF PlaceInv

\* Where two images have the same dictionary, classes have the same ids.
SameClasses(img, res) ==
  /\ Meta(res) = Meta(img)
  /\ \A d \in Meta(img) : res.cell[d].own = img.cell[d].own /\ Id(res, d) = Id(img, d)

\* An image with the same dictionary cells has the same ids.
LEMMA SameDictionary ==
  ASSUME NEW img, Sound(img), NEW res \in Image, Meta(res) = Meta(img),
         res.class_dictionary.to = img.class_dictionary.to,
         \A d \in Meta(img) : /\ res.cell[d].own = img.cell[d].own
                              /\ To(res)[d] = To(img)[d]
  PROVE  DictInv(res) /\ SameClasses(img, res)
<1>1. /\ img \in Image /\ Chain(To(img), img.class_dictionary.to, Meta(img))
      /\ \A d \in Meta(img) : img.cell[d].own \in Class
      /\ \A d, e \in Meta(img) : img.cell[d].own = img.cell[e].own => d = e
  BY DEF Sound, DictInv
<1>2. To(img) \in Link /\ To(res) \in Link /\ img.class_dictionary.to \in {0} \cup Cell
  BY <1>1, LinkType, ImageFields DEF Pointer
<1>3. /\ Chain(To(res), img.class_dictionary.to, Meta(img))
      /\ \A d \in Meta(img) : Reach(To(res), {d}) = Reach(To(img), {d})
  <2>1. \A d \in Meta(img) : To(res)[d] = To(img)[d]
    OBVIOUS
  <2>2. PICK nx \in Link, mx \in Link, a \in {0} \cup Cell :
          nx = To(img) /\ mx = To(res) /\ a = img.class_dictionary.to
    BY <1>2
  <2>3. Chain(nx, a, Meta(img)) /\ \A d \in Meta(img) : mx[d] = nx[d]
    BY <1>1, <2>1, <2>2
  <2>4. /\ Chain(mx, a, Meta(img))
        /\ \A d \in Meta(img) : Reach(mx, {d}) = Reach(nx, {d})
    BY <2>3, ChainAgree
  <2> QED BY <2>2, <2>4
<1>4. DictInv(res)
  BY <1>1, <1>3 DEF DictInv
<1>5. SameClasses(img, res)
  BY <1>3 DEF SameClasses, Id
<1> QED BY <1>4, <1>5

\* Ids of classes.
LEMMA IdFacts ==
  ASSUME NEW img, Sound(img), NEW d \in Meta(img)
  PROVE  /\ Id(img, d) \in Nat /\ Id(img, d) >= first_cid
         /\ Id(img, d) < first_cid + Cardinality(Meta(img))
         /\ \A e \in Meta(img) : Id(img, d) = Id(img, e) => d = e
<1>1. img \in Image /\ Chain(To(img), img.class_dictionary.to, Meta(img))
  BY DEF Sound, DictInv
<1>2. To(img) \in Link /\ img.class_dictionary.to \in {0} \cup Cell
  BY <1>1, LinkType, ImageFields DEF Pointer
<1>3. ASSUME NEW e \in Meta(img)
      PROVE  /\ Cardinality(Meta(img)) \in Nat /\ Cardinality(Reach(To(img), {e})) \in Nat
             /\ 1 <= Cardinality(Reach(To(img), {e}))
             /\ Cardinality(Reach(To(img), {e})) <= Cardinality(Meta(img))
  BY <1>1, <1>2, ChainRank
<1>4. \A e \in Meta(img) : d # e =>
        Cardinality(Reach(To(img), {d})) # Cardinality(Reach(To(img), {e}))
  BY <1>1, <1>2, ChainNumbers
<1>5. /\ Id(img, d) \in Nat /\ Id(img, d) >= first_cid
      /\ Id(img, d) < first_cid + Cardinality(Meta(img))
  BY <1>3 DEF Id, first_cid
<1>6. ASSUME NEW e \in Meta(img), Id(img, d) = Id(img, e) PROVE d = e
  BY <1>3, <1>4, <1>6 DEF Id, first_cid
<1> QED BY <1>5, <1>6

\* operator new keeps an image sound.
LEMMA NewSound ==
  ASSUME NEW img, Sound(img), NEW c, NEW x, NEW res, Puts(img, c, x, res),
         res.class_dictionary = img.class_dictionary,
         NEW k \in Meta(img), x.cid = Id(img, k), x.own = img.cell[k].own,
         x.ptr = Ptr(img.base, x.ptr.to), x.ptr.to \in {0} \cup Live(img),
         virt => x.vt = img.timestamp,
         Cardinality(Live(img)) < MaxObjects, img.base # 0
  PROVE  Sound(res) /\ SameClasses(img, res)
<1>1. img \in Image /\ res \in Image /\ res.base = img.base /\ c \in Cell
      /\ res.timestamp = img.timestamp /\ res.root = img.root
      /\ res.n_static = img.n_static /\ res.static = img.static
  BY DEF Sound, Puts
<1>2. /\ \A d \in Cell : d # c => res.cell[d] = img.cell[d] /\ To(res)[d] = To(img)[d]
      /\ res.cell[c] = x
      /\ \A d \in Cell : d > res.top => res.cell[d] = Free(NULL)
      /\ 1..res.top = (1..img.top) \cup {c} /\ c \notin Live(img) \cup Meta(img)
      /\ Meta(res) \ {c} = Meta(img) /\ Live(res) \ {c} = Live(img)
  BY PutCells
<1>3. x.cid \in Nat /\ x.cid >= first_cid /\ x.cid # free_object /\ x.cid # metaclass_cid
  BY IdFacts DEF first_cid, free_object, metaclass_cid
<1>4. Meta(res) = Meta(img)
  BY <1>2, <1>3 DEF Meta
<1>5. Live(res) = Live(img) \cup {c}
  BY <1>2, <1>3 DEF Live
<1>6. FreeInv(res) /\ FreeCells(res) = FreeCells(img) \ {c}
  BY <1>3, PutFree
<1>7. \A d \in Live(img) \cup Meta(img) : d \in Cell /\ d # c
  BY <1>1, <1>2, Kinds
<1>8. DictInv(res) /\ SameClasses(img, res)
  BY <1>1, <1>2, <1>4, <1>7, SameDictionary
<1>9. PlaceInv(res)
  <2>1. res.class_dictionary = Ptr(img.base, res.class_dictionary.to)
    BY DEF Sound, PlaceInv
  <2> QED BY <2>1, PutPlaces
<1>10. KindInv(img)
  BY DEF Sound
<1>11. KindInv(res)
  <2>1. \A d \in 1..res.top : d \in FreeCells(res) \cup Meta(res) \cup Live(res)
    BY <1>2, <1>4, <1>5, <1>6, <1>10 DEF KindInv
  <2>2. res.root.to \in {0} \cup Live(res)
    BY <1>1, <1>5, <1>10 DEF KindInv
  <2>3. \A i \in 1..res.n_static : res.static[i].to \in Live(res)
    BY <1>1, <1>5, <1>10 DEF KindInv
  <2>4. ASSUME NEW d \in Live(res) PROVE res.cell[d].ptr.to \in {0} \cup Live(res)
    <3>1. CASE d = c
      BY <1>2, <1>5, <3>1
    <3>2. CASE d # c
      <4>1. d \in Live(img) /\ res.cell[d] = img.cell[d]
        BY <1>2, <1>5, <1>7, <3>2
      <4> QED BY <1>5, <1>10, <4>1 DEF KindInv
    <3> QED BY <3>1, <3>2
  <2> QED BY <1>2, <2>1, <2>2, <2>3, <2>4 DEF KindInv
<1>12. ObjectInv(res)
  <2>1. Cardinality(Live(res)) <= MaxObjects
    <3>1. IsFiniteSet(Live(img)) /\ Cardinality(Live(img)) \in Nat /\ MaxObjects \in Nat
      BY <1>1, Kinds, OpenAssumption
    <3>2. Cardinality(Live(img) \cup {c}) = Cardinality(Live(img)) + 1
      BY <1>2, <3>1, FS_AddElement
    <3> QED BY <1>5, <3>1, <3>2
  <2>2. ASSUME NEW d \in Live(res)
        PROVE  \E e \in Meta(res) :
                 res.cell[d].own = res.cell[e].own /\ res.cell[d].cid = Id(res, e)
    <3>1. CASE d = c
      <4>1. res.cell[c].own = res.cell[k].own /\ res.cell[c].cid = Id(res, k)
        BY <1>2, <1>7, <1>8 DEF SameClasses
      <4> QED BY <1>4, <3>1, <4>1
    <3>2. CASE d # c
      <4>1. d \in Live(img) /\ res.cell[d] = img.cell[d]
        BY <1>2, <1>5, <1>7, <3>2
      <4>2. PICK e \in Meta(img) :
              img.cell[d].own = img.cell[e].own /\ img.cell[d].cid = Id(img, e)
        BY <4>1 DEF Sound, ObjectInv
      <4>3. e \in Meta(res) /\ res.cell[e].own = img.cell[e].own /\ Id(res, e) = Id(img, e)
        BY <1>8 DEF SameClasses
      <4> QED BY <4>1, <4>2, <4>3
    <3> QED BY <3>1, <3>2
  <2> QED BY <2>1, <2>2 DEF ObjectInv
<1>13. TableInv(res)
  BY <1>1, <1>2, <1>4, <1>5, <1>7 DEF Sound, TableInv
<1> QED BY <1>1, <1>6, <1>8, <1>9, <1>11, <1>12, <1>13 DEF Sound

\* update_class_dictionary() keeps an image sound, and gives the class that it
\* stores the next id.
LEMMA ClassSound ==
  ASSUME NEW img, Sound(img), NEW c, NEW x, NEW res, Puts(img, c, x, res),
         res.class_dictionary = Ptr(img.base, c), x.cid = metaclass_cid,
         x.ptr = img.class_dictionary, x.own \in Class,
         \A d \in Meta(img) : img.cell[d].own # x.own,
         virt => x.vt = img.timestamp, img.base # 0
  PROVE  /\ Sound(res) /\ c \notin Meta(img)
         /\ Meta(res) = Meta(img) \cup {c} /\ res.cell[c].own = x.own
         /\ Cardinality(Meta(res)) = Cardinality(Meta(img)) + 1
         /\ \A d \in Meta(img) : res.cell[d].own = img.cell[d].own /\ Id(res, d) = Id(img, d)
         /\ Id(res, c) = first_cid + Cardinality(Meta(img))
<1>1. img \in Image /\ res \in Image /\ res.base = img.base /\ c \in Cell
      /\ res.timestamp = img.timestamp /\ res.root = img.root
      /\ res.n_static = img.n_static /\ res.static = img.static
  BY DEF Sound, Puts
<1>2. /\ \A d \in Cell : d # c => res.cell[d] = img.cell[d] /\ To(res)[d] = To(img)[d]
      /\ res.cell[c] = x /\ To(res)[c] = x.ptr.to
      /\ \A d \in Cell : d > res.top => res.cell[d] = Free(NULL)
      /\ 1..res.top = (1..img.top) \cup {c} /\ c \notin Live(img) \cup Meta(img)
      /\ Meta(res) \ {c} = Meta(img) /\ Live(res) \ {c} = Live(img)
  BY PutCells
<1>3. x.cid = 1 /\ x.cid # free_object /\ ~(x.cid >= first_cid)
  BY DEF first_cid, free_object, metaclass_cid
<1>4. Meta(res) = Meta(img) \cup {c}
  BY <1>2 DEF Meta
<1>5. Live(res) = Live(img)
  BY <1>2, <1>3 DEF Live
<1>6. FreeInv(res) /\ FreeCells(res) = FreeCells(img) \ {c}
  BY <1>3, PutFree
<1>7. \A d \in Live(img) \cup Meta(img) : d \in Cell /\ d # c
  BY <1>1, <1>2, Kinds
<1>8. res.class_dictionary.to = c /\ res.class_dictionary = Ptr(img.base, res.class_dictionary.to)
  <2>1. img.base \in Base \cup {0}
    BY <1>1, ImageFields
  <2>2. Ptr(img.base, c).to = c
    BY <1>1, <2>1, PointerAt
  <2> QED BY <2>2
<1>9. /\ Chain(To(res), c, Meta(img) \cup {c})
      /\ \A d \in Meta(img) : Reach(To(res), {d}) = Reach(To(img), {d})
      /\ Reach(To(res), {c}) = Meta(img) \cup {c}
  <2>1. PICK nx \in Link, mx \in Link, a \in {0} \cup Cell, cells \in SUBSET Cell :
          nx = To(img) /\ mx = To(res) /\ a = img.class_dictionary.to /\ cells = Meta(img)
    BY <1>1, <1>7, LinkType, ImageFields DEF Pointer
  <2>2. Chain(nx, a, cells) /\ mx[c] = a /\ c \notin cells /\ c \in Cell
    BY <1>1, <1>2, <2>1 DEF Sound, DictInv
  <2>3. \A d \in cells : mx[d] = nx[d]
    BY <1>2, <1>7, <2>1
  <2>4. /\ Chain(mx, c, cells \cup {c})
        /\ \A d \in cells : Reach(mx, {d}) = Reach(nx, {d})
        /\ Reach(mx, {c}) = cells \cup {c}
    BY <2>2, <2>3, ChainPush
  <2> QED BY <2>1, <2>4
<1>10. /\ Cardinality(Meta(res)) = Cardinality(Meta(img)) + 1
       /\ Cardinality(Meta(img)) \in Nat
  <2>1. IsFiniteSet(Meta(img)) /\ Cardinality(Meta(img)) \in Nat
    BY <1>1, Kinds
  <2>2. Cardinality(Meta(img) \cup {c}) = Cardinality(Meta(img)) + 1
    BY <1>2, <2>1, FS_AddElement
  <2> QED BY <1>4, <2>1, <2>2
<1>11. /\ \A d \in Meta(img) : res.cell[d].own = img.cell[d].own /\ Id(res, d) = Id(img, d)
       /\ Id(res, c) = first_cid + Cardinality(Meta(img))
  <2>1. \A d \in Meta(img) : res.cell[d].own = img.cell[d].own
    BY <1>2, <1>7
  <2>2. \A d \in Meta(img) : Id(res, d) = Id(img, d)
    BY <1>9 DEF Id
  <2>3. Id(res, c) = first_cid + Cardinality(Meta(img))
    <3>1. Cardinality(Reach(To(res), {c})) = Cardinality(Meta(img)) + 1
      BY <1>4, <1>9, <1>10
    <3> QED BY <1>10, <3>1 DEF Id, first_cid
  <2> QED BY <2>1, <2>2, <2>3
<1>12. DictInv(res)
  <2>1. Chain(To(res), res.class_dictionary.to, Meta(res))
    BY <1>4, <1>8, <1>9
  <2>2. \A d \in Meta(res) : res.cell[d].own \in Class
    BY <1>2, <1>4, <1>11 DEF Sound, DictInv
  <2>3. \A d, e \in Meta(res) : res.cell[d].own = res.cell[e].own => d = e
    BY <1>2, <1>4, <1>11 DEF Sound, DictInv
  <2> QED BY <2>1, <2>2, <2>3 DEF DictInv
<1>13. PlaceInv(res)
  <2>1. x.ptr = Ptr(img.base, x.ptr.to)
    BY DEF Sound, PlaceInv
  <2> QED BY <1>8, <2>1, PutPlaces
<1>14. KindInv(img)
  BY DEF Sound
<1>15. KindInv(res)
  <2>1. \A d \in 1..res.top : d \in FreeCells(res) \cup Meta(res) \cup Live(res)
    BY <1>2, <1>4, <1>5, <1>6, <1>14 DEF KindInv
  <2>2. res.root.to \in {0} \cup Live(res)
    BY <1>1, <1>5, <1>14 DEF KindInv
  <2>3. \A i \in 1..res.n_static : res.static[i].to \in Live(res)
    BY <1>1, <1>5, <1>14 DEF KindInv
  <2>4. \A d \in Live(res) : res.cell[d].ptr.to \in {0} \cup Live(res)
    BY <1>2, <1>5, <1>7, <1>14 DEF KindInv
  <2> QED BY <1>2, <2>1, <2>2, <2>3, <2>4 DEF KindInv
<1>16. ObjectInv(res)
  <2>1. Cardinality(Live(res)) <= MaxObjects
    BY <1>5 DEF Sound, ObjectInv
  <2>2. ASSUME NEW d \in Live(res)
        PROVE  \E e \in Meta(res) :
                 res.cell[d].own = res.cell[e].own /\ res.cell[d].cid = Id(res, e)
    <3>1. d \in Live(img) /\ res.cell[d] = img.cell[d]
      BY <1>2, <1>5, <1>7
    <3>2. PICK e \in Meta(img) :
            img.cell[d].own = img.cell[e].own /\ img.cell[d].cid = Id(img, e)
      BY <3>1 DEF Sound, ObjectInv
    <3>3. e \in Meta(res) /\ res.cell[e].own = img.cell[e].own /\ Id(res, e) = Id(img, e)
      BY <1>4, <1>11
    <3> QED BY <3>1, <3>2, <3>3
  <2> QED BY <2>1, <2>2 DEF ObjectInv
<1>17. TableInv(res)
  BY <1>1, <1>2, <1>4, <1>5, <1>7 DEF Sound, TableInv
<1>18. Sound(res)
  BY <1>1, <1>6, <1>12, <1>13, <1>15, <1>16, <1>17 DEF Sound
<1> QED BY <1>2, <1>4, <1>10, <1>11, <1>18

\* operator delete keeps an image sound.
LEMMA DeleteSound ==
  ASSUME NEW img, Sound(img), img.base # 0, NEW c \in Live(img), NEW res,
         res = [img EXCEPT !.cell[c] = Free(img.free), !.free = Ptr(img.base, c)],
         \A d \in Live(img) : img.cell[d].ptr.to # c, img.root.to # c,
         \A i \in 1..img.n_static : img.static[i].to # c
  PROVE  Sound(res) /\ SameClasses(img, res)
<1>1. /\ img \in Image /\ PlaceInv(img) /\ KindInv(img) /\ DictInv(img) /\ ObjectInv(img)
      /\ TableInv(img) /\ FreeInv(img)
  BY DEF Sound
<1>2. c \in Cell /\ c \in 1..img.top /\ c \notin FreeCells(img) /\ c \notin Meta(img)
  BY <1>1, Kinds
<1>3. /\ img.free \in Pointer /\ img.base \in Base \cup {0} /\ img.free.to \in {0} \cup Cell
      /\ Ptr(img.base, c) \in Pointer /\ Ptr(img.base, c).to = c
  BY <1>1, <1>2, ImageFields, PointerAt DEF Pointer
<1>4. Free(img.free) \in CellRecord
  BY <1>3 DEF Free, CellRecord, free_object
<1>5. /\ res.base = img.base /\ res.timestamp = img.timestamp /\ res.root = img.root
      /\ res.n_static = img.n_static /\ res.static = img.static /\ res.top = img.top
      /\ res.class_dictionary = img.class_dictionary /\ res.free = Ptr(img.base, c)
      /\ res.cell = [img.cell EXCEPT ![c] = Free(img.free)]
  BY <1>1 DEF Image
<1>6. res \in Image
  <2>1. [img.cell EXCEPT ![c] = Free(img.free)] \in [Cell -> CellRecord]
    BY <1>1, <1>4, ImageFields
  <2> QED BY <1>1, <1>3, <2>1 DEF Image, CellRecord
<1>7. /\ \A d \in Cell : d # c => res.cell[d] = img.cell[d]
      /\ res.cell[c] = Free(img.free) /\ res.cell[c].cid = 0 /\ res.cell[c].ptr = img.free
  <2>1. img.cell \in [Cell -> CellRecord]
    BY <1>1, ImageFields
  <2>2. Free(img.free).cid = 0 /\ Free(img.free).ptr = img.free
    BY DEF Free, free_object
  <2> QED BY <1>2, <1>5, <2>1, <2>2
<1>8. \A d \in 1..img.top : d \in Cell
  BY <1>1, Kinds
<1>9. FreeCells(res) = FreeCells(img) \cup {c}
  BY <1>2, <1>5, <1>7, <1>8 DEF FreeCells, free_object
<1>10. Meta(res) = Meta(img)
  BY <1>2, <1>5, <1>7, <1>8 DEF Meta, metaclass_cid
<1>11. Live(res) = Live(img) \ {c}
  BY <1>5, <1>7, <1>8 DEF Live, first_cid
<1>12. \A d \in Cell : To(res)[d] = IF d = c THEN img.free.to ELSE To(img)[d]
  <2>1. \A d \in Cell : To(img)[d] = img.cell[d].ptr.to /\ To(res)[d] = res.cell[d].ptr.to
    BY <1>1, <1>6, LinkType
  <2>2. To(res)[c] = img.free.to
    BY <1>2, <1>7, <2>1
  <2>3. \A d \in Cell : d # c => To(res)[d] = To(img)[d]
    BY <1>7, <2>1
  <2> QED BY <2>2, <2>3
<1>13. \A d \in Live(img) \cup Meta(img) \cup FreeCells(img) : d \in Cell
  BY <1>1, Kinds
<1>14. FreeInv(res)
  <2>1. PICK nx \in Link, mx \in Link, a \in {0} \cup Cell, cells \in SUBSET Cell :
          nx = To(img) /\ mx = To(res) /\ a = img.free.to /\ cells = FreeCells(img)
    BY <1>1, <1>3, <1>6, <1>13, LinkType
  <2>2. Chain(nx, a, cells) /\ mx[c] = a /\ c \notin cells
    BY <1>1, <1>2, <1>12, <2>1 DEF FreeInv
  <2>3. \A d \in cells : mx[d] = nx[d]
    BY <1>2, <1>12, <2>1
  <2>4. Chain(mx, c, cells \cup {c})
    BY <1>2, <2>2, <2>3, ChainPush
  <2> QED BY <1>3, <1>5, <1>9, <2>1, <2>4 DEF FreeInv
<1>15. DictInv(res) /\ SameClasses(img, res)
  <2>1. \A d \in Meta(img) : res.cell[d].own = img.cell[d].own /\ To(res)[d] = To(img)[d]
    BY <1>2, <1>7, <1>12, <1>13
  <2> QED BY <1>5, <1>6, <1>10, <2>1, SameDictionary
<1>16. PlaceInv(res)
  <2>1. ASSUME NEW d \in Cell PROVE res.cell[d].ptr = Ptr(res.base, res.cell[d].ptr.to)
    <3>1. CASE d = c
      BY <1>1, <1>5, <1>7, <3>1 DEF PlaceInv
    <3>2. CASE d # c
      BY <1>1, <1>5, <1>7, <3>2 DEF PlaceInv
    <3> QED BY <3>1, <3>2
  <2>2. /\ res.root = Ptr(res.base, res.root.to)
        /\ res.class_dictionary = Ptr(res.base, res.class_dictionary.to)
        /\ \A i \in 1..res.n_static : res.static[i] = Ptr(res.base, res.static[i].to)
    BY <1>1, <1>5 DEF PlaceInv
  <2>3. res.free = Ptr(res.base, res.free.to)
    BY <1>3, <1>5
  <2> QED BY <2>1, <2>2, <2>3 DEF PlaceInv
<1>17. KindInv(res)
  <2>1. \A d \in 1..res.top : d \in FreeCells(res) \cup Meta(res) \cup Live(res)
    BY <1>1, <1>5, <1>9, <1>10, <1>11 DEF KindInv
  <2>2. \A d \in Cell : d > res.top => res.cell[d] = Free(NULL)
    BY <1>1, <1>2, <1>5, <1>7, Kinds DEF KindInv
  <2>3. res.root.to \in {0} \cup Live(res)
    BY <1>1, <1>5, <1>11 DEF KindInv
  <2>4. \A i \in 1..res.n_static : res.static[i].to \in Live(res)
    BY <1>1, <1>5, <1>11 DEF KindInv
  <2>5. \A d \in Live(res) : res.cell[d].ptr.to \in {0} \cup Live(res)
    BY <1>1, <1>7, <1>11, <1>13 DEF KindInv
  <2> QED BY <2>1, <2>2, <2>3, <2>4, <2>5 DEF KindInv
<1>18. ObjectInv(res)
  <2>1. Cardinality(Live(res)) <= MaxObjects
    <3>1. /\ IsFiniteSet(Live(img)) /\ Cardinality(Live(img)) \in Nat /\ MaxObjects \in Nat
          /\ Cardinality(Live(img)) <= MaxObjects
      BY <1>1, Kinds, OpenAssumption DEF ObjectInv
    <3>2. Cardinality(Live(img) \ {c}) = Cardinality(Live(img)) - 1
      BY <3>1, FS_RemoveElement
    <3>3. PICK n : n = Cardinality(Live(img))
      OBVIOUS
    <3>4. n \in Nat /\ n <= MaxObjects /\ MaxObjects \in Nat
      BY <3>1, <3>3
    <3>5. Cardinality(Live(res)) = n - 1
      BY <1>11, <3>2, <3>3
    <3>6. n - 1 <= MaxObjects
      BY <3>4
    <3> QED BY <3>5, <3>6
  <2>2. ASSUME NEW d \in Live(res)
        PROVE  \E e \in Meta(res) :
                 res.cell[d].own = res.cell[e].own /\ res.cell[d].cid = Id(res, e)
    <3>1. d \in Live(img) /\ res.cell[d] = img.cell[d]
      BY <1>7, <1>11, <1>13
    <3>2. PICK e \in Meta(img) :
            img.cell[d].own = img.cell[e].own /\ img.cell[d].cid = Id(img, e)
      BY <1>1, <3>1 DEF ObjectInv
    <3>3. e \in Meta(res) /\ res.cell[e].own = img.cell[e].own /\ Id(res, e) = Id(img, e)
      BY <1>15 DEF SameClasses
    <3> QED BY <3>1, <3>2, <3>3
  <2> QED BY <2>1, <2>2 DEF ObjectInv
<1>19. TableInv(res)
  BY <1>1, <1>2, <1>5, <1>7, <1>10, <1>11, <1>13 DEF TableInv
<1> QED BY <1>5, <1>6, <1>14, <1>15, <1>16, <1>17, <1>18, <1>19 DEF Sound

\* Changes of the header: the root, static data, the number of classes.
LEMMA HeaderSound ==
  ASSUME NEW img, Sound(img), img.base # 0, NEW res \in Image,
         res.base = img.base, res.timestamp = img.timestamp, res.top = img.top,
         res.class_dictionary = img.class_dictionary, res.free = img.free,
         res.cell = img.cell,
         res.root = Ptr(img.base, res.root.to), res.root.to \in {0} \cup Live(img),
         \A i \in 1..res.n_static : /\ res.static[i] = Ptr(img.base, res.static[i].to)
                                    /\ res.static[i].to \in Live(img)
  PROVE  /\ Sound(res) /\ SameClasses(img, res) /\ Live(res) = Live(img)
<1>1. /\ img \in Image /\ PlaceInv(img) /\ KindInv(img) /\ FreeInv(img) /\ ObjectInv(img)
      /\ TableInv(img)
  BY DEF Sound
<1>2. /\ FreeCells(res) = FreeCells(img) /\ Meta(res) = Meta(img) /\ Live(res) = Live(img)
      /\ To(res) = To(img)
  BY DEF FreeCells, Meta, Live, To
<1>3. DictInv(res) /\ SameClasses(img, res)
  BY <1>2, SameDictionary
<1>4. PlaceInv(res)
  BY <1>1 DEF PlaceInv
<1>5. KindInv(res)
  BY <1>1, <1>2 DEF KindInv
<1>6. FreeInv(res)
  BY <1>1, <1>2 DEF FreeInv
<1>7. ObjectInv(res)
  <2>1. \A d \in Meta(img) : Id(res, d) = Id(img, d)
    BY <1>3 DEF SameClasses
  <2> QED BY <1>1, <1>2, <2>1 DEF ObjectInv
<1>8. TableInv(res)
  BY <1>1, <1>2 DEF TableInv
<1> QED BY <1>2, <1>3, <1>4, <1>5, <1>6, <1>7, <1>8 DEF Sound

----------------------------------------------------------------------------
(* The image that open() makes of the one it finds. *)

\* There is a chain of no cells.
LEMMA EmptyChain ==
  ASSUME NEW nx PROVE Chain(nx, 0, {})
BY ReachNone DEF Chain

\* A new file is sound.
LEMMA EmptySound ==
  /\ Sound(Empty) /\ Counted(Empty) /\ Meta(Empty) = {} /\ Live(Empty) = {}
  /\ FreeCells(Empty) = {}
<1>1. PICK img : img = Empty
  OBVIOUS
<1>2. /\ img.base = 0 /\ img.n_classes = 0 /\ img.timestamp = None /\ img.top = 0
      /\ img.root = NULL /\ img.class_dictionary = NULL /\ img.free = NULL
      /\ img.n_static = 0 /\ img.static = [i \in 1..maxStaticData |-> NULL]
      /\ img.cell = [c \in Cell |-> Free(NULL)]
  BY <1>1 DEF Empty
<1>3. img \in Image
  <2>1. 0 \in 0..MaxCell /\ 0 \in 0..maxStaticData
    BY Numbers, OpenAssumption
  <2>2. [i \in 1..maxStaticData |-> NULL] \in [1..maxStaticData -> Pointer]
    BY NullPointer
  <2>3. [c \in Cell |-> Free(NULL)] \in [Cell -> CellRecord]
    BY NullPointer
  <2> QED BY <1>1, <2>1, <2>2, <2>3, NullPointer DEF Empty, Image, CellRecord
<1>4. 1..img.top = {} /\ 1..img.n_static = {}
  BY <1>2
<1>5. Meta(img) = {} /\ Live(img) = {} /\ FreeCells(img) = {}
  BY <1>4 DEF Meta, Live, FreeCells
<1>6. NULL.to = 0 /\ Ptr(0, 0) = NULL /\ Free(NULL).ptr = NULL
  BY DEF NULL, Ptr, Free
<1>7. PlaceInv(img)
  <2>1. \A c \in Cell : img.cell[c].ptr = NULL
    BY <1>2, <1>6
  <2> QED BY <1>2, <1>4, <1>6, <2>1 DEF PlaceInv
<1>8. KindInv(img)
  BY <1>2, <1>4, <1>5, <1>6 DEF KindInv
<1>9. FreeInv(img) /\ DictInv(img)
  BY <1>2, <1>5, <1>6, EmptyChain DEF FreeInv, DictInv
<1>10. Cardinality({}) = 0
  BY FS_EmptySet
<1>11. ObjectInv(img) /\ TableInv(img) /\ Counted(img)
  BY <1>2, <1>5, <1>10, OpenAssumption DEF ObjectInv, TableInv, Counted
<1> QED BY <1>1, <1>3, <1>5, <1>7, <1>8, <1>9, <1>11 DEF Sound

\* A reference that moves with the file.
LEMMA ShiftPtr ==
  ASSUME NEW a \in Base, NEW b \in Base, NEW c \in {0} \cup Cell
  PROVE  /\ Shift(Ptr(a, c), b - a) = Ptr(b, c)
         /\ c # 0 => [Ptr(a, c) EXCEPT !.at = @ + (b - a)] = Ptr(b, c)
<1>1. a \in Nat /\ b \in Nat /\ c \in Nat /\ (a + c = 0 => c = 0)
  BY OpenAssumption, Numbers
<1>2. a + c + (b - a) = b + c
  BY <1>1
<1> QED BY <1>1, <1>2 DEF Shift, Ptr, NULL

\* What open() makes of an image: the kept cells are those of before, at the
\* new address, the others are free.
Renews(img, b, p, kept, res) ==
  /\ kept \subseteq Live(img) \cup Meta(img) /\ Meta(img) \subseteq kept
  /\ img.root.to \in {0} \cup kept
  /\ \A i \in 1..img.n_static : img.static[i].to \in kept
  /\ \A c \in kept : img.cell[c].ptr.to \in {0} \cup kept
  /\ res \in Image /\ res.base = b /\ res.top = img.top
  /\ res.n_classes = img.n_classes /\ (virt => res.timestamp = p)
  /\ res.root = Ptr(b, img.root.to)
  /\ res.class_dictionary = Ptr(b, img.class_dictionary.to)
  /\ res.free = Ptr(b, res.free.to)
  /\ res.n_static = img.n_static
  /\ \A i \in 1..img.n_static : res.static[i] = Ptr(b, img.static[i].to)
  /\ \A c \in kept : /\ res.cell[c].cid = img.cell[c].cid
                     /\ res.cell[c].own = img.cell[c].own
                     /\ res.cell[c].ptr = Ptr(b, img.cell[c].ptr.to)
                     /\ virt => res.cell[c].vt = p
  /\ \A c \in (1..img.top) \ kept : /\ res.cell[c].cid = free_object
                                    /\ res.cell[c].ptr = Ptr(b, res.cell[c].ptr.to)
  /\ \A c \in Cell : c > img.top => res.cell[c] = Free(NULL)
  /\ Chain(To(res), res.free.to, (1..img.top) \ kept)

\* An image that open() has renewed is sound and keeps its ids.
LEMMA RenewSound ==
  ASSUME NEW img, Sound(img), NEW b \in Base, NEW p \in Program, NEW kept, NEW res,
         Renews(img, b, p, kept, res)
  PROVE  Sound(res) /\ SameClasses(img, res)
<1>1. img \in Image /\ res \in Image /\ KindInv(img) /\ ObjectInv(img)
  BY DEF Sound, Renews
<1>2. /\ 1..img.top \in SUBSET Cell /\ img.top \in Nat /\ kept \subseteq 1..img.top
      /\ IsFiniteSet(Live(img)) /\ Cardinality(Live(img)) \in Nat
      /\ Meta(img) \cap Live(img) = {}
  BY <1>1, Kinds DEF Renews
<1>3. \A c \in 1..img.top : c \in kept \/ res.cell[c].cid = free_object
  BY DEF Renews
<1>4. res.top = img.top /\ \A c \in kept : res.cell[c].cid = img.cell[c].cid
  BY DEF Renews
<1>5. \A c \in kept : img.cell[c].cid = metaclass_cid \/ img.cell[c].cid >= first_cid
  BY DEF Renews, Live, Meta
<1>6. FreeCells(res) = (1..img.top) \ kept
  BY <1>2, <1>3, <1>4, <1>5 DEF FreeCells, free_object, metaclass_cid, first_cid
<1>7. Meta(res) = Meta(img)
  <2>1. Meta(res) \subseteq Meta(img)
    BY <1>3, <1>4 DEF Meta, metaclass_cid, free_object
  <2>2. Meta(img) \subseteq Meta(res)
    BY <1>4 DEF Meta, Renews
  <2> QED BY <2>1, <2>2
<1>8. Live(res) = kept \cap Live(img)
  <2>1. Live(res) \subseteq kept \cap Live(img)
    BY <1>3, <1>4 DEF Live, first_cid, free_object
  <2>2. kept \cap Live(img) \subseteq Live(res)
    BY <1>4 DEF Live
  <2> QED BY <2>1, <2>2
<1>9. FreeInv(res)
  BY <1>6 DEF FreeInv, Renews
<1>10. ASSUME NEW c \in {0} \cup Cell
       PROVE  Ptr(b, c).to = c /\ Ptr(b, c) = Ptr(b, Ptr(b, c).to)
  BY PointerAt
<1>11. /\ \A c \in Cell : img.cell[c].ptr.to \in {0} \cup Cell
       /\ img.root.to \in {0} \cup Cell /\ img.class_dictionary.to \in {0} \cup Cell
       /\ \A i \in 1..img.n_static : img.static[i].to \in {0} \cup Cell
  <2>1. 1..img.n_static \subseteq 1..maxStaticData
    <3>1. img.n_static \in 0..maxStaticData /\ maxStaticData \in Nat
      BY <1>1, ImageFields, OpenAssumption
    <3> QED BY <3>1
  <2> QED BY <1>1, <2>1, ImageFields DEF CellRecord, Pointer
<1>12. /\ res.root.to = img.root.to /\ res.class_dictionary.to = img.class_dictionary.to
       /\ \A i \in 1..img.n_static : res.static[i].to = img.static[i].to
       /\ \A c \in kept : res.cell[c].ptr.to = img.cell[c].ptr.to
  <2>1. /\ res.root = Ptr(b, img.root.to)
        /\ res.class_dictionary = Ptr(b, img.class_dictionary.to)
        /\ \A i \in 1..img.n_static : res.static[i] = Ptr(b, img.static[i].to)
        /\ \A c \in kept : res.cell[c].ptr = Ptr(b, img.cell[c].ptr.to)
    BY DEF Renews
  <2> QED BY <1>2, <1>10, <1>11, <2>1
<1>13. DictInv(res) /\ SameClasses(img, res)
  <2>1. \A d \in Meta(img) : d \in Cell /\ d \in kept /\ res.cell[d].own = img.cell[d].own
    BY <1>2 DEF Renews
  <2>2. \A d \in Meta(img) : To(res)[d] = To(img)[d]
    <3>1. \A d \in Cell : To(img)[d] = img.cell[d].ptr.to /\ To(res)[d] = res.cell[d].ptr.to
      BY <1>1, LinkType
    <3> QED BY <1>12, <2>1, <3>1
  <2> QED BY <1>1, <1>7, <1>12, <2>1, <2>2, SameDictionary
<1>14. PlaceInv(res)
  <2>1. res.base = b /\ res.n_static = img.n_static
    BY DEF Renews
  <2>2. ASSUME NEW c \in Cell PROVE res.cell[c].ptr = Ptr(b, res.cell[c].ptr.to)
    <3>1. CASE c \in kept
      <4>1. res.cell[c].ptr = Ptr(b, img.cell[c].ptr.to)
        BY <3>1 DEF Renews
      <4> QED BY <1>12, <3>1, <4>1
    <3>2. CASE c \in (1..img.top) \ kept
      BY <3>2 DEF Renews
    <3>3. CASE c > img.top
      <4>1. res.cell[c] = Free(NULL)
        BY <3>3 DEF Renews
      <4>2. Free(NULL).ptr = NULL /\ Ptr(b, NULL.to) = NULL
        BY DEF Free, NULL, Ptr
      <4> QED BY <4>1, <4>2
    <3>4. c \in Nat /\ c # 0
      BY Numbers
    <3> QED BY <1>2, <3>1, <3>2, <3>3, <3>4
  <2>3. /\ res.root = Ptr(b, res.root.to) /\ res.free = Ptr(b, res.free.to)
        /\ res.class_dictionary = Ptr(b, res.class_dictionary.to)
        /\ \A i \in 1..img.n_static : res.static[i] = Ptr(b, res.static[i].to)
    BY <1>12 DEF Renews
  <2> QED BY <2>1, <2>2, <2>3 DEF PlaceInv
<1>15. KindInv(res)
  <2>1. \A c \in 1..res.top : c \in FreeCells(res) \cup Meta(res) \cup Live(res)
    BY <1>4, <1>6, <1>7, <1>8 DEF Renews
  <2>2. \A c \in Cell : c > res.top => res.cell[c] = Free(NULL)
    BY DEF Renews
  <2>3. res.root.to \in {0} \cup Live(res)
    BY <1>1, <1>8, <1>12 DEF Renews, KindInv
  <2>4. \A i \in 1..res.n_static : res.static[i].to \in Live(res)
    BY <1>1, <1>8, <1>12 DEF Renews, KindInv
  <2>5. \A c \in Live(res) : res.cell[c].ptr.to \in {0} \cup Live(res)
    BY <1>1, <1>8, <1>12 DEF Renews, KindInv
  <2> QED BY <2>1, <2>2, <2>3, <2>4, <2>5 DEF KindInv
<1>16. ObjectInv(res)
  <2>1. Cardinality(Live(res)) <= MaxObjects
    <3>1. Live(res) \subseteq Live(img)
      BY <1>8
    <3>2. Cardinality(Live(res)) <= Cardinality(Live(img)) /\ Cardinality(Live(res)) \in Nat
      BY <1>2, <3>1, FS_Subset, FS_CardinalityType
    <3> QED BY <1>1, <1>2, <3>2, OpenAssumption DEF ObjectInv
  <2>2. ASSUME NEW d \in Live(res)
        PROVE  \E e \in Meta(res) :
                 res.cell[d].own = res.cell[e].own /\ res.cell[d].cid = Id(res, e)
    <3>1. d \in Live(img) /\ res.cell[d].own = img.cell[d].own /\ res.cell[d].cid = img.cell[d].cid
      BY <1>8 DEF Renews
    <3>2. PICK e \in Meta(img) :
            img.cell[d].own = img.cell[e].own /\ img.cell[d].cid = Id(img, e)
      BY <1>1, <3>1 DEF ObjectInv
    <3>3. e \in Meta(res) /\ res.cell[e].own = img.cell[e].own /\ Id(res, e) = Id(img, e)
      BY <1>13 DEF SameClasses
    <3> QED BY <3>1, <3>2, <3>3
  <2> QED BY <2>1, <2>2 DEF ObjectInv
<1>17. TableInv(res)
  BY <1>7, <1>8 DEF TableInv, Renews
<1>18. res.base # 0
  <2>1. b \in Nat /\ b > MaxCell /\ MaxCell \in Nat
    BY OpenAssumption, Numbers
  <2> QED BY <2>1 DEF Renews
<1> QED BY <1>1, <1>9, <1>13, <1>14, <1>15, <1>16, <1>17, <1>18 DEF Sound

\* The header at the new address.
LEMMA HeaderMoved ==
  ASSUME NEW img, Sound(img), img.base # 0, NEW b \in Base, NEW top,
         top = HeaderAdjusted(img, b - img.base)
  PROVE  /\ top \in Image /\ top.cell = img.cell /\ top.top = img.top
         /\ top.n_classes = img.n_classes /\ top.n_static = img.n_static
         /\ top.root = Ptr(b, img.root.to) /\ top.free = Ptr(b, img.free.to)
         /\ top.class_dictionary = Ptr(b, img.class_dictionary.to)
         /\ \A i \in 1..img.n_static : top.static[i] = Ptr(b, img.static[i].to)
<1>1. img \in Image /\ PlaceInv(img) /\ KindInv(img)
  BY DEF Sound
<1>2. PICK a \in Base : a = img.base
  BY <1>1, ImageFields
<1>3. /\ img.root.to \in {0} \cup Cell /\ img.free.to \in {0} \cup Cell
      /\ img.class_dictionary.to \in {0} \cup Cell
  BY <1>1, ImageFields DEF Pointer
<1>4. /\ img.root = Ptr(a, img.root.to) /\ img.free = Ptr(a, img.free.to)
      /\ img.class_dictionary = Ptr(a, img.class_dictionary.to)
  BY <1>1, <1>2 DEF PlaceInv
<1>5. ASSUME NEW q, q.to \in {0} \cup Cell, q = Ptr(a, q.to)
      PROVE  Shift(q, b - a) = Ptr(b, q.to)
  <2>1. PICK c \in {0} \cup Cell : c = q.to
    BY <1>5
  <2>2. q = Ptr(a, c)
    BY <1>5, <2>1
  <2> QED BY <2>1, <2>2, ShiftPtr
<1>6. /\ Shift(img.root, b - a) = Ptr(b, img.root.to)
      /\ Shift(img.free, b - a) = Ptr(b, img.free.to)
      /\ Shift(img.class_dictionary, b - a) = Ptr(b, img.class_dictionary.to)
  BY <1>3, <1>4, <1>5
<1>7. PICK st : st = StaticAdjusted(img, b - a)
  OBVIOUS
<1>8. /\ 1..img.n_static \subseteq 1..maxStaticData /\ img.n_static \in Nat
      /\ img.static \in [1..maxStaticData -> Pointer]
  <2>1. img.n_static \in 0..maxStaticData /\ maxStaticData \in Nat
    BY <1>1, ImageFields, OpenAssumption
  <2> QED BY <1>1, <2>1, ImageFields
<1>9. ASSUME NEW i \in 1..img.n_static PROVE st[i] = Ptr(b, img.static[i].to)
  <2>1. PICK c \in Cell : c = img.static[i].to
    <3>1. img.static[i].to \in Live(img)
      BY <1>1 DEF KindInv
    <3> QED BY <1>1, <3>1, Kinds
  <2>2. img.static[i] = Ptr(a, c)
    BY <1>1, <1>2, <2>1 DEF PlaceInv
  <2>3. st[i] = [img.static[i] EXCEPT !.at = @ + (b - a)]
    <3>1. i <= img.n_static /\ i \in 1..maxStaticData
      BY <1>8
    <3>2. st = [j \in DOMAIN img.static |->
                  IF j <= img.n_static THEN [img.static[j] EXCEPT !.at = @ + (b - a)]
                  ELSE img.static[j]]
      BY <1>7 DEF StaticAdjusted
    <3>3. DOMAIN img.static = 1..maxStaticData
      BY <1>8
    <3> QED BY <3>1, <3>2, <3>3
  <2>4. c # 0 /\ [Ptr(a, c) EXCEPT !.at = @ + (b - a)] = Ptr(b, c)
    BY Numbers, ShiftPtr
  <2> QED BY <2>1, <2>2, <2>3, <2>4
<1>10. st \in [1..maxStaticData -> Pointer]
  <2>1. DOMAIN st = 1..maxStaticData /\ st = [i \in 1..maxStaticData |-> st[i]]
    BY <1>7, <1>8 DEF StaticAdjusted
  <2>2. ASSUME NEW i \in 1..maxStaticData PROVE st[i] \in Pointer
    <3>1. CASE i \in 1..img.n_static
      <4>1. img.static[i].to \in {0} \cup Cell
        BY <1>8 DEF Pointer
      <4>2. Ptr(b, img.static[i].to) \in Pointer
        BY <4>1, PointerAt
      <4> QED BY <1>9, <3>1, <4>2
    <3>2. CASE i \notin 1..img.n_static
      <4>1. ~(i <= img.n_static)
        BY <1>8, <3>2
      <4>2. st[i] = img.static[i]
        BY <1>7, <1>8, <4>1 DEF StaticAdjusted
      <4> QED BY <1>8, <4>2
    <3> QED BY <3>1, <3>2
  <2> QED BY <2>1, <2>2
<1>11. top = [img EXCEPT !.root = Ptr(b, img.root.to), !.free = Ptr(b, img.free.to),
                         !.class_dictionary = Ptr(b, img.class_dictionary.to),
                         !.static = st]
  BY <1>1, <1>2, <1>6, <1>7 DEF HeaderAdjusted, Image
<1>12. /\ Ptr(b, img.root.to) \in Pointer /\ Ptr(b, img.free.to) \in Pointer
       /\ Ptr(b, img.class_dictionary.to) \in Pointer
  BY <1>3, PointerAt
<1>13. top \in Image /\ top.static = st /\ top.cell = img.cell /\ top.top = img.top
         /\ top.n_classes = img.n_classes /\ top.n_static = img.n_static
         /\ top.root = Ptr(b, img.root.to) /\ top.free = Ptr(b, img.free.to)
         /\ top.class_dictionary = Ptr(b, img.class_dictionary.to)
  BY <1>1, <1>10, <1>11, <1>12 DEF Image
<1> QED BY <1>9, <1>13

\* The references in the cells.
LEMMA CellShift ==
  ASSUME NEW img, Sound(img), img.base # 0, NEW b \in Base, NEW c \in Cell
  PROVE  /\ img.cell[c] \in CellRecord /\ img.cell[c].ptr.to \in {0} \cup Cell
         /\ Shift(img.cell[c].ptr, b - img.base) = Ptr(b, img.cell[c].ptr.to)
         /\ Ptr(b, img.cell[c].ptr.to) \in Pointer
         /\ Ptr(b, img.cell[c].ptr.to).to = img.cell[c].ptr.to
         /\ Target(b, Ptr(b, img.cell[c].ptr.to)) = img.cell[c].ptr.to
<1>1. img \in Image /\ PlaceInv(img)
  BY DEF Sound
<1>2. img.cell[c] \in CellRecord /\ img.cell[c].ptr.to \in {0} \cup Cell
  BY <1>1, ImageFields DEF CellRecord, Pointer
<1>3. PICK d \in {0} \cup Cell, a \in Base : d = img.cell[c].ptr.to /\ a = img.base
  BY <1>1, <1>2, ImageFields
<1>4. img.cell[c].ptr = Ptr(a, d)
  BY <1>1, <1>3 DEF PlaceInv
<1>5. Shift(Ptr(a, d), b - a) = Ptr(b, d)
  BY ShiftPtr
<1>6. Ptr(b, d) \in Pointer /\ Ptr(b, d).to = d /\ Target(b, Ptr(b, d)) = d
  BY PointerAt
<1> QED BY <1>2, <1>3, <1>4, <1>5, <1>6

\* A constructed object refers to the same cell, at the new address, and has
\* the virtual table of the program.
LEMMA ConstructedCell ==
  ASSUME NEW img, Sound(img), img.base # 0, NEW b \in Base, NEW p \in Program,
         NEW c \in Cell, NEW y, y = Constructed(img.cell[c], b - img.base, p)
  PROVE  /\ y \in CellRecord /\ y.cid = img.cell[c].cid /\ y.own = img.cell[c].own
         /\ y.ptr = Ptr(b, img.cell[c].ptr.to)
         /\ virt => y.vt = p
<1>1. /\ img.cell[c] \in CellRecord
      /\ Shift(img.cell[c].ptr, b - img.base) = Ptr(b, img.cell[c].ptr.to)
      /\ Ptr(b, img.cell[c].ptr.to) \in Pointer
  BY CellShift
<1>2. PICK x, q : x = img.cell[c] /\ q = Ptr(b, img.cell[c].ptr.to)
  OBVIOUS
<1>3. y = [x EXCEPT !.ptr = q, !.vt = IF virt THEN p ELSE None]
  BY <1>1, <1>2 DEF Constructed, CellRecord
<1>4. x \in CellRecord /\ q \in Pointer
  BY <1>1, <1>2
<1>5. /\ y \in CellRecord /\ y.cid = x.cid /\ y.own = x.own /\ y.ptr = q
      /\ virt => y.vt = p
  BY <1>3, <1>4 DEF CellRecord
<1> QED BY <1>2, <1>5

\* Objects and classes refer to objects and classes.
LEMMA ObjectLinks ==
  ASSUME NEW img, Sound(img)
  PROVE  \A c \in Live(img) \cup Meta(img) :
           img.cell[c].ptr.to \in {0} \cup (Live(img) \cup Meta(img))
<1>1. img \in Image /\ KindInv(img) /\ DictInv(img)
  BY DEF Sound
<1>2. \A c \in Live(img) : img.cell[c].ptr.to \in {0} \cup Live(img)
  BY <1>1 DEF KindInv
<1>3. ASSUME NEW c \in Meta(img) PROVE img.cell[c].ptr.to \in {0} \cup Meta(img)
  <2>1. PICK nx \in Link, a \in {0} \cup Cell, cells \in {Meta(img)} :
          nx = To(img) /\ a = img.class_dictionary.to
    BY <1>1, LinkType, ImageFields DEF Pointer
  <2>2. Chain(nx, a, cells)
    BY <1>1, <2>1 DEF DictInv
  <2>3. \A d \in cells : nx[d] \in cells \cup {0}
    BY <2>2, ChainWithin
  <2>4. To(img)[c] = img.cell[c].ptr.to
    BY <1>1, Kinds, LinkType
  <2> QED BY <2>1, <2>3, <2>4
<1> QED BY <1>2, <1>3

\* adjust_references(): all objects are kept.
LEMMA AdjustRenews ==
  ASSUME NEW img, Sound(img), img.base # 0, NEW b \in Base, NEW p \in Program,
         NEW s \in Program \cup {None}, virt => s = p, NEW res,
         res = [CellsAdjusted(HeaderAdjusted(img, b - img.base), b - img.base, p)
                  EXCEPT !.base = b, !.timestamp = s]
  PROVE  Renews(img, b, p, Live(img) \cup Meta(img), res)
<1>1. img \in Image /\ KindInv(img) /\ FreeInv(img) /\ DictInv(img)
  BY DEF Sound
<1>2. PICK top : top = HeaderAdjusted(img, b - img.base)
  OBVIOUS
<1>3. /\ top \in Image /\ top.cell = img.cell /\ top.top = img.top
      /\ top.n_classes = img.n_classes /\ top.n_static = img.n_static
      /\ top.root = Ptr(b, img.root.to) /\ top.free = Ptr(b, img.free.to)
      /\ top.class_dictionary = Ptr(b, img.class_dictionary.to)
      /\ \A i \in 1..img.n_static : top.static[i] = Ptr(b, img.static[i].to)
  BY <1>2, HeaderMoved
<1> DEFINE cells == [c \in Cell |->
                       IF c > top.top THEN top.cell[c]
                       ELSE IF top.cell[c].cid = free_object
                         THEN Relinked(top.cell[c], b - img.base)
                         ELSE Constructed(top.cell[c], b - img.base, p)]
<1>4. CellsAdjusted(top, b - img.base, p) = [top EXCEPT !.cell = cells]
  BY DEF CellsAdjusted
<1>5. \A c \in Cell :
        cells[c] = IF c > img.top THEN img.cell[c]
                   ELSE IF img.cell[c].cid = free_object
                     THEN Relinked(img.cell[c], b - img.base)
                     ELSE Constructed(img.cell[c], b - img.base, p)
  BY <1>3
<1> HIDE DEF cells
<1>6. /\ 1..img.top \in SUBSET Cell /\ img.top \in Nat
      /\ Live(img) \subseteq 1..img.top /\ Meta(img) \subseteq 1..img.top
      /\ FreeCells(img) \subseteq 1..img.top
      /\ FreeCells(img) \cap Live(img) = {} /\ FreeCells(img) \cap Meta(img) = {}
      /\ \A c \in Cell : c \in Nat /\ c # 0
      /\ \A c \in Cell : c > img.top \/ c \in 1..img.top
  BY <1>1, Kinds, Numbers DEF Cell
<1>7. ASSUME NEW c \in FreeCells(img)
      PROVE  /\ cells[c] \in CellRecord /\ cells[c].cid = free_object
             /\ cells[c].ptr = Ptr(b, img.cell[c].ptr.to)
  <2>1. c \in Cell /\ ~(c > img.top) /\ img.cell[c].cid = free_object
    BY <1>6 DEF FreeCells
  <2>2. cells[c] = Relinked(img.cell[c], b - img.base)
    BY <1>5, <2>1
  <2>3. /\ img.cell[c] \in CellRecord
        /\ Shift(img.cell[c].ptr, b - img.base) = Ptr(b, img.cell[c].ptr.to)
        /\ Ptr(b, img.cell[c].ptr.to) \in Pointer
    BY <2>1, CellShift
  <2>4. cells[c] = [img.cell[c] EXCEPT !.ptr = Ptr(b, img.cell[c].ptr.to)]
    BY <2>2, <2>3 DEF CellRecord, Relinked
  <2> QED BY <2>1, <2>3, <2>4 DEF CellRecord
<1>8. ASSUME NEW c \in Live(img) \cup Meta(img)
      PROVE  /\ cells[c] \in CellRecord /\ cells[c].cid = img.cell[c].cid
             /\ cells[c].own = img.cell[c].own
             /\ cells[c].ptr = Ptr(b, img.cell[c].ptr.to)
             /\ virt => cells[c].vt = p
  <2>1. c \in Cell /\ ~(c > img.top) /\ c \notin FreeCells(img) /\ c \in 1..img.top
    BY <1>6
  <2>2. img.cell[c].cid # free_object
    BY <2>1 DEF FreeCells
  <2>3. cells[c] = Constructed(img.cell[c], b - img.base, p)
    BY <1>5, <2>1, <2>2
  <2> QED BY <2>1, <2>3, ConstructedCell
<1>9. ASSUME NEW c \in Cell, c > img.top
      PROVE  cells[c] \in CellRecord /\ cells[c] = Free(NULL)
  <2>1. cells[c] = img.cell[c]
    BY <1>5, <1>9
  <2> QED BY <1>1, <1>9, <2>1, NullPointer DEF KindInv
<1>10. 1..img.top = FreeCells(img) \cup Meta(img) \cup Live(img)
  BY <1>1, <1>6 DEF KindInv
<1>11. cells \in [Cell -> CellRecord]
  <2>1. \A c \in Cell : cells[c] \in CellRecord
    BY <1>6, <1>7, <1>8, <1>9, <1>10
  <2> QED BY <2>1 DEF cells
<1>12. PICK fr : fr = Ptr(b, img.free.to)
  OBVIOUS
<1>13. /\ img.free.to \in {0} \cup Cell /\ Ptr(b, img.free.to) \in Pointer
       /\ Ptr(b, img.free.to).to = img.free.to
  <2>1. img.free.to \in {0} \cup Cell
    BY <1>1, ImageFields DEF Pointer
  <2> QED BY <2>1, PointerAt
<1>14. /\ res \in Image /\ res.base = b /\ res.timestamp = s
       /\ res.free = Ptr(b, img.free.to)
       /\ res.cell = cells /\ res.top = top.top /\ res.n_classes = top.n_classes
       /\ res.root = top.root /\ res.class_dictionary = top.class_dictionary
       /\ res.n_static = top.n_static /\ res.static = top.static
  <2>1. fr \in Pointer /\ top \in Image /\ top.free = fr
    BY <1>3, <1>12, <1>13
  <2>4. res = [[top EXCEPT !.cell = cells] EXCEPT !.base = b, !.timestamp = s]
    BY <1>2, <1>4
  <2>5. res = [top EXCEPT !.free = fr, !.cell = cells, !.base = b, !.timestamp = s]
    BY <2>1, <2>4 DEF Image
  <2>2. /\ res \in Image /\ res.base = b /\ res.timestamp = s /\ res.free = fr
        /\ res.cell = cells /\ res.top = top.top /\ res.n_classes = top.n_classes
        /\ res.root = top.root /\ res.class_dictionary = top.class_dictionary
        /\ res.n_static = top.n_static /\ res.static = top.static
    BY <1>11, <2>1, <2>5 DEF Image, CellRecord
  <2> QED BY <1>12, <2>2
<1>15. (1..img.top) \ (Live(img) \cup Meta(img)) = FreeCells(img)
  BY <1>6, <1>10
<1>16. \A c \in FreeCells(img) :
         /\ To(res)[c] = To(img)[c] /\ res.cell[c].ptr = Ptr(b, res.cell[c].ptr.to)
  <2>1. \A c \in Cell : To(img)[c] = img.cell[c].ptr.to /\ To(res)[c] = res.cell[c].ptr.to
    BY <1>1, <1>14, LinkType
  <2>2. \A c \in Cell : Ptr(b, img.cell[c].ptr.to).to = img.cell[c].ptr.to
    BY CellShift
  <2>3. \A c \in FreeCells(img) : res.cell[c].ptr = Ptr(b, img.cell[c].ptr.to) /\ c \in Cell
    BY <1>6, <1>7, <1>14
  <2> QED BY <2>1, <2>2, <2>3
<1>17. Chain(To(res), res.free.to, FreeCells(img))
  <2>1. PICK nx \in Link, mx \in Link, a \in {0} \cup Cell, frees \in {FreeCells(img)} :
          nx = To(img) /\ mx = To(res) /\ a = img.free.to
    BY <1>1, <1>13, <1>14, LinkType
  <2>2. Chain(nx, a, frees) /\ \A c \in frees : mx[c] = nx[c]
    BY <1>1, <1>16, <2>1 DEF FreeInv
  <2>3. Chain(mx, a, frees)
    BY <2>2, ChainAgree
  <2> QED BY <1>13, <1>14, <2>1, <2>3
<1>18. \A c \in Live(img) \cup Meta(img) :
         img.cell[c].ptr.to \in {0} \cup (Live(img) \cup Meta(img))
  BY ObjectLinks
<1>19. /\ img.root.to \in {0} \cup Live(img)
       /\ \A i \in 1..img.n_static : img.static[i].to \in Live(img)
  BY <1>1 DEF KindInv
<1>20. PICK kept : kept = Live(img) \cup Meta(img)
  OBVIOUS
<1>21. /\ img.root.to \in {0} \cup kept
       /\ \A i \in 1..img.n_static : img.static[i].to \in kept
       /\ \A c \in kept : img.cell[c].ptr.to \in {0} \cup kept
       /\ kept \subseteq Live(img) \cup Meta(img) /\ Meta(img) \subseteq kept
  BY <1>18, <1>19, <1>20
<1>22. /\ \A c \in kept : /\ res.cell[c].cid = img.cell[c].cid
                          /\ res.cell[c].own = img.cell[c].own
                          /\ res.cell[c].ptr = Ptr(b, img.cell[c].ptr.to)
                          /\ virt => res.cell[c].vt = p
       /\ \A c \in Cell : c > img.top => res.cell[c] = Free(NULL)
  BY <1>8, <1>9, <1>14, <1>20
<1>23. \A c \in (1..img.top) \ kept : /\ res.cell[c].cid = free_object
                                      /\ res.cell[c].ptr = Ptr(b, res.cell[c].ptr.to)
  BY <1>7, <1>14, <1>15, <1>16, <1>20
<1>24. Chain(To(res), res.free.to, (1..img.top) \ kept)
  BY <1>15, <1>17, <1>20
<1>25. /\ res \in Image /\ res.base = b /\ res.top = img.top
       /\ res.n_classes = img.n_classes /\ (virt => res.timestamp = p)
       /\ res.root = Ptr(b, img.root.to)
       /\ res.class_dictionary = Ptr(b, img.class_dictionary.to)
       /\ res.free = Ptr(b, res.free.to)
       /\ res.n_static = img.n_static
       /\ \A i \in 1..img.n_static : res.static[i] = Ptr(b, img.static[i].to)
  BY <1>3, <1>13, <1>14
<1>26. Renews(img, b, p, kept, res)
  BY <1>21, <1>22, <1>23, <1>24, <1>25 DEF Renews
<1> QED BY <1>20, <1>26

\* Collection at open: what the header leads to is kept, all classes with it.
LEMMA ReachedFacts ==
  ASSUME NEW img, Sound(img), img.base # 0, NEW b \in Base, NEW top, NEW kept,
         top = HeaderAdjusted(img, b - img.base), kept = Reached(top, b, b - img.base)
  PROVE  /\ kept \subseteq Live(img) \cup Meta(img) /\ Meta(img) \subseteq kept
         /\ img.root.to \in {0} \cup kept
         /\ \A i \in 1..img.n_static : img.static[i].to \in kept
         /\ \A c \in kept : img.cell[c].ptr.to \in {0} \cup kept
<1>1. img \in Image /\ KindInv(img) /\ DictInv(img)
  BY DEF Sound
<1>2. /\ top.cell = img.cell /\ top.n_static = img.n_static
      /\ top.root = Ptr(b, img.root.to)
      /\ top.class_dictionary = Ptr(b, img.class_dictionary.to)
      /\ \A i \in 1..img.n_static : top.static[i] = Ptr(b, img.static[i].to)
  BY HeaderMoved
<1>3. PICK nx, roots :
        /\ nx = [c \in Cell |-> Target(b, Shift(top.cell[c].ptr, b - img.base))]
        /\ roots = {Target(b, top.root), Target(b, top.class_dictionary)}
                      \cup {Target(b, top.static[i]) : i \in 1..top.n_static}
  OBVIOUS
<1>4. kept = Reach(nx, roots)
  BY <1>3 DEF Reached
<1>5. nx = To(img)
  <2>1. \A c \in Cell : Target(b, Shift(img.cell[c].ptr, b - img.base)) = img.cell[c].ptr.to
    BY CellShift
  <2> QED BY <1>2, <1>3, <2>1 DEF To
<1>6. \A c \in {0} \cup Cell : Target(b, Ptr(b, c)) = c
  BY PointerAt
<1>7. /\ img.root.to \in {0} \cup Live(img)
      /\ \A i \in 1..img.n_static : img.static[i].to \in Live(img)
  BY <1>1 DEF KindInv
<1>8. /\ Live(img) \subseteq Cell /\ Meta(img) \subseteq Cell /\ 0 \notin Cell
      /\ img.class_dictionary.to \in {0} \cup Cell
  BY <1>1, Kinds, Numbers, ImageFields DEF Pointer
<1>9. /\ Target(b, top.root) = img.root.to
      /\ Target(b, top.class_dictionary) = img.class_dictionary.to
      /\ \A i \in 1..img.n_static : Target(b, top.static[i]) = img.static[i].to
  BY <1>2, <1>6, <1>7, <1>8
<1>10. /\ roots = {img.root.to, img.class_dictionary.to}
                    \cup {img.static[i].to : i \in 1..img.n_static}
  <2>1. \A x : x \in roots <=> \/ x = img.root.to \/ x = img.class_dictionary.to
                               \/ \E i \in 1..img.n_static : x = img.static[i].to
    BY <1>2, <1>3, <1>9
  <2> QED BY <2>1
<1>11. nx \in Link /\ Chain(nx, img.class_dictionary.to, Meta(img))
  BY <1>1, <1>5, LinkType DEF DictInv
<1>12. img.class_dictionary.to \in Meta(img) \cup {0} /\ Reach(nx, {img.class_dictionary.to}) = Meta(img)
  BY <1>8, <1>11, ChainWithin DEF Chain
<1>13. roots \in SUBSET ({0} \cup Cell) /\ roots \subseteq (Live(img) \cup Meta(img)) \cup {0}
  BY <1>7, <1>8, <1>10, <1>12
<1>14. /\ kept \in SUBSET Cell /\ roots \subseteq kept \cup {0}
       /\ \A c \in kept : nx[c] \in kept \cup {0}
  BY <1>4, <1>11, <1>13, ReachFacts
<1>15. kept \subseteq Live(img) \cup Meta(img)
  <2>1. PICK S : S = Live(img) \cup Meta(img)
    OBVIOUS
  <2>2. \A c \in S : img.cell[c].ptr.to \in {0} \cup S
    BY <2>1, ObjectLinks
  <2>3. \A c \in Cell : nx[c] = img.cell[c].ptr.to
    BY <1>1, <1>5, LinkType
  <2>4. S \in SUBSET Cell /\ roots \subseteq S \cup {0} /\ \A c \in S : nx[c] \in S \cup {0}
    BY <1>8, <1>13, <2>1, <2>2, <2>3
  <2>5. Reach(nx, roots) \subseteq S
    BY <2>4, ReachWithin
  <2> QED BY <1>4, <2>1, <2>5
<1>16. Meta(img) \subseteq kept
  <2>1. PICK a : a = {img.class_dictionary.to}
    OBVIOUS
  <2>2. a \in SUBSET ({0} \cup Cell) /\ a \subseteq Reach(nx, roots) \cup {0}
    BY <1>4, <1>8, <1>10, <1>14, <2>1
  <2>3. Reach(nx, a) \subseteq Reach(nx, roots)
    BY <1>11, <1>13, <2>2, ReachSub
  <2> QED BY <1>4, <1>12, <2>1, <2>3
<1>17. img.root.to \in {0} \cup kept /\ \A i \in 1..img.n_static : img.static[i].to \in kept
  <2>1. \A i \in 1..img.n_static : img.static[i].to # 0
    BY <1>7, <1>8
  <2> QED BY <1>10, <1>14, <2>1
<1>18. \A c \in kept : img.cell[c].ptr.to \in {0} \cup kept
  <2>1. \A c \in kept : nx[c] = img.cell[c].ptr.to
    BY <1>1, <1>5, <1>14, LinkType
  <2> QED BY <1>14, <2>1
<1> QED BY <1>15, <1>16, <1>17, <1>18

\* Collection at open renews the image.
LEMMA CollectRenews ==
  ASSUME NEW img, Sound(img), img.base # 0, NEW b \in Base, NEW p \in Program,
         NEW s \in Program \cup {None}, virt => s = p, NEW top, NEW kept, NEW res,
         top = HeaderAdjusted(img, b - img.base), kept = Reached(top, b, b - img.base),
         res = [Collected(top, b, b - img.base, p) EXCEPT !.base = b, !.timestamp = s]
  PROVE  Renews(img, b, p, kept, res)
<1>1. img \in Image /\ KindInv(img)
  BY DEF Sound
<1>2. /\ top \in Image /\ top.cell = img.cell /\ top.top = img.top
      /\ top.n_classes = img.n_classes /\ top.n_static = img.n_static
      /\ top.root = Ptr(b, img.root.to)
      /\ top.class_dictionary = Ptr(b, img.class_dictionary.to)
      /\ \A i \in 1..img.n_static : top.static[i] = Ptr(b, img.static[i].to)
  BY HeaderMoved
<1>3. /\ kept \subseteq Live(img) \cup Meta(img) /\ Meta(img) \subseteq kept
      /\ img.root.to \in {0} \cup kept
      /\ \A i \in 1..img.n_static : img.static[i].to \in kept
      /\ \A c \in kept : img.cell[c].ptr.to \in {0} \cup kept
  BY ReachedFacts
<1> DEFINE unused == (1..top.top) \ kept
           cells == [c \in Cell |->
                       IF c > top.top THEN top.cell[c]
                       ELSE IF c \in kept THEN Constructed(top.cell[c], b - img.base, p)
                       ELSE Free(Ptr(b, LastOf({d \in unused : d < c})))]
           fr == Ptr(b, LastOf(unused))
<1>4. Collected(top, b, b - img.base, p) = [top EXCEPT !.free = fr, !.cell = cells]
  BY DEF Collected
<1>5. /\ 1..img.top \in SUBSET Cell /\ img.top \in Nat /\ kept \subseteq 1..img.top
      /\ \A c \in Cell : c \in Nat /\ c # 0
      /\ \A c \in Cell : c > img.top \/ c \in 1..img.top
      /\ unused = (1..img.top) \ kept /\ unused \in SUBSET Cell
  BY <1>1, <1>2, <1>3, Kinds, Numbers DEF Cell
<1>6. \A c \in Cell : cells[c] = IF c > img.top THEN img.cell[c]
                      ELSE IF c \in kept THEN Constructed(img.cell[c], b - img.base, p)
                      ELSE Free(Ptr(b, LastOf({d \in unused : d < c})))
  BY <1>2
<1>7. cells = [c \in Cell |-> cells[c]]
  OBVIOUS
<1> HIDE DEF cells, unused, fr
<1>8. ASSUME NEW c \in kept
      PROVE  /\ cells[c] \in CellRecord /\ cells[c].cid = img.cell[c].cid
             /\ cells[c].own = img.cell[c].own
             /\ cells[c].ptr = Ptr(b, img.cell[c].ptr.to)
             /\ virt => cells[c].vt = p
  <2>1. c \in Cell /\ ~(c > img.top)
    BY <1>5
  <2>2. cells[c] = Constructed(img.cell[c], b - img.base, p)
    BY <1>6, <2>1
  <2> QED BY <2>1, <2>2, ConstructedCell
<1>9. ASSUME NEW c \in Cell, c > img.top
      PROVE  cells[c] \in CellRecord /\ cells[c] = Free(NULL)
  <2>1. cells[c] = img.cell[c]
    BY <1>6, <1>9
  <2> QED BY <1>1, <1>9, <2>1, NullPointer DEF KindInv
<1>10. ASSUME NEW c \in unused
       PROVE  /\ cells[c] \in CellRecord /\ cells[c].cid = free_object
              /\ cells[c].ptr = Ptr(b, LastOf({d \in unused : d < c}))
              /\ cells[c].ptr.to = LastOf({d \in unused : d < c})
  <2>1. c \in Cell /\ ~(c > img.top) /\ c \notin kept
    BY <1>5
  <2>2. PICK S, n : S = {d \in unused : d < c} /\ n = LastOf(S)
    OBVIOUS
  <2>3. S \in SUBSET Cell
    BY <1>5, <2>2
  <2>4. n \in {0} \cup Cell
    BY <2>2, <2>3, LastFacts
  <2>5. Ptr(b, n) \in Pointer /\ Ptr(b, n).to = n
    BY <2>4, PointerAt
  <2>6. cells[c] = Free(Ptr(b, n))
    BY <1>6, <2>1, <2>2
  <2>7. /\ cells[c] \in CellRecord /\ cells[c].cid = free_object /\ cells[c].ptr = Ptr(b, n)
    BY <2>5, <2>6 DEF Free, CellRecord, free_object
  <2> QED BY <2>2, <2>5, <2>7
<1>11. cells \in [Cell -> CellRecord]
  <2>1. \A c \in Cell : cells[c] \in CellRecord
    BY <1>5, <1>8, <1>9, <1>10
  <2> QED BY <1>7, <2>1
<1>12. PICK n : n = LastOf(unused)
  OBVIOUS
<1>13. n \in {0} \cup Cell /\ fr = Ptr(b, n) /\ fr \in Pointer /\ fr.to = n
  <2>1. n \in {0} \cup Cell
    BY <1>5, <1>12, LastFacts
  <2>2. Ptr(b, n) \in Pointer /\ Ptr(b, n).to = n
    BY <2>1, PointerAt
  <2> QED BY <1>12, <2>1, <2>2 DEF fr
<1>14. /\ res \in Image /\ res.base = b /\ res.timestamp = s /\ res.free = fr
       /\ res.cell = cells /\ res.top = top.top /\ res.n_classes = top.n_classes
       /\ res.root = top.root /\ res.class_dictionary = top.class_dictionary
       /\ res.n_static = top.n_static /\ res.static = top.static
  <2>1. res = [[top EXCEPT !.free = fr, !.cell = cells] EXCEPT !.base = b, !.timestamp = s]
    BY <1>4
  <2>2. top \in Image /\ fr \in Pointer
    BY <1>2, <1>13
  <2> QED BY <1>11, <2>1, <2>2 DEF Image, CellRecord
<1>15. Chain(To(res), res.free.to, unused)
  <2>1. PICK mx \in Link : mx = To(res)
    BY <1>14, LinkType
  <2>2. \A c \in Cell : mx[c] = res.cell[c].ptr.to
    BY <1>14, <2>1, LinkType
  <2>3. \A c \in unused : mx[c] = LastOf({d \in unused : d < c})
    BY <1>5, <1>10, <1>14, <2>2
  <2>4. Chain(mx, LastOf(unused), unused)
    BY <1>5, <2>3, Descending
  <2> QED BY <1>12, <1>13, <1>14, <2>1, <2>4
<1>16. \A c \in kept : /\ res.cell[c].cid = img.cell[c].cid
                       /\ res.cell[c].own = img.cell[c].own
                       /\ res.cell[c].ptr = Ptr(b, img.cell[c].ptr.to)
                       /\ virt => res.cell[c].vt = p
  BY <1>8, <1>14
<1>17. \A c \in Cell : c > img.top => res.cell[c] = Free(NULL)
  BY <1>9, <1>14
<1>18. \A c \in unused : /\ res.cell[c].cid = free_object
                         /\ res.cell[c].ptr = Ptr(b, res.cell[c].ptr.to)
  BY <1>10, <1>14
<1>19. /\ res \in Image /\ res.base = b /\ res.top = img.top
       /\ res.n_classes = img.n_classes /\ (virt => res.timestamp = p)
       /\ res.root = Ptr(b, img.root.to)
       /\ res.class_dictionary = Ptr(b, img.class_dictionary.to)
       /\ res.free = Ptr(b, res.free.to)
       /\ res.n_static = img.n_static
       /\ \A i \in 1..img.n_static : res.static[i] = Ptr(b, img.static[i].to)
  BY <1>2, <1>13, <1>14
<1>20. unused = (1..img.top) \ kept
  BY <1>5
<1> QED BY <1>3, <1>15, <1>16, <1>17, <1>18, <1>19, <1>20 DEF Renews

\* The first open renews the empty image.
LEMMA FirstRenews ==
  ASSUME NEW b \in Base, NEW p \in Program, NEW s \in Program \cup {None}, virt => s = p,
         NEW res, res = [Empty EXCEPT !.base = b, !.timestamp = s]
  PROVE  Renews(Empty, b, p, {}, res)
<1>1. PICK img : img = Empty
  OBVIOUS
<1>2. /\ img \in Image /\ Meta(img) = {} /\ Live(img) = {}
  BY <1>1, EmptySound DEF Sound
<1>3. /\ img.base = 0 /\ img.n_classes = 0 /\ img.timestamp = None /\ img.top = 0
      /\ img.root = NULL /\ img.class_dictionary = NULL /\ img.free = NULL
      /\ img.n_static = 0 /\ img.cell = [c \in Cell |-> Free(NULL)]
  BY <1>1 DEF Empty
<1>4. /\ res \in Image /\ res.base = b /\ res.timestamp = s /\ res.top = img.top
      /\ res.n_classes = img.n_classes /\ res.root = img.root
      /\ res.class_dictionary = img.class_dictionary /\ res.free = img.free
      /\ res.n_static = img.n_static /\ res.static = img.static /\ res.cell = img.cell
  BY <1>1, <1>2 DEF Image
<1>5. NULL.to = 0 /\ Ptr(b, 0) = NULL
  BY DEF NULL, Ptr
<1>6. 1..img.top = {} /\ 1..img.n_static = {}
  BY <1>3
<1>7. Chain(To(res), 0, {})
  BY EmptyChain
<1>8. Renews(img, b, p, {}, res)
  BY <1>2, <1>3, <1>4, <1>5, <1>6, <1>7 DEF Renews
<1> QED BY <1>1, <1>8

\* open() makes a sound image of a sound one, at its address and with its
\* virtual tables.
LEMMA AdjustedSound ==
  ASSUME NEW img, Sound(img), NEW b \in Base, NEW p \in Program, NEW gc, NEW res,
         res = Adjusted(img, b, p, gc)
  PROVE  /\ Sound(res) /\ SameClasses(img, res) /\ res.base = b /\ res.top = img.top
         /\ (virt => res.timestamp = p) /\ res.n_classes = img.n_classes
<1>1. CASE ~MustAdjust(img, b, p, gc)
  <2>1. res = img /\ img.base = b /\ (virt => img.timestamp = p)
    BY <1>1 DEF Adjusted, MustAdjust
  <2> QED BY <2>1 DEF SameClasses
<1>2. PICK s : s = IF virt THEN p ELSE None
  OBVIOUS
<1>3. s \in Program \cup {None} /\ (virt => s = p)
  BY <1>2
<1>4. ASSUME NEW kept, Renews(img, b, p, kept, res)
      PROVE  /\ Sound(res) /\ SameClasses(img, res) /\ res.base = b /\ res.top = img.top
             /\ (virt => res.timestamp = p) /\ res.n_classes = img.n_classes
  <2>1. Sound(res) /\ SameClasses(img, res)
    BY <1>4, RenewSound
  <2> QED BY <1>4, <2>1 DEF Renews
<1>5. CASE MustAdjust(img, b, p, gc) /\ img.base = 0
  <2>1. img = Empty
    BY <1>5 DEF Sound
  <2>2. res = [Empty EXCEPT !.base = b, !.timestamp = s]
    BY <1>2, <1>5, <2>1 DEF Adjusted
  <2>3. Renews(Empty, b, p, {}, res)
    BY <1>3, <2>2, FirstRenews
  <2> QED BY <1>4, <2>1, <2>3
<1>6. CASE MustAdjust(img, b, p, gc) /\ img.base # 0
  <2>1. res = [Moved(img, b, p, gc) EXCEPT !.base = b, !.timestamp = s]
    BY <1>2, <1>6 DEF Adjusted
  <2>2. CASE gc
    <3>1. PICK top : top = HeaderAdjusted(img, b - img.base)
      OBVIOUS
    <3>2. PICK kept : kept = Reached(top, b, b - img.base)
      OBVIOUS
    <3>3. Moved(img, b, p, gc) = Collected(top, b, b - img.base, p)
      BY <2>2, <3>1 DEF Moved
    <3>4. res = [Collected(top, b, b - img.base, p) EXCEPT !.base = b, !.timestamp = s]
      BY <2>1, <3>3
    <3>5. Renews(img, b, p, kept, res)
      BY <1>3, <1>6, <3>1, <3>2, <3>4, CollectRenews
    <3> QED BY <1>4, <3>5
  <2>3. CASE ~gc
    <3>1. Moved(img, b, p, gc)
            = CellsAdjusted(HeaderAdjusted(img, b - img.base), b - img.base, p)
      BY <2>3 DEF Moved
    <3>2. res = [CellsAdjusted(HeaderAdjusted(img, b - img.base), b - img.base, p)
                  EXCEPT !.base = b, !.timestamp = s]
      BY <2>1, <3>1
    <3>3. Renews(img, b, p, Live(img) \cup Meta(img), res)
      BY <1>3, <1>6, <3>2, AdjustRenews
    <3> QED BY <1>4, <3>3
  <2> QED BY <2>2, <2>3
<1> QED BY <1>1, <1>5, <1>6

----------------------------------------------------------------------------
(* The dictionary that open() loads. *)

\* There are no more classes in the dictionary than there are.
LEMMA ClassNumber ==
  ASSUME NEW img, Sound(img)
  PROVE  Cardinality(Meta(img)) <= Cardinality(Class)
<1>1. PICK f : f = [d \in Meta(img) |-> img.cell[d].own]
  OBVIOUS
<1>2. /\ f \in [Meta(img) -> Class]
      /\ \A d, e \in Meta(img) : f[d] = f[e] => d = e
  BY <1>1 DEF Sound, DictInv
<1>3. f \in Injection(Meta(img), Class)
  BY <1>2 DEF Injection, IsInjective
<1> QED BY <1>3, Numbers, FS_Injection

\* load_class_dictionary() counts the classes as they were counted when they
\* were stored.
LEMMA LoadedIds ==
  ASSUME NEW img, Sound(img), Counted(img), NEW d \in Meta(img)
  PROVE  LoadedId(img, Meta(img), d) = Id(img, d)
<1>1. img \in Image /\ PlaceInv(img) /\ Chain(To(img), img.class_dictionary.to, Meta(img))
  BY DEF Sound, DictInv
<1>2. /\ Links(img) = To(img) /\ d \in Cell
      /\ Target(img.base, img.cell[d].ptr) = To(img)[d]
  BY <1>1, LinksAre, Kinds
<1>3. Entries(img, img.cell[d].ptr) = Reach(To(img), {To(img)[d]})
  BY <1>2 DEF Entries
<1>4. PICK nx \in Link, a \in {0} \cup Cell, cells \in {Meta(img)} :
        nx = To(img) /\ a = img.class_dictionary.to
  BY <1>1, LinkType, ImageFields DEF Pointer
<1>5. Chain(nx, a, cells) /\ d \in cells
  BY <1>1, <1>4
<1>6. /\ Cardinality(cells) \in Nat /\ Cardinality(Reach(nx, {d})) \in Nat
      /\ Cardinality(cells \ Reach(nx, {nx[d]}))
           = Cardinality(cells) - Cardinality(Reach(nx, {d})) + 1
  BY <1>5, ChainRank
<1>7. PICK n, k : n = Cardinality(cells) /\ k = Cardinality(Reach(nx, {d}))
  OBVIOUS
<1>8. n \in Nat /\ k \in Nat /\ img.n_classes = n /\ Id(img, d) = 3 - 1 + k
      /\ LoadedId(img, Meta(img), d) = n + 3 - (n - k + 1)
  BY <1>3, <1>4, <1>6, <1>7 DEF Counted, Id, LoadedId, first_cid
<1>9. n + 3 - (n - k + 1) = 3 - 1 + k
  BY <1>8
<1> QED BY <1>8, <1>9

\* load_class_dictionary() finds the stored classes of the program with their
\* ids.
LEMMA LoadedNames ==
  ASSUME NEW img, Sound(img), Counted(img), NEW p
  PROVE  Loaded(img, p) = {<<img.cell[d].own, Id(img, d)>> :
                             d \in {e \in Meta(img) : img.cell[e].own \in Range(Registry[p])}}
<1>1. img \in Image /\ PlaceInv(img) /\ Chain(To(img), img.class_dictionary.to, Meta(img))
  BY DEF Sound, DictInv
<1>2. Entries(img, img.class_dictionary) = Meta(img)
  <2>1. /\ Links(img) = To(img)
        /\ Target(img.base, img.class_dictionary) = img.class_dictionary.to
    BY <1>1, LinksAre
  <2> QED BY <1>1, <2>1 DEF Entries, Chain
<1>3. Loaded(img, p) = {<<img.cell[d].own, LoadedId(img, Meta(img), d)>> :
                          d \in {e \in Meta(img) : img.cell[e].own \in Range(Registry[p])}}
  BY <1>2 DEF Loaded
<1>4. \A d \in Meta(img) : LoadedId(img, Meta(img), d) = Id(img, d)
  BY LoadedIds
<1> QED BY <1>3, <1>4

\* The mappings of a process fit the dictionary of an image.
Fits(img, app, dbs) ==
  /\ \A d \in Meta(img) :
       IF img.cell[d].own \in DOMAIN app
       THEN app[img.cell[d].own] = Id(img, d) /\ dbs[Id(img, d)] = img.cell[d].own
       ELSE dbs[Id(img, d)] = None
  /\ \A c \in DOMAIN app : app[c] = 0 \/ \E d \in Meta(img) : img.cell[d].own = c

\* The mappings that are made of them fit the image.
LEMMA LoadedFits ==
  ASSUME NEW img, Sound(img), Counted(img), NEW p \in Program, NEW app, NEW dbs,
         app = AppMapping(Loaded(img, p), p), dbs = DbsMapping(Loaded(img, p))
  PROVE  /\ Fits(img, app, dbs)
         /\ DOMAIN app = Range(Registry[p])
         /\ DOMAIN dbs = 0..(Cardinality(Class) + first_cid)
         /\ \A c \in DOMAIN app : app[c] \in Nat /\ app[c] < img.n_classes + first_cid
<1>1. PICK loaded : loaded = Loaded(img, p)
  OBVIOUS
<1>2. PICK mine : mine = {e \in Meta(img) : img.cell[e].own \in Range(Registry[p])}
  OBVIOUS
<1>3. loaded = {<<img.cell[d].own, Id(img, d)>> : d \in mine}
  BY <1>1, <1>2, LoadedNames
<1>4. DOMAIN app = Range(Registry[p])
  BY DEF AppMapping
<1>5. DOMAIN dbs = 0..(Cardinality(Class) + first_cid)
  BY DEF DbsMapping
<1>6. \A d, e \in Meta(img) : /\ img.cell[d].own = img.cell[e].own => d = e
                              /\ Id(img, d) = Id(img, e) => d = e
  BY IdFacts DEF Sound, DictInv
<1>7. ASSUME NEW d \in mine
      PROVE  /\ app[img.cell[d].own] = Id(img, d) /\ dbs[Id(img, d)] = img.cell[d].own
  <2>1. d \in Meta(img) /\ img.cell[d].own \in Range(Registry[p])
    BY <1>2
  <2>2. PICK k, n : k = img.cell[d].own /\ n = Id(img, d)
    OBVIOUS
  <2>3. <<k, n>> \in loaded
    BY <1>3, <2>2
  <2>4. \A l \in loaded : /\ l[1] = k => l[2] = n
                          /\ l[2] = n => l[1] = k
    <3>1. ASSUME NEW l \in loaded PROVE /\ l[1] = k => l[2] = n
                                        /\ l[2] = n => l[1] = k
      <4>1. PICK e \in mine : l = <<img.cell[e].own, Id(img, e)>>
        BY <1>3
      <4>2. e \in Meta(img) /\ l[1] = img.cell[e].own /\ l[2] = Id(img, e)
        BY <1>2, <4>1
      <4> QED BY <1>6, <2>1, <2>2, <4>2
    <3> QED BY <3>1
  <2>5. app[k] = n
    <3>1. (CHOOSE l \in loaded : l[1] = k) \in loaded /\ (CHOOSE l \in loaded : l[1] = k)[1] = k
      BY <2>3
    <3>2. app[k] = (CHOOSE l \in loaded : l[1] = k)[2]
      BY <1>1, <2>1, <2>2, <2>3 DEF AppMapping
    <3> QED BY <2>4, <3>1, <3>2
  <2>6. dbs[n] = k
    <3>1. (CHOOSE l \in loaded : l[2] = n) \in loaded /\ (CHOOSE l \in loaded : l[2] = n)[2] = n
      BY <2>3
    <3>2. n \in 0..(Cardinality(Class) + first_cid)
      <4>1. /\ n \in Nat /\ n < first_cid + Cardinality(Meta(img))
            /\ Cardinality(Meta(img)) <= Cardinality(Class)
        BY <2>1, <2>2, IdFacts, ClassNumber
      <4>2. Cardinality(Class) \in Nat /\ Cardinality(Meta(img)) \in Nat
        BY Numbers, Kinds DEF Sound
      <4> QED BY <4>1, <4>2 DEF first_cid
    <3>3. dbs[n] = (CHOOSE l \in loaded : l[2] = n)[1]
      BY <1>1, <2>3, <3>2 DEF DbsMapping
    <3> QED BY <2>4, <3>1, <3>3
  <2> QED BY <2>2, <2>5, <2>6
<1>8. ASSUME NEW d \in Meta(img), d \notin mine PROVE dbs[Id(img, d)] = None
  <2>1. PICK n : n = Id(img, d)
    OBVIOUS
  <2>2. ASSUME NEW l \in loaded, l[2] = n PROVE FALSE
    <3>1. PICK e \in mine : l = <<img.cell[e].own, Id(img, e)>>
      BY <1>3
    <3>2. e \in Meta(img) /\ l[2] = Id(img, e)
      BY <1>2, <3>1
    <3> QED BY <1>6, <1>8, <2>1, <2>2, <3>2
  <2>3. n \in 0..(Cardinality(Class) + first_cid) /\ n # metaclass_cid /\ n # page_map_cid
    <3>1. /\ n \in Nat /\ n >= first_cid /\ n < first_cid + Cardinality(Meta(img))
          /\ Cardinality(Meta(img)) <= Cardinality(Class)
      BY <2>1, IdFacts, ClassNumber
    <3>2. Cardinality(Class) \in Nat /\ Cardinality(Meta(img)) \in Nat
      BY Numbers, Kinds DEF Sound
    <3> QED BY <3>1, <3>2 DEF first_cid, metaclass_cid, page_map_cid
  <2>4. dbs[n] = None
    BY <1>1, <2>2, <2>3 DEF DbsMapping
  <2> QED BY <2>1, <2>4
<1>9. ASSUME NEW c \in DOMAIN app
      PROVE  \/ app[c] = 0
             \/ \E d \in mine : img.cell[d].own = c
  <2>1. CASE \E l \in loaded : l[1] = c
    BY <1>3, <2>1
  <2>2. CASE ~\E l \in loaded : l[1] = c
    <3>1. app[c] = 0
      BY <1>1, <1>4, <2>2 DEF AppMapping
    <3> QED BY <3>1
  <2> QED BY <2>1, <2>2
<1>10. Fits(img, app, dbs)
  <2>1. \A d \in Meta(img) : d \in mine <=> img.cell[d].own \in DOMAIN app
    BY <1>2, <1>4
  <2>2. \A d \in mine : d \in Meta(img)
    BY <1>2
  <2> QED BY <1>7, <1>8, <1>9, <2>1, <2>2 DEF Fits
<1>11. ASSUME NEW c \in DOMAIN app PROVE app[c] \in Nat /\ app[c] < img.n_classes + first_cid
  <2>1. img.n_classes = Cardinality(Meta(img)) /\ Cardinality(Meta(img)) \in Nat
    BY Kinds DEF Sound, Counted
  <2>2. CASE app[c] = 0
    BY <2>1, <2>2 DEF first_cid
  <2>3. CASE \E d \in mine : img.cell[d].own = c
    <3>1. PICK d \in mine : img.cell[d].own = c
      BY <2>3
    <3>2. d \in Meta(img) /\ app[c] = Id(img, d)
      BY <1>2, <1>7, <3>1
    <3>3. Id(img, d) \in Nat /\ Id(img, d) < first_cid + Cardinality(Meta(img))
      BY <3>2, IdFacts
    <3> QED BY <2>1, <3>2, <3>3 DEF first_cid
  <2> QED BY <1>9, <2>2, <2>3
<1> QED BY <1>4, <1>5, <1>10, <1>11

----------------------------------------------------------------------------
(* The state after a step. *)

\* An image that is sound is sound as the next file or saved image.
LEMMA SoundNext ==
  ASSUME virt' = virt, NEW f, Sound(f)
  PROVE  (file' = f => Sound(file)') /\ (saved' = f => Sound(saved)')
<1>1. ASSUME file' = f PROVE Sound(file)'
  BY <1>1 DEF Sound, TableInv
<1>2. ASSUME saved' = f PROVE Sound(saved)'
  BY <1>2 DEF Sound, TableInv
<1> QED BY <1>1, <1>2

\* Mappings that fit an image fit one with the same ids.
LEMMA FitsSame ==
  ASSUME NEW img, NEW res, NEW a, NEW d, Fits(img, a, d), SameClasses(img, res)
  PROVE  Fits(res, a, d)
BY DEF Fits, SameClasses

\* MappedInv, with the mappings as parameters.
LEMMA MappedIs ==
  ASSUME NEW f
  PROVE  MappedInv(f) <=> /\ f.base = hdr /\ (virt => f.timestamp = prog)
                          /\ Fits(f, app_class_mapping, dbs_class_mapping)
BY DEF MappedInv, MapInv, Fits

\* An image that fits the next mappings is mapped as the next one.
LEMMA MappedNext ==
  ASSUME virt' = virt, NEW f, NEW a, NEW d, app_class_mapping' = a,
         dbs_class_mapping' = d, f.base = hdr', virt => f.timestamp = prog',
         Fits(f, a, d)
  PROVE  (file' = f => MappedInv(file)') /\ (saved' = f => MappedInv(saved)')
<1>1. ASSUME file' = f PROVE MappedInv(file)'
  BY <1>1 DEF MappedInv, MapInv, Fits
<1>2. ASSUME saved' = f PROVE MappedInv(saved)'
  BY <1>2 DEF MappedInv, MapInv, Fits
<1> QED BY <1>1, <1>2

\* A store adds the items it changes to the log.
LEMMA LogStep ==
  ASSUME LogInv, Sound(saved), UNCHANGED <<saved, fresh, tx>>, fresh => pc' = "dictionary",
         NEW items \in SUBSET ({Header} \cup Cell), dirty' = Logged(items),
         NEW res, file' = res,
         \A c \in Cell \ items : res.cell[c] = file.cell[c],
         Header \notin items => [res EXCEPT !.cell = 0] = [file EXCEPT !.cell = 0]
  PROVE  LogInv'
<1>1. saved.top \in Nat /\ 1..saved.top \in SUBSET Cell
  BY Kinds DEF Sound
<1>2. dirty \subseteq 0..saved.top
  BY DEF LogInv
<1>3. CASE tx /\ ~fresh
  <2>1. /\ Header \notin dirty => [file EXCEPT !.cell = 0] = [saved EXCEPT !.cell = 0]
        /\ \A c \in 1..saved.top : c \in dirty \/ file.cell[c] = saved.cell[c]
    BY <1>3 DEF LogInv
  <2>2. dirty' = dirty \cup {i \in items : i <= saved.top}
    BY <1>3 DEF Logged
  <2>3. dirty' \subseteq 0..saved.top
    <3>1. \A i \in items : i \in Nat
      BY Numbers DEF Header
    <3> QED BY <1>1, <1>2, <2>2, <3>1
  <2>4. Header \notin dirty' => [res EXCEPT !.cell = 0] = [saved EXCEPT !.cell = 0]
    BY <1>1, <2>1, <2>2 DEF Header
  <2>5. \A c \in 1..saved.top : c \in dirty' \/ res.cell[c] = saved.cell[c]
    BY <1>1, <2>1, <2>2
  <2> QED BY <2>3, <2>4, <2>5 DEF LogInv
<1>4. CASE ~(tx /\ ~fresh)
  <2>1. dirty' = dirty
    BY <1>4 DEF Logged
  <2> QED BY <1>2, <1>4, <2>1 DEF LogInv
<1> QED BY <1>3, <1>4

\* Items of an image are items of the log.
LEMMA DirtyType ==
  ASSUME NEW n \in 0..MaxCell, NEW items \in SUBSET (0..n)
  PROVE  items \subseteq {Header} \cup Cell
BY Numbers DEF Header, Cell

\* What a step of the application leaves: another sound image with the same
\* classes, and the items it changed in the log.
LEMMA ChangeStep ==
  ASSUME OpenInv, NEW items \in SUBSET ({Header} \cup Cell), Change(items),
         NEW res, file' = res, Sound(res), SameClasses(file, res),
         res.base = file.base, res.timestamp = file.timestamp,
         res.n_classes = file.n_classes,
         static' \in -1..maxStaticData, static' <= res.n_static,
         \A c \in Cell \ items : res.cell[c] = file.cell[c],
         Header \notin items => [res EXCEPT !.cell = 0] = [file EXCEPT !.cell = 0]
  PROVE  OpenInv'
<1>1. /\ pc = "ready" /\ dirty' = Logged(items)
      /\ UNCHANGED <<saved, pc, prog, hdr, fresh, app_class_mapping,
                     dbs_class_mapping, list, tx, virt>>
  BY DEF Change, kind
<1>2. /\ TypeOK /\ Sound(file) /\ Sound(saved) /\ (tx => Counted(saved)) /\ Counted(file)
      /\ LogInv /\ ProcessInv
  BY <1>1 DEF OpenInv
<1>3. Sound(file)' /\ Sound(saved)'
  <2>1. saved' = saved /\ virt' = virt
    BY <1>1
  <2>2. Sound(file)'
    BY <2>1, SoundNext
  <2>3. Sound(saved)'
    BY <1>2, <2>1, SoundNext
  <2> QED BY <2>2, <2>3
<1>4. LogInv'
  <2>1. fresh => pc' = "dictionary"
    BY <1>1, <1>2 DEF LogInv
  <2> QED BY <1>1, <1>2, <2>1, LogStep
<1>5. TypeOK'
  <2>1. res \in Image /\ saved \in Image
    BY <1>2 DEF Sound
  <2>2. dirty' \subseteq 0..saved.top /\ saved.top \in 0..MaxCell
    BY <1>1, <1>4, <2>1, ImageFields DEF LogInv
  <2>3. dirty' \subseteq {Header} \cup Cell
    BY <2>2, DirtyType
  <2> QED BY <1>1, <1>2, <2>1, <2>3 DEF TypeOK
<1>6. (tx => Counted(saved))' /\ Counted(file)'
  <2>1. Counted(res)
    BY <1>2 DEF Counted, SameClasses
  <2> QED BY <1>1, <1>2, <2>1 DEF Counted
<1>7. MappedInv(file) /\ (tx => MappedInv(saved)) /\ prog \in Program /\ hdr \in Base
      /\ DOMAIN app_class_mapping = Range(Registry[prog])
      /\ DOMAIN dbs_class_mapping = 0..(Cardinality(Class) + first_cid)
      /\ list = <<>>
      /\ \A c \in DOMAIN app_class_mapping \ Range(list) : app_class_mapping[c] # 0
  BY <1>1, <1>2 DEF ProcessInv
<1>8. MappedInv(file)' /\ (tx => MappedInv(saved)')
  <2>1. PICK a, d, s : a = app_class_mapping /\ d = dbs_class_mapping /\ s = saved
    OBVIOUS
  <2>2. /\ app_class_mapping' = a /\ dbs_class_mapping' = d /\ virt' = virt
        /\ saved' = s /\ hdr' = hdr /\ prog' = prog
    BY <1>1, <2>1
  <2>3. /\ file.base = hdr /\ (virt => file.timestamp = prog) /\ Fits(file, a, d)
        /\ tx => s.base = hdr /\ (virt => s.timestamp = prog) /\ Fits(s, a, d)
    BY <1>7, <2>1, MappedIs
  <2>4. Fits(res, a, d)
    BY <2>3, FitsSame
  <2>5. MappedInv(file)'
    BY <2>2, <2>3, <2>4, MappedNext
  <2>6. tx => MappedInv(saved)'
    BY <2>2, <2>3, MappedNext
  <2> QED BY <2>5, <2>6
<1>9. ProcessInv'
  BY <1>1, <1>7, <1>8 DEF ProcessInv
<1> QED BY <1>1, <1>3, <1>4, <1>5, <1>6, <1>9 DEF OpenInv

----------------------------------------------------------------------------
(* The actions of the application. *)

Filled(r, k, x, dd) == [r EXCEPT !.cell[k] = x, !.class_dictionary = dd]

\* An allocated cell that is filled makes the image of PutCells.
LEMMA AllotsPuts ==
  ASSUME NEW img, Sound(img), NEW k, NEW r, Allots(img, k, r), NEW x \in CellRecord,
         NEW dd \in Pointer, NEW res, res = Filled(r, k, x, dd)
  PROVE  /\ Puts(img, k, x, res) /\ res.class_dictionary = dd
         /\ res.base = img.base /\ res.timestamp = img.timestamp
         /\ res.n_classes = img.n_classes /\ res.n_static = img.n_static
         /\ \A d \in Cell : d # k => res.cell[d] = img.cell[d]
<1>1. img \in Image /\ r \in Image /\ k \in Cell /\ r.cell = img.cell
  BY DEF Sound, Allots
<1>2. img.cell \in [Cell -> CellRecord]
  BY <1>1, ImageFields
<1>3. PICK cells : cells = [img.cell EXCEPT ![k] = x]
  OBVIOUS
<1>4. cells \in [Cell -> CellRecord] /\ \A d \in Cell : d # k => cells[d] = img.cell[d]
  BY <1>1, <1>2, <1>3
<1>5. res = [r EXCEPT !.cell = cells, !.class_dictionary = dd]
  BY <1>1, <1>3 DEF Image, Filled
<1>6. /\ res \in Image /\ res.cell = cells /\ res.class_dictionary = dd
      /\ res.base = r.base /\ res.timestamp = r.timestamp /\ res.root = r.root
      /\ res.n_classes = r.n_classes /\ res.n_static = r.n_static
      /\ res.static = r.static /\ res.top = r.top /\ res.free = r.free
  BY <1>1, <1>4, <1>5 DEF Image, CellRecord
<1>7. /\ r.base = img.base /\ r.timestamp = img.timestamp /\ r.root = img.root
      /\ r.n_classes = img.n_classes /\ r.n_static = img.n_static /\ r.static = img.static
  BY DEF Allots
<1>8. Puts(img, k, x, res)
  BY <1>1, <1>3, <1>6, <1>7 DEF Puts
<1> QED BY <1>4, <1>6, <1>7, <1>8

\* The state of an open storage.
LEMMA OpenFacts ==
  ASSUME OpenInv, pc # "closed"
  PROVE  /\ Sound(file) /\ file \in Image /\ file.base = hdr /\ hdr \in Base /\ hdr # 0
         /\ prog \in Program /\ (virt => file.timestamp = prog)
         /\ Fits(file, app_class_mapping, dbs_class_mapping)
         /\ DOMAIN app_class_mapping = Range(Registry[prog])
         /\ static \in -1..maxStaticData /\ static <= file.n_static
         /\ file.n_static \in Nat /\ file.n_static <= maxStaticData /\ maxStaticData \in Nat
<1>1. /\ Sound(file) /\ hdr \in Base /\ prog \in Program /\ MappedInv(file)
      /\ DOMAIN app_class_mapping = Range(Registry[prog]) /\ static <= file.n_static
      /\ static \in -1..maxStaticData
  BY DEF OpenInv, ProcessInv, TypeOK
<1>2. file \in Image
  BY <1>1 DEF Sound
<1>3. /\ file.base = hdr /\ (virt => file.timestamp = prog)
      /\ Fits(file, app_class_mapping, dbs_class_mapping)
  BY <1>1, MappedIs
<1>4. hdr # 0
  BY <1>1, OpenAssumption, Numbers
<1>5. file.n_static \in Nat /\ file.n_static <= maxStaticData /\ maxStaticData \in Nat
  BY <1>2, ImageFields, OpenAssumption
<1> QED BY <1>1, <1>2, <1>3, <1>4, <1>5

\* operator new keeps the invariant.
LEMMA NewStep ==
  ASSUME OpenInv, NEW c \in DOMAIN app_class_mapping, NEW q \in {0} \cup Live(file), new(c, q)
  PROVE  OpenInv'
<1>1. PICK k, r, x : /\ k = Alloc(file)[1] /\ r = Alloc(file)[2]
                     /\ x = Object(app_class_mapping[c], Ptr(hdr, q), c)
  OBVIOUS
<1>2. PICK res : res = [r EXCEPT !.cell[k] = x]
  OBVIOUS
<1>3. /\ Cardinality(Live(file)) < MaxObjects /\ file' = res
      /\ Change({Header, k}) /\ static' = static
  BY <1>1, <1>2 DEF new
<1>4. pc = "ready"
  BY <1>3 DEF Change
<1>5. /\ Sound(file) /\ file \in Image /\ file.base = hdr /\ hdr \in Base /\ hdr # 0
      /\ prog \in Program /\ (virt => file.timestamp = prog)
      /\ Fits(file, app_class_mapping, dbs_class_mapping)
      /\ static \in -1..maxStaticData /\ static <= file.n_static
  BY <1>4, OpenFacts
<1>6. Allots(file, k, r)
  <2>1. /\ Cardinality(Meta(file)) <= Cardinality(Class) /\ Cardinality(Meta(file)) \in Nat
        /\ Cardinality(Live(file)) \in Nat /\ Cardinality(Class) \in Nat /\ MaxObjects \in Nat
    BY <1>5, ClassNumber, Kinds, Numbers, OpenAssumption
  <2>2. Cardinality(Live(file)) + Cardinality(Meta(file)) < MaxCell
    <3>1. PICK l, m, n : l = Cardinality(Live(file)) /\ m = Cardinality(Meta(file))
                         /\ n = Cardinality(Class)
      OBVIOUS
    <3>2. l \in Nat /\ m \in Nat /\ n \in Nat /\ l < MaxObjects /\ m <= n /\ MaxObjects \in Nat
      BY <1>3, <2>1, <3>1
    <3>3. l + m < MaxObjects + n
      BY <3>2
    <3> QED BY <3>1, <3>3 DEF MaxCell
  <2>3. PICK img : img = file
    OBVIOUS
  <2>4. Sound(img) /\ img.base = hdr /\ Cardinality(Live(img)) + Cardinality(Meta(img)) < MaxCell
    BY <1>5, <2>2, <2>3
  <2>5. Allots(img, Alloc(img)[1], Alloc(img)[2])
    BY <1>5, <2>4, AllocAllots
  <2> QED BY <1>1, <2>3, <2>5
<1>7. PICK d \in Meta(file) : file.cell[d].own = c /\ app_class_mapping[c] = Id(file, d)
  <2>1. app_class_mapping[c] # 0
    <3>1. list = <<>> /\ \A e \in DOMAIN app_class_mapping \ Range(list) :
                           app_class_mapping[e] # 0
      BY <1>4 DEF OpenInv, ProcessInv
    <3>2. Range(list) = {}
      BY <3>1 DEF Range
    <3> QED BY <3>1, <3>2
  <2> QED BY <1>5, <2>1 DEF Fits
<1>8. /\ x.cid = Id(file, d) /\ x.ptr = Ptr(hdr, q) /\ x.own = file.cell[d].own
      /\ (virt => x.vt = prog) /\ x.ptr.to = q /\ x.ptr = Ptr(hdr, x.ptr.to)
      /\ x \in CellRecord
  <2>1. q \in {0} \cup Cell
    BY <1>5, Kinds
  <2>2. Ptr(hdr, q) \in Pointer /\ Ptr(hdr, q).to = q
    BY <1>5, <2>1, PointerAt
  <2>3. Id(file, d) \in Nat
    BY <1>5, IdFacts
  <2>4. c \in Class
    BY <1>5, <1>7 DEF Sound, DictInv
  <2>5. x = [cid |-> Id(file, d), ptr |-> Ptr(hdr, q), own |-> c,
             vt |-> IF virt THEN prog ELSE None]
    BY <1>1, <1>7 DEF Object
  <2> QED BY <1>5, <1>7, <2>2, <2>3, <2>4, <2>5 DEF CellRecord
<1>9. /\ Puts(file, k, x, res) /\ res.class_dictionary = file.class_dictionary
      /\ res.base = file.base /\ res.timestamp = file.timestamp
      /\ res.n_classes = file.n_classes /\ res.n_static = file.n_static
      /\ \A e \in Cell : e # k => res.cell[e] = file.cell[e]
  <2>1. PICK dd \in Pointer : dd = file.class_dictionary
    BY <1>5, ImageFields
  <2>2. r \in Image /\ r.class_dictionary = dd
    BY <1>6, <2>1 DEF Allots
  <2>3. res = Filled(r, k, x, dd)
    BY <1>2, <2>2 DEF Image, Filled
  <2>4. PICK img : img = file
    OBVIOUS
  <2>5. /\ Puts(img, k, x, res) /\ res.class_dictionary = dd
        /\ res.base = img.base /\ res.timestamp = img.timestamp
        /\ res.n_classes = img.n_classes /\ res.n_static = img.n_static
        /\ \A e \in Cell : e # k => res.cell[e] = img.cell[e]
    <3>1. Sound(img) /\ Allots(img, k, r) /\ x \in CellRecord
      BY <1>5, <1>6, <1>8, <2>4
    <3> QED BY <2>3, <3>1, AllotsPuts
  <2> QED BY <2>1, <2>4, <2>5
<1>10. Sound(res) /\ SameClasses(file, res)
  <2>1. /\ x.ptr = Ptr(file.base, x.ptr.to) /\ x.ptr.to \in {0} \cup Live(file)
        /\ virt => x.vt = file.timestamp
    BY <1>5, <1>8
  <2> QED BY <1>3, <1>5, <1>8, <1>9, <2>1, NewSound
<1>11. PICK items : items = {Header, k}
  OBVIOUS
<1>12. /\ items \in SUBSET ({Header} \cup Cell) /\ Change(items) /\ Header \in items
       /\ \A e \in Cell \ items : res.cell[e] = file.cell[e]
  BY <1>3, <1>6, <1>9, <1>11 DEF Allots
<1>13. static' \in -1..maxStaticData /\ static' <= res.n_static
  BY <1>3, <1>5, <1>9
<1> QED BY <1>3, <1>9, <1>10, <1>12, <1>13, ChangeStep

\* operator delete keeps the invariant.
LEMMA DeleteStep ==
  ASSUME OpenInv, NEW c \in Live(file), delete(c)
  PROVE  OpenInv'
<1>1. PICK res : res = [file EXCEPT !.cell[c] = Free(file.free), !.free = Ptr(hdr, c)]
  OBVIOUS
<1>2. PICK items : items = {Header, c}
  OBVIOUS
<1>3. /\ file' = res /\ Change(items) /\ static' = static
      /\ \A d \in Live(file) : file.cell[d].ptr.to # c
      /\ file.root.to # c /\ \A i \in 1..file.n_static : file.static[i].to # c
  BY <1>1, <1>2 DEF delete
<1>4. pc = "ready"
  BY <1>3 DEF Change
<1>5. /\ Sound(file) /\ file \in Image /\ file.base = hdr /\ hdr # 0 /\ c \in Cell
      /\ static \in -1..maxStaticData /\ static <= file.n_static
  BY <1>4, OpenFacts, Kinds
<1>6. Sound(res) /\ SameClasses(file, res)
  <2>1. PICK img : img = file
    OBVIOUS
  <2>2. /\ Sound(img) /\ img.base # 0 /\ c \in Live(img)
        /\ res = [img EXCEPT !.cell[c] = Free(img.free), !.free = Ptr(img.base, c)]
        /\ \A d \in Live(img) : img.cell[d].ptr.to # c
        /\ img.root.to # c /\ \A i \in 1..img.n_static : img.static[i].to # c
    BY <1>1, <1>3, <1>5, <2>1
  <2>3. Sound(res) /\ SameClasses(img, res)
    BY <2>2, DeleteSound
  <2> QED BY <2>1, <2>3
<1>7. /\ res.base = file.base /\ res.timestamp = file.timestamp
      /\ res.n_classes = file.n_classes /\ res.n_static = file.n_static
      /\ \A d \in Cell : d # c => res.cell[d] = file.cell[d]
  <2>1. PICK cells : cells = [file.cell EXCEPT ![c] = Free(file.free)]
    OBVIOUS
  <2>2. file.cell \in [Cell -> CellRecord]
    BY <1>5, ImageFields
  <2>3. \A d \in Cell : d # c => cells[d] = file.cell[d]
    BY <2>1, <2>2
  <2>4. res = [file EXCEPT !.cell = cells, !.free = Ptr(hdr, c)]
    BY <1>1, <1>5, <2>1 DEF Image
  <2>5. /\ res.base = file.base /\ res.timestamp = file.timestamp /\ res.cell = cells
        /\ res.n_classes = file.n_classes /\ res.n_static = file.n_static
    BY <1>5, <2>4 DEF Image
  <2> QED BY <2>3, <2>5
<1>8. /\ items \in SUBSET ({Header} \cup Cell) /\ Header \in items
      /\ \A e \in Cell \ items : res.cell[e] = file.cell[e]
  BY <1>2, <1>5, <1>7
<1>9. static' \in -1..maxStaticData /\ static' <= res.n_static
  BY <1>3, <1>5, <1>7
<1> QED BY <1>3, <1>6, <1>7, <1>8, <1>9, ChangeStep

\* A step that changes the header only.
LEMMA HeaderStep ==
  ASSUME OpenInv, Change({Header}), NEW res \in Image, file' = res,
         res.base = file.base, res.timestamp = file.timestamp, res.top = file.top,
         res.class_dictionary = file.class_dictionary, res.free = file.free,
         res.cell = file.cell, res.n_classes = file.n_classes,
         res.root = Ptr(file.base, res.root.to), res.root.to \in {0} \cup Live(file),
         \A i \in 1..res.n_static : /\ res.static[i] = Ptr(file.base, res.static[i].to)
                                    /\ res.static[i].to \in Live(file),
         static' \in -1..maxStaticData, static' <= res.n_static
  PROVE  OpenInv'
<1>1. pc = "ready"
  BY DEF Change
<1>2. Sound(file) /\ file.base = hdr /\ hdr # 0
  BY <1>1, OpenFacts
<1>3. Sound(res) /\ SameClasses(file, res)
  BY <1>2, HeaderSound
<1>4. PICK items : items = {Header}
  OBVIOUS
<1>5. /\ items \in SUBSET ({Header} \cup Cell) /\ Header \in items /\ Change(items)
      /\ \A e \in Cell \ items : res.cell[e] = file.cell[e]
  BY <1>4
<1> QED BY <1>3, <1>5, ChangeStep

\* set_root_object() keeps the invariant.
LEMMA RootStep ==
  ASSUME OpenInv, NEW c \in {0} \cup Live(file), set_root_object(c)
  PROVE  OpenInv'
<1>1. PICK q, res : q = Ptr(hdr, c) /\ res = [file EXCEPT !.root = q]
  OBVIOUS
<1>2. file' = res /\ Change({Header}) /\ static' = static
  BY <1>1 DEF set_root_object
<1>3. pc = "ready"
  BY <1>2 DEF Change
<1>4. /\ Sound(file) /\ file \in Image /\ file.base = hdr /\ hdr \in Base
      /\ static \in -1..maxStaticData /\ static <= file.n_static
  BY <1>3, OpenFacts
<1>5. q \in Pointer /\ q.to = c /\ q = Ptr(hdr, c)
  <2>1. c \in {0} \cup Cell
    BY <1>4, Kinds
  <2> QED BY <1>1, <1>4, <2>1, PointerAt
<1>6. /\ res \in Image /\ res.root = q
      /\ res.base = file.base /\ res.timestamp = file.timestamp /\ res.top = file.top
      /\ res.class_dictionary = file.class_dictionary /\ res.free = file.free
      /\ res.cell = file.cell /\ res.n_classes = file.n_classes
      /\ res.n_static = file.n_static /\ res.static = file.static
  BY <1>1, <1>4, <1>5 DEF Image
<1>7. \A i \in 1..file.n_static : /\ file.static[i] = Ptr(file.base, file.static[i].to)
                                  /\ file.static[i].to \in Live(file)
  BY <1>4 DEF Sound, PlaceInv, KindInv
<1>8. res.root = Ptr(file.base, res.root.to) /\ res.root.to \in {0} \cup Live(file)
  BY <1>4, <1>5, <1>6
<1>9. \A i \in 1..res.n_static : /\ res.static[i] = Ptr(file.base, res.static[i].to)
                                 /\ res.static[i].to \in Live(file)
  BY <1>6, <1>7
<1>10. static' \in -1..maxStaticData /\ static' <= res.n_static
  BY <1>2, <1>4, <1>6
<1> QED BY <1>2, <1>6, <1>8, <1>9, <1>10, HeaderStep

\* set_static_data() keeps the invariant.
LEMMA SetStaticStep ==
  ASSUME OpenInv, NEW c \in Live(file), set_static_data(c)
  PROVE  OpenInv'
<1>1. PICK q, j, st, res :
        /\ q = Ptr(hdr, c) /\ j = static + 1
        /\ st = [file.static EXCEPT ![j] = q]
        /\ res = [file EXCEPT !.static = st, !.n_static = j]
  OBVIOUS
<1>2. /\ Change({Header}) /\ static' = j /\ static >= 0 /\ file.n_static < maxStaticData
      /\ file' = [file EXCEPT !.static[static + 1] = Ptr(hdr, c), !.n_static = static + 1]
  BY <1>1 DEF set_static_data
<1>3. pc = "ready"
  BY <1>2 DEF Change
<1>4. /\ Sound(file) /\ file \in Image /\ file.base = hdr /\ hdr \in Base
      /\ static \in -1..maxStaticData /\ static <= file.n_static
      /\ file.n_static \in Nat /\ file.n_static <= maxStaticData /\ maxStaticData \in Nat
  BY <1>3, OpenFacts
<1>5. q \in Pointer /\ q.to = c /\ q = Ptr(hdr, c)
  <2>1. c \in {0} \cup Cell
    BY <1>4, Kinds
  <2> QED BY <1>1, <1>4, <2>1, PointerAt
<1>6. /\ j \in 1..maxStaticData /\ j \in 0..maxStaticData /\ j \in -1..maxStaticData
      /\ \A i \in 1..j : i = j \/ i \in 1..file.n_static
      /\ \A i \in 1..j : i \in 1..maxStaticData
  BY <1>1, <1>2, <1>4
<1>7. file.static \in [1..maxStaticData -> Pointer]
  BY <1>4, ImageFields
<1>8. /\ st \in [1..maxStaticData -> Pointer] /\ st[j] = q
      /\ \A i \in 1..maxStaticData : i # j => st[i] = file.static[i]
  BY <1>1, <1>5, <1>6, <1>7
<1>9. file' = res
  BY <1>1, <1>2, <1>4 DEF Image
<1>10. /\ res \in Image /\ res.static = st /\ res.n_static = j
       /\ res.base = file.base /\ res.timestamp = file.timestamp /\ res.top = file.top
       /\ res.class_dictionary = file.class_dictionary /\ res.free = file.free
       /\ res.cell = file.cell /\ res.n_classes = file.n_classes /\ res.root = file.root
  BY <1>1, <1>4, <1>6, <1>8 DEF Image
<1>11. /\ \A i \in 1..file.n_static : /\ file.static[i] = Ptr(file.base, file.static[i].to)
                                      /\ file.static[i].to \in Live(file)
       /\ file.root = Ptr(file.base, file.root.to) /\ file.root.to \in {0} \cup Live(file)
  BY <1>4 DEF Sound, PlaceInv, KindInv
<1>12. ASSUME NEW i \in 1..j
       PROVE  st[i] = Ptr(file.base, st[i].to) /\ st[i].to \in Live(file)
  <2>1. CASE i = j
    BY <1>4, <1>5, <1>8, <2>1
  <2>2. CASE i # j
    BY <1>6, <1>8, <1>11, <2>2
  <2> QED BY <2>1, <2>2
<1>13. \A i \in 1..res.n_static : /\ res.static[i] = Ptr(file.base, res.static[i].to)
                                  /\ res.static[i].to \in Live(file)
  BY <1>10, <1>12
<1>14. res.root = Ptr(file.base, res.root.to) /\ res.root.to \in {0} \cup Live(file)
  BY <1>10, <1>11
<1>15. static' \in -1..maxStaticData /\ static' <= res.n_static
  BY <1>2, <1>6, <1>10
<1> QED BY <1>2, <1>9, <1>10, <1>13, <1>14, <1>15, HeaderStep

\* The steps of a static data section that change its index only.
LEMMA IndexStep ==
  ASSUME OpenInv, begin_static_data \/ get_static_data \/ end_static_data
  PROVE  OpenInv'
<1>1. /\ Change({}) /\ file' = file
      /\ \/ static' = 0 \/ static' = -1
         \/ static < file.n_static /\ static >= 0 /\ static' = static + 1
  BY DEF begin_static_data, get_static_data, end_static_data
<1>2. pc = "ready"
  BY <1>1 DEF Change
<1>3. /\ Sound(file) /\ static \in -1..maxStaticData
      /\ file.n_static \in Nat /\ file.n_static <= maxStaticData /\ maxStaticData \in Nat
  BY <1>2, OpenFacts
<1>4. static' \in -1..maxStaticData /\ static' <= file.n_static
  BY <1>1, <1>3
<1>5. SameClasses(file, file)
  BY DEF SameClasses
<1>6. PICK res, items : res = file /\ items = {}
  OBVIOUS
<1>7. /\ items \in SUBSET ({Header} \cup Cell) /\ Change(items) /\ Header \notin items
      /\ file' = res /\ Sound(res) /\ SameClasses(file, res)
      /\ res.base = file.base /\ res.timestamp = file.timestamp
      /\ res.n_classes = file.n_classes
      /\ static' \in -1..maxStaticData /\ static' <= res.n_static
      /\ \A e \in Cell \ items : res.cell[e] = file.cell[e]
      /\ [res EXCEPT !.cell = 0] = [file EXCEPT !.cell = 0]
  BY <1>1, <1>3, <1>4, <1>5, <1>6
<1> QED BY <1>7, ChangeStep

----------------------------------------------------------------------------
(* Commit, rollback, close and crash. *)

\* Two images are in agreement with an empty log.
LEMMA LogSame ==
  ASSUME NEW f, Sound(f), file' = f, saved' = f, fresh' => pc' = "dictionary",
         dirty' \subseteq 0..f.top
  PROVE  LogInv'
BY DEF LogInv

\* A step of an open storage that leaves the process as it is.
LEMMA QuietStep ==
  ASSUME OpenInv, pc = "ready", UNCHANGED <<pc, process, kind>>,
         NEW f, NEW s, file' = f, saved' = s, Sound(f), Sound(s), Counted(f),
         tx => Counted(s), MappedInv(f), tx => MappedInv(s), static <= f.n_static,
         LogInv'
  PROVE  OpenInv'
<1>1. TypeOK /\ ProcessInv
  BY DEF OpenInv
<1>2. UNCHANGED <<pc, prog, hdr, fresh, app_class_mapping, dbs_class_mapping, list,
                  static, tx, virt>>
  BY DEF process, kind
<1>3. Sound(file)' /\ Sound(saved)'
  BY <1>2, SoundNext
<1>4. MappedInv(file)' /\ (tx => MappedInv(saved)')
  <2>1. PICK a, d : a = app_class_mapping /\ d = dbs_class_mapping
    OBVIOUS
  <2>2. app_class_mapping' = a /\ dbs_class_mapping' = d /\ virt' = virt
        /\ hdr' = hdr /\ prog' = prog
    BY <1>2, <2>1
  <2>3. /\ f.base = hdr /\ (virt => f.timestamp = prog) /\ Fits(f, a, d)
        /\ tx => s.base = hdr /\ (virt => s.timestamp = prog) /\ Fits(s, a, d)
    BY <2>1, MappedIs
  <2>4. MappedInv(file)'
    BY <2>2, <2>3, MappedNext
  <2>5. tx => MappedInv(saved)'
    BY <2>2, <2>3, MappedNext
  <2> QED BY <2>4, <2>5
<1>5. TypeOK'
  <2>1. f \in Image /\ s \in Image
    BY DEF Sound
  <2>2. dirty' \subseteq 0..s.top /\ s.top \in 0..MaxCell
    BY <2>1, ImageFields DEF LogInv
  <2>3. dirty' \subseteq {Header} \cup Cell
    BY <2>2, DirtyType
  <2> QED BY <1>1, <1>2, <2>1, <2>3 DEF TypeOK
<1>6. ProcessInv'
  BY <1>1, <1>2, <1>4 DEF ProcessInv
<1>7. (tx => Counted(saved))' /\ Counted(file)'
  BY <1>2 DEF Counted
<1> QED BY <1>2, <1>3, <1>5, <1>6, <1>7 DEF OpenInv

\* commit() keeps the invariant.
LEMMA CommitStep ==
  ASSUME OpenInv, commit
  PROVE  OpenInv'
<1>1. /\ pc = "ready" /\ tx /\ saved' = file /\ dirty' = {} /\ file' = file
      /\ UNCHANGED <<pc, process, kind>>
  BY DEF commit
<1>2. /\ Sound(file) /\ Counted(file) /\ MappedInv(file) /\ static <= file.n_static /\ LogInv
  BY <1>1 DEF OpenInv, ProcessInv
<1>3. PICK f : f = file
  OBVIOUS
<1>4. fresh' => pc' = "dictionary"
  BY <1>1, <1>2 DEF process, LogInv
<1>5. LogInv'
  <2>1. file' = f /\ saved' = f /\ Sound(f) /\ dirty' \subseteq 0..f.top
    BY <1>1, <1>2, <1>3
  <2> QED BY <1>4, <2>1, LogSame
<1>6. /\ file' = f /\ saved' = f /\ Sound(f) /\ Counted(f) /\ MappedInv(f)
      /\ static <= f.n_static
  BY <1>1, <1>2, <1>3
<1> QED BY <1>1, <1>5, <1>6, QuietStep

\* rollback() keeps the invariant.
LEMMA RollbackStep ==
  ASSUME OpenInv, rollback
  PROVE  OpenInv'
<1>1. /\ pc = "ready" /\ tx /\ static = -1 /\ file' = Recovered /\ saved' = saved
      /\ dirty' = dirty /\ UNCHANGED <<pc, process, kind>>
  BY DEF rollback
<1>2. /\ Sound(file) /\ Sound(saved) /\ Counted(saved) /\ MappedInv(saved) /\ LogInv
  BY <1>1 DEF OpenInv, ProcessInv
<1>3. ~fresh
  BY <1>1, <1>2 DEF LogInv
<1>4. Recovered = saved
  BY <1>1, <1>2, <1>3, Restored
<1>5. PICK s : s = saved
  OBVIOUS
<1>6. /\ file' = s /\ saved' = s /\ Sound(s) /\ Counted(s) /\ MappedInv(s)
  BY <1>1, <1>2, <1>4, <1>5
<1>7. static <= s.n_static
  <2>1. s.n_static \in Nat
    BY <1>6, ImageFields, OpenAssumption DEF Sound
  <2> QED BY <1>1, <2>1
<1>8. dirty' \subseteq 0..s.top /\ (fresh' => pc' = "dictionary")
  BY <1>1, <1>2, <1>5 DEF process, LogInv
<1>9. LogInv'
  BY <1>6, <1>8, LogSame
<1> QED BY <1>1, <1>6, <1>7, <1>9, QuietStep

\* A step that ends the process.
LEMMA GoneStep ==
  ASSUME OpenInv, Gone, pc' = "closed", UNCHANGED kind,
         NEW f, NEW s, file' = f, saved' = s, Sound(f), Sound(s), tx => Counted(s),
         ~tx => Counted(f), LogInv'
  PROVE  OpenInv'
<1>1. tx' = tx /\ virt' = virt /\ TypeOK
  BY DEF kind, OpenInv
<1>2. Sound(file)' /\ Sound(saved)'
  BY <1>1, SoundNext
<1>3. TypeOK'
  <2>1. f \in Image /\ s \in Image
    BY DEF Sound
  <2>2. dirty' \subseteq 0..s.top /\ s.top \in 0..MaxCell
    BY <2>1, ImageFields DEF LogInv
  <2>3. dirty' \subseteq {Header} \cup Cell
    BY <2>2, DirtyType
  <2>4. /\ prog' = None /\ hdr' = 0 /\ fresh' = FALSE /\ static' = -1
        /\ maxStaticData \in Nat
    BY OpenAssumption DEF Gone
  <2>5. static' \in -1..maxStaticData
    BY <2>4
  <2> QED BY <1>1, <2>1, <2>3, <2>4, <2>5 DEF TypeOK
<1>4. ProcessInv'
  BY DEF ProcessInv
<1>5. (tx => Counted(saved))' /\ (~tx => Counted(file)')
  BY <1>1 DEF Counted
<1> QED BY <1>1, <1>2, <1>3, <1>4, <1>5 DEF OpenInv

\* close() keeps the invariant.
LEMMA CloseStep ==
  ASSUME OpenInv, close
  PROVE  OpenInv'
<1>1. /\ pc \in {"ready", "reading"} /\ pc' = "closed" /\ Gone /\ file' = file
      /\ UNCHANGED kind
  BY DEF close
<1>2. /\ Sound(file) /\ Sound(saved) /\ (tx => Counted(saved)) /\ Counted(file) /\ LogInv
  BY <1>1 DEF OpenInv
<1>3. PICK f, s : f = file /\ s = saved
  OBVIOUS
<1>4. ~fresh'
  BY <1>1 DEF Gone
<1>5. CASE pc = "ready" /\ tx
  <2>1. saved' = f /\ dirty' = {} /\ file' = f /\ Sound(f) /\ Counted(f)
    BY <1>1, <1>2, <1>3, <1>5 DEF close, Saved
  <2>2. dirty' \subseteq 0..f.top /\ (fresh' => pc' = "dictionary")
    BY <1>4, <2>1
  <2>3. LogInv'
    BY <2>1, <2>2, LogSame
  <2> QED BY <1>1, <2>1, <2>3, GoneStep
<1>6. CASE ~(pc = "ready" /\ tx)
  <2>1. saved' = s /\ file' = f /\ Sound(f) /\ Sound(s) /\ (tx => Counted(s)) /\ Counted(f)
    BY <1>1, <1>2, <1>3, <1>6 DEF close, Saved
  <2>2. dirty' = dirty \/ dirty' = {}
    BY DEF close
  <2>3. tx => dirty' = dirty
    BY <1>1, <1>6 DEF close
  <2>4. tx' = tx /\ saved' = saved /\ file' = file
    BY <1>1, <1>3, <2>1 DEF kind
  <2>5. ~fresh
    BY <1>1, <1>2 DEF LogInv
  <2>6. LogInv'
    BY <1>2, <1>4, <2>2, <2>3, <2>4, <2>5 DEF LogInv
  <2> QED BY <1>1, <2>1, <2>6, GoneStep
<1> QED BY <1>5, <1>6

\* Except in the first open of a file, a crash leaves a log that fits.
LEMMA CrashStep ==
  ASSUME ~CrashWhenNew, OpenInv, Crash
  PROVE  OpenInv'
<1>1. /\ tx /\ ~fresh /\ Gone /\ pc' = "closed" /\ UNCHANGED kind
      /\ file' = file /\ saved' = saved /\ dirty' = dirty
  BY DEF Crash
<1>2. /\ Sound(file) /\ Sound(saved) /\ (tx => Counted(saved)) /\ LogInv
  BY DEF OpenInv
<1>3. PICK f, s : f = file /\ s = saved
  OBVIOUS
<1>4. /\ file' = f /\ saved' = s /\ Sound(f) /\ Sound(s) /\ (tx => Counted(s))
  BY <1>1, <1>2, <1>3
<1>5. LogInv'
  BY <1>1, <1>2 DEF LogInv, Gone, kind
<1> QED BY <1>1, <1>4, <1>5, GoneStep

----------------------------------------------------------------------------
(* The steps of open(). *)

\* The end of open() keeps the invariant.
LEMMA OpenDoneStep ==
  ASSUME OpenInv, open_done
  PROVE  OpenInv'
<1>1. /\ pc = "dictionary" /\ list = <<>> /\ pc' = "ready" /\ dirty' = {} /\ ~fresh'
      /\ UNCHANGED <<prog, hdr, app_class_mapping, dbs_class_mapping, list, static, tx, virt>>
  BY DEF open_done, kind
<1>2. /\ Sound(file) /\ Sound(saved) /\ file \in Image /\ MappedInv(file) /\ TypeOK
      /\ prog \in Program /\ hdr \in Base /\ static <= file.n_static
      /\ DOMAIN app_class_mapping = Range(Registry[prog])
      /\ DOMAIN dbs_class_mapping = 0..(Cardinality(Class) + first_cid)
      /\ NextId = Cardinality(Meta(file)) + first_cid
      /\ \A c \in DOMAIN app_class_mapping \ Range(list) : app_class_mapping[c] # 0
  BY <1>1 DEF OpenInv, ProcessInv, Sound
<1>3. PICK n \in Nat : n = Cardinality(Meta(file))
  BY <1>2, Kinds
<1>4. NextId - first_cid = n
  <2>1. NextId = n + 3
    BY <1>2, <1>3 DEF first_cid
  <2>2. n + 3 - 3 = n
    OBVIOUS
  <2> QED BY <2>1, <2>2 DEF first_cid
<1>5. PICK res : res = [file EXCEPT !.n_classes = n]
  OBVIOUS
<1>6. file' = res /\ saved' = Saved(res)
  BY <1>4, <1>5 DEF open_done, Saved
<1>7. /\ res \in Image /\ res.n_classes = n
      /\ res.base = file.base /\ res.timestamp = file.timestamp /\ res.top = file.top
      /\ res.class_dictionary = file.class_dictionary /\ res.free = file.free
      /\ res.cell = file.cell /\ res.root = file.root
      /\ res.n_static = file.n_static /\ res.static = file.static
  BY <1>2, <1>5 DEF Image
<1>8. file.base # 0
  BY <1>1, OpenFacts DEF OpenInv, ProcessInv
<1>9. Sound(res) /\ SameClasses(file, res)
  <2>1. /\ file.root = Ptr(file.base, file.root.to) /\ file.root.to \in {0} \cup Live(file)
        /\ \A i \in 1..file.n_static : /\ file.static[i] = Ptr(file.base, file.static[i].to)
                                       /\ file.static[i].to \in Live(file)
    BY <1>2 DEF Sound, PlaceInv, KindInv
  <2> QED BY <1>2, <1>7, <1>8, <2>1, HeaderSound
<1>10. Counted(res)
  BY <1>3, <1>7, <1>9 DEF Counted, SameClasses
<1>11. PICK s : s = saved
  OBVIOUS
<1>12. (tx => saved' = res) /\ (~tx => saved' = s) /\ Sound(s)
  BY <1>2, <1>6, <1>11 DEF Saved
<1>13. Sound(file)' /\ Sound(saved)'
  <2>1. Sound(file)'
    BY <1>1, <1>6, <1>9, SoundNext
  <2>2. PICK g : saved' = g /\ Sound(g)
    BY <1>9, <1>12
  <2>3. Sound(saved)'
    BY <1>1, <2>2, SoundNext
  <2> QED BY <2>1, <2>3
<1>14. MappedInv(file)' /\ (tx => MappedInv(saved)')
  <2>1. PICK a, d : a = app_class_mapping /\ d = dbs_class_mapping
    OBVIOUS
  <2>2. app_class_mapping' = a /\ dbs_class_mapping' = d /\ virt' = virt
        /\ hdr' = hdr /\ prog' = prog
    BY <1>1, <2>1
  <2>3. file.base = hdr /\ (virt => file.timestamp = prog) /\ Fits(file, a, d)
    BY <1>2, <2>1, MappedIs
  <2>4. res.base = hdr /\ (virt => res.timestamp = prog) /\ Fits(res, a, d)
    BY <1>7, <1>9, <2>3, FitsSame
  <2>5. MappedInv(file)'
    BY <1>6, <2>2, <2>4, MappedNext
  <2>6. tx => MappedInv(saved)'
    BY <1>12, <2>2, <2>4, MappedNext
  <2> QED BY <2>5, <2>6
<1>15. LogInv'
  BY <1>1, <1>6, <1>12 DEF LogInv
<1>16. TypeOK'
  <2>1. saved' \in Image /\ file' \in Image /\ fresh' \in BOOLEAN
    BY <1>1, <1>2, <1>6, <1>7, <1>12 DEF Sound, open_done
  <2> QED BY <1>1, <1>2, <2>1 DEF TypeOK
<1>17. ProcessInv'
  BY <1>1, <1>2, <1>6, <1>7, <1>14 DEF ProcessInv
<1>18. (tx => Counted(saved))' /\ Counted(file)'
  BY <1>1, <1>6, <1>10, <1>12 DEF Counted
<1> QED BY <1>1, <1>13, <1>15, <1>16, <1>17, <1>18 DEF OpenInv

\* What a list has but its first element.
LEMMA ListRest ==
  ASSUME NEW S, NEW l \in Seq(S), l # <<>>
  PROVE  /\ Head(l) \in S /\ Tail(l) \in Seq(S)
         /\ \A c : c \in Range(l) => c = Head(l) \/ c \in Range(Tail(l))
<1>1. Head(l) \in S /\ Tail(l) \in Seq(S) /\ Len(l) \in Nat /\ Len(l) # 0
  OBVIOUS
<1>2. ASSUME NEW c \in Range(l), c # Head(l) PROVE c \in Range(Tail(l))
  <2>1. PICK i \in DOMAIN l : l[i] = c
    BY <1>2 DEF Range
  <2>2. i \in 1..Len(l) /\ i # 1
    BY <1>2, <2>1
  <2>3. i - 1 \in 1..Len(Tail(l)) /\ Tail(l)[i - 1] = l[i]
    BY <1>1, <2>2
  <2>4. i - 1 \in DOMAIN Tail(l)
    BY <1>1, <2>3
  <2> QED BY <2>1, <2>3, <2>4 DEF Range
<1> QED BY <1>1, <1>2

\* The number of the next class, for an image and the ids of a process.
Number(n, app) ==
  n + first_cid + Cardinality({c \in DOMAIN app : app[c] >= n + first_cid})

With(f, x, y) == [f EXCEPT ![x] = y]

\* A class that gets the next id leaves a next id that is one more.
LEMMA NumberNext ==
  ASSUME NEW n \in Nat, NEW app, DOMAIN app \subseteq Class, NEW h \in DOMAIN app,
         app[h] = 0, NEW m, m = Number(n, app), NEW a, a = With(app, h, m)
  PROVE  /\ m \in Nat /\ m >= n + first_cid /\ Number(n, a) = m + 1
         /\ DOMAIN a = DOMAIN app /\ a[h] = m
         /\ \A c \in DOMAIN app : c # h => a[c] = app[c]
<1>1. PICK S : S = {c \in DOMAIN app : app[c] >= n + first_cid}
  OBVIOUS
<1>2. IsFiniteSet(S) /\ Cardinality(S) \in Nat /\ m = n + first_cid + Cardinality(S)
  <2>1. S \subseteq Class
    BY <1>1
  <2> QED BY <1>1, <2>1, Numbers, FS_Subset, FS_CardinalityType DEF Number
<1>3. m \in Nat /\ m >= n + first_cid
  BY <1>2 DEF first_cid
<1>4. h \notin S
  BY <1>1 DEF first_cid
<1>5. PICK T : T = {c \in DOMAIN a : a[c] >= n + first_cid}
  OBVIOUS
<1>6. /\ DOMAIN a = DOMAIN app /\ a[h] = m
      /\ \A c \in DOMAIN app : c # h => a[c] = app[c]
  BY DEF With
<1>7. T = S \cup {h}
  BY <1>1, <1>3, <1>5, <1>6
<1>8. Cardinality(S \cup {h}) = Cardinality(S) + 1
  BY <1>2, <1>4, FS_AddElement
<1>9. Number(n, a) = n + first_cid + Cardinality(T)
  BY <1>5 DEF Number
<1> QED BY <1>2, <1>3, <1>6, <1>7, <1>8, <1>9 DEF first_cid

\* The mappings follow the dictionary when a class is stored.
LEMMA FitsClass ==
  ASSUME NEW img, Sound(img), NEW app, NEW dbs, Fits(img, app, dbs),
         NEW h \in DOMAIN app, app[h] = 0, NEW m, m = first_cid + Cardinality(Meta(img)),
         NEW n \in Nat, DOMAIN dbs = 0..n, m \in 0..n, NEW a, a = With(app, h, m),
         NEW b, b = With(dbs, m, h), NEW res, NEW k, k \notin Meta(img),
         Meta(res) = Meta(img) \cup {k}, res.cell[k].own = h, Id(res, k) = m,
         \A d \in Meta(img) : res.cell[d].own = img.cell[d].own /\ Id(res, d) = Id(img, d)
  PROVE  Fits(res, a, b)
<1>1. /\ DOMAIN a = DOMAIN app /\ a[h] = m
      /\ \A c \in DOMAIN app : c # h => a[c] = app[c]
  BY DEF With
<1>2. b[m] = h /\ \A i \in 0..n : i # m => b[i] = dbs[i]
  BY DEF With
<1>3. ASSUME NEW d \in Meta(img)
      PROVE  IF res.cell[d].own \in DOMAIN a
             THEN a[res.cell[d].own] = Id(res, d) /\ b[Id(res, d)] = res.cell[d].own
             ELSE b[Id(res, d)] = None
  <2>1. PICK o, i : o = img.cell[d].own /\ i = Id(img, d)
    OBVIOUS
  <2>2. res.cell[d].own = o /\ Id(res, d) = i
    BY <2>1
  <2>3. i \in Nat /\ i >= first_cid /\ i < first_cid + Cardinality(Meta(img))
    BY <2>1, IdFacts
  <2>4. i # m /\ i # 0 /\ i \in 0..n
    BY <2>3, Kinds DEF Sound, first_cid
  <2>5. IF o \in DOMAIN app THEN app[o] = i /\ dbs[i] = o ELSE dbs[i] = None
    BY <2>1 DEF Fits
  <2>6. o # h
    BY <2>4, <2>5
  <2> QED BY <1>1, <1>2, <2>2, <2>4, <2>5, <2>6
<1>4. ASSUME NEW c \in DOMAIN a PROVE a[c] = 0 \/ \E d \in Meta(res) : res.cell[d].own = c
  <2>1. CASE c = h
    BY <2>1
  <2>2. CASE c # h
    <3>1. app[c] = 0 \/ \E d \in Meta(img) : img.cell[d].own = c
      BY <1>1 DEF Fits
    <3> QED BY <1>1, <2>2, <3>1
  <2> QED BY <2>1, <2>2
<1>5. /\ res.cell[k].own \in DOMAIN a /\ a[res.cell[k].own] = Id(res, k)
      /\ b[Id(res, k)] = res.cell[k].own
  BY <1>1, <1>2
<1>6. \A d \in Meta(res) : d \in Meta(img) \/ d = k
  OBVIOUS
<1>7. ASSUME NEW d \in Meta(res)
      PROVE  IF res.cell[d].own \in DOMAIN a
             THEN a[res.cell[d].own] = Id(res, d) /\ b[Id(res, d)] = res.cell[d].own
             ELSE b[Id(res, d)] = None
  <2>1. CASE d \in Meta(img)
    BY <1>3, <2>1
  <2>2. CASE d = k
    BY <1>5, <2>2
  <2> QED BY <1>6, <2>1, <2>2
<1> QED BY <1>4, <1>7 DEF Fits

\* A turn of update_class_dictionary().
LEMMA TurnStep ==
  ASSUME OpenInv, pc = "dictionary",
         UNCHANGED <<saved, pc, prog, hdr, fresh, static, tx, virt>>,
         NEW res, NEW a, NEW b, file' = res, app_class_mapping' = a, dbs_class_mapping' = b,
         Sound(res), Fits(res, a, b),
         DOMAIN a = DOMAIN app_class_mapping, DOMAIN b = DOMAIN dbs_class_mapping,
         res.base = file.base, res.timestamp = file.timestamp,
         res.n_static = file.n_static,
         list' \in Seq(DOMAIN app_class_mapping),
         Number(res.n_classes, a) = Cardinality(Meta(res)) + first_cid,
         \A c \in DOMAIN a \ Range(list') : a[c] # 0,
         LogInv'
  PROVE  OpenInv'
<1>1. /\ Sound(file) /\ Sound(saved) /\ MappedInv(file) /\ TypeOK /\ (tx => Counted(saved))
      /\ prog \in Program /\ hdr \in Base /\ static <= file.n_static
      /\ DOMAIN app_class_mapping = Range(Registry[prog])
      /\ DOMAIN dbs_class_mapping = 0..(Cardinality(Class) + first_cid)
  BY DEF OpenInv, ProcessInv
<1>2. Sound(file)' /\ Sound(saved)'
  <2>1. Sound(file)'
    BY SoundNext
  <2>2. PICK s : s = saved
    OBVIOUS
  <2>3. saved' = s /\ Sound(s)
    BY <1>1, <2>2
  <2>4. Sound(saved)'
    BY <2>3, SoundNext
  <2> QED BY <2>1, <2>4
<1>3. MappedInv(file)'
  <2>1. file.base = hdr /\ (virt => file.timestamp = prog)
    BY <1>1, MappedIs
  <2>2. res.base = hdr' /\ (virt => res.timestamp = prog')
    BY <2>1
  <2> QED BY <2>2, MappedNext
<1>4. TypeOK'
  <2>1. res \in Image /\ saved \in Image
    BY <1>1 DEF Sound
  <2>2. dirty' \subseteq 0..saved.top /\ saved.top \in 0..MaxCell
    BY <2>1, ImageFields DEF LogInv
  <2>3. dirty' \subseteq {Header} \cup Cell
    BY <2>2, DirtyType
  <2> QED BY <1>1, <2>1, <2>3 DEF TypeOK
<1>5. NextId' = Cardinality(Meta(file)') + first_cid
  <2>1. NextId' = Number(res.n_classes, a)
    BY DEF NextId, Number
  <2>2. Meta(file)' = Meta(res)
    BY DEF Meta
  <2> QED BY <2>1, <2>2
<1>6. list' \in Seq(DOMAIN app_class_mapping')
  OBVIOUS
<1>7. \A c \in DOMAIN app_class_mapping' \ Range(list)' : app_class_mapping'[c] # 0
  BY DEF Range
<1>8. ProcessInv'
  BY <1>1, <1>3, <1>5, <1>6, <1>7 DEF ProcessInv
<1>9. (tx => Counted(saved))'
  BY <1>1 DEF Counted
<1> QED BY <1>2, <1>4, <1>8, <1>9 DEF OpenInv

\* A turn of update_class_dictionary() keeps the invariant.
LEMMA UpdateStep ==
  ASSUME OpenInv, update_class
  PROVE  OpenInv'
<1>1. /\ pc = "dictionary" /\ list # <<>> /\ list' = Tail(list)
      /\ UNCHANGED <<saved, pc, prog, hdr, fresh, static, tx, virt>>
  BY DEF update_class, kind
<1>2. /\ Sound(file) /\ file \in Image /\ file.base = hdr /\ hdr \in Base /\ hdr # 0
      /\ prog \in Program /\ (virt => file.timestamp = prog)
      /\ Fits(file, app_class_mapping, dbs_class_mapping)
      /\ DOMAIN app_class_mapping = Range(Registry[prog])
  BY <1>1, OpenFacts
<1>3. /\ Sound(saved) /\ LogInv
      /\ DOMAIN dbs_class_mapping = 0..(Cardinality(Class) + first_cid)
      /\ list \in Seq(DOMAIN app_class_mapping)
      /\ NextId = Cardinality(Meta(file)) + first_cid
      /\ \A c \in DOMAIN app_class_mapping \ Range(list) : app_class_mapping[c] # 0
  BY <1>1 DEF OpenInv, ProcessInv
<1>4. PICK h : h = Head(list)
  OBVIOUS
<1>5. /\ h \in DOMAIN app_class_mapping /\ list' \in Seq(DOMAIN app_class_mapping)
      /\ \A c : c \in Range(list) => c = h \/ c \in Range(list')
  BY <1>1, <1>3, <1>4, ListRest
<1>6. PICK n \in Nat : n = file.n_classes
  BY <1>2, ImageFields
<1>7. PICK app, dbs : app = app_class_mapping /\ dbs = dbs_class_mapping
  OBVIOUS
<1>8. NextId = Number(n, app)
  BY <1>6, <1>7 DEF NextId, Number
<1>9. CASE app_class_mapping[h] # 0
  <2>1. UNCHANGED <<file, dirty, app_class_mapping, dbs_class_mapping>>
    BY <1>4, <1>9 DEF update_class
  <2>2. \A c \in DOMAIN app \ Range(list') : app[c] # 0
    BY <1>3, <1>5, <1>7, <1>9
  <2>3. LogInv'
    BY <1>1, <1>3, <2>1 DEF LogInv
  <2>4. PICK res : res = file
    OBVIOUS
  <2>5. /\ file' = res /\ app_class_mapping' = app /\ dbs_class_mapping' = dbs
        /\ Sound(res) /\ Fits(res, app, dbs)
        /\ DOMAIN app = DOMAIN app_class_mapping /\ DOMAIN dbs = DOMAIN dbs_class_mapping
        /\ res.base = file.base /\ res.timestamp = file.timestamp
        /\ res.n_static = file.n_static
        /\ Number(res.n_classes, app) = Cardinality(Meta(res)) + first_cid
    BY <1>2, <1>3, <1>6, <1>7, <1>8, <2>1, <2>4
  <2> QED BY <1>1, <1>5, <2>2, <2>3, <2>5, TurnStep
<1>10. CASE app_class_mapping[h] = 0
  <2>1. PICK k, r, x, m, dd :
          /\ k = Alloc(file)[1] /\ r = Alloc(file)[2] /\ m = NextId /\ dd = Ptr(hdr, k)
          /\ x = Object(metaclass_cid, file.class_dictionary, h)
    OBVIOUS
  <2>2. PICK a, b, res : /\ a = With(app, h, m) /\ b = With(dbs, m, h)
                         /\ res = Filled(r, k, x, dd)
    OBVIOUS
  <2>3. /\ file' = res /\ dirty' = Logged({Header, k})
        /\ app_class_mapping' = a /\ dbs_class_mapping' = b
    <3>1. ~(app_class_mapping[Head(list)] # 0)
      BY <1>4, <1>10
    <3>2. file' = res /\ dirty' = Logged({Header, k})
      BY <1>4, <2>1, <2>2, <3>1 DEF update_class, Filled
    <3>3. app_class_mapping' = a /\ dbs_class_mapping' = b
      BY <1>4, <1>7, <2>1, <2>2, <3>1 DEF update_class, With
    <3> QED BY <3>2, <3>3
  <2>4. /\ h \in Class /\ DOMAIN app \subseteq Class
    <3>1. Range(Registry[prog]) \subseteq Class
      BY <1>2 DEF Class
    <3> QED BY <1>2, <1>5, <1>7, <3>1
  <2>5. \A d \in Meta(file) : file.cell[d].own # h
    <3>1. ASSUME NEW d \in Meta(file), file.cell[d].own = h PROVE FALSE
      <4>1. app_class_mapping[h] = Id(file, d)
        BY <1>2, <1>5, <3>1 DEF Fits
      <4>2. Id(file, d) \in Nat /\ Id(file, d) >= first_cid
        BY <1>2, IdFacts
      <4> QED BY <1>10, <4>1, <4>2 DEF first_cid
    <3> QED BY <3>1
  <2>6. /\ Cardinality(Meta(file)) < Cardinality(Class)
        /\ Cardinality(Meta(file)) \in Nat /\ Cardinality(Class) \in Nat
        /\ Cardinality(Live(file)) \in Nat /\ Cardinality(Live(file)) <= MaxObjects
        /\ MaxObjects \in Nat
    BY <1>2, <2>4, <2>5, Missing, Kinds, Numbers, OpenAssumption DEF Sound, ObjectInv
  <2>7. Allots(file, k, r)
    <3>1. PICK img, l, q, c : /\ img = file /\ l = Cardinality(Live(file))
                              /\ q = Cardinality(Meta(file)) /\ c = Cardinality(Class)
      OBVIOUS
    <3>2. l \in Nat /\ q \in Nat /\ c \in Nat /\ l <= MaxObjects /\ q < c /\ MaxObjects \in Nat
      BY <2>6, <3>1
    <3>3. l + q < MaxObjects + c
      BY <3>2
    <3>4. Sound(img) /\ img.base = hdr /\ Cardinality(Live(img)) + Cardinality(Meta(img)) < MaxCell
      BY <1>2, <3>1, <3>3 DEF MaxCell
    <3>5. Allots(img, Alloc(img)[1], Alloc(img)[2])
      BY <1>2, <3>4, AllocAllots
    <3> QED BY <2>1, <3>1, <3>5
  <2>8. /\ x \in CellRecord /\ x.cid = metaclass_cid /\ x.ptr = file.class_dictionary
        /\ x.own = h /\ (virt => x.vt = file.timestamp)
    <3>1. file.class_dictionary \in Pointer
      BY <1>2, ImageFields
    <3>2. x = [cid |-> metaclass_cid, ptr |-> file.class_dictionary, own |-> h,
               vt |-> IF virt THEN prog ELSE None]
      BY <2>1 DEF Object
    <3> QED BY <1>2, <2>4, <3>1, <3>2 DEF CellRecord, metaclass_cid
  <2>9. dd \in Pointer /\ k \in Cell
    <3>1. k \in Cell
      BY <2>7 DEF Allots
    <3> QED BY <1>2, <2>1, <3>1, PointerAt
  <2>10. /\ Puts(file, k, x, res) /\ res.class_dictionary = Ptr(file.base, k)
         /\ res.base = file.base /\ res.timestamp = file.timestamp
         /\ res.n_classes = file.n_classes /\ res.n_static = file.n_static
         /\ \A e \in Cell : e # k => res.cell[e] = file.cell[e]
    <3>1. PICK img : img = file
      OBVIOUS
    <3>2. Sound(img) /\ Allots(img, k, r)
      BY <1>2, <2>7, <3>1
    <3>3. /\ Puts(img, k, x, res) /\ res.class_dictionary = dd
          /\ res.base = img.base /\ res.timestamp = img.timestamp
          /\ res.n_classes = img.n_classes /\ res.n_static = img.n_static
          /\ \A e \in Cell : e # k => res.cell[e] = img.cell[e]
      BY <2>2, <2>8, <2>9, <3>2, AllotsPuts
    <3> QED BY <1>2, <2>1, <3>1, <3>3
  <2>11. /\ Sound(res) /\ k \notin Meta(file)
         /\ Meta(res) = Meta(file) \cup {k} /\ res.cell[k].own = x.own
         /\ Cardinality(Meta(res)) = Cardinality(Meta(file)) + 1
         /\ \A d \in Meta(file) : res.cell[d].own = file.cell[d].own /\ Id(res, d) = Id(file, d)
         /\ Id(res, k) = first_cid + Cardinality(Meta(file))
    <3>1. x.own \in Class /\ \A d \in Meta(file) : file.cell[d].own # x.own
      BY <2>4, <2>5, <2>8
    <3>2. file.base # 0
      BY <1>2
    <3> QED BY <1>2, <2>8, <2>10, <3>1, <3>2, ClassSound
  <2>12. /\ m \in Nat /\ Number(n, a) = m + 1 /\ DOMAIN a = DOMAIN app /\ a[h] = m
         /\ m >= n + first_cid
         /\ \A c \in DOMAIN app : c # h => a[c] = app[c]
    <3>1. h \in DOMAIN app /\ app[h] = 0 /\ m = Number(n, app)
      BY <1>5, <1>7, <1>8, <1>10, <2>1
    <3> QED BY <2>2, <2>4, <3>1, NumberNext
  <2>13. Number(res.n_classes, a) = Cardinality(Meta(res)) + first_cid
    <3>1. m = Cardinality(Meta(file)) + first_cid
      BY <1>3, <2>1
    <3> QED BY <1>6, <2>6, <2>10, <2>11, <2>12, <3>1 DEF first_cid
  <2>14. PICK z \in Nat : z = Cardinality(Class) + first_cid
    BY <2>6 DEF first_cid
  <2>15. m = first_cid + Cardinality(Meta(file)) /\ m \in 0..z
    <3>1. m = first_cid + Cardinality(Meta(file))
      BY <1>3, <2>1, <2>6 DEF first_cid
    <3> QED BY <2>6, <2>14, <3>1 DEF first_cid
  <2>16. Fits(res, a, b)
    <3>1. PICK img : img = file
      OBVIOUS
    <3>2. /\ Sound(img) /\ Fits(img, app, dbs) /\ h \in DOMAIN app /\ app[h] = 0
          /\ m = first_cid + Cardinality(Meta(img)) /\ DOMAIN dbs = 0..z /\ m \in 0..z
          /\ k \notin Meta(img) /\ Meta(res) = Meta(img) \cup {k} /\ res.cell[k].own = h
          /\ Id(res, k) = m
      BY <1>2, <1>3, <1>5, <1>7, <1>10, <2>8, <2>11, <2>14, <2>15, <3>1
    <3>3. \A d \in Meta(img) : res.cell[d].own = img.cell[d].own /\ Id(res, d) = Id(img, d)
      BY <2>11, <3>1
    <3> QED BY <2>2, <2>14, <3>2, <3>3, FitsClass
  <2>17. DOMAIN b = DOMAIN dbs_class_mapping /\ DOMAIN a = DOMAIN app_class_mapping
    BY <1>7, <2>2 DEF With
  <2>18. \A c \in DOMAIN a \ Range(list') : a[c] # 0
    <3>1. a[h] # 0
      BY <1>6, <2>12 DEF first_cid
    <3>2. ASSUME NEW c \in DOMAIN a \ Range(list'), c # h PROVE a[c] # 0
      <4>1. c \in DOMAIN app_class_mapping \ Range(list) /\ a[c] = app_class_mapping[c]
        BY <1>5, <1>7, <2>12, <2>17, <3>2
      <4> QED BY <1>3, <4>1
    <3> QED BY <3>1, <3>2
  <2>19. LogInv'
    <3>1. PICK items : items = {Header, k}
      OBVIOUS
    <3>2. /\ items \in SUBSET ({Header} \cup Cell) /\ dirty' = Logged(items)
          /\ Header \in items /\ \A c \in Cell \ items : res.cell[c] = file.cell[c]
      BY <2>3, <2>9, <2>10, <3>1
    <3>3. UNCHANGED <<saved, fresh, tx>> /\ pc' = "dictionary"
      BY <1>1
    <3> QED BY <1>3, <2>3, <3>2, <3>3, LogStep
  <2>20. /\ res.base = file.base /\ res.timestamp = file.timestamp
         /\ res.n_static = file.n_static /\ Sound(res)
    BY <2>10, <2>11
  <2> QED BY <1>1, <1>5, <2>3, <2>13, <2>16, <2>17, <2>18, <2>19, <2>20, TurnStep
<1> QED BY <1>9, <1>10

\* The image that open() works on is that of the last commit, or the one the
\* program without transactions left behind.
LEMMA OpenedSound ==
  ASSUME ~ReadAfterCrash, OpenInv, NEW p, NEW b, NEW ro \in BOOLEAN, NEW gc, open(p, b, ro, gc)
  PROVE  /\ Sound(Opened(ro)) /\ Counted(Opened(ro))
         /\ ro /\ tx => dirty = {}
<1>1. pc = "closed" /\ (ro => (dirty # {} => ReadAfterCrash))
  BY DEF open
<1>2. /\ Sound(file) /\ Sound(saved) /\ (tx => Counted(saved)) /\ LogInv
      /\ (~tx => Counted(file))
  BY <1>1 DEF OpenInv
<1>3. ~fresh
  BY <1>1, <1>2 DEF LogInv
<1>4. CASE tx /\ ~ro
  BY <1>2, <1>3, <1>4, Restored DEF Opened
<1>5. CASE ~tx
  BY <1>1, <1>2, <1>5 DEF Opened
<1>6. CASE tx /\ ro
  <2>1. dirty = {}
    BY <1>1, <1>6
  <2>2. Recovered = file
    <3>1. file \in Image
      BY <1>2 DEF Sound
    <3>2. PICK cells : cells = [c \in Cell |->
                 IF c > saved.top /\ Header \in dirty THEN Free(NULL)
                 ELSE IF c \in dirty THEN saved.cell[c] ELSE file.cell[c]]
      OBVIOUS
    <3>3. cells = [c \in Cell |-> file.cell[c]]
      BY <2>1, <3>2
    <3>4. file.cell \in [Cell -> CellRecord]
      BY <3>1, ImageFields
    <3>5. cells = file.cell
      BY <3>3, <3>4
    <3>6. Recovered = [file EXCEPT !.cell = cells]
      BY <2>1, <3>2 DEF Recovered
    <3> QED BY <3>1, <3>5, <3>6, SameCells
  <2>3. Recovered = saved
    BY <1>2, <1>3, <1>6, Restored
  <2> QED BY <1>2, <1>6, <2>1, <2>2, <2>3 DEF Opened
<1> QED BY <1>4, <1>5, <1>6

\* open() logs every item it changes.
LEMMA StoredFacts ==
  ASSUME NEW img, NEW res, tx, img.base # 0, img.top \in Nat, NEW items,
         items = Stored(img, res)
  PROVE  /\ items \subseteq 0..img.top
         /\ Header \notin items => [res EXCEPT !.cell = 0] = [img EXCEPT !.cell = 0]
         /\ \A c \in 1..img.top : c \in items \/ res.cell[c] = img.cell[c]
<1>1. items \subseteq 0..img.top
  BY DEF Stored
<1>2. ASSUME Header \notin items PROVE [res EXCEPT !.cell = 0] = [img EXCEPT !.cell = 0]
  <2>1. 0 \in 0..img.top /\ Header = 0
    BY DEF Header
  <2> QED BY <1>2, <2>1 DEF Stored
<1>3. ASSUME NEW c \in 1..img.top, c \notin items PROVE res.cell[c] = img.cell[c]
  <2>1. c \in 0..img.top /\ c # Header
    BY DEF Header
  <2> QED BY <1>3, <2>1 DEF Stored
<1> QED BY <1>1, <1>2, <1>3

\* open(), up to update_class_dictionary(), keeps the invariant.
LEMMA OpenStep ==
  ASSUME ~ReadAfterCrash, OpenInv, NEW p \in Program, NEW b \in Base,
         NEW ro \in BOOLEAN, NEW gc \in BOOLEAN, open(p, b, ro, gc)
  PROVE  OpenInv'
<1>1. /\ pc = "closed" /\ hdr' = b /\ prog' = p /\ list' = Registry[p] /\ static' = -1
      /\ pc' = (IF ro THEN "reading" ELSE "dictionary") /\ tx' = tx /\ virt' = virt
  BY DEF open, kind
<1>2. PICK img : img = Opened(ro)
  OBVIOUS
<1>3. PICK res : res = Adjusted(img, b, p, gc)
  OBVIOUS
<1>4. PICK app, dbs : /\ app = AppMapping(Loaded(img, p), p)
                      /\ dbs = DbsMapping(Loaded(img, p))
  OBVIOUS
<1>5. /\ file' = res /\ fresh' = (img.base = 0)
      /\ app_class_mapping' = app /\ dbs_class_mapping' = dbs
      /\ ro => img.base # 0
      /\ ro => saved' = Saved(IF dirty = {} THEN res ELSE saved) /\ dirty' = dirty
      /\ ~ro => saved' = Saved(img) /\ dirty' = Stored(img, res)
  BY <1>2, <1>3, <1>4 DEF open
<1>6. Sound(img) /\ Counted(img) /\ (ro /\ tx => dirty = {})
  BY <1>2, OpenedSound
<1>7. /\ Sound(res) /\ SameClasses(img, res) /\ res.base = b /\ res.top = img.top
      /\ (virt => res.timestamp = p) /\ res.n_classes = img.n_classes
  BY <1>3, <1>6, AdjustedSound
<1>8. /\ Fits(img, app, dbs) /\ DOMAIN app = Range(Registry[p])
      /\ DOMAIN dbs = 0..(Cardinality(Class) + first_cid)
      /\ \A c \in DOMAIN app : app[c] \in Nat /\ app[c] < img.n_classes + first_cid
  BY <1>4, <1>6, LoadedFits
<1>9. Fits(res, app, dbs) /\ Counted(res)
  <2>1. Fits(res, app, dbs)
    BY <1>7, <1>8, FitsSame
  <2> QED BY <1>6, <1>7, <2>1 DEF Counted, SameClasses
<1>10. /\ Sound(saved) /\ TypeOK /\ LogInv
  BY DEF OpenInv
<1>11. PICK s : s = saved'
  OBVIOUS
<1>12. /\ Sound(s) /\ (tx => Counted(s)) /\ (~tx => s = saved)
       /\ tx => s = IF ro THEN res ELSE img
  BY <1>5, <1>6, <1>7, <1>9, <1>10, <1>11 DEF Saved
<1>13. Sound(file)' /\ Sound(saved)'
  <2>1. Sound(file)'
    BY <1>1, <1>5, <1>7, SoundNext
  <2>2. saved' = s /\ Sound(s) /\ virt' = virt
    BY <1>1, <1>11, <1>12
  <2>3. Sound(saved)'
    BY <2>2, SoundNext
  <2> QED BY <2>1, <2>3
<1>14. (tx => Counted(saved))' /\ Counted(file)'
  BY <1>1, <1>5, <1>9, <1>11, <1>12 DEF Counted
<1>15. /\ img \in Image /\ res \in Image /\ img.top \in Nat /\ img.n_classes \in Nat
  BY <1>6, <1>7, Kinds, ImageFields DEF Sound
<1>16. LogInv'
  <2>1. fresh' => pc' = "dictionary"
    BY <1>1, <1>5
  <2>2. CASE tx /\ ro
    <3>1. file' = res /\ saved' = res /\ dirty' \subseteq 0..res.top
      BY <1>5, <1>6, <1>11, <1>12, <2>2
    <3> QED BY <1>7, <2>1, <3>1, LogSame
  <2>3. CASE tx /\ ~ro
    <3>1. saved' = img /\ dirty' = Stored(img, res)
      BY <1>5, <1>11, <1>12, <2>3
    <3>2. dirty' \subseteq 0..img.top
      BY <3>1 DEF Stored
    <3>3. ASSUME img.base # 0
          PROVE  /\ Header \notin dirty' => [res EXCEPT !.cell = 0] = [img EXCEPT !.cell = 0]
                 /\ \A c \in 1..img.top : c \in dirty' \/ res.cell[c] = img.cell[c]
      <4>1. PICK items : items = Stored(img, res)
        OBVIOUS
      <4>2. /\ Header \notin items => [res EXCEPT !.cell = 0] = [img EXCEPT !.cell = 0]
            /\ \A c \in 1..img.top : c \in items \/ res.cell[c] = img.cell[c]
        BY <1>15, <2>3, <3>3, <4>1, StoredFacts
      <4> QED BY <3>1, <4>1, <4>2
    <3> QED BY <1>5, <2>1, <3>1, <3>2, <3>3 DEF LogInv
  <2>4. CASE ~tx
    <3>1. dirty' = dirty \/ dirty' = {}
      BY <1>5, <2>4 DEF Stored
    <3>2. saved' = saved /\ ~tx'
      BY <1>1, <1>11, <1>12, <2>4
    <3> QED BY <1>10, <2>1, <3>1, <3>2 DEF LogInv
  <2> QED BY <2>2, <2>3, <2>4
<1>17. TypeOK'
  <2>1. s \in Image
    BY <1>12 DEF Sound
  <2>2. dirty' \subseteq 0..s.top /\ s.top \in 0..MaxCell
    BY <1>11, <1>16, <2>1, ImageFields DEF LogInv
  <2>3. dirty' \subseteq {Header} \cup Cell
    BY <2>2, DirtyType
  <2>4. static' \in -1..maxStaticData
    BY <1>1, OpenAssumption
  <2>5. pc' \in {"closed", "dictionary", "ready", "reading"} /\ fresh' \in BOOLEAN
    BY <1>1, <1>5
  <2> QED BY <1>1, <1>5, <1>10, <1>11, <1>15, <2>1, <2>3, <2>4, <2>5 DEF TypeOK
<1>18. MappedInv(file)'
  <2>1. /\ file' = res /\ virt' = virt /\ app_class_mapping' = app /\ dbs_class_mapping' = dbs
        /\ res.base = hdr' /\ (virt => res.timestamp = prog') /\ Fits(res, app, dbs)
    BY <1>1, <1>5, <1>7, <1>9
  <2> QED BY <2>1, MappedNext
<1>19. NextId' = Cardinality(Meta(file)') + first_cid
  <2>1. PICK S : S = {c \in DOMAIN app : app[c] >= res.n_classes + first_cid}
    OBVIOUS
  <2>2. S = {}
    BY <1>7, <1>8, <1>15, <2>1 DEF first_cid
  <2>3. Cardinality(S) = 0
    BY <2>2, FS_EmptySet
  <2>4. NextId' = res.n_classes + first_cid + Cardinality(S)
    BY <1>5, <2>1 DEF NextId
  <2>5. res.n_classes = Cardinality(Meta(res)) /\ res.n_classes \in Nat
    BY <1>7, <1>9, <1>15 DEF Counted
  <2>6. Meta(file)' = Meta(res)
    BY <1>5 DEF Meta
  <2> QED BY <2>3, <2>4, <2>5, <2>6 DEF first_cid
<1>20. /\ list' \in Seq(DOMAIN app_class_mapping')
       /\ \A c \in DOMAIN app_class_mapping' \ Range(list)' : app_class_mapping'[c] # 0
  <2>1. Registry[p] \in Seq(Class)
    BY OpenAssumption
  <2>2. PICK l \in Seq(Class) : l = Registry[p]
    BY <2>1
  <2>3. l \in Seq(Range(l))
    <3>1. Len(l) \in Nat /\ DOMAIN l = 1..Len(l) /\ \A i \in DOMAIN l : l[i] \in Range(l)
      BY DEF Range
    <3>2. l \in [1..Len(l) -> Range(l)]
      BY <3>1
    <3> QED BY <3>1, <3>2
  <2>4. Range(list)' = Range(l)
    BY <1>1, <2>2 DEF Range
  <2> QED BY <1>1, <1>5, <1>8, <2>2, <2>3, <2>4
<1>21. static' <= file'.n_static
  <2>1. res.n_static \in Nat
    BY <1>15, ImageFields, OpenAssumption
  <2> QED BY <1>1, <1>5, <2>1
<1>22. ProcessInv'
  BY <1>1, <1>5, <1>8, <1>18, <1>19, <1>20, <1>21 DEF ProcessInv
<1> QED BY <1>13, <1>14, <1>16, <1>17, <1>22 DEF OpenInv

----------------------------------------------------------------------------
(* Invariance. *)

\* The invariant holds of a new file.
LEMMA OpenInit == Init => OpenInv
<1> SUFFICES ASSUME Init PROVE OpenInv
  OBVIOUS
<1>1. /\ file = Empty /\ saved = Empty /\ dirty = {} /\ pc = "closed" /\ prog = None
      /\ hdr = 0 /\ fresh = FALSE /\ static = -1 /\ tx \in BOOLEAN /\ virt \in BOOLEAN
  BY OpenAssumption DEF Init
<1>2. Sound(Empty) /\ Counted(Empty) /\ Empty \in Image
  BY EmptySound DEF Sound
<1>3. TypeOK
  <2>1. static \in -1..maxStaticData
    BY <1>1, OpenAssumption
  <2>2. file \in Image /\ saved \in Image
    BY <1>1, <1>2
  <2> QED BY <1>1, <2>1, <2>2 DEF TypeOK
<1>4. LogInv
  BY <1>1 DEF LogInv
<1>5. ProcessInv
  BY <1>1 DEF ProcessInv
<1> QED BY <1>1, <1>2, <1>3, <1>4, <1>5 DEF OpenInv

\* The invariant holds while nothing changes.
LEMMA OpenStutter ==
  ASSUME OpenInv, UNCHANGED vars
  PROVE  OpenInv'
<1>1. /\ UNCHANGED <<file, saved, dirty, pc, prog, hdr, fresh, app_class_mapping,
                     dbs_class_mapping, list, static, tx, virt>>
  BY DEF vars
<1>2. PICK f, s, a, d : f = file /\ s = saved /\ a = app_class_mapping /\ d = dbs_class_mapping
  OBVIOUS
<1>3. Sound(f) /\ Sound(s) /\ file' = f /\ saved' = s
  BY <1>1, <1>2 DEF OpenInv
<1>4. Sound(file)' /\ Sound(saved)'
  BY <1>1, <1>3, SoundNext
<1>5. TypeOK' /\ LogInv'
  BY <1>1 DEF OpenInv, TypeOK, LogInv
<1>6. pc # "closed" => MappedInv(file)' /\ (pc = "ready" /\ tx => MappedInv(saved)')
  <2>1. ASSUME NEW g, MappedInv(g)
        PROVE  (file' = g => MappedInv(file)') /\ (saved' = g => MappedInv(saved)')
    <3>1. g.base = hdr /\ (virt => g.timestamp = prog) /\ Fits(g, a, d)
      BY <1>2, <2>1, MappedIs
    <3> QED BY <1>1, <1>2, <3>1, MappedNext
  <2>2. pc # "closed" => MappedInv(f) /\ (pc = "ready" /\ tx => MappedInv(s))
    BY <1>2 DEF OpenInv, ProcessInv
  <2> QED BY <1>3, <2>1, <2>2
<1>7. ProcessInv'
  BY <1>1, <1>6 DEF OpenInv, ProcessInv, NextId, Meta, Range
<1>8. (tx => Counted(saved))' /\ (Counted(file) => Counted(file)')
  BY <1>1 DEF OpenInv, Counted
<1> QED BY <1>1, <1>4, <1>5, <1>7, <1>8 DEF OpenInv

\* Every step keeps the invariant.
LEMMA OpenNext ==
  ASSUME ~CrashWhenNew, ~ReadAfterCrash, OpenInv, [Next]_vars
  PROVE  OpenInv'
<1>1. CASE \E p \in Program, b \in Base, ro, gc \in BOOLEAN : open(p, b, ro, gc)
  BY <1>1, OpenStep
<1>2. CASE update_class
  BY <1>2, UpdateStep
<1>3. CASE open_done
  BY <1>3, OpenDoneStep
<1>4. CASE \E c \in DOMAIN app_class_mapping, q \in {0} \cup Live(file) : new(c, q)
  BY <1>4, NewStep
<1>5. CASE \E c \in Live(file) : delete(c)
  BY <1>5, DeleteStep
<1>6. CASE \E c \in {0} \cup Live(file) : set_root_object(c)
  BY <1>6, RootStep
<1>7. CASE begin_static_data \/ get_static_data \/ end_static_data
  BY <1>7, IndexStep
<1>8. CASE \E c \in Live(file) : set_static_data(c)
  BY <1>8, SetStaticStep
<1>9. CASE commit
  BY <1>9, CommitStep
<1>10. CASE rollback
  BY <1>10, RollbackStep
<1>11. CASE close
  BY <1>11, CloseStep
<1>12. CASE Crash
  BY <1>12, CrashStep
<1>13. CASE UNCHANGED vars
  BY <1>13, OpenStutter
<1> QED BY <1>1, <1>2, <1>3, <1>4, <1>5, <1>6, <1>7, <1>8, <1>9, <1>10, <1>11, <1>12, <1>13
        DEF Next

\* In any history of opens by different programs at different addresses, with
\* commits, rollbacks, collections and crashes, the image in the file, the one
\* of the last commit, the log and the mappings of the process fit together.
THEOREM OpenInvariance ==
  ~CrashWhenNew /\ ~ReadAfterCrash => (Spec => []OpenInv)
<1> SUFFICES ASSUME ~CrashWhenNew /\ ~ReadAfterCrash PROVE Spec => []OpenInv
  OBVIOUS
<1>1. OpenInv /\ [Next]_vars => OpenInv'
  BY OpenNext
<1> QED BY <1>1, OpenInit, PTL DEF Spec

\* The invariant gives class ids their meaning.
LEMMA ClassesFollow == OpenInv => ClassesResolve
<1> SUFFICES ASSUME OpenInv, InUse PROVE ClassesResolve
  BY DEF ClassesResolve
<1>1. pc # "closed" /\ (pc = "ready" \/ pc = "reading")
  BY DEF InUse
<1>2. Sound(file) /\ Fits(file, app_class_mapping, dbs_class_mapping)
  BY <1>1, OpenFacts
<1>3. ASSUME pc = "ready", NEW c \in DOMAIN app_class_mapping
      PROVE  app_class_mapping[c] >= first_cid
  <2>1. list = <<>> /\ \A d \in DOMAIN app_class_mapping \ Range(list) :
                         app_class_mapping[d] # 0
    BY <1>3 DEF OpenInv, ProcessInv
  <2>2. Range(list) = {}
    BY <2>1 DEF Range
  <2>3. PICK d \in Meta(file) : file.cell[d].own = c
    BY <1>2, <2>1, <2>2 DEF Fits
  <2>4. app_class_mapping[c] = Id(file, d)
    BY <1>2, <2>3 DEF Fits
  <2> QED BY <1>2, <2>4, IdFacts
<1>4. ASSUME NEW c \in Live(file)
      PROVE  IF file.cell[c].own \in DOMAIN app_class_mapping
             THEN /\ dbs_class_mapping[file.cell[c].cid] = file.cell[c].own
                  /\ app_class_mapping[file.cell[c].own] = file.cell[c].cid
             ELSE dbs_class_mapping[file.cell[c].cid] = None
  <2>1. PICK d \in Meta(file) : /\ file.cell[c].own = file.cell[d].own
                                /\ file.cell[c].cid = Id(file, d)
    BY <1>2 DEF Sound, ObjectInv
  <2> QED BY <1>2, <2>1 DEF Fits
<1> QED BY <1>3, <1>4 DEF ClassesResolve

\* The invariant leads references home.
LEMMA ReferencesFollow == OpenInv => RefsResolve
<1> SUFFICES ASSUME OpenInv, InUse PROVE RefsResolve
  BY DEF RefsResolve
<1>1. pc # "closed"
  BY DEF InUse
<1>2. PICK img : img = file
  OBVIOUS
<1>3. Sound(img) /\ img \in Image /\ img.base = hdr
  BY <1>1, <1>2, OpenFacts
<1>4. PlaceInv(img) /\ KindInv(img) /\ FreeInv(img) /\ DictInv(img)
  BY <1>3 DEF Sound
<1>5. /\ FreeCells(img) \subseteq 1..img.top /\ Meta(img) \subseteq 1..img.top
      /\ Live(img) \subseteq 1..img.top /\ 1..img.top \in SUBSET Cell
      /\ img.top \in Nat
      /\ FreeCells(img) \cap Meta(img) = {} /\ FreeCells(img) \cap Live(img) = {}
  BY <1>3, Kinds
<1>6. To(img) \in Link /\ \A c \in Cell : To(img)[c] = img.cell[c].ptr.to
  BY <1>3, LinkType
<1>7. /\ img.class_dictionary.to \in {0} \cup Cell /\ img.free.to \in {0} \cup Cell
  BY <1>3, ImageFields DEF Pointer
<1>8. /\ img.class_dictionary.to \in {0} \cup Meta(img)
      /\ img.free.to \in {0} \cup FreeCells(img)
      /\ \A c \in FreeCells(img) : img.cell[c].ptr.to \in {0} \cup FreeCells(img)
  <2>1. PICK nx \in Link, a \in {0} \cup Cell, e \in {0} \cup Cell :
          nx = To(img) /\ a = img.class_dictionary.to /\ e = img.free.to
    BY <1>6, <1>7
  <2>2. Chain(nx, a, Meta(img)) /\ Chain(nx, e, FreeCells(img))
    BY <1>4, <2>1 DEF DictInv, FreeInv
  <2>3. a \in Meta(img) \cup {0}
    BY <2>2, ChainWithin
  <2>4. /\ e \in FreeCells(img) \cup {0}
        /\ \A c \in FreeCells(img) : nx[c] \in FreeCells(img) \cup {0}
    BY <2>2, ChainWithin
  <2> QED BY <1>5, <1>6, <2>1, <2>3, <2>4
<1>9. \A c \in Live(img) \cup Meta(img) :
        img.cell[c].ptr.to \in {0} \cup (Live(img) \cup Meta(img))
  BY <1>3, ObjectLinks
<1>10. PICK S : S = Live(img) \cup Meta(img)
  OBVIOUS
<1>11. /\ \A c \in S : img.cell[c].cid # free_object /\ c <= img.top /\ c \in 1..img.top
       /\ \A c \in 1..img.top : img.cell[c].cid # free_object => c \in S
       /\ \A c \in 1..img.top : c \in S \/ c \in FreeCells(img)
       /\ \A c \in FreeCells(img) : img.cell[c].cid = free_object /\ c <= img.top
  BY <1>4, <1>5, <1>10 DEF KindInv, FreeCells
<1>12. 0 <= img.top
  BY <1>5
<1>13. \A q \in {img.root, img.class_dictionary} \cup {img.static[i] : i \in 1..img.n_static} :
         q = Ptr(hdr, q.to) /\ q.to \in {0} \cup S
  BY <1>3, <1>4, <1>8, <1>10 DEF PlaceInv, KindInv
<1>14. \A q \in {img.root, img.class_dictionary} \cup {img.static[i] : i \in 1..img.n_static} :
         /\ q = Ptr(hdr, q.to) /\ q.to <= img.top
         /\ q.to # 0 => img.cell[q.to].cid # free_object
  BY <1>11, <1>12, <1>13
<1>15. /\ img.free = Ptr(hdr, img.free.to) /\ img.free.to <= img.top
       /\ img.free.to # 0 => ~(img.free.to # 0 => img.cell[img.free.to].cid # free_object)
  BY <1>3, <1>4, <1>8, <1>11, <1>12 DEF PlaceInv
<1>16. ASSUME NEW c \in 1..img.top
       PROVE  /\ img.cell[c].ptr = Ptr(hdr, img.cell[c].ptr.to)
              /\ img.cell[c].ptr.to <= img.top
              /\ img.cell[c].cid # free_object =>
                   (img.cell[c].ptr.to # 0 => img.cell[img.cell[c].ptr.to].cid # free_object)
  <2>1. img.cell[c].ptr = Ptr(hdr, img.cell[c].ptr.to)
    BY <1>3, <1>4, <1>5 DEF PlaceInv
  <2>2. CASE c \in S
    BY <1>9, <1>10, <1>11, <1>12, <2>1, <2>2
  <2>3. CASE c \in FreeCells(img)
    BY <1>8, <1>11, <1>12, <2>1, <2>3
  <2> QED BY <1>11, <2>2, <2>3
<1> QED BY <1>2, <1>3, <1>14, <1>15, <1>16 DEF RefsResolve

\* The invariant says whose virtual tables there are.
LEMMA TablesFollow == OpenInv => VirtualTables
<1> SUFFICES ASSUME OpenInv, InUse, virt, NEW c \in Live(file)
             PROVE  file.cell[c].vt = prog
  BY DEF VirtualTables
<1>1. pc # "closed"
  BY DEF InUse
<1>2. Sound(file) /\ file.timestamp = prog
  BY <1>1, OpenFacts
<1> QED BY <1>2 DEF Sound, TableInv

\* An object belongs to the class it was created with, for every program that
\* opens the file, however many classes the programs have and in whatever order
\* they were stored (load_class_dictionary(), update_class_dictionary()).
THEOREM ClassesKeepMeaning ==
  ~CrashWhenNew /\ ~ReadAfterCrash => (Spec => []ClassesResolve)
<1> SUFFICES ASSUME ~CrashWhenNew /\ ~ReadAfterCrash PROVE Spec => []ClassesResolve
  OBVIOUS
<1> QED BY OpenInvariance, ClassesFollow, PTL

\* Wherever a file is mapped, every reference in it leads to the object it was
\* made for, and no object in use is on the free chain (adjust_references(),
\* collection at open, recovery from the log).
THEOREM ReferencesLeadHome ==
  ~CrashWhenNew /\ ~ReadAfterCrash => (Spec => []RefsResolve)
<1> SUFFICES ASSUME ~CrashWhenNew /\ ~ReadAfterCrash PROVE Spec => []RefsResolve
  OBVIOUS
<1> QED BY OpenInvariance, ReferencesFollow, PTL

\* No object is left with the virtual table of another program.
THEOREM TablesRenewed ==
  ~CrashWhenNew /\ ~ReadAfterCrash => (Spec => []VirtualTables)
<1> SUFFICES ASSUME ~CrashWhenNew /\ ~ReadAfterCrash PROVE Spec => []VirtualTables
  OBVIOUS
<1> QED BY OpenInvariance, TablesFollow, PTL
=============================================================================
