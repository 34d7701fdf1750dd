------------------------------ MODULE RanksProofs ------------------------------
(***************************************************************************)
(* Facts about ranked lists, and the inductions that proofs about lists    *)
(* and loops of any length need.  What is carried along a loop is a set    *)
(* that the steps stay in, so that no lemma has an operator for parameter. *)
(***************************************************************************)
EXTENDS Ranks, FiniteSetTheorems, SequenceTheorems, WellFoundedInduction, TLAPS

(* A set of numbers that is not empty has a least one: an induction over   *)
(* data is a proof that a least counterexample does not exist.             *)
LEMMA LeastOf ==
  ASSUME NEW T \in SUBSET Nat, T # {}
  PROVE  \E n \in T : \A m \in T : n <= m
  <1>1. IsWellFoundedOn(OpToRel(<, Nat), Nat)
    BY NatLessThanWellFounded
  <1>2. PICK R : R = {x \in Nat \X Nat : x[1] < x[2]}
    OBVIOUS
  <1>3. OpToRel(<, Nat) = R
    BY <1>2 DEF OpToRel
  <1>4. PICK n \in T : \A m \in T : ~ (<<m, n>> \in R)
    BY <1>1, <1>3, WFMin
  <1>5. \A x, y \in Nat : x < y => <<x, y>> \in R
    BY <1>2
  <1>6. \A m \in T : ~ (m < n)
    BY <1>4, <1>5
  <1>7. \A m \in T : m \in Nat /\ n \in Nat
    OBVIOUS
  <1>. QED  BY <1>6, <1>7

(* Induction up to n. *)
LEMMA UpTo ==
  ASSUME NEW n \in Nat, NEW T, 0 \in T, \A i \in 1 .. n : i - 1 \in T => i \in T
  PROVE  \A i \in 0 .. n : i \in T
  <1>1. PICK W : W = {i \in 0 .. n : i \notin T}
    OBVIOUS
  <1>2. CASE W = {}
    BY <1>1, <1>2
  <1>3. CASE W # {}
    <2>1. PICK k \in W : \A m \in W : k <= m
      <3>1. W \in SUBSET Nat
        BY <1>1
      <3>. QED  BY <1>3, <3>1, LeastOf
    <2>2. k \in 1 .. n /\ k \notin T
      BY <1>1, <2>1
    <2>3. k - 1 \notin W /\ k - 1 \in 0 .. n
      BY <2>1, <2>2
    <2>. QED  BY <1>1, <2>2, <2>3
  <1>. QED  BY <1>2, <1>3

(* The states of a loop: base, and what step[i] makes of the state before. *)
Loops(f, n, base, step) == f = [i \in 0 .. n |-> IF i = 0 THEN base ELSE step[i][f[i - 1]]]

LEMMA LoopExists ==
  ASSUME NEW n \in Nat, NEW S, NEW base \in S, NEW step, \A i \in 1 .. n : step[i] \in [S -> S]
  PROVE  \E f \in [0 .. n -> S] : Loops(f, n, base, step)
  <1>1. PICK T : T = {k \in 0 .. n : \E f \in [0 .. k -> S] : Loops(f, k, base, step)}
    OBVIOUS
  <1>2. 0 \in T
    <2>1. PICK f : f = [i \in 0 .. 0 |-> base]
      OBVIOUS
    <2>2. f \in [0 .. 0 -> S] /\ Loops(f, 0, base, step)
      BY <2>1 DEF Loops
    <2>. QED  BY <1>1, <2>2
  <1>3. ASSUME NEW k \in 1 .. n, k - 1 \in T
        PROVE  k \in T
    <2>1. PICK less \in [0 .. k - 1 -> S] : Loops(less, k - 1, base, step)
      BY <1>1, <1>3
    <2>2. k - 1 \in 0 .. k - 1 /\ less[k - 1] \in S /\ step[k] \in [S -> S]
      BY <2>1
    <2>3. PICK last \in S : last = step[k][less[k - 1]]
      BY <2>2
    <2>4. PICK f : f = [i \in 0 .. k |-> IF i = k THEN last ELSE less[i]]
      OBVIOUS
    <2>5. ASSUME NEW i \in 0 .. k
          PROVE  f[i] \in S /\ f[i] = IF i = 0 THEN base ELSE step[i][f[i - 1]]
      <3>1. CASE i = k
        <4>1. i # 0 /\ f[i - 1] = less[k - 1] /\ f[i] = last
          BY <2>2, <2>4, <3>1
        <4>. QED  BY <2>3, <3>1, <4>1
      <3>2. CASE i # k
        <4>1. i \in 0 .. k - 1 /\ f[i] = less[i]
          BY <2>4, <3>2
        <4>2. less[i] = IF i = 0 THEN base ELSE step[i][less[i - 1]]
          BY <2>1, <4>1 DEF Loops
        <4>3. i # 0 => f[i - 1] = less[i - 1]
          BY <2>4, <4>1
        <4>. QED  BY <2>1, <4>1, <4>2, <4>3
      <3>. QED  BY <3>1, <3>2
    <2>6. f \in [0 .. k -> S]
      BY <2>4, <2>5
    <2>7. Loops(f, k, base, step)
      BY <2>4, <2>5 DEF Loops
    <2>. QED  BY <1>1, <2>6, <2>7
  <1>4. n \in T
    <2>1. \A i \in 0 .. n : i \in T
      BY <1>2, <1>3, UpTo
    <2>. QED  BY <2>1
  <1>. QED  BY <1>1, <1>4

-------------------------------------------------------------------------------
(* Sorting.  The place of an element is one more than how many come before  *)
(* it.  R is a strict order of S.                                          *)

StrictOrder(R, S) ==
    /\ \A x \in S : <<x, x>> \notin R
    /\ \A x, y, z \in S : <<x, y>> \in R /\ <<y, z>> \in R => <<x, z>> \in R
    /\ \A x, y \in S : x = y \/ <<x, y>> \in R \/ <<y, x>> \in R

Before(S, R, x) == {y \in S : <<y, x>> \in R}

PlaceIn(S, R, x) == Cardinality(Before(S, R, x)) + 1

LEMMA PlacesGrow ==
    ASSUME NEW S, IsFiniteSet(S), NEW R, StrictOrder(R, S), NEW x \in S
    PROVE  /\ PlaceIn(S, R, x) \in 1 .. Cardinality(S)
           /\ \A y \in S : <<x, y>> \in R => PlaceIn(S, R, x) < PlaceIn(S, R, y)
  <1>1. Cardinality(S) \in Nat
    BY FS_CardinalityType
  <1>2. ASSUME NEW y \in S
        PROVE  /\ IsFiniteSet(Before(S, R, y)) /\ Cardinality(Before(S, R, y)) \in Nat
               /\ PlaceIn(S, R, y) \in 1 .. Cardinality(S)
    <2>1. PICK B : B = Before(S, R, y)
      OBVIOUS
    <2>2. B \subseteq S \ {y}
      BY <2>1 DEF Before, StrictOrder
    <2>3. IsFiniteSet(S \ {y}) /\ Cardinality(S \ {y}) = Cardinality(S) - 1
      BY FS_RemoveElement
    <2>4. IsFiniteSet(B) /\ Cardinality(B) <= Cardinality(S) - 1
      BY <2>2, <2>3, FS_Subset
    <2>5. Cardinality(B) \in Nat
      BY <2>4, FS_CardinalityType
    <2>. QED  BY <1>1, <2>1, <2>4, <2>5 DEF PlaceIn
  <1>3. ASSUME NEW y \in S, <<x, y>> \in R
        PROVE  PlaceIn(S, R, x) < PlaceIn(S, R, y)
    <2>1. PICK B : B = Before(S, R, y)
      OBVIOUS
    <2>2. Before(S, R, x) \subseteq B \ {x} /\ x \in B
      BY <1>3, <2>1 DEF Before, StrictOrder
    <2>3. IsFiniteSet(B)
      BY <1>2, <2>1
    <2>4. IsFiniteSet(B \ {x}) /\ Cardinality(B \ {x}) = Cardinality(B) - 1
      BY <2>2, <2>3, FS_RemoveElement
    <2>5. Cardinality(Before(S, R, x)) <= Cardinality(B) - 1
      BY <2>2, <2>4, FS_Subset
    <2>6. Cardinality(B) \in Nat /\ Cardinality(Before(S, R, x)) \in Nat
      BY <1>2, <2>1
    <2>. QED  BY <2>1, <2>5, <2>6 DEF PlaceIn
  <1>. QED  BY <1>2, <1>3

LEMMA PlacesReachAll ==
    ASSUME NEW S, IsFiniteSet(S), NEW R, StrictOrder(R, S), NEW i \in 1 .. Cardinality(S)
    PROVE  \E x \in S : PlaceIn(S, R, x) = i
  <1>1. PICK n \in Nat : n = Cardinality(S)
    BY FS_CardinalityType
  <1>2. PICK f : f = [x \in S |-> PlaceIn(S, R, x)]
    OBVIOUS
  <1>3. ASSUME NEW x \in S, NEW y \in S, f[x] = f[y]
        PROVE  x = y
    <2>1. PlaceIn(S, R, x) \in Nat /\ PlaceIn(S, R, y) \in Nat
      <3>1. PlaceIn(S, R, x) \in 1 .. n /\ PlaceIn(S, R, y) \in 1 .. n
        BY <1>1, PlacesGrow
      <3>. QED  BY <3>1
    <2>2. ~(PlaceIn(S, R, x) < PlaceIn(S, R, y)) /\ ~(PlaceIn(S, R, y) < PlaceIn(S, R, x))
      BY <1>2, <1>3, <2>1
    <2>. QED  BY <2>2, PlacesGrow DEF StrictOrder
  <1>4. f \in [S -> 1 .. n]
    BY <1>1, <1>2, PlacesGrow
  <1>5. f \in Injection(S, 1 .. n)
    BY <1>3, <1>4 DEF Injection, IsInjective
  <1>6. IsFiniteSet(1 .. n) /\ Cardinality(1 .. n) = n
    BY FS_Interval
  <1>7. f \in Surjection(S, 1 .. n)
    BY <1>1, <1>5, <1>6, FS_Injection
  <1>8. \E x \in S : f[x] = i
    BY <1>1, <1>7 DEF Surjection
  <1>. QED  BY <1>2, <1>8

(* The sorted list has every element once, in the order of the relation. *)
LEMMA SortedIs ==
    ASSUME NEW S, IsFiniteSet(S), NEW R, StrictOrder(R, S), NEW s, s = Sorted(S, R)
    PROVE  /\ s \in Seq(S) /\ Len(s) = Cardinality(S) /\ DOMAIN s = 1 .. Cardinality(S)
           /\ Cardinality(S) \in Nat
           /\ Range(s) = S
           /\ \A i, j \in DOMAIN s : /\ s[i] = s[j] => i = j
                                     /\ <<s[i], s[j]>> \in R <=> i < j
  <1>1. PICK n \in Nat : n = Cardinality(S)
    BY FS_CardinalityType
  <1>2. s = [i \in 1 .. n |-> CHOOSE x \in S : PlaceIn(S, R, x) = i]
    <2>1. PICK rank : rank = [x \in S |-> PlaceIn(S, R, x)]
      OBVIOUS
    <2>2. s = [i \in 1 .. n |-> CHOOSE x \in S : rank[x] = i]
      BY <1>1, <2>1 DEF Sorted, PlaceIn, Before
    <2>3. \A i \in 1 .. n : (CHOOSE x \in S : rank[x] = i) = (CHOOSE x \in S : PlaceIn(S, R, x) = i)
      BY <2>1
    <2>. QED  BY <2>2, <2>3
  <1>3. ASSUME NEW i \in 1 .. n
        PROVE  s[i] \in S /\ PlaceIn(S, R, s[i]) = i
    <2>1. \E x \in S : PlaceIn(S, R, x) = i
      BY <1>1, PlacesReachAll
    <2>. QED  BY <1>2, <2>1
  <1>4. s \in [1 .. n -> S]
    BY <1>2, <1>3
  <1>5. s \in Seq(S) /\ Len(s) = n /\ DOMAIN s = 1 .. n
    BY <1>4
  <1>6. ASSUME NEW x \in S PROVE \E i \in 1 .. n : s[i] = x
    <2>1. PICK i \in 1 .. n : PlaceIn(S, R, x) = i
      BY <1>1, PlacesGrow
    <2>2. s[i] \in S /\ PlaceIn(S, R, s[i]) = i /\ i \in Nat
      BY <1>3
    <2>3. ~(PlaceIn(S, R, x) < PlaceIn(S, R, s[i])) /\ ~(PlaceIn(S, R, s[i]) < PlaceIn(S, R, x))
      BY <2>1, <2>2
    <2>4. s[i] = x
      BY <2>2, <2>3, PlacesGrow DEF StrictOrder
    <2>. QED  BY <2>4
  <1>7. Range(s) = S
    BY <1>4, <1>6 DEF Range
  <1>8. ASSUME NEW i \in 1 .. n, NEW j \in 1 .. n
        PROVE  (s[i] = s[j] => i = j) /\ (<<s[i], s[j]>> \in R <=> i < j)
    <2>1. /\ s[i] \in S /\ PlaceIn(S, R, s[i]) = i /\ s[j] \in S /\ PlaceIn(S, R, s[j]) = j
          /\ i \in Nat /\ j \in Nat
      BY <1>3
    <2>2. s[i] = s[j] => i = j
      BY <2>1
    <2>3. <<s[i], s[j]>> \in R => i < j
      BY <2>1, PlacesGrow
    <2>4. <<s[j], s[i]>> \in R => j < i
      BY <2>1, PlacesGrow
    <2>5. s[i] = s[j] \/ <<s[i], s[j]>> \in R \/ <<s[j], s[i]>> \in R
      BY <2>1 DEF StrictOrder
    <2>. QED  BY <2>1, <2>2, <2>3, <2>4, <2>5
  <1>. QED  BY <1>1, <1>5, <1>7, <1>8

-------------------------------------------------------------------------------
(* Lists.                                                                  *)

LEMMA PositionIs ==
    ASSUME NEW D, NEW list \in Seq(D), NEW x
    PROVE  /\ Position(list, x) \in 1 .. Len(list) + 1
           /\ x \in Range(list) => /\ Position(list, x) \in 1 .. Len(list)
                                   /\ list[Position(list, x)] = x
                                   /\ \A i \in 1 .. Len(list) : list[i] = x => Position(list, x) <= i
           /\ x \notin Range(list) => Position(list, x) = Len(list) + 1
  <1>1. DOMAIN list = 1 .. Len(list) /\ Len(list) \in Nat
    BY LenProperties
  <1>2. CASE x \notin Range(list)
    BY <1>1, <1>2 DEF Position
  <1>3. CASE x \in Range(list)
    <2>1. PICK at : at = {i \in 1 .. Len(list) : list[i] = x}
      OBVIOUS
    <2>2. at # {}
      BY <1>1, <1>3, <2>1 DEF Range
    <2>3. at \in SUBSET Nat
      BY <1>1, <2>1
    <2>4. \E n \in at : \A m \in at : n <= m
      BY <2>2, <2>3, LeastOf
    <2>5. PICK p : p = Position(list, x)
      OBVIOUS
    <2>6. p = Min(at)
      BY <1>1, <1>3, <2>1, <2>5 DEF Position
    <2>7. p \in at /\ \A m \in at : p <= m
      BY <2>4, <2>6 DEF Min
    <2>8. /\ p \in 1 .. Len(list) /\ list[p] = x
          /\ \A i \in 1 .. Len(list) : list[i] = x => p <= i
      BY <2>1, <2>7
    <2>. QED  BY <1>1, <1>3, <2>5, <2>8
  <1>. QED  BY <1>2, <1>3

LEMMA RangeIs ==
    ASSUME NEW D, NEW list \in Seq(D)
    PROVE  /\ IsFiniteSet(Range(list)) /\ Range(list) \subseteq D
           /\ Cardinality(Range(list)) \in Nat /\ Cardinality(Range(list)) <= Len(list)
           /\ \A i \in 1 .. Len(list) : list[i] \in Range(list)
           /\ \A x \in Range(list) : \E i \in 1 .. Len(list) : list[i] = x
  <1>1. DOMAIN list = 1 .. Len(list) /\ Len(list) \in Nat /\ list \in [1 .. Len(list) -> D]
    BY LenProperties
  <1>2. Range(list) = {list[i] : i \in 1 .. Len(list)}
    BY <1>1 DEF Range
  <1>3. list \in Surjection(1 .. Len(list), Range(list))
    BY <1>1, <1>2 DEF Surjection
  <1>4. IsFiniteSet(1 .. Len(list)) /\ Cardinality(1 .. Len(list)) = Len(list)
    BY <1>1, FS_Interval
  <1>5. IsFiniteSet(Range(list)) /\ Cardinality(Range(list)) <= Len(list)
    BY <1>3, <1>4, FS_Surjection
  <1>6. Cardinality(Range(list)) \in Nat
    BY <1>5, FS_CardinalityType
  <1>. QED  BY <1>1, <1>2, <1>5, <1>6

(* Every item once. *)
Plain(list) == \A i, j \in DOMAIN list : list[i] = list[j] => i = j

LEMMA PlacesInPlain ==
    ASSUME NEW D, NEW list \in Seq(D), Plain(list), NEW i \in DOMAIN list
    PROVE  Position(list, list[i]) = i
  <1>1. DOMAIN list = 1 .. Len(list)
    BY LenProperties
  <1>2. PICK p : p = Position(list, list[i])
    OBVIOUS
  <1>3. list[i] \in Range(list)
    BY <1>1, RangeIs
  <1>4. p \in 1 .. Len(list) /\ list[p] = list[i]
    BY <1>2, <1>3, PositionIs
  <1>. QED  BY <1>1, <1>2, <1>4 DEF Plain

(* What Among makes of a list. *)
LEMMA AmongIs ==
    ASSUME NEW D, NEW list \in Seq(D), NEW S, NEW s, s = Among(list, S)
    PROVE  /\ s \in Seq(D) /\ Plain(s) /\ Range(s) = Range(list) \cap S
           /\ \A i, j \in DOMAIN s : Position(list, s[i]) < Position(list, s[j]) <=> i < j
           /\ s # << >> <=> \E x \in Range(list) : x \in S
  <1>1. PICK items : items = Range(list) \cap S
    OBVIOUS
  <1>2. PICK R : R = {p \in items \X items : Position(list, p[1]) < Position(list, p[2])}
    OBVIOUS
  <1>3. s = Sorted(items, R)
    <2>1. PICK place : place = [x \in items |-> Position(list, x)]
      OBVIOUS
    <2>2. s = Sorted(items, {p \in items \X items : place[p[1]] < place[p[2]]})
      BY <1>1, <2>1 DEF Among
    <2>3. {p \in items \X items : place[p[1]] < place[p[2]]} = R
      BY <1>2, <2>1
    <2>. QED  BY <2>2, <2>3
  <1>4. IsFiniteSet(items) /\ items \subseteq D
    BY <1>1, RangeIs, FS_Subset
  <1>5. \A x, y \in items : <<x, y>> \in R <=> Position(list, x) < Position(list, y)
    BY <1>2
  <1>6. ASSUME NEW x \in items
        PROVE  Position(list, x) \in Nat /\ list[Position(list, x)] = x
    <2>1. Position(list, x) \in 1 .. Len(list) /\ list[Position(list, x)] = x
      BY <1>1, PositionIs
    <2>. QED  BY <2>1
  <1>7. StrictOrder(R, items)
    <2>1. \A x \in items : <<x, x>> \notin R
      <3>1. \A x \in items : ~(Position(list, x) < Position(list, x))
        BY <1>6
      <3>. QED  BY <1>5, <3>1
    <2>2. ASSUME NEW x \in items, NEW y \in items, NEW z \in items, <<x, y>> \in R, <<y, z>> \in R
          PROVE  <<x, z>> \in R
      <3>1. Position(list, x) < Position(list, y) /\ Position(list, y) < Position(list, z)
        BY <1>5, <2>2
      <3>2. Position(list, x) < Position(list, z)
        BY <1>6, <3>1
      <3>. QED  BY <1>5, <3>2
    <2>3. ASSUME NEW x \in items, NEW y \in items, x # y
          PROVE  <<x, y>> \in R \/ <<y, x>> \in R
      <3>1. Position(list, x) # Position(list, y)
        BY <1>6, <2>3
      <3>2. Position(list, x) < Position(list, y) \/ Position(list, y) < Position(list, x)
        BY <1>6, <3>1
      <3>. QED  BY <1>5, <3>2
    <2>. QED  BY <2>1, <2>2, <2>3 DEF StrictOrder
  <1>8. /\ s \in Seq(items) /\ DOMAIN s = 1 .. Len(s) /\ Range(s) = items
        /\ \A i, j \in DOMAIN s : (s[i] = s[j] => i = j) /\ (<<s[i], s[j]>> \in R <=> i < j)
    BY <1>3, <1>4, <1>7, SortedIs
  <1>9. Plain(s)
    BY <1>8 DEF Plain
  <1>10. \A i \in DOMAIN s : s[i] \in items
    BY <1>8
  <1>11. \A i, j \in DOMAIN s : Position(list, s[i]) < Position(list, s[j]) <=> i < j
    BY <1>5, <1>8, <1>10
  <1>12. s \in Seq(D)
    BY <1>4, <1>8, <1>10
  <1>13. s # << >> <=> \E x \in Range(list) : x \in S
    <2>1. s # << >> <=> \E i \in DOMAIN s : TRUE
      BY <1>8
    <2>2. (\E i \in DOMAIN s : TRUE) <=> items # {}
      BY <1>8 DEF Range
    <2>. QED  BY <1>1, <2>1, <2>2
  <1>. QED  BY <1>1, <1>8, <1>9, <1>11, <1>12, <1>13

(* The first of a list that is in a set leads what Among makes of it. *)
LEMMA FirstAmong ==
    ASSUME NEW D, NEW list \in Seq(D), NEW S, NEW x \in Range(list), x \in S
    PROVE  /\ Among(list, S) # << >>
           /\ Among(list, S)[1] \in Range(list) \cap S
           /\ Position(list, Among(list, S)[1]) <= Position(list, x)
  <1>1. PICK s : s = Among(list, S)
    OBVIOUS
  <1>2. /\ s \in Seq(D) /\ Range(s) = Range(list) \cap S
        /\ \A i, j \in DOMAIN s : Position(list, s[i]) < Position(list, s[j]) <=> i < j
        /\ s # << >>
    BY <1>1, AmongIs
  <1>3. PICK i \in 1 .. Len(s) : s[i] = x
    BY <1>2, RangeIs
  <1>4. DOMAIN s = 1 .. Len(s) /\ Len(s) \in Nat /\ 1 \in 1 .. Len(s)
    BY <1>2, <1>3, LenProperties
  <1>5. s[1] \in Range(s)
    BY <1>2, <1>4, RangeIs
  <1>6. Position(list, s[1]) \in Nat /\ Position(list, x) \in Nat
    <2>1. Position(list, s[1]) \in 1 .. Len(list) + 1 /\ Position(list, x) \in 1 .. Len(list) + 1
      BY PositionIs
    <2>. QED  BY <2>1
  <1>7. ~(Position(list, x) < Position(list, s[1]))
    BY <1>2, <1>3, <1>4
  <1>. QED  BY <1>1, <1>2, <1>5, <1>6, <1>7

LEMMA CutIs ==
    ASSUME NEW D, NEW list \in Seq(D), NEW n \in Nat, NEW s, s = Cut(list, n)
    PROVE  /\ s \in Seq(D) /\ Len(s) <= n /\ Len(s) <= Len(list)
           /\ n <= Len(list) => Len(s) = n
           /\ Len(list) <= n => s = list
           /\ s = [i \in 1 .. Len(s) |-> list[i]]
           /\ Range(s) \subseteq Range(list)
           /\ Plain(list) => Plain(s)
  <1>1. Len(list) \in Nat /\ DOMAIN list = 1 .. Len(list)
    BY LenProperties
  <1>2. PICK len \in Nat : len = Len(list)
    BY <1>1
  <1>3. PICK m \in Nat : m = Min({n, len}) /\ m <= n /\ m <= len /\ (m = n \/ m = len)
    <2>1. \E x \in {n, len} : \A y \in {n, len} : x <= y
      OBVIOUS
    <2>2. PICK x : x = Min({n, len})
      OBVIOUS
    <2>3. x \in {n, len} /\ \A y \in {n, len} : x <= y
      BY <2>1, <2>2 DEF Min
    <2>. QED  BY <2>2, <2>3
  <1>4. s = SubSeq(list, 1, m)
    BY <1>2, <1>3 DEF Cut
  <1>5. \A i \in 1 .. m : i \in DOMAIN list
    BY <1>1, <1>2, <1>3
  <1>6. s = [i \in 1 .. m |-> list[i]]
    <2>1. /\ SubSeq(list, 1, m) \in Seq(D) /\ Len(SubSeq(list, 1, m)) = m
          /\ \A i \in 1 .. m : SubSeq(list, 1, m)[i] = list[i]
      <3>1. /\ SubSeq(list, 1, m) \in Seq(D)
            /\ Len(SubSeq(list, 1, m)) = IF 1 <= m THEN m - 1 + 1 ELSE 0
            /\ \A i \in 1 .. m - 1 + 1 : SubSeq(list, 1, m)[i] = list[1 + i - 1]
        <4>1. \A i \in 1 .. m : list[i] \in D
          BY <1>5
        <4>. QED  BY <4>1, SubSeqProperties
      <3>2. m - 1 + 1 = m /\ (1 <= m \/ m = 0) /\ \A i \in 1 .. m : 1 + i - 1 = i
        OBVIOUS
      <3>. QED  BY <3>1, <3>2
    <2>2. s \in Seq(D) /\ Len(s) = m /\ \A i \in 1 .. m : s[i] = list[i]
      BY <1>4, <2>1
    <2>. QED  BY <2>2
  <1>7. s \in [1 .. m -> D]
    <2>1. \A i \in 1 .. m : list[i] \in D
      BY <1>5
    <2>. QED  BY <1>6, <2>1
  <1>8. s \in Seq(D) /\ Len(s) = m /\ DOMAIN s = 1 .. m
    BY <1>7
  <1>9. \A i \in 1 .. m : s[i] = list[i] /\ i \in DOMAIN list
    BY <1>5, <1>6
  <1>10. Range(s) \subseteq Range(list)
    BY <1>8, <1>9 DEF Range
  <1>11. Plain(list) => Plain(s)
    BY <1>8, <1>9 DEF Plain
  <1>12. Len(list) <= n => s = list
    <2>1. Len(list) <= n => m = Len(list)
      BY <1>2, <1>3
    <2>2. list = [i \in 1 .. Len(list) |-> list[i]]
      BY <1>1
    <2>. QED  BY <1>6, <2>1, <2>2
  <1>13. Len(s) <= n /\ Len(s) <= Len(list) /\ (n <= Len(list) => Len(s) = n)
    BY <1>2, <1>3, <1>8
  <1>14. s = [i \in 1 .. Len(s) |-> list[i]]
    BY <1>6, <1>8
  <1>. QED  BY <1>8, <1>10, <1>11, <1>12, <1>13, <1>14

LEMMA OnceIs ==
    ASSUME NEW D, NEW list \in Seq(D), NEW s, s = Once(list)
    PROVE  /\ s \in Seq(D) /\ Plain(s) /\ Range(s) = Range(list)
           /\ \A i, j \in DOMAIN s : Position(list, s[i]) < Position(list, s[j]) <=> i < j
  <1>1. s = Among(list, Range(list))
    BY DEF Once
  <1>2. /\ s \in Seq(D) /\ Plain(s) /\ Range(s) = Range(list) \cap Range(list)
        /\ \A i, j \in DOMAIN s : Position(list, s[i]) < Position(list, s[j]) <=> i < j
    BY <1>1, AmongIs
  <1>. QED  BY <1>2

(* A stable sort. *)
LEMMA ByScoreIs ==
    ASSUME NEW D, NEW list \in Seq(D), NEW score \in [Range(list) -> Nat],
           NEW s, s = ByScore(list, score)
    PROVE  /\ s \in Seq(D) /\ Plain(s) /\ Range(s) = Range(list)
           /\ \A i, j \in DOMAIN s :
                  i < j <=> \/ score[s[i]] > score[s[j]]
                            \/ score[s[i]] = score[s[j]] /\ Position(list, s[i]) < Position(list, s[j])
  <1>1. PICK items : items = Range(list)
    OBVIOUS
  <1>2. PICK R : R = {p \in items \X items :
                         \/ score[p[1]] > score[p[2]]
                         \/ score[p[1]] = score[p[2]] /\ Position(list, p[1]) < Position(list, p[2])}
    OBVIOUS
  <1>3. s = Sorted(items, R)
    <2>1. PICK place : place = [x \in items |-> Position(list, x)]
      OBVIOUS
    <2>2. s = Sorted(items, {p \in items \X items :
                                \/ score[p[1]] > score[p[2]]
                                \/ score[p[1]] = score[p[2]] /\ place[p[1]] < place[p[2]]})
      BY <1>1, <2>1 DEF ByScore
    <2>3. {p \in items \X items :
              \/ score[p[1]] > score[p[2]]
              \/ score[p[1]] = score[p[2]] /\ place[p[1]] < place[p[2]]} = R
      BY <1>2, <2>1
    <2>. QED  BY <2>2, <2>3
  <1>4. IsFiniteSet(items) /\ items \subseteq D
    BY <1>1, RangeIs
  <1>5. \A x, y \in items :
            <<x, y>> \in R <=> \/ score[x] > score[y]
                               \/ score[x] = score[y] /\ Position(list, x) < Position(list, y)
    BY <1>2
  <1>6. ASSUME NEW x \in items
        PROVE  Position(list, x) \in Nat /\ list[Position(list, x)] = x /\ score[x] \in Nat
    <2>1. Position(list, x) \in 1 .. Len(list) /\ list[Position(list, x)] = x
      BY <1>1, PositionIs
    <2>. QED  BY <1>1, <2>1
  <1>7. StrictOrder(R, items)
    <2>1. \A x \in items : <<x, x>> \notin R
      <3>1. \A x \in items : ~(Position(list, x) < Position(list, x)) /\ ~(score[x] > score[x])
        BY <1>6
      <3>. QED  BY <1>5, <3>1
    <2>2. ASSUME NEW x \in items, NEW y \in items, NEW z \in items, <<x, y>> \in R, <<y, z>> \in R
          PROVE  <<x, z>> \in R
      <3>1. /\ \/ score[x] > score[y]
               \/ score[x] = score[y] /\ Position(list, x) < Position(list, y)
            /\ \/ score[y] > score[z]
               \/ score[y] = score[z] /\ Position(list, y) < Position(list, z)
        BY <1>5, <2>2
      <3>2. \/ score[x] > score[z]
            \/ score[x] = score[z] /\ Position(list, x) < Position(list, z)
        BY <1>6, <3>1
      <3>. QED  BY <1>5, <3>2
    <2>3. ASSUME NEW x \in items, NEW y \in items, x # y
          PROVE  <<x, y>> \in R \/ <<y, x>> \in R
      <3>1. Position(list, x) # Position(list, y)
        BY <1>6, <2>3
      <3>2. \/ score[x] > score[y] \/ score[y] > score[x]
            \/ score[x] = score[y] /\ Position(list, x) < Position(list, y)
            \/ score[x] = score[y] /\ Position(list, y) < Position(list, x)
        BY <1>6, <3>1
      <3>. QED  BY <1>5, <3>2
    <2>. QED  BY <2>1, <2>2, <2>3 DEF StrictOrder
  <1>8. /\ s \in Seq(items) /\ DOMAIN s = 1 .. Len(s) /\ Range(s) = items
        /\ \A i, j \in DOMAIN s : (s[i] = s[j] => i = j) /\ (<<s[i], s[j]>> \in R <=> i < j)
    BY <1>3, <1>4, <1>7, SortedIs
  <1>9. Plain(s)
    BY <1>8 DEF Plain
  <1>10. \A i \in DOMAIN s : s[i] \in items
    BY <1>8
  <1>11. \A i, j \in DOMAIN s :
             i < j <=> \/ score[s[i]] > score[s[j]]
                       \/ score[s[i]] = score[s[j]] /\ Position(list, s[i]) < Position(list, s[j])
    BY <1>5, <1>8, <1>10
  <1>12. s \in Seq(D)
    BY <1>4, <1>8, <1>10
  <1>. QED  BY <1>1, <1>8, <1>9, <1>11, <1>12

(* An item further behind has no greater share. *)
LEMMA ShareFalls ==
    ASSUME NEW D, NEW list \in Seq(D), NEW x, NEW y, Position(list, x) <= Position(list, y)
    PROVE  Share(list, x) \in Nat /\ Share(list, y) \in Nat /\ Share(list, x) >= Share(list, y)
  <1>1. ASSUME NEW z PROVE Position(list, z) \in Nat /\ Position(list, z) >= 1
    <2>1. Position(list, z) \in 1 .. Len(list) + 1
      BY PositionIs
    <2>. QED  BY <2>1
  <1>2. PICK p \in Nat, q \in Nat : p = Position(list, x) /\ q = Position(list, y)
    BY <1>1
  <1>3. 1000000 \div (60 + p) \in Nat /\ 1000000 \div (60 + q) \in Nat
    OBVIOUS
  <1>4. 1000000 \div (60 + p) >= 1000000 \div (60 + q)
    <2>1. PICK a \in Nat, b \in Nat : a = 60 + p /\ b = 60 + q
      OBVIOUS
    <2>2. a <= b /\ a > 0
      BY <1>2, <2>1
    <2>3. ASSUME NEW u \in Nat, NEW v \in Nat, u = 1000000 \div a, v = 1000000 \div b PROVE u >= v
      <3>1. a * u <= 1000000 /\ 1000000 < a * (u + 1)
        BY <2>2, <2>3
      <3>2. b * v <= 1000000
        BY <2>2, <2>3
      <3>3. a * v <= b * v
        BY <2>2
      <3>4. u < v => a * (u + 1) <= a * v
        BY <2>2
      <3>. QED  BY <3>1, <3>2, <3>3, <3>4
    <2>. QED  BY <1>3, <2>1, <2>3
  <1>5. y \in Range(list) => x \in Range(list)
    <2>1. y \in Range(list) => q <= Len(list)
      <3>1. y \in Range(list) => Position(list, y) \in 1 .. Len(list)
        BY PositionIs
      <3>. QED  BY <1>2, <3>1
    <2>2. x \notin Range(list) => p = Len(list) + 1
      BY <1>2, PositionIs
    <2>3. p <= q /\ Len(list) \in Nat
      BY <1>2, LenProperties
    <2>. QED  BY <2>1, <2>2, <2>3
  <1>6. Share(list, x) = IF x \in Range(list) THEN 1000000 \div (60 + p) ELSE 0
    BY <1>2 DEF Share
  <1>7. Share(list, y) = IF y \in Range(list) THEN 1000000 \div (60 + q) ELSE 0
    BY <1>2 DEF Share
  <1>. QED  BY <1>3, <1>4, <1>5, <1>6, <1>7

(* The states of a loop that collects: J holds what may join what. *)
Collects(f, start, list, J) ==
    f = [i \in 0 .. Len(list) |->
            IF i = 0 THEN start
            ELSE IF <<f[i - 1], list[i]>> \in J THEN Append(f[i - 1], list[i]) ELSE f[i - 1]]

LEMMA CollectsExists ==
    ASSUME NEW D, NEW start \in Seq(D), NEW list \in Seq(D), NEW J
    PROVE  \E f \in [0 .. Len(list) -> Seq(D)] : Collects(f, start, list, J)
  <1>1. PICK n \in Nat : n = Len(list)
    BY LenProperties
  <1>2. PICK step : step = [i \in 1 .. n |-> [m \in Seq(D) |-> IF <<m, list[i]>> \in J THEN Append(m, list[i]) ELSE m]]
    OBVIOUS
  <1>3. \A i \in 1 .. n : list[i] \in D
    BY <1>1
  <1>4. ASSUME NEW i \in 1 .. n
        PROVE  step[i] \in [Seq(D) -> Seq(D)]
    <2>1. \A m \in Seq(D) : Append(m, list[i]) \in Seq(D)
      BY <1>3, AppendProperties
    <2>2. step[i] = [m \in Seq(D) |-> IF <<m, list[i]>> \in J THEN Append(m, list[i]) ELSE m]
      BY <1>2
    <2>. QED  BY <2>1, <2>2
  <1>5. PICK f \in [0 .. n -> Seq(D)] : Loops(f, n, start, step)
    BY <1>4, LoopExists
  <1>6. f = [i \in 0 .. n |-> IF i = 0 THEN start ELSE step[i][f[i - 1]]]
    BY <1>5 DEF Loops
  <1>7. ASSUME NEW i \in 0 .. n
        PROVE  f[i] = IF i = 0 THEN start
                      ELSE IF <<f[i - 1], list[i]>> \in J THEN Append(f[i - 1], list[i]) ELSE f[i - 1]
    <2>1. CASE i = 0
      BY <1>6, <2>1
    <2>2. CASE i # 0
      <3>1. i \in 1 .. n /\ i - 1 \in 0 .. n
        BY <2>2
      <3>2. f[i - 1] \in Seq(D)
        BY <1>5, <3>1
      <3>3. f[i] = step[i][f[i - 1]]
        BY <1>6, <2>2
      <3>. QED  BY <1>2, <2>2, <3>1, <3>2, <3>3
    <2>. QED  BY <2>1, <2>2
  <1>8. Collects(f, start, list, J)
    BY <1>1, <1>5, <1>7 DEF Collects
  <1>. QED  BY <1>1, <1>5, <1>8

(* What holds of the start and of whatever joins holds of what is          *)
(* collected; an item of the list is there at the end if it could join     *)
(* when its turn came.                                                     *)
LEMMA Collecting ==
    ASSUME NEW D, NEW start \in Seq(D), NEW list \in Seq(D), NEW J, NEW f, Collects(f, start, list, J),
           NEW T, T \subseteq Seq(D), start \in T,
           \A m \in T, i \in 1 .. Len(list) : <<m, list[i]>> \in J => Append(m, list[i]) \in T
    PROVE  \A i \in 0 .. Len(list) : f[i] \in T
  <1>1. PICK n \in Nat : n = Len(list)
    BY LenProperties
  <1>2. PICK U : U = {i \in 0 .. n : f[i] \in T}
    OBVIOUS
  <1>3. f = [i \in 0 .. n |-> IF i = 0 THEN start
                              ELSE IF <<f[i - 1], list[i]>> \in J THEN Append(f[i - 1], list[i]) ELSE f[i - 1]]
    BY <1>1 DEF Collects
  <1>4. 0 \in U
    BY <1>2, <1>3
  <1>5. ASSUME NEW i \in 1 .. n, i - 1 \in U PROVE i \in U
    <2>1. f[i] = IF <<f[i - 1], list[i]>> \in J THEN Append(f[i - 1], list[i]) ELSE f[i - 1]
      <3>1. i \in 0 .. n /\ i # 0
        OBVIOUS
      <3>. QED  BY <1>3, <3>1
    <2>2. f[i - 1] \in T
      BY <1>2, <1>5
    <2>. QED  BY <1>1, <1>2, <2>1, <2>2
  <1>6. \A i \in 0 .. n : i \in U
    BY <1>4, <1>5, UpTo
  <1>. QED  BY <1>1, <1>2, <1>6

(* Numbers in ascending order. *)
LEMMA IncreasingIs ==
    ASSUME NEW S \in SUBSET Nat, IsFiniteSet(S), NEW s, s = Increasing(S)
    PROVE  /\ s \in Seq(S) /\ Plain(s) /\ Range(s) = S
           /\ \A i, j \in DOMAIN s : s[i] < s[j] <=> i < j
  <1>1. PICK R : R = {p \in S \X S : p[1] < p[2]}
    OBVIOUS
  <1>2. \A x, y \in S : <<x, y>> \in R <=> x < y
    BY <1>1
  <1>3. StrictOrder(R, S)
    BY <1>2 DEF StrictOrder
  <1>4. s = Sorted(S, R)
    BY <1>1 DEF Increasing
  <1>5. /\ s \in Seq(S) /\ Range(s) = S /\ DOMAIN s = 1 .. Len(s)
        /\ \A i, j \in DOMAIN s : (s[i] = s[j] => i = j) /\ (<<s[i], s[j]>> \in R <=> i < j)
    BY <1>3, <1>4, SortedIs
  <1>6. \A i \in DOMAIN s : s[i] \in S
    BY <1>5
  <1>. QED  BY <1>2, <1>5, <1>6 DEF Plain

LEMMA SharesAre ==
    ASSUME NEW D, NEW list \in Seq(D), NEW x
    PROVE  Share(list, x) \in Nat /\ Position(list, x) \in Nat
  <1>1. Position(list, x) \in Nat
    <2>1. Position(list, x) \in 1 .. Len(list) + 1
      BY PositionIs
    <2>. QED  BY <2>1
  <1>2. Position(list, x) <= Position(list, x)
    BY <1>1
  <1>. QED  BY <1>1, <1>2, ShareFalls

(* What is ordered by the sum of two shares keeps what both lists agree on. *)
LEMMA AgreedOrder ==
    ASSUME NEW D, NEW rows \in Seq(D), NEW cross \in Seq(D), NEW s,
           s = ByScore(rows, [r \in Range(rows) |-> Share(rows, r) + Share(cross, r)]),
           NEW i \in DOMAIN s, NEW j \in DOMAIN s,
           Position(rows, s[i]) < Position(rows, s[j]), Position(cross, s[i]) < Position(cross, s[j])
    PROVE  i < j
  <1>1. PICK score : score = [r \in Range(rows) |-> Share(rows, r) + Share(cross, r)]
    OBVIOUS
  <1>2. \A r \in Range(rows) : Share(rows, r) \in Nat /\ Share(cross, r) \in Nat
    BY SharesAre
  <1>3. score \in [Range(rows) -> Nat]
    BY <1>1, <1>2
  <1>4. /\ s \in Seq(D) /\ Range(s) = Range(rows)
        /\ \A x, y \in DOMAIN s :
               x < y <=> \/ score[s[x]] > score[s[y]]
                         \/ score[s[x]] = score[s[y]] /\ Position(rows, s[x]) < Position(rows, s[y])
    <2>1. s = ByScore(rows, score)
      BY <1>1
    <2>. QED  BY <1>3, <2>1, ByScoreIs
  <1>5. s[i] \in Range(rows) /\ s[j] \in Range(rows)
    BY <1>4 DEF Range
  <1>6. /\ Position(rows, s[i]) \in Nat /\ Position(rows, s[j]) \in Nat
        /\ Position(cross, s[i]) \in Nat /\ Position(cross, s[j]) \in Nat
    BY SharesAre
  <1>7. Share(rows, s[i]) >= Share(rows, s[j]) /\ Share(cross, s[i]) >= Share(cross, s[j])
    <2>1. Position(rows, s[i]) <= Position(rows, s[j]) /\ Position(cross, s[i]) <= Position(cross, s[j])
      BY <1>6
    <2>. QED  BY <2>1, ShareFalls
  <1>8. score[s[i]] >= score[s[j]] /\ score[s[i]] \in Nat /\ score[s[j]] \in Nat
    BY <1>1, <1>2, <1>5, <1>7
  <1>. QED  BY <1>4, <1>8

(* Places in a list and in what is cut from it. *)
LEMMA PlacesInCut ==
    ASSUME NEW D, NEW list \in Seq(D), Plain(list), NEW n \in Nat, NEW s, s = Cut(list, n),
           NEW x \in Range(list), NEW y \in Range(s), Position(list, x) < Position(list, y)
    PROVE  x \in Range(s) /\ Position(s, x) < Position(s, y)
  <1>1. /\ s \in Seq(D) /\ Plain(s) /\ Len(s) <= Len(list) /\ Range(s) \subseteq Range(list)
        /\ s = [i \in 1 .. Len(s) |-> list[i]]
    <2>1. /\ s \in Seq(D) /\ Len(s) <= Len(list) /\ Range(s) \subseteq Range(list)
          /\ s = [i \in 1 .. Len(s) |-> list[i]]
          /\ Plain(list) => Plain(s)
      BY CutIs
    <2>. QED  BY <2>1
  <1>2. /\ DOMAIN list = 1 .. Len(list) /\ Len(list) \in Nat
        /\ DOMAIN s = 1 .. Len(s) /\ Len(s) \in Nat
    BY <1>1, LenProperties
  <1>3. PICK j \in 1 .. Len(s) : s[j] = y
    BY <1>1, RangeIs
  <1>4. PICK i \in 1 .. Len(list) : list[i] = x
    BY RangeIs
  <1>5. Position(list, x) = i
    BY <1>2, <1>4, PlacesInPlain
  <1>6. Position(list, y) = j
    <2>1. j \in DOMAIN list /\ list[j] = y
      BY <1>1, <1>2, <1>3
    <2>. QED  BY <2>1, PlacesInPlain
  <1>7. Position(s, y) = j
    BY <1>1, <1>2, <1>3, PlacesInPlain
  <1>8. i < j /\ i \in 1 .. Len(s)
    BY <1>2, <1>3, <1>4, <1>5, <1>6
  <1>9. s[i] = x
    BY <1>1, <1>4, <1>8
  <1>10. Position(s, x) = i /\ x \in Range(s)
    BY <1>1, <1>2, <1>8, <1>9, PlacesInPlain, RangeIs
  <1>. QED  BY <1>7, <1>8, <1>10

(* The orders of a finite set. *)
LEMMA OrdersAre ==
    ASSUME NEW S, IsFiniteSet(S), NEW s \in SetToSeqs(S)
    PROVE  s \in Seq(S) /\ Plain(s) /\ Range(s) = S /\ Len(s) = Cardinality(S)
  <1>1. PICK n \in Nat : n = Cardinality(S)
    BY FS_CardinalityType
  <1>2. s \in [1 .. n -> S] /\ \A i, j \in 1 .. n : i # j => s[i] # s[j]
    BY <1>1 DEF SetToSeqs
  <1>3. s \in Seq(S) /\ Len(s) = n /\ DOMAIN s = 1 .. n
    BY <1>2
  <1>4. s \in Injection(1 .. n, S)
    BY <1>2 DEF Injection, IsInjective
  <1>5. IsFiniteSet(1 .. n) /\ Cardinality(1 .. n) = n
    BY FS_Interval
  <1>6. s \in Surjection(1 .. n, S)
    BY <1>1, <1>4, <1>5, FS_Injection
  <1>7. Range(s) = S
    BY <1>2, <1>3, <1>6 DEF Surjection, Range
  <1>8. Plain(s)
    BY <1>2, <1>3 DEF Plain
  <1>. QED  BY <1>1, <1>3, <1>7, <1>8

(* The list of a finite set, whichever it is. *)
LEMMA ListOfSet ==
    ASSUME NEW S, IsFiniteSet(S)
    PROVE  SetToSeq(S) \in Seq(S) /\ Range(SetToSeq(S)) = S
  <1>1. PICK n \in Nat : n = Cardinality(S)
    BY FS_CardinalityType
  <1>2. ExistsBijection(1 .. n, S)
    BY <1>1, FS_CardinalityType
  <1>3. PICK f \in [1 .. n -> S] : IsInjective(f)
    BY <1>2 DEF ExistsBijection, Bijection, Injection, IsInjective
  <1>4. PICK s : s = SetToSeq(S)
    OBVIOUS
  <1>5. s = CHOOSE g \in [1 .. n -> S] : IsInjective(g)
    BY <1>1, <1>4 DEF SetToSeq
  <1>6. s \in [1 .. n -> S] /\ IsInjective(s)
    BY <1>3, <1>5, Zenon
  <1>7. s \in SetToSeqs(S)
    BY <1>1, <1>6 DEF SetToSeqs, IsInjective
  <1>. QED  BY <1>4, <1>7, OrdersAre

(* Lists of so many different items. *)
LEMMA RankingsAre ==
    ASSUME NEW items, IsFiniteSet(items), NEW n \in Nat, NEW r \in Rankings(items, n)
    PROVE  r \in Seq(items) /\ Plain(r) /\ Len(r) <= n
  <1>1. PICK k \in Nat : k = Cardinality(items)
    BY FS_CardinalityType
  <1>2. PICK least : least = Min({n, k})
    OBVIOUS
  <1>3. least \in {n, k} /\ least <= n
    <2>1. \E x \in {n, k} : \A y \in {n, k} : x <= y
      OBVIOUS
    <2>. QED  BY <1>2, <2>1 DEF Min
  <1>4. r \in UNION {{f \in [1 .. m -> items] : IsInjective(f)} : m \in 0 .. least}
    BY <1>1, <1>2 DEF Rankings
  <1>5. PICK m \in 0 .. least : r \in [1 .. m -> items] /\ IsInjective(r)
    BY <1>4
  <1>6. m \in Nat /\ m <= n
    BY <1>3
  <1>7. r \in Seq(items) /\ Len(r) = m
    BY <1>5, <1>6
  <1>. QED  BY <1>5, <1>6, <1>7 DEF Plain, IsInjective

(* What is in one of two places is no more than two. *)
LEMMA TwoAtMost ==
    ASSUME NEW S, NEW p, NEW q, S \subseteq {p, q}
    PROVE  IsFiniteSet(S) /\ Cardinality(S) \in Nat /\ Cardinality(S) <= 2
  <1>1. IsFiniteSet({p}) /\ Cardinality({p}) = 1
    BY FS_Singleton
  <1>2. IsFiniteSet({p} \cup {q}) /\ Cardinality({p} \cup {q}) <= 2
    <2>1. /\ IsFiniteSet({p} \cup {q})
          /\ Cardinality({p} \cup {q}) = IF q \in {p} THEN Cardinality({p}) ELSE Cardinality({p}) + 1
      BY <1>1, FS_AddElement
    <2>. QED  BY <1>1, <2>1
  <1>3. S \subseteq {p} \cup {q}
    OBVIOUS
  <1>4. IsFiniteSet(S) /\ Cardinality(S) <= Cardinality({p} \cup {q})
    BY <1>2, <1>3, FS_Subset
  <1>5. Cardinality(S) \in Nat /\ Cardinality({p} \cup {q}) \in Nat
    BY <1>2, <1>4, FS_CardinalityType
  <1>. QED  BY <1>2, <1>4, <1>5

(* A list of different items is as long as they are many. *)
LEMMA PlainIsShorter ==
    ASSUME NEW D, NEW s \in Seq(D), Plain(s), NEW list \in Seq(D), Range(s) \subseteq Range(list)
    PROVE  Len(s) <= Len(list)
  <1>1. PICK n \in Nat : n = Len(s)
    BY LenProperties
  <1>2. DOMAIN s = 1 .. n /\ s \in [1 .. n -> D]
    BY <1>1, LenProperties
  <1>3. IsFiniteSet(Range(list)) /\ Cardinality(Range(list)) <= Len(list) /\ Cardinality(Range(list)) \in Nat
    BY RangeIs
  <1>4. \A i \in 1 .. n : s[i] \in Range(list)
    BY <1>1, RangeIs
  <1>5. s \in Injection(1 .. n, Range(list))
    BY <1>2, <1>4 DEF Plain, Injection, IsInjective
  <1>6. IsFiniteSet(1 .. n) /\ Cardinality(1 .. n) = n
    BY FS_Interval
  <1>7. Cardinality(1 .. n) <= Cardinality(Range(list))
    BY <1>3, <1>5, FS_Injection
  <1>. QED  BY <1>1, <1>3, <1>6, <1>7, LenProperties

(* The first items of a list stay when it is cut. *)
LEMMA FirstStay ==
    ASSUME NEW D, NEW list \in Seq(D), NEW n \in Nat, NEW i \in DOMAIN list, i <= n
    PROVE  list[i] \in Range(Cut(list, n))
  <1>1. PICK s : s = Cut(list, n)
    OBVIOUS
  <1>2. s \in Seq(D)
    BY <1>1, CutIs
  <1>3. s = [j \in 1 .. Len(s) |-> list[j]]
    BY <1>1, CutIs
  <1>4. DOMAIN list = 1 .. Len(list) /\ Len(list) \in Nat /\ Len(s) \in Nat
    BY <1>2, LenProperties
  <1>5. i <= Len(s)
    <2>1. n <= Len(list) => Len(s) = n
      BY <1>1, CutIs
    <2>2. Len(list) <= n => s = list
      BY <1>1, CutIs
    <2>. QED  BY <1>4, <2>1, <2>2
  <1>6. i \in 1 .. Len(s)
    BY <1>4, <1>5
  <1>7. s[i] = list[i]
    BY <1>3, <1>6
  <1>. QED  BY <1>1, <1>2, <1>6, <1>7, RangeIs
===============================================================================
