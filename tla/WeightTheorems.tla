--------------------------- MODULE WeightTheorems ---------------------------
(***************************************************************************)
(* What Weight computes when an element joins, leaves or is reweighed.     *)
(***************************************************************************)
EXTENDS Weights, FiniteSetTheorems, TLAPS

\* The backends get a minute for each step.
USE SMTT(60)

\* Nothing weighs nothing.
LEMMA WeightEmpty ==
  ASSUME NEW w
  PROVE  IsFiniteSet(Units({}, w)) /\ Weight({}, w) = 0
  <1>1. Units({}, w) = {}
    BY DEF Units
  <1> QED BY <1>1, FS_EmptySet DEF Weight

\* Only the weights of the elements of S matter.
LEMMA WeightKept ==
  ASSUME NEW S, NEW v, NEW w, \A x \in S : v[x] = w[x]
  PROVE  Units(S, v) = Units(S, w) /\ Weight(S, v) = Weight(S, w)
  <1>1. Units(S, v) = Units(S, w)
    BY DEF Units
  <1> QED BY <1>1 DEF Weight

\* A sum of finitely many weights is a number.
LEMMA WeightType ==
  ASSUME NEW S, NEW w, IsFiniteSet(Units(S, w))
  PROVE  Weight(S, w) \in Nat
  BY FS_CardinalityType DEF Weight

\* A run of n units is n units.
LEMMA UnitCount ==
  ASSUME NEW x, NEW n \in Nat
  PROVE  IsFiniteSet({x} \X (1..n)) /\ Cardinality({x} \X (1..n)) = n
  <1>1. IsFiniteSet(1..n) /\ Cardinality(1..n) = n
    <2>1. IsFiniteSet(1..n) /\ Cardinality(1..n) = IF 1 > n THEN 0 ELSE n - 1 + 1
      BY FS_Interval
    <2> QED BY <2>1
  <1>2. IsFiniteSet({x}) /\ Cardinality({x}) = 1
    BY FS_Singleton, ZenonT(60)
  <1>3. PICK I : I = 1..n
    OBVIOUS
  <1>4. IsFiniteSet({x} \X I) /\ Cardinality({x} \X I) = Cardinality({x}) * Cardinality(I)
    BY <1>1, <1>2, <1>3, FS_Product, ZenonT(60)
  <1> QED BY <1>1, <1>2, <1>3, <1>4

\* Disjoint finite sets add up.
LEMMA DisjointCount ==
  ASSUME NEW U, IsFiniteSet(U), NEW V, IsFiniteSet(V), U \cap V = {}
  PROVE  IsFiniteSet(U \cup V) /\ Cardinality(U \cup V) = Cardinality(U) + Cardinality(V)
  <1>1. Cardinality(U) \in Nat /\ Cardinality(V) \in Nat
    BY FS_CardinalityType, ZenonT(60)
  <1>2. Cardinality(U \cap V) = 0
    BY FS_EmptySet, ZenonT(60)
  <1>3. /\ IsFiniteSet(U \cup V)
        /\ Cardinality(U \cup V) = Cardinality(U) + Cardinality(V) - Cardinality(U \cap V)
    BY FS_Union, ZenonT(60)
  <1> QED BY <1>1, <1>2, <1>3

\* A new element adds its weight.
LEMMA WeightAdd ==
  ASSUME NEW S, NEW w, IsFiniteSet(Units(S, w)), NEW x, x \notin S, w[x] \in Nat
  PROVE  /\ IsFiniteSet(Units(S \cup {x}, w))
         /\ Weight(S \cup {x}, w) = Weight(S, w) + w[x]
  <1>1. Units(S \cup {x}, w) = Units(S, w) \cup ({x} \X (1..w[x]))
    BY DEF Units
  <1>2. Units(S, w) \cap ({x} \X (1..w[x])) = {}
    BY DEF Units
  <1>3. IsFiniteSet({x} \X (1..w[x])) /\ Cardinality({x} \X (1..w[x])) = w[x]
    BY UnitCount, ZenonT(60)
  <1>4. /\ IsFiniteSet(Units(S, w) \cup ({x} \X (1..w[x])))
        /\ Cardinality(Units(S, w) \cup ({x} \X (1..w[x])))
             = Cardinality(Units(S, w)) + Cardinality({x} \X (1..w[x]))
    BY <1>2, <1>3, DisjointCount, ZenonT(60)
  <1> QED BY <1>1, <1>3, <1>4, ZenonT(60) DEF Weight

\* An element that leaves takes its weight along.
LEMMA WeightRemove ==
  ASSUME NEW S, NEW w, IsFiniteSet(Units(S, w)), NEW x \in S, w[x] \in Nat
  PROVE  /\ IsFiniteSet(Units(S \ {x}, w))
         /\ Weight(S, w) = Weight(S \ {x}, w) + w[x]
  <1>1. Units(S \ {x}, w) \in SUBSET Units(S, w)
    BY DEF Units
  <1>2. IsFiniteSet(Units(S \ {x}, w))
    BY <1>1, FS_Subset, ZenonT(60)
  <1>3. x \notin S \ {x} /\ (S \ {x}) \cup {x} = S
    OBVIOUS
  <1>4. Weight((S \ {x}) \cup {x}, w) = Weight(S \ {x}, w) + w[x]
    BY <1>2, <1>3, WeightAdd, ZenonT(60)
  <1> QED BY <1>2, <1>3, <1>4

\* A part of a set weighs no more than the set.
LEMMA WeightOfPart ==
  ASSUME NEW S, NEW w, IsFiniteSet(Units(S, w)), NEW T \in SUBSET S
  PROVE  IsFiniteSet(Units(T, w)) /\ Weight(T, w) <= Weight(S, w)
  <1>1. Units(T, w) \in SUBSET Units(S, w)
    BY DEF Units
  <1> QED BY <1>1, FS_Subset, ZenonT(60) DEF Weight

\* A set weighs what a part of it and the rest weigh together.
LEMMA WeightSplit ==
  ASSUME NEW S, NEW w, IsFiniteSet(Units(S, w)), NEW T \in SUBSET S
  PROVE  /\ Weight(S, w) = Weight(S \ T, w) + Weight(T, w)
         /\ Weight(S \ T, w) \in Nat /\ Weight(T, w) \in Nat
  <1>1. Units(S, w) = Units(S \ T, w) \cup Units(T, w)
    BY DEF Units
  <1>2. Units(S \ T, w) \cap Units(T, w) = {}
    BY DEF Units
  <1>3. IsFiniteSet(Units(S \ T, w)) /\ IsFiniteSet(Units(T, w))
    BY WeightOfPart, ZenonT(60)
  <1>4. Cardinality(Units(S \ T, w) \cup Units(T, w))
          = Cardinality(Units(S \ T, w)) + Cardinality(Units(T, w))
    BY <1>2, <1>3, DisjointCount, ZenonT(60)
  <1>5. Weight(S \ T, w) \in Nat /\ Weight(T, w) \in Nat
    BY <1>3, WeightType, ZenonT(60)
  <1> QED BY <1>1, <1>4, <1>5, ZenonT(60) DEF Weight

\* A finite set of natural weights weighs a natural number.
LEMMA WeightFinite ==
  ASSUME NEW S, IsFiniteSet(S), NEW w, \A x \in S : w[x] \in Nat
  PROVE  IsFiniteSet(Units(S, w)) /\ Weight(S, w) \in Nat
  <1> DEFINE Parts == {{x} \X (1..w[x]) : x \in S}
             f == [x \in S |-> {x} \X (1..w[x])]
  <1>1. f \in Surjection(S, Parts)
    BY ZenonT(60) DEF Surjection
  <1>2. IsFiniteSet(Parts)
    BY <1>1, FS_Surjection, ZenonT(60)
  <1>3. ASSUME NEW T \in Parts PROVE IsFiniteSet(T)
    <2>1. PICK x \in S : T = {x} \X (1..w[x])
      BY ZenonT(60)
    <2> QED BY <2>1, UnitCount, ZenonT(60)
  <1>4. IsFiniteSet(UNION Parts)
    <2> HIDE DEF Parts
    <2> QED BY <1>2, <1>3, FS_UNION, ZenonT(60)
  <1>5. IsFiniteSet(Units(S, w))
    BY <1>4, ZenonT(60) DEF Units
  <1> QED BY <1>5, WeightType, ZenonT(60)

\* The empty set has no elements.
LEMMA CountEmpty == IsFiniteSet({}) /\ Cardinality({}) = 0
  BY FS_EmptySet, ZenonT(60)

\* A finite set has a number of elements.
LEMMA CountType ==
  ASSUME NEW S, IsFiniteSet(S)
  PROVE  Cardinality(S) \in Nat
  BY FS_CardinalityType, ZenonT(60)

\* A set grows by one when an element joins it ...
LEMMA CountAdd ==
  ASSUME NEW S, IsFiniteSet(S), NEW x, x \notin S
  PROVE  IsFiniteSet(S \cup {x}) /\ Cardinality(S \cup {x}) = Cardinality(S) + 1
  BY FS_AddElement, ZenonT(60)

\* ... and shrinks by one when an element leaves it.
LEMMA CountRemove ==
  ASSUME NEW S, IsFiniteSet(S), NEW x \in S
  PROVE  /\ IsFiniteSet(S \ {x}) /\ Cardinality(S \ {x}) \in Nat
         /\ Cardinality(S) = Cardinality(S \ {x}) + 1
  <1>1. IsFiniteSet(S \ {x}) /\ Cardinality(S \ {x}) = Cardinality(S) - 1
    BY FS_RemoveElement, ZenonT(60)
  <1>2. Cardinality(S) \in Nat /\ Cardinality(S \ {x}) \in Nat
    BY <1>1, FS_CardinalityType, ZenonT(60)
  <1> QED BY <1>1, <1>2
=============================================================================
