------------------------------ MODULE FoldLemmas ------------------------------
(***************************************************************************)
(* Induction over numbers and finite sets, and folds over finite sets: what *)
(* the proofs of several components need.  A library theorem on induction   *)
(* takes a predicate as a parameter; here it is the set of those for which  *)
(* the predicate is true.                                                   *)
(***************************************************************************)
EXTENDS FiniteSetsExt, FiniteSetTheorems, WellFoundedInduction, TLAPS

-----------------------------------------------------------------------------
(* Least and greatest numbers.  The order of the naturals is well founded;  *)
(* the others follow by counting.                                           *)

LEMMA Least ==
  ASSUME NEW T \in SUBSET Nat, T # {}
  PROVE  \E n \in T : \A m \in T : n <= m
  <1> DEFINE R == OpToRel(<, Nat)
  <1>1. \A m, n \in Nat : m < n => <<m, n>> \in R
    BY DEF OpToRel
  <1>2. IsWellFoundedOn(R, Nat)
    BY NatLessThanWellFounded
  <1> HIDE DEF R
  <1>3. PICK n \in T : \A m \in T : ~ (<<m, n>> \in R)
    BY <1>2, WFMin
  <1>4. \A m \in T : ~ (m < n)
    BY <1>1, <1>3
  <1> QED  BY <1>4

LEMMA FiniteMinimum ==
  ASSUME NEW S \in SUBSET Int, IsFiniteSet(S), S # {}
  PROVE  \E x \in S : \A y \in S : x <= y
  <1> DEFINE Below(x) == {y \in S : y < x}
             T == {Cardinality(Below(x)) : x \in S}
  <1>1. ASSUME NEW x \in S
        PROVE  IsFiniteSet(Below(x)) /\ Cardinality(Below(x)) \in Nat
    <2>1. Below(x) \in SUBSET S
      OBVIOUS
    <2> HIDE DEF Below
    <2>2. IsFiniteSet(Below(x))
      BY <2>1, FS_Subset
    <2> QED  BY <2>2, FS_CardinalityType
  <1>2. PICK n \in T : \A m \in T : n <= m
    <2>1. T \in SUBSET Nat /\ T # {}
      BY <1>1
    <2> HIDE DEF T
    <2> QED  BY <2>1, Least
  <1>3. PICK x \in S : n = Cardinality(Below(x))
    BY <1>2
  <1>4. ASSUME NEW y \in S, y < x
        PROVE  FALSE
    <2>0. x \in Int /\ y \in Int /\ \A z \in S : z \in Int
      OBVIOUS
    <2>1. Below(y) \in SUBSET Below(x) /\ y \in Below(x) /\ y \notin Below(y)
      <3>1. y \in Below(x)
        BY <1>4
      <3>2. y \notin Below(y)
        BY <2>0
      <3>3. ASSUME NEW z \in Below(y)
            PROVE  z \in Below(x)
        BY <1>4, <2>0
      <3> QED  BY <3>1, <3>2, <3>3
    <2>2. Cardinality(Below(y)) <= Cardinality(Below(x)) /\ Cardinality(Below(y)) # Cardinality(Below(x))
      BY <1>1, <2>1, FS_Subset
    <2>3. Cardinality(Below(x)) <= Cardinality(Below(y))
      BY <1>2, <1>3
    <2>4. Cardinality(Below(x)) \in Nat /\ Cardinality(Below(y)) \in Nat
      BY <1>1
    <2> HIDE DEF Below
    <2> QED  BY <2>2, <2>3, <2>4
  <1> QED  BY <1>4

LEMMA FiniteMaximum ==
  ASSUME NEW S \in SUBSET Int, IsFiniteSet(S), S # {}
  PROVE  \E x \in S : \A y \in S : y <= x
  <1> DEFINE Above(x) == {y \in S : x < y}
             T == {Cardinality(Above(x)) : x \in S}
  <1>1. ASSUME NEW x \in S
        PROVE  IsFiniteSet(Above(x)) /\ Cardinality(Above(x)) \in Nat
    <2>1. Above(x) \in SUBSET S
      OBVIOUS
    <2> HIDE DEF Above
    <2>2. IsFiniteSet(Above(x))
      BY <2>1, FS_Subset
    <2> QED  BY <2>2, FS_CardinalityType
  <1>2. PICK n \in T : \A m \in T : n <= m
    <2>1. T \in SUBSET Nat /\ T # {}
      BY <1>1
    <2> HIDE DEF T
    <2> QED  BY <2>1, Least
  <1>3. PICK x \in S : n = Cardinality(Above(x))
    BY <1>2
  <1>4. ASSUME NEW y \in S, x < y
        PROVE  FALSE
    <2>0. x \in Int /\ y \in Int /\ \A z \in S : z \in Int
      OBVIOUS
    <2>1. Above(y) \in SUBSET Above(x) /\ y \in Above(x) /\ y \notin Above(y)
      <3>1. y \in Above(x)
        BY <1>4
      <3>2. y \notin Above(y)
        BY <2>0
      <3>3. ASSUME NEW z \in Above(y)
            PROVE  z \in Above(x)
        BY <1>4, <2>0
      <3> QED  BY <3>1, <3>2, <3>3
    <2>2. Cardinality(Above(y)) <= Cardinality(Above(x)) /\ Cardinality(Above(y)) # Cardinality(Above(x))
      BY <1>1, <2>1, FS_Subset
    <2>3. Cardinality(Above(x)) <= Cardinality(Above(y))
      BY <1>2, <1>3
    <2>4. Cardinality(Above(x)) \in Nat /\ Cardinality(Above(y)) \in Nat
      BY <1>1
    <2> HIDE DEF Above
    <2> QED  BY <2>2, <2>3, <2>4
  <1> QED  BY <1>4

LEMMA MinIsLeast ==
  ASSUME NEW S \in SUBSET Int, IsFiniteSet(S), S # {}
  PROVE  Min(S) \in S /\ \A y \in S : Min(S) <= y
  <1>1. \E x \in S : \A y \in S : x <= y
    BY FiniteMinimum
  <1> QED  BY <1>1 DEF Min

LEMMA MaxIsGreatest ==
  ASSUME NEW S \in SUBSET Int, IsFiniteSet(S), S # {}
  PROVE  Max(S) \in S /\ \A y \in S : y <= Max(S)
  <1>1. PICK x \in S : \A y \in S : y <= x
    BY FiniteMaximum
  <1>2. \A y \in S : x >= y
    BY <1>1
  <1>3. Max(S) \in S /\ \A y \in S : Max(S) >= y
    BY <1>2 DEF Max
  <1> QED  BY <1>3

LEMMA FiniteImage ==
  ASSUME NEW S, IsFiniteSet(S), NEW f
  PROVE  IsFiniteSet({f[x] : x \in S})
  <1> DEFINE image == {f[x] : x \in S}
  <1>1. [x \in S |-> f[x]] \in Surjection(S, image)
    BY DEF Surjection
  <1> HIDE DEF image
  <1>2. IsFiniteSet(image)
    BY <1>1, FS_Surjection
  <1> QED  BY <1>2 DEF image

LEMMA GreatestBy ==
  ASSUME NEW S, IsFiniteSet(S), S # {}, NEW f, \A x \in S : f[x] \in Int
  PROVE  \E x \in S : \A y \in S : f[y] <= f[x]
  <1> DEFINE image == {f[x] : x \in S}
  <1>1. IsFiniteSet(image)
    BY FiniteImage
  <1>2. image \in SUBSET Int /\ image # {}
    OBVIOUS
  <1>3. PICK n \in image : \A m \in image : m <= n
    <2> HIDE DEF image
    <2> QED  BY <1>1, <1>2, FiniteMaximum
  <1> QED  BY <1>3

-----------------------------------------------------------------------------
(* Induction, as statements about sets. *)

LEMMA NaturalInduction ==
  ASSUME NEW P \in SUBSET Nat, 0 \in P, \A n \in P : n + 1 \in P
  PROVE  \A n \in Nat : n \in P
  <1> SUFFICES ASSUME NEW n \in Nat, n \notin P
               PROVE  FALSE
    OBVIOUS
  <1> DEFINE T == Nat \ P
  <1>1. PICK m \in T : \A k \in T : m <= k
    <2>1. T \in SUBSET Nat /\ T # {}
      OBVIOUS
    <2> HIDE DEF T
    <2> QED  BY <2>1, Least
  <1>2. m # 0 /\ m - 1 \in Nat /\ m - 1 \notin T
    BY <1>1
  <1>3. (m - 1) + 1 \in P
    BY <1>2
  <1> QED  BY <1>1, <1>3

\* What holds of a set when it holds of the set without any one of its elements.
LEMMA SubsetInduction ==
  ASSUME NEW S, IsFiniteSet(S), NEW Fine \in SUBSET SUBSET S,
         \A T \in SUBSET S : (\A x \in T : T \ {x} \in Fine) => T \in Fine
  PROVE  \A T \in SUBSET S : T \in Fine
  <1> SUFFICES ASSUME NEW B \in SUBSET S, B \notin Fine
               PROVE  FALSE
    OBVIOUS
  <1> DEFINE sizes == {Cardinality(T) : T \in (SUBSET S) \ Fine}
  <1>1. ASSUME NEW T \in SUBSET S
        PROVE  IsFiniteSet(T) /\ Cardinality(T) \in Nat
    <2>1. IsFiniteSet(T)
      BY FS_Subset
    <2> QED  BY <2>1, FS_CardinalityType
  <1>2. PICK n \in sizes : \A m \in sizes : n <= m
    <2>1. sizes \in SUBSET Nat /\ sizes # {}
      BY <1>1
    <2> HIDE DEF sizes
    <2> QED  BY <2>1, Least
  <1>3. PICK T \in (SUBSET S) \ Fine : n = Cardinality(T)
    BY <1>2
  <1>4. PICK x \in T : T \ {x} \notin Fine
    BY <1>3
  <1>5. Cardinality(T \ {x}) = Cardinality(T) - 1
    BY <1>1, <1>4, FS_RemoveElement
  <1>6. T \ {x} \in (SUBSET S) \ Fine
    BY <1>3, <1>4
  <1>7. Cardinality(T \ {x}) \in sizes
    BY <1>6
  <1>8. Cardinality(T) \in Nat
    BY <1>1, <1>3
  <1> HIDE DEF sizes
  <1> QED  BY <1>2, <1>3, <1>5, <1>7, <1>8

-----------------------------------------------------------------------------
(* Folds over a finite set, whose elements are taken off one by one: first  *)
(* the one that is applied last.                                            *)

Folds(S, base, last, step, g) ==
  \A s \in SUBSET S : g[s] = IF s = {} THEN base ELSE step[<<last[s], g[s \ {last[s]}]>>]

LEMMA FoldsExist ==
  ASSUME NEW S, IsFiniteSet(S), NEW V, NEW base \in V, NEW last, NEW step,
         \A s \in SUBSET S : s # {} => last[s] \in s,
         \A x \in S, v \in V : step[<<x, v>>] \in V
  PROVE  \E g \in [SUBSET S -> V] : Folds(S, base, last, step, g)
  <1> DEFINE Small(n) == {s \in SUBSET S : Cardinality(s) <= n}
             Adds(n, g) == \A s \in Small(n) :
                              g[s] = IF s = {} THEN base ELSE step[<<last[s], g[s \ {last[s]}]>>]
             P == {n \in Nat : \E g \in [Small(n) -> V] : Adds(n, g)}
  <1>0. ASSUME NEW s \in SUBSET S
        PROVE  /\ IsFiniteSet(s) /\ Cardinality(s) \in Nat
               /\ Cardinality(s) = 0 <=> s = {}
               /\ s # {} => /\ last[s] \in s /\ s \ {last[s]} \in SUBSET S
                            /\ Cardinality(s \ {last[s]}) = Cardinality(s) - 1
    <2>1. IsFiniteSet(s)
      BY FS_Subset
    <2>2. s # {} => last[s] \in s
      OBVIOUS
    <2>3. Cardinality(s) \in Nat
      BY <2>1, FS_CardinalityType
    <2>4. Cardinality(s) = 0 <=> s = {}
      BY <2>1, FS_EmptySet
    <2>5. s # {} => Cardinality(s \ {last[s]}) = Cardinality(s) - 1
      BY <2>1, <2>2, FS_RemoveElement
    <2> QED  BY <2>1, <2>2, <2>3, <2>4, <2>5
  <1>1. 0 \in P
    <2> DEFINE g == [s \in Small(0) |-> base]
    <2>1. ASSUME NEW s \in Small(0)
          PROVE  s = {}
      <3>1. s \in SUBSET S /\ Cardinality(s) <= 0
        OBVIOUS
      <3>2. Cardinality(s) \in Nat /\ (Cardinality(s) = 0 <=> s = {})
        BY <1>0, <3>1
      <3> QED  BY <3>1, <3>2
    <2>2. g \in [Small(0) -> V]
      OBVIOUS
    <2>3. Adds(0, g)
      BY <2>1
    <2> HIDE DEF g
    <2> QED  BY <2>2, <2>3
  <1>2. ASSUME NEW n \in P
        PROVE  n + 1 \in P
    <2>1. PICK g \in [Small(n) -> V] : Adds(n, g)
      OBVIOUS
    <2> DEFINE h == [s \in Small(n + 1) |-> IF s = {} THEN base ELSE step[<<last[s], g[s \ {last[s]}]>>]]
    <2>2. ASSUME NEW s \in Small(n + 1), s # {}
          PROVE  s \ {last[s]} \in Small(n) /\ last[s] \in S
      <3>1. s \in SUBSET S /\ Cardinality(s) <= n + 1 /\ n \in Nat
        OBVIOUS
      <3>2. /\ Cardinality(s) \in Nat /\ last[s] \in s /\ s \ {last[s]} \in SUBSET S
            /\ Cardinality(s \ {last[s]}) = Cardinality(s) - 1
        BY <1>0, <2>2, <3>1
      <3> QED  BY <3>1, <3>2
    <2>3. h \in [Small(n + 1) -> V]
      <3>1. ASSUME NEW s \in Small(n + 1), s # {}
            PROVE  step[<<last[s], g[s \ {last[s]}]>>] \in V
        BY <2>2, <3>1
      <3> QED  BY <3>1
    <2>4. ASSUME NEW s \in Small(n)
          PROVE  s \in Small(n + 1) /\ h[s] = g[s]
      <3>1. s \in SUBSET S /\ Cardinality(s) <= n /\ n \in Nat
        OBVIOUS
      <3>2. Cardinality(s) \in Nat
        BY <1>0, <3>1
      <3>3. s \in Small(n + 1)
        BY <3>1, <3>2
      <3> QED  BY <2>1, <3>3
    <2>5. Adds(n + 1, h)
      <3>1. ASSUME NEW s \in Small(n + 1), s # {}
            PROVE  h[s] = step[<<last[s], h[s \ {last[s]}]>>]
        <4>1. h[s] = step[<<last[s], g[s \ {last[s]}]>>]
          BY <3>1
        <4>2. h[s \ {last[s]}] = g[s \ {last[s]}]
          BY <2>2, <2>4, <3>1
        <4> QED  BY <4>1, <4>2
      <3>2. \A s \in Small(n + 1) : s = {} => h[s] = base
        OBVIOUS
      <3> HIDE DEF h
      <3> QED  BY <3>1, <3>2
    <2>6. n + 1 \in Nat
      OBVIOUS
    <2> HIDE DEF h, Adds, Small
    <2> QED  BY <2>3, <2>5, <2>6
  <1>3. \A n \in Nat : n \in P
    <2>1. P \in SUBSET Nat
      OBVIOUS
    <2> HIDE DEF P
    <2> QED  BY <1>1, <1>2, <2>1, NaturalInduction
  <1>4. Cardinality(S) \in Nat /\ Small(Cardinality(S)) = SUBSET S
    BY <1>0, FS_Subset
  <1>5. PICK g \in [SUBSET S -> V] : Adds(Cardinality(S), g)
    <2>1. Cardinality(S) \in P
      BY <1>3, <1>4
    <2> QED  BY <1>4, <2>1
  <1>6. Folds(S, base, last, step, g)
    BY <1>4, <1>5 DEF Folds
  <1> QED  BY <1>6

\* Two folds that agree as long as they have agreed before.
AgreeStepwise(S, g, h) ==
  /\ g[{}] = h[{}]
  /\ \A s \in SUBSET S : s # {} => \E x \in s : g[s \ {x}] = h[s \ {x}] => g[s] = h[s]

LEMMA FoldsAgree ==
  ASSUME NEW S, IsFiniteSet(S), NEW g, NEW h, AgreeStepwise(S, g, h)
  PROVE  \A s \in SUBSET S : g[s] = h[s]
  <1> DEFINE Fine == {s \in SUBSET S : g[s] = h[s]}
  <1>1. ASSUME NEW s \in SUBSET S, \A x \in s : s \ {x} \in Fine
        PROVE  s \in Fine
    <2>1. CASE s = {}
      BY <2>1 DEF AgreeStepwise
    <2>2. CASE s # {}
      <3>1. PICK x \in s : g[s \ {x}] = h[s \ {x}] => g[s] = h[s]
        BY <2>2 DEF AgreeStepwise
      <3>2. g[s \ {x}] = h[s \ {x}]
        BY <1>1
      <3> QED  BY <3>1, <3>2
    <2> QED  BY <2>1, <2>2
  <1>2. \A s \in SUBSET S : s \in Fine
    <2>1. Fine \in SUBSET SUBSET S
      OBVIOUS
    <2> HIDE DEF Fine
    <2> QED  BY <1>1, <2>1, SubsetInduction
  <1> QED  BY <1>2
===============================================================================
