------------------------------ MODULE FoldProofs ------------------------------
(***************************************************************************)
(* What the sums of the community modules compute.  They are defined by a  *)
(* recursive function on the subsets of a set; that there is such a        *)
(* function, and that the order of the elements does not matter, is proved *)
(* here by induction over the natural numbers.                             *)
(***************************************************************************)
EXTENDS FiniteSetsExt, FiniteSetTheorems, NaturalsInduction, TLAPS

-----------------------------------------------------------------------------
(* Induction.                                                              *)

LEMMA NumbersFromZero ==
  ASSUME NEW I \in SUBSET Nat, 0 \in I, \A n \in I : n + 1 \in I
  PROVE  I = Nat
<1> SUFFICES ASSUME I # Nat PROVE FALSE
  OBVIOUS
<1>1. IsWellFoundedOn(OpToRel(<, Nat), Nat)
  BY NatLessThanWellFounded
<1>2. PICK m \in Nat \ I : \A n \in Nat \ I : ~ (<<n, m>> \in OpToRel(<, Nat))
  BY <1>1, WFMin
<1>3. \A n \in Nat \ I : ~ (n < m)
  <2> TAKE n \in Nat \ I
  <2>1. <<n, m>> \in Nat \X Nat
    OBVIOUS
  <2> QED
    BY <1>2, <2>1 DEF OpToRel
<1>4. m \in Nat /\ m # 0
  BY <1>2
<1>5. m - 1 \in Nat /\ (m - 1) + 1 = m /\ m - 1 < m
  BY <1>4
<1>6. m - 1 \in I
  BY <1>3, <1>5
<1> QED
  BY <1>2, <1>5, <1>6

-----------------------------------------------------------------------------
(* Sums over finite sets.                                                  *)

\* The element that a sum adds last.
Choice(s) == CHOOSE x \in s : TRUE

\* g gives the sum of f over every subset of D.
IsSum(g, f, D) ==
  g = [s \in SUBSET D |-> IF s = {} THEN 0 ELSE f[Choice(s)] + g[s \ {Choice(s)}]]

LEMMA ChoiceInSet ==
  ASSUME NEW s, s # {}
  PROVE  Choice(s) \in s
BY DEF Choice

LEMMA SmallerSet ==
  ASSUME NEW D, IsFiniteSet(D), NEW s \in SUBSET D, NEW x \in s
  PROVE  /\ s \ {x} \in SUBSET D
         /\ IsFiniteSet(s) /\ Cardinality(s) \in Nat
         /\ Cardinality(s \ {x}) \in Nat
         /\ Cardinality(s \ {x}) = Cardinality(s) - 1
BY FS_Subset, FS_RemoveElement, FS_CardinalityType

LEMMA SumExists ==
  ASSUME NEW D, IsFiniteSet(D), NEW f
  PROVE  \E g : IsSum(g, f, D)
<1> DEFINE Body(g, s) == IF s = {} THEN 0 ELSE f[Choice(s)] + g[s \ {Choice(s)}]
           I == {n \in Nat : \E g : \A s \in SUBSET D : Cardinality(s) <= n => g[s] = Body(g, s)}
<1>1. 0 \in I
  <2> DEFINE g == [s \in SUBSET D |-> 0]
  <2>1. \A s \in SUBSET D : Cardinality(s) <= 0 => g[s] = Body(g, s)
    <3>1. ASSUME NEW s \in SUBSET D, Cardinality(s) <= 0
          PROVE  s = {}
      BY <3>1, FS_Subset, FS_EmptySet, FS_CardinalityType
    <3> QED
      BY <3>1
  <2> QED
    BY <2>1
<1>2. \A n \in I : n + 1 \in I
  <2> SUFFICES ASSUME NEW n \in I PROVE n + 1 \in I
    OBVIOUS
  <2>1. PICK g : \A s \in SUBSET D : Cardinality(s) <= n => g[s] = Body(g, s)
    OBVIOUS
  <2> DEFINE h == [s \in SUBSET D |-> Body(g, s)]
  <2>2. \A s \in SUBSET D : Cardinality(s) <= n => h[s] = g[s]
    BY <2>1
  <2>3. ASSUME NEW s \in SUBSET D, Cardinality(s) <= n + 1
        PROVE  h[s] = Body(h, s)
    <3>1. CASE s = {}
      BY <3>1
    <3>2. CASE s # {}
      <4>1. /\ s \ {Choice(s)} \in SUBSET D
            /\ Cardinality(s \ {Choice(s)}) <= n
        BY <2>3, <3>2, ChoiceInSet, SmallerSet
      <4>2. h[s \ {Choice(s)}] = g[s \ {Choice(s)}]
        BY <2>2, <4>1
      <4> HIDE DEF h
      <4>3. h[s] = Body(g, s)
        BY DEF h
      <4> QED
        BY <4>2, <4>3
    <3> QED
      BY <3>1, <3>2
  <2> HIDE DEF h
  <2>4. \E k : \A s \in SUBSET D : Cardinality(s) <= n + 1 => k[s] = Body(k, s)
    BY <2>3
  <2>5. n + 1 \in Nat
    OBVIOUS
  <2> HIDE DEF Body
  <2> QED
    BY <2>4, <2>5
<1> HIDE DEF I
<1>3. I = Nat
  <2>1. I \in SUBSET Nat
    BY DEF I
  <2> QED
    BY <1>1, <1>2, <2>1, NumbersFromZero
<1>4. Cardinality(D) \in I
  BY <1>3, FS_CardinalityType
<1>5. PICK g : \A s \in SUBSET D : Cardinality(s) <= Cardinality(D) => g[s] = Body(g, s)
  BY <1>4 DEF I
<1>6. \A s \in SUBSET D : g[s] = Body(g, s)
  BY <1>5, FS_Subset
<1> DEFINE h == [s \in SUBSET D |-> g[s]]
<1>7. \A s \in SUBSET D : h[s] = Body(h, s)
  <2> SUFFICES ASSUME NEW s \in SUBSET D PROVE h[s] = Body(h, s)
    OBVIOUS
  <2>1. s \ {Choice(s)} \in SUBSET D
    OBVIOUS
  <2> QED
    BY <1>6, <2>1
<1>8. h = [s \in SUBSET D |-> Body(h, s)]
  <2> HIDE DEF h, Body
  <2>1. h = [s \in SUBSET D |-> h[s]]
    BY DEF h
  <2> QED
    BY <1>7, <2>1
<1>9. IsSum(h, f, D)
  <2> HIDE DEF h
  <2> QED
    BY <1>8 DEF IsSum
<1> QED
  BY <1>9

LEMMA SumValue ==
  ASSUME NEW g, NEW f, NEW D, IsSum(g, f, D)
  PROVE  /\ g[{}] = 0
         /\ \A s \in SUBSET D :
              s # {} => s \ {Choice(s)} \in SUBSET D /\ g[s] = f[Choice(s)] + g[s \ {Choice(s)}]
<1> DEFINE Body(s) == IF s = {} THEN 0 ELSE f[Choice(s)] + g[s \ {Choice(s)}]
<1>1. g = [s \in SUBSET D |-> Body(s)]
  BY DEF IsSum
<1>2. \A s \in SUBSET D : g[s] = Body(s)
  <2> HIDE DEF Body
  <2> QED
    BY <1>1
<1>3. {} \in SUBSET D
  OBVIOUS
<1> QED
  BY <1>2, <1>3

\* The terms are numbers.
IntSum(g, f, D) == IsFiniteSet(D) /\ IsSum(g, f, D) /\ \A x \in D : f[x] \in Int

LEMMA SumType ==
  ASSUME NEW D, NEW f, NEW g, IntSum(g, f, D)
  PROVE  \A s \in SUBSET D : g[s] \in Int
<1>0. IsFiniteSet(D) /\ \A x \in D : f[x] \in Int
  BY DEF IntSum
<1>1. /\ g[{}] = 0
      /\ \A s \in SUBSET D :
           s # {} => s \ {Choice(s)} \in SUBSET D /\ g[s] = f[Choice(s)] + g[s \ {Choice(s)}]
  <2>1. IsSum(g, f, D)
    BY DEF IntSum
  <2> QED
    BY <2>1, SumValue
<1> DEFINE I == {n \in Nat : \A s \in SUBSET D : Cardinality(s) = n => g[s] \in Int}
<1>2. 0 \in I
  <2>1. ASSUME NEW s \in SUBSET D, Cardinality(s) = 0
        PROVE  g[s] \in Int
    <3>1. s = {}
      BY <1>0, <2>1, FS_Subset, FS_EmptySet
    <3> QED
      BY <1>1, <3>1
  <2> QED
    BY <2>1
<1>3. ASSUME NEW n \in I
      PROVE  n + 1 \in I
  <2>1. ASSUME NEW s \in SUBSET D, Cardinality(s) = n + 1
        PROVE  g[s] \in Int
    <3>1. s # {}
      <4>1. n \in Nat
        OBVIOUS
      <4>2. n + 1 # 0
        BY <4>1
      <4> QED
        BY <2>1, <4>2, FS_EmptySet
    <3>2. Choice(s) \in s
      BY <3>1, ChoiceInSet
    <3>3. s \ {Choice(s)} \in SUBSET D /\ Cardinality(s \ {Choice(s)}) = n
      BY <2>1, <3>2, <1>0, SmallerSet
    <3>4. g[s] = f[Choice(s)] + g[s \ {Choice(s)}]
      BY <1>1, <3>1
    <3>5. g[s \ {Choice(s)}] \in Int
      BY <3>3
    <3>6. f[Choice(s)] \in Int
      BY <1>0, <3>2
    <3> QED
      BY <3>4, <3>5, <3>6
  <2> QED
    BY <2>1
<1> HIDE DEF I
<1>4. I = Nat
  <2>1. I \in SUBSET Nat
    BY DEF I
  <2> QED
    BY <1>2, <1>3, <2>1, NumbersFromZero
<1>5. ASSUME NEW s \in SUBSET D
      PROVE  g[s] \in Int
  <2>1. Cardinality(s) \in I
    BY <1>0, <1>4, FS_Subset, FS_CardinalityType
  <2> QED
    BY <2>1 DEF I
<1> QED
  BY <1>5

(***************************************************************************)
(* The sum over a set is that over the rest of it and any of its elements: *)
(* the order does not matter.                                              *)
(***************************************************************************)
LEMMA SumAdds ==
  ASSUME NEW D, NEW f, NEW g, IntSum(g, f, D)
  PROVE  \A s \in SUBSET D : \A x \in s : g[s] = f[x] + g[s \ {x}]
<1>0. IsFiniteSet(D) /\ \A x \in D : f[x] \in Int
  BY DEF IntSum
<1>1. /\ g[{}] = 0
      /\ \A s \in SUBSET D :
           s # {} => s \ {Choice(s)} \in SUBSET D /\ g[s] = f[Choice(s)] + g[s \ {Choice(s)}]
  <2>1. IsSum(g, f, D)
    BY DEF IntSum
  <2> QED
    BY <2>1, SumValue
<1> DEFINE I == {n \in Nat : \A s \in SUBSET D :
                               Cardinality(s) = n => \A x \in s : g[s] = f[x] + g[s \ {x}]}
<1>2. 0 \in I
  <2>1. ASSUME NEW s \in SUBSET D, Cardinality(s) = 0
        PROVE  s = {}
    BY <1>0, <2>1, FS_Subset, FS_EmptySet
  <2> QED
    BY <2>1
<1>3. ASSUME NEW n \in I
      PROVE  n + 1 \in I
  <2>1. ASSUME NEW s \in SUBSET D, Cardinality(s) = n + 1, NEW x \in s
        PROVE  g[s] = f[x] + g[s \ {x}]
    <3>1. PICK y \in s : y = Choice(s)
      BY ChoiceInSet
    <3>2. g[s] = f[y] + g[s \ {y}]
      BY <1>1, <3>1
    <3>3. CASE y = x
      BY <3>2, <3>3
    <3>4. CASE y # x
      <4>1. x \in s \ {y} /\ y \in s \ {x}
        BY <3>4
      <4>2. /\ s \ {x} \in SUBSET D /\ Cardinality(s \ {x}) = n
            /\ s \ {y} \in SUBSET D /\ Cardinality(s \ {y}) = n
        <5>1. s \ {x} \in SUBSET D /\ Cardinality(s \ {x}) = Cardinality(s) - 1
          BY <1>0, SmallerSet
        <5>2. s \ {y} \in SUBSET D /\ Cardinality(s \ {y}) = Cardinality(s) - 1
          BY <1>0, SmallerSet
        <5> QED
          BY <2>1, <5>1, <5>2
      <4>3. g[s \ {y}] = f[x] + g[(s \ {y}) \ {x}] /\ g[s \ {x}] = f[y] + g[(s \ {x}) \ {y}]
        BY <4>1, <4>2
      <4>4. (s \ {y}) \ {x} = (s \ {x}) \ {y} /\ (s \ {x}) \ {y} \in SUBSET D
        OBVIOUS
      <4>5. PICK a \in Int : a = g[(s \ {x}) \ {y}]
        BY <4>4, SumType
      <4>6. f[x] \in Int /\ f[y] \in Int
        BY <1>0
      <4>7. g[s] = f[y] + (f[x] + a) /\ g[s \ {x}] = f[y] + a
        BY <3>2, <4>3, <4>4, <4>5
      <4> QED
        BY <4>5, <4>6, <4>7
    <3> QED
      BY <3>3, <3>4
  <2> QED
    BY <2>1
<1> HIDE DEF I
<1>4. I = Nat
  <2>1. I \in SUBSET Nat
    BY DEF I
  <2> QED
    BY <1>2, <1>3, <2>1, NumbersFromZero
<1>5. ASSUME NEW s \in SUBSET D
      PROVE  \A x \in s : g[s] = f[x] + g[s \ {x}]
  <2>1. Cardinality(s) \in I
    BY <1>0, <1>4, FS_Subset, FS_CardinalityType
  <2> QED
    BY <2>1 DEF I
<1> QED
  BY <1>5

\* Where the terms agree, so do the sums.
LEMMA SumAgrees ==
  ASSUME NEW D, NEW E, NEW f, NEW e, NEW g, NEW h, IsSum(g, f, D), IsSum(h, e, E),
         NEW S, IsFiniteSet(S), S \subseteq D, S \subseteq E, \A x \in S : f[x] = e[x]
  PROVE  g[S] = h[S]
<1> DEFINE I == {n \in Nat : \A s \in SUBSET S : Cardinality(s) = n => g[s] = h[s]}
<1>1. 0 \in I
  <2>1. ASSUME NEW s \in SUBSET S, Cardinality(s) = 0
        PROVE  g[s] = h[s]
    <3>1. s = {}
      BY <2>1, FS_Subset, FS_EmptySet
    <3> QED
      BY <3>1, SumValue
  <2> QED
    BY <2>1
<1>2. ASSUME NEW n \in I
      PROVE  n + 1 \in I
  <2>1. ASSUME NEW s \in SUBSET S, Cardinality(s) = n + 1
        PROVE  g[s] = h[s]
    <3>1. s # {}
      <4>1. n \in Nat
        OBVIOUS
      <4>2. n + 1 # 0
        BY <4>1
      <4> QED
        BY <2>1, <4>2, FS_EmptySet
    <3>2. Choice(s) \in s
      BY <3>1, ChoiceInSet
    <3>3. s \ {Choice(s)} \in SUBSET S /\ Cardinality(s \ {Choice(s)}) = n
      BY <2>1, <3>2, SmallerSet
    <3>4. s \in SUBSET D /\ s \in SUBSET E
      OBVIOUS
    <3>5. g[s] = f[Choice(s)] + g[s \ {Choice(s)}] /\ h[s] = e[Choice(s)] + h[s \ {Choice(s)}]
      BY <3>1, <3>4, SumValue
    <3>6. f[Choice(s)] = e[Choice(s)]
      BY <3>2
    <3>7. g[s \ {Choice(s)}] = h[s \ {Choice(s)}]
      BY <3>3
    <3> QED
      BY <3>5, <3>6, <3>7
  <2> QED
    BY <2>1
<1> HIDE DEF I
<1>3. I = Nat
  <2>1. I \in SUBSET Nat
    BY DEF I
  <2> QED
    BY <1>1, <1>2, <2>1, NumbersFromZero
<1>4. Cardinality(S) \in I
  BY <1>3, FS_CardinalityType
<1> QED
  BY <1>4 DEF I

-----------------------------------------------------------------------------
(* The sum of a function over a finite set.                                *)

SumOf(f, S) == (CHOOSE g : IsSum(g, f, S))[S]

LEMMA SumOfEmpty ==
  ASSUME NEW f
  PROVE  SumOf(f, {}) = 0
<1>1. PICK g : IsSum(g, f, {}) /\ g = CHOOSE k : IsSum(k, f, {})
  BY SumExists, FS_EmptySet
<1> QED
  BY <1>1, SumValue DEF SumOf

LEMMA SumOfIs ==
  ASSUME NEW S, IsFiniteSet(S), NEW f
  PROVE  \E g : IsSum(g, f, S) /\ SumOf(f, S) = g[S]
<1>1. \E k : IsSum(k, f, S)
  BY SumExists
<1> DEFINE g == CHOOSE k : IsSum(k, f, S)
<1>2. IsSum(g, f, S)
  <2> HIDE DEF IsSum
  <2> QED
    BY <1>1
<1>3. SumOf(f, S) = g[S]
  BY DEF SumOf
<1> HIDE DEF g
<1> QED
  BY <1>2, <1>3

LEMMA SumOfType ==
  ASSUME NEW S, IsFiniteSet(S), NEW f, \A x \in S : f[x] \in Int
  PROVE  SumOf(f, S) \in Int
<1>1. PICK g : IsSum(g, f, S) /\ SumOf(f, S) = g[S]
  BY SumOfIs
<1> QED
  BY <1>1, SumType DEF IntSum

LEMMA SumOfAgrees ==
  ASSUME NEW S, IsFiniteSet(S), NEW f, NEW e, \A x \in S : f[x] = e[x]
  PROVE  SumOf(f, S) = SumOf(e, S)
<1>1. PICK g : IsSum(g, f, S) /\ SumOf(f, S) = g[S]
  BY SumOfIs
<1>2. PICK h : IsSum(h, e, S) /\ SumOf(e, S) = h[S]
  BY SumOfIs
<1> QED
  BY <1>1, <1>2, SumAgrees

LEMMA SumTakesOut ==
  ASSUME NEW D, NEW f, NEW g, IntSum(g, f, D), NEW s \in SUBSET D, NEW x \in s
  PROVE  g[s] = f[x] + g[s \ {x}]
BY SumAdds

LEMMA SumAddsLast ==
  ASSUME NEW S, NEW f, NEW y, y \notin S, NEW g, IntSum(g, f, S \cup {y})
  PROVE  g[S \cup {y}] = f[y] + g[S]
<1>1. (S \cup {y}) \ {y} = S /\ S \cup {y} \in SUBSET (S \cup {y}) /\ y \in S \cup {y}
  OBVIOUS
<1>2. g[S \cup {y}] = f[y] + g[(S \cup {y}) \ {y}]
  BY <1>1, SumTakesOut
<1> QED
  BY <1>1, <1>2

LEMMA SumOfAdds ==
  ASSUME NEW S, IsFiniteSet(S), NEW f, NEW y, y \notin S, \A x \in S \cup {y} : f[x] \in Int
  PROVE  /\ IsFiniteSet(S \cup {y})
         /\ SumOf(f, S \cup {y}) = SumOf(f, S) + f[y]
<1>1. IsFiniteSet(S \cup {y})
  BY FS_AddElement
<1>2. PICK g : IsSum(g, f, S \cup {y}) /\ SumOf(f, S \cup {y}) = g[S \cup {y}]
  BY <1>1, SumOfIs
<1>3. PICK h : IsSum(h, f, S) /\ SumOf(f, S) = h[S]
  BY SumOfIs
<1>4. g[S \cup {y}] = f[y] + g[S]
  <2>1. IntSum(g, f, S \cup {y})
    BY <1>1, <1>2 DEF IntSum
  <2> QED
    BY <2>1, SumAddsLast
<1>5. g[S] = h[S]
  <2>1. S \subseteq S \cup {y}
    OBVIOUS
  <2> QED
    BY <1>2, <1>3, <2>1, SumAgrees
<1>6. f[y] \in Int /\ h[S] \in Int
  BY <1>3, SumType DEF IntSum
<1> QED
  BY <1>1, <1>2, <1>3, <1>4, <1>5, <1>6

\* MapThenSumSet with a function for its operator.
LEMMA MapThenSumSetIs ==
  ASSUME NEW S, IsFiniteSet(S), NEW f
  PROVE  MapThenSumSet(LAMBDA x : f[x], S) = SumOf(f, S)
BY DEF MapThenSumSet, MapThenFoldSet, SumOf, IsSum, Choice

=============================================================================
