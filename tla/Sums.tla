-------------------------------- MODULE Sums --------------------------------
(***************************************************************************)
(* Facts about SumFunctionOnSet, the sum of the values a function takes on *)
(* a finite set.  It is defined by recursion over subsets; here it is      *)
(* shown to count something, and everything else follows from that.        *)
(***************************************************************************)
EXTENDS FiniteSetTheorems, TLAPS

(* As many pairs as the values of f on S add up to.                        *)
Units(f, S) == UNION {{x} \X (1 .. f[x]) : x \in S}

LEMMA UnitsOfOne ==
  ASSUME NEW x, NEW n \in Nat
  PROVE  IsFiniteSet({x} \X (1 .. n)) /\ Cardinality({x} \X (1 .. n)) = n
<1>1. IsFiniteSet(1 .. n) /\ Cardinality(1 .. n) = n
  BY FS_Interval
<1>2. IsFiniteSet({x}) /\ Cardinality({x}) = 1
  BY FS_Singleton
<1>3. QED
  BY <1>1, <1>2, FS_Product

LEMMA UnitsAreFinite ==
  ASSUME NEW S, IsFiniteSet(S), NEW f, \A x \in S : f[x] \in Nat
  PROVE  IsFiniteSet(Units(f, S))
<1> DEFINE T == {{x} \X (1 .. f[x]) : x \in S}
           g == [x \in S |-> {x} \X (1 .. f[x])]
<1>1. g \in Surjection(S, T)
  BY DEF Surjection
<1>2. IsFiniteSet(T)
  BY <1>1, FS_Surjection
<1>3. ASSUME NEW t \in T
      PROVE  IsFiniteSet(t)
  <2>1. PICK x \in S : t = {x} \X (1 .. f[x])
    OBVIOUS
  <2>2. QED
    BY <2>1, UnitsOfOne
<1>4. IsFiniteSet(UNION T)
  BY <1>2, <1>3, FS_UNION
<1>5. QED
  BY <1>4 DEF Units

(* One element more adds its value.                                        *)
LEMMA UnitsAdd ==
  ASSUME NEW S, IsFiniteSet(S), NEW x, x \notin S,
         NEW f, \A y \in S \cup {x} : f[y] \in Nat
  PROVE  Cardinality(Units(f, S \cup {x})) = f[x] + Cardinality(Units(f, S))
<1> DEFINE U == Units(f, S)  V == {x} \X (1 .. f[x])
<1>1. Units(f, S \cup {x}) = U \cup V
  BY DEF Units
<1>2. U \cap V = {}
  BY DEF Units
<1>3. IsFiniteSet(U) /\ IsFiniteSet(V) /\ Cardinality(V) = f[x]
  BY UnitsAreFinite, UnitsOfOne
<1>4. Cardinality(U) \in Nat
  BY <1>3, FS_CardinalityType
<1>5. Cardinality(U \cup V) = Cardinality(U) + Cardinality(V) - Cardinality(U \cap V)
  BY <1>3, FS_Union
<1>6. Cardinality(U \cap V) = 0
  BY <1>2, FS_EmptySet
<1>7. Cardinality(U \cup V) = Cardinality(U) + f[x] - 0
  <2> HIDE DEF U, V
  <2> QED BY ONLY <1>3, <1>5, <1>6, Zenon
<1>8. QED
  <2>1. f[x] \in Nat
    OBVIOUS
  <2>2. Cardinality(Units(f, S \cup {x})) = Cardinality(U) + f[x] - 0
    <3> HIDE DEF U, V
    <3> QED BY ONLY <1>1, <1>7, Zenon
  <2>3. QED
    <3> HIDE DEF V
    <3> QED BY <1>4, <2>1, <2>2

Iterates(g, f, S) ==
  g = [s \in SUBSET S |-> IF s = {} THEN 0
                          ELSE LET x == CHOOSE x \in s : TRUE IN f[x] + g[s \ {x}]]

LEMMA UnitsIterate ==
  ASSUME NEW S, IsFiniteSet(S), NEW f, \A x \in S : f[x] \in Nat
  PROVE  Iterates([s \in SUBSET S |-> Cardinality(Units(f, s))], f, S)
<1> DEFINE g == [s \in SUBSET S |-> Cardinality(Units(f, s))]
<1>1. ASSUME NEW s \in SUBSET S, s # {}
      PROVE  g[s] = LET x == CHOOSE x \in s : TRUE IN f[x] + g[s \ {x}]
  <2> DEFINE x == CHOOSE x \in s : TRUE
             r == s \ {x}
  <2>1. x \in s
    BY <1>1
  <2>2. IsFiniteSet(r) /\ x \notin r /\ r \in SUBSET S /\ s = r \cup {x}
    BY <2>1, FS_Subset
  <2>3. Cardinality(Units(f, s)) = f[x] + Cardinality(Units(f, r))
    <3> HIDE DEF x, r
    <3>1. \A y \in r \cup {x} : f[y] \in Nat
      BY <2>1, <2>2
    <3>2. QED
      BY <2>2, <3>1, UnitsAdd
  <2>4. g[s] = f[x] + g[r]
    <3> HIDE DEF x, r
    <3> QED BY <2>2, <2>3
  <2>5. QED
    BY <2>4
<1>2. g[{}] = 0
  <2>1. Units(f, {}) = {}
    BY DEF Units
  <2>2. QED
    BY <2>1, FS_EmptySet
<1>3. Iterates(g, f, S)
  <2>1. \A s \in SUBSET S :
          g[s] = IF s = {} THEN 0 ELSE LET x == CHOOSE x \in s : TRUE IN f[x] + g[s \ {x}]
    BY <1>1, <1>2
  <2>2. g = [s \in SUBSET S |-> g[s]]
    OBVIOUS
  <2> HIDE DEF g
  <2>3. QED
    BY <2>1, <2>2 DEF Iterates
<1>4. QED
  BY <1>3

(* Nothing but the count does what the recursion says: a smallest set on   *)
(* which it did otherwise would have a smaller one.                        *)
LEMMA IterationIsUnique ==
  ASSUME NEW S, IsFiniteSet(S), NEW f, \A x \in S : f[x] \in Nat,
         NEW g, Iterates(g, f, S),
         NEW h, Iterates(h, f, S)
  PROVE  \A s \in SUBSET S : g[s] = h[s]
<1> DEFINE T == {s \in SUBSET S : g[s] # h[s]}
           R == StrictSubsetOrdering(S)
<1> SUFFICES ASSUME T # {} PROVE FALSE
  OBVIOUS
<1>1. IsWellFoundedOn(R, SUBSET S)
  BY FS_StrictSubsetOrderingWellFounded, FS_FiniteSubsetsOfFinite
<1>2. T \subseteq SUBSET S
  OBVIOUS
<1>3. PICK s \in T : \A t \in T : ~(<<t, s>> \in R)
  <2> HIDE DEF T, R
  <2> QED BY <1>1, <1>2, WFMin
<1>4. s \in SUBSET S /\ g[s] # h[s]
  BY <1>3
<1>5. /\ g[s] = IF s = {} THEN 0 ELSE LET x == CHOOSE x \in s : TRUE IN f[x] + g[s \ {x}]
      /\ h[s] = IF s = {} THEN 0 ELSE LET x == CHOOSE x \in s : TRUE IN f[x] + h[s \ {x}]
  BY <1>4 DEF Iterates
<1> DEFINE x == CHOOSE x \in s : TRUE
           t == s \ {x}
<1>6. s # {} /\ g[s] = f[x] + g[t] /\ h[s] = f[x] + h[t]
  BY <1>4, <1>5
<1>7. x \in s
  BY <1>6
<1>8. <<t, s>> \in R /\ t \in SUBSET S
  BY <1>4, <1>7 DEF StrictSubsetOrdering
<1>9. t \notin T
  BY <1>3, <1>8
<1>10. QED
  <2>1. g[t] = h[t]
    BY <1>8, <1>9
  <2> HIDE DEF t, x
  <2> QED BY <1>4, <1>6, <2>1

(* What SumFunctionOnSet computes.                                         *)
THEOREM SumCounts ==
  ASSUME NEW S, IsFiniteSet(S), NEW f, \A x \in S : f[x] \in Nat
  PROVE  SumFunctionOnSet(f, S) = Cardinality(Units(f, S))
<1> DEFINE h == [s \in SUBSET S |-> Cardinality(Units(f, s))]
           g == CHOOSE g : Iterates(g, f, S)
<1>1. Iterates(h, f, S)
  BY UnitsIterate
<1>2. Iterates(g, f, S)
  <2> HIDE DEF h
  <2> QED BY <1>1
<1>3. SumFunctionOnSet(f, S) = g[S]
  BY DEF SumFunctionOnSet, FoldFunctionOnSet, MapThenFoldSet, Iterates
<1>4. g[S] = h[S]
  <2> HIDE DEF g, h
  <2> QED BY <1>1, <1>2, IterationIsUnique
<1>5. QED
  BY <1>3, <1>4

COROLLARY SumType ==
  ASSUME NEW S, IsFiniteSet(S), NEW f \in [S -> Nat]
  PROVE  SumFunction(f) \in Nat
BY SumCounts, UnitsAreFinite, FS_CardinalityType DEF SumFunction

COROLLARY SumEmpty ==
  ASSUME NEW f, DOMAIN f = {}
  PROVE  SumFunction(f) = 0
<1>1. Units(f, {}) = {}
  BY DEF Units
<1>2. SumFunctionOnSet(f, {}) = 0
  BY <1>1, SumCounts, FS_EmptySet
<1>3. QED
  BY <1>2 DEF SumFunction

(* A function with one more argument sums to one more value.               *)
COROLLARY SumGrows ==
  ASSUME NEW S, IsFiniteSet(S), NEW x, x \notin S,
         NEW f \in [S -> Nat], NEW g \in [S \cup {x} -> Nat],
         \A y \in S : g[y] = f[y]
  PROVE  SumFunction(g) = g[x] + SumFunction(f)
<1>1. IsFiniteSet(S \cup {x})
  BY FS_AddElement
<1>2. SumFunction(g) = Cardinality(Units(g, S \cup {x}))
  BY <1>1, SumCounts DEF SumFunction
<1>3. SumFunction(f) = Cardinality(Units(f, S))
  BY SumCounts DEF SumFunction
<1>4. Units(g, S) = Units(f, S)
  BY DEF Units
<1>5. QED
  BY <1>2, <1>3, <1>4, UnitsAdd
=============================================================================
