----------------------------- MODULE SumLemmas -----------------------------
(***************************************************************************)
(* What the sums of the community modules promise.  They are defined by a  *)
(* recursive function over the subsets of a set, from which one element at *)
(* a time is chosen; the lemmas show that over a finite set the function   *)
(* exists, and that the sum does not depend on the elements' order.  The   *)
(* proofs take, in place of an induction, a smallest counterexample.       *)
(***************************************************************************)
EXTENDS Integers, FiniteSets, FiniteSetsExt, Functions, FiniteSetTheorems,
        WellFoundedInduction, TLAPS

(* The element a sum takes out of a set first.                             *)
Pick(S) == CHOOSE x \in S : TRUE

(* g is the sum of the weights w over each subset of S.                    *)
Summing(w, S, g) ==
  g = [s \in SUBSET S |-> IF s = {} THEN 0 ELSE w[Pick(s)] + g[s \ {Pick(s)}]]

(* The sum of the weights w over S.                                        *)
Total(w, S) == (CHOOSE g : Summing(w, S, g))[S]

(* Every element of a finite set has a weight.                             *)
Weights(w, S) == IsFiniteSet(S) /\ \A x \in S : w[x] \in Int

(* The sums of Functions are totals.                                       *)
LEMMA SumIsTotal ==
  ASSUME NEW f, NEW S
  PROVE  SumFunctionOnSet(f, S) = Total(f, S) /\ SumFunction(f) = Total(f, DOMAIN f)
BY DEF SumFunction, SumFunctionOnSet, FoldFunctionOnSet, MapThenFoldSet, Total, Summing, Pick

(* A set of natural numbers that is not empty has a least element.         *)
LEMMA LeastNat ==
  ASSUME NEW T \in SUBSET Nat, T # {}
  PROVE  \E x \in T : \A y \in T : x <= y
<1> DEFINE R == OpToRel(<, Nat)
<1>1. PICK x \in T : \A y \in T : ~(<<y, x>> \in R)
  BY NatLessThanWellFounded, WFMin
<1>2. \A y, z \in Nat : y < z => <<y, z>> \in R
  BY SMT DEF OpToRel
<1> HIDE DEF R
<1>3. ASSUME NEW y \in T PROVE x <= y
  <2>1. x \in Nat /\ y \in Nat
    OBVIOUS
  <2>2. ~(<<y, x>> \in R)
    BY <1>1
  <2>3. ~(y < x)
    BY <2>1, <2>2, <1>2, Zenon
  <2> QED
    BY <2>1, <2>3
<1> QED
  BY <1>3

(* Of the subsets of a finite set that are in T, one has no proper subset  *)
(* in T.                                                                   *)
LEMMA SmallestSubset ==
  ASSUME NEW S, IsFiniteSet(S), NEW T \in SUBSET SUBSET S, T # {}
  PROVE  \E s \in T : \A t \in T : t \subseteq s => t = s
<1>1. \A s \in SUBSET S : IsFiniteSet(s) /\ Cardinality(s) \in Nat
  BY FS_Subset, FS_CardinalityType
<1> DEFINE C == {n \in Nat : \E s \in T : n = Cardinality(s)}
<1>2. C \subseteq Nat /\ C # {}
  BY <1>1
<1>3. PICK n \in C : \A m \in C : n <= m
  BY <1>2, LeastNat
<1>4. PICK s \in T : n = Cardinality(s)
  BY <1>3
<1>5. ASSUME NEW t \in T, t \subseteq s  PROVE t = s
  <2>1. Cardinality(t) \in C /\ n <= Cardinality(t)
    BY <1>1, <1>3
  <2>2. t # s => Cardinality(t) < Cardinality(s)
    BY <1>1, <1>5, FS_Subset
  <2> QED BY <2>1, <2>2, <1>1, <1>4
<1> QED BY <1>4, <1>5

(* The sum exists over a finite set.                                       *)
LEMMA SummingUnique ==
  ASSUME NEW w, NEW S, NEW U, IsFiniteSet(S), NEW g, NEW h,
         Summing(w, S, g), Summing(w, U, h), NEW s \in SUBSET (S \cap U)
  PROVE  g[s] = h[s]
<1> DEFINE Bad == {t \in SUBSET (S \cap U) : g[t] # h[t]}
<1>1. SUFFICES ASSUME Bad # {}  PROVE FALSE
  OBVIOUS
<1>2. IsFiniteSet(S \cap U)
  BY FS_Subset
<1>3. PICK t \in Bad : \A v \in Bad : v \subseteq t => v = t
  <2>1. Bad \in SUBSET SUBSET (S \cap U)
    OBVIOUS
  <2> HIDE DEF Bad
  <2> QED BY <1>1, <1>2, <2>1, SmallestSubset
<1>4. /\ g[t] = IF t = {} THEN 0 ELSE w[Pick(t)] + g[t \ {Pick(t)}]
      /\ h[t] = IF t = {} THEN 0 ELSE w[Pick(t)] + h[t \ {Pick(t)}]
  <2>1. t \in SUBSET S /\ t \in SUBSET U
    OBVIOUS
  <2> HIDE DEF Bad
  <2> QED BY <2>1 DEF Summing
<1>5. t # {} => Pick(t) \in t
  BY DEF Pick
<1>6. t # {} => t \ {Pick(t)} \notin Bad /\ t \ {Pick(t)} \in SUBSET (S \cap U)
  BY <1>3, <1>5
<1>7. t # {} => g[t \ {Pick(t)}] = h[t \ {Pick(t)}]
  BY <1>6
<1> QED BY <1>4, <1>7

(* Such a function exists for every finite set.                            *)
LEMMA SummingExists ==
  ASSUME NEW w, NEW S, IsFiniteSet(S)
  PROVE  \E g : Summing(w, S, g)
<1> DEFINE Bad == {T \in SUBSET S : ~ \E g : Summing(w, T, g)}
<1>1. SUFFICES ASSUME Bad # {}  PROVE FALSE
  OBVIOUS
<1>2. PICK T \in Bad : \A V \in Bad : V \subseteq T => V = T
  <2>1. Bad \in SUBSET SUBSET S
    OBVIOUS
  <2> HIDE DEF Bad
  <2> QED BY <1>1, <2>1, SmallestSubset
<1> DEFINE F(V) == CHOOSE g : Summing(w, V, g)
<1>3. ASSUME NEW V \in SUBSET T, V # T  PROVE Summing(w, V, F(V))
  <2>1. V \notin Bad /\ V \in SUBSET S
    BY <1>2, <1>3
  <2>2. \E g : Summing(w, V, g)
    BY <2>1
  <2> QED BY <2>2
<1> DEFINE G == [s \in SUBSET T |->
                   IF s = {} THEN 0 ELSE w[Pick(s)] + F(s \ {Pick(s)})[s \ {Pick(s)}]]
<1>4. ASSUME NEW s \in SUBSET T, s # {}  PROVE G[s \ {Pick(s)}] = F(s \ {Pick(s)})[s \ {Pick(s)}]
  <2> DEFINE v == s \ {Pick(s)}
  <2>1. Pick(s) \in s /\ v \in SUBSET T /\ v # T
    BY <1>4 DEF Pick
  <2>2. Summing(w, v, F(v))
    BY <2>1, <1>3
  <2>3. F(v)[v] = IF v = {} THEN 0 ELSE w[Pick(v)] + F(v)[v \ {Pick(v)}]
    <3> HIDE DEF v, F
    <3> QED BY <2>2 DEF Summing
  <2>4. CASE v = {}
    BY <2>1, <2>3, <2>4
  <2>5. CASE v # {}
    <3> DEFINE u == v \ {Pick(v)}
    <3>1. Pick(v) \in v /\ u \in SUBSET T /\ u # T /\ u \in SUBSET v
      BY <2>1, <2>5 DEF Pick
    <3>2. Summing(w, u, F(u))
      BY <3>1, <1>3
    <3>3. IsFiniteSet(v)
      BY <2>1, FS_Subset
    <3>4. F(u)[u] = F(v)[u]
      <4> HIDE DEF v, u, F
      <4> QED BY <2>2, <3>1, <3>2, <3>3, SummingUnique
    <3>5. G[v] = w[Pick(v)] + F(u)[u]
      BY <2>1, <2>5
    <3> QED BY <3>4, <3>5, <2>3, <2>5
  <2> QED BY <2>4, <2>5
<1>5. Summing(w, T, G)
  <2>1. \A s \in SUBSET T :
          G[s] = IF s = {} THEN 0 ELSE w[Pick(s)] + F(s \ {Pick(s)})[s \ {Pick(s)}]
    OBVIOUS
  <2>2. \A s \in SUBSET T : G[s] = IF s = {} THEN 0 ELSE w[Pick(s)] + G[s \ {Pick(s)}]
    <3> HIDE DEF G, F
    <3> QED BY <1>4, <2>1
  <2>3. G = [s \in SUBSET T |-> G[s]]
    OBVIOUS
  <2> HIDE DEF G
  <2> QED BY <2>2, <2>3 DEF Summing
<1> QED BY <1>5

(* A total is the value of any sum over a larger set.                      *)
LEMMA TotalIs ==
  ASSUME NEW w, NEW S, IsFiniteSet(S), NEW T \in SUBSET S, NEW g, Summing(w, S, g)
  PROVE  Total(w, T) = g[T]
<1> DEFINE h == CHOOSE x : Summing(w, T, x)
<1>1. IsFiniteSet(T)
  BY FS_Subset
<1>2. Summing(w, T, h)
  BY <1>1, SummingExists
<1>3. h[T] = g[T]
  <2>1. T \in SUBSET (T \cap S)
    OBVIOUS
  <2> HIDE DEF h
  <2> QED BY <1>1, <1>2, <2>1, SummingUnique
<1> QED BY <1>3 DEF Total

(* A total is the element taken first and the total of the rest.           *)
LEMMA TotalPick ==
  ASSUME NEW w, NEW S, IsFiniteSet(S)
  PROVE  Total(w, S) = IF S = {} THEN 0 ELSE w[Pick(S)] + Total(w, S \ {Pick(S)})
<1>1. PICK g : Summing(w, S, g)
  BY SummingExists
<1>2. Total(w, S) = g[S] /\ Total(w, S \ {Pick(S)}) = g[S \ {Pick(S)}]
  BY <1>1, TotalIs
<1>3. g[S] = IF S = {} THEN 0 ELSE w[Pick(S)] + g[S \ {Pick(S)}]
  <2>1. S \in SUBSET S
    OBVIOUS
  <2> QED BY <1>1, <2>1 DEF Summing
<1> QED BY <1>2, <1>3

(* A total of integers is an integer.                                      *)
LEMMA TotalType ==
  ASSUME NEW w, NEW S, Weights(w, S)
  PROVE  Total(w, S) \in Int
<1> DEFINE Bad == {T \in SUBSET S : Total(w, T) \notin Int}
<1>1. SUFFICES ASSUME Bad # {}  PROVE FALSE
  OBVIOUS
<1>2. IsFiniteSet(S) /\ \A x \in S : w[x] \in Int
  BY DEF Weights
<1>3. PICK T \in Bad : \A V \in Bad : V \subseteq T => V = T
  <2>1. Bad \in SUBSET SUBSET S
    OBVIOUS
  <2> HIDE DEF Bad
  <2> QED BY <1>1, <1>2, <2>1, SmallestSubset
<1>4. Total(w, T) = IF T = {} THEN 0 ELSE w[Pick(T)] + Total(w, T \ {Pick(T)})
  <2>1. IsFiniteSet(T)
    BY <1>2, FS_Subset
  <2> QED BY <2>1, TotalPick
<1>5. T # {} => Pick(T) \in T
  BY DEF Pick
<1>6. T # {} => w[Pick(T)] \in Int /\ Total(w, T \ {Pick(T)}) \in Int
  BY <1>2, <1>3, <1>5
<1> QED BY <1>4, <1>6

(* It does not matter which element is taken first.                        *)
LEMMA TotalStep ==
  ASSUME NEW w, NEW S, Weights(w, S), NEW x \in S
  PROVE  Total(w, S) = w[x] + Total(w, S \ {x})
<1> DEFINE Bad == {T \in SUBSET S : \E y \in T : Total(w, T) # w[y] + Total(w, T \ {y})}
<1>1. SUFFICES ASSUME Bad # {}  PROVE FALSE
  OBVIOUS
<1>2. IsFiniteSet(S) /\ \A y \in S : w[y] \in Int
  BY DEF Weights
<1>3. PICK T \in Bad : \A V \in Bad : V \subseteq T => V = T
  <2>1. Bad \in SUBSET SUBSET S
    OBVIOUS
  <2> HIDE DEF Bad
  <2> QED BY <1>1, <1>2, <2>1, SmallestSubset
<1>4. PICK y \in T : Total(w, T) # w[y] + Total(w, T \ {y})
  OBVIOUS
<1> DEFINE c == Pick(T)
<1>5. c \in T
  BY DEF Pick
<1>6. Total(w, T) = w[c] + Total(w, T \ {c})
  <2>1. IsFiniteSet(T)
    BY <1>2, FS_Subset
  <2> QED BY <2>1, TotalPick
<1>7. c # y
  BY <1>4, <1>6
<1>8. Total(w, T \ {c}) = w[y] + Total(w, (T \ {c}) \ {y})
  <2>1. T \ {c} \in SUBSET S /\ T \ {c} \notin Bad
    BY <1>3, <1>5
  <2> QED BY <2>1, <1>7
<1>9. Total(w, T \ {y}) = w[c] + Total(w, (T \ {y}) \ {c})
  <2>1. T \ {y} \in SUBSET S /\ T \ {y} \notin Bad
    BY <1>3, <1>4
  <2> QED BY <2>1, <1>7, <1>5
<1>10. (T \ {c}) \ {y} = (T \ {y}) \ {c}
  OBVIOUS
<1>11. Total(w, (T \ {c}) \ {y}) \in Int /\ w[c] \in Int /\ w[y] \in Int
  <2>1. Weights(w, (T \ {c}) \ {y})
    BY <1>2, FS_Subset DEF Weights
  <2> QED BY <2>1, TotalType, <1>2, <1>5
<1>12. w[y] + Total(w, T \ {y}) = w[c] + Total(w, T \ {c})
  <2> DEFINE rest == Total(w, (T \ {c}) \ {y})
  <2>1. /\ Total(w, T \ {c}) = w[y] + rest /\ Total(w, T \ {y}) = w[c] + rest
        /\ rest \in Int /\ w[c] \in Int /\ w[y] \in Int
    BY <1>8, <1>9, <1>10, <1>11
  <2> HIDE DEF rest, c, Bad
  <2> QED BY <2>1
<1> HIDE DEF c, Bad
<1> QED BY <1>4, <1>6, <1>12

(* The total over nothing is zero.                                         *)
LEMMA TotalEmpty == ASSUME NEW w PROVE Total(w, {}) = 0
BY FS_EmptySet, TotalPick

(* Adding an element adds its weight.                                      *)
LEMMA TotalAdd ==
  ASSUME NEW w, NEW S, IsFiniteSet(S), NEW x, x \notin S, \A y \in S \cup {x} : w[y] \in Int
  PROVE  Total(w, S \cup {x}) = w[x] + Total(w, S)
<1>1. Weights(w, S \cup {x}) /\ (S \cup {x}) \ {x} = S
  BY FS_AddElement DEF Weights
<1> QED BY <1>1, TotalStep

(* Equal weights have equal totals.                                        *)
LEMMA TotalCongruent ==
  ASSUME NEW w, NEW v, NEW S, IsFiniteSet(S), \A x \in S : w[x] = v[x]
  PROVE  Total(w, S) = Total(v, S)
<1>1. PICK g : Summing(w, S, g)
  BY SummingExists
<1>2. Summing(v, S, g)
  <2>1. \A s \in SUBSET S : s # {} => w[Pick(s)] = v[Pick(s)]
    BY DEF Pick
  <2>2. [s \in SUBSET S |-> IF s = {} THEN 0 ELSE w[Pick(s)] + g[s \ {Pick(s)}]]
          = [s \in SUBSET S |-> IF s = {} THEN 0 ELSE v[Pick(s)] + g[s \ {Pick(s)}]]
    BY <2>1
  <2> QED BY <1>1, <2>2 DEF Summing
<1> QED BY <1>1, <1>2, TotalIs

(* The total over two sets apart is the sum of their totals.               *)
LEMMA TotalUnion ==
  ASSUME NEW w, NEW S, NEW D, Weights(w, S), D \subseteq S
  PROVE  Total(w, S) = Total(w, S \ D) + Total(w, D)
<1> DEFINE Bad == {T \in SUBSET S : Total(w, T) # Total(w, T \ D) + Total(w, T \cap D)}
<1>1. Bad = {}
  <2>1. SUFFICES ASSUME Bad # {}  PROVE FALSE
    OBVIOUS
  <2>2. IsFiniteSet(S) /\ \A y \in S : w[y] \in Int
    BY DEF Weights
  <2>3. PICK T \in Bad : \A V \in Bad : V \subseteq T => V = T
    <3>1. Bad \in SUBSET SUBSET S
      OBVIOUS
    <3> HIDE DEF Bad
    <3> QED BY <2>1, <2>2, <3>1, SmallestSubset
  <2>4. \A V \in SUBSET S : Weights(w, V)
    BY <2>2, FS_Subset DEF Weights
  <2>5. T # {}
    <3>1. Total(w, {}) = 0 /\ {} \ D = {} /\ {} \cap D = {}
      BY TotalEmpty
    <3> QED BY <3>1
  <2>6. PICK x \in T : TRUE
    BY <2>5
  <2>7. Total(w, T) = w[x] + Total(w, T \ {x})
    BY <2>4, <2>6, TotalStep
  <2>8. Total(w, T \ {x}) = Total(w, (T \ {x}) \ D) + Total(w, (T \ {x}) \cap D)
    <3>1. T \ {x} \in SUBSET S /\ T \ {x} \notin Bad
      BY <2>3, <2>6
    <3> QED BY <3>1
  <2>9. /\ w[x] \in Int
        /\ Total(w, (T \ {x}) \ D) \in Int /\ Total(w, (T \ {x}) \cap D) \in Int
    BY <2>2, <2>4, TotalType
  <2>12. Total(w, T) # Total(w, T \ D) + Total(w, T \cap D) /\ T \in SUBSET S
    OBVIOUS
  <2> HIDE DEF Bad
  <2>10. CASE x \in D
    <3>1. Total(w, T \cap D) = w[x] + Total(w, (T \cap D) \ {x})
      BY <2>4, <2>6, <2>10, <2>12, TotalStep
    <3>2. (T \cap D) \ {x} = (T \ {x}) \cap D /\ (T \ {x}) \ D = T \ D
      BY <2>10
    <3>3. /\ Total(w, T \cap D) = w[x] + Total(w, (T \ {x}) \cap D)
          /\ Total(w, T \ D) = Total(w, (T \ {x}) \ D)
      BY <3>1, <3>2, Zenon
    <3> QED BY <3>3, <2>12, <2>7, <2>8, <2>9
  <2>11. CASE x \notin D
    <3>1. Total(w, T \ D) = w[x] + Total(w, (T \ D) \ {x})
      BY <2>4, <2>6, <2>11, <2>12, TotalStep
    <3>2. (T \ D) \ {x} = (T \ {x}) \ D /\ (T \ {x}) \cap D = T \cap D
      BY <2>11
    <3>3. /\ Total(w, T \ D) = w[x] + Total(w, (T \ {x}) \ D)
          /\ Total(w, T \cap D) = Total(w, (T \ {x}) \cap D)
      BY <3>1, <3>2, Zenon
    <3> QED BY <3>3, <2>12, <2>7, <2>8, <2>9
  <2> QED BY <2>10, <2>11
<1>2. S \notin Bad /\ S \in SUBSET S /\ S \cap D = D
  BY <1>1
<1> QED BY <1>2

(* A total of weights that are not negative is not negative, and at least  *)
(* each of them.                                                           *)
LEMMA TotalNat ==
  ASSUME NEW w, NEW S, IsFiniteSet(S), \A x \in S : w[x] \in Nat
  PROVE  Total(w, S) \in Nat /\ \A x \in S : w[x] <= Total(w, S)
<1> DEFINE Bad == {T \in SUBSET S : Total(w, T) \notin Nat}
<1>1. Weights(w, S) /\ \A T \in SUBSET S : Weights(w, T)
  BY FS_Subset DEF Weights
<1>2. Bad = {}
  <2>1. SUFFICES ASSUME Bad # {}  PROVE FALSE
    OBVIOUS
  <2>2. PICK T \in Bad : \A V \in Bad : V \subseteq T => V = T
    <3>1. Bad \in SUBSET SUBSET S
      OBVIOUS
    <3> HIDE DEF Bad
    <3> QED BY <2>1, <3>1, SmallestSubset
  <2>3. T # {}
    BY TotalEmpty
  <2>4. PICK x \in T : TRUE
    BY <2>3
  <2>5. Total(w, T) = w[x] + Total(w, T \ {x})
    BY <1>1, TotalStep
  <2>6. Total(w, T \ {x}) \in Nat
    BY <2>2, <2>4
  <2> QED BY <2>5, <2>6
<1>3. \A T \in SUBSET S : Total(w, T) \in Nat
  BY <1>2
<1>4. ASSUME NEW x \in S  PROVE w[x] <= Total(w, S)
  <2>1. Total(w, S) = w[x] + Total(w, S \ {x})
    BY <1>1, TotalStep
  <2>2. Total(w, S \ {x}) \in Nat /\ w[x] \in Nat
    BY <1>3
  <2> QED BY <2>1, <2>2
<1> QED BY <1>3, <1>4

(* Weights of zero add nothing.                                            *)
LEMMA TotalZero ==
  ASSUME NEW w, NEW S, IsFiniteSet(S), \A x \in S : w[x] = 0
  PROVE  Total(w, S) = 0
<1> DEFINE Bad == {T \in SUBSET S : Total(w, T) # 0}
<1>1. Bad = {}
  <2>1. SUFFICES ASSUME Bad # {}  PROVE FALSE
    OBVIOUS
  <2>2. PICK T \in Bad : \A V \in Bad : V \subseteq T => V = T
    <3>1. Bad \in SUBSET SUBSET S
      OBVIOUS
    <3> HIDE DEF Bad
    <3> QED BY <2>1, <3>1, SmallestSubset
  <2>3. T # {} /\ T \subseteq S /\ IsFiniteSet(T)
    BY TotalEmpty, FS_Subset
  <2>4. Pick(T) \in T
    BY <2>3 DEF Pick
  <2>5. T \ {Pick(T)} \notin Bad /\ T \ {Pick(T)} \in SUBSET S
    BY <2>2, <2>3, <2>4
  <2>6. Total(w, T) = w[Pick(T)] + Total(w, T \ {Pick(T)})
    BY <2>3, TotalPick
  <2> QED BY <2>3, <2>4, <2>5, <2>6
<1> QED BY <1>1

(* A function that is restricted loses the weights it no longer has.       *)
LEMMA TotalRestrict ==
  ASSUME NEW f, Weights(f, DOMAIN f), NEW D, D \subseteq DOMAIN f,
         NEW g, g = Restrict(f, DOMAIN f \ D)
  PROVE  /\ Total(g, DOMAIN g) = Total(f, DOMAIN f) - Total(f, D)
         /\ IsFiniteSet(DOMAIN g)
<1>1. DOMAIN g = DOMAIN f \ D /\ \A x \in DOMAIN g : g[x] = f[x]
  BY DEF Restrict
<1>2. IsFiniteSet(DOMAIN g) /\ IsFiniteSet(D) /\ Weights(f, D) /\ Weights(f, DOMAIN f \ D)
  BY <1>1, FS_Subset DEF Weights
<1>3. Total(g, DOMAIN g) = Total(f, DOMAIN f \ D)
  BY <1>1, <1>2, TotalCongruent
<1>4. Total(f, DOMAIN f) = Total(f, DOMAIN f \ D) + Total(f, D)
  BY TotalUnion
<1>5. Total(f, D) \in Int /\ Total(f, DOMAIN f \ D) \in Int
  BY <1>2, TotalType
<1> QED BY <1>2, <1>3, <1>4, <1>5

(* A function that is given one more value gains its weight.               *)
LEMMA TotalExtend ==
  ASSUME NEW f, Weights(f, DOMAIN f), NEW b, b \notin DOMAIN f, NEW v \in Int,
         NEW g, g = [x \in DOMAIN f \cup {b} |-> IF x = b THEN v ELSE f[x]]
  PROVE  /\ Total(g, DOMAIN g) = Total(f, DOMAIN f) + v
         /\ IsFiniteSet(DOMAIN g)
<1>1. DOMAIN g = DOMAIN f \cup {b} /\ g[b] = v /\ \A x \in DOMAIN f : g[x] = f[x]
  OBVIOUS
<1>2. IsFiniteSet(DOMAIN f) /\ IsFiniteSet(DOMAIN g) /\ \A x \in DOMAIN f \cup {b} : g[x] \in Int
  BY <1>1, FS_AddElement DEF Weights
<1>3. Total(g, DOMAIN f) = Total(f, DOMAIN f)
  BY <1>1, <1>2, TotalCongruent
<1>4. Total(g, DOMAIN f \cup {b}) = g[b] + Total(g, DOMAIN f)
  BY <1>2, TotalAdd
<1>5. Total(f, DOMAIN f) \in Int
  BY TotalType
<1>6. Total(g, DOMAIN g) = g[b] + Total(g, DOMAIN f)
  BY <1>1, <1>4, Zenon
<1> HIDE DEF Weights
<1> QED BY <1>1, <1>2, <1>3, <1>5, <1>6


(* The total of what is in S one to one by way of at.                      *)
LEMMA TotalImage ==
  ASSUME NEW w, NEW S, Weights(w, S), NEW v, NEW at,
         \A x, y \in S : at[x] = at[y] => x = y,
         \A x \in S : v[at[x]] = w[x]
  PROVE  /\ IsFiniteSet({at[x] : x \in S})
         /\ Total(v, {at[x] : x \in S}) = Total(w, S)
<1> DEFINE Image(T) == {at[x] : x \in T}
           Bad == {T \in SUBSET S : ~(IsFiniteSet(Image(T)) /\ Total(v, Image(T)) = Total(w, T))}
<1>1. Bad = {}
  <2>1. SUFFICES ASSUME Bad # {}  PROVE FALSE
    OBVIOUS
  <2>2. IsFiniteSet(S) /\ \A y \in S : w[y] \in Int
    BY DEF Weights
  <2>3. PICK T \in Bad : \A V \in Bad : V \subseteq T => V = T
    <3>1. Bad \in SUBSET SUBSET S
      OBVIOUS
    <3> HIDE DEF Bad
    <3> QED BY <2>1, <2>2, <3>1, SmallestSubset
  <2>4. \A V \in SUBSET S : Weights(w, V)
    BY <2>2, FS_Subset DEF Weights
  <2>5. T # {}
    <3>1. Total(w, {}) = 0 /\ Total(v, {}) = 0 /\ IsFiniteSet({})
      BY TotalEmpty, FS_EmptySet
    <3>2. Image({}) = {}
      OBVIOUS
    <3> HIDE DEF Image
    <3>3. IsFiniteSet(Image({})) /\ Total(v, Image({})) = Total(w, {})
      BY <3>1, <3>2
    <3> QED BY <3>3
  <2>6. PICK x \in T : TRUE
    BY <2>5
  <2> DEFINE U == T \ {x}
  <2>7. T \in SUBSET S /\ x \in S /\ U \in SUBSET S /\ x \notin U
    BY <2>6
  <2>8. Total(w, T) = w[x] + Total(w, U)
    BY <2>4, <2>6, TotalStep
  <2>9. IsFiniteSet(Image(U)) /\ Total(v, Image(U)) = Total(w, U)
    <3>1. U \notin Bad
      BY <2>3, <2>6
    <3> QED BY <3>1, <2>7
  <2>10. /\ Image(T) = Image(U) \cup {at[x]} /\ at[x] \notin Image(U)
         /\ \A y \in Image(T) : v[y] \in Int
    BY <2>2, <2>6, <2>7
  <2>11. T \in Bad => ~(IsFiniteSet(Image(T)) /\ Total(v, Image(T)) = Total(w, T))
    OBVIOUS
  <2> HIDE DEF Bad, Image, U
  <2>12. IsFiniteSet(Image(U) \cup {at[x]})
    BY <2>9, FS_AddElement
  <2>13. Total(v, Image(U) \cup {at[x]}) = v[at[x]] + Total(v, Image(U))
    BY <2>9, <2>10, TotalAdd
  <2>14. v[at[x]] = w[x]
    BY <2>7
  <2>15. IsFiniteSet(Image(T)) /\ Total(v, Image(T)) = Total(w, T)
    BY <2>8, <2>9, <2>10, <2>12, <2>13, <2>14
  <2> QED BY <2>11, <2>15
<1>2. S \notin Bad
  BY <1>1
<1> QED BY <1>2

(* The total of one element is its weight.                                 *)
LEMMA TotalOne ==
  ASSUME NEW w, NEW x, w[x] \in Int
  PROVE  Total(w, {x}) = w[x]
<1>1. Weights(w, {x})
  BY FS_Singleton DEF Weights
<1>2. {x} \ {x} = {}
  OBVIOUS
<1>3. Total(w, {x}) = w[x] + Total(w, {x} \ {x})
  BY <1>1, TotalStep
<1>4. Total(w, {x} \ {x}) = 0
  BY <1>2, TotalEmpty
<1> QED
  BY <1>3, <1>4

(* A function that is extended by the elements of D.                       *)
LEMMA TotalJoin ==
  ASSUME NEW f, Weights(f, DOMAIN f), NEW D, IsFiniteSet(D), D \cap DOMAIN f = {},
         NEW g, DOMAIN g = DOMAIN f \cup D,
         \A x \in DOMAIN f : g[x] = f[x], \A x \in D : g[x] \in Int
  PROVE  /\ Weights(g, DOMAIN g)
         /\ Total(g, DOMAIN g) = Total(f, DOMAIN f) + Total(g, D)
<1>1. IsFiniteSet(DOMAIN g)
  BY FS_Union DEF Weights
<1>2. Weights(g, DOMAIN g)
  BY <1>1 DEF Weights
<1>3. Total(g, DOMAIN g) = Total(g, DOMAIN g \ D) + Total(g, D)
  BY <1>2, TotalUnion
<1>4. DOMAIN g \ D = DOMAIN f
  OBVIOUS
<1>5. Total(g, DOMAIN f) = Total(f, DOMAIN f)
  BY TotalCongruent DEF Weights
<1>6. Total(g, DOMAIN g \ D) = Total(f, DOMAIN f)
  BY <1>4, <1>5, Zenon
<1> QED
  BY <1>2, <1>3, <1>6

=============================================================================
