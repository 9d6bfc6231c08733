---------------------------- MODULE UpdaterProofs ----------------------------
(***************************************************************************)
(* Proofs about the judge's database and the views of results, for every   *)
(* set of users, tasks and submissions, all score vectors and multipliers  *)
(* and every dataset that is well formed.                                  *)
(*                                                                         *)
(* The sums and the merge are folds over finite sets.  The first two       *)
(* sections say what such a fold computes: induction over finite sets,     *)
(* from the least cardinality of a counterexample, gives a fold whose      *)
(* steps commute one equation per element, in whatever order the elements  *)
(* are taken.  The scores are next, then the tables, then the marks that a *)
(* dataset gives.                                                          *)
(***************************************************************************)
EXTENDS ResultView, Loader, SequenceTheorems, FiniteSetTheorems, TLAPS

(* A set of natural numbers has a least one.                               *)
LEMMA LeastNatural ==
  ASSUME NEW T \in SUBSET Nat, T # {}
  PROVE  \E n \in T : \A k \in T : n <= k
<1> DEFINE less == {p \in Nat \X Nat : p[1] < p[2]}
<1>1. IsWellFoundedOn(less, Nat)
  BY NatLessThanWellFounded, Zenon DEF OpToRel
<1>2. PICK n \in T : \A k \in T : <<k, n>> \notin less
  <2> HIDE DEF less
  <2> QED BY <1>1, WFMin
<1>3. ASSUME NEW k \in T PROVE n <= k
  <2>1. k \in Nat /\ n \in Nat
    OBVIOUS
  <2>2. k < n => <<k, n>> \in less
    BY <2>1
  <2> QED BY <1>2, <2>1, <2>2
<1> QED BY <1>3

(* G has a subset of S whenever it has the subsets smaller by an element.  *)
Inherits(S, G) == \A s \in SUBSET S : (\A x \in s : s \ {x} \in G) => s \in G

(* Induction over finite sets: what holds of a set whenever it holds of it *)
(* without any one of its elements holds of every subset.                  *)
LEMMA SubsetInduction ==
  ASSUME NEW S, IsFiniteSet(S), NEW G, Inherits(S, G)
  PROVE  SUBSET S \subseteq G
<1> DEFINE bad == {s \in SUBSET S : s \notin G}
           size == {Cardinality(s) : s \in bad}
<1>1. SUFFICES ASSUME bad # {} PROVE FALSE
  OBVIOUS
<1>2. \A s \in SUBSET S : IsFiniteSet(s) /\ Cardinality(s) \in Nat
  BY FS_Subset, FS_CardinalityType
<1>3. size \in SUBSET Nat /\ size # {}
  BY <1>1, <1>2
<1>4. PICK n \in size : \A k \in size : n <= k
  BY <1>3, LeastNatural
<1>5. PICK s \in bad : n = Cardinality(s)
  BY <1>4
<1>6. ASSUME NEW x \in s PROVE s \ {x} \in G
  <2>1. Cardinality(s \ {x}) = n - 1
    BY <1>2, <1>5, FS_RemoveElement
  <2>2. n \in Nat
    BY <1>3, <1>4
  <2>3. Cardinality(s \ {x}) \notin size
    BY <2>1, <2>2, <1>4
  <2> QED BY <2>3
<1> QED BY <1>5, <1>6 DEF Inherits

(* The elements of a finite set, taken one at a time: pick[s] is the next  *)
(* of s, and step[<<x, v>>] takes the element x into v.  The order makes   *)
(* no difference.                                                          *)
Foldable(S, V, base, step, pick) ==
  /\ IsFiniteSet(S)
  /\ \A s \in SUBSET S : s # {} => pick[s] \in s
  /\ base \in V
  /\ \A x \in S, v \in V : step[<<x, v>>] \in V
  /\ \A x, y \in S, v \in V : step[<<x, step[<<y, v>>]>>] = step[<<y, step[<<x, v>>]>>]

(* The recursive definition of a fold, and what it says of values of V. *)
FoldEquation(h, S, base, step, pick) ==
  h = [s \in SUBSET S |-> IF s = {} THEN base ELSE step[<<pick[s], h[s \ {pick[s]}]>>]]

IsFold(h, S, V, base, step, pick) ==
  /\ h = [s \in SUBSET S |-> h[s]]
  /\ h[{}] = base
  /\ \A s \in SUBSET S :
       s # {} /\ h[s \ {pick[s]}] \in V => h[s] = step[<<pick[s], h[s \ {pick[s]}]>>]

InAnyOrder(h, S, V, base, step) ==
  /\ h \in [SUBSET S -> V]
  /\ h[{}] = base
  /\ \A s \in SUBSET S : \A x \in s : h[s] = step[<<x, h[s \ {x}]>>]

(* A recursion over finite sets that takes out the element CHOOSE gives is *)
(* a function, and satisfies its equation.                                 *)
LEMMA FoldIsDefined ==
  ASSUME NEW S, NEW V, NEW base, NEW step, NEW pick, Foldable(S, V, base, step, pick)
  PROVE  \E h : FoldEquation(h, S, base, step, pick)
<1> DEFINE upTo(n) == {s \in SUBSET S : Cardinality(s) <= n}
           value(h, s) == IF s = {} THEN base ELSE step[<<pick[s], h[s \ {pick[s]}]>>]
           undefined == {n \in Nat : ~ \E h : h = [s \in upTo(n) |-> value(h, s)]}
<1>1. /\ \A s \in SUBSET S : IsFiniteSet(s) /\ Cardinality(s) \in Nat
      /\ \A s \in SUBSET S : s # {} => pick[s] \in s
      /\ IsFiniteSet(S)
  BY FS_Subset, FS_CardinalityType DEF Foldable
<1>2. ASSUME NEW n \in undefined, \A k \in undefined : n <= k
      PROVE  FALSE
  <2>1. CASE n = 0
    <3>1. upTo(0) = {{}}
      <4>1. \A s \in SUBSET S : Cardinality(s) <= 0 <=> s = {}
        BY <1>1, FS_EmptySet
      <4> QED BY <4>1
    <3> DEFINE h == [s \in upTo(0) |-> base]
    <3>2. \A s \in upTo(0) : value(h, s) = base
      BY <3>1
    <3>3. h = [s \in upTo(0) |-> value(h, s)]
      BY <3>2
    <3> QED BY <2>1, <3>3
  <2>2. CASE n # 0
    <3>1. n \in Nat /\ n - 1 \in Nat /\ n - 1 \notin undefined
      <4>1. n \in Nat /\ n - 1 \in Nat
        BY <2>2
      <4> HIDE DEF undefined
      <4> QED BY <1>2, <4>1
    <3>2. PICK g : g = [s \in upTo(n - 1) |-> value(g, s)]
      BY <3>1
    <3> DEFINE h == [s \in upTo(n) |-> value(g, s)]
    <3>3. upTo(n - 1) \subseteq upTo(n)
      BY <1>1, <3>1
    <3>4. \A s \in upTo(n - 1) : g[s] = value(g, s)
      BY <3>2, Zenon
    <3>5. \A s \in upTo(n - 1) : h[s] = g[s]
      BY <3>3, <3>4
    <3>6. ASSUME NEW s \in upTo(n), s # {}
          PROVE  s \ {pick[s]} \in upTo(n - 1)
      <4>1. pick[s] \in s
        BY <1>1, <3>6
      <4>2. Cardinality(s \ {pick[s]}) = Cardinality(s) - 1
        BY <1>1, <4>1, FS_RemoveElement
      <4> QED BY <1>1, <3>1, <4>2
    <3>7. ASSUME NEW s \in upTo(n) PROVE value(h, s) = value(g, s)
      <4> HIDE DEF h
      <4> QED BY <3>5, <3>6
    <3>8. h = [s \in upTo(n) |-> value(h, s)]
      BY <3>7
    <3> QED BY <3>8
  <2> QED BY <2>1, <2>2
<1>3. undefined = {}
  <2> HIDE DEF undefined
  <2>1. undefined \in SUBSET Nat
    BY DEF undefined
  <2> QED BY <1>2, <2>1, LeastNatural
<1>4. Cardinality(S) \in Nat /\ upTo(Cardinality(S)) = SUBSET S
  BY <1>1, FS_Subset
<1>5. \E h : h = [s \in upTo(Cardinality(S)) |-> value(h, s)]
  BY <1>3, <1>4
<1> QED BY <1>4, <1>5 DEF FoldEquation

(* A fold whose steps commute may take its elements in any order. *)
LEMMA FoldInAnyOrder ==
  ASSUME NEW S, NEW V, NEW base, NEW step, NEW pick, Foldable(S, V, base, step, pick),
         NEW h, IsFold(h, S, V, base, step, pick)
  PROVE  InAnyOrder(h, S, V, base, step)
<1> DEFINE typed == {s \in SUBSET S : h[s] \in V}
           good == {s \in SUBSET S : \A x \in s : h[s] = step[<<x, h[s \ {x}]>>]}
<1>1. /\ h[{}] = base
      /\ \A s \in SUBSET S :
           s # {} /\ h[s \ {pick[s]}] \in V => h[s] = step[<<pick[s], h[s \ {pick[s]}]>>]
      /\ IsFiniteSet(S)
      /\ base \in V
      /\ \A s \in SUBSET S : s # {} => pick[s] \in s
      /\ \A x \in S, v \in V : step[<<x, v>>] \in V
      /\ \A x, y \in S, v \in V : step[<<x, step[<<y, v>>]>>] = step[<<y, step[<<x, v>>]>>]
  BY DEF IsFold, Foldable
<1>2. ASSUME NEW s \in SUBSET S, \A x \in s : s \ {x} \in typed
      PROVE  s \in typed
  <2>1. CASE s = {}
    BY <1>1, <2>1
  <2>2. CASE s # {}
    <3>1. pick[s] \in s
      BY <1>1, <2>2
    <3>2. h[s \ {pick[s]}] \in V
      BY <1>2, <3>1
    <3>3. h[s] = step[<<pick[s], h[s \ {pick[s]}]>>]
      BY <1>1, <2>2, <3>2
    <3>4. step[<<pick[s], h[s \ {pick[s]}]>>] \in V
      BY <1>1, <3>1, <3>2
    <3> QED BY <3>3, <3>4
  <2> QED BY <2>1, <2>2
<1>3. SUBSET S \subseteq typed
  <2>1. Inherits(S, typed)
    <3> HIDE DEF typed
    <3> QED BY <1>2 DEF Inherits
  <2>2. IsFiniteSet(S)
    BY <1>1 DEF Foldable
  <2> HIDE DEF typed
  <2> QED BY <2>1, <2>2, SubsetInduction
<1>4. ASSUME NEW s \in SUBSET S, \A x \in s : s \ {x} \in good, NEW x \in s
      PROVE  h[s] = step[<<x, h[s \ {x}]>>]
  <2>1. PICK p \in s : h[s] = step[<<p, h[s \ {p}]>>]
    <3>1. pick[s] \in s /\ h[s \ {pick[s]}] \in V
      BY <1>1, <1>3
    <3> QED BY <1>1, <3>1
  <2>2. CASE x = p
    BY <2>1, <2>2
  <2>3. CASE x # p
    <3>1. PICK rest \in SUBSET S : rest = (s \ {p}) \ {x} /\ rest = (s \ {x}) \ {p}
      OBVIOUS
    <3>2. x \in s \ {p} /\ s \ {p} \in good /\ p \in s \ {x} /\ s \ {x} \in good
      BY <1>4, <2>3
    <3>3. h[s \ {p}] = step[<<x, h[rest]>>] /\ h[s \ {x}] = step[<<p, h[rest]>>]
      <4>1. \A t \in good : \A y \in t : h[t] = step[<<y, h[t \ {y}]>>]
        OBVIOUS
      <4> HIDE DEF good
      <4>2. h[s \ {p}] = step[<<x, h[(s \ {p}) \ {x}]>>]
        BY <3>2, <4>1
      <4>3. h[s \ {x}] = step[<<p, h[(s \ {x}) \ {p}]>>]
        BY <3>2, <4>1
      <4> QED BY <3>1, <4>2, <4>3
    <3>4. h[rest] \in V /\ x \in S /\ p \in S
      BY <1>3
    <3>5. step[<<p, step[<<x, h[rest]>>]>>] = step[<<x, step[<<p, h[rest]>>]>>]
      BY <1>1, <3>4
    <3> QED BY <2>1, <3>3, <3>5
  <2> QED BY <2>2, <2>3
<1>5. SUBSET S \subseteq good
  <2>1. ASSUME NEW s \in SUBSET S, \A x \in s : s \ {x} \in good
        PROVE  s \in good
    BY <1>4, <2>1
  <2>2. Inherits(S, good)
    <3> HIDE DEF good
    <3> QED BY <2>1 DEF Inherits
  <2>3. IsFiniteSet(S)
    BY DEF Foldable
  <2> HIDE DEF good
  <2> QED BY <2>2, <2>3, SubsetInduction
<1>6. h = [s \in SUBSET S |-> h[s]]
  BY DEF IsFold
<1> QED BY <1>1, <1>3, <1>5, <1>6 DEF InAnyOrder

------------------------------------------------------------------------------
IntValued(f) == IsFiniteSet(DOMAIN f) /\ \A x \in DOMAIN f : f[x] \in Int

(* The sums of f over the subsets of its domain. *)
IsSum(h, f) ==
  /\ h \in [SUBSET DOMAIN f -> Int]
  /\ h[{}] = 0
  /\ \A s \in SUBSET DOMAIN f : \A x \in s : h[s] = f[x] + h[s \ {x}]

(* SumFunction takes the terms of a sum out one by one, in any order.      *)
LEMMA SumFold ==
  ASSUME NEW f, IntValued(f)
  PROVE  \E h : IsSum(h, f) /\ SumFunction(f) = h[DOMAIN f]
<1> DEFINE S == DOMAIN f
           pick == [s \in SUBSET S |-> CHOOSE x \in s : TRUE]
           step == [a \in S \X Int |-> f[a[1]] + a[2]]
           Equation(h) == h = [s \in SUBSET S |->
                                 IF s = {} THEN 0
                                 ELSE LET x == CHOOSE y \in s : TRUE IN f[x] + h[s \ {x}]]
<1>1. /\ IsFiniteSet(S)
      /\ \A s \in SUBSET S : s # {} => pick[s] = (CHOOSE x \in s : TRUE) /\ pick[s] \in s
      /\ \A x \in S, v \in Int : step[<<x, v>>] = f[x] + v /\ step[<<x, v>>] \in Int
  BY DEF IntValued
<1>2. Foldable(S, Int, 0, step, pick)
  <2>1. ASSUME NEW x \in S, NEW y \in S, NEW v \in Int
        PROVE  step[<<x, step[<<y, v>>]>>] = step[<<y, step[<<x, v>>]>>]
    <3>1. f[x] \in Int /\ f[y] \in Int
      BY DEF IntValued
    <3>2. /\ step[<<x, step[<<y, v>>]>>] = f[x] + (f[y] + v)
          /\ step[<<y, step[<<x, v>>]>>] = f[y] + (f[x] + v)
      <4> HIDE DEF step
      <4> QED BY <1>1, <3>1
    <3> QED BY <3>1, <3>2
  <2> HIDE DEF step, pick
  <2> QED BY <1>1, <2>1 DEF Foldable
<1>3. ASSUME NEW h, IsFold(h, S, Int, 0, step, pick)
      PROVE  /\ h \in [SUBSET S -> Int]
             /\ h[{}] = 0
             /\ \A s \in SUBSET S : \A x \in s : h[s] = f[x] + h[s \ {x}]
  <2> HIDE DEF step, pick
  <2>1. InAnyOrder(h, S, Int, 0, step)
    BY <1>2, <1>3, FoldInAnyOrder
  <2> QED BY <1>1, <2>1 DEF InAnyOrder
<1>4. \E h : Equation(h)
  <2> HIDE DEF step, pick
  <2>1. PICK h : FoldEquation(h, S, 0, step, pick)
    BY <1>2, FoldIsDefined
  <2>2. /\ h = [s \in SUBSET S |-> h[s]]
        /\ \A s \in SUBSET S : h[s] = IF s = {} THEN 0 ELSE step[<<pick[s], h[s \ {pick[s]}]>>]
    BY <2>1, Zenon DEF FoldEquation
  <2>3. IsFold(h, S, Int, 0, step, pick)
    BY <2>2 DEF IsFold
  <2>4. ASSUME NEW s \in SUBSET S
        PROVE  h[s] = IF s = {} THEN 0 ELSE LET x == CHOOSE y \in s : TRUE IN f[x] + h[s \ {x}]
    <3>1. CASE s = {}
      BY <2>2, <3>1
    <3>2. CASE s # {}
      <4>1. h[s] = f[pick[s]] + h[s \ {pick[s]}]
        BY <1>1, <1>3, <2>3, <3>2
      <4> QED BY <1>1, <3>2, <4>1
    <3> QED BY <3>1, <3>2
  <2>5. h = [s \in SUBSET S |-> IF s = {} THEN 0
                                ELSE LET x == CHOOSE y \in s : TRUE IN f[x] + h[s \ {x}]]
    BY <2>2, <2>4
  <2> QED BY <2>5
<1> DEFINE sum == CHOOSE h : Equation(h)
<1>5. Equation(sum)
  <2> HIDE DEF Equation
  <2> QED BY <1>4
<1>6. SumFunction(f) = sum[S]
  BY DEF SumFunction, SumFunctionOnSet, FoldFunctionOnSet, MapThenFoldSet
<1>7. IsFold(sum, S, Int, 0, step, pick)
  <2> HIDE DEF sum
  <2>1. \A s \in SUBSET S : sum[s] = IF s = {} THEN 0
                                     ELSE LET x == CHOOSE y \in s : TRUE IN f[x] + sum[s \ {x}]
    BY <1>5, Zenon
  <2>2. sum = [s \in SUBSET S |-> sum[s]]
    BY <1>5, Zenon
  <2>3. ASSUME NEW s \in SUBSET S, s # {}, sum[s \ {pick[s]}] \in Int
        PROVE  sum[s] = step[<<pick[s], sum[s \ {pick[s]}]>>]
    <3> HIDE DEF step, pick
    <3>1. pick[s] \in S /\ sum[s] = f[pick[s]] + sum[s \ {pick[s]}]
      BY <1>1, <2>1, <2>3
    <3> QED BY <1>1, <2>3, <3>1
  <2> HIDE DEF step, pick
  <2> QED BY <2>1, <2>2, <2>3 DEF IsFold
<1>8. /\ sum \in [SUBSET S -> Int]
      /\ sum[{}] = 0
      /\ \A s \in SUBSET S : \A x \in s : sum[s] = f[x] + sum[s \ {x}]
  <2> HIDE DEF sum, step, pick
  <2> QED BY <1>3, <1>7
<1> HIDE DEF sum
<1> QED BY <1>6, <1>8 DEF IsSum

(* The sum over a subset is that of the function restricted to it.         *)
LEMMA SumOnSubset ==
  ASSUME NEW f, IntValued(f), NEW g, IntValued(g), DOMAIN g \subseteq DOMAIN f,
         \A x \in DOMAIN g : g[x] = f[x],
         NEW h, IsSum(h, f)
  PROVE  SumFunction(g) = h[DOMAIN g]
<1>1. PICK k : IsSum(k, g) /\ SumFunction(g) = k[DOMAIN g]
  BY SumFold
<1> DEFINE same == {s \in SUBSET DOMAIN g : k[s] = h[s]}
<1>2. ASSUME NEW s \in SUBSET DOMAIN g, \A x \in s : s \ {x} \in same
      PROVE  s \in same
  <2>1. CASE s = {}
    BY <1>1, <2>1 DEF IsSum
  <2>2. CASE s # {}
    <3>1. PICK x : x \in s
      BY <2>2
    <3>2. k[s] = g[x] + k[s \ {x}]
      BY <1>1, <3>1 DEF IsSum
    <3>3. s \in SUBSET DOMAIN f
      OBVIOUS
    <3>4. h[s] = f[x] + h[s \ {x}]
      BY <3>1, <3>3 DEF IsSum
    <3>5. k[s \ {x}] = h[s \ {x}]
      BY <1>2, <3>1
    <3> QED BY <3>1, <3>2, <3>4, <3>5
  <2> QED BY <2>1, <2>2
<1>3. SUBSET DOMAIN g \subseteq same
  <2>1. Inherits(DOMAIN g, same)
    <3> HIDE DEF same
    <3> QED BY <1>2 DEF Inherits
  <2>2. IsFiniteSet(DOMAIN g)
    BY DEF IntValued
  <2> HIDE DEF same
  <2> QED BY <2>1, <2>2, SubsetInduction
<1> QED BY <1>1, <1>3

Without(f, x) == [y \in DOMAIN f \ {x} |-> f[y]]

(* A function without one of its values is one of the same kind.           *)
LEMMA WithoutValued ==
  ASSUME NEW f, IntValued(f), NEW x
  PROVE  IntValued(Without(f, x))
<1>1. IsFiniteSet(DOMAIN f \ {x})
  BY FS_RemoveElement DEF IntValued
<1> QED BY <1>1 DEF IntValued, Without

(* Any one term may be taken out of a sum. *)
LEMMA SumTakeOut ==
  ASSUME NEW f, IntValued(f)
  PROVE  /\ SumFunction(f) \in Int
         /\ DOMAIN f = {} => SumFunction(f) = 0
         /\ \A x \in DOMAIN f : SumFunction(f) = f[x] + SumFunction(Without(f, x))
<1>1. PICK h : IsSum(h, f) /\ SumFunction(f) = h[DOMAIN f]
  BY SumFold
<1>2. ASSUME NEW x \in DOMAIN f
      PROVE  SumFunction(f) = f[x] + SumFunction(Without(f, x))
  <2>1. /\ IntValued(Without(f, x))
        /\ DOMAIN Without(f, x) = DOMAIN f \ {x}
        /\ \A y \in DOMAIN Without(f, x) : Without(f, x)[y] = f[y]
    BY WithoutValued DEF Without
  <2>2. SumFunction(Without(f, x)) = h[DOMAIN f \ {x}]
    BY <1>1, <2>1, SumOnSubset
  <2>3. h[DOMAIN f] = f[x] + h[DOMAIN f \ {x}]
    BY <1>1 DEF IsSum
  <2> QED BY <1>1, <2>2, <2>3
<1>3. SumFunction(f) \in Int /\ (DOMAIN f = {} => SumFunction(f) = 0)
  BY <1>1 DEF IsSum
<1> QED BY <1>2, <1>3

(* A sum with one term replaced or added. *)
LEMMA SumUpdated ==
  ASSUME NEW f, IntValued(f), NEW g, NEW x, IntValued(g),
         DOMAIN g = DOMAIN f \cup {x},
         \A y \in DOMAIN f : y # x => g[y] = f[y]
  PROVE  SumFunction(g) = SumFunction(f) + (g[x] - (IF x \in DOMAIN f THEN f[x] ELSE 0))
<1>1. Without(g, x) = Without(f, x)
  BY DEF Without
<1>2. SumFunction(g) = g[x] + SumFunction(Without(f, x)) /\ g[x] \in Int
  BY <1>1, SumTakeOut DEF IntValued
<1>3. SumFunction(Without(f, x)) \in Int
  BY WithoutValued, SumTakeOut
<1>4. CASE x \in DOMAIN f
  <2>1. SumFunction(f) = f[x] + SumFunction(Without(f, x)) /\ f[x] \in Int
    BY <1>4, SumTakeOut DEF IntValued
  <2> QED BY <1>2, <1>3, <1>4, <2>1
<1>5. CASE x \notin DOMAIN f
  <2>1. DOMAIN g \ {x} = DOMAIN f
    BY <1>5
  <2> DEFINE h == Without(f, x)
  <2>2. DOMAIN h = DOMAIN f /\ \A y \in DOMAIN h : h[y] = f[y]
    BY <1>5 DEF Without
  <2>3. PICK k : IsSum(k, f) /\ SumFunction(f) = k[DOMAIN f]
    BY SumFold
  <2>4. SumFunction(h) = k[DOMAIN h]
    <3>1. IntValued(h)
      BY WithoutValued
    <3> HIDE DEF h
    <3> QED BY <2>2, <2>3, <3>1, SumOnSubset
  <2>5. SumFunction(h) = SumFunction(f)
    BY <2>2, <2>3, <2>4
  <2> QED BY <1>2, <1>3, <1>5, <2>5
<1> QED BY <1>4, <1>5

(* Larger terms, or more of them, make a larger sum. *)
LEMMA SumGrows ==
  ASSUME NEW f, IntValued(f), NEW g, IntValued(g), DOMAIN f \subseteq DOMAIN g,
         \A x \in DOMAIN f : f[x] <= g[x],
         \A x \in DOMAIN g \ DOMAIN f : 0 <= g[x]
  PROVE  SumFunction(f) <= SumFunction(g)
<1>1. PICK h : IsSum(h, f) /\ SumFunction(f) = h[DOMAIN f]
  BY SumFold
<1>2. PICK k : IsSum(k, g) /\ SumFunction(g) = k[DOMAIN g]
  BY SumFold
<1> DEFINE below == {s \in SUBSET DOMAIN g : h[s \cap DOMAIN f] <= k[s]}
<1>3. ASSUME NEW s \in SUBSET DOMAIN g, \A x \in s : s \ {x} \in below
      PROVE  s \in below
  <2>1. CASE s = {}
    <3>1. s \cap DOMAIN f = {}
      BY <2>1
    <3> QED BY <1>1, <1>2, <2>1, <3>1 DEF IsSum
  <2>2. CASE s # {}
    <3>1. PICK x : x \in s
      BY <2>2
    <3> DEFINE t == s \cap DOMAIN f
               r == (s \ {x}) \cap DOMAIN f
    <3>2. k[s] = g[x] + k[s \ {x}] /\ k[s \ {x}] \in Int /\ g[x] \in Int
      BY <1>2, <3>1 DEF IsSum, IntValued
    <3>3. h[r] <= k[s \ {x}]
      BY <1>3, <3>1
    <3>4. h[t] \in Int /\ h[r] \in Int
      BY <1>1 DEF IsSum
    <3>5. CASE x \in DOMAIN f
      <4>1. x \in t /\ t \ {x} = r /\ t \in SUBSET DOMAIN f
        BY <3>1, <3>5
      <4>2. h[t] = f[x] + h[t \ {x}]
        BY <1>1, <4>1 DEF IsSum
      <4>3. h[t] = f[x] + h[r]
        BY <4>1, <4>2
      <4>4. f[x] \in Int /\ f[x] <= g[x]
        BY <3>5 DEF IntValued
      <4> HIDE DEF t, r
      <4>5. h[t] <= k[s]
        BY <3>2, <3>3, <3>4, <4>3, <4>4
      <4> QED BY <4>5 DEF t
    <3>6. CASE x \notin DOMAIN f
      <4>1. t = r /\ 0 <= g[x]
        BY <3>1, <3>6
      <4> HIDE DEF t, r
      <4>2. h[t] <= k[s]
        BY <3>2, <3>3, <3>4, <4>1
      <4> QED BY <4>2 DEF t
    <3> QED BY <3>5, <3>6
  <2> QED BY <2>1, <2>2
<1>4. SUBSET DOMAIN g \subseteq below
  <2>1. Inherits(DOMAIN g, below)
    <3> HIDE DEF below
    <3> QED BY <1>3 DEF Inherits
  <2>2. IsFiniteSet(DOMAIN g)
    BY DEF IntValued
  <2> HIDE DEF below
  <2> QED BY <2>1, <2>2, SubsetInduction
<1>5. DOMAIN g \in below /\ DOMAIN g \cap DOMAIN f = DOMAIN f
  BY <1>4
<1> QED BY <1>1, <1>2, <1>5

(* The query returns its rows in no particular order.  That makes no       *)
(* difference to the loop over them: any two submissions may be merged in  *)
(* either order.                                                           *)
LEMMA MergeType ==
  ASSUME NEW a \in Seq(Nat), NEW b \in Seq(Nat)
  PROVE  /\ Merge(a, b) \in Seq(Nat)
         /\ Len(Merge(a, b)) = Larger(Len(a), Len(b))
         /\ \A i \in 1 .. Larger(Len(a), Len(b)) :
              Merge(a, b)[i] = Larger(IF i <= Len(a) THEN a[i] ELSE 0,
                                      IF i <= Len(b) THEN b[i] ELSE 0)
<1> DEFINE n == Larger(Len(a), Len(b))
           best(i) == Larger(IF i <= Len(a) THEN a[i] ELSE 0,
                             IF i <= Len(b) THEN b[i] ELSE 0)
<1>1. n \in Nat
  BY DEF Larger
<1>2. \A i \in 1 .. n : best(i) \in Nat
  BY <1>1 DEF Larger
<1>3. Merge(a, b) = [i \in 1 .. n |-> best(i)]
  BY DEF Merge
<1> HIDE DEF n, best
<1>4. Merge(a, b) \in Seq(Nat) /\ Len(Merge(a, b)) = n
  BY <1>1, <1>2, <1>3
<1>5. \A i \in 1 .. n : Merge(a, b)[i] = best(i)
  BY <1>3
<1> QED BY <1>4, <1>5 DEF n, best

(* The score that v contributes in subtask i. *)
At(v, i) == IF i <= Len(v) THEN v[i] ELSE 0

(* A merge has the better of both scores in every subtask.                 *)
LEMMA MergeAt ==
  ASSUME NEW a \in Seq(Nat), NEW b \in Seq(Nat), NEW i \in Nat \ {0}
  PROVE  /\ At(a, i) \in Nat
         /\ At(Merge(a, b), i) = Larger(At(a, i), At(b, i))
<1>1. At(a, i) \in Nat /\ At(b, i) \in Nat
  BY DEF At
<1>2. CASE i <= Larger(Len(a), Len(b))
  <2>1. i \in 1 .. Larger(Len(a), Len(b))
    BY <1>2 DEF Larger
  <2>2. Merge(a, b)[i] = Larger(At(a, i), At(b, i))
    BY <2>1, MergeType DEF At
  <2> QED BY <1>1, <1>2, <2>2, MergeType DEF At
<1>3. CASE ~(i <= Larger(Len(a), Len(b)))
  <2>1. ~(i <= Len(a)) /\ ~(i <= Len(b))
    BY <1>3 DEF Larger
  <2>2. At(a, i) = 0 /\ At(b, i) = 0 /\ At(Merge(a, b), i) = 0
    BY <1>3, <2>1, MergeType DEF At
  <2> QED BY <1>1, <2>2 DEF Larger
<1> QED BY <1>2, <1>3, <1>1

(* Two sequences of scores of the same length that agree in every subtask. *)
LEMMA SameScores ==
  ASSUME NEW a \in Seq(Nat), NEW b \in Seq(Nat), Len(a) = Len(b),
         \A i \in 1 .. Len(a) : At(a, i) = At(b, i)
  PROVE  a = b
<1>1. \A i \in 1 .. Len(a) : a[i] = b[i]
  BY DEF At
<1> QED BY <1>1, SeqEqual

(* Two submissions merge to the same scores in either order.               *)
THEOREM MergeCommutes ==
  ASSUME NEW a \in Seq(Nat), NEW b \in Seq(Nat)
  PROVE  Merge(a, b) = Merge(b, a)
<1>1. Len(Merge(a, b)) = Len(Merge(b, a))
  BY MergeType DEF Larger
<1>2. ASSUME NEW i \in 1 .. Len(Merge(a, b))
      PROVE  At(Merge(a, b), i) = At(Merge(b, a), i)
  <2>1. i \in Nat \ {0}
    BY MergeType
  <2>2. At(a, i) \in Nat /\ At(b, i) \in Nat
    BY <2>1, MergeAt
  <2>3. /\ At(Merge(a, b), i) = Larger(At(a, i), At(b, i))
        /\ At(Merge(b, a), i) = Larger(At(b, i), At(a, i))
    BY <2>1, MergeAt
  <2> QED BY <2>2, <2>3 DEF Larger
<1>3. Merge(a, b) \in Seq(Nat) /\ Merge(b, a) \in Seq(Nat)
  BY MergeType
<1> QED BY <1>1, <1>2, <1>3, SameScores

(* Three submissions merge to the same scores however they are grouped.    *)
THEOREM MergeAssociates ==
  ASSUME NEW a \in Seq(Nat), NEW b \in Seq(Nat), NEW c \in Seq(Nat)
  PROVE  Merge(a, Merge(b, c)) = Merge(b, Merge(a, c))
<1>1. /\ Merge(a, c) \in Seq(Nat) /\ Len(Merge(a, c)) = Larger(Len(a), Len(c))
      /\ Merge(b, c) \in Seq(Nat) /\ Len(Merge(b, c)) = Larger(Len(b), Len(c))
  BY MergeType
<1>2. /\ Merge(a, Merge(b, c)) \in Seq(Nat)
      /\ Merge(b, Merge(a, c)) \in Seq(Nat)
      /\ Len(Merge(a, Merge(b, c))) = Larger(Len(a), Larger(Len(b), Len(c)))
      /\ Len(Merge(b, Merge(a, c))) = Larger(Len(b), Larger(Len(a), Len(c)))
  BY <1>1, MergeType
<1>3. Len(Merge(a, Merge(b, c))) = Len(Merge(b, Merge(a, c)))
  BY <1>2 DEF Larger
<1>4. ASSUME NEW i \in 1 .. Len(Merge(a, Merge(b, c)))
      PROVE  At(Merge(a, Merge(b, c)), i) = At(Merge(b, Merge(a, c)), i)
  <2>1. i \in Nat \ {0}
    BY <1>2
  <2>2. At(a, i) \in Nat /\ At(b, i) \in Nat /\ At(c, i) \in Nat
    BY <2>1, MergeAt
  <2>3. At(Merge(a, Merge(b, c)), i) = Larger(At(a, i), Larger(At(b, i), At(c, i)))
    BY <1>1, <2>1, MergeAt
  <2>4. At(Merge(b, Merge(a, c)), i) = Larger(At(b, i), Larger(At(a, i), At(c, i)))
    BY <1>1, <2>1, MergeAt
  <2> QED BY <2>2, <2>3, <2>4 DEF Larger
<1> QED BY <1>2, <1>3, <1>4, SameScores

VectorValued(vectors) ==
  IsFiniteSet(DOMAIN vectors) /\ \A s \in DOMAIN vectors : vectors[s] \in Seq(Nat)

(* by_subtask over the subsets of the stored rows. *)
IsMerge(h, vectors) ==
  /\ h \in [SUBSET DOMAIN vectors -> Seq(Nat)]
  /\ h[{}] = <<>>
  /\ \A s \in SUBSET DOMAIN vectors : \A x \in s : h[s] = Merge(vectors[x], h[s \ {x}])

(* The loop of recalculateUserScoreForTask merges the rows one by one, in  *)
(* any order.                                                              *)
LEMMA MergeFold ==
  ASSUME NEW vectors, VectorValued(vectors)
  PROVE  \E h : IsMerge(h, vectors) /\ BySubtask(vectors) = h[DOMAIN vectors]
<1> DEFINE S == DOMAIN vectors
           V == Seq(Nat)
           pick == [s \in SUBSET S |-> CHOOSE x \in s : TRUE]
           step == [a \in S \X V |-> Merge(vectors[a[1]], a[2])]
           Equation(h) == h = [s \in SUBSET S |->
                                 IF s = {} THEN <<>>
                                 ELSE LET x == CHOOSE y \in s : TRUE
                                      IN  Merge(vectors[x], h[s \ {x}])]
<1>1. /\ IsFiniteSet(S)
      /\ <<>> \in V
      /\ \A s \in SUBSET S : s # {} => pick[s] = (CHOOSE x \in s : TRUE) /\ pick[s] \in s
      /\ \A x \in S, v \in V : step[<<x, v>>] = Merge(vectors[x], v) /\ step[<<x, v>>] \in V
  <2>1. IsFiniteSet(S) /\ <<>> \in V
    BY DEF VectorValued
  <2>2. \A s \in SUBSET S : s # {} => pick[s] = (CHOOSE x \in s : TRUE) /\ pick[s] \in s
    OBVIOUS
  <2>3. ASSUME NEW x \in S, NEW v \in V
        PROVE  step[<<x, v>>] = Merge(vectors[x], v) /\ step[<<x, v>>] \in V
    <3>1. vectors[x] \in Seq(Nat)
      BY DEF VectorValued
    <3> QED BY <3>1, MergeType
  <2> QED BY <2>1, <2>2, <2>3
<1>2. Foldable(S, V, <<>>, step, pick)
  <2>1. ASSUME NEW x \in S, NEW y \in S, NEW v \in V
        PROVE  step[<<x, step[<<y, v>>]>>] = step[<<y, step[<<x, v>>]>>]
    <3>1. vectors[x] \in Seq(Nat) /\ vectors[y] \in Seq(Nat)
      BY DEF VectorValued
    <3>2. /\ step[<<x, step[<<y, v>>]>>] = Merge(vectors[x], Merge(vectors[y], v))
          /\ step[<<y, step[<<x, v>>]>>] = Merge(vectors[y], Merge(vectors[x], v))
      <4> HIDE DEF step, V
      <4> QED BY <1>1
    <3> QED BY <3>1, <3>2, MergeAssociates
  <2> HIDE DEF step, pick, V
  <2> QED BY <1>1, <2>1 DEF Foldable
<1>3. ASSUME NEW h, IsFold(h, S, V, <<>>, step, pick)
      PROVE  IsMerge(h, vectors)
  <2>1. InAnyOrder(h, S, V, <<>>, step)
    <3> HIDE DEF step, pick, V
    <3> QED BY <1>2, <1>3, FoldInAnyOrder
  <2>2. ASSUME NEW s \in SUBSET S, NEW x \in s
        PROVE  h[s] = Merge(vectors[x], h[s \ {x}])
    <3> HIDE DEF step, V
    <3>1. h[s] = step[<<x, h[s \ {x}]>>] /\ h[s \ {x}] \in V
      BY <2>1 DEF InAnyOrder
    <3>2. step[<<x, h[s \ {x}]>>] = Merge(vectors[x], h[s \ {x}])
      BY <1>1, <3>1
    <3> QED BY <3>1, <3>2
  <2> HIDE DEF step
  <2> QED BY <2>1, <2>2 DEF InAnyOrder, IsMerge
<1>4. \E h : Equation(h)
  <2> HIDE DEF step, pick, V
  <2>1. PICK h : FoldEquation(h, S, <<>>, step, pick)
    BY <1>2, FoldIsDefined
  <2>2. /\ h = [s \in SUBSET S |-> h[s]]
        /\ \A s \in SUBSET S : h[s] = IF s = {} THEN <<>> ELSE step[<<pick[s], h[s \ {pick[s]}]>>]
    BY <2>1, Zenon DEF FoldEquation
  <2>3. IsFold(h, S, V, <<>>, step, pick)
    BY <2>2 DEF IsFold
  <2>4. ASSUME NEW s \in SUBSET S
        PROVE  h[s] = IF s = {} THEN <<>>
                      ELSE LET x == CHOOSE y \in s : TRUE IN Merge(vectors[x], h[s \ {x}])
    <3>1. CASE s = {}
      BY <2>2, <3>1
    <3>2. CASE s # {}
      <4>1. pick[s] \in s /\ pick[s] = CHOOSE x \in s : TRUE
        BY <1>1, <3>2
      <4>2. IsMerge(h, vectors)
        BY <1>3, <2>3
      <4>3. h[s] = Merge(vectors[pick[s]], h[s \ {pick[s]}])
        BY <4>1, <4>2 DEF IsMerge
      <4> QED BY <3>2, <4>1, <4>3
    <3> QED BY <3>1, <3>2
  <2>5. h = [s \in SUBSET S |-> IF s = {} THEN <<>>
                                ELSE LET x == CHOOSE y \in s : TRUE IN Merge(vectors[x], h[s \ {x}])]
    BY <2>2, <2>4
  <2> QED BY <2>5
<1> DEFINE best == CHOOSE h : Equation(h)
<1>5. Equation(best)
  <2> HIDE DEF Equation
  <2> QED BY <1>4
<1>6. BySubtask(vectors) = best[S]
  BY DEF BySubtask, FoldFunction, FoldFunctionOnSet, MapThenFoldSet
<1>7. IsFold(best, S, V, <<>>, step, pick)
  <2> HIDE DEF best, V
  <2>1. \A s \in SUBSET S : best[s] = IF s = {} THEN <<>>
                                      ELSE LET x == CHOOSE y \in s : TRUE
                                           IN  Merge(vectors[x], best[s \ {x}])
    BY <1>5, Zenon
  <2>2. best = [s \in SUBSET S |-> best[s]]
    BY <1>5, Zenon
  <2>3. ASSUME NEW s \in SUBSET S, s # {}, best[s \ {pick[s]}] \in V
        PROVE  best[s] = step[<<pick[s], best[s \ {pick[s]}]>>]
    <3> HIDE DEF step, pick
    <3>1. pick[s] \in S /\ best[s] = Merge(vectors[pick[s]], best[s \ {pick[s]}])
      BY <1>1, <2>1, <2>3
    <3> QED BY <1>1, <2>3, <3>1
  <2> HIDE DEF step, pick
  <2> QED BY <2>1, <2>2, <2>3 DEF IsFold
<1>8. IsMerge(best, vectors)
  <2> HIDE DEF best, step, pick
  <2> QED BY <1>3, <1>7
<1> HIDE DEF best
<1> QED BY <1>6, <1>8

(* What a vector gives in a subtask. *)
BestSoFar(best, s, vectors) ==
  /\ DOMAIN best = UNION {DOMAIN vectors[x] : x \in s}
  /\ \A i \in DOMAIN best :
       /\ \E x \in s : i \in DOMAIN vectors[x] /\ best[i] = vectors[x][i]
       /\ \A x \in s : i \in DOMAIN vectors[x] => vectors[x][i] <= best[i]

(* Merging one more row into the best scores so far gives the best scores. *)
LEMMA MergeKeepsBest ==
  ASSUME NEW vectors, NEW s, NEW x \in s, \A y \in s : vectors[y] \in Seq(Nat),
         NEW rest \in Seq(Nat), BestSoFar(rest, s \ {x}, vectors)
  PROVE  BestSoFar(Merge(vectors[x], rest), s, vectors)
<1> DEFINE v == vectors[x]
           best == Merge(v, rest)
<1>1. /\ v \in Seq(Nat) /\ best \in Seq(Nat)
      /\ Len(best) = Larger(Len(v), Len(rest))
      /\ \A i \in 1 .. Len(best) : best[i] = Larger(At(v, i), At(rest, i))
  BY MergeType DEF At
<1>2. DOMAIN best = DOMAIN v \cup DOMAIN rest
  <2> HIDE DEF v, best
  <2>1. /\ DOMAIN best = 1 .. Len(best) /\ DOMAIN v = 1 .. Len(v) /\ DOMAIN rest = 1 .. Len(rest)
        /\ Len(v) \in Nat /\ Len(rest) \in Nat
    BY <1>1
  <2> QED BY <1>1, <2>1 DEF Larger
<1>3. DOMAIN best = UNION {DOMAIN vectors[y] : y \in s}
  <2>1. UNION {DOMAIN vectors[y] : y \in s} = DOMAIN v \cup UNION {DOMAIN vectors[y] : y \in s \ {x}}
    OBVIOUS
  <2>2. DOMAIN rest = UNION {DOMAIN vectors[y] : y \in s \ {x}}
    BY DEF BestSoFar
  <2> HIDE DEF v, best
  <2> QED BY <1>2, <2>1, <2>2
<1>4. ASSUME NEW i \in DOMAIN best
      PROVE  /\ \E y \in s : i \in DOMAIN vectors[y] /\ best[i] = vectors[y][i]
             /\ \A y \in s : i \in DOMAIN vectors[y] => vectors[y][i] <= best[i]
  <2>1. i \in 1 .. Len(best) /\ best[i] = Larger(At(v, i), At(rest, i))
    <3> HIDE DEF v, best
    <3> QED BY <1>1
  <2>2. /\ i \in DOMAIN v => At(v, i) = v[i] /\ v[i] \in Nat
        /\ i \notin DOMAIN v => At(v, i) = 0
        /\ i \in DOMAIN rest => At(rest, i) = rest[i] /\ rest[i] \in Nat
        /\ i \notin DOMAIN rest => At(rest, i) = 0
    <3> HIDE DEF v, best
    <3> QED BY <1>1, <2>1 DEF At
  <2>3. i \in DOMAIN rest =>
          /\ \E y \in s \ {x} : i \in DOMAIN vectors[y] /\ rest[i] = vectors[y][i]
          /\ \A y \in s \ {x} : i \in DOMAIN vectors[y] => vectors[y][i] <= rest[i]
    BY DEF BestSoFar
  <2>4. \A y \in s \ {x} : i \in DOMAIN vectors[y] => i \in DOMAIN rest
    BY DEF BestSoFar
  <2>5. \A y \in s : i \in DOMAIN vectors[y] => vectors[y][i] \in Nat
    OBVIOUS
  <2>6. i \in DOMAIN v \/ i \in DOMAIN rest
    <3> HIDE DEF v, best
    <3> QED BY <1>2
  <2>7. \E y \in s : i \in DOMAIN vectors[y] /\ best[i] = vectors[y][i]
    <3>1. CASE i \in DOMAIN v /\ best[i] = v[i]
      BY <3>1
    <3>2. CASE i \in DOMAIN rest /\ best[i] = rest[i]
      BY <2>3, <3>2
    <3>3. (i \in DOMAIN v /\ best[i] = v[i]) \/ (i \in DOMAIN rest /\ best[i] = rest[i])
      <4> HIDE DEF v, best
      <4> QED BY <2>1, <2>2, <2>6 DEF Larger
    <3> QED BY <3>1, <3>2, <3>3
  <2>8. ASSUME NEW y \in s, i \in DOMAIN vectors[y]
        PROVE  vectors[y][i] <= best[i]
    <3>1. CASE y = x
      <4>1. vectors[y] = v
        BY <3>1
      <4> HIDE DEF v, best
      <4> QED BY <2>1, <2>2, <2>8, <4>1 DEF Larger
    <3>2. CASE y # x
      <4>1. i \in DOMAIN rest /\ vectors[y][i] <= rest[i] /\ vectors[y][i] \in Nat
        BY <2>3, <2>4, <2>5, <2>8, <3>2
      <4> HIDE DEF v, best
      <4> QED BY <2>1, <2>2, <4>1 DEF Larger
    <3> QED BY <3>1, <3>2
  <2> QED BY <2>7, <2>8
<1> QED BY <1>3, <1>4 DEF BestSoFar

(* The loop over the stored rows finds, for every subtask, the best score. *)
LEMMA LoopFindsBest ==
  ASSUME NEW vectors, VectorValued(vectors)
  PROVE  /\ BySubtask(vectors) \in Seq(Nat)
         /\ BestSoFar(BySubtask(vectors), DOMAIN vectors, vectors)
<1>1. PICK h : IsMerge(h, vectors) /\ BySubtask(vectors) = h[DOMAIN vectors]
  BY MergeFold
<1> DEFINE right == {s \in SUBSET DOMAIN vectors : BestSoFar(h[s], s, vectors)}
<1>2. ASSUME NEW s \in SUBSET DOMAIN vectors, \A x \in s : s \ {x} \in right
      PROVE  s \in right
  <2>1. CASE s = {}
    <3>1. h[s] = <<>> /\ UNION {DOMAIN vectors[x] : x \in s} = {}
      BY <1>1, <2>1 DEF IsMerge
    <3>2. DOMAIN <<>> = {}
      OBVIOUS
    <3>3. BestSoFar(<<>>, s, vectors)
      BY <3>1, <3>2 DEF BestSoFar
    <3> QED BY <3>1, <3>3
  <2>2. CASE s # {}
    <3>1. PICK x : x \in s
      BY <2>2
    <3>2. h[s] = Merge(vectors[x], h[s \ {x}]) /\ h[s \ {x}] \in Seq(Nat)
      BY <1>1, <3>1 DEF IsMerge
    <3>3. \A y \in s : vectors[y] \in Seq(Nat)
      BY DEF VectorValued
    <3>4. BestSoFar(h[s \ {x}], s \ {x}, vectors)
      BY <1>2, <3>1
    <3>5. BestSoFar(Merge(vectors[x], h[s \ {x}]), s, vectors)
      BY <3>1, <3>2, <3>3, <3>4, MergeKeepsBest
    <3> QED BY <3>2, <3>5
  <2> QED BY <2>1, <2>2
<1>3. SUBSET DOMAIN vectors \subseteq right
  <2>1. Inherits(DOMAIN vectors, right)
    <3> HIDE DEF right
    <3> QED BY <1>2 DEF Inherits
  <2>2. IsFiniteSet(DOMAIN vectors)
    BY DEF VectorValued
  <2> HIDE DEF right
  <2> QED BY <2>1, <2>2, SubsetInduction
<1>4. h[DOMAIN vectors] \in Seq(Nat)
  BY <1>1 DEF IsMerge
<1> QED BY <1>1, <1>3, <1>4

(* What recalculateUserScoreForTask stores is the reference: the best      *)
(* score of every subtask that some submission has, added up.              *)
THEOREM BaseScoreIsBest ==
  ASSUME NEW vectors, VectorValued(vectors)
  PROVE  BaseScore(vectors) = BestScore(vectors)
<1> DEFINE b == BySubtask(vectors)
<1>1. /\ b \in Seq(Nat)
      /\ DOMAIN b = SubtasksOf(vectors)
      /\ \A i \in DOMAIN b :
           /\ \E x \in DOMAIN vectors : i \in DOMAIN vectors[x] /\ b[i] = vectors[x][i]
           /\ \A x \in DOMAIN vectors : i \in DOMAIN vectors[x] => vectors[x][i] <= b[i]
  BY LoopFindsBest DEF BestSoFar, SubtasksOf
<1> HIDE DEF b
<1>2. ASSUME NEW i \in DOMAIN b
      PROVE  b[i] = BestInSubtask(vectors, i)
  <2> DEFINE got == {vectors[s][i] : s \in {r \in DOMAIN vectors : i \in DOMAIN vectors[r]}}
             top(n) == \A s \in DOMAIN vectors : i \in DOMAIN vectors[s] => vectors[s][i] <= n
  <2>1. b[i] \in got /\ top(b[i])
    BY <1>1
  <2>2. b[i] \in Nat
    BY <1>1
  <2>3. \A n \in got : n \in Nat
    BY DEF VectorValued
  <2>4. ASSUME NEW n \in got, top(n)
        PROVE  n = b[i]
    <3>1. PICK s \in DOMAIN vectors : i \in DOMAIN vectors[s] /\ n = vectors[s][i]
      OBVIOUS
    <3>2. n <= b[i]
      BY <2>1, <3>1
    <3>3. b[i] <= n
      BY <2>1, <2>4
    <3> QED BY <2>2, <2>3, <3>2, <3>3
  <2>5. (CHOOSE n \in got : top(n)) = b[i]
    <3> HIDE DEF got, top
    <3> QED BY <2>1, <2>4
  <2> QED BY <2>5 DEF BestInSubtask
<1>3. b = [i \in SubtasksOf(vectors) |-> BestInSubtask(vectors, i)]
  <2>1. b = [i \in DOMAIN b |-> b[i]]
    BY <1>1
  <2> QED BY <1>1, <1>2, <2>1
<1> QED BY <1>3 DEF BaseScore, BestScore, b

(* A base score is an integer.                                             *)
LEMMA BaseScoreType ==
  ASSUME NEW vectors, VectorValued(vectors)
  PROVE  BaseScore(vectors) \in Int
<1> DEFINE b == BySubtask(vectors)
<1>1. b \in Seq(Nat)
  BY LoopFindsBest
<1> HIDE DEF b
<1>2. IntValued(b)
  <2>1. DOMAIN b = 1 .. Len(b) /\ Len(b) \in Nat
    BY <1>1
  <2>2. IsFiniteSet(DOMAIN b)
    BY <2>1, FS_Interval
  <2> QED BY <1>1, <2>2 DEF IntValued
<1> QED BY <1>2, SumTakeOut DEF BaseScore, b

(* Rows added to others never lower the base score. *)
THEOREM BaseScoreGrows ==
  ASSUME NEW old, VectorValued(old), NEW new, VectorValued(new),
         DOMAIN old \subseteq DOMAIN new, \A s \in DOMAIN old : new[s] = old[s]
  PROVE  BaseScore(old) <= BaseScore(new)
<1> DEFINE b == BySubtask(old)
           c == BySubtask(new)
<1>1. /\ b \in Seq(Nat) /\ BestSoFar(b, DOMAIN old, old)
      /\ c \in Seq(Nat) /\ BestSoFar(c, DOMAIN new, new)
  BY LoopFindsBest
<1> HIDE DEF b, c
<1>2. DOMAIN b \subseteq DOMAIN c /\ \A i \in DOMAIN b : b[i] <= c[i]
  <2> SUFFICES ASSUME NEW i \in DOMAIN b PROVE i \in DOMAIN c /\ b[i] <= c[i]
    OBVIOUS
  <2>1. PICK s \in DOMAIN old : i \in DOMAIN old[s] /\ b[i] = old[s][i]
    BY <1>1 DEF BestSoFar
  <2>2. s \in DOMAIN new /\ new[s] = old[s]
    OBVIOUS
  <2>3. i \in DOMAIN c
    BY <1>1, <2>1, <2>2 DEF BestSoFar
  <2>4. new[s][i] <= c[i]
    BY <1>1, <2>1, <2>2, <2>3 DEF BestSoFar
  <2> QED BY <2>1, <2>2, <2>3, <2>4
<1>3. IntValued(b) /\ IntValued(c)
  <2>1. /\ DOMAIN b = 1 .. Len(b) /\ Len(b) \in Nat
        /\ DOMAIN c = 1 .. Len(c) /\ Len(c) \in Nat
    BY <1>1
  <2>2. IsFiniteSet(DOMAIN b) /\ IsFiniteSet(DOMAIN c)
    BY <2>1, FS_Interval
  <2> QED BY <1>1, <2>2 DEF IntValued
<1>4. \A i \in DOMAIN c \ DOMAIN b : 0 <= c[i]
  BY <1>1
<1>5. SumFunction(b) <= SumFunction(c)
  BY <1>2, <1>3, <1>4, SumGrows
<1> QED BY <1>5 DEF BaseScore, b, c

------------------------------------------------------------------------------
(* A row that is upserted has its new value, the others keep theirs.       *)
LEMMA UpsertValue ==
  ASSUME NEW f, NEW k, NEW v
  PROVE  /\ DOMAIN Upsert(f, k, v) = DOMAIN f \cup {k}
         /\ Upsert(f, k, v)[k] = v
         /\ \A x \in DOMAIN f : x # k => Upsert(f, k, v)[x] = f[x]
  BY DEF Upsert

(* Storing a submission touches the rows of its own pair only. *)
LEMMA OtherRows ==
  ASSUME NEW s, NEW v, subs' = Upsert(subs, s, v), NEW p, p # Pair(s)
  PROVE  RowsOf(p)' = RowsOf(p)
<1> DEFINE new == {r \in DOMAIN subs' : Pair(r) = p}
           old == {r \in DOMAIN subs : Pair(r) = p}
<1>1. DOMAIN subs' = DOMAIN subs \cup {s} /\ \A x \in DOMAIN subs : x # s => subs'[x] = subs[x]
  BY DEF Upsert
<1>2. new = old
  BY <1>1
<1>3. \A r \in old : r # s /\ subs'[r] = subs[r]
  BY <1>1
<1>4. [r \in new |-> subs'[r]] = [r \in old |-> subs[r]]
  BY <1>2, <1>3
<1> QED BY <1>4 DEF RowsOf, Pair

(* What SubmissionStored does to the three tables it writes. *)
LEMMA Stored ==
  ASSUME NEW s, NEW v, SubmissionStored(s, v)
  PROVE  LET p == Pair(s)
             new == BaseScore(RowsOf(p))'
         IN  /\ subs' = Upsert(subs, s, v)
             /\ score' = Upsert(score, p, [base |-> new, score |-> new * task[p[2]]])
             /\ total' = [total EXCEPT ![p[1]] = @ + (new * task[p[2]] - GetUserTaskScore(p))]
             /\ UNCHANGED task
             /\ orphaned' = orphaned \ {p}
             /\ stale' = stale \ {p}
             /\ p[1] \in DOMAIN total
             /\ p[2] \in DOMAIN task
<1> DEFINE p == Pair(s)
<1>1. GetAllScores(subs', p) = RowsOf(p)'
  BY DEF GetAllScores, RowsOf, Pair
<1>2. BaseScore(GetAllScores(subs', p)) = BaseScore(RowsOf(p))'
  BY <1>1 DEF BaseScore, BySubtask
<1> QED
  BY <1>2 DEF SubmissionStored, Recalculate, SaveUserScore, IncrementUserScore, Pair

(* The other steps leave submissions, scores and totals to each other. *)
LEMMA Registered ==
  ASSUME NEW u, UserCreated(u)
  PROVE  /\ UNCHANGED <<task, subs, score, orphaned, stale>>
         /\ DOMAIN total' = DOMAIN total \cup {u}
         /\ \A x \in DOMAIN total : total'[x] = total[x]
  BY DEF UserCreated, Upsert

------------------------------------------------------------------------------
(* Every stored submission has its user, and every task score its user and *)
(* its task: the panic on an unknown task never leaves a score behind.     *)
THEOREM ReferencesHold == Spec => []References
<1>1. Init => References
  BY DEF Init, References, Empty
<1>2. References /\ [Next]_vars => References'
  <2> SUFFICES ASSUME References, [Next]_vars PROVE References'
    OBVIOUS
  <2>1. ASSUME NEW s \in Submission, NEW v, SubmissionStored(s, v)
        PROVE  References'
    <3> DEFINE p == Pair(s)
    <3>1. DOMAIN subs' = DOMAIN subs \cup {s} /\ DOMAIN score' = DOMAIN score \cup {p}
      BY <2>1, Stored DEF Upsert
    <3>2. DOMAIN total' = DOMAIN total /\ DOMAIN task' = DOMAIN task
      BY <2>1, Stored
    <3>3. p \in (DOMAIN total) \X (DOMAIN task) /\ Owner[s] \in DOMAIN total
      BY <2>1 DEF SubmissionStored, Pair
    <3>4. stale' \subseteq stale
      BY <2>1, Stored
    <3> QED BY <3>1, <3>2, <3>3, <3>4 DEF References
  <2>2. ASSUME NEW s \in Submission, NEW v, SubmissionPanics(s, v)
        PROVE  References'
    <3>1. DOMAIN subs' = DOMAIN subs \cup {s}
      BY <2>2, UpsertValue DEF SubmissionPanics
    <3> QED BY <2>2, <3>1 DEF SubmissionPanics, References
  <2>3. ASSUME NEW t \in Task, NEW m \in Multiplier, TaskStored(t, m)
        PROVE  References'
    <3>1. DOMAIN task' = DOMAIN task \cup {t}
      BY <2>3, UpsertValue DEF TaskStored
    <3>2. stale' \subseteq DOMAIN score
      BY <2>3 DEF TaskStored, References
    <3> QED BY <2>3, <3>1, <3>2 DEF TaskStored, References
  <2>4. ASSUME NEW u \in User, UserCreated(u)
        PROVE  References'
    <3>1. UNCHANGED <<task, subs, score, stale>> /\ DOMAIN total \subseteq DOMAIN total'
      BY <2>4, Registered
    <3> QED BY <3>1 DEF References
  <2>5. CASE UNCHANGED vars
    BY <2>5 DEF vars, References
  <2> QED
    BY <2>1, <2>2, <2>3, <2>4, <2>5 DEF Next, SubmissionRefused
<1> QED BY <1>1, <1>2, PTL DEF Spec

(* No score lags behind the stored submissions. *)
THEOREM AlwaysFresh == Spec => []BaseIsFresh
<1>1. Init => BaseIsFresh
  BY DEF Init, BaseIsFresh, Empty
<1>2. References /\ BaseIsFresh /\ [Next]_vars => BaseIsFresh'
  <2> SUFFICES ASSUME References, BaseIsFresh, [Next]_vars PROVE BaseIsFresh'
    OBVIOUS
  <2>1. ASSUME NEW s \in Submission, NEW v, SubmissionStored(s, v)
        PROVE  BaseIsFresh'
    <3> DEFINE p == Pair(s)
               base == BaseScore(RowsOf(p))'
    <3>1. /\ subs' = Upsert(subs, s, v)
          /\ score' = Upsert(score, p, [base |-> base, score |-> base * task[p[2]]])
      BY <2>1, Stored
    <3>2. DOMAIN score' = DOMAIN score \cup {p} /\ score'[p].base = base
      BY <3>1 DEF Upsert
    <3>3. ASSUME NEW q \in DOMAIN score, q # p
          PROVE  score'[q].base = BaseScore(RowsOf(q))'
      <4>1. RowsOf(q)' = RowsOf(q)
        BY <3>1, <3>3, OtherRows
      <4>2. score'[q] = score[q]
        BY <3>1, <3>3 DEF Upsert
      <4>3. BaseScore(RowsOf(q))' = BaseScore(RowsOf(q))
        BY <4>1 DEF BaseScore, BySubtask
      <4> QED BY <4>2, <4>3 DEF BaseIsFresh
    <3> QED BY <3>2, <3>3 DEF BaseIsFresh
  <2>2. ASSUME NEW s \in Submission, NEW v, SubmissionPanics(s, v)
        PROVE  BaseIsFresh'
    <3>1. subs' = Upsert(subs, s, v) /\ score' = score
      BY <2>2 DEF SubmissionPanics
    <3>2. Pair(s) \notin DOMAIN score
      BY <2>2 DEF SubmissionPanics, Pair, References
    <3>3. ASSUME NEW q \in DOMAIN score
          PROVE  BaseScore(RowsOf(q))' = BaseScore(RowsOf(q))
      <4>1. RowsOf(q)' = RowsOf(q)
        BY <3>1, <3>2, OtherRows
      <4> QED BY <4>1 DEF BaseScore, BySubtask
    <3> QED BY <3>1, <3>3 DEF BaseIsFresh
  <2>3. CASE UNCHANGED <<subs, score>>
    <3>1. ASSUME NEW q PROVE BaseScore(RowsOf(q))' = BaseScore(RowsOf(q))
      <4>1. RowsOf(q)' = RowsOf(q)
        BY <2>3 DEF RowsOf, Pair
      <4> QED BY <4>1 DEF BaseScore, BySubtask
    <3> QED BY <2>3, <3>1 DEF BaseIsFresh
  <2> QED
    BY <2>1, <2>2, <2>3
    DEF Next, vars, SubmissionRefused, TaskStored, UserCreated
<1> QED BY <1>1, <1>2, ReferencesHold, PTL DEF Spec

(* No stored submission is left out, except after a panic on its pair. *)
THEOREM AllCount == Spec => []EverySubmissionCounts
<1>1. Init => EverySubmissionCounts
  BY DEF Init, EverySubmissionCounts, Empty
<1>2. EverySubmissionCounts /\ [Next]_vars => EverySubmissionCounts'
  <2> SUFFICES ASSUME EverySubmissionCounts, [Next]_vars PROVE EverySubmissionCounts'
    OBVIOUS
  <2>1. ASSUME NEW s \in Submission, NEW v, SubmissionStored(s, v)
        PROVE  EverySubmissionCounts'
    <3>1. DOMAIN subs' = DOMAIN subs \cup {s} /\ DOMAIN score' = DOMAIN score \cup {Pair(s)}
      BY <2>1, Stored DEF Upsert
    <3>2. orphaned' = orphaned \ {Pair(s)}
      BY <2>1, Stored
    <3> QED BY <3>1, <3>2 DEF EverySubmissionCounts, Pair
  <2>2. ASSUME NEW s \in Submission, NEW v, SubmissionPanics(s, v)
        PROVE  EverySubmissionCounts'
    <3>1. DOMAIN subs' = DOMAIN subs \cup {s}
      BY <2>2, UpsertValue DEF SubmissionPanics
    <3> QED BY <2>2, <3>1 DEF SubmissionPanics, EverySubmissionCounts, Pair
  <2>3. CASE UNCHANGED <<subs, score, orphaned>>
    BY <2>3 DEF EverySubmissionCounts, Pair
  <2> QED
    BY <2>1, <2>2, <2>3
    DEF Next, vars, SubmissionRefused, TaskStored, UserCreated
<1> QED BY <1>1, <1>2, PTL DEF Spec

(* A score is out of step with its task's multiplier only after SaveTask   *)
(* has changed that multiplier.                                            *)
THEOREM MultiplierUsed == Spec => []ScoreUsesMultiplier
<1>1. Init => ScoreUsesMultiplier
  BY DEF Init, ScoreUsesMultiplier, Empty
<1>2. References /\ ScoreUsesMultiplier /\ [Next]_vars => ScoreUsesMultiplier'
  <2> SUFFICES ASSUME References, ScoreUsesMultiplier, [Next]_vars
               PROVE  ScoreUsesMultiplier'
    OBVIOUS
  <2>1. ASSUME NEW s \in Submission, NEW v, SubmissionStored(s, v)
        PROVE  ScoreUsesMultiplier'
    <3> DEFINE p == Pair(s)
               base == BaseScore(RowsOf(p))'
    <3>1. /\ score' = Upsert(score, p, [base |-> base, score |-> base * task[p[2]]])
          /\ task' = task
          /\ stale' = stale \ {p}
      BY <2>1, Stored
    <3>2. DOMAIN score' = DOMAIN score \cup {p}
      BY <3>1 DEF Upsert
    <3>3. score'[p].score = score'[p].base * task'[p[2]]
      BY <3>1 DEF Upsert
    <3>4. ASSUME NEW q \in DOMAIN score \ stale, q # p
          PROVE  score'[q].score = score'[q].base * task'[q[2]]
      <4>1. score'[q] = score[q]
        BY <3>1, <3>4 DEF Upsert
      <4> QED BY <3>1, <4>1 DEF ScoreUsesMultiplier
    <3> QED BY <3>1, <3>2, <3>3, <3>4 DEF ScoreUsesMultiplier
  <2>2. ASSUME NEW t \in Task, NEW m \in Multiplier, TaskStored(t, m)
        PROVE  ScoreUsesMultiplier'
    <3>1. task' = Upsert(task, t, m) /\ score' = score
      BY <2>2 DEF TaskStored
    <3>2. ASSUME NEW p \in DOMAIN score, p \notin stale'
          PROVE  score[p].score = score[p].base * task'[p[2]]
      <4>1. p \notin stale
        BY <2>2, <3>2 DEF TaskStored
      <4>2. p[2] \in DOMAIN task
        BY DEF References
      <4>3. task'[p[2]] = task[p[2]]
        <5>1. CASE p[2] # t
          BY <3>1, <4>2, <5>1 DEF Upsert
        <5>2. CASE p[2] = t
          <6>1. task[t] = m
            BY <2>2, <3>2, <4>2, <5>2 DEF TaskStored
          <6> QED BY <3>1, <5>2, <6>1 DEF Upsert
        <5> QED BY <5>1, <5>2
      <4> QED BY <4>1, <4>3 DEF ScoreUsesMultiplier
    <3> QED BY <3>1, <3>2 DEF ScoreUsesMultiplier
  <2>3. CASE UNCHANGED <<task, score, stale>>
    BY <2>3 DEF ScoreUsesMultiplier
  <2> QED
    BY <2>1, <2>2, <2>3
    DEF Next, vars, SubmissionRefused, SubmissionPanics, UserCreated
<1> QED BY <1>1, <1>2, ReferencesHold, PTL DEF Spec

(* A step that stores no submission leaves every score and total at rest.  *)
LEMMA OthersRest ==
  ASSUME [Next]_vars, ~\E s \in Submission, v \in Vector : SubmissionStored(s, v),
         NEW u \in DOMAIN total
  PROVE  Rests(u)
<1>1. score' = score /\ total'[u] = total[u]
  BY Registered DEF Next, vars, SubmissionPanics, SubmissionRefused, TaskStored
<1> QED BY <1>1 DEF Rests, ScoreOf

(* Storing a submission moves the score of its pair, the total of its user *)
(* by as much, and nothing else.                                           *)
LEMMA StoredMoves ==
  ASSUME NEW s \in Submission, NEW v, SubmissionStored(s, v), NEW u \in DOMAIN total
  PROVE  IF u = Owner[s] THEN Moves(u, ProblemOf[s]) ELSE Rests(u)
<1> DEFINE p == Pair(s)
           base == BaseScore(RowsOf(p))'
           new == base * task[p[2]]
<1>1. /\ score' = Upsert(score, p, [base |-> base, score |-> new])
      /\ total' = [total EXCEPT ![p[1]] = @ + (new - GetUserTaskScore(p))]
  BY Stored
<1> HIDE DEF base, new
<1>2. p = <<Owner[s], ProblemOf[s]>> /\ p[1] = Owner[s]
  BY DEF Pair
<1>3. ScoreOf(p)' = new /\ ScoreOf(p) = GetUserTaskScore(p)
  <2>1. p \in DOMAIN score' /\ score'[p].score = new
    BY <1>1 DEF Upsert
  <2>2. p' = p
    BY DEF Pair
  <2> QED BY <2>1, <2>2 DEF ScoreOf, GetUserTaskScore
<1> HIDE DEF p
<1>4. ASSUME NEW q, q # p PROVE ScoreOf(q)' = ScoreOf(q)
  <2>1. q \in DOMAIN score' <=> q \in DOMAIN score
    BY <1>1, <1>4 DEF Upsert
  <2>2. q \in DOMAIN score => score'[q] = score[q]
    BY <1>1, <1>4 DEF Upsert
  <2> QED BY <2>1, <2>2 DEF ScoreOf
<1>5. CASE u = Owner[s]
  <2>1. total'[u] = total[u] + (new - GetUserTaskScore(p))
    BY <1>1, <1>2, <1>5
  <2>2. \A r \in Task \ {ProblemOf[s]} : ScoreOf(<<u, r>>)' = ScoreOf(<<u, r>>)
    BY <1>2, <1>4
  <2>3. total'[u] = total[u] + (ScoreOf(<<u, ProblemOf[s]>>)' - ScoreOf(<<u, ProblemOf[s]>>))
    BY <2>1, <1>2, <1>3, <1>5
  <2> QED BY <1>5, <2>2, <2>3 DEF Moves
<1>6. CASE u # Owner[s]
  <2>1. total'[u] = total[u]
    BY <1>1, <1>2, <1>6
  <2>2. \A t \in Task : ScoreOf(<<u, t>>)' = ScoreOf(<<u, t>>)
    BY <1>2, <1>4, <1>6
  <2> QED BY <1>6, <2>1, <2>2 DEF Rests
<1> QED BY <1>5, <1>6

(* A task score never moves without its user's total, nor the total without*)
(* it: they move by the same amount, for one pair of user and task a step. *)
THEOREM MovesTogether == Spec => ScoreMovesTogether
<1> DEFINE Together ==
      /\ \A u \in DOMAIN total : Rests(u) \/ \E t \in Task : Moves(u, t)
      /\ \A u, v \in DOMAIN total : u = v \/ Rests(u) \/ Rests(v)
<1>1. [Next]_vars => Together
  <2> SUFFICES ASSUME [Next]_vars PROVE Together
    OBVIOUS
  <2>1. CASE \E s \in Submission, v \in Vector : SubmissionStored(s, v)
    <3>1. PICK s \in Submission : \E v \in Vector : SubmissionStored(s, v)
      BY <2>1
    <3>2. \A u \in DOMAIN total : IF u = Owner[s] THEN Moves(u, ProblemOf[s]) ELSE Rests(u)
      BY <3>1, StoredMoves
    <3>3. ProblemOf[s] \in Task
      BY ProblemAssumption
    <3> QED BY <3>2, <3>3
  <2>2. CASE ~\E s \in Submission, v \in Vector : SubmissionStored(s, v)
    BY <2>2, OthersRest
  <2> QED BY <2>1, <2>2
<1> QED BY <1>1, PTL DEF Spec, ScoreMovesTogether

(* The tables are finite: a transaction adds at most one row to each. *)
Finite == IsFiniteSet(DOMAIN subs) /\ IsFiniteSet(DOMAIN score)

(* An upsert keeps the type of a table.                                    *)
LEMMA UpsertType ==
  ASSUME NEW f, NEW V, f \in [DOMAIN f -> V], NEW k, NEW v \in V
  PROVE  Upsert(f, k, v) \in [DOMAIN Upsert(f, k, v) -> V]
<1>1. \A x \in DOMAIN Upsert(f, k, v) : Upsert(f, k, v)[x] \in V
  BY DEF Upsert
<1> QED BY <1>1 DEF Upsert

(* A table stays finite when a row is upserted.                            *)
LEMMA UpsertFinite ==
  ASSUME NEW f, IsFiniteSet(DOMAIN f), NEW k, NEW v
  PROVE  IsFiniteSet(DOMAIN Upsert(f, k, v))
<1>1. IsFiniteSet(DOMAIN f \cup {k})
  BY FS_AddElement
<1> QED BY <1>1 DEF Upsert

(* The rows of a pair are score vectors. *)
LEMMA RowsValued ==
  ASSUME NEW table, table \in [DOMAIN table -> Vector], IsFiniteSet(DOMAIN table), NEW p
  PROVE  VectorValued(GetAllScores(table, p))
<1> DEFINE D == {r \in DOMAIN table : Pair(r) = p}
<1>1. IsFiniteSet(D)
  BY FS_Subset
<1>2. \A s \in D : table[s] \in Seq(Nat)
  BY VectorAssumption
<1> QED BY <1>1, <1>2 DEF GetAllScores, VectorValued

(* Every table keeps its type: a base score is a sum of best scores, and   *)
(* every score and total an integer, whatever is stored.                   *)
THEOREM TypeCorrect == Spec => [](TypeOK /\ Finite)
<1>1. Init => TypeOK /\ Finite
  <2> SUFFICES ASSUME Init PROVE TypeOK /\ Finite
    OBVIOUS
  <2>1. \A V : Empty \in [DOMAIN Empty -> V] /\ DOMAIN Empty = {}
    BY DEF Empty
  <2>2. IsFiniteSet({})
    BY FS_EmptySet
  <2> QED BY <2>1, <2>2 DEF Init, TypeOK, References, Finite
<1>2. TypeOK /\ Finite /\ References' /\ [Next]_vars => (TypeOK /\ Finite)'
  <2> SUFFICES ASSUME TypeOK, Finite, References', [Next]_vars PROVE (TypeOK /\ Finite)'
    OBVIOUS
  <2>1. ASSUME NEW s \in Submission, NEW v \in Vector, SubmissionStored(s, v)
        PROVE  (TypeOK /\ Finite)'
    <3> DEFINE p == Pair(s)
               base == BaseScore(RowsOf(p))'
               row == [base |-> base, score |-> base * task[p[2]]]
    <3>1. /\ subs' = Upsert(subs, s, v)
          /\ score' = Upsert(score, p, row)
          /\ total' = [total EXCEPT ![p[1]] = @ + (base * task[p[2]] - GetUserTaskScore(p))]
          /\ UNCHANGED task
          /\ orphaned' = orphaned \ {p}
          /\ p[1] \in DOMAIN total /\ p[2] \in DOMAIN task
      BY <2>1, Stored
    <3>2. subs' \in [DOMAIN subs' -> Vector] /\ IsFiniteSet(DOMAIN subs')
      BY <3>1, UpsertType, UpsertFinite DEF TypeOK, Finite
    <3>3. base \in Int
      <4>1. VectorValued(GetAllScores(subs', p))
        BY <3>2, RowsValued
      <4>2. RowsOf(p)' = GetAllScores(subs', p)
        BY DEF RowsOf, GetAllScores, Pair
      <4>3. base = BaseScore(GetAllScores(subs', p))
        BY <4>2 DEF BaseScore, BySubtask
      <4> QED BY <4>1, <4>3, BaseScoreType
    <3>4. base * task[p[2]] \in Int
      <4>1. task[p[2]] \in Int
        BY <3>1, MultiplierAssumption DEF TypeOK
      <4> HIDE DEF base
      <4> QED BY <3>3, <4>1
    <3>5. score' \in [DOMAIN score' -> [base : Int, score : Int]] /\ IsFiniteSet(DOMAIN score')
      <4>1. row \in [base : Int, score : Int]
        BY <3>3, <3>4
      <4> HIDE DEF row
      <4> QED BY <3>1, <4>1, UpsertType, UpsertFinite DEF TypeOK, Finite
    <3>6. DOMAIN total' \subseteq User /\ total' \in [DOMAIN total' -> Int]
      <4>1. GetUserTaskScore(p) \in Int
        BY DEF GetUserTaskScore, TypeOK
      <4> DEFINE new == base * task[p[2]]
      <4>2. total' = [total EXCEPT ![p[1]] = @ + (new - GetUserTaskScore(p))] /\ new \in Int
        BY <3>1, <3>4
      <4> HIDE DEF new, p
      <4> QED BY <3>1, <4>1, <4>2 DEF TypeOK
    <3> QED BY <3>1, <3>2, <3>5, <3>6 DEF TypeOK, Finite
  <2>2. ASSUME NEW s \in Submission, NEW v \in Vector, SubmissionPanics(s, v)
        PROVE  (TypeOK /\ Finite)'
    <3>1. subs' = Upsert(subs, s, v) /\ orphaned' = orphaned \cup {Pair(s)}
          /\ UNCHANGED <<total, task, score, stale>>
      BY <2>2 DEF SubmissionPanics
    <3>2. subs' \in [DOMAIN subs' -> Vector] /\ IsFiniteSet(DOMAIN subs')
      BY <3>1, UpsertType, UpsertFinite DEF TypeOK, Finite
    <3>3. Pair(s) \in User \X Task
      BY OwnerAssumption, ProblemAssumption DEF Pair
    <3> QED BY <3>1, <3>2, <3>3 DEF TypeOK, Finite
  <2>3. ASSUME NEW t \in Task, NEW m \in Multiplier, TaskStored(t, m)
        PROVE  (TypeOK /\ Finite)'
    <3>1. task' = Upsert(task, t, m) /\ UNCHANGED <<total, subs, score, orphaned>>
      BY <2>3 DEF TaskStored
    <3>2. Upsert(task, t, m) \in [DOMAIN Upsert(task, t, m) -> Multiplier]
      BY UpsertType DEF TypeOK
    <3>3. DOMAIN Upsert(task, t, m) \subseteq Task
      BY DEF Upsert, TypeOK
    <3> QED BY <3>1, <3>2, <3>3 DEF TypeOK, Finite
  <2>4. ASSUME NEW u \in User, UserCreated(u)
        PROVE  (TypeOK /\ Finite)'
    <3>1. total' = Upsert(total, u, 0) /\ UNCHANGED <<task, subs, score, orphaned, stale>>
      BY <2>4 DEF UserCreated
    <3>2. Upsert(total, u, 0) \in [DOMAIN Upsert(total, u, 0) -> Int]
      <4>1. total \in [DOMAIN total -> Int] /\ 0 \in Int
        BY DEF TypeOK
      <4> QED BY <4>1, UpsertType
    <3>3. DOMAIN Upsert(total, u, 0) \subseteq User
      BY DEF Upsert, TypeOK
    <3> QED BY <3>1, <3>2, <3>3 DEF TypeOK, Finite
  <2>5. CASE UNCHANGED vars
    BY <2>5 DEF vars, TypeOK, Finite
  <2> QED
    BY <2>1, <2>2, <2>3, <2>4, <2>5 DEF Next, SubmissionRefused
<1> QED BY <1>1, <1>2, ReferencesHold, PTL DEF Spec

(* The base score is the best of every subtask over the stored rows.       *)
THEOREM AlwaysBest == Spec => []BaseIsBest
<1>1. TypeOK /\ Finite /\ BaseIsFresh => BaseIsBest
  <2> SUFFICES ASSUME TypeOK, Finite, BaseIsFresh, NEW p \in DOMAIN score
               PROVE  score[p].base = BestScore(RowsOf(p))
    BY DEF BaseIsBest
  <2>1. VectorValued(GetAllScores(subs, p))
    BY RowsValued DEF TypeOK, Finite
  <2>2. GetAllScores(subs, p) = RowsOf(p)
    BY DEF RowsOf, GetAllScores
  <2> QED BY <2>1, <2>2, BaseScoreIsBest DEF BaseIsFresh
<1> QED BY <1>1, TypeCorrect, AlwaysFresh, PTL

------------------------------------------------------------------------------
(* The scores whose sum is the total of u. *)
ScoresOf(table, u) == [p \in {q \in DOMAIN table : q[1] = u} |-> table[p].score]

(* The scores of a user are finitely many integers.                        *)
LEMMA ScoresValued ==
  ASSUME NEW table, table \in [DOMAIN table -> [base : Int, score : Int]],
         IsFiniteSet(DOMAIN table), NEW u
  PROVE  IntValued(ScoresOf(table, u))
<1> DEFINE D == {q \in DOMAIN table : q[1] = u}
<1>1. IsFiniteSet(D)
  BY FS_Subset
<1>2. \A p \in D : table[p].score \in Int
  OBVIOUS
<1> QED BY <1>1, <1>2 DEF ScoresOf, IntValued

(* A user's total, only ever moved by differences, is the sum of the       *)
(* user's task scores.                                                     *)
THEOREM TotalAddsUp == Spec => []TotalIsSum
<1> DEFINE Adds(all, table) == \A u \in DOMAIN all : all[u] = SumFunction(ScoresOf(table, u))
<1>1. TotalIsSum <=> Adds(total, score)
  BY DEF TotalIsSum, ScoresOf
<1>2. TotalIsSum' <=> Adds(total', score')
  BY DEF TotalIsSum, ScoresOf
<1>3. Init => TotalIsSum
  BY DEF Init, TotalIsSum, Empty
<1>4. TypeOK /\ Finite /\ TypeOK' /\ Finite' /\ TotalIsSum /\ [Next]_vars => TotalIsSum'
  <2> SUFFICES ASSUME TypeOK, Finite, TypeOK', Finite', Adds(total, score), [Next]_vars
               PROVE  Adds(total', score')
    BY <1>1, <1>2
  <2>0. \A u : IntValued(ScoresOf(score, u)) /\ IntValued(ScoresOf(score', u))
    BY ScoresValued DEF TypeOK, Finite
  <2>1. ASSUME NEW s \in Submission, NEW v \in Vector, SubmissionStored(s, v)
        PROVE  Adds(total', score')
    <3> DEFINE p == Pair(s)
    <3>1. PICK row :
            /\ score' = Upsert(score, p, row)
            /\ total' = [total EXCEPT ![p[1]] = @ + (row.score - GetUserTaskScore(p))]
            /\ p[1] \in DOMAIN total
      <4> DEFINE base == BaseScore(RowsOf(p))'
                 new == [base |-> base, score |-> base * task[p[2]]]
      <4>1. /\ score' = Upsert(score, p, new)
            /\ total' = [total EXCEPT ![p[1]] = @ + (new.score - GetUserTaskScore(p))]
            /\ p[1] \in DOMAIN total
        BY <2>1, Stored
      <4> HIDE DEF new, p
      <4> QED BY <4>1
    <3> HIDE DEF p
    <3>2. /\ DOMAIN score' = DOMAIN score \cup {p}
          /\ score'[p] = row
          /\ \A q \in DOMAIN score : q # p => score'[q] = score[q]
      BY <3>1 DEF Upsert
    <3>3. ASSUME NEW u \in DOMAIN total, u # p[1]
          PROVE  total'[u] = SumFunction(ScoresOf(score', u))
      <4>1. ScoresOf(score', u) = ScoresOf(score, u)
        <5>1. {q \in DOMAIN score' : q[1] = u} = {q \in DOMAIN score : q[1] = u}
          BY <3>2, <3>3
        <5>2. \A q \in {r \in DOMAIN score : r[1] = u} : score'[q] = score[q]
          BY <3>2, <3>3
        <5> QED BY <5>1, <5>2 DEF ScoresOf
      <4>2. total'[u] = total[u]
        BY <3>1, <3>3
      <4> QED BY <4>1, <4>2
    <3>4. total'[p[1]] = SumFunction(ScoresOf(score', p[1]))
      <4> DEFINE u == p[1]
                 f == ScoresOf(score, u)
                 g == ScoresOf(score', u)
      <4>1. /\ DOMAIN g = DOMAIN f \cup {p}
            /\ g[p] = row.score
            /\ \A q \in DOMAIN f : q # p => g[q] = f[q]
        BY <3>2 DEF ScoresOf
      <4>2. GetUserTaskScore(p) = IF p \in DOMAIN f THEN f[p] ELSE 0
        BY DEF GetUserTaskScore, ScoresOf
      <4>3. total'[u] = total[u] + (row.score - GetUserTaskScore(p))
        BY <3>1
      <4>4. total[u] = SumFunction(f) /\ IntValued(f) /\ IntValued(g)
        BY <2>0, <3>1
      <4> HIDE DEF u, f, g
      <4>5. SumFunction(g) = SumFunction(f) + (g[p] - (IF p \in DOMAIN f THEN f[p] ELSE 0))
        BY <4>1, <4>4, SumUpdated
      <4>6. total'[u] = SumFunction(g)
        BY <4>1, <4>2, <4>3, <4>4, <4>5
      <4> QED BY <4>6 DEF u, g
    <3>5. DOMAIN total' = DOMAIN total
      BY <3>1
    <3> QED BY <3>3, <3>4, <3>5
  <2>2. ASSUME NEW w \in User, UserCreated(w)
        PROVE  Adds(total', score')
    <3>1. /\ score' = score
          /\ total' = Upsert(total, w, 0)
          /\ w \notin DOMAIN total
      BY <2>2 DEF UserCreated
    <3>2. DOMAIN ScoresOf(score, w) = {}
      BY <3>1 DEF ScoresOf, TypeOK, References
    <3>3. SumFunction(ScoresOf(score, w)) = 0
      BY <2>0, <3>2, SumTakeOut
    <3>4. /\ DOMAIN total' = DOMAIN total \cup {w}
          /\ total'[w] = 0
          /\ \A u \in DOMAIN total : total'[u] = total[u]
      BY <3>1 DEF Upsert
    <3> QED BY <3>1, <3>3, <3>4
  <2>3. CASE UNCHANGED <<total, score>>
    BY <2>3
  <2> QED
    BY <2>1, <2>2, <2>3
    DEF Next, vars, SubmissionRefused, SubmissionPanics, TaskStored
<1> QED BY <1>3, <1>4, TypeCorrect, PTL DEF Spec

(* A further submission never lowers a base score: only one that is stored *)
(* again, with other scores, can.                                          *)
THEOREM NeverLowers == Spec => NewSubmissionNeverLowers
<1> DEFINE Kept ==
      \A p \in DOMAIN score :
        score'[p].base < score[p].base =>
          \E s \in DOMAIN subs : Pair(s) = p /\ subs'[s] # subs[s]
<1>1. TypeOK /\ Finite /\ TypeOK' /\ Finite' /\ BaseIsFresh /\ [Next]_vars => [Kept]_vars
  <2> SUFFICES ASSUME TypeOK, Finite, TypeOK', Finite', BaseIsFresh, Next,
                      NEW p \in DOMAIN score, score'[p].base < score[p].base,
                      ~ \E s \in DOMAIN subs : Pair(s) = p /\ subs'[s] # subs[s]
               PROVE  FALSE
    BY Zenon
  <2>1. score[p].base \in Int
    BY DEF TypeOK
  <2>2. score'[p] # score[p]
    BY <2>1
  <2>3. PICK s \in Submission, v \in Vector : SubmissionStored(s, v)
    BY <2>2 DEF Next, vars, SubmissionPanics, SubmissionRefused, TaskStored, UserCreated
  <2>4. /\ subs' = Upsert(subs, s, v)
        /\ p = Pair(s)
        /\ score'[p].base = BaseScore(RowsOf(p))'
    <3> DEFINE q == Pair(s)
               base == BaseScore(RowsOf(q))'
    <3>1. /\ subs' = Upsert(subs, s, v)
          /\ score' = Upsert(score, q, [base |-> base, score |-> base * task[q[2]]])
      BY <2>3, Stored
    <3> HIDE DEF base
    <3>2. p = q
      BY <2>2, <3>1 DEF Upsert
    <3>3. score'[q].base = base
      BY <3>1 DEF Upsert
    <3> QED BY <3>1, <3>2, <3>3 DEF base
  <2> DEFINE old == GetAllScores(subs, p)
             new == GetAllScores(subs', p)
  <2>5. VectorValued(old) /\ VectorValued(new)
    BY RowsValued DEF TypeOK, Finite
  <2>6. DOMAIN old \subseteq DOMAIN new /\ \A r \in DOMAIN old : new[r] = old[r]
    <3>1. DOMAIN subs' = DOMAIN subs \cup {s}
      BY <2>4 DEF Upsert
    <3>2. \A r \in DOMAIN subs : Pair(r) = p => subs'[r] = subs[r]
      OBVIOUS
    <3> QED BY <3>1, <3>2 DEF GetAllScores
  <2>7. BaseScore(old) <= BaseScore(new)
    <3> HIDE DEF old, new
    <3> QED BY <2>5, <2>6, BaseScoreGrows
  <2>8. score[p].base = BaseScore(old)
    <3>1. RowsOf(p) = old
      BY DEF RowsOf, GetAllScores
    <3> QED BY <3>1 DEF BaseIsFresh
  <2>9. score'[p].base = BaseScore(new)
    <3>1. RowsOf(p)' = new
      BY DEF RowsOf, GetAllScores, Pair
    <3> QED BY <2>4, <3>1 DEF BaseScore, BySubtask
  <2>10. BaseScore(old) \in Int /\ BaseScore(new) \in Int
    BY <2>5, BaseScoreType
  <2> HIDE DEF old, new
  <2> QED BY <2>7, <2>8, <2>9, <2>10
<1> QED BY <1>1, TypeCorrect, AlwaysFresh, PTL DEF Spec, NewSubmissionNeverLowers

------------------------------------------------------------------------------
(* The marks of a dataset. *)

(* Min gives the least of a set of natural numbers.                        *)
LEMMA SmallestIs ==
  ASSUME NEW S \in SUBSET Nat, S # {}
  PROVE  Min(S) \in S /\ \A x \in S : Min(S) <= x
BY LeastNatural DEF Min

(* A finite set of integers that is not empty has a largest one.           *)
LEMMA HasLargest ==
  ASSUME NEW S \in SUBSET Int, IsFiniteSet(S), S # {}
  PROVE  \E m \in S : \A x \in S : x <= m
<1> DEFINE bounded == {s \in SUBSET S : s = {} \/ \E m \in s : \A x \in s : x <= m}
<1>1. ASSUME NEW s \in SUBSET S, \A x \in s : s \ {x} \in bounded
      PROVE  s \in bounded
  <2> SUFFICES ASSUME s # {} PROVE \E m \in s : \A x \in s : x <= m
    OBVIOUS
  <2>1. PICK y : y \in s
    OBVIOUS
  <2>2. s \ {y} = {} \/ \E m \in s \ {y} : \A x \in s \ {y} : x <= m
    BY <1>1, <2>1
  <2>3. CASE s \ {y} = {}
    <3>1. s = {y}
      BY <2>1, <2>3
    <3> QED BY <3>1
  <2>4. ASSUME NEW m \in s \ {y}, \A x \in s \ {y} : x <= m
        PROVE  \E n \in s : \A x \in s : x <= n
    <3>1. m \in Int /\ y \in Int
      BY <2>1
    <3>2. CASE y <= m
      BY <2>4, <3>1, <3>2
    <3>3. CASE m < y
      <4>1. \A x \in s : x <= y
        <5> SUFFICES ASSUME NEW x \in s PROVE x <= y
          OBVIOUS
        <5>1. x \in Int /\ (x = y \/ x <= m)
          BY <2>4
        <5> QED BY <3>1, <3>3, <5>1
      <4> QED BY <2>1, <4>1
    <3> QED BY <3>1, <3>2, <3>3
  <2> QED BY <2>2, <2>3, <2>4
<1>2. SUBSET S \subseteq bounded
  <2>1. Inherits(S, bounded)
    <3> HIDE DEF bounded
    <3> QED BY <1>1 DEF Inherits
  <2>2. IsFiniteSet(S)
    OBVIOUS
  <2> HIDE DEF bounded
  <2> QED BY <2>1, <2>2, SubsetInduction
<1>3. S \in bounded
  <2> HIDE DEF bounded
  <2> QED BY <1>2
<1> QED BY <1>3

(* f lists the elements of S from the least to the largest.                *)
Increasing(f, S) ==
  /\ f \in [1 .. Cardinality(S) -> S]
  /\ \A i, j \in 1 .. Cardinality(S) : i < j => f[i] < f[j]

(* Every finite set of integers can be listed in order: without its largest *)
(* element first, and then with it.                                        *)
LEMMA OrderExists ==
  ASSUME NEW S \in SUBSET Int, IsFiniteSet(S)
  PROVE  \E f : Increasing(f, S)
<1> DEFINE ordered == {s \in SUBSET S : \E f : Increasing(f, s)}
<1>1. ASSUME NEW s \in SUBSET S, \A x \in s : s \ {x} \in ordered
      PROVE  s \in ordered
  <2>1. CASE s = {}
    <3>1. Cardinality(s) = 0
      BY <2>1, FS_EmptySet
    <3>2. Increasing([i \in 1 .. 0 |-> i], s)
      BY <3>1 DEF Increasing
    <3> QED BY <3>2
  <2>2. CASE s # {}
    <3>0. IsFiniteSet(s)
      BY FS_Subset
    <3>1. PICK m \in s : \A x \in s : x <= m
      BY <2>2, <3>0, HasLargest
    <3>2. PICK n : n = Cardinality(s)
      OBVIOUS
    <3>3. n \in Nat /\ n # 0 /\ Cardinality(s \ {m}) = n - 1
      BY <2>2, <3>0, <3>1, <3>2, FS_CardinalityType, FS_EmptySet, FS_RemoveElement
    <3>4. PICK g : Increasing(g, s \ {m})
      BY <1>1, <3>1
    <3>5. g \in [1 .. n - 1 -> s \ {m}] /\ \A i, j \in 1 .. n - 1 : i < j => g[i] < g[j]
      BY <3>3, <3>4 DEF Increasing
    <3> DEFINE f == [i \in 1 .. n |-> IF i = n THEN m ELSE g[i]]
    <3>6. ASSUME NEW i \in 1 .. n, i # n
          PROVE  i \in 1 .. n - 1 /\ g[i] \in s \ {m}
      BY <3>3, <3>5, <3>6
    <3>7. f \in [1 .. n -> s]
      BY <3>6
    <3>8. ASSUME NEW i \in 1 .. n, NEW j \in 1 .. n, i < j
          PROVE  f[i] < f[j]
      <4>1. i # n /\ f[i] = g[i]
        BY <3>3, <3>8
      <4>2. CASE j = n
        <5>1. f[j] = m /\ g[i] \in s /\ g[i] # m /\ g[i] <= m
          BY <3>1, <3>6, <4>1, <4>2
        <5>2. g[i] \in Int /\ m \in Int
          BY <5>1
        <5> QED BY <4>1, <5>1, <5>2
      <4>3. CASE j # n
        BY <3>5, <3>6, <3>8, <4>1, <4>3
      <4> QED BY <4>2, <4>3
    <3>9. Increasing(f, s)
      <4> HIDE DEF f
      <4> QED BY <3>2, <3>7, <3>8 DEF Increasing
    <3> QED BY <3>9
  <2> QED BY <2>1, <2>2
<1>2. SUBSET S \subseteq ordered
  <2>1. Inherits(S, ordered)
    <3> HIDE DEF ordered
    <3> QED BY <1>1 DEF Inherits
  <2>2. IsFiniteSet(S)
    OBVIOUS
  <2> HIDE DEF ordered
  <2> QED BY <2>1, <2>2, SubsetInduction
<1> QED BY <1>2

(* InOrder lists every testcase.                                           *)
LEMMA OrderIs ==
  ASSUME NEW S \in SUBSET Int, IsFiniteSet(S)
  PROVE  /\ InOrder(S) \in [1 .. Cardinality(S) -> S]
         /\ \A c \in S : \E i \in 1 .. Cardinality(S) : InOrder(S)[i] = c
<1> DEFINE n == Cardinality(S)
           f == InOrder(S)
<1>0. n \in Nat
  BY FS_CardinalityType
<1>1. f \in [1 .. n -> S] /\ \A i, j \in DOMAIN f : i < j => f[i] < f[j]
  <2>1. \E g \in [1 .. n -> S] : \A i, j \in DOMAIN g : i < j => g[i] < g[j]
    <3>1. PICK g : Increasing(g, S)
      BY OrderExists
    <3> QED BY <3>1 DEF Increasing
  <2> QED BY <2>1 DEF InOrder
<1> HIDE DEF f
<1>2. f \in Injection(1 .. n, S)
  <2> SUFFICES ASSUME NEW i \in 1 .. n, NEW j \in 1 .. n, f[i] = f[j]
               PROVE  i = j
    BY <1>1 DEF Injection, IsInjective
  <2>1. f[i] \in Int /\ f[j] \in Int
    BY <1>1
  <2>2. ~(i < j) /\ ~(j < i)
    BY <1>1, <2>1
  <2> QED BY <1>0, <2>2
<1>3. Cardinality(1 .. n) = n
  BY <1>0, FS_Interval
<1>4. f \in Surjection(1 .. n, S)
  BY <1>2, <1>3, FS_Injection
<1> QED BY <1>1, <1>4 DEF Surjection, f

(* A sum of terms that are not larger is not larger, and equal only if every *)
(* term is.                                                                *)
LEMMA SumAtMost ==
  ASSUME NEW f, IntValued(f), NEW g, IntValued(g), DOMAIN f = DOMAIN g,
         \A x \in DOMAIN f : f[x] <= g[x]
  PROVE  /\ SumFunction(f) <= SumFunction(g)
         /\ SumFunction(f) = SumFunction(g) <=> \A x \in DOMAIN f : f[x] = g[x]
<1>1. SumFunction(f) <= SumFunction(g) /\ SumFunction(f) \in Int /\ SumFunction(g) \in Int
  BY SumGrows, SumTakeOut
<1>2. ASSUME \A x \in DOMAIN f : f[x] = g[x]
      PROVE  SumFunction(f) = SumFunction(g)
  <2>1. \A x \in DOMAIN g : g[x] <= f[x]
    BY <1>2 DEF IntValued
  <2>2. SumFunction(g) <= SumFunction(f)
    BY <2>1, SumGrows
  <2> QED BY <1>1, <2>2
<1>3. ASSUME NEW x \in DOMAIN f, f[x] # g[x]
      PROVE  SumFunction(f) # SumFunction(g)
  <2>1. /\ SumFunction(f) = f[x] + SumFunction(Without(f, x))
        /\ SumFunction(g) = g[x] + SumFunction(Without(g, x))
    BY SumTakeOut
  <2>2. /\ IntValued(Without(f, x)) /\ IntValued(Without(g, x))
        /\ DOMAIN Without(f, x) = DOMAIN Without(g, x)
        /\ \A y \in DOMAIN Without(f, x) : Without(f, x)[y] <= Without(g, x)[y]
    BY WithoutValued DEF Without
  <2>3. /\ SumFunction(Without(f, x)) <= SumFunction(Without(g, x))
        /\ SumFunction(Without(f, x)) \in Int /\ SumFunction(Without(g, x)) \in Int
    BY <2>2, SumGrows, SumTakeOut
  <2>4. f[x] \in Int /\ g[x] \in Int /\ f[x] < g[x]
    BY <1>3 DEF IntValued
  <2> QED BY <2>1, <2>3, <2>4
<1> QED BY <1>1, <1>2, <1>3

(* A sum of equal terms is a product: GetTask multiplies where             *)
(* FillSubmissionResultsScoreTypeSum adds up.                              *)
LEMMA SumConstant ==
  ASSUME NEW f, IntValued(f), NEW c \in Int, \A x \in DOMAIN f : f[x] = c
  PROVE  SumFunction(f) = Cardinality(DOMAIN f) * c
<1>1. PICK h : IsSum(h, f) /\ SumFunction(f) = h[DOMAIN f]
  BY SumFold
<1>2. IsFiniteSet(DOMAIN f)
  BY DEF IntValued
<1> DEFINE product == {s \in SUBSET DOMAIN f : h[s] = Cardinality(s) * c}
<1>3. ASSUME NEW s \in SUBSET DOMAIN f, \A x \in s : s \ {x} \in product
      PROVE  s \in product
  <2>0. IsFiniteSet(s)
    BY <1>2, FS_Subset
  <2>1. CASE s = {}
    BY <1>1, <2>1, FS_EmptySet DEF IsSum
  <2>2. CASE s # {}
    <3>1. PICK x : x \in s
      BY <2>2
    <3>2. PICK n \in Nat : n = Cardinality(s \ {x}) /\ Cardinality(s) = n + 1
      <4>1. Cardinality(s \ {x}) = Cardinality(s) - 1 /\ Cardinality(s) \in Nat /\ Cardinality(s \ {x}) \in Nat
        BY <2>0, <3>1, FS_RemoveElement, FS_CardinalityType
      <4> QED BY <4>1
    <3>3. h[s] = c + h[s \ {x}]
      BY <1>1, <3>1 DEF IsSum
    <3>4. h[s \ {x}] = n * c
      BY <1>3, <3>1, <3>2
    <3>5. c + n * c = (n + 1) * c
      OBVIOUS
    <3> QED BY <3>2, <3>3, <3>4, <3>5
  <2> QED BY <2>1, <2>2
<1>4. SUBSET DOMAIN f \subseteq product
  <2>1. Inherits(DOMAIN f, product)
    <3> HIDE DEF product
    <3> QED BY <1>3 DEF Inherits
  <2> HIDE DEF product
  <2> QED BY <1>2, <2>1, SubsetInduction
<1>5. DOMAIN f \in product
  <2> HIDE DEF product
  <2> QED BY <1>4
<1>6. h[DOMAIN f] = Cardinality(DOMAIN f) * c
  BY <1>5
<1> QED BY <1>1, <1>6

(* Points times a part of Full. *)
LEMMA PartOf ==
  ASSUME NEW p \in Nat \ {0}, NEW a \in Nat, NEW b \in Nat, a <= b
  PROVE  /\ p * a \in Nat /\ p * b \in Nat /\ p * a <= p * b
         /\ p * a = p * b <=> a = b
<1>1. PICK d \in Nat : b = a + d
  <2>1. b - a \in Nat /\ b = a + (b - a)
    OBVIOUS
  <2> QED BY <2>1
<1>2. p * b = p * a + p * d
  BY <1>1
<1>3. p * a \in Nat /\ p * d \in Nat /\ (d = 0 => p * d = 0)
  OBVIOUS
<1>4. d # 0 => p * d >= 1
  OBVIOUS
<1> QED BY <1>1, <1>2, <1>3, <1>4

(* Score type Sum: a subtask per testcase.                                 *)
LEMMA SummedMarks ==
  ASSUME NEW d, WellFormed(d), d.type = "Sum", NEW outcome \in Outcomes(d)
  PROVE  MarksRight(d, outcome)
<1> DEFINE n == Cardinality(d.testcases)
           order == InOrder(d.testcases)
           m == d.multiplier
           sub == Subtasks(d, outcome)
           f == Scores(sub)
           g == MaxScores(sub)
<1>1. /\ n \in Nat /\ order \in [1 .. n -> d.testcases]
      /\ \A c \in d.testcases : \E i \in 1 .. n : order[i] = c
      /\ m \in Nat \ {0} /\ IsFiniteSet(1 .. n) /\ Cardinality(1 .. n) = n
  <2>1. IsFiniteSet(d.testcases) /\ d.testcases \subseteq Int /\ m \in Nat \ {0}
    BY DEF WellFormed
  <2>2. n \in Nat
    BY <2>1, FS_CardinalityType
  <2>3. order \in [1 .. n -> d.testcases] /\ \A c \in d.testcases : \E i \in 1 .. n : order[i] = c
    BY <2>1, OrderIs
  <2>4. IsFiniteSet(1 .. n) /\ Cardinality(1 .. n) = n
    BY <2>2, FS_Interval
  <2> QED BY <2>1, <2>2, <2>3, <2>4
<1>2. outcome \in [d.testcases -> 0 .. Full] /\ Full \in Nat \ {0}
  BY FullAssumption DEF Outcomes
<1>3. /\ DOMAIN f = 1 .. n /\ DOMAIN g = 1 .. n
      /\ \A i \in 1 .. n : f[i] = outcome[order[i]] * m /\ g[i] = Full * m
  BY <1>1 DEF Subtasks, SumSubtasks, Scores, MaxScores
<1>4. Result(d, outcome).score = SumFunction(f) /\ Result(d, outcome).max = SumFunction(g)
  BY DEF Result
<1> HIDE DEF f, g, n, order, m
<1>5. ASSUME NEW i \in 1 .. n
      PROVE  /\ f[i] \in Nat /\ g[i] \in Nat /\ f[i] <= g[i]
             /\ f[i] = g[i] <=> outcome[order[i]] = Full
  <2>1. PICK a : a = outcome[order[i]]
    OBVIOUS
  <2>2. a \in Nat /\ a <= Full /\ m \in Nat \ {0} /\ Full \in Nat
    BY <1>1, <1>2, <2>1
  <2>3. f[i] = m * a /\ g[i] = m * Full
    BY <1>3, <2>1, <2>2
  <2>4. m * a \in Nat /\ m * Full \in Nat /\ m * a <= m * Full /\ (m * a = m * Full <=> a = Full)
    BY <2>2, PartOf
  <2> QED BY <2>1, <2>3, <2>4
<1>6. IntValued(f) /\ IntValued(g)
  BY <1>1, <1>3, <1>5 DEF IntValued
<1>7. /\ SumFunction(f) <= SumFunction(g)
      /\ SumFunction(f) = SumFunction(g) <=> \A i \in 1 .. n : f[i] = g[i]
  <2>1. DOMAIN f = DOMAIN g /\ \A x \in DOMAIN f : f[x] <= g[x]
    BY <1>3, <1>5
  <2>2. /\ SumFunction(f) <= SumFunction(g)
        /\ SumFunction(f) = SumFunction(g) <=> \A x \in DOMAIN f : f[x] = g[x]
    BY <1>6, <2>1, SumAtMost
  <2> QED BY <1>3, <2>2
<1>8. (\A i \in 1 .. n : f[i] = g[i]) <=> \A c \in d.testcases : outcome[c] = Full
  <2>1. \A i \in 1 .. n : order[i] \in d.testcases
    BY <1>1
  <2> QED BY <1>1, <1>5, <2>1
<1>9. SumFunction(g) = TaskMaxScore(d)
  <2>1. Full * m \in Int /\ SumFunction(g) = n * (Full * m)
    <3>1. Full * m \in Int
      BY <1>1, <1>2
    <3>2. \A i \in DOMAIN g : g[i] = Full * m
      BY <1>3
    <3>3. SumFunction(g) = Cardinality(DOMAIN g) * (Full * m)
      BY <1>6, <3>1, <3>2, SumConstant
    <3> QED BY <1>1, <1>3, <3>1, <3>3
  <2>2. TaskMaxScore(d) = m * n * Full
    BY DEF TaskMaxScore, m, n
  <2>3. n * (Full * m) = m * n * Full
    BY <1>1, <1>2
  <2> QED BY <2>1, <2>2, <2>3
<1> QED BY <1>4, <1>7, <1>8, <1>9 DEF MarksRight

(* The fraction of a group is full exactly if every testcase of it is. *)
LEMMA FractionIs ==
  ASSUME NEW S, S # {}, NEW outcome, \A c \in S : outcome[c] \in 0 .. Full, NEW g, g.testcases = S
  PROVE  /\ Fraction(g, outcome) \in 0 .. Full
         /\ Fraction(g, outcome) = Full <=> \A c \in S : outcome[c] = Full
<1> DEFINE values == {outcome[c] : c \in S}
<1>0. Full \in Nat
  BY FullAssumption
<1>1. values \in SUBSET Nat /\ values # {} /\ \A v \in values : v <= Full
  BY <1>0
<1>2. Fraction(g, outcome) = Min(values)
  BY DEF Fraction
<1>3. Min(values) \in values /\ \A v \in values : Min(values) <= v
  <2> HIDE DEF values
  <2> QED BY <1>1, SmallestIs
<1>4. Min(values) \in 0 .. Full
  BY <1>0, <1>1, <1>3
<1>5. ASSUME Min(values) = Full, NEW c \in S
      PROVE  outcome[c] = Full
  <2>1. outcome[c] \in 0 .. Full /\ outcome[c] \in values
    OBVIOUS
  <2>2. Full <= outcome[c]
    <3> HIDE DEF values
    <3> QED BY <1>3, <1>5, <2>1
  <2> QED BY <1>0, <2>1, <2>2
<1>6. ASSUME \A c \in S : outcome[c] = Full
      PROVE  Min(values) = Full
  BY <1>3, <1>6
<1> QED BY <1>2, <1>4, <1>5, <1>6

(* Any other type: every group counts its worst testcase, and no testcase is *)
(* left out of all groups.                                                 *)
LEMMA GroupedMarks ==
  ASSUME NEW d, WellFormed(d), d.type # "Sum", NEW outcome \in Outcomes(d)
  PROVE  MarksRight(d, outcome)
<1> DEFINE I == DOMAIN d.groups
           G(i) == d.groups[i]
           sub == Subtasks(d, outcome)
           f == Scores(sub)
           g == MaxScores(sub)
<1>1. /\ IsFiniteSet(I)
      /\ \A i \in I : /\ G(i).max \in Nat \ {0}
                      /\ G(i).testcases \subseteq d.testcases /\ G(i).testcases # {}
      /\ d.testcases = UNION {G(i).testcases : i \in I}
  <2>1. /\ d.groups \in Seq([max : Nat \ {0}, testcases : (SUBSET d.testcases) \ {{}}])
        /\ d.testcases = UNION {G(i).testcases : i \in I}
    BY DEF WellFormed
  <2>2. I = 1 .. Len(d.groups) /\ Len(d.groups) \in Nat
    BY <2>1
  <2>3. IsFiniteSet(I)
    BY <2>2, FS_Interval
  <2>4. PICK groups : groups = [max : Nat \ {0}, testcases : (SUBSET d.testcases) \ {{}}]
    OBVIOUS
  <2>5. \A i \in I : G(i) \in groups
    <3>1. d.groups \in Seq(groups)
      BY <2>1, <2>4
    <3> QED BY <3>1
  <2>6. \A i \in I : /\ G(i).max \in Nat \ {0}
                   /\ G(i).testcases \subseteq d.testcases /\ G(i).testcases # {}
    BY <2>4, <2>5
  <2> QED BY <2>1, <2>3, <2>6
<1>2. outcome \in [d.testcases -> 0 .. Full] /\ Full \in Nat \ {0}
  BY FullAssumption DEF Outcomes
<1>3. /\ DOMAIN f = I /\ DOMAIN g = I
      /\ \A i \in I : f[i] = G(i).max * Fraction(G(i), outcome) /\ g[i] = G(i).max * Full
  BY DEF Subtasks, GroupedSubtasks, Scores, MaxScores
<1>4. Result(d, outcome).score = SumFunction(f) /\ Result(d, outcome).max = SumFunction(g)
  BY DEF Result
<1>5. TaskMaxScore(d) = SumFunction(g)
  BY DEF TaskMaxScore, Subtasks, GroupedSubtasks, MaxScores
<1> HIDE DEF f, g, I
<1>6. ASSUME NEW i \in I
      PROVE  /\ f[i] \in Nat /\ g[i] \in Nat /\ f[i] <= g[i]
             /\ f[i] = g[i] <=> \A c \in G(i).testcases : outcome[c] = Full
  <2>1. PICK S : S = G(i).testcases
    OBVIOUS
  <2>2. S # {} /\ \A c \in S : outcome[c] \in 0 .. Full
    BY <1>1, <1>2, <2>1
  <2> PICK a : a = Fraction(G(i), outcome)
    OBVIOUS
  <2> PICK p : p = G(i).max
    OBVIOUS
  <2>3. a \in 0 .. Full /\ (a = Full <=> \A c \in S : outcome[c] = Full)
    BY <2>1, <2>2, FractionIs
  <2>4. p \in Nat \ {0} /\ Full \in Nat /\ a \in Nat /\ a <= Full
    BY <1>1, <1>2, <2>3
  <2>5. f[i] = p * a /\ g[i] = p * Full
    BY <1>3
  <2> QED BY <2>1, <2>3, <2>4, <2>5, PartOf
<1>7. IntValued(f) /\ IntValued(g)
  BY <1>1, <1>3, <1>6 DEF IntValued
<1>8. /\ SumFunction(f) <= SumFunction(g)
      /\ SumFunction(f) = SumFunction(g) <=> \A i \in I : f[i] = g[i]
  <2>1. DOMAIN f = DOMAIN g /\ \A x \in DOMAIN f : f[x] <= g[x]
    BY <1>3, <1>6
  <2> QED BY <1>3, <1>7, <2>1, SumAtMost
<1>9. (\A i \in I : f[i] = g[i]) <=> \A c \in d.testcases : outcome[c] = Full
  BY <1>1, <1>6
<1> QED BY <1>4, <1>5, <1>8, <1>9 DEF MarksRight

(* GetTask and GetSubmission read the same maximum for a dataset, from     *)
(* different tables, no result exceeds it, and a result has full marks     *)
(* exactly if every testcase is right.                                     *)
THEOREM MarksOfDatasets ==
  \A d \in Dataset : \A outcome \in Outcomes(d) : MarksRight(d, outcome)
<1> SUFFICES ASSUME NEW d \in Dataset, NEW outcome \in Outcomes(d)
             PROVE  MarksRight(d, outcome)
  OBVIOUS
<1>1. WellFormed(d)
  BY DatasetAssumption
<1> QED BY <1>1, SummedMarks, GroupedMarks

(* So every stored submission is measured against the maximum of its task. *)
THEOREM MarksAlwaysAgree == Spec => []MarksAgree
<1>1. MarksAgree
  BY MarksOfDatasets DEF MarksAgree
<1> QED BY <1>1, PTL

(* The dataset that the loader makes of the names of the testcases and the *)
(* subtasks it has grouped them into.                                      *)
LoadedDataset(names, groups) ==
  [type |-> "GroupMin", testcases |-> DOMAIN names, groups |-> groups]

(* What a task's directory holds: finitely many testcases whose names have *)
(* digits, and subtasks that are worth points.                             *)
Loadable(names, scores) ==
  /\ IsFiniteSet(DOMAIN names)
  /\ \A c \in DOMAIN names : names[c] \in Seq(0 .. 9) \ {<<>>}
  /\ IsFiniteSet(DOMAIN scores)
  /\ \A i \in DOMAIN scores : scores[i] \in Nat \ {0}

(* What the loader produces is well formed, whatever the names of the      *)
(* testcases, the dependencies, and the order in which the subtasks come:  *)
(* none is without testcases, and no testcase is left out.                 *)
LEMMA LoaderMakesDatasets ==
  ASSUME NEW names, NEW scores, Loadable(names, scores), NEW dependencies,
         NEW groups \in ScoreParameters(names, scores, dependencies)
  PROVE  WellFormed(LoadedDataset(names, groups))
<1> DEFINE subtasks == UNION {SubtasksNamed(names, c) : c \in DOMAIN names}
           n == Cardinality(subtasks)
           Group(order, k) == [max |-> scores[order[k]], testcases |-> Cases(names, dependencies, order[k])]
<1>1. /\ subtasks \subseteq DOMAIN scores
      /\ \E order \in SetToSeqs(subtasks) : groups = [k \in DOMAIN order |-> Group(order, k)]
  <2> HIDE DEF subtasks
  <2>1. subtasks \subseteq DOMAIN scores
    BY DEF ScoreParameters, subtasks
  <2> QED BY <2>1 DEF ScoreParameters, subtasks
<1>2. PICK order \in SetToSeqs(subtasks) : groups = [k \in DOMAIN order |-> Group(order, k)]
  BY <1>1
<1>3. IsFiniteSet(subtasks) /\ n \in Nat
  BY <1>1, FS_Subset, FS_CardinalityType DEF Loadable
<1> HIDE DEF subtasks
<1>4. /\ order \in [1 .. n -> subtasks]
      /\ \A i \in subtasks : \E k \in 1 .. n : order[k] = i
  <2>1. order \in [1 .. n -> subtasks] /\ \A i, j \in 1 .. n : i # j => order[i] # order[j]
    BY DEF SetToSeqs
  <2>2. order \in Injection(1 .. n, subtasks)
    BY <2>1 DEF Injection, IsInjective
  <2>3. Cardinality(1 .. n) = n
    BY <1>3, FS_Interval
  <2>4. order \in Surjection(1 .. n, subtasks)
    BY <1>3, <2>2, <2>3, FS_Injection
  <2> QED BY <2>1, <2>4 DEF Surjection
<1>5. ASSUME NEW c \in DOMAIN names, NEW i \in SubtasksNamed(names, c)
      PROVE  c \in Cases(names, dependencies, i)
  BY DEF Cases
<1>6. ASSUME NEW c \in DOMAIN names
      PROVE  SubtasksNamed(names, c) # {} /\ SubtasksNamed(names, c) \subseteq subtasks
  <2>1. names[c] \in Seq(0 .. 9) /\ names[c] # <<>>
    BY DEF Loadable
  <2>2. 1 \in DOMAIN names[c]
    BY <2>1
  <2>3. Range(names[c]) # {}
    BY <2>2 DEF Range
  <2> QED BY <2>3 DEF SubtasksNamed, subtasks
<1>7. \A i : Cases(names, dependencies, i) \subseteq DOMAIN names
  BY DEF Cases
<1>8. ASSUME NEW k \in 1 .. n
      PROVE  /\ groups[k].max = scores[order[k]]
             /\ groups[k].testcases = Cases(names, dependencies, order[k])
             /\ groups[k] = [max |-> groups[k].max, testcases |-> groups[k].testcases]
             /\ groups[k].max \in Nat \ {0}
             /\ groups[k].testcases \in (SUBSET DOMAIN names) \ {{}}
  <2>1. order[k] \in subtasks
    BY <1>4
  <2>2. \E c \in DOMAIN names : order[k] \in SubtasksNamed(names, c)
    BY <2>1 DEF subtasks
  <2>3. groups[k] = Group(order, k)
    BY <1>2, <1>4
  <2>4. /\ groups[k].max = scores[order[k]]
        /\ groups[k].testcases = Cases(names, dependencies, order[k])
        /\ groups[k] = [max |-> groups[k].max, testcases |-> groups[k].testcases]
    BY <2>3
  <2>5. scores[order[k]] \in Nat \ {0}
    BY <1>1, <2>1 DEF Loadable
  <2>6. /\ Cases(names, dependencies, order[k]) \subseteq DOMAIN names
        /\ Cases(names, dependencies, order[k]) # {}
    BY <1>5, <1>7, <2>2
  <2> QED BY <2>4, <2>5, <2>6
<1>9. groups \in Seq([max : Nat \ {0}, testcases : (SUBSET DOMAIN names) \ {{}}])
  <2>1. PICK R : R = [max : Nat \ {0}, testcases : (SUBSET DOMAIN names) \ {{}}]
    OBVIOUS
  <2>2. ASSUME NEW k \in 1 .. n
        PROVE  groups[k] \in R
    <3>1. PICK p : p = groups[k].max
      OBVIOUS
    <3>2. PICK t : t = groups[k].testcases
      OBVIOUS
    <3>3. p \in Nat \ {0} /\ t \in (SUBSET DOMAIN names) \ {{}} /\ groups[k] = [max |-> p, testcases |-> t]
      BY <1>8, <3>1, <3>2
    <3>4. [max |-> p, testcases |-> t] \in R
      BY <2>1, <3>3
    <3> QED BY <3>3, <3>4
  <2>3. groups = [k \in 1 .. n |-> groups[k]]
    BY <1>2, <1>4
  <2>4. groups \in Seq(R)
    BY <1>3, <2>2, <2>3
  <2> QED BY <2>1, <2>4
<1>10. DOMAIN names = UNION {groups[k].testcases : k \in DOMAIN groups}
  <2>1. DOMAIN groups = 1 .. n
    BY <1>2, <1>4
  <2>2. ASSUME NEW c \in DOMAIN names
        PROVE  \E k \in 1 .. n : c \in groups[k].testcases
    <3>1. PICK i \in SubtasksNamed(names, c) : i \in subtasks
      BY <1>6
    <3>2. PICK k \in 1 .. n : order[k] = i
      BY <1>4, <3>1
    <3>3. c \in Cases(names, dependencies, i)
      BY <1>5, <3>1
    <3>4. groups[k].testcases = Cases(names, dependencies, i)
      BY <1>8, <3>2
    <3> QED BY <3>3, <3>4
  <2>3. ASSUME NEW k \in 1 .. n
        PROVE  groups[k].testcases \subseteq DOMAIN names
    <3>1. PICK t : t = groups[k].testcases
      OBVIOUS
    <3>2. t \subseteq DOMAIN names
      BY <1>8, <3>1
    <3> QED BY <3>1, <3>2
  <2> QED BY <2>1, <2>2, <2>3
<1> QED BY <1>9, <1>10 DEF WellFormed, LoadedDataset, Loadable

(* A task that comes from the loader has marks that agree, in whichever    *)
(* order a run of the loader lists its subtasks.                           *)
THEOREM LoadedMarksAgree ==
  ASSUME NEW names, NEW scores, Loadable(names, scores), NEW dependencies,
         NEW groups \in ScoreParameters(names, scores, dependencies),
         NEW outcome \in Outcomes(LoadedDataset(names, groups))
  PROVE  MarksRight(LoadedDataset(names, groups), outcome)
<1>1. LoadedDataset(names, groups).type # "Sum"
  BY DEF LoadedDataset
<1> QED BY <1>1, LoaderMakesDatasets, GroupedMarks

==============================================================================
