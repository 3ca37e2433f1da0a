------------------------------ MODULE SumTheorems ------------------------------
(***************************************************************************)
(* What SumFunctionOnSet(w, S) of the community modules computes for any   *)
(* finite set S and natural weights w: the transfer's coin selection and   *)
(* the totals of the synchronised assets are such sums.                    *)
(*                                                                         *)
(* The sum is defined by recursion over the subsets of S.  Induction over  *)
(* them is used in the form "a non-empty collection of finite sets has a   *)
(* minimal one", applied to the sets for which a fact does not hold.       *)
(***************************************************************************)
EXTENDS Functions, FiniteSetTheorems, TLAPS

-----------------------------------------------------------------------------
(* Induction. *)

\* What holds of the empty set, and of a set with one element more, holds of
\* every subset of a finite set.
LEMMA SubsetInduction ==
  ASSUME NEW S, IsFiniteSet(S), NEW Good,
         {} \in Good,
         \A T \in SUBSET S : \A x \in S \ T : T \in Good => T \cup {x} \in Good
  PROVE  \A T \in SUBSET S : T \in Good
<1> DEFINE Bad == {T \in SUBSET S : T \notin Good}
<1> SUFFICES ASSUME Bad # {} PROVE FALSE
  OBVIOUS
<1>1. Bad \subseteq FiniteSubsetsOf(S)
  BY FS_FiniteSubsetsOfFinite
<1>2. IsWellFoundedOn(StrictSubsetOrdering(S), FiniteSubsetsOf(S))
  BY FS_StrictSubsetOrderingWellFounded
<1> HIDE DEF Bad
<1>3. PICK T \in Bad : \A U \in Bad : ~(<<U, T>> \in StrictSubsetOrdering(S))
  BY <1>1, <1>2, WFMin
<1>4. T \subseteq S /\ T \notin Good
  BY DEF Bad
<1>5. PICK x \in T : TRUE
  BY <1>4
<1>6. T \ {x} \in Good
  <2>1. <<T \ {x}, T>> \in StrictSubsetOrdering(S)
    BY <1>4 DEF StrictSubsetOrdering
  <2>2. T \ {x} \notin Bad
    BY <1>3, <2>1
  <2> QED BY <1>4, <2>2 DEF Bad
<1>7. (T \ {x}) \cup {x} \in Good
  BY <1>4, <1>6
<1>8. (T \ {x}) \cup {x} = T
  OBVIOUS
<1> QED BY <1>4, <1>7, <1>8

\* Every non-empty set of natural numbers has a least one.
LEMMA LeastNumber ==
  ASSUME NEW T \in SUBSET Nat, T # {}
  PROVE  \E n \in T : \A m \in T : n <= m
<1> DEFINE Less == OpToRel(<, Nat)
<1>1. IsWellFoundedOn(Less, Nat)
  BY NatLessThanWellFounded
<1>2. \A m, n \in Nat : m < n => <<m, n>> \in Less
  BY DEF OpToRel
<1> HIDE DEF Less
<1>3. PICK n \in T : \A m \in T : ~(<<m, n>> \in Less)
  BY <1>1, WFMin
<1>4. ASSUME NEW m \in T PROVE n <= m
  <2>1. m \in Nat /\ n \in Nat /\ ~(m < n)
    BY <1>2, <1>3
  <2> QED BY <2>1
<1> QED BY <1>4

\* Of elements with natural weights, one is the lightest.
LEMMA Lightest ==
  ASSUME NEW S, S # {}, NEW w, \A x \in S : w[x] \in Nat
  PROVE  \E x \in S : \A y \in S : w[x] <= w[y]
<1> DEFINE weights == {w[x] : x \in S}
<1>1. weights \in SUBSET Nat /\ weights # {}
  OBVIOUS
<1> HIDE DEF weights
<1>2. PICK n \in weights : \A m \in weights : n <= m
  BY <1>1, LeastNumber
<1> QED BY <1>2 DEF weights

\* The natural numbers are the least set that holds zero and every successor.
LEMMA CountingInduction ==
  ASSUME NEW Good, 0 \in Good, \A n \in Nat : n \in Good => n + 1 \in Good
  PROVE  \A n \in Nat : n \in Good
<1> DEFINE Bad == {n \in Nat : n \notin Good}
<1> SUFFICES ASSUME Bad # {} PROVE FALSE
  OBVIOUS
<1>1. PICK n \in Bad : \A m \in Bad : n <= m
  <2>1. Bad \in SUBSET Nat
    OBVIOUS
  <2> HIDE DEF Bad
  <2> QED BY <2>1, LeastNumber
<1>2. n \in Nat /\ n - 1 \in Nat /\ ~(n <= n - 1)
  BY <1>1
<1>3. n - 1 \in Good
  BY <1>1, <1>2
<1>4. (n - 1) + 1 = n
  BY <1>2
<1> QED BY <1>1, <1>2, <1>3, <1>4

-----------------------------------------------------------------------------
(* The recursion that the sum is defined by, and that a function solves it. *)

First(s) == CHOOSE x \in s : TRUE
Solves(sum, w, S) ==
  sum = [s \in SUBSET S |-> IF s = {} THEN 0 ELSE w[First(s)] + sum[s \ {First(s)}]]
Totals(w, S) == CHOOSE sum : Solves(sum, w, S)

LEMMA SumIsTotal ==
  ASSUME NEW w, NEW S
  PROVE  SumFunctionOnSet(w, S) = Totals(w, S)[S]
  BY Zenon DEF SumFunctionOnSet, FoldFunctionOnSet, MapThenFoldSet, Totals, Solves, First

LEMMA FirstIsElement == ASSUME NEW s, s # {} PROVE First(s) \in s
  BY DEF First

LEMMA WithoutFirst ==
  ASSUME NEW s, IsFiniteSet(s), NEW n \in Nat, Cardinality(s) = n + 1
  PROVE  s # {} /\ First(s) \in s /\ Cardinality(s \ {First(s)}) = n
<1>1. s # {}
  <2>1. Cardinality({}) = 0
    BY FS_EmptySet
  <2> QED BY <2>1
<1>2. First(s) \in s
  BY <1>1, FirstIsElement
<1>3. Cardinality(s \ {First(s)}) = Cardinality(s) - 1
  BY <1>2, FS_RemoveElement
<1> QED BY <1>1, <1>2, <1>3

\* By induction on n there is a function that solves the recursion for the sets
\* of at most n elements, hence one that solves it for all.
LEMMA TotalsExist ==
  ASSUME NEW S, IsFiniteSet(S), NEW w, \A x \in S : w[x] \in Nat
  PROVE  \E sum \in [SUBSET S -> Nat] : Solves(sum, w, S)
<1> DEFINE Value(sum, s) == IF s = {} THEN 0 ELSE w[First(s)] + sum[s \ {First(s)}]
           Upto(sum, n)  == \A s \in SUBSET S : Cardinality(s) <= n => sum[s] = Value(sum, s)
           Good == {n \in Nat : \E sum \in [SUBSET S -> Nat] : Upto(sum, n)}
<1>1. \A s \in SUBSET S : IsFiniteSet(s) /\ Cardinality(s) \in Nat /\ Cardinality(s) <= Cardinality(S)
  BY FS_Subset, FS_CardinalityType
<1>2. ASSUME NEW s \in SUBSET S, s # {}
      PROVE  /\ First(s) \in s /\ s \ {First(s)} \in SUBSET S
             /\ Cardinality(s \ {First(s)}) = Cardinality(s) - 1
  BY <1>1, <1>2, FirstIsElement, FS_RemoveElement
<1>3. 0 \in Good
  <2> DEFINE zero == [s \in SUBSET S |-> 0]
  <2>1. Upto(zero, 0)
    BY <1>1, FS_EmptySet
  <2> QED BY <2>1
<1>4. ASSUME NEW n \in Nat, n \in Good PROVE n + 1 \in Good
  <2>1. PICK sum \in [SUBSET S -> Nat] : Upto(sum, n)
    BY <1>4
  <2> DEFINE more == [s \in SUBSET S |-> IF Cardinality(s) <= n THEN sum[s] ELSE Value(sum, s)]
  <2>2. more \in [SUBSET S -> Nat]
    <3> SUFFICES ASSUME NEW s \in SUBSET S PROVE Value(sum, s) \in Nat
      OBVIOUS
    <3> QED BY <1>2
  <2>3. ASSUME NEW s \in SUBSET S, Cardinality(s) <= n + 1 PROVE more[s] = Value(more, s)
    <3>1. more[s] = Value(sum, s)
      BY <2>1
    <3>2. CASE s = {}
      BY <3>1, <3>2
    <3>3. CASE s # {}
      <4>1. Cardinality(s \ {First(s)}) <= n /\ s \ {First(s)} \in SUBSET S
        BY <1>1, <1>2, <2>3, <3>3
      <4>2. more[s \ {First(s)}] = sum[s \ {First(s)}]
        BY <4>1
      <4> HIDE DEF more
      <4> QED BY <3>1, <3>3, <4>2
    <3> QED BY <3>2, <3>3
  <2> HIDE DEF more, Value
  <2> QED BY <2>2, <2>3
<1>5. PICK sum \in [SUBSET S -> Nat] : Upto(sum, Cardinality(S))
  <2> HIDE DEF Good
  <2>1. Cardinality(S) \in Good
    BY <1>3, <1>4, CountingInduction, FS_CardinalityType
  <2> QED BY <2>1 DEF Good
<1>6. \A s \in SUBSET S : sum[s] = Value(sum, s)
  BY <1>1, <1>5
<1>7. Solves(sum, w, S)
  BY <1>6 DEF Solves
<1> QED BY <1>7


LEMMA TotalsSolve ==
  ASSUME NEW S, IsFiniteSet(S), NEW w, \A x \in S : w[x] \in Nat
  PROVE  \A s \in SUBSET S :
           Totals(w, S)[s] = IF s = {} THEN 0 ELSE w[First(s)] + Totals(w, S)[s \ {First(s)}]
<1>1. Solves(Totals(w, S), w, S)
  BY TotalsExist DEF Totals
<1> QED BY <1>1 DEF Solves

LEMMA TotalsStep ==
  ASSUME NEW S, IsFiniteSet(S), NEW w, \A x \in S : w[x] \in Nat, NEW s \in SUBSET S, s # {}
  PROVE  Totals(w, S)[s] = w[First(s)] + Totals(w, S)[s \ {First(s)}]
  BY TotalsSolve

\* The values for the subsets of T are the same in every set that contains T, and
\* depend on the weights of T's elements only.
LEMMA TotalsAgree ==
  ASSUME NEW S, IsFiniteSet(S), NEW w, \A x \in S : w[x] \in Nat,
         NEW T \in SUBSET S, NEW v, \A x \in T : v[x] = w[x]
  PROVE  Totals(v, T)[T] = Totals(w, S)[T]
<1> DEFINE Good == {n \in Nat : \A s \in SUBSET T :
                      Cardinality(s) = n => Totals(v, T)[s] = Totals(w, S)[s]}
<1>1. IsFiniteSet(T) /\ \A x \in T : v[x] \in Nat
  BY FS_Subset
<1>2. \A s \in SUBSET T : IsFiniteSet(s) /\ Cardinality(s) \in Nat
  BY <1>1, FS_Subset, FS_CardinalityType
<1>3. 0 \in Good
  <2> SUFFICES ASSUME NEW s \in SUBSET T, Cardinality(s) = 0
               PROVE  Totals(v, T)[s] = Totals(w, S)[s]
    OBVIOUS
  <2>1. s = {}
    BY <1>2, FS_EmptySet
  <2> QED BY <1>1, <2>1, TotalsSolve
<1>4. ASSUME NEW n \in Nat, n \in Good PROVE n + 1 \in Good
  <2> SUFFICES ASSUME NEW s \in SUBSET T, Cardinality(s) = n + 1
               PROVE  Totals(v, T)[s] = Totals(w, S)[s]
    OBVIOUS
  <2>1. s # {} /\ First(s) \in s /\ Cardinality(s \ {First(s)}) = n
    BY <1>2, WithoutFirst
  <2>2. s \ {First(s)} \in SUBSET T /\ s \in SUBSET S
    BY <2>1
  <2>3. Totals(v, T)[s \ {First(s)}] = Totals(w, S)[s \ {First(s)}]
    BY <1>4, <2>1, <2>2
  <2>4. Totals(v, T)[s] = v[First(s)] + Totals(v, T)[s \ {First(s)}]
    BY <1>1, <2>1, TotalsStep
  <2>5. Totals(w, S)[s] = w[First(s)] + Totals(w, S)[s \ {First(s)}]
    BY <2>1, <2>2, TotalsStep
  <2> QED BY <2>1, <2>3, <2>4, <2>5
<1>5. Cardinality(T) \in Good
  <2> HIDE DEF Good
  <2> QED BY <1>2, <1>3, <1>4, CountingInduction
<1> QED BY <1>5

-----------------------------------------------------------------------------
(* What follows for the sum. *)

\* The sum over the empty set is zero.
LEMMA SumEmpty == ASSUME NEW w PROVE SumFunctionOnSet(w, {}) = 0
<1>1. IsFiniteSet({}) /\ \A x \in {} : w[x] \in Nat
  BY FS_EmptySet
<1> QED BY <1>1, SumIsTotal, TotalsSolve

\* Only the weights of the set's elements count.
LEMMA SumAgree ==
  ASSUME NEW S, IsFiniteSet(S), NEW w, \A x \in S : w[x] \in Nat,
         NEW v, \A x \in S : v[x] = w[x]
  PROVE  SumFunctionOnSet(v, S) = SumFunctionOnSet(w, S)
  BY SumIsTotal, TotalsAgree

LEMMA SumFirst ==
  ASSUME NEW S, IsFiniteSet(S), NEW w, \A x \in S : w[x] \in Nat, S # {}
  PROVE  SumFunctionOnSet(w, S) = w[First(S)] + SumFunctionOnSet(w, S \ {First(S)})
<1>1. Totals(w, S \ {First(S)})[S \ {First(S)}] = Totals(w, S)[S \ {First(S)}]
  BY TotalsAgree
<1>2. Totals(w, S)[S] = w[First(S)] + Totals(w, S)[S \ {First(S)}]
  BY TotalsSolve
<1> QED BY <1>1, <1>2, SumIsTotal

\* Sums of natural numbers are natural numbers.
LEMMA SumType ==
  ASSUME NEW S, IsFiniteSet(S), NEW w, \A x \in S : w[x] \in Nat
  PROVE  SumFunctionOnSet(w, S) \in Nat
<1> DEFINE Good == {n \in Nat : \A s \in SUBSET S :
                      Cardinality(s) = n => SumFunctionOnSet(w, s) \in Nat}
<1>2. \A s \in SUBSET S : IsFiniteSet(s) /\ Cardinality(s) \in Nat
  BY FS_Subset, FS_CardinalityType
<1>3. 0 \in Good
  BY <1>2, FS_EmptySet, SumEmpty
<1>4. ASSUME NEW n \in Nat, n \in Good PROVE n + 1 \in Good
  <2> SUFFICES ASSUME NEW s \in SUBSET S, Cardinality(s) = n + 1
               PROVE  SumFunctionOnSet(w, s) \in Nat
    OBVIOUS
  <2>1. s # {} /\ First(s) \in s /\ Cardinality(s \ {First(s)}) = n
    BY <1>2, WithoutFirst
  <2>2. SumFunctionOnSet(w, s \ {First(s)}) \in Nat
    BY <1>4, <2>1
  <2>3. SumFunctionOnSet(w, s) = w[First(s)] + SumFunctionOnSet(w, s \ {First(s)})
    BY <1>2, <2>1, SumFirst
  <2>4. w[First(s)] \in Nat
    BY <2>1
  <2> QED BY <2>2, <2>3, <2>4
<1>5. Cardinality(S) \in Good
  <2> HIDE DEF Good
  <2> QED BY <1>2, <1>3, <1>4, CountingInduction
<1> QED BY <1>5


\* Any element may be taken out first.
LEMMA SumRemove ==
  ASSUME NEW S, IsFiniteSet(S), NEW w, \A x \in S : w[x] \in Nat, NEW e \in S
  PROVE  SumFunctionOnSet(w, S) = w[e] + SumFunctionOnSet(w, S \ {e})
<1> DEFINE Sum(s) == SumFunctionOnSet(w, s)
           Good == {n \in Nat : \A s \in SUBSET S : Cardinality(s) = n =>
                      \A x \in s : Sum(s) = w[x] + Sum(s \ {x})}
<1>1. \A s \in SUBSET S : IsFiniteSet(s) /\ Cardinality(s) \in Nat /\ Sum(s) \in Nat
  BY FS_Subset, FS_CardinalityType, SumType
<1>2. \A s \in SUBSET S : s # {} => Sum(s) = w[First(s)] + Sum(s \ {First(s)})
  BY <1>1, SumFirst
<1> HIDE DEF Sum
<1>3. 0 \in Good
  BY <1>1, FS_EmptySet
<1>4. ASSUME NEW n \in Nat, n \in Good PROVE n + 1 \in Good
  <2> SUFFICES ASSUME NEW s \in SUBSET S, Cardinality(s) = n + 1, NEW x \in s, x # First(s)
               PROVE  Sum(s) = w[x] + Sum(s \ {x})
    BY <1>2
  <2> DEFINE f == First(s)
  <2>1. f \in s /\ Cardinality(s \ {f}) = n
    BY <1>1, WithoutFirst
  <2>2. Cardinality(s \ {x}) = n
    <3>1. Cardinality(s \ {x}) = Cardinality(s) - 1
      BY <1>1, FS_RemoveElement
    <3> QED BY <3>1
  <2>3. Sum(s) = w[f] + Sum(s \ {f})
    BY <1>2, <2>1
  <2>4. x \in s \ {f} /\ f \in s \ {x}
    BY <2>1
  <2> HIDE DEF f
  <2>5. Sum(s \ {f}) = w[x] + Sum((s \ {f}) \ {x})
    BY <1>4, <2>1, <2>4
  <2>6. Sum(s \ {x}) = w[f] + Sum((s \ {x}) \ {f})
    BY <1>4, <2>2, <2>4
  <2>7. (s \ {x}) \ {f} = (s \ {f}) \ {x}
    OBVIOUS
  <2>8. w[x] \in Nat /\ w[f] \in Nat /\ Sum((s \ {f}) \ {x}) \in Nat
    BY <1>1, <2>1
  <2> QED BY <2>3, <2>5, <2>6, <2>7, <2>8
<1>5. Cardinality(S) \in Good
  <2> HIDE DEF Good
  <2> QED BY <1>1, <1>3, <1>4, CountingInduction
<1>6. Sum(S) = w[e] + Sum(S \ {e})
  BY <1>5
<1> QED BY <1>6 DEF Sum

LEMMA SumAdd ==
  ASSUME NEW S, IsFiniteSet(S), NEW w, \A x \in S : w[x] \in Nat, NEW T \in SUBSET S, NEW e \in S \ T
  PROVE  SumFunctionOnSet(w, T \cup {e}) = w[e] + SumFunctionOnSet(w, T)
<1>1. T \cup {e} \in SUBSET S /\ e \in T \cup {e} /\ (T \cup {e}) \ {e} = T
  OBVIOUS
<1>2. IsFiniteSet(T \cup {e}) /\ \A x \in T \cup {e} : w[x] \in Nat
  BY <1>1, FS_Subset
<1> QED BY <1>1, <1>2, SumRemove


\* A sum is what T contributes and what the rest does.
LEMMA SumSplit ==
  ASSUME NEW S, IsFiniteSet(S), NEW w, \A x \in S : w[x] \in Nat, NEW T
  PROVE  SumFunctionOnSet(w, S) = SumFunctionOnSet(w, S \cap T) + SumFunctionOnSet(w, S \ T)
<1> DEFINE Sum(s) == SumFunctionOnSet(w, s)
           Good == {U \in SUBSET S : Sum(U) = Sum(U \cap T) + Sum(U \ T)}
<1>1. \A U \in SUBSET S : Sum(U) \in Nat
  BY FS_Subset, SumType
<1>2. ASSUME NEW U \in SUBSET S, NEW e \in S \ U PROVE Sum(U \cup {e}) = w[e] + Sum(U)
  BY SumAdd
<1>3. Sum({}) = 0
  BY SumEmpty
<1> HIDE DEF Sum
<1>4. {} \in Good
  <2>1. {} \cap T = {} /\ {} \ T = {}
    OBVIOUS
  <2> QED BY <1>3, <2>1
<1>5. ASSUME NEW U \in SUBSET S, NEW e \in S \ U, U \in Good PROVE U \cup {e} \in Good
  <2>1. Sum(U \cup {e}) = w[e] + Sum(U) /\ Sum(U) = Sum(U \cap T) + Sum(U \ T)
    BY <1>2, <1>5
  <2>2. Sum(U \cap T) \in Nat /\ Sum(U \ T) \in Nat /\ w[e] \in Nat
    BY <1>1
  <2>3. CASE e \in T
    <3>1. (U \cup {e}) \cap T = (U \cap T) \cup {e} /\ (U \cup {e}) \ T = U \ T
      BY <2>3
    <3>2. Sum((U \cap T) \cup {e}) = w[e] + Sum(U \cap T)
      BY <1>2
    <3>3. /\ Sum((U \cup {e}) \cap T) = w[e] + Sum(U \cap T)
          /\ Sum((U \cup {e}) \ T) = Sum(U \ T)
      BY <3>1, <3>2
    <3> QED BY <2>1, <2>2, <3>3
  <2>4. CASE e \notin T
    <3>1. (U \cup {e}) \cap T = U \cap T /\ (U \cup {e}) \ T = (U \ T) \cup {e}
      BY <2>4
    <3>2. Sum((U \ T) \cup {e}) = w[e] + Sum(U \ T)
      BY <1>2
    <3>3. /\ Sum((U \cup {e}) \cap T) = Sum(U \cap T)
          /\ Sum((U \cup {e}) \ T) = w[e] + Sum(U \ T)
      BY <3>1, <3>2
    <3> QED BY <2>1, <2>2, <3>3
  <2> QED BY <2>3, <2>4
<1>6. S \in Good
  <2> HIDE DEF Good
  <2> QED BY <1>4, <1>5, SubsetInduction
<1> QED BY <1>6 DEF Sum

\* Elements of weight zero may be left out.
LEMMA SumZero ==
  ASSUME NEW S, IsFiniteSet(S), NEW w, \A x \in S : w[x] = 0
  PROVE  SumFunctionOnSet(w, S) = 0
<1> DEFINE Good == {U \in SUBSET S : SumFunctionOnSet(w, U) = 0}
<1>1. {} \in Good
  BY SumEmpty
<1>2. ASSUME NEW U \in SUBSET S, NEW e \in S \ U, U \in Good PROVE U \cup {e} \in Good
  <2>1. SumFunctionOnSet(w, U \cup {e}) = w[e] + SumFunctionOnSet(w, U)
    BY SumAdd
  <2>2. w[e] = 0 /\ SumFunctionOnSet(w, U) = 0 /\ U \cup {e} \in SUBSET S
    BY <1>2
  <2> QED BY <2>1, <2>2
<1>3. S \in Good
  <2> HIDE DEF Good
  <2> QED BY <1>1, <1>2, SubsetInduction
<1> QED BY <1>3

\* Sums over two sets whose elements correspond, with equal weights, are equal.
LEMMA SumBijection ==
  ASSUME NEW S, IsFiniteSet(S), NEW T, NEW f \in Bijection(S, T),
         NEW w, \A x \in S : w[x] \in Nat, NEW v, \A x \in S : v[f[x]] = w[x]
  PROVE  SumFunctionOnSet(v, T) = SumFunctionOnSet(w, S)
<1> DEFINE Image(U) == {f[x] : x \in U}
           Good == {U \in SUBSET S : SumFunctionOnSet(v, Image(U)) = SumFunctionOnSet(w, U)}
<1>1. /\ f \in [S -> T] /\ \A t \in T : \E x \in S : f[x] = t
      /\ \A x, y \in S : f[x] = f[y] => x = y
  BY DEF Bijection, Injection, Surjection, IsInjective
<1>2. IsFiniteSet(T) /\ \A t \in T : v[t] \in Nat
  <2>1. IsFiniteSet(T)
    BY FS_Surjection DEF Bijection
  <2> QED BY <1>1, <2>1
<1>3. {} \in Good
  <2>1. Image({}) = {}
    OBVIOUS
  <2> QED BY <2>1, SumEmpty
<1>4. ASSUME NEW U \in SUBSET S, NEW e \in S \ U, U \in Good PROVE U \cup {e} \in Good
  <2>1. Image(U \cup {e}) = Image(U) \cup {f[e]} /\ Image(U) \in SUBSET T /\ f[e] \in T \ Image(U)
    BY <1>1
  <2>2. SumFunctionOnSet(v, Image(U) \cup {f[e]}) = v[f[e]] + SumFunctionOnSet(v, Image(U))
    <3> HIDE DEF Image
    <3> QED BY <1>2, <2>1, SumAdd
  <2>3. SumFunctionOnSet(w, U \cup {e}) = w[e] + SumFunctionOnSet(w, U)
    BY SumAdd
  <2>4. v[f[e]] = w[e] /\ SumFunctionOnSet(v, Image(U)) = SumFunctionOnSet(w, U)
    BY <1>4
  <2>5. SumFunctionOnSet(v, Image(U \cup {e})) = SumFunctionOnSet(w, U \cup {e})
    BY <2>1, <2>2, <2>3, <2>4
  <2> QED BY <2>5
<1>5. S \in Good
  <2> HIDE DEF Good
  <2> QED BY <1>3, <1>4, SubsetInduction
<1>6. Image(S) = T
  BY <1>1
<1> QED BY <1>5, <1>6

\* No more elements than B has, none of them heavier than any of B, weigh no more.
LEMMA SumOutweighs ==
  ASSUME NEW A, IsFiniteSet(A), NEW B, IsFiniteSet(B), Cardinality(A) <= Cardinality(B),
         NEW w, \A x \in A \cup B : w[x] \in Nat, \A x \in A, y \in B : w[x] <= w[y]
  PROVE  SumFunctionOnSet(w, A) <= SumFunctionOnSet(w, B)
<1> DEFINE Sum(s) == SumFunctionOnSet(w, s)
           Good == {U \in SUBSET A : \A V \in SUBSET B :
                      Cardinality(U) <= Cardinality(V) => Sum(U) <= Sum(V)}
<1>1. /\ \A U \in SUBSET A : IsFiniteSet(U) /\ Cardinality(U) \in Nat /\ Sum(U) \in Nat
      /\ \A V \in SUBSET B : IsFiniteSet(V) /\ Cardinality(V) \in Nat /\ Sum(V) \in Nat
  BY FS_Subset, FS_CardinalityType, SumType
<1>2. {} \in Good
  BY <1>1, SumEmpty
<1>3. ASSUME NEW U \in SUBSET A, NEW e \in A \ U, U \in Good PROVE U \cup {e} \in Good
  <2> SUFFICES ASSUME NEW V \in SUBSET B, Cardinality(U \cup {e}) <= Cardinality(V)
               PROVE  Sum(U \cup {e}) <= Sum(V)
    OBVIOUS
  <2>1. Cardinality(U \cup {e}) = Cardinality(U) + 1
    BY <1>1, FS_AddElement
  <2>2. PICK y \in V : TRUE
    <3>1. V # {}
      <4>1. Cardinality({}) = 0
        BY FS_EmptySet
      <4> QED BY <1>1, <2>1, <4>1
    <3> QED BY <3>1
  <2>3. Cardinality(V \ {y}) = Cardinality(V) - 1
    BY <1>1, <2>2, FS_RemoveElement
  <2>4. Sum(U) <= Sum(V \ {y})
    BY <1>1, <1>3, <2>1, <2>3
  <2>5. Sum(U \cup {e}) = w[e] + Sum(U)
    BY SumAdd
  <2>6. Sum(V) = w[y] + Sum(V \ {y})
    BY <1>1, <2>2, SumRemove
  <2>7. w[e] \in Nat /\ w[y] \in Nat /\ w[e] <= w[y] /\ Sum(U) \in Nat /\ Sum(V \ {y}) \in Nat
    BY <1>1, <2>2
  <2> QED BY <2>4, <2>5, <2>6, <2>7
<1>4. A \in Good
  <2> HIDE DEF Good
  <2> QED BY <1>2, <1>3, SubsetInduction
<1> QED BY <1>4

=============================================================================
