--------------------- MODULE HistoricalScoreboardProofs ---------------------
(***************************************************************************)
(* What scoreboards, reports and decisions say, for every history,         *)
(* valuation, policy, claimed time and bound.                              *)
(*                                                                         *)
(* What a decision rests on is four objects away and each constructor      *)
(* looks only at the objects it is given.  Objects never change, so that   *)
(* the soundness of one is a predicate of it alone: it takes the soundness *)
(* of what it holds and the checks of its constructor.  The inductive      *)
(* invariant says that everything made so far is sound.                    *)
(*                                                                         *)
(* The totals of scoreboards and reports need sums over finite sets.  The  *)
(* first part derives them from the definition of the library: the sum     *)
(* does not depend on the order, adds up over parts, keeps the order of    *)
(* its summands and can be taken over the names of what is summed.         *)
(***************************************************************************)
EXTENDS HistoricalScoreboard, FiniteSetTheorems, WellFoundedInduction, TLAPS

-----------------------------------------------------------------------------
(* A set of naturals that is not empty has a least element. *)
LEMMA LeastNatural ==
  ASSUME NEW S, S \subseteq Nat, S # {}
  PROVE  \E m \in S : \A n \in S : m <= n
<1>1. PICK m \in S : \A n \in S : ~(<<n, m>> \in OpToRel(<, Nat))
    BY NatLessThanWellFounded, WFMin
<1>2. \A n \in S : ~(n < m)
    BY <1>1 DEF OpToRel
<1> QED BY <1>2

\* Induction over a set of naturals: its least counterexample would have a predecessor in it.
LEMMA Induction ==
  ASSUME NEW S, 0 \in S, \A n \in Nat : n \in S => n + 1 \in S
  PROVE  Nat \subseteq S
<1> SUFFICES ASSUME NEW k \in Nat, k \notin S PROVE FALSE
    OBVIOUS
<1> DEFINE T == Nat \ S
<1>1. T \subseteq Nat /\ T # {}
    OBVIOUS
<1>2. PICK m \in T : \A n \in T : m <= n
    BY <1>1, LeastNatural
<1>3. m \in Nat /\ m # 0 /\ m - 1 \in Nat
    BY <1>2
<1>4. m - 1 \notin T
    BY <1>2, <1>3
<1> QED BY <1>2, <1>3, <1>4

(* Induction over the subsets of a finite set, by the size of the subset. *)
LEMMA SubsetInduction ==
  ASSUME NEW S, IsFiniteSet(S), NEW P, {} \in P,
         \A T \in SUBSET S : \A x \in S \ T : T \in P => T \cup {x} \in P
  PROVE  SUBSET S \subseteq P
<1> DEFINE Good == {k \in Nat : \A T \in SUBSET S : Cardinality(T) = k => T \in P}
<1>1. \A T \in SUBSET S : IsFiniteSet(T) /\ Cardinality(T) \in Nat
    BY FS_Subset, FS_CardinalityType
<1>2. 0 \in Good
    BY <1>1, FS_EmptySet
<1>3. ASSUME NEW k \in Nat, k \in Good PROVE k + 1 \in Good
  <2> SUFFICES ASSUME NEW T \in SUBSET S, Cardinality(T) = k + 1 PROVE T \in P
      OBVIOUS
  <2>1. IsFiniteSet(T) /\ T # {}
      BY <1>1, FS_EmptySet
  <2>2. PICK x : x \in T
      BY <2>1
  <2>3. Cardinality(T \ {x}) = k
    <3>1. Cardinality(T \ {x}) = IF x \in T THEN Cardinality(T) - 1 ELSE Cardinality(T)
        BY <2>1, FS_RemoveElement, Zenon
    <3> QED BY <2>2, <3>1
  <2>4. T \ {x} \in P
      BY <1>3, <2>3
  <2>5. (T \ {x}) \cup {x} \in P
      BY <2>2, <2>4
  <2>6. (T \ {x}) \cup {x} = T
      BY <2>2
  <2> QED BY <2>5, <2>6
<1>4. Nat \subseteq Good
  <2> HIDE DEF Good
  <2> QED BY <1>2, <1>3, Induction
<1> QED BY <1>1, <1>4

-----------------------------------------------------------------------------
(* Sums over sets. *)

(* The sums over all subsets of S, whatever element is added last. *)
Sums(g, f, S) ==
  /\ g \in [SUBSET S -> Int]
  /\ g[{}] = 0
  /\ \A T \in SUBSET S : \A x \in T : g[T] = f[x] + g[T \ {x}]

IntegersOn(f, S) == \A x \in S : f[x] \in Int

Pick(T) == CHOOSE x \in T : TRUE

(* The sums as SumFunctionOnSet takes them: the element is the one that CHOOSE picks. *)
Picked(g, f, S) ==
  g = [T \in SUBSET S |-> IF T = {} THEN 0 ELSE f[Pick(T)] + g[T \ {Pick(T)}]]

(* The library's sum over S is the one that its recursive function gives to S. *)
LEMMA SumIsPicked ==
  ASSUME NEW f, NEW S, \E g : Picked(g, f, S)
  PROVE  \E g : Picked(g, f, S) /\ SumFunctionOnSet(f, S) = g[S]
<1>1. SumFunctionOnSet(f, S) = (CHOOSE g : Picked(g, f, S))[S]
    BY DEF SumFunctionOnSet, FoldFunctionOnSet, MapThenFoldSet, Pick, Picked
<1>2. Picked(CHOOSE g : Picked(g, f, S), f, S)
    OBVIOUS
<1> QED BY <1>1, <1>2

(* Such sums exist: those of the subsets of up to k elements extend to those of k + 1. *)
LEMMA PickedExists ==
  ASSUME NEW S, IsFiniteSet(S), NEW f, IntegersOn(f, S)
  PROVE  \E g \in [SUBSET S -> Int] : Picked(g, f, S)
<1> DEFINE UpTo(k) == {T \in SUBSET S : Cardinality(T) <= k}
           Solves(g, k) == /\ g \in [UpTo(k) -> Int]
                           /\ \A T \in UpTo(k) :
                                g[T] = IF T = {} THEN 0 ELSE f[Pick(T)] + g[T \ {Pick(T)}]
           Good == {k \in Nat : \E g : Solves(g, k)}
<1>1. \A T \in SUBSET S : /\ IsFiniteSet(T) /\ Cardinality(T) \in Nat
                          /\ Cardinality(T) = 0 <=> T = {}
    BY FS_Subset, FS_CardinalityType, FS_EmptySet
<1>2. ASSUME NEW T \in SUBSET S, T # {}
      PROVE  /\ Pick(T) \in T /\ T \ {Pick(T)} \in SUBSET S
             /\ Cardinality(T \ {Pick(T)}) = Cardinality(T) - 1
             /\ f[Pick(T)] \in Int
  <2>1. \E x : x \in T
      BY <1>2
  <2>2. Pick(T) \in T
      BY <2>1 DEF Pick
  <2>3. ASSUME NEW x \in T PROVE Cardinality(T \ {x}) = Cardinality(T) - 1
    <3>1. Cardinality(T \ {x}) = IF x \in T THEN Cardinality(T) - 1 ELSE Cardinality(T)
        BY <1>1, FS_RemoveElement, Zenon
    <3> QED BY <3>1
  <2> QED BY <2>2, <2>3 DEF IntegersOn
<1>3. 0 \in Good
  <2> DEFINE g == [T \in UpTo(0) |-> 0]
  <2>1. \A T \in UpTo(0) : T = {}
      BY <1>1
  <2>2. Solves(g, 0)
      BY <2>1
  <2> QED BY <2>2
<1>4. ASSUME NEW k \in Nat, k \in Good PROVE k + 1 \in Good
  <2>1. PICK h : Solves(h, k)
      BY <1>4
  <2> DEFINE g == [T \in UpTo(k + 1) |-> IF T \in UpTo(k) THEN h[T]
                                        ELSE f[Pick(T)] + h[T \ {Pick(T)}]]
  <2>2. \A T \in UpTo(k + 1) : T # {} => T \ {Pick(T)} \in UpTo(k)
    <3> SUFFICES ASSUME NEW T \in UpTo(k + 1), T # {} PROVE T \ {Pick(T)} \in UpTo(k)
        OBVIOUS
    <3> QED BY <1>1, <1>2
  <2>3. UpTo(k) \subseteq UpTo(k + 1)
      BY <1>1
  <2>4. \A T \in UpTo(k + 1) : T \notin UpTo(k) => T # {}
      BY <1>1
  <2>5. ASSUME NEW T \in UpTo(k)
        PROVE  h[T] \in Int /\ h[T] = IF T = {} THEN 0 ELSE f[Pick(T)] + h[T \ {Pick(T)}]
      BY <2>1
  <2>6. \A T \in UpTo(k + 1) : T # {} => f[Pick(T)] \in Int
      BY <1>2
  <2> HIDE DEF UpTo
  <2>7. ASSUME NEW T \in UpTo(k + 1)
        PROVE  g[T] \in Int /\ g[T] = IF T = {} THEN 0 ELSE f[Pick(T)] + g[T \ {Pick(T)}]
    <3>1. CASE T \in UpTo(k)
      <4>1. T # {} => g[T \ {Pick(T)}] = h[T \ {Pick(T)}]
          BY <2>2, <2>3
      <4>2. g[T] = h[T]
          BY <3>1
      <4> QED BY <2>5, <3>1, <4>1, <4>2
    <3>2. CASE T \notin UpTo(k)
      <4>1. T # {} /\ T \ {Pick(T)} \in UpTo(k)
          BY <2>2, <2>4, <3>2
      <4>2. g[T] = f[Pick(T)] + h[T \ {Pick(T)}] /\ g[T \ {Pick(T)}] = h[T \ {Pick(T)}]
          BY <2>3, <3>2, <4>1
      <4>3. h[T \ {Pick(T)}] \in Int /\ f[Pick(T)] \in Int
          BY <2>5, <2>6, <4>1
      <4> QED BY <4>1, <4>2, <4>3
    <3> QED BY <3>1, <3>2
  <2>8. g \in [UpTo(k + 1) -> Int]
      BY <2>7
  <2> HIDE DEF g
  <2>9. Solves(g, k + 1)
      BY <2>7, <2>8
  <2> HIDE DEF Solves
  <2> QED BY <2>9
<1>5. Cardinality(S) \in Good
  <2> HIDE DEF Good
  <2>1. Nat \subseteq Good
      BY <1>3, <1>4, Induction
  <2> QED BY <1>1, <2>1
<1>6. UpTo(Cardinality(S)) = SUBSET S
    BY FS_Subset
<1>7. PICK g : Solves(g, Cardinality(S))
    BY <1>5
<1> QED BY <1>6, <1>7 DEF Picked

(* Whatever solves the recursion has integers for values. *)
LEMMA PickedAreIntegers ==
  ASSUME NEW S, IsFiniteSet(S), NEW f, IntegersOn(f, S), NEW g, Picked(g, f, S)
  PROVE  \A T \in SUBSET S : g[T] \in Int
<1> DEFINE Good == {k \in Nat : \A T \in SUBSET S : Cardinality(T) = k => g[T] \in Int}
<1>1. g[{}] = 0 /\ \A T \in SUBSET S : T # {} => g[T] = f[Pick(T)] + g[T \ {Pick(T)}]
    BY DEF Picked
<1>2. \A T \in SUBSET S : /\ IsFiniteSet(T) /\ Cardinality(T) \in Nat
                          /\ Cardinality(T) = 0 <=> T = {}
    BY FS_Subset, FS_CardinalityType, FS_EmptySet
<1>3. 0 \in Good
  <2>1. ASSUME NEW T \in SUBSET S, T = {} PROVE g[T] \in Int
    <3>1. g[T] = 0
        BY <1>1, <2>1, Zenon
    <3> QED BY <3>1
  <2> QED BY <1>2, <2>1
<1>4. ASSUME NEW k \in Nat, k \in Good PROVE k + 1 \in Good
  <2> SUFFICES ASSUME NEW T \in SUBSET S, Cardinality(T) = k + 1 PROVE g[T] \in Int
      OBVIOUS
  <2>1. T # {}
      BY <1>2
  <2>2. Pick(T) \in T
      BY <2>1 DEF Pick
  <2>3. ASSUME NEW y \in T PROVE Cardinality(T \ {y}) = k
    <3>1. Cardinality(T \ {y}) = IF y \in T THEN Cardinality(T) - 1 ELSE Cardinality(T)
        BY <1>2, FS_RemoveElement, Zenon
    <3> QED BY <3>1
  <2>4. g[T \ {Pick(T)}] \in Int
      BY <1>4, <2>2, <2>3
  <2> QED BY <1>1, <2>1, <2>2, <2>4 DEF IntegersOn
<1>5. Nat \subseteq Good
  <2> HIDE DEF Good
  <2> QED BY <1>3, <1>4, Induction
<1> QED BY <1>2, <1>5

(* In the order that CHOOSE picks or in any other: the sum is the same. *)
LEMMA OrderIsFree ==
  ASSUME NEW S, IsFiniteSet(S), NEW f, IntegersOn(f, S), NEW g, Picked(g, f, S)
  PROVE  Sums(g, f, S)
<1> DEFINE Good == {k \in Nat : \A T \in SUBSET S : Cardinality(T) <= k =>
                                   \A x \in T : g[T] = f[x] + g[T \ {x}]}
<1>1. g[{}] = 0 /\ \A T \in SUBSET S : T # {} => g[T] = f[Pick(T)] + g[T \ {Pick(T)}]
    BY DEF Picked
<1>2. \A T \in SUBSET S : g[T] \in Int
    BY PickedAreIntegers
<1>3. \A T \in SUBSET S : /\ IsFiniteSet(T) /\ Cardinality(T) \in Nat
                          /\ Cardinality(T) = 0 <=> T = {}
    BY FS_Subset, FS_CardinalityType, FS_EmptySet
<1>4. 0 \in Good
    BY <1>3
<1>5. ASSUME NEW k \in Nat, k \in Good PROVE k + 1 \in Good
  <2> SUFFICES ASSUME NEW T \in SUBSET S, Cardinality(T) <= k + 1, NEW x \in T
               PROVE  g[T] = f[x] + g[T \ {x}]
      OBVIOUS
  <2> DEFINE p == Pick(T)
             V == (T \ {x}) \ {p}
  <2>1. p \in T
      BY DEF Pick
  <2>2. ASSUME NEW y \in T PROVE Cardinality(T \ {y}) <= k
    <3>1. Cardinality(T \ {y}) = IF y \in T THEN Cardinality(T) - 1 ELSE Cardinality(T)
        BY <1>3, FS_RemoveElement, Zenon
    <3> QED BY <1>3, <3>1
  <2>3. g[T] = f[p] + g[T \ {p}]
      BY <1>1, <2>1
  <2> HIDE DEF p
  <2>4. CASE p = x
      BY <2>3, <2>4
  <2>5. CASE p # x
    <3>1. V = (T \ {p}) \ {x} /\ V \in SUBSET S
        OBVIOUS
    <3>2. ASSUME NEW y \in T, NEW z \in T \ {y} PROVE g[T \ {y}] = f[z] + g[(T \ {y}) \ {z}]
        BY <1>5, <2>2
    <3>3. g[T \ {p}] = f[x] + g[V]
        BY <2>1, <2>5, <3>1, <3>2
    <3>4. g[T \ {x}] = f[p] + g[V]
        BY <2>1, <2>5, <3>2
    <3>5. f[x] \in Int /\ f[p] \in Int /\ g[V] \in Int
        BY <1>2, <2>1, <3>1 DEF IntegersOn
    <3> HIDE DEF V
    <3> QED BY <2>3, <3>3, <3>4, <3>5
  <2> QED BY <2>4, <2>5
<1>6. Nat \subseteq Good
  <2> HIDE DEF Good
  <2> QED BY <1>4, <1>5, Induction
<1>7. ASSUME NEW T \in SUBSET S PROVE \A x \in T : g[T] = f[x] + g[T \ {x}]
  <2>1. Cardinality(T) \in Good /\ Cardinality(T) \in Nat
    <3> HIDE DEF Good
    <3> QED BY <1>3, <1>6
  <2> QED BY <2>1
<1>8. g \in [SUBSET S -> Int]
    BY <1>2 DEF Picked
<1> QED BY <1>1, <1>7, <1>8 DEF Sums

(* One function of sums for each set, and the library's operator is its value there. *)
LEMMA SumsExist ==
  ASSUME NEW S, IsFiniteSet(S), NEW f, IntegersOn(f, S)
  PROVE  \E g : Sums(g, f, S) /\ SumFunctionOnSet(f, S) = g[S]
<1>1. PICK g : Picked(g, f, S) /\ SumFunctionOnSet(f, S) = g[S]
    BY PickedExists, SumIsPicked
<1> QED BY <1>1, OrderIsFree

(* Two functions of sums agree where the summed functions do. *)
LEMMA SumsAgree ==
  ASSUME NEW S, IsFiniteSet(S), NEW R, NEW Q, NEW f, NEW h, NEW g, NEW k,
         Sums(g, f, R), Sums(k, h, Q), S \subseteq R, S \subseteq Q,
         \A x \in S : f[x] = h[x]
  PROVE  g[S] = k[S]
<1> DEFINE P == {T \in SUBSET S : g[T] = k[T]}
<1>1. {} \in P
    BY DEF Sums
<1>2. ASSUME NEW T \in SUBSET S, NEW x \in S \ T, T \in P PROVE T \cup {x} \in P
  <2>1. (T \cup {x}) \ {x} = T
      OBVIOUS
  <2>2. g[T \cup {x}] = f[x] + g[T] /\ k[T \cup {x}] = h[x] + k[T]
      BY <2>1 DEF Sums
  <2> QED BY <1>2, <2>2
<1>3. SUBSET S \subseteq P
  <2> HIDE DEF P
  <2> QED BY <1>1, <1>2, SubsetInduction
<1> QED BY <1>3

-----------------------------------------------------------------------------
(* What the proofs below use of SumFunctionOnSet. *)

(* The sum over nothing. *)
LEMMA SumOfNothing ==
  ASSUME NEW f PROVE SumFunctionOnSet(f, {}) = 0
<1>1. IsFiniteSet({}) /\ IntegersOn(f, {})
    BY FS_EmptySet DEF IntegersOn
<1> QED BY <1>1, SumsExist DEF Sums

(* A sum of integers is an integer. *)
LEMMA SumIsInteger ==
  ASSUME NEW S, IsFiniteSet(S), NEW f, IntegersOn(f, S)
  PROVE  SumFunctionOnSet(f, S) \in Int
<1>1. PICK g : Sums(g, f, S) /\ SumFunctionOnSet(f, S) = g[S]
    BY SumsExist
<1> QED BY <1>1 DEF Sums

(* One element more. *)
LEMMA SumAdds ==
  ASSUME NEW S, IsFiniteSet(S), NEW x, x \notin S, NEW f, IntegersOn(f, S \cup {x})
  PROVE  SumFunctionOnSet(f, S \cup {x}) = f[x] + SumFunctionOnSet(f, S)
<1> DEFINE T == S \cup {x}
<1>1. IsFiniteSet(T) /\ IntegersOn(f, S)
    BY FS_AddElement DEF IntegersOn
<1>2. PICK g : Sums(g, f, T) /\ SumFunctionOnSet(f, T) = g[T]
    BY <1>1, SumsExist
<1>3. PICK k : Sums(k, f, S) /\ SumFunctionOnSet(f, S) = k[S]
    BY <1>1, SumsExist
<1>4. g[S] = k[S]
    BY <1>2, <1>3, SumsAgree
<1>5. T \ {x} = S
    OBVIOUS
<1>6. g[T] = f[x] + g[S]
    BY <1>2, <1>5 DEF Sums
<1> QED BY <1>2, <1>3, <1>4, <1>6

(* Only the values at the elements matter. *)
LEMMA SumsOfTheSame ==
  ASSUME NEW S, IsFiniteSet(S), NEW f, IntegersOn(f, S), NEW h, \A x \in S : f[x] = h[x]
  PROVE  SumFunctionOnSet(f, S) = SumFunctionOnSet(h, S)
<1>1. IntegersOn(h, S)
    BY DEF IntegersOn
<1>2. PICK g : Sums(g, f, S) /\ SumFunctionOnSet(f, S) = g[S]
    BY SumsExist
<1>3. PICK k : Sums(k, h, S) /\ SumFunctionOnSet(h, S) = k[S]
    BY <1>1, SumsExist
<1> QED BY <1>2, <1>3, SumsAgree

(* Two sums over the same set. *)
LEMMA SumOfSums ==
  ASSUME NEW S, IsFiniteSet(S), NEW f, IntegersOn(f, S), NEW h, IntegersOn(h, S),
         NEW k, \A x \in S : k[x] = f[x] + h[x]
  PROVE  SumFunctionOnSet(k, S) = SumFunctionOnSet(f, S) + SumFunctionOnSet(h, S)
<1> DEFINE sum(p, T) == SumFunctionOnSet(p, T)
           P == {T \in SUBSET S : /\ sum(f, T) \in Int /\ sum(h, T) \in Int
                                 /\ sum(k, T) = sum(f, T) + sum(h, T)}
<1>1. {} \in P
    BY SumOfNothing
<1>2. ASSUME NEW T \in SUBSET S, NEW x \in S \ T, T \in P PROVE T \cup {x} \in P
  <2>1. /\ IsFiniteSet(T) /\ IntegersOn(f, T \cup {x}) /\ IntegersOn(h, T \cup {x})
        /\ IntegersOn(k, T \cup {x})
      BY FS_Subset DEF IntegersOn
  <2>2. /\ sum(f, T \cup {x}) = f[x] + sum(f, T) /\ sum(h, T \cup {x}) = h[x] + sum(h, T)
        /\ sum(k, T \cup {x}) = k[x] + sum(k, T)
      BY <2>1, SumAdds
  <2>3. f[x] \in Int /\ h[x] \in Int /\ k[x] = f[x] + h[x]
      BY DEF IntegersOn
  <2> HIDE DEF sum
  <2> QED BY <1>2, <2>2, <2>3
<1>3. SUBSET S \subseteq P
  <2> HIDE DEF P
  <2> QED BY <1>1, <1>2, SubsetInduction
<1> QED BY <1>3

(* Smaller values, smaller sum. *)
LEMMA SumIsMonotone ==
  ASSUME NEW S, IsFiniteSet(S), NEW f, IntegersOn(f, S), NEW h, IntegersOn(h, S),
         \A x \in S : f[x] <= h[x]
  PROVE  SumFunctionOnSet(f, S) <= SumFunctionOnSet(h, S)
<1> DEFINE sum(p, T) == SumFunctionOnSet(p, T)
           P == {T \in SUBSET S : /\ sum(f, T) \in Int /\ sum(h, T) \in Int
                                 /\ sum(f, T) <= sum(h, T)}
<1>1. {} \in P
    BY SumOfNothing
<1>2. ASSUME NEW T \in SUBSET S, NEW x \in S \ T, T \in P PROVE T \cup {x} \in P
  <2>1. IsFiniteSet(T) /\ IntegersOn(f, T \cup {x}) /\ IntegersOn(h, T \cup {x})
      BY FS_Subset DEF IntegersOn
  <2>2. sum(f, T \cup {x}) = f[x] + sum(f, T) /\ sum(h, T \cup {x}) = h[x] + sum(h, T)
      BY <2>1, SumAdds
  <2>3. f[x] \in Int /\ h[x] \in Int /\ f[x] <= h[x]
      BY DEF IntegersOn
  <2> HIDE DEF sum
  <2> QED BY <1>2, <2>2, <2>3
<1>3. SUBSET S \subseteq P
  <2> HIDE DEF P
  <2> QED BY <1>1, <1>2, SubsetInduction
<1> QED BY <1>3

(* A sum of naturals is a natural. *)
LEMMA SumIsNatural ==
  ASSUME NEW S, IsFiniteSet(S), NEW f, \A x \in S : f[x] \in Nat
  PROVE  SumFunctionOnSet(f, S) \in Nat
<1> DEFINE sum(T) == SumFunctionOnSet(f, T)
           P == {T \in SUBSET S : sum(T) \in Nat}
<1>1. {} \in P
  <2>1. sum({}) = 0
      BY SumOfNothing
  <2> QED BY <2>1
<1>2. ASSUME NEW T \in SUBSET S, NEW x \in S \ T, T \in P PROVE T \cup {x} \in P
  <2>1. IsFiniteSet(T) /\ IntegersOn(f, T \cup {x})
      BY FS_Subset DEF IntegersOn
  <2>2. sum(T \cup {x}) = f[x] + sum(T)
      BY <2>1, SumAdds
  <2>3. sum(T) \in Nat /\ f[x] \in Nat
      BY <1>2
  <2> HIDE DEF sum
  <2>4. sum(T \cup {x}) \in Nat
      BY <2>2, <2>3
  <2> QED BY <2>4
<1>3. SUBSET S \subseteq P
  <2> HIDE DEF P
  <2> QED BY <1>1, <1>2, SubsetInduction
<1> QED BY <1>3

(* The sum over two sets that have nothing in common. *)
LEMMA SumOfBoth ==
  ASSUME NEW S, IsFiniteSet(S), NEW R, IsFiniteSet(R), R \cap S = {}, NEW f, IntegersOn(f, R \cup S)
  PROVE  SumFunctionOnSet(f, R \cup S) = SumFunctionOnSet(f, R) + SumFunctionOnSet(f, S)
<1> DEFINE sum(T) == SumFunctionOnSet(f, T)
           P == {T \in SUBSET S : sum(T) \in Int /\ sum(R \cup T) = sum(R) + sum(T)}
<1>1. sum(R) \in Int
    BY SumIsInteger DEF IntegersOn
<1>2. {} \in P
  <2>1. R \cup {} = R /\ sum({}) = 0
      BY SumOfNothing
  <2> HIDE DEF sum
  <2> QED BY <1>1, <2>1
<1>3. ASSUME NEW T \in SUBSET S, NEW x \in S \ T, T \in P PROVE T \cup {x} \in P
  <2>1. IsFiniteSet(T) /\ IntegersOn(f, T \cup {x})
      BY FS_Subset DEF IntegersOn
  <2>2. IsFiniteSet(R \cup T)
      BY <2>1, FS_Union
  <2>3. (R \cup T) \cup {x} = R \cup (T \cup {x}) /\ x \notin R \cup T
      OBVIOUS
  <2>4. IntegersOn(f, (R \cup T) \cup {x})
      BY DEF IntegersOn
  <2>5. sum(T \cup {x}) = f[x] + sum(T)
      BY <2>1, SumAdds
  <2>6. sum((R \cup T) \cup {x}) = f[x] + sum(R \cup T)
      BY <2>2, <2>3, <2>4, SumAdds
  <2>7. f[x] \in Int
      BY DEF IntegersOn
  <2>8. sum(T) \in Int /\ sum(R \cup T) = sum(R) + sum(T) /\ T \cup {x} \in SUBSET S
      BY <1>3
  <2> HIDE DEF sum
  <2>9. sum(T \cup {x}) \in Int
      BY <2>5, <2>7, <2>8
  <2>10. sum(R \cup (T \cup {x})) = f[x] + sum(R \cup T)
      BY <2>3, <2>6, Zenon
  <2>11. sum(R \cup (T \cup {x})) = sum(R) + sum(T \cup {x})
    <3> HIDE DEF P
    <3> QED BY <1>1, <2>5, <2>7, <2>8, <2>10
  <2> QED BY <2>8, <2>9, <2>11
<1>4. SUBSET S \subseteq P
  <2> HIDE DEF P
  <2> QED BY <1>2, <1>3, SubsetInduction, SMTT(20)
<1> QED BY <1>4

(* A set is counted by a sum of ones. *)
LEMMA SumOfOnes ==
  ASSUME NEW S, IsFiniteSet(S), NEW f, \A x \in S : f[x] = 1
  PROVE  SumFunctionOnSet(f, S) = Cardinality(S)
<1> DEFINE P == {T \in SUBSET S : SumFunctionOnSet(f, T) = Cardinality(T)}
<1>1. {} \in P
    BY SumOfNothing, FS_EmptySet
<1>2. ASSUME NEW T \in SUBSET S, NEW x \in S \ T, T \in P PROVE T \cup {x} \in P
  <2>1. IsFiniteSet(T) /\ IntegersOn(f, T \cup {x}) /\ Cardinality(T) \in Nat
      BY FS_Subset, FS_CardinalityType DEF IntegersOn
  <2>2. SumFunctionOnSet(f, T \cup {x}) = f[x] + SumFunctionOnSet(f, T)
      BY <2>1, SumAdds
  <2>3. Cardinality(T \cup {x}) = IF x \in T THEN Cardinality(T) ELSE Cardinality(T) + 1
      BY <2>1, FS_AddElement, Zenon
  <2> QED BY <1>2, <2>1, <2>2, <2>3
<1>3. SUBSET S \subseteq P
  <2> HIDE DEF P
  <2> QED BY <1>1, <1>2, SubsetInduction
<1> QED BY <1>3

(* The sum over sets that have pairwise nothing in common, of their sums. *)
LEMMA SumOfParts ==
  ASSUME NEW B, IsFiniteSet(B), NEW part, NEW f, NEW t,
         \A b \in B : /\ IsFiniteSet(part[b]) /\ IntegersOn(f, part[b])
                      /\ t[b] = SumFunctionOnSet(f, part[b]),
         \A a, b \in B : a # b => part[a] \cap part[b] = {}
  PROVE  SumFunctionOnSet(t, B) = SumFunctionOnSet(f, UNION {part[b] : b \in B})
<1> DEFINE All(T) == UNION {part[b] : b \in T}
           P == {T \in SUBSET B : /\ IsFiniteSet(All(T))
                                 /\ SumFunctionOnSet(t, T) = SumFunctionOnSet(f, All(T))}
<1>1. {} \in P
  <2>1. All({}) = {}
      OBVIOUS
  <2> HIDE DEF All
  <2> QED BY <2>1, SumOfNothing, FS_EmptySet, Zenon
<1>2. ASSUME NEW T \in SUBSET B, NEW x \in B \ T, T \in P PROVE T \cup {x} \in P
  <2>1. IntegersOn(t, B)
      BY SumIsInteger DEF IntegersOn
  <2>2. IsFiniteSet(T) /\ IntegersOn(t, T \cup {x})
      BY <2>1, FS_Subset DEF IntegersOn
  <2>3. SumFunctionOnSet(t, T \cup {x}) = t[x] + SumFunctionOnSet(t, T)
      BY <2>2, SumAdds
  <2>4. All(T \cup {x}) = All(T) \cup part[x] /\ All(T) \cap part[x] = {}
      OBVIOUS
  <2>5. IntegersOn(f, All(T) \cup part[x])
      BY DEF IntegersOn
  <2>6. IsFiniteSet(All(T)) /\ IsFiniteSet(part[x])
      BY <1>2
  <2>7. /\ IntegersOn(f, All(T)) /\ IntegersOn(f, part[x])
        /\ SumFunctionOnSet(t, T) = SumFunctionOnSet(f, All(T))
      BY <1>2, <2>5 DEF IntegersOn
  <2> HIDE DEF All
  <2>8. SumFunctionOnSet(f, All(T) \cup part[x])
          = SumFunctionOnSet(f, All(T)) + SumFunctionOnSet(f, part[x])
      BY <2>4, <2>5, <2>6, SumOfBoth
  <2>9. IsFiniteSet(All(T) \cup part[x])
      BY <2>6, FS_Union
  <2>10. SumFunctionOnSet(f, All(T)) \in Int /\ SumFunctionOnSet(f, part[x]) \in Int
      BY <2>6, <2>7, SumIsInteger
  <2>11. t[x] = SumFunctionOnSet(f, part[x])
      OBVIOUS
  <2>12. SumFunctionOnSet(f, All(T \cup {x})) = SumFunctionOnSet(f, All(T) \cup part[x])
      BY <2>4, Zenon
  <2>13. IsFiniteSet(All(T \cup {x}))
      BY <2>4, <2>9, Zenon
  <2>14. SumFunctionOnSet(t, T \cup {x}) = SumFunctionOnSet(f, All(T \cup {x}))
      BY <2>3, <2>7, <2>8, <2>10, <2>11, <2>12
  <2>15. T \cup {x} \in SUBSET B
      OBVIOUS
  <2> QED BY <2>13, <2>14, <2>15, Zenon
<1>3. SUBSET B \subseteq P
  <2> HIDE DEF P
  <2> QED BY <1>1, <1>2, SubsetInduction
<1> QED BY <1>3

(* The sum over the names of elements that are told apart by name. *)
LEMMA SumByName ==
  ASSUME NEW S, IsFiniteSet(S), NEW name, NEW f, IntegersOn(f, S), NEW h,
         \A x \in S : f[x] = h[name[x]],
         \A x, y \in S : x # y => name[x] # name[y]
  PROVE  SumFunctionOnSet(f, S) = SumFunctionOnSet(h, {name[x] : x \in S})
<1> DEFINE Names(T) == {name[x] : x \in T}
           P == {T \in SUBSET S : /\ IsFiniteSet(Names(T))
                                 /\ SumFunctionOnSet(f, T) = SumFunctionOnSet(h, Names(T))}
<1>1. {} \in P
  <2>1. Names({}) = {}
      OBVIOUS
  <2> HIDE DEF Names
  <2> QED BY <2>1, SumOfNothing, FS_EmptySet, Zenon
<1>2. ASSUME NEW T \in SUBSET S, NEW x \in S \ T, T \in P PROVE T \cup {x} \in P
  <2>1. IsFiniteSet(T) /\ IntegersOn(f, T \cup {x})
      BY FS_Subset DEF IntegersOn
  <2>2. SumFunctionOnSet(f, T \cup {x}) = f[x] + SumFunctionOnSet(f, T)
      BY <2>1, SumAdds
  <2>3. Names(T \cup {x}) = Names(T) \cup {name[x]} /\ name[x] \notin Names(T)
      OBVIOUS
  <2>4. IsFiniteSet(Names(T))
      BY <1>2
  <2>5. IntegersOn(h, Names(T) \cup {name[x]})
      BY DEF IntegersOn
  <2>6. SumFunctionOnSet(f, T) = SumFunctionOnSet(h, Names(T))
      BY <1>2
  <2> HIDE DEF Names
  <2>7. SumFunctionOnSet(h, Names(T) \cup {name[x]}) = h[name[x]] + SumFunctionOnSet(h, Names(T))
      BY <2>3, <2>4, <2>5, SumAdds
  <2>8. Names(T \cup {x}) = Names(T) \cup {name[x]}
      BY <2>3
  <2>9. IsFiniteSet(Names(T \cup {x}))
    <3>1. IsFiniteSet(Names(T) \cup {name[x]})
        BY <2>4, FS_AddElement
    <3> QED BY <2>8, <3>1, Zenon
  <2>10. SumFunctionOnSet(h, Names(T \cup {x})) = SumFunctionOnSet(h, Names(T) \cup {name[x]})
      BY <2>8, Zenon
  <2>11. SumFunctionOnSet(f, T \cup {x}) = SumFunctionOnSet(h, Names(T \cup {x}))
      BY <2>2, <2>6, <2>7, <2>10
  <2>12. T \cup {x} \in SUBSET S
      OBVIOUS
  <2> QED BY <2>9, <2>11, <2>12, Zenon
<1>3. SUBSET S \subseteq P
  <2> HIDE DEF P
  <2> QED BY <1>1, <1>2, SubsetInduction
<1> QED BY <1>3

(* A total as the model takes it, over the domain of a function. *)
LEMMA TotalIsSum ==
  ASSUME NEW S, IsFiniteSet(S), NEW g, DOMAIN g = S, IntegersOn(g, S),
         NEW h, \A x \in S : g[x] = h[x]
  PROVE  SumFunction(g) = SumFunctionOnSet(h, S)
<1>1. SumFunctionOnSet(g, S) = SumFunctionOnSet(h, S)
    BY SumsOfTheSame
<1> QED BY <1>1, Zenon DEF SumFunction

(* The names of finitely many elements are finitely many. *)
LEMMA NamesAreFinite ==
  ASSUME NEW S, IsFiniteSet(S), NEW name
  PROVE  IsFiniteSet({name[x] : x \in S})
<1> DEFINE T == {name[x] : x \in S}
           f == [x \in S |-> name[x]]
<1>1. f \in Surjection(S, T)
    BY DEF Surjection
<1> HIDE DEF f, T
<1>2. IsFiniteSet(T)
    BY <1>1, FS_Surjection
<1> QED BY <1>2 DEF T

(* Elements that are told apart by name are as many as their names. *)
LEMMA CountByName ==
  ASSUME NEW S, IsFiniteSet(S), NEW name,
         \A x, y \in S : x # y => name[x] # name[y]
  PROVE  Cardinality(S) = Cardinality({name[x] : x \in S})
<1> DEFINE T == {name[x] : x \in S}
           f == [x \in S |-> name[x]]
<1>1. f \in Surjection(S, T) /\ f \in Injection(S, T)
    BY DEF Surjection, Injection, IsInjective
<1> HIDE DEF f, T
<1>2. Cardinality(T) = Cardinality(S)
    BY <1>1, FS_Surjection
<1> QED BY <1>2 DEF T

(* A set is counted by counting parts of it that have nothing in common. *)
LEMMA CountOfParts ==
  ASSUME NEW B, IsFiniteSet(B), NEW part, NEW t,
         \A b \in B : IsFiniteSet(part[b]) /\ t[b] = Cardinality(part[b]),
         \A a, b \in B : a # b => part[a] \cap part[b] = {}
  PROVE  SumFunctionOnSet(t, B) = Cardinality(UNION {part[b] : b \in B})
<1> DEFINE U == UNION {part[b] : b \in B}
           f == [x \in U |-> 1]
<1>1. \A x \in U : f[x] = 1
    OBVIOUS
<1>2. \A b \in B : part[b] \subseteq U
    OBVIOUS
<1> HIDE DEF f
<1>3. ASSUME NEW b \in B
      PROVE  /\ IsFiniteSet(part[b]) /\ IntegersOn(f, part[b])
             /\ t[b] = SumFunctionOnSet(f, part[b])
  <2>1. \A x \in part[b] : f[x] = 1
      BY <1>1, <1>2
  <2>2. IntegersOn(f, part[b])
      BY <2>1 DEF IntegersOn
  <2> QED BY <2>1, <2>2, SumOfOnes
<1>4. SumFunctionOnSet(t, B) = SumFunctionOnSet(f, U)
    BY <1>3, SumOfParts
<1>5. IsFiniteSet(U)
  <2>1. IsFiniteSet({part[b] : b \in B})
      BY NamesAreFinite
  <2>2. \A T \in {part[b] : b \in B} : IsFiniteSet(T)
      OBVIOUS
  <2> QED BY <2>1, <2>2, FS_UNION
<1>6. SumFunctionOnSet(f, U) = Cardinality(U)
    BY <1>1, <1>5, SumOfOnes
<1> QED BY <1>4, <1>6

-----------------------------------------------------------------------------
(* Quotients *)

(* The floor of a quotient. *)
LEMMA DivFacts ==
  ASSUME NEW n \in Int, NEW d \in Nat \ {0}
  PROVE  /\ n \div d \in Int
         /\ \A q \in Int : q <= n \div d <=> q * d <= n
         /\ n >= 0 => n \div d \in Nat
<1> DEFINE f == n \div d
           m == n % d
<1>1. f \in Int /\ m \in 0..(d - 1) /\ n = d * f + m
    BY Z3
<1> HIDE DEF f, m
<1>2. ASSUME NEW q \in Int, q <= f PROVE q * d <= n
  <2>1. PICK k \in Nat : f = q + k
    <3>1. f - q \in Nat /\ f = q + (f - q)
        BY <1>1, <1>2
    <3> QED BY <3>1
  <2>2. d * f = q * d + k * d /\ k * d >= 0
      BY <2>1, <1>2, Z3
  <2>3. q * d \in Int /\ k * d \in Int /\ d * f \in Int
      BY <2>1, <1>1
  <2> QED BY <1>1, <2>2, <2>3
<1>3. ASSUME NEW q \in Int, q * d <= n PROVE q <= f
  <2> SUFFICES ASSUME f + 1 <= q PROVE FALSE
      BY <1>1
  <2>1. PICK k \in Nat : q = f + 1 + k
    <3>1. q - (f + 1) \in Nat /\ q = f + 1 + (q - (f + 1))
        BY <1>1
    <3> QED BY <3>1
  <2>2. q * d = d * f + d + k * d /\ k * d >= 0
      BY <2>1, <1>1, Z3
  <2>3. q * d \in Int /\ k * d \in Int /\ d * f \in Int
      BY <2>1, <1>1
  <2> QED BY <1>1, <1>3, <2>2, <2>3
<1>4. n >= 0 => f \in Nat
  <2>1. 0 * d = 0
      OBVIOUS
  <2> QED BY <1>1, <1>3, <2>1
<1> QED BY <1>1, <1>2, <1>3, <1>4 DEF f

(* The ceiling of a quotient, times the divisor, covers the dividend. *)
LEMMA CeilCovers ==
  ASSUME NEW n \in Int, NEW d \in Nat \ {0}
  PROVE  /\ CeilDiv(n, d) \in Int
         /\ n <= CeilDiv(n, d) * d
         /\ n >= 0 => CeilDiv(n, d) \in Nat
<1> DEFINE f == n \div d
           m == n % d
<1>1. f \in Int /\ m \in 0..(d - 1) /\ n = d * f + m /\ (n >= 0 => f \in Nat)
    BY DivFacts, Z3
<1>2. CeilDiv(n, d) = f + (IF m = 0 THEN 0 ELSE 1)
    BY DEF CeilDiv
<1> HIDE DEF f, m
<1>3. CASE m = 0
  <2>1. CeilDiv(n, d) = f
      BY <1>1, <1>2, <1>3
  <2>2. d * f \in Int /\ d * f = f * d
      BY <1>1, Z3
  <2>3. n = f * d
      BY <1>1, <1>3, <2>2
  <2>4. f * d <= f * d
      BY <2>2
  <2> QED BY <1>1, <2>1, <2>3, <2>4
<1>4. CASE m # 0
  <2>1. CeilDiv(n, d) = f + 1
      BY <1>1, <1>2, <1>4
  <2>2. d * f \in Int /\ (f + 1) * d = d * f + d
      BY <1>1, Z3
  <2>3. n <= (f + 1) * d
      BY <1>1, <2>2
  <2> QED BY <1>1, <2>1, <2>3
<1> QED BY <1>3, <1>4

-----------------------------------------------------------------------------
(* Sound objects: what their constructors leave behind. *)

SoundRecord(x) ==
    /\ x.inclusion \in Inclusions /\ x.outcome \in BOOLEAN /\ x.book \in Books \cup {Absent}
    /\ x.recorded \in Nat /\ FactsOf(x).created \in Nat
    /\ FactsOf(x).created <= x.recorded
    /\ IF Scoreable(x)
       THEN /\ FactsOf(x).settled \in Nat /\ FactsOf(x).settled <= x.recorded
            /\ ValidBook(x.policy, x.book, FactsOf(x).time)
       ELSE x.book = Absent

SoundCorpus(c) ==
    /\ c.manifest.created \in Nat /\ c.created \in Nat
    /\ c.manifest.created <= c.created
    /\ IsFiniteSet(c.records)
    /\ \A x \in c.records : SoundRecord(x) /\ x.recorded <= c.created
    /\ \A x, y \in c.records : x # y => x.inclusion # y.inclusion
    /\ Referenced(c.records) = c.manifest.references

SoundBoard(b) ==
    /\ SoundCorpus(b.corpus)
    /\ b.created \in Nat /\ b.corpus.created <= b.created
    /\ b.tally = Tally(RecordsOf(b))

SoundReport(r) ==
    /\ SoundBoard(r.board) /\ r.bounds \in BucketBounds
    /\ \A x \in RecordsOf(r.board) : PredictedReturn(x) >= 0
    /\ r.buckets = Buckets(RecordsOf(r.board), r.bounds)

SoundDecision(d) ==
    /\ SoundBoard(d.board) /\ SoundReport(d.report)
    /\ d.report.board = d.board /\ d.value.board = d.board
    /\ d.created \in Nat /\ d.board.created <= d.created
    /\ d.policy \in PromotionPolicies
    /\ d.reasons = RefusedBy(Gates(d.board, d.report, d.value, d.policy))

IInv ==
    /\ history \subseteq Inclusions
    /\ \A m \in manifests : m.created \in Nat
    /\ IsFiniteSet(records) /\ \A x \in records : SoundRecord(x)
    /\ \A c \in corpora : SoundCorpus(c)
    /\ IsFiniteSet(boards) /\ \A b \in boards : SoundBoard(b)
    /\ \A r \in reports : SoundReport(r)
    /\ \A d \in decisions : SoundDecision(d)

-----------------------------------------------------------------------------
(* One lemma for each constructor: the new object is sound. *)
LEMMA RecordIsSound ==
    ASSUME IInv, NEW t \in Nat, NEW i \in history, NEW outcome \in BOOLEAN,
           NEW policy, NEW book \in Books \cup {Absent}, RecordAttempt(i, outcome, policy, book, t)
    PROVE  IInv'
<1> DEFINE x == [inclusion |-> i, outcome |-> outcome, policy |-> policy, book |-> book,
                 recorded |-> t]
<1>1. /\ x.inclusion = i /\ x.outcome = outcome /\ x.policy = policy /\ x.book = book
      /\ x.recorded = t
  OBVIOUS
<1>2. /\ Facts[i].created <= t
      /\ outcome => /\ Facts[i].settled # Absent /\ Facts[i].settled <= t
                    /\ ValidBook(policy, book, Facts[i].time)
      /\ ~outcome => book = Absent
      /\ records' = records \cup {x}
      /\ UNCHANGED <<history, manifests, corpora, boards, reports, values, decisions>>
  BY DEF RecordAttempt
<1>3. /\ i \in Inclusions
      /\ Facts[i].created \in Nat /\ Facts[i].settled \in Nat \cup {Absent}
  BY HistoryAssumption DEF IInv
<1> HIDE DEF x
<1>4. SoundRecord(x)
  BY <1>1, <1>2, <1>3 DEF SoundRecord, FactsOf, Scoreable
<1>5. IsFiniteSet(records')
  BY <1>2, FS_AddElement DEF IInv
<1>. QED
  BY <1>2, <1>4, <1>5 DEF IInv

LEMMA ManifestIsSound ==
    ASSUME IInv, NEW t \in Nat, NEW refs, NEW chain, NEW w, DeclareWindow(refs, chain, w, t)
    PROVE  IInv'
<1> DEFINE m == [references |-> refs, chain |-> chain, window |-> w, created |-> t]
<1>1. manifests' = manifests \cup {m} /\ m.created = t
      /\ UNCHANGED <<history, records, corpora, boards, reports, values, decisions>>
  BY DEF DeclareWindow
<1> HIDE DEF m
<1>. QED
  BY <1>1 DEF IInv

LEMMA CorpusIsSound ==
    ASSUME IInv, NEW t \in Nat, NEW m, NEW S, AssembleCorpus(m, S, t)
    PROVE  IInv'
<1> DEFINE c == [manifest |-> m, records |-> S, created |-> t]
<1>1. /\ c.manifest = m /\ c.records = S /\ c.created = t
      /\ corpora' = corpora \cup {c}
      /\ UNCHANGED <<history, manifests, records, boards, reports, values, decisions>>
  BY DEF AssembleCorpus
<1>2. /\ m \in manifests /\ S \subseteq records
      /\ m.created <= t /\ \A x \in S : x.recorded <= t
      /\ Referenced(S) = m.references
      /\ \A x, y \in S : x # y => x.inclusion # y.inclusion
  BY DEF AssembleCorpus, Follows, UsesUp
<1>3. m.created \in Nat /\ IsFiniteSet(S) /\ \A x \in S : SoundRecord(x)
  BY <1>2, FS_Subset DEF IInv
<1> HIDE DEF c
<1>4. SoundCorpus(c)
  BY <1>1, <1>2, <1>3 DEF SoundCorpus
<1>. QED
  BY <1>1, <1>4 DEF IInv

LEMMA BoardIsSound ==
    ASSUME IInv, NEW t \in Nat, NEW c, NEW cohort, ScoreCohort(c, cohort, t)
    PROVE  IInv'
<1> DEFINE b == [corpus |-> c, cohort |-> cohort, created |-> t,
                 tally |-> Tally(RecordsFor(c, cohort))]
<1>1. /\ b.corpus = c /\ b.cohort = cohort /\ b.created = t
      /\ b.tally = Tally(RecordsFor(c, cohort)) /\ boards' = boards \cup {b}
      /\ UNCHANGED <<history, manifests, records, corpora, reports, values, decisions>>
  BY DEF ScoreCohort
<1>2. c \in corpora /\ c.created <= t
  BY DEF ScoreCohort
<1> HIDE DEF b
<1>3. SoundBoard(b)
  BY <1>1, <1>2 DEF IInv, SoundBoard, RecordsOf
<1>4. IsFiniteSet(boards')
  BY <1>1, FS_AddElement DEF IInv
<1>. QED
  BY <1>1, <1>3, <1>4 DEF IInv

LEMMA ReportIsSound ==
    ASSUME IInv, NEW t, NEW b, NEW bounds \in BucketBounds, Calibrate(b, bounds, t)
    PROVE  IInv'
<1> DEFINE r == [board |-> b, bounds |-> bounds, created |-> t,
                 buckets |-> Buckets(RecordsOf(b), bounds)]
<1>1. /\ r.board = b /\ r.bounds = bounds /\ r.buckets = Buckets(RecordsOf(b), bounds)
      /\ reports' = reports \cup {r}
      /\ UNCHANGED <<history, manifests, records, corpora, boards, values, decisions>>
  BY DEF Calibrate
<1>2. b \in boards /\ \A x \in RecordsOf(b) : PredictedReturn(x) >= 0
  BY DEF Calibrate
<1> HIDE DEF r
<1>3. SoundReport(r)
  BY <1>1, <1>2 DEF IInv, SoundReport
<1>. QED
  BY <1>1, <1>3 DEF IInv

LEMMA DecisionIsSound ==
    ASSUME IInv, NEW t \in Nat, NEW b, NEW report, NEW value, NEW p \in PromotionPolicies,
           Decide(b, report, value, p, t)
    PROVE  IInv'
<1> DEFINE d == [board |-> b, report |-> report, value |-> value, policy |-> p,
                 created |-> t, reasons |-> RefusedBy(Gates(b, report, value, p))]
<1>1. /\ d.board = b /\ d.report = report /\ d.value = value /\ d.policy = p /\ d.created = t
      /\ d.reasons = RefusedBy(Gates(b, report, value, p))
      /\ decisions' = decisions \cup {d}
      /\ UNCHANGED <<history, manifests, records, corpora, boards, reports, values>>
  BY DEF Decide
<1>2. b \in boards /\ report \in reports /\ b.created <= t /\ report.board = b /\ value.board = b
  BY DEF Decide
<1> HIDE DEF d
<1>3. SoundDecision(d)
  BY <1>1, <1>2 DEF IInv, SoundDecision
<1>. QED
  BY <1>1, <1>3 DEF IInv

(* A value only repeats what its scoreboard says. *)
LEMMA OthersChangeNothing ==
    ASSUME IInv, UNCHANGED <<history, manifests, records, corpora, boards, reports, decisions>>
    PROVE  IInv'
BY DEF IInv

(* Nothing has been made at first. *)
LEMMA InvHoldsInitially ==
    Init => IInv
<1>1. ASSUME Init PROVE history \subseteq Inclusions
  BY <1>1 DEF Init, Inclusions
<1>. QED
  BY <1>1, FS_EmptySet DEF Init, IInv

(* Every step makes at most one object, and that one is sound. *)
LEMMA InvIsInductive ==
    IInv /\ [Next]_vars => IInv'
<1> SUFFICES ASSUME IInv, [Next]_vars PROVE IInv'
  OBVIOUS
<1>1. ASSUME NEW t \in Nat, NEW i \in history, NEW outcome \in BOOLEAN,
             NEW policy, NEW book \in Books \cup {Absent},
             RecordAttempt(i, outcome, policy, book, t)
      PROVE  IInv'
  BY <1>1, RecordIsSound
<1>2. ASSUME NEW t \in Nat, NEW refs, NEW chain, NEW w, DeclareWindow(refs, chain, w, t)
      PROVE  IInv'
  BY <1>2, ManifestIsSound
<1>3. ASSUME NEW t \in Nat, NEW m, NEW S, AssembleCorpus(m, S, t)
      PROVE  IInv'
  BY <1>3, CorpusIsSound
<1>4. ASSUME NEW t \in Nat, NEW c, NEW cohort, ScoreCohort(c, cohort, t)
      PROVE  IInv'
  BY <1>4, BoardIsSound
<1>5. ASSUME NEW t, NEW b, NEW bounds \in BucketBounds, Calibrate(b, bounds, t)
      PROVE  IInv'
  BY <1>5, ReportIsSound
<1>6. ASSUME NEW t, NEW b, EstimateValue(b, t)
      PROVE  IInv'
  BY <1>6, OthersChangeNothing DEF EstimateValue
<1>7. ASSUME NEW t \in Nat, NEW b, NEW report, NEW value, NEW p \in PromotionPolicies,
             Decide(b, report, value, p, t)
      PROVE  IInv'
  BY <1>7, DecisionIsSound
<1>8. CASE UNCHANGED vars
  BY <1>8, OthersChangeNothing DEF vars
<1>9. CASE Next
  <2>1. Times \subseteq Nat
    BY HistoryAssumption
  <2>2. PICK t \in Times :
        \/ \E i \in history, outcome \in BOOLEAN, policy \in ValuationPolicies,
              book \in Books \cup {Absent} : RecordAttempt(i, outcome, policy, book, t)
        \/ \E refs \in SUBSET history, w \in Windows :
              \E chain \in {Facts[i].chain : i \in refs} : DeclareWindow(refs, chain, w, t)
        \/ \E m \in manifests, S \in SUBSET records : AssembleCorpus(m, S, t)
        \/ \E c \in corpora : \E cohort \in Cohorts(c) : ScoreCohort(c, cohort, t)
        \/ \E b \in boards, bounds \in BucketBounds : Calibrate(b, bounds, t)
        \/ \E b \in boards : EstimateValue(b, t)
        \/ \E b \in boards, report \in reports, value \in values, p \in PromotionPolicies :
              Decide(b, report, value, p, t)
    BY <1>9 DEF Next
  <2>3. t \in Nat
    BY <2>1
  <2>. QED
    BY <2>2, <2>3, <1>1, <1>2, <1>3, <1>4, <1>5, <1>6, <1>7, Zenon
<1>. QED
  BY <1>8, <1>9

-----------------------------------------------------------------------------
(* Records of a scoreboard share a valuation policy, and with it a source of rates. *)
LEMMA SoundBoardsHaveOneSource ==
    ASSUME NEW b, SoundBoard(b), NEW x \in RecordsOf(b), NEW y \in RecordsOf(b),
           x.book # Absent, y.book # Absent
    PROVE  x.book.source = y.book.source
<1>1. /\ x \in b.corpus.records /\ y \in b.corpus.records
      /\ CohortOf(x) = b.cohort /\ CohortOf(y) = b.cohort
  BY DEF RecordsOf, RecordsFor
<1>2. x.policy = y.policy
  BY <1>1 DEF CohortOf
<1>3. SoundRecord(x) /\ SoundRecord(y)
  BY <1>1 DEF SoundBoard, SoundCorpus
<1>4. x.book.source = x.policy.source /\ y.book.source = y.policy.source
  BY <1>3 DEF SoundRecord, ValidBook
<1>. QED
  BY <1>2, <1>4

(* The creation times on the way to a decision never decrease. *)
LEMMA SoundDecisionsFollow ==
    ASSUME NEW d, SoundDecision(d)
    PROVE  LET c == d.board.corpus IN
           /\ d.report.board = d.value.board
           /\ c.manifest.created <= d.created
           /\ \A i \in c.manifest.references : Facts[i].created <= d.created
           /\ \A x \in RecordsOf(d.report.board) :
                 /\ x.recorded <= d.created
                 /\ Scoreable(x) => FactsOf(x).settled <= d.created
<1> DEFINE c == d.board.corpus
<1>1. /\ SoundCorpus(c) /\ d.report.board = d.board /\ d.value.board = d.board
      /\ c.created \in Nat /\ d.board.created \in Nat /\ d.created \in Nat
      /\ c.created <= d.board.created /\ d.board.created <= d.created
  BY DEF SoundDecision, SoundBoard, SoundCorpus
<1>2. c.manifest.created <= d.created
  BY <1>1 DEF SoundCorpus
<1>3. ASSUME NEW x \in c.records
      PROVE  /\ x.recorded <= d.created /\ FactsOf(x).created <= d.created
             /\ Scoreable(x) => FactsOf(x).settled <= d.created
  BY <1>1 DEF SoundCorpus, SoundRecord
<1>4. ASSUME NEW i \in c.manifest.references PROVE Facts[i].created <= d.created
  <2>1. PICK x \in c.records : x.inclusion = i
    BY <1>1 DEF SoundCorpus, Referenced
  <2>. QED
    BY <2>1, <1>3 DEF FactsOf
<1>5. \A x \in RecordsOf(d.report.board) : x \in c.records
  BY <1>1 DEF RecordsOf, RecordsFor
<1>. QED
  BY <1>1, <1>2, <1>3, <1>4, <1>5

(* Native costs of all records of a scoreboard were converted at rates of  *)
(* one source (cohort key, 205-358).                                       *)
THEOREM BoardsHaveOneYardstick == Spec => []OneYardstick
<1>1. Spec => []IInv
  BY InvHoldsInitially, InvIsInductive, PTL DEF Spec
<1>2. IInv => OneYardstick
  BY SoundBoardsHaveOneSource DEF IInv, OneYardstick
<1>. QED
  BY <1>1, <1>2, PTL

(* A decision was created after everything that it rests on, through all   *)
(* the stages between (corpus 949-972, decision 1676-1686).                *)
THEOREM DecisionsFollowTheirEvidence == Spec => []DecisionFollowsItsEvidence
<1>1. Spec => []IInv
  BY InvHoldsInitially, InvIsInductive, PTL DEF Spec
<1>2. IInv => DecisionFollowsItsEvidence
  BY SoundDecisionsFollow DEF IInv, DecisionFollowsItsEvidence
<1>. QED
  BY <1>1, <1>2, PTL

-----------------------------------------------------------------------------
(* Totals of scoreboards *)

(* What a record was predicted to earn, and what it earned, are integers. *)
LEMMA FiguresAreIntegers ==
  ASSUME NEW x, SoundRecord(x)
  PROVE  /\ Predicted(x) \in Int /\ Historical(x) \in Int
         /\ Capital(x) \in Nat \ {0}
         /\ AbsoluteError(x) \in Nat
         /\ Historical(x) - AbsoluteError(x) <= Predicted(x)
         /\ Historical(x) - AbsoluteError(x) <= Historical(x)
<1> DEFINE t == TermsOf(x)
           r == ReceiptOf(x)
           a == RateOf(x)
<1>1. t \in Figures /\ r \in Receipt
    BY HistoryAssumption DEF SoundRecord, FactsOf, TermsOf, ReceiptOf
<1>2. a.num \in Nat \ {0} /\ a.den \in Nat \ {0}
  <2>1. CASE x.book = Absent
      BY <2>1 DEF RateOf, Par
  <2>2. CASE x.book # Absent
      BY <2>2, HistoryAssumption DEF RateOf, SoundRecord
  <2> QED BY <2>1, <2>2
<1> HIDE DEF t, r, a
<1>3. /\ t.principal \in Nat \ {0} /\ t.output \in Nat /\ t.fee \in Nat /\ t.reserve \in Nat
      /\ t.gas \in Nat /\ t.l1 \in Nat /\ t.operator \in Nat /\ t.bid \in Nat
      /\ t.rate.num \in Nat \ {0} /\ t.rate.den \in Nat \ {0}
    BY <1>1 DEF Figures, Rate
<1>4. /\ r.output \in Nat /\ r.gas \in Nat /\ r.l1 \in Nat /\ r.operator \in Nat /\ r.direct \in Nat
    BY <1>1 DEF Receipt
<1>5. ASSUME NEW n \in Nat, NEW rate, rate.num \in Nat \ {0}, rate.den \in Nat \ {0}
      PROVE  Convert(n, rate) \in Int
  <2>1. n * rate.num \in Int
      BY <1>5
  <2> QED BY <1>5, <2>1, CeilCovers DEF Convert
<1>6. NetProfit(t) \in Int
  <2>1. /\ Convert(t.gas, t.rate) \in Int /\ Convert(t.l1, t.rate) \in Int
        /\ Convert(t.operator, t.rate) \in Int /\ Convert(t.bid, t.rate) \in Int
      BY <1>3, <1>5
  <2> QED BY <1>3, <2>1 DEF NetProfit, GrossProfit, TotalCost, ExternalCost
<1>7. Surplus(r, a, t) \in Int
  <2>1. NativePaid(r) \in Nat
      BY <1>4 DEF NativePaid
  <2>2. Convert(NativePaid(r), a) \in Int
      BY <1>2, <1>5, <2>1
  <2> QED BY <1>3, <1>4, <2>2 DEF Surplus, Residual, ActualExternal
<1>8. Predicted(x) = NetProfit(t) /\ Historical(x) = Surplus(r, a, t) /\ Capital(x) = t.principal
    BY DEF Predicted, Historical, Capital, t, r, a
<1> QED BY <1>3, <1>6, <1>7, <1>8 DEF AbsoluteError, Magnitude, Error


Scored(S) == {x \in S : Scoreable(x)}

(* The figures of a scoreboard by themselves. *)
LEMMA TallyFields ==
  ASSUME NEW S, NEW t, t = Tally(S)
  PROVE  /\ t.attempts = Cardinality(S)
         /\ t.successes = Cardinality({x \in S : FactsOf(x).success})
         /\ t.scoreable = Cardinality(Scored(S))
         /\ t.scoreableBlocks = Cardinality(BlocksOf(Scored(S)))
         /\ t.preserved = Cardinality({x \in Scored(S) : Preserved(x)})
         /\ t.respected = Cardinality({x \in Scored(S) : Respected(x)})
         /\ t.positive = Cardinality({x \in Scored(S) : Historical(x) > 0})
         /\ t.overran = Cardinality({x \in Scored(S) : Overran(x)})
         /\ t.historical = TotalHistorical(Scored(S))
         /\ t.absolute = TotalAbsoluteError(Scored(S))
         /\ t.allCapital = TotalCapital(S)
         /\ t.capital = TotalCapital(Scored(S))
         /\ t.guarded = Mean(t.historical, t.scoreable) - MeanUp(t.absolute, t.scoreable)
         /\ t.errorBps = IF t.capital = 0 THEN 0
                         ELSE IF Fits(ErrorBps(t.absolute, t.capital))
                              THEN ErrorBps(t.absolute, t.capital) ELSE MaxUint
         /\ t.dispositions = [d \in {"settled", "reverted", "settlement-missing",
                                     "settlement-evidence-incomplete"} |->
                                 Cardinality({x \in S : Disposition(x) = d})]
BY DEF Tally, Count, Scored

(* A scoreboard is about finitely many sound records. *)
LEMMA BoardRecords ==
  ASSUME NEW b, SoundBoard(b)
  PROVE  /\ IsFiniteSet(RecordsOf(b)) /\ \A x \in RecordsOf(b) : SoundRecord(x)
         /\ IsFiniteSet(Scored(RecordsOf(b))) /\ Scored(RecordsOf(b)) \subseteq RecordsOf(b)
<1>1. RecordsOf(b) \subseteq b.corpus.records
    BY DEF RecordsOf, RecordsFor
<1>2. IsFiniteSet(b.corpus.records) /\ \A x \in b.corpus.records : SoundRecord(x)
    BY DEF SoundBoard, SoundCorpus
<1>3. Scored(RecordsOf(b)) \subseteq RecordsOf(b)
    BY DEF Scored
<1>4. IsFiniteSet(RecordsOf(b))
    BY <1>1, <1>2, FS_Subset
<1> QED BY <1>1, <1>2, <1>3, <1>4, FS_Subset

(* Totals of the figures of sound records are sums. *)
LEMMA TotalsAreSums ==
  ASSUME NEW S, IsFiniteSet(S), \A x \in S : SoundRecord(x)
  PROVE  /\ \A h : (\A x \in S : h[x] = Historical(x)) =>
                TotalHistorical(S) = SumFunctionOnSet(h, S)
         /\ \A h : (\A x \in S : h[x] = AbsoluteError(x)) =>
                TotalAbsoluteError(S) = SumFunctionOnSet(h, S)
         /\ \A h : (\A x \in S : h[x] = Capital(x)) =>
                TotalCapital(S) = SumFunctionOnSet(h, S)
<1>1. ASSUME NEW h, \A x \in S : h[x] = Historical(x)
      PROVE  TotalHistorical(S) = SumFunctionOnSet(h, S)
  <2> DEFINE g == [x \in S |-> Historical(x)]
  <2>1. DOMAIN g = S /\ IntegersOn(g, S) /\ \A x \in S : g[x] = h[x]
      BY <1>1, FiguresAreIntegers DEF IntegersOn
  <2>2. TotalHistorical(S) = SumFunction(g)
      BY DEF TotalHistorical
  <2> HIDE DEF g
  <2> QED BY <2>1, <2>2, TotalIsSum
<1>2. ASSUME NEW h, \A x \in S : h[x] = AbsoluteError(x)
      PROVE  TotalAbsoluteError(S) = SumFunctionOnSet(h, S)
  <2> DEFINE g == [x \in S |-> AbsoluteError(x)]
  <2>1. DOMAIN g = S /\ IntegersOn(g, S) /\ \A x \in S : g[x] = h[x]
      BY <1>2, FiguresAreIntegers DEF IntegersOn
  <2>2. TotalAbsoluteError(S) = SumFunction(g)
      BY DEF TotalAbsoluteError
  <2> HIDE DEF g
  <2> QED BY <2>1, <2>2, TotalIsSum
<1>3. ASSUME NEW h, \A x \in S : h[x] = Capital(x)
      PROVE  TotalCapital(S) = SumFunctionOnSet(h, S)
  <2> DEFINE g == [x \in S |-> Capital(x)]
  <2>1. DOMAIN g = S /\ IntegersOn(g, S) /\ \A x \in S : g[x] = h[x]
      BY <1>3, FiguresAreIntegers DEF IntegersOn
  <2>2. TotalCapital(S) = SumFunction(g)
      BY DEF TotalCapital
  <2> HIDE DEF g
  <2> QED BY <2>1, <2>2, TotalIsSum
<1> QED BY <1>1, <1>2, <1>3

(* n means of a total are at most the total, n means rounded up at least. *)
LEMMA MeanFacts ==
  ASSUME NEW total \in Int, NEW up \in Nat, NEW n \in Nat \ {0}
  PROVE  /\ Mean(total, n) \in Int /\ MeanUp(up, n) \in Int
         /\ n * (Mean(total, n) - MeanUp(up, n)) <= total - up
<1> DEFINE m == total \div n
           c == CeilDiv(up, n)
<1>1. m \in Int /\ m * n <= total
  <2>1. m \in Int /\ \A q \in Int : q <= m <=> q * n <= total
      BY DivFacts
  <2> HIDE DEF m
  <2> QED BY <2>1
<1>2. c \in Int /\ up <= c * n
    BY CeilCovers
<1>3. Mean(total, n) = m /\ MeanUp(up, n) = c
    BY DEF Mean, MeanUp
<1> HIDE DEF m, c
<1>4. n * (m - c) = m * n - c * n /\ m * n \in Int /\ c * n \in Int
    BY <1>1, <1>2, Z3
<1>5. n * (m - c) <= total - up
    BY <1>1, <1>2, <1>4
<1> QED BY <1>1, <1>2, <1>3, <1>5, Zenon

(* Historical less absolute error is at most either figure, for each record and in total. *)
LEMMA SoundBoardsUnderstate ==
  ASSUME NEW b, SoundBoard(b)
  PROVE  LET scored == {x \in RecordsOf(b) : Scoreable(x)} IN
         b.tally.scoreable * b.tally.guarded
           <= SumFunction([x \in scored |-> IF Predicted(x) < Historical(x) THEN Predicted(x)
                                            ELSE Historical(x)])
<1> DEFINE S == Scored(RecordsOf(b))
           n == b.tally.scoreable
           h == [x \in S |-> Historical(x)]
           a == [x \in S |-> AbsoluteError(x)]
           e == [x \in S |-> Historical(x) - AbsoluteError(x)]
           l == [x \in S |-> IF Predicted(x) < Historical(x) THEN Predicted(x)
                             ELSE Historical(x)]
           sum(f) == SumFunctionOnSet(f, S)
<1>1. IsFiniteSet(S) /\ \A x \in S : SoundRecord(x)
    BY BoardRecords
<1>2. \A x \in S : /\ h[x] \in Int /\ a[x] \in Int /\ e[x] \in Int /\ l[x] \in Int /\ a[x] >= 0
                   /\ h[x] = e[x] + a[x] /\ e[x] <= l[x]
                   /\ h[x] = Historical(x) /\ a[x] = AbsoluteError(x)
  <2> SUFFICES ASSUME NEW x \in S
               PROVE  /\ h[x] \in Int /\ a[x] \in Int /\ e[x] \in Int /\ l[x] \in Int /\ a[x] >= 0
                      /\ h[x] = e[x] + a[x] /\ e[x] <= l[x]
                      /\ h[x] = Historical(x) /\ a[x] = AbsoluteError(x)
      OBVIOUS
  <2>1. SoundRecord(x)
      BY <1>1
  <2> QED BY <2>1, FiguresAreIntegers
<1>3. b.tally.historical = sum(h) /\ b.tally.absolute = sum(a) /\ n = Cardinality(S)
      /\ b.tally.guarded = Mean(b.tally.historical, n) - MeanUp(b.tally.absolute, n)
  <2>1. b.tally = Tally(RecordsOf(b))
      BY DEF SoundBoard
  <2>2. b.tally.historical = TotalHistorical(S) /\ b.tally.absolute = TotalAbsoluteError(S)
        /\ n = Cardinality(S)
        /\ b.tally.guarded = Mean(b.tally.historical, n) - MeanUp(b.tally.absolute, n)
    <3> DEFINE rs == RecordsOf(b)
               t == b.tally
    <3>1. t = Tally(rs)
        BY <2>1
    <3> HIDE DEF rs, t
    <3>2. t.historical = TotalHistorical(Scored(rs)) /\ t.absolute = TotalAbsoluteError(Scored(rs))
          /\ t.scoreable = Cardinality(Scored(rs))
          /\ t.guarded = Mean(t.historical, t.scoreable) - MeanUp(t.absolute, t.scoreable)
        BY <3>1, TallyFields
    <3> QED BY <3>2, Zenon DEF rs, t
  <2> HIDE DEF h, a, S
  <2> QED BY <1>1, <1>2, <2>2, TotalsAreSums
<1>4. SumFunction(l) = sum(l)
  <2>1. DOMAIN l = S /\ IntegersOn(l, S)
      BY <1>2 DEF IntegersOn
  <2> HIDE DEF l
  <2> QED BY <2>1, Zenon DEF SumFunction
<1>5. {x \in RecordsOf(b) : Scoreable(x)} = S
    BY DEF Scored
<1> HIDE DEF h, a, e, l
<1>6. IntegersOn(h, S) /\ IntegersOn(a, S) /\ IntegersOn(e, S) /\ IntegersOn(l, S)
    BY <1>2 DEF IntegersOn
<1>7. sum(h) = sum(e) + sum(a) /\ sum(e) <= sum(l)
    BY <1>1, <1>2, <1>6, SumOfSums, SumIsMonotone
<1>8. sum(h) \in Int /\ sum(e) \in Int /\ sum(l) \in Int /\ sum(a) \in Nat
  <2>1. sum(h) \in Int /\ sum(e) \in Int /\ sum(l) \in Int /\ sum(a) \in Int
      BY <1>1, <1>6, SumIsInteger
  <2>2. \A x \in S : a[x] \in Nat
      BY <1>2
  <2>3. sum(a) \in Nat
      BY <1>1, <2>2, SumIsNatural
  <2> QED BY <2>1, <2>3
<1>9. n \in Nat
    BY <1>1, <1>3, FS_CardinalityType
<1>10. n * b.tally.guarded <= sum(l)
  <2>1. CASE n = 0
    <3>1. S = {}
        BY <1>1, <1>3, <2>1, FS_EmptySet
    <3>2. sum(l) = 0
        BY <3>1, SumOfNothing, Zenon
    <3>3. b.tally.guarded = 0
        BY <1>3, <2>1 DEF Mean, MeanUp
    <3>4. n * b.tally.guarded = 0
        BY <2>1, <3>3
    <3> QED BY <3>2, <3>4
  <2>2. CASE n # 0
    <3>1. /\ Mean(sum(h), n) \in Int /\ MeanUp(sum(a), n) \in Int
          /\ n * (Mean(sum(h), n) - MeanUp(sum(a), n)) <= sum(h) - sum(a)
        BY <1>8, <1>9, <2>2, MeanFacts
    <3>2. b.tally.guarded = Mean(sum(h), n) - MeanUp(sum(a), n)
        BY <1>3
    <3>3. n * b.tally.guarded <= sum(h) - sum(a) /\ n * b.tally.guarded \in Int
        BY <1>9, <3>1, <3>2
    <3> HIDE DEF n
    <3> QED BY <1>7, <1>8, <3>3
  <2> QED BY <2>1, <2>2
<1> QED BY <1>4, <1>5, <1>10 DEF l

(* The guarded mean of no scoreboard promises more than was both predicted *)
(* and earned, whatever the figures and the rates (1079-1081).             *)
THEOREM GuardedMeansUnderstate == Spec => []GuardedMeanUnderstates
<1>1. Spec => []IInv
  BY InvHoldsInitially, InvIsInductive, PTL DEF Spec
<1>2. IInv => GuardedMeanUnderstates
  BY SoundBoardsUnderstate DEF IInv, GuardedMeanUnderstates
<1>. QED
  BY <1>1, <1>2, PTL

-----------------------------------------------------------------------------
(* Buckets of reports *)

(* A return falls into the one bucket that it is not below and whose upper bound it is below. *)
LEMMA BucketFacts ==
  ASSUME NEW bounds \in Seq(Nat), Ascending(bounds), NEW return \in Nat
  PROVE  LET n == Len(bounds)
             k == BucketOf(return, bounds)
         IN /\ k \in 1 .. (n + 1)
            /\ k <= n => return < bounds[k]
            /\ \A j \in 1 .. n : j < k => bounds[j] <= return
<1> DEFINE n == Len(bounds)
           k == BucketOf(return, bounds)
           Above == {j \in 1 .. n : return < bounds[j]}
           First(j) == /\ j \in 1 .. n /\ return < bounds[j]
                       /\ \A i \in 1 .. (j - 1) : bounds[i] <= return
           Goal == /\ k \in 1 .. (n + 1)
                   /\ k <= n => return < bounds[k]
                   /\ \A j \in 1 .. n : j < k => bounds[j] <= return
<1>1. n \in Nat /\ \A j \in 1 .. n : bounds[j] \in Nat
    OBVIOUS
<1>2. ASSUME \A j \in 1 .. n : bounds[j] <= return PROVE Goal
  <2>1. k = n + 1
      BY <1>2 DEF BucketOf
  <2> HIDE DEF k, n
  <2> QED BY <1>1, <1>2, <2>1
<1>3. ASSUME ~(\A j \in 1 .. n : bounds[j] <= return) PROVE Goal
  <2>1. Above \subseteq Nat /\ Above # {}
      BY <1>1, <1>3
  <2>2. PICK j \in Above : \A i \in Above : j <= i
      BY <2>1, LeastNatural
  <2>3. First(j)
    <3>1. j \in 1 .. n /\ return < bounds[j]
        BY <2>2
    <3>2. ASSUME NEW i \in 1 .. (j - 1) PROVE bounds[i] <= return
      <4>1. i \in 1 .. n /\ i < j /\ bounds[i] \in Nat
          BY <1>1, <3>1
      <4>2. i \notin Above
          BY <2>2, <4>1
      <4> QED BY <4>1, <4>2
    <3> QED BY <3>1, <3>2
  <2>4. k = CHOOSE i \in 1 .. n : return < bounds[i] /\ \A m \in 1 .. (i - 1) : bounds[m] <= return
      BY <1>3 DEF BucketOf
  <2>5. First(k)
      BY <2>3, <2>4
  <2> HIDE DEF k
  <2> QED BY <1>1, <2>5
<1> QED BY <1>2, <1>3

(* The exact return of a record lies within the bounds of its bucket and of no other. *)
LEMMA WithinFacts ==
  ASSUME NEW bounds \in BucketBounds, NEW x, SoundRecord(x), PredictedReturn(x) >= 0,
         NEW k \in 1 .. (Len(bounds) + 1)
  PROVE  (/\ Lower(k, bounds) * Capital(x) <= Predicted(x) * BasisPoints
          /\ Upper(k, bounds) # Absent =>
                Predicted(x) * BasisPoints < Upper(k, bounds) * Capital(x))
         <=> BucketOf(PredictedReturn(x), bounds) = k
<1> DEFINE n == Len(bounds)
           p == Predicted(x) * BasisPoints
           d == Capital(x)
           r == PredictedReturn(x)
           b == BucketOf(r, bounds)
<1>1. /\ bounds \in Seq(Nat) /\ n \in Nat /\ Ascending(bounds)
      /\ \A j \in 1 .. n : bounds[j] \in Nat /\ bounds[j] # Absent
      /\ \A i, j \in 1 .. n : i < j => bounds[i] < bounds[j]
    BY HistoryAssumption DEF Ascending
<1>2. p \in Int /\ d \in Nat \ {0}
  <2>1. Predicted(x) \in Int /\ d \in Nat \ {0} /\ BasisPoints \in Nat
      BY FiguresAreIntegers, EconomicsAssumption
  <2> QED BY <2>1
<1>3. r = p \div d
    BY DEF PredictedReturn, ReturnBps
<1> HIDE DEF p, d, r
<1>4. r \in Nat /\ \A q \in Int : q <= r <=> q * d <= p
  <2>1. p \div d \in Int /\ \A q \in Int : q <= p \div d <=> q * d <= p
      BY <1>2, DivFacts
  <2> QED BY <1>3, <2>1 DEF r
<1>5. /\ b \in 1 .. (n + 1)
      /\ b <= n => r < bounds[b]
      /\ \A j \in 1 .. n : j < b => bounds[j] <= r
    BY <1>1, <1>4, BucketFacts
<1>6. Lower(k, bounds) \in Nat /\ (Lower(k, bounds) * d <= p <=> Lower(k, bounds) <= r)
  <2>1. Lower(k, bounds) \in Nat
      BY <1>1 DEF Lower
  <2> QED BY <1>4, <2>1
<1>7. k <= n => /\ Upper(k, bounds) = bounds[k] /\ Upper(k, bounds) # Absent
                /\ (p < Upper(k, bounds) * d <=> r < Upper(k, bounds))
  <2> SUFFICES ASSUME k <= n PROVE /\ Upper(k, bounds) = bounds[k] /\ Upper(k, bounds) # Absent
                                  /\ (p < Upper(k, bounds) * d <=> r < Upper(k, bounds))
      OBVIOUS
  <2>1. Upper(k, bounds) = bounds[k] /\ bounds[k] \in Nat /\ bounds[k] # Absent
      BY <1>1 DEF Upper
  <2> DEFINE u == Upper(k, bounds)
  <2>2. u \in Nat
      BY <2>1
  <2> HIDE DEF u
  <2>3. (u <= r <=> u * d <= p) /\ u * d \in Int
      BY <1>2, <1>4, <2>2
  <2>4. p < u * d <=> r < u
      BY <1>2, <1>4, <2>2, <2>3
  <2> QED BY <2>1, <2>4 DEF u
<1>8. k = n + 1 => Upper(k, bounds) = Absent
    BY <1>1 DEF Upper
<1> DEFINE Inside == /\ Lower(k, bounds) <= r
                     /\ k <= n => r < bounds[k]
<1>9. (/\ Lower(k, bounds) * d <= p
       /\ Upper(k, bounds) # Absent => p < Upper(k, bounds) * d) <=> Inside
    BY <1>1, <1>6, <1>7, <1>8
<1>10. Inside <=> b = k
  <2> HIDE DEF b
  <2>1. ASSUME b = k PROVE Inside
    <3>1. CASE k = 1
        BY <1>1, <1>4, <1>5, <2>1, <3>1 DEF Lower
    <3>2. CASE k # 1
      <4>1. k - 1 \in 1 .. n /\ k - 1 < b /\ Lower(k, bounds) = bounds[k - 1]
          BY <1>1, <2>1, <3>2 DEF Lower
      <4> QED BY <1>1, <1>5, <2>1, <4>1
    <3> QED BY <3>1, <3>2
  <2>2. ASSUME Inside, k < b PROVE FALSE
    <3>1. k \in 1 .. n
        BY <1>1, <1>5, <2>2
    <3>2. bounds[k] <= r /\ r < bounds[k] /\ bounds[k] \in Nat
        BY <1>1, <1>5, <2>2, <3>1
    <3> QED BY <1>4, <3>2
  <2>3. ASSUME Inside, b < k PROVE FALSE
    <3>1. b \in 1 .. n /\ k - 1 \in 1 .. n /\ Lower(k, bounds) = bounds[k - 1]
        BY <1>1, <1>5, <2>3 DEF Lower
    <3>2. r < bounds[b] /\ bounds[k - 1] <= r /\ bounds[b] \in Nat /\ bounds[k - 1] \in Nat
        BY <1>1, <1>5, <2>3, <3>1
    <3>3. b = k - 1 \/ bounds[b] < bounds[k - 1]
        BY <1>1, <1>5, <2>3, <3>1
    <3> QED BY <1>4, <3>2, <3>3
  <2> QED BY <1>1, <1>5, <2>1, <2>2, <2>3
<1> QED BY <1>9, <1>10 DEF p, d, r

Inside(S, bounds, k) == {x \in S : BucketOf(PredictedReturn(x), bounds) = k}

(* The figures of a bucket by themselves. *)
LEMMA BucketFields ==
  ASSUME NEW S, NEW bounds, NEW k, NEW b, b = Bucket(S, bounds, k)
  PROVE  /\ b.lower = Lower(k, bounds) /\ b.upper = Upper(k, bounds)
         /\ b.attempts = Cardinality(Inside(S, bounds, k))
         /\ b.scoreable = Cardinality(Inside(Scored(S), bounds, k))
         /\ b.historical = TotalHistorical(Inside(Scored(S), bounds, k))
         /\ b.absolute = TotalAbsoluteError(Inside(Scored(S), bounds, k))
<1>1. {x \in Inside(S, bounds, k) : Scoreable(x)} = Inside(Scored(S), bounds, k)
    BY DEF Inside, Scored
<1> QED BY <1>1 DEF Bucket, Inside

(* The buckets of a sound report, each with what it holds. *)
LEMMA ReportBuckets ==
  ASSUME NEW r, SoundReport(r)
  PROVE  /\ DOMAIN r.buckets = 1 .. (Len(r.bounds) + 1)
         /\ r.bounds \in BucketBounds /\ Len(r.bounds) \in Nat
         /\ \A k \in DOMAIN r.buckets :
               r.buckets[k] = Bucket(RecordsOf(r.board), r.bounds, k)
         /\ \A x \in RecordsOf(r.board) :
               BucketOf(PredictedReturn(x), r.bounds) \in DOMAIN r.buckets
<1>1. r.bounds \in BucketBounds /\ r.bounds \in Seq(Nat) /\ Ascending(r.bounds)
    BY HistoryAssumption DEF SoundReport
<1>2. /\ DOMAIN r.buckets = 1 .. (Len(r.bounds) + 1)
      /\ \A k \in DOMAIN r.buckets : r.buckets[k] = Bucket(RecordsOf(r.board), r.bounds, k)
    BY DEF SoundReport, Buckets
<1>3. ASSUME NEW x \in RecordsOf(r.board)
      PROVE  BucketOf(PredictedReturn(x), r.bounds) \in 1 .. (Len(r.bounds) + 1)
  <2>1. PredictedReturn(x) \in Nat
    <3>1. SoundRecord(x)
        BY BoardRecords DEF SoundReport
    <3>2. Predicted(x) * BasisPoints \in Int /\ Capital(x) \in Nat \ {0}
        BY <3>1, FiguresAreIntegers, EconomicsAssumption
    <3>3. PredictedReturn(x) \in Int /\ PredictedReturn(x) >= 0
        BY <3>2, DivFacts DEF PredictedReturn, ReturnBps, SoundReport
    <3> QED BY <3>3
  <2> QED BY <1>1, <2>1, BucketFacts
<1>4. Len(r.bounds) \in Nat
    BY <1>1
<1> QED BY <1>1, <1>2, <1>3, <1>4

(* What the buckets hold has nothing in common and is everything: totals   *)
(* over the buckets add up to the total over the records.                  *)
LEMMA TotalOverBuckets ==
  ASSUME NEW r, SoundReport(r), NEW S, S \subseteq RecordsOf(r.board), NEW f, IntegersOn(f, S),
         NEW t, DOMAIN t = DOMAIN r.buckets,
         \A k \in DOMAIN r.buckets : t[k] = SumFunctionOnSet(f, Inside(S, r.bounds, k))
  PROVE  SumFunction(t) = SumFunctionOnSet(f, S)
<1> DEFINE D == DOMAIN r.buckets
           part == [k \in D |-> Inside(S, r.bounds, k)]
<1>1. IsFiniteSet(D)
  <2>1. D = 1 .. (Len(r.bounds) + 1) /\ Len(r.bounds) + 1 \in Int
      BY ReportBuckets
  <2> QED BY <2>1, FS_Interval
<1>2. IsFiniteSet(S) /\ \A x \in S : BucketOf(PredictedReturn(x), r.bounds) \in D
  <2>1. IsFiniteSet(RecordsOf(r.board))
      BY BoardRecords DEF SoundReport
  <2> QED BY <2>1, ReportBuckets, FS_Subset
<1>3. DOMAIN t = D /\ \A k \in D : t[k] = SumFunctionOnSet(f, part[k])
    OBVIOUS
<1> HIDE DEF D
<1>4. \A j, k \in D : j # k => part[j] \cap part[k] = {}
    BY DEF Inside
<1>5. UNION {part[k] : k \in D} = S
    BY <1>2 DEF Inside
<1>6. \A k \in D : part[k] \subseteq S
    BY DEF Inside
<1> HIDE DEF part
<1>7. \A k \in D : IsFiniteSet(part[k]) /\ IntegersOn(f, part[k])
    BY <1>2, <1>6, FS_Subset DEF IntegersOn
<1>8. SumFunctionOnSet(t, D) = SumFunctionOnSet(f, UNION {part[k] : k \in D})
    BY <1>1, <1>3, <1>4, <1>7, SumOfParts
<1>9. SumFunction(t) = SumFunctionOnSet(t, D)
    BY <1>3, Zenon DEF SumFunction
<1> QED BY <1>5, <1>8, <1>9, Zenon

(* Bounds hold exact returns, and both totals are taken over a partition. *)
LEMMA SoundReportsReconcile ==
  ASSUME NEW r, SoundReport(r)
  PROVE  LET rs == RecordsOf(r.board)
             Within(x, k) ==
                 /\ r.buckets[k].lower * Capital(x) <= Predicted(x) * BasisPoints
                 /\ r.buckets[k].upper # Absent =>
                      Predicted(x) * BasisPoints < r.buckets[k].upper * Capital(x)
         IN
         /\ \A k \in DOMAIN r.buckets :
               /\ r.buckets[k].attempts = Cardinality({x \in rs : Within(x, k)})
               /\ r.buckets[k].scoreable
                    = Cardinality({x \in rs : Within(x, k) /\ Scoreable(x)})
         /\ \A x \in rs : Cardinality({k \in DOMAIN r.buckets : Within(x, k)}) = 1
         /\ SumFunction([k \in DOMAIN r.buckets |-> r.buckets[k].historical])
              = r.board.tally.historical
         /\ SumFunction([k \in DOMAIN r.buckets |-> r.buckets[k].absolute])
              = r.board.tally.absolute
<1> DEFINE rs == RecordsOf(r.board)
           S == Scored(rs)
           D == DOMAIN r.buckets
           bucket(x) == BucketOf(PredictedReturn(x), r.bounds)
           Within(x, k) ==
                 /\ r.buckets[k].lower * Capital(x) <= Predicted(x) * BasisPoints
                 /\ r.buckets[k].upper # Absent =>
                      Predicted(x) * BasisPoints < r.buckets[k].upper * Capital(x)
<1>1. /\ SoundBoard(r.board) /\ IsFiniteSet(rs) /\ IsFiniteSet(S) /\ S \subseteq rs
      /\ \A x \in rs : SoundRecord(x)
    BY BoardRecords DEF SoundReport
<1>2. \A k \in D :
         /\ r.buckets[k].lower = Lower(k, r.bounds) /\ r.buckets[k].upper = Upper(k, r.bounds)
         /\ r.buckets[k].attempts = Cardinality(Inside(rs, r.bounds, k))
         /\ r.buckets[k].scoreable = Cardinality(Inside(S, r.bounds, k))
         /\ r.buckets[k].historical = TotalHistorical(Inside(S, r.bounds, k))
         /\ r.buckets[k].absolute = TotalAbsoluteError(Inside(S, r.bounds, k))
    BY ReportBuckets, BucketFields
<1>3. ASSUME NEW x \in rs, NEW k \in D PROVE Within(x, k) <=> bucket(x) = k
  <2>1. k \in 1 .. (Len(r.bounds) + 1) /\ r.bounds \in BucketBounds
        /\ PredictedReturn(x) >= 0 /\ SoundRecord(x)
      BY <1>1, ReportBuckets DEF SoundReport
  <2>2. Within(x, k) <=> /\ Lower(k, r.bounds) * Capital(x) <= Predicted(x) * BasisPoints
                         /\ Upper(k, r.bounds) # Absent =>
                              Predicted(x) * BasisPoints < Upper(k, r.bounds) * Capital(x)
    <3> HIDE DEF D
    <3> QED BY <1>2, Zenon
  <2> QED BY <2>1, <2>2, WithinFacts
<1> HIDE DEF Within
<1>4. ASSUME NEW k \in D
      PROVE  /\ r.buckets[k].attempts = Cardinality({x \in rs : Within(x, k)})
             /\ r.buckets[k].scoreable = Cardinality({x \in rs : Within(x, k) /\ Scoreable(x)})
  <2>1. {x \in rs : Within(x, k)} = Inside(rs, r.bounds, k)
      BY <1>3 DEF Inside
  <2>2. {x \in rs : Within(x, k) /\ Scoreable(x)} = Inside(S, r.bounds, k)
      BY <1>3 DEF Inside, Scored
  <2> QED BY <1>2, <2>1, <2>2, Zenon
<1>5. ASSUME NEW x \in rs PROVE Cardinality({k \in D : Within(x, k)}) = 1
  <2>1. bucket(x) \in D
      BY ReportBuckets
  <2>2. {k \in D : Within(x, k)} = {bucket(x)}
      BY <1>3, <2>1
  <2> QED BY <2>2, FS_Singleton, Zenon
<1>6. SumFunction([k \in D |-> r.buckets[k].historical]) = r.board.tally.historical
  <2> DEFINE f == [x \in S |-> Historical(x)]
             t == [k \in D |-> r.buckets[k].historical]
  <2>1. (\A x \in S : f[x] = Historical(x)) /\ IntegersOn(f, S)
    <3>1. \A x \in S : f[x] = Historical(x)
        OBVIOUS
    <3>2. \A x \in S : Historical(x) \in Int
        BY <1>1, FiguresAreIntegers
    <3> HIDE DEF f, S
    <3> QED BY <3>1, <3>2 DEF IntegersOn
  <2>2. DOMAIN t = D /\ \A k \in D : t[k] = TotalHistorical(Inside(S, r.bounds, k))
      BY <1>2
  <2> HIDE DEF f, t, S
  <2>3. ASSUME NEW k \in D PROVE t[k] = SumFunctionOnSet(f, Inside(S, r.bounds, k))
    <3> DEFINE T == Inside(S, r.bounds, k)
    <3>1. T \subseteq S
        BY DEF Inside
    <3> HIDE DEF T
    <3>2. IsFiniteSet(T) /\ (\A x \in T : SoundRecord(x)) /\ \A x \in T : f[x] = Historical(x)
        BY <1>1, <2>1, <3>1, FS_Subset
    <3>3. TotalHistorical(T) = SumFunctionOnSet(f, T)
        BY <3>2, TotalsAreSums
    <3> QED BY <2>2, <3>3 DEF T
  <2>4. SumFunction(t) = SumFunctionOnSet(f, S)
    <3>1. S \subseteq RecordsOf(r.board) /\ DOMAIN t = DOMAIN r.buckets
        BY <1>1, <2>2
    <3> QED BY <2>1, <2>3, <3>1, TotalOverBuckets
  <2>5. TotalHistorical(S) = SumFunctionOnSet(f, S)
      BY <1>1, <2>1, TotalsAreSums
  <2>6. TotalHistorical(S) = r.board.tally.historical
      BY <1>1, TallyFields DEF SoundBoard, S
  <2>7. SumFunction(t) = r.board.tally.historical
      BY <2>4, <2>5, <2>6, Zenon
  <2> QED BY <2>7 DEF t
<1>7. SumFunction([k \in D |-> r.buckets[k].absolute]) = r.board.tally.absolute
  <2> DEFINE f == [x \in S |-> AbsoluteError(x)]
             t == [k \in D |-> r.buckets[k].absolute]
  <2>1. (\A x \in S : f[x] = AbsoluteError(x)) /\ IntegersOn(f, S)
    <3>1. \A x \in S : f[x] = AbsoluteError(x)
        OBVIOUS
    <3>2. \A x \in S : AbsoluteError(x) \in Int
        BY <1>1, FiguresAreIntegers
    <3> HIDE DEF f, S
    <3> QED BY <3>1, <3>2 DEF IntegersOn
  <2>2. DOMAIN t = D /\ \A k \in D : t[k] = TotalAbsoluteError(Inside(S, r.bounds, k))
      BY <1>2
  <2> HIDE DEF f, t, S
  <2>3. ASSUME NEW k \in D PROVE t[k] = SumFunctionOnSet(f, Inside(S, r.bounds, k))
    <3> DEFINE T == Inside(S, r.bounds, k)
    <3>1. T \subseteq S
        BY DEF Inside
    <3> HIDE DEF T
    <3>2. IsFiniteSet(T) /\ (\A x \in T : SoundRecord(x)) /\ \A x \in T : f[x] = AbsoluteError(x)
        BY <1>1, <2>1, <3>1, FS_Subset
    <3>3. TotalAbsoluteError(T) = SumFunctionOnSet(f, T)
        BY <3>2, TotalsAreSums
    <3> QED BY <2>2, <3>3 DEF T
  <2>4. SumFunction(t) = SumFunctionOnSet(f, S)
    <3>1. S \subseteq RecordsOf(r.board) /\ DOMAIN t = DOMAIN r.buckets
        BY <1>1, <2>2
    <3> QED BY <2>1, <2>3, <3>1, TotalOverBuckets
  <2>5. TotalAbsoluteError(S) = SumFunctionOnSet(f, S)
      BY <1>1, <2>1, TotalsAreSums
  <2>6. TotalAbsoluteError(S) = r.board.tally.absolute
      BY <1>1, TallyFields DEF SoundBoard, S
  <2>7. SumFunction(t) = r.board.tally.absolute
      BY <2>4, <2>5, <2>6, Zenon
  <2> QED BY <2>7 DEF t
<1> QED BY <1>4, <1>5, <1>6, <1>7 DEF Within

(* Every report puts each record into the one bucket that its exact return *)
(* belongs to, and its buckets add up to its scoreboard (1353-1410).       *)
THEOREM ReportsReconcile == Spec => []BucketsReconcile
<1>1. Spec => []IInv
  BY InvHoldsInitially, InvIsInductive, PTL DEF Spec
<1>2. ASSUME IInv PROVE BucketsReconcile
  <2>1. ASSUME NEW r \in reports PROVE SoundReport(r)
    BY <1>2 DEF IInv
  <2>. QED
    BY <2>1, SoundReportsReconcile DEF BucketsReconcile
<1>. QED
  BY <1>1, <1>2, PTL

-----------------------------------------------------------------------------
(* The scoreboards of a corpus together *)

(* B are the scoreboards of all cohorts of the corpus c, one for each. *)
Complete(B, c) ==
    /\ SoundCorpus(c) /\ IsFiniteSet(B)
    /\ \A b \in B : SoundBoard(b) /\ b.corpus = c
    /\ {b.cohort : b \in B} = Cohorts(c) /\ Cardinality(B) = Cardinality(Cohorts(c))

(* The scoreboards of all cohorts of a corpus, one for each, have every    *)
(* record of the corpus between them and none twice.                       *)
LEMMA BoardsPartition ==
  ASSUME NEW c, NEW B, Complete(B, c)
  PROVE  /\ \A a, b \in B : a # b => RecordsOf(a) \cap RecordsOf(b) = {}
         /\ UNION {RecordsOf(b) : b \in B} = c.records
<1> DEFINE f == [b \in B |-> b.cohort]
<1>1. f \in Surjection(B, Cohorts(c))
    BY DEF Surjection, Complete
<1>2. \A b \in B : f[b] = b.cohort
    OBVIOUS
<1> HIDE DEF f
<1>3. f \in Injection(B, Cohorts(c))
    BY <1>1, FS_SurjSameCardinalityImpliesInj DEF Complete
<1>4. \A a, b \in B : a.cohort = b.cohort => a = b
    BY <1>2, <1>3 DEF Injection, IsInjective
<1>5. \A b \in B : RecordsOf(b) = {x \in c.records : CohortOf(x) = b.cohort}
    BY DEF RecordsOf, RecordsFor, Complete
<1>6. \A a, b \in B : a # b => RecordsOf(a) \cap RecordsOf(b) = {}
    BY <1>4, <1>5
<1>7. UNION {RecordsOf(b) : b \in B} = c.records
  <2>1. ASSUME NEW x \in c.records PROVE \E b \in B : x \in RecordsOf(b)
    <3>1. CohortOf(x) \in Cohorts(c)
        BY DEF Cohorts
    <3>2. PICK b \in B : b.cohort = CohortOf(x)
        BY <3>1 DEF Complete
    <3> QED BY <1>5, <3>2
  <2>2. \A b \in B : RecordsOf(b) \subseteq c.records
      BY <1>5
  <2> QED BY <2>1, <2>2
<1> QED BY <1>6, <1>7

(* Counts over those scoreboards of the records in Q add up to the count   *)
(* of the inclusions that these records are about.                         *)
LEMMA CountOverBoards ==
  ASSUME NEW c, NEW B, Complete(B, c),
         NEW Q, Q \subseteq c.records,
         NEW t, DOMAIN t = B, \A b \in B : t[b] = Cardinality(RecordsOf(b) \cap Q)
  PROVE  SumFunction(t) = Cardinality({x.inclusion : x \in Q})
<1> DEFINE part == [b \in B |-> RecordsOf(b) \cap Q]
           name == [x \in Q |-> x.inclusion]
<1>1. /\ \A a, b \in B : a # b => RecordsOf(a) \cap RecordsOf(b) = {}
      /\ UNION {RecordsOf(b) : b \in B} = c.records
    BY BoardsPartition
<1>2. IsFiniteSet(Q) /\ \A x, y \in Q : x # y => name[x] # name[y]
    BY FS_Subset DEF SoundCorpus, Complete
<1> IsFiniteSet(B)
    BY DEF Complete
<1>3. \A b \in B : part[b] \subseteq Q /\ t[b] = Cardinality(part[b])
    OBVIOUS
<1>4. \A a, b \in B : a # b => part[a] \cap part[b] = {}
    BY <1>1
<1>5. UNION {part[b] : b \in B} = Q
  <2>1. \A x \in Q : \E b \in B : x \in RecordsOf(b)
      BY <1>1
  <2> QED BY <2>1
<1>6. {name[x] : x \in Q} = {x.inclusion : x \in Q}
    OBVIOUS
<1> HIDE DEF part, name
<1>7. \A b \in B : IsFiniteSet(part[b]) /\ t[b] = Cardinality(part[b])
    BY <1>2, <1>3, FS_Subset
<1>8. SumFunctionOnSet(t, B) = Cardinality(UNION {part[b] : b \in B})
    BY <1>4, <1>7, CountOfParts
<1>9. Cardinality(Q) = Cardinality({name[x] : x \in Q})
    BY <1>2, CountByName
<1>10. SumFunction(t) = SumFunctionOnSet(t, B)
    BY Zenon DEF SumFunction
<1> QED BY <1>5, <1>6, <1>8, <1>9, <1>10, Zenon

Dispositions == {"settled", "reverted", "settlement-missing", "settlement-evidence-incomplete"}

(* Every record of a scoreboard has one of the dispositions. *)
LEMMA DispositionsCount ==
  ASSUME NEW b, SoundBoard(b)
  PROVE  b.tally.attempts = SumFunction(b.tally.dispositions)
<1> DEFINE S == RecordsOf(b)
           part == [d \in Dispositions |-> {x \in S : Disposition(x) = d}]
           t == b.tally.dispositions
<1>1. b.tally = Tally(S)
    BY DEF SoundBoard
<1>2. IsFiniteSet(S)
    BY BoardRecords
<1>3. /\ b.tally.attempts = Cardinality(S)
      /\ t = [d \in Dispositions |-> Cardinality({x \in S : Disposition(x) = d})]
  <2> HIDE DEF S
  <2> QED BY <1>1, TallyFields DEF Dispositions
<1>4. DOMAIN t = Dispositions /\ \A d \in Dispositions : t[d] = Cardinality(part[d])
    BY <1>3
<1>5. \A x \in S : Disposition(x) \in Dispositions
    BY DEF Disposition, Dispositions
<1>6. IsFiniteSet(Dispositions)
  <2>1. IsFiniteSet({"settled"})
      BY FS_Singleton
  <2>2. IsFiniteSet({"settled"} \cup {"reverted"})
      BY <2>1, FS_AddElement
  <2>3. IsFiniteSet({"settled"} \cup {"reverted"} \cup {"settlement-missing"})
      BY <2>2, FS_AddElement
  <2>4. IsFiniteSet({"settled"} \cup {"reverted"} \cup {"settlement-missing"}
                      \cup {"settlement-evidence-incomplete"})
      BY <2>3, FS_AddElement
  <2>5. Dispositions = {"settled"} \cup {"reverted"} \cup {"settlement-missing"}
                         \cup {"settlement-evidence-incomplete"}
      BY DEF Dispositions
  <2> QED BY <2>4, <2>5, Zenon
<1>7. \A d \in Dispositions : part[d] \subseteq S
    OBVIOUS
<1>8. \A d, e \in Dispositions : d # e => part[d] \cap part[e] = {}
    OBVIOUS
<1>9. UNION {part[d] : d \in Dispositions} = S
    BY <1>5
<1> HIDE DEF S, part, t
<1>10. \A d \in Dispositions : IsFiniteSet(part[d])
    BY <1>2, <1>7, FS_Subset
<1>11. SumFunctionOnSet(t, Dispositions) = Cardinality(UNION {part[d] : d \in Dispositions})
    BY <1>4, <1>6, <1>8, <1>10, CountOfParts
<1>12. SumFunction(t) = SumFunctionOnSet(t, Dispositions)
    BY <1>4, Zenon DEF SumFunction
<1> QED BY <1>3, <1>9, <1>11, <1>12, Zenon DEF t

(* A complete set of scoreboards counts references, successes and capital once. *)
LEMMA SoundBoardsCountOnce ==
  ASSUME NEW c, NEW B, Complete(B, c)
  PROVE  LET refs == c.manifest.references IN
         /\ SumFunction([b \in B |-> b.tally.attempts]) = Cardinality(refs)
         /\ SumFunction([b \in B |-> b.tally.successes])
              = Cardinality({i \in refs : Facts[i].success})
         /\ SumFunction([b \in B |-> b.tally.allCapital])
              = SumFunction([i \in refs |-> Facts[i].terms.principal])
         /\ \A b \in B : b.tally.attempts = SumFunction(b.tally.dispositions)
<1> DEFINE refs == c.manifest.references
           rs == c.records
           W == {x \in rs : FactsOf(x).success}
<1>1. /\ IsFiniteSet(rs) /\ refs = Referenced(rs)
      /\ \A x \in rs : SoundRecord(x)
      /\ \A x, y \in rs : x # y => x.inclusion # y.inclusion
    BY DEF SoundCorpus, Complete
<1>2. \A b \in B : /\ IsFiniteSet(RecordsOf(b)) /\ RecordsOf(b) \subseteq rs
                   /\ b.tally.attempts = Cardinality(RecordsOf(b))
                   /\ b.tally.successes = Cardinality({x \in RecordsOf(b) : FactsOf(x).success})
                   /\ b.tally.allCapital = TotalCapital(RecordsOf(b))
  <2> SUFFICES ASSUME NEW b \in B
               PROVE  /\ IsFiniteSet(RecordsOf(b)) /\ RecordsOf(b) \subseteq rs
                      /\ b.tally.attempts = Cardinality(RecordsOf(b))
                      /\ b.tally.successes
                           = Cardinality({x \in RecordsOf(b) : FactsOf(x).success})
                      /\ b.tally.allCapital = TotalCapital(RecordsOf(b))
      OBVIOUS
  <2>1. SoundBoard(b) /\ b.tally = Tally(RecordsOf(b)) /\ b.corpus = c
      BY DEF SoundBoard, Complete
  <2>2. IsFiniteSet(RecordsOf(b))
      BY <2>1, BoardRecords
  <2>3. RecordsOf(b) \subseteq rs
      BY <2>1 DEF RecordsOf, RecordsFor
  <2> QED BY <2>1, <2>2, <2>3, TallyFields
<1> IsFiniteSet(B)
    BY DEF Complete
<1>3. SumFunction([b \in B |-> b.tally.attempts]) = Cardinality(refs)
  <2> DEFINE t == [b \in B |-> b.tally.attempts]
  <2>1. \A b \in B : RecordsOf(b) \cap rs = RecordsOf(b)
      BY <1>2
  <2>2. DOMAIN t = B /\ \A b \in B : t[b] = Cardinality(RecordsOf(b) \cap rs)
      BY <1>2, <2>1
  <2> HIDE DEF t
  <2>3. rs \subseteq c.records
      OBVIOUS
  <2> HIDE DEF rs, refs
  <2>4. SumFunction(t) = Cardinality({x.inclusion : x \in rs})
      BY <2>2, <2>3, CountOverBoards
  <2>5. {x.inclusion : x \in rs} = refs
      BY <1>1 DEF Referenced
  <2> QED BY <2>4, <2>5, Zenon DEF t
<1>4. SumFunction([b \in B |-> b.tally.successes]) = Cardinality({i \in refs : Facts[i].success})
  <2> DEFINE t == [b \in B |-> b.tally.successes]
  <2>1. \A b \in B : RecordsOf(b) \cap W = {x \in RecordsOf(b) : FactsOf(x).success}
      BY <1>2
  <2>2. DOMAIN t = B /\ \A b \in B : t[b] = Cardinality(RecordsOf(b) \cap W)
      BY <1>2, <2>1
  <2>3. {x.inclusion : x \in W} = {i \in refs : Facts[i].success}
      BY <1>1 DEF Referenced, FactsOf
  <2>4. W \subseteq c.records
      OBVIOUS
  <2> HIDE DEF t, W
  <2>5. SumFunction(t) = Cardinality({x.inclusion : x \in W})
      BY <2>2, <2>4, CountOverBoards
  <2> QED BY <2>3, <2>5, Zenon DEF t
<1>5. SumFunction([b \in B |-> b.tally.allCapital])
        = SumFunction([i \in refs |-> Facts[i].terms.principal])
  <2> DEFINE t == [b \in B |-> b.tally.allCapital]
             h == [i \in refs |-> Facts[i].terms.principal]
             f == [x \in rs |-> Capital(x)]
             part == [b \in B |-> RecordsOf(b)]
             name == [x \in rs |-> x.inclusion]
  <2>1. DOMAIN t = B /\ \A b \in B : t[b] = TotalCapital(part[b])
      BY <1>2
  <2>2. (\A x \in rs : f[x] = Capital(x)) /\ IntegersOn(f, rs)
    <3>1. \A x \in rs : f[x] = Capital(x) /\ Capital(x) \in Int
        BY <1>1, FiguresAreIntegers
    <3> HIDE DEF f
    <3> QED BY <3>1 DEF IntegersOn
  <2>3. \A x, y \in rs : x # y => name[x] # name[y]
      BY <1>1
  <2>4. {name[x] : x \in rs} = refs
      BY <1>1 DEF Referenced
  <2>5. \A x \in rs : f[x] = h[name[x]]
      BY <1>1 DEF Referenced, Capital, TermsOf, FactsOf
  <2>6. DOMAIN h = refs
      OBVIOUS
  <2>7. \A b \in B : IsFiniteSet(part[b]) /\ part[b] \subseteq rs
      BY <1>2
  <2>8. \A a, b \in B : a # b => part[a] \cap part[b] = {}
      BY BoardsPartition
  <2>9. UNION {part[b] : b \in B} = rs
      BY BoardsPartition
  <2> HIDE DEF t, h, f, part, name, refs
  <2>10. ASSUME NEW b \in B
         PROVE  /\ IsFiniteSet(part[b]) /\ IntegersOn(f, part[b])
                /\ t[b] = SumFunctionOnSet(f, part[b])
    <3>1. (\A x \in part[b] : SoundRecord(x)) /\ \A x \in part[b] : f[x] = Capital(x)
        BY <1>1, <2>2, <2>7
    <3>2. TotalCapital(part[b]) = SumFunctionOnSet(f, part[b])
        BY <2>7, <3>1, TotalsAreSums
    <3> QED BY <2>1, <2>2, <2>7, <3>2 DEF IntegersOn
  <2>11. SumFunctionOnSet(t, B) = SumFunctionOnSet(f, UNION {part[b] : b \in B})
      BY <2>8, <2>10, SumOfParts
  <2>12. SumFunctionOnSet(f, rs) = SumFunctionOnSet(h, {name[x] : x \in rs})
      BY <1>1, <2>2, <2>3, <2>5, SumByName
  <2>13. SumFunction(t) = SumFunctionOnSet(t, B) /\ SumFunction(h) = SumFunctionOnSet(h, refs)
      BY <2>1, <2>6, Zenon DEF SumFunction
  <2>14. SumFunction(t) = SumFunction(h)
      BY <2>4, <2>9, <2>11, <2>12, <2>13, Zenon
  <2> QED BY <2>14 DEF t, h, refs
<1>6. \A b \in B : b.tally.attempts = SumFunction(b.tally.dispositions)
    BY DispositionsCount DEF Complete
<1> QED BY <1>3, <1>4, <1>5, <1>6

(* The scoreboards of all cohorts of a corpus count every reference of its *)
(* manifest once, its success and its capital with it (949-972, 1025-1143). *)
THEOREM AttemptsAreCountedOnce == Spec => []EveryAttemptIsCountedOnce
<1>1. Spec => []IInv
  BY InvHoldsInitially, InvIsInductive, PTL DEF Spec
<1>2. ASSUME IInv PROVE EveryAttemptIsCountedOnce
  <2>1. ASSUME NEW c \in corpora, NEW B \in SUBSET {b \in boards : b.corpus = c},
               {b.cohort : b \in B} = Cohorts(c), Cardinality(B) = Cardinality(Cohorts(c))
        PROVE  Complete(B, c)
    <3>1. IsFiniteSet(B) /\ SoundCorpus(c) /\ \A b \in B : SoundBoard(b) /\ b.corpus = c
      BY <1>2, FS_Subset DEF IInv
    <3>. QED
      BY <2>1, <3>1 DEF Complete
  <2>. QED
    BY <2>1, SoundBoardsCountOnce DEF EveryAttemptIsCountedOnce
<1>. QED
  BY <1>1, <1>2, PTL

-----------------------------------------------------------------------------
(* Promotion *)

(* Where nothing is refused every gate is open. *)
LEMMA OpenGates ==
  ASSUME NEW b, NEW report, NEW value, NEW p, RefusedBy(Gates(b, report, value, p)) = {}
  PROVE  LET t == b.tally IN
         /\ p.attempts <= t.attempts /\ p.records <= t.scoreable
         /\ p.scoreableRate <= ShareBps(t.scoreable, t.attempts)
         /\ p.successRate <= ShareBps(t.successes, t.attempts)
         /\ p.floorRate <= ShareBps(t.preserved, t.scoreable)
         /\ p.costRate <= ShareBps(t.respected, t.scoreable)
         /\ p.positiveRate <= ShareBps(t.positive, t.scoreable)
         /\ ShareBps(t.overran, t.scoreable) <= p.overrunRate
         /\ p.blocks <= t.scoreableBlocks
         /\ t.errorBps <= p.errorRate
         /\ p.guarded <= t.guarded
         /\ \A k \in DOMAIN report.buckets :
               report.buckets[k].attempts > 0 => p.perBucket <= report.buckets[k].scoreable
<1> DEFINE g == Gates(b, report, value, p)
<1>1. \A i \in DOMAIN g : g[i]
    BY DEF RefusedBy
<1>2. DOMAIN g = {"available", "attempts", "scoreableRecords", "scoreableRate", "successRate",
                  "floorRate", "costRate", "positiveRate", "uniqueScoreableBlocks",
                  "overrunRate", "errorRate", "guardedMean", "buckets"}
    BY DEF Gates
<1> HIDE DEF g
<1>3. /\ g["attempts"] /\ g["scoreableRecords"] /\ g["scoreableRate"] /\ g["successRate"]
      /\ g["floorRate"] /\ g["costRate"] /\ g["positiveRate"] /\ g["overrunRate"]
      /\ g["uniqueScoreableBlocks"] /\ g["errorRate"] /\ g["guardedMean"] /\ g["buckets"]
    BY <1>1, <1>2
<1> QED BY <1>3 DEF g, Gates

(* What it takes for a share, rounded down, to reach q. *)
LEMMA ShareFacts ==
  ASSUME NEW part \in Nat, NEW whole \in Nat
  PROVE  /\ \A q \in Nat : q <= ShareBps(part, whole) => q * whole <= part * BasisPoints
         /\ whole # 0 => \A q \in Nat : ShareBps(part, whole) <= q
                                          => part * BasisPoints < (q + 1) * whole
<1> DEFINE n == part * BasisPoints
<1>1. n \in Nat
    BY EconomicsAssumption
<1>2. CASE whole = 0
  <2>1. \A q \in Nat : q * whole = 0
      BY <1>2
  <2> HIDE DEF n
  <2>2. \A q \in Nat : q * whole <= n
      BY <1>1, <2>1
  <2> QED BY <1>2, <2>2 DEF n
<1>3. CASE whole # 0
  <2>1. ShareBps(part, whole) = n \div whole
      BY <1>3 DEF ShareBps
  <2>2. n \div whole \in Int /\ \A q \in Int : q <= n \div whole <=> q * whole <= n
      BY <1>1, <1>3, DivFacts
  <2> DEFINE f == n \div whole
  <2>3. ShareBps(part, whole) = f /\ f \in Int /\ \A q \in Int : q <= f <=> q * whole <= n
      BY <2>1, <2>2
  <2> HIDE DEF f, n
  <2>4. \A q \in Nat : q <= f => q * whole <= n
      BY <2>3
  <2>5. ASSUME NEW q \in Nat, f <= q PROVE n < (q + 1) * whole
    <3> DEFINE r == q + 1
    <3>1. r \in Int /\ ~(r <= f)
        BY <2>3, <2>5
    <3> HIDE DEF r
    <3>2. ~(r * whole <= n) /\ r * whole \in Int
        BY <2>3, <3>1
    <3>3. n < r * whole
        BY <1>1, <3>2
    <3> QED BY <3>3 DEF r
  <2> QED BY <2>3, <2>4, <2>5, Zenon DEF n
<1> QED BY <1>2, <1>3

(* Each gate that is open says so of the records themselves. *)
LEMMA SoundDecisionsAreEarned ==
  ASSUME NEW d, SoundDecision(d), Allowed(d)
  PROVE  LET p == d.policy
             rs == RecordsOf(d.board)
             scored == {x \in rs : Scoreable(x)}
             n == Cardinality(scored)
         IN
         /\ p.attempts <= Cardinality(rs) /\ p.records <= n
         /\ Cardinality(rs \ scored) * BasisPoints
              <= (BasisPoints - p.scoreableRate) * Cardinality(rs)
         /\ p.successRate * Cardinality(rs)
              <= Cardinality({x \in rs : FactsOf(x).success}) * BasisPoints
         /\ p.floorRate * n <= Cardinality({x \in scored : Preserved(x)}) * BasisPoints
         /\ p.costRate * n <= Cardinality({x \in scored : Respected(x)}) * BasisPoints
         /\ p.positiveRate * n <= Cardinality({x \in scored : Historical(x) > 0}) * BasisPoints
         /\ Cardinality({x \in scored : Overran(x)}) * BasisPoints < (p.overrunRate + 1) * n
         /\ p.blocks <= Cardinality(BlocksOf(scored))
         /\ TotalAbsoluteError(scored) * BasisPoints <= p.errorRate * TotalCapital(scored)
         /\ p.guarded * n <= TotalHistorical(scored) - TotalAbsoluteError(scored)
         /\ \A x \in rs :
               LET k == BucketOf(PredictedReturn(x), d.report.bounds) IN
               p.perBucket <= Cardinality({y \in scored :
                                  BucketOf(PredictedReturn(y), d.report.bounds) = k})
<1> DEFINE p == d.policy
           rs == RecordsOf(d.board)
           S == Scored(rs)
           t == d.board.tally
           successes == {x \in rs : FactsOf(x).success}
           preserved == {x \in S : Preserved(x)}
           respected == {x \in S : Respected(x)}
           positive == {x \in S : Historical(x) > 0}
           overran == {x \in S : Overran(x)}
           size(T) == Cardinality(T)
<1>1. S = {x \in rs : Scoreable(x)}
    BY DEF Scored
<1>2. p \in Policy
    BY HistoryAssumption DEF SoundDecision
<1>3. /\ p.records \in Nat \ {0} /\ p.scoreableRate \in Nat /\ p.successRate \in Nat
      /\ p.floorRate \in Nat /\ p.costRate \in Nat /\ p.positiveRate \in Nat
      /\ p.overrunRate \in Nat /\ p.guarded \in Int
      /\ p.errorRate \in 0 .. BasisPoints /\ p.scoreableRate <= BasisPoints
      /\ BasisPoints \in Nat \ {0} /\ MaxUint \in Nat /\ BasisPoints < MaxUint
  <2>1. /\ p.records \in Nat \ {0} /\ p.scoreableRate \in 0 .. BasisPoints
        /\ p.successRate \in 0 .. BasisPoints /\ p.floorRate \in 0 .. BasisPoints
        /\ p.costRate \in 0 .. BasisPoints /\ p.guarded \in -MaxAggregate .. MaxAggregate
        /\ p.positiveRate \in 0 .. BasisPoints /\ p.overrunRate \in 0 .. BasisPoints
        /\ p.errorRate \in 0 .. BasisPoints
    <3> HIDE DEF p
    <3> QED BY <1>2 DEF Policy
  <2>2. /\ BasisPoints \in Nat \ {0} /\ MaxUint \in Nat /\ BasisPoints < MaxUint
        /\ MaxAggregate \in Nat
      BY HistoryAssumption, EconomicsAssumption
  <2> HIDE DEF p
  <2> QED BY <2>1, <2>2
<1>4. /\ IsFiniteSet(rs) /\ IsFiniteSet(S) /\ S \subseteq rs
      /\ \A x \in rs : SoundRecord(x)
    BY BoardRecords DEF SoundDecision
<1>5. /\ t.attempts = size(rs) /\ t.successes = size(successes) /\ t.scoreable = size(S)
      /\ t.scoreableBlocks = Cardinality(BlocksOf(S)) /\ t.preserved = size(preserved)
      /\ t.respected = size(respected)
      /\ t.positive = size(positive) /\ t.overran = size(overran)
      /\ t.absolute = TotalAbsoluteError(S) /\ t.capital = TotalCapital(S)
      /\ t.historical = TotalHistorical(S)
      /\ t.guarded = Mean(t.historical, t.scoreable) - MeanUp(t.absolute, t.scoreable)
      /\ t.errorBps = IF t.capital = 0 THEN 0
                      ELSE IF Fits(ErrorBps(t.absolute, t.capital))
                           THEN ErrorBps(t.absolute, t.capital) ELSE MaxUint
  <2>1. t = Tally(rs)
      BY DEF SoundDecision, SoundBoard
  <2> HIDE DEF t, rs
  <2>2. /\ t.attempts = size(rs) /\ t.successes = size(successes) /\ t.scoreable = size(S)
        /\ t.scoreableBlocks = Cardinality(BlocksOf(S)) /\ t.preserved = size(preserved)
        /\ t.respected = size(respected)
        /\ t.positive = size(positive) /\ t.overran = size(overran)
      BY <2>1, TallyFields, ZenonT(40)
  <2>3. /\ t.absolute = TotalAbsoluteError(S) /\ t.capital = TotalCapital(S)
        /\ t.historical = TotalHistorical(S)
        /\ t.guarded = Mean(t.historical, t.scoreable) - MeanUp(t.absolute, t.scoreable)
      BY <2>1, TallyFields, ZenonT(40)
  <2>4. t.errorBps = IF t.capital = 0 THEN 0
                     ELSE IF Fits(ErrorBps(t.absolute, t.capital))
                          THEN ErrorBps(t.absolute, t.capital) ELSE MaxUint
      BY <2>1, TallyFields, ZenonT(40)
  <2> HIDE DEF S, successes, preserved, respected, positive, overran, size
  <2> QED BY <2>2, <2>3, <2>4
<1>6. /\ p.attempts <= t.attempts /\ p.records <= t.scoreable
      /\ p.scoreableRate <= ShareBps(t.scoreable, t.attempts)
      /\ p.successRate <= ShareBps(t.successes, t.attempts)
      /\ p.floorRate <= ShareBps(t.preserved, t.scoreable)
      /\ p.costRate <= ShareBps(t.respected, t.scoreable)
      /\ p.positiveRate <= ShareBps(t.positive, t.scoreable)
      /\ ShareBps(t.overran, t.scoreable) <= p.overrunRate
      /\ p.blocks <= t.scoreableBlocks
      /\ t.errorBps <= p.errorRate
      /\ p.guarded <= t.guarded
      /\ \A k \in DOMAIN d.report.buckets :
            d.report.buckets[k].attempts > 0 => p.perBucket <= d.report.buckets[k].scoreable
  <2>1. RefusedBy(Gates(d.board, d.report, d.value, d.policy)) = {}
      BY DEF SoundDecision, Allowed
  <2> QED BY <2>1, OpenGates
<1>7. /\ size(rs) \in Nat /\ size(S) \in Nat /\ size(successes) \in Nat /\ size(preserved) \in Nat
      /\ size(respected) \in Nat /\ size(positive) \in Nat /\ size(overran) \in Nat
  <2>1. /\ successes \subseteq rs /\ preserved \subseteq S /\ respected \subseteq S
        /\ positive \subseteq S /\ overran \subseteq S
      OBVIOUS
  <2> HIDE DEF successes, preserved, respected, positive, overran, S, rs
  <2> QED BY <1>4, <2>1, FS_Subset, FS_CardinalityType
<1> HIDE DEF p, rs, S, t, successes, preserved, respected, positive, overran
<1>8. size(S) # 0 /\ p.records <= size(S)
    BY <1>3, <1>5, <1>6, <1>7
<1>9. size(rs \ S) * BasisPoints <= (BasisPoints - p.scoreableRate) * size(rs)
  <2>1. size(rs \ S) = size(rs) - size(S)
    <3>1. Cardinality(rs \ S) = Cardinality(rs) - Cardinality(rs \cap S)
        BY <1>4, FS_Difference
    <3>2. rs \cap S = S
        BY <1>4
    <3> QED BY <3>1, <3>2, Zenon
  <2>2. p.scoreableRate * size(rs) <= size(S) * BasisPoints
      BY <1>3, <1>5, <1>6, <1>7, ShareFacts
  <2> DEFINE q == p.scoreableRate
             a == size(rs)
             b == size(S)
  <2>3. q \in Int /\ a \in Int /\ b \in Int /\ BasisPoints \in Int /\ q * a <= b * BasisPoints
      BY <1>3, <1>7, <2>2
  <2> HIDE DEF q, a, b
  <2>4. /\ (a - b) * BasisPoints = BasisPoints * a - b * BasisPoints
        /\ (BasisPoints - q) * a = BasisPoints * a - q * a
        /\ BasisPoints * a \in Int /\ b * BasisPoints \in Int /\ q * a \in Int
      BY <2>3, Z3
  <2>5. (a - b) * BasisPoints <= (BasisPoints - q) * a
      BY <2>3, <2>4
  <2> QED BY <2>1, <2>5 DEF q, a, b
<1>10. p.successRate * size(rs) <= size(successes) * BasisPoints
    BY <1>3, <1>5, <1>6, <1>7, ShareFacts
<1>11. p.floorRate * size(S) <= size(preserved) * BasisPoints
    BY <1>3, <1>5, <1>6, <1>7, ShareFacts
<1>12. p.positiveRate * size(S) <= size(positive) * BasisPoints
    BY <1>3, <1>5, <1>6, <1>7, ShareFacts
<1>13. size(overran) * BasisPoints < (p.overrunRate + 1) * size(S)
    BY <1>3, <1>5, <1>6, <1>7, <1>8, ShareFacts
<1>14. t.absolute \in Nat /\ t.capital \in Nat \ {0} /\ t.historical \in Int
  <2>1. \A x \in S : SoundRecord(x)
      BY <1>4
  <2> DEFINE a == [x \in S |-> AbsoluteError(x)]
             c == [x \in S |-> Capital(x)]
             h == [x \in S |-> Historical(x)]
             w == [x \in S |-> 1]
             sum(f) == SumFunctionOnSet(f, S)
  <2>2. \A x \in S : /\ a[x] = AbsoluteError(x) /\ c[x] = Capital(x) /\ w[x] = 1
                     /\ h[x] = Historical(x) /\ Historical(x) \in Int
                     /\ AbsoluteError(x) \in Nat /\ Capital(x) \in Nat \ {0}
      BY <2>1, FiguresAreIntegers
  <2> HIDE DEF a, c, h, w
  <2>3. t.absolute = sum(a) /\ t.capital = sum(c) /\ t.historical = sum(h)
      BY <1>4, <1>5, <2>1, <2>2, TotalsAreSums
  <2>4. /\ IntegersOn(c, S) /\ IntegersOn(w, S) /\ IntegersOn(h, S)
        /\ \A x \in S : a[x] \in Nat /\ c[x] \in Nat /\ w[x] <= c[x]
      BY <2>2 DEF IntegersOn
  <2>5. sum(w) <= sum(c) /\ sum(w) = size(S)
      BY <1>4, <2>2, <2>4, SumIsMonotone, SumOfOnes
  <2>6. sum(a) \in Nat /\ sum(c) \in Nat /\ sum(h) \in Int
      BY <1>4, <2>4, SumIsNatural, SumIsInteger
  <2>7. size(S) \in Nat /\ size(S) # 0
      BY <1>7, <1>8
  <2> HIDE DEF sum, size
  <2>8. sum(c) \in Nat \ {0}
      BY <2>5, <2>6, <2>7
  <2> QED BY <2>3, <2>6, <2>8, Zenon
<1>15. t.absolute * BasisPoints <= p.errorRate * t.capital
  <2> DEFINE n == t.absolute * BasisPoints
             e == ErrorBps(t.absolute, t.capital)
  <2>1. n \in Int
      BY <1>3, <1>14
  <2>2. e = CeilDiv(n, t.capital)
      BY DEF ErrorBps
  <2>3. e \in Int /\ n <= e * t.capital
      BY <1>14, <2>1, <2>2, CeilCovers
  <2>4. e <= p.errorRate
      BY <1>3, <1>5, <1>6, <1>14, <2>3 DEF Fits
  <2> DEFINE c == t.capital
             r == p.errorRate
  <2>5. c \in Nat /\ r \in Int
      BY <1>3, <1>14
  <2> HIDE DEF n, e, c, r
  <2>6. PICK k \in Nat : r = e + k
    <3>1. r - e \in Nat /\ r = e + (r - e)
        BY <2>3, <2>4, <2>5 DEF r
    <3> QED BY <3>1
  <2>7. r * c = e * c + k * c /\ k * c >= 0 /\ e * c \in Int /\ k * c \in Int
      BY <2>3, <2>5, <2>6, Z3
  <2>8. n <= r * c
      BY <2>1, <2>3, <2>7 DEF c
  <2> QED BY <2>8 DEF n, c, r
<1>16. ASSUME NEW x \in rs
       PROVE  p.perBucket <= Cardinality({y \in S : BucketOf(PredictedReturn(y), d.report.bounds)
                                            = BucketOf(PredictedReturn(x), d.report.bounds)})
  <2> DEFINE k == BucketOf(PredictedReturn(x), d.report.bounds)
             b == d.report.buckets[k]
  <2>1. SoundReport(d.report) /\ RecordsOf(d.report.board) = rs
      BY DEF SoundDecision, rs
  <2>2. k \in DOMAIN d.report.buckets /\ b = Bucket(rs, d.report.bounds, k)
      BY <2>1, ReportBuckets
  <2> HIDE DEF k, b
  <2>3. b.attempts = Cardinality(Inside(rs, d.report.bounds, k))
        /\ b.scoreable = Cardinality(Inside(S, d.report.bounds, k))
      BY <2>2, BucketFields DEF S
  <2>4. x \in Inside(rs, d.report.bounds, k) /\ Inside(rs, d.report.bounds, k) \subseteq rs
      BY DEF Inside, k
  <2>5. b.attempts > 0
    <3>1. IsFiniteSet(Inside(rs, d.report.bounds, k)) /\ Inside(rs, d.report.bounds, k) # {}
        BY <1>4, <2>4, FS_Subset
    <3> QED BY <2>3, <3>1, FS_EmptySet, FS_CardinalityType
  <2>6. p.perBucket <= b.scoreable
      BY <1>6, <2>2, <2>5 DEF b
  <2> QED BY <2>3, <2>6 DEF Inside, k
<1>17. p.attempts <= size(rs) /\ p.blocks <= Cardinality(BlocksOf(S))
    BY <1>5, <1>6
<1>18. p.costRate * size(S) <= size(respected) * BasisPoints
    BY <1>3, <1>5, <1>6, <1>7, ShareFacts
<1>19. p.guarded * size(S) <= t.historical - t.absolute
  <2> DEFINE n == size(S)
             m == Mean(t.historical, n)
             u == MeanUp(t.absolute, n)
             q == p.guarded
             rest == t.historical - t.absolute
  <2>1. n \in Nat \ {0} /\ q \in Int /\ rest \in Int
      BY <1>3, <1>7, <1>8, <1>14
  <2>2. m \in Int /\ u \in Int /\ n * (m - u) <= rest
      BY <1>14, <2>1, MeanFacts
  <2>3. q <= m - u
      BY <1>5, <1>6
  <2> HIDE DEF n, m, u, q, rest
  <2>4. PICK k \in Nat : m - u = q + k
    <3>1. (m - u) - q \in Nat /\ m - u = q + ((m - u) - q)
        BY <2>1, <2>2, <2>3
    <3> QED BY <3>1
  <2>5. n * (q + k) = q * n + n * k /\ n * k >= 0 /\ q * n \in Int /\ n * k \in Int
      BY <2>1, <2>4, Z3
  <2>6. q * n <= rest
      BY <2>1, <2>2, <2>4, <2>5
  <2> QED BY <2>6 DEF n, q, rest
<1> DEFINE Earned(T) ==
         /\ p.attempts <= Cardinality(rs) /\ p.records <= Cardinality(T)
         /\ Cardinality(rs \ T) * BasisPoints <= (BasisPoints - p.scoreableRate) * Cardinality(rs)
         /\ p.successRate * Cardinality(rs)
              <= Cardinality({x \in rs : FactsOf(x).success}) * BasisPoints
         /\ p.floorRate * Cardinality(T) <= Cardinality({x \in T : Preserved(x)}) * BasisPoints
         /\ p.costRate * Cardinality(T) <= Cardinality({x \in T : Respected(x)}) * BasisPoints
         /\ p.positiveRate * Cardinality(T)
              <= Cardinality({x \in T : Historical(x) > 0}) * BasisPoints
         /\ Cardinality({x \in T : Overran(x)}) * BasisPoints
              < (p.overrunRate + 1) * Cardinality(T)
         /\ p.blocks <= Cardinality(BlocksOf(T))
         /\ TotalAbsoluteError(T) * BasisPoints <= p.errorRate * TotalCapital(T)
         /\ p.guarded * Cardinality(T) <= TotalHistorical(T) - TotalAbsoluteError(T)
         /\ \A x \in rs :
               LET k == BucketOf(PredictedReturn(x), d.report.bounds) IN
               p.perBucket <= Cardinality({y \in T :
                                  BucketOf(PredictedReturn(y), d.report.bounds) = k})
<1>20. Earned(S)
    BY <1>5, <1>8, <1>9, <1>10, <1>11, <1>12, <1>13, <1>15, <1>16, <1>17, <1>18, <1>19, Zenon
       DEF successes, preserved, respected, positive, overran
<1>21. Earned({x \in rs : Scoreable(x)})
  <2> HIDE DEF Earned
  <2> QED BY <1>1, <1>20, Zenon
<1> QED BY <1>21 DEF p, rs

(* Whatever is promoted has earned it by the exact figures of its own      *)
(* records, not only by rounded shares of them (1687-1749).                *)
THEOREM PromotionsAreEarned == Spec => []PromotionIsEarned
<1>1. Spec => []IInv
  BY InvHoldsInitially, InvIsInductive, PTL DEF Spec
<1>2. ASSUME IInv PROVE PromotionIsEarned
  <2>1. ASSUME NEW d \in decisions PROVE SoundDecision(d)
    BY <1>2 DEF IInv
  <2>. QED
    BY <2>1, SoundDecisionsAreEarned DEF PromotionIsEarned
<1>. QED
  BY <1>1, <1>2, PTL
=============================================================================
