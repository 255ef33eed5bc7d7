----------------------------- MODULE SumTheorems -----------------------------
(***************************************************************************)
(* Sums of a function over a finite set (SumFunctionOnSet of Functions),   *)
(* for the proofs about components that count what happened at each        *)
(* instant.  The fold behind the sum is a recursive function on the        *)
(* subsets of its set that picks elements in an order of its own; the      *)
(* lemmas show that it is well defined and that the order does not matter. *)
(*                                                                         *)
(* Induction is over sets of subsets, by the well-founded order of strict  *)
(* inclusion, so that no lemma takes an operator as a parameter.           *)
(***************************************************************************)
EXTENDS Functions, FiniteSetTheorems, TLAPS

LEMMA StrongSetInduction ==
  ASSUME NEW S, IsFiniteSet(S), NEW P \in SUBSET SUBSET S,
         \A A \in SUBSET S : (\A B \in SUBSET A : B # A => B \in P) => A \in P
  PROVE  P = SUBSET S
  <1> DEFINE Bad == (SUBSET S) \ P
  <1> SUFFICES ASSUME Bad # {} PROVE FALSE
    OBVIOUS
  <1>1. IsWellFoundedOn(StrictSubsetOrdering(S), SUBSET S)
    <2>1. FiniteSubsetsOf(S) = SUBSET S
      BY FS_FiniteSubsetsOfFinite
    <2>2. IsWellFoundedOn(StrictSubsetOrdering(S), FiniteSubsetsOf(S))
      BY FS_StrictSubsetOrderingWellFounded
    <2> QED BY <2>1, <2>2
  <1>2. \E A \in Bad : \A B \in Bad : ~(<<B, A>> \in StrictSubsetOrdering(S))
    <2> HIDE DEF Bad
    <2>1. Bad \subseteq SUBSET S
      BY DEF Bad
    <2> QED BY <1>1, <2>1, WFMin
  <1>3. PICK A \in Bad : \A B \in Bad : ~(<<B, A>> \in StrictSubsetOrdering(S))
    BY <1>2
  <1>4. \A B \in SUBSET A : B # A => B \in P
    BY <1>3 DEF StrictSubsetOrdering
  <1> QED BY <1>3, <1>4

LEMMA SetInduction ==
  ASSUME NEW S, IsFiniteSet(S), NEW P \in SUBSET SUBSET S, {} \in P,
         \A A \in P : \A x \in S \ A : A \union {x} \in P
  PROVE  P = SUBSET S
  <1>1. ASSUME NEW A \in SUBSET S, \A B \in SUBSET A : B # A => B \in P
        PROVE  A \in P
    <2>1. CASE A = {}
      BY <2>1
    <2>2. ASSUME NEW x \in A PROVE A \in P
      <3>1. A \ {x} \in P /\ x \in S \ (A \ {x}) /\ (A \ {x}) \union {x} = A
        BY <1>1, <2>2
      <3> QED BY <3>1
    <2> QED BY <2>1, <2>2
  <1> QED BY <1>1, StrongSetInduction

-----------------------------------------------------------------------------
(* The fold is well defined.                                               *)

Pick(s) == CHOOSE x \in s : TRUE

\* One unfolding of the fold's recursion at s.
Unfold(f, g, s) == IF s = {} THEN 0 ELSE f[Pick(s)] + g[s \ {Pick(s)}]

Folds(f, g, S) == g = [s \in SUBSET S |-> Unfold(f, g, s)]

FoldOf(f, S) == CHOOSE g : Folds(f, g, S)

LEMMA SumIsFold ==
  ASSUME NEW f, NEW S
  PROVE  SumFunctionOnSet(f, S) = FoldOf(f, S)[S]
  BY DEF SumFunctionOnSet, FoldFunctionOnSet, MapThenFoldSet, FoldOf, Folds, Unfold, Pick

LEMMA PickIn == \A s : s # {} => Pick(s) \in s
  BY DEF Pick

\* There is such a function: up to each cardinality in turn.
LEMMA FoldExists ==
  ASSUME NEW S, IsFiniteSet(S), NEW f
  PROVE  \E g : Folds(f, g, S)
  <1> DEFINE UpTo(n, g) == \A s \in SUBSET S : Cardinality(s) <= n => g[s] = Unfold(f, g, s)
             Good == {A \in SUBSET S : \E g : UpTo(Cardinality(A), g)}
  <1>0. \A A \in SUBSET S : IsFiniteSet(A) /\ Cardinality(A) \in Nat
    BY FS_Subset, FS_CardinalityType
  <1>1. {} \in Good
    <2>1. UpTo(0, [s \in SUBSET S |-> 0])
      BY <1>0, FS_EmptySet DEF Unfold
    <2> QED BY <2>1, FS_EmptySet
  <1>2. ASSUME NEW A \in Good, NEW x \in S \ A PROVE A \union {x} \in Good
    <2> DEFINE n == Cardinality(A)
    <2>1. n \in Nat /\ Cardinality(A \union {x}) = n + 1
      BY <1>0, FS_AddElement
    <2>2. PICK g : UpTo(n, g)
      OBVIOUS
    <2> HIDE DEF n
    <2> DEFINE h == [s \in SUBSET S |-> IF Cardinality(s) <= n THEN g[s] ELSE Unfold(f, g, s)]
    <2>3. ASSUME NEW s \in SUBSET S, Cardinality(s) <= n + 1
          PROVE  h[s] = Unfold(f, h, s)
      <3>1. h[s] = Unfold(f, g, s)
        BY <2>2
      <3>2. CASE s = {}
        BY <3>1, <3>2 DEF Unfold
      <3>3. CASE s # {}
        <4> DEFINE r == s \ {Pick(s)}
        <4>1. Pick(s) \in s
          BY <3>3, PickIn
        <4>2. r \in SUBSET S /\ Cardinality(r) = Cardinality(s) - 1
          BY <1>0, <4>1, FS_RemoveElement
        <4>3. Cardinality(r) <= n
          BY <1>0, <2>1, <2>3, <4>2
        <4>4. h[r] = g[r]
          BY <4>2, <4>3
        <4> QED BY <3>1, <3>3, <4>4 DEF Unfold
      <3> QED BY <3>2, <3>3
    <2>4. UpTo(n + 1, h)
      BY <2>3
    <2> QED BY <2>1, <2>4
  <1>3. Good = SUBSET S
    <2> HIDE DEF Good
    <2>1. Good \in SUBSET SUBSET S
      BY DEF Good
    <2> QED BY <1>1, <1>2, <2>1, SetInduction
  <1>4. PICK g : UpTo(Cardinality(S), g)
    BY <1>3
  <1>5. \A s \in SUBSET S : g[s] = Unfold(f, g, s)
    BY <1>0, <1>4, FS_Subset
  <1> DEFINE h == [s \in SUBSET S |-> g[s]]
  <1>6. \A s \in SUBSET S : h[s] = Unfold(f, h, s)
    <2>1. \A s \in SUBSET S : s \ {Pick(s)} \in SUBSET S
      OBVIOUS
    <2> QED BY <1>5, <2>1 DEF Unfold
  <1>7. Folds(f, h, S)
    BY <1>6 DEF Folds
  <1> QED BY <1>7

LEMMA FoldUnfolds ==
  ASSUME NEW S, IsFiniteSet(S), NEW f, NEW A \in SUBSET S
  PROVE  FoldOf(f, S)[A] = Unfold(f, FoldOf(f, S), A)
  <1>1. Folds(f, FoldOf(f, S), S)
    BY FoldExists DEF FoldOf
  <1> QED BY <1>1 DEF Folds

\* The fold over a smaller set agrees with that over the larger one.
LEMMA FoldRestricts ==
  ASSUME NEW S, IsFiniteSet(S), NEW f, NEW A \in SUBSET S
  PROVE  FoldOf(f, S)[A] = SumFunctionOnSet(f, A)
  <1> DEFINE Good == {B \in SUBSET A : FoldOf(f, S)[B] = FoldOf(f, A)[B]}
  <1>1. IsFiniteSet(A)
    BY FS_Subset
  <1>2. ASSUME NEW B \in SUBSET A, \A C \in SUBSET B : C # B => C \in Good
        PROVE  B \in Good
    <2>1. /\ FoldOf(f, S)[B] = Unfold(f, FoldOf(f, S), B)
          /\ FoldOf(f, A)[B] = Unfold(f, FoldOf(f, A), B)
      BY <1>1, FoldUnfolds
    <2>2. B # {} => B \ {Pick(B)} \in Good
      BY <1>2, PickIn
    <2> QED BY <2>1, <2>2 DEF Unfold
  <1>3. Good = SUBSET A
    <2> HIDE DEF Good
    <2>1. Good \in SUBSET SUBSET A
      BY DEF Good
    <2> QED BY <1>1, <1>2, <2>1, StrongSetInduction
  <1> QED BY <1>3, SumIsFold

-----------------------------------------------------------------------------
(* Sums of naturals.                                                       *)

Counts(f, S) == IsFiniteSet(S) /\ \A x \in S : f[x] \in Nat

LEMMA SumOfEmpty == \A f : SumFunctionOnSet(f, {}) = 0
  BY SumIsFold, FoldUnfolds, FS_EmptySet DEF Unfold

LEMMA SumPicks ==
  ASSUME NEW S, IsFiniteSet(S), S # {}, NEW f
  PROVE  SumFunctionOnSet(f, S) = f[Pick(S)] + SumFunctionOnSet(f, S \ {Pick(S)})
  <1>1. FoldOf(f, S)[S] = Unfold(f, FoldOf(f, S), S)
    BY FoldUnfolds
  <1>2. FoldOf(f, S)[S \ {Pick(S)}] = SumFunctionOnSet(f, S \ {Pick(S)})
    BY FoldRestricts
  <1> QED BY <1>1, <1>2, SumIsFold DEF Unfold

\* Any element may be taken out first.
LEMMA SumTakesOut ==
  ASSUME NEW S, NEW f, Counts(f, S)
  PROVE  /\ SumFunctionOnSet(f, S) \in Nat
         /\ \A x \in S : SumFunctionOnSet(f, S) = f[x] + SumFunctionOnSet(f, S \ {x})
  <1> DEFINE sum(A) == SumFunctionOnSet(f, A)
             Good == {A \in SUBSET S : sum(A) \in Nat /\ \A x \in A : sum(A) = f[x] + sum(A \ {x})}
  <1>0. IsFiniteSet(S) /\ \A x \in S : f[x] \in Nat
    BY DEF Counts
  <1>1. ASSUME NEW A \in SUBSET S, \A B \in SUBSET A : B # A => B \in Good
        PROVE  A \in Good
    <2>1. CASE A = {}
      BY <2>1, SumOfEmpty
    <2>2. CASE A # {}
      <3> DEFINE p == Pick(A)
      <3>1. p \in A
        BY <2>2, PickIn
      <3>2. sum(A) = f[p] + sum(A \ {p})
        BY <1>0, <2>2, FS_Subset, SumPicks
      <3>3. A \ {p} \in Good
        BY <1>1, <3>1
      <3> HIDE DEF p
      <3>4. sum(A) \in Nat
        BY <1>0, <3>1, <3>2, <3>3
      <3>5. ASSUME NEW x \in A, x # p PROVE sum(A) = f[x] + sum(A \ {x})
        <4> DEFINE B == (A \ {p}) \ {x}
        <4>1. B = (A \ {x}) \ {p} /\ A \ {x} \in Good /\ p \in A \ {x} /\ x \in A \ {p}
          BY <1>1, <3>1, <3>5
        <4>2. sum(A \ {p}) = f[x] + sum(B)
          BY <3>3, <4>1
        <4>3. sum(A \ {x}) = f[p] + sum(B)
          BY <4>1
        <4>4. B \in Good
          BY <1>1, <3>1
        <4>5. f[x] \in Nat /\ f[p] \in Nat /\ sum(B) \in Nat
          BY <1>0, <3>1, <4>4
        <4> HIDE DEF sum, B
        <4> QED BY <3>2, <4>2, <4>3, <4>5
      <3> QED BY <3>2, <3>4, <3>5
    <2> QED BY <2>1, <2>2
  <1>2. Good = SUBSET S
    <2> HIDE DEF Good
    <2>1. Good \in SUBSET SUBSET S
      BY DEF Good
    <2> QED BY <1>0, <1>1, <2>1, StrongSetInduction
  <1> QED BY <1>2

LEMMA SumOfSingle ==
  ASSUME NEW x, NEW f, f[x] \in Nat
  PROVE  SumFunctionOnSet(f, {x}) = f[x]
  <1>1. Counts(f, {x}) /\ {x} \ {x} = {}
    BY FS_Singleton DEF Counts
  <1>2. SumFunctionOnSet(f, {x}) = f[x] + SumFunctionOnSet(f, {})
    BY <1>1, SumTakesOut
  <1> QED BY <1>2, SumOfEmpty

\* Functions that agree on a set have the same sum over it.
LEMMA SumAgrees ==
  ASSUME NEW S, NEW f, NEW g, Counts(f, S), \A x \in S : g[x] = f[x]
  PROVE  SumFunctionOnSet(g, S) = SumFunctionOnSet(f, S)
  <1> DEFINE Good == {A \in SUBSET S : SumFunctionOnSet(g, A) = SumFunctionOnSet(f, A)}
  <1>1. {} \in Good
    BY SumOfEmpty
  <1>2. ASSUME NEW A \in Good, NEW x \in S \ A PROVE A \union {x} \in Good
    <2>1. (A \union {x}) \ {x} = A /\ x \in A \union {x}
      OBVIOUS
    <2>2. Counts(f, A \union {x}) /\ Counts(g, A \union {x})
      <3>1. IsFiniteSet(A \union {x})
        BY FS_Subset DEF Counts
      <3> QED BY <3>1 DEF Counts
    <2>3. /\ SumFunctionOnSet(f, A \union {x}) = f[x] + SumFunctionOnSet(f, A)
          /\ SumFunctionOnSet(g, A \union {x}) = g[x] + SumFunctionOnSet(g, A)
      BY <2>1, <2>2, SumTakesOut
    <2> QED BY <2>3
  <1>3. Good = SUBSET S
    <2> HIDE DEF Good
    <2>1. Good \in SUBSET SUBSET S
      BY DEF Good
    <2> QED BY <1>1, <1>2, <2>1, SetInduction DEF Counts
  <1> QED BY <1>3

\* One more at one element is one more in all.
LEMMA SumCountsOne ==
  ASSUME NEW S, NEW f, NEW g, Counts(f, S), NEW x \in S, g[x] = f[x] + 1,
         \A y \in S \ {x} : g[y] = f[y]
  PROVE  SumFunctionOnSet(g, S) = SumFunctionOnSet(f, S) + 1
  <1>1. Counts(g, S) /\ Counts(f, S \ {x})
    BY FS_Subset DEF Counts
  <1>2. SumFunctionOnSet(g, S) = g[x] + SumFunctionOnSet(g, S \ {x})
    BY <1>1, SumTakesOut
  <1>3. SumFunctionOnSet(f, S) = f[x] + SumFunctionOnSet(f, S \ {x})
    BY SumTakesOut
  <1>4. SumFunctionOnSet(g, S \ {x}) = SumFunctionOnSet(f, S \ {x})
    BY <1>1, SumAgrees
  <1>5. f[x] \in Nat /\ SumFunctionOnSet(f, S \ {x}) \in Nat
    BY <1>1, SumTakesOut DEF Counts
  <1> QED BY <1>2, <1>3, <1>4, <1>5

LEMMA SumOfZeros ==
  ASSUME NEW S, IsFiniteSet(S), NEW f, \A x \in S : f[x] = 0
  PROVE  SumFunctionOnSet(f, S) = 0
  <1> DEFINE Good == {A \in SUBSET S : SumFunctionOnSet(f, A) = 0}
  <1>1. {} \in Good
    BY SumOfEmpty
  <1>2. ASSUME NEW A \in Good, NEW x \in S \ A PROVE A \union {x} \in Good
    <2>1. (A \union {x}) \ {x} = A /\ x \in A \union {x}
      OBVIOUS
    <2>2. Counts(f, A \union {x})
      <3>1. IsFiniteSet(A \union {x})
        BY FS_Subset
      <3> QED BY <3>1 DEF Counts
    <2>3. SumFunctionOnSet(f, A \union {x}) = f[x] + SumFunctionOnSet(f, A)
      BY <2>1, <2>2, SumTakesOut
    <2> QED BY <2>3
  <1>3. Good = SUBSET S
    <2> HIDE DEF Good
    <2>1. Good \in SUBSET SUBSET S
      BY DEF Good
    <2> QED BY <1>1, <1>2, <2>1, SetInduction
  <1> QED BY <1>3

\* A sum splits at any subset.
LEMMA SumSplits ==
  ASSUME NEW S, NEW f, Counts(f, S), NEW T \in SUBSET S
  PROVE  /\ SumFunctionOnSet(f, T) \in Nat
         /\ SumFunctionOnSet(f, S \ T) \in Nat
         /\ SumFunctionOnSet(f, S) = SumFunctionOnSet(f, T) + SumFunctionOnSet(f, S \ T)
  <1> DEFINE sum(A) == SumFunctionOnSet(f, A)
             Good == {A \in SUBSET S : sum(S) = sum(A) + sum(S \ A)}
  <1>0. \A A \in SUBSET S : Counts(f, A) /\ sum(A) \in Nat
    <2>1. \A A \in SUBSET S : Counts(f, A)
      BY FS_Subset DEF Counts
    <2> QED BY <2>1, SumTakesOut
  <1>1. {} \in Good
    <2>1. S \ {} = S
      OBVIOUS
    <2> QED BY <1>0, <2>1, SumOfEmpty
  <1>2. ASSUME NEW A \in Good, NEW x \in S \ A PROVE A \union {x} \in Good
    <2> DEFINE B == A \union {x}
    <2>1. B \ {x} = A /\ x \in B /\ (S \ A) \ {x} = S \ B /\ B \in SUBSET S
      OBVIOUS
    <2>2. sum(B) = f[x] + sum(A) /\ sum(S \ A) = f[x] + sum(S \ B)
      BY <1>0, <2>1, SumTakesOut
    <2>3. f[x] \in Nat /\ sum(A) \in Nat /\ sum(S \ B) \in Nat
      BY <1>0, <2>1 DEF Counts
    <2>4. sum(S) = sum(A) + sum(S \ A)
      OBVIOUS
    <2> HIDE DEF sum
    <2>5. sum(S) = sum(B) + sum(S \ B)
      BY <2>2, <2>3, <2>4
    <2> QED BY <2>1, <2>5 DEF sum
  <1>3. Good = SUBSET S
    <2> HIDE DEF Good
    <2>1. Good \in SUBSET SUBSET S
      BY DEF Good
    <2> QED BY <1>1, <1>2, <2>1, SetInduction DEF Counts
  <1> QED BY <1>0, <1>3

LEMMA SumGrows ==
  ASSUME NEW S, NEW f, Counts(f, S), NEW T \in SUBSET S
  PROVE  /\ SumFunctionOnSet(f, T) \in Nat
         /\ SumFunctionOnSet(f, S) \in Nat
         /\ SumFunctionOnSet(f, T) <= SumFunctionOnSet(f, S)
  <1>1. SumFunctionOnSet(f, T) \in Nat /\ SumFunctionOnSet(f, S \ T) \in Nat
    BY SumSplits
  <1>2. SumFunctionOnSet(f, S) = SumFunctionOnSet(f, T) + SumFunctionOnSet(f, S \ T)
    BY SumSplits
  <1> QED BY <1>1, <1>2

=============================================================================
