----------------------------- MODULE SetProofs ------------------------------
(***************************************************************************)
(* Induction over the subsets of a finite set, without an operator for a     *)
(* parameter: the predicate is the set of the subsets it holds of.  From it, *)
(* what the sums and folds over finite sets come to.                         *)
(***************************************************************************)
EXTENDS Naturals, FiniteSets, FiniteSetsExt, FiniteSetTheorems, WellFoundedInduction,
        TLAPS

\* Induction over the subsets of a finite set, the predicate being a set of them.
LEMMA FiniteInduction ==
  ASSUME NEW S, IsFiniteSet(S), NEW Good, {} \in Good,
         \A T \in SUBSET S : T # {} /\ (\A x \in T : T \ {x} \in Good) => T \in Good
  PROVE  SUBSET S \subseteq Good
<1> DEFINE Bad == (SUBSET S) \ Good
<1>1. IsWellFoundedOn(StrictSubsetOrdering(S), SUBSET S)
  BY FS_StrictSubsetOrderingWellFounded, FS_FiniteSubsetsOfFinite
<1> SUFFICES ASSUME Bad # {} PROVE FALSE
  OBVIOUS
<1>2. PICK T \in Bad : \A U \in Bad : <<U, T>> \notin StrictSubsetOrdering(S)
  <2> HIDE DEF Bad
  <2>1. Bad \subseteq SUBSET S
    BY DEF Bad
  <2> QED
    BY <1>1, <2>1, WFMin
<1>3. ASSUME NEW x \in T PROVE T \ {x} \in Good
  <2>1. <<T \ {x}, T>> \in StrictSubsetOrdering(S)
    BY DEF StrictSubsetOrdering
  <2> QED
    BY <1>2, <2>1
<1> QED
  BY <1>3

\* A finite set of numbers that is not empty has a greatest one.
LEMMA GreatestExists ==
  ASSUME NEW S \in SUBSET Nat, IsFiniteSet(S), S # {}
  PROVE  \E m \in S : \A n \in S : n <= m
<1> DEFINE Good == {T \in SUBSET S : T = {} \/ \E m \in T : \A n \in T : n <= m}
<1>1. ASSUME NEW T \in SUBSET S, NEW x \in T, T \ {x} \in Good PROVE T \in Good
  <2>1. CASE T \ {x} = {}
    <3>1. \A n \in T : n <= x
      BY <2>1
    <3> QED
      BY <3>1
  <2>2. ASSUME NEW m \in T \ {x}, \A n \in T \ {x} : n <= m PROVE T \in Good
    <3>1. CASE x <= m
      <4>1. \A n \in T : n <= m
        BY <2>2, <3>1
      <4> QED
        BY <4>1
    <3>2. CASE ~(x <= m)
      <4>1. \A n \in T : n <= x
        BY <2>2, <3>2
      <4> QED
        BY <4>1
    <3> QED
      BY <3>1, <3>2
  <2> QED
    BY <1>1, <2>1, <2>2
<1>2. S \in Good
  <2>1. {} \in Good
    OBVIOUS
  <2> HIDE DEF Good
  <2>2. \A T \in SUBSET S : T # {} /\ (\A x \in T : T \ {x} \in Good) => T \in Good
    BY <1>1
  <2>3. SUBSET S \subseteq Good
    BY <2>1, <2>2, FiniteInduction
  <2> QED
    BY <2>3
<1> QED
  BY <1>2

-----------------------------------------------------------------------------
\* g[T] is the sum of f over T, for each T \subseteq S.
Sums(g, S, f) ==
  /\ g \in [SUBSET S -> Nat] /\ g[{}] = 0
  /\ \A T \in SUBSET S : \A x \in T : g[T] = f[x] + g[T \ {x}]

LEMMA SumsExist ==
  ASSUME NEW S, IsFiniteSet(S), NEW f, \A x \in S : f[x] \in Nat
  PROVE  \E g : Sums(g, S, f)
<1> DEFINE Good == {T \in SUBSET S : \E g : Sums(g, T, f)}
<1>1. {} \in Good
  <2> DEFINE g == [T \in SUBSET {} |-> 0]
  <2>1. Sums(g, {}, f)
    BY DEF Sums
  <2> QED
    BY <2>1
<1>2. ASSUME NEW T \in SUBSET S, NEW x \in T, T \ {x} \in Good PROVE T \in Good
  <2>1. PICK g : Sums(g, T \ {x}, f)
    BY <1>2
  <2> DEFINE h == [U \in SUBSET T |-> IF x \in U THEN f[x] + g[U \ {x}] ELSE g[U]]
  <2>2. f[x] \in Nat /\ \A U \in SUBSET T : U \ {x} \in SUBSET (T \ {x}) /\ g[U \ {x}] \in Nat
    BY <2>1 DEF Sums
  <2>3. h \in [SUBSET T -> Nat]
    <3>1. ASSUME NEW U \in SUBSET T PROVE h[U] \in Nat
      <4>1. x \notin U => U \ {x} = U
        OBVIOUS
      <4>2. CASE x \in U
        BY <2>2, <4>2
      <4>3. CASE x \notin U
        BY <2>2, <4>1, <4>3
      <4> QED
        BY <4>2, <4>3
    <3> QED
      BY <3>1
  <2>4. h[{}] = 0
    BY <2>1 DEF Sums
  <2>5. ASSUME NEW U \in SUBSET T, NEW y \in U PROVE h[U] = f[y] + h[U \ {y}]
    <3>1. CASE x \notin U
      <4>1. U \in SUBSET (T \ {x}) /\ x \notin U \ {y} /\ U \ {y} \in SUBSET T
        BY <3>1
      <4>2. g[U] = f[y] + g[U \ {y}]
        BY <2>1, <4>1 DEF Sums
      <4> QED
        BY <3>1, <4>1, <4>2
    <3>2. CASE x \in U /\ y = x
      BY <3>2
    <3>3. CASE x \in U /\ y # x
      <4>1. /\ U \ {x} \in SUBSET (T \ {x}) /\ y \in U \ {x} /\ x \in U \ {y} /\ U \ {y} \in SUBSET T
            /\ (U \ {x}) \ {y} = (U \ {y}) \ {x}
        BY <3>3
      <4>2. g[U \ {x}] = f[y] + g[(U \ {x}) \ {y}]
        BY <2>1, <4>1 DEF Sums
      <4>3. h[U] = f[x] + g[U \ {x}] /\ h[U \ {y}] = f[x] + g[(U \ {x}) \ {y}]
        BY <3>3, <4>1
      <4>4. g[(U \ {x}) \ {y}] \in Nat /\ f[y] \in Nat
        BY <2>2, <4>1
      <4> HIDE DEF h
      <4> QED
        BY <2>2, <4>2, <4>3, <4>4
    <3> QED
      BY <3>1, <3>2, <3>3
  <2> HIDE DEF h
  <2> QED
    BY <2>3, <2>4, <2>5 DEF Sums
<1>3. S \in Good
  <2>1. \A T \in SUBSET S : T # {} /\ (\A x \in T : T \ {x} \in Good) => T \in Good
    BY <1>2
  <2> HIDE DEF Good
  <2>2. SUBSET S \subseteq Good
    BY <1>1, <2>1, FiniteInduction
  <2> QED
    BY <2>2
<1> QED
  BY <1>3

\* The sum of f over S, as the community modules fold it.
SumOf(f, S) == MapThenSumSet(LAMBDA x : f[x], S)

LEMMA SumIsFold ==
  ASSUME NEW S, IsFiniteSet(S), NEW f, NEW g, Sums(g, S, f)
  PROVE  SumOf(f, S) = g[S]
<1> DEFINE Folds(h) == h = [s \in SUBSET S |-> IF s = {} THEN 0
                              ELSE LET x == CHOOSE x \in s : TRUE IN f[x] + h[s \ {x}]]
<1>1. Folds(g)
  <2>1. ASSUME NEW s \in SUBSET S, s # {}
        PROVE g[s] = LET x == CHOOSE x \in s : TRUE IN f[x] + g[s \ {x}]
    <3>1. (CHOOSE x \in s : TRUE) \in s
      BY <2>1
    <3> QED
      BY <3>1 DEF Sums
  <2> QED
    BY <2>1 DEF Sums
<1>2. ASSUME NEW h, Folds(h) PROVE h[S] = g[S]
  <2> DEFINE Good == {T \in SUBSET S : h[T] = g[T]}
  <2>1. {} \in Good
    BY <1>2 DEF Sums
  <2>2. ASSUME NEW T \in SUBSET S, T # {}, \A x \in T : T \ {x} \in Good PROVE T \in Good
    <3> DEFINE x == CHOOSE x \in T : TRUE
    <3>1. x \in T
      BY <2>2
    <3>2. h[T] = f[x] + h[T \ {x}]
      BY <1>2, <2>2
    <3>3. g[T] = f[x] + g[T \ {x}]
      BY <3>1 DEF Sums
    <3> HIDE DEF x
    <3> QED
      BY <2>2, <3>1, <3>2, <3>3
  <2>3. S \in Good
    <3> HIDE DEF Good
    <3> QED
      BY <2>1, <2>2, FiniteInduction
  <2> QED
    BY <2>3
<1> DEFINE iter == CHOOSE h : Folds(h)
<1>3. Folds(iter)
  <2> HIDE DEF Folds
  <2> QED
    BY <1>1
<1>4. SumOf(f, S) = iter[S]
  BY DEF SumOf, MapThenSumSet, MapThenFoldSet
<1> QED
  BY <1>2, <1>3, <1>4

LEMMA SumOfNothing == ASSUME NEW f PROVE SumOf(f, {}) = 0
<1>1. \A x \in {} : f[x] \in Nat
  OBVIOUS
<1>2. PICK g : Sums(g, {}, f)
  BY <1>1, FS_EmptySet, SumsExist
<1>3. SumOf(f, {}) = g[{}]
  BY <1>2, FS_EmptySet, SumIsFold
<1> QED
  BY <1>2, <1>3 DEF Sums

\* A sum grows by what is added, and depends on nothing outside its set.
LEMMA SumGrows ==
  ASSUME NEW S, IsFiniteSet(S), NEW x, x \notin S, NEW f, NEW f2, f2[x] \in Nat,
         \A y \in S : f[y] \in Nat /\ f2[y] = f[y]
  PROVE  SumOf(f, S) \in Nat /\ SumOf(f2, S \cup {x}) = SumOf(f, S) + f2[x]
<1>1. IsFiniteSet(S \cup {x})
  BY FS_AddElement
<1>2. PICK g : Sums(g, S \cup {x}, f2)
  <2>1. \A y \in S \cup {x} : f2[y] \in Nat
    OBVIOUS
  <2> QED
    BY <1>1, <2>1, SumsExist
<1> DEFINE h == [U \in SUBSET S |-> g[U]]
<1>3. Sums(h, S, f)
  BY <1>2 DEF Sums
<1>4. SumOf(f, S) = g[S] /\ g[S] \in Nat
  <2>1. SumOf(f, S) = h[S]
    <3> HIDE DEF h
    <3> QED
      BY <1>3, SumIsFold
  <2> QED
    BY <1>2, <2>1 DEF Sums
<1>5. SumOf(f2, S \cup {x}) = g[S \cup {x}]
  BY <1>1, <1>2, SumIsFold
<1>6. (S \cup {x}) \ {x} = S
  OBVIOUS
<1>7. g[S \cup {x}] = f2[x] + g[S]
  BY <1>2, <1>6 DEF Sums
<1> QED
  BY <1>4, <1>5, <1>7
=============================================================================
