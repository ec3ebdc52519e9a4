---------------------------- MODULE SumTheorems ----------------------------
(***************************************************************************)
(* What SumFunctionOnSet of the community modules computes, for every      *)
(* finite set of indices.  It is defined by recursion over the subsets of  *)
(* that set, and the services' loops over the lines of a request and over  *)
(* the reservations are sums of this kind.                                 *)
(*                                                                         *)
(* The library's induction theorems take an operator; WFMin, that every    *)
(* non-empty set has a minimal element in a well-founded order, takes a    *)
(* set, and the induction below rests on it.                               *)
(***************************************************************************)
EXTENDS Integers, FiniteSets, Functions, FiniteSetTheorems, TLAPS

-----------------------------------------------------------------------------

\* Among subsets of a finite set some has none of the others inside it.
LEMMA MinimalSubset ==
    ASSUME NEW S, IsFiniteSet(S), NEW B, B \subseteq SUBSET S, B # {}
    PROVE  \E T \in B : \A U \in B : U \subseteq T => U = T
<1>1. IsWellFoundedOn(StrictSubsetOrdering(S), SUBSET S)
  BY FS_StrictSubsetOrderingWellFounded, FS_FiniteSubsetsOfFinite
<1>2. PICK T \in B : \A U \in B : ~ (<<U, T>> \in StrictSubsetOrdering(S))
  BY <1>1, WFMin
<1>3. ASSUME NEW U \in B, U \subseteq T, U # T PROVE FALSE
  <2>1. <<U, T>> \in StrictSubsetOrdering(S)
    BY <1>3 DEF StrictSubsetOrdering
  <2> QED
    BY <1>2, <2>1
<1> QED
  BY <1>3

\* Induction over the subsets of a finite set: if G contains every subset of S
\* whose proper subsets it contains, it contains them all.
LEMMA SubsetInduction ==
    ASSUME NEW S, IsFiniteSet(S), NEW G,
           \A T \in SUBSET S : (\A U \in SUBSET T : U # T => U \in G) => T \in G
    PROVE  \A T \in SUBSET S : T \in G
<1> DEFINE B == {T \in SUBSET S : T \notin G}
<1> SUFFICES ASSUME B # {} PROVE FALSE
  OBVIOUS
<1>1. PICK T \in B : \A U \in B : U \subseteq T => U = T
  <2>1. B \subseteq SUBSET S
    OBVIOUS
  <2> HIDE DEF B
  <2> QED
    BY <2>1, MinimalSubset
<1> QED
  BY <1>1

-----------------------------------------------------------------------------
(* The recursion behind SumFunctionOnSet has a solution, and only one.       *)

Pick(s) == CHOOSE x \in s : TRUE

\* The sum over s, given those over its subsets.
Step(f, g, s) == IF s = {} THEN 0 ELSE f[Pick(s)] + g[s \ {Pick(s)}]

\* Two functions have the same values on S.
Agree(e, f, S) == \A x \in S : e[x] = f[x]

Sums(f, S, g) == g = [s \in SUBSET S |-> Step(f, g, s)]

\* SumFunctionOnSet unfolds to the solution of that equation.
LEMMA SumUnfolds ==
    ASSUME NEW f, NEW S
    PROVE  SumFunctionOnSet(f, S) = (CHOOSE g : Sums(f, S, g))[S]
  BY DEF SumFunctionOnSet, FoldFunctionOnSet, MapThenFoldSet, Sums, Step, Pick

\* Pick takes an element out of a set that is not empty.
LEMMA PickFacts ==
    ASSUME NEW s, s # {}
    PROVE  Pick(s) \in s /\ s \ {Pick(s)} # s
  BY DEF Pick

\* The equation has a solution: it is reached by unfolding it as often as there
\* are elements.
LEMMA SumsExist ==
    ASSUME NEW f, NEW S, IsFiniteSet(S)
    PROVE  \E g : Sums(f, S, g)
<1> DEFINE Upto(g, T) == \A s \in SUBSET S :
                            Cardinality(s) <= Cardinality(T) => g[s] = Step(f, g, s)
           G == {T \in SUBSET S : \E g : Upto(g, T)}
<1>1. \A s \in SUBSET S : IsFiniteSet(s) /\ Cardinality(s) \in Nat
  BY FS_Subset, FS_CardinalityType
<1>2. ASSUME NEW T \in SUBSET S, \A U \in SUBSET T : U # T => U \in G
      PROVE  T \in G
  <2>1. CASE T = {}
    <3> DEFINE g == [s \in SUBSET S |-> 0]
    <3>1. ASSUME NEW s \in SUBSET S, Cardinality(s) <= Cardinality(T)
          PROVE  g[s] = Step(f, g, s)
      <4>1. s = {}
        BY <1>1, <2>1, <3>1, FS_EmptySet
      <4> QED
        BY <4>1 DEF Step
    <3> QED
      BY <3>1
  <2>2. CASE T # {}
    <3> DEFINE U == T \ {Pick(T)}
    <3>1. U \in G /\ Cardinality(U) = Cardinality(T) - 1
      BY <1>1, <1>2, <2>2, PickFacts, FS_RemoveElement
    <3>2. PICK g : Upto(g, U)
      BY <3>1
    <3> DEFINE h == [s \in SUBSET S |-> Step(f, g, s)]
    <3> HIDE DEF h
    <3>3. ASSUME NEW s \in SUBSET S, Cardinality(s) <= Cardinality(T)
          PROVE  h[s] = Step(f, h, s)
      <4>1. CASE s = {}
        BY <4>1 DEF Step, h
      <4>2. CASE s # {}
        <5> DEFINE r == s \ {Pick(s)}
        <5>1. Cardinality(r) = Cardinality(s) - 1
          BY <1>1, <4>2, PickFacts, FS_RemoveElement
        <5>2. Cardinality(r) <= Cardinality(U)
          BY <1>1, <3>1, <3>3, <5>1
        <5>3. g[r] = Step(f, g, r)
          BY <3>2, <5>2
        <5>4. h[r] = g[r]
          BY <5>3 DEF h
        <5> QED
          BY <4>2, <5>4 DEF Step, h
      <4> QED
        BY <4>1, <4>2
    <3> QED
      BY <3>3
  <2> QED
    BY <2>1, <2>2
<1>3. S \in G
  <2> HIDE DEF G
  <2> QED
    BY <1>2, SubsetInduction
<1>4. PICK g : Upto(g, S)
  BY <1>3
<1> DEFINE h == [s \in SUBSET S |-> g[s]]
<1>5. ASSUME NEW s \in SUBSET S PROVE h[s] = Step(f, h, s)
  <2>1. g[s] = Step(f, g, s)
    BY <1>1, <1>4, FS_Subset
  <2>2. Step(f, h, s) = Step(f, g, s)
    BY DEF Step
  <2> QED
    BY <2>1, <2>2
<1>6. Sums(f, S, h)
  BY <1>5 DEF Sums
<1> QED
  BY <1>6

\* Solutions over two sets agree on their common subsets, also for two functions
\* that agree there.
LEMMA SumsAgree ==
    ASSUME NEW e, NEW f, NEW S, NEW T, IsFiniteSet(T), T \subseteq S,
           Agree(e, f, T), NEW g, Sums(e, S, g), NEW h, Sums(f, T, h)
    PROVE  \A s \in SUBSET T : g[s] = h[s]
<1> DEFINE G == {s \in SUBSET T : g[s] = h[s]}
<1>1. ASSUME NEW s \in SUBSET T, \A u \in SUBSET s : u # s => u \in G
      PROVE  s \in G
  <2>1. g[s] = Step(e, g, s) /\ h[s] = Step(f, h, s)
    BY DEF Sums
  <2>2. Step(e, g, s) = Step(f, h, s)
    <3>1. CASE s = {}
      BY <3>1 DEF Step
    <3>2. CASE s # {}
      <4>1. Pick(s) \in T /\ s \ {Pick(s)} \in G
        BY <1>1, <3>2, PickFacts
      <4> QED
        BY <4>1 DEF Step, Agree
    <3> QED
      BY <3>1, <3>2
  <2> QED
    BY <2>1, <2>2
<1> HIDE DEF G
<1>2. \A s \in SUBSET T : s \in G
  BY <1>1, SubsetInduction
<1> QED
  BY <1>2 DEF G

-----------------------------------------------------------------------------

\* Only the summands count.
THEOREM SumSame ==
    ASSUME NEW e, NEW f, NEW S, IsFiniteSet(S), \A x \in S : e[x] = f[x]
    PROVE  SumFunctionOnSet(e, S) = SumFunctionOnSet(f, S)
<1> DEFINE g == CHOOSE g : Sums(e, S, g)
           h == CHOOSE h : Sums(f, S, h)
<1>1. Sums(e, S, g) /\ Sums(f, S, h)
  BY SumsExist
<1>2. SumFunctionOnSet(e, S) = g[S] /\ SumFunctionOnSet(f, S) = h[S]
  BY SumUnfolds
<1> HIDE DEF g, h
<1>3. Agree(e, f, S)
  BY DEF Agree
<1>4. \A s \in SUBSET S : g[s] = h[s]
  BY <1>1, <1>3, SumsAgree
<1> QED
  BY <1>2, <1>4

\* The recursion itself: nothing adds up to 0, and a sum is the summand that is
\* picked and the sum of the others.
THEOREM SumRecursion ==
    ASSUME NEW f, NEW S, IsFiniteSet(S)
    PROVE  /\ S = {} => SumFunctionOnSet(f, S) = 0
           /\ S # {} => SumFunctionOnSet(f, S) =
                          f[Pick(S)] + SumFunctionOnSet(f, S \ {Pick(S)})
<1> DEFINE g == CHOOSE g : Sums(f, S, g)
           T == S \ {Pick(S)}
           h == CHOOSE h : Sums(f, T, h)
<1>1. Sums(f, S, g)
  BY SumsExist
<1>2. Sums(f, T, h)
  BY SumsExist, FS_RemoveElement
<1>3. g[T] = h[T]
  <2> HIDE DEF g, h
  <2> QED
    BY <1>1, <1>2, SumsAgree, FS_RemoveElement DEF Agree
<1>4. g[S] = Step(f, g, S)
  <2> HIDE DEF g
  <2> QED
    BY <1>1 DEF Sums
<1>5. SumFunctionOnSet(f, S) = g[S] /\ SumFunctionOnSet(f, T) = h[T]
  BY SumUnfolds
<1> HIDE DEF g, h
<1> QED
  BY <1>3, <1>4, <1>5 DEF Step

\* A sum of integers is an integer, one of naturals a natural number.
THEOREM SumType ==
    ASSUME NEW S, IsFiniteSet(S), NEW f, NEW N \in {Nat, Int}, \A x \in S : f[x] \in N
    PROVE  SumFunctionOnSet(f, S) \in N
<1> DEFINE G == {T \in SUBSET S : SumFunctionOnSet(f, T) \in N}
<1>1. ASSUME NEW T \in SUBSET S, \A U \in SUBSET T : U # T => U \in G
      PROVE  T \in G
  <2>1. IsFiniteSet(T)
    BY FS_Subset
  <2>2. CASE T = {}
    <3>1. SumFunctionOnSet(f, T) = 0
      BY <2>1, <2>2, SumRecursion
    <3> QED
      BY <3>1
  <2>3. CASE T # {}
    <3>1. Pick(T) \in T /\ T \ {Pick(T)} \in G
      BY <1>1, <2>3, PickFacts
    <3>2. SumFunctionOnSet(f, T) = f[Pick(T)] + SumFunctionOnSet(f, T \ {Pick(T)})
      BY <2>1, <2>3, SumRecursion
    <3> QED
      BY <3>1, <3>2
  <2> QED
    BY <2>2, <2>3
<1> HIDE DEF G
<1>2. \A T \in SUBSET S : T \in G
  BY <1>1, SubsetInduction
<1> QED
  BY <1>2 DEF G

\* Any summand can be taken out of a sum, not only the one that is picked.
THEOREM SumTakeOut ==
    ASSUME NEW S, IsFiniteSet(S), NEW f, \A x \in S : f[x] \in Int, NEW x \in S
    PROVE  SumFunctionOnSet(f, S) = f[x] + SumFunctionOnSet(f, S \ {x})
<1> DEFINE Sum(T) == SumFunctionOnSet(f, T)
           G == {T \in SUBSET S : \A y \in T : Sum(T) = f[y] + Sum(T \ {y})}
<1>1. \A T \in SUBSET S : IsFiniteSet(T) /\ Sum(T) \in Int
  BY FS_Subset, SumType
<1>2. ASSUME NEW T \in SUBSET S, \A U \in SUBSET T : U # T => U \in G
      PROVE  T \in G
  <2> SUFFICES ASSUME NEW y \in T PROVE Sum(T) = f[y] + Sum(T \ {y})
    OBVIOUS
  <2> DEFINE z == Pick(T)
             R == T \ {y, z}
  <2>1. z \in T /\ Sum(T) = f[z] + Sum(T \ {z})
    BY <1>1, PickFacts, SumRecursion
  <2>2. CASE z = y
    BY <2>1, <2>2
  <2>3. CASE z # y
    <3> HIDE DEF z, Sum
    <3>1. T \ {z} \in G /\ T \ {y} \in G
      BY <1>2, <2>1
    <3>2. (T \ {z}) \ {y} = R /\ (T \ {y}) \ {z} = R
      OBVIOUS
    <3>3. Sum(T \ {z}) = f[y] + Sum(R)
      BY <2>3, <3>1, <3>2
    <3>4. Sum(T \ {y}) = f[z] + Sum(R)
      BY <2>1, <2>3, <3>1, <3>2
    <3>5. Sum(R) \in Int /\ f[y] \in Int /\ f[z] \in Int
      BY <1>1, <2>1
    <3> HIDE DEF R
    <3> QED
      BY <2>1, <3>3, <3>4, <3>5
  <2> QED
    BY <2>2, <2>3
<1>3. \A T \in SUBSET S : T \in G
  <2> HIDE DEF G
  <2> QED
    BY <1>2, SubsetInduction
<1> QED
  BY <1>3

\* A change of one summand changes the sum by as much.
THEOREM SumChange ==
    ASSUME NEW S, IsFiniteSet(S), NEW x \in S, NEW e, NEW f,
           \A y \in S : e[y] \in Int /\ f[y] \in Int,
           \A y \in S \ {x} : e[y] = f[y]
    PROVE  SumFunctionOnSet(f, S) = SumFunctionOnSet(e, S) - e[x] + f[x]
<1> DEFINE T == S \ {x}
<1>1. IsFiniteSet(T)
  BY FS_RemoveElement
<1>2. SumFunctionOnSet(e, T) = SumFunctionOnSet(f, T)
  <2> HIDE DEF T
  <2>1. \A y \in T : e[y] = f[y]
    BY DEF T
  <2> QED
    BY <1>1, <2>1, SumSame
<1>3. SumFunctionOnSet(e, S) = e[x] + SumFunctionOnSet(e, T)
  BY SumTakeOut
<1>4. SumFunctionOnSet(f, S) = f[x] + SumFunctionOnSet(f, T)
  BY SumTakeOut
<1>5. SumFunctionOnSet(e, T) \in Int
  BY <1>1, SumType
<1> QED
  BY <1>2, <1>3, <1>4, <1>5

\* Zeros add up to zero.
THEOREM SumZero ==
    ASSUME NEW S, IsFiniteSet(S), NEW f, \A x \in S : f[x] = 0
    PROVE  SumFunctionOnSet(f, S) = 0
<1> DEFINE G == {T \in SUBSET S : SumFunctionOnSet(f, T) = 0}
<1>1. ASSUME NEW T \in SUBSET S, \A U \in SUBSET T : U # T => U \in G
      PROVE  T \in G
  <2>1. IsFiniteSet(T)
    BY FS_Subset
  <2>2. CASE T = {}
    BY <2>1, <2>2, SumRecursion
  <2>3. CASE T # {}
    <3>1. Pick(T) \in T /\ T \ {Pick(T)} \in G
      BY <1>1, <2>3, PickFacts
    <3>2. SumFunctionOnSet(f, T) = f[Pick(T)] + SumFunctionOnSet(f, T \ {Pick(T)})
      BY <2>1, <2>3, SumRecursion
    <3> QED
      BY <3>1, <3>2
  <2> QED
    BY <2>2, <2>3
<1> HIDE DEF G
<1>2. \A T \in SUBSET S : T \in G
  BY <1>1, SubsetInduction
<1> QED
  BY <1>2 DEF G

\* The sum of one number is that number.
THEOREM SumOne ==
    ASSUME NEW x, NEW f, f[x] \in Int
    PROVE  SumFunctionOnSet(f, {x}) = f[x]
<1> DEFINE S == {x}
<1>1. IsFiniteSet(S)
  BY FS_Singleton
<1>2. x \in S /\ (\A y \in S : f[y] \in Int) /\ S \ {x} = {}
  OBVIOUS
<1> HIDE DEF S
<1>3. SumFunctionOnSet(f, S) = f[x] + SumFunctionOnSet(f, S \ {x})
  BY <1>1, <1>2, SumTakeOut
<1>4. SumFunctionOnSet(f, {}) = 0
  BY FS_EmptySet, SumRecursion
<1> QED
  BY <1>2, <1>3, <1>4 DEF S

=============================================================================
