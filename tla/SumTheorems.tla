------------------------------ MODULE SumTheorems ------------------------------
(***************************************************************************)
(* Facts about SumFunctionOnSet of the community modules: the sum of the    *)
(* values of a function over a finite set.  It is a fold, that is a         *)
(* recursive function over the subsets of the set which CHOOSEs the element *)
(* it takes out next; that this recursion defines a function at all, and    *)
(* that the order does not matter, is proved here by induction over sets.   *)
(* (The library's induction theorems have an operator as a parameter.  The  *)
(* well-foundedness of strict inclusion, on which they rest, has none.)     *)
(***************************************************************************)
EXTENDS Integers, Functions, FiniteSets, FiniteSetTheorems, WellFoundedInduction, TLAPS

----------------------------------------------------------------------------
(* Induction over finite sets *)

\* If a family of subsets of a finite set contains every set from which each element can be
\* taken out within the family, it contains them all.
LEMMA InductionOverSubsets ==
    ASSUME NEW S, IsFiniteSet(S), NEW Good,
           \A T \in SUBSET S : (\A x \in T : T \ {x} \in Good) => T \in Good
    PROVE  \A T \in SUBSET S : T \in Good
  <1> DEFINE Bad == {T \in SUBSET S : T \notin Good}
             R   == StrictSubsetOrdering(S)
  <1> SUFFICES ASSUME Bad # {} PROVE FALSE
    OBVIOUS
  <1>1. IsWellFoundedOn(R, SUBSET S)
    <2>1. IsWellFoundedOn(R, FiniteSubsetsOf(S))
      BY FS_StrictSubsetOrderingWellFounded
    <2>2. FiniteSubsetsOf(S) = SUBSET S
      BY FS_FiniteSubsetsOfFinite
    <2> QED
      BY <2>1, <2>2, Zenon
  <1>2. Bad \subseteq SUBSET S
    OBVIOUS
  <1>3. \A T \in SUBSET S : \A x \in T : <<T \ {x}, T>> \in R
    BY DEF StrictSubsetOrdering
  <1> HIDE DEF R
  <1>4. PICK T \in Bad : \A U \in Bad : <<U, T>> \notin R
    <2> HIDE DEF Bad
    <2> QED
      BY <1>1, <1>2, WFMin
  <1>5. \A x \in T : T \ {x} \in SUBSET S /\ T \ {x} \notin Bad
    BY <1>2, <1>3, <1>4
  <1> QED
    BY <1>4, <1>5

----------------------------------------------------------------------------
(* The recursion behind a sum has a solution *)

Chosen(S) == CHOOSE x \in S : TRUE

Solves(f, S, g) ==
    g = [s \in SUBSET S |-> IF s = {} THEN 0 ELSE f[Chosen(s)] + g[s \ {Chosen(s)}]]

\* The fold, with its recursion named
LEMMA SumUnfolded ==
    ASSUME NEW f, NEW S
    PROVE  SumFunctionOnSet(f, S) = (CHOOSE g : Solves(f, S, g))[S]
  BY DEF SumFunctionOnSet, FoldFunctionOnSet, MapThenFoldSet, Solves, Chosen

LEMMA ChosenIsElement == \A S : S # {} => Chosen(S) \in S
  BY DEF Chosen

\* A solution says what every subset sums up to, and only solutions do.
LEMMA SolvesMeans ==
    ASSUME NEW f, NEW S, NEW g
    PROVE  Solves(f, S, g) <=>
             /\ g = [s \in SUBSET S |-> g[s]]
             /\ \A s \in SUBSET S :
                  g[s] = IF s = {} THEN 0 ELSE f[Chosen(s)] + g[s \ {Chosen(s)}]
  <1> DEFINE rhs == [s \in SUBSET S |-> IF s = {} THEN 0
                                        ELSE f[Chosen(s)] + g[s \ {Chosen(s)}]]
  <1>1. ASSUME Solves(f, S, g) PROVE g = [s \in SUBSET S |-> g[s]]
                                     /\ \A s \in SUBSET S : g[s] = rhs[s]
    <2>1. g = rhs
      BY <1>1 DEF Solves
    <2>2. rhs = [s \in SUBSET S |-> rhs[s]]
      OBVIOUS
    <2> HIDE DEF rhs
    <2> QED
      BY <2>1, <2>2
  <1>2. ASSUME g = [s \in SUBSET S |-> g[s]], \A s \in SUBSET S : g[s] = rhs[s]
        PROVE  Solves(f, S, g)
    <2>1. rhs = [s \in SUBSET S |-> rhs[s]]
      OBVIOUS
    <2>2. g = rhs
      <3> HIDE DEF rhs
      <3> QED
        BY <1>2, <2>1
    <2> QED
      BY <2>2 DEF Solves
  <1>3. \A s \in SUBSET S : rhs[s] = IF s = {} THEN 0 ELSE f[Chosen(s)] + g[s \ {Chosen(s)}]
    OBVIOUS
  <1> QED
    BY <1>1, <1>2, <1>3

\* A solution over a set contains those over its subsets.
LEMMA SolvesRestricted ==
    ASSUME NEW f, NEW S, NEW g, Solves(f, S, g), NEW U \in SUBSET S
    PROVE  Solves(f, U, [s \in SUBSET U |-> g[s]])
  <1> DEFINE h == [s \in SUBSET U |-> g[s]]
  <1>1. \A s \in SUBSET U : h[s] = g[s] /\ s \in SUBSET S /\ s \ {Chosen(s)} \in SUBSET U
    OBVIOUS
  <1>2. h = [s \in SUBSET U |-> h[s]]
    OBVIOUS
  <1> HIDE DEF h
  <1>3. \A s \in SUBSET S : g[s] = IF s = {} THEN 0 ELSE f[Chosen(s)] + g[s \ {Chosen(s)}]
    BY SolvesMeans
  <1>4. \A s \in SUBSET U : h[s] = IF s = {} THEN 0 ELSE f[Chosen(s)] + h[s \ {Chosen(s)}]
    BY <1>1, <1>3
  <1>5. Solves(f, U, h)
    BY <1>2, <1>4, SolvesMeans
  <1> QED
    BY <1>5 DEF h

\* There is at most one.
LEMMA SolutionIsUnique ==
    ASSUME NEW f, NEW S, IsFiniteSet(S), NEW g, NEW h, Solves(f, S, g), Solves(f, S, h)
    PROVE  g = h
  <1> DEFINE Good == {T \in SUBSET S : g[T] = h[T]}
  <1>1. /\ \A s \in SUBSET S : g[s] = IF s = {} THEN 0 ELSE f[Chosen(s)] + g[s \ {Chosen(s)}]
        /\ \A s \in SUBSET S : h[s] = IF s = {} THEN 0 ELSE f[Chosen(s)] + h[s \ {Chosen(s)}]
        /\ g = [s \in SUBSET S |-> g[s]] /\ h = [s \in SUBSET S |-> h[s]]
    BY SolvesMeans
  <1>2. ASSUME NEW T \in SUBSET S, \A x \in T : T \ {x} \in Good
        PROVE  T \in Good
    <2>1. CASE T = {}
      BY <1>1, <2>1
    <2>2. CASE T # {}
      <3>1. Chosen(T) \in T
        BY <2>2, ChosenIsElement
      <3>2. g[T \ {Chosen(T)}] = h[T \ {Chosen(T)}]
        BY <1>2, <3>1
      <3> QED
        BY <1>1, <2>2, <3>2
    <2> QED
      BY <2>1, <2>2
  <1>3. \A T \in SUBSET S : T \in Good
    <2> HIDE DEF Good
    <2> QED
      BY <1>2, InductionOverSubsets
  <1>4. \A T \in SUBSET S : g[T] = h[T]
    BY <1>3
  <1> QED
    BY <1>1, <1>4

Solvable(f, S) == \E g : Solves(f, S, g)

\* Where there is a solution the sum is it, for every subset.
LEMMA SumIsSolution ==
    ASSUME NEW f, NEW S, IsFiniteSet(S), NEW g, Solves(f, S, g), NEW U \in SUBSET S
    PROVE  SumFunctionOnSet(f, U) = g[U]
  <1> DEFINE h == [s \in SUBSET U |-> g[s]]
             c == CHOOSE k : Solves(f, U, k)
  <1>1. Solves(f, U, h)
    BY SolvesRestricted
  <1>2. Solves(f, U, c)
    BY <1>1, Zenon
  <1>3. IsFiniteSet(U)
    BY FS_Subset
  <1>4. h[U] = g[U]
    OBVIOUS
  <1>5. SumFunctionOnSet(f, U) = c[U]
    BY SumUnfolded
  <1> HIDE DEF h, c
  <1>6. c = h
    BY <1>1, <1>2, <1>3, SolutionIsUnique
  <1> QED
    BY <1>4, <1>5, <1>6

\* Then it obeys the recursion.
LEMMA SolvableEquation ==
    ASSUME NEW f, NEW S, IsFiniteSet(S), Solvable(f, S)
    PROVE  SumFunctionOnSet(f, S) =
             IF S = {} THEN 0 ELSE f[Chosen(S)] + SumFunctionOnSet(f, S \ {Chosen(S)})
  <1>1. PICK g : Solves(f, S, g)
    BY DEF Solvable
  <1>2. g[S] = IF S = {} THEN 0 ELSE f[Chosen(S)] + g[S \ {Chosen(S)}]
    BY <1>1, SolvesMeans
  <1>3. SumFunctionOnSet(f, S) = g[S]
        /\ SumFunctionOnSet(f, S \ {Chosen(S)}) = g[S \ {Chosen(S)}]
    BY <1>1, SumIsSolution
  <1> QED
    BY <1>2, <1>3

\* There always is one.
LEMMA AlwaysSolvable ==
    ASSUME NEW f, NEW S, IsFiniteSet(S)
    PROVE  Solvable(f, S)
  <1> DEFINE Good == {T \in SUBSET S : Solvable(f, T)}
             V(s) == SumFunctionOnSet(f, s)
  <1>1. ASSUME NEW T \in SUBSET S, \A x \in T : T \ {x} \in Good
        PROVE  Solvable(f, T)
    <2> DEFINE g == [s \in SUBSET T |->
                        IF s # T \/ s = {} THEN V(s) ELSE f[Chosen(T)] + V(T \ {Chosen(T)})]
    <2>1. ASSUME NEW s \in SUBSET T, s # T
          PROVE  V(s) = IF s = {} THEN 0 ELSE f[Chosen(s)] + V(s \ {Chosen(s)})
      <3>1. PICK y \in T : y \notin s
        BY <2>1
      <3>2. PICK k : Solves(f, T \ {y}, k)
        BY <1>1 DEF Solvable
      <3>3. s \in SUBSET (T \ {y})
        BY <3>1
      <3>4. Solvable(f, s)
        BY <3>2, <3>3, SolvesRestricted DEF Solvable
      <3>5. IsFiniteSet(s)
        BY FS_Subset
      <3> QED
        BY <3>4, <3>5, SolvableEquation
    <2>2. V({}) = 0
      <3>1. Solves(f, {}, [s \in SUBSET {} |-> 0])
        <4> DEFINE z == [s \in SUBSET {} |-> 0]
        <4>1. z = [s \in SUBSET {} |-> z[s]] /\ \A s \in SUBSET {} : s = {} /\ z[s] = 0
          OBVIOUS
        <4> HIDE DEF z
        <4>2. Solves(f, {}, z)
          BY <4>1, SolvesMeans
        <4> QED
          BY <4>2 DEF z
      <3>2. Solvable(f, {}) /\ IsFiniteSet({})
        BY <3>1, FS_EmptySet, Zenon DEF Solvable
      <3> QED
        BY <3>2, SolvableEquation
    <2>3. \A s \in SUBSET T :
            g[s] = IF s # T \/ s = {} THEN V(s) ELSE f[Chosen(T)] + V(T \ {Chosen(T)})
      OBVIOUS
    <2>4. g = [s \in SUBSET T |-> g[s]]
      OBVIOUS
    <2> HIDE DEF g
    <2>5. ASSUME NEW s \in SUBSET T
          PROVE  g[s] = IF s = {} THEN 0 ELSE f[Chosen(s)] + g[s \ {Chosen(s)}]
      <3>1. CASE s = {}
        BY <2>2, <2>3, <3>1
      <3>2. CASE s # {}
        <4>1. s \ {Chosen(s)} \in SUBSET T /\ s \ {Chosen(s)} # T
          BY <3>2, ChosenIsElement
        <4>2. g[s \ {Chosen(s)}] = V(s \ {Chosen(s)})
          BY <2>3, <4>1
        <4>3. CASE s = T
          <5>1. g[T] = f[Chosen(T)] + V(T \ {Chosen(T)})
            BY <2>3, <3>2, <4>3
          <5> QED
            BY <3>2, <4>2, <4>3, <5>1
        <4>4. CASE s # T
          BY <2>1, <2>3, <3>2, <4>2, <4>4
        <4> QED
          BY <4>3, <4>4
      <3> QED
        BY <3>1, <3>2
    <2>6. Solves(f, T, g)
      BY <2>4, <2>5, SolvesMeans
    <2> QED
      BY <2>6 DEF Solvable
  <1>2. \A T \in SUBSET S : T \in Good
    <2>1. \A T \in SUBSET S : (\A x \in T : T \ {x} \in Good) => T \in Good
      BY <1>1
    <2> HIDE DEF Good
    <2> QED
      BY <2>1, InductionOverSubsets
  <1> QED
    BY <1>2

----------------------------------------------------------------------------
(* What a sum is *)

\* The empty sum, and the recursion of the definition
LEMMA SumRecursion ==
    /\ \A f : SumFunctionOnSet(f, {}) = 0
    /\ \A f, S : IsFiniteSet(S) /\ S # {} =>
         SumFunctionOnSet(f, S) = f[Chosen(S)] + SumFunctionOnSet(f, S \ {Chosen(S)})
  <1>1. ASSUME NEW f PROVE SumFunctionOnSet(f, {}) = 0
    <2>1. IsFiniteSet({})
      BY FS_EmptySet
    <2> QED
      BY <2>1, AlwaysSolvable, SolvableEquation
  <1>2. ASSUME NEW f, NEW S, IsFiniteSet(S), S # {}
        PROVE  SumFunctionOnSet(f, S) = f[Chosen(S)] + SumFunctionOnSet(f, S \ {Chosen(S)})
    BY <1>2, AlwaysSolvable, SolvableEquation
  <1> QED
    BY <1>1, <1>2

\* A sum of integers is an integer.
LEMMA SumIsInt ==
    ASSUME NEW S, IsFiniteSet(S), NEW f, \A x \in S : f[x] \in Int
    PROVE  \A T \in SUBSET S : SumFunctionOnSet(f, T) \in Int
  <1> DEFINE Good == {T \in SUBSET S : SumFunctionOnSet(f, T) \in Int}
  <1>1. ASSUME NEW T \in SUBSET S, \A x \in T : T \ {x} \in Good
        PROVE  SumFunctionOnSet(f, T) \in Int
    <2>1. CASE T = {}
      BY <2>1, SumRecursion
    <2>2. CASE T # {}
      <3>1. Chosen(T) \in T /\ IsFiniteSet(T)
        BY <2>2, ChosenIsElement, FS_Subset
      <3>2. f[Chosen(T)] \in Int /\ SumFunctionOnSet(f, T \ {Chosen(T)}) \in Int
        BY <1>1, <3>1
      <3>3. SumFunctionOnSet(f, T) = f[Chosen(T)] + SumFunctionOnSet(f, T \ {Chosen(T)})
        BY <2>2, <3>1, SumRecursion
      <3> QED
        BY <3>2, <3>3
    <2> QED
      BY <2>1, <2>2
  <1>2. \A T \in SUBSET S : T \in Good
    <2>1. \A T \in SUBSET S : (\A x \in T : T \ {x} \in Good) => T \in Good
      BY <1>1
    <2> HIDE DEF Good
    <2> QED
      BY <2>1, InductionOverSubsets
  <1> QED
    BY <1>2

\* Any element may be taken out first.
LEMMA SumTakeOut ==
    ASSUME NEW S, IsFiniteSet(S), NEW f, \A x \in S : f[x] \in Int, NEW x \in S
    PROVE  /\ SumFunctionOnSet(f, S) = f[x] + SumFunctionOnSet(f, S \ {x})
           /\ SumFunctionOnSet(f, S) \in Int /\ SumFunctionOnSet(f, S \ {x}) \in Int
  <1> DEFINE V(T) == SumFunctionOnSet(f, T)
             Good == {T \in SUBSET S : \A y \in T : V(T) = f[y] + V(T \ {y})}
  <1>1. \A T \in SUBSET S : V(T) \in Int
    BY SumIsInt
  <1>2. ASSUME NEW T \in SUBSET S, \A y \in T : T \ {y} \in Good, NEW y \in T
        PROVE  V(T) = f[y] + V(T \ {y})
    <2> DEFINE c == Chosen(T)
    <2>1. c \in T /\ IsFiniteSet(T) /\ IsFiniteSet(T \ {y})
      BY <1>2, ChosenIsElement, FS_Subset, FS_RemoveElement
    <2> HIDE DEF c
    <2>2. V(T) = f[c] + V(T \ {c})
      BY <2>1, SumRecursion DEF c
    <2>3. CASE c = y
      BY <2>2, <2>3
    <2>4. CASE c # y
      <3>1. V(T \ {c}) = f[y] + V((T \ {c}) \ {y})
        BY <1>2, <2>1, <2>4
      <3>2. V(T \ {y}) = f[c] + V((T \ {y}) \ {c})
        BY <1>2, <2>1, <2>4
      <3>3. (T \ {c}) \ {y} = (T \ {y}) \ {c}
        OBVIOUS
      <3>4. f[c] \in Int /\ f[y] \in Int /\ V((T \ {y}) \ {c}) \in Int
        BY <1>1, <2>1
      <3>5. V(T) = f[c] + (f[y] + V((T \ {y}) \ {c}))
        BY <2>2, <3>1, <3>3, Zenon
      <3> HIDE DEF V
      <3> QED
        BY <3>2, <3>4, <3>5
    <2> QED
      BY <2>3, <2>4
  <1>3. \A T \in SUBSET S : T \in Good
    <2>1. \A T \in SUBSET S : (\A y \in T : T \ {y} \in Good) => T \in Good
      BY <1>2
    <2> HIDE DEF Good
    <2> QED
      BY <2>1, InductionOverSubsets
  <1>4. V(S) = f[x] + V(S \ {x})
    BY <1>3
  <1> QED
    BY <1>1, <1>4

----------------------------------------------------------------------------
(* Comparing sums *)

\* Larger terms make a larger sum.
LEMMA SumIsMonotone ==
    ASSUME NEW S, IsFiniteSet(S), NEW f, NEW g,
           \A x \in S : f[x] \in Int /\ g[x] \in Int /\ f[x] <= g[x]
    PROVE  SumFunctionOnSet(f, S) <= SumFunctionOnSet(g, S)
  <1> DEFINE F(T) == SumFunctionOnSet(f, T)
             G(T) == SumFunctionOnSet(g, T)
             Good == {T \in SUBSET S : F(T) <= G(T)}
  <1>1. ASSUME NEW T \in SUBSET S, \A x \in T : T \ {x} \in Good
        PROVE  F(T) <= G(T)
    <2>1. CASE T = {}
      BY <2>1, SumRecursion
    <2>2. CASE T # {}
      <3>1. PICK x \in T : TRUE
        BY <2>2
      <3>2. IsFiniteSet(T) /\ \A y \in T : f[y] \in Int /\ g[y] \in Int
        BY FS_Subset
      <3>3. F(T) = f[x] + F(T \ {x}) /\ F(T \ {x}) \in Int
        BY <3>1, <3>2, SumTakeOut
      <3>4. G(T) = g[x] + G(T \ {x}) /\ G(T \ {x}) \in Int
        BY <3>1, <3>2, SumTakeOut
      <3>5. F(T \ {x}) <= G(T \ {x}) /\ f[x] <= g[x] /\ f[x] \in Int /\ g[x] \in Int
        BY <1>1, <3>1
      <3> HIDE DEF F, G
      <3> QED
        BY <3>3, <3>4, <3>5
    <2> QED
      BY <2>1, <2>2
  <1>2. \A T \in SUBSET S : T \in Good
    <2>1. \A T \in SUBSET S : (\A y \in T : T \ {y} \in Good) => T \in Good
      BY <1>1
    <2> HIDE DEF Good
    <2> QED
      BY <2>1, InductionOverSubsets
  <1> QED
    BY <1>2

\* Equal terms make equal sums.
LEMMA SumOfEqualTerms ==
    ASSUME NEW S, IsFiniteSet(S), NEW f, NEW g,
           \A x \in S : f[x] \in Int /\ f[x] = g[x]
    PROVE  SumFunctionOnSet(f, S) = SumFunctionOnSet(g, S)
  <1>1. SumFunctionOnSet(f, S) <= SumFunctionOnSet(g, S)
        /\ SumFunctionOnSet(g, S) <= SumFunctionOnSet(f, S)
    BY SumIsMonotone
  <1>2. SumFunctionOnSet(f, S) \in Int /\ SumFunctionOnSet(g, S) \in Int
    BY SumIsInt
  <1> QED
    BY <1>1, <1>2

\* Where f and g differ at x only, the sum changes by what the term at x does.  (It has a name
\* so that the provers match it as a whole; the arithmetic in it would be rearranged first.)
SumChange(S, f, g, x) ==
    SumFunctionOnSet(g, S) = SumFunctionOnSet(f, S) + (g[x] - f[x])


\* One term that changes changes the sum by as much.
LEMMA SumOfChangedTerm ==
    ASSUME NEW S, IsFiniteSet(S), NEW f, NEW g, NEW x \in S,
           \A y \in S : f[y] \in Int /\ g[y] \in Int,
           \A y \in S \ {x} : f[y] = g[y]
    PROVE  SumChange(S, f, g, x)
  <1>1. IsFiniteSet(S \ {x})
    BY FS_RemoveElement
  <1>2. SumFunctionOnSet(f, S \ {x}) = SumFunctionOnSet(g, S \ {x})
    BY <1>1, SumOfEqualTerms
  <1>3. SumFunctionOnSet(f, S) = f[x] + SumFunctionOnSet(f, S \ {x})
        /\ SumFunctionOnSet(f, S \ {x}) \in Int
    BY SumTakeOut
  <1>4. SumFunctionOnSet(g, S) = g[x] + SumFunctionOnSet(g, S \ {x})
    BY SumTakeOut
  <1> QED
    BY <1>2, <1>3, <1>4 DEF SumChange

\* A sum of natural numbers is one, and not less than any of them.
LEMMA SumOfNaturals ==
    ASSUME NEW S, IsFiniteSet(S), NEW f, \A x \in S : f[x] \in Nat
    PROVE  /\ SumFunctionOnSet(f, S) \in Nat
           /\ \A x \in S : f[x] <= SumFunctionOnSet(f, S)
  <1> DEFINE Good == {T \in SUBSET S : SumFunctionOnSet(f, T) >= 0}
  <1>1. ASSUME NEW T \in SUBSET S, \A x \in T : T \ {x} \in Good
        PROVE  SumFunctionOnSet(f, T) >= 0
    <2>1. CASE T = {}
      BY <2>1, SumRecursion
    <2>2. CASE T # {}
      <3>1. PICK x \in T : TRUE
        BY <2>2
      <3>2. IsFiniteSet(T) /\ \A y \in T : f[y] \in Int
        BY FS_Subset
      <3>3. SumFunctionOnSet(f, T) = f[x] + SumFunctionOnSet(f, T \ {x})
            /\ SumFunctionOnSet(f, T \ {x}) \in Int
        BY <3>1, <3>2, SumTakeOut
      <3>4. SumFunctionOnSet(f, T \ {x}) >= 0 /\ f[x] \in Nat
        BY <1>1, <3>1
      <3> QED
        BY <3>3, <3>4
    <2> QED
      BY <2>1, <2>2
  <1>2. \A T \in SUBSET S : T \in Good
    <2>1. \A T \in SUBSET S : (\A y \in T : T \ {y} \in Good) => T \in Good
      BY <1>1
    <2> HIDE DEF Good
    <2> QED
      BY <2>1, InductionOverSubsets
  <1>3. \A T \in SUBSET S : SumFunctionOnSet(f, T) \in Int
    BY SumIsInt
  <1>4. \A T \in SUBSET S : SumFunctionOnSet(f, T) \in Nat
    BY <1>2, <1>3
  <1>5. ASSUME NEW x \in S PROVE f[x] <= SumFunctionOnSet(f, S)
    <2>1. SumFunctionOnSet(f, S) = f[x] + SumFunctionOnSet(f, S \ {x})
      BY SumTakeOut
    <2>2. SumFunctionOnSet(f, S \ {x}) \in Nat /\ f[x] \in Nat
      BY <1>4
    <2> QED
      BY <2>1, <2>2
  <1> QED
    BY <1>4, <1>5

\* A sum over fewer terms, none of them negative, is not larger.
LEMMA SumOverSubset ==
    ASSUME NEW S, IsFiniteSet(S), NEW f, \A x \in S : f[x] \in Nat, NEW T \in SUBSET S
    PROVE  SumFunctionOnSet(f, T) <= SumFunctionOnSet(f, S)
  <1> DEFINE Good == {U \in SUBSET S : SumFunctionOnSet(f, T \cap U) <= SumFunctionOnSet(f, U)}
  <1>1. ASSUME NEW U \in SUBSET S, \A x \in U : U \ {x} \in Good
        PROVE  SumFunctionOnSet(f, T \cap U) <= SumFunctionOnSet(f, U)
    <2>1. CASE U = {}
      BY <2>1, SumRecursion
    <2>2. CASE U # {}
      <3>1. PICK x \in U : TRUE
        BY <2>2
      <3>2. /\ IsFiniteSet(U) /\ IsFiniteSet(T \cap U)
            /\ \A y \in U : f[y] \in Int /\ f[y] \in Nat
            /\ \A y \in T \cap U : f[y] \in Int
        BY FS_Subset
      <3>3. SumFunctionOnSet(f, U) = f[x] + SumFunctionOnSet(f, U \ {x})
            /\ SumFunctionOnSet(f, U \ {x}) \in Int
        BY <3>1, <3>2, SumTakeOut
      <3>4. SumFunctionOnSet(f, T \cap (U \ {x})) <= SumFunctionOnSet(f, U \ {x})
        BY <1>1, <3>1
      <3>5. CASE x \in T
        <4>1. SumFunctionOnSet(f, T \cap U) = f[x] + SumFunctionOnSet(f, (T \cap U) \ {x})
              /\ SumFunctionOnSet(f, (T \cap U) \ {x}) \in Int
          BY <3>1, <3>2, <3>5, SumTakeOut
        <4>2. (T \cap U) \ {x} = T \cap (U \ {x})
          OBVIOUS
        <4>3. f[x] \in Int
          BY <3>1, <3>2
        <4>4. SumFunctionOnSet(f, (T \cap U) \ {x}) <= SumFunctionOnSet(f, U \ {x})
          BY <3>4, <4>2, Zenon
        <4> QED
          BY <3>3, <4>1, <4>3, <4>4
      <3>6. CASE x \notin T
        <4>1. T \cap U = T \cap (U \ {x})
          BY <3>6
        <4>2. f[x] \in Nat /\ SumFunctionOnSet(f, T \cap U) \in Int
          BY <3>1, <3>2, SumIsInt
        <4>3. SumFunctionOnSet(f, T \cap U) <= SumFunctionOnSet(f, U \ {x})
          BY <3>4, <4>1, Zenon
        <4> QED
          BY <3>3, <4>2, <4>3
      <3> QED
        BY <3>5, <3>6
    <2> QED
      BY <2>1, <2>2
  <1>2. \A U \in SUBSET S : U \in Good
    <2>1. \A U \in SUBSET S : (\A y \in U : U \ {y} \in Good) => U \in Good
      BY <1>1
    <2> HIDE DEF Good
    <2> QED
      BY <2>1, InductionOverSubsets
  <1>3. S \in Good /\ T \cap S = T
    BY <1>2
  <1> QED
    BY <1>3

\* A sum of terms that are not larger than m
LEMMA SumIsBounded ==
    ASSUME NEW S, IsFiniteSet(S), NEW f, NEW m \in Nat,
           \A x \in S : f[x] \in Int /\ f[x] <= m
    PROVE  SumFunctionOnSet(f, S) <= Cardinality(S) * m
  <1> DEFINE Good == {T \in SUBSET S : SumFunctionOnSet(f, T) <= Cardinality(T) * m}
  <1>1. ASSUME NEW T \in SUBSET S, \A x \in T : T \ {x} \in Good
        PROVE  SumFunctionOnSet(f, T) <= Cardinality(T) * m
    <2>1. CASE T = {}
      <3>1. SumFunctionOnSet(f, T) = 0 /\ Cardinality(T) = 0
        BY <2>1, SumRecursion, FS_EmptySet
      <3> QED
        BY <3>1
    <2>2. CASE T # {}
      <3>1. PICK x \in T : TRUE
        BY <2>2
      <3>2. IsFiniteSet(T) /\ \A y \in T : f[y] \in Int
        BY FS_Subset
      <3>3. SumFunctionOnSet(f, T) = f[x] + SumFunctionOnSet(f, T \ {x})
            /\ SumFunctionOnSet(f, T \ {x}) \in Int
        BY <3>1, <3>2, SumTakeOut
      <3>4. SumFunctionOnSet(f, T \ {x}) <= Cardinality(T \ {x}) * m
            /\ f[x] \in Int /\ f[x] <= m
        BY <1>1, <3>1
      <3>5. IsFiniteSet(T \ {x}) /\ Cardinality(T \ {x}) = Cardinality(T) - 1
        BY <3>1, <3>2, FS_RemoveElement
      <3>6. Cardinality(T) \in Nat /\ Cardinality(T \ {x}) \in Nat
        BY <3>2, <3>5, FS_CardinalityType
      <3>7. \A n \in Nat : (n + 1) * m = n * m + m
        OBVIOUS
      <3>8. Cardinality(T) * m = Cardinality(T \ {x}) * m + m
        BY <3>5, <3>6, <3>7
      <3>9. Cardinality(T) * m \in Int /\ Cardinality(T \ {x}) * m \in Int
        BY <3>6
      <3> QED
        BY <3>3, <3>4, <3>8, <3>9
    <2> QED
      BY <2>1, <2>2
  <1>2. \A T \in SUBSET S : T \in Good
    <2>1. \A T \in SUBSET S : (\A y \in T : T \ {y} \in Good) => T \in Good
      BY <1>1
    <2> HIDE DEF Good
    <2> QED
      BY <2>1, InductionOverSubsets
  <1> QED
    BY <1>2

\* A sum of nothing but zeros
LEMMA SumOfZeros ==
    ASSUME NEW S, IsFiniteSet(S), NEW f, \A x \in S : f[x] = 0
    PROVE  SumFunctionOnSet(f, S) = 0
  <1>1. SumFunctionOnSet(f, S) \in Nat
    BY SumOfNaturals
  <1>2. Cardinality(S) * 0 = 0
    BY FS_CardinalityType
  <1>3. SumFunctionOnSet(f, S) <= Cardinality(S) * 0
    BY SumIsBounded
  <1> QED
    BY <1>1, <1>2, <1>3
================================================================================
