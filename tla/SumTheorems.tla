---------------------------- MODULE SumTheorems ----------------------------
(***************************************************************************)
(* Sums over finite sets, SumFunctionOnSet(f, S) of the module Functions:  *)
(* it is 0 for the empty set and otherwise any element's value plus the    *)
(* rest.  The fold behind it is a recursive function, whose existence and  *)
(* values are shown by a smallest subset that would be an exception.       *)
(***************************************************************************)
EXTENDS Integers, FiniteSets, Functions, FiniteSetTheorems, WellFoundedInduction, TLAPS

\* The recursion the fold is defined by.
Pick(s) == CHOOSE x \in s : TRUE
Body(h, f, s) == IF s = {} THEN 0 ELSE f[Pick(s)] + h[s \ {Pick(s)}]
Sums(h, f, S) == h = [s \in SUBSET S |-> Body(h, f, s)]
Iter(f, S) == CHOOSE h : Sums(h, f, S)

LEMMA SumIsIter ==
  ASSUME NEW f, NEW S
  PROVE  SumFunctionOnSet(f, S) = Iter(f, S)[S]
BY DEF SumFunctionOnSet, FoldFunctionOnSet, MapThenFoldSet, Iter, Sums, Body, Pick

\* A set of subsets of a finite set that is not empty has a smallest member.
LEMMA SmallestSubset ==
  ASSUME NEW S, IsFiniteSet(S), NEW T, T \subseteq SUBSET S, T # {}
  PROVE  \E U \in T : \A V \in T : ~(V \subseteq U /\ V # U)
<1>1. IsWellFoundedOn(StrictSubsetOrdering(S), FiniteSubsetsOf(S))
  BY FS_StrictSubsetOrderingWellFounded
<1>2. FiniteSubsetsOf(S) = SUBSET S
  BY FS_FiniteSubsetsOfFinite
<1>3. PICK U \in T : \A V \in T : ~ (<<V, U>> \in StrictSubsetOrdering(S))
  BY <1>1, <1>2, WFMin
<1>4. ASSUME NEW V \in T PROVE ~(V \subseteq U /\ V # U)
  BY <1>3, <1>4 DEF StrictSubsetOrdering
<1> QED BY <1>4

LEMMA PickIsIn ==
  ASSUME NEW s, s # {}
  PROVE  Pick(s) \in s
BY DEF Pick

\* Two functions that satisfy the recursion agree where both are defined.
LEMMA SumsAgree ==
  ASSUME NEW f, NEW S, NEW T, NEW h, NEW k, IsFiniteSet(S), Sums(h, f, S), Sums(k, f, T)
  PROVE  \A V \in (SUBSET S) \cap (SUBSET T) : h[V] = k[V]
<1> DEFINE X == {V \in SUBSET S : V \in SUBSET T /\ h[V] # k[V]}
<1>1. SUFFICES X = {}
  OBVIOUS
<1>2. SUFFICES ASSUME X # {} PROVE FALSE
  OBVIOUS
<1>3. PICK U \in X : \A V \in X : ~(V \subseteq U /\ V # U)
  <2> HIDE DEF X
  <2>1. X \subseteq SUBSET S
    BY DEF X
  <2> QED BY <1>2, <2>1, SmallestSubset
<1>4. h[U] = Body(h, f, U) /\ k[U] = Body(k, f, U)
  BY DEF Sums
<1>5. CASE U = {}
  BY <1>4, <1>5 DEF Body
<1>6. CASE U # {}
  <2> DEFINE V == U \ {Pick(U)}
  <2>1. V \subseteq U /\ V # U
    BY <1>6, PickIsIn
  <2>2. h[V] = k[V]
    BY <1>3, <2>1
  <2> QED BY <1>4, <1>6, <2>2 DEF Body
<1> QED BY <1>5, <1>6

\* The function the fold chooses exists.
LEMMA SumsExist ==
  ASSUME NEW f, NEW S, IsFiniteSet(S)
  PROVE  Sums(Iter(f, S), f, S)
<1> DEFINE X == {U \in SUBSET S : ~ Sums(Iter(f, U), f, U)}
<1>1. SUFFICES ASSUME X # {} PROVE FALSE
  OBVIOUS
<1>2. PICK U \in X : \A V \in X : ~(V \subseteq U /\ V # U)
  <2> HIDE DEF X
  <2>1. X \subseteq SUBSET S
    BY DEF X
  <2> QED BY <1>1, <2>1, SmallestSubset
<1> DEFINE g == [s \in SUBSET U |-> IF s # U THEN Iter(f, s)[s]
                                    ELSE IF U = {} THEN 0
                                    ELSE f[Pick(U)] + Iter(f, U \ {Pick(U)})[U \ {Pick(U)}]]
<1>3. ASSUME NEW s \in SUBSET U, s # U PROVE Sums(Iter(f, s), f, s) /\ IsFiniteSet(s)
  BY <1>2, <1>3, FS_Subset
<1>4. ASSUME NEW s \in SUBSET U PROVE g[s] = Body(g, f, s)
  <2> DEFINE r == s \ {Pick(s)}
  <2>1. CASE s = U /\ U = {}
    BY <2>1 DEF Body
  <2>2. CASE s = U /\ U # {}
    <3>1. r \in SUBSET U /\ r # U
      BY <2>2, PickIsIn
    <3>2. g[r] = Iter(f, r)[r]
      BY <3>1
    <3> QED BY <2>2, <3>2 DEF Body
  <2>3. CASE s # U
    <3>1. g[s] = Iter(f, s)[s]
      BY <2>3
    <3>2. Iter(f, s)[s] = Body(Iter(f, s), f, s)
      BY <1>3, <2>3 DEF Sums
    <3>3. CASE s = {}
      BY <3>1, <3>2, <3>3 DEF Body
    <3>4. CASE s # {}
      <4>1. r \in SUBSET U /\ r # U /\ r \in SUBSET s
        BY <2>3, <3>4, PickIsIn
      <4>2. g[r] = Iter(f, r)[r]
        BY <4>1
      <4>3. Iter(f, r)[r] = Iter(f, s)[r]
        BY <1>3, <2>3, <4>1, SumsAgree
      <4> QED BY <3>1, <3>2, <3>4, <4>2, <4>3 DEF Body
    <3> QED BY <3>3, <3>4
  <2> QED BY <2>1, <2>2, <2>3
<1>5. Sums(g, f, U)
  <2>1. g = [s \in SUBSET U |-> g[s]]
    OBVIOUS
  <2> HIDE DEF g
  <2> QED BY <1>4, <2>1 DEF Sums
<1>6. Sums(Iter(f, U), f, U)
  BY <1>5 DEF Iter
<1> QED BY <1>2, <1>6

-----------------------------------------------------------------------------
(* What sums are.                                                          *)

LEMMA SumOfEmpty ==
  ASSUME NEW f
  PROVE  SumFunctionOnSet(f, {}) = 0
<1>1. Sums(Iter(f, {}), f, {})
  BY SumsExist, FS_EmptySet
<1> QED BY <1>1, SumIsIter DEF Sums, Body

LEMMA SumByPick ==
  ASSUME NEW f, NEW S, IsFiniteSet(S), S # {}
  PROVE  SumFunctionOnSet(f, S) = f[Pick(S)] + SumFunctionOnSet(f, S \ {Pick(S)})
<1> DEFINE R == S \ {Pick(S)}
<1>1. R \in SUBSET S /\ R \in SUBSET R /\ IsFiniteSet(R)
  BY FS_Subset
<1>2. Sums(Iter(f, S), f, S) /\ Sums(Iter(f, R), f, R)
  BY <1>1, SumsExist
<1>3. Iter(f, S)[S] = f[Pick(S)] + Iter(f, S)[R]
  BY <1>2 DEF Sums, Body
<1>4. Iter(f, S)[R] = Iter(f, R)[R]
  <2> HIDE DEF R
  <2> QED BY <1>1, <1>2, SumsAgree
<1> QED BY <1>3, <1>4, SumIsIter

LEMMA SumIsInt ==
  ASSUME NEW S, IsFiniteSet(S), NEW f, \A x \in S : f[x] \in Int
  PROVE  SumFunctionOnSet(f, S) \in Int
<1> DEFINE X == {U \in SUBSET S : SumFunctionOnSet(f, U) \notin Int}
<1>1. SUFFICES ASSUME X # {} PROVE FALSE
  OBVIOUS
<1>2. PICK U \in X : \A V \in X : ~(V \subseteq U /\ V # U)
  <2> HIDE DEF X
  <2>1. X \subseteq SUBSET S
    BY DEF X
  <2> QED BY <1>1, <2>1, SmallestSubset
<1>3. CASE U = {}
  BY <1>2, <1>3, SumOfEmpty
<1>4. CASE U # {}
  <2>1. Pick(U) \in U /\ IsFiniteSet(U) /\ f[Pick(U)] \in Int
    BY <1>2, <1>4, PickIsIn, FS_Subset
  <2>2. SumFunctionOnSet(f, U \ {Pick(U)}) \in Int
    BY <1>2, <2>1
  <2> QED BY <1>2, <1>4, <2>1, <2>2, SumByPick
<1> QED BY <1>3, <1>4

\* Any element may be taken out first.
LEMMA SumWithout ==
  ASSUME NEW S, IsFiniteSet(S), NEW f, \A x \in S : f[x] \in Int, NEW x \in S
  PROVE  SumFunctionOnSet(f, S) = f[x] + SumFunctionOnSet(f, S \ {x})
<1> DEFINE Sum(U) == SumFunctionOnSet(f, U)
           X == {U \in SUBSET S : \E y \in U : Sum(U) # f[y] + Sum(U \ {y})}
<1>1. ASSUME NEW U \in SUBSET S
      PROVE  /\ IsFiniteSet(U) /\ Sum(U) \in Int
             /\ U # {} => Pick(U) \in U /\ Sum(U) = f[Pick(U)] + Sum(U \ {Pick(U)})
  <2>1. IsFiniteSet(U) /\ \A y \in U : f[y] \in Int
    BY <1>1, FS_Subset
  <2> QED BY <2>1, SumIsInt, PickIsIn, SumByPick
<1>2. SUFFICES ASSUME X # {} PROVE FALSE
  OBVIOUS
<1> HIDE DEF Sum
<1>3. PICK U \in X : \A V \in X : ~(V \subseteq U /\ V # U)
  <2>1. X \subseteq SUBSET S
    OBVIOUS
  <2> HIDE DEF X
  <2> QED BY <1>2, <2>1, SmallestSubset
<1>4. PICK y \in U : Sum(U) # f[y] + Sum(U \ {y})
  OBVIOUS
<1> DEFINE p == Pick(U)
           R == U \ {p, y}
<1>5. p \in U /\ Sum(U) = f[p] + Sum(U \ {p}) /\ p # y
  BY <1>1, <1>3, <1>4
<1>6. Sum(U \ {p}) = f[y] + Sum(R)
  <2>1. U \ {p} \in SUBSET S /\ U \ {p} \subseteq U /\ U \ {p} # U
    BY <1>3, <1>5
  <2>2. U \ {p} \notin X
    BY <1>3, <2>1
  <2>3. (U \ {p}) \ {y} = R /\ y \in U \ {p}
    BY <1>5
  <2> QED BY <2>1, <2>2, <2>3
<1>7. Sum(U \ {y}) = f[p] + Sum(R)
  <2>1. U \ {y} \in SUBSET S /\ U \ {y} \subseteq U /\ U \ {y} # U
    BY <1>3, <1>5
  <2>2. U \ {y} \notin X
    BY <1>3, <2>1
  <2>3. (U \ {y}) \ {p} = R /\ p \in U \ {y}
    BY <1>5
  <2> QED BY <2>1, <2>2, <2>3
<1>8. f[p] \in Int /\ f[y] \in Int /\ Sum(R) \in Int
  BY <1>1, <1>3, <1>5
<1> QED BY <1>4, <1>5, <1>6, <1>7, <1>8

LEMMA SumWith ==
  ASSUME NEW S, IsFiniteSet(S), NEW x, x \notin S,
         NEW f, \A y \in S \union {x} : f[y] \in Int
  PROVE  SumFunctionOnSet(f, S \union {x}) = f[x] + SumFunctionOnSet(f, S)
<1>1. IsFiniteSet(S \union {x}) /\ (S \union {x}) \ {x} = S
  BY FS_AddElement
<1> QED BY <1>1, SumWithout

LEMMA SumOfOne ==
  ASSUME NEW x, NEW f, f[x] \in Int
  PROVE  SumFunctionOnSet(f, {x}) = f[x]
<1>1. {} \union {x} = {x}
  OBVIOUS
<1> QED BY <1>1, SumWith, SumOfEmpty, FS_EmptySet

\* Only the values on the set count.
LEMMA SumsAreEqual ==
  ASSUME NEW S, IsFiniteSet(S), NEW f, NEW g, \A x \in S : f[x] = g[x]
  PROVE  SumFunctionOnSet(f, S) = SumFunctionOnSet(g, S)
<1> DEFINE X == {U \in SUBSET S : SumFunctionOnSet(f, U) # SumFunctionOnSet(g, U)}
<1>1. SUFFICES ASSUME X # {} PROVE FALSE
  OBVIOUS
<1>2. PICK U \in X : \A V \in X : ~(V \subseteq U /\ V # U)
  <2> HIDE DEF X
  <2>1. X \subseteq SUBSET S
    BY DEF X
  <2> QED BY <1>1, <2>1, SmallestSubset
<1>3. CASE U = {}
  BY <1>2, <1>3, SumOfEmpty
<1>4. CASE U # {}
  <2>1. Pick(U) \in U /\ IsFiniteSet(U) /\ f[Pick(U)] = g[Pick(U)]
    BY <1>2, <1>4, PickIsIn, FS_Subset
  <2>2. SumFunctionOnSet(f, U \ {Pick(U)}) = SumFunctionOnSet(g, U \ {Pick(U)})
    BY <1>2, <2>1
  <2> QED BY <1>2, <1>4, <2>1, <2>2, SumByPick
<1> QED BY <1>3, <1>4

LEMMA SumIsNat ==
  ASSUME NEW S, IsFiniteSet(S), NEW f, \A x \in S : f[x] \in Nat
  PROVE  SumFunctionOnSet(f, S) \in Nat
<1> DEFINE X == {U \in SUBSET S : SumFunctionOnSet(f, U) \notin Nat}
<1>1. SUFFICES ASSUME X # {} PROVE FALSE
  OBVIOUS
<1>2. PICK U \in X : \A V \in X : ~(V \subseteq U /\ V # U)
  <2> HIDE DEF X
  <2>1. X \subseteq SUBSET S
    BY DEF X
  <2> QED BY <1>1, <2>1, SmallestSubset
<1>3. CASE U = {}
  BY <1>2, <1>3, SumOfEmpty
<1>4. CASE U # {}
  <2>1. Pick(U) \in U /\ IsFiniteSet(U) /\ f[Pick(U)] \in Nat
    BY <1>2, <1>4, PickIsIn, FS_Subset
  <2>2. SumFunctionOnSet(f, U \ {Pick(U)}) \in Nat
    BY <1>2, <2>1
  <2> QED BY <1>2, <1>4, <2>1, <2>2, SumByPick
<1> QED BY <1>3, <1>4

LEMMA SumOfZeroes ==
  ASSUME NEW S, IsFiniteSet(S), NEW f, \A x \in S : f[x] = 0
  PROVE  SumFunctionOnSet(f, S) = 0
<1> DEFINE X == {U \in SUBSET S : SumFunctionOnSet(f, U) # 0}
<1>1. SUFFICES ASSUME X # {} PROVE FALSE
  OBVIOUS
<1>2. PICK U \in X : \A V \in X : ~(V \subseteq U /\ V # U)
  <2> HIDE DEF X
  <2>1. X \subseteq SUBSET S
    BY DEF X
  <2> QED BY <1>1, <2>1, SmallestSubset
<1>3. CASE U = {}
  BY <1>2, <1>3, SumOfEmpty
<1>4. CASE U # {}
  <2>1. Pick(U) \in U /\ IsFiniteSet(U) /\ f[Pick(U)] = 0
    BY <1>2, <1>4, PickIsIn, FS_Subset
  <2>2. SumFunctionOnSet(f, U \ {Pick(U)}) = 0
    BY <1>2, <2>1
  <2> QED BY <1>2, <1>4, <2>1, <2>2, SumByPick
<1> QED BY <1>3, <1>4

\* The sum over a part is at most the sum over the whole.
LEMMA SumOfPart ==
  ASSUME NEW S, IsFiniteSet(S), NEW f, \A x \in S : f[x] \in Nat, NEW T \in SUBSET S
  PROVE  SumFunctionOnSet(f, T) <= SumFunctionOnSet(f, S)
<1> DEFINE Sum(U) == SumFunctionOnSet(f, U)
           X == {U \in SUBSET S : T \subseteq U /\ ~(Sum(T) <= Sum(U))}
<1>1. ASSUME NEW U \in SUBSET S
      PROVE  /\ IsFiniteSet(U) /\ Sum(U) \in Nat
             /\ \A y \in U : Sum(U) = f[y] + Sum(U \ {y})
  <2>1. IsFiniteSet(U) /\ \A y \in U : f[y] \in Nat
    BY <1>1, FS_Subset
  <2>2. \A y \in U : f[y] \in Int
    BY <2>1
  <2> QED BY <2>1, <2>2, SumIsNat, SumWithout
<1>2. SUFFICES ASSUME X # {} PROVE FALSE
  OBVIOUS
<1> HIDE DEF Sum
<1>3. PICK U \in X : \A V \in X : ~(V \subseteq U /\ V # U)
  <2>1. X \subseteq SUBSET S
    OBVIOUS
  <2> HIDE DEF X
  <2> QED BY <1>2, <2>1, SmallestSubset
<1>4. Sum(T) \in Nat /\ Sum(U) \in Nat
  BY <1>1
<1>5. CASE U = T
  BY <1>3, <1>4, <1>5
<1>6. CASE U # T
  <2>1. PICK y \in U : y \notin T
    BY <1>3, <1>6
  <2>2. U \ {y} \in SUBSET S /\ T \subseteq U \ {y} /\ U \ {y} # U
    BY <1>3, <2>1
  <2>3. Sum(T) <= Sum(U \ {y})
    BY <1>3, <2>2
  <2>4. Sum(U \ {y}) \in Nat /\ f[y] \in Nat /\ Sum(U) = f[y] + Sum(U \ {y})
    BY <1>1, <2>2
  <2> QED BY <1>3, <1>4, <2>3, <2>4
<1> QED BY <1>5, <1>6

LEMMA SumOfUnion ==
  ASSUME NEW S, IsFiniteSet(S), NEW f, \A x \in S : f[x] \in Int,
         NEW A \in SUBSET S, NEW B \in SUBSET S, A \cap B = {}
  PROVE  SumFunctionOnSet(f, A \union B) = SumFunctionOnSet(f, A) + SumFunctionOnSet(f, B)
<1> DEFINE Sum(U) == SumFunctionOnSet(f, U)
           X == {U \in SUBSET A : Sum(U \union B) # Sum(U) + Sum(B)}
<1>1. ASSUME NEW U \in SUBSET S
      PROVE  /\ IsFiniteSet(U) /\ Sum(U) \in Int
             /\ \A y \in U : Sum(U) = f[y] + Sum(U \ {y})
  <2>1. IsFiniteSet(U) /\ \A y \in U : f[y] \in Int
    BY <1>1, FS_Subset
  <2> QED BY <2>1, SumIsInt, SumWithout
<1>2. SUFFICES ASSUME X # {} PROVE FALSE
  OBVIOUS
<1>3. Sum({}) = 0
  BY SumOfEmpty
<1> HIDE DEF Sum
<1>4. PICK U \in X : \A V \in X : ~(V \subseteq U /\ V # U)
  <2>1. X \subseteq SUBSET A /\ IsFiniteSet(A)
    BY <1>1
  <2> HIDE DEF X
  <2> QED BY <1>2, <2>1, SmallestSubset
<1>5. CASE U = {}
  <2>1. U \union B = B /\ Sum(B) \in Int
    BY <1>1, <1>5
  <2> QED BY <1>3, <1>4, <1>5, <2>1
<1>6. CASE U # {}
  <2>1. PICK y \in U : TRUE
    BY <1>6
  <2> DEFINE V == U \ {y}
  <2>2. V \in SUBSET A /\ V \subseteq U /\ V # U
    BY <1>4, <2>1
  <2>3. Sum(V \union B) = Sum(V) + Sum(B)
    BY <1>4, <2>2
  <2>4. (U \union B) \ {y} = V \union B
    BY <1>4, <2>1
  <2>5. Sum(U \union B) = f[y] + Sum(V \union B) /\ Sum(U) = f[y] + Sum(V)
    <3>1. U \union B \in SUBSET S /\ U \in SUBSET S
      BY <1>4
    <3> QED BY <1>1, <2>4, <3>1
  <2>6. Sum(V) \in Int /\ Sum(B) \in Int /\ f[y] \in Int
    BY <1>1, <1>4, <2>2
  <2> QED BY <1>4, <2>3, <2>5, <2>6
<1> QED BY <1>5, <1>6

\* One value changes.
LEMMA SumWithChange ==
  ASSUME NEW S, IsFiniteSet(S), NEW f, NEW g, NEW x \in S,
         \A y \in S : f[y] \in Int /\ g[y] \in Int,
         \A y \in S \ {x} : g[y] = f[y]
  PROVE  SumFunctionOnSet(g, S) = SumFunctionOnSet(f, S) - f[x] + g[x]
<1> DEFINE R == S \ {x}
<1>1. IsFiniteSet(R) /\ \A y \in R : f[y] \in Int
  BY FS_Subset
<1>2. SumFunctionOnSet(f, R) = SumFunctionOnSet(g, R) /\ SumFunctionOnSet(f, R) \in Int
  BY <1>1, SumsAreEqual, SumIsInt
<1>3. /\ SumFunctionOnSet(f, S) = f[x] + SumFunctionOnSet(f, R)
      /\ SumFunctionOnSet(g, S) = g[x] + SumFunctionOnSet(g, R)
  BY SumWithout
<1> QED BY <1>2, <1>3
=============================================================================
