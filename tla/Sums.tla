-------------------------------- MODULE Sums --------------------------------
(***************************************************************************)
(* Facts about SumFunctionOnSet and SumFunction of module Functions, for   *)
(* any finite set and integer values.  SumFunctionOnSet is a fold whose    *)
(* next element a CHOOSE picks; the lemmas below are what proofs about     *)
(* amounts need and do not mention the choice.                             *)
(*                                                                         *)
(* The provers cannot instantiate an induction theorem whose parameter is  *)
(* an operator.  Induction is stated for sets of subsets instead and comes *)
(* from the well-founded order of the finite subsets.                      *)
(***************************************************************************)
EXTENDS Split, Functions, FiniteSetTheorems, TLAPS

(* Induction over the subsets of a finite set: one that is in G when all   *)
(* smaller ones are makes G have them all.                                 *)
LEMMA StrongSubsetInduction ==
    ASSUME NEW S, IsFiniteSet(S), NEW G,
           \A T \in SUBSET S : (\A U \in SUBSET T : U # T => U \in G) => T \in G
    PROVE  SUBSET S \subseteq G
<1> DEFINE Bad == (SUBSET S) \ G
<1> SUFFICES ASSUME Bad # {} PROVE FALSE
  OBVIOUS
<1>1. IsWellFoundedOn(StrictSubsetOrdering(S), SUBSET S)
  <2>1. FiniteSubsetsOf(S) = SUBSET S
    BY FS_FiniteSubsetsOfFinite
  <2>2. IsWellFoundedOn(StrictSubsetOrdering(S), FiniteSubsetsOf(S))
    BY FS_StrictSubsetOrderingWellFounded
  <2> QED  BY <2>1, <2>2
<1>2. Bad \subseteq SUBSET S
  OBVIOUS
<1> HIDE DEF Bad
<1>3. PICK B \in Bad : \A U \in Bad : ~ (<<U, B>> \in StrictSubsetOrdering(S))
  BY <1>1, <1>2, WFMin
<1>4. B \in SUBSET S /\ B \notin G
  BY <1>3 DEF Bad
<1>5. ASSUME NEW U \in SUBSET B, U # B PROVE U \in G
  BY <1>3, <1>4, <1>5 DEF StrictSubsetOrdering, Bad
<1> QED  BY <1>4, <1>5

(* The same by adding one element at a time.                               *)
LEMMA SubsetInduction ==
    ASSUME NEW S, IsFiniteSet(S), NEW G,
           {} \in G,
           \A T \in SUBSET S : \A x \in S : T \in G /\ x \notin T => T \cup {x} \in G
    PROVE  S \in G
<1>1. ASSUME NEW T \in SUBSET S, \A U \in SUBSET T : U # T => U \in G PROVE T \in G
  <2>1. CASE T = {}
    BY <2>1
  <2>2. CASE T # {}
    <3>1. PICK x : x \in T
      BY <2>2
    <3>2. T \ {x} \in G /\ (T \ {x}) \cup {x} = T
      BY <1>1, <3>1
    <3> QED  BY <3>1, <3>2
  <2> QED  BY <2>1, <2>2
<1> QED  BY <1>1, StrongSubsetInduction
-----------------------------------------------------------------------------
(* Sums and products are the same fold.  Pick is the element it takes out  *)
(* of a set; its equation is solved by a function of the subsets of S.     *)
Unit(times) == IF times THEN 1 ELSE 0
Op(times, x, y) == IF times THEN x * y ELSE x + y

Pick(s) == CHOOSE x \in s : TRUE
Solves(times, g, f, S) ==
    g = [s \in SUBSET S |->
           IF s = {} THEN Unit(times) ELSE Op(times, f[Pick(s)], g[s \ {Pick(s)}])]
Solution(times, f, S) == CHOOSE g : Solves(times, g, f, S)

(* Two solutions agree where both are defined.                             *)
LEMMA SolutionsAgree ==
    ASSUME NEW times \in BOOLEAN, NEW f, NEW S, NEW T, IsFiniteSet(S), NEW g, NEW h,
           Solves(times, g, f, S), Solves(times, h, f, T)
    PROVE  \A s \in (SUBSET S) \cap (SUBSET T) : g[s] = h[s]
<1> DEFINE G == {s \in SUBSET S : s \in SUBSET T => g[s] = h[s]}
<1>1. ASSUME NEW s \in SUBSET S, \A u \in SUBSET s : u # s => u \in G PROVE s \in G
  <2> SUFFICES ASSUME s \in SUBSET T PROVE g[s] = h[s]
    OBVIOUS
  <2>1. CASE s = {}
    BY <2>1 DEF Solves
  <2>2. CASE s # {}
    <3>1. Pick(s) \in s
      BY <2>2 DEF Pick
    <3>2. PICK u : u = s \ {Pick(s)}
      OBVIOUS
    <3>3. g[u] = h[u]
      BY <1>1, <3>1, <3>2
    <3>4. g[s] = Op(times, f[Pick(s)], g[u]) /\ h[s] = Op(times, f[Pick(s)], h[u])
      BY <2>2, <3>2 DEF Solves
    <3> QED  BY <3>3, <3>4
  <2> QED  BY <2>1, <2>2
<1> HIDE DEF G
<1>2. SUBSET S \subseteq G
  BY <1>1, StrongSubsetInduction
<1> QED  BY <1>2 DEF G

LEMMA SolutionExists ==
    ASSUME NEW times \in BOOLEAN, NEW f, NEW S, IsFiniteSet(S)
    PROVE  Solves(times, Solution(times, f, S), f, S)
<1> DEFINE Sol(T) == Solution(times, f, T)
           IsSol(T) == Solves(times, Sol(T), f, T)
           G == {T \in SUBSET S : IsSol(T)}
<1>1. ASSUME NEW T \in SUBSET S, \A U \in SUBSET T : U # T => U \in G PROVE T \in G
  <2> DEFINE rest(s) == s \ {Pick(s)}
             h == [s \in SUBSET T |->
                     IF s = {} THEN Unit(times) ELSE Op(times, f[Pick(s)], Sol(rest(s))[rest(s)])]
  <2>1. ASSUME NEW s \in SUBSET T, s # {}
        PROVE  rest(s) \in SUBSET T /\ IsFiniteSet(rest(s)) /\ IsSol(rest(s))
    <3>1. Pick(s) \in s
      BY <2>1 DEF Pick
    <3>2. rest(s) \in SUBSET T /\ rest(s) # T
      BY <3>1
    <3> QED  BY <1>1, <3>2, FS_Subset
  <2>2. ASSUME NEW s \in SUBSET T, s # {} PROVE h[rest(s)] = Sol(rest(s))[rest(s)]
    <3>1. PICK u : u = rest(s)
      OBVIOUS
    <3>2. u \in SUBSET T /\ IsFiniteSet(u) /\ IsSol(u)
      BY <2>1, <2>2, <3>1
    <3>3. CASE u = {}
      <4>1. Sol(u)[u] = Unit(times)
        BY <3>2, <3>3 DEF Solves
      <4>2. h[u] = Unit(times)
        BY <3>2, <3>3
      <4> QED  BY <3>1, <4>1, <4>2
    <3>4. CASE u # {}
      <4>1. PICK v : v = rest(u)
        OBVIOUS
      <4>2. v \in SUBSET u /\ IsFiniteSet(v) /\ IsSol(v)
        BY <2>1, <3>2, <3>4, <4>1
      <4>3. Sol(u)[v] = Sol(v)[v]
        BY <3>2, <4>2, SolutionsAgree
      <4>4. Sol(u)[u] = Op(times, f[Pick(u)], Sol(u)[v])
        BY <3>2, <3>4, <4>1 DEF Solves
      <4>5. h[u] = Op(times, f[Pick(u)], Sol(v)[v])
        BY <3>2, <3>4, <4>1
      <4> QED  BY <3>1, <4>3, <4>4, <4>5
    <3> QED  BY <3>3, <3>4
  <2>3. Solves(times, h, f, T)
    <3>1. \A s \in SUBSET T :
            h[s] = IF s = {} THEN Unit(times) ELSE Op(times, f[Pick(s)], h[rest(s)])
      BY <2>2
    <3>2. h = [s \in SUBSET T |->
                IF s = {} THEN Unit(times) ELSE Op(times, f[Pick(s)], h[rest(s)])]
      BY <3>1
    <3> QED  BY <3>2 DEF Solves
  <2> HIDE DEF h
  <2>4. IsSol(T)
    BY <2>3 DEF Solution
  <2> QED  BY <2>4
<1> HIDE DEF G
<1>2. SUBSET S \subseteq G
  BY <1>1, StrongSubsetInduction
<1> QED  BY <1>2 DEF G

(* One solution serves all subsets.                                        *)
LEMMA SolutionOfSubset ==
    ASSUME NEW times \in BOOLEAN, NEW f, NEW S, IsFiniteSet(S), NEW T \in SUBSET S
    PROVE  Solution(times, f, S)[T] = Solution(times, f, T)[T]
<1>1. PICK g, h : g = Solution(times, f, S) /\ h = Solution(times, f, T)
  OBVIOUS
<1>2. Solves(times, g, f, S) /\ Solves(times, h, f, T)
  BY <1>1, SolutionExists, FS_Subset
<1>3. \A s \in (SUBSET S) \cap (SUBSET T) : g[s] = h[s]
  BY <1>2, SolutionsAgree
<1> QED  BY <1>1, <1>3
-----------------------------------------------------------------------------
LEMMA SumIsSolution ==
    ASSUME NEW f, NEW S
    PROVE  SumFunctionOnSet(f, S) = Solution(FALSE, f, S)[S]
BY DEF SumFunctionOnSet, FoldFunctionOnSet, MapThenFoldSet, Solution, Solves, Pick, Op, Unit

LEMMA ProductIsSolution ==
    ASSUME NEW f
    PROVE  FoldFunction(LAMBDA x, y : x * y, 1, f) = Solution(TRUE, f, DOMAIN f)[DOMAIN f]
BY DEF FoldFunction, FoldFunctionOnSet, MapThenFoldSet, Solution, Solves, Pick, Op, Unit

LEMMA SumEmpty == ASSUME NEW f PROVE SumFunctionOnSet(f, {}) = 0
<1>1. Solves(FALSE, Solution(FALSE, f, {}), f, {})
  BY FS_EmptySet, SolutionExists
<1> QED  BY <1>1, SumIsSolution DEF Solves, Unit

(* The equation of the fold.                                               *)
LEMMA SumEquation ==
    ASSUME NEW f, NEW S, IsFiniteSet(S), S # {}
    PROVE  /\ Pick(S) \in S
           /\ SumFunctionOnSet(f, S) = f[Pick(S)] + SumFunctionOnSet(f, S \ {Pick(S)})
<1>1. PICK T : T = S \ {Pick(S)}
  OBVIOUS
<1>2. Solves(FALSE, Solution(FALSE, f, S), f, S)
  BY SolutionExists
<1>3. Solution(FALSE, f, S)[T] = Solution(FALSE, f, T)[T]
  BY <1>1, SolutionOfSubset
<1>4. Solution(FALSE, f, S)[S] = f[Pick(S)] + Solution(FALSE, f, S)[T]
  BY <1>1, <1>2 DEF Solves, Op
<1>5. Pick(S) \in S
  BY DEF Pick
<1> QED  BY <1>1, <1>3, <1>4, <1>5, SumIsSolution

(* A product of positive numbers is at least each of them.                 *)
LEMMA ProductIsPositive ==
    ASSUME NEW S, IsFiniteSet(S), NEW f \in [S -> Nat \ {0}]
    PROVE  LET product == FoldFunction(LAMBDA x, y : x * y, 1, f)
           IN  product \in Nat \ {0} /\ \A x \in S : f[x] <= product
<1>1. PICK g : g = Solution(TRUE, f, S)
  OBVIOUS
<1>2. Solves(TRUE, g, f, S)
  BY <1>1, SolutionExists
<1> DEFINE G == {T \in SUBSET S : g[T] \in Nat \ {0} /\ \A x \in T : f[x] <= g[T]}
<1>3. ASSUME NEW T \in SUBSET S, \A U \in SUBSET T : U # T => U \in G PROVE T \in G
  <2>1. CASE T = {}
    BY <1>2, <2>1 DEF Solves, Unit
  <2>2. CASE T # {}
    <3>1. Pick(T) \in T
      BY <2>2 DEF Pick
    <3>2. PICK U, m, n : U = T \ {Pick(T)} /\ m = f[Pick(T)] /\ n = g[U]
      OBVIOUS
    <3>3. U \in G /\ n \in Nat \ {0} /\ m \in Nat \ {0}
      BY <1>3, <3>1, <3>2
    <3>4. g[T] = m * n
      BY <1>2, <2>2, <3>2 DEF Solves, Op
    <3>5. m * n \in Nat \ {0} /\ m <= m * n /\ n <= m * n
      BY <3>3
    <3>6. ASSUME NEW x \in T PROVE f[x] <= g[T]
      <4>1. CASE x = Pick(T)
        BY <3>2, <3>4, <3>5, <4>1
      <4>2. CASE x # Pick(T)
        <5>1. f[x] <= n /\ f[x] \in Nat
          BY <3>2, <3>3, <4>2
        <5> QED  BY <3>3, <3>4, <3>5, <5>1
      <4> QED  BY <4>1, <4>2
    <3> QED  BY <3>4, <3>5, <3>6
  <2> QED  BY <2>1, <2>2
<1> HIDE DEF G
<1>4. SUBSET S \subseteq G
  BY <1>3, StrongSubsetInduction
<1>5. S \in G
  BY <1>4
<1>6. FoldFunction(LAMBDA x, y : x * y, 1, f) = g[S]
  <2>1. DOMAIN f = S
    OBVIOUS
  <2> QED  BY <1>1, <2>1, ProductIsSolution
<1> QED  BY <1>5, <1>6 DEF G

LEMMA SumIsInt ==
    ASSUME NEW f, NEW S, IsFiniteSet(S), \A x \in S : f[x] \in Int
    PROVE  SumFunctionOnSet(f, S) \in Int
<1> DEFINE G == {T \in SUBSET S : SumFunctionOnSet(f, T) \in Int}
<1>1. ASSUME NEW T \in SUBSET S, \A U \in SUBSET T : U # T => U \in G PROVE T \in G
  <2>1. CASE T = {}
    BY <2>1, SumEmpty
  <2>2. CASE T # {}
    <3>1. PICK x \in T : SumFunctionOnSet(f, T) = f[x] + SumFunctionOnSet(f, T \ {x})
      BY <2>2, SumEquation, FS_Subset
    <3>2. SumFunctionOnSet(f, T \ {x}) \in Int
      BY <1>1, <3>1
    <3> QED  BY <3>1, <3>2
  <2> QED  BY <2>1, <2>2
<1> HIDE DEF G
<1>2. SUBSET S \subseteq G
  BY <1>1, StrongSubsetInduction
<1> QED  BY <1>2 DEF G

(* Any element can be taken out of a sum.                                  *)
LEMMA SumRemove ==
    ASSUME NEW f, NEW S, IsFiniteSet(S), \A x \in S : f[x] \in Int, NEW x \in S
    PROVE  /\ SumFunctionOnSet(f, S) = f[x] + SumFunctionOnSet(f, S \ {x})
           /\ SumFunctionOnSet(f, S \ {x}) \in Int
<1> DEFINE Splits(T, y) == SumFunctionOnSet(f, T) = f[y] + SumFunctionOnSet(f, T \ {y})
           G == {T \in SUBSET S : \A y \in T : Splits(T, y)}
<1>1. ASSUME NEW T \in SUBSET S, \A U \in SUBSET T : U # T => U \in G PROVE T \in G
  <2> SUFFICES ASSUME NEW y \in T PROVE Splits(T, y)
    OBVIOUS
  <2>1. PICK z \in T : Splits(T, z)
    BY SumEquation, FS_Subset
  <2>2. CASE z = y
    BY <2>1, <2>2
  <2>3. CASE z # y
    <3>1. PICK A, B, C : A = T \ {z} /\ B = T \ {y} /\ C = T \ {y, z}
      OBVIOUS
    <3>2. A \in G /\ B \in G /\ y \in A /\ z \in B
      BY <1>1, <2>1, <2>3, <3>1
    <3>3. C = A \ {y} /\ C = B \ {z}
      BY <3>1
    <3>4. Splits(A, y) /\ Splits(B, z)
      BY <3>2
    <3>5. /\ SumFunctionOnSet(f, A) = f[y] + SumFunctionOnSet(f, C)
          /\ SumFunctionOnSet(f, B) = f[z] + SumFunctionOnSet(f, C)
          /\ SumFunctionOnSet(f, T) = f[z] + SumFunctionOnSet(f, A)
      BY <2>1, <3>1, <3>3, <3>4
    <3>6. SumFunctionOnSet(f, C) \in Int /\ f[y] \in Int /\ f[z] \in Int
      <4>1. C \in SUBSET S
        BY <3>1
      <4> QED  BY <2>1, <4>1, SumIsInt, FS_Subset
    <3>7. SumFunctionOnSet(f, T) = f[y] + SumFunctionOnSet(f, B)
      BY <3>5, <3>6
    <3> QED  BY <3>1, <3>7
  <2> QED  BY <2>2, <2>3
<1> HIDE DEF G
<1>2. SUBSET S \subseteq G
  BY <1>1, StrongSubsetInduction
<1>3. Splits(S, x)
  BY <1>2 DEF G
<1>4. S \ {x} \in SUBSET S
  OBVIOUS
<1>5. SumFunctionOnSet(f, S \ {x}) \in Int
  BY <1>4, SumIsInt, FS_Subset
<1> QED  BY <1>3, <1>5

LEMMA SumAdd ==
    ASSUME NEW f, NEW S, IsFiniteSet(S), \A x \in S : f[x] \in Int,
           NEW x, x \notin S, f[x] \in Int
    PROVE  /\ SumFunctionOnSet(f, S \cup {x}) = SumFunctionOnSet(f, S) + f[x]
           /\ SumFunctionOnSet(f, S) \in Int
<1>1. PICK T : T = S \cup {x}
  OBVIOUS
<1>2. IsFiniteSet(T) /\ x \in T /\ T \ {x} = S /\ \A y \in T : f[y] \in Int
  BY <1>1, FS_AddElement
<1>3. SumFunctionOnSet(f, T) = f[x] + SumFunctionOnSet(f, S) /\ SumFunctionOnSet(f, S) \in Int
  BY <1>2, SumRemove
<1> QED  BY <1>1, <1>3

(* A sum depends on the values over the set only, and is monotonic in      *)
(* them.                                                                   *)
LEMMA SumMonotonic ==
    ASSUME NEW f, NEW g, NEW S, IsFiniteSet(S),
           \A x \in S : f[x] \in Int /\ g[x] \in Int /\ f[x] <= g[x]
    PROVE  SumFunctionOnSet(f, S) <= SumFunctionOnSet(g, S)
<1> DEFINE G == {T \in SUBSET S : SumFunctionOnSet(f, T) <= SumFunctionOnSet(g, T)}
<1>1. {} \in G
  BY SumEmpty
<1>2. ASSUME NEW T \in SUBSET S, NEW x \in S, T \in G, x \notin T PROVE T \cup {x} \in G
  <2>1. IsFiniteSet(T) /\ \A y \in T : f[y] \in Int /\ g[y] \in Int
    BY FS_Subset
  <2>2. /\ SumFunctionOnSet(f, T \cup {x}) = SumFunctionOnSet(f, T) + f[x]
        /\ SumFunctionOnSet(g, T \cup {x}) = SumFunctionOnSet(g, T) + g[x]
        /\ SumFunctionOnSet(f, T) \in Int /\ SumFunctionOnSet(g, T) \in Int
    BY <1>2, <2>1, SumAdd
  <2>3. SumFunctionOnSet(f, T) <= SumFunctionOnSet(g, T) /\ f[x] <= g[x]
        /\ f[x] \in Int /\ g[x] \in Int
    BY <1>2
  <2>4. SumFunctionOnSet(f, T \cup {x}) <= SumFunctionOnSet(g, T \cup {x})
    BY <2>2, <2>3
  <2> QED  BY <2>4
<1> HIDE DEF G
<1>3. S \in G
  BY <1>1, <1>2, SubsetInduction
<1> QED  BY <1>3 DEF G

LEMMA SumSame ==
    ASSUME NEW f, NEW g, NEW S, IsFiniteSet(S), \A x \in S : f[x] \in Int /\ f[x] = g[x]
    PROVE  SumFunctionOnSet(f, S) = SumFunctionOnSet(g, S)
<1>1. /\ SumFunctionOnSet(f, S) \in Int /\ SumFunctionOnSet(g, S) \in Int
      /\ SumFunctionOnSet(f, S) <= SumFunctionOnSet(g, S)
      /\ SumFunctionOnSet(g, S) <= SumFunctionOnSet(f, S)
  BY SumIsInt, SumMonotonic
<1> QED  BY <1>1

LEMMA SumZero ==
    ASSUME NEW f, NEW S, IsFiniteSet(S), \A x \in S : f[x] = 0
    PROVE  SumFunctionOnSet(f, S) = 0
<1> DEFINE G == {T \in SUBSET S : SumFunctionOnSet(f, T) = 0}
<1>1. {} \in G
  BY SumEmpty
<1>2. ASSUME NEW T \in SUBSET S, NEW x \in S, T \in G, x \notin T PROVE T \cup {x} \in G
  <2>1. SumFunctionOnSet(f, T \cup {x}) = SumFunctionOnSet(f, T) + f[x]
    BY <1>2, SumAdd, FS_Subset
  <2> QED  BY <1>2, <2>1
<1> HIDE DEF G
<1>3. S \in G
  BY <1>1, <1>2, SubsetInduction
<1> QED  BY <1>3 DEF G

LEMMA SumIsNat ==
    ASSUME NEW f, NEW S, IsFiniteSet(S), \A x \in S : f[x] \in Nat
    PROVE  SumFunctionOnSet(f, S) \in Nat
<1> DEFINE z == [x \in S |-> 0]
<1>1. SumFunctionOnSet(z, S) = 0
  BY SumZero
<1>2. SumFunctionOnSet(z, S) <= SumFunctionOnSet(f, S) /\ SumFunctionOnSet(f, S) \in Int
  BY SumMonotonic, SumIsInt
<1> QED  BY <1>1, <1>2

LEMMA SumScale ==
    ASSUME NEW f, NEW cf, NEW S, IsFiniteSet(S), NEW c \in Int,
           \A x \in S : f[x] \in Int /\ cf[x] = c * f[x]
    PROVE  SumFunctionOnSet(cf, S) = c * SumFunctionOnSet(f, S)
<1> DEFINE G == {T \in SUBSET S : SumFunctionOnSet(cf, T) = c * SumFunctionOnSet(f, T)}
<1>1. {} \in G
  BY SumEmpty
<1>2. ASSUME NEW T \in SUBSET S, NEW x \in S, T \in G, x \notin T PROVE T \cup {x} \in G
  <2>1. IsFiniteSet(T) /\ \A y \in S : f[y] \in Int /\ cf[y] \in Int /\ cf[y] = c * f[y]
    BY FS_Subset
  <2>2. /\ SumFunctionOnSet(f, T \cup {x}) = SumFunctionOnSet(f, T) + f[x]
        /\ SumFunctionOnSet(cf, T \cup {x}) = SumFunctionOnSet(cf, T) + cf[x]
        /\ SumFunctionOnSet(f, T) \in Int
    BY <1>2, <2>1, SumAdd
  <2>3. SumFunctionOnSet(cf, T) = c * SumFunctionOnSet(f, T)
    BY <1>2
  <2>4. \A u, v \in Int : c * u + c * v = c * (u + v)
    OBVIOUS
  <2>5. SumFunctionOnSet(cf, T \cup {x}) = c * SumFunctionOnSet(f, T \cup {x})
    BY <2>1, <2>2, <2>3, <2>4
  <2> QED  BY <2>5
<1> HIDE DEF G
<1>3. S \in G
  BY <1>1, <1>2, SubsetInduction
<1> QED  BY <1>3 DEF G

(* One positive value makes a sum positive.                               *)
LEMMA SumIsPositive ==
    ASSUME NEW f, NEW S, IsFiniteSet(S), \A x \in S : f[x] \in Nat, NEW x \in S, f[x] > 0
    PROVE  SumFunctionOnSet(f, S) \in Nat \ {0}
<1>1. PICK T : T = S \ {x}
  OBVIOUS
<1>2. IsFiniteSet(T) /\ (\A y \in T : f[y] \in Nat) /\ (\A y \in S : f[y] \in Int)
  BY <1>1, FS_Subset
<1>3. SumFunctionOnSet(f, S) = f[x] + SumFunctionOnSet(f, S \ {x})
  BY <1>2, SumRemove
<1>4. SumFunctionOnSet(f, T) \in Nat
  BY <1>2, SumIsNat
<1> QED  BY <1>1, <1>3, <1>4

(* The sum of pointwise sums.                                              *)
LEMMA SumPlus ==
    ASSUME NEW f, NEW g, NEW h, NEW S, IsFiniteSet(S),
           \A x \in S : f[x] \in Int /\ g[x] \in Int /\ h[x] = f[x] + g[x]
    PROVE  SumFunctionOnSet(h, S) = SumFunctionOnSet(f, S) + SumFunctionOnSet(g, S)
<1> DEFINE F(T) == SumFunctionOnSet(f, T)
           E(T) == SumFunctionOnSet(g, T)
           H(T) == SumFunctionOnSet(h, T)
           G == {T \in SUBSET S : H(T) = F(T) + E(T)}
<1>1. {} \in G
  BY SumEmpty
<1>2. ASSUME NEW T \in SUBSET S, NEW x \in S, T \in G, x \notin T PROVE T \cup {x} \in G
  <2>1. /\ IsFiniteSet(T) /\ f[x] \in Int /\ g[x] \in Int /\ h[x] \in Int
        /\ \A y \in T : f[y] \in Int
        /\ \A y \in T : g[y] \in Int
        /\ \A y \in T : h[y] \in Int
    BY FS_Subset
  <2>2. F(T \cup {x}) = F(T) + f[x] /\ F(T) \in Int
    BY <1>2, <2>1, SumAdd
  <2>3. E(T \cup {x}) = E(T) + g[x] /\ E(T) \in Int
    BY <1>2, <2>1, SumAdd
  <2>4. H(T \cup {x}) = H(T) + h[x] /\ H(T) \in Int
    BY <1>2, <2>1, SumAdd
  <2>5. H(T) = F(T) + E(T) /\ h[x] = f[x] + g[x]
    BY <1>2
  <2> HIDE DEF F, E, H
  <2> QED  BY <2>1, <2>2, <2>3, <2>4, <2>5
<1> HIDE DEF G
<1>3. S \in G
  BY <1>1, <1>2, SubsetInduction
<1> QED  BY <1>3 DEF G

(* Zeros outside of a subset do not count.                                 *)
LEMMA SumOnSubset ==
    ASSUME NEW f, NEW S, IsFiniteSet(S), NEW R \in SUBSET S,
           \A x \in S : f[x] \in Int /\ (x \notin R => f[x] = 0)
    PROVE  SumFunctionOnSet(f, S) = SumFunctionOnSet(f, R)
<1> DEFINE G == {T \in SUBSET S : SumFunctionOnSet(f, T) = SumFunctionOnSet(f, T \cap R)}
<1>1. {} \in G
  <2>1. PICK E : E = {} \cap R
    OBVIOUS
  <2>2. E = {}
    BY <2>1
  <2> QED  BY <2>1, <2>2
<1>2. ASSUME NEW T \in SUBSET S, NEW x \in S, T \in G, x \notin T PROVE T \cup {x} \in G
  <2>1. PICK U : U = T \cap R
    OBVIOUS
  <2>2. /\ IsFiniteSet(T) /\ IsFiniteSet(U) /\ x \notin U /\ f[x] \in Int
        /\ \A y \in T : f[y] \in Int
        /\ \A y \in U : f[y] \in Int
    BY <1>2, <2>1, FS_Subset
  <2>3. /\ SumFunctionOnSet(f, T \cup {x}) = SumFunctionOnSet(f, T) + f[x]
        /\ SumFunctionOnSet(f, T) \in Int
    BY <1>2, <2>2, SumAdd
  <2>4. SumFunctionOnSet(f, U \cup {x}) = SumFunctionOnSet(f, U) + f[x]
    BY <2>2, SumAdd
  <2>5. SumFunctionOnSet(f, T) = SumFunctionOnSet(f, U)
    BY <1>2, <2>1
  <2>6. CASE x \in R
    <3>1. (T \cup {x}) \cap R = U \cup {x}
      BY <2>1, <2>6
    <3> QED  BY <2>3, <2>4, <2>5, <3>1
  <2>7. CASE x \notin R
    <3>1. (T \cup {x}) \cap R = U /\ f[x] = 0
      BY <2>1, <2>7
    <3>2. SumFunctionOnSet(f, T \cup {x}) = SumFunctionOnSet(f, T)
      BY <2>3, <3>1
    <3> QED  BY <2>5, <3>1, <3>2
  <2> QED  BY <2>6, <2>7
<1> HIDE DEF G
<1>3. S \in G
  BY <1>1, <1>2, SubsetInduction
<1>4. S \cap R = R
  OBVIOUS
<1> QED  BY <1>3, <1>4 DEF G

LEMMA SumOfOnes ==
    ASSUME NEW f, NEW S, IsFiniteSet(S), \A x \in S : f[x] = 1
    PROVE  SumFunctionOnSet(f, S) = Cardinality(S)
<1> DEFINE G == {T \in SUBSET S : SumFunctionOnSet(f, T) = Cardinality(T)}
<1>1. {} \in G
  BY SumEmpty, FS_EmptySet
<1>2. ASSUME NEW T \in SUBSET S, NEW x \in S, T \in G, x \notin T PROVE T \cup {x} \in G
  <2>1. IsFiniteSet(T)
    BY FS_Subset
  <2>2. SumFunctionOnSet(f, T \cup {x}) = SumFunctionOnSet(f, T) + 1
    BY <1>2, <2>1, SumAdd
  <2>3. Cardinality(T \cup {x}) = Cardinality(T) + 1
    BY <1>2, <2>1, FS_AddElement
  <2> QED  BY <1>2, <2>2, <2>3
<1> HIDE DEF G
<1>3. S \in G
  BY <1>1, <1>2, SubsetInduction
<1> QED  BY <1>3 DEF G

(* What an update of a function does to its sum.                           *)
LEMMA SumUpdate ==
    ASSUME NEW S, IsFiniteSet(S), NEW f \in [S -> Int], NEW x \in S,
           NEW g \in [S -> Int], \A y \in S \ {x} : g[y] = f[y]
    PROVE  /\ SumFunction(g) = SumFunction(f) - f[x] + g[x]
           /\ SumFunction(f) \in Int
<1>1. g \in [S -> Int] /\ \A y \in S \ {x} : g[y] = f[y]
  OBVIOUS
<1>2. PICK T : T = S \ {x}
  OBVIOUS
<1>3. IsFiniteSet(T) /\ \A y \in T : f[y] \in Int /\ f[y] = g[y]
  BY <1>1, <1>2, FS_Subset
<1>4. SumFunctionOnSet(f, T) = SumFunctionOnSet(g, T)
  BY <1>3, SumSame
<1>5. /\ SumFunctionOnSet(f, S) = f[x] + SumFunctionOnSet(f, T)
      /\ SumFunctionOnSet(g, S) = g[x] + SumFunctionOnSet(g, T)
      /\ SumFunctionOnSet(f, T) \in Int
  BY <1>1, <1>2, SumRemove
<1>6. SumFunctionOnSet(g, S) = SumFunctionOnSet(f, S) - f[x] + g[x] /\ SumFunctionOnSet(f, S) \in Int
  BY <1>1, <1>4, <1>5
<1>7. DOMAIN f = S /\ DOMAIN g = S
  BY <1>1
<1>8. SumFunction(g) = SumFunctionOnSet(g, S) /\ SumFunction(f) = SumFunctionOnSet(f, S)
  BY <1>7 DEF SumFunction
<1> QED  BY <1>6, <1>8
-----------------------------------------------------------------------------
(* Whatever the arithmetic gives, a leg is a natural number: the loops of  *)
(* SmartDeposit and SmartWithdraw skip everything that is not positive.    *)
LEMMA LegAmountType ==
    ASSUME NEW amount, NEW part, NEW whole, NEW short
    PROVE  LegAmount(amount, part, whole, short) \in Nat
  BY DEF LegAmount

(* A whole has a size, and what counts for a part is a natural number.     *)
LEMMA ShareType ==
    ASSUME NEW part \in Int, NEW whole \in Int
    PROVE  /\ Magnitude(whole) \in Nat /\ (whole # 0 => Magnitude(whole) > 0)
           /\ Share(part, whole) \in Nat
  BY DEF Share, Magnitude

(* What is not negative counts in full for a positive whole.               *)
LEMMA ShareOfNat ==
    ASSUME NEW part \in Nat, NEW whole \in Nat \ {0}
    PROVE  Magnitude(whole) = whole /\ Share(part, whole) = part
<1>1. part = 0 => part * whole = 0
  OBVIOUS
<1>2. part > 0 => part * whole > 0
  OBVIOUS
<1> QED  BY <1>1, <1>2 DEF Share, Magnitude

(* One leg of a split is no more than its exact part.                      *)
LEMMA LegIsFloor ==
    ASSUME NEW amount \in Nat, NEW part \in Int, NEW whole \in Int \ {0}, NEW short \in BOOLEAN
    PROVE  /\ LegAmount(amount, part, whole, short) \in Nat
           /\ Magnitude(whole) * LegAmount(amount, part, whole, short) <= amount * Share(part, whole)
<1>0. Share(part, whole) \in Nat /\ Magnitude(whole) \in Nat \ {0}
  BY DEF Share, Magnitude
<1>1. PICK product \in Nat : product = amount * Share(part, whole)
  BY <1>0
<1>2. PICK size \in Nat \ {0} : size = Magnitude(whole)
  BY <1>0
<1>3. product \div size \in Nat /\ size * (product \div size) <= product
  OBVIOUS
<1>4. PICK exact \in Nat : exact = product \div size
  BY <1>3
<1>5. PICK leg \in Int : leg \in {exact, exact - 1}
                         /\ LegAmount(amount, part, whole, short) = IF leg \in Nat \ {0} THEN leg ELSE 0
  BY <1>1, <1>2, <1>4 DEF LegAmount
<1>6. size * (exact - 1) <= size * exact /\ size * 0 = 0
  OBVIOUS
<1> QED  BY <1>1, <1>2, <1>3, <1>4, <1>5, <1>6

LEMMA LegOfNatIsFloor ==
    ASSUME NEW amount \in Nat, NEW part \in Nat, NEW whole \in Nat \ {0}, NEW short \in BOOLEAN
    PROVE  /\ LegAmount(amount, part, whole, short) \in Nat
           /\ whole * LegAmount(amount, part, whole, short) <= amount * part
<1>1. Magnitude(whole) = whole /\ Share(part, whole) = part
  BY ShareOfNat
<1>2. part \in Int /\ whole \in Int \ {0}
  OBVIOUS
<1> QED  BY <1>1, <1>2, LegIsFloor

(* A leg is the floor of its share, or one less.                           *)
LEMMA LegIsNearShare ==
    ASSUME NEW amount \in Nat, NEW part \in Nat, NEW whole \in Nat \ {0}, NEW short \in BOOLEAN
    PROVE  LET exact == (amount * part) \div whole IN
           /\ exact \in Nat /\ whole * exact <= amount * part
           /\ LegAmount(amount, part, whole, short) <= exact
           /\ exact <= LegAmount(amount, part, whole, short) + 1
<1>1. PICK product \in Nat : product = amount * part
  OBVIOUS
<1>2. product \div whole \in Nat /\ whole * (product \div whole) <= product
  OBVIOUS
<1>3. PICK exact \in Nat : exact = product \div whole
  BY <1>2
<1>4. PICK leg \in Int : leg \in {exact, exact - 1}
                         /\ LegAmount(amount, part, whole, short) = IF leg \in Nat \ {0} THEN leg ELSE 0
  BY <1>1, <1>3, ShareOfNat DEF LegAmount
<1> QED  BY <1>1, <1>2, <1>3, <1>4

(* The legs of a split exceed the amount at most by as much as the shares  *)
(* exceed the whole.                                                       *)
LEMMA SplitIsWithinShares ==
    ASSUME NEW S, IsFiniteSet(S), NEW amount \in Nat, NEW share \in [S -> Nat], NEW size \in Nat,
           NEW leg \in [S -> Nat], \A x \in S : size * leg[x] <= amount * share[x]
    PROVE  size * SumFunctionOnSet(leg, S) <= amount * SumFunctionOnSet(share, S)
<1> DEFINE exact == [x \in S |-> amount * share[x]]
           scaled == [x \in S |-> size * leg[x]]
<1>1. \A x \in S : scaled[x] \in Int /\ exact[x] \in Int /\ scaled[x] <= exact[x]
  OBVIOUS
<1>2. amount \in Int /\ \A x \in S : share[x] \in Int /\ exact[x] = amount * share[x]
  OBVIOUS
<1>3. size \in Int /\ \A x \in S : leg[x] \in Int /\ scaled[x] = size * leg[x]
  OBVIOUS
<1> HIDE DEF exact, scaled
<1>4. SumFunctionOnSet(exact, S) = amount * SumFunctionOnSet(share, S)
  BY <1>2, SumScale
<1>5. SumFunctionOnSet(scaled, S) = size * SumFunctionOnSet(leg, S)
  BY <1>3, SumScale
<1>6. SumFunctionOnSet(scaled, S) <= SumFunctionOnSet(exact, S)
  BY <1>1, SumMonotonic
<1> QED  BY <1>4, <1>5, <1>6

(* The legs of a split over all parts of the whole are within the amount.  *)
LEMMA SplitIsWithinAmount ==
    ASSUME NEW S, IsFiniteSet(S), NEW amount \in Nat, NEW part \in [S -> Nat],
           NEW whole \in Nat \ {0}, SumFunctionOnSet(part, S) = whole,
           NEW leg \in [S -> Nat], \A x \in S : whole * leg[x] <= amount * part[x]
    PROVE  SumFunctionOnSet(leg, S) <= amount
<1>1. whole * SumFunctionOnSet(leg, S) <= amount * whole
  BY SplitIsWithinShares
<1>2. PICK total \in Int : total = SumFunctionOnSet(leg, S)
  BY SumIsInt
<1>3. whole * total <= amount * whole
  BY <1>1, <1>2
<1>4. \A u, v \in Int : u > v => whole * u > v * whole
  OBVIOUS
<1> QED  BY <1>2, <1>3, <1>4

(* When no part has another sign than the whole, the shares add up to its  *)
(* size.                                                                   *)
LEMMA SharesOfOneSign ==
    ASSUME NEW S, IsFiniteSet(S), NEW part \in [S -> Int],
           NEW whole \in Int \ {0}, SumFunctionOnSet(part, S) = whole,
           \A x \in S : part[x] * whole >= 0,
           NEW share, \A x \in S : share[x] = Share(part[x], whole)
    PROVE  SumFunctionOnSet(share, S) = Magnitude(whole)
<1>1. PICK sign \in Int : sign \in {1, -1} /\ Magnitude(whole) = sign * whole
  <2>1. CASE whole < 0
    BY <2>1 DEF Magnitude
  <2>2. CASE whole > 0
    BY <2>2 DEF Magnitude
  <2> QED  BY <2>1, <2>2
<1>2. ASSUME NEW x \in S PROVE part[x] \in Int /\ share[x] = sign * part[x]
  <2>1. PICK p \in Int : p = part[x]
    OBVIOUS
  <2>2. p * whole >= 0 /\ share[x] = Share(p, whole)
    BY <2>1
  <2>3. p * whole = 0 => p = 0
    OBVIOUS
  <2>4. CASE whole > 0
    <3>1. p < 0 => p * whole < 0
      BY <2>4
    <3>2. Magnitude(p) = p /\ sign = 1
      BY <1>1, <2>2, <2>4, <3>1 DEF Magnitude
    <3> QED  BY <2>1, <2>2, <2>3, <3>2 DEF Share
  <2>5. CASE whole < 0
    <3>1. p > 0 => p * whole < 0
      BY <2>5
    <3>2. Magnitude(p) = -p /\ sign = -1
      BY <1>1, <2>2, <2>5, <3>1 DEF Magnitude
    <3> QED  BY <2>1, <2>2, <2>3, <3>2 DEF Share
  <2> QED  BY <2>4, <2>5
<1>3. SumFunctionOnSet(share, S) = sign * SumFunctionOnSet(part, S)
  BY <1>2, SumScale
<1> QED  BY <1>1, <1>3
=============================================================================
