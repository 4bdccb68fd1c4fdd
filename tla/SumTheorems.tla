---------------------------- MODULE SumTheorems ----------------------------
(***************************************************************************)
(* Sums over finite sets, for the proofs about the aggregates the          *)
(* contracts keep by hand.  SumFunctionOnSet of the community modules is a *)
(* fold over a recursive function on subsets; these lemmas establish that  *)
(* the recursion has a solution and that the solution is the sum one       *)
(* expects.  Induction is first-order here: over a family of sets instead  *)
(* of a predicate.                                                         *)
(***************************************************************************)
EXTENDS Functions, FiniteSetTheorems, TLAPS

(***************************************************************************)
(* Induction over the subsets of a finite set.                             *)
(***************************************************************************)

\* A set of natural numbers that is not empty has a smallest member.
LEMMA SmallestMember ==
  ASSUME NEW T \in SUBSET Nat, T # {}
  PROVE  \E n \in T : \A m \in T : n <= m
<1> DEFINE R == {ss \in Nat \X Nat : ss[1] < ss[2]}
<1>1. IsWellFoundedOn(R, Nat)
  BY NatLessThanWellFounded DEF OpToRel
<1>2. PICK n \in T : \A m \in T : ~(<<m, n>> \in R)
  <2> HIDE DEF R
  <2>. QED
    BY <1>1, WFMin
<1>3. ASSUME NEW m \in T PROVE n <= m
  <2>1. m \in Nat /\ n \in Nat /\ <<m, n>> \notin R
    BY <1>2
  <2>2. <<m, n>> \in R <=> m < n
    BY <2>1
  <2>. QED
    BY <2>1, <2>2
<1>. QED
  BY <1>3

\* Taking one member away makes a finite set smaller by one.
LEMMA OneFewer ==
  ASSUME NEW s, IsFiniteSet(s), NEW x \in s
  PROVE  /\ IsFiniteSet(s \ {x})
         /\ Cardinality(s) \in Nat
         /\ Cardinality(s \ {x}) = Cardinality(s) - 1
         /\ Cardinality(s) - 1 \in Nat
<1>1. IsFiniteSet(s \ {x}) /\ Cardinality(s \ {x}) = Cardinality(s) - 1
  BY FS_RemoveElement
<1>. QED
  BY <1>1, FS_CardinalityType

\* A family that has the empty set, and every set all of whose one-smaller
\* subsets it has, has every subset of a finite set.
LEMMA SubsetInduction ==
  ASSUME NEW S, IsFiniteSet(S), NEW F,
         {} \in F,
         \A s \in SUBSET S : s # {} /\ (\A x \in s : s \ {x} \in F) => s \in F
  PROVE  \A s \in SUBSET S : s \in F
<1> DEFINE Sizes == {n \in Nat : \E s \in SUBSET S : Cardinality(s) = n /\ s \notin F}
<1>1. \A s \in SUBSET S : IsFiniteSet(s) /\ Cardinality(s) \in Nat
  BY FS_Subset, FS_CardinalityType
<1>2. SUFFICES ASSUME Sizes # {} PROVE FALSE
  BY <1>1
<1>3. PICK n \in Sizes : \A m \in Sizes : n <= m
  BY <1>2, SmallestMember
<1>4. PICK s \in SUBSET S : Cardinality(s) = n /\ s \notin F
  OBVIOUS
<1>5. s # {}
  BY <1>4
<1>6. ASSUME NEW x \in s PROVE s \ {x} \in F
  <2>1. s \ {x} \in SUBSET S /\ Cardinality(s \ {x}) = n - 1
        /\ n \in Nat /\ n - 1 \in Nat
    BY <1>1, <1>4, OneFewer
  <2>2. n - 1 \notin Sizes
    <3> HIDE DEF Sizes
    <3>. QED
      BY <1>3, <2>1
  <2>. QED
    BY <2>1, <2>2
<1>. QED
  BY <1>4, <1>5, <1>6

(***************************************************************************)
(* The recursion behind the fold.                                          *)
(***************************************************************************)

AnyOf(s) == CHOOSE x \in s : TRUE

\* g solves the recursion of the fold on the family T
Solves(g, f, T) ==
  g = [s \in T |-> IF s = {} THEN 0 ELSE f[AnyOf(s)] + g[s \ {AnyOf(s)}]]

Solution(f, S) == CHOOSE g : Solves(g, f, SUBSET S)

LEMMA AnyOfIsMember == ASSUME NEW s, s # {} PROVE AnyOf(s) \in s
BY DEF AnyOf

LEMMA SumIsSolution ==
  ASSUME NEW f, NEW S
  PROVE  SumFunctionOnSet(f, S) = Solution(f, S)[S]
BY DEF SumFunctionOnSet, FoldFunctionOnSet, MapThenFoldSet, Solution, Solves, AnyOf

\* The recursion has a solution: on the sets of at most n members it is built
\* from the one for n - 1.
LEMMA SolutionExists ==
  ASSUME NEW f, NEW S, IsFiniteSet(S)
  PROVE  Solves(Solution(f, S), f, SUBSET S)
<1> DEFINE Below(n) == {s \in SUBSET S : Cardinality(s) <= n}
           Bad == {n \in Nat : ~\E g : Solves(g, f, Below(n))}
<1>1. \A s \in SUBSET S : IsFiniteSet(s) /\ Cardinality(s) \in Nat
  BY FS_Subset, FS_CardinalityType
<1>2. Bad = {}
  <2> SUFFICES ASSUME Bad # {} PROVE FALSE
    OBVIOUS
  <2>1. PICK n \in Bad : \A m \in Bad : n <= m
    BY SmallestMember
  <2>2. CASE n = 0
    <3>1. \A s \in Below(0) : s = {}
      BY <1>1, FS_EmptySet
    <3>2. Solves([s \in Below(0) |-> 0], f, Below(0))
      BY <3>1 DEF Solves
    <3>. QED
      BY <2>2, <3>2
  <2>3. CASE n # 0
    <3>1. n - 1 \in Nat /\ n - 1 \notin Bad
      <4>1. n \in Nat
        OBVIOUS
      <4> HIDE DEF Bad
      <4>. QED
        BY <2>1, <2>3, <4>1
    <3>2. PICK h : Solves(h, f, Below(n - 1))
      BY <3>1
    <3> DEFINE g == [s \in Below(n) |->
                       IF s = {} THEN 0 ELSE f[AnyOf(s)] + h[s \ {AnyOf(s)}]]
    <3>3. ASSUME NEW s \in Below(n), s # {}
          PROVE  s \ {AnyOf(s)} \in Below(n - 1) /\ s \ {AnyOf(s)} \in Below(n)
      <4>1. Cardinality(s \ {AnyOf(s)}) = Cardinality(s) - 1
        BY <1>1, <3>3, AnyOfIsMember, OneFewer
      <4>. QED
        BY <1>1, <3>1, <4>1
    <3>4. ASSUME NEW s \in Below(n - 1) PROVE g[s] = h[s]
      <4>1. s \in Below(n)
        BY <1>1, <3>1
      <4>. QED
        BY <3>2, <4>1 DEF Solves
    <3>5. Solves(g, f, Below(n))
      <4>1. ASSUME NEW s \in Below(n)
            PROVE  g[s] = IF s = {} THEN 0 ELSE f[AnyOf(s)] + g[s \ {AnyOf(s)}]
        BY <3>3, <3>4
      <4>. QED
        BY <4>1 DEF Solves
    <3>. QED
      BY <3>5
  <2>. QED
    BY <2>2, <2>3
<1>3. Below(Cardinality(S)) = SUBSET S
  BY <1>1, FS_Subset
<1>4. \E g : Solves(g, f, SUBSET S)
  BY <1>1, <1>2, <1>3
<1>. QED
  BY <1>4 DEF Solution

\* Solutions on different sets agree where both are defined.
LEMMA SolutionsAgree ==
  ASSUME NEW f, NEW S, IsFiniteSet(S), NEW T \in SUBSET S
  PROVE  Solution(f, S)[T] = SumFunctionOnSet(f, T)
<1> DEFINE F == {s \in SUBSET T : Solution(f, S)[s] = Solution(f, T)[s]}
<1>1. Solves(Solution(f, S), f, SUBSET S) /\ Solves(Solution(f, T), f, SUBSET T)
      /\ IsFiniteSet(T)
  BY SolutionExists, FS_Subset
<1>2. {} \in F
  BY <1>1 DEF Solves
<1>3. ASSUME NEW s \in SUBSET T, s # {}, \A x \in s : s \ {x} \in F
      PROVE  s \in F
  <2>1. /\ Solution(f, S)[s] = f[AnyOf(s)] + Solution(f, S)[s \ {AnyOf(s)}]
        /\ Solution(f, T)[s] = f[AnyOf(s)] + Solution(f, T)[s \ {AnyOf(s)}]
    BY <1>1, <1>3 DEF Solves
  <2>. QED
    BY <1>3, <2>1, AnyOfIsMember
<1>4. \A s \in SUBSET T : s \in F
  <2> HIDE DEF F
  <2>. QED
    BY <1>1, <1>2, <1>3, SubsetInduction
<1>. QED
  BY <1>4, SumIsSolution

(***************************************************************************)
(* What a sum is.                                                          *)
(***************************************************************************)

LEMMA SumOfNothing == ASSUME NEW f PROVE SumFunctionOnSet(f, {}) = 0
<1>1. Solves(Solution(f, {}), f, SUBSET {})
  BY SolutionExists, FS_EmptySet
<1>2. Solution(f, {})[{}] = 0
  BY <1>1 DEF Solves
<1>. QED
  BY <1>2, SumIsSolution

LEMMA SumByAny ==
  ASSUME NEW f, NEW S, IsFiniteSet(S), S # {}
  PROVE  SumFunctionOnSet(f, S)
           = f[AnyOf(S)] + SumFunctionOnSet(f, S \ {AnyOf(S)})
<1>1. Solves(Solution(f, S), f, SUBSET S)
  BY SolutionExists
<1>2. Solution(f, S)[S] = f[AnyOf(S)] + Solution(f, S)[S \ {AnyOf(S)}]
  BY <1>1 DEF Solves
<1>. QED
  BY <1>2, SumIsSolution, SolutionsAgree

\* Integers add up to an integer.
LEMMA SumInt ==
  ASSUME NEW f, NEW S, IsFiniteSet(S), \A x \in S : f[x] \in Int
  PROVE  \A s \in SUBSET S : SumFunctionOnSet(f, s) \in Int
<1> DEFINE F == {s \in SUBSET S : SumFunctionOnSet(f, s) \in Int}
<1>1. {} \in F
  BY SumOfNothing
<1>2. ASSUME NEW s \in SUBSET S, s # {}, \A x \in s : s \ {x} \in F
      PROVE  s \in F
  <2>1. SumFunctionOnSet(f, s) = f[AnyOf(s)] + SumFunctionOnSet(f, s \ {AnyOf(s)})
    BY <1>2, FS_Subset, SumByAny
  <2>. QED
    BY <1>2, <2>1, AnyOfIsMember
<1>3. \A s \in SUBSET S : s \in F
  <2> HIDE DEF F
  <2>. QED
    BY <1>1, <1>2, SubsetInduction
<1>. QED
  BY <1>3

\* Any member may be counted first.
LEMMA SumRemove ==
  ASSUME NEW f, NEW S, IsFiniteSet(S), \A x \in S : f[x] \in Int
  PROVE  \A s \in SUBSET S : \A y \in s :
           SumFunctionOnSet(f, s) = f[y] + SumFunctionOnSet(f, s \ {y})
<1> DEFINE First(s, y) == SumFunctionOnSet(f, s) = f[y] + SumFunctionOnSet(f, s \ {y})
           F == {s \in SUBSET S : \A y \in s : First(s, y)}
<1>1. {} \in F
  OBVIOUS
<1>2. ASSUME NEW s \in SUBSET S, s # {}, \A x \in s : s \ {x} \in F
      PROVE  s \in F
  <2> SUFFICES ASSUME NEW y \in s PROVE First(s, y)
    OBVIOUS
  <2> DEFINE l == AnyOf(s)
             both == s \ {l, y}
  <2>1. l \in s /\ First(s, l)
    BY <1>2, FS_Subset, AnyOfIsMember, SumByAny
  <2>2. CASE l = y
    BY <2>1, <2>2
  <2>3. CASE l # y
    <3> HIDE DEF l
    <3>1. (s \ {l}) \ {y} = both /\ (s \ {y}) \ {l} = both
      OBVIOUS
    <3>2. First(s \ {l}, y) /\ First(s \ {y}, l)
      <4>1. y \in s \ {l} /\ l \in s \ {y} /\ s \ {l} \in F /\ s \ {y} \in F
        BY <1>2, <2>1, <2>3
      <4>. QED
        BY <4>1
    <3>3. /\ SumFunctionOnSet(f, s) = f[l] + (f[y] + SumFunctionOnSet(f, both))
          /\ SumFunctionOnSet(f, s \ {y}) = f[l] + SumFunctionOnSet(f, both)
      BY <2>1, <3>1, <3>2
    <3>4. f[l] \in Int /\ f[y] \in Int /\ SumFunctionOnSet(f, both) \in Int
      BY <2>1, SumInt
    <3>. QED
      BY <3>3, <3>4
  <2>. QED
    BY <2>2, <2>3
<1>3. \A s \in SUBSET S : s \in F
  <2> HIDE DEF F
  <2>. QED
    BY <1>1, <1>2, SubsetInduction
<1>. QED
  BY <1>3

\* A sum depends only on the values it adds.
LEMMA SumSame ==
  ASSUME NEW S, IsFiniteSet(S), NEW f, NEW g, \A x \in S : f[x] = g[x]
  PROVE  SumFunctionOnSet(f, S) = SumFunctionOnSet(g, S)
<1> DEFINE F == {s \in SUBSET S : SumFunctionOnSet(f, s) = SumFunctionOnSet(g, s)}
<1>1. {} \in F
  BY SumOfNothing
<1>2. ASSUME NEW s \in SUBSET S, s # {}, \A x \in s : s \ {x} \in F
      PROVE  s \in F
  <2>1. /\ SumFunctionOnSet(f, s) = f[AnyOf(s)] + SumFunctionOnSet(f, s \ {AnyOf(s)})
        /\ SumFunctionOnSet(g, s) = g[AnyOf(s)] + SumFunctionOnSet(g, s \ {AnyOf(s)})
    BY <1>2, FS_Subset, SumByAny
  <2>. QED
    BY <1>2, <2>1, AnyOfIsMember
<1>3. \A s \in SUBSET S : s \in F
  <2> HIDE DEF F
  <2>. QED
    BY <1>1, <1>2, SubsetInduction
<1>. QED
  BY <1>3

\* When one value changes, the sum changes by the same amount.
LEMMA SumChanged ==
  ASSUME NEW S, IsFiniteSet(S), NEW y \in S, NEW f, NEW g,
         \A x \in S : f[x] \in Int, g[y] \in Int, \A x \in S \ {y} : g[x] = f[x]
  PROVE  SumFunctionOnSet(g, S) = SumFunctionOnSet(f, S) - f[y] + g[y]
<1>1. \A x \in S : g[x] \in Int
  OBVIOUS
<1>2. IsFiniteSet(S \ {y})
  BY FS_RemoveElement
<1>3. SumFunctionOnSet(g, S \ {y}) = SumFunctionOnSet(f, S \ {y})
  BY <1>2, SumSame
<1>4. SumFunctionOnSet(f, S) = f[y] + SumFunctionOnSet(f, S \ {y})
  BY SumRemove
<1>5. SumFunctionOnSet(g, S) = g[y] + SumFunctionOnSet(g, S \ {y})
  BY <1>1, SumRemove
<1>6. SumFunctionOnSet(f, S \ {y}) \in Int
  BY SumInt
<1>. QED
  BY <1>3, <1>4, <1>5, <1>6

\* A sum of multiples and a remainder: with every value of h the value of f
\* plus k times the value of g, so is the sum.
LEMMA SumLinear ==
  ASSUME NEW S, IsFiniteSet(S), NEW f, NEW g, NEW h, NEW k \in Int,
         \A x \in S : f[x] \in Int /\ g[x] \in Int /\ h[x] = f[x] + k * g[x]
  PROVE  SumFunctionOnSet(h, S) = SumFunctionOnSet(f, S) + k * SumFunctionOnSet(g, S)
<1> DEFINE F == {s \in SUBSET S : SumFunctionOnSet(h, s)
                   = SumFunctionOnSet(f, s) + k * SumFunctionOnSet(g, s)}
<1>1. {} \in F
  BY SumOfNothing
<1>2. ASSUME NEW s \in SUBSET S, s # {}, \A x \in s : s \ {x} \in F
      PROVE  s \in F
  <2> DEFINE l == AnyOf(s)
             r == s \ {l}
  <2>1. l \in s /\ l \in S /\ r \in SUBSET S /\ r \in F
    BY <1>2, AnyOfIsMember
  <2>2. /\ SumFunctionOnSet(f, s) = f[l] + SumFunctionOnSet(f, r)
        /\ SumFunctionOnSet(g, s) = g[l] + SumFunctionOnSet(g, r)
        /\ SumFunctionOnSet(h, s) = h[l] + SumFunctionOnSet(h, r)
    BY <1>2, FS_Subset, SumByAny
  <2>3. SumFunctionOnSet(f, r) \in Int /\ SumFunctionOnSet(g, r) \in Int
    BY <2>1, SumInt
  <2>4. SumFunctionOnSet(h, r) = SumFunctionOnSet(f, r) + k * SumFunctionOnSet(g, r)
    BY <2>1
  <2>5. f[l] \in Int /\ g[l] \in Int /\ h[l] = f[l] + k * g[l]
    BY <2>1
  <2> HIDE DEF l, r
  <2>6. k * (g[l] + SumFunctionOnSet(g, r)) = k * g[l] + k * SumFunctionOnSet(g, r)
    BY <2>3, <2>5
  <2>7. k * g[l] \in Int /\ k * SumFunctionOnSet(g, r) \in Int
    BY <2>3, <2>5
  <2>8. SumFunctionOnSet(h, s) = SumFunctionOnSet(f, s) + k * SumFunctionOnSet(g, s)
    BY <2>2, <2>3, <2>4, <2>5, <2>6, <2>7
  <2>. QED
    BY <2>8
<1>3. \A s \in SUBSET S : s \in F
  <2> HIDE DEF F
  <2>. QED
    BY <1>1, <1>2, SubsetInduction
<1>. QED
  BY <1>3

\* Larger values have a larger sum.
LEMMA SumMonotone ==
  ASSUME NEW S, IsFiniteSet(S), NEW f, NEW g,
         \A x \in S : f[x] \in Int /\ g[x] \in Int /\ f[x] <= g[x]
  PROVE  SumFunctionOnSet(f, S) <= SumFunctionOnSet(g, S)
<1> DEFINE F == {s \in SUBSET S : SumFunctionOnSet(f, s) <= SumFunctionOnSet(g, s)}
<1>1. {} \in F
  BY SumOfNothing
<1>2. ASSUME NEW s \in SUBSET S, s # {}, \A x \in s : s \ {x} \in F
      PROVE  s \in F
  <2> DEFINE l == AnyOf(s)
             r == s \ {l}
  <2>1. l \in s /\ l \in S /\ r \in SUBSET S /\ r \in F
    BY <1>2, AnyOfIsMember
  <2>2. /\ SumFunctionOnSet(f, s) = f[l] + SumFunctionOnSet(f, r)
        /\ SumFunctionOnSet(g, s) = g[l] + SumFunctionOnSet(g, r)
    BY <1>2, FS_Subset, SumByAny
  <2>3. SumFunctionOnSet(f, r) \in Int /\ SumFunctionOnSet(g, r) \in Int
    BY <2>1, SumInt
  <2>4. f[l] \in Int /\ g[l] \in Int /\ f[l] <= g[l]
        /\ SumFunctionOnSet(f, r) <= SumFunctionOnSet(g, r)
    BY <2>1
  <2> HIDE DEF l, r
  <2>5. SumFunctionOnSet(f, s) <= SumFunctionOnSet(g, s)
    BY <2>2, <2>3, <2>4
  <2>. QED
    BY <2>5
<1>3. \A s \in SUBSET S : s \in F
  <2> HIDE DEF F
  <2>. QED
    BY <1>1, <1>2, SubsetInduction
<1>. QED
  BY <1>3

\* Nothing but zeros adds up to zero.
LEMMA SumOfZeros ==
  ASSUME NEW S, IsFiniteSet(S), NEW f, \A x \in S : f[x] = 0
  PROVE  SumFunctionOnSet(f, S) = 0
<1>1. SumFunctionOnSet(f, S) = SumFunctionOnSet(f, S) + 1 * SumFunctionOnSet(f, S)
  BY SumLinear
<1>2. SumFunctionOnSet(f, S) \in Int
  BY SumInt
<1>3. \A n \in Int : n = n + 1 * n => n = 0
  OBVIOUS
<1>. QED
  BY <1>1, <1>2, <1>3

\* As many ones as there are members.
LEMMA SumOfOnes ==
  ASSUME NEW S, IsFiniteSet(S), NEW f, \A x \in S : f[x] = 1
  PROVE  SumFunctionOnSet(f, S) = Cardinality(S)
<1> DEFINE F == {s \in SUBSET S : SumFunctionOnSet(f, s) = Cardinality(s)}
<1>1. {} \in F
  BY SumOfNothing, FS_EmptySet
<1>2. ASSUME NEW s \in SUBSET S, s # {}, \A x \in s : s \ {x} \in F
      PROVE  s \in F
  <2> DEFINE l == AnyOf(s)
             r == s \ {l}
  <2>1. l \in s /\ l \in S /\ r \in F /\ IsFiniteSet(s)
    BY <1>2, AnyOfIsMember, FS_Subset
  <2>2. SumFunctionOnSet(f, s) = f[l] + SumFunctionOnSet(f, r)
    BY <1>2, <2>1, SumByAny
  <2>3. Cardinality(r) = Cardinality(s) - 1 /\ Cardinality(s) \in Nat
    BY <2>1, OneFewer
  <2>4. f[l] = 1 /\ SumFunctionOnSet(f, r) = Cardinality(r)
    BY <2>1
  <2> HIDE DEF l, r
  <2>5. SumFunctionOnSet(f, s) = Cardinality(s)
    BY <2>2, <2>3, <2>4
  <2>. QED
    BY <2>5
<1>3. \A s \in SUBSET S : s \in F
  <2> HIDE DEF F
  <2>. QED
    BY <1>1, <1>2, SubsetInduction
<1>. QED
  BY <1>3

\* Natural numbers add up to one, and none of them is larger than the sum.
LEMMA SumNat ==
  ASSUME NEW S, IsFiniteSet(S), NEW f, \A x \in S : f[x] \in Nat
  PROVE  /\ SumFunctionOnSet(f, S) \in Nat
         /\ \A x \in S : f[x] <= SumFunctionOnSet(f, S)
<1>1. ASSUME NEW s \in SUBSET S PROVE SumFunctionOnSet(f, s) \in Nat
  <2> DEFINE z == [x \in s |-> 0]
  <2>1. IsFiniteSet(s)
    BY FS_Subset
  <2>2. SumFunctionOnSet(z, s) = 0
    BY <2>1, SumOfZeros
  <2>3. SumFunctionOnSet(z, s) <= SumFunctionOnSet(f, s)
    BY <2>1, SumMonotone
  <2>4. SumFunctionOnSet(f, s) \in Int
    BY <2>1, SumInt
  <2>. QED
    BY <2>2, <2>3, <2>4
<1>2. ASSUME NEW x \in S PROVE f[x] <= SumFunctionOnSet(f, S)
  <2>1. SumFunctionOnSet(f, S) = f[x] + SumFunctionOnSet(f, S \ {x})
    BY SumRemove
  <2>2. SumFunctionOnSet(f, S \ {x}) \in Nat
    BY <1>1
  <2>. QED
    BY <2>1, <2>2
<1>. QED
  BY <1>1, <1>2

(***************************************************************************)
(* The same about the sum of a whole function.                             *)
(***************************************************************************)

LEMMA TotalChanged ==
  ASSUME NEW S, IsFiniteSet(S), NEW y \in S, NEW f \in [S -> Int], NEW g \in [S -> Int],
         \A x \in S \ {y} : g[x] = f[x]
  PROVE  SumFunction(g) = SumFunction(f) - f[y] + g[y]
BY SumChanged DEF SumFunction

LEMMA TotalOfZeros ==
  ASSUME NEW S, IsFiniteSet(S)
  PROVE  SumFunction([x \in S |-> 0]) = 0
BY SumOfZeros DEF SumFunction

LEMMA TotalOfOnes ==
  ASSUME NEW S, IsFiniteSet(S)
  PROVE  SumFunction([x \in S |-> 1]) = Cardinality(S)
BY SumOfOnes DEF SumFunction

LEMMA TotalInt ==
  ASSUME NEW S, IsFiniteSet(S), NEW f \in [S -> Int]
  PROVE  SumFunction(f) \in Int
BY SumInt DEF SumFunction

LEMMA TotalNat ==
  ASSUME NEW S, IsFiniteSet(S), NEW f \in [S -> Nat]
  PROVE  SumFunction(f) \in Nat /\ \A x \in S : f[x] <= SumFunction(f)
BY SumNat DEF SumFunction

LEMMA TotalMonotone ==
  ASSUME NEW S, IsFiniteSet(S), NEW f \in [S -> Int], NEW g \in [S -> Int],
         \A x \in S : f[x] <= g[x]
  PROVE  SumFunction(f) <= SumFunction(g)
BY SumMonotone DEF SumFunction

LEMMA TotalLinear ==
  ASSUME NEW S, IsFiniteSet(S), NEW f \in [S -> Int], NEW g \in [S -> Int],
         NEW h \in [S -> Int], NEW k \in Int, \A x \in S : h[x] = f[x] + k * g[x]
  PROVE  SumFunction(h) = SumFunction(f) + k * SumFunction(g)
<1>1. DOMAIN f = S /\ DOMAIN g = S /\ DOMAIN h = S
  OBVIOUS
<1>2. \A x \in S : f[x] \in Int /\ g[x] \in Int
  OBVIOUS
<1>. QED
  BY <1>1, <1>2, SumLinear DEF SumFunction

LEMMA TotalAdds ==
  ASSUME NEW S, IsFiniteSet(S), NEW f \in [S -> Int], NEW g \in [S -> Int],
         NEW h \in [S -> Int], \A x \in S : h[x] = f[x] + g[x]
  PROVE  SumFunction(h) = SumFunction(f) + SumFunction(g)
<1>1. \A x \in S : h[x] = f[x] + 1 * g[x]
  OBVIOUS
<1>2. SumFunction(h) = SumFunction(f) + 1 * SumFunction(g)
  BY <1>1, TotalLinear
<1>. QED
  BY <1>2, TotalInt

LEMMA TotalScaled ==
  ASSUME NEW S, IsFiniteSet(S), NEW g \in [S -> Int], NEW h \in [S -> Int],
         NEW k \in Int, \A x \in S : h[x] = k * g[x]
  PROVE  SumFunction(h) = k * SumFunction(g)
<1> DEFINE zeros == [x \in S |-> 0]
<1>1. zeros \in [S -> Int] /\ \A x \in S : h[x] = zeros[x] + k * g[x]
  OBVIOUS
<1>2. SumFunction(zeros) = 0
  BY TotalOfZeros
<1>3. SumFunction(g) \in Int
  BY TotalInt
<1>4. k * SumFunction(g) \in Int
  BY <1>3
<1> HIDE DEF zeros
<1>5. SumFunction(h) = SumFunction(zeros) + k * SumFunction(g)
  BY ONLY <1>1, IsFiniteSet(S), g \in [S -> Int], h \in [S -> Int], k \in Int, TotalLinear
<1>. QED
  BY ONLY <1>2, <1>4, <1>5
=============================================================================
