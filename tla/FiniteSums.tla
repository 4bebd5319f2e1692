----------------------------- MODULE FiniteSums -----------------------------
(***************************************************************************)
(* Sums of a function over a finite set of arguments, as SumFunctionOnSet  *)
(* of the community modules defines them: what the proofs about turns,     *)
(* rows and days need to know of them.  Everything is stated for functions *)
(* and sets, so that induction is a smallest counterexample.               *)
(***************************************************************************)
EXTENDS Functions, FiniteSetTheorems, WellFoundedInduction, TLAPS

-----------------------------------------------------------------------------
(* Smallest counterexamples.                                                *)

\* A non-empty set of naturals has a least element.
LEMMA LeastNatural ==
    ASSUME NEW T \in SUBSET Nat, T # {}
    PROVE  \E x \in T : \A y \in T : x <= y
<1>1. \E x \in T : \A y \in T : ~ (<<y, x>> \in OpToRel(<, Nat))
  BY WFMin, NatLessThanWellFounded
<1>2. ASSUME NEW x \in Nat, NEW y \in Nat, y < x PROVE <<y, x>> \in OpToRel(<, Nat)
  BY <1>2 DEF OpToRel
<1>3. \A x, y \in T : x \in Nat /\ y \in Nat /\ (x <= y \/ y < x)
  OBVIOUS
<1> QED
  BY <1>1, <1>2, <1>3

\* A non-empty family of finite sets has a member with fewest elements.
LEMMA SmallestSet ==
    ASSUME NEW B, B # {}, \A s \in B : IsFiniteSet(s)
    PROVE  \E s \in B : \A u \in B : Cardinality(s) <= Cardinality(u)
<1> DEFINE T == {Cardinality(s) : s \in B}
<1>1. T \in SUBSET Nat /\ T # {}
  BY FS_CardinalityType
<1>2. PICK n \in T : \A k \in T : n <= k
  <2> HIDE DEF T
  <2> QED
    BY <1>1, LeastNatural
<1>3. PICK s \in B : n = Cardinality(s)
  OBVIOUS
<1> QED
  BY <1>2, <1>3

\* A set of naturals with 0 and every successor has all of them.
LEMMA AllNaturals ==
    ASSUME NEW N, 0 \in N, \A n \in Nat : n \in N => n + 1 \in N
    PROVE  \A n \in Nat : n \in N
<1> SUFFICES ASSUME Nat \ N # {} PROVE FALSE
  OBVIOUS
<1>1. PICK n \in Nat \ N : \A k \in Nat \ N : n <= k
  BY LeastNatural
<1>2. n # 0 /\ n - 1 \in Nat /\ n - 1 \in N
  BY <1>1
<1> QED
  BY <1>1, <1>2

\* A family with the empty set that is closed under adding an element of S has
\* every subset of a finite S.
LEMMA AllSubsets ==
    ASSUME NEW S, IsFiniteSet(S), NEW G, {} \in G,
           \A T \in SUBSET S : \A x \in S \ T : T \in G => T \cup {x} \in G
    PROVE  \A T \in SUBSET S : T \in G
<1> SUFFICES ASSUME (SUBSET S) \ G # {} PROVE FALSE
  OBVIOUS
<1>1. \A T \in SUBSET S : IsFiniteSet(T)
  BY FS_Subset
<1>2. PICK T \in (SUBSET S) \ G : \A U \in (SUBSET S) \ G : Cardinality(T) <= Cardinality(U)
  BY <1>1, SmallestSet
<1>3. PICK x \in T : x \in S
  BY <1>2
<1> DEFINE U == T \ {x}
<1>4. U \in SUBSET S /\ x \in S \ U /\ U \cup {x} = T
  BY <1>3
<1>5. IsFiniteSet(U) /\ Cardinality(U) = Cardinality(T) - 1 /\ Cardinality(T) \in Nat
  BY <1>1, <1>3, FS_RemoveElement, FS_CardinalityType
<1>6. U \in G
  BY <1>2, <1>4, <1>5
<1> QED
  BY <1>2, <1>4, <1>6

-----------------------------------------------------------------------------
(* The recursive function inside the sum.                                   *)

Pick(s) == CHOOSE x \in s : TRUE
Rest(s) == s \ {Pick(s)}

\* g adds up f over every subset of S.
IsIter(f, S, g) ==
    g = [s \in SUBSET S |-> IF s = {} THEN 0 ELSE f[Pick(s)] + g[Rest(s)]]

Iter(f, S) == CHOOSE g : IsIter(f, S, g)

\* The sum is the value of that function on the whole set.
LEMMA SumIsIter ==
    ASSUME NEW f, NEW S
    PROVE  SumFunctionOnSet(f, S) = Iter(f, S)[S]
  BY DEF SumFunctionOnSet, FoldFunctionOnSet, MapThenFoldSet, Iter, IsIter, Pick, Rest

\* What is left of a non-empty set has one element less.
LEMMA RestIsSmaller ==
    ASSUME NEW s, IsFiniteSet(s), s # {}
    PROVE  /\ Pick(s) \in s /\ Rest(s) \in SUBSET s /\ IsFiniteSet(Rest(s))
           /\ Cardinality(s) \in Nat /\ Cardinality(Rest(s)) = Cardinality(s) - 1
<1>1. Pick(s) \in s
  BY DEF Pick
<1> QED
  BY <1>1, FS_RemoveElement, FS_CardinalityType DEF Rest

\* The function exists: extend it from the sets of n elements to those of n + 1.
LEMMA IterExists ==
    ASSUME NEW f, NEW S, IsFiniteSet(S)
    PROVE  IsIter(f, S, Iter(f, S))
<1> DEFINE Level(n) == {s \in SUBSET S : Cardinality(s) <= n}
           Upto(n, g) == g = [s \in Level(n) |->
                                IF s = {} THEN 0 ELSE f[Pick(s)] + g[Rest(s)]]
           N == {n \in Nat : \E g : Upto(n, g)}
<1>1. \A s \in SUBSET S : IsFiniteSet(s) /\ Cardinality(s) \in Nat
  BY FS_Subset, FS_CardinalityType
<1>2. \A s \in SUBSET S : s # {} => /\ Rest(s) \in SUBSET S
                                    /\ Cardinality(Rest(s)) = Cardinality(s) - 1
  BY <1>1, RestIsSmaller
<1>3. 0 \in N
  <2>1. \A s \in Level(0) : s = {}
    BY <1>1, FS_EmptySet
  <2>2. Upto(0, [s \in Level(0) |-> 0])
    BY <2>1
  <2> QED
    BY <2>2
<1>4. ASSUME NEW n \in Nat, n \in N PROVE n + 1 \in N
  <2>1. PICK g : Upto(n, g)
    BY <1>4
  <2> DEFINE h == [s \in Level(n + 1) |-> IF s = {} THEN 0 ELSE f[Pick(s)] + g[Rest(s)]]
  <2>2. \A s \in Level(n) : s \in Level(n + 1) /\ h[s] = g[s]
    BY <1>1, <2>1
  <2>3. \A s \in Level(n + 1) : s # {} => Rest(s) \in Level(n)
    BY <1>1, <1>2
  <2>4. h = [s \in Level(n + 1) |-> IF s = {} THEN 0 ELSE f[Pick(s)] + h[Rest(s)]]
    <3>1. \A s \in Level(n + 1) : s # {} => h[Rest(s)] = g[Rest(s)]
      <4> HIDE DEF Level, h
      <4> QED
        BY <2>2, <2>3
    <3>2. \A s \in Level(n + 1) : h[s] = IF s = {} THEN 0 ELSE f[Pick(s)] + h[Rest(s)]
      <4>1. \A s \in Level(n + 1) : h[s] = IF s = {} THEN 0 ELSE f[Pick(s)] + g[Rest(s)]
        <5> HIDE DEF Level
        <5> QED
          OBVIOUS
      <4> HIDE DEF Level, h
      <4> QED
        BY <4>1, <3>1
    <3>3. h = [s \in Level(n + 1) |-> h[s]]
      <4> HIDE DEF Level
      <4> QED
        OBVIOUS
    <3> HIDE DEF Level, h
    <3> QED
      BY <3>2, <3>3
  <2>5. Upto(n + 1, h)
    BY <2>4
  <2> HIDE DEF Upto, h
  <2> QED
    BY <2>5
<1>5. Cardinality(S) \in N
  <2> HIDE DEF N
  <2> QED
    BY <1>1, <1>3, <1>4, AllNaturals
<1>6. Level(Cardinality(S)) = SUBSET S
  BY FS_Subset
<1>7. \E g : IsIter(f, S, g)
  BY <1>5, <1>6 DEF N, IsIter
<1> QED
  BY <1>7 DEF Iter

\* It does not depend on the set that it was made for.
LEMMA IterAgrees ==
    ASSUME NEW f, NEW S, IsFiniteSet(S), NEW T \in SUBSET S
    PROVE  Iter(f, S)[T] = Iter(f, T)[T]
<1> DEFINE g == Iter(f, S)
           h == Iter(f, T)
           B == {s \in SUBSET T : g[s] # h[s]}
<1>1. IsFiniteSet(T)
  BY FS_Subset
<1>2. IsIter(f, S, g) /\ IsIter(f, T, h)
  BY <1>1, IterExists
<1> SUFFICES ASSUME B # {} PROVE FALSE
  OBVIOUS
<1>3. \A s \in SUBSET T : IsFiniteSet(s)
  BY <1>1, FS_Subset
<1>4. PICK s \in B : \A u \in B : Cardinality(s) <= Cardinality(u)
  BY <1>3, SmallestSet
<1> HIDE DEF g, h
<1>5. s # {}
  BY <1>2, <1>4 DEF IsIter
<1>6. /\ Rest(s) \in SUBSET T
      /\ Cardinality(s) \in Nat /\ Cardinality(Rest(s)) = Cardinality(s) - 1
  BY <1>3, <1>4, <1>5, RestIsSmaller
<1>7. g[Rest(s)] = h[Rest(s)]
  BY <1>4, <1>6
<1> QED
  BY <1>2, <1>4, <1>5, <1>7 DEF IsIter

-----------------------------------------------------------------------------
(* Sums.                                                                    *)

\* The definition, one step of it.
LEMMA SumUnfolds ==
    ASSUME NEW f, NEW S, IsFiniteSet(S)
    PROVE  SumFunctionOnSet(f, S) =
             IF S = {} THEN 0 ELSE f[Pick(S)] + SumFunctionOnSet(f, Rest(S))
<1>1. Iter(f, S)[S] = IF S = {} THEN 0 ELSE f[Pick(S)] + Iter(f, S)[Rest(S)]
  <2> DEFINE g == Iter(f, S)
  <2>1. IsIter(f, S, g)
    BY IterExists
  <2>2. S \in SUBSET S
    OBVIOUS
  <2> HIDE DEF g
  <2>3. g[S] = IF S = {} THEN 0 ELSE f[Pick(S)] + g[Rest(S)]
    BY <2>1, <2>2 DEF IsIter
  <2> QED
    BY <2>3 DEF g
<1>2. Rest(S) \in SUBSET S
  BY DEF Rest
<1>3. Iter(f, S)[Rest(S)] = Iter(f, Rest(S))[Rest(S)]
  BY <1>2, IterAgrees
<1> QED
  BY <1>1, <1>3, SumIsIter

\* The empty sum.
LEMMA SumOfNone ==
    ASSUME NEW f
    PROVE  SumFunctionOnSet(f, {}) = 0
  BY SumUnfolds, FS_EmptySet

\* Integers have an integer sum.
LEMMA SumIsInt ==
    ASSUME NEW f, NEW S, IsFiniteSet(S), \A x \in S : f[x] \in Int
    PROVE  SumFunctionOnSet(f, S) \in Int
<1> DEFINE B == {T \in SUBSET S : SumFunctionOnSet(f, T) \notin Int}
<1> SUFFICES ASSUME B # {} PROVE FALSE
  OBVIOUS
<1>1. \A T \in SUBSET S : IsFiniteSet(T)
  BY FS_Subset
<1>2. PICK T \in B : \A U \in B : Cardinality(T) <= Cardinality(U)
  BY <1>1, SmallestSet
<1>3. T # {}
  BY SumOfNone
<1>4. /\ Pick(T) \in T /\ Rest(T) \in SUBSET S
      /\ Cardinality(T) \in Nat /\ Cardinality(Rest(T)) = Cardinality(T) - 1
  BY <1>1, <1>3, RestIsSmaller
<1>5. SumFunctionOnSet(f, Rest(T)) \in Int
  BY <1>2, <1>4
<1>6. SumFunctionOnSet(f, T) = f[Pick(T)] + SumFunctionOnSet(f, Rest(T))
  BY <1>1, <1>3, SumUnfolds
<1> QED
  BY <1>4, <1>5, <1>6

\* The order in which the elements are added does not matter.
LEMMA SumRemoves ==
    ASSUME NEW f, NEW S, IsFiniteSet(S), \A x \in S : f[x] \in Int, NEW x \in S
    PROVE  SumFunctionOnSet(f, S) = f[x] + SumFunctionOnSet(f, S \ {x})
<1> DEFINE sum(T) == SumFunctionOnSet(f, T)
           B == {T \in SUBSET S : \E y \in T : sum(T) # f[y] + sum(T \ {y})}
<1> SUFFICES ASSUME B # {} PROVE FALSE
  OBVIOUS
<1>1. \A T \in SUBSET S : IsFiniteSet(T) /\ sum(T) \in Int
  BY FS_Subset, SumIsInt
<1>2. PICK T \in B : \A U \in B : Cardinality(T) <= Cardinality(U)
  BY <1>1, SmallestSet
<1>3. PICK y \in T : sum(T) # f[y] + sum(T \ {y})
  BY <1>2
<1> DEFINE p == Pick(T)
<1>4. p \in T /\ sum(T) = f[p] + sum(T \ {p})
  BY <1>1, <1>3, SumUnfolds, RestIsSmaller DEF Rest
<1> HIDE DEF p
<1>5. \A z \in T : T \ {z} \in (SUBSET S) \ B
  <2> SUFFICES ASSUME NEW z \in T PROVE T \ {z} \notin B
    BY <1>2
  <2>1. Cardinality(T \ {z}) = Cardinality(T) - 1 /\ Cardinality(T) \in Nat
    BY <1>1, <1>2, FS_RemoveElement, FS_CardinalityType
  <2> HIDE DEF B
  <2> QED
    BY <1>2, <2>1
<1>6. y # p
  BY <1>3, <1>4
<1> DEFINE rest == sum((T \ {p}) \ {y})
<1>7. sum(T \ {p}) = f[y] + rest
  BY <1>3, <1>4, <1>5, <1>6
<1>8. sum(T \ {y}) = f[p] + rest
  <2>1. sum(T \ {y}) = f[p] + sum((T \ {y}) \ {p})
    BY <1>3, <1>4, <1>5, <1>6
  <2>2. (T \ {y}) \ {p} = (T \ {p}) \ {y}
    OBVIOUS
  <2> QED
    BY <2>1, <2>2
<1>9. f[y] \in Int /\ f[p] \in Int /\ rest \in Int
  BY <1>1, <1>2, <1>3, <1>4
<1> HIDE DEF B, sum, rest
<1>10. f[p] + sum(T \ {p}) = f[y] + sum(T \ {y})
  BY <1>7, <1>8, <1>9
<1> QED
  BY <1>3, <1>4, <1>10

\* f can be summed over S.
Summable(f, S) == IsFiniteSet(S) /\ \A x \in S : f[x] \in Int

\* One more element adds its value.
LEMMA SumInserts ==
    ASSUME NEW f, NEW S, Summable(f, S), NEW T \in SUBSET S, NEW x \in S \ T
    PROVE  /\ SumFunctionOnSet(f, T) \in Int /\ f[x] \in Int
           /\ SumFunctionOnSet(f, T \cup {x}) = f[x] + SumFunctionOnSet(f, T)
<1>1. IsFiniteSet(S) /\ \A y \in S : f[y] \in Int
  BY DEF Summable
<1>2. IsFiniteSet(T) /\ IsFiniteSet(T \cup {x})
  BY <1>1, FS_Subset
<1>3. (T \cup {x}) \ {x} = T
  OBVIOUS
<1>4. SumFunctionOnSet(f, T) \in Int
  BY <1>1, <1>2, SumIsInt
<1>5. \A y \in T \cup {x} : f[y] \in Int
  BY <1>1
<1>6. SumFunctionOnSet(f, T \cup {x}) = f[x] + SumFunctionOnSet(f, (T \cup {x}) \ {x})
  BY <1>2, <1>5, SumRemoves
<1> QED
  BY <1>1, <1>3, <1>4, <1>6

\* Only the values on the set count.
LEMMA SumsEqual ==
    ASSUME NEW f, NEW g, NEW S, Summable(f, S), \A x \in S : g[x] = f[x]
    PROVE  SumFunctionOnSet(g, S) = SumFunctionOnSet(f, S)
<1> DEFINE G == {T \in SUBSET S : SumFunctionOnSet(g, T) = SumFunctionOnSet(f, T)}
<1>1. IsFiniteSet(S) /\ Summable(g, S)
  BY DEF Summable
<1>2. {} \in G
  BY SumOfNone
<1>3. ASSUME NEW T \in SUBSET S, NEW x \in S \ T, T \in G PROVE T \cup {x} \in G
  <2>1. SumFunctionOnSet(f, T \cup {x}) = f[x] + SumFunctionOnSet(f, T)
    BY SumInserts
  <2>2. SumFunctionOnSet(g, T \cup {x}) = g[x] + SumFunctionOnSet(g, T)
    BY <1>1, SumInserts
  <2> QED
    BY <1>3, <2>1, <2>2
<1>4. \A T \in SUBSET S : T \in G
  <2> HIDE DEF G
  <2> QED
    BY <1>1, <1>2, <1>3, AllSubsets
<1> QED
  BY <1>4

\* Sums can be added term by term.
LEMMA SumOfSums ==
    ASSUME NEW f, NEW g, NEW h, NEW S, Summable(f, S), Summable(g, S),
           \A x \in S : h[x] = f[x] + g[x]
    PROVE  SumFunctionOnSet(h, S) = SumFunctionOnSet(f, S) + SumFunctionOnSet(g, S)
<1> DEFINE G == {T \in SUBSET S : SumFunctionOnSet(h, T) =
                               SumFunctionOnSet(f, T) + SumFunctionOnSet(g, T)}
<1>1. IsFiniteSet(S) /\ Summable(h, S)
  BY DEF Summable
<1>2. {} \in G
  BY SumOfNone
<1>3. ASSUME NEW T \in SUBSET S, NEW x \in S \ T, T \in G PROVE T \cup {x} \in G
  <2>1. /\ SumFunctionOnSet(f, T) \in Int /\ f[x] \in Int
        /\ SumFunctionOnSet(f, T \cup {x}) = f[x] + SumFunctionOnSet(f, T)
    BY SumInserts
  <2>2. /\ SumFunctionOnSet(g, T) \in Int /\ g[x] \in Int
        /\ SumFunctionOnSet(g, T \cup {x}) = g[x] + SumFunctionOnSet(g, T)
    BY SumInserts
  <2>3. SumFunctionOnSet(h, T \cup {x}) = h[x] + SumFunctionOnSet(h, T)
    BY <1>1, SumInserts
  <2> QED
    BY <1>3, <2>1, <2>2, <2>3
<1>4. \A T \in SUBSET S : T \in G
  <2> HIDE DEF G
  <2> QED
    BY <1>1, <1>2, <1>3, AllSubsets
<1> QED
  BY <1>4

\* A constant factor can be taken out of a sum.
LEMMA SumOfMultiples ==
    ASSUME NEW f, NEW h, NEW c \in Int, NEW S, Summable(f, S),
           \A x \in S : h[x] = c * f[x]
    PROVE  SumFunctionOnSet(h, S) = c * SumFunctionOnSet(f, S)
<1> DEFINE G == {T \in SUBSET S : SumFunctionOnSet(h, T) = c * SumFunctionOnSet(f, T)}
<1>1. IsFiniteSet(S) /\ Summable(h, S)
  BY DEF Summable
<1>2. {} \in G
  BY SumOfNone
<1>3. ASSUME NEW T \in SUBSET S, NEW x \in S \ T, T \in G PROVE T \cup {x} \in G
  <2>1. /\ SumFunctionOnSet(f, T) \in Int /\ f[x] \in Int
        /\ SumFunctionOnSet(f, T \cup {x}) = f[x] + SumFunctionOnSet(f, T)
    BY SumInserts
  <2>2. SumFunctionOnSet(h, T \cup {x}) = h[x] + SumFunctionOnSet(h, T)
    BY <1>1, SumInserts
  <2>3. \A a, b \in Int : c * (a + b) = c * a + c * b
    OBVIOUS
  <2> QED
    BY <1>3, <2>1, <2>2, <2>3
<1>4. \A T \in SUBSET S : T \in G
  <2> HIDE DEF G
  <2> QED
    BY <1>1, <1>2, <1>3, AllSubsets
<1> QED
  BY <1>4

\* Equal terms are counted.
LEMMA SumOfConstants ==
    ASSUME NEW f, NEW c \in Int, NEW S, IsFiniteSet(S), \A x \in S : f[x] = c
    PROVE  SumFunctionOnSet(f, S) = c * Cardinality(S)
<1> DEFINE G == {T \in SUBSET S : SumFunctionOnSet(f, T) = c * Cardinality(T)}
<1>1. Summable(f, S)
  BY DEF Summable
<1>2. {} \in G
  BY SumOfNone, FS_EmptySet
<1>3. ASSUME NEW T \in SUBSET S, NEW x \in S \ T, T \in G PROVE T \cup {x} \in G
  <2>1. SumFunctionOnSet(f, T \cup {x}) = f[x] + SumFunctionOnSet(f, T)
    BY <1>1, SumInserts
  <2>2. IsFiniteSet(T)
    BY FS_Subset
  <2>3. Cardinality(T \cup {x}) = Cardinality(T) + 1 /\ Cardinality(T) \in Nat
    BY <2>2, FS_AddElement, FS_CardinalityType
  <2>4. \A n \in Nat : c * (n + 1) = c + c * n
    OBVIOUS
  <2> QED
    BY <1>3, <2>1, <2>3, <2>4
<1>4. \A T \in SUBSET S : T \in G
  <2> HIDE DEF G
  <2> QED
    BY <1>2, <1>3, AllSubsets
<1> QED
  BY <1>4

\* Larger terms have a larger sum.
LEMMA SumsCompare ==
    ASSUME NEW f, NEW g, NEW S, Summable(f, S), Summable(g, S), \A x \in S : f[x] <= g[x]
    PROVE  SumFunctionOnSet(f, S) <= SumFunctionOnSet(g, S)
<1> DEFINE G == {T \in SUBSET S : SumFunctionOnSet(f, T) <= SumFunctionOnSet(g, T)}
<1>1. IsFiniteSet(S)
  BY DEF Summable
<1>2. {} \in G
  BY SumOfNone
<1>3. ASSUME NEW T \in SUBSET S, NEW x \in S \ T, T \in G PROVE T \cup {x} \in G
  <2>1. /\ SumFunctionOnSet(f, T) \in Int /\ f[x] \in Int
        /\ SumFunctionOnSet(f, T \cup {x}) = f[x] + SumFunctionOnSet(f, T)
    BY SumInserts
  <2>2. /\ SumFunctionOnSet(g, T) \in Int /\ g[x] \in Int
        /\ SumFunctionOnSet(g, T \cup {x}) = g[x] + SumFunctionOnSet(g, T)
    BY SumInserts
  <2> QED
    BY <1>3, <2>1, <2>2
<1>4. \A T \in SUBSET S : T \in G
  <2> HIDE DEF G
  <2> QED
    BY <1>1, <1>2, <1>3, AllSubsets
<1> QED
  BY <1>4

\* What is not negative has a sum that is at least each of its values.
LEMMA SumIsNat ==
    ASSUME NEW f, NEW S, IsFiniteSet(S), \A x \in S : f[x] \in Nat
    PROVE  /\ SumFunctionOnSet(f, S) \in Nat
           /\ \A x \in S : f[x] <= SumFunctionOnSet(f, S)
<1>1. ASSUME NEW T \in SUBSET S PROVE SumFunctionOnSet(f, T) \in Nat
  <2> DEFINE zero == [x \in T |-> 0]
  <2>1. IsFiniteSet(T)
    BY FS_Subset
  <2>2. SumFunctionOnSet(f, T) \in Int
    BY <2>1, SumIsInt
  <2>3. SumFunctionOnSet(zero, T) = 0
    <3>1. SumFunctionOnSet(zero, T) = 0 * Cardinality(T)
      BY <2>1, SumOfConstants
    <3> QED
      BY <2>1, <3>1, FS_CardinalityType
  <2>4. SumFunctionOnSet(zero, T) <= SumFunctionOnSet(f, T)
    <3>1. Summable(zero, T) /\ Summable(f, T) /\ \A x \in T : zero[x] <= f[x]
      BY <2>1 DEF Summable
    <3> HIDE DEF zero
    <3> QED
      BY <3>1, SumsCompare
  <2> QED
    BY <2>2, <2>3, <2>4
<1>2. ASSUME NEW x \in S PROVE f[x] <= SumFunctionOnSet(f, S)
  <2>1. SumFunctionOnSet(f, S) = f[x] + SumFunctionOnSet(f, S \ {x})
    BY SumRemoves
  <2>2. SumFunctionOnSet(f, S \ {x}) \in Nat
    BY <1>1
  <2> QED
    BY <2>1, <2>2
<1> QED
  BY <1>1, <1>2

\* The sum over two disjoint sets.
LEMMA SumOfUnion ==
    ASSUME NEW f, NEW S, Summable(f, S),
           NEW A \in SUBSET S, NEW B \in SUBSET S, A \cap B = {}
    PROVE  SumFunctionOnSet(f, A \cup B) =
             SumFunctionOnSet(f, A) + SumFunctionOnSet(f, B)
<1> DEFINE G == {T \in SUBSET B : SumFunctionOnSet(f, A \cup T) =
                               SumFunctionOnSet(f, A) + SumFunctionOnSet(f, T)}
<1>1. /\ IsFiniteSet(B) /\ IsFiniteSet(A)
      /\ \A T \in SUBSET S : SumFunctionOnSet(f, T) \in Int
  BY FS_Subset, SumIsInt DEF Summable
<1>2. {} \in G
  <2>1. A \cup {} = A
    OBVIOUS
  <2> QED
    BY <1>1, <2>1, SumOfNone
<1>3. ASSUME NEW T \in SUBSET B, NEW x \in B \ T, T \in G PROVE T \cup {x} \in G
  <2>1. T \in SUBSET S /\ x \in S \ T /\ A \cup T \in SUBSET S /\ x \in S \ (A \cup T)
    OBVIOUS
  <2>2. /\ SumFunctionOnSet(f, T) \in Int /\ f[x] \in Int
        /\ SumFunctionOnSet(f, T \cup {x}) = f[x] + SumFunctionOnSet(f, T)
    BY <2>1, SumInserts
  <2>3. SumFunctionOnSet(f, (A \cup T) \cup {x}) = f[x] + SumFunctionOnSet(f, A \cup T)
    BY <2>1, SumInserts
  <2>4. (A \cup T) \cup {x} = A \cup (T \cup {x})
    OBVIOUS
  <2>5. SumFunctionOnSet(f, A \cup T) = SumFunctionOnSet(f, A) + SumFunctionOnSet(f, T)
    BY <1>3
  <2>6. SumFunctionOnSet(f, A \cup (T \cup {x})) =
          SumFunctionOnSet(f, A) + SumFunctionOnSet(f, T \cup {x})
    BY <1>1, <2>2, <2>3, <2>4, <2>5
  <2> QED
    BY <2>6
<1>4. \A T \in SUBSET B : T \in G
  <2> HIDE DEF G
  <2> QED
    BY <1>1, <1>2, <1>3, AllSubsets
<1> QED
  BY <1>4

\* The elements of S with the key y, and all keys.
KeyGroup(k, S, y) == {x \in S : k[x] = y}
Keys(k, S) == {k[x] : x \in S}

\* A finite set has finitely many keys and finite groups.
LEMMA KeysAreFinite ==
    ASSUME NEW k, NEW S, IsFiniteSet(S)
    PROVE  /\ IsFiniteSet(Keys(k, S)) /\ \A x \in S : k[x] \in Keys(k, S)
           /\ \A y : KeyGroup(k, S, y) \in SUBSET S /\ IsFiniteSet(KeyGroup(k, S, y))
<1> DEFINE G == {T \in SUBSET S : IsFiniteSet(Keys(k, T))}
<1>1. {} \in G
  BY FS_EmptySet DEF Keys
<1>2. ASSUME NEW T \in SUBSET S, NEW x \in S \ T, T \in G PROVE T \cup {x} \in G
  <2>1. Keys(k, T \cup {x}) = Keys(k, T) \cup {k[x]}
    BY DEF Keys
  <2>2. IsFiniteSet(Keys(k, T) \cup {k[x]})
    BY <1>2, FS_AddElement
  <2> QED
    BY <2>1, <2>2
<1>3. \A T \in SUBSET S : T \in G
  <2> HIDE DEF G
  <2> QED
    BY <1>1, <1>2, AllSubsets
<1>4. \A y : KeyGroup(k, S, y) \in SUBSET S /\ IsFiniteSet(KeyGroup(k, S, y))
  BY FS_Subset DEF KeyGroup
<1> QED
  BY <1>3, <1>4 DEF Keys

\* Grouping: g has the sums of the groups that the key k makes of S.
LEMMA SumOfGroups ==
    ASSUME NEW f, NEW S, Summable(f, S),
           NEW k, NEW K, IsFiniteSet(K), Keys(k, S) \subseteq K,
           NEW g, \A y \in K : g[y] = SumFunctionOnSet(f, KeyGroup(k, S, y))
    PROVE  SumFunctionOnSet(g, K) = SumFunctionOnSet(f, S)
<1> DEFINE Of(L) == {x \in S : k[x] \in L}
           G == {L \in SUBSET K : SumFunctionOnSet(g, L) = SumFunctionOnSet(f, Of(L))}
<1>1. \A T \in SUBSET S : SumFunctionOnSet(f, T) \in Int
  BY FS_Subset, SumIsInt DEF Summable
<1>2. Summable(g, K)
  BY <1>1 DEF Summable, KeyGroup
<1>3. {} \in G
  <2>1. Of({}) = {}
    OBVIOUS
  <2> QED
    BY <2>1, SumOfNone
<1>4. ASSUME NEW L \in SUBSET K, NEW y \in K \ L, L \in G PROVE L \cup {y} \in G
  <2> DEFINE Y == KeyGroup(k, S, y)
  <2>1. SumFunctionOnSet(g, L \cup {y}) = g[y] + SumFunctionOnSet(g, L)
    BY <1>2, SumInserts
  <2>2. /\ Of(L) \in SUBSET S /\ Y \in SUBSET S /\ Of(L) \cap Y = {}
        /\ Of(L \cup {y}) = Of(L) \cup Y
    BY DEF KeyGroup
  <2>3. g[y] = SumFunctionOnSet(f, Y)
    OBVIOUS
  <2>4. SumFunctionOnSet(g, L) = SumFunctionOnSet(f, Of(L))
    BY <1>4
  <2>5. SumFunctionOnSet(g, L \cup {y}) = SumFunctionOnSet(f, Of(L \cup {y}))
    <3> HIDE DEF Of, Y
    <3>1. SumFunctionOnSet(f, Of(L) \cup Y) =
            SumFunctionOnSet(f, Of(L)) + SumFunctionOnSet(f, Y)
      BY <2>2, SumOfUnion
    <3>2. SumFunctionOnSet(f, Of(L)) \in Int /\ SumFunctionOnSet(f, Y) \in Int
      BY <1>1, <2>2
    <3>3. SumFunctionOnSet(f, Of(L \cup {y})) = SumFunctionOnSet(f, Of(L) \cup Y)
      BY <2>2
    <3> QED
      BY <2>1, <2>3, <2>4, <3>1, <3>2, <3>3
  <2> QED
    BY <2>5
<1>5. \A L \in SUBSET K : L \in G
  <2> HIDE DEF G
  <2> QED
    BY <1>3, <1>4, AllSubsets
<1>6. Of(K) = S
  BY DEF Keys
<1> QED
  BY <1>5, <1>6
=============================================================================
