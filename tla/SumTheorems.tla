----------------------------- MODULE SumTheorems -----------------------------
(***************************************************************************)
(* Sums of integer functions over finite sets, as the models take them     *)
(* (SumFunction of the community modules).  The library's induction rules  *)
(* take a predicate; the one proved here takes the set of values that have *)
(* the property instead, so that the provers can use it.                   *)
(***************************************************************************)
EXTENDS FiniteSetsExt, FiniteSetTheorems, TLAPS

LEMMA SetInduction ==
  ASSUME NEW S, IsFiniteSet(S), NEW Good, {} \in Good,
         \A T \in SUBSET S : T # {} /\ (\A x \in T : T \ {x} \in Good) => T \in Good
  PROVE  S \in Good
<1> DEFINE Bad == {T \in SUBSET S : T \notin Good}
           R == StrictSubsetOrdering(S)
<1>1. SUFFICES ASSUME Bad # {} PROVE FALSE
  OBVIOUS
<1>2. IsWellFoundedOn(R, SUBSET S)
  BY FS_StrictSubsetOrderingWellFounded, FS_FiniteSubsetsOfFinite
<1>3. PICK T \in Bad : \A U \in Bad : <<U, T>> \notin R
  <2>1. Bad \subseteq SUBSET S
    OBVIOUS
  <2> HIDE DEF R, Bad
  <2> QED BY <1>1, <1>2, <2>1, WFMin
<1>4. ASSUME NEW x \in T PROVE T \ {x} \in Good
  <2>1. T \ {x} \in SUBSET S /\ <<T \ {x}, T>> \in R
    BY DEF StrictSubsetOrdering
  <2> QED BY <1>3, <2>1
<1> QED BY <1>4

LEMMA NatSetInduction ==
  ASSUME NEW n \in Nat, NEW Good, 0 \in Good,
         \A k \in Nat : k \in Good => k + 1 \in Good
  PROVE  n \in Good
<1> DEFINE Sets == {T \in SUBSET (1..n) : Cardinality(T) \in Good}
<1>1. IsFiniteSet(1..n) /\ Cardinality(1..n) = n
  BY FS_Interval
<1>2. {} \in Sets
  BY FS_EmptySet
<1>3. ASSUME NEW T \in SUBSET (1..n), T # {}, \A x \in T : T \ {x} \in Sets
      PROVE  T \in Sets
  <2>1. PICK x \in T : TRUE
    BY <1>3
  <2>2. IsFiniteSet(T)
    BY <1>1, FS_Subset
  <2>3. Cardinality(T) \in Nat /\ Cardinality(T \ {x}) \in Nat
    BY <2>2, FS_CardinalityType, FS_RemoveElement
  <2>4. x \in T /\ Cardinality(T \ {x}) = Cardinality(T) - 1
    BY <1>3, <2>1, <2>2, FS_RemoveElement
  <2>5. Cardinality(T) = Cardinality(T \ {x}) + 1
    BY <2>3, <2>4
  <2> QED BY <1>3, <2>3, <2>4, <2>5
<1>4. 1..n \in Sets
  <2> HIDE DEF Sets
  <2> QED BY <1>1, <1>2, <1>3, SetInduction
<1> QED BY <1>1, <1>4

-----------------------------------------------------------------------------
(***************************************************************************)
(* The recursion behind SumFunctionOnSet has a solution, and only one.     *)
(***************************************************************************)
Pick(s) == CHOOSE x \in s : TRUE

Partial(f, g, s) == IF s = {} THEN 0 ELSE f[Pick(s)] + g[s \ {Pick(s)}]

Recursion(f, S, g) == g = [s \in SUBSET S |-> Partial(f, g, s)]

LEMMA PickIsMember == \A s : s # {} => Pick(s) \in s
  BY DEF Pick

LEMMA RecursionExists ==
  ASSUME NEW f, NEW S, IsFiniteSet(S)
  PROVE  \E g : Recursion(f, S, g)
<1> DEFINE Small(k) == {s \in SUBSET S : Cardinality(s) <= k}
           Solves(g, k) == /\ DOMAIN g = SUBSET S
                           /\ g = [s \in DOMAIN g |-> g[s]]
                           /\ \A s \in Small(k) : g[s] = Partial(f, g, s)
           Good == {k \in Nat : \E g : Solves(g, k)}
<1>1. \A s \in SUBSET S : IsFiniteSet(s) /\ Cardinality(s) \in Nat /\ Cardinality(s) <= Cardinality(S)
  BY FS_Subset, FS_CardinalityType
<1>2. 0 \in Good
  <2> DEFINE g == [s \in SUBSET S |-> 0]
  <2>1. \A s \in Small(0) : s = {}
    BY <1>1, FS_EmptySet
  <2>2. Solves(g, 0)
    BY <2>1 DEF Partial
  <2> QED BY <2>2
<1>3. ASSUME NEW k \in Nat, k \in Good PROVE k + 1 \in Good
  <2>1. PICK g : Solves(g, k)
    BY <1>3
  <2> DEFINE h == [s \in SUBSET S |-> Partial(f, g, s)]
  <2>2. ASSUME NEW s \in Small(k + 1) PROVE h[s] = Partial(f, h, s)
    <3>1. CASE s = {}
      BY <3>1 DEF Partial
    <3>2. CASE s # {}
      <4> DEFINE t == s \ {Pick(s)}
      <4>1. Pick(s) \in s
        BY <3>2, PickIsMember
      <4>2. Cardinality(t) = Cardinality(s) - 1
        BY <1>1, <4>1, FS_RemoveElement
      <4>3. t \in Small(k)
        BY <1>1, <4>2
      <4>4. h[t] = g[t]
        BY <2>1, <4>3
      <4> QED BY <3>2, <4>4 DEF Partial
    <3> QED BY <3>1, <3>2
  <2>3. Solves(h, k + 1)
    BY <2>2
  <2> HIDE DEF h, Solves
  <2> QED BY <2>3
<1>4. Cardinality(S) \in Good
  <2>1. Cardinality(S) \in Nat
    BY FS_CardinalityType
  <2> HIDE DEF Good
  <2> QED BY <1>2, <1>3, <2>1, NatSetInduction
<1>5. PICK g : Solves(g, Cardinality(S))
  BY <1>4
<1>6. g = [s \in SUBSET S |-> Partial(f, g, s)]
  BY <1>1, <1>5
<1> QED BY <1>6 DEF Recursion

LEMMA SumIsRecursion ==
  ASSUME NEW f, NEW S, IsFiniteSet(S)
  PROVE  \E g : Recursion(f, S, g) /\ SumFunctionOnSet(f, S) = g[S]
<1> DEFINE g == CHOOSE h : h = [s \in SUBSET S |->
                   IF s = {} THEN 0
                   ELSE f[CHOOSE x \in s : TRUE] + h[s \ {CHOOSE x \in s : TRUE}]]
<1>1. SumFunctionOnSet(f, S) = g[S]
  BY DEF SumFunctionOnSet, FoldFunctionOnSet, MapThenFoldSet
<1>2. g = CHOOSE h : Recursion(f, S, h)
  BY DEF Recursion, Partial, Pick
<1>3. Recursion(f, S, g)
  <2> HIDE DEF g
  <2> QED BY <1>2, RecursionExists
<1> QED BY <1>1, <1>3

LEMMA RecursionIsUnique ==
  ASSUME NEW f, NEW S, IsFiniteSet(S), NEW T \in SUBSET S,
         NEW g, Recursion(f, S, g), NEW h, Recursion(f, T, h)
  PROVE  g[T] = h[T]
<1> DEFINE Good == {s \in SUBSET T : g[s] = h[s]}
<1>1. IsFiniteSet(T)
  BY FS_Subset
<1>2. \A s \in SUBSET T : g[s] = Partial(f, g, s) /\ h[s] = Partial(f, h, s)
  BY DEF Recursion
<1>3. {} \in Good
  BY <1>2 DEF Partial
<1>4. ASSUME NEW s \in SUBSET T, s # {}, \A x \in s : s \ {x} \in Good
      PROVE  s \in Good
  <2>1. Pick(s) \in s
    BY <1>4, PickIsMember
  <2>2. g[s \ {Pick(s)}] = h[s \ {Pick(s)}]
    BY <1>4, <2>1
  <2> QED BY <1>2, <1>4, <2>2 DEF Partial
<1>5. T \in Good
  <2> HIDE DEF Good
  <2> QED BY <1>1, <1>3, <1>4, SetInduction
<1> QED BY <1>5

LEMMA SumOfNothing == ASSUME NEW f PROVE SumFunctionOnSet(f, {}) = 0
<1>1. IsFiniteSet({})
  BY FS_EmptySet
<1>2. PICK g : Recursion(f, {}, g) /\ SumFunctionOnSet(f, {}) = g[{}]
  BY <1>1, SumIsRecursion
<1> QED BY <1>2 DEF Recursion, Partial

LEMMA SumPicks ==
  ASSUME NEW f, NEW S, IsFiniteSet(S), S # {}
  PROVE  SumFunctionOnSet(f, S) = f[Pick(S)] + SumFunctionOnSet(f, S \ {Pick(S)})
<1> DEFINE T == S \ {Pick(S)}
<1>1. IsFiniteSet(T) /\ T \in SUBSET S
  BY FS_RemoveElement
<1>2. PICK g : Recursion(f, S, g) /\ SumFunctionOnSet(f, S) = g[S]
  BY SumIsRecursion
<1>3. PICK h : Recursion(f, T, h) /\ SumFunctionOnSet(f, T) = h[T]
  BY <1>1, SumIsRecursion
<1>4. g[T] = h[T]
  BY <1>1, <1>2, <1>3, RecursionIsUnique
<1>5. g[S] = f[Pick(S)] + g[T]
  BY <1>2 DEF Recursion, Partial
<1> QED BY <1>2, <1>3, <1>4, <1>5

-----------------------------------------------------------------------------
(***************************************************************************)
(* What a sum is, whatever the order it is taken in.                       *)
(***************************************************************************)
IntOn(f, S) == \A x \in S : f[x] \in Int

LEMMA SumIsInt ==
  ASSUME NEW f, NEW S, IsFiniteSet(S), IntOn(f, S)
  PROVE  SumFunctionOnSet(f, S) \in Int
<1> DEFINE Good == {T \in SUBSET S : SumFunctionOnSet(f, T) \in Int}
<1>1. {} \in Good
  BY SumOfNothing
<1>2. ASSUME NEW T \in SUBSET S, T # {}, \A x \in T : T \ {x} \in Good
      PROVE  T \in Good
  <2>1. IsFiniteSet(T) /\ Pick(T) \in T
    BY <1>2, FS_Subset, PickIsMember
  <2>2. f[Pick(T)] \in Int /\ SumFunctionOnSet(f, T \ {Pick(T)}) \in Int
    BY <1>2, <2>1 DEF IntOn
  <2>3. SumFunctionOnSet(f, T) = f[Pick(T)] + SumFunctionOnSet(f, T \ {Pick(T)})
    BY <1>2, <2>1, SumPicks
  <2> QED BY <2>2, <2>3
<1>3. S \in Good
  <2> HIDE DEF Good
  <2> QED BY <1>1, <1>2, SetInduction
<1> QED BY <1>3

\* Any member may be taken out first.
LEMMA SumRemoves ==
  ASSUME NEW f, NEW S, IsFiniteSet(S), IntOn(f, S), NEW y \in S
  PROVE  SumFunctionOnSet(f, S) = f[y] + SumFunctionOnSet(f, S \ {y})
<1> DEFINE Sum(T) == SumFunctionOnSet(f, T)
           Good == {T \in SUBSET S : \A x \in T : Sum(T) = f[x] + Sum(T \ {x})}
<1>1. {} \in Good
  OBVIOUS
<1>2. ASSUME NEW T \in SUBSET S, T # {}, \A x \in T : T \ {x} \in Good
      PROVE  T \in Good
  <2> SUFFICES ASSUME NEW x \in T PROVE Sum(T) = f[x] + Sum(T \ {x})
    OBVIOUS
  <2> DEFINE p == Pick(T)
  <2>1. IsFiniteSet(T) /\ p \in T
    BY <1>2, FS_Subset, PickIsMember
  <2>2. Sum(T) = f[p] + Sum(T \ {p})
    BY <1>2, <2>1, SumPicks
  <2>3. CASE x # p
    <3>1. Sum(T \ {p}) = f[x] + Sum((T \ {p}) \ {x})
      BY <1>2, <2>1, <2>3
    <3>2. Sum(T \ {x}) = f[p] + Sum((T \ {x}) \ {p})
      BY <1>2, <2>1, <2>3
    <3>3. (T \ {p}) \ {x} = (T \ {x}) \ {p}
      OBVIOUS
    <3>4. IsFiniteSet((T \ {p}) \ {x}) /\ IntOn(f, (T \ {p}) \ {x})
      BY <2>1, FS_RemoveElement DEF IntOn
    <3>5. f[x] \in Int /\ f[p] \in Int /\ Sum((T \ {p}) \ {x}) \in Int
      BY <2>1, <3>4, SumIsInt DEF IntOn
    <3>6. Sum(T) = f[p] + (f[x] + Sum((T \ {p}) \ {x}))
      BY <2>2, <3>1
    <3>7. Sum(T \ {x}) = f[p] + Sum((T \ {p}) \ {x})
      BY <3>2, <3>3
    <3> QED BY <3>5, <3>6, <3>7
  <2> QED BY <2>2, <2>3
<1>3. S \in Good
  <2> HIDE DEF Good
  <2> QED BY <1>1, <1>2, SetInduction
<1> QED BY <1>3

\* A sum depends on the values alone.
LEMMA SumSame ==
  ASSUME NEW f, NEW g, NEW S, IsFiniteSet(S), \A x \in S : f[x] = g[x]
  PROVE  SumFunctionOnSet(f, S) = SumFunctionOnSet(g, S)
<1> DEFINE Good == {T \in SUBSET S : SumFunctionOnSet(f, T) = SumFunctionOnSet(g, T)}
<1>1. {} \in Good
  BY SumOfNothing
<1>2. ASSUME NEW T \in SUBSET S, T # {}, \A x \in T : T \ {x} \in Good
      PROVE  T \in Good
  <2>1. IsFiniteSet(T) /\ Pick(T) \in T
    BY <1>2, FS_Subset, PickIsMember
  <2>2. /\ SumFunctionOnSet(f, T) = f[Pick(T)] + SumFunctionOnSet(f, T \ {Pick(T)})
        /\ SumFunctionOnSet(g, T) = g[Pick(T)] + SumFunctionOnSet(g, T \ {Pick(T)})
    BY <1>2, <2>1, SumPicks
  <2> QED BY <1>2, <2>1, <2>2
<1>3. S \in Good
  <2> HIDE DEF Good
  <2> QED BY <1>1, <1>2, SetInduction
<1> QED BY <1>3

\* Changing one value changes the sum by as much.
LEMMA SumChanges ==
  ASSUME NEW f, NEW g, NEW S, IsFiniteSet(S), IntOn(f, S), IntOn(g, S),
         NEW y \in S, \A x \in S : x # y => g[x] = f[x]
  PROVE  SumFunctionOnSet(g, S) = SumFunctionOnSet(f, S) + (g[y] - f[y])
<1> DEFINE rest == SumFunctionOnSet(f, S \ {y})
<1>1. SumFunctionOnSet(f, S) = f[y] + rest
  BY SumRemoves
<1>2. SumFunctionOnSet(g, S) = g[y] + SumFunctionOnSet(g, S \ {y})
  BY SumRemoves
<1>3. IsFiniteSet(S \ {y}) /\ IntOn(f, S \ {y})
  BY FS_RemoveElement DEF IntOn
<1>4. SumFunctionOnSet(g, S \ {y}) = rest
  BY <1>3, SumSame
<1>5. f[y] \in Int /\ g[y] \in Int /\ rest \in Int
  BY <1>3, SumIsInt DEF IntOn
<1> HIDE DEF rest
<1> QED BY <1>1, <1>2, <1>4, <1>5

\* The sum of the sums is the sum of all.
LEMMA SumPlus ==
  ASSUME NEW f, NEW g, NEW h, NEW S, IsFiniteSet(S), IntOn(f, S), IntOn(g, S),
         \A x \in S : h[x] = f[x] + g[x]
  PROVE  SumFunctionOnSet(h, S) = SumFunctionOnSet(f, S) + SumFunctionOnSet(g, S)
<1> DEFINE Good == {T \in SUBSET S : SumFunctionOnSet(h, T) = SumFunctionOnSet(f, T) + SumFunctionOnSet(g, T)}
<1>1. {} \in Good
  BY SumOfNothing
<1>2. ASSUME NEW T \in SUBSET S, T # {}, \A x \in T : T \ {x} \in Good
      PROVE  T \in Good
  <2> DEFINE p == Pick(T)
             F == SumFunctionOnSet(f, T \ {p})
             G == SumFunctionOnSet(g, T \ {p})
  <2>1. IsFiniteSet(T) /\ p \in T
    BY <1>2, FS_Subset, PickIsMember
  <2>2. /\ SumFunctionOnSet(f, T) = f[p] + F
        /\ SumFunctionOnSet(g, T) = g[p] + G
        /\ SumFunctionOnSet(h, T) = h[p] + SumFunctionOnSet(h, T \ {p})
    BY <1>2, <2>1, SumPicks
  <2>3. IsFiniteSet(T \ {p}) /\ IntOn(f, T \ {p}) /\ IntOn(g, T \ {p})
    BY <2>1, FS_RemoveElement DEF IntOn
  <2>4. F \in Int /\ G \in Int /\ f[p] \in Int /\ g[p] \in Int
    BY <2>1, <2>3, SumIsInt DEF IntOn
  <2>5. SumFunctionOnSet(h, T \ {p}) = F + G /\ h[p] = f[p] + g[p]
    BY <1>2, <2>1
  <2>6. SumFunctionOnSet(h, T) = SumFunctionOnSet(f, T) + SumFunctionOnSet(g, T)
    <3> HIDE DEF p, F, G
    <3> QED BY <2>2, <2>4, <2>5
  <2> QED BY <2>6
<1>3. S \in Good
  <2> HIDE DEF Good
  <2> QED BY <1>1, <1>2, SetInduction
<1> QED BY <1>3

\* A sum of naturals is one, and no part exceeds it.
LEMMA SumIsNat ==
  ASSUME NEW f, NEW S, IsFiniteSet(S), \A x \in S : f[x] \in Nat
  PROVE  SumFunctionOnSet(f, S) \in Nat
<1> DEFINE Good == {T \in SUBSET S : SumFunctionOnSet(f, T) \in Nat}
<1>1. {} \in Good
  BY SumOfNothing
<1>2. ASSUME NEW T \in SUBSET S, T # {}, \A x \in T : T \ {x} \in Good
      PROVE  T \in Good
  <2>1. IsFiniteSet(T) /\ Pick(T) \in T
    BY <1>2, FS_Subset, PickIsMember
  <2>2. f[Pick(T)] \in Nat /\ SumFunctionOnSet(f, T \ {Pick(T)}) \in Nat
    BY <1>2, <2>1
  <2>3. SumFunctionOnSet(f, T) = f[Pick(T)] + SumFunctionOnSet(f, T \ {Pick(T)})
    BY <1>2, <2>1, SumPicks
  <2> QED BY <2>2, <2>3
<1>3. S \in Good
  <2> HIDE DEF Good
  <2> QED BY <1>1, <1>2, SetInduction
<1> QED BY <1>3

LEMMA PartWithinSum ==
  ASSUME NEW f, NEW S, IsFiniteSet(S), \A x \in S : f[x] \in Nat, NEW y \in S
  PROVE  f[y] <= SumFunctionOnSet(f, S)
<1>1. IntOn(f, S) /\ IsFiniteSet(S \ {y})
  BY FS_RemoveElement DEF IntOn
<1>2. SumFunctionOnSet(f, S) = f[y] + SumFunctionOnSet(f, S \ {y})
  BY <1>1, SumRemoves
<1>3. f[y] \in Nat /\ SumFunctionOnSet(f, S \ {y}) \in Nat
  BY <1>1, SumIsNat
<1> QED BY <1>2, <1>3

\* Larger addends have the larger sum.
LEMMA SumGrows ==
  ASSUME NEW f, NEW g, NEW S, IsFiniteSet(S),
         \A x \in S : f[x] \in Nat /\ g[x] \in Nat /\ f[x] <= g[x]
  PROVE  SumFunctionOnSet(f, S) <= SumFunctionOnSet(g, S)
<1> DEFINE rest == [x \in S |-> g[x] - f[x]]
<1>1. /\ \A x \in S : rest[x] \in Nat
      /\ \A x \in S : g[x] = f[x] + rest[x]
      /\ IntOn(f, S) /\ IntOn(rest, S)
  BY DEF IntOn
<1> HIDE DEF rest
<1>2. SumFunctionOnSet(g, S) = SumFunctionOnSet(f, S) + SumFunctionOnSet(rest, S)
  BY <1>1, SumPlus
<1>3. SumFunctionOnSet(f, S) \in Nat /\ SumFunctionOnSet(rest, S) \in Nat
  BY <1>1, SumIsNat
<1> QED
  BY <1>2, <1>3

\* Fewer addends have the smaller sum.
LEMMA SubsetWithinSum ==
  ASSUME NEW f, NEW S, IsFiniteSet(S), \A x \in S : f[x] \in Nat, NEW T \in SUBSET S
  PROVE  SumFunctionOnSet(f, T) <= SumFunctionOnSet(f, S)
<1> DEFINE Sum(U) == SumFunctionOnSet(f, U)
           Good == {U \in SUBSET S : Sum(U \cap T) <= Sum(U)}
<1>1. \A U \in SUBSET S : IsFiniteSet(U) /\ IntOn(f, U) /\ Sum(U) \in Int
  BY FS_Subset, SumIsInt DEF IntOn
<1>2. {} \in Good
  <2>1. Sum({}) = 0 /\ {} \cap T = {}
    BY SumOfNothing
  <2> HIDE DEF Sum
  <2> QED BY <2>1
<1>3. ASSUME NEW U \in SUBSET S, U # {}, \A x \in U : U \ {x} \in Good PROVE U \in Good
  <2>1. PICK x \in U : U \ {x} \in Good
    BY <1>3
  <2>2. Sum((U \ {x}) \cap T) <= Sum(U \ {x}) /\ Sum((U \ {x}) \cap T) \in Int /\ Sum(U \ {x}) \in Int
    BY <2>1, <1>1
  <2>3. Sum(U) = f[x] + Sum(U \ {x}) /\ f[x] \in Nat
    BY <1>1, SumRemoves
  <2>4. CASE x \in T
    <3>1. (U \cap T) \ {x} = (U \ {x}) \cap T /\ x \in U \cap T /\ U \cap T \in SUBSET S
      BY <2>4
    <3>2. Sum(U \cap T) = f[x] + Sum((U \cap T) \ {x})
      BY <3>1, <1>1, SumRemoves
    <3> HIDE DEF Sum
    <3>3. Sum(U \cap T) <= Sum(U)
      BY <3>1, <3>2, <2>2, <2>3
    <3> QED BY <3>3
  <2>5. CASE x \notin T
    <3>1. U \cap T = (U \ {x}) \cap T
      BY <2>5
    <3> HIDE DEF Sum
    <3>2. Sum(U \cap T) <= Sum(U)
      BY <3>1, <2>2, <2>3
    <3> QED BY <3>2
  <2> QED BY <2>4, <2>5
<1>4. S \in Good
  <2> HIDE DEF Good
  <2> QED BY <1>2, <1>3, SetInduction
<1> QED
  <2>1. S \cap T = T
    OBVIOUS
  <2> QED BY <1>4, <2>1

\* Nothing adds up to nothing.
LEMMA SumOfZeros ==
  ASSUME NEW f, NEW S, IsFiniteSet(S), \A x \in S : f[x] = 0
  PROVE  SumFunctionOnSet(f, S) = 0
<1> DEFINE Good == {T \in SUBSET S : SumFunctionOnSet(f, T) = 0}
<1>1. {} \in Good
  BY SumOfNothing
<1>2. ASSUME NEW T \in SUBSET S, T # {}, \A x \in T : T \ {x} \in Good
      PROVE  T \in Good
  <2>1. IsFiniteSet(T) /\ Pick(T) \in T
    BY <1>2, FS_Subset, PickIsMember
  <2>2. SumFunctionOnSet(f, T) = f[Pick(T)] + SumFunctionOnSet(f, T \ {Pick(T)})
    BY <1>2, <2>1, SumPicks
  <2> QED BY <1>2, <2>1, <2>2
<1>3. S \in Good
  <2> HIDE DEF Good
  <2> QED BY <1>1, <1>2, SetInduction
<1> QED BY <1>3

-----------------------------------------------------------------------------
\* Products and floored quotients of natural numbers.
LEMMA FloorIsNat ==
  ASSUME NEW a \in Nat, NEW b \in Nat, b > 0
  PROVE  /\ a \div b \in Nat
         /\ b * (a \div b) <= a
         /\ a <= b * (a \div b) + (b - 1)
  OBVIOUS

LEMMA MulIsNat ==
  ASSUME NEW a \in Nat, NEW b \in Nat
  PROVE  a * b \in Nat
  OBVIOUS

LEMMA MulMonotone ==
  ASSUME NEW a \in Nat, NEW b \in Nat, NEW c \in Nat, a <= b
  PROVE  c * a <= c * b
  OBVIOUS

LEMMA DivBounds ==
  ASSUME NEW a \in Nat, NEW b \in Nat, b > 0
  PROVE  /\ a \div b \in Nat
         /\ (a \div b) * b <= a
         /\ a < ((a \div b) + 1) * b
<1> DEFINE q == a \div b
<1>1. q \in Nat /\ b * q <= a /\ a < b * (q + 1)
  BY SMT
<1>2. b * q = q * b /\ b * (q + 1) = (q + 1) * b
  BY <1>1
<1> QED
  BY <1>1, <1>2

\* Of two products with a common factor.
LEMMA LessCancels ==
  ASSUME NEW a \in Nat, NEW b \in Nat, NEW c \in Nat, c > 0, a * c < b * c
  PROVE  a < b
<1>1. ASSUME a >= b PROVE FALSE
  <2>1. b * c <= a * c
    BY <1>1, MulMonotone
  <2>2. a * c \in Nat /\ b * c \in Nat
    BY MulIsNat
  <2> QED BY <2>1, <2>2
<1> QED
  BY <1>1

\* A floor grows with what it floors, and falls as the divisor grows.
LEMMA FloorGrows ==
  ASSUME NEW a \in Nat, NEW b \in Nat, NEW c \in Nat, c > 0, a <= b
  PROVE  a \div c <= b \div c
<1>1. PICK p \in Nat : p = a \div c /\ p * c <= a
  BY DivBounds
<1>2. PICK q \in Nat : q = b \div c /\ b < (q + 1) * c
  BY DivBounds
<1>3. p * c < (q + 1) * c
  <2>1. p * c \in Nat /\ (q + 1) * c \in Nat
    BY MulIsNat
  <2> QED BY <1>1, <1>2, <2>1
<1>4. p < q + 1
  BY <1>3, LessCancels
<1> QED
  BY <1>1, <1>2, <1>4

LEMMA FloorFalls ==
  ASSUME NEW a \in Nat, NEW b \in Nat, NEW c \in Nat, b > 0, b <= c
  PROVE  a \div c <= a \div b
<1>1. PICK p \in Nat : p = a \div c /\ p * c <= a
  BY DivBounds
<1>2. PICK q \in Nat : q = a \div b /\ a < (q + 1) * b
  BY DivBounds
<1>3. p * b < (q + 1) * b
  <2>1. p * b <= p * c
    BY MulMonotone
  <2>2. p * b \in Nat /\ p * c \in Nat /\ (q + 1) * b \in Nat
    BY MulIsNat
  <2> QED BY <1>1, <1>2, <2>1, <2>2
<1>4. p < q + 1
  BY <1>3, LessCancels
<1> QED
  BY <1>1, <1>2, <1>4

(***************************************************************************)
(* A pot shared out pro rata, each share rounded down: the shares never    *)
(* come to more than the pot, and fall short of it by less than one unit   *)
(* for each member who gets a share.                                       *)
(***************************************************************************)
LEMMA SharesOfPart ==
  ASSUME NEW pot \in Nat, NEW whole \in Nat, whole > 0,
         NEW weight, NEW share, NEW S, IsFiniteSet(S),
         \A x \in S : weight[x] \in Nat /\ share[x] = (pot * weight[x]) \div whole
  PROVE  /\ whole * SumFunctionOnSet(share, S) <= pot * SumFunctionOnSet(weight, S)
         /\ pot * SumFunctionOnSet(weight, S)
              <= whole * SumFunctionOnSet(share, S)
                   + (whole - 1) * Cardinality({x \in S : weight[x] > 0})
<1> DEFINE Paid(T) == SumFunctionOnSet(share, T)
           Put(T) == SumFunctionOnSet(weight, T)
           In(T) == {x \in T : weight[x] > 0}
           Good == {T \in SUBSET S :
                      /\ whole * Paid(T) <= pot * Put(T)
                      /\ pot * Put(T) <= whole * Paid(T) + (whole - 1) * Cardinality(In(T))}
<1>1. {} \in Good
  <2>1. Paid({}) = 0 /\ Put({}) = 0 /\ In({}) = {} /\ Cardinality({}) = 0
    BY SumOfNothing, FS_EmptySet
  <2> QED BY <2>1
<1>2. ASSUME NEW T \in SUBSET S, T # {}, \A x \in T : T \ {x} \in Good
      PROVE  T \in Good
  <2> DEFINE p == Pick(T)
             rest == T \ {p}
             a == pot * weight[p]
  <2>1. IsFiniteSet(T) /\ p \in T /\ IsFiniteSet(rest)
    BY <1>2, FS_Subset, PickIsMember, FS_RemoveElement
  <2>2. Paid(T) = share[p] + Paid(rest) /\ Put(T) = weight[p] + Put(rest)
    BY <1>2, <2>1, SumPicks
  <2>3. a \in Nat /\ weight[p] \in Nat /\ share[p] = a \div whole
    BY <2>1
  <2>4. share[p] \in Nat /\ whole * share[p] <= a /\ a <= whole * share[p] + (whole - 1)
    BY <2>3, FloorIsNat
  <2>5. \A x \in rest : weight[x] \in Nat /\ share[x] \in Nat
    <3> TAKE x \in rest
    <3>1. weight[x] \in Nat /\ pot * weight[x] \in Nat /\ share[x] = (pot * weight[x]) \div whole
      OBVIOUS
    <3> QED BY <3>1, FloorIsNat
  <2>6. Paid(rest) \in Nat /\ Put(rest) \in Nat
    BY <2>1, <2>5, SumIsNat
  <2>7. /\ whole * Paid(rest) <= pot * Put(rest)
        /\ pot * Put(rest) <= whole * Paid(rest) + (whole - 1) * Cardinality(In(rest))
    BY <1>2, <2>1
  <2>8. IsFiniteSet(In(T)) /\ IsFiniteSet(In(rest)) /\ Cardinality(In(rest)) \in Nat
    BY <2>1, FS_Subset, FS_CardinalityType
  <2>9. /\ whole * Paid(T) = whole * share[p] + whole * Paid(rest)
        /\ pot * Put(T) = a + pot * Put(rest)
    <3>1. ASSUME NEW m \in Int, NEW i \in Int, NEW j \in Int PROVE m * (i + j) = m * i + m * j
      OBVIOUS
    <3>2. whole * (share[p] + Paid(rest)) = whole * share[p] + whole * Paid(rest)
      BY <2>4, <2>6, <3>1
    <3>3. pot * (weight[p] + Put(rest)) = pot * weight[p] + pot * Put(rest)
      BY <2>3, <2>6, <3>1
    <3> QED BY <2>2, <3>2, <3>3
  <2>10. CASE weight[p] > 0
    <3>1. In(rest) = In(T) \ {p} /\ p \in In(T)
      BY <2>1, <2>10
    <3>2. Cardinality(In(T)) \in Nat /\ Cardinality(In(rest)) = Cardinality(In(T)) - 1
      BY <2>8, <3>1, FS_RemoveElement, FS_CardinalityType
    <3> DEFINE n == Cardinality(In(rest))
               m == Cardinality(In(T))
    <3>3. m = n + 1 /\ n \in Nat
      BY <2>8, <3>2
    <3>4. (whole - 1) * m = (whole - 1) * n + (whole - 1)
      <4> HIDE DEF n, m
      <4> QED BY <3>3
    <3>5. /\ (whole - 1) * n \in Int /\ whole * Paid(rest) \in Int /\ whole * share[p] \in Int
          /\ pot * Put(rest) \in Int
      BY <2>4, <2>6, <3>3
    <3>6. /\ whole * Paid(T) <= pot * Put(T)
          /\ pot * Put(T) <= whole * Paid(T) + (whole - 1) * m
      BY <2>3, <2>4, <2>7, <2>9, <3>4, <3>5
    <3> QED BY <3>6
  <2>11. CASE weight[p] = 0
    <3>1. In(rest) = In(T)
      BY <2>1, <2>11
    <3>2. a = 0 /\ share[p] = 0
      BY <2>3, <2>11
    <3>3. Paid(T) = Paid(rest) /\ Put(T) = Put(rest)
      BY <2>2, <2>6, <2>11, <3>2
    <3> QED BY <2>7, <3>1, <3>3
  <2> QED BY <2>3, <2>10, <2>11
<1>3. S \in Good
  <2> HIDE DEF Good
  <2> QED BY <1>1, <1>2, SetInduction
<1> QED BY <1>3

LEMMA SharesOfWhole ==
  ASSUME NEW pot \in Nat, NEW weight, NEW share, NEW S, IsFiniteSet(S),
         NEW whole \in Nat, whole > 0, whole = SumFunctionOnSet(weight, S),
         \A x \in S : weight[x] \in Nat /\ share[x] = (pot * weight[x]) \div whole
  PROVE  /\ SumFunctionOnSet(share, S) <= pot
         /\ pot <= SumFunctionOnSet(share, S) + Cardinality({x \in S : weight[x] > 0}) - 1
<1> DEFINE paid == SumFunctionOnSet(share, S)
           n == Cardinality({x \in S : weight[x] > 0})
<1>1. \A x \in S : share[x] \in Nat
  <2> TAKE x \in S
  <2>1. pot * weight[x] \in Nat /\ share[x] = (pot * weight[x]) \div whole
    OBVIOUS
  <2> QED BY <2>1, FloorIsNat
<1>2. paid \in Nat /\ n \in Nat
  BY <1>1, SumIsNat, FS_Subset, FS_CardinalityType
<1>3. whole * paid <= pot * whole /\ pot * whole <= whole * paid + (whole - 1) * n
  BY SharesOfPart
<1> HIDE DEF paid, n
<1>4. paid <= pot
  <2> SUFFICES ASSUME paid >= pot + 1 PROVE FALSE
    BY <1>2
  <2>1. whole * paid >= whole * (pot + 1)
    BY <1>2
  <2>2. whole * (pot + 1) = whole * pot + whole
    OBVIOUS
  <2> QED BY <1>2, <1>3, <2>1, <2>2
<1>5. pot <= paid + n - 1
  <2> SUFFICES ASSUME pot >= paid + n PROVE FALSE
    BY <1>2
  <2>1. whole * pot >= whole * (paid + n)
    BY <1>2
  <2>2. whole * (paid + n) = whole * paid + whole * n /\ (whole - 1) * n = whole * n - n
    BY <1>2
  <2>3. n <= 0
    BY <1>2, <1>3, <2>1, <2>2
  <2>4. n = 0
    BY <1>2, <2>3
  <2>5. \A x \in S : weight[x] = 0
    <3>1. IsFiniteSet({x \in S : weight[x] > 0})
      BY FS_Subset
    <3>2. {x \in S : weight[x] > 0} = {}
      BY <2>4, <3>1, FS_EmptySet DEF n
    <3> QED BY <3>2
  <2> QED BY <2>5, SumOfZeros
<1> QED BY <1>4, <1>5 DEF paid, n
==============================================================================
