-------------------------------- MODULE Sums --------------------------------
(***************************************************************************)
(* Lemmas about SumFunctionOnSet of module Functions: the sum of the values *)
(* of a function over a finite set.  Induction is over finite sets, with the *)
(* property that is proved written as a set: of numbers, or of subsets.    *)
(***************************************************************************)
EXTENDS Integers, FiniteSetsExt, FiniteSetTheorems, WellFoundedInduction, TLAPS

\* Induction over the parts of a finite set, by their elements.
LEMMA SetInduction ==
  ASSUME NEW S, IsFiniteSet(S), NEW Good,
         {} \in Good,
         \A T \in SUBSET S : \A x \in S \ T : T \in Good => T \union {x} \in Good
  PROVE  S \in Good
<1> SUFFICES ASSUME S \notin Good PROVE FALSE
  OBVIOUS
<1> DEFINE Bad == {T \in SUBSET S : T \notin Good}
<1>1. IsWellFoundedOn(StrictSubsetOrdering(S), FiniteSubsetsOf(S))
  BY FS_StrictSubsetOrderingWellFounded
<1>2. Bad # {} /\ Bad \subseteq FiniteSubsetsOf(S)
  BY FS_Subset DEF FiniteSubsetsOf
<1>3. \E T \in Bad : \A U \in Bad : <<U, T>> \notin StrictSubsetOrdering(S)
  <2> HIDE DEF Bad
  <2> QED BY <1>1, <1>2, WFMin
<1>4. PICK T \in Bad : \A U \in Bad : <<U, T>> \notin StrictSubsetOrdering(S)
  BY <1>3
<1>5. PICK x \in T : TRUE
  OBVIOUS
<1>6. T \ {x} \notin Bad
  BY <1>4 DEF StrictSubsetOrdering
<1>7. T = (T \ {x}) \union {x}
  OBVIOUS
<1> QED
  BY <1>6, <1>7

Pick(s) == CHOOSE x \in s : TRUE

Summed(g, f, s) == IF s = {} THEN 0 ELSE f[Pick(s)] + g[s \ {Pick(s)}]

\* g is the recursive function that a sum over S is a value of.
IsSum(g, f, S) == g = [s \in SUBSET S |-> Summed(g, f, s)]

TheSum(f, S) == CHOOSE g : IsSum(g, f, S)

\* SumFunctionOnSet is that function.
LEMMA SumIsTheSum ==
  ASSUME NEW f, NEW S
  PROVE  SumFunctionOnSet(f, S) = TheSum(f, S)[S]
BY DEF SumFunctionOnSet, FoldFunctionOnSet, MapThenFoldSet, TheSum, IsSum, Pick, Summed

\* Induction over the numbers.
LEMMA NatSetInduction ==
  ASSUME NEW Good, 0 \in Good, \A n \in Nat : n \in Good => n + 1 \in Good
  PROVE  \A n \in Nat : n \in Good
<1> SUFFICES ASSUME NEW n \in Nat PROVE n \in Good
  OBVIOUS
<1> DEFINE Upper == {T \in SUBSET (1..n) : Cardinality(T) \in Good}
<1>1. IsFiniteSet(1..n) /\ Cardinality(1..n) = n
  BY FS_Interval
<1>2. {} \in Upper
  BY FS_EmptySet
<1>3. \A T \in SUBSET (1..n) : \A x \in (1..n) \ T : T \in Upper => T \union {x} \in Upper
  <2> SUFFICES ASSUME NEW T \in SUBSET (1..n), NEW x \in (1..n) \ T, T \in Upper
               PROVE  T \union {x} \in Upper
    OBVIOUS
  <2>1. IsFiniteSet(T) /\ Cardinality(T) \in Nat
    BY <1>1, FS_Subset, FS_CardinalityType
  <2>2. Cardinality(T \union {x}) = Cardinality(T) + 1
    BY <2>1, FS_AddElement
  <2> QED BY <2>1, <2>2
<1>4. (1..n) \in Upper
  <2> HIDE DEF Upper
  <2> QED BY <1>1, <1>2, <1>3, SetInduction
<1> QED
  BY <1>1, <1>4

\* There is such a function, ...
LEMMA SumExists ==
  ASSUME NEW f, NEW S, IsFiniteSet(S)
  PROVE  \E g : IsSum(g, f, S)
<1> DEFINE Small(n) == {s \in SUBSET S : Cardinality(s) <= n}
           Def(g, n) == g = [s \in Small(n) |-> Summed(g, f, s)]
           Good == {n \in Nat : \E g : Def(g, n)}
<1>0. \A s \in SUBSET S : IsFiniteSet(s) /\ Cardinality(s) \in Nat /\ Cardinality(s) <= Cardinality(S)
  BY FS_Subset, FS_CardinalityType
<1>1. 0 \in Good
  <2>1. \A s \in Small(0) : s = {}
    BY <1>0, FS_EmptySet
  <2>2. Def([s \in Small(0) |-> 0], 0)
    BY <2>1 DEF Summed
  <2> QED BY <2>2
<1>2. ASSUME NEW n \in Nat, n \in Good
      PROVE  n + 1 \in Good
  <2>1. PICK g : Def(g, n)
    BY <1>2
  <2> DEFINE h == [s \in Small(n + 1) |-> Summed(g, f, s)]
  <2>2. \A s \in Small(n) : h[s] = g[s]
    BY <1>0, <2>1
  <2>3. \A s \in Small(n + 1) : s # {} => s \ {Pick(s)} \in Small(n)
    <3> SUFFICES ASSUME NEW s \in Small(n + 1), s # {} PROVE s \ {Pick(s)} \in Small(n)
      OBVIOUS
    <3>1. Pick(s) \in s
      BY DEF Pick
    <3> QED BY <3>1, <1>0, FS_RemoveElement
  <2>4. \A s \in Small(n + 1) : Summed(h, f, s) = Summed(g, f, s)
    <3> HIDE DEF Small, Def, h
    <3> QED BY <2>2, <2>3 DEF Summed
  <2>5. Def(h, n + 1)
    BY <2>4
  <2> HIDE DEF Def, h
  <2> QED BY <2>5
<1>3. Cardinality(S) \in Good
  <2> HIDE DEF Good
  <2> QED BY <1>1, <1>2, <1>0, NatSetInduction
<1>4. PICK g : Def(g, Cardinality(S))
  BY <1>3
<1>5. Small(Cardinality(S)) = SUBSET S
  BY <1>0
<1> QED
  BY <1>4, <1>5 DEF IsSum

\* Without the element that is picked a set is smaller.
LEMMA PickOne ==
  ASSUME NEW S, IsFiniteSet(S), NEW s \in SUBSET S, s # {}
  PROVE  /\ Pick(s) \in s
         /\ IsFiniteSet(s) /\ IsFiniteSet(s \ {Pick(s)})
         /\ Cardinality(s) \in Nat \ {0}
         /\ Cardinality(s \ {Pick(s)}) = Cardinality(s) - 1
<1>1. Pick(s) \in s
  BY DEF Pick
<1>2. IsFiniteSet(s) /\ IsFiniteSet(s \ {Pick(s)}) /\ Cardinality(s) \in Nat \ {0}
  BY FS_Subset, FS_CardinalityType, FS_EmptySet
<1>3. Cardinality(s \ {Pick(s)}) = Cardinality(s) - 1
  BY <1>1, <1>2, FS_RemoveElement
<1> QED
  BY <1>1, <1>2, <1>3

\* ... and whatever the set, it has the same value.
LEMMA SumUnique ==
  ASSUME NEW f, NEW S, NEW T, IsFiniteSet(S), T \subseteq S, NEW g, NEW h,
         IsSum(g, f, S), IsSum(h, f, T)
  PROVE  g[T] = h[T]
<1> DEFINE Good == {n \in Nat : \A s \in SUBSET T : Cardinality(s) = n => g[s] = h[s]}
<1>0. /\ IsFiniteSet(T)
      /\ \A s \in SUBSET T : IsFiniteSet(s) /\ Cardinality(s) \in Nat
  BY FS_Subset, FS_CardinalityType
<1>1. \A s \in SUBSET T : g[s] = Summed(g, f, s) /\ h[s] = Summed(h, f, s)
  BY DEF IsSum
<1>2. 0 \in Good
  BY <1>0, <1>1, FS_EmptySet DEF Summed
<1>3. \A n \in Nat : n \in Good => n + 1 \in Good
  <2> SUFFICES ASSUME NEW n \in Nat, n \in Good,
                      NEW s \in SUBSET T, Cardinality(s) = n + 1
               PROVE  g[s] = h[s]
    OBVIOUS
  <2>1. s # {}
    BY FS_EmptySet
  <2>2. s \ {Pick(s)} \in SUBSET T /\ Cardinality(s \ {Pick(s)}) = n
    BY <1>0, <2>1, PickOne
  <2>3. g[s \ {Pick(s)}] = h[s \ {Pick(s)}]
    BY <2>2
  <2> QED BY <1>1, <2>1, <2>3 DEF Summed
<1>4. Cardinality(T) \in Good
  <2> HIDE DEF Good
  <2> QED BY <1>0, <1>2, <1>3, NatSetInduction
<1> QED
  BY <1>4

\* What a sum is: nothing over the empty set, ...
LEMMA SumEmpty ==
  ASSUME NEW f
  PROVE  SumFunctionOnSet(f, {}) = 0
<1>1. PICK g : IsSum(g, f, {})
  BY SumExists, FS_EmptySet
<1>2. IsSum(TheSum(f, {}), f, {})
  BY <1>1 DEF TheSum
<1> QED
  BY <1>2, SumIsTheSum DEF IsSum, Summed

\* ... and over any other, the element that is picked and the sum over the rest.
LEMMA SumPick ==
  ASSUME NEW f, NEW S, IsFiniteSet(S), S # {}
  PROVE  SumFunctionOnSet(f, S) = f[Pick(S)] + SumFunctionOnSet(f, S \ {Pick(S)})
<1> DEFINE T == S \ {Pick(S)}
           g == TheSum(f, S)
           h == TheSum(f, T)
<1>1. IsFiniteSet(T) /\ T \subseteq S
  BY PickOne
<1>2. IsSum(g, f, S)
  BY SumExists DEF TheSum
<1>3. IsSum(h, f, T)
  BY <1>1, SumExists DEF TheSum
<1>4. g[T] = h[T]
  <2> HIDE DEF g, h, T
  <2> QED BY <1>1, <1>2, <1>3, SumUnique
<1>5. g[S] = f[Pick(S)] + g[T]
  <2> HIDE DEF g
  <2> QED BY <1>2 DEF IsSum, Summed
<1> QED
  BY <1>4, <1>5, SumIsTheSum

\* A sum of integers is one.
LEMMA SumType ==
  ASSUME NEW S, IsFiniteSet(S), NEW f, \A x \in S : f[x] \in Int
  PROVE  SumFunctionOnSet(f, S) \in Int
<1> DEFINE Good == {n \in Nat : \A s \in SUBSET S : Cardinality(s) = n => SumFunctionOnSet(f, s) \in Int}
<1>0. \A s \in SUBSET S : IsFiniteSet(s) /\ Cardinality(s) \in Nat
  BY FS_Subset, FS_CardinalityType
<1>1. 0 \in Good
  BY <1>0, FS_EmptySet, SumEmpty
<1>2. \A n \in Nat : n \in Good => n + 1 \in Good
  <2> SUFFICES ASSUME NEW n \in Nat, n \in Good,
                      NEW s \in SUBSET S, Cardinality(s) = n + 1
               PROVE  SumFunctionOnSet(f, s) \in Int
    OBVIOUS
  <2>1. s # {}
    BY FS_EmptySet
  <2>2. Cardinality(s \ {Pick(s)}) = n /\ Pick(s) \in s
    BY <1>0, <2>1, PickOne
  <2>3. SumFunctionOnSet(f, s) = f[Pick(s)] + SumFunctionOnSet(f, s \ {Pick(s)})
    BY <1>0, <2>1, SumPick
  <2>4. SumFunctionOnSet(f, s \ {Pick(s)}) \in Int
    BY <2>2
  <2>5. f[Pick(s)] \in Int
    BY <2>2
  <2> QED BY <2>3, <2>4, <2>5
<1>3. Cardinality(S) \in Good
  <2> HIDE DEF Good
  <2> QED BY <1>0, <1>1, <1>2, NatSetInduction
<1> QED
  BY <1>3

\* Any element may be the one that is taken out.
LEMMA SumTakeOut ==
  ASSUME NEW S, IsFiniteSet(S), NEW f, \A x \in S : f[x] \in Int, NEW y \in S
  PROVE  SumFunctionOnSet(f, S) = f[y] + SumFunctionOnSet(f, S \ {y})
<1> DEFINE Good == {n \in Nat : \A s \in SUBSET S : Cardinality(s) = n =>
                                  \A x \in s : SumFunctionOnSet(f, s) = f[x] + SumFunctionOnSet(f, s \ {x})}
<1>0. \A s \in SUBSET S : IsFiniteSet(s) /\ Cardinality(s) \in Nat
  BY FS_Subset, FS_CardinalityType
<1>1. 0 \in Good
  BY <1>0, FS_EmptySet
<1>2. \A n \in Nat : n \in Good => n + 1 \in Good
  <2> SUFFICES ASSUME NEW n \in Nat, n \in Good,
                      NEW s \in SUBSET S, Cardinality(s) = n + 1, NEW x \in s
               PROVE  SumFunctionOnSet(f, s) = f[x] + SumFunctionOnSet(f, s \ {x})
    OBVIOUS
  <2> DEFINE p == Pick(s)
  <2>1. p \in s /\ Cardinality(s \ {p}) = n
    BY <1>0, PickOne
  <2>2. SumFunctionOnSet(f, s) = f[p] + SumFunctionOnSet(f, s \ {p})
    BY <1>0, SumPick
  <2>3. CASE x = p
    BY <2>2, <2>3
  <2>4. CASE x # p
    <3>1. SumFunctionOnSet(f, s \ {p}) = f[x] + SumFunctionOnSet(f, (s \ {p}) \ {x})
      <4>1. s \ {p} \in SUBSET S /\ x \in s \ {p}
        BY <2>4
      <4> QED BY <2>1, <4>1
    <3>2. Cardinality(s \ {x}) = n
      BY <1>0, FS_RemoveElement
    <3>3. SumFunctionOnSet(f, s \ {x}) = f[p] + SumFunctionOnSet(f, (s \ {x}) \ {p})
      <4>1. s \ {x} \in SUBSET S /\ p \in s \ {x}
        BY <2>1, <2>4
      <4> QED BY <3>2, <4>1
    <3>4. (s \ {x}) \ {p} = (s \ {p}) \ {x}
      OBVIOUS
    <3>5. SumFunctionOnSet(f, (s \ {p}) \ {x}) \in Int /\ f[p] \in Int /\ f[x] \in Int
      <4>1. IsFiniteSet((s \ {p}) \ {x})
        BY <1>0, FS_RemoveElement
      <4>2. (s \ {p}) \ {x} \subseteq S /\ p \in S /\ x \in S
        BY <2>1
      <4> HIDE DEF p
      <4> QED BY <4>1, <4>2, SumType
    <3>6. SumFunctionOnSet(f, s \ {x}) = f[p] + SumFunctionOnSet(f, (s \ {p}) \ {x})
      BY <3>3, <3>4
    <3> HIDE DEF p
    <3> QED BY <2>2, <3>1, <3>5, <3>6
  <2> QED BY <2>3, <2>4
<1>3. Cardinality(S) \in Good
  <2> HIDE DEF Good
  <2> QED BY <1>0, <1>1, <1>2, NatSetInduction
<1> QED
  BY <1>3

\* An element more.
LEMMA SumAdd ==
  ASSUME NEW S, IsFiniteSet(S), NEW y, y \notin S, NEW f, \A x \in S \union {y} : f[x] \in Int
  PROVE  SumFunctionOnSet(f, S \union {y}) = SumFunctionOnSet(f, S) + f[y]
<1>0. y \in S \union {y}
  OBVIOUS
<1>1. IsFiniteSet(S \union {y})
  BY FS_AddElement
<1>2. SumFunctionOnSet(f, S \union {y}) = f[y] + SumFunctionOnSet(f, (S \union {y}) \ {y})
  BY <1>1, <1>0, SumTakeOut
<1>3. (S \union {y}) \ {y} = S
  OBVIOUS
<1>4. SumFunctionOnSet(f, S) \in Int
  BY SumType
<1>5. f[y] \in Int
  OBVIOUS
<1>6. SumFunctionOnSet(f, S \union {y}) = f[y] + SumFunctionOnSet(f, S)
  BY <1>2, <1>3
<1> QED
  BY <1>4, <1>5, <1>6

\* The sum over a single element.
LEMMA SumOne ==
  ASSUME NEW x, NEW f, f[x] \in Int
  PROVE  SumFunctionOnSet(f, {x}) = f[x]
<1>1. IsFiniteSet({}) /\ x \notin {} /\ \A y \in {} \union {x} : f[y] \in Int
  BY FS_EmptySet
<1>2. SumFunctionOnSet(f, {} \union {x}) = SumFunctionOnSet(f, {}) + f[x]
  BY <1>1, SumAdd
<1>3. {} \union {x} = {x}
  OBVIOUS
<1>4. SumFunctionOnSet(f, {x}) = 0 + f[x]
  BY <1>2, <1>3, SumEmpty
<1> QED
  BY <1>4

\* A larger function has a larger sum, ...
LEMMA SumMonotone ==
  ASSUME NEW S, IsFiniteSet(S), NEW f, NEW g,
         \A x \in S : f[x] \in Int /\ g[x] \in Int /\ f[x] <= g[x]
  PROVE  SumFunctionOnSet(f, S) <= SumFunctionOnSet(g, S)
<1> DEFINE Good == {T \in SUBSET S : SumFunctionOnSet(f, T) <= SumFunctionOnSet(g, T)}
<1>1. {} \in Good
  BY SumEmpty
<1>2. ASSUME NEW T \in SUBSET S, NEW x \in S \ T, T \in Good
      PROVE  T \union {x} \in Good
  <2>1. IsFiniteSet(T) /\ \A y \in T \union {x} : f[y] \in Int /\ g[y] \in Int
    BY FS_Subset
  <2>2. SumFunctionOnSet(f, T \union {x}) = SumFunctionOnSet(f, T) + f[x]
    BY <2>1, SumAdd
  <2>3. SumFunctionOnSet(g, T \union {x}) = SumFunctionOnSet(g, T) + g[x]
    BY <2>1, SumAdd
  <2>4. SumFunctionOnSet(f, T) \in Int /\ SumFunctionOnSet(g, T) \in Int
    BY <2>1, SumType
  <2>5. f[x] \in Int /\ g[x] \in Int /\ f[x] <= g[x]
    OBVIOUS
  <2>6. SumFunctionOnSet(f, T) <= SumFunctionOnSet(g, T)
    BY <1>2
  <2>7. SumFunctionOnSet(f, T \union {x}) <= SumFunctionOnSet(g, T \union {x})
    BY <2>2, <2>3, <2>4, <2>5, <2>6
  <2> QED BY <2>7
<1>3. S \in Good
  <2> HIDE DEF Good
  <2> QED BY <1>1, <1>2, SetInduction
<1> QED
  BY <1>3

\* ... and functions that agree on a set have the same sum.
LEMMA SumEqual ==
  ASSUME NEW S, IsFiniteSet(S), NEW f, NEW g,
         \A x \in S : f[x] \in Int /\ g[x] = f[x]
  PROVE  SumFunctionOnSet(f, S) = SumFunctionOnSet(g, S)
<1>1. SumFunctionOnSet(f, S) <= SumFunctionOnSet(g, S)
  BY SumMonotone
<1>2. SumFunctionOnSet(g, S) <= SumFunctionOnSet(f, S)
  BY SumMonotone
<1>3. SumFunctionOnSet(f, S) \in Int /\ SumFunctionOnSet(g, S) \in Int
  BY SumType
<1> QED
  BY <1>1, <1>2, <1>3

\* A sum of natural numbers is one.
LEMMA SumNat ==
  ASSUME NEW S, IsFiniteSet(S), NEW f, \A x \in S : f[x] \in Nat
  PROVE  SumFunctionOnSet(f, S) \in Nat
<1> DEFINE zero == [x \in S |-> 0]
           Good == {T \in SUBSET S : SumFunctionOnSet(f, T) \in Nat}
<1>1. {} \in Good
  BY SumEmpty
<1>2. ASSUME NEW T \in SUBSET S, NEW x \in S \ T, T \in Good
      PROVE  T \union {x} \in Good
  <2>1. IsFiniteSet(T) /\ \A y \in T \union {x} : f[y] \in Int
    BY FS_Subset
  <2>2. SumFunctionOnSet(f, T \union {x}) = SumFunctionOnSet(f, T) + f[x]
    BY <2>1, SumAdd
  <2>3. SumFunctionOnSet(f, T) \in Nat /\ f[x] \in Nat
    BY <1>2
  <2>4. SumFunctionOnSet(f, T \union {x}) \in Nat
    BY <2>2, <2>3
  <2> QED BY <2>4
<1>3. S \in Good
  <2> HIDE DEF Good
  <2> QED BY <1>1, <1>2, SetInduction
<1> QED
  BY <1>3

\* The sum over two sets that have no element in common.
LEMMA SumUnion ==
  ASSUME NEW S, NEW T, IsFiniteSet(S), IsFiniteSet(T), S \intersect T = {},
         NEW f, \A x \in S \union T : f[x] \in Int
  PROVE  SumFunctionOnSet(f, S \union T) = SumFunctionOnSet(f, S) + SumFunctionOnSet(f, T)
<1> DEFINE Good == {U \in SUBSET T :
             SumFunctionOnSet(f, S \union U) = SumFunctionOnSet(f, S) + SumFunctionOnSet(f, U)}
<1>0. SumFunctionOnSet(f, S) \in Int
  BY SumType
<1>1. {} \in Good
  <2>1. S \union {} = S
    OBVIOUS
  <2>2. SumFunctionOnSet(f, S \union {}) = SumFunctionOnSet(f, S) + SumFunctionOnSet(f, {})
    BY <2>1, <1>0, SumEmpty
  <2> QED BY <2>2
<1>2. ASSUME NEW U \in SUBSET T, NEW x \in T \ U, U \in Good
      PROVE  U \union {x} \in Good
  <2>1. /\ IsFiniteSet(U) /\ IsFiniteSet(S \union U) /\ x \notin S \union U
        /\ \A y \in (S \union U) \union {x} : f[y] \in Int
    BY FS_Subset, FS_Union
  <2>2. SumFunctionOnSet(f, U \union {x}) = SumFunctionOnSet(f, U) + f[x]
    BY <2>1, SumAdd
  <2>3. SumFunctionOnSet(f, (S \union U) \union {x}) = SumFunctionOnSet(f, S \union U) + f[x]
    BY <2>1, SumAdd
  <2>4. (S \union U) \union {x} = S \union (U \union {x})
    OBVIOUS
  <2>5. SumFunctionOnSet(f, U) \in Int /\ f[x] \in Int
    BY <2>1, SumType
  <2>6. SumFunctionOnSet(f, S \union (U \union {x})) = SumFunctionOnSet(f, S \union U) + f[x]
    BY <2>3, <2>4
  <2>7. SumFunctionOnSet(f, S \union U) = SumFunctionOnSet(f, S) + SumFunctionOnSet(f, U)
    BY <1>2
  <2>8. SumFunctionOnSet(f, S \union (U \union {x}))
          = SumFunctionOnSet(f, S) + SumFunctionOnSet(f, U \union {x})
    BY <1>0, <2>2, <2>5, <2>6, <2>7
  <2> QED BY <2>8
<1>3. T \in Good
  <2> HIDE DEF Good
  <2> QED BY <1>1, <1>2, SetInduction
<1> QED
  BY <1>3

\* The sum over a set, part by part.
LEMMA SumSplit ==
  ASSUME NEW S, IsFiniteSet(S), NEW T \in SUBSET S, NEW f, \A x \in S : f[x] \in Int
  PROVE  /\ SumFunctionOnSet(f, S) = SumFunctionOnSet(f, T) + SumFunctionOnSet(f, S \ T)
         /\ SumFunctionOnSet(f, S) \in Int /\ SumFunctionOnSet(f, T) \in Int
         /\ SumFunctionOnSet(f, S \ T) \in Int
<1>1. IsFiniteSet(T) /\ IsFiniteSet(S \ T)
  BY FS_Subset
<1>2. T \union (S \ T) = S /\ T \intersect (S \ T) = {}
  OBVIOUS
<1>3. SumFunctionOnSet(f, T \union (S \ T)) = SumFunctionOnSet(f, T) + SumFunctionOnSet(f, S \ T)
  BY <1>1, SumUnion
<1> QED
  BY <1>1, <1>2, <1>3, SumType

\* A part of a set has no larger sum.
LEMMA SumSubset ==
  ASSUME NEW S, IsFiniteSet(S), NEW T \in SUBSET S, NEW f, \A x \in S : f[x] \in Nat
  PROVE  SumFunctionOnSet(f, T) <= SumFunctionOnSet(f, S)
<1>1. IsFiniteSet(T) /\ IsFiniteSet(S \ T)
  BY FS_Subset
<1>2. SumFunctionOnSet(f, T) \in Nat /\ SumFunctionOnSet(f, S \ T) \in Nat
  BY <1>1, SumNat
<1>3. SumFunctionOnSet(f, S) = SumFunctionOnSet(f, T) + SumFunctionOnSet(f, S \ T)
  BY SumSplit
<1> QED
  BY <1>2, <1>3

\* Nor is an element larger than the sum.
LEMMA SumMember ==
  ASSUME NEW S, IsFiniteSet(S), NEW f, \A x \in S : f[x] \in Nat, NEW y \in S
  PROVE  f[y] <= SumFunctionOnSet(f, S)
<1>1. SumFunctionOnSet(f, S) = f[y] + SumFunctionOnSet(f, S \ {y})
  BY SumTakeOut
<1>2. SumFunctionOnSet(f, S \ {y}) \in Nat /\ f[y] \in Nat
  BY FS_Subset, SumNat
<1> QED
  BY <1>1, <1>2

\* The sum over a part of a set, and over what is left out.
LEMMA SumShrinks ==
  ASSUME NEW S, IsFiniteSet(S), NEW K \in SUBSET S, NEW T \in SUBSET (S \ K), NEW f, NEW g,
         \A x \in S : f[x] \in Nat,
         \A x \in T : g[x] = f[x]
  PROVE  /\ SumFunctionOnSet(g, T) \in Nat /\ SumFunctionOnSet(f, K) \in Nat
         /\ SumFunctionOnSet(g, T) + SumFunctionOnSet(f, K) <= SumFunctionOnSet(f, S)
<1>1. IsFiniteSet(K) /\ IsFiniteSet(T) /\ IsFiniteSet(S \ K)
  BY FS_Subset
<1>2. SumFunctionOnSet(f, S) = SumFunctionOnSet(f, K) + SumFunctionOnSet(f, S \ K)
  BY SumSplit
<1>3. SumFunctionOnSet(f, T) <= SumFunctionOnSet(f, S \ K)
  BY <1>1, SumSubset
<1>4. SumFunctionOnSet(f, T) = SumFunctionOnSet(g, T)
  BY <1>1, SumEqual
<1>5. /\ SumFunctionOnSet(f, K) \in Nat /\ SumFunctionOnSet(f, S \ K) \in Nat
      /\ SumFunctionOnSet(f, T) \in Nat
  BY <1>1, SumNat
<1> QED
  BY <1>2, <1>3, <1>4, <1>5

\* The sum over a set to which y was added.
LEMMA SumGrows ==
  ASSUME NEW S, IsFiniteSet(S), NEW y, NEW T \in SUBSET (S \union {y}), NEW f, NEW g,
         \A x \in S : f[x] \in Nat, g[y] \in Nat,
         \A x \in T : x # y => g[x] = f[x]
  PROVE  /\ SumFunctionOnSet(g, T) \in Nat
         /\ SumFunctionOnSet(g, T) <= SumFunctionOnSet(f, S) + g[y]
<1> DEFINE U == T \ {y}
<1>1. U \in SUBSET S /\ IsFiniteSet(U) /\ y \notin U /\ T \in {U, U \union {y}}
  BY FS_Subset
<1>2. \A x \in U : f[x] \in Nat /\ g[x] = f[x]
  OBVIOUS
<1> HIDE DEF U
<1>3. SumFunctionOnSet(f, U) <= SumFunctionOnSet(f, S)
  BY <1>1, SumSubset
<1>4. SumFunctionOnSet(f, U) = SumFunctionOnSet(g, U)
  BY <1>1, <1>2, SumEqual
<1>5. SumFunctionOnSet(g, U \union {y}) = SumFunctionOnSet(g, U) + g[y]
  <2>1. \A x \in U \union {y} : g[x] \in Int
    BY <1>2
  <2> QED BY <1>1, <2>1, SumAdd
<1>6. SumFunctionOnSet(f, S) \in Nat /\ SumFunctionOnSet(f, U) \in Nat
  BY <1>1, <1>2, SumNat
<1>7. SumFunctionOnSet(g, T) \in {SumFunctionOnSet(g, U), SumFunctionOnSet(g, U) + g[y]}
  BY <1>1, <1>5
<1> QED
  BY <1>3, <1>4, <1>6, <1>7

\* When each x has a partner h[x] of its own that is no smaller.
LEMMA SumMatched ==
  ASSUME NEW S, IsFiniteSet(S), NEW T, IsFiniteSet(T), NEW h, NEW f, NEW g,
         \A x \in S : h[x] \in T /\ f[x] \in Nat /\ f[x] <= g[h[x]],
         \A x, y \in S : h[x] = h[y] => x = y,
         \A x \in T : g[x] \in Nat
  PROVE  SumFunctionOnSet(f, S) <= SumFunctionOnSet(g, T)
<1> DEFINE Image(U) == {h[x] : x \in U}
           Good == {U \in SUBSET S :
                      SumFunctionOnSet(f, U) <= SumFunctionOnSet(g, Image(U))}
<1>0. \A U \in SUBSET S : IsFiniteSet(U) /\ IsFiniteSet(Image(U)) /\ Image(U) \subseteq T
  BY FS_Subset
<1>1. {} \in Good
  <2>1. Image({}) = {}
    OBVIOUS
  <2>2. SumFunctionOnSet(f, {}) <= SumFunctionOnSet(g, Image({}))
    BY <2>1, SumEmpty
  <2> QED BY <2>2
<1>2. ASSUME NEW U \in SUBSET S, NEW x \in S \ U, U \in Good
      PROVE  U \union {x} \in Good
  <2>1. h[x] \notin Image(U) /\ Image(U \union {x}) = Image(U) \union {h[x]}
    OBVIOUS
  <2>2. SumFunctionOnSet(f, U \union {x}) = SumFunctionOnSet(f, U) + f[x]
    <3>1. \A y \in U \union {x} : f[y] \in Int
      OBVIOUS
    <3> QED BY <1>0, <3>1, SumAdd
  <2>3. SumFunctionOnSet(g, Image(U) \union {h[x]}) = SumFunctionOnSet(g, Image(U)) + g[h[x]]
    <3>1. \A y \in Image(U) \union {h[x]} : g[y] \in Int
      OBVIOUS
    <3> HIDE DEF Image
    <3> QED BY <1>0, <2>1, <3>1, SumAdd
  <2>4. SumFunctionOnSet(f, U) \in Int /\ SumFunctionOnSet(g, Image(U)) \in Int
    <3>1. (\A y \in U : f[y] \in Int) /\ (\A y \in Image(U) : g[y] \in Int)
      OBVIOUS
    <3> HIDE DEF Image
    <3> QED BY <1>0, <3>1, SumType
  <2>5. f[x] \in Int /\ g[h[x]] \in Int /\ f[x] <= g[h[x]]
    OBVIOUS
  <2>6. SumFunctionOnSet(f, U) <= SumFunctionOnSet(g, Image(U))
    BY <1>2
  <2>7. SumFunctionOnSet(g, Image(U \union {x})) = SumFunctionOnSet(g, Image(U)) + g[h[x]]
    BY <2>1, <2>3
  <2>8. SumFunctionOnSet(f, U \union {x}) <= SumFunctionOnSet(g, Image(U \union {x}))
    <3> HIDE DEF Image
    <3> QED BY <2>2, <2>4, <2>5, <2>6, <2>7
  <2> QED BY <2>8
<1>3. S \in Good
  <2> HIDE DEF Good
  <2> QED BY <1>1, <1>2, SetInduction
<1>4. SumFunctionOnSet(g, Image(S)) <= SumFunctionOnSet(g, T)
  <2> HIDE DEF Image
  <2> QED BY <1>0, SumSubset
<1>5. SumFunctionOnSet(f, S) <= SumFunctionOnSet(g, Image(S))
  BY <1>3
<1>6. SumFunctionOnSet(f, S) \in Nat
  BY SumNat
<1>7. SumFunctionOnSet(g, T) \in Nat
  BY SumNat
<1>8. SumFunctionOnSet(g, Image(S)) \in Nat
  <2>1. \A y \in Image(S) : g[y] \in Nat
    OBVIOUS
  <2> HIDE DEF Image
  <2> QED BY <1>0, <2>1, SumNat
<1> QED
  BY <1>4, <1>5, <1>6, <1>7, <1>8

\* A finite set of numbers has a largest and a smallest element.
LEMMA Extrema ==
  ASSUME NEW S \in SUBSET Int, IsFiniteSet(S), S # {}
  PROVE  /\ Max(S) \in S /\ \A x \in S : x <= Max(S)
         /\ Min(S) \in S /\ \A x \in S : Min(S) <= x
<1> DEFINE Good == {T \in SUBSET S : T # {} => /\ \E x \in T : \A y \in T : y <= x
                                               /\ \E x \in T : \A y \in T : x <= y}
<1>1. {} \in Good
  OBVIOUS
<1>2. ASSUME NEW T \in SUBSET S, NEW z \in S \ T, T \in Good
      PROVE  T \union {z} \in Good
  <2>1. CASE T = {}
    BY <2>1
  <2>2. CASE T # {}
    <3>1. PICK a \in T : \A y \in T : y <= a
      BY <1>2, <2>2
    <3>2. PICK b \in T : \A y \in T : b <= y
      BY <1>2, <2>2
    <3>3. \E x \in T \union {z} : \A y \in T \union {z} : y <= x
      <4>1. CASE a <= z
        BY <3>1, <4>1
      <4>2. CASE ~ (a <= z)
        BY <3>1, <4>2
      <4> QED BY <4>1, <4>2
    <3>4. \E x \in T \union {z} : \A y \in T \union {z} : x <= y
      <4>1. CASE z <= b
        BY <3>2, <4>1
      <4>2. CASE ~ (z <= b)
        BY <3>2, <4>2
      <4> QED BY <4>1, <4>2
    <3> QED BY <3>3, <3>4
  <2> QED BY <2>1, <2>2
<1>3. S \in Good
  <2> HIDE DEF Good
  <2> QED BY <1>1, <1>2, SetInduction
<1>4. \E x \in S : \A y \in S : x >= y
  BY <1>3
<1>5. \E x \in S : \A y \in S : x =< y
  BY <1>3
<1>6. Max(S) \in S /\ \A y \in S : Max(S) >= y
  BY <1>4 DEF Max
<1>7. Min(S) \in S /\ \A y \in S : Min(S) =< y
  BY <1>5 DEF Min
<1> QED
  BY <1>6, <1>7

\* Sets of two elements, and the smaller of two numbers.
LEMMA Two ==
  ASSUME NEW a, NEW b
  PROVE  IsFiniteSet({a, b})
<1>1. {a, b} = {a} \union {b}
  OBVIOUS
<1>2. IsFiniteSet({a} \union {b})
  BY FS_Singleton, FS_AddElement
<1> QED
  BY <1>1, <1>2

LEMMA MinOfTwo ==
  ASSUME NEW a \in Int, NEW b \in Int
  PROVE  Min({a, b}) = IF a <= b THEN a ELSE b
<1> DEFINE two == {a, b}
<1>1. two \in SUBSET Int /\ IsFiniteSet(two) /\ two # {}
  BY Two
<1>2. Min(two) \in two /\ \A x \in two : Min(two) <= x
  <2> HIDE DEF two
  <2> QED BY <1>1, Extrema
<1> QED
  BY <1>2
=============================================================================
