-------------------------------- MODULE Sums --------------------------------
(***************************************************************************)
(* Facts about least elements and about SumFunctionOnSet(f, S), the sum of *)
(* f[x] for x in a finite set S, which the models use for totals.          *)
(*                                                                         *)
(* The sum is a fold: it is defined by a function on the subsets of S that *)
(* takes out one element after the other.  What it computes is shown by    *)
(* looking at a smallest set for which a claim would fail.                 *)
(***************************************************************************)
EXTENDS Integers, Functions, FiniteSetTheorems, WellFoundedInduction, TLAPS

USE SMTT(20), ZenonT(20)

NatLess == {ss \in Nat \X Nat : ss[1] < ss[2]}

\* Every set of naturals that is not empty has a least element.
LEMMA NatMin ==
    ASSUME NEW S, S \subseteq Nat, S # {}
    PROVE  \E m \in S : \A n \in S : m <= n
<1>1. IsWellFoundedOn(NatLess, Nat)
  BY NatLessThanWellFounded, ZenonT(20) DEF OpToRel, NatLess
<1>2. PICK m \in S : \A n \in S : ~(<<n, m>> \in NatLess)
  BY <1>1, WFMin, ZenonT(20)
<1>3. ASSUME NEW n \in S PROVE m <= n
  <2>1. n \in Nat /\ m \in Nat
    OBVIOUS
  <2>2. SUFFICES ASSUME n < m PROVE FALSE
    BY <2>1
  <2> DEFINE ss == <<n, m>>
  <2>3. ss \in Nat \X Nat /\ ss[1] = n /\ ss[2] = m
    BY <2>1
  <2>4. ss \in NatLess
    BY <2>2, <2>3 DEF NatLess
  <2> QED
    BY <1>2, <2>4
<1> QED
  BY <1>3

\* A family of subsets of a finite set that is not empty has a smallest member.
LEMMA Smallest ==
    ASSUME NEW S, IsFiniteSet(S), NEW B, B \subseteq SUBSET S, B # {}
    PROVE  \E m \in B : \A y \in B : y \subseteq m => y = m
<1> DEFINE N == {Cardinality(y) : y \in B}
<1>1. \A y \in B : IsFiniteSet(y) /\ Cardinality(y) \in Nat
  BY FS_Subset, FS_CardinalityType
<1>2. N \subseteq Nat /\ N # {}
  BY <1>1
<1>3. PICK n \in N : \A k \in N : n <= k
  BY <1>2, NatMin, ZenonT(20)
<1>4. PICK m \in B : n = Cardinality(m)
  BY <1>3
<1>5. ASSUME NEW y \in B, y \subseteq m, y # m PROVE FALSE
  <2>1. IsFiniteSet(m) /\ y \subseteq m /\ y # m
    BY <1>1, <1>5
  <2>2. Cardinality(y) <= Cardinality(m) /\ Cardinality(m) # Cardinality(y)
    BY <2>1, FS_Subset
  <2>3. Cardinality(m) <= Cardinality(y) /\ Cardinality(m) \in Nat /\ Cardinality(y) \in Nat
    BY <1>1, <1>3, <1>4, <1>5
  <2> QED
    BY ONLY <2>2, <2>3, SMTT(20), ZenonT(20)
<1> QED
  BY <1>5

-----------------------------------------------------------------------------
(* The function that the fold is defined by exists and is the only one.     *)

Pick(s) == CHOOSE x \in s : TRUE

\* One step of the sum over x, given the sums g over the smaller sets.
Step(g, f, x) == IF x = {} THEN 0 ELSE f[Pick(x)] + g[x \ {Pick(x)}]

IsIter(g, f, s) == g = [x \in SUBSET s |-> Step(g, f, x)]

Iter(f, s) == CHOOSE g : IsIter(g, f, s)

\* What the library's definition says.
LEMMA SumIsIter ==
    ASSUME NEW f, NEW S
    PROVE  SumFunctionOnSet(f, S) = Iter(f, S)[S]
  BY DEF SumFunctionOnSet, FoldFunctionOnSet, MapThenFoldSet, Iter, IsIter, Step, Pick

\* Taking out the picked element leaves a smaller set.
LEMMA PickSmaller ==
    ASSUME NEW x, x # {}
    PROVE  Pick(x) \in x /\ x \ {Pick(x)} \subseteq x /\ x \ {Pick(x)} # x
<1>1. Pick(x) \in x
  BY DEF Pick
<1> QED
  BY <1>1

\* Two such functions agree where both are defined.
LEMMA IterUnique ==
    ASSUME NEW f, NEW S, IsFiniteSet(S), NEW T, T \subseteq S,
           NEW g, IsIter(g, f, S), NEW h, IsIter(h, f, T)
    PROVE  \A x \in SUBSET T : g[x] = h[x]
<1> DEFINE B == {x \in SUBSET T : g[x] # h[x]}
<1> SUFFICES ASSUME B # {} PROVE FALSE
  OBVIOUS
<1>1. IsFiniteSet(T)
  BY FS_Subset
<1>2. PICK m \in B : \A y \in B : y \subseteq m => y = m
  <2>1. B \subseteq SUBSET T /\ B # {}
    OBVIOUS
  <2> HIDE DEF B
  <2> QED
    BY <1>1, <2>1, Smallest
<1>3. g[m] = Step(g, f, m) /\ h[m] = Step(h, f, m)
  BY DEF IsIter
<1>4. CASE m = {}
  BY <1>3, <1>4 DEF Step
<1>5. CASE m # {}
  <2>1. m \ {Pick(m)} \in SUBSET T /\ m \ {Pick(m)} \notin B
    BY <1>2, <1>5, PickSmaller
  <2>2. g[m \ {Pick(m)}] = h[m \ {Pick(m)}]
    BY <2>1
  <2> QED
    BY <1>3, <1>5, <2>2 DEF Step
<1> QED
  BY <1>4, <1>5

\* There is one for every finite set.
LEMMA IterExists ==
    ASSUME NEW f, NEW S, IsFiniteSet(S)
    PROVE  IsIter(Iter(f, S), f, S)
<1> DEFINE B == {s \in SUBSET S : ~IsIter(Iter(f, s), f, s)}
<1> SUFFICES ASSUME B # {} PROVE FALSE
  OBVIOUS
<1>1. PICK m \in B : \A y \in B : y \subseteq m => y = m
  <2>1. B \subseteq SUBSET S /\ B # {}
    OBVIOUS
  <2> HIDE DEF B
  <2> QED
    BY <2>1, Smallest
<1>2. \A y \in SUBSET m : y # m => IsIter(Iter(f, y), f, y)
  BY <1>1
<1>3. \A y \in SUBSET m : IsFiniteSet(y)
  BY FS_Subset
<1> DEFINE G == [x \in SUBSET m |-> IF x = m THEN {} ELSE Iter(f, x)[x]]
           g == [x \in SUBSET m |-> Step(G, f, x)]
<1>4. ASSUME NEW y \in SUBSET m, y # m PROVE g[y] = G[y]
  <2> DEFINE h == Iter(f, y)
  <2>1. IsIter(h, f, y)
    BY <1>2, <1>4
  <2>2. G[y] = h[y] /\ h[y] = Step(h, f, y)
    BY <1>4, <2>1 DEF IsIter
  <2>3. CASE y = {}
    BY <2>2, <2>3 DEF Step
  <2>4. CASE y # {}
    <3> DEFINE z == y \ {Pick(y)}
    <3>1. z \subseteq y /\ z \in SUBSET m /\ z # m
      BY <1>4, <2>4, PickSmaller
    <3>2. IsIter(Iter(f, z), f, z)
      BY <1>2, <3>1
    <3>3. h[z] = Iter(f, z)[z]
      BY <1>3, <2>1, <3>1, <3>2, IterUnique
    <3>4. G[z] = h[z]
      BY <3>1, <3>3
    <3> QED
      BY <2>2, <2>4, <3>4 DEF Step
  <2> QED
    BY <2>3, <2>4
<1>5. ASSUME NEW x \in SUBSET m PROVE g[x] = Step(g, f, x)
  <2>1. CASE x = {}
    BY <2>1 DEF Step
  <2>2. CASE x # {}
    <3>1. x \ {Pick(x)} \in SUBSET m /\ x \ {Pick(x)} # m
      BY <2>2, PickSmaller
    <3>2. g[x \ {Pick(x)}] = G[x \ {Pick(x)}]
      BY <1>4, <3>1, ZenonT(20)
    <3> QED
      BY <2>2, <3>2, ZenonT(20) DEF Step
  <2> QED
    BY <2>1, <2>2
<1>6. IsIter(g, f, m)
  BY <1>5, ZenonT(20) DEF IsIter
<1>7. IsIter(Iter(f, m), f, m)
  BY <1>6 DEF Iter
<1> QED
  BY <1>1, <1>7

-----------------------------------------------------------------------------
(* What the sum computes.                                                   *)

LEMMA SumEmpty ==
    ASSUME NEW f
    PROVE  SumFunctionOnSet(f, {}) = 0
<1>1. IsIter(Iter(f, {}), f, {})
  BY IterExists, FS_EmptySet
<1> QED
  BY <1>1, SumIsIter, ZenonT(20) DEF IsIter, Step

\* The sum takes out the picked element, ...
LEMMA SumPick ==
    ASSUME NEW f, NEW S, IsFiniteSet(S), S # {}
    PROVE  SumFunctionOnSet(f, S) = f[Pick(S)] + SumFunctionOnSet(f, S \ {Pick(S)})
<1> DEFINE T == S \ {Pick(S)}
<1>1. T \subseteq S /\ IsFiniteSet(T)
  BY FS_Subset
<1>2. IsIter(Iter(f, S), f, S) /\ IsIter(Iter(f, T), f, T)
  BY <1>1, IterExists
<1>3. Iter(f, S)[T] = Iter(f, T)[T]
  <2> DEFINE g == Iter(f, S)
             h == Iter(f, T)
  <2>1. IsIter(g, f, S) /\ IsIter(h, f, T) /\ T \subseteq S /\ T \in SUBSET T
    BY <1>1, <1>2
  <2> HIDE DEF g, h, T
  <2>2. g[T] = h[T]
    BY <2>1, IterUnique
  <2> QED
    BY <2>2 DEF g, h
<1>4. Iter(f, S)[S] = Step(Iter(f, S), f, S)
  BY <1>2 DEF IsIter
<1> QED
  BY <1>3, <1>4, SumIsIter DEF Step

\* ... is a number, ...
LEMMA SumType ==
    ASSUME NEW f, NEW S, IsFiniteSet(S), \A x \in S : f[x] \in Int
    PROVE  SumFunctionOnSet(f, S) \in Int
<1> DEFINE B == {s \in SUBSET S : SumFunctionOnSet(f, s) \notin Int}
<1> SUFFICES ASSUME B # {} PROVE FALSE
  OBVIOUS
<1>1. PICK m \in B : \A y \in B : y \subseteq m => y = m
  <2>1. B \subseteq SUBSET S /\ B # {}
    OBVIOUS
  <2> HIDE DEF B
  <2> QED
    BY <2>1, Smallest
<1>2. m # {}
  BY SumEmpty
<1>3. Pick(m) \in S /\ m \ {Pick(m)} \in SUBSET S /\ m \ {Pick(m)} \notin B
  BY <1>1, <1>2, PickSmaller
<1>4. SumFunctionOnSet(f, m \ {Pick(m)}) \in Int /\ f[Pick(m)] \in Int
  BY <1>3
<1>5. SumFunctionOnSet(f, m) = f[Pick(m)] + SumFunctionOnSet(f, m \ {Pick(m)})
  BY <1>2, SumPick, FS_Subset
<1> QED
  BY <1>4, <1>5

\* ... depends only on what f is on the set, ...
LEMMA SumSame ==
    ASSUME NEW f, NEW h, NEW S, IsFiniteSet(S), \A x \in S : f[x] = h[x]
    PROVE  SumFunctionOnSet(f, S) = SumFunctionOnSet(h, S)
<1> DEFINE B == {s \in SUBSET S : SumFunctionOnSet(f, s) # SumFunctionOnSet(h, s)}
<1> SUFFICES ASSUME B # {} PROVE FALSE
  OBVIOUS
<1>1. PICK m \in B : \A y \in B : y \subseteq m => y = m
  <2>1. B \subseteq SUBSET S /\ B # {}
    OBVIOUS
  <2> HIDE DEF B
  <2> QED
    BY <2>1, Smallest
<1>2. m # {}
  BY SumEmpty
<1>3. Pick(m) \in S /\ m \ {Pick(m)} \in SUBSET S /\ m \ {Pick(m)} \notin B
  BY <1>1, <1>2, PickSmaller
<1>4. SumFunctionOnSet(f, m) = f[Pick(m)] + SumFunctionOnSet(f, m \ {Pick(m)})
  BY <1>2, SumPick, FS_Subset
<1>5. SumFunctionOnSet(h, m) = h[Pick(m)] + SumFunctionOnSet(h, m \ {Pick(m)})
  BY <1>2, SumPick, FS_Subset
<1> QED
  BY <1>3, <1>4, <1>5

\* ... and may take out any element instead.
LEMMA SumRemove ==
    ASSUME NEW f, NEW S, IsFiniteSet(S), \A x \in S : f[x] \in Int, NEW a \in S
    PROVE  SumFunctionOnSet(f, S) = f[a] + SumFunctionOnSet(f, S \ {a})
<1> DEFINE Removes(s, x) == SumFunctionOnSet(f, s) = f[x] + SumFunctionOnSet(f, s \ {x})
           B == {s \in SUBSET S : \E x \in s : ~Removes(s, x)}
<1> SUFFICES ASSUME B # {} PROVE FALSE
  BY ZenonT(20)
<1>1. PICK m \in B : \A y \in B : y \subseteq m => y = m
  <2>1. B \subseteq SUBSET S /\ B # {}
    OBVIOUS
  <2> HIDE DEF B
  <2> QED
    BY <2>1, Smallest
<1>2. PICK x \in m : ~Removes(m, x)
  BY <1>1
<1> DEFINE p == Pick(m)
<1>3. p \in m /\ Removes(m, p)
  BY <1>2, PickSmaller, SumPick, FS_Subset
<1>4. p # x
  BY <1>2, <1>3
<1>5. m \ {p} \in SUBSET S /\ m \ {p} \notin B /\ m \ {x} \in SUBSET S /\ m \ {x} \notin B
  BY <1>1, <1>2, <1>3
<1>6. x \in m \ {p} /\ p \in m \ {x} /\ (m \ {p}) \ {x} = (m \ {x}) \ {p}
  BY <1>3, <1>4
<1>7. Removes(m \ {p}, x) /\ Removes(m \ {x}, p)
  BY <1>5, <1>6, ZenonT(20)
<1>8. SumFunctionOnSet(f, (m \ {p}) \ {x}) \in Int /\ f[x] \in Int /\ f[p] \in Int
  BY <1>3, SumType, FS_Subset
<1>9. SumFunctionOnSet(f, m) = f[x] + SumFunctionOnSet(f, m \ {x})
  <2> DEFINE all == SumFunctionOnSet(f, m)
             rest == SumFunctionOnSet(f, (m \ {p}) \ {x})
             withoutp == SumFunctionOnSet(f, m \ {p})
             withoutx == SumFunctionOnSet(f, m \ {x})
  <2>1. all = f[p] + withoutp /\ withoutp = f[x] + rest /\ withoutx = f[p] + rest
    BY <1>3, <1>6, <1>7, ZenonT(20)
  <2>2. rest \in Int /\ f[x] \in Int /\ f[p] \in Int
    BY <1>8
  <2> HIDE DEF all, rest, withoutp, withoutx
  <2>3. all = f[x] + withoutx
    BY <2>1, <2>2
  <2> QED
    BY <2>3 DEF all, withoutx
<1> QED
  BY <1>2, <1>9

\* One more element.
LEMMA SumAdd ==
    ASSUME NEW f, NEW S, IsFiniteSet(S), \A x \in S : f[x] \in Int, NEW a, a \notin S, f[a] \in Int
    PROVE  SumFunctionOnSet(f, S \cup {a}) = SumFunctionOnSet(f, S) + f[a]
<1> DEFINE T == S \cup {a}
<1>1. IsFiniteSet(T) /\ a \in T /\ T \ {a} = S /\ \A x \in T : f[x] \in Int
  BY FS_AddElement
<1>2. SumFunctionOnSet(f, T) = f[a] + SumFunctionOnSet(f, S)
  BY <1>1, SumRemove
<1>3. SumFunctionOnSet(f, S) \in Int
  BY SumType
<1> QED
  BY <1>2, <1>3

\* A function that differs by d at one element.
LEMMA SumChange ==
    ASSUME NEW f, NEW h, NEW S, IsFiniteSet(S), \A x \in S : f[x] \in Int,
           NEW a \in S, NEW d \in Int, h[a] = f[a] + d, \A x \in S \ {a} : h[x] = f[x]
    PROVE  SumFunctionOnSet(h, S) = SumFunctionOnSet(f, S) + d
<1> DEFINE T == S \ {a}
<1>1. IsFiniteSet(T) /\ \A x \in S : h[x] \in Int
  BY FS_Subset
<1>2. SumFunctionOnSet(f, S) = f[a] + SumFunctionOnSet(f, T)
  BY SumRemove
<1>3. SumFunctionOnSet(h, S) = h[a] + SumFunctionOnSet(h, T)
  BY <1>1, SumRemove
<1>4. SumFunctionOnSet(h, T) = SumFunctionOnSet(f, T)
  BY <1>1, SumSame
<1>5. SumFunctionOnSet(f, T) \in Int
  BY <1>1, SumType
<1> QED
  BY <1>2, <1>3, <1>4, <1>5

\* The sum of nothing but zeros.
LEMMA SumOfZeros ==
    ASSUME NEW f, NEW S, IsFiniteSet(S), \A x \in S : f[x] = 0
    PROVE  SumFunctionOnSet(f, S) = 0
<1> DEFINE B == {s \in SUBSET S : SumFunctionOnSet(f, s) # 0}
<1> SUFFICES ASSUME B # {} PROVE FALSE
  OBVIOUS
<1>1. PICK m \in B : \A y \in B : y \subseteq m => y = m
  <2>1. B \subseteq SUBSET S /\ B # {}
    OBVIOUS
  <2> HIDE DEF B
  <2> QED
    BY <2>1, Smallest
<1>2. m # {}
  BY SumEmpty
<1>3. Pick(m) \in S /\ m \ {Pick(m)} \in SUBSET S /\ m \ {Pick(m)} \notin B
  BY <1>1, <1>2, PickSmaller
<1>4. SumFunctionOnSet(f, m \ {Pick(m)}) = 0 /\ f[Pick(m)] = 0
  BY <1>3
<1>5. SumFunctionOnSet(f, m) = f[Pick(m)] + SumFunctionOnSet(f, m \ {Pick(m)})
  BY <1>2, SumPick, FS_Subset
<1> QED
  BY <1>4, <1>5

\* The sum over a sequence that is one longer.
LEMMA SumLonger ==
    ASSUME NEW n \in Nat, NEW f, NEW h, DOMAIN f = 1..n, DOMAIN h = 1..(n + 1),
           \A k \in 1..n : f[k] \in Int /\ h[k] = f[k], h[n + 1] \in Int
    PROVE  SumFunction(h) = SumFunction(f) + h[n + 1]
<1>1. IsFiniteSet(1..n)
  BY FS_Interval
<1>2. SumFunctionOnSet(h, 1..n) = SumFunctionOnSet(f, 1..n)
  BY <1>1, SumSame
<1>3. 1..(n + 1) = (1..n) \cup {n + 1} /\ n + 1 \notin 1..n
  OBVIOUS
<1>4. \A k \in 1..n : h[k] \in Int
  OBVIOUS
<1>5. SumFunctionOnSet(h, (1..n) \cup {n + 1}) = SumFunctionOnSet(h, 1..n) + h[n + 1]
  BY <1>1, <1>3, <1>4, SumAdd, ZenonT(20)
<1> QED
  BY <1>2, <1>3, <1>5, ZenonT(20) DEF SumFunction
=============================================================================
