----------------------------- MODULE SumTheorems -----------------------------
(***************************************************************************)
(* Sums over finite sets.  MapThenSumSet takes an element from the set and *)
(* adds the sum of the rest.  That the sum exists, is a number and does    *)
(* not depend on the order is induction over the subsets, done here by     *)
(* taking a least subset for which it would fail.                          *)
(***************************************************************************)
EXTENDS Integers, FiniteSetsExt, FiniteSetTheorems, TLAPS

Pick(s) == CHOOSE x \in s : TRUE

\* g gives each part of S the sum of what f gives its elements.
Adds(g, f, S) ==
  g = [s \in SUBSET S |-> IF s = {} THEN 0 ELSE f[Pick(s)] + g[s \ {Pick(s)}]]

SumOf(f, S) == (CHOOSE g : Adds(g, f, S))[S]

\* Of subsets of a finite set one has none of the others inside it.
LEMMA LeastSubset ==
  ASSUME NEW S, IsFiniteSet(S), NEW B \in SUBSET SUBSET S, B # {}
  PROVE  \E t \in B : \A u \in B : u \subseteq t => u = t
<1>1. FiniteSubsetsOf(S) = SUBSET S
  BY FS_FiniteSubsetsOfFinite
<1>2. IsWellFoundedOn(StrictSubsetOrdering(S), SUBSET S)
  BY <1>1, FS_StrictSubsetOrderingWellFounded
<1>3. \E t \in B : \A u \in B : ~ (<<u, t>> \in StrictSubsetOrdering(S))
  BY <1>2, WFMin
<1>. QED
  BY <1>3 DEF StrictSubsetOrdering

\* A sum over a set is an element and the sum over the rest.
LEMMA AddsStep ==
  ASSUME NEW S, NEW f, NEW g, Adds(g, f, S)
  PROVE  /\ g[{}] = 0
         /\ \A s \in SUBSET S : s # {} =>
              /\ Pick(s) \in s
              /\ g[s] = f[Pick(s)] + g[s \ {Pick(s)}]
<1>1. {} \in SUBSET S
  OBVIOUS
<1>2. \A s \in SUBSET S : g[s] = IF s = {} THEN 0 ELSE f[Pick(s)] + g[s \ {Pick(s)}]
  BY DEF Adds
<1>3. \A s : s # {} => Pick(s) \in s
  BY DEF Pick
<1>. QED
  BY <1>1, <1>2, <1>3

\* Integers add up to an integer.
LEMMA AddsType ==
  ASSUME NEW S, IsFiniteSet(S), NEW f, \A x \in S : f[x] \in Int, NEW g, Adds(g, f, S)
  PROVE  \A s \in SUBSET S : g[s] \in Int
<1>. DEFINE B == {s \in SUBSET S : g[s] \notin Int}
<1>. SUFFICES ASSUME B # {} PROVE FALSE
  OBVIOUS
<1>0. B \in SUBSET SUBSET S
  OBVIOUS
<1>1. PICK t \in B : \A u \in B : u \subseteq t => u = t
  <2>. HIDE DEF B
  <2>. QED
    BY <1>0, LeastSubset
<1>2. /\ g[{}] = 0
      /\ \A s \in SUBSET S : s # {} => Pick(s) \in s /\ g[s] = f[Pick(s)] + g[s \ {Pick(s)}]
  <2>. HIDE DEF B
  <2>. QED
    BY AddsStep
<1>3. t \in SUBSET S /\ g[t] \notin Int
  OBVIOUS
<1>4. t # {}
  <2>1. g[{}] \in Int
    BY <1>2
  <2>. QED
    BY <1>3, <2>1
<1>5. Pick(t) \in t /\ g[t] = f[Pick(t)] + g[t \ {Pick(t)}]
  BY <1>2, <1>3, <1>4
<1>6. t \ {Pick(t)} \in SUBSET S /\ t \ {Pick(t)} \subseteq t /\ t \ {Pick(t)} # t
  BY <1>3, <1>5
<1>7. g[t \ {Pick(t)}] \in Int
  BY <1>1, <1>6
<1>. QED
  BY <1>3, <1>5, <1>7

\* What is added first makes no difference.
LEMMA AddsAny ==
  ASSUME NEW S, IsFiniteSet(S), NEW f, \A x \in S : f[x] \in Int, NEW g, Adds(g, f, S)
  PROVE  \A s \in SUBSET S : \A x \in s : g[s] = f[x] + g[s \ {x}]
<1>. DEFINE B == {s \in SUBSET S : \E x \in s : g[s] # f[x] + g[s \ {x}]}
<1>. SUFFICES ASSUME B # {} PROVE FALSE
  OBVIOUS
<1>0. B \in SUBSET SUBSET S
  OBVIOUS
<1>1. PICK t \in B : \A u \in B : u \subseteq t => u = t
  <2>. HIDE DEF B
  <2>. QED
    BY <1>0, LeastSubset
<1>2. PICK x \in t : g[t] # f[x] + g[t \ {x}]
  OBVIOUS
<1>. DEFINE y == Pick(t)
            w == t \ {x, y}
<1>3. t \in SUBSET S /\ y \in t /\ g[t] = f[y] + g[t \ {y}]
  BY AddsStep
<1>4. x # y
  BY <1>2, <1>3
<1>5. t \ {x} \in SUBSET S /\ t \ {x} \notin B /\ t \ {y} \in SUBSET S /\ t \ {y} \notin B
  BY <1>1, <1>3
<1>6. (t \ {x}) \ {y} = w /\ (t \ {y}) \ {x} = w /\ w \in SUBSET S
  BY <1>3
<1>7. g[t \ {x}] = f[y] + g[w]
  <2>1. y \in t \ {x}
    BY <1>3, <1>4
  <2>2. g[t \ {x}] = f[y] + g[(t \ {x}) \ {y}]
    BY <1>5, <2>1
  <2>. QED
    BY <1>6, <2>2
<1>8. g[t \ {y}] = f[x] + g[w]
  <2>1. x \in t \ {y}
    BY <1>4
  <2>2. g[t \ {y}] = f[x] + g[(t \ {y}) \ {x}]
    BY <1>5, <2>1
  <2>. QED
    BY <1>6, <2>2
<1>9. g[w] \in Int /\ f[x] \in Int /\ f[y] \in Int
  BY <1>3, <1>6, AddsType
<1>. QED
  BY <1>2, <1>3, <1>7, <1>8, <1>9

\* Two sums of the same numbers agree.
LEMMA AddsAgree ==
  ASSUME NEW S, IsFiniteSet(S), NEW T, NEW f, NEW k, NEW g, NEW h,
         Adds(g, f, S), Adds(h, k, T), \A x \in S \cap T : f[x] = k[x]
  PROVE  \A s \in SUBSET (S \cap T) : g[s] = h[s]
<1>. DEFINE B == {s \in SUBSET (S \cap T) : g[s] # h[s]}
<1>. SUFFICES ASSUME B # {} PROVE FALSE
  OBVIOUS
<1>0. B \in SUBSET SUBSET S
  OBVIOUS
<1>1. PICK t \in B : \A u \in B : u \subseteq t => u = t
  <2>. HIDE DEF B
  <2>. QED
    BY <1>0, LeastSubset
<1>2. t # {} /\ t \in SUBSET S /\ t \in SUBSET T
  BY AddsStep
<1>. HIDE DEF B
<1>3. Pick(t) \in t /\ g[t] = f[Pick(t)] + g[t \ {Pick(t)}] /\ h[t] = k[Pick(t)] + h[t \ {Pick(t)}]
  BY <1>2, AddsStep
<1>4. t \ {Pick(t)} \in SUBSET (S \cap T) /\ t \ {Pick(t)} \notin B
  BY <1>1, <1>2, <1>3
<1>. QED
  BY <1>1, <1>2, <1>3, <1>4 DEF B

\* There is such a g.
LEMMA AddsExists ==
  ASSUME NEW S, IsFiniteSet(S), NEW f
  PROVE  \E g : Adds(g, f, S)
<1>. DEFINE B == {s \in SUBSET S : ~ \E g : Adds(g, f, s)}
            G(s) == CHOOSE g : Adds(g, f, s)
<1>. SUFFICES ASSUME B # {} PROVE FALSE
  OBVIOUS
<1>0. B \in SUBSET SUBSET S
  OBVIOUS
<1>1. PICK t \in B : \A u \in B : u \subseteq t => u = t
  <2>. HIDE DEF B
  <2>. QED
    BY <1>0, LeastSubset
<1>. DEFINE h == [u \in SUBSET t |->
                    IF u = {} THEN 0 ELSE f[Pick(u)] + G(u \ {Pick(u)})[u \ {Pick(u)}]]
<1>2. ASSUME NEW u \in SUBSET t, u # t PROVE Adds(G(u), f, u)
  <2>1. u \in SUBSET S /\ u \notin B
    BY <1>1, <1>2
  <2>. QED
    BY <2>1
<1>. HIDE DEF G
<1>3. ASSUME NEW u \in SUBSET t, u # {}
      PROVE  G(u \ {Pick(u)})[u \ {Pick(u)}] = h[u \ {Pick(u)}]
  <2>. DEFINE v == u \ {Pick(u)}
  <2>1. Pick(u) \in u
    BY <1>3 DEF Pick
  <2>2. v \in SUBSET t /\ v # t
    BY <2>1
  <2>3. Adds(G(v), f, v)
    BY <1>2, <2>2
  <2>4. CASE v = {}
    BY <2>3, <2>4, AddsStep
  <2>5. CASE v # {}
    <3>. DEFINE w == v \ {Pick(v)}
    <3>1. Pick(v) \in v /\ G(v)[v] = f[Pick(v)] + G(v)[w]
      <4>. HIDE DEF v
      <4>. QED
        BY <2>3, <2>5, AddsStep
    <3>2. w \in SUBSET t /\ w # t /\ w \in SUBSET v
      BY <2>2
    <3>3. Adds(G(w), f, w)
      BY <1>2, <3>2
    <3>4. IsFiniteSet(v) /\ v \cap w = w
      BY <2>2, FS_Subset
    <3>5. G(v)[w] = G(w)[w]
      <4>. HIDE DEF v, w
      <4>. QED
        BY <2>3, <3>3, <3>4, AddsAgree
    <3>6. h[v] = f[Pick(v)] + G(w)[w]
      BY <2>2, <2>5
    <3>. QED
      BY <3>1, <3>5, <3>6
  <2>. QED
    BY <2>4, <2>5
<1>4. Adds(h, f, t)
  BY <1>3 DEF Adds
<1>. QED
  BY <1>4

-----------------------------------------------------------------------------
(* What the proofs use.                                                      *)

\* So SumOf is such a sum.
LEMMA SumAdds ==
  ASSUME NEW S, IsFiniteSet(S), NEW f
  PROVE  \E g : Adds(g, f, S) /\ SumOf(f, S) = g[S]
BY AddsExists DEF SumOf

\* The same facts of SumOf: nothing adds up to zero,
LEMMA SumOfNone == ASSUME NEW f PROVE SumOf(f, {}) = 0
BY SumAdds, AddsStep, FS_EmptySet

\* integers to an integer,
LEMMA SumOfType ==
  ASSUME NEW S, IsFiniteSet(S), NEW f, \A x \in S : f[x] \in Int
  PROVE  SumOf(f, S) \in Int
BY SumAdds, AddsType

\* only what f gives the elements of S matters,
LEMMA SumOfSame ==
  ASSUME NEW S, IsFiniteSet(S), NEW f, NEW k, \A x \in S : f[x] = k[x]
  PROVE  SumOf(f, S) = SumOf(k, S)
<1>1. PICK g : Adds(g, f, S) /\ SumOf(f, S) = g[S]
  BY SumAdds
<1>2. PICK h : Adds(h, k, S) /\ SumOf(k, S) = h[S]
  BY SumAdds
<1>. QED
  BY <1>1, <1>2, AddsAgree

\* and zeros add up to zero.
LEMMA SumOfZeros ==
  ASSUME NEW S, IsFiniteSet(S), NEW f, \A x \in S : f[x] = 0
  PROVE  SumOf(f, S) = 0
<1>1. PICK g : Adds(g, f, S) /\ SumOf(f, S) = g[S]
  BY SumAdds
<1>. DEFINE h == [s \in SUBSET S |-> 0]
<1>2. Adds(h, f, S)
  <2>1. \A s \in SUBSET S : s # {} => Pick(s) \in s
    BY DEF Pick
  <2>2. \A s \in SUBSET S : s # {} => f[Pick(s)] = 0 /\ h[s \ {Pick(s)}] = 0
    BY <2>1
  <2>. QED
    BY <2>2 DEF Adds
<1>3. \A s \in SUBSET (S \cap S) : g[s] = h[s]
  <2>. HIDE DEF h
  <2>. QED
    BY <1>1, <1>2, AddsAgree
<1>. QED
  BY <1>1, <1>3

\* A fold whose equation is that of Adds is the sum.
LEMMA FoldIsSum ==
  ASSUME NEW S, IsFiniteSet(S), NEW f, NEW I, (\E g : Adds(g, f, S)) => Adds(I, f, S)
  PROVE  I[S] = SumOf(f, S)
<1>1. PICK g : Adds(g, f, S) /\ SumOf(f, S) = g[S]
  BY SumAdds
<1>. QED
  BY <1>1, AddsAgree

\* One number more.
LEMMA SumOfOneMore ==
  ASSUME NEW S, IsFiniteSet(S), NEW x, x \notin S, NEW f, f[x] \in Int, \A y \in S : f[y] \in Int
  PROVE  SumOf(f, S \cup {x}) = f[x] + SumOf(f, S)
<1>. DEFINE T == S \cup {x}
<1>1. IsFiniteSet(T) /\ T \ {x} = S /\ T \cap S = S /\ \A y \in T : f[y] \in Int
  BY FS_AddElement
<1>2. PICK g : Adds(g, f, T) /\ SumOf(f, T) = g[T]
  BY <1>1, SumAdds
<1>3. PICK h : Adds(h, f, S) /\ SumOf(f, S) = h[S]
  BY SumAdds
<1>4. g[T] = f[x] + g[S]
  <2>. HIDE DEF T
  <2>1. T \in SUBSET T
    OBVIOUS
  <2>2. x \in T
    BY DEF T
  <2>. QED
    BY <1>1, <1>2, <2>1, <2>2, AddsAny
<1>5. g[S] = h[S]
  <2>. HIDE DEF T
  <2>. QED
    BY <1>1, <1>2, <1>3, AddsAgree
<1>. QED
  BY <1>2, <1>3, <1>4, <1>5

\* Natural numbers add up to a natural number.
LEMMA SumOfNaturals ==
  ASSUME NEW S, IsFiniteSet(S), NEW f, \A x \in S : f[x] \in Nat
  PROVE  SumOf(f, S) \in Nat
<1>. DEFINE B == {s \in SUBSET S : SumOf(f, s) \notin Nat}
<1>. SUFFICES ASSUME B # {} PROVE FALSE
  OBVIOUS
<1>0. B \in SUBSET SUBSET S
  OBVIOUS
<1>1. PICK t \in B : \A u \in B : u \subseteq t => u = t
  <2>. HIDE DEF B
  <2>. QED
    BY <1>0, LeastSubset
<1>2. t \in SUBSET S /\ SumOf(f, t) \notin Nat
  OBVIOUS
<1>3. PICK x \in t : TRUE
  BY <1>2, SumOfNone
<1>. DEFINE u == t \ {x}
<1>4. SumOf(f, u) \in Nat
  BY <1>1
<1>5. u \cup {x} = t /\ x \notin u /\ f[x] \in Nat /\ IsFiniteSet(u) /\ \A y \in u : f[y] \in Int
  BY FS_Subset
<1>6. SumOf(f, t) = f[x] + SumOf(f, u)
  <2>. HIDE DEF u
  <2>. QED
    BY <1>5, SumOfOneMore
<1>. QED
  BY <1>2, <1>4, <1>5, <1>6

\* The sum of two sets apart.
LEMMA SumOfTwo ==
  ASSUME NEW S, IsFiniteSet(S), NEW T, IsFiniteSet(T), S \cap T = {},
         NEW f, \A x \in S \cup T : f[x] \in Int
  PROVE  SumOf(f, S \cup T) = SumOf(f, S) + SumOf(f, T)
<1>. DEFINE B == {t \in SUBSET T : SumOf(f, S \cup t) # SumOf(f, S) + SumOf(f, t)}
<1>. SUFFICES ASSUME B # {} PROVE FALSE
  OBVIOUS
<1>0. B \in SUBSET SUBSET T
  OBVIOUS
<1>1. PICK t \in B : \A u \in B : u \subseteq t => u = t
  <2>. HIDE DEF B
  <2>. QED
    BY <1>0, LeastSubset
<1>2. t \in SUBSET T /\ SumOf(f, S \cup t) # SumOf(f, S) + SumOf(f, t)
  OBVIOUS
<1>3. t # {}
  <2>1. S \cup {} = S
    OBVIOUS
  <2>2. SumOf(f, S) + SumOf(f, {}) = SumOf(f, S)
    BY SumOfNone, SumOfType
  <2>. QED
    BY <1>2, <2>1, <2>2
<1>4. PICK x \in t : TRUE
  BY <1>3
<1>. DEFINE u == t \ {x}
<1>5. SumOf(f, S \cup u) = SumOf(f, S) + SumOf(f, u)
  BY <1>1
<1>6. /\ u \cup {x} = t /\ (S \cup u) \cup {x} = S \cup t /\ x \notin u /\ x \notin S \cup u
      /\ f[x] \in Int /\ (\A y \in u : f[y] \in Int) /\ \A y \in S \cup u : f[y] \in Int
  OBVIOUS
<1>7. IsFiniteSet(u) /\ IsFiniteSet(S \cup u)
  BY FS_Subset, FS_Union
<1>8. SumOf(f, t) = f[x] + SumOf(f, u)
  <2>. HIDE DEF u
  <2>. QED
    BY <1>6, <1>7, SumOfOneMore
<1>9. SumOf(f, S \cup t) = f[x] + SumOf(f, S \cup u)
  <2>. HIDE DEF u
  <2>1. SumOf(f, (S \cup u) \cup {x}) = f[x] + SumOf(f, S \cup u)
    BY <1>6, <1>7, SumOfOneMore
  <2>. QED
    BY <1>6, <2>1
<1>10. SumOf(f, S) \in Int /\ SumOf(f, u) \in Int
  <2>. HIDE DEF u
  <2>. QED
    BY <1>6, <1>7, SumOfType
<1>. QED
  BY <1>2, <1>5, <1>6, <1>8, <1>9, <1>10

\* The sum over sets that are apart is the sum of their sums.
THEOREM SumOverParts ==
  ASSUME NEW Z, IsFiniteSet(Z), NEW C, \A z \in Z : IsFiniteSet(C[z]),
         \A y, z \in Z : y # z => C[y] \cap C[z] = {},
         NEW f, \A z \in Z : \A x \in C[z] : f[x] \in Int
  PROVE  SumOf([z \in Z |-> SumOf(f, C[z])], Z) = SumOf(f, UNION {C[z] : z \in Z})
<1>. DEFINE All(s) == UNION {C[z] : z \in s}
            each == [z \in Z |-> SumOf(f, C[z])]
            B == {s \in SUBSET Z : SumOf(each, s) # SumOf(f, All(s))}
<1>. SUFFICES ASSUME B # {} PROVE FALSE
  OBVIOUS
<1>0. B \in SUBSET SUBSET Z
  OBVIOUS
<1>1. PICK t \in B : \A u \in B : u \subseteq t => u = t
  <2>. HIDE DEF B
  <2>. QED
    BY <1>0, LeastSubset
<1>2. t \in SUBSET Z /\ SumOf(each, t) # SumOf(f, All(t))
  OBVIOUS
<1>3. t # {}
  <2>1. All({}) = {}
    OBVIOUS
  <2>. QED
    BY <1>2, <2>1, SumOfNone
<1>4. PICK x \in t : TRUE
  BY <1>3
<1>. DEFINE u == t \ {x}
<1>5. u \in SUBSET Z /\ x \in Z /\ x \notin u /\ u \cup {x} = t
  BY <1>2
<1>6. SumOf(each, u) = SumOf(f, All(u))
  BY <1>1
<1>7. IsFiniteSet(u) /\ IsFiniteSet(C[x]) /\ IsFiniteSet(All(u))
  <2>1. IsFiniteSet(u)
    BY <1>5, FS_Subset
  <2>2. \A s \in SUBSET Z : IsFiniteSet(s) => IsFiniteSet(All(s))
    <3>. SUFFICES ASSUME NEW s \in SUBSET Z, IsFiniteSet(s) PROVE IsFiniteSet(All(s))
      OBVIOUS
    <3>. DEFINE D == {C[z] : z \in s}
    <3>1. [z \in s |-> C[z]] \in Surjection(s, D)
      BY DEF Surjection
    <3>2. IsFiniteSet(D)
      <4>. HIDE DEF D
      <4>. QED
        BY <3>1, FS_Surjection
    <3>. QED
      BY <3>2, FS_UNION
  <2>. QED
    BY <1>5, <2>1, <2>2
<1>8. \A z \in Z : each[z] = SumOf(f, C[z]) /\ each[z] \in Int
  BY SumOfType
<1>9. SumOf(each, t) = each[x] + SumOf(each, u)
  <2>. HIDE DEF each, u
  <2>1. SumOf(each, u \cup {x}) = each[x] + SumOf(each, u)
    BY <1>5, <1>7, <1>8, SumOfOneMore
  <2>. QED
    BY <1>5, <2>1
<1>10. SumOf(f, All(t)) = SumOf(f, C[x]) + SumOf(f, All(u))
  <2>1. All(t) = C[x] \cup All(u)
    BY <1>5
  <2>2. C[x] \cap All(u) = {}
    BY <1>5
  <2>3. \A y \in C[x] \cup All(u) : f[y] \in Int
    BY <1>5
  <2>. HIDE DEF All, u
  <2>. QED
    BY <1>7, <2>1, <2>2, <2>3, SumOfTwo
<1>. QED
  BY <1>2, <1>5, <1>6, <1>8, <1>9, <1>10
=============================================================================
