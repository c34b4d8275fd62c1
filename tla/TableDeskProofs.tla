--------------------------- MODULE TableDeskProofs ---------------------------
(***************************************************************************)
(* Proofs that the checks of a table keep what was ordered and its plan    *)
(* what was served.                                                        *)
(*                                                                         *)
(* An amount is a sum over the places of the checks, so splitting and      *)
(* merging are shown to keep it by matching the places before and after    *)
(* (SumTheorems); that a table keeps what it has then follows for every    *)
(* copy of it and for every update under way.                              *)
(***************************************************************************)
EXTENDS TableDesk, SumTheorems, SequenceTheorems, TLAPS

-----------------------------------------------------------------------------
(* The checks as sums.                                                       *)

\* What each place of the checks has of an article.
Has(checks, a) == [p \in Places(checks) |-> IF At(checks, p).id = a THEN At(checks, p).quantity ELSE 0]

LEMMA PlaceIs ==
  ASSUME NEW checks \in Checks
  PROVE  /\ \A p \in Places(checks) :
              /\ p = <<p[1], p[2]>> /\ p[1] \in DOMAIN checks /\ p[2] \in DOMAIN checks[p[1]]
              /\ p[1] \in Nat \ {0} /\ p[2] \in Nat \ {0}
              /\ At(checks, p) \in CheckLine
         /\ \A i \in DOMAIN checks : \A j \in DOMAIN checks[i] : <<i, j>> \in Places(checks)
         /\ IsFiniteSet(Places(checks))
  <1>1. Len(checks) \in Nat /\ DOMAIN checks = 1..Len(checks) /\ \A i \in DOMAIN checks : checks[i] \in Seq(CheckLine)
    BY LenProperties, ElementOfSeq DEF Checks
  <1>2. \A i \in DOMAIN checks : /\ Len(checks[i]) \in Nat /\ DOMAIN checks[i] = 1..Len(checks[i])
                                 /\ \A j \in DOMAIN checks[i] : checks[i][j] \in CheckLine
    BY <1>1, LenProperties, ElementOfSeq
  <1>3. ASSUME NEW p \in Places(checks)
        PROVE  /\ p = <<p[1], p[2]>> /\ p[1] \in DOMAIN checks /\ p[2] \in DOMAIN checks[p[1]]
               /\ p[1] \in Nat \ {0} /\ p[2] \in Nat \ {0}
               /\ At(checks, p) \in CheckLine
    <2>1. PICK i \in DOMAIN checks : \E j \in DOMAIN checks[i] : p = <<i, j>>
      BY <1>3 DEF Places
    <2>2. PICK j \in DOMAIN checks[i] : p = <<i, j>>
      BY <2>1
    <2>. QED
      BY <1>1, <1>2, <2>1, <2>2 DEF At
  <1>4. \A i \in DOMAIN checks : \A j \in DOMAIN checks[i] : <<i, j>> \in Places(checks)
    BY DEF Places
  <1>5. IsFiniteSet(Places(checks))
    <2>. DEFINE Row(i) == {<<i, j>> : j \in DOMAIN checks[i]}
    <2>1. ASSUME NEW i \in DOMAIN checks PROVE IsFiniteSet(Row(i))
      <3>1. IsFiniteSet(DOMAIN checks[i])
        BY <1>2, <2>1, FS_Interval
      <3>2. [j \in DOMAIN checks[i] |-> <<i, j>>] \in Surjection(DOMAIN checks[i], Row(i))
        BY DEF Surjection
      <3>. QED
        BY <3>1, <3>2, FS_Surjection
    <2>. HIDE DEF Row
    <2>2. IsFiniteSet({Row(i) : i \in DOMAIN checks})
      <3>1. IsFiniteSet(DOMAIN checks)
        BY <1>1, FS_Interval
      <3>2. [i \in DOMAIN checks |-> Row(i)] \in Surjection(DOMAIN checks, {Row(i) : i \in DOMAIN checks})
        BY DEF Surjection
      <3>. QED
        BY <3>1, <3>2, FS_Surjection
    <2>3. IsFiniteSet(UNION {Row(i) : i \in DOMAIN checks})
      BY <2>1, <2>2, FS_UNION
    <2>. QED
      BY <2>3 DEF Places, Row
  <1>. QED
    BY <1>3, <1>4, <1>5

\* What is on the checks is a sum over their places.
LEMMA TotalIs ==
  ASSUME NEW checks \in Checks, NEW a
  PROVE  Total(checks, a) = SumOf(Has(checks, a), Places(checks))
  <1>. DEFINE S == Places(checks)
              f == Has(checks, a)
              Amount(p) == IF At(checks, p).id = a THEN At(checks, p).quantity ELSE 0
              Eq(g) == g = [s \in SUBSET S |-> IF s = {} THEN 0 ELSE Amount(Pick(s)) + g[s \ {Pick(s)}]]
              I == CHOOSE g : Eq(g)
  <1>0. IsFiniteSet(S)
    BY PlaceIs
  <1>1. \A g : Eq(g) <=> Adds(g, f, S)
    <2>1. \A s \in SUBSET S : s # {} => f[Pick(s)] = Amount(Pick(s))
      BY DEF Pick, Has
    <2>. QED
      BY <2>1 DEF Adds
  <1>2. Total(checks, a) = I[S]
    BY DEF Total, MapThenSumSet, MapThenFoldSet, Pick
  <1>. HIDE DEF Eq, f, S
  <1>3. I[S] = SumOf(f, S)
    BY <1>0, <1>1, FoldIsSum
  <1>. QED
    BY <1>2, <1>3 DEF f, S

\* A sum does not depend on what its numbers are called.
LEMMA SumOfMoved ==
  ASSUME NEW S, IsFiniteSet(S), NEW f, NEW k, NEW b, \A x \in S : f[x] \in Int /\ k[b[x]] = f[x],
         \A x, y \in S : b[x] = b[y] => x = y
  PROVE  SumOf(k, {b[x] : x \in S}) = SumOf(f, S)
  <1>. DEFINE im(s) == {b[x] : x \in s}
              B == {s \in SUBSET S : SumOf(k, im(s)) # SumOf(f, s)}
  <1>. SUFFICES ASSUME B # {} PROVE FALSE
    OBVIOUS
  <1>0. B \in SUBSET SUBSET S
    OBVIOUS
  <1>1. PICK t \in B : \A u \in B : u \subseteq t => u = t
    <2>. HIDE DEF B
    <2>. QED
      BY <1>0, LeastSubset
  <1>2. t \in SUBSET S /\ SumOf(k, im(t)) # SumOf(f, t)
    OBVIOUS
  <1>3. t # {}
    <2>1. im({}) = {}
      OBVIOUS
    <2>. QED
      BY <1>2, <2>1, SumOfNone
  <1>4. PICK x \in t : TRUE
    BY <1>3
  <1>. DEFINE u == t \ {x}
  <1>5. SumOf(k, im(u)) = SumOf(f, u)
    BY <1>1
  <1>6. IsFiniteSet(u) /\ IsFiniteSet(im(u))
    <2>1. IsFiniteSet(u)
      BY <1>2, FS_Subset
    <2>. HIDE DEF u
    <2>2. [y \in u |-> b[y]] \in Surjection(u, im(u))
      BY DEF Surjection
    <2>. QED
      BY <2>1, <2>2, FS_Surjection
  <1>7. SumOf(f, t) = f[x] + SumOf(f, u)
    <2>1. u \cup {x} = t /\ x \notin u /\ f[x] \in Int /\ \A y \in u : f[y] \in Int
      BY <1>2
    <2>. HIDE DEF u
    <2>. QED
      BY <1>6, <2>1, SumOfOneMore
  <1>8. SumOf(k, im(t)) = k[b[x]] + SumOf(k, im(u))
    <2>1. im(u) \cup {b[x]} = im(t) /\ b[x] \notin im(u)
      BY <1>2
    <2>2. k[b[x]] \in Int /\ \A y \in im(u) : k[y] \in Int
      BY <1>2
    <2>. HIDE DEF u, im
    <2>. QED
      BY <1>6, <2>1, <2>2, SumOfOneMore
  <1>. QED
    BY <1>2, <1>5, <1>7, <1>8

\* Where only one number is not zero, it is the sum.
LEMMA SumOfOne ==
  ASSUME NEW S, IsFiniteSet(S), NEW x \in S, NEW f, f[x] \in Int, \A y \in S : y # x => f[y] = 0
  PROVE  SumOf(f, S) = f[x]
  <1>. DEFINE u == S \ {x}
  <1>1. /\ IsFiniteSet(u) /\ u \cup {x} = S /\ x \notin u
        /\ (\A y \in u : f[y] = 0) /\ \A y \in u : f[y] \in Int
    BY FS_Subset
  <1>. HIDE DEF u
  <1>2. SumOf(f, u) = 0
    BY <1>1, SumOfZeros
  <1>3. SumOf(f, S) = f[x] + SumOf(f, u)
    BY <1>1, SumOfOneMore
  <1>. QED
    BY <1>2, <1>3

\* A sum of natural numbers is one, and not less than any of them.
LEMMA SumOfNats ==
  ASSUME NEW S, IsFiniteSet(S), NEW f, \A y \in S : f[y] \in Nat
  PROVE  SumOf(f, S) \in Nat /\ \A x \in S : SumOf(f, S) >= f[x]
  <1>1. \A s \in SUBSET S : SumOf(f, s) \in Nat
    <2>. DEFINE B == {s \in SUBSET S : SumOf(f, s) \notin Nat}
    <2>. SUFFICES ASSUME B # {} PROVE FALSE
      OBVIOUS
    <2>0. B \in SUBSET SUBSET S
      OBVIOUS
    <2>1. PICK t \in B : \A u \in B : u \subseteq t => u = t
      <3>. HIDE DEF B
      <3>. QED
        BY <2>0, LeastSubset
    <2>2. t # {}
      <3>1. SumOf(f, t) \notin Nat /\ 0 \in Nat
        OBVIOUS
      <3>. QED
        BY <3>1, SumOfNone
    <2>3. PICK x \in t : TRUE
      BY <2>2
    <2>. DEFINE u == t \ {x}
    <2>4. SumOf(f, u) \in Nat
      BY <2>1
    <2>5. /\ t \in SUBSET S /\ u \cup {x} = t /\ x \notin u /\ f[x] \in Nat /\ f[x] \in Int
          /\ IsFiniteSet(u) /\ \A y \in u : f[y] \in Int
      BY FS_Subset
    <2>6. SumOf(f, t) = f[x] + SumOf(f, u)
      <3>. HIDE DEF u, B
      <3>. QED
        BY <2>5, SumOfOneMore
    <2>. QED
      BY <2>4, <2>5, <2>6
  <1>2. ASSUME NEW x \in S PROVE SumOf(f, S) >= f[x]
    <2>. DEFINE u == S \ {x}
    <2>1. /\ u \in SUBSET S /\ u \cup {x} = S /\ x \notin u /\ f[x] \in Nat /\ f[x] \in Int
          /\ IsFiniteSet(u) /\ \A y \in u : f[y] \in Int
      BY FS_Subset
    <2>2. SumOf(f, u) \in Nat
      BY <1>1, <2>1
    <2>3. SumOf(f, S) = f[x] + SumOf(f, u)
      <3>. HIDE DEF u
      <3>. QED
        BY <2>1, SumOfOneMore
    <2>. QED
      BY <2>1, <2>2, <2>3
  <1>. QED
    BY <1>1, <1>2

\* splitChecksForTable: there is one check more, no line is empty, and of each article there is what
\* there was.
THEOREM SplitKeeps ==
  ASSUME NEW checks \in Checks, Filled(checks), CanSplit(checks)
  PROVE  /\ Split(checks) \in Checks /\ Filled(Split(checks))
         /\ Len(Split(checks)) = Len(checks) + 1
         /\ \A a : Total(Split(checks), a) = Total(checks, a)
  <1>. DEFINE lines == checks[1]
              n     == Len(lines)
              m     == Len(checks)
              last  == lines[n]
              moved == (last.quantity + 1) \div 2
              stays == last.quantity - moved
              first == IF stays = 0 THEN Front(lines) ELSE [lines EXCEPT ![n] = Line(last.id, stays)]
              second == <<Line(last.id, moved)>>
              new   == <<first, second>> \o Tail(checks)
  <1>1. /\ m \in Nat \ {0} /\ DOMAIN checks = 1..m /\ Head(checks) = lines /\ lines \in Seq(CheckLine)
        /\ n \in Nat \ {0} /\ DOMAIN lines = 1..n /\ last \in CheckLine
        /\ \A i \in 1..m : checks[i] \in Seq(CheckLine)
    <2>1. checks # <<>> /\ Head(checks) # <<>> /\ Head(checks) = lines
      BY DEF CanSplit
    <2>2. m \in Nat \ {0} /\ DOMAIN checks = 1..m
      BY <2>1, EmptySeq, LenProperties DEF Checks
    <2>3. \A i \in 1..m : checks[i] \in Seq(CheckLine)
      BY <2>2, ElementOfSeq DEF Checks
    <2>4. lines \in Seq(CheckLine) /\ lines # <<>>
      BY <2>1, <2>2, <2>3
    <2>. HIDE DEF lines
    <2>5. n \in Nat \ {0} /\ DOMAIN lines = 1..n
      BY <2>4, EmptySeq, LenProperties
    <2>6. last \in CheckLine
      BY <2>4, <2>5, ElementOfSeq
    <2>. QED
      BY <2>1, <2>2, <2>3, <2>4, <2>5, <2>6
  <1>2. /\ last.id \in Articles /\ last.quantity \in Nat \ {0}
        /\ moved \in Nat \ {0} /\ stays \in Nat /\ moved + stays = last.quantity
    <2>1. last.quantity > 0
      BY <1>1 DEF Filled
    <2>. HIDE DEF last
    <2>2. last.id \in Articles /\ last.quantity \in Nat
      BY <1>1 DEF CheckLine
    <2>. QED
      BY <2>1, <2>2
  <1>3. Split(checks) = new
    BY <1>1 DEF Split, Last
  <1>4. /\ first \in Seq(CheckLine) /\ (IF stays = 0 THEN Len(first) = n - 1 ELSE Len(first) = n)
        /\ \A j \in 1..(n - 1) : first[j] = lines[j]
        /\ stays # 0 => first[n] = Line(last.id, stays)
    <2>. HIDE DEF lines, last, moved
    <2>1. CASE stays = 0
      <3>1. \A j \in 1..(n - 1) : lines[j] \in CheckLine
        BY <1>1, ElementOfSeq
      <3>2. /\ SubSeq(lines, 1, n - 1) \in Seq(CheckLine)
            /\ Len(SubSeq(lines, 1, n - 1)) = IF 1 <= n - 1 THEN n - 1 - 1 + 1 ELSE 0
            /\ \A j \in 1..(n - 1 - 1 + 1) : SubSeq(lines, 1, n - 1)[j] = lines[1 + j - 1]
        BY <1>1, <3>1, SubSeqProperties
      <3>3. \A j \in 1..(n - 1) : j \in 1..(n - 1 - 1 + 1) /\ 1 + j - 1 = j
        BY <1>1
      <3>4. first = SubSeq(lines, 1, n - 1)
        BY <2>1 DEF Front
      <3>5. Len(SubSeq(lines, 1, n - 1)) = n - 1
        BY <1>1, <3>2
      <3>. HIDE DEF first, stays, n
      <3>. QED
        BY <2>1, <3>2, <3>3, <3>4, <3>5
    <2>2. CASE stays # 0
      <3>1. Line(last.id, stays) \in CheckLine
        BY <1>2 DEF Line, CheckLine
      <3>2. first = [lines EXCEPT ![n] = Line(last.id, stays)]
        BY <2>2
      <3>. HIDE DEF first, stays
      <3>3. n \in 1..n
        BY <1>1
      <3>4. /\ first \in Seq(CheckLine) /\ Len(first) = n
            /\ \A j \in 1..n : first[j] = IF j = n THEN Line(last.id, stays) ELSE lines[j]
        BY <1>1, <3>1, <3>2, <3>3, ExceptSeq
      <3>5. \A j \in 1..(n - 1) : j \in 1..n /\ j # n
        <4>1. n \in Nat
          BY <1>1
        <4>. HIDE DEF n
        <4>. QED
          BY <4>1
      <3>. HIDE DEF n
      <3>. QED
        BY <2>2, <3>3, <3>4, <3>5
    <2>. QED
      BY <2>1, <2>2
  <1>5. second \in Seq(CheckLine) /\ DOMAIN second = {1} /\ second[1] = Line(last.id, moved)
    <2>1. Line(last.id, moved) \in CheckLine
      BY <1>2 DEF Line, CheckLine
    <2>. HIDE DEF last, moved
    <2>. QED
      BY <2>1
  <1>. HIDE DEF first, second, stays, moved, last, lines
  <1>6. /\ new \in Checks /\ Len(new) = m + 1 /\ DOMAIN new = 1..(m + 1) /\ new[1] = first /\ new[2] = second
        /\ \A i \in 3..(m + 1) : new[i] = checks[i - 1]
    <2>1. <<first, second>> \in Checks /\ Len(<<first, second>>) = 2
      BY <1>4, <1>5 DEF Checks
    <2>2. Tail(checks) \in Checks /\ Len(Tail(checks)) = m - 1 /\ \A i \in 1..(m - 1) : Tail(checks)[i] = checks[i + 1]
      BY HeadTailProperties DEF Checks, CanSplit
    <2>3. /\ new \in Checks /\ Len(new) = 2 + (m - 1)
          /\ \A i \in 1..(2 + (m - 1)) : new[i] = IF i <= 2 THEN <<first, second>>[i] ELSE Tail(checks)[i - 2]
      BY <2>1, <2>2, ConcatProperties DEF Checks
    <2>4. DOMAIN new = 1..Len(new)
      BY <2>3, LenProperties DEF Checks
    <2>5. 1 \in 1..(2 + (m - 1)) /\ 2 \in 1..(2 + (m - 1))
      BY <1>1
    <2>6. ASSUME NEW i \in 3..(m + 1) PROVE new[i] = checks[i - 1]
      <3>1. i \in 1..(2 + (m - 1)) /\ ~(i <= 2) /\ i - 2 \in 1..(m - 1) /\ i - 2 + 1 = i - 1
        BY <1>1, <2>6
      <3>. HIDE DEF new
      <3>. QED
        BY <2>2, <2>3, <3>1
    <2>. HIDE DEF new
    <2>. QED
      BY <1>1, <2>3, <2>4, <2>5, <2>6
  <1>. HIDE DEF new
  <1>7. DOMAIN first = IF stays = 0 THEN 1..(n - 1) ELSE 1..n
    BY <1>4, LenProperties
  <1>7a. \A i \in 2..m : new[i + 1] = checks[i]
    <2>. TAKE i \in 2..m
    <2>1. m \in Nat
      BY <1>1
    <2>. HIDE DEF m
    <2>2. i + 1 \in 3..(m + 1) /\ i + 1 - 1 = i
      BY <2>1
    <2>. QED
      BY <1>6, <2>2
  <1>8. Filled(new)
    <2>1. ASSUME NEW i \in 1..(m + 1), NEW j \in DOMAIN new[i] PROVE new[i][j].quantity > 0
      <3>1. CASE i = 1
        <4>1. CASE j \in 1..(n - 1)
          <5>1. j \in DOMAIN lines
            BY <1>1, <4>1
          <5>2. new[i][j] = lines[j]
            BY <1>4, <1>6, <3>1, <4>1
          <5>. QED
            BY <1>1, <5>1, <5>2 DEF Filled, lines
        <4>2. CASE j = n /\ stays # 0
          <5>1. new[i][j] = Line(last.id, stays)
            BY <1>4, <1>6, <3>1, <4>2
          <5>. QED
            BY <1>2, <4>2, <5>1 DEF Line
        <4>3. j \in 1..(n - 1) \/ (j = n /\ stays # 0)
          BY <1>1, <1>6, <1>7, <2>1, <3>1
        <4>. QED
          BY <4>1, <4>2, <4>3
      <3>2. CASE i = 2
        BY <1>2, <1>5, <1>6, <2>1, <3>2 DEF Line
      <3>3. CASE i \in 3..(m + 1)
        <4>1. new[i] = checks[i - 1] /\ i - 1 \in DOMAIN checks
          BY <1>1, <1>6, <3>3
        <4>. QED
          BY <2>1, <4>1 DEF Filled
      <3>. QED
        BY <1>1, <2>1, <3>1, <3>2, <3>3
    <2>. QED
      BY <1>6, <2>1 DEF Filled
  <1>9. ASSUME NEW a PROVE Total(new, a) = Total(checks, a)
    <2>. DEFINE f == Has(checks, a)
                k == Has(new, a)
                P == Places(checks)
                Q == Places(new)
                old == <<1, n>>
                S == P \ {old}
                b == [p \in S |-> IF p[1] = 1 THEN p ELSE <<p[1] + 1, p[2]>>]
                T == {b[p] : p \in S}
                more == <<2, 1>>
    <2>1. /\ IsFiniteSet(P) /\ IsFiniteSet(Q) /\ IsFiniteSet(S) /\ IsFiniteSet(T)
      <3>1. IsFiniteSet(P) /\ IsFiniteSet(Q)
        BY <1>6, PlaceIs
      <3>2. IsFiniteSet(S)
        BY <3>1, FS_Subset
      <3>. HIDE DEF S, b
      <3>3. [p \in S |-> b[p]] \in Surjection(S, T)
        BY DEF Surjection
      <3>. QED
        BY <3>1, <3>2, <3>3, FS_Surjection
    <2>2. /\ \A p \in P : /\ p = <<p[1], p[2]>> /\ p[1] \in 1..m /\ p[2] \in DOMAIN checks[p[1]]
                          /\ p[1] \in Nat \ {0} /\ p[2] \in Nat \ {0} /\ At(checks, p) \in CheckLine
          /\ \A i \in 1..m : \A j \in DOMAIN checks[i] : <<i, j>> \in P
      <3>. HIDE DEF n, m, P
      <3>. QED
        BY <1>1, PlaceIs DEF P
    <2>3. /\ \A p \in Q : /\ p = <<p[1], p[2]>> /\ p[1] \in 1..(m + 1) /\ p[2] \in DOMAIN new[p[1]]
                          /\ p[1] \in Nat \ {0} /\ p[2] \in Nat \ {0} /\ At(new, p) \in CheckLine
          /\ \A i \in 1..(m + 1) : \A j \in DOMAIN new[i] : <<i, j>> \in Q
      <3>. HIDE DEF n, m, Q
      <3>. QED
        BY <1>6, PlaceIs DEF Q
    <2>4. ASSUME NEW p \in S, p[1] = 1
          PROVE  b[p] \in Q /\ At(new, b[p]) = At(checks, p) /\ p[2] \in 1..(n - 1)
      <3>1. b[p] = p /\ p \in P /\ p = <<1, p[2]>> /\ p[2] # n
        BY <2>2, <2>4
      <3>2. p[2] \in 1..n
        BY <1>1, <2>2, <2>4, <3>1 DEF lines
      <3>3. p[2] \in 1..(n - 1) /\ p[2] \in DOMAIN first
        BY <1>1, <1>7, <3>1, <3>2
      <3>4. <<1, p[2]>> \in Q
        BY <1>1, <1>6, <2>3, <3>3
      <3>5. At(new, <<1, p[2]>>) = first[p[2]] /\ At(checks, <<1, p[2]>>) = lines[p[2]]
        BY <1>6 DEF At, lines
      <3>. QED
        BY <1>4, <3>1, <3>3, <3>4, <3>5
    <2>5. ASSUME NEW p \in S, p[1] # 1
          PROVE  /\ b[p] = <<p[1] + 1, p[2]>> /\ b[p] \in Q /\ At(new, b[p]) = At(checks, p)
                 /\ p[1] + 1 \in 3..(m + 1)
      <3>1. b[p] = <<p[1] + 1, p[2]>> /\ p \in P /\ p[1] \in 2..m
        BY <1>1, <2>2, <2>5
      <3>2. p[1] + 1 \in 3..(m + 1) /\ p[1] + 1 - 1 = p[1] /\ p[1] + 1 \in 1..(m + 1)
        BY <1>1, <3>1
      <3>3. new[p[1] + 1] = checks[p[1]]
        <4>. HIDE DEF m, b, S
        <4>. QED
          BY <1>7a, <3>1
      <3>4. <<p[1] + 1, p[2]>> \in Q
        BY <2>2, <2>3, <3>1, <3>2, <3>3
      <3>5. At(new, <<p[1] + 1, p[2]>>) = checks[p[1]][p[2]]
        BY <3>3 DEF At
      <3>. QED
        BY <3>1, <3>2, <3>4, <3>5 DEF At
    <2>6. \A x, y \in S : b[x] = b[y] => x = y
      <3>. SUFFICES ASSUME NEW x \in S, NEW y \in S, b[x] = b[y] PROVE x = y
        OBVIOUS
      <3>0. /\ x = <<x[1], x[2]>> /\ y = <<y[1], y[2]>> /\ x[1] \in Nat \ {0} /\ y[1] \in Nat \ {0}
        BY <2>2
      <3>1. CASE x[1] = 1 /\ y[1] = 1
        BY <3>1
      <3>2. CASE x[1] # 1 /\ y[1] # 1
        <4>1. x[1] + 1 = y[1] + 1 /\ x[2] = y[2]
          BY <2>5, <3>2
        <4>. QED
          BY <3>0, <4>1
      <3>3. CASE x[1] = 1 /\ y[1] # 1
        <4>1. 1 = y[1] + 1
          BY <2>5, <3>0, <3>3
        <4>. QED
          BY <3>0, <4>1
      <3>4. CASE x[1] # 1 /\ y[1] = 1
        <4>1. 1 = x[1] + 1
          BY <2>5, <3>0, <3>4
        <4>. QED
          BY <3>0, <4>1
      <3>. QED
        BY <3>1, <3>2, <3>3, <3>4
    <2>7. \A p \in P : f[p] \in Nat
      BY <2>2 DEF Has, CheckLine
    <2>8. \A p \in Q : k[p] \in Nat
      BY <2>3 DEF Has, CheckLine
    <2>9. \A p \in S : b[p] \in Q /\ k[b[p]] = f[p]
      <3>1. \A p \in S : p \in P /\ b[p] \in Q /\ At(new, b[p]) = At(checks, p)
        BY <2>4, <2>5
      <3>. HIDE DEF S, b, n, m
      <3>. QED
        BY <3>1 DEF Has
    <2>10. SumOf(k, T) = SumOf(f, S)
      <3>1. \A p \in S : f[p] \in Int /\ k[b[p]] = f[p]
        <4>1. S \subseteq P
          OBVIOUS
        <4>. HIDE DEF S, P, f, k, b
        <4>. QED
          BY <2>7, <2>9, <4>1
      <3>. HIDE DEF S, b, f, k
      <3>. QED
        BY <2>1, <2>6, <3>1, SumOfMoved
    <2>11. SumOf(f, P) = f[old] + SumOf(f, S) /\ old \in P
      <3>1. old \in P
        BY <1>1, <2>2 DEF lines
      <3>2. S \cup {old} = P /\ old \notin S /\ f[old] \in Int /\ \A y \in S : f[y] \in Int
        BY <2>7, <3>1
      <3>. HIDE DEF S, f, P, old
      <3>. QED
        BY <2>1, <3>1, <3>2, SumOfOneMore
    <2>12. /\ more \in Q /\ more \notin T /\ old \notin T
           /\ \A p \in Q : p = more \/ p \in T \/ (stays # 0 /\ p = old)
           /\ stays # 0 => old \in Q
      <3>1. more \in Q
        BY <1>1, <1>5, <1>6, <2>3
      <3>2. ASSUME NEW p \in S PROVE b[p] # more /\ b[p] # old
        <4>1. CASE p[1] = 1
          BY <2>2, <2>4, <3>2, <4>1
        <4>2. CASE p[1] # 1
          <5>1. b[p] = <<p[1] + 1, p[2]>> /\ p[1] + 1 \in 3..(m + 1)
            BY <2>5, <3>2, <4>2
          <5>. HIDE DEF b, S
          <5>. QED
            BY <5>1
        <4>. QED
          BY <4>1, <4>2
      <3>3. ASSUME NEW p \in Q PROVE p = more \/ p \in T \/ (stays # 0 /\ p = old)
        <4>0. p = <<p[1], p[2]>> /\ p[1] \in 1..(m + 1) /\ p[2] \in DOMAIN new[p[1]]
          BY <2>3, <3>3
        <4>1. CASE p[1] = 1
          <5>1. p[2] \in DOMAIN first
            BY <1>6, <4>0, <4>1
          <5>2. CASE p[2] = n
            BY <1>1, <1>7, <4>0, <4>1, <5>1, <5>2
          <5>3. CASE p[2] # n
            <6>1. p[2] \in 1..n
              BY <1>1, <1>7, <5>1
            <6>2. p \in P
              BY <1>1, <2>2, <4>0, <4>1, <6>1 DEF lines
            <6>3. p \in S /\ b[p] = p
              BY <4>0, <4>1, <5>3, <6>2
            <6>. QED
              BY <6>3
          <5>. QED
            BY <5>2, <5>3
        <4>2. CASE p[1] = 2
          BY <1>5, <1>6, <4>0, <4>2
        <4>3. CASE p[1] \in 3..(m + 1)
          <5>. DEFINE q == <<p[1] - 1, p[2]>>
          <5>1. p[1] - 1 \in 2..m /\ p[1] - 1 + 1 = p[1] /\ new[p[1]] = checks[p[1] - 1] /\ p[1] - 1 \in 1..m
            BY <1>1, <1>6, <4>3
          <5>2. q \in P
            BY <2>2, <4>0, <5>1
          <5>3. q[1] = p[1] - 1 /\ q[2] = p[2] /\ q[1] # 1 /\ q # old
            BY <5>1
          <5>4. q \in S
            BY <5>2, <5>3
          <5>5. b[q] = <<q[1] + 1, q[2]>>
            BY <5>3, <5>4
          <5>6. b[q] = p
            BY <4>0, <5>1, <5>3, <5>5
          <5>. QED
            BY <5>4, <5>6
        <4>4. p[1] = 1 \/ p[1] = 2 \/ p[1] \in 3..(m + 1)
          BY <1>1, <4>0
        <4>. QED
          BY <4>1, <4>2, <4>3, <4>4
      <3>4. stays # 0 => old \in Q
        BY <1>1, <1>6, <1>7, <2>3
      <3>5. more \notin T /\ old \notin T
        <4>. HIDE DEF b, S, more, old
        <4>. QED
          BY <3>2
      <3>. QED
        BY <3>1, <3>3, <3>4, <3>5
    <2>13. more # old
      OBVIOUS
    <2>14. k[more] + (IF stays # 0 THEN k[old] ELSE 0) = f[old]
      <3>1. At(checks, old) = last
        BY DEF At, lines, last
      <3>2. At(new, more) = Line(last.id, moved)
        BY <1>5, <1>6 DEF At
      <3>3. stays # 0 => At(new, old) = Line(last.id, stays)
        BY <1>4, <1>6 DEF At
      <3>4. f[old] = IF last.id = a THEN last.quantity ELSE 0
        BY <2>11, <3>1 DEF Has
      <3>5. k[more] = IF last.id = a THEN moved ELSE 0
        <4>1. more \in Places(new)
          BY <2>12
        <4>. HIDE DEF more
        <4>2. k[more] = IF At(new, more).id = a THEN At(new, more).quantity ELSE 0
          BY <4>1 DEF Has
        <4>. QED
          BY <3>2, <4>2 DEF Line
      <3>6. stays # 0 => k[old] = IF last.id = a THEN stays ELSE 0
        <4>. HIDE DEF old
        <4>. QED
          BY <2>12, <3>3 DEF Has, Line
      <3>. HIDE DEF f, k, old, more
      <3>. QED
        BY <1>2, <3>4, <3>5, <3>6
    <2>15. SumOf(k, Q) = SumOf(k, T) + f[old]
      <3>1. T \subseteq Q
        <4>. HIDE DEF b, S, Q, k, f
        <4>. QED
          BY <2>9
      <3>2. \A y \in Q : k[y] \in Int
        BY <2>8
      <3>. HIDE DEF T, Q, k, f, more, old, S
      <3>3. SumOf(k, T \cup {more}) = k[more] + SumOf(k, T)
        BY <2>1, <2>12, <3>1, <3>2, SumOfOneMore
      <3>4. SumOf(k, T) \in Int /\ k[more] \in Int
        BY <2>1, <2>12, <3>1, <3>2, SumOfType
      <3>5. CASE stays = 0
        <4>1. T \cup {more} = Q
          BY <2>12, <3>1, <3>5
        <4>2. f[old] = k[more]
          BY <2>14, <3>4, <3>5
        <4>3. SumOf(k, Q) = k[more] + SumOf(k, T)
          BY <2>1, <2>12, <3>1, <3>2, <4>1, SumOfOneMore
        <4>. QED
          BY <3>4, <4>2, <4>3
      <3>6. CASE stays # 0
        <4>. DEFINE U == T \cup {more}
        <4>1. U \cup {old} = Q /\ old \notin U /\ U \subseteq Q
          BY <2>12, <2>13, <3>1, <3>6
        <4>2. IsFiniteSet(U)
          BY <2>1, <4>1, FS_Subset
        <4>3. k[old] \in Int /\ \A y \in U : k[y] \in Int
          BY <2>12, <3>2, <3>6, <4>1
        <4>. HIDE DEF U
        <4>4. SumOf(k, Q) = k[old] + SumOf(k, U)
          BY <4>1, <4>2, <4>3, SumOfOneMore
        <4>5. SumOf(k, U) = k[more] + SumOf(k, T)
          BY <3>3 DEF U
        <4>6. f[old] = k[more] + k[old]
          BY <2>14, <3>6
        <4>. QED
          BY <3>4, <4>3, <4>4, <4>5, <4>6
      <3>. QED
        BY <3>5, <3>6
    <2>16. Total(new, a) = SumOf(k, Q) /\ Total(checks, a) = SumOf(f, P)
      BY <1>6, TotalIs
    <2>17. SumOf(f, S) \in Int /\ f[old] \in Int
      <3>1. \A y \in S : f[y] \in Int
        BY <2>7
      <3>2. f[old] \in Int
        BY <2>7, <2>11
      <3>. HIDE DEF S, f, old
      <3>. QED
        BY <2>1, <3>1, <3>2, SumOfType
    <2>. HIDE DEF f, k, P, Q, S, T, old, more
    <2>. QED
      BY <2>10, <2>11, <2>15, <2>16, <2>17
  <1>. QED
    BY <1>3, <1>6, <1>8, <1>9

\* In a total order of a finite set each place is taken once.
LEMMA RankIs ==
  ASSUME NEW F, IsFiniteSet(F),
         \A p \in F : ~Earlier(p, p),
         \A p, q, r \in F : Earlier(p, q) /\ Earlier(q, r) => Earlier(p, r),
         \A p, q \in F : p = q \/ Earlier(p, q) \/ Earlier(q, p)
  PROVE  LET rank(p) == Cardinality({q \in F : Earlier(q, p)}) IN
         /\ Cardinality(F) \in Nat
         /\ \A p \in F : rank(p) \in 0..(Cardinality(F) - 1)
         /\ \A p, q \in F : rank(p) = rank(q) => p = q
         /\ \A n \in 1..Cardinality(F) : \E p \in F : rank(p) = n - 1
  <1>. DEFINE L(p)  == {q \in F : Earlier(q, p)}
              f     == [p \in F |-> Cardinality(L(p)) + 1]
              c     == Cardinality(F)
  <1>1. c \in Nat
    BY FS_CardinalityType
  <1>2. ASSUME NEW p \in F PROVE IsFiniteSet(L(p)) /\ Cardinality(L(p)) \in Nat /\ Cardinality(L(p)) <= c - 1
    <2>1. IsFiniteSet(F \ {p}) /\ Cardinality(F \ {p}) = c - 1
      BY FS_RemoveElement
    <2>2. L(p) \in SUBSET (F \ {p})
      OBVIOUS
    <2>. HIDE DEF L
    <2>. QED
      BY <2>1, <2>2, FS_Subset, FS_CardinalityType
  <1>3. ASSUME NEW p \in F, NEW q \in F, Earlier(p, q) PROVE Cardinality(L(p)) < Cardinality(L(q))
    <2>1. L(p) \in SUBSET (L(q) \ {p}) /\ p \in L(q)
      BY <1>3
    <2>. HIDE DEF L
    <2>2. IsFiniteSet(L(q) \ {p}) /\ Cardinality(L(q) \ {p}) = Cardinality(L(q)) - 1
      BY <1>2, <2>1, FS_RemoveElement
    <2>3. Cardinality(L(p)) <= Cardinality(L(q) \ {p})
      BY <2>1, <2>2, FS_Subset
    <2>. QED
      BY <1>2, <2>2, <2>3
  <1>4. ASSUME NEW p \in F, NEW q \in F, Cardinality(L(p)) = Cardinality(L(q)) PROVE p = q
    <2>. HIDE DEF L
    <2>1. CASE Earlier(p, q)
      BY <1>2, <1>3, <1>4, <2>1
    <2>2. CASE Earlier(q, p)
      BY <1>2, <1>3, <1>4, <2>2
    <2>. QED
      BY <2>1, <2>2
  <1>5. f \in Injection(F, 1..c)
    <2>. HIDE DEF L, c
    <2>1. \A p \in F : f[p] = Cardinality(L(p)) + 1
      OBVIOUS
    <2>2. f \in [F -> 1..c]
      BY <1>1, <1>2
    <2>3. \A p, q \in F : f[p] = f[q] => p = q
      BY <1>2, <1>4
    <2>. HIDE DEF f
    <2>. QED
      BY <2>2, <2>3 DEF Injection, IsInjective
  <1>6. f \in Surjection(F, 1..c)
    <2>1. IsFiniteSet(1..c) /\ Cardinality(1..c) = c
      BY <1>1, FS_Interval
    <2>. HIDE DEF f, c
    <2>2. Cardinality(F) = Cardinality(1..c) <=> f \in Surjection(F, 1..c)
      BY <1>5, <2>1, FS_Injection
    <2>. QED
      BY <2>1, <2>2 DEF c
  <1>7. ASSUME NEW n \in 1..c PROVE \E p \in F : Cardinality(L(p)) = n - 1
    <2>. HIDE DEF L, c
    <2>1. PICK p \in F : f[p] = n
      BY <1>6, <1>7 DEF Surjection
    <2>2. Cardinality(L(p)) + 1 = n
      BY <2>1
    <2>. QED
      BY <1>2, <2>2
  <1>8. \A p \in F : Cardinality(L(p)) \in 0..(c - 1)
    <2>. HIDE DEF L, c
    <2>. QED
      BY <1>1, <1>2
  <1>. QED
    BY <1>1, <1>4, <1>7, <1>8

\* mergeChecksForTable: there is one check, with each article on one line at most, no line is empty,
\* and of each article there is what there was.
THEOREM MergeKeeps ==
  ASSUME NEW checks \in Checks, Filled(checks)
  PROVE  /\ Merge(checks) \in Checks /\ Filled(Merge(checks))
         /\ Len(Merge(checks)) = 1
         /\ \A i, j \in DOMAIN Merge(checks)[1] : Merge(checks)[1][i].id = Merge(checks)[1][j].id => i = j
         /\ \A a : Total(Merge(checks), a) = Total(checks, a)
  <1>. DEFINE P == Places(checks)
              id(p) == At(checks, p).id
              firsts == {p \in P : \A q \in P : Earlier(q, p) => id(q) # id(p)}
              c == Cardinality(firsts)
              rank(p) == Cardinality({q \in firsts : Earlier(q, p)})
              nth(n) == CHOOSE p \in firsts : rank(p) = n - 1
              lines == [n \in 1..c |-> Line(id(nth(n)), Total(checks, id(nth(n))))]
  <1>1. /\ IsFiniteSet(P)
        /\ \A p \in P : /\ p = <<p[1], p[2]>> /\ p[1] \in Nat /\ p[2] \in Nat /\ At(checks, p) \in CheckLine
                        /\ At(checks, p).quantity > 0
    <2>1. \A p \in P : At(checks, p).quantity > 0
      BY PlaceIs DEF Filled, At
    <2>. HIDE DEF P
    <2>. QED
      BY <2>1, PlaceIs DEF P
  <1>3. /\ \A p \in P : ~Earlier(p, p)
        /\ \A p, q, r \in P : Earlier(p, q) /\ Earlier(q, r) => Earlier(p, r)
        /\ \A p, q \in P : p = q \/ Earlier(p, q) \/ Earlier(q, p)
    <2>. HIDE DEF P
    <2>1. \A p \in P : ~Earlier(p, p)
      BY <1>1 DEF Earlier
    <2>2. \A p, q, r \in P : Earlier(p, q) /\ Earlier(q, r) => Earlier(p, r)
      BY <1>1 DEF Earlier
    <2>3. ASSUME NEW p \in P, NEW q \in P PROVE p = q \/ Earlier(p, q) \/ Earlier(q, p)
      <3>1. p[1] = q[1] /\ p[2] = q[2] => p = q
        BY <1>1
      <3>. QED
        BY <1>1, <3>1 DEF Earlier
    <2>. QED
      BY <2>1, <2>2, <2>3
  <1>4. ASSUME NEW F \in SUBSET P
        PROVE  LET under(p) == Cardinality({q \in F : Earlier(q, p)}) IN
               /\ Cardinality(F) \in Nat
               /\ \A p \in F : under(p) \in 0..(Cardinality(F) - 1)
               /\ \A p, q \in F : under(p) = under(q) => p = q
               /\ \A n \in 1..Cardinality(F) : \E p \in F : under(p) = n - 1
    <2>1. IsFiniteSet(F)
      BY <1>1, FS_Subset
    <2>2. /\ \A p \in F : ~Earlier(p, p)
          /\ \A p, q, r \in F : Earlier(p, q) /\ Earlier(q, r) => Earlier(p, r)
          /\ \A p, q \in F : p = q \/ Earlier(p, q) \/ Earlier(q, p)
      <3>. HIDE DEF P
      <3>. QED
        BY <1>3
    <2>. HIDE DEF P
    <2>. QED
      BY <2>1, <2>2, RankIs
  <1>5. /\ c \in Nat
        /\ \A p \in firsts : rank(p) \in 0..(c - 1)
        /\ \A p, q \in firsts : rank(p) = rank(q) => p = q
        /\ \A n \in 1..c : \E p \in firsts : rank(p) = n - 1
    <2>1. firsts \in SUBSET P
      OBVIOUS
    <2>3. LET under(p) == Cardinality({q \in firsts : Earlier(q, p)}) IN
          /\ c \in Nat
          /\ \A p \in firsts : under(p) \in 0..(c - 1)
          /\ \A p, q \in firsts : under(p) = under(q) => p = q
          /\ \A n \in 1..c : \E p \in firsts : under(p) = n - 1
      <3>. HIDE DEF P, firsts
      <3>. QED
        BY <1>4, <2>1
    <2>. QED
      BY <2>3
  <1>6. ASSUME NEW n \in 1..c PROVE nth(n) \in firsts /\ rank(nth(n)) = n - 1
    <2>. HIDE DEF firsts, c, rank
    <2>. QED
      BY <1>5
  <1>7. ASSUME NEW p \in firsts PROVE rank(p) + 1 \in 1..c /\ nth(rank(p) + 1) = p
    <2>. HIDE DEF firsts, c, rank, nth
    <2>. DEFINE n == rank(p) + 1
    <2>1. n \in 1..c /\ n - 1 = rank(p)
      BY <1>5
    <2>. HIDE DEF n
    <2>2. nth(n) \in firsts /\ rank(nth(n)) = rank(p)
      BY <1>6, <2>1
    <2>3. n \in 1..c /\ nth(n) = p
      BY <1>5, <2>1, <2>2
    <2>. QED
      BY <2>3 DEF n
  <1>8. \A p \in firsts : p \in P /\ \A q \in P : Earlier(q, p) => id(q) # id(p)
    OBVIOUS
  <1>9. ASSUME NEW p \in firsts, NEW q \in firsts, id(p) = id(q) PROVE p = q
    <2>. HIDE DEF firsts, P, id
    <2>. QED
      BY <1>3, <1>8, <1>9
  <1>10. ASSUME NEW p \in P PROVE \E q \in firsts : id(q) = id(p)
    <2>. DEFINE F == {q \in P : id(q) = id(p)}
                under(q) == Cardinality({r \in F : Earlier(r, q)})
    <2>1. F \in SUBSET P /\ p \in F /\ IsFiniteSet(F)
      BY <1>1, FS_Subset
    <2>2. 1 \in 1..Cardinality(F)
      <3>. HIDE DEF F
      <3>1. Cardinality(F) \in Nat /\ Cardinality(F) # 0
        BY <2>1, FS_EmptySet, FS_CardinalityType
      <3>. QED
        BY <3>1
    <2>3. PICK q \in F : under(q) = 1 - 1
      <3>. HIDE DEF F, P
      <3>. QED
        BY <1>4, <2>1, <2>2
    <2>4. {r \in F : Earlier(r, q)} = {}
      <3>1. IsFiniteSet({r \in F : Earlier(r, q)})
        <4>. HIDE DEF F
        <4>. QED
          BY <2>1, FS_Subset
      <3>. HIDE DEF F
      <3>. QED
        BY <2>3, <3>1, FS_EmptySet
    <2>5. ASSUME NEW r \in P, Earlier(r, q) PROVE id(r) # id(q)
      <3>1. r \notin F
        <4>. HIDE DEF F, P
        <4>. QED
          BY <2>1, <2>4, <2>5
      <3>. QED
        BY <3>1
    <2>6. q \in P /\ id(q) = id(p)
      OBVIOUS
    <2>7. q \in firsts
      <3>. HIDE DEF P, id
      <3>. QED
        BY <2>5, <2>6
    <2>. QED
      BY <2>6, <2>7
  <1>11. ASSUME NEW a PROVE /\ \A p \in P : Has(checks, a)[p] = IF id(p) = a THEN At(checks, p).quantity ELSE 0
                            /\ \A p \in P : Has(checks, a)[p] \in Nat
                            /\ Total(checks, a) \in Nat
                            /\ \A p \in P : id(p) = a => Total(checks, a) > 0
    <2>1. \A p \in P : Has(checks, a)[p] = IF id(p) = a THEN At(checks, p).quantity ELSE 0
      BY DEF Has
    <2>2. \A p \in P : Has(checks, a)[p] \in Nat /\ (id(p) = a => Has(checks, a)[p] > 0)
      <3>1. \A p \in P : At(checks, p).quantity \in Nat /\ At(checks, p).quantity > 0
        <4>. HIDE DEF P
        <4>. QED
          BY <1>1 DEF CheckLine
      <3>. HIDE DEF P, id
      <3>. QED
        BY <2>1, <3>1
    <2>3. Total(checks, a) = SumOf(Has(checks, a), P)
      BY TotalIs
    <2>. HIDE DEF P, id
    <2>4. SumOf(Has(checks, a), P) \in Nat /\ \A p \in P : SumOf(Has(checks, a), P) >= Has(checks, a)[p]
      BY <1>1, <2>2, SumOfNats
    <2>5. ASSUME NEW p \in P, id(p) = a PROVE Total(checks, a) > 0
      BY <2>2, <2>3, <2>4, <2>5
    <2>. QED
      BY <2>1, <2>2, <2>3, <2>4, <2>5
  <1>12. Merge(checks) = <<lines>>
    BY DEF Merge
  <1>13. \A n \in 1..c : /\ lines[n] = Line(id(nth(n)), Total(checks, id(nth(n)))) /\ lines[n] \in CheckLine
                         /\ lines[n].quantity > 0
    <2>. TAKE n \in 1..c
    <2>1. lines[n] = Line(id(nth(n)), Total(checks, id(nth(n))))
      OBVIOUS
    <2>2. nth(n) \in P
      <3>. HIDE DEF firsts, c, nth, P
      <3>. QED
        BY <1>6, <1>8
    <2>3. id(nth(n)) \in Articles
      <3>1. At(checks, nth(n)) \in CheckLine
        <4>. HIDE DEF P, nth
        <4>. QED
          BY <1>1, <2>2
      <3>. HIDE DEF nth
      <3>. QED
        BY <3>1 DEF CheckLine
    <2>4. Total(checks, id(nth(n))) \in Nat /\ Total(checks, id(nth(n))) > 0
      <3>. HIDE DEF P, id, nth
      <3>. QED
        BY <1>11, <2>2
    <2>. HIDE DEF id, nth, lines
    <2>. QED
      BY <2>1, <2>3, <2>4 DEF Line, CheckLine
  <1>14. lines \in Seq(CheckLine) /\ DOMAIN lines = 1..c
    <2>1. DOMAIN lines = 1..c /\ lines = [n \in 1..c |-> lines[n]]
      OBVIOUS
    <2>. HIDE DEF lines, c
    <2>2. lines \in [1..c -> CheckLine]
      BY <1>13, <2>1
    <2>. QED
      BY <1>5, <2>1, <2>2
  <1>. DEFINE new == <<lines>>
  <1>15. /\ new \in Checks /\ DOMAIN new = {1} /\ new[1] = lines
    <2>. HIDE DEF lines
    <2>. QED
      BY <1>14 DEF Checks
  <1>16. Filled(new)
    <2>. HIDE DEF lines, new
    <2>. QED
      BY <1>13, <1>14, <1>15 DEF Filled
  <1>17. ASSUME NEW a PROVE Total(new, a) = Total(checks, a)
    <2>. DEFINE k == Has(new, a)
                Q == Places(new)
    <2>1. IsFiniteSet(Q) /\ Total(new, a) = SumOf(k, Q)
      <3>. HIDE DEF new
      <3>. QED
        BY <1>15, PlaceIs, TotalIs
    <2>2. \A p \in Q : p = <<1, p[2]>> /\ p[2] \in 1..c
      <3>. HIDE DEF lines, new
      <3>. QED
        BY <1>14, <1>15, PlaceIs
    <2>3. \A n \in 1..c : <<1, n>> \in Q
      <3>. HIDE DEF lines, new
      <3>. QED
        BY <1>14, <1>15, PlaceIs
    <2>4. ASSUME NEW n \in 1..c
          PROVE  k[<<1, n>>] = IF id(nth(n)) = a THEN Total(checks, id(nth(n))) ELSE 0
      <3>1. At(new, <<1, n>>) = lines[n]
        <4>. HIDE DEF lines, new
        <4>. QED
          BY <1>15 DEF At
      <3>2. k[<<1, n>>] = IF At(new, <<1, n>>).id = a THEN At(new, <<1, n>>).quantity ELSE 0
        <4>1. <<1, n>> \in Places(new)
          BY <2>3
        <4>. HIDE DEF new
        <4>. QED
          BY <4>1 DEF Has
      <3>3. lines[n] = Line(id(nth(n)), Total(checks, id(nth(n))))
        <4>. HIDE DEF lines, id, nth, c
        <4>. QED
          BY <1>13
      <3>. HIDE DEF lines, id, nth, new, k
      <3>. QED
        BY <3>1, <3>2, <3>3 DEF Line
    <2>5. CASE \E p \in P : id(p) = a
      <3>1. PICK p \in firsts : id(p) = a
        <4>. HIDE DEF firsts, P, id
        <4>. QED
          BY <1>10, <2>5
      <3>. DEFINE n0 == rank(p) + 1
                  x  == <<1, n0>>
      <3>2. n0 \in 1..c /\ nth(n0) = p
        <4>. HIDE DEF firsts, c, nth, rank
        <4>. QED
          BY <1>7, <3>1
      <3>. HIDE DEF n0
      <3>3. x \in Q /\ k[x] = Total(checks, a)
        <4>. HIDE DEF Q, k, nth, id, c
        <4>. QED
          BY <2>3, <2>4, <3>1, <3>2
      <3>4. ASSUME NEW y \in Q, y # x PROVE k[y] = 0
        <4>1. y = <<1, y[2]>> /\ y[2] \in 1..c /\ y[2] # n0
          <5>. HIDE DEF Q, k, c
          <5>. QED
            BY <2>2, <3>4
        <4>2. nth(y[2]) \in firsts /\ rank(nth(y[2])) = y[2] - 1
          <5>. HIDE DEF Q, c, rank, nth, firsts
          <5>. QED
            BY <1>6, <4>1
        <4>3. rank(p) = n0 - 1 /\ n0 \in Nat /\ y[2] \in Nat
          <5>1. nth(n0) \in firsts /\ rank(nth(n0)) = n0 - 1
            <6>. HIDE DEF c, rank, nth, firsts
            <6>. QED
              BY <1>6, <3>2
          <5>. HIDE DEF c, rank, nth, firsts
          <5>. QED
            BY <3>2, <4>1, <5>1
        <4>4. nth(y[2]) # p
          <5>. HIDE DEF c, rank, nth, firsts
          <5>. QED
            BY <4>1, <4>2, <4>3
        <4>5. id(nth(y[2])) # a
          <5>. HIDE DEF nth, firsts, id
          <5>. QED
            BY <1>9, <3>1, <4>2, <4>4
        <4>6. k[<<1, y[2]>>] = 0
          <5>. HIDE DEF k, nth, id, c
          <5>. QED
            BY <2>4, <4>1, <4>5
        <4>. HIDE DEF k
        <4>. QED
          BY <4>1, <4>6
      <3>5. Total(checks, a) \in Int
        <4>. HIDE DEF P, id
        <4>. QED
          BY <1>11
      <3>6. SumOf(k, Q) = k[x]
        <4>. HIDE DEF k, Q, x
        <4>. QED
          BY <2>1, <3>3, <3>4, <3>5, SumOfOne
      <3>. HIDE DEF k, Q, x, new
      <3>. QED
        BY <2>1, <3>3, <3>6
    <2>6. CASE \A p \in P : id(p) # a
      <3>1. \A y \in Q : k[y] = 0
        <4>. SUFFICES ASSUME NEW y \in Q PROVE k[y] = 0
          OBVIOUS
        <4>1. y = <<1, y[2]>> /\ y[2] \in 1..c
          <5>. HIDE DEF Q, k, c
          <5>. QED
            BY <2>2
        <4>2. nth(y[2]) \in P
          <5>. HIDE DEF Q, c, nth, firsts, P
          <5>. QED
            BY <1>6, <1>8, <4>1
        <4>3. k[<<1, y[2]>>] = 0
          <5>. HIDE DEF k, nth, id, c, P
          <5>. QED
            BY <2>4, <2>6, <4>1, <4>2
        <4>. HIDE DEF k
        <4>. QED
          BY <4>1, <4>3
      <3>2. SumOf(k, Q) = 0
        <4>. HIDE DEF k, Q
        <4>. QED
          BY <2>1, <3>1, SumOfZeros
      <3>3. \A p \in P : Has(checks, a)[p] = 0
        <4>. HIDE DEF P, id
        <4>. QED
          BY <1>11, <2>6
      <3>4. Total(checks, a) = SumOf(Has(checks, a), P)
        BY TotalIs
      <3>5. SumOf(Has(checks, a), P) = 0
        <4>. HIDE DEF P
        <4>. QED
          BY <1>1, <3>3, SumOfZeros
      <3>. HIDE DEF k, Q, P, new
      <3>. QED
        BY <2>1, <3>2, <3>4, <3>5
    <2>. QED
      BY <2>5, <2>6
  <1>18. ASSUME NEW i \in DOMAIN lines, NEW j \in DOMAIN lines, lines[i].id = lines[j].id PROVE i = j
    <2>1. i \in 1..c /\ j \in 1..c
      <3>. HIDE DEF lines
      <3>. QED
        BY <1>14
    <2>2. lines[i].id = id(nth(i)) /\ lines[j].id = id(nth(j))
      <3>1. \A n \in 1..c : lines[n] = Line(id(nth(n)), Total(checks, id(nth(n))))
        <4>. HIDE DEF lines, id, nth, c
        <4>. QED
          BY <1>13
      <3>. HIDE DEF lines, id, nth, c
      <3>2. lines[i] = Line(id(nth(i)), Total(checks, id(nth(i))))
        BY <2>1, <3>1
      <3>3. lines[j] = Line(id(nth(j)), Total(checks, id(nth(j))))
        BY <2>1, <3>1
      <3>4. \A x, y : Line(x, y).id = x
        BY DEF Line
      <3>. QED
        BY <3>2, <3>3, <3>4
    <2>3. nth(i) \in firsts /\ nth(j) \in firsts /\ rank(nth(i)) = i - 1 /\ rank(nth(j)) = j - 1
      <3>. HIDE DEF c, rank, nth, firsts
      <3>. QED
        BY <1>6, <2>1
    <2>4. nth(i) = nth(j)
      <3>. HIDE DEF lines, id, nth, firsts
      <3>. QED
        BY <1>9, <1>18, <2>2, <2>3
    <2>5. i \in Int /\ j \in Int
      BY <2>1
    <2>. HIDE DEF rank, nth, firsts, c
    <2>. QED
      BY <2>3, <2>4, <2>5
  <1>19. Len(new) = 1
    <2>. HIDE DEF lines
    <2>. QED
      OBVIOUS
  <1>. HIDE DEF lines
  <1>. QED
    BY <1>12, <1>15, <1>16, <1>17, <1>18, <1>19

\* A table as it may be, when what was ordered is o: nothing is lost and no line is empty.
GoodTable(o, x) == x \in ATable /\ Totals(x.checks) = o /\ Filled(x.checks)

\* Tables as a server or a till has them.
GoodTables(o, list) ==
  /\ DOMAIN list \subseteq DOMAIN o
  /\ list = [t \in DOMAIN list |-> list[t]]
  /\ \A t \in DOMAIN list : GoodTable(o[t], list[t])

AnUpdate == [till : Tills, table : Tables, part : {"all", "checks", "plan"}, as : ATable]
NewTable    == Table(<< <<>> >>, {})

\* An opening is the only thing under way of a table not known yet; any update is of a known table.
SentInv ==
  \A u \in sent :
    /\ u \in AnUpdate
    /\ IF u.part = "all" THEN u.table \notin Known /\ u.as = NewTable /\ \A v \in sent : v.table = u.table => v = u
                         ELSE u.table \in Known /\ GoodTable(ordered[u.table], u.as)

\* While no plan was sent from behind, the plan of the server has what was confirmed, and the one
\* plan under way has that too.
PlanInv ==
  /\ \A t \in Tables \ Known : served[t] = {}
  /\ \A t \in Known : ~behind[t] =>
       /\ served[t] \subseteq tabs[t].plan
       /\ \A u, v \in sent : u.table = t /\ u.part = "plan" /\ v.table = t /\ v.part = "plan" =>
            u = v /\ tabs[t].plan \subseteq u.as.plan

DeskInv ==
  /\ Known \subseteq Tables /\ DOMAIN ordered = Known
  /\ GoodTables(ordered, tabs)
  /\ copies = [k \in Tills |-> copies[k]] /\ \A k \in Tills : GoodTables(ordered, copies[k])
  /\ \A f \in fetches : f.till \in Tills /\ GoodTables(ordered, f.gave)
  /\ served \in [Tables -> SUBSET Courses] /\ behind \in [Tables -> BOOLEAN] /\ turns \in Nat
  /\ SentInv
  /\ PlanInv

LEMMA MoreOrdered ==
  ASSUME NEW o, NEW p, NEW list, GoodTables(o, list), DOMAIN o \subseteq DOMAIN p, \A t \in DOMAIN o : p[t] = o[t]
  PROVE  GoodTables(p, list)
  BY DEF GoodTables

LEMMA WithIs ==
  ASSUME NEW t, NEW x, NEW list
  PROVE  /\ DOMAIN With(list, t, x) = {t} \cup DOMAIN list
         /\ With(list, t, x) = [y \in DOMAIN With(list, t, x) |-> With(list, t, x)[y]]
         /\ With(list, t, x)[t] = x /\ \A y \in DOMAIN list \ {t} : With(list, t, x)[y] = list[y]
  BY DEF With

LEMMA FreshIs == NewTable \in ATable /\ Filled(NewTable.checks) /\ NewTable.checks \in Checks /\ NewTable.plan = {}
  <1>1. <<>> \in Seq([id : Articles, quantity : Nat]) /\ DOMAIN <<>> = {}
    OBVIOUS
  <1>2. << <<>> >> \in Checks /\ DOMAIN << <<>> >> = {1} /\ << <<>> >>[1] = <<>>
    BY <1>1 DEF Checks, CheckLine
  <1>. QED
    BY <1>1, <1>2 DEF NewTable, Table, ATable, Filled

\* The parts of a table can come from two good ones.
LEMMA PartIs ==
  ASSUME NEW o, NEW x, GoodTable(o, x)
  PROVE  /\ \A c : c \in Checks /\ Filled(c) /\ Totals(c) = o =>
              LET y == [x EXCEPT !.checks = c] IN GoodTable(o, y) /\ y.plan = x.plan
         /\ \A p \in SUBSET Courses :
              LET y == [x EXCEPT !.plan = p] IN GoodTable(o, y) /\ y.plan = p
         /\ x.checks \in Checks /\ Filled(x.checks) /\ Totals(x.checks) = o /\ x.plan \subseteq Courses
  <1>1. x \in [checks : Checks, plan : SUBSET Courses] /\ Filled(x.checks) /\ Totals(x.checks) = o
    BY DEF GoodTable, ATable
  <1>2. ASSUME NEW c, c \in Checks, Filled(c), Totals(c) = o
        PROVE  LET y == [x EXCEPT !.checks = c] IN GoodTable(o, y) /\ y.plan = x.plan
    <2>. DEFINE y == [x EXCEPT !.checks = c]
    <2>1. y \in [checks : Checks, plan : SUBSET Courses] /\ y.checks = c /\ y.plan = x.plan
      BY <1>1, <1>2
    <2>. HIDE DEF y
    <2>2. GoodTable(o, y)
      BY <1>2, <2>1 DEF GoodTable, ATable
    <2>. QED
      BY <2>1, <2>2 DEF y
  <1>3. ASSUME NEW p \in SUBSET Courses
        PROVE  LET y == [x EXCEPT !.plan = p] IN GoodTable(o, y) /\ y.plan = p
    <2>. DEFINE y == [x EXCEPT !.plan = p]
    <2>1. y \in [checks : Checks, plan : SUBSET Courses] /\ y.checks = x.checks /\ y.plan = p
      BY <1>1
    <2>. HIDE DEF y
    <2>2. GoodTable(o, y)
      BY <1>1, <2>1 DEF GoodTable, ATable
    <2>. QED
      BY <2>1, <2>2 DEF y
  <1>. QED
    BY <1>1, <1>2, <1>3

LEMMA OneChanges ==
  ASSUME NEW o, NEW list, GoodTables(o, list), NEW t \in DOMAIN list, NEW x, GoodTable(o[t], x)
  PROVE  LET new == [list EXCEPT ![t] = x] IN
         GoodTables(o, new) /\ DOMAIN new = DOMAIN list /\ new[t] = x /\ \A y \in DOMAIN list \ {t} : new[y] = list[y]
  BY DEF GoodTables

LEMMA OneMore ==
  ASSUME NEW o, NEW list, GoodTables(o, list), NEW t \in DOMAIN o, NEW x, GoodTable(o[t], x)
  PROVE  GoodTables(o, With(list, t, x))
  <1>. DEFINE new == With(list, t, x)
  <1>1. /\ DOMAIN new = {t} \cup DOMAIN list /\ new = [y \in DOMAIN new |-> new[y]]
        /\ new[t] = x /\ \A y \in DOMAIN list \ {t} : new[y] = list[y]
    BY DEF With
  <1>. HIDE DEF new
  <1>2. GoodTables(o, new)
    BY <1>1 DEF GoodTables
  <1>. QED
    BY <1>2 DEF new

\* A till changes its copy and sends what it made of it.
LEMMA TouchKeeps ==
  ASSUME DeskInv, NEW k \in Tills, NEW t \in DOMAIN copies[k], NEW table, NEW part \in {"checks", "plan"},
         GoodTable(ordered[t], table), Touch(k, t, table, part), UNCHANGED <<tabs, fetches, ordered, served>>,
         behind' \in [Tables -> BOOLEAN], \A y \in Tables : behind[y] => behind'[y],
         part = "plan" => behind'[t] \/ /\ tabs[t].plan \subseteq table.plan
                                        /\ \A u \in sent : u.table # t \/ u.part # "plan"
  PROVE  DeskInv'
  <1>. DEFINE new == Update(k, t, table, part)
  <1>1. /\ turns > 0 /\ turns' = turns - 1 /\ copies' = [copies EXCEPT ![k][t] = table] /\ sent' = sent \cup {new}
    BY DEF Touch
  <1>2. /\ copies = [i \in Tills |-> copies[i]] /\ \A i \in Tills : GoodTables(ordered, copies[i])
        /\ DOMAIN ordered = Known /\ Known \subseteq Tables /\ turns \in Nat
        /\ \A y \in Known : y \in DOMAIN tabs
    BY DEF DeskInv, Known
  <1>3. t \in Known
    BY <1>2 DEF GoodTables
  <1>4. copies' = [i \in Tills |-> copies'[i]] /\ \A i \in Tills : GoodTables(ordered, copies'[i])
    <2>. DEFINE mine == [copies[k] EXCEPT ![t] = table]
    <2>1. GoodTables(ordered, mine)
      BY <1>2, OneChanges
    <2>2. copies' = [copies EXCEPT ![k] = mine]
      BY <1>1
    <2>. HIDE DEF mine
    <2>. QED
      BY <1>2, <2>1, <2>2
  <1>5. new \in AnUpdate /\ new.table = t /\ new.part = part /\ new.as = table
    <2>1. table \in ATable
      BY DEF GoodTable
    <2>2. t \in Tables
      BY <1>2, <1>3
    <2>. QED
      BY <2>1, <2>2 DEF Update, AnUpdate
  <1>. HIDE DEF new
  <1>6. SentInv'
    <2>1. ASSUME NEW u \in sent
          PROVE  /\ u \in AnUpdate
                 /\ IF u.part = "all" THEN u.table \notin Known /\ u.as = NewTable /\ \A v \in sent' : v.table = u.table => v = u
                                      ELSE u.table \in Known /\ GoodTable(ordered[u.table], u.as)
      BY <1>1, <1>3, <1>5 DEF DeskInv, SentInv
    <2>. QED
      BY <1>1, <1>3, <1>5, <2>1 DEF SentInv, Known
  <1>7. PlanInv'
    <2>1. \A y \in Tables \ Known : served[y] = {}
      BY DEF DeskInv, PlanInv
    <2>2. ASSUME NEW y \in Known, ~behind'[y]
          PROVE  /\ served[y] \subseteq tabs[y].plan
                 /\ \A u, v \in sent' : u.table = y /\ u.part = "plan" /\ v.table = y /\ v.part = "plan" =>
                      u = v /\ tabs[y].plan \subseteq u.as.plan
      <3>1. ~behind[y]
        BY <1>2, <2>2
      <3>2. /\ served[y] \subseteq tabs[y].plan
            /\ \A u, v \in sent : u.table = y /\ u.part = "plan" /\ v.table = y /\ v.part = "plan" =>
                 u = v /\ tabs[y].plan \subseteq u.as.plan
        BY <3>1 DEF DeskInv, PlanInv
      <3>3. ASSUME y = t, part = "plan"
            PROVE  tabs[y].plan \subseteq table.plan /\ \A u \in sent : u.table # y \/ u.part # "plan"
        BY <2>2, <3>3
      <3>4. ASSUME NEW u \in sent', NEW v \in sent', u.table = y, u.part = "plan", v.table = y, v.part = "plan"
            PROVE  u = v /\ tabs[y].plan \subseteq u.as.plan
        <4>1. CASE u = new
          BY <1>1, <1>5, <3>3, <3>4, <4>1
        <4>2. CASE u \in sent
          BY <1>1, <1>5, <3>2, <3>3, <3>4, <4>2
        <4>. QED
          BY <1>1, <4>1, <4>2
      <3>. QED
        BY <3>2, <3>4
    <2>. QED
      BY <2>1, <2>2 DEF PlanInv, Known
  <1>8. turns' \in Nat
    BY <1>1, <1>2
  <1>. QED
    BY <1>2, <1>4, <1>6, <1>7, <1>8 DEF DeskInv, Known

LEMMA SplitTableKeeps ==
  ASSUME DeskInv, NEW k \in Tills, NEW t \in DOMAIN copies[k], SplitCheck(k, t) \/ MergeChecks(k, t)
  PROVE  DeskInv'
  <1>1. /\ UNCHANGED <<tabs, fetches, ordered, served, behind>>
        /\ behind \in [Tables -> BOOLEAN]
    BY DEF SplitCheck, MergeChecks, DeskInv
  <1>. DEFINE x == copies[k][t]
  <1>2. GoodTable(ordered[t], x)
    BY DEF DeskInv, GoodTables
  <1>3. x.checks \in Checks /\ Filled(x.checks) /\ Totals(x.checks) = ordered[t]
    BY <1>2, PartIs
  <1>4. CASE SplitCheck(k, t)
    <2>. DEFINE y == [x EXCEPT !.checks = Split(@)]
    <2>1. CanSplit(x.checks) /\ Touch(k, t, y, "checks")
      BY <1>4 DEF SplitCheck
    <2>2. Split(x.checks) \in Checks /\ Filled(Split(x.checks)) /\ Totals(Split(x.checks)) = ordered[t]
      BY <1>3, <2>1, SplitKeeps DEF Totals
    <2>3. GoodTable(ordered[t], [x EXCEPT !.checks = Split(x.checks)])
      <3>. HIDE DEF x
      <3>. QED
        BY <1>2, <2>2, PartIs
    <2>4. GoodTable(ordered[t], y)
      BY <2>3
    <2>. HIDE DEF y
    <2>. QED
      BY <1>1, <2>1, <2>4, TouchKeeps
  <1>5. CASE MergeChecks(k, t)
    <2>. DEFINE y == [x EXCEPT !.checks = Merge(@)]
    <2>1. Touch(k, t, y, "checks")
      BY <1>5 DEF MergeChecks
    <2>2. Merge(x.checks) \in Checks /\ Filled(Merge(x.checks)) /\ Totals(Merge(x.checks)) = ordered[t]
      BY <1>3, MergeKeeps DEF Totals
    <2>3. GoodTable(ordered[t], [x EXCEPT !.checks = Merge(x.checks)])
      <3>. HIDE DEF x
      <3>. QED
        BY <1>2, <2>2, PartIs
    <2>4. GoodTable(ordered[t], y)
      BY <2>3
    <2>. HIDE DEF y
    <2>. QED
      BY <1>1, <2>1, <2>4, TouchKeeps
  <1>. QED
    BY <1>4, <1>5

LEMMA ServeKeeps ==
  ASSUME DeskInv, NEW k \in Tills, NEW t \in DOMAIN copies[k], NEW c \in Courses, MarkCourseServed(k, t, c)
  PROVE  DeskInv'
  <1>. DEFINE x == copies[k][t]
              y == [x EXCEPT !.plan = @ \cup {c}]
              late == behind[t] \/ ~(tabs[t].plan \subseteq x.plan) \/ \E u \in sent : u.table = t /\ u.part = "plan"
  <1>1. /\ Touch(k, t, y, "plan") /\ UNCHANGED <<tabs, fetches, ordered, served>>
        /\ behind' = [behind EXCEPT ![t] = late]
    BY DEF MarkCourseServed
  <1>2. GoodTable(ordered[t], x)
    BY DEF DeskInv, GoodTables
  <1>3. GoodTable(ordered[t], y) /\ y.plan = x.plan \cup {c}
    <2>1. x.plan \cup {c} \in SUBSET Courses
      BY <1>2, PartIs
    <2>2. GoodTable(ordered[t], [x EXCEPT !.plan = x.plan \cup {c}]) /\ [x EXCEPT !.plan = x.plan \cup {c}].plan = x.plan \cup {c}
      <3>. HIDE DEF x
      <3>. QED
        BY <1>2, <2>1, PartIs
    <2>. QED
      BY <2>2
  <1>4. t \in Tables /\ behind \in [Tables -> BOOLEAN]
    BY DEF DeskInv, GoodTables, Known
  <1>5. late \in BOOLEAN
    OBVIOUS
  <1>6. ~late => tabs[t].plan \subseteq x.plan /\ \A u \in sent : u.table # t \/ u.part # "plan"
    OBVIOUS
  <1>7. behind[t] => late
    OBVIOUS
  <1>. HIDE DEF y, late
  <1>8. behind' \in [Tables -> BOOLEAN] /\ behind'[t] = late /\ \A z \in Tables \ {t} : behind'[z] = behind[z]
    BY <1>1, <1>4, <1>5
  <1>9. \A z \in Tables : behind[z] => behind'[z]
    BY <1>7, <1>8
  <1>10. behind'[t] \/ (tabs[t].plan \subseteq y.plan /\ \A u \in sent : u.table # t \/ u.part # "plan")
    BY <1>3, <1>6, <1>8
  <1>. QED
    BY <1>1, <1>3, <1>8, <1>9, <1>10, TouchKeeps

LEMMA CreateKeeps ==
  ASSUME DeskInv, NEW k \in Tills, NEW t \in Tables, CreateTable(k, t)
  PROVE  DeskInv'
  <1>. DEFINE new == Update(k, t, NewTable, "all")
  <1>1. /\ t \notin Known /\ (\A u \in sent : u.table # t) /\ turns > 0 /\ turns' = turns - 1
        /\ sent' = sent \cup {new} /\ UNCHANGED <<tabs, copies, fetches, ordered, served, behind>>
    BY DEF CreateTable, NewTable
  <1>2. new \in AnUpdate /\ new.table = t /\ new.part = "all" /\ new.as = NewTable
    BY FreshIs DEF Update, AnUpdate
  <1>. HIDE DEF new
  <1>3. SentInv'
    <2>1. ASSUME NEW u \in sent
          PROVE  /\ u \in AnUpdate
                 /\ IF u.part = "all" THEN u.table \notin Known /\ u.as = NewTable /\ \A v \in sent' : v.table = u.table => v = u
                                      ELSE u.table \in Known /\ GoodTable(ordered[u.table], u.as)
      BY <1>1, <1>2 DEF DeskInv, SentInv
    <2>. QED
      BY <1>1, <1>2, <2>1 DEF SentInv, Known
  <1>4. PlanInv'
    <2>1. \A u \in sent' : u.part = "plan" => u \in sent
      BY <1>1, <1>2
    <2>. QED
      BY <1>1, <2>1 DEF DeskInv, PlanInv, Known
  <1>5. turns' \in Nat
    BY <1>1 DEF DeskInv
  <1>. QED
    BY <1>1, <1>3, <1>4, <1>5 DEF DeskInv, Known

LEMMA OpenKeeps == ASSUME DeskInv, NEW u \in sent, OpenTable(u) PROVE DeskInv'
  <1>. DEFINE t == u.table
              k == u.till
  <1>1. /\ u.part = "all" /\ tabs' = With(tabs, t, u.as) /\ ordered' = With(ordered, t, Totals(u.as.checks))
        /\ copies' = [copies EXCEPT ![k] = With(@, t, u.as)] /\ sent' = sent \ {u}
        /\ UNCHANGED <<fetches, turns, served, behind>>
    BY DEF OpenTable
  <1>2. /\ k \in Tills /\ t \in Tables /\ t \notin Known /\ u.as = NewTable
        /\ \A v \in sent : v.table = t => v = u
    BY <1>1 DEF DeskInv, SentInv, AnUpdate
  <1>3. /\ DOMAIN ordered = Known /\ Known = DOMAIN tabs /\ Known \subseteq Tables
        /\ GoodTables(ordered, tabs) /\ copies = [i \in Tills |-> copies[i]]
        /\ (\A i \in Tills : GoodTables(ordered, copies[i]))
        /\ \A f \in fetches : f.till \in Tills /\ GoodTables(ordered, f.gave)
    BY DEF DeskInv, Known
  <1>. HIDE DEF t, k
  <1>4. /\ DOMAIN ordered' = {t} \cup DOMAIN ordered /\ ordered'[t] = Totals(NewTable.checks)
        /\ \A y \in DOMAIN ordered : ordered'[y] = ordered[y]
    BY <1>1, <1>2, <1>3 DEF With
  <1>5. DOMAIN tabs' = {t} \cup DOMAIN tabs /\ tabs'[t] = NewTable /\ \A y \in DOMAIN tabs : tabs'[y] = tabs[y]
    BY <1>1, <1>2, <1>3 DEF With
  <1>6. GoodTable(ordered'[t], NewTable)
    BY <1>4, FreshIs DEF GoodTable
  <1>7. \A list : GoodTables(ordered, list) => GoodTables(ordered', list) /\ GoodTables(ordered', With(list, t, NewTable))
    <2>. SUFFICES ASSUME NEW list, GoodTables(ordered, list)
                  PROVE  GoodTables(ordered', list) /\ GoodTables(ordered', With(list, t, NewTable))
      OBVIOUS
    <2>1. GoodTables(ordered', list)
      BY <1>4, MoreOrdered
    <2>2. t \in DOMAIN ordered'
      BY <1>4
    <2>. QED
      BY <1>6, <2>1, <2>2, OneMore
  <1>8. GoodTables(ordered', tabs')
    BY <1>1, <1>2, <1>3, <1>7
  <1>9. copies' = [i \in Tills |-> copies'[i]] /\ \A i \in Tills : GoodTables(ordered', copies'[i])
    <2>1. copies' = [i \in Tills |-> IF i = k THEN With(copies[k], t, NewTable) ELSE copies[i]]
      BY <1>1, <1>2, <1>3
    <2>. QED
      BY <1>3, <1>7, <2>1
  <1>10. \A f \in fetches' : f.till \in Tills /\ GoodTables(ordered', f.gave)
    BY <1>1, <1>3, <1>7
  <1>11. Known' = Known \cup {t}
    BY <1>3, <1>5 DEF Known
  <1>12. SentInv'
    <2>1. ASSUME NEW v \in sent'
          PROVE  /\ v \in AnUpdate
                 /\ IF v.part = "all" THEN v.table \notin Known' /\ v.as = NewTable /\ \A w \in sent' : w.table = v.table => w = v
                                      ELSE v.table \in Known' /\ GoodTable(ordered'[v.table], v.as)
      <3>1. v \in sent /\ v # u /\ v.table # t
        BY <1>1, <1>2
      <3>2. CASE v.part = "all"
        BY <1>1, <1>11, <3>1, <3>2 DEF DeskInv, SentInv
      <3>3. CASE v.part # "all"
        <4>1. v \in AnUpdate /\ v.table \in Known /\ GoodTable(ordered[v.table], v.as)
          BY <3>1, <3>3 DEF DeskInv, SentInv
        <4>. QED
          BY <1>3, <1>4, <1>11, <3>3, <4>1
      <3>. QED
        BY <3>2, <3>3
    <2>. QED
      BY <2>1 DEF SentInv
  <1>13. PlanInv'
    <2>1. served[t] = {}
      BY <1>2 DEF DeskInv, PlanInv
    <2>2. \A v \in sent' : v \in sent /\ v.table # t
      BY <1>1, <1>2
    <2>3. ASSUME NEW y \in Known', ~behind[y]
          PROVE  /\ served[y] \subseteq tabs'[y].plan
                 /\ \A v, w \in sent' : v.table = y /\ v.part = "plan" /\ w.table = y /\ w.part = "plan" =>
                      v = w /\ tabs'[y].plan \subseteq v.as.plan
      <3>1. CASE y = t
        BY <2>1, <2>2, <3>1
      <3>2. CASE y \in Known
        <4>1. /\ served[y] \subseteq tabs[y].plan
              /\ \A v, w \in sent : v.table = y /\ v.part = "plan" /\ w.table = y /\ w.part = "plan" =>
                   v = w /\ tabs[y].plan \subseteq v.as.plan
          BY <2>3, <3>2 DEF DeskInv, PlanInv
        <4>2. tabs'[y] = tabs[y]
          BY <1>3, <1>5, <3>2
        <4>. QED
          BY <2>2, <4>1, <4>2
      <3>. QED
        BY <1>11, <2>3, <3>1, <3>2
    <2>4. \A y \in Tables \ Known' : served[y] = {}
      BY <1>11 DEF DeskInv, PlanInv
    <2>. QED
      BY <1>1, <2>3, <2>4 DEF PlanInv
  <1>14. Known' \subseteq Tables /\ DOMAIN ordered' = Known'
    BY <1>2, <1>3, <1>4, <1>11
  <1>15. served' \in [Tables -> SUBSET Courses] /\ behind' \in [Tables -> BOOLEAN] /\ turns' \in Nat
    BY <1>1 DEF DeskInv
  <1>. QED
    BY <1>8, <1>9, <1>10, <1>12, <1>13, <1>14, <1>15 DEF DeskInv

\* What an update makes of the tables of the server.
LEMMA UpdatedIs ==
  ASSUME DeskInv, NEW u \in sent, u.part # "all"
  PROVE  /\ GoodTables(ordered, Updated(u)) /\ DOMAIN Updated(u) = Known /\ u.table \in Known
         /\ Updated(u)[u.table].plan = IF u.part = "plan" THEN u.as.plan ELSE tabs[u.table].plan
         /\ u.as.plan \subseteq Courses
         /\ \A y \in Known \ {u.table} : Updated(u)[y] = tabs[y]
  <1>. DEFINE t == u.table
              x == tabs[t]
  <1>1. /\ t \in Known /\ t \in DOMAIN tabs /\ Known = DOMAIN tabs /\ GoodTable(ordered[t], u.as)
        /\ GoodTables(ordered, tabs) /\ GoodTable(ordered[t], x)
    BY DEF DeskInv, SentInv, Known, GoodTables
  <1>2. u.as.checks \in Checks /\ Filled(u.as.checks) /\ Totals(u.as.checks) = ordered[t] /\ u.as.plan \subseteq Courses
    BY <1>1, PartIs
  <1>3. CASE u.part = "plan"
    <2>. DEFINE y == [x EXCEPT !.plan = u.as.plan]
    <2>1. Updated(u) = [tabs EXCEPT ![t] = y]
      BY <1>3 DEF Updated
    <2>2. GoodTable(ordered[t], y) /\ y.plan = u.as.plan
      <3>. HIDE DEF x, t
      <3>. QED
        BY <1>1, <1>2, PartIs
    <2>. HIDE DEF y, x, t
    <2>3. /\ GoodTables(ordered, Updated(u)) /\ DOMAIN Updated(u) = DOMAIN tabs /\ Updated(u)[t] = y
          /\ \A z \in DOMAIN tabs \ {t} : Updated(u)[z] = tabs[z]
      BY <1>1, <2>1, <2>2 DEF GoodTables
    <2>. QED
      BY <1>1, <1>2, <1>3, <2>2, <2>3 DEF t
  <1>4. CASE u.part # "plan"
    <2>. DEFINE y == [x EXCEPT !.checks = u.as.checks]
    <2>1. Updated(u) = [tabs EXCEPT ![t] = y]
      BY <1>4 DEF Updated
    <2>2. GoodTable(ordered[t], y) /\ y.plan = x.plan
      <3>. HIDE DEF x, t
      <3>. QED
        BY <1>1, <1>2, PartIs
    <2>. HIDE DEF y, t
    <2>3. /\ GoodTables(ordered, Updated(u)) /\ DOMAIN Updated(u) = DOMAIN tabs /\ Updated(u)[t] = y
          /\ \A z \in DOMAIN tabs \ {t} : Updated(u)[z] = tabs[z]
      BY <1>1, <2>1, <2>2 DEF GoodTables
    <2>. QED
      BY <1>1, <1>2, <1>4, <2>2, <2>3 DEF t
  <1>. QED
    BY <1>3, <1>4

\* An update that is made, or made and not answered.
LEMMA UpdateIs ==
  ASSUME DeskInv, NEW u \in sent, u.part # "all", tabs' = Updated(u), sent' = sent \ {u},
         UNCHANGED <<ordered, behind>>,
         \/ served' = served
         \/ u.part = "plan" /\ served' = [served EXCEPT ![u.table] = @ \cup u.as.plan]
  PROVE  /\ GoodTables(ordered', tabs') /\ Known' = Known /\ SentInv' /\ PlanInv'
         /\ served' \in [Tables -> SUBSET Courses]
  <1>. DEFINE t == u.table
  <1>1. /\ GoodTables(ordered, tabs') /\ DOMAIN tabs' = Known /\ t \in Known
        /\ tabs'[t].plan = IF u.part = "plan" THEN u.as.plan ELSE tabs[t].plan
        /\ u.as.plan \subseteq Courses
        /\ \A y \in Known \ {t} : tabs'[y] = tabs[y]
    BY UpdatedIs
  <1>2. Known' = Known
    BY <1>1 DEF Known
  <1>3. SentInv'
    BY <1>2 DEF DeskInv, SentInv
  <1>4. /\ served \in [Tables -> SUBSET Courses] /\ Known \subseteq Tables
    BY DEF DeskInv
  <1>5. /\ served' \in [Tables -> SUBSET Courses]
        /\ (\A y \in Tables \ {t} : served'[y] = served[y])
        /\ \/ served'[t] = served[t]
           \/ u.part = "plan" /\ served'[t] = served[t] \cup u.as.plan
    BY <1>1, <1>4
  <1>6. PlanInv'
    <2>1. \A y \in Tables \ Known : served'[y] = {}
      BY <1>1, <1>5 DEF DeskInv, PlanInv
    <2>2. ASSUME NEW y \in Known, ~behind[y]
          PROVE  /\ served'[y] \subseteq tabs'[y].plan
                 /\ \A v, w \in sent' : v.table = y /\ v.part = "plan" /\ w.table = y /\ w.part = "plan" =>
                      v = w /\ tabs'[y].plan \subseteq v.as.plan
      <3>1. /\ served[y] \subseteq tabs[y].plan
            /\ \A v, w \in sent : v.table = y /\ v.part = "plan" /\ w.table = y /\ w.part = "plan" =>
                 v = w /\ tabs[y].plan \subseteq v.as.plan
        BY <2>2 DEF DeskInv, PlanInv
      <3>2. CASE y # t
        BY <1>1, <1>4, <1>5, <3>1, <3>2
      <3>3. CASE y = t /\ u.part # "plan"
        BY <1>1, <1>5, <3>1, <3>3
      <3>4. CASE y = t /\ u.part = "plan"
        <4>1. tabs[y].plan \subseteq u.as.plan /\ tabs'[y].plan = u.as.plan
          BY <1>1, <3>1, <3>4
        <4>2. \A v \in sent' : ~(v.table = y /\ v.part = "plan")
          BY <3>1, <3>4
        <4>. QED
          BY <1>5, <3>1, <3>4, <4>1, <4>2
      <3>. QED
        BY <3>2, <3>3, <3>4
    <2>. QED
      BY <1>2, <2>1, <2>2 DEF PlanInv
  <1>. QED
    BY <1>1, <1>2, <1>3, <1>5, <1>6

LEMMA UpdateKeeps == ASSUME DeskInv, NEW u \in sent, UpdateTable(u) PROVE DeskInv'
  <1>1. /\ u.part # "all" /\ tabs' = Updated(u) /\ sent' = sent \ {u}
        /\ UNCHANGED <<copies, fetches, turns, ordered, behind>>
        /\ \/ served' = served
           \/ u.part = "plan" /\ served' = [served EXCEPT ![u.table] = @ \cup u.as.plan]
    BY DEF UpdateTable
  <1>2. /\ GoodTables(ordered', tabs') /\ Known' = Known /\ SentInv' /\ PlanInv'
        /\ served' \in [Tables -> SUBSET Courses]
    BY <1>1, UpdateIs
  <1>. QED
    BY <1>1, <1>2 DEF DeskInv

LEMMA FailureKeeps == ASSUME DeskInv, NEW u \in sent, UpdateFails(u) PROVE DeskInv'
  <1>1. /\ sent' = sent \ {u} /\ UNCHANGED <<copies, turns, ordered, served, behind>>
        /\ tabs' = tabs \/ (u.part # "all" /\ tabs' = Updated(u))
        /\ fetches' = fetches \/ fetches' = fetches \cup {[till |-> u.till, gave |-> tabs']}
    BY DEF UpdateFails
  <1>2. /\ GoodTables(ordered', tabs') /\ Known' = Known /\ SentInv' /\ PlanInv'
    <2>1. CASE tabs' = tabs
      <3>1. Known' = Known
        BY <2>1 DEF Known
      <3>2. SentInv'
        BY <1>1, <3>1 DEF DeskInv, SentInv
      <3>3. PlanInv'
        BY <1>1, <2>1, <3>1 DEF DeskInv, PlanInv
      <3>. QED
        BY <1>1, <2>1, <3>1, <3>2, <3>3 DEF DeskInv
    <2>2. CASE u.part # "all" /\ tabs' = Updated(u)
      BY <1>1, <2>2, UpdateIs
    <2>. QED
      BY <1>1, <2>1, <2>2
  <1>3. u.till \in Tills
    BY DEF DeskInv, SentInv, AnUpdate
  <1>4. \A f \in fetches' : f.till \in Tills /\ GoodTables(ordered', f.gave)
    BY <1>1, <1>2, <1>3 DEF DeskInv
  <1>. QED
    BY <1>1, <1>2, <1>4 DEF DeskInv

\* Loading the tables, and a list of them that arrives.
LEMMA ListsKeep ==
  ASSUME DeskInv, (\E k \in Tills : LoadTables(k)) \/ (\E f \in fetches : TablesArrive(f))
  PROVE  DeskInv'
  <1>1. ASSUME UNCHANGED <<tabs, sent, ordered, served, behind>> PROVE SentInv' /\ PlanInv' /\ Known' = Known
    BY <1>1 DEF DeskInv, SentInv, PlanInv, Known
  <1>2. CASE \E k \in Tills : LoadTables(k)
    <2>1. PICK k \in Tills : /\ turns > 0 /\ turns' = turns - 1
                             /\ fetches' = fetches \cup {[till |-> k, gave |-> tabs]}
                             /\ UNCHANGED <<tabs, copies, sent, ordered, served, behind>>
      BY <1>2 DEF LoadTables
    <2>2. \A f \in fetches' : f.till \in Tills /\ GoodTables(ordered, f.gave)
      BY <2>1 DEF DeskInv
    <2>3. turns' \in Nat
      BY <2>1 DEF DeskInv
    <2>. QED
      BY <1>1, <2>1, <2>2, <2>3 DEF DeskInv
  <1>3. CASE \E f \in fetches : TablesArrive(f)
    <2>1. PICK f \in fetches : /\ fetches' = fetches \ {f}
                               /\ copies' \in {copies, [copies EXCEPT ![f.till] = f.gave]}
                               /\ UNCHANGED <<tabs, sent, turns, ordered, served, behind>>
      BY <1>3 DEF TablesArrive
    <2>2. f.till \in Tills /\ GoodTables(ordered, f.gave)
      BY DEF DeskInv
    <2>3. copies' = [i \in Tills |-> copies'[i]] /\ \A i \in Tills : GoodTables(ordered, copies'[i])
      BY <2>1, <2>2 DEF DeskInv
    <2>. QED
      BY <1>1, <2>1, <2>3 DEF DeskInv
  <1>. QED
    BY <1>2, <1>3

\* The tables at first: one, with checks on it that lack nothing.
LEMMA DeskStart ==
  ASSUME NEW table \in Tables, NEW checks \in Checks, Filled(checks), NEW bound \in Nat,
         DeskInit(table, checks, bound)
  PROVE  DeskInv
  <1>1. /\ tabs = [t \in {table} |-> Table(checks, {})] /\ copies = [k \in Tills |-> tabs]
        /\ sent = {} /\ fetches = {} /\ turns = bound /\ ordered = [t \in {table} |-> Totals(checks)]
        /\ served = [t \in Tables |-> {}] /\ behind = [t \in Tables |-> FALSE]
    BY DEF DeskInit
  <1>2. GoodTable(Totals(checks), Table(checks, {}))
    BY DEF GoodTable, Table, ATable
  <1>3. GoodTables(ordered, tabs)
    BY <1>1, <1>2 DEF GoodTables
  <1>4. Known = {table} /\ DOMAIN ordered = {table} /\ Known \subseteq Tables
    BY <1>1 DEF Known
  <1>5. copies = [k \in Tills |-> copies[k]] /\ \A k \in Tills : copies[k] = tabs
    BY <1>1
  <1>6. SentInv
    BY <1>1 DEF SentInv
  <1>7. PlanInv
    BY <1>1, <1>4 DEF PlanInv
  <1>8. served \in [Tables -> SUBSET Courses] /\ behind \in [Tables -> BOOLEAN] /\ turns \in Nat
    BY <1>1
  <1>. QED
    BY <1>1, <1>3, <1>4, <1>5, <1>6, <1>7, <1>8 DEF DeskInv

\* Every step of the tables keeps their invariant.
LEMMA DeskKept == DeskInv /\ [DeskNext]_deskVars => DeskInv'
  <1>. SUFFICES ASSUME DeskInv, [DeskNext]_deskVars PROVE DeskInv'
    OBVIOUS
  <1>1. ASSUME NEW k \in Tills, NEW t \in DOMAIN copies[k],
               SplitCheck(k, t) \/ MergeChecks(k, t) \/ \E c \in Courses : MarkCourseServed(k, t, c)
        PROVE  DeskInv'
    BY <1>1, SplitTableKeeps, ServeKeeps
  <1>2. ASSUME NEW k \in Tills, NEW t \in Tables, CreateTable(k, t) PROVE DeskInv'
    BY <1>2, CreateKeeps
  <1>3. CASE (\E k \in Tills : LoadTables(k)) \/ (\E f \in fetches : TablesArrive(f))
    BY <1>3, ListsKeep
  <1>4. ASSUME NEW u \in sent, OpenTable(u) \/ UpdateTable(u) \/ UpdateFails(u) PROVE DeskInv'
    BY <1>4, OpenKeeps, UpdateKeeps, FailureKeeps
  <1>5. CASE UNCHANGED deskVars
    BY <1>5 DEF deskVars, DeskInv, SentInv, PlanInv, Known
  <1>. QED
    BY <1>1, <1>2, <1>3, <1>4, <1>5 DEF DeskNext

\* What is claimed of the tables follows.
LEMMA DeskFollows == DeskInv => DeskTypeOK /\ ItemsKept /\ ServedStaysServed
  <1>. SUFFICES ASSUME DeskInv PROVE DeskTypeOK /\ ItemsKept /\ ServedStaysServed
    OBVIOUS
  <1>1. \A list : GoodTables(ordered, list) =>
          /\ DOMAIN list \subseteq Known
          /\ \A t \in DOMAIN list : list[t] \in ATable /\ Totals(list[t].checks) = ordered[t] /\ Filled(list[t].checks)
    BY DEF DeskInv, GoodTables, GoodTable
  <1>2. GoodTables(ordered, tabs) /\ \A k \in Tills : GoodTables(ordered, copies[k])
    BY DEF DeskInv
  <1>3. DeskTypeOK
    <2>1. \A u \in sent : u.till \in Tills /\ u.table \in Tables /\ u.as \in ATable
      BY DEF DeskInv, SentInv, AnUpdate
    <2>2. \A f \in fetches : f.till \in Tills /\ DOMAIN f.gave \subseteq Known
      BY <1>1 DEF DeskInv
    <2>3. \A t \in Known : tabs[t] \in ATable
      BY <1>1, <1>2 DEF Known
    <2>. QED
      BY <1>1, <1>2, <2>1, <2>2, <2>3 DEF DeskTypeOK, DeskInv
  <1>4. ItemsKept
    <2>. SUFFICES ASSUME NEW copy \in {tabs} \cup {copies[k] : k \in Tills}, NEW t \in DOMAIN copy
                  PROVE  Totals(copy[t].checks) = ordered[t] /\ Filled(copy[t].checks)
      BY DEF ItemsKept
    <2>. QED
      BY <1>1, <1>2
  <1>5. ServedStaysServed
    BY DEF ServedStaysServed, DeskInv, PlanInv
  <1>. QED
    BY <1>3, <1>4, <1>5

=============================================================================
