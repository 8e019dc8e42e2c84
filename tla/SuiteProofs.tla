---------------------------- MODULE SuiteProofs ----------------------------
(***************************************************************************)
(* TLAPS proofs about Suite, for every trace and split mode: where the     *)
(* disk operations of a micro operation are in all_diskops, what their     *)
(* dependencies are, and which crash states test_combo_validity lets       *)
(* through because of them.                                                *)
(***************************************************************************)
EXTENDS Suite, TLAPS, WellFoundedInduction, SequenceTheorems

-----------------------------------------------------------------------------
(* Induction, with the property as a set                                   *)

\* A set of numbers that has an element has a least one.
LEMMA LeastElement ==
  ASSUME NEW S \in SUBSET Nat, S # {}
  PROVE  \E x \in S : \A y \in S : x <= y
<1> DEFINE R == {ss \in Nat \X Nat : ss[1] < ss[2]}
<1>1. IsWellFoundedOn(OpToRel(<, Nat), Nat)
  BY NatLessThanWellFounded
<1>2. OpToRel(<, Nat) = R
  BY Zenon DEF OpToRel
<1> HIDE DEF R
<1>3. IsWellFoundedOn(R, Nat)
  BY <1>1, <1>2, Zenon
<1>4. PICK x \in S : \A y \in S : ~(<<y, x>> \in R)
  BY <1>3, WFMin, Zenon
<1>5. ASSUME NEW y \in S PROVE x <= y
  <2>1. <<y, x>> \in Nat \X Nat /\ <<y, x>>[1] = y /\ <<y, x>>[2] = x
    OBVIOUS
  <2>2. ~(y < x)
    BY <1>4, <2>1, Zenon DEF R
  <2> QED
    BY <2>2
<1> QED
  BY <1>5

LEMMA StrongInduction ==
  ASSUME NEW S, \A n \in Nat : (\A m \in 0 .. n - 1 : m \in S) => n \in S
  PROVE  Nat \subseteq S
<1> SUFFICES ASSUME Nat \ S # {} PROVE FALSE
  OBVIOUS
<1>1. PICK x \in Nat \ S : \A y \in Nat \ S : x <= y
  BY LeastElement, Zenon
<1>2. \A m \in 0 .. x - 1 : m \in S
  BY <1>1
<1> QED
  BY <1>1, <1>2

LEMMA Induction ==
  ASSUME NEW S, 0 \in S, \A n \in Nat : n \in S => n + 1 \in S
  PROVE  Nat \subseteq S
<1>1. ASSUME NEW n \in Nat, \A m \in 0 .. n - 1 : m \in S PROVE n \in S
  <2>1. CASE n = 0
    BY <2>1
  <2>2. CASE n # 0
    <3>1. n - 1 \in 0 .. n - 1 /\ n - 1 \in Nat /\ (n - 1) + 1 = n
      BY <2>2
    <3> QED
      BY <1>1, <3>1
  <2> QED
    BY <2>1, <2>2
<1> QED
  BY <1>1, StrongInduction

-----------------------------------------------------------------------------
(* Where the disk operations of a micro operation start in all_diskops     *)

Sums(F, n, suite) == F = [x \in 0 .. n |-> IF x = 0 THEN 0 ELSE F[x - 1] + dops_len(suite, x - 1)]

HasLens(suite, n) == \A x \in 0 .. n - 1 : dops_len(suite, x) \in Nat

LEMMA SumsExist ==
  ASSUME NEW suite, NEW n \in Nat
  PROVE  \E F : Sums(F, n, suite)
<1> DEFINE S == {k \in Nat : \E F : Sums(F, k, suite)}
<1>1. 0 \in S
  <2>1. Sums([x \in 0 .. 0 |-> 0], 0, suite)
    BY DEF Sums
  <2> QED
    BY <2>1
<1>2. ASSUME NEW k \in Nat, k \in S PROVE k + 1 \in S
  <2>1. PICK F : Sums(F, k, suite)
    BY <1>2
  <2> DEFINE G == [x \in 0 .. k + 1 |-> IF x <= k THEN F[x] ELSE F[k] + dops_len(suite, k)]
  <2>2. \A x \in 0 .. k : F[x] = IF x = 0 THEN 0 ELSE F[x - 1] + dops_len(suite, x - 1)
    BY <2>1 DEF Sums
  <2>3. \A x \in 0 .. k + 1 : G[x] = IF x = 0 THEN 0 ELSE G[x - 1] + dops_len(suite, x - 1)
    <3> SUFFICES ASSUME NEW x \in 0 .. k + 1
                 PROVE  G[x] = IF x = 0 THEN 0 ELSE G[x - 1] + dops_len(suite, x - 1)
      OBVIOUS
    <3>1. CASE x <= k
      BY <2>2, <3>1
    <3>2. CASE x = k + 1
      <4>1. x # 0 /\ x - 1 = k /\ G[k] = F[k] /\ G[x] = F[k] + dops_len(suite, k)
        BY <3>2
      <4> QED
        BY <4>1, Zenon
    <3> QED
      BY <3>1, <3>2
  <2>4. G = [x \in 0 .. k + 1 |-> G[x]]
    OBVIOUS
  <2> HIDE DEF G
  <2>5. Sums(G, k + 1, suite)
    BY <2>3, <2>4, Zenon DEF Sums
  <2> QED
    BY <2>5
<1> HIDE DEF S
<1>3. n \in S
  BY <1>1, <1>2, Induction
<1> QED
  BY <1>3 DEF S

LEMMA SumsFacts ==
  ASSUME NEW suite, NEW n \in Nat, HasLens(suite, n), NEW F, Sums(F, n, suite)
  PROVE  /\ F[0] = 0
         /\ \A x \in 0 .. n - 1 : F[x + 1] = F[x] + dops_len(suite, x)
         /\ \A x \in 0 .. n : F[x] \in Nat
         /\ \A x, y \in 0 .. n : x <= y => F[x] <= F[y]
<1>0. \A x \in 0 .. n : F[x] = IF x = 0 THEN 0 ELSE F[x - 1] + dops_len(suite, x - 1)
  BY DEF Sums
<1>1. F[0] = 0
  BY <1>0
<1>2. ASSUME NEW x \in 0 .. n - 1 PROVE F[x + 1] = F[x] + dops_len(suite, x)
  <2>1. x + 1 \in 0 .. n /\ x + 1 # 0 /\ (x + 1) - 1 = x
    OBVIOUS
  <2> QED
    BY <1>0, <2>1
<1>3. \A x \in 0 .. n : F[x] \in Nat
  <2> DEFINE S == {x \in Nat : x <= n => F[x] \in Nat}
  <2>1. 0 \in S
    BY <1>1
  <2>2. ASSUME NEW x \in Nat, x \in S PROVE x + 1 \in S
    BY <1>2, <2>2 DEF HasLens
  <2> HIDE DEF S
  <2>3. Nat \subseteq S
    BY <2>1, <2>2, Induction
  <2> QED
    BY <2>3 DEF S
<1>4. \A x, y \in 0 .. n : x <= y => F[x] <= F[y]
  <2> DEFINE S == {y \in Nat : y <= n => \A x \in 0 .. y : F[x] <= F[y]}
  <2>1. 0 \in S
    BY <1>1
  <2>2. ASSUME NEW y \in Nat, y \in S PROVE y + 1 \in S
    <3> SUFFICES ASSUME y + 1 <= n, NEW x \in 0 .. y + 1 PROVE F[x] <= F[y + 1]
      OBVIOUS
    <3>1. F[y + 1] = F[y] + dops_len(suite, y) /\ dops_len(suite, y) \in Nat /\ F[y] \in Nat /\ F[x] \in Nat
      BY <1>2, <1>3 DEF HasLens
    <3>2. CASE x = y + 1
      BY <3>1, <3>2
    <3>3. CASE x <= y
      BY <2>2, <3>1, <3>3
    <3> QED
      BY <3>2, <3>3
  <2> HIDE DEF S
  <2>3. Nat \subseteq S
    BY <2>1, <2>2, Induction
  <2> QED
    BY <2>3 DEF S
<1> QED
  BY <1>1, <1>2, <1>3, <1>4

LEMMA SumsAgree ==
  ASSUME NEW suite, NEW n \in Nat, NEW k \in 0 .. n, NEW F, Sums(F, n, suite), NEW G, Sums(G, k, suite)
  PROVE  \A x \in 0 .. k : G[x] = F[x]
<1> DEFINE S == {x \in Nat : x <= k => G[x] = F[x]}
<1>0. /\ \A x \in 0 .. n : F[x] = IF x = 0 THEN 0 ELSE F[x - 1] + dops_len(suite, x - 1)
      /\ \A x \in 0 .. k : G[x] = IF x = 0 THEN 0 ELSE G[x - 1] + dops_len(suite, x - 1)
  BY DEF Sums
<1>1. 0 \in S
  BY <1>0
<1>2. ASSUME NEW x \in Nat, x \in S PROVE x + 1 \in S
  <2> SUFFICES ASSUME x + 1 <= k PROVE G[x + 1] = F[x + 1]
    OBVIOUS
  <2>1. G[x] = F[x]
    BY <1>2
  <2>2. x + 1 \in 0 .. n /\ x + 1 \in 0 .. k /\ x + 1 # 0 /\ (x + 1) - 1 = x
    OBVIOUS
  <2>3. F[x + 1] = F[x] + dops_len(suite, x) /\ G[x + 1] = G[x] + dops_len(suite, x)
    BY <1>0, <2>2
  <2> QED
    BY <2>1, <2>3
<1> HIDE DEF S
<1>3. Nat \subseteq S
  BY <1>1, <1>2, Induction
<1> QED
  BY <1>3 DEF S

\* dops_single: the place of disk operation d in all_diskops.
LEMMA SingleIs ==
  ASSUME NEW suite, NEW n \in Nat, NEW F, Sums(F, n, suite), NEW d, d[1] \in 0 .. n
  PROVE  dops_single(suite, d) = F[d[1]] + d[2]
<1> DEFINE G == CHOOSE f : f = [x \in 0 .. d[1] |-> IF x = 0 THEN 0 ELSE f[x - 1] + dops_len(suite, x - 1)]
<1>1. dops_single(suite, d) = G[d[1]] + d[2]
  BY Zenon DEF dops_single
<1>2. Sums(G, d[1], suite)
  BY SumsExist, SMTT(30) DEF Sums
<1> HIDE DEF G
<1>3. PICK k \in 0 .. n : k = d[1]
  OBVIOUS
<1>4. Sums(G, k, suite) /\ k \in 0 .. k
  BY <1>2, <1>3
<1>5. G[k] = F[k]
  BY <1>4, SumsAgree
<1> QED
  BY <1>1, <1>3, <1>5

\* What is known of a place in all_diskops that a disk operation has.
LEMMA Places ==
  ASSUME NEW suite, NEW n \in Nat, HasLens(suite, n), NEW F, Sums(F, n, suite)
  PROVE  /\ \A x \in 0 .. n - 1 : \A y \in 0 .. dops_len(suite, x) - 1 :
              /\ F[x] + y \in 0 .. F[n] - 1
              /\ \A z \in x + 1 .. n : F[x] + y < F[z]
         /\ \A x \in 0 .. n : \A p \in 0 .. F[x] - 1 :
              \E u \in 0 .. x - 1 : \E v \in 0 .. dops_len(suite, u) - 1 : p = F[u] + v
<1>0. /\ F[0] = 0
      /\ \A x \in 0 .. n - 1 : F[x + 1] = F[x] + dops_len(suite, x)
      /\ \A x \in 0 .. n : F[x] \in Nat
      /\ \A x, y \in 0 .. n : x <= y => F[x] <= F[y]
  BY SumsFacts
<1>1. ASSUME NEW x \in 0 .. n - 1, NEW y \in 0 .. dops_len(suite, x) - 1
      PROVE  /\ F[x] + y \in 0 .. F[n] - 1
             /\ \A z \in x + 1 .. n : F[x] + y < F[z]
  <2>1. x \in 0 .. n /\ x + 1 \in 0 .. n /\ n \in 0 .. n /\ x + 1 <= n /\ dops_len(suite, x) \in Nat
    BY DEF HasLens
  <2>2. F[x + 1] = F[x] + dops_len(suite, x) /\ F[x] \in Nat /\ F[n] \in Nat /\ F[x + 1] \in Nat
    BY <1>0, <2>1
  <2>3. F[x] + y < F[x + 1]
    BY <2>1, <2>2
  <2>4. ASSUME NEW z \in x + 1 .. n PROVE F[x] + y < F[z]
    <3>1. z \in 0 .. n /\ x + 1 <= z
      OBVIOUS
    <3>2. F[z] \in Nat /\ F[x + 1] <= F[z]
      BY <1>0, <2>1, <3>1
    <3> QED
      BY <2>1, <2>2, <2>3, <3>2
  <2>5. F[x] + y < F[n] /\ F[x] + y \in Nat
    BY <2>1, <2>2, <2>4
  <2> QED
    BY <2>2, <2>4, <2>5
<1>2. \A x \in 0 .. n : \A p \in 0 .. F[x] - 1 :
        \E u \in 0 .. x - 1 : \E v \in 0 .. dops_len(suite, u) - 1 : p = F[u] + v
  <2> DEFINE S == {x \in Nat : x <= n => \A p \in 0 .. F[x] - 1 :
                     \E u \in 0 .. x - 1 : \E v \in 0 .. dops_len(suite, u) - 1 : p = F[u] + v}
  <2>1. 0 \in S
    BY <1>0
  <2>2. ASSUME NEW x \in Nat, x \in S PROVE x + 1 \in S
    <3> SUFFICES ASSUME x + 1 <= n, NEW p \in 0 .. F[x + 1] - 1
                 PROVE  \E u \in 0 .. x : \E v \in 0 .. dops_len(suite, u) - 1 : p = F[u] + v
      OBVIOUS
    <3>1. x \in 0 .. n - 1 /\ x \in 0 .. n /\ dops_len(suite, x) \in Nat
      BY DEF HasLens
    <3>2. F[x] \in Nat /\ F[x + 1] = F[x] + dops_len(suite, x)
      BY <1>0, <3>1
    <3>3. CASE p < F[x]
      <4>1. p \in 0 .. F[x] - 1
        BY <3>2, <3>3
      <4> QED
        BY <2>2, <3>1, <4>1
    <3>4. CASE p >= F[x]
      <4>1. p - F[x] \in 0 .. dops_len(suite, x) - 1 /\ p = F[x] + (p - F[x])
        BY <3>1, <3>2, <3>4
      <4> QED
        BY <3>1, <4>1
    <3> QED
      BY <3>2, <3>3, <3>4
  <2> HIDE DEF S
  <2>3. Nat \subseteq S
    BY <2>1, <2>2, Induction
  <2> QED
    BY <2>3 DEF S
<1> QED
  BY <1>1, <1>2

\* Different disk operations have different places.
LEMMA PlacesDiffer ==
  ASSUME NEW suite, NEW n \in Nat, HasLens(suite, n), NEW F, Sums(F, n, suite),
         NEW x \in 0 .. n - 1, NEW y \in 0 .. dops_len(suite, x) - 1,
         NEW u \in 0 .. n - 1, NEW v \in 0 .. dops_len(suite, u) - 1,
         F[x] + y = F[u] + v
  PROVE  x = u /\ y = v
<1>1. F[x] \in Nat /\ F[u] \in Nat
  BY SumsFacts
<1>2. ~(x < u)
  <2> SUFFICES ASSUME x < u PROVE FALSE
    OBVIOUS
  <2>1. u \in x + 1 .. n
    OBVIOUS
  <2>2. F[x] + y < F[u]
    BY <2>1, Places
  <2> QED
    BY <1>1, <2>2
<1>3. ~(u < x)
  <2> SUFFICES ASSUME u < x PROVE FALSE
    OBVIOUS
  <2>1. x \in u + 1 .. n
    OBVIOUS
  <2>2. F[u] + v < F[x]
    BY <2>1, Places
  <2> QED
    BY <1>1, <2>2
<1>4. x = u
  BY <1>2, <1>3
<1> QED
  BY <1>1, <1>4

-----------------------------------------------------------------------------
(* all_diskops                                                             *)

Flat(G, n, seqs) == G = [i \in 1 .. n |-> IF i = 1 THEN seqs[i] ELSE G[i - 1] \o seqs[i]]

LEMMA FlatExists ==
  ASSUME NEW seqs, NEW n \in Nat
  PROVE  \E G : Flat(G, n, seqs)
<1> DEFINE S == {k \in Nat : \E G : Flat(G, k, seqs)}
<1>1. 0 \in S
  <2>1. Flat([x \in 1 .. 0 |-> 0], 0, seqs)
    BY DEF Flat
  <2> QED
    BY <2>1
<1>2. ASSUME NEW k \in Nat, k \in S PROVE k + 1 \in S
  <2>1. PICK G : Flat(G, k, seqs)
    BY <1>2
  <2> DEFINE next == IF k = 0 THEN seqs[1] ELSE G[k] \o seqs[k + 1]
             H == [x \in 1 .. k + 1 |-> IF x <= k THEN G[x] ELSE next]
  <2>2. \A x \in 1 .. k : G[x] = IF x = 1 THEN seqs[x] ELSE G[x - 1] \o seqs[x]
    BY <2>1, Zenon DEF Flat
  <2>3. ASSUME NEW x \in 1 .. k + 1
        PROVE  H[x] = IF x = 1 THEN seqs[x] ELSE H[x - 1] \o seqs[x]
    <3>1. CASE x <= k
      <4>1. H[x] = G[x] /\ (x # 1 => H[x - 1] = G[x - 1])
        BY <3>1
      <4> HIDE DEF H
      <4> QED
        BY <2>2, <3>1, <4>1
    <3>2. CASE x = k + 1
      <4>1. H[x] = next /\ (x # 1 => H[x - 1] = G[k] /\ k # 0) /\ (x = 1 => k = 0)
        BY <3>2
      <4> HIDE DEF H
      <4> QED
        BY <3>2, <4>1
    <3> QED
      BY <3>1, <3>2
  <2>4. H = [x \in 1 .. k + 1 |-> H[x]]
    OBVIOUS
  <2> HIDE DEF H
  <2>5. Flat(H, k + 1, seqs)
    BY <2>3, <2>4, Zenon DEF Flat
  <2> QED
    BY <2>5
<1> HIDE DEF S
<1>3. n \in S
  BY <1>1, <1>2, Induction
<1> QED
  BY <1>3 DEF S

Lists(seqs, n, T, suite) ==
  /\ \A x \in 1 .. n : seqs[x] \in Seq(T)
  /\ \A x \in 0 .. n - 1 : dops_len(suite, x) = Len(seqs[x + 1])

\* A list of lists, put one after the other.
LEMMA FlatIs ==
  ASSUME NEW T, NEW n \in Nat \ {0}, NEW seqs, NEW suite, Lists(seqs, n, T, suite),
         NEW F, Sums(F, n, suite), NEW G, Flat(G, n, seqs)
  PROVE  /\ G[n] \in Seq(T) /\ Len(G[n]) = F[n]
         /\ \A x \in 0 .. n - 1 : \A y \in 1 .. dops_len(suite, x) : G[n][F[x] + y] = seqs[x + 1][y]
<1>l. /\ \A x \in 1 .. n : seqs[x] \in Seq(T)
      /\ \A x \in 0 .. n - 1 : dops_len(suite, x) = Len(seqs[x + 1])
  BY DEF Lists
<1>0. HasLens(suite, n)
  BY <1>l DEF HasLens
<1>1. /\ F[0] = 0
      /\ \A x \in 0 .. n - 1 : F[x + 1] = F[x] + dops_len(suite, x)
      /\ \A x \in 0 .. n : F[x] \in Nat
  BY <1>0, SumsFacts
<1>2. \A x \in 1 .. n : G[x] = IF x = 1 THEN seqs[x] ELSE G[x - 1] \o seqs[x]
  BY Zenon DEF Flat
<1> DEFINE Is(k) == /\ G[k] \in Seq(T) /\ Len(G[k]) = F[k]
                    /\ \A x \in 0 .. k - 1 : \A y \in 1 .. dops_len(suite, x) :
                         G[k][F[x] + y] = seqs[x + 1][y]
           S == {k \in Nat : k + 1 <= n => Is(k + 1)}
<1>3. 0 \in S
  <2>1. 1 \in 1 .. n /\ 0 \in 0 .. n - 1 /\ 0 + 1 = 1
    OBVIOUS
  <2>2. G[1] = seqs[1] /\ F[1] = F[0] + dops_len(suite, 0) /\ dops_len(suite, 0) = Len(seqs[1])
    BY <1>l, <1>1, <1>2, <2>1
  <2>3. seqs[1] \in Seq(T) /\ Len(seqs[1]) \in Nat
    BY <1>l, <2>1
  <2>4. \A x \in 0 .. 0 : x = 0
    OBVIOUS
  <2>5. Is(1)
    BY <1>1, <2>2, <2>3, <2>4
  <2> QED
    BY <2>5
<1>4. ASSUME NEW k \in Nat, k \in S PROVE k + 1 \in S
  <2> SUFFICES ASSUME k + 2 <= n PROVE Is(k + 2)
    OBVIOUS
  <2> DEFINE a == k + 1
             b == k + 2
  <2>0. a \in 1 .. n /\ b \in 1 .. n /\ a \in 0 .. n - 1 /\ b = a + 1 /\ b # 1 /\ b - 1 = a /\ a \in Nat
    OBVIOUS
  <2>1. Is(a)
    BY <1>4, <2>0
  <2> HIDE DEF a, b
  <2>2. /\ G[b] = G[a] \o seqs[b] /\ F[b] = F[a] + dops_len(suite, a) /\ dops_len(suite, a) = Len(seqs[b])
        /\ seqs[b] \in Seq(T) /\ F[a] \in Nat
    <3>1. G[b] = G[a] \o seqs[b]
      BY <1>2, <2>0, Zenon
    <3>2. F[b] = F[a] + dops_len(suite, a) /\ F[a] \in Nat
      BY <1>1, <2>0
    <3>3. dops_len(suite, a) = Len(seqs[b]) /\ seqs[b] \in Seq(T)
      BY <1>l, <2>0
    <3> QED
      BY <3>1, <3>2, <3>3
  <2>3. /\ G[b] \in Seq(T) /\ Len(G[b]) = F[b]
        /\ \A p \in 1 .. F[a] : G[b][p] = G[a][p]
        /\ \A p \in 1 .. dops_len(suite, a) : G[b][F[a] + p] = seqs[b][p]
    <3> DEFINE s == G[a]
               t == seqs[b]
    <3>1. Len(s) = F[a] /\ s \in Seq(T) /\ t \in Seq(T) /\ Len(t) = dops_len(suite, a) /\ G[b] = s \o t
      BY <2>1, <2>2
    <3> HIDE DEF s, t
    <3>2. /\ s \o t \in Seq(T) /\ Len(s \o t) = Len(s) + Len(t)
          /\ \A p \in 1 .. Len(s) : (s \o t)[p] = s[p]
          /\ \A p \in 1 .. Len(t) : (s \o t)[Len(s) + p] = t[p]
      <4>1. s \in Seq(T) /\ t \in Seq(T)
        BY <3>1
      <4> QED
        BY <4>1
    <3> DEFINE c == s \o t
    <3>3. G[b] = c
      BY <3>1
    <3> HIDE DEF c
    <3>4. /\ c \in Seq(T) /\ Len(c) = F[b]
          /\ \A p \in 1 .. F[a] : c[p] = s[p]
          /\ \A p \in 1 .. dops_len(suite, a) : c[F[a] + p] = t[p]
      BY <2>2, <3>1, <3>2, Zenon DEF c
    <3> QED
      BY <3>3, <3>4 DEF s, t
  <2>4. ASSUME NEW x \in 0 .. b - 1, NEW y \in 1 .. dops_len(suite, x)
        PROVE  G[b][F[x] + y] = seqs[x + 1][y]
    <3>1. CASE x = a
      BY <2>0, <2>3, <3>1
    <3>2. CASE x # a
      <4>1. x \in 0 .. a - 1 /\ x \in 0 .. n - 1 /\ y - 1 \in 0 .. dops_len(suite, x) - 1
        BY <1>0, <2>0, <3>2 DEF HasLens
      <4>2. a \in x + 1 .. n
        BY <2>0, <4>1
      <4>3. F[x] + (y - 1) < F[a] /\ F[x] \in Nat
        BY <1>0, <1>1, <4>1, <4>2, Places
      <4>4. F[x] + y \in 1 .. F[a]
        BY <1>0, <2>2, <4>1, <4>3 DEF HasLens
      <4> QED
        BY <2>1, <2>3, <4>1, <4>4
    <3> QED
      BY <3>1, <3>2
  <2>5. Is(b)
    BY <2>3, <2>4
  <2> QED
    BY <2>5 DEF b
<1> HIDE DEF S
<1>5. Nat \subseteq S
  BY <1>3, <1>4, Induction
<1>6. n - 1 \in Nat /\ (n - 1) + 1 = n
  OBVIOUS
<1>7. Is(n)
  <2>1. n - 1 \in S
    BY <1>5, <1>6
  <2> HIDE DEF Is
  <2> QED
    BY <1>6, <2>1 DEF S
<1> QED
  BY <1>7

\* all_diskops has the disk operations of every micro operation, in order.
LEMMA AllIs ==
  ASSUME NEW trace, NEW mode, IsTrace(trace, mode)
  PROVE  \E F : /\ Sums(F, Len(trace), set_fs(trace, mode))
                /\ HasLens(set_fs(trace, mode), Len(trace))
                /\ DOMAIN AllDiskOps(trace, mode) = 0 .. F[Len(trace)] - 1
                /\ \A x \in 0 .. Len(trace) - 1 : \A y \in 0 .. dops_len(set_fs(trace, mode), x) - 1 :
                     AllDiskOps(trace, mode)[F[x] + y] = set_fs(trace, mode).dops[x][y + 1]
<1> DEFINE n == Len(trace)
           suite == set_fs(trace, mode)
           seqs == [x \in 1 .. n |-> get_disk_ops(mode, trace[x])]
           T == UNION {{seqs[x][y] : y \in DOMAIN seqs[x]} : x \in 1 .. n}
<1>1. n \in Nat \ {0} /\ Len(seqs) = n
  BY DEF IsTrace
<1>2. \A x \in 1 .. n : seqs[x] \in Seq(T)
  <2> SUFFICES ASSUME NEW x \in 1 .. n PROVE seqs[x] \in Seq(T)
    BY Zenon
  <2> DEFINE s == seqs[x]
             U == {s[y] : y \in DOMAIN s}
  <2>1. s \in Seq(U)
    BY DEF IsTrace
  <2>2. U \subseteq T
    OBVIOUS
  <2> HIDE DEF s, U, T
  <2>3. s \in Seq(T)
    BY <2>1, <2>2
  <2> QED
    BY <2>3 DEF s
<1>3. \A x \in 0 .. n - 1 : suite.dops[x] = seqs[x + 1] /\ dops_len(suite, x) = Len(seqs[x + 1])
  BY <1>1 DEF set_fs, HiddenDiskOps, dops_len
<1> DEFINE G == CHOOSE f : f = [x \in 1 .. Len(seqs) |-> IF x = 1 THEN seqs[x] ELSE f[x - 1] \o seqs[x]]
           all == Concat(seqs)
<1>4. AllDiskOps(trace, mode) = [x \in 0 .. Len(all) - 1 |-> all[x + 1]]
  BY Zenon DEF AllDiskOps
<1> HIDE DEF seqs, suite, T
<1>5. Concat(seqs) = G[Len(seqs)]
  <2>1. Len(seqs) # 0
    BY <1>1
  <2> QED
    BY <2>1, Zenon DEF Concat
<1>6. Flat(G, n, seqs)
  <2>1. G = CHOOSE f : Flat(f, n, seqs)
    BY <1>1, Zenon DEF Flat
  <2>2. \E f : Flat(f, n, seqs)
    BY <1>1, FlatExists
  <2> HIDE DEF G, n
  <2> QED
    BY <2>1, <2>2, Zenon
<1> HIDE DEF G, n, all
<1>7. PICK F : Sums(F, n, suite)
  BY <1>1, SumsExist
<1>8. HasLens(suite, n)
  BY <1>2, <1>3 DEF HasLens
<1>9. /\ G[n] \in Seq(T) /\ Len(G[n]) = F[n]
      /\ \A x \in 0 .. n - 1 : \A y \in 1 .. dops_len(suite, x) : G[n][F[x] + y] = seqs[x + 1][y]
  <2>1. Lists(seqs, n, T, suite) /\ n \in Nat \ {0}
    BY <1>1, <1>2, <1>3 DEF Lists
  <2> QED
    BY <1>6, <1>7, <2>1, FlatIs
<1>10. all = G[n]
  BY <1>1, <1>5 DEF all
<1>11. DOMAIN AllDiskOps(trace, mode) = 0 .. F[n] - 1
  BY <1>4, <1>9, <1>10
<1>12. ASSUME NEW x \in 0 .. n - 1, NEW y \in 0 .. dops_len(suite, x) - 1
       PROVE  AllDiskOps(trace, mode)[F[x] + y] = suite.dops[x][y + 1]
  <2>1. F[x] + y \in 0 .. F[n] - 1 /\ F[x] \in Nat /\ dops_len(suite, x) \in Nat
    <3>1. n \in Nat /\ x \in 0 .. n
      BY <1>1
    <3>2. F[x] \in Nat
      BY <1>7, <1>8, <3>1, SumsFacts
    <3>3. F[x] + y \in 0 .. F[n] - 1
      BY <1>7, <1>8, <3>1, Places
    <3> QED
      BY <1>8, <3>2, <3>3 DEF HasLens
  <2>2. y + 1 \in 1 .. dops_len(suite, x) /\ F[x] + (y + 1) = (F[x] + y) + 1
    BY <2>1
  <2>3. AllDiskOps(trace, mode)[F[x] + y] = all[F[x] + (y + 1)]
    BY <1>4, <1>9, <1>10, <2>1, <2>2, Zenon
  <2> QED
    BY <1>3, <1>9, <1>10, <2>2, <2>3
<1> QED
  BY <1>7, <1>8, <1>11, <1>12 DEF n, suite

-----------------------------------------------------------------------------
(* The dependencies                                                        *)

Direct(all, x) == Fs(all, <<>>)!FsDeps(x, LastSync(all, x))
SyncPoint(all, x) == Fs(all, <<>>)!IsSyncPoint(x)
Flushed(all, y, x) == Fs(all, <<>>)!Synced(y, x)

\* last_sync is the nearest sync point.
LEMMA LastSyncIs ==
  ASSUME NEW all, NEW x \in Nat
  PROVE  \/ LastSync(all, x) = -1 /\ \A s \in 0 .. x - 1 : ~SyncPoint(all, s)
         \/ /\ LastSync(all, x) \in 0 .. x - 1 /\ SyncPoint(all, LastSync(all, x))
            /\ \A s \in 0 .. x - 1 : SyncPoint(all, s) => s <= LastSync(all, x)
<1> DEFINE before == {s \in 0 .. x - 1 : SyncPoint(all, s)}
<1>1. LastSync(all, x) = IF before = {} THEN -1 ELSE CHOOSE s \in before : \A t \in before : t <= s
  BY Zenon DEF LastSync, SyncPoint
<1>2. ASSUME before # {} PROVE \E s \in before : \A t \in before : t <= s
  <2> DEFINE S == {y \in Nat : \E s \in before : y = x - s}
  <2>1. S \in SUBSET Nat /\ S # {}
    <3>1. PICK s \in before : TRUE
      BY <1>2
    <3>2. x - s \in S
      BY <3>1
    <3> QED
      BY <3>2, Zenon
  <2>2. PICK y \in S : \A z \in S : y <= z
    BY <2>1, LeastElement, Zenon
  <2>3. PICK s \in before : y = x - s
    BY <2>2
  <2>4. ASSUME NEW t \in before PROVE t <= s
    <3>1. x - t \in S /\ t \in Nat /\ s \in Nat
      BY <2>3, <2>4
    <3> QED
      BY <2>2, <2>3, <3>1, SMTT(30)
  <2> QED
    BY <2>4
<1>3. CASE before = {}
  BY <1>1, <1>3
<1>4. CASE before # {}
  BY <1>1, <1>2, <1>4
<1> QED
  BY <1>3, <1>4

LEMMA DirectIs ==
  ASSUME NEW all, NEW x \in Nat
  PROVE  /\ Direct(all, x) \subseteq 0 .. x - 1
         /\ LastSync(all, x) # -1 => LastSync(all, x) \in Direct(all, x)
         /\ all[x].op = "sync" => \A y \in Fs(all, <<>>)!Scanned(x) : Flushed(all, y, x) => y \in Direct(all, x)
<1>1. LastSync(all, x) = -1 \/ LastSync(all, x) \in 0 .. x - 1
  BY LastSyncIs
<1>2. Fs(all, <<>>)!Scanned(x) \subseteq 0 .. x - 1
  BY DEF Fs!Scanned
<1> QED
  BY <1>1, <1>2 DEF Direct, Flushed, Fs!FsDeps, Fs!None

\* D is the transitive closure of dir on the first n operations.
Closure(D, n, dir) == D = [x \in 0 .. n - 1 |-> dir[x] \cup UNION {D[y] : y \in dir[x]}]
Backward(dir, n) == \A x \in 0 .. n - 1 : dir[x] \subseteq 0 .. x - 1

LEMMA ClosureExists ==
  ASSUME NEW dir, NEW n \in Nat, Backward(dir, n)
  PROVE  \E D : Closure(D, n, dir)
<1> DEFINE S == {k \in Nat : k <= n => \E D : Closure(D, k, dir)}
<1>1. 0 \in S
  <2>1. Closure([x \in 0 .. 0 - 1 |-> {}], 0, dir)
    BY DEF Closure
  <2> QED
    BY <2>1
<1>2. ASSUME NEW k \in Nat, k \in S PROVE k + 1 \in S
  <2> SUFFICES ASSUME k + 1 <= n PROVE \E D : Closure(D, k + 1, dir)
    OBVIOUS
  <2>1. PICK D : Closure(D, k, dir)
    BY <1>2
  <2> DEFINE next == dir[k] \cup UNION {D[y] : y \in dir[k]}
             E == [x \in 0 .. k |-> IF x < k THEN D[x] ELSE next]
  <2>2. \A x \in 0 .. k - 1 : D[x] = dir[x] \cup UNION {D[y] : y \in dir[x]}
    BY <2>1, Zenon DEF Closure
  <2>3. E = [x \in 0 .. k |-> E[x]] /\ E[k] = next /\ \A x \in 0 .. k - 1 : E[x] = D[x]
    OBVIOUS
  <2> HIDE DEF E
  <2>4. \A x \in 0 .. k : {E[y] : y \in dir[x]} = {D[y] : y \in dir[x]}
    <3> SUFFICES ASSUME NEW x \in 0 .. k, NEW y \in dir[x] PROVE E[y] = D[y]
      OBVIOUS
    <3>1. y \in 0 .. x - 1
      BY DEF Backward
    <3>2. y \in 0 .. k - 1
      BY <3>1
    <3> QED
      BY <2>3, <3>2
  <2>5. ASSUME NEW x \in 0 .. k PROVE E[x] = dir[x] \cup UNION {E[y] : y \in dir[x]}
    <3>1. CASE x = k
      BY <2>3, <2>4, <3>1, Zenon
    <3>2. CASE x # k
      <4>1. x \in 0 .. k - 1
        BY <3>2
      <4>2. E[x] = dir[x] \cup UNION {D[y] : y \in dir[x]}
        BY <2>2, <2>3, <4>1
      <4> QED
        BY <2>4, <4>2, Zenon
    <3> QED
      BY <3>1, <3>2
  <2>6. (k + 1) - 1 = k
    OBVIOUS
  <2>7. Closure(E, k + 1, dir)
    BY <2>3, <2>5, <2>6 DEF Closure
  <2> QED
    BY <2>7
<1> HIDE DEF S
<1>3. n \in S
  BY <1>1, <1>2, Induction
<1> QED
  BY <1>3 DEF S

\* The dependencies that set_fs leaves are the closure of those of get_deps.
LEMMA DepsIs ==
  ASSUME NEW all, NEW n \in Nat, DOMAIN all = 0 .. n - 1
  PROVE  \A x \in 0 .. n - 1 :
           /\ Direct(all, x) \subseteq Deps(all)[x]
           /\ \A y \in Direct(all, x) : Deps(all)[y] \subseteq Deps(all)[x]
           /\ \A z \in Deps(all)[x] : z \in Direct(all, x) \/ \E y \in Direct(all, x) : z \in Deps(all)[y]
<1> DEFINE dir == [x \in 0 .. n - 1 |-> Direct(all, x)]
<1>1. Deps(all) = CHOOSE f : f = [x \in DOMAIN all |-> Direct(all, x) \cup UNION {f[y] : y \in Direct(all, x)}]
  BY Zenon DEF Deps, Direct
<1>2. \A f : f = [x \in DOMAIN all |-> Direct(all, x) \cup UNION {f[y] : y \in Direct(all, x)}]
               <=> Closure(f, n, dir)
  BY DEF Closure
<1>3. Backward(dir, n)
  BY DirectIs DEF Backward
<1>4. \A x \in 0 .. n - 1 : dir[x] = Direct(all, x)
  OBVIOUS
<1> HIDE DEF dir
<1>5. \E f : Closure(f, n, dir)
  BY <1>3, ClosureExists
<1>6. Closure(Deps(all), n, dir)
  BY <1>1, <1>2, <1>5
<1>7. \A x \in 0 .. n - 1 : Deps(all)[x] = Direct(all, x) \cup UNION {Deps(all)[y] : y \in Direct(all, x)}
  BY <1>4, <1>6, Zenon DEF Closure
<1> QED
  BY <1>7

\* Dependencies are on earlier operations, are transitive, and are on every
\* sync point before the operation.
LEMMA DepsOrdered ==
  ASSUME NEW all, NEW n \in Nat, DOMAIN all = 0 .. n - 1
  PROVE  \A x \in 0 .. n - 1 :
           /\ Deps(all)[x] \subseteq 0 .. x - 1
           /\ \A y \in Deps(all)[x] : Deps(all)[y] \subseteq Deps(all)[x]
           /\ \A s \in 0 .. x - 1 : SyncPoint(all, s) => s \in Deps(all)[x]
<1> DEFINE D == Deps(all)
           Good(x) == /\ D[x] \subseteq 0 .. x - 1
                      /\ \A y \in D[x] : D[y] \subseteq D[x]
                      /\ \A s \in 0 .. x - 1 : SyncPoint(all, s) => s \in D[x]
           S == {x \in Nat : x < n => Good(x)}
<1>1. ASSUME NEW x \in Nat, \A y \in 0 .. x - 1 : y \in S PROVE x \in S
  <2> SUFFICES ASSUME x < n PROVE Good(x)
    OBVIOUS
  <2>0. x \in 0 .. n - 1 /\ \A y \in 0 .. x - 1 : Good(y)
    BY <1>1
  <2>1. /\ Direct(all, x) \subseteq D[x]
        /\ \A y \in Direct(all, x) : D[y] \subseteq D[x]
        /\ \A z \in D[x] : z \in Direct(all, x) \/ \E y \in Direct(all, x) : z \in D[y]
    BY <2>0, DepsIs
  <2>2. Direct(all, x) \subseteq 0 .. x - 1
    BY DirectIs
  <2> HIDE DEF D
  <2>3. D[x] \subseteq 0 .. x - 1
    <3> SUFFICES ASSUME NEW z \in D[x] PROVE z \in 0 .. x - 1
      OBVIOUS
    <3>1. CASE z \in Direct(all, x)
      BY <2>2, <3>1
    <3>2. CASE \E y \in Direct(all, x) : z \in D[y]
      <4>1. PICK y \in Direct(all, x) : z \in D[y]
        BY <3>2
      <4>2. y \in 0 .. x - 1
        BY <2>2
      <4>3. z \in 0 .. y - 1
        BY <2>0, <4>1, <4>2
      <4> QED
        BY <4>2, <4>3
    <3> QED
      BY <2>1, <3>1, <3>2
  <2>4. ASSUME NEW z \in D[x] PROVE D[z] \subseteq D[x]
    <3>1. CASE z \in Direct(all, x)
      BY <2>1, <3>1
    <3>2. CASE \E y \in Direct(all, x) : z \in D[y]
      <4>1. PICK y \in Direct(all, x) : z \in D[y]
        BY <3>2
      <4>2. D[z] \subseteq D[y] /\ D[y] \subseteq D[x]
        BY <2>0, <2>1, <2>2, <4>1
      <4> QED
        BY <4>2
    <3> QED
      BY <2>1, <3>1, <3>2
  <2>5. ASSUME NEW s \in 0 .. x - 1, SyncPoint(all, s) PROVE s \in D[x]
    <3> DEFINE l == LastSync(all, x)
    <3>1. l \in 0 .. x - 1 /\ s <= l
      BY <2>5, LastSyncIs
    <3>2. l \in Direct(all, x)
      BY <3>1, DirectIs
    <3> HIDE DEF l
    <3>3. CASE s = l
      BY <2>1, <3>2, <3>3
    <3>4. CASE s # l
      <4>1. s \in 0 .. l - 1
        BY <3>1, <3>4
      <4>2. s \in D[l]
        BY <2>0, <2>5, <3>1, <4>1
      <4> QED
        BY <2>1, <3>2, <4>2
    <3> QED
      BY <3>3, <3>4
  <2> QED
    BY <2>3, <2>4, <2>5
<1> HIDE DEF S
<1>2. Nat \subseteq S
  BY <1>1, StrongInduction
<1> QED
  BY <1>2 DEF S

HasRanges(all) == \A x \in DOMAIN all : all[x].offset \in Int /\ all[x].count \in Int

\* A sync depends on every operation that it makes durable, also on those that
\* an earlier sync of a larger range hides from its scan.
LEMMA DepsDurable ==
  ASSUME NEW all, NEW n \in Nat, DOMAIN all = 0 .. n - 1, HasRanges(all)
  PROVE  \A x \in 0 .. n - 1 : all[x].op = "sync" =>
           \A y \in 0 .. x - 1 : Flushed(all, y, x) => y \in Deps(all)[x]
<1> DEFINE D == Deps(all)
           Good(x) == all[x].op = "sync" => \A y \in 0 .. x - 1 : Flushed(all, y, x) => y \in D[x]
           S == {x \in Nat : x < n => Good(x)}
<1>1. ASSUME NEW x \in Nat, \A y \in 0 .. x - 1 : y \in S PROVE x \in S
  <2> SUFFICES ASSUME x < n, all[x].op = "sync", NEW y \in 0 .. x - 1, Flushed(all, y, x)
               PROVE  y \in D[x]
    OBVIOUS
  <2>0. x \in 0 .. n - 1 /\ \A z \in 0 .. x - 1 : Good(z)
    BY <1>1
  <2>1. CASE y \in Fs(all, <<>>)!Scanned(x)
    <3>1. y \in Direct(all, x)
      BY <2>1, DirectIs
    <3> QED
      BY <2>0, <3>1, DepsIs
  <2>2. CASE y \notin Fs(all, <<>>)!Scanned(x)
    <3>1. PICK z \in y .. x - 1 : Fs(all, <<>>)!Covers(z, x)
      BY <2>2 DEF Fs!Scanned
    <3>2. /\ all[z].op = "sync" /\ all[z].inode = all[x].inode /\ all[z].offset <= all[x].offset
          /\ all[z].offset + all[z].count >= all[x].offset + all[x].count
      BY <3>1 DEF Fs!Covers, Fs!End
    <3>3. all[y].op # "sync"
      BY DEF Flushed, Fs!Synced, Fs!IsDirEntry
    <3>4. z \in 0 .. x - 1 /\ z \in 0 .. n - 1 /\ y \in 0 .. n - 1 /\ y \in 0 .. z - 1
      BY <2>0, <3>1, <3>2, <3>3
    <3>5. Flushed(all, y, z)
      <4>1. /\ all[x].offset \in Int /\ all[x].count \in Int /\ all[y].offset \in Int
            /\ all[z].offset \in Int /\ all[z].count \in Int
        BY <2>0, <3>4 DEF HasRanges
      <4>2. Fs(all, <<>>)!InRange(all[y].offset, x) => Fs(all, <<>>)!InRange(all[y].offset, z)
        BY <3>2, <4>1 DEF Fs!InRange, Fs!End
      <4> QED
        BY <3>2, <4>2 DEF Flushed, Fs!Synced
    <3>6. y \in D[z]
      BY <2>0, <3>2, <3>4, <3>5
    <3>7. SyncPoint(all, z)
      BY <3>2 DEF SyncPoint, Fs!IsSyncPoint
    <3> QED
      BY <2>0, <3>4, <3>6, <3>7, DepsOrdered
  <2> QED
    BY <2>1, <2>2
<1> HIDE DEF S
<1>2. Nat \subseteq S
  BY <1>1, StrongInduction
<1> QED
  BY <1>2 DEF S

-----------------------------------------------------------------------------
(* The crash states that test_combo_validity lets through                  *)

Has(suite, n, d) == \E x \in 0 .. n - 1 : \E y \in 0 .. dops_len(suite, x) - 1 : d = <<x, y>>

\* The places of the disk operations of a crash state.
At(F, S) == {F[d[1]] + d[2] : d \in S}

LEMMA ValidIs ==
  ASSUME NEW trace, NEW mode, IsTrace(trace, mode), ~set_fs(trace, mode).raises,
         NEW F, Sums(F, Len(trace), set_fs(trace, mode)),
         NEW S, \A d \in S : Has(set_fs(trace, mode), Len(trace), d)
  PROVE  test_combo_validity(set_fs(trace, mode), S) <=>
           \A p \in At(F, S) : Deps(AllDiskOps(trace, mode))[p] \subseteq At(F, S)
<1> DEFINE suite == set_fs(trace, mode)
           single == {dops_single(suite, d) : d \in S}
<1>1. suite.deps = Deps(AllDiskOps(trace, mode))
  BY DEF set_fs
<1>2. test_combo_validity(suite, S) <=> \A p \in single : suite.deps[p] \subseteq single
  BY DEF test_combo_validity, Fs!test_combo_validity
<1>3. Len(trace) \in Nat
  BY DEF IsTrace
<1> HIDE DEF suite
<1>4. \A d \in S : dops_single(suite, d) = F[d[1]] + d[2]
  <2> SUFFICES ASSUME NEW d \in S PROVE dops_single(suite, d) = F[d[1]] + d[2]
    OBVIOUS
  <2>1. d[1] \in 0 .. Len(trace)
    BY <1>3 DEF Has, suite
  <2> QED
    BY <1>3, <2>1, SingleIs DEF suite
<1>5. single = At(F, S)
  BY <1>4 DEF At
<1> HIDE DEF single
<1> QED
  BY <1>1, <1>2, <1>5 DEF suite

\* A crash that loses nothing but the last micro operations is always
\* possible: whatever the trace and the split mode, test_combo_validity lets
\* every prefix of the trace through, once set_fs has got through it.
THEOREM PrefixValid ==
  ASSUME NEW trace, NEW mode, IsTrace(trace, mode), ~set_fs(trace, mode).raises,
         NEW x \in 0 .. Len(trace) - 1
  PROVE  test_combo_validity(set_fs(trace, mode),
                             UNION {{<<u, v>> : v \in 0 .. dops_len(set_fs(trace, mode), u) - 1} : u \in 0 .. x})
<1> DEFINE n == Len(trace)
           suite == set_fs(trace, mode)
           all == AllDiskOps(trace, mode)
           S == UNION {{<<u, v>> : v \in 0 .. dops_len(suite, u) - 1} : u \in 0 .. x}
<1>0. n \in Nat /\ x \in Nat /\ x + 1 \in 0 .. n
  BY DEF IsTrace
<1>1. PICK F : Sums(F, n, suite) /\ HasLens(suite, n) /\ DOMAIN all = 0 .. F[n] - 1
  BY AllIs
<1>2. \A d : d \in S <=> \E u \in 0 .. x : \E v \in 0 .. dops_len(suite, u) - 1 : d = <<u, v>>
  OBVIOUS
<1> HIDE DEF S
<1>3. \A d \in S : Has(suite, n, d)
  BY <1>0, <1>2 DEF Has
<1> HIDE DEF n, suite, all
<1>4. F[n] \in Nat /\ F[x + 1] \in Nat /\ F[x + 1] <= F[n]
  BY <1>0, <1>1, SumsFacts
<1>5. \A p \in At(F, S) : p \in 0 .. F[x + 1] - 1
  <2> SUFFICES ASSUME NEW d \in S PROVE F[d[1]] + d[2] \in 0 .. F[x + 1] - 1
    BY DEF At
  <2>1. PICK u \in 0 .. x : \E v \in 0 .. dops_len(suite, u) - 1 : d = <<u, v>>
    BY <1>2
  <2>2. PICK v \in 0 .. dops_len(suite, u) - 1 : d = <<u, v>>
    BY <2>1
  <2>3. u \in 0 .. n - 1 /\ x + 1 \in u + 1 .. n
    BY <1>0
  <2>4. F[u] + v < F[x + 1] /\ F[u] + v \in 0 .. F[n] - 1
    BY <1>0, <1>1, <2>3, Places
  <2> QED
    BY <1>4, <2>2, <2>4
<1>6. \A p \in 0 .. F[x + 1] - 1 : p \in At(F, S)
  <2> SUFFICES ASSUME NEW p \in 0 .. F[x + 1] - 1 PROVE p \in At(F, S)
    OBVIOUS
  <2>1. PICK u \in 0 .. (x + 1) - 1 : \E v \in 0 .. dops_len(suite, u) - 1 : p = F[u] + v
    BY <1>0, <1>1, Places
  <2>2. PICK v \in 0 .. dops_len(suite, u) - 1 : p = F[u] + v
    BY <2>1
  <2>3. u \in 0 .. x
    BY <1>0
  <2>4. <<u, v>> \in S /\ <<u, v>>[1] = u /\ <<u, v>>[2] = v
    BY <1>2, <2>3
  <2> QED
    BY <2>2, <2>4 DEF At
<1>7. ASSUME NEW p \in At(F, S) PROVE Deps(all)[p] \subseteq At(F, S)
  <2>1. p \in 0 .. F[x + 1] - 1 /\ p \in 0 .. F[n] - 1
    BY <1>4, <1>5
  <2>2. Deps(all)[p] \subseteq 0 .. p - 1
    BY <1>1, <1>4, <2>1, DepsOrdered
  <2>3. \A q \in 0 .. p - 1 : q \in 0 .. F[x + 1] - 1
    BY <1>4, <2>1
  <2> QED
    BY <1>6, <2>2, <2>3
<1>8. test_combo_validity(suite, S)
  BY <1>1, <1>3, <1>7, ValidIs DEF n, suite, all
<1> QED
  BY <1>8 DEF S, suite

\* What <<x, y>> depends on is in every valid crash state that has it.
LEMMA DependencyKept ==
  ASSUME NEW trace, NEW mode, IsTrace(trace, mode), ~set_fs(trace, mode).raises,
         NEW F, Sums(F, Len(trace), set_fs(trace, mode)), HasLens(set_fs(trace, mode), Len(trace)),
         NEW S, \A d \in S : Has(set_fs(trace, mode), Len(trace), d),
         test_combo_validity(set_fs(trace, mode), S),
         NEW x, NEW y, <<x, y>> \in S,
         NEW u \in 0 .. Len(trace) - 1, NEW v \in 0 .. dops_len(set_fs(trace, mode), u) - 1,
         F[u] + v \in Deps(AllDiskOps(trace, mode))[F[x] + y]
  PROVE  <<u, v>> \in S
<1> DEFINE n == Len(trace)
           suite == set_fs(trace, mode)
<1>0. n \in Nat
  BY DEF IsTrace
<1>1. \A p \in At(F, S) : Deps(AllDiskOps(trace, mode))[p] \subseteq At(F, S)
  BY ValidIs
<1>2. F[x] + y \in At(F, S)
  <2>1. <<x, y>>[1] = x /\ <<x, y>>[2] = y
    OBVIOUS
  <2> QED
    BY <2>1 DEF At
<1>3. F[u] + v \in At(F, S)
  BY <1>1, <1>2
<1>4. PICK d \in S : F[u] + v = F[d[1]] + d[2]
  BY <1>3 DEF At
<1>5. PICK a \in 0 .. n - 1 : \E b \in 0 .. dops_len(suite, a) - 1 : d = <<a, b>>
  BY <1>4 DEF Has
<1>6. PICK b \in 0 .. dops_len(suite, a) - 1 : d = <<a, b>>
  BY <1>5
<1>7. F[u] + v = F[a] + b
  BY <1>4, <1>6
<1> HIDE DEF n, suite
<1>8. u = a /\ v = b
  BY <1>0, <1>7, PlacesDiffer DEF n, suite
<1> QED
  BY <1>4, <1>6, <1>8

\* The places of two disk operations, one issued before the other.
LEMMA InOrder ==
  ASSUME NEW suite, NEW n \in Nat, HasLens(suite, n), NEW F, Sums(F, n, suite),
         NEW x \in 0 .. n - 1, NEW y \in 0 .. dops_len(suite, x) - 1,
         NEW u \in 0 .. x, NEW v \in 0 .. dops_len(suite, u) - 1, u < x \/ v < y
  PROVE  /\ F[x] + y \in 0 .. F[n] - 1 /\ F[u] + v \in 0 .. F[n] - 1
         /\ F[u] + v \in 0 .. (F[x] + y) - 1
         /\ F[n] \in Nat
<1>0. u \in 0 .. n - 1 /\ n \in 0 .. n /\ u \in 0 .. n /\ x \in 0 .. n
  OBVIOUS
<1>1. F[x] \in Nat /\ F[u] \in Nat /\ F[n] \in Nat
  BY <1>0, SumsFacts
<1>2. F[x] + y \in 0 .. F[n] - 1 /\ F[u] + v \in 0 .. F[n] - 1
  BY <1>0, Places
<1>3. CASE u < x
  <2>1. x \in u + 1 .. n
    BY <1>3
  <2>2. F[u] + v < F[x]
    BY <1>0, <2>1, Places
  <2> QED
    BY <1>1, <1>2, <2>2
<1>4. CASE ~(u < x)
  <2>1. u = x /\ v < y
    BY <1>4
  <2> QED
    BY <1>1, <1>2, <2>1
<1> QED
  BY <1>3, <1>4

\* A sync is durable, whatever the trace, the split mode and the earlier syncs
\* of the file: a crash state that test_combo_validity lets through and that
\* has the sync has every earlier disk operation the sync makes durable.
THEOREM SyncedIsKept ==
  ASSUME NEW trace, NEW mode, IsTrace(trace, mode), ~set_fs(trace, mode).raises,
         NEW S, \A d \in S : Has(set_fs(trace, mode), Len(trace), d),
         test_combo_validity(set_fs(trace, mode), S)
  PROVE  LET suite == set_fs(trace, mode)
         IN \A x \in 0 .. Len(trace) - 1 : \A y \in 0 .. dops_len(suite, x) - 1 :
              <<x, y>> \in S /\ suite.dops[x][y + 1].op = "sync" =>
                \A u \in 0 .. x : \A v \in 0 .. dops_len(suite, u) - 1 :
                  (u < x \/ v < y) /\ Flushes(suite.dops[x][y + 1], suite.dops[u][v + 1]) => <<u, v>> \in S
<1> DEFINE n == Len(trace)
           suite == set_fs(trace, mode)
           all == AllDiskOps(trace, mode)
<1> SUFFICES ASSUME NEW x \in 0 .. n - 1, NEW y \in 0 .. dops_len(suite, x) - 1,
                    <<x, y>> \in S, suite.dops[x][y + 1].op = "sync",
                    NEW u \in 0 .. x, NEW v \in 0 .. dops_len(suite, u) - 1, u < x \/ v < y,
                    Flushes(suite.dops[x][y + 1], suite.dops[u][v + 1])
             PROVE  <<u, v>> \in S
  BY Zenon
<1>0. n \in Nat /\ u \in 0 .. n - 1
  BY DEF IsTrace
<1>1. PICK F : /\ Sums(F, n, suite) /\ HasLens(suite, n) /\ DOMAIN all = 0 .. F[n] - 1
               /\ \A a \in 0 .. n - 1 : \A b \in 0 .. dops_len(suite, a) - 1 :
                    all[F[a] + b] = suite.dops[a][b + 1]
  BY AllIs
<1>2. /\ F[x] + y \in 0 .. F[n] - 1 /\ F[u] + v \in 0 .. F[n] - 1
      /\ F[u] + v \in 0 .. (F[x] + y) - 1 /\ F[n] \in Nat
  BY <1>0, <1>1, InOrder, Zenon
<1>3. all[F[x] + y] = suite.dops[x][y + 1] /\ all[F[u] + v] = suite.dops[u][v + 1]
  BY <1>0, <1>1, Zenon
<1>4. HasRanges(all)
  <2> SUFFICES ASSUME NEW p \in 0 .. F[n] - 1 PROVE all[p].offset \in Int /\ all[p].count \in Int
    BY <1>1 DEF HasRanges
  <2>0. n \in 0 .. n
    BY <1>0
  <2>1. PICK a \in 0 .. n - 1 : \E b \in 0 .. dops_len(suite, a) - 1 : p = F[a] + b
    <3> HIDE DEF n, suite, all
    <3>1. \A x1 \in 0 .. n : \A p1 \in 0 .. F[x1] - 1 :
            \E u1 \in 0 .. x1 - 1 : \E v1 \in 0 .. dops_len(suite, u1) - 1 : p1 = F[u1] + v1
      BY <1>0, <1>1, Places
    <3> QED
      BY <2>0, <3>1, Zenon
  <2>2. PICK b \in 0 .. dops_len(suite, a) - 1 : p = F[a] + b
    BY <2>1
  <2>3. suite.dops[a] = get_disk_ops(mode, trace[a + 1]) /\ a + 1 \in 1 .. n
    BY <1>0, SMTT(30) DEF set_fs, HiddenDiskOps
  <2> DEFINE dops == get_disk_ops(mode, trace[a + 1])
  <2>4. /\ dops \in Seq({dops[c] : c \in DOMAIN dops})
        /\ \A c \in DOMAIN dops : dops[c].offset \in Int /\ dops[c].count \in Int
    BY <2>3, Zenon DEF IsTrace
  <2>5. Len(dops) = dops_len(suite, a)
    BY <2>3 DEF dops_len
  <2> HIDE DEF dops
  <2>6. b + 1 \in DOMAIN dops
    BY <2>4, <2>5
  <2>7. all[p] = dops[b + 1]
    BY <1>1, <2>2, <2>3, Zenon DEF dops
  <2> QED
    BY <2>4, <2>6, <2>7
<1>5. Flushed(all, F[u] + v, F[x] + y)
  BY <1>3, Zenon DEF Flushes, Flushed, Fs!Synced, Fs!IsDirEntry, Fs!InRange, Fs!End
<1>6. F[u] + v \in Deps(all)[F[x] + y]
  <2> HIDE DEF all, suite, n
  <2>1. all[F[x] + y].op = "sync"
    BY <1>3, Zenon DEF suite
  <2> QED
    BY <1>1, <1>2, <1>4, <1>5, <2>1, DepsDurable, Zenon
<1> QED
  BY <1>0, <1>1, <1>6, DependencyKept, Zenon

\* Syncs and output on the terminal are barriers: a crash state that
\* test_combo_validity lets through and that has a disk operation has every
\* sync and every stdout that was issued before it.
THEOREM BarrierIsKept ==
  ASSUME NEW trace, NEW mode, IsTrace(trace, mode), ~set_fs(trace, mode).raises,
         NEW S, \A d \in S : Has(set_fs(trace, mode), Len(trace), d),
         test_combo_validity(set_fs(trace, mode), S),
         NEW x \in 0 .. Len(trace) - 1, NEW y \in 0 .. dops_len(set_fs(trace, mode), x) - 1, <<x, y>> \in S,
         NEW u \in 0 .. x, NEW v \in 0 .. dops_len(set_fs(trace, mode), u) - 1, u < x \/ v < y,
         set_fs(trace, mode).dops[u][v + 1].op \in {"sync", "stdout"}
  PROVE  <<u, v>> \in S
<1> DEFINE n == Len(trace)
           suite == set_fs(trace, mode)
           all == AllDiskOps(trace, mode)
<1>0. n \in Nat /\ u \in 0 .. n - 1
  BY DEF IsTrace
<1>1. PICK F : /\ Sums(F, n, suite) /\ HasLens(suite, n) /\ DOMAIN all = 0 .. F[n] - 1
               /\ \A a \in 0 .. n - 1 : \A b \in 0 .. dops_len(suite, a) - 1 :
                    all[F[a] + b] = suite.dops[a][b + 1]
  BY AllIs
<1>2. /\ F[x] + y \in 0 .. F[n] - 1 /\ F[u] + v \in 0 .. F[n] - 1
      /\ F[u] + v \in 0 .. (F[x] + y) - 1 /\ F[n] \in Nat
  BY <1>0, <1>1, InOrder, Zenon
<1>3. SyncPoint(all, F[u] + v)
  BY <1>0, <1>1, Zenon DEF SyncPoint, Fs!IsSyncPoint
<1>4. F[u] + v \in Deps(all)[F[x] + y]
  BY <1>1, <1>2, <1>3, DepsOrdered, Zenon
<1> QED
  BY <1>0, <1>1, <1>4, DependencyKept, Zenon

=============================================================================
