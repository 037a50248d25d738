-------------------------- MODULE GraphSplitProofs --------------------------
(***************************************************************************)
(* Theorems about LayerMap and GraphSplit, for every world, every window   *)
(* of at least one layer and any number of layers: the closed forms of     *)
(* map_layer_to_local_id and map_layer_to_subgf_id give what the walks     *)
(* over the layers make, and every sub-graph passes its output to the rank *)
(* that goes on with it.                                                   *)
(***************************************************************************)
EXTENDS GraphSplit, WellFoundedInduction, TLAPS

(* Induction, by the smallest counterexample.                              *)
LEMMA Least ==
  ASSUME NEW T \in SUBSET Nat, T # {}
  PROVE  \E x \in T : \A y \in T : x <= y
<1>1. PICK x \in T : \A y \in T : ~(<<y, x>> \in OpToRel(<, Nat))
  BY WFMin, NatLessThanWellFounded
<1>2. ASSUME NEW y \in T PROVE x <= y
  <2>1. ~(y < x)
    BY <1>1 DEF OpToRel
  <2>2. x \in Nat /\ y \in Nat
    OBVIOUS
  <2>3. QED BY <2>1, <2>2
<1>3. QED BY <1>2

LEMMA Induction ==
  ASSUME NEW G \in SUBSET Nat, 0 \in G, \A j \in Nat : j \in G => j + 1 \in G
  PROVE  G = Nat
<1>1. SUFFICES ASSUME Nat \ G # {} PROVE FALSE
  OBVIOUS
<1>2. PICK x \in Nat \ G : \A y \in Nat \ G : x <= y
  BY <1>1, Least
<1>3. x - 1 \in Nat /\ x = (x - 1) + 1 /\ ~(x <= x - 1)
  BY <1>2
<1>4. QED BY <1>2, <1>3

-----------------------------------------------------------------------------
(* Division.                                                               *)
LEMMA Divide ==
  ASSUME NEW a \in Nat, NEW b \in Nat \ {0}
  PROVE  a = b * (a \div b) + (a % b) /\ a \div b \in Nat /\ a % b \in 0..b-1
OBVIOUS

LEMMA Divided ==
  ASSUME NEW q \in Nat, NEW b \in Nat \ {0}, NEW o \in 0..b-1
  PROVE  (b * q + o) \div b = q /\ (b * q + o) % b = o
OBVIOUS

LEMMA DivideNext ==
  ASSUME NEW j \in Nat, NEW b \in Nat \ {0}
  PROVE  /\ (j + 1) % b = IF (j % b) + 1 = b THEN 0 ELSE (j % b) + 1
         /\ (j + 1) \div b = IF (j % b) + 1 = b THEN (j \div b) + 1 ELSE j \div b
OBVIOUS

LEMMA Products ==
  ASSUME NEW q \in Nat, NEW b \in Nat
  PROVE  b * (q + 1) = b * q + b /\ b * q \in Nat /\ (q + 1) * b = q * b + b /\ q * b = b * q
OBVIOUS

LEMMA NextCycle ==
  ASSUME NEW j \in Nat, NEW b \in Nat \ {0}
  PROVE  (j + b) % b = j % b
<1> DEFINE q == j \div b
           o == j % b
<1>1. j = b * q + o /\ q \in Nat /\ o \in 0..b-1
  BY Divide
<1> HIDE DEF q, o
<1>2. b * (q + 1) = b * q + b /\ b * q \in Nat
  BY <1>1, Products
<1>3. j + b = b * (q + 1) + o
  BY <1>1, <1>2
<1>4. (j + b) % b = o
  BY <1>1, <1>3, Divided
<1>5. QED BY <1>4 DEF o

-----------------------------------------------------------------------------
(* The running sums exist, and are what their definition says.             *)
UpTo(f, k, g) == g = [j \in 0..k |-> IF j = 0 THEN 0 ELSE g[j - 1] + f[j]]

LEMMA SumsUpTo ==
  ASSUME NEW f, NEW k \in Nat
  PROVE  \E g : UpTo(f, k, g)
<1> DEFINE G == {i \in Nat : \E g : UpTo(f, i, g)}
<1>1. 0 \in G
  <2> DEFINE z == [j \in 0..0 |-> 0]
  <2>1. z = [j \in 0..0 |-> IF j = 0 THEN 0 ELSE z[j - 1] + f[j]]
    OBVIOUS
  <2>2. UpTo(f, 0, z)
    BY <2>1 DEF UpTo
  <2>3. QED BY <2>2
<1>2. ASSUME NEW i \in Nat, i \in G PROVE i + 1 \in G
  <2>1. PICK g : UpTo(f, i, g)
    BY <1>2
  <2> DEFINE h == [j \in 0..i+1 |-> IF j = i + 1 THEN g[i] + f[i + 1] ELSE g[j]]
  <2>2. ASSUME NEW j \in 0..i+1 PROVE h[j] = IF j = 0 THEN 0 ELSE h[j - 1] + f[j]
    <3>1. CASE j = 0
      <4>1. h[j] = g[0] /\ g[0] = 0
        BY <2>1, <3>1 DEF UpTo
      <4>2. QED BY <3>1, <4>1
    <3>2. CASE j = i + 1
      <4>1. j - 1 = i /\ i \in 0..i+1 /\ i # i + 1 /\ j # 0
        BY <3>2
      <4>2. QED BY <3>2, <4>1
    <3>3. CASE j # 0 /\ j # i + 1
      <4>1. j \in 0..i /\ j - 1 \in 0..i /\ j - 1 # i + 1 /\ j - 1 \in 0..i+1
        BY <3>3
      <4>2. g[j] = g[j - 1] + f[j]
        BY <2>1, <3>3, <4>1 DEF UpTo
      <4>3. QED BY <3>3, <4>1, <4>2
    <3>4. QED BY <3>1, <3>2, <3>3
  <2>3. h = [j \in 0..i+1 |-> IF j = 0 THEN 0 ELSE h[j - 1] + f[j]]
    BY <2>2
  <2>4. UpTo(f, i + 1, h)
    BY <2>3 DEF UpTo
  <2>5. QED BY <2>4
<1>3. G = Nat
  BY <1>1, <1>2, Induction
<1>4. QED BY <1>3

LEMMA SumsAgree ==
  ASSUME NEW f, NEW k \in Nat, NEW g, UpTo(f, k, g), NEW h, UpTo(f, k + 1, h), NEW j \in 0..k
  PROVE  h[j] = g[j]
<1> DEFINE G == {i \in Nat : i <= k => h[i] = g[i]}
<1>1. 0 \in G
  <2>1. 0 \in 0..k /\ 0 \in 0..k+1
    OBVIOUS
  <2>2. QED BY <2>1 DEF UpTo
<1>2. ASSUME NEW i \in Nat, i \in G PROVE i + 1 \in G
  <2>1. SUFFICES ASSUME i + 1 <= k PROVE h[i + 1] = g[i + 1]
    OBVIOUS
  <2>2. /\ i + 1 \in 0..k /\ i + 1 \in 0..k+1 /\ i + 1 # 0 /\ (i + 1) - 1 = i
        /\ h[i] = g[i]
    BY <1>2, <2>1
  <2>3. QED BY <2>2 DEF UpTo
<1>3. G = Nat
  BY <1>1, <1>2, Induction
<1>4. QED BY <1>3

LEMMA SumsAre ==
  ASSUME NEW f
  PROVE  /\ Sums(f)[0] = 0
         /\ \A j \in Nat : Sums(f)[j + 1] = Sums(f)[j] + f[j + 1]
<1> DEFINE g(k) == CHOOSE x : UpTo(f, k, x)
           s == [j \in Nat |-> g(j)[j]]
<1>1. ASSUME NEW k \in Nat PROVE UpTo(f, k, g(k))
  BY SumsUpTo
<1> HIDE DEF g
<1>2. ASSUME NEW j \in Nat PROVE s[j] = IF j = 0 THEN 0 ELSE s[j - 1] + f[j]
  <2>1. CASE j = 0
    <3>1. g(0)[0] = 0
      <4>1. 0 \in 0..0 /\ UpTo(f, 0, g(0))
        BY <1>1
      <4>2. QED BY <4>1 DEF UpTo
    <3>2. QED BY <2>1, <3>1
  <2>2. CASE j # 0
    <3>1. j - 1 \in Nat /\ (j - 1) + 1 = j /\ j \in 0..j /\ j - 1 \in 0..j-1
      BY <2>2
    <3>2. UpTo(f, j, g(j)) /\ UpTo(f, j - 1, g(j - 1))
      BY <1>1, <3>1
    <3>3. g(j)[j] = g(j)[j - 1] + f[j]
      BY <2>2, <3>1, <3>2 DEF UpTo
    <3>4. g(j)[j - 1] = g(j - 1)[j - 1]
      BY <3>1, <3>2, SumsAgree
    <3>5. QED BY <2>2, <3>1, <3>3, <3>4
  <2>3. QED BY <2>1, <2>2
<1>3. s = [j \in Nat |-> IF j = 0 THEN 0 ELSE s[j - 1] + f[j]]
  BY <1>2
<1> HIDE DEF s
<1> DEFINE S == CHOOSE x : x = [j \in Nat |-> IF j = 0 THEN 0 ELSE x[j - 1] + f[j]]
<1>4. S = [j \in Nat |-> IF j = 0 THEN 0 ELSE S[j - 1] + f[j]]
  BY <1>3
<1>5. Sums(f) = S
  BY DEF Sums
<1> HIDE DEF S
<1>6. S[0] = 0
  BY <1>4
<1>7. ASSUME NEW j \in Nat PROVE S[j + 1] = S[j] + f[j + 1]
  <2>1. j + 1 \in Nat /\ j + 1 # 0 /\ (j + 1) - 1 = j
    OBVIOUS
  <2>2. QED BY <1>4, <2>1
<1>8. QED BY <1>5, <1>6, <1>7

-----------------------------------------------------------------------------
(* The windows, dealt to ranks 1, 2, ..., n-1, 0, 1, ...                   *)
Deal(n, w) == n \in Nat \ {0} /\ w \in [0..n-1 -> Nat \ {0}]

Turn(n, r) == IF r = 0 THEN n ELSE r

LEMMA Dealt ==
  ASSUME NEW n, NEW w, Deal(n, w)
  PROVE  /\ Cumulative(n, w)[0] = 0
         /\ \A j \in Nat : /\ Cumulative(n, w)[j + 1] = Cumulative(n, w)[j] + w[(j + 1) % n]
                           /\ Cumulative(n, w)[j] \in Nat
                           /\ w[j % n] \in Nat \ {0}
<1> DEFINE f == [j \in Nat |-> w[j % n]]
           C == Cumulative(n, w)
<1>1. C = Sums(f)
  BY DEF Cumulative
<1> HIDE DEF C
<1>2. ASSUME NEW j \in Nat PROVE w[j % n] \in Nat \ {0} /\ f[j] = w[j % n]
  <2>1. j % n \in 0..n-1
    BY Divide DEF Deal
  <2>2. QED BY <2>1 DEF Deal
<1>3. C[0] = 0
  BY <1>1, SumsAre
<1>4. ASSUME NEW j \in Nat PROVE C[j + 1] = C[j] + w[(j + 1) % n]
  <2>1. j + 1 \in Nat
    OBVIOUS
  <2>2. f[j + 1] = w[(j + 1) % n]
    BY <1>2, <2>1
  <2> HIDE DEF f
  <2>3. QED BY <1>1, <2>2, SumsAre
<1> DEFINE G == {j \in Nat : C[j] \in Nat}
<1>5. 0 \in G
  BY <1>3
<1>6. ASSUME NEW j \in Nat, j \in G PROVE j + 1 \in G
  <2>1. C[j] \in Nat /\ w[(j + 1) % n] \in Nat /\ j + 1 \in Nat
    BY <1>2, <1>6
  <2>2. QED BY <1>4, <2>1
<1>7. G = Nat
  BY <1>5, <1>6, Induction
<1>8. QED BY <1>2, <1>3, <1>4, <1>7 DEF C

(* The sums grow with every visit.                                         *)
LEMMA DealtGrows ==
  ASSUME NEW n, NEW w, Deal(n, w), NEW i \in Nat, NEW j \in Nat, i < j
  PROVE  Cumulative(n, w)[i] < Cumulative(n, w)[j]
<1> DEFINE C == Cumulative(n, w)
           G == {d \in Nat : C[i] < C[i + d + 1]}
<1>1. ASSUME NEW k \in Nat PROVE C[k] \in Nat /\ C[k + 1] \in Nat /\ C[k] < C[k + 1]
  <2>1. k + 1 \in Nat
    OBVIOUS
  <2>2. C[k] \in Nat /\ C[k + 1] \in Nat /\ w[(k + 1) % n] \in Nat \ {0}
        /\ C[k + 1] = C[k] + w[(k + 1) % n]
    BY <2>1, Dealt
  <2>3. QED BY <2>2
<1> HIDE DEF C
<1>2. 0 \in G
  <2>1. i + 0 + 1 = i + 1
    OBVIOUS
  <2>2. QED BY <1>1, <2>1
<1>3. ASSUME NEW d \in Nat, d \in G PROVE d + 1 \in G
  <2>1. i + (d + 1) + 1 = (i + d + 1) + 1 /\ i + d + 1 \in Nat /\ d + 1 \in Nat
    OBVIOUS
  <2>2. /\ C[i + d + 1] \in Nat /\ C[(i + d + 1) + 1] \in Nat /\ C[i] \in Nat
        /\ C[i + d + 1] < C[(i + d + 1) + 1] /\ C[i] < C[i + d + 1]
    BY <1>1, <1>3, <2>1
  <2>3. C[i] < C[(i + d + 1) + 1]
    BY <2>2
  <2>4. QED BY <2>1, <2>3
<1>4. G = Nat
  BY <1>2, <1>3, Induction
<1>5. j - i - 1 \in Nat /\ i + (j - i - 1) + 1 = j
  OBVIOUS
<1>6. QED BY <1>4, <1>5 DEF C

LEMMA DealtAtLeast ==
  ASSUME NEW n, NEW w, Deal(n, w), NEW j \in Nat
  PROVE  j <= Cumulative(n, w)[j]
<1> DEFINE C == Cumulative(n, w)
           G == {k \in Nat : k <= C[k]}
<1>1. 0 \in G
  BY Dealt
<1>2. ASSUME NEW k \in Nat, k \in G PROVE k + 1 \in G
  <2>1. C[k] \in Nat /\ C[k + 1] \in Nat /\ k <= C[k]
    <3>1. k + 1 \in Nat
      OBVIOUS
    <3>2. QED BY <1>2, <3>1, Dealt
  <2>2. C[k] < C[k + 1]
    <3>1. k + 1 \in Nat /\ k < k + 1
      OBVIOUS
    <3>2. QED BY <3>1, DealtGrows
  <2>3. k + 1 <= C[k + 1]
    BY <2>1, <2>2
  <2>4. QED BY <2>3
<1>3. G = Nat
  BY <1>1, <1>2, Induction
<1>4. QED BY <1>3

(* A cycle adds the same to all of them.                                   *)
LEMMA DealtCycles ==
  ASSUME NEW n, NEW w, Deal(n, w), NEW q \in Nat, NEW p \in Nat
  PROVE  Cumulative(n, w)[n * q + p] = Cumulative(n, w)[n] * q + Cumulative(n, w)[p]
<1> DEFINE C == Cumulative(n, w)
<1>0. n \in Nat \ {0} /\ n \in Nat /\ C[n] \in Nat
  BY Dealt DEF Deal
<1>1. \A j \in Nat : C[j] \in Nat /\ C[j + 1] = C[j] + w[(j + 1) % n]
  BY Dealt
<1>2. C[0] = 0
  BY Dealt
<1> HIDE DEF C
<1>3. \A j \in Nat : C[j + n] = C[n] + C[j]
  <2> DEFINE G == {j \in Nat : C[j + n] = C[n] + C[j]}
  <2>1. 0 \in G
    <3>1. 0 + n = n /\ C[n] + 0 = C[n]
      BY <1>0
    <3>2. QED BY <1>2, <3>1
  <2>2. ASSUME NEW j \in Nat, j \in G PROVE j + 1 \in G
    <3>1. (j + 1) + n = (j + n) + 1 /\ j + n \in Nat /\ j + 1 \in Nat
      BY <1>0
    <3>2. ((j + n) + 1) % n = (j + 1) % n
      BY <1>0, <3>1, NextCycle
    <3>3. C[(j + n) + 1] = C[j + n] + w[(j + 1) % n] /\ C[j + 1] = C[j] + w[(j + 1) % n]
      BY <1>1, <3>1, <3>2
    <3>4. C[j + n] = C[n] + C[j] /\ C[j] \in Nat /\ w[(j + 1) % n] \in Nat
      BY <1>1, <2>2, <3>1, Dealt
    <3>5. C[(j + n) + 1] = C[n] + C[j + 1]
      BY <1>0, <3>3, <3>4
    <3>6. QED BY <3>1, <3>5
  <2>3. G = Nat
    BY <2>1, <2>2, Induction
  <2>4. QED BY <2>3
<1> DEFINE H == {i \in Nat : C[n * i + p] = C[n] * i + C[p]}
<1>4. 0 \in H
  <2>1. n * 0 + p = p /\ C[n] * 0 = 0
    BY <1>0
  <2>2. C[p] \in Nat
    BY <1>1
  <2>3. QED BY <2>1, <2>2
<1>5. ASSUME NEW i \in Nat, i \in H PROVE i + 1 \in H
  <2>1. /\ n * (i + 1) = n * i + n /\ n * i \in Nat
        /\ C[n] * (i + 1) = C[n] * i + C[n] /\ C[n] * i \in Nat
    BY <1>0, Products
  <2>2. n * (i + 1) + p = (n * i + p) + n /\ n * i + p \in Nat
    BY <1>0, <2>1
  <2>3. C[(n * i + p) + n] = C[n] + C[n * i + p]
    BY <1>3, <2>2
  <2>4. C[n * i + p] = C[n] * i + C[p] /\ C[p] \in Nat
    BY <1>1, <1>5
  <2>5. C[n * (i + 1) + p] = C[n] * (i + 1) + C[p]
    BY <1>0, <2>1, <2>2, <2>3, <2>4
  <2>6. QED BY <2>5
<1>6. H = Nat
  BY <1>4, <1>5, Induction
<1>7. QED BY <1>6 DEF C


LEMMA Small == \A n \in Nat \ {0} : n % n = 0 /\ \A j \in 0..n-1 : j % n = j
OBVIOUS

(* The loops of map_layer_to_local_id add up the same windows.             *)
LEMMA CycleIs ==
  ASSUME NEW n, NEW w, Deal(n, w)
  PROVE  CycleSize(n, w) = Cumulative(n, w)[n] /\ CycleSize(n, w) \in Nat \ {0}
<1> DEFINE f == [j \in 1..n |-> w[j - 1]]
           C == Cumulative(n, w)
           S == Sums(f)
           H == {j \in Nat : j <= n - 1 => S[j + 1] = w[0] + C[j]}
<1>0. n \in Nat \ {0} /\ \A j \in 0..n-1 : w[j] \in Nat \ {0}
  BY DEF Deal
<1>1. S[0] = 0 /\ \A j \in 0..n-1 : S[j + 1] = S[j] + w[j]
  <2>1. \A j \in 0..n-1 : j \in Nat /\ j + 1 \in 1..n /\ (j + 1) - 1 = j
    BY <1>0
  <2>2. \A j \in 0..n-1 : f[j + 1] = w[j]
    BY <2>1
  <2> HIDE DEF f
  <2>3. QED BY <2>1, <2>2, SumsAre
<1>2. C[0] = 0 /\ \A j \in Nat : C[j] \in Nat /\ C[j + 1] = C[j] + w[(j + 1) % n]
  BY Dealt
<1> HIDE DEF C, S
<1>3. 0 \in H
  <2>1. 0 + 1 = 1 /\ 0 \in 0..n-1 /\ w[0] \in Nat
    BY <1>0
  <2>2. S[0 + 1] = S[0] + w[0]
    BY <1>1, <2>1
  <2>3. 0 + w[0] = w[0] /\ w[0] + 0 = w[0]
    BY <2>1
  <2>4. QED BY <1>1, <1>2, <2>2, <2>3
<1>4. ASSUME NEW j \in Nat, j \in H PROVE j + 1 \in H
  <2>1. SUFFICES ASSUME j + 1 <= n - 1 PROVE S[(j + 1) + 1] = w[0] + C[j + 1]
    OBVIOUS
  <2>2. j + 1 \in 0..n-1 /\ j <= n - 1 /\ 0 \in 0..n-1
    BY <1>0, <2>1
  <2>3. (j + 1) % n = j + 1
    BY <1>0, <2>2, Small
  <2>4. S[(j + 1) + 1] = S[j + 1] + w[j + 1] /\ S[j + 1] = w[0] + C[j]
    BY <1>1, <1>4, <2>2
  <2>5. C[j + 1] = C[j] + w[j + 1] /\ C[j] \in Nat /\ w[j + 1] \in Nat /\ w[0] \in Nat
    BY <1>0, <1>2, <2>2, <2>3
  <2>6. QED BY <2>4, <2>5
<1>5. H = Nat
  BY <1>3, <1>4, Induction
<1>6. n - 1 \in Nat /\ (n - 1) + 1 = n /\ n - 1 <= n - 1 /\ n % n = 0 /\ 0 \in 0..n-1
  BY <1>0, Small
<1>7. S[n] = w[0] + C[n - 1] /\ C[n] = C[n - 1] + w[0] /\ C[n - 1] \in Nat /\ w[0] \in Nat \ {0}
  BY <1>0, <1>2, <1>5, <1>6
<1>8. S[n] = C[n] /\ C[n] \in Nat \ {0}
  BY <1>7
<1>9. QED BY <1>8 DEF CycleSize, C, S

LEMMA EarlierIs ==
  ASSUME NEW n, NEW w, Deal(n, w), NEW r \in 0..n-1
  PROVE  /\ EarlierInCycle(n, r, w) = Cumulative(n, w)[Turn(n, r) - 1]
         /\ Cumulative(n, w)[Turn(n, r)] = Cumulative(n, w)[Turn(n, r) - 1] + w[r]
         /\ Turn(n, r) \in 1..n /\ Turn(n, r) % n = r
<1> DEFINE C == Cumulative(n, w)
           S == Sums(w)
           H == {j \in Nat : j <= n - 1 => S[j] = C[j]}
<1>0. n \in Nat \ {0}
  BY DEF Deal
<1>1. C[0] = 0 /\ \A j \in Nat : C[j] \in Nat /\ C[j + 1] = C[j] + w[(j + 1) % n]
  BY Dealt
<1>2. S[0] = 0 /\ \A j \in Nat : S[j + 1] = S[j] + w[j + 1]
  BY SumsAre
<1> HIDE DEF C, S
<1>3. 0 \in H
  BY <1>1, <1>2
<1>4. ASSUME NEW j \in Nat, j \in H PROVE j + 1 \in H
  <2>1. SUFFICES ASSUME j + 1 <= n - 1 PROVE S[j + 1] = C[j + 1]
    OBVIOUS
  <2>2. j + 1 \in 0..n-1 /\ j <= n - 1
    BY <1>0, <2>1
  <2>3. (j + 1) % n = j + 1 /\ S[j] = C[j]
    BY <1>0, <1>4, <2>2, Small
  <2>4. QED BY <1>1, <1>2, <2>3
<1>5. H = Nat
  BY <1>3, <1>4, Induction
<1>6. /\ Turn(n, r) \in 1..n /\ Turn(n, r) - 1 \in Nat /\ Turn(n, r) - 1 <= n - 1
      /\ (Turn(n, r) - 1) + 1 = Turn(n, r)
      /\ Turn(n, r) - 1 = IF r = 0 THEN n - 1 ELSE r - 1
  BY <1>0 DEF Turn
<1>7. Turn(n, r) % n = r
  BY <1>0, Small DEF Turn
<1>8. EarlierInCycle(n, r, w) = S[Turn(n, r) - 1]
  BY <1>6 DEF EarlierInCycle, S
<1>9. C[Turn(n, r)] = C[Turn(n, r) - 1] + w[r]
  BY <1>1, <1>6, <1>7
<1>10. QED BY <1>5, <1>6, <1>7, <1>8, <1>9 DEF C

-----------------------------------------------------------------------------
(* The visit at which the while loop of this_layer_is_mine stops.          *)
LEMMA Stops ==
  ASSUME NEW n, NEW w, Deal(n, w), NEW l \in Nat
  PROVE  \E j \in Nat \ {0} : Cumulative(n, w)[j - 1] <= l /\ l < Cumulative(n, w)[j]
<1> DEFINE C == Cumulative(n, w)
           T == {j \in Nat : l < C[j]}
<1>1. \A j \in Nat : C[j] \in Nat
  BY Dealt
<1>2. l + 1 \in T
  <2>1. l + 1 \in Nat /\ l + 1 <= C[l + 1]
    BY DealtAtLeast
  <2>2. l < C[l + 1]
    BY <1>1, <2>1
  <2>3. QED BY <2>1, <2>2
<1>3. PICK j \in T : \A i \in T : j <= i
  BY <1>2, Least
<1>4. j # 0
  BY <1>3, Dealt
<1>5. j - 1 \in Nat /\ ~(j <= j - 1)
  BY <1>3, <1>4
<1>6. ~(l < C[j - 1])
  BY <1>3, <1>5
<1>7. C[j - 1] <= l
  BY <1>1, <1>5, <1>6
<1>8. QED BY <1>3, <1>4, <1>7

LEMMA OwnerIs ==
  ASSUME NEW n, NEW w, Deal(n, w), NEW l \in Nat, NEW j \in Nat \ {0},
         Cumulative(n, w)[j - 1] <= l, l < Cumulative(n, w)[j]
  PROVE  OwnerRank(l, n, w) = j % n
<1> DEFINE C == Cumulative(n, w)
           P(i) == C[i - 1] <= l /\ l < C[i]
<1>1. n \in Nat \ {0} /\ j - 1 \in Nat
  BY DEF Deal
<1>2. \A i \in Nat : C[i] \in Nat /\ i <= C[i]
  BY Dealt, DealtAtLeast
<1>3. ASSUME NEW i \in Nat \ {0}, NEW k \in Nat \ {0}, P(i), P(k), i < k PROVE FALSE
  <2>1. i \in Nat /\ k - 1 \in Nat /\ (i = k - 1 \/ i < k - 1)
    BY <1>3
  <2>2. C[i] = C[k - 1] \/ C[i] < C[k - 1]
    BY <2>1, DealtGrows
  <2>3. C[i] \in Nat /\ C[k - 1] \in Nat
    BY <1>2, <2>1
  <2>4. QED BY <1>3, <2>2, <2>3
<1>4. j \in 1..n * (l + 1)
  <2>1. C[j - 1] \in Nat /\ j - 1 <= C[j - 1]
    BY <1>1, <1>2
  <2>2. j <= l + 1
    BY <2>1
  <2>3. l + 1 <= n * (l + 1) /\ n * (l + 1) \in Nat
    BY <1>1
  <2>4. QED BY <2>2, <2>3
<1>5. P(j)
  OBVIOUS
<1> HIDE DEF P
<1> DEFINE i == CHOOSE x \in 1..n * (l + 1) : P(x)
<1>6. i \in 1..n * (l + 1) /\ P(i)
  BY <1>4, <1>5
<1>7. i \in Nat \ {0}
  <2>1. n * (l + 1) \in Nat
    BY <1>1
  <2>2. QED BY <1>6, <2>1
<1>8. OwnerRank(l, n, w) = i % n
  BY DEF OwnerRank, P
<1> HIDE DEF i
<1>9. ~(i < j) /\ ~(j < i)
  BY <1>3, <1>5, <1>6, <1>7
<1>10. i = j
  BY <1>7, <1>9
<1>11. QED BY <1>8, <1>10

(* The layer after one of rank r is one of it, or of the next rank.        *)
LEMMA OwnerNext ==
  ASSUME NEW n, NEW w, Deal(n, w), NEW l \in Nat
  PROVE  /\ OwnerRank(l, n, w) \in 0..n-1
         /\ OwnerRank(l + 1, n, w) \in {OwnerRank(l, n, w), (OwnerRank(l, n, w) + 1) % n}
<1> DEFINE C == Cumulative(n, w)
<1>1. PICK j \in Nat \ {0} : C[j - 1] <= l /\ l < C[j]
  BY Stops
<1>2. OwnerRank(l, n, w) = j % n
  BY <1>1, OwnerIs
<1>3. n \in Nat \ {0} /\ j + 1 \in Nat \ {0} /\ (j + 1) - 1 = j /\ j - 1 \in Nat /\ l + 1 \in Nat
  BY DEF Deal
<1>4. C[j - 1] \in Nat /\ C[j] \in Nat /\ C[j + 1] \in Nat /\ C[j] < C[j + 1]
  <2>1. j < j + 1
    OBVIOUS
  <2>2. QED BY <1>3, <2>1, Dealt, DealtGrows
<1>5. CASE l + 1 < C[j]
  <2>1. C[j - 1] <= l + 1
    BY <1>1, <1>4
  <2>2. OwnerRank(l + 1, n, w) = j % n
    BY <1>3, <1>5, <2>1, OwnerIs
  <2>3. QED BY <1>2, <1>3, <2>2, Divide
<1>6. CASE ~(l + 1 < C[j])
  <2>1. C[j] <= l + 1 /\ l + 1 < C[j + 1]
    BY <1>1, <1>4, <1>6
  <2>2. OwnerRank(l + 1, n, w) = (j + 1) % n
    BY <1>3, <2>1, OwnerIs
  <2>3. (j + 1) % n = ((j % n) + 1) % n
    <3>1. (j + 1) % n = IF (j % n) + 1 = n THEN 0 ELSE (j % n) + 1
      BY <1>3, DivideNext
    <3>2. j % n \in 0..n-1
      BY <1>3, Divide
    <3>3. (j % n) + 1 = n \/ (j % n) + 1 \in 0..n-1
      BY <1>3, <3>2
    <3>4. QED BY <1>3, <3>1, <3>3, Small
  <2>4. QED BY <1>2, <1>3, <2>2, <2>3, Divide
<1>7. QED BY <1>5, <1>6

(* Within its cycle, a layer of rank r is in the window of rank r.         *)
LEMMA OwnerWithin ==
  ASSUME NEW n, NEW w, Deal(n, w), NEW l \in Nat, NEW r \in 0..n-1
  PROVE  OwnerRank(l, n, w) = r <=> /\ EarlierInCycle(n, r, w) <= l % CycleSize(n, w)
                                    /\ l % CycleSize(n, w) < EarlierInCycle(n, r, w) + w[r]
<1> DEFINE C == Cumulative(n, w)
           S == CycleSize(n, w)
           q == l \div S
           o == l % S
           t == Turn(n, r)
<1>0. n \in Nat \ {0} /\ n \in Nat /\ S = C[n] /\ S \in Nat \ {0}
  BY CycleIs DEF Deal
<1>1. l = S * q + o /\ q \in Nat /\ o \in 0..S-1 /\ S * q \in Nat
  BY <1>0, Divide, Products
<1>2. /\ EarlierInCycle(n, r, w) = C[t - 1] /\ C[t] = C[t - 1] + w[r]
      /\ t \in 1..n /\ t % n = r /\ t \in Nat \ {0} /\ t - 1 \in Nat
  BY <1>0, EarlierIs
<1>3. \A j \in Nat : C[j] \in Nat
  BY Dealt
<1> HIDE DEF S, q, o, t
<1>4. PICK p \in Nat \ {0} : C[p - 1] <= o /\ o < C[p]
  <2>1. o \in Nat
    BY <1>0, <1>1
  <2>2. QED BY <2>1, Stops
<1>5. p - 1 \in Nat /\ p \in 1..n
  <2>1. p - 1 \in Nat /\ p \in Nat
    OBVIOUS
  <2>2. ASSUME n < p PROVE FALSE
    <3>1. n = p - 1 \/ n < p - 1
      BY <1>0, <2>2
    <3>2. C[n] <= C[p - 1]
      <4>1. C[n] = C[p - 1] \/ C[n] < C[p - 1]
        BY <1>0, <2>1, <3>1, DealtGrows
      <4>2. QED BY <1>0, <1>3, <2>1, <4>1
    <3>3. C[p - 1] \in Nat
      BY <1>3, <2>1
    <3>4. QED BY <1>0, <1>1, <1>4, <3>2, <3>3
  <2>3. QED BY <1>0, <2>1, <2>2
<1>6. OwnerRank(l, n, w) = p % n
  <2> DEFINE j == n * q + p
  <2>1. n * q \in Nat
    BY <1>0, <1>1, Products
  <2>2. j \in Nat \ {0} /\ j - 1 = n * q + (p - 1)
    BY <1>5, <2>1
  <2>3. C[n * q + p] = C[n] * q + C[p] /\ C[n * q + (p - 1)] = C[n] * q + C[p - 1]
    BY <1>1, <1>5, DealtCycles
  <2>4. C[j] = S * q + C[p] /\ C[j - 1] = S * q + C[p - 1] /\ C[p] \in Nat /\ C[p - 1] \in Nat
    BY <1>0, <1>3, <1>5, <2>2, <2>3
  <2>5. C[j - 1] <= l /\ l < C[j]
    BY <1>0, <1>1, <1>4, <2>4
  <2> HIDE DEF j
  <2>6. OwnerRank(l, n, w) = j % n
    BY <2>2, <2>5, OwnerIs
  <2>7. j % n = p % n
    <3>1. CASE p = n
      <4>1. j = n * (q + 1) + 0
        BY <1>0, <1>1, <2>1, <3>1, Products DEF j
      <4>2. q + 1 \in Nat /\ 0 \in 0..n-1
        BY <1>0, <1>1
      <4>3. (n * (q + 1) + 0) % n = 0
        BY <1>0, <4>2, Divided
      <4>4. QED BY <1>0, <3>1, <4>1, <4>3, Small
    <3>2. CASE p # n
      <4>1. p \in 0..n-1
        BY <1>0, <1>5, <3>2
      <4>2. (n * q + p) % n = p
        BY <1>0, <1>1, <4>1, Divided
      <4>3. QED BY <1>0, <4>1, <4>2, Small DEF j
    <3>3. QED BY <3>1, <3>2
  <2>8. QED BY <2>6, <2>7
<1>7. p % n = r <=> p = t
  <2>1. ASSUME NEW x \in 1..n PROVE x % n = IF x = n THEN 0 ELSE x
    <3>1. x = n \/ x \in 0..n-1
      BY <1>0
    <3>2. QED BY <1>0, <3>1, Small
  <2>2. QED BY <1>0, <1>2, <1>5, <2>1
<1>8. p = t <=> C[t - 1] <= o /\ o < C[t]
  <2>1. ASSUME NEW i \in Nat \ {0}, NEW k \in Nat \ {0}, i < k, o < C[i], C[k - 1] <= o
        PROVE  FALSE
    <3>1. i \in Nat /\ k - 1 \in Nat /\ (i = k - 1 \/ i < k - 1)
      BY <2>1
    <3>2. C[i] = C[k - 1] \/ C[i] < C[k - 1]
      BY <3>1, DealtGrows
    <3>3. C[i] \in Nat /\ C[k - 1] \in Nat /\ o \in Nat
      BY <1>0, <1>1, <1>3, <3>1
    <3>4. QED BY <2>1, <3>2, <3>3
  <2>2. ASSUME C[t - 1] <= o, o < C[t] PROVE p = t
    <3>1. ~(p < t) /\ ~(t < p)
      BY <1>2, <1>4, <2>1, <2>2
    <3>2. QED BY <1>2, <3>1
  <2>3. QED BY <1>4, <2>2
<1>9. QED BY <1>2, <1>6, <1>7, <1>8 DEF S, o


-----------------------------------------------------------------------------
(* The walk.  The windows of the rank begin at layer First of each cycle.  *)
Cycle == CycleSize(n_world, window)
First == EarlierInCycle(n_world, my_rank, window)
Width == window[my_rank]
Extra == IF my_rank = 0 THEN 1 ELSE 0

(* The layers of the rank before layer l, and the sub-graphs begun by then.*)
Before(l) ==
  (l \div Cycle) * Width + (IF l % Cycle <= First THEN 0
                            ELSE IF l % Cycle <= First + Width THEN (l % Cycle) - First
                            ELSE Width)

Started(l) == (l \div Cycle) + (IF l % Cycle > First THEN 1 ELSE 0)

ConfigInv ==
  /\ n_world \in 1..MaxWorld /\ n_layer \in 1..MaxLayers
  /\ window \in [0..n_world-1 -> Nat \ {0}] /\ my_rank \in 0..n_world-1
  /\ n_world = 1 => window = [r \in {0} |-> n_layer]

WalkType ==
  /\ il \in 0..n_layer /\ done \in BOOLEAN
  /\ k_l \in Seq(Nat) /\ sub_gf \in Seq(Nat) /\ sub_gfs \in Seq(Seq(Nat))

KInv == Len(k_l) = Before(il) /\ LocalIdsFindTheLayer

(* The open sub-graph ends with the layer before the one the walk is at.   *)
Run(g) == \A i \in 1..Len(g)-1 : g[i + 1] = g[i] + 1

OpenInv ==
  /\ Run(sub_gf)
  /\ sub_gf # <<>> => il > 0 /\ sub_gf[Len(sub_gf)] = il - 1 /\ Mine(il - 1)
  /\ \A i \in DOMAIN sub_gf : SubgraphId(sub_gf[i]) = Len(sub_gfs)
  /\ sub_gf = <<>> /\ il > 0 /\ ~done => ~Mine(il - 1)
  /\ ~done => Len(sub_gfs) + (IF sub_gf = <<>> THEN 0 ELSE 1) = Extra + Started(il)
  /\ done => sub_gf = <<>> /\ il = n_layer

WalkInv == ConfigInv /\ WalkType /\ KInv /\ OpenInv /\ SubgraphIdsMatch /\ OutputGoesToNextRank


LEMMA WalkArithmetic ==
  ASSUME ConfigInv
  PROVE  /\ Deal(n_world, window)
         /\ Cycle \in Nat \ {0} /\ First \in Nat /\ Width \in Nat \ {0} /\ First + Width <= Cycle
         /\ First = 0 /\ Width = Cycle => Cycle = n_layer
         /\ \A l \in Nat :
              /\ Mine(l) <=> First <= l % Cycle /\ l % Cycle < First + Width
              /\ Mine(l) => /\ LocalId(l) = (l % Cycle) - First + (l \div Cycle) * Width
                            /\ SubgraphId(l) = (l \div Cycle) + Extra
<1> DEFINE C == Cumulative(n_world, window)
           t == Turn(n_world, my_rank)
<1>1. n_world \in Nat \ {0} /\ Deal(n_world, window) /\ my_rank \in 0..n_world-1
  BY BoundsAssumption DEF ConfigInv, Deal
<1>2. Cycle = C[n_world] /\ Cycle \in Nat \ {0}
  BY <1>1, CycleIs DEF Cycle
<1>3. First = C[t - 1] /\ C[t] = First + Width /\ t \in 1..n_world
  BY <1>1, EarlierIs DEF First, Width
<1>4. Width \in Nat \ {0}
  BY <1>1 DEF Deal, Width
<1>5. t \in Nat /\ t - 1 \in Nat /\ C[0] = 0 /\ First \in Nat
  <2>1. t \in Nat /\ t - 1 \in Nat
    BY <1>1, <1>3
  <2>2. QED BY <1>1, <1>3, <2>1, Dealt
<1>6. First + Width <= Cycle /\ (First + Width = Cycle => t = n_world)
  <2>1. CASE t = n_world
    BY <1>2, <1>3, <1>4, <1>5, <2>1
  <2>2. CASE t # n_world
    <3>1. t < n_world
      BY <1>1, <1>3, <2>2
    <3>2. C[t] < C[n_world]
      BY <1>1, <1>5, <3>1, DealtGrows
    <3>3. QED BY <1>2, <1>3, <1>4, <1>5, <3>2
  <2>3. QED BY <2>1, <2>2
<1>7. ASSUME First = 0, Width = Cycle PROVE Cycle = n_layer
  <2>1. t = n_world
    BY <1>2, <1>6, <1>7
  <2>2. t = 1
    <3>1. SUFFICES ASSUME 0 < t - 1 PROVE FALSE
      BY <1>5, <1>3
    <3>2. C[0] < C[t - 1]
      BY <1>1, <1>5, <3>1, DealtGrows
    <3>3. QED BY <1>3, <1>5, <1>7, <3>2
  <2>3. window = [r \in {0} |-> n_layer] /\ my_rank = 0
    BY <1>1, <2>1, <2>2 DEF ConfigInv
  <2>4. Width = n_layer
    BY <2>3 DEF Width
  <2>5. QED BY <1>7, <2>4
<1>8. ASSUME NEW l \in Nat
      PROVE  /\ Mine(l) <=> First <= l % Cycle /\ l % Cycle < First + Width
             /\ Mine(l) => /\ LocalId(l) = (l % Cycle) - First + (l \div Cycle) * Width
                           /\ SubgraphId(l) = (l \div Cycle) + Extra
  <2>1. Mine(l) <=> OwnerRank(l, n_world, window) = my_rank
    BY DEF Mine, this_layer_is_mine
  <2>2. Mine(l) <=> First <= l % Cycle /\ l % Cycle < First + Width
    BY <1>1, <2>1, OwnerWithin DEF First, Cycle, Width
  <2>3. QED BY <2>2 DEF LocalId, map_layer_to_local_id, SubgraphId, map_layer_to_subgf_id, Mine,
                        First, Cycle, Width, Extra
<1>9. QED BY <1>1, <1>2, <1>4, <1>5, <1>6, <1>7, <1>8

LEMMA BeforeNext ==
  ASSUME ConfigInv, NEW l \in Nat
  PROVE  /\ Before(l) \in Nat
         /\ Before(l + 1) = Before(l) + (IF Mine(l) THEN 1 ELSE 0)
         /\ Mine(l) => LocalId(l) = Before(l)
<1> DEFINE q == l \div Cycle
           o == l % Cycle
           F == First
           W == Width
           S == Cycle
           q1 == (l + 1) \div Cycle
           o1 == (l + 1) % Cycle
<1>1. /\ S \in Nat \ {0} /\ F \in Nat /\ W \in Nat \ {0} /\ F + W <= S
      /\ Mine(l) <=> F <= o /\ o < F + W
      /\ Mine(l) => LocalId(l) = o - F + q * W
  BY WalkArithmetic
<1>2. q \in Nat /\ o \in 0..S-1
  BY <1>1, Divide
<1>3. o1 = (IF o + 1 = S THEN 0 ELSE o + 1) /\ q1 = IF o + 1 = S THEN q + 1 ELSE q
  BY <1>1, DivideNext
<1>4. /\ Before(l) = q * W + (IF o <= F THEN 0 ELSE IF o <= F + W THEN o - F ELSE W)
      /\ Before(l + 1) = q1 * W + (IF o1 <= F THEN 0 ELSE IF o1 <= F + W THEN o1 - F ELSE W)
  BY DEF Before
<1> HIDE DEF q, o, F, W, S, q1, o1
<1>5. (q + 1) * W = q * W + W /\ q * W \in Nat
  <2>1. W \in Nat
    BY <1>1
  <2>2. (q + 1) * W = q * W + W /\ W * q \in Nat /\ q * W = W * q
    BY <1>2, <2>1, Products
  <2>3. QED BY <2>2
<1> DEFINE x == q * W
<1>6. q1 * W = IF o + 1 = S THEN x + W ELSE x
  BY <1>3, <1>5
<1> DEFINE y == q1 * W
<1> HIDE DEF x, y
<1>7. /\ Before(l) = x + (IF o <= F THEN 0 ELSE IF o <= F + W THEN o - F ELSE W)
      /\ Before(l + 1) = y + (IF o1 <= F THEN 0 ELSE IF o1 <= F + W THEN o1 - F ELSE W)
      /\ y = (IF o + 1 = S THEN x + W ELSE x) /\ x \in Nat
      /\ Mine(l) => LocalId(l) = o - F + x
  BY <1>1, <1>4, <1>5, <1>6 DEF x, y
<1>8. Before(l) \in Nat
  BY <1>1, <1>2, <1>7
<1>9. Mine(l) => LocalId(l) = Before(l)
  BY <1>1, <1>2, <1>7
<1>10. Before(l + 1) = Before(l) + (IF Mine(l) THEN 1 ELSE 0)
  <2>1. CASE Mine(l)
    BY <1>1, <1>2, <1>3, <1>7, <2>1
  <2>2. CASE ~Mine(l)
    BY <1>1, <1>2, <1>3, <1>7, <2>2
  <2>3. QED BY <2>1, <2>2
<1>11. QED BY <1>8, <1>9, <1>10

LEMMA StartedNext ==
  ASSUME ConfigInv, NEW l \in Nat, l < n_layer
  PROVE  /\ Started(l) \in Nat
         /\ ~Mine(l) => Started(l + 1) = Started(l)
         /\ Mine(l) /\ (l = 0 \/ ~Mine(l - 1)) =>
              Started(l + 1) = Started(l) + 1 /\ SubgraphId(l) = Extra + Started(l)
         /\ Mine(l) /\ l > 0 /\ Mine(l - 1) =>
              Started(l + 1) = Started(l) /\ SubgraphId(l) + 1 = Extra + Started(l)
<1> DEFINE q == l \div Cycle
           o == l % Cycle
           F == First
           W == Width
           S == Cycle
           q1 == (l + 1) \div Cycle
           o1 == (l + 1) % Cycle
           o0 == (l - 1) % Cycle
<1>1. /\ S \in Nat \ {0} /\ F \in Nat /\ W \in Nat \ {0} /\ F + W <= S
      /\ Mine(l) <=> F <= o /\ o < F + W
      /\ Mine(l) => SubgraphId(l) = q + Extra
      /\ F = 0 /\ W = S => S = n_layer
  BY WalkArithmetic
<1>2. q \in Nat /\ o \in 0..S-1 /\ l = S * q + o
  BY <1>1, Divide
<1>3. o1 = (IF o + 1 = S THEN 0 ELSE o + 1) /\ q1 = IF o + 1 = S THEN q + 1 ELSE q
  BY <1>1, DivideNext
<1>4. /\ Started(l) = q + (IF o > F THEN 1 ELSE 0)
      /\ Started(l + 1) = q1 + (IF o1 > F THEN 1 ELSE 0)
  BY DEF Started
<1>5. ASSUME l > 0
      PROVE  /\ Mine(l - 1) <=> F <= o0 /\ o0 < F + W
             /\ o0 \in 0..S-1 /\ o = IF o0 + 1 = S THEN 0 ELSE o0 + 1
  <2>1. l - 1 \in Nat /\ (l - 1) + 1 = l
    BY <1>5
  <2>2. Mine(l - 1) <=> F <= o0 /\ o0 < F + W
    BY <2>1, WalkArithmetic
  <2>3. o0 \in 0..S-1
    BY <1>1, <2>1, Divide
  <2>4. o = IF o0 + 1 = S THEN 0 ELSE o0 + 1
    <3>1. ((l - 1) + 1) % S = IF ((l - 1) % S) + 1 = S THEN 0 ELSE ((l - 1) % S) + 1
      BY <1>1, <2>1, DivideNext
    <3>2. QED BY <2>1, <3>1
  <2>5. QED BY <2>2, <2>3, <2>4
<1>6. l = 0 => o = 0
  <2>1. \A b \in Nat \ {0} : 0 % b = 0
    OBVIOUS
  <2>2. QED BY <1>1, <2>1
<1>7. n_layer \in Nat /\ Extra \in Nat
  BY BoundsAssumption DEF ConfigInv, Extra
<1>8. S = n_layer => o = l
  BY <1>1, <1>7, Small
<1> HIDE DEF q, o, F, W, S, q1, o1, o0
<1>9. Started(l) \in Nat
  BY <1>1, <1>2, <1>4
<1>10. ~Mine(l) => Started(l + 1) = Started(l)
  BY <1>1, <1>2, <1>3, <1>4
<1>11. ASSUME Mine(l), l = 0 \/ ~Mine(l - 1)
       PROVE  Started(l + 1) = Started(l) + 1 /\ SubgraphId(l) = Extra + Started(l)
  <2>1. o = F
    <3>1. CASE l = 0
      BY <1>1, <1>6, <1>11, <3>1
    <3>2. CASE l > 0
      BY <1>1, <1>2, <1>5, <1>11, <3>2
    <3>3. QED BY <3>1, <3>2
  <2>2. Started(l) = q
    BY <1>1, <1>2, <1>4, <2>1
  <2>3. SubgraphId(l) = Extra + q
    BY <1>1, <1>2, <1>7, <1>11
  <2>4. Started(l + 1) = q + 1
    <3>1. CASE o + 1 = S
      BY <1>1, <1>2, <1>3, <1>4, <3>1
    <3>2. CASE o + 1 # S
      BY <1>1, <1>2, <1>3, <1>4, <2>1, <3>2
    <3>3. QED BY <3>1, <3>2
  <2>5. QED BY <2>2, <2>3, <2>4
<1>12. ASSUME Mine(l), l > 0, Mine(l - 1)
       PROVE  Started(l + 1) = Started(l) /\ SubgraphId(l) + 1 = Extra + Started(l)
  <2>1. o > F
    <3>1. CASE o0 + 1 # S
      BY <1>1, <1>2, <1>5, <1>12, <3>1
    <3>2. CASE o0 + 1 = S
      <4>1. o = 0 /\ F = 0 /\ W = S
        BY <1>1, <1>2, <1>5, <1>12, <3>2
      <4>2. QED BY <1>1, <1>8, <1>12, <4>1
    <3>3. QED BY <3>1, <3>2
  <2>2. QED BY <1>1, <1>2, <1>3, <1>4, <1>7, <1>12, <2>1
<1>13. QED BY <1>9, <1>10, <1>11, <1>12


-----------------------------------------------------------------------------
(* The invariant.                                                          *)
LEMMA ConfigKept ==
  ASSUME UNCHANGED config
  PROVE  /\ ConfigInv' <=> ConfigInv
         /\ \A l : /\ Mine(l)' <=> Mine(l)
                   /\ LocalId(l)' = LocalId(l) /\ SubgraphId(l)' = SubgraphId(l)
                   /\ Before(l)' = Before(l) /\ Started(l)' = Started(l)
         /\ \A m : il' = m => /\ Before(il)' = Before(m) /\ Started(il)' = Started(m)
                              /\ Mine(il - 1)' <=> Mine(m - 1)
         /\ Extra' = Extra /\ n_layer' = n_layer
<1> UNCHANGED <<n_world, n_layer, window, my_rank>>
  BY DEF config
<1>1. Cycle' = Cycle /\ First' = First /\ Width' = Width
  BY DEF Cycle, First, Width
<1>2. \A l : Before(l)' = Before(l) /\ Started(l)' = Started(l)
  BY <1>1 DEF Before, Started
<1>3. \A m : il' = m => /\ Before(il)' = Before(m) /\ Started(il)' = Started(m)
                        /\ Mine(il - 1)' <=> Mine(m - 1)
  BY <1>1 DEF Before, Started, Mine
<1>4. QED BY <1>2, <1>3 DEF ConfigInv, Mine, LocalId, SubgraphId, Extra

LEMMA ZeroFirst == ASSUME NEW n \in Nat PROVE 0 \in 0..n
OBVIOUS

LEMMA ZeroOver ==
  /\ \A b \in Nat \ {0} : 0 % b = 0 /\ 0 \div b = 0
  /\ \A b \in Nat : 0 * b = 0
OBVIOUS

LEMMA NoLayers ==
  /\ <<>> \in Seq(Nat) /\ <<>> \in Seq(Seq(Nat)) /\ <<<<>>>> \in Seq(Seq(Nat))
  /\ Len(<<>>) = 0 /\ Len(<<<<>>>>) = 1 /\ <<<<>>>>[1] = <<>>
<1> DEFINE nothing == <<>>
<1>1. nothing \in Seq(Nat) /\ nothing \in Seq(Seq(Nat)) /\ Len(nothing) = 0
  OBVIOUS
<1> HIDE DEF nothing
<1>2. <<nothing>> \in Seq(Seq(Nat)) /\ Len(<<nothing>>) = 1 /\ <<nothing>>[1] = nothing
  BY <1>1
<1>3. QED BY <1>1, <1>2 DEF nothing

LEMMA WalkInit == Init => WalkInv
<1> SUFFICES ASSUME Init PROVE WalkInv
  OBVIOUS
<1>0. /\ n_world \in 1..MaxWorld /\ n_layer \in 1..MaxLayers
      /\ window \in IF n_world = 1 THEN {[r \in {0} |-> n_layer]}
                    ELSE [0..n_world-1 -> 1..MaxWindow]
      /\ my_rank \in 0..n_world-1
  BY DEF Init
<1>1. /\ il = 0 /\ k_l = <<>> /\ sub_gf = <<>> /\ done = FALSE
      /\ sub_gfs = IF my_rank = 0 THEN <<<<>>>> ELSE <<>>
  BY DEF Init
<1>2. ConfigInv
  <2>1. MaxWindow \in Nat /\ MaxWorld \in Nat /\ MaxLayers \in Nat
    BY BoundsAssumption
  <2>2. n_world \in Nat \ {0} /\ n_layer \in Nat \ {0}
    BY <1>0, <2>1
  <2>3. CASE n_world = 1
    <3>1. window = [r \in {0} |-> n_layer] /\ 0..n_world-1 = {0}
      BY <1>0, <2>3
    <3>2. QED BY <1>0, <2>2, <3>1 DEF ConfigInv
  <2>4. CASE n_world # 1
    BY <1>0, <2>1, <2>4 DEF ConfigInv
  <2>5. QED BY <2>3, <2>4
<1>3. WalkType
  <2>1. n_layer \in Nat
    BY <1>0, BoundsAssumption
  <2>2. il \in 0..n_layer
    BY <1>1, <2>1, ZeroFirst
  <2>3. QED BY <1>1, <2>2, NoLayers DEF WalkType
<1>4. Before(0) = 0 /\ Started(0) = 0
  <2>1. Cycle \in Nat \ {0} /\ First \in Nat /\ Width \in Nat
    BY <1>2, WalkArithmetic
  <2>2. QED BY <2>1, ZeroOver DEF Before, Started
<1>5. KInv
  <2>1. Len(k_l) = 0 /\ k_l = <<>>
    BY <1>1, NoLayers
  <2>2. QED BY <1>1, <1>4, <2>1 DEF KInv, LocalIdsFindTheLayer
<1>6. OpenInv
  <2>1. Len(sub_gfs) = Extra /\ Extra \in Nat
    BY <1>1, NoLayers DEF Extra
  <2>2. QED BY <1>1, <1>4, <2>1, NoLayers DEF OpenInv, Run
<1>7. \A s \in DOMAIN sub_gfs : sub_gfs[s] = <<>>
  BY <1>1, NoLayers
<1>8. SubgraphIdsMatch /\ OutputGoesToNextRank
  BY <1>7 DEF SubgraphIdsMatch, OutputGoesToNextRank
<1>9. QED BY <1>2, <1>3, <1>5, <1>6, <1>8 DEF WalkInv

IdsIn(x) == \A s \in DOMAIN x : \A i \in DOMAIN x[s] : SubgraphId(x[s][i]) = s - 1

Passes(g) == g # <<>> => /\ Run(g)
                         /\ g[Len(g)] + 1 < n_layer =>
                              OwnerRank(g[Len(g)] + 1, n_world, window) = NextRank

(* The open sub-graph is complete when the next layer is of another rank,  *)
(* or there is none.                                                       *)
LEMMA Complete ==
  ASSUME ConfigInv, WalkType, OpenInv, il = n_layer \/ ~Mine(il)
  PROVE  Passes(sub_gf)
<1> SUFFICES ASSUME sub_gf # <<>>, il < n_layer
             PROVE  OwnerRank(il, n_world, window) = NextRank
  <2>1. n_layer \in Nat /\ il \in Nat
    BY BoundsAssumption DEF ConfigInv, WalkType
  <2>2. CASE sub_gf # <<>>
    <3>1. sub_gf[Len(sub_gf)] + 1 = il /\ Run(sub_gf)
      BY <2>1, <2>2 DEF OpenInv
    <3>2. QED BY <2>1, <3>1 DEF Passes
  <2>3. QED BY <2>2 DEF Passes
<1>1. Deal(n_world, window) /\ il - 1 \in Nat /\ (il - 1) + 1 = il
  BY WalkArithmetic, BoundsAssumption DEF ConfigInv, WalkType, OpenInv
<1>2. OwnerRank(il - 1, n_world, window) = my_rank /\ OwnerRank(il, n_world, window) # my_rank
  <2>1. Mine(il - 1) /\ ~Mine(il)
    BY BoundsAssumption DEF OpenInv, ConfigInv, WalkType
  <2>2. QED BY <2>1 DEF Mine, this_layer_is_mine
<1>3. QED BY <1>1, <1>2, OwnerNext DEF NextRank

Close == IF sub_gf = <<>> THEN sub_gfs ELSE Append(sub_gfs, sub_gf)

LEMMA Closed ==
  ASSUME ConfigInv, WalkType, OpenInv, SubgraphIdsMatch, OutputGoesToNextRank,
         il = n_layer \/ ~Mine(il)
  PROVE  /\ Close \in Seq(Seq(Nat)) /\ IdsIn(Close)
         /\ \A s \in DOMAIN Close : Passes(Close[s])
         /\ Len(Close) = Len(sub_gfs) + (IF sub_gf = <<>> THEN 0 ELSE 1)
<1>1. sub_gfs \in Seq(Seq(Nat)) /\ sub_gf \in Seq(Nat) /\ Len(sub_gfs) \in Nat
  BY DEF WalkType
<1>2. IdsIn(sub_gfs) /\ \A s \in DOMAIN sub_gfs : Passes(sub_gfs[s])
  BY DEF IdsIn, SubgraphIdsMatch, Passes, OutputGoesToNextRank, Run
<1>3. CASE sub_gf = <<>>
  BY <1>1, <1>2, <1>3 DEF Close
<1>4. CASE sub_gf # <<>>
  <2> DEFINE x == Append(sub_gfs, sub_gf)
  <2>1. Close = x
    BY <1>4 DEF Close
  <2>2. /\ x \in Seq(Seq(Nat)) /\ Len(x) = Len(sub_gfs) + 1 /\ x[Len(sub_gfs) + 1] = sub_gf
        /\ \A s \in 1..Len(sub_gfs) : x[s] = sub_gfs[s]
        /\ DOMAIN x = 1..Len(sub_gfs)+1 /\ DOMAIN sub_gfs = 1..Len(sub_gfs)
    BY <1>1
  <2> HIDE DEF x
  <2>3. ASSUME NEW s \in DOMAIN x
        PROVE  (\A i \in DOMAIN x[s] : SubgraphId(x[s][i]) = s - 1) /\ Passes(x[s])
    <3>1. CASE s \in 1..Len(sub_gfs)
      BY <1>2, <2>2, <3>1 DEF IdsIn
    <3>2. CASE s = Len(sub_gfs) + 1
      <4>1. s - 1 = Len(sub_gfs) /\ x[s] = sub_gf
        BY <1>1, <2>2, <3>2
      <4>2. Passes(sub_gf)
        BY Complete
      <4>3. QED BY <4>1, <4>2 DEF OpenInv
    <3>3. s \in 1..Len(sub_gfs) \/ s = Len(sub_gfs) + 1
      BY <1>1, <2>2
    <3>4. QED BY <3>1, <3>2, <3>3
  <2>4. QED BY <1>4, <2>1, <2>2, <2>3 DEF IdsIn
<1>5. QED BY <1>3, <1>4

LEMMA Kept ==
  ASSUME UNCHANGED config, NEW x, sub_gfs' = x, IdsIn(x), \A s \in DOMAIN x : Passes(x[s])
  PROVE  SubgraphIdsMatch' /\ OutputGoesToNextRank'
<1>1. SubgraphIdsMatch'
  <2>1. SubgraphIdsMatch' <=> \A s \in DOMAIN x : \A i \in DOMAIN x[s] : SubgraphId(x[s][i])' = s - 1
    BY DEF SubgraphIdsMatch
  <2>2. QED BY <2>1, ConfigKept DEF IdsIn
<1>2. OutputGoesToNextRank'
  <2> UNCHANGED <<n_world, n_layer, window, my_rank>>
    BY DEF config
  <2>1. QED BY DEF OutputGoesToNextRank, Passes, NextRank, Run
<1>3. QED BY <1>1, <1>2

LEMMA WalkSkip ==
  ASSUME WalkInv, SkipLayer
  PROVE  WalkInv'
<1>1. /\ UNCHANGED config /\ il < n_layer /\ ~Mine(il) /\ sub_gfs' = Close /\ sub_gf' = <<>>
      /\ il' = il + 1 /\ k_l' = k_l /\ done' = done
  BY DEF SkipLayer, Close
<1>2. n_layer \in Nat /\ il \in Nat /\ n_layer' = n_layer /\ (il + 1) - 1 = il /\ il + 1 \in 0..n_layer
  BY <1>1, BoundsAssumption DEF WalkInv, ConfigInv, WalkType, config
<1>3. ConfigInv' /\ ConfigInv
  BY <1>1, ConfigKept DEF WalkInv
<1>4. /\ Close \in Seq(Seq(Nat)) /\ IdsIn(Close)
      /\ \A s \in DOMAIN Close : Passes(Close[s])
      /\ Len(Close) = Len(sub_gfs) + (IF sub_gf = <<>> THEN 0 ELSE 1)
  BY <1>1, Closed DEF WalkInv
<1>5. WalkType'
  BY <1>1, <1>2, <1>4 DEF WalkInv, WalkType
<1>6. KInv'
  <2>1. Before(il + 1) = Before(il)
    BY <1>1, <1>2, <1>3, BeforeNext
  <2>2. Len(k_l') = Before(il)'
    BY <1>1, <2>1, ConfigKept DEF WalkInv, KInv
  <2>3. LocalIdsFindTheLayer'
    BY <1>1 DEF WalkInv, KInv, LocalIdsFindTheLayer, LocalId, config
  <2>4. QED BY <2>2, <2>3 DEF KInv
<1>7. OpenInv'
  <2>1. Started(il + 1) = Started(il) /\ Started(il) \in Nat
    BY <1>1, <1>2, <1>3, StartedNext
  <2>2. ~done => Len(sub_gfs') = Extra' + Started(il)'
    BY <1>1, <1>4, <2>1, ConfigKept DEF WalkInv, OpenInv
  <2>3. ~Mine(il - 1)'
    BY <1>1, <1>2, ConfigKept
  <2>4. Len(sub_gfs') + 0 = Len(sub_gfs')
    BY <1>5 DEF WalkType
  <2>5. ~done'
    BY <1>1, <1>2 DEF WalkInv, OpenInv
  <2>6. QED BY <1>1, <2>2, <2>3, <2>4, <2>5 DEF OpenInv, Run
<1>8. QED BY <1>1, <1>3, <1>4, <1>5, <1>6, <1>7, Kept DEF WalkInv


LEMMA WalkTake ==
  ASSUME WalkInv, TakeLayer
  PROVE  WalkInv'
<1>1. /\ UNCHANGED config /\ il < n_layer /\ Mine(il) /\ sub_gfs' = sub_gfs
      /\ sub_gf' = Append(sub_gf, il) /\ k_l' = Append(k_l, il)
      /\ il' = il + 1 /\ done' = done
  BY DEF TakeLayer
<1>2. n_layer \in Nat /\ il \in Nat /\ n_layer' = n_layer /\ (il + 1) - 1 = il /\ il + 1 \in 0..n_layer
  BY <1>1, BoundsAssumption DEF WalkInv, ConfigInv, WalkType, config
<1>3. ConfigInv' /\ ConfigInv /\ WalkType /\ OpenInv
  BY <1>1, ConfigKept DEF WalkInv
<1>4. /\ sub_gf \in Seq(Nat) /\ k_l \in Seq(Nat) /\ Len(sub_gf) \in Nat /\ Len(k_l) \in Nat
      /\ Len(sub_gfs) \in Nat /\ Extra \in Nat /\ ~done
  BY <1>1, <1>2, <1>3 DEF WalkType, Extra, OpenInv
<1>5. WalkType'
  <2>1. Append(sub_gf, il) \in Seq(Nat) /\ Append(k_l, il) \in Seq(Nat)
    BY <1>2, <1>4
  <2>2. QED BY <1>1, <1>2, <1>3, <2>1 DEF WalkType
<1>6. KInv'
  <2>1. Before(il + 1) = Before(il) + 1 /\ LocalId(il) = Before(il)
    BY <1>1, <1>2, <1>3, BeforeNext
  <2> DEFINE k == Append(k_l, il)
  <2>2. /\ Len(k) = Len(k_l) + 1 /\ DOMAIN k = 1..Len(k_l)+1 /\ DOMAIN k_l = 1..Len(k_l)
        /\ k[Len(k_l) + 1] = il /\ \A i \in 1..Len(k_l) : k[i] = k_l[i]
    BY <1>4
  <2> HIDE DEF k
  <2>3. \A i \in DOMAIN k : LocalId(k[i]) = i - 1
    <3>1. SUFFICES ASSUME NEW i \in DOMAIN k PROVE LocalId(k[i]) = i - 1
      OBVIOUS
    <3>2. CASE i \in 1..Len(k_l)
      BY <2>2, <3>2 DEF WalkInv, KInv, LocalIdsFindTheLayer
    <3>3. CASE i = Len(k_l) + 1
      <4>1. LocalId(k[i]) = Len(k_l) /\ i - 1 = Len(k_l)
        BY <1>4, <2>1, <2>2, <3>3 DEF WalkInv, KInv
      <4>2. QED BY <4>1
    <3>4. i \in 1..Len(k_l) \/ i = Len(k_l) + 1
      BY <1>4, <2>2
    <3>5. QED BY <3>2, <3>3, <3>4
  <2>4. LocalIdsFindTheLayer'
    <3>1. k_l' = k
      BY <1>1 DEF k
    <3>2. QED BY <1>1, <2>3, <3>1 DEF LocalIdsFindTheLayer, LocalId, config
  <2>5. Len(k_l') = Before(il)'
    <3>1. Len(k_l') = Len(k_l) + 1
      BY <1>1, <2>2 DEF k
    <3>2. QED BY <1>1, <2>1, <3>1, ConfigKept DEF WalkInv, KInv
  <2>6. QED BY <2>4, <2>5 DEF KInv
<1>7. OpenInv'
  <2> DEFINE g == Append(sub_gf, il)
  <2>1. /\ Len(g) = Len(sub_gf) + 1 /\ DOMAIN g = 1..Len(sub_gf)+1 /\ DOMAIN sub_gf = 1..Len(sub_gf)
        /\ g[Len(sub_gf) + 1] = il /\ \A i \in 1..Len(sub_gf) : g[i] = sub_gf[i]
    BY <1>2, <1>4
  <2> HIDE DEF g
  <2>2. g # <<>>
    BY <1>4, <2>1
  <2>3. Run(g)
    <3>1. SUFFICES ASSUME NEW i \in 1..Len(sub_gf) PROVE g[i + 1] = g[i] + 1
      BY <1>4, <2>1 DEF Run
    <3>2. CASE i = Len(sub_gf)
      <4>1. sub_gf # <<>>
        BY <1>4, <3>2
      <4>2. sub_gf[Len(sub_gf)] = il - 1
        BY <1>3, <4>1 DEF OpenInv
      <4>3. QED BY <1>2, <2>1, <3>2, <4>2
    <3>3. CASE i # Len(sub_gf)
      <4>1. i \in 1..Len(sub_gf)-1 /\ i + 1 \in 1..Len(sub_gf)
        BY <1>4, <3>3
      <4>2. sub_gf[i + 1] = sub_gf[i] + 1
        BY <1>3, <4>1 DEF OpenInv, Run
      <4>3. QED BY <2>1, <4>1, <4>2
    <3>4. QED BY <3>2, <3>3
  <2>4. SubgraphId(il) = Len(sub_gfs) /\ Len(sub_gfs) + 1 = Extra + Started(il + 1)
    <3>1. CASE sub_gf = <<>>
      <4>1. il = 0 \/ ~Mine(il - 1)
        BY <1>2, <1>3, <1>4, <3>1 DEF OpenInv
      <4>2. Started(il + 1) = Started(il) + 1 /\ SubgraphId(il) = Extra + Started(il)
            /\ Started(il) \in Nat
        BY <1>1, <1>2, <1>3, <4>1, StartedNext
      <4>3. Len(sub_gfs) + 0 = Extra + Started(il)
        BY <1>3, <1>4, <3>1 DEF OpenInv
      <4>4. Len(sub_gfs) = Extra + Started(il)
        BY <1>4, <4>3
      <4>5. (Extra + Started(il)) + 1 = Extra + (Started(il) + 1)
        BY <1>4, <4>2
      <4>6. QED BY <4>2, <4>4, <4>5
    <3>2. CASE sub_gf # <<>>
      <4>1. il > 0 /\ Mine(il - 1)
        BY <1>3, <3>2 DEF OpenInv
      <4>2. Started(il + 1) = Started(il) /\ SubgraphId(il) + 1 = Extra + Started(il)
            /\ Started(il) \in Nat
        BY <1>1, <1>2, <1>3, <4>1, StartedNext
      <4>3. Len(sub_gfs) + 1 = Extra + Started(il)
        BY <1>3, <1>4, <3>2 DEF OpenInv
      <4>4. SubgraphId(il) \in Nat
        <5>1. SubgraphId(il) = (il \div Cycle) + Extra /\ Cycle \in Nat \ {0}
          BY <1>1, <1>2, <1>3, WalkArithmetic
        <5>2. il \div Cycle \in Nat
          BY <1>2, <5>1, Divide
        <5>3. QED BY <1>4, <5>1, <5>2
      <4>5. QED BY <1>4, <4>2, <4>3, <4>4
    <3>3. QED BY <3>1, <3>2
  <2>5. \A i \in DOMAIN g : SubgraphId(g[i]) = Len(sub_gfs)
    <3>1. SUFFICES ASSUME NEW i \in DOMAIN g PROVE SubgraphId(g[i]) = Len(sub_gfs)
      OBVIOUS
    <3>2. i \in 1..Len(sub_gf) \/ i = Len(sub_gf) + 1
      BY <1>4, <2>1
    <3>3. QED BY <1>3, <2>1, <2>4, <3>2 DEF OpenInv
  <2>6. sub_gf' = g
    BY <1>1 DEF g
  <2>7. /\ Mine(il - 1)' /\ Started(il)' = Started(il + 1) /\ Extra' = Extra
        /\ \A l : SubgraphId(l)' = SubgraphId(l)
    BY <1>1, <1>2, ConfigKept
  <2>8. il' > 0 /\ g[Len(g)] = il' - 1
    BY <1>1, <1>2, <2>1
  <2>9. \A i \in DOMAIN sub_gf' : SubgraphId(sub_gf[i])' = Len(sub_gfs)
    <3>1. ASSUME NEW i \in DOMAIN g PROVE SubgraphId(sub_gf[i])' = Len(sub_gfs)
      <4>1. sub_gf'[i] = g[i]
        BY <2>6
      <4>2. SubgraphId(sub_gf[i])' = SubgraphId(g[i])
        BY <1>1, <4>1 DEF SubgraphId, config
      <4>3. QED BY <2>5, <4>2
    <3>2. QED BY <2>6, <3>1
  <2>10. QED BY <1>1, <1>4, <2>1, <2>2, <2>3, <2>4, <2>6, <2>7, <2>8, <2>9 DEF OpenInv, Run
<1>8. SubgraphIdsMatch' /\ OutputGoesToNextRank'
  <2>1. IdsIn(sub_gfs) /\ \A s \in DOMAIN sub_gfs : Passes(sub_gfs[s])
    BY DEF WalkInv, IdsIn, SubgraphIdsMatch, Passes, OutputGoesToNextRank, Run
  <2>2. QED BY <1>1, <2>1, Kept
<1>9. QED BY <1>3, <1>5, <1>6, <1>7, <1>8 DEF WalkInv

LEMMA WalkFinish ==
  ASSUME WalkInv, Finish
  PROVE  WalkInv'
<1> DEFINE out == IF my_rank = 0 THEN << <<>> >> ELSE <<>>
           x == Close \o out
<1>1. /\ UNCHANGED config /\ il = n_layer /\ sub_gfs' = x /\ sub_gf' = <<>>
      /\ il' = il /\ k_l' = k_l /\ done' = TRUE
  BY DEF Finish, Close
<1>2. ConfigInv' /\ ConfigInv /\ n_layer' = n_layer
  BY <1>1, ConfigKept DEF WalkInv
<1>3. Close \in Seq(Seq(Nat)) /\ IdsIn(Close) /\ \A s \in DOMAIN Close : Passes(Close[s])
  BY <1>1, Closed DEF WalkInv
<1>4. x \in Seq(Seq(Nat)) /\ IdsIn(x) /\ \A s \in DOMAIN x : Passes(x[s])
  <2>1. CASE my_rank # 0
    <3>1. x = Close
      BY <1>3, <2>1
    <3>2. QED BY <1>3, <3>1
  <2>2. CASE my_rank = 0
    <3>1. x = Append(Close, <<>>)
      BY <1>3, <2>2
    <3>2. /\ x \in Seq(Seq(Nat)) /\ x[Len(Close) + 1] = <<>> /\ DOMAIN x = 1..Len(Close)+1
          /\ DOMAIN Close = 1..Len(Close) /\ Len(Close) \in Nat
          /\ \A s \in 1..Len(Close) : x[s] = Close[s]
      BY <1>3, <3>1
    <3> HIDE DEF x
    <3>3. ASSUME NEW s \in DOMAIN x
          PROVE  (\A i \in DOMAIN x[s] : SubgraphId(x[s][i]) = s - 1) /\ Passes(x[s])
      <4>1. s \in 1..Len(Close) \/ s = Len(Close) + 1
        BY <3>2
      <4>2. CASE s \in 1..Len(Close)
        BY <1>3, <3>2, <4>2 DEF IdsIn
      <4>3. CASE s = Len(Close) + 1
        BY <3>2, <4>3 DEF Passes
      <4>4. QED BY <4>1, <4>2, <4>3
    <3>4. QED BY <3>2, <3>3 DEF IdsIn
  <2>3. QED BY <2>1, <2>2
<1> HIDE DEF x
<1>5. WalkType'
  BY <1>1, <1>2, <1>4 DEF WalkInv, WalkType
<1>6. KInv'
  <2>1. Len(k_l') = Before(il)'
    BY <1>1, ConfigKept DEF WalkInv, KInv
  <2>2. LocalIdsFindTheLayer'
    BY <1>1 DEF WalkInv, KInv, LocalIdsFindTheLayer, LocalId, config
  <2>3. QED BY <2>1, <2>2 DEF KInv
<1>7. OpenInv'
  BY <1>1, <1>2 DEF OpenInv, Run
<1>8. QED BY <1>1, <1>2, <1>4, <1>5, <1>6, <1>7, Kept DEF WalkInv

LEMMA WalkStep == WalkInv /\ [Next]_vars => WalkInv'
<1> SUFFICES ASSUME WalkInv, [Next]_vars PROVE WalkInv'
  OBVIOUS
<1>1. CASE UNCHANGED vars
  <2> UNCHANGED <<n_world, n_layer, window, my_rank, il, sub_gf, sub_gfs, k_l, done>>
    BY <1>1 DEF vars
  <2>1. ConfigInv' /\ WalkType'
    BY DEF WalkInv, ConfigInv, WalkType
  <2>2. KInv' /\ OpenInv' /\ SubgraphIdsMatch' /\ OutputGoesToNextRank'
    BY DEF WalkInv, KInv, OpenInv, SubgraphIdsMatch, OutputGoesToNextRank, LocalIdsFindTheLayer,
           Before, Started, Run, Mine, LocalId, SubgraphId, Extra, Cycle, First, Width, NextRank
  <2>3. QED BY <2>1, <2>2 DEF WalkInv
<1>2. QED BY <1>1, WalkSkip, WalkTake, WalkFinish DEF Next

(* The types, how many tensors and sub-graphs there are at every layer,    *)
(* and what is in them.                                                    *)
THEOREM WalkInvariant == Spec => []WalkInv
<1>1. QED BY WalkInit, WalkStep, PTL DEF Spec

(* map_layer_to_local_id: a device finds the tensors of every layer it has *)
(* where its walk over the model has put them, for all windows.            *)
THEOREM LocalIdsAreRight == Spec => []LocalIdsFindTheLayer
<1>1. WalkInv => LocalIdsFindTheLayer
  BY DEF WalkInv, KInv
<1>2. QED BY <1>1, WalkInvariant, PTL

(* map_layer_to_subgf_id agrees with the way build_llama divides the       *)
(* layers into sub-graphs.                                                 *)
THEOREM SubgraphIdsAreRight == Spec => []SubgraphIdsMatch
<1>1. WalkInv => SubgraphIdsMatch
  BY DEF WalkInv
<1>2. QED BY <1>1, WalkInvariant, PTL

(* What a device sends to the next rank is the input of the layer with     *)
(* which that rank goes on.                                                *)
THEOREM OutputsGoOn == Spec => []OutputGoesToNextRank
<1>1. WalkInv => OutputGoesToNextRank
  BY DEF WalkInv
<1>2. QED BY <1>1, WalkInvariant, PTL

=============================================================================
