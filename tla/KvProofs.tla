------------------------------ MODULE KvProofs ------------------------------
(***************************************************************************)
(* Lemmas about the operators of KvOps, for a cache of any size: what each *)
(* of them does to the marks and the count of the cells in use, that the   *)
(* search for a slot finds free cells or has tried every place, that a     *)
(* defragmentation moves each cell at most once, into a hole, that the     *)
(* shift leaves no delta behind, and that a ubatch is stored in cells that *)
(* were free.                                                              *)
(***************************************************************************)
EXTENDS KvOps, FiniteSetTheorems, WellFoundedInduction, TLAPS

(* The least element of a set of natural numbers.                          *)
LEMMA Smallest ==
  ASSUME NEW T \in SUBSET Nat, T # {}
  PROVE  \E x \in T : \A y \in T : x <= y
<1>1. \E x \in T : \A y \in T : ~(<<y, x>> \in OpToRel(<, Nat))
  BY WFMin, NatLessThanWellFounded
<1>2. PICK x \in T : \A y \in T : ~(<<y, x>> \in OpToRel(<, Nat))
  BY <1>1
<1>3. ASSUME NEW y \in T PROVE x <= y
  <2>1. ~(y < x)
    BY <1>2 DEF OpToRel
  <2>2. x \in Nat /\ y \in Nat
    OBVIOUS
  <2>3. QED BY <2>1, <2>2
<1>4. QED BY <1>3

LEMMA MinIs ==
  ASSUME NEW S \in SUBSET Nat, S # {}
  PROVE  Min(S) \in S /\ \A y \in S : Min(S) <= y
BY Smallest DEF Min

LEMMA MaxOfTwo ==
  ASSUME NEW a \in Nat, NEW b \in Nat
  PROVE  /\ Max({a, b}) = IF a >= b THEN a ELSE b
         /\ Min({a, b}) = IF a <= b THEN a ELSE b
BY DEF Max, Min
-----------------------------------------------------------------------------
(* The search for n free cells.                                            *)
InUse(c, n, h) == {i \in h..h+n-1 : c.cells[i].pos >= 0}

(* One turn of the loop; f is what the rest of the search returns.         *)
Try(c, n, f, w) ==
  IF w[1] + n > Size THEN f[<<0, w[2] + Size - w[1]>>]
  ELSE IF InUse(c, n, w[1]) = {} THEN [found |-> TRUE, head |-> w[1]]
  ELSE IF w[2] + (Min(InUse(c, n, w[1])) + 1) - w[1] >= Size
       THEN [found |-> FALSE, head |-> Min(InUse(c, n, w[1])) + 1]
       ELSE f[<<Min(InUse(c, n, w[1])) + 1, w[2] + (Min(InUse(c, n, w[1])) + 1) - w[1]>>]

(* It decreases with every turn.                                           *)
Left(w) == 6 * Size - 2 * w[2] + w[1]

TriesBelow(k) == {w \in Tries : Left(w) < k}

Calls(c, n, w) ==
  IF w[1] + n > Size THEN <<0, w[2] + Size - w[1]>>
  ELSE <<Min(InUse(c, n, w[1])) + 1, w[2] + (Min(InUse(c, n, w[1])) + 1) - w[1]>>

(* The turn after w exists, is another one, and nearer the end.            *)
Goes(c, n, w) ==
  \/ w[1] + n > Size
  \/ InUse(c, n, w[1]) # {} /\ w[2] + (Min(InUse(c, n, w[1])) + 1) - w[1] < Size

LEMMA BusyMin ==
  ASSUME NEW c, NEW n \in 1..Size, NEW h \in 0..Size, h + n <= Size,
         InUse(c, n, h) # {}
  PROVE  /\ Min(InUse(c, n, h)) \in h..h+n-1
         /\ c.cells[Min(InUse(c, n, h))].pos >= 0
         /\ \A i \in h..Min(InUse(c, n, h))-1 : ~(c.cells[i].pos >= 0)
<1>1. Size \in Nat
  BY KvAssumption
<1>2. InUse(c, n, h) \in SUBSET Nat
  BY <1>1 DEF InUse
<1>3. /\ Min(InUse(c, n, h)) \in InUse(c, n, h)
      /\ \A y \in InUse(c, n, h) : Min(InUse(c, n, h)) <= y
  BY <1>2, MinIs
<1> DEFINE m == Min(InUse(c, n, h))
<1>4. m \in h..h+n-1 /\ c.cells[m].pos >= 0
  BY <1>3 DEF InUse
<1>5. ASSUME NEW i \in h..m-1, c.cells[i].pos >= 0 PROVE FALSE
  <2>1. i \in h..h+n-1 /\ i < m
    BY <1>1, <1>4
  <2>2. i \in InUse(c, n, h)
    BY <1>5, <2>1 DEF InUse
  <2>3. m <= i
    BY <1>3, <2>2
  <2>4. QED BY <1>1, <1>4, <2>1, <2>3
<1>6. QED BY <1>4, <1>5

LEMMA TryGoesOn ==
  ASSUME NEW c, NEW n \in 1..Size, NEW w \in Tries, Goes(c, n, w)
  PROVE  Calls(c, n, w) \in Tries /\ Left(Calls(c, n, w)) < Left(w)
<1>1. Size \in Nat /\ Size > 0 /\ w[1] \in 0..Size /\ w[2] \in 0..2*Size
      /\ (w[1] = 0 \/ w[2] < Size)
  BY KvAssumption DEF Tries
<1>2. CASE w[1] + n > Size
  <2>1. Calls(c, n, w) = <<0, w[2] + Size - w[1]>>
    BY <1>2 DEF Calls
  <2>2. w[2] + Size - w[1] \in 0..2*Size /\ w[1] # 0
    BY <1>1, <1>2
  <2>3. QED BY <1>1, <2>1, <2>2 DEF Tries, Left
<1>3. CASE ~(w[1] + n > Size)
  <2> DEFINE m == Min(InUse(c, n, w[1]))
  <2>0. w[1] \in 0..Size /\ w[1] + n <= Size /\ InUse(c, n, w[1]) # {}
    BY <1>1, <1>3 DEF Goes
  <2>1. m \in w[1]..w[1]+n-1
    BY <2>0, BusyMin
  <2>2. Calls(c, n, w) = <<m + 1, w[2] + (m + 1) - w[1]>>
    BY <1>3 DEF Calls
  <2>3. w[2] + (m + 1) - w[1] < Size
    BY <1>3 DEF Goes
  <2>4. m \in Nat /\ m + 1 \in 0..Size /\ w[2] + (m + 1) - w[1] \in 0..2*Size
    BY <1>1, <1>3, <2>1, <2>3
  <2>5. QED BY <1>1, <2>1, <2>2, <2>3, <2>4 DEF Tries, Left
<1>4. QED BY <1>2, <1>3

LEMMA TryUsesCall ==
  ASSUME NEW c, NEW n \in 1..Size, NEW w \in Tries, NEW f, NEW g,
         Goes(c, n, w) => f[Calls(c, n, w)] = g[Calls(c, n, w)]
  PROVE  Try(c, n, f, w) = Try(c, n, g, w)
<1>1. Size \in Nat /\ w[1] \in 0..Size /\ w[2] \in 0..2*Size
  BY KvAssumption DEF Tries
<1>2. CASE w[1] + n > Size
  BY <1>2 DEF Try, Goes, Calls
<1>3. CASE ~(w[1] + n > Size) /\ InUse(c, n, w[1]) = {}
  BY <1>3 DEF Try
<1>4. CASE ~(w[1] + n > Size) /\ InUse(c, n, w[1]) # {}
  <2> DEFINE m == Min(InUse(c, n, w[1]))
  <2>0. w[1] \in 0..Size /\ w[1] + n <= Size
    BY <1>1, <1>4
  <2>1. m \in w[1]..w[1]+n-1
    BY <1>4, <2>0, BusyMin
  <2>2. m \in Int /\ w[1] \in Int /\ w[2] \in Int
    BY <1>1, <2>1
  <2> HIDE DEF m
  <2>3. CASE w[2] + (m + 1) - w[1] >= Size
    BY <1>4, <2>3 DEF Try, m
  <2>4. CASE ~(w[2] + (m + 1) - w[1] >= Size)
    <3>1. Goes(c, n, w)
      BY <1>1, <1>4, <2>2, <2>4 DEF Goes, m
    <3>2. f[Calls(c, n, w)] = g[Calls(c, n, w)]
      BY <3>1
    <3>3. QED BY <1>4, <2>4, <3>2 DEF Try, Calls, m
  <2>5. QED BY <2>3, <2>4
<1>5. QED BY <1>2, <1>3, <1>4

(* The recursion is well founded: there is a function that is defined by   *)
(* it, on the turns that are near the end, and so on all of them.          *)
LEMMA TryExists ==
  ASSUME NEW c, NEW n \in 1..Size, NEW k \in Nat
  PROVE  \E f : f = [w \in TriesBelow(k) |-> Try(c, n, f, w)]
<1> DEFINE Has(j) == \E f : f = [w \in TriesBelow(j) |-> Try(c, n, f, w)]
           Missing == {j \in Nat : ~Has(j)}
<1>1. SUFFICES ASSUME Missing # {} PROVE FALSE
  OBVIOUS
<1>2. PICK j \in Missing : \A i \in Missing : j <= i
  BY <1>1, Smallest
<1>3. j # 0
  <2>1. SUFFICES ASSUME j = 0 PROVE FALSE
    OBVIOUS
  <2>2. \A w \in Tries : ~(Left(w) < 0)
    <3> SUFFICES ASSUME NEW w \in Tries PROVE ~(Left(w) < 0)
      OBVIOUS
    <3>1. Size \in Nat /\ w[1] \in 0..Size /\ w[2] \in 0..2*Size
      BY KvAssumption DEF Tries
    <3>2. QED BY <3>1 DEF Left
  <2>3. TriesBelow(0) = {}
    BY <2>2 DEF TriesBelow
  <2> DEFINE e == [w \in {} |-> TRUE]
  <2>4. e = [w \in TriesBelow(0) |-> Try(c, n, e, w)]
    BY <2>3
  <2>5. Has(0)
    BY <2>4
  <2>6. QED BY <2>1, <2>5
<1>4. j - 1 \in Nat /\ Has(j - 1)
  BY <1>2, <1>3
<1>5. PICK f : f = [w \in TriesBelow(j - 1) |-> Try(c, n, f, w)]
  BY <1>4
<1> DEFINE g == [w \in TriesBelow(j) |-> Try(c, n, f, w)]
<1>6. \A w \in TriesBelow(j - 1) : w \in TriesBelow(j) /\ f[w] = g[w]
  <2>1. ASSUME NEW w \in TriesBelow(j - 1) PROVE w \in TriesBelow(j)
    <3>1. Size \in Nat /\ w[1] \in 0..Size /\ w[2] \in 0..2*Size /\ w \in Tries
      BY KvAssumption DEF Tries, TriesBelow
    <3>2. QED BY <3>1, <1>4 DEF TriesBelow, Left
  <2>2. QED BY <1>5, <2>1
<1>7. ASSUME NEW w \in TriesBelow(j) PROVE g[w] = Try(c, n, g, w)
  <2>1. w \in Tries /\ Left(w) < j
    BY DEF TriesBelow
  <2>2. Goes(c, n, w) => Calls(c, n, w) \in TriesBelow(j - 1)
    <3> SUFFICES ASSUME Goes(c, n, w) PROVE Calls(c, n, w) \in TriesBelow(j - 1)
      OBVIOUS
    <3>1. Calls(c, n, w) \in Tries /\ Left(Calls(c, n, w)) < Left(w)
      BY <2>1, TryGoesOn
    <3>2. \A v \in Tries : Left(v) \in Int
      <4> SUFFICES ASSUME NEW v \in Tries PROVE Left(v) \in Int
        OBVIOUS
      <4>1. Size \in Nat /\ v[1] \in 0..Size /\ v[2] \in 0..2*Size
        BY KvAssumption DEF Tries
      <4>2. QED BY <4>1 DEF Left
    <3>3. QED BY <2>1, <3>1, <3>2, <1>4 DEF TriesBelow
  <2>3. Try(c, n, f, w) = Try(c, n, g, w)
    <3>1. Goes(c, n, w) => f[Calls(c, n, w)] = g[Calls(c, n, w)]
      BY <1>6, <2>2
    <3> HIDE DEF g
    <3>2. QED BY <2>1, <3>1, TryUsesCall
  <2>4. QED BY <2>3
<1>8. g = [w \in TriesBelow(j) |-> Try(c, n, g, w)]
  BY <1>7
<1>9. Has(j)
  BY <1>8
<1>10. QED BY <1>2, <1>9

LEMMA LeftIsNat == ASSUME NEW w \in Tries PROVE Left(w) \in 0..7*Size
<1>1. Size \in Nat /\ w[1] \in 0..Size /\ w[2] \in 0..2*Size
  BY KvAssumption DEF Tries
<1>2. QED BY <1>1 DEF Left

LEMMA SearchTries ==
  ASSUME NEW c, NEW n \in 1..Size, c.head \in 0..Size
  PROVE  \E f : /\ \A w \in Tries : f[w] = Try(c, n, f, w)
                /\ Search(c, n) = f[<<c.head, 0>>]
<1>1. Size \in Nat /\ Size > 0
  BY KvAssumption
<1>2. TriesBelow(7 * Size + 1) = Tries
  <2>1. \A w \in Tries : Left(w) < 7 * Size + 1
    BY <1>1, LeftIsNat
  <2>2. QED BY <2>1 DEF TriesBelow
<1> DEFINE F == CHOOSE f : f = [w \in Tries |-> Try(c, n, f, w)]
<1>3. F = [w \in Tries |-> Try(c, n, F, w)]
  <2>1. 7 * Size + 1 \in Nat
    BY <1>1
  <2>2. \E f : f = [w \in TriesBelow(7 * Size + 1) |-> Try(c, n, f, w)]
    BY <2>1, TryExists
  <2>3. QED BY <1>2, <2>2
<1>4. Search(c, n) = F[<<c.head, 0>>]
  <2>1. ~(n > Size)
    BY <1>1
  <2>2. QED BY <2>1 DEF Search, Try, InUse
<1>5. QED BY <1>3, <1>4

(* The place s is among those that the search at w has not tried yet.      *)
Ahead(w, s) == \/ s >= w[1] /\ s - w[1] < Size - w[2]
               \/ s < w[1] /\ s + Size - w[1] < Size - w[2]

GoodAnswer(c, n, w, a) ==
  /\ a.found \in BOOLEAN /\ a.head \in 0..Size
  /\ a.found => a.head + n <= Size /\ InUse(c, n, a.head) = {}
  /\ ~a.found => \A s \in 0..Size-n : Ahead(w, s) => InUse(c, n, s) # {}

LEMMA AnswerIsGood ==
  ASSUME NEW c, NEW n \in 1..Size, NEW f, \A w \in Tries : f[w] = Try(c, n, f, w)
  PROVE  \A w \in Tries : GoodAnswer(c, n, w, f[w])
<1> DEFINE Bad == {w \in Tries : ~GoodAnswer(c, n, w, f[w])}
           Lefts == {Left(w) : w \in Bad}
<1>1. SUFFICES ASSUME Bad # {} PROVE FALSE
  OBVIOUS
<1>0. Size \in Nat /\ Size > 0 /\ 0..7*Size \subseteq Nat
  BY KvAssumption
<1>2. Lefts \in SUBSET Nat /\ Lefts # {}
  <2>1. \A w \in Bad : Left(w) \in Nat
    BY <1>0, LeftIsNat
  <2>2. QED BY <1>1, <2>1
<1>3. PICK w \in Bad : \A v \in Bad : Left(w) <= Left(v)
  <2>1. PICK k \in Lefts : \A j \in Lefts : k <= j
    BY <1>2, Smallest
  <2>2. PICK w \in Bad : k = Left(w)
    BY <2>1
  <2>3. \A v \in Bad : Left(v) \in Lefts
    OBVIOUS
  <2>4. QED BY <2>1, <2>2, <2>3
<1>4. w \in Tries /\ w[1] \in 0..Size /\ w[2] \in 0..2*Size /\ f[w] = Try(c, n, f, w)
  BY <1>3 DEF Tries
<1>5. Goes(c, n, w) => GoodAnswer(c, n, Calls(c, n, w), f[Calls(c, n, w)])
  <2> SUFFICES ASSUME Goes(c, n, w) PROVE Calls(c, n, w) \notin Bad /\ Calls(c, n, w) \in Tries
    OBVIOUS
  <2>1. Calls(c, n, w) \in Tries /\ Left(Calls(c, n, w)) < Left(w)
    BY <1>4, TryGoesOn
  <2>2. Left(w) \in Nat /\ Left(Calls(c, n, w)) \in Nat
    BY <1>0, <1>4, <2>1, LeftIsNat
  <2>3. QED BY <1>3, <2>1, <2>2
<1>6. CASE w[1] + n > Size
  <2> DEFINE v == <<0, w[2] + Size - w[1]>>
  <2>1. f[w] = f[v] /\ GoodAnswer(c, n, v, f[v])
    BY <1>4, <1>5, <1>6 DEF Try, Goes, Calls
  <2>2. ASSUME NEW s \in 0..Size-n, Ahead(w, s) PROVE Ahead(v, s)
    BY <1>0, <1>4, <1>6, <2>2 DEF Ahead
  <2>3. GoodAnswer(c, n, w, f[w])
    BY <2>1, <2>2 DEF GoodAnswer
  <2>4. QED BY <1>3, <2>3
<1>7. CASE ~(w[1] + n > Size) /\ InUse(c, n, w[1]) = {}
  <2>1. f[w] = [found |-> TRUE, head |-> w[1]]
    BY <1>4, <1>7 DEF Try
  <2>2. GoodAnswer(c, n, w, f[w])
    BY <1>0, <1>4, <1>7, <2>1 DEF GoodAnswer
  <2>3. QED BY <1>3, <2>2
<1>8. CASE ~(w[1] + n > Size) /\ InUse(c, n, w[1]) # {}
  <2> DEFINE m == Min(InUse(c, n, w[1]))
             t == w[2] + (m + 1) - w[1]
             v == <<m + 1, t>>
  <2>0. w[1] \in 0..Size /\ w[1] + n <= Size
    BY <1>0, <1>4, <1>8
  <2>1. m \in w[1]..w[1]+n-1 /\ c.cells[m].pos >= 0
    BY <1>8, <2>0, BusyMin
  <2>2. m \in Nat /\ m + 1 \in 0..Size /\ t \in Int
    BY <1>0, <1>4, <2>0, <2>1
  (* m blocks every place from here to itself.                             *)
  <2>3. ASSUME NEW s \in 0..Size-n, Ahead(w, s), InUse(c, n, s) = {}
        PROVE  Ahead(v, s)
    <3>1. ~(s >= w[1] /\ s <= m)
      <4>1. SUFFICES ASSUME s >= w[1], s <= m PROVE FALSE
        OBVIOUS
      <4>2. m \in s..s+n-1
        BY <1>0, <1>4, <2>1, <2>2, <4>1
      <4>3. m \in InUse(c, n, s)
        BY <2>1, <4>2 DEF InUse
      <4>4. QED BY <2>3, <4>3
    <3>2. s \in Nat
      BY <1>0
    <3> HIDE DEF m
    <3>3. QED BY <1>0, <1>4, <2>1, <2>2, <2>3, <3>1, <3>2 DEF Ahead
  <2>4. CASE t >= Size
    <3>1. f[w] = [found |-> FALSE, head |-> m + 1]
      BY <1>4, <1>8, <2>4 DEF Try
    <3>2. \A s \in 0..Size-n : ~Ahead(v, s)
      <4> HIDE DEF m
      <4>1. QED BY <1>0, <1>4, <2>1, <2>2, <2>4 DEF Ahead
    <3>3. GoodAnswer(c, n, w, f[w])
      BY <2>2, <2>3, <3>1, <3>2 DEF GoodAnswer
    <3>4. QED BY <1>3, <3>3
  <2>5. CASE ~(t >= Size)
    <3>1. t < Size
      BY <1>0, <2>2, <2>5
    <3>2. Goes(c, n, w) /\ Calls(c, n, w) = v
      BY <1>8, <3>1 DEF Goes, Calls
    <3>3. f[w] = f[v] /\ GoodAnswer(c, n, v, f[v])
      BY <1>4, <1>5, <1>8, <2>5, <3>2 DEF Try
    <3>4. GoodAnswer(c, n, w, f[w])
      BY <2>3, <3>3 DEF GoodAnswer
    <3>5. QED BY <1>3, <3>4
  <2>6. QED BY <2>4, <2>5
<1>9. QED BY <1>6, <1>7, <1>8

(* A slot is a run of free cells of the cache, and a search only fails     *)
(* when there is none, wherever it started.                                *)
LEMMA SearchFinds ==
  ASSUME NEW c, NEW n \in Nat \ {0}, c.head \in 0..Size
  PROVE  LET a == Search(c, n)
         IN  /\ a.found \in BOOLEAN /\ a.head \in 0..Size
             /\ a.found => a.head + n <= Size /\ InUse(c, n, a.head) = {}
             /\ ~a.found => \A s \in 0..Size-n : InUse(c, n, s) # {}
<1>0. Size \in Nat /\ Size > 0
  BY KvAssumption
<1>1. CASE n > Size
  <2>1. Search(c, n) = [found |-> FALSE, head |-> c.head]
    BY <1>1 DEF Search
  <2>2. 0..Size-n = {}
    BY <1>0, <1>1
  <2>3. QED BY <2>1, <2>2
<1>2. CASE ~(n > Size)
  <2>1. n \in 1..Size
    BY <1>0, <1>2
  <2>2. PICK f : /\ \A w \in Tries : f[w] = Try(c, n, f, w)
                 /\ Search(c, n) = f[<<c.head, 0>>]
    BY <2>1, SearchTries
  <2> DEFINE w == <<c.head, 0>>
  <2>3. w \in Tries
    BY <1>0 DEF Tries
  <2>4. GoodAnswer(c, n, w, f[w])
    BY <2>1, <2>2, <2>3, AnswerIsGood
  <2>5. \A s \in 0..Size-n : Ahead(w, s)
    BY <1>0, <2>1 DEF Ahead
  <2>6. QED BY <2>2, <2>4, <2>5 DEF GoodAnswer
<1>3. QED BY <1>1, <1>2
-----------------------------------------------------------------------------
(* What is known of the metadata.                                          *)
CellRecord == [pos : Int, delta : Int, seq : SUBSET Nat]

CacheType(c) ==
  c \in [head : 0..Size, used : Nat, has_shift : BOOLEAN, do_defrag : BOOLEAN,
         n : Nat, cells : [Cell -> CellRecord]]

(* The two marks of a free cell agree.                                     *)
Marks(c) == \A i \in Cell : (c.cells[i].pos >= 0) = (c.cells[i].seq # {})

Counted(c) == c.used = Cardinality(Live(c))

(* Also of a free cell: the next token stored there keeps the delta.       *)
Pending(c) == \A i \in Cell : c.cells[i].delta # 0 => c.has_shift

GoodCache(c) == CacheType(c) /\ Marks(c) /\ Counted(c) /\ Pending(c)

(* From c to d cells were freed or shifted, and nothing was stored.        *)
Tame(c, d) ==
  /\ Live(d) \subseteq Live(c)
  /\ \A i \in Live(d) :
       d.cells[i].pos - d.cells[i].delta = c.cells[i].pos - c.cells[i].delta

LEMMA CellFacts ==
  /\ Size \in Nat /\ Size > 0 /\ Cell \subseteq Nat
  /\ IsFiniteSet(Cell) /\ Cardinality(Cell) = Size
BY KvAssumption, FS_Interval DEF Cell

LEMMA LiveFacts ==
  ASSUME NEW c
  PROVE  Live(c) \subseteq Cell /\ IsFiniteSet(Live(c)) /\ Cardinality(Live(c)) \in Nat
<1>1. Live(c) \in SUBSET Cell
  BY DEF Live
<1>2. QED BY <1>1, CellFacts, FS_Subset, FS_CardinalityType

LEMMA Freeing ==
  ASSUME NEW c, Counted(c), NEW F \in SUBSET Live(c)
  PROVE  /\ Cardinality(Live(c) \ F) = c.used - Cardinality(F)
         /\ Cardinality(Live(c) \ F) \in Nat
<1>1. Live(c) \cap F = F
  OBVIOUS
<1>2. IsFiniteSet(Live(c))
  BY LiveFacts
<1>3. /\ IsFiniteSet(Live(c) \ F)
      /\ Cardinality(Live(c) \ F) = Cardinality(Live(c)) - Cardinality(Live(c) \cap F)
  BY <1>2, FS_Difference
<1>4. Cardinality(Live(c) \ F) \in Nat
  BY <1>3, FS_CardinalityType
<1>5. QED BY <1>1, <1>3, <1>4 DEF Counted

LEMMA HeadIsCell ==
  ASSUME NEW c, c.head \in 0..Size, NEW F \in SUBSET Cell
  PROVE  /\ HeadAfterFreeing(c, F) \in 0..Size
         /\ F # {} => Min(F) \in 0..Size
<1>1. F # {} => Min(F) \in F
  BY CellFacts, MinIs
<1>2. Cell \subseteq 0..Size
  BY CellFacts DEF Cell
<1>3. QED BY <1>1, <1>2 DEF HeadAfterFreeing

(* Records with some fields replaced.                                      *)
Is(d, head, used, has_shift, do_defrag, n, cells) ==
  /\ d.head = head /\ d.used = used /\ d.has_shift = has_shift
  /\ d.do_defrag = do_defrag /\ d.n = n /\ d.cells = cells

LEMMA CacheFields ==
  ASSUME NEW c, CacheType(c), NEW h \in 0..Size, NEW u \in Nat, NEW b \in BOOLEAN,
         NEW k \in [Cell -> CellRecord]
  PROVE  /\ LET d == [c EXCEPT !.head = h, !.used = u, !.cells = k]
            IN  CacheType(d) /\ Is(d, h, u, c.has_shift, c.do_defrag, c.n, k)
         /\ LET d == [c EXCEPT !.head = h, !.cells = k]
            IN  CacheType(d) /\ Is(d, h, c.used, c.has_shift, c.do_defrag, c.n, k)
         /\ LET d == [c EXCEPT !.has_shift = b, !.head = h, !.used = u, !.cells = k]
            IN  CacheType(d) /\ Is(d, h, u, b, c.do_defrag, c.n, k)
         /\ LET d == [c EXCEPT !.has_shift = b, !.cells = k]
            IN  CacheType(d) /\ Is(d, c.head, c.used, b, c.do_defrag, c.n, k)
         /\ LET d == [c EXCEPT !.do_defrag = b, !.head = h, !.cells = k]
            IN  CacheType(d) /\ Is(d, h, c.used, c.has_shift, b, c.n, k)
<1>1. LET d == [c EXCEPT !.head = h, !.used = u, !.cells = k]
      IN  CacheType(d) /\ Is(d, h, u, c.has_shift, c.do_defrag, c.n, k)
  BY DEF CacheType, Is
<1>2. LET d == [c EXCEPT !.head = h, !.cells = k]
      IN  CacheType(d) /\ Is(d, h, c.used, c.has_shift, c.do_defrag, c.n, k)
  BY DEF CacheType, Is
<1>3. LET d == [c EXCEPT !.has_shift = b, !.head = h, !.used = u, !.cells = k]
      IN  CacheType(d) /\ Is(d, h, u, b, c.do_defrag, c.n, k)
  BY DEF CacheType, Is
<1>4. LET d == [c EXCEPT !.has_shift = b, !.cells = k]
      IN  CacheType(d) /\ Is(d, c.head, c.used, b, c.do_defrag, c.n, k)
  BY DEF CacheType, Is
<1>5. LET d == [c EXCEPT !.do_defrag = b, !.head = h, !.cells = k]
      IN  CacheType(d) /\ Is(d, h, c.used, c.has_shift, b, c.n, k)
  BY DEF CacheType, Is
<1>6. QED BY <1>1, <1>2, <1>3, <1>4, <1>5

LEMMA CellFields ==
  ASSUME NEW r \in CellRecord, NEW p \in Int, NEW e \in Int, NEW q \in SUBSET Nat
  PROVE  /\ LET x == [r EXCEPT !.pos = p, !.seq = q]
            IN  x \in CellRecord /\ x.pos = p /\ x.delta = r.delta /\ x.seq = q
         /\ LET x == [r EXCEPT !.seq = q, !.pos = p]
            IN  x \in CellRecord /\ x.pos = p /\ x.delta = r.delta /\ x.seq = q
         /\ LET x == [r EXCEPT !.pos = p, !.delta = e]
            IN  x \in CellRecord /\ x.pos = p /\ x.delta = e /\ x.seq = r.seq
         /\ LET x == [r EXCEPT !.seq = q]
            IN  x \in CellRecord /\ x.pos = r.pos /\ x.delta = r.delta /\ x.seq = q
         /\ LET x == [r EXCEPT !.delta = e]
            IN  x \in CellRecord /\ x.pos = r.pos /\ x.delta = e /\ x.seq = r.seq
BY DEF CellRecord

LEMMA CellIs ==
  ASSUME NEW c, CacheType(c), NEW i \in Cell
  PROVE  /\ c.cells[i] \in CellRecord /\ c.cells[i].pos \in Int
         /\ c.cells[i].delta \in Int /\ c.cells[i].seq \in SUBSET Nat
BY DEF CacheType, CellRecord

LEMMA CacheIs ==
  ASSUME NEW c, CacheType(c)
  PROVE  /\ c.head \in 0..Size /\ c.used \in Nat /\ c.has_shift \in BOOLEAN
         /\ c.do_defrag \in BOOLEAN /\ c.n \in Nat /\ c.cells \in [Cell -> CellRecord]
BY DEF CacheType

LEMMA InitGood == GoodCache(InitCache)
<1>1. Live(InitCache) = {}
  BY DEF Live, InitCache, EmptyCell
<1>2. Cardinality(Live(InitCache)) = 0
  BY <1>1, FS_EmptySet
<1>3. EmptyCell \in CellRecord
  BY DEF EmptyCell, CellRecord
<1>4. CacheType(InitCache)
  BY <1>3, CellFacts DEF InitCache, CacheType
<1>5. QED BY <1>2, <1>4 DEF GoodCache, Marks, Counted, Pending, InitCache, EmptyCell
-----------------------------------------------------------------------------
(* The operations of the callers.                                          *)
(* What each of them does to a cell in use.                                *)
RmDone(c, d, s, p0, p1) ==
  \A i \in Live(c) :
    LET q == IF ~InRange(c.cells[i].pos, p0, p1) THEN c.cells[i].seq
             ELSE IF s < 0 THEN {} ELSE c.cells[i].seq \ {s}
    IN  /\ i \in Live(d) <=> q # {}
        /\ i \in Live(d) => d.cells[i].seq = q /\ d.cells[i].pos = c.cells[i].pos

CpDone(c, d, src, dst, p0, p1) ==
  \A i \in Live(c) :
    /\ i \in Live(d) /\ d.cells[i].pos = c.cells[i].pos
    /\ d.cells[i].seq = IF src \in c.cells[i].seq /\ InRange(c.cells[i].pos, p0, p1)
                        THEN c.cells[i].seq \union {dst} ELSE c.cells[i].seq

KeepDone(c, d, s) ==
  \A i \in Live(c) :
    /\ i \in Live(d) <=> s \in c.cells[i].seq
    /\ i \in Live(d) => d.cells[i].seq = {s} /\ d.cells[i].pos = c.cells[i].pos

AddDone(c, d, s, p0, p1, e) ==
  \A i \in Live(c) :
    LET x == IF s \in c.cells[i].seq /\ InRange(c.cells[i].pos, p0, p1)
             THEN c.cells[i].pos + e ELSE c.cells[i].pos
    IN  /\ i \in Live(d) <=> x >= 0
        /\ i \in Live(d) => d.cells[i].pos = x /\ d.cells[i].seq = c.cells[i].seq

DivDone(c, d, s, p0, p1, e) ==
  \A i \in Live(c) :
    /\ i \in Live(d) /\ d.cells[i].seq = c.cells[i].seq
    /\ d.cells[i].pos = IF s \in c.cells[i].seq /\ InRange(c.cells[i].pos, p0, p1)
                        THEN c.cells[i].pos \div e ELSE c.cells[i].pos

LEMMA ClearGood ==
  ASSUME NEW c, GoodCache(c)
  PROVE  /\ GoodCache(kv_cache_clear(c)) /\ Tame(c, kv_cache_clear(c))
         /\ Live(kv_cache_clear(c)) = {}
<1> DEFINE d == kv_cache_clear(c)
           k == [i \in Cell |-> [c.cells[i] EXCEPT !.pos = -1, !.seq = {}]]
<1>1. CacheType(c) /\ Marks(c) /\ Pending(c)
  BY DEF GoodCache
<1>2. d = [c EXCEPT !.head = 0, !.used = 0, !.cells = k]
  BY DEF kv_cache_clear
<1>3. /\ k \in [Cell -> CellRecord]
      /\ \A i \in Cell : k[i].pos = -1 /\ k[i].seq = {} /\ k[i].delta = c.cells[i].delta
  <2>1. ASSUME NEW i \in Cell
        PROVE  /\ k[i] \in CellRecord
               /\ k[i].pos = -1 /\ k[i].seq = {} /\ k[i].delta = c.cells[i].delta
    <3>1. c.cells[i] \in CellRecord
      BY <1>1, CellIs
    <3>2. -1 \in Int /\ {} \in SUBSET Nat
      OBVIOUS
    <3>3. k[i] = [c.cells[i] EXCEPT !.pos = -1, !.seq = {}]
      OBVIOUS
    <3> HIDE DEF k
    <3>4. QED BY <3>1, <3>2, <3>3 DEF CellRecord
  <2>2. QED BY <2>1
<1>0. 0 \in 0..Size /\ 0 \in Nat
  BY CellFacts
<1> HIDE DEF d, k
<1>4. CacheType(d) /\ Is(d, 0, 0, c.has_shift, c.do_defrag, c.n, k)
  BY <1>0, <1>1, <1>2, <1>3, CacheFields
<1>5. Live(d) = {}
  BY <1>3, <1>4 DEF Live, Is
<1>6. Counted(d)
  BY <1>4, <1>5, FS_EmptySet DEF Counted, Is
<1>7. Marks(d) /\ Pending(d)
  BY <1>1, <1>3, <1>4 DEF Marks, Pending, Is
<1>8. Tame(c, d)
  BY <1>5 DEF Tame
<1>9. QED BY <1>4, <1>5, <1>6, <1>7, <1>8 DEF GoodCache, d

LEMMA RmGood ==
  ASSUME NEW c, GoodCache(c), NEW s \in Int, NEW p0 \in Int, NEW p1 \in Int
  PROVE  /\ GoodCache(kv_cache_seq_rm(c, s, p0, p1))
         /\ Tame(c, kv_cache_seq_rm(c, s, p0, p1))
         /\ RmDone(c, kv_cache_seq_rm(c, s, p0, p1), s, p0, p1)
<1> DEFINE d == kv_cache_seq_rm(c, s, p0, p1)
           hit == Selected(c, s, p0, p1)
           left(i) == IF s < 0 THEN {} ELSE c.cells[i].seq \ {s}
           freed == {i \in hit : left(i) = {}}
           h == HeadAfterFreeing(c, freed)
           u == c.used - Cardinality(freed)
           k == [i \in Cell |->
                   IF i \notin hit THEN c.cells[i]
                   ELSE [c.cells[i] EXCEPT !.seq = left(i),
                                           !.pos = IF i \in freed THEN -1
                                                   ELSE c.cells[i].pos]]
<1>1. CacheType(c) /\ Marks(c) /\ Counted(c) /\ Pending(c)
  BY DEF GoodCache
<1>2. \A i \in hit : i \in Cell /\ c.cells[i].pos >= 0 /\ i \in Live(c)
  BY <1>1 DEF Selected, InRange, Marks, Live
<1>3. freed \in SUBSET Live(c) /\ freed \in SUBSET Cell
  BY <1>2
<1>4. d = [c EXCEPT !.head = h, !.used = u, !.cells = k]
  BY DEF kv_cache_seq_rm
<1>5. h \in 0..Size
  BY <1>1, <1>3, HeadIsCell, CacheIs
<1>6. u \in Nat /\ u = Cardinality(Live(c) \ freed)
  BY <1>1, <1>3, Freeing
<1>7. ASSUME NEW i \in Cell
      PROVE  /\ k[i] \in CellRecord
             /\ k[i].delta = c.cells[i].delta
             /\ i \notin hit => k[i] = c.cells[i]
             /\ i \in hit => /\ k[i].seq = left(i)
                             /\ k[i].pos = IF i \in freed THEN -1 ELSE c.cells[i].pos
  <2>1. c.cells[i] \in CellRecord /\ left(i) \in SUBSET Nat
    BY <1>1, CellIs
  <2> DEFINE p == IF i \in freed THEN -1 ELSE c.cells[i].pos
             q == left(i)
  <2>2. p \in Int
    BY <1>1, CellIs
  <2>3. i \in hit => k[i] = [c.cells[i] EXCEPT !.seq = q, !.pos = p]
    OBVIOUS
  <2>4. i \notin hit => k[i] = c.cells[i]
    OBVIOUS
  <2> HIDE DEF p, k, hit, freed, left
  <2>5. i \in hit => /\ k[i] \in CellRecord /\ k[i].delta = c.cells[i].delta
                    /\ k[i].seq = q /\ k[i].pos = p
    BY <2>1, <2>2, <2>3 DEF CellRecord
  <2>6. QED BY <2>1, <2>4, <2>5 DEF p
<1>8. k \in [Cell -> CellRecord]
  BY <1>7
<1> HIDE DEF d, h, u, k
<1>9. CacheType(d) /\ Is(d, h, u, c.has_shift, c.do_defrag, c.n, k)
  BY <1>1, <1>4, <1>5, <1>6, <1>8, CacheFields
<1>10. Live(d) = Live(c) \ freed
  <2>1. \A i \in Cell : k[i].seq # {} <=> (c.cells[i].seq # {} /\ i \notin freed)
    BY <1>2, <1>7 DEF Live
  <2>2. QED BY <1>9, <2>1 DEF Live, Is
<1>11. Counted(d)
  BY <1>6, <1>9, <1>10 DEF Counted, Is
<1>12. Marks(d) /\ Pending(d)
  <2>1. \A i \in Cell : (k[i].pos >= 0) = (k[i].seq # {})
    <3> HIDE DEF hit
    <3>1. ASSUME NEW i \in hit PROVE i \in freed <=> left(i) = {}
      BY <3>1
    <3> HIDE DEF freed, left
    <3>2. QED BY <1>1, <1>2, <1>7, <3>1 DEF Marks
  <2>2. QED BY <1>1, <1>7, <1>9, <2>1 DEF Marks, Pending, Is
<1>13. Tame(c, d)
  BY <1>7, <1>9, <1>10 DEF Tame, Is, Live
<1>14. RmDone(c, d, s, p0, p1)
  <2>1. ASSUME NEW i \in Live(c)
        PROVE  LET q == IF ~InRange(c.cells[i].pos, p0, p1) THEN c.cells[i].seq
                        ELSE IF s < 0 THEN {} ELSE c.cells[i].seq \ {s}
               IN  /\ i \in Live(d) <=> q # {}
                   /\ i \in Live(d) => d.cells[i].seq = q /\ d.cells[i].pos = c.cells[i].pos
    <3>1. i \in Cell /\ c.cells[i].seq # {}
      BY DEF Live
    <3>2. CASE i \in hit
      <4>1. InRange(c.cells[i].pos, p0, p1) /\ (i \in freed <=> left(i) = {})
        BY <3>2 DEF Selected
      <4>2. i \in Live(d) <=> i \notin freed
        BY <1>10
      <4> HIDE DEF hit, freed
      <4>3. QED BY <1>7, <1>9, <3>1, <3>2, <4>1, <4>2 DEF Is
    <3>3. CASE i \notin hit
      <4>1. ~InRange(c.cells[i].pos, p0, p1) \/ (~(s < 0) /\ s \notin c.cells[i].seq)
        BY <3>1, <3>3 DEF Selected
      <4>2. i \notin freed
        BY <3>3
      <4> HIDE DEF hit, freed, left
      <4>3. i \in Live(d) /\ d.cells[i] = c.cells[i]
        BY <1>7, <1>9, <1>10, <3>1, <3>3, <4>2 DEF Is
      <4>4. QED BY <3>1, <4>1, <4>3
    <3>4. QED BY <3>2, <3>3
  <2>2. QED BY <2>1 DEF RmDone
<1>15. QED BY <1>9, <1>11, <1>12, <1>13, <1>14 DEF GoodCache, d

LEMMA CpGood ==
  ASSUME NEW c, GoodCache(c), NEW src \in Nat, NEW dst \in Nat, NEW p0 \in Int, NEW p1 \in Int
  PROVE  /\ GoodCache(kv_cache_seq_cp(c, src, dst, p0, p1))
         /\ Tame(c, kv_cache_seq_cp(c, src, dst, p0, p1))
         /\ CpDone(c, kv_cache_seq_cp(c, src, dst, p0, p1), src, dst, p0, p1)
<1> DEFINE d == kv_cache_seq_cp(c, src, dst, p0, p1)
           hit(i) == src \in c.cells[i].seq /\ InRange(c.cells[i].pos, p0, p1)
           k == [i \in Cell |->
                   IF hit(i) THEN [c.cells[i] EXCEPT !.seq = c.cells[i].seq \union {dst}]
                             ELSE c.cells[i]]
<1>1. CacheType(c) /\ Marks(c) /\ Counted(c) /\ Pending(c)
  BY DEF GoodCache
<1>2. CASE src = dst
  <2>1. d = c
    BY <1>2 DEF kv_cache_seq_cp
  <2>2. \A i : src \in c.cells[i].seq => c.cells[i].seq \union {dst} = c.cells[i].seq
    BY <1>2
  <2>3. QED BY <2>1, <2>2 DEF Tame, CpDone
<1>3. CASE src # dst
  <2>1. d = [c EXCEPT !.head = 0, !.cells = k]
    BY <1>3 DEF kv_cache_seq_cp
  <2>2. ASSUME NEW i \in Cell
        PROVE  /\ k[i] \in CellRecord
               /\ k[i].pos = c.cells[i].pos /\ k[i].delta = c.cells[i].delta
               /\ k[i].seq = IF hit(i) THEN c.cells[i].seq \union {dst} ELSE c.cells[i].seq
               /\ k[i].seq # {} <=> c.cells[i].seq # {}
    <3> DEFINE q == c.cells[i].seq \union {dst}
    <3>1. /\ c.cells[i] \in CellRecord /\ q \in SUBSET Nat
          /\ q # {} /\ (hit(i) => c.cells[i].seq # {})
      BY <1>1, CellIs
    <3>2. CASE hit(i)
      <4>1. k[i] = [c.cells[i] EXCEPT !.seq = q]
        BY <3>2
      <4>2. c.cells[i].seq # {}
        BY <3>1, <3>2
      <4> HIDE DEF q, k
      <4>3. /\ k[i] \in CellRecord /\ k[i].pos = c.cells[i].pos
            /\ k[i].delta = c.cells[i].delta /\ k[i].seq = q
        BY <3>1, <4>1 DEF CellRecord
      <4>4. QED BY <3>1, <3>2, <4>2, <4>3 DEF q
    <3>3. CASE ~hit(i)
      <4>1. k[i] = c.cells[i]
        BY <3>3
      <4> HIDE DEF k
      <4>2. QED BY <3>1, <3>3, <4>1
    <3>4. QED BY <3>2, <3>3
  <2>3. k \in [Cell -> CellRecord]
    BY <2>2
  <2>4. 0 \in 0..Size /\ c.used \in Nat /\ TRUE \in BOOLEAN
    BY <1>1, CellFacts, CacheIs
  <2> HIDE DEF d, k
  <2>5. CacheType(d) /\ Is(d, 0, c.used, c.has_shift, c.do_defrag, c.n, k)
    BY <1>1, <2>1, <2>3, <2>4, CacheFields
  <2>6. Live(d) = Live(c)
    BY <2>2, <2>5 DEF Live, Is
  <2>7. Counted(d)
    BY <1>1, <2>5, <2>6 DEF Counted, Is
  <2>8. Marks(d) /\ Pending(d)
    BY <1>1, <2>2, <2>5 DEF Marks, Pending, Is
  <2>9. Tame(c, d)
    BY <2>2, <2>5, <2>6 DEF Tame, Is, Live
  <2>10. CpDone(c, d, src, dst, p0, p1)
    <3>1. Live(c) \subseteq Cell
      BY LiveFacts
    <3>2. QED BY <2>2, <2>5, <2>6, <3>1 DEF CpDone, Is
  <2>11. QED BY <2>5, <2>7, <2>8, <2>9, <2>10 DEF GoodCache, d
<1>4. QED BY <1>2, <1>3

LEMMA KeepGood ==
  ASSUME NEW c, GoodCache(c), NEW s \in Nat
  PROVE  /\ GoodCache(kv_cache_seq_keep(c, s)) /\ Tame(c, kv_cache_seq_keep(c, s))
         /\ KeepDone(c, kv_cache_seq_keep(c, s), s)
<1> DEFINE d == kv_cache_seq_keep(c, s)
           other == {i \in Cell : s \notin c.cells[i].seq}
           freed == {i \in other : c.cells[i].pos >= 0}
           h == HeadAfterFreeing(c, other)
           u == c.used - Cardinality(freed)
           k == [i \in Cell |->
                   IF i \in other THEN [c.cells[i] EXCEPT !.pos = -1, !.seq = {}]
                                  ELSE [c.cells[i] EXCEPT !.seq = {s}]]
<1>1. CacheType(c) /\ Marks(c) /\ Counted(c) /\ Pending(c)
  BY DEF GoodCache
<1>2. freed \in SUBSET Live(c) /\ other \in SUBSET Cell /\ Live(c) \ freed = Cell \ other
  BY <1>1 DEF Marks, Live
<1>3. d = [c EXCEPT !.head = h, !.used = u, !.cells = k]
  BY DEF kv_cache_seq_keep
<1>4. h \in 0..Size
  BY <1>1, <1>2, HeadIsCell, CacheIs
<1>5. u \in Nat /\ u = Cardinality(Live(c) \ freed)
  BY <1>1, <1>2, Freeing
<1>6. ASSUME NEW i \in Cell
      PROVE  /\ k[i] \in CellRecord
             /\ k[i].delta = c.cells[i].delta
             /\ i \in other => k[i].pos = -1 /\ k[i].seq = {}
             /\ i \notin other => k[i].pos = c.cells[i].pos /\ k[i].seq = {s}
  <2>1. c.cells[i] \in CellRecord /\ {s} \in SUBSET Nat /\ {} \in SUBSET Nat /\ -1 \in Int
    BY <1>1, CellIs
  <2>2. i \in other => k[i] = [c.cells[i] EXCEPT !.pos = -1, !.seq = {}]
    OBVIOUS
  <2>3. i \notin other => k[i] = [c.cells[i] EXCEPT !.seq = {s}]
    OBVIOUS
  <2> HIDE DEF k, other
  <2>4. QED BY <2>1, <2>2, <2>3 DEF CellRecord
<1>7. k \in [Cell -> CellRecord]
  BY <1>6
<1> HIDE DEF d, h, u, k
<1>8. CacheType(d) /\ Is(d, h, u, c.has_shift, c.do_defrag, c.n, k)
  BY <1>1, <1>3, <1>4, <1>5, <1>7, CacheFields
<1>9. Live(d) = Live(c) \ freed
  <2>1. \A i \in Cell : k[i].seq # {} <=> i \notin other
    BY <1>6
  <2>2. QED BY <1>2, <1>8, <2>1 DEF Live, Is
<1>10. Counted(d)
  BY <1>5, <1>8, <1>9 DEF Counted, Is
<1>11. Marks(d) /\ Pending(d)
  <2>1. \A i \in Cell : (k[i].pos >= 0) = (k[i].seq # {})
    <3>1. \A i \in Cell : i \notin other => c.cells[i].pos >= 0
      BY <1>1 DEF Marks
    <3> HIDE DEF other
    <3>2. QED BY <1>6, <3>1
  <2>2. QED BY <1>1, <1>6, <1>8, <2>1 DEF Marks, Pending, Is
<1>12. Tame(c, d)
  BY <1>2, <1>6, <1>8, <1>9 DEF Tame, Is, Live
<1>13. KeepDone(c, d, s)
  <2>1. \A i \in Live(c) : i \in Cell /\ (i \in other <=> s \notin c.cells[i].seq)
    BY LiveFacts
  <2>2. \A i \in Live(c) : i \in Live(d) <=> i \notin other
    BY <1>2, <1>9, <2>1
  <2> HIDE DEF other
  <2>3. QED BY <1>6, <1>8, <2>1, <2>2 DEF KeepDone, Is
<1>14. QED BY <1>8, <1>10, <1>11, <1>12, <1>13 DEF GoodCache, d

LEMMA DivIsNat ==
  ASSUME NEW p \in Nat, NEW q \in Nat, q > 0
  PROVE  p \div q \in Nat
<1>1. p = q * (p \div q) + (p % q) /\ p % q \in 0..q-1 /\ p \div q \in Int
  OBVIOUS
<1>2. ASSUME p \div q < 0 PROVE FALSE
  <2> DEFINE x == p \div q
  <2>1. x \in Int /\ x <= -1 /\ p = q * x + (p % q) /\ p % q \in 0..q-1
    BY <1>1, <1>2
  <2> HIDE DEF x
  <2>2. q * x <= -q
    BY <2>1
  <2>3. QED BY <2>1, <2>2
<1>3. QED BY <1>1, <1>2

LEMMA AddGood ==
  ASSUME NEW c, GoodCache(c), NEW s \in Nat, NEW p0 \in Int, NEW p1 \in Int, NEW e \in Int
  PROVE  /\ GoodCache(kv_cache_seq_add(c, s, p0, p1, e))
         /\ Tame(c, kv_cache_seq_add(c, s, p0, p1, e))
         /\ AddDone(c, kv_cache_seq_add(c, s, p0, p1, e), s, p0, p1, e)
<1> DEFINE d == kv_cache_seq_add(c, s, p0, p1, e)
           hit == {i \in Cell : s \in c.cells[i].seq /\ InRange(c.cells[i].pos, p0, p1)}
           freed == {i \in hit : c.cells[i].pos + e < 0}
           b == c.has_shift \/ hit # {}
           h == IF freed # {} THEN Min(freed) ELSE 0
           u == c.used - Cardinality(freed)
           k == [i \in Cell |->
                   CASE i \in freed ->
                          [pos |-> -1, delta |-> c.cells[i].delta + e, seq |-> {}]
                     [] i \in hit \ freed ->
                          [c.cells[i] EXCEPT !.pos   = c.cells[i].pos + e,
                                             !.delta = c.cells[i].delta + e]
                     [] OTHER -> c.cells[i]]
<1>1. CacheType(c) /\ Marks(c) /\ Counted(c) /\ Pending(c)
  BY DEF GoodCache
<1>2. CASE e = 0 \/ EmptyRange(p0, p1)
  <2>1. d = c
    BY <1>2 DEF kv_cache_seq_add
  <2>2. ASSUME NEW i \in Live(c)
        PROVE  /\ c.cells[i].pos \in Int /\ c.cells[i].pos >= 0
               /\ InRange(c.cells[i].pos, p0, p1) => c.cells[i].pos + e = c.cells[i].pos
    <3>1. i \in Cell /\ c.cells[i].pos \in Int /\ c.cells[i].pos >= 0
      BY <1>1, CellIs DEF Live, Marks
    <3>2. QED BY <1>2, <3>1 DEF InRange, EmptyRange
  <2>3. QED BY <2>1, <2>2 DEF Tame, AddDone
<1>3. CASE ~(e = 0 \/ EmptyRange(p0, p1))
  <2>1. d = [c EXCEPT !.has_shift = b, !.head = h, !.used = u, !.cells = k]
    BY <1>3 DEF kv_cache_seq_add
  <2>2. \A i \in hit : i \in Live(c) /\ i \in Cell
    BY DEF Live
  <2>3. freed \in SUBSET Live(c) /\ freed \in SUBSET Cell /\ freed \subseteq hit
    BY <2>2
  <2>4. h \in 0..Size /\ b \in BOOLEAN
    <3>1. 0 \in 0..Size /\ c.head \in 0..Size /\ c.has_shift \in BOOLEAN
      BY <1>1, CellFacts, CacheIs
    <3>2. freed # {} => Min(freed) \in 0..Size
      BY <2>3, <3>1, HeadIsCell
    <3>3. QED BY <3>1, <3>2
  <2>5. u \in Nat /\ u = Cardinality(Live(c) \ freed)
    BY <1>1, <2>3, Freeing
  <2>6. ASSUME NEW i \in Cell
        PROVE  /\ k[i] \in CellRecord
               /\ i \in freed => k[i].pos = -1 /\ k[i].seq = {}
               /\ i \in hit \ freed => /\ k[i].pos = c.cells[i].pos + e
                                       /\ k[i].delta = c.cells[i].delta + e
                                       /\ k[i].seq = c.cells[i].seq
                                       /\ k[i].pos >= 0
               /\ i \notin hit => k[i] = c.cells[i]
    <3>1. /\ c.cells[i] \in CellRecord /\ c.cells[i].pos \in Int /\ c.cells[i].delta \in Int
          /\ c.cells[i].seq \in SUBSET Nat
      BY <1>1, CellIs
    <3>2. CASE i \in freed
      <4>1. k[i] = [pos |-> -1, delta |-> c.cells[i].delta + e, seq |-> {}]
        BY <3>2
      <4>2. i \in hit
        BY <3>2
      <4> HIDE DEF k, hit, freed
      <4>3. QED BY <3>1, <3>2, <4>1, <4>2 DEF CellRecord
    <3>3. CASE i \in hit \ freed
      <4> DEFINE p == c.cells[i].pos + e
                 q == c.cells[i].delta + e
      <4>1. k[i] = [c.cells[i] EXCEPT !.pos = p, !.delta = q]
        BY <3>3
      <4>2. p \in Int /\ q \in Int /\ p >= 0
        BY <3>1, <3>3
      <4> HIDE DEF k, hit, freed, p, q
      <4>3. /\ k[i] \in CellRecord /\ k[i].pos = p /\ k[i].delta = q
            /\ k[i].seq = c.cells[i].seq
        BY <3>1, <4>1, <4>2 DEF CellRecord
      <4>4. QED BY <3>3, <4>2, <4>3 DEF p, q
    <3>4. CASE i \notin hit
      <4>1. i \notin freed /\ i \notin hit \ freed
        BY <3>4
      <4>2. k[i] = c.cells[i]
        BY <4>1
      <4> HIDE DEF k, hit, freed
      <4>3. QED BY <3>1, <3>4, <4>1, <4>2
    <3>5. QED BY <3>2, <3>3, <3>4
  <2>7. k \in [Cell -> CellRecord]
    BY <2>6
  <2> HIDE DEF d, h, u, k, b
  <2>8. CacheType(d) /\ Is(d, h, u, b, c.do_defrag, c.n, k)
    BY <1>1, <2>1, <2>4, <2>5, <2>7, CacheFields
  <2>9. Live(d) = Live(c) \ freed
    <3>1. \A i \in hit : c.cells[i].seq # {}
      BY <2>2 DEF Live
    <3> HIDE DEF hit, freed
    <3>2. \A i \in Cell : k[i].seq # {} <=> (c.cells[i].seq # {} /\ i \notin freed)
      BY <2>3, <2>6, <3>1
    <3>3. QED BY <2>8, <3>2 DEF Live, Is
  <2>10. Counted(d)
    BY <2>5, <2>8, <2>9 DEF Counted, Is
  <2>11. Marks(d)
    <3>1. \A i \in hit : c.cells[i].seq # {}
      BY <2>2 DEF Live
    <3> HIDE DEF hit, freed
    <3>2. \A i \in Cell : (k[i].pos >= 0) = (k[i].seq # {})
      BY <1>1, <2>3, <2>6, <3>1 DEF Marks
    <3>3. QED BY <2>8, <3>2 DEF Marks, Is
  <2>12. Pending(d)
    <3>1. \A i \in hit : b
      BY DEF b
    <3>2. c.has_shift => b
      BY DEF b
    <3> HIDE DEF hit, freed
    <3>3. \A i \in Cell : k[i].delta # 0 => b
      BY <1>1, <2>3, <2>6, <3>1, <3>2 DEF Pending
    <3>4. QED BY <2>8, <3>3 DEF Pending, Is
  <2>13. Tame(c, d)
    <3> HIDE DEF hit, freed
    <3>1. ASSUME NEW i \in Live(d)
          PROVE  k[i].pos - k[i].delta = c.cells[i].pos - c.cells[i].delta
      <4>1. i \in Cell /\ i \notin freed
        BY <2>9, LiveFacts
      <4>2. c.cells[i].pos \in Int /\ c.cells[i].delta \in Int
        BY <1>1, <4>1, CellIs
      <4>3. QED BY <2>6, <4>1, <4>2
    <3>2. QED BY <2>8, <2>9, <3>1 DEF Tame, Is
  <2>14. AddDone(c, d, s, p0, p1, e)
    <3>1. ASSUME NEW i \in Live(c)
          PROVE  LET x == IF s \in c.cells[i].seq /\ InRange(c.cells[i].pos, p0, p1)
                          THEN c.cells[i].pos + e ELSE c.cells[i].pos
                 IN  /\ i \in Live(d) <=> x >= 0
                     /\ i \in Live(d) => d.cells[i].pos = x /\ d.cells[i].seq = c.cells[i].seq
      <4>1. i \in Cell /\ c.cells[i].pos \in Int /\ c.cells[i].pos >= 0
        BY <1>1, CellIs DEF Live, Marks
      <4>2. /\ i \in hit <=> s \in c.cells[i].seq /\ InRange(c.cells[i].pos, p0, p1)
            /\ i \in freed <=> i \in hit /\ c.cells[i].pos + e < 0
        BY <4>1
      <4> HIDE DEF hit, freed
      <4>3. QED BY <2>6, <2>8, <2>9, <4>1, <4>2 DEF Is
    <3>2. QED BY <3>1 DEF AddDone
  <2>15. QED BY <2>8, <2>10, <2>11, <2>12, <2>13, <2>14 DEF GoodCache, d
<1>4. QED BY <1>2, <1>3

LEMMA DivGood ==
  ASSUME NEW c, GoodCache(c), NEW s \in Nat, NEW p0 \in Int, NEW p1 \in Int,
         NEW e \in Nat, e > 0
  PROVE  /\ GoodCache(kv_cache_seq_div(c, s, p0, p1, e))
         /\ Tame(c, kv_cache_seq_div(c, s, p0, p1, e))
         /\ e # 1 => DivDone(c, kv_cache_seq_div(c, s, p0, p1, e), s, p0, p1, e)
<1> DEFINE d == kv_cache_seq_div(c, s, p0, p1, e)
           hit == {i \in Cell : s \in c.cells[i].seq /\ InRange(c.cells[i].pos, p0, p1)}
           b == c.has_shift \/ hit # {}
           k == [i \in Cell |->
                   IF i \in hit
                   THEN [c.cells[i] EXCEPT
                           !.pos   = c.cells[i].pos \div e,
                           !.delta = c.cells[i].delta + c.cells[i].pos \div e - c.cells[i].pos]
                   ELSE c.cells[i]]
<1>1. CacheType(c) /\ Marks(c) /\ Counted(c) /\ Pending(c)
  BY DEF GoodCache
<1>2. CASE e = 1 \/ EmptyRange(p0, p1)
  <2>1. d = c
    BY <1>2 DEF kv_cache_seq_div
  <2>2. ASSUME e # 1, NEW i \in Live(c) PROVE ~InRange(c.cells[i].pos, p0, p1)
    <3>1. i \in Cell /\ c.cells[i].pos \in Int /\ c.cells[i].pos >= 0
      BY <1>1, CellIs DEF Live, Marks
    <3>2. QED BY <1>2, <2>2, <3>1 DEF InRange, EmptyRange
  <2>3. QED BY <2>1, <2>2 DEF Tame, DivDone
<1>3. CASE ~(e = 1 \/ EmptyRange(p0, p1))
  <2>1. d = [c EXCEPT !.has_shift = b, !.cells = k]
    BY <1>3 DEF kv_cache_seq_div
  <2>2. \A i \in hit : c.cells[i].seq # {} /\ i \in Cell /\ c.cells[i].pos >= 0
    BY DEF InRange
  <2>3. b \in BOOLEAN /\ c.head \in 0..Size /\ c.used \in Nat
    BY <1>1, CacheIs
  <2>4. ASSUME NEW i \in Cell
        PROVE  /\ k[i] \in CellRecord /\ k[i].seq = c.cells[i].seq
               /\ k[i].pos - k[i].delta = c.cells[i].pos - c.cells[i].delta
               /\ i \in hit => k[i].pos >= 0 /\ k[i].pos = c.cells[i].pos \div e
               /\ i \notin hit => k[i] = c.cells[i]
    <3>1. /\ c.cells[i] \in CellRecord /\ c.cells[i].pos \in Int /\ c.cells[i].delta \in Int
          /\ c.cells[i].seq \in SUBSET Nat
      BY <1>1, CellIs
    <3>2. CASE i \in hit
      <4> DEFINE p == c.cells[i].pos \div e
                 q == c.cells[i].delta + p - c.cells[i].pos
      <4>1. k[i] = [c.cells[i] EXCEPT !.pos = p, !.delta = q]
        BY <3>2
      <4>2. p \in Nat /\ p \in Int
        <5>1. c.cells[i].pos \in Nat
          BY <2>2, <3>1, <3>2
        <5>2. QED BY <5>1, DivIsNat
      <4> HIDE DEF k, hit, p
      <4>3. q \in Int /\ p - q = c.cells[i].pos - c.cells[i].delta
        BY <3>1, <4>2
      <4> HIDE DEF q
      <4>4. /\ k[i] \in CellRecord /\ k[i].pos = p /\ k[i].delta = q
            /\ k[i].seq = c.cells[i].seq
        BY <3>1, <4>1, <4>2, <4>3 DEF CellRecord
      <4>5. QED BY <3>2, <4>2, <4>3, <4>4 DEF p
    <3>3. CASE i \notin hit
      <4>1. k[i] = c.cells[i]
        BY <3>3
      <4> HIDE DEF k, hit
      <4>2. QED BY <3>1, <3>3, <4>1
    <3>4. QED BY <3>2, <3>3
  <2>5. k \in [Cell -> CellRecord]
    BY <2>4
  <2> HIDE DEF d, k, b
  <2>6. CacheType(d) /\ Is(d, c.head, c.used, b, c.do_defrag, c.n, k)
    BY <1>1, <2>1, <2>3, <2>5, CacheFields
  <2>7. Live(d) = Live(c)
    BY <2>4, <2>6 DEF Live, Is
  <2>8. Counted(d)
    BY <1>1, <2>6, <2>7 DEF Counted, Is
  <2>9. Marks(d)
    <3> HIDE DEF hit
    <3>1. \A i \in Cell : (k[i].pos >= 0) = (k[i].seq # {})
      BY <1>1, <2>2, <2>4 DEF Marks
    <3>2. QED BY <2>6, <3>1 DEF Marks, Is
  <2>10. Pending(d)
    <3>1. \A i \in hit : b
      BY DEF b
    <3>2. c.has_shift => b
      BY DEF b
    <3> HIDE DEF hit
    <3>3. \A i \in Cell : k[i].delta # 0 => b
      BY <1>1, <2>4, <3>1, <3>2 DEF Pending
    <3>4. QED BY <2>6, <3>3 DEF Pending, Is
  <2>11. Tame(c, d)
    BY <2>4, <2>6, <2>7 DEF Tame, Is, Live
  <2>12. DivDone(c, d, s, p0, p1, e)
    <3>1. \A i \in Live(c) :
            /\ i \in Cell
            /\ i \in hit <=> s \in c.cells[i].seq /\ InRange(c.cells[i].pos, p0, p1)
      BY LiveFacts
    <3> HIDE DEF hit
    <3>2. QED BY <2>4, <2>6, <2>7, <3>1 DEF DivDone, Is
  <2>13. QED BY <2>6, <2>8, <2>9, <2>10, <2>11, <2>12 DEF GoodCache, d
<1>4. QED BY <1>2, <1>3
-----------------------------------------------------------------------------
(* The cells a defragmentation moves.                                      *)
LEMMA NthIs ==
  ASSUME NEW S \in SUBSET Cell, NEW k \in Nat, k < Cardinality(S)
  PROVE  Nth(S, k) \in S /\ Cardinality({y \in S : y < Nth(S, k)}) = k
<1> DEFINE Below(x) == {y \in S : y < x}
           T == {x \in 0..Size : Cardinality(Below(x)) > k}
<1>1. /\ Size \in Nat /\ Size \in 0..Size /\ 0..Size \subseteq Nat /\ IsFiniteSet(S)
      /\ \A y \in S : y \in Nat /\ y < Size
  <2>1. Size \in Nat /\ Size > 0
    BY CellFacts
  <2>2. IsFiniteSet(S)
    BY CellFacts, FS_Subset
  <2>3. \A y \in S : y \in 0..Size-1
    BY DEF Cell
  <2>4. QED BY <2>1, <2>2, <2>3
<1>2. \A x : Below(x) \in SUBSET S
  OBVIOUS
<1>3. \A x : IsFiniteSet(Below(x)) /\ Cardinality(Below(x)) \in Nat
  BY <1>1, <1>2, FS_Subset, FS_CardinalityType
<1>4. Below(Size) = S
  BY <1>1
<1>5. Size \in T
  BY <1>1, <1>4
<1>6. PICK x \in T : \A z \in T : x <= z
  <2>1. T \in SUBSET Nat /\ T # {}
    BY <1>1, <1>5
  <2> HIDE DEF T
  <2>2. QED BY <2>1, Smallest
<1>7. x \in 0..Size /\ Cardinality(Below(x)) > k
  BY <1>6
<1>8. x # 0
  <2>1. \A y : y \notin Below(0)
    BY <1>1
  <2>0. Below(0) = {}
    BY <2>1
  <2>2. Cardinality(Below(0)) = 0
    BY <2>0, FS_EmptySet
  <2>3. QED BY <1>7, <2>2
<1>9. x - 1 \in 0..Size /\ x - 1 \notin T
  BY <1>1, <1>6, <1>7, <1>8
<1>10. Cardinality(Below(x - 1)) <= k
  <2>1. ~(Cardinality(Below(x - 1)) > k)
    BY <1>9
  <2>2. Cardinality(Below(x - 1)) \in Nat
    BY <1>3
  <2> HIDE DEF Below
  <2>3. QED BY <2>1, <2>2
<1>11. x - 1 \in S /\ Below(x) = Below(x - 1) \union {x - 1}
  <2>1. CASE x - 1 \notin S
    <3>1. Below(x) = Below(x - 1)
      BY <1>1, <1>7, <2>1
    <3> HIDE DEF Below
    <3>2. QED BY <1>3, <1>7, <1>10, <3>1
  <2>2. CASE x - 1 \in S
    BY <1>1, <1>7, <2>2
  <2>3. QED BY <2>1, <2>2
<1>12. Cardinality(Below(x)) = Cardinality(Below(x - 1)) + 1
  <2>1. x - 1 \notin Below(x - 1)
    BY <1>7
  <2> HIDE DEF Below
  <2>2. QED BY <1>3, <1>11, <2>1, FS_AddElement
<1>13. Cardinality(Below(x - 1)) = k
  <2>1. Cardinality(Below(x - 1)) \in Nat
    BY <1>3
  <2> HIDE DEF Below
  <2>2. QED BY <1>7, <1>10, <1>12, <2>1
<1>14. \E z \in S : Cardinality({y \in S : y < z}) = k
  BY <1>11, <1>13
<1>15. QED BY <1>14 DEF Nth

(* The place of hole i's filler among m movable cells.                     *)
UpTo(H, i)   == {j \in H : \E k \in RunOf(H, i) : j <= k}
Before(H, i) == {j \in RunOf(H, i) : j < i}
Rank(H, m, i) == m - Cardinality(UpTo(H, i)) + Cardinality(Before(H, i))

LEMMA RunFacts ==
  ASSUME NEW H \in SUBSET Nat, IsFiniteSet(H), NEW i \in H
  PROVE  /\ i \in RunOf(H, i) /\ RunOf(H, i) \subseteq UpTo(H, i) /\ UpTo(H, i) \subseteq H
         /\ IsFiniteSet(RunOf(H, i)) /\ Cardinality(RunOf(H, i)) \in Nat
         /\ IsFiniteSet(UpTo(H, i)) /\ Cardinality(UpTo(H, i)) \in Nat
         /\ IsFiniteSet(Before(H, i)) /\ Cardinality(Before(H, i)) \in Nat
         /\ Cardinality(Before(H, i)) < Cardinality(RunOf(H, i))
         /\ Cardinality(RunOf(H, i)) <= Cardinality(UpTo(H, i))
         /\ Cardinality(UpTo(H, i)) <= Cardinality(H)
<1>1. i \in RunOf(H, i)
  BY DEF RunOf
<1>2. RunOf(H, i) \subseteq H
  BY DEF RunOf
<1>3. RunOf(H, i) \subseteq UpTo(H, i)
  <2>1. ASSUME NEW j \in RunOf(H, i) PROVE j \in UpTo(H, i)
    <3>1. j \in H
      BY <1>2
    <3>0. \A x \in H : x \in Nat /\ x <= x
      OBVIOUS
    <3>2. QED BY <3>0, <3>1 DEF UpTo
  <2>2. QED BY <2>1
<1>4. UpTo(H, i) \subseteq H
  BY DEF UpTo
<1>5. IsFiniteSet(UpTo(H, i)) /\ Cardinality(UpTo(H, i)) <= Cardinality(H)
  BY <1>4, FS_Subset
<1>6. IsFiniteSet(RunOf(H, i)) /\ Cardinality(RunOf(H, i)) <= Cardinality(UpTo(H, i))
  BY <1>3, <1>5, FS_Subset
<1>7. /\ IsFiniteSet(RunOf(H, i) \ {i})
      /\ Cardinality(RunOf(H, i) \ {i}) = Cardinality(RunOf(H, i)) - 1
  BY <1>1, <1>6, FS_RemoveElement
<1>8. Before(H, i) \subseteq RunOf(H, i) \ {i}
  BY <1>2 DEF Before
<1>9. /\ IsFiniteSet(Before(H, i))
      /\ Cardinality(Before(H, i)) <= Cardinality(RunOf(H, i) \ {i})
  BY <1>7, <1>8, FS_Subset
<1>10. /\ Cardinality(RunOf(H, i)) \in Nat /\ Cardinality(UpTo(H, i)) \in Nat
       /\ Cardinality(Before(H, i)) \in Nat
  BY <1>5, <1>6, <1>9, FS_CardinalityType
<1>11. QED BY <1>1, <1>3, <1>4, <1>5, <1>6, <1>7, <1>9, <1>10

LEMMA PlaceInRange ==
  ASSUME NEW H \in SUBSET Nat, IsFiniteSet(H), NEW i \in H,
         NEW m \in Nat, Cardinality(H) <= m
  PROVE  Rank(H, m, i) \in Nat /\ Rank(H, m, i) < m
<1>1. Cardinality(H) \in Nat
  BY FS_CardinalityType
<1>2. QED BY <1>1, RunFacts DEF Rank

LEMMA PlacesDiffer ==
  ASSUME NEW H \in SUBSET Nat, IsFiniteSet(H), NEW i \in H, NEW j \in H, i < j,
         NEW m \in Nat, Cardinality(H) <= m
  PROVE  Rank(H, m, i) # Rank(H, m, j)
<1>1. CASE i..j \subseteq H
  <2>1. RunOf(H, i) = RunOf(H, j)
    <3>1. ASSUME NEW x \in H, (i..x) \union (x..i) \subseteq H
          PROVE  (j..x) \union (x..j) \subseteq H
      <4>1. \A z \in (j..x) \union (x..j) : z \in (i..x) \union (x..i) \union (i..j)
        OBVIOUS
      <4>2. QED BY <1>1, <3>1, <4>1
    <3>2. ASSUME NEW x \in H, (j..x) \union (x..j) \subseteq H
          PROVE  (i..x) \union (x..i) \subseteq H
      <4>1. \A z \in (i..x) \union (x..i) : z \in (j..x) \union (x..j) \union (i..j)
        OBVIOUS
      <4>2. QED BY <1>1, <3>2, <4>1
    <3>3. QED BY <3>1, <3>2 DEF RunOf
  <2>2. UpTo(H, i) = UpTo(H, j)
    BY <2>1 DEF UpTo
  <2>3. /\ IsFiniteSet(Before(H, j)) /\ Cardinality(Before(H, j)) \in Nat
        /\ IsFiniteSet(Before(H, i)) /\ Cardinality(Before(H, i)) \in Nat
        /\ i \in RunOf(H, i) /\ Cardinality(UpTo(H, i)) \in Nat
    BY RunFacts
  <2>4. Before(H, i) \union {i} \subseteq Before(H, j) /\ i \notin Before(H, i)
    <3>1. RunOf(H, i) \subseteq Nat
      BY DEF RunOf
    <3>2. QED BY <2>1, <2>3, <3>1 DEF Before
  <2>5. Cardinality(Before(H, i) \union {i}) = Cardinality(Before(H, i)) + 1
    BY <2>3, <2>4, FS_AddElement
  <2>6. Cardinality(Before(H, i) \union {i}) <= Cardinality(Before(H, j))
    BY <2>3, <2>4, FS_Subset
  <2>7. QED BY <2>2, <2>3, <2>5, <2>6 DEF Rank
<1>2. CASE ~(i..j \subseteq H)
  <2>1. PICK g \in i..j : g \notin H
    BY <1>2
  <2>2. g \in Nat /\ i < g /\ g < j
    BY <2>1
  <2>3. \A x \in RunOf(H, i) : x \in Nat /\ x < g
    <3> SUFFICES ASSUME NEW x \in RunOf(H, i) PROVE x \in Nat /\ x < g
      OBVIOUS
    <3>1. x \in Nat /\ i..x \subseteq H
      BY DEF RunOf
    <3>2. QED BY <2>1, <2>2, <3>1
  <2>4. \A x \in RunOf(H, j) : x \in Nat /\ g < x
    <3> SUFFICES ASSUME NEW x \in RunOf(H, j) PROVE x \in Nat /\ g < x
      OBVIOUS
    <3>1. x \in Nat /\ x..j \subseteq H
      BY DEF RunOf
    <3>2. QED BY <2>1, <2>2, <3>1
  <2>5. \A x \in UpTo(H, i) : x \in H /\ x < g
    <3> SUFFICES ASSUME NEW x \in UpTo(H, i) PROVE x \in H /\ x < g
      OBVIOUS
    <3>1. x \in H /\ \E k \in RunOf(H, i) : x <= k
      BY DEF UpTo
    <3>2. QED BY <2>2, <2>3, <3>1
  <2>6. /\ IsFiniteSet(UpTo(H, i)) /\ IsFiniteSet(UpTo(H, j)) /\ IsFiniteSet(RunOf(H, j))
        /\ j \in RunOf(H, j) /\ RunOf(H, j) \subseteq UpTo(H, j)
        /\ Cardinality(UpTo(H, i)) \in Nat /\ Cardinality(UpTo(H, j)) \in Nat
        /\ Cardinality(RunOf(H, j)) \in Nat
        /\ Cardinality(Before(H, i)) \in Nat /\ Cardinality(Before(H, j)) \in Nat
        /\ Cardinality(Before(H, j)) < Cardinality(RunOf(H, j))
    BY RunFacts
  <2>7. UpTo(H, i) \subseteq UpTo(H, j)
    <3> SUFFICES ASSUME NEW x \in UpTo(H, i) PROVE x \in UpTo(H, j)
      OBVIOUS
    <3>1. x \in H /\ x <= j
      <4>1. x \in H /\ x < g
        BY <2>5
      <4>2. x \in Nat /\ j \in Nat
        BY <4>1
      <4>3. QED BY <2>2, <4>1, <4>2
    <3>2. QED BY <2>6, <3>1 DEF UpTo
  <2>8. UpTo(H, i) \cap RunOf(H, j) = {}
    <3> SUFFICES ASSUME NEW x \in UpTo(H, i), x \in RunOf(H, j) PROVE FALSE
      OBVIOUS
    <3>1. x \in Nat /\ x < g /\ g < x
      BY <2>4, <2>5
    <3>2. QED BY <2>2, <3>1
  <2>9. /\ IsFiniteSet(UpTo(H, i) \union RunOf(H, j))
        /\ Cardinality(UpTo(H, i) \union RunOf(H, j))
              = Cardinality(UpTo(H, i)) + Cardinality(RunOf(H, j))
    <3>1. Cardinality(UpTo(H, i) \cap RunOf(H, j)) = 0
      BY <2>8, FS_EmptySet
    <3>2. Cardinality(UpTo(H, i) \union RunOf(H, j))
            = Cardinality(UpTo(H, i)) + Cardinality(RunOf(H, j))
                - Cardinality(UpTo(H, i) \cap RunOf(H, j))
      BY <2>6, FS_Union
    <3>3. IsFiniteSet(UpTo(H, i) \union RunOf(H, j))
      BY <2>6, FS_Union
    <3>4. QED BY <2>6, <3>1, <3>2, <3>3
  <2>10. Cardinality(UpTo(H, i) \union RunOf(H, j)) <= Cardinality(UpTo(H, j))
    <3>1. UpTo(H, i) \union RunOf(H, j) \in SUBSET UpTo(H, j)
      BY <2>6, <2>7
    <3>2. QED BY <2>6, <3>1, FS_Subset
  <2>11. QED BY <2>6, <2>9, <2>10 DEF Rank
<1>3. QED BY <1>1, <1>2

(***************************************************************************)
(* There are as many holes below the count of cells in use as cells in use *)
(* above it.                                                               *)
(***************************************************************************)
LEMMA EnoughMovable ==
  ASSUME NEW c, CacheType(c), Counted(c)
  PROVE  /\ c.used <= Size /\ Holes(c) \subseteq Cell /\ IsFiniteSet(Holes(c))
         /\ Movable(c) \subseteq Live(c) /\ Holes(c) \cap Live(c) = {}
         /\ Cardinality(Movable(c)) \in Nat
         /\ Cardinality(Movable(c)) = Cardinality(Holes(c))
<1> DEFINE U == 0..c.used-1
<1>1. /\ c.used \in Nat /\ c.used = Cardinality(Live(c)) /\ Size \in Nat
      /\ Live(c) \subseteq Cell /\ IsFiniteSet(Live(c))
  BY LiveFacts, CacheIs, CellFacts DEF Counted
<1>2. c.used <= Size
  BY <1>1, CellFacts, FS_Subset
<1>3. U \subseteq Cell /\ IsFiniteSet(U) /\ Cardinality(U) = c.used
  <2>1. U \subseteq Cell
    BY <1>1, <1>2 DEF Cell
  <2>2. 0 \in Int /\ c.used - 1 \in Int
    BY <1>1
  <2>3. IsFiniteSet(U) /\ Cardinality(U) = IF 0 > c.used - 1 THEN 0 ELSE c.used - 1 - 0 + 1
    BY <2>2, FS_Interval
  <2> HIDE DEF U
  <2>4. QED BY <1>1, <2>1, <2>3
<1>4. Holes(c) = U \ Live(c)
  BY <1>3 DEF Holes, Live
<1>5. Movable(c) = Live(c) \ U
  <2>1. \A i \in Live(c) : i \in Nat
    BY <1>1, CellFacts
  <2>2. QED BY <1>1, <2>1 DEF Movable
<1> HIDE DEF U
<1>6. /\ IsFiniteSet(U \ Live(c))
      /\ Cardinality(U \ Live(c)) = Cardinality(U) - Cardinality(U \cap Live(c))
  BY <1>3, FS_Difference
<1>7. /\ IsFiniteSet(Live(c) \ U)
      /\ Cardinality(Live(c) \ U) = Cardinality(Live(c)) - Cardinality(Live(c) \cap U)
  BY <1>1, FS_Difference
<1>8. Live(c) \cap U = U \cap Live(c)
  OBVIOUS
<1>9. Cardinality(Live(c) \ U) \in Nat
  BY <1>7, FS_CardinalityType
<1>10. QED BY <1>1, <1>2, <1>3, <1>4, <1>5, <1>6, <1>7, <1>8, <1>9

(* A defragmentation fills holes with live cells, each of them once.       *)
GoodMoves(c, m) ==
  /\ m \in [DOMAIN m -> Live(c)]
  /\ DOMAIN m \in SUBSET Cell /\ DOMAIN m \cap Live(c) = {}
  /\ \A i, j \in DOMAIN m : i # j => m[i] # m[j]

LEMMA MovesAre == ASSUME NEW c, CacheType(c), Counted(c) PROVE GoodMoves(c, Moves(c))
<1> DEFINE H == Holes(c)
           V == Movable(c)
           a == AllMoves(H, V)
           F == Filled(a, BlockStarts(a))
           m == Moves(c)
<1>1. /\ H \subseteq Cell /\ IsFiniteSet(H) /\ V \subseteq Live(c) /\ H \cap Live(c) = {}
      /\ Cardinality(V) \in Nat /\ Cardinality(H) <= Cardinality(V)
  BY EnoughMovable
<1>2. H \in SUBSET Nat /\ V \in SUBSET Cell
  BY <1>1, CellFacts, LiveFacts
<1> HIDE DEF H, V
<1>3. ASSUME NEW i \in H
      PROVE  /\ a[i] \in V
             /\ Cardinality({y \in V : y < a[i]}) = Rank(H, Cardinality(V), i)
  <2>1. a[i] = Nth(V, Rank(H, Cardinality(V), i))
    BY DEF AllMoves, Filler, Rank, UpTo, Before
  <2>2. Rank(H, Cardinality(V), i) \in Nat /\ Rank(H, Cardinality(V), i) < Cardinality(V)
    BY <1>1, <1>2, PlaceInRange
  <2> HIDE DEF a
  <2>3. QED BY <1>2, <2>1, <2>2, NthIs
<1>4. ASSUME NEW i \in H, NEW j \in H, i # j PROVE a[i] # a[j]
  <2>1. i \in Nat /\ j \in Nat
    BY <1>2
  <2>2. Rank(H, Cardinality(V), i) # Rank(H, Cardinality(V), j)
    <3>1. CASE i < j
      BY <1>1, <1>2, <3>1, PlacesDiffer
    <3>2. CASE j < i
      BY <1>1, <1>2, <3>2, PlacesDiffer
    <3>3. QED BY <1>4, <2>1, <3>1, <3>2
  <2> HIDE DEF a
  <2>3. QED BY <1>3, <2>2
<1>5. DOMAIN a = H
  BY DEF AllMoves
<1>6. F \subseteq H
  BY <1>5 DEF Filled
<1>7. m = [i \in F |-> a[i]]
  BY DEF Moves, WithinLimit, Restrict, H, V
<1> HIDE DEF F, a, m
<1>8. DOMAIN m = F /\ \A i \in F : m[i] = a[i]
  BY <1>7
<1>9. \A i \in F : a[i] \in Live(c)
  BY <1>1, <1>3, <1>6
<1>10. m \in [DOMAIN m -> Live(c)]
  BY <1>7, <1>8, <1>9
<1>11. \A i, j \in DOMAIN m : i # j => m[i] # m[j]
  BY <1>4, <1>6, <1>8
<1>12. DOMAIN m \in SUBSET Cell /\ DOMAIN m \cap Live(c) = {}
  BY <1>1, <1>6, <1>8
<1>13. QED BY <1>10, <1>11, <1>12 DEF GoodMoves, m

(* The cell whose contents cell i has after the moves.                     *)
From(m, i) == IF i \in DOMAIN m THEN m[i] ELSE i

(* From c to d the cells in use were only moved.                           *)
Rearranged(c, d, m) ==
  /\ \A i \in Live(d) : From(m, i) \in Live(c) /\ d.cells[i] = c.cells[From(m, i)]
  /\ \A i, j \in Live(d) : i # j => From(m, i) # From(m, j)
  /\ \A j \in Live(c) : \E i \in Live(d) : From(m, i) = j

LEMMA MoveGood ==
  ASSUME NEW c, GoodCache(c), NEW m, GoodMoves(c, m)
  PROVE  /\ GoodCache(MoveCells(c, m)) /\ Rearranged(c, MoveCells(c, m), m)
         /\ MoveCells(c, m).has_shift = c.has_shift
         /\ MoveCells(c, m).do_defrag = FALSE /\ MoveCells(c, m).n = c.n
         /\ MoveCells(c, m).head = IF m = <<>> THEN c.head ELSE c.used
         /\ Live(MoveCells(c, m)) = (Live(c) \ Range(m)) \union DOMAIN m
<1> DEFINE d == MoveCells(c, m)
           D == DOMAIN m
           R == Range(m)
           h == IF m = <<>> THEN c.head ELSE c.used
           k == [i \in Cell |-> CASE i \in D -> c.cells[m[i]]
                                  [] i \in R -> EmptyCell
                                  [] OTHER   -> c.cells[i]]
<1>1. CacheType(c) /\ Marks(c) /\ Counted(c) /\ Pending(c)
  BY DEF GoodCache
<1>2. /\ D \subseteq Cell /\ D \cap Live(c) = {} /\ R \subseteq Live(c)
      /\ \A i \in D : m[i] \in R
      /\ \A r \in R : \E i \in D : r = m[i]
      /\ \A i, j \in D : i # j => m[i] # m[j]
  BY DEF GoodMoves, Range
<1>3. d = [c EXCEPT !.do_defrag = FALSE, !.head = h, !.cells = k]
  BY DEF MoveCells, Moved
<1>4. h \in 0..Size /\ FALSE \in BOOLEAN
  <2>1. c.used \in Nat /\ c.head \in 0..Size /\ c.used <= Size /\ Size \in Nat
    BY <1>1, CacheIs, EnoughMovable, CellFacts
  <2>2. QED BY <2>1
<1>5. Live(c) \subseteq Cell /\ D \cap R = {}
  BY <1>2, LiveFacts
<1>6. EmptyCell \in CellRecord /\ EmptyCell.pos = -1 /\ EmptyCell.seq = {} /\ EmptyCell.delta = 0
  BY DEF EmptyCell, CellRecord
<1>7. ASSUME NEW i \in Cell
      PROVE  /\ k[i] \in CellRecord
             /\ i \in D => k[i] = c.cells[m[i]]
             /\ i \in R => k[i] = EmptyCell
             /\ i \notin D /\ i \notin R => k[i] = c.cells[i]
  <2>1. /\ c.cells[i] \in CellRecord
        /\ i \in D => c.cells[m[i]] \in CellRecord
    BY <1>1, <1>2, <1>5, CellIs
  <2>2. i \in R => i \notin D
    BY <1>5
  <2>3. /\ i \in D => k[i] = c.cells[m[i]]
        /\ i \in R => k[i] = EmptyCell
        /\ i \notin D /\ i \notin R => k[i] = c.cells[i]
    BY <2>2
  <2> HIDE DEF k, D, R
  <2>4. QED BY <1>6, <2>1, <2>3
<1>8. k \in [Cell -> CellRecord]
  BY <1>7
<1> HIDE DEF d, h, k, D, R
<1>9. CacheType(d) /\ Is(d, h, c.used, c.has_shift, FALSE, c.n, k)
  BY <1>1, <1>3, <1>4, <1>8, CacheFields
<1>10. Live(d) = (Live(c) \ R) \union D
  <2>1. \A i \in Cell : k[i].seq # {} <=> (i \in D \/ (i \in Live(c) /\ i \notin R))
    <3> SUFFICES ASSUME NEW i \in Cell
                 PROVE  k[i].seq # {} <=> (i \in D \/ (i \in Live(c) /\ i \notin R))
      OBVIOUS
    <3>1. i \in D => c.cells[m[i]].seq # {}
      BY <1>2 DEF Live
    <3>2. i \in Live(c) <=> c.cells[i].seq # {}
      BY DEF Live
    <3>3. QED BY <1>5, <1>6, <1>7, <3>1, <3>2
  <2>2. QED BY <1>2, <1>5, <1>9, <2>1 DEF Live, Is
<1>11. Counted(d)
  <2>1. IsFiniteSet(Live(c)) /\ IsFiniteSet(D) /\ IsFiniteSet(R)
    BY <1>2, CellFacts, LiveFacts, FS_Subset
  <2>2. m \in Surjection(D, R) /\ m \in Injection(D, R)
    <3>1. m \in [D -> R]
      BY <1>2 DEF D, R, Range, GoodMoves
    <3>2. QED BY <1>2, <3>1 DEF Surjection, Injection, IsInjective, D
  <2>3. Cardinality(R) = Cardinality(D)
    BY <2>1, <2>2, FS_Surjection
  <2>4. /\ Cardinality(Live(c) \ R) = c.used - Cardinality(R)
        /\ IsFiniteSet(Live(c) \ R) /\ Cardinality(Live(c) \ R) \in Nat
    BY <1>1, <1>2, <2>1, Freeing, FS_Subset
  <2>5. (Live(c) \ R) \cap D = {}
    BY <1>2
  <2>6. Cardinality((Live(c) \ R) \cap D) = 0
    BY <2>5, FS_EmptySet
  <2>7. Cardinality((Live(c) \ R) \union D)
          = Cardinality(Live(c) \ R) + Cardinality(D) - Cardinality((Live(c) \ R) \cap D)
    BY <2>1, <2>4, FS_Union
  <2>8. Cardinality(D) \in Nat /\ c.used \in Nat
    BY <1>1, <2>1, FS_CardinalityType, CacheIs
  <2>9. Cardinality(Live(d)) = c.used
    BY <1>10, <2>3, <2>4, <2>6, <2>7, <2>8
  <2>10. QED BY <1>9, <2>9 DEF Counted, Is
<1>12. Marks(d)
  <2>1. ASSUME NEW i \in Cell PROVE (k[i].pos >= 0) = (k[i].seq # {})
    <3>1. CASE i \in D
      <4>1. m[i] \in Cell
        BY <1>2, <1>5, <3>1
      <4>2. (c.cells[m[i]].pos >= 0) = (c.cells[m[i]].seq # {})
        BY <1>1, <4>1 DEF Marks
      <4>3. QED BY <1>7, <3>1, <4>2
    <3>2. CASE i \in R
      BY <1>6, <1>7, <3>2
    <3>3. CASE i \notin D /\ i \notin R
      <4>1. (c.cells[i].pos >= 0) = (c.cells[i].seq # {})
        BY <1>1 DEF Marks
      <4>2. QED BY <1>7, <3>3, <4>1
    <3>4. QED BY <3>1, <3>2, <3>3
  <2>2. QED BY <1>9, <2>1 DEF Marks, Is
<1>13. Pending(d)
  <2>1. ASSUME NEW i \in Cell PROVE k[i].delta # 0 => c.has_shift
    <3>1. CASE i \in D
      <4>1. m[i] \in Cell
        BY <1>2, <1>5, <3>1
      <4>2. QED BY <1>1, <1>7, <3>1, <4>1 DEF Pending
    <3>2. CASE i \in R
      BY <1>6, <1>7, <3>2
    <3>3. CASE i \notin D /\ i \notin R
      BY <1>1, <1>7, <3>3 DEF Pending
    <3>4. QED BY <3>1, <3>2, <3>3
  <2>2. QED BY <1>9, <2>1 DEF Pending, Is
<1>14. Rearranged(c, d, m)
  <2>1. \A i \in Live(d) : From(m, i) = IF i \in D THEN m[i] ELSE i
    BY DEF From, D
  <2>2. ASSUME NEW i \in Live(d)
        PROVE  From(m, i) \in Live(c) /\ d.cells[i] = c.cells[From(m, i)]
    <3>1. i \in Cell /\ i \in (Live(c) \ R) \union D
      BY <1>2, <1>5, <1>10
    <3>2. d.cells[i] = k[i]
      BY <1>9 DEF Is
    <3>3. CASE i \in D
      BY <1>2, <1>7, <2>1, <3>1, <3>2, <3>3
    <3>4. CASE i \notin D
      BY <1>7, <2>1, <3>1, <3>2, <3>4
    <3>5. QED BY <3>3, <3>4
  <2>3. ASSUME NEW i \in Live(d), NEW j \in Live(d), i # j PROVE From(m, i) # From(m, j)
    <3>1. i \in (Live(c) \ R) \union D /\ j \in (Live(c) \ R) \union D
      BY <1>10
    <3>2. QED BY <1>2, <2>1, <2>3, <3>1
  <2>4. ASSUME NEW j \in Live(c) PROVE \E i \in Live(d) : From(m, i) = j
    <3>1. CASE j \in R
      BY <1>2, <1>10, <2>1, <3>1
    <3>2. CASE j \notin R
      <4>1. j \notin D /\ j \in Live(d)
        BY <1>2, <1>10, <3>2
      <4>2. QED BY <2>1, <4>1
    <3>3. QED BY <3>1, <3>2
  <2>5. QED BY <2>2, <2>3, <2>4 DEF Rearranged
<1>15. QED BY <1>9, <1>10, <1>11, <1>12, <1>13, <1>14 DEF GoodCache, d, h, D, R, Is
-----------------------------------------------------------------------------
(* No delta is left behind by the shift.                                   *)
NoDelta(c) == \A i \in Cell : c.cells[i].delta = 0

LEMMA ShiftGood ==
  ASSUME NEW c, GoodCache(c)
  PROVE  /\ GoodCache(KShift(c)) /\ NoDelta(KShift(c)) /\ ~KShift(c).has_shift
         /\ Live(KShift(c)) = Live(c) /\ KShift(c).do_defrag = c.do_defrag
         /\ KShift(c).head = c.head /\ KShift(c).n = c.n
         /\ \A i \in Cell : /\ KShift(c).cells[i].pos = c.cells[i].pos
                            /\ KShift(c).cells[i].seq = c.cells[i].seq
<1> DEFINE d == KShift(c)
           k == [i \in Cell |-> [c.cells[i] EXCEPT !.delta = 0]]
<1>1. CacheType(c) /\ Marks(c) /\ Counted(c) /\ Pending(c)
  BY DEF GoodCache
<1>2. CASE ~c.has_shift
  BY <1>1, <1>2 DEF KShift, Pending, NoDelta
<1>3. CASE c.has_shift
  <2>1. d = [c EXCEPT !.has_shift = FALSE, !.cells = k]
    BY <1>3 DEF KShift
  <2>2. ASSUME NEW i \in Cell
        PROVE  /\ k[i] \in CellRecord /\ k[i].delta = 0
               /\ k[i].pos = c.cells[i].pos /\ k[i].seq = c.cells[i].seq
    <3>1. c.cells[i] \in CellRecord
      BY <1>1, CellIs
    <3>2. k[i] = [c.cells[i] EXCEPT !.delta = 0]
      OBVIOUS
    <3> HIDE DEF k
    <3>3. QED BY <3>1, <3>2 DEF CellRecord
  <2>3. k \in [Cell -> CellRecord]
    BY <2>2
  <2>4. FALSE \in BOOLEAN /\ c.head \in 0..Size /\ c.used \in Nat
    BY <1>1, CacheIs
  <2> HIDE DEF d, k
  <2>5. CacheType(d) /\ Is(d, c.head, c.used, FALSE, c.do_defrag, c.n, k)
    BY <1>1, <2>1, <2>3, <2>4, CacheFields
  <2>6. Live(d) = Live(c)
    BY <2>2, <2>5 DEF Live, Is
  <2>7. Counted(d) /\ Marks(d) /\ Pending(d) /\ NoDelta(d)
    BY <1>1, <2>2, <2>5, <2>6 DEF Counted, Marks, Pending, NoDelta, Is
  <2>8. \A i \in Cell : d.cells[i].pos = c.cells[i].pos /\ d.cells[i].seq = c.cells[i].seq
    BY <2>2, <2>5 DEF Is
  <2>9. QED BY <2>5, <2>6, <2>7, <2>8 DEF GoodCache, d, Is
<1>4. QED BY <1>2, <1>3

(* The moves of the next update.                                           *)
NextMoves(c) == IF c.do_defrag THEN Moves(KShift(c)) ELSE <<>>

(* From c to d the cells in use were moved and their deltas dropped.       *)
UpdateDone(c, d, m) ==
  /\ \A i \in Live(d) : /\ From(m, i) \in Live(c)
                        /\ d.cells[i].pos = c.cells[From(m, i)].pos
                        /\ d.cells[i].seq = c.cells[From(m, i)].seq
  /\ \A i, j \in Live(d) : i # j => From(m, i) # From(m, j)
  /\ \A j \in Live(c) : \E i \in Live(d) : From(m, i) = j

LEMMA UpdateGood ==
  ASSUME NEW c, GoodCache(c)
  PROVE  /\ GoodCache(kv_cache_update(c)) /\ NoDelta(kv_cache_update(c))
         /\ UpdateDone(c, kv_cache_update(c), NextMoves(c))
<1> DEFINE e == KShift(c)
           d == kv_cache_update(c)
           m == NextMoves(c)
<1>1. /\ GoodCache(e) /\ NoDelta(e) /\ ~e.has_shift
      /\ Live(e) = Live(c) /\ e.do_defrag = c.do_defrag
      /\ \A i \in Cell : e.cells[i].pos = c.cells[i].pos /\ e.cells[i].seq = c.cells[i].seq
  BY ShiftGood
<1>2. Live(c) \subseteq Cell
  BY LiveFacts
<1>3. CASE ~c.do_defrag
  <2>1. d = e
    BY <1>1, <1>3 DEF kv_cache_update, DefragIfAsked
  <2>2. m = <<>>
    BY <1>3 DEF NextMoves
  <2> HIDE DEF d, e, m
  <2>3. \A i : From(m, i) = i
    BY <2>2 DEF From
  <2>4. QED BY <1>1, <1>2, <2>1, <2>3 DEF UpdateDone, d, m
<1>4. CASE c.do_defrag
  <2>1. m = Moves(e)
    BY <1>4 DEF NextMoves
  <2>2. d = MoveCells(e, m)
    BY <1>1, <1>4, <2>1 DEF kv_cache_update, DefragIfAsked, kv_cache_defrag
  <2> HIDE DEF d, e, m
  <2>3. GoodMoves(e, m)
    BY <1>1, <2>1, MovesAre DEF GoodCache
  <2>4. GoodCache(d) /\ Rearranged(e, d, m) /\ d.has_shift = e.has_shift
    BY <1>1, <2>2, <2>3, MoveGood
  <2>5. NoDelta(d)
    BY <1>1, <2>4 DEF NoDelta, GoodCache, Pending
  <2>6. UpdateDone(c, d, m)
    BY <1>1, <1>2, <2>4 DEF UpdateDone, Rearranged
  <2>7. QED BY <2>4, <2>5, <2>6 DEF d, m
<1>5. QED BY <1>3, <1>4
-----------------------------------------------------------------------------
(* Storing a ubatch.                                                       *)
Token == [pos : Nat, seq : (SUBSET Nat) \ {{}}]

LEMMA HeadMoves ==
  ASSUME NEW c, GoodCache(c), NEW h \in 0..Size
  PROVE  LET d == [c EXCEPT !.head = h]
         IN  GoodCache(d) /\ d.cells = c.cells /\ Live(d) = Live(c) /\ d.head = h
<1> DEFINE d == [c EXCEPT !.head = h]
<1>1. CacheType(c) /\ Marks(c) /\ Counted(c) /\ Pending(c)
  BY DEF GoodCache
<1>2. CacheType(d) /\ Is(d, h, c.used, c.has_shift, c.do_defrag, c.n, c.cells)
  BY <1>1 DEF CacheType, Is
<1> HIDE DEF d
<1>3. Live(d) = Live(c)
  BY <1>2 DEF Live, Is
<1>4. Marks(d) /\ Counted(d) /\ Pending(d)
  BY <1>1, <1>2, <1>3 DEF Marks, Counted, Pending, Is
<1>5. QED BY <1>2, <1>3, <1>4 DEF GoodCache, d, Is

LEMMA OccupyGood ==
  ASSUME NEW c, GoodCache(c), NEW u \in Seq(Token) \ {<<>>}, NEW h \in Nat,
         h + Len(u) <= Size, InUse(c, Len(u), h) = {}
  PROVE  LET d == Occupy(c, h, u)
         IN  /\ GoodCache(d) /\ d.head = h
             /\ Live(d) = Live(c) \union (h..h+Len(u)-1)
             /\ Live(c) \cap (h..h+Len(u)-1) = {}
             /\ \A i \in Cell \ (h..h+Len(u)-1) : d.cells[i] = c.cells[i]
             /\ \A i \in h..h+Len(u)-1 : /\ d.cells[i].pos = u[i - h + 1].pos
                                         /\ d.cells[i].seq = u[i - h + 1].seq
                                         /\ d.cells[i].delta = c.cells[i].delta
<1> DEFINE d == Occupy(c, h, u)
           N == h..h+Len(u)-1
           w == c.used + Len(u)
           k == [i \in Cell |->
                   IF i \in N
                   THEN [c.cells[i] EXCEPT !.pos = u[i - h + 1].pos,
                                           !.seq = c.cells[i].seq \union u[i - h + 1].seq]
                   ELSE c.cells[i]]
<1>1. CacheType(c) /\ Marks(c) /\ Counted(c) /\ Pending(c)
  BY DEF GoodCache
<1>2. /\ Len(u) \in Nat /\ Len(u) > 0 /\ Size \in Nat /\ h \in 0..Size /\ w \in Nat
      /\ c.used \in Nat
  <2>1. Len(u) \in Nat /\ Len(u) > 0
    OBVIOUS
  <2>2. c.used \in Nat /\ Size \in Nat
    BY <1>1, CacheIs, CellFacts
  <2>3. QED BY <2>1, <2>2
<1>3. N \subseteq Cell
  BY <1>2 DEF Cell
<1>4. \A i \in N : c.cells[i].seq = {} /\ ~(c.cells[i].pos >= 0)
  <2>1. \A i \in N : ~(c.cells[i].pos >= 0)
    BY DEF InUse
  <2>2. QED BY <1>1, <1>3, <2>1 DEF Marks
<1>5. \A i \in N : u[i - h + 1] \in Token
  <2>1. \A i \in N : i - h + 1 \in 1..Len(u)
    BY <1>2
  <2>2. QED BY <2>1
<1>6. d = [c EXCEPT !.head = h, !.used = w, !.cells = k]
  BY DEF Occupy
<1>7. ASSUME NEW i \in Cell
      PROVE  /\ k[i] \in CellRecord /\ k[i].delta = c.cells[i].delta
             /\ i \notin N => k[i] = c.cells[i]
             /\ i \in N => /\ k[i].pos = u[i - h + 1].pos /\ k[i].seq = u[i - h + 1].seq
                           /\ k[i].pos \in Nat /\ k[i].seq # {}
  <2> DEFINE p == u[i - h + 1].pos
             q == c.cells[i].seq \union u[i - h + 1].seq
  <2>1. c.cells[i] \in CellRecord
    BY <1>1, CellIs
  <2>2. CASE i \notin N
    <3>1. k[i] = c.cells[i]
      BY <2>2
    <3> HIDE DEF k, N
    <3>2. QED BY <2>1, <2>2, <3>1
  <2>3. CASE i \in N
    <3>1. k[i] = [c.cells[i] EXCEPT !.pos = p, !.seq = q]
      BY <2>3
    <3>2. u[i - h + 1] \in Token
      BY <1>5, <2>3
    <3>3. p \in Nat /\ p \in Int /\ u[i - h + 1].seq \in SUBSET Nat /\ u[i - h + 1].seq # {}
      <4>1. \A t \in Token : /\ t.pos \in Nat /\ t.pos \in Int
                             /\ t.seq \in SUBSET Nat /\ t.seq # {}
        BY DEF Token
      <4>2. QED BY <3>2, <4>1
    <3>4. q = u[i - h + 1].seq
      BY <1>4, <2>3
    <3>5. q \in SUBSET Nat /\ q # {}
      BY <3>3, <3>4
    <3> HIDE DEF k, N, p, q
    <3>6. k[i] \in CellRecord /\ k[i].delta = c.cells[i].delta /\ k[i].pos = p /\ k[i].seq = q
      BY <2>1, <3>1, <3>3, <3>5 DEF CellRecord
    <3>7. QED BY <2>3, <3>3, <3>4, <3>5, <3>6 DEF p
  <2>4. QED BY <2>2, <2>3
<1>8. k \in [Cell -> CellRecord]
  BY <1>7
<1> HIDE DEF d, w, k
<1>9. CacheType(d) /\ Is(d, h, w, c.has_shift, c.do_defrag, c.n, k)
  BY <1>1, <1>2, <1>6, <1>8, CacheFields
<1>10. Live(d) = Live(c) \union N /\ Live(c) \cap N = {}
  <2> HIDE DEF N
  <2>1. \A i \in Cell : k[i].seq # {} <=> (c.cells[i].seq # {} \/ i \in N)
    BY <1>4, <1>7
  <2>2. \A i \in Live(c) : i \notin N
    BY <1>4 DEF Live
  <2>3. QED BY <1>3, <1>9, <2>1, <2>2 DEF Live, Is
<1>11. Counted(d)
  <2>1. h \in Int /\ h + Len(u) - 1 \in Int
    BY <1>2
  <2>2. /\ IsFiniteSet(N)
        /\ Cardinality(N) = IF h > h + Len(u) - 1 THEN 0 ELSE h + Len(u) - 1 - h + 1
    BY <2>1, FS_Interval
  <2>3. Cardinality(N) = Len(u)
    <3> HIDE DEF N
    <3>1. QED BY <1>2, <2>2
  <2> HIDE DEF N
  <2>4. IsFiniteSet(Live(c)) /\ Cardinality(Live(c) \cap N) = 0
    BY <1>10, LiveFacts, FS_EmptySet
  <2>5. Cardinality(Live(c) \union N)
          = Cardinality(Live(c)) + Cardinality(N) - Cardinality(Live(c) \cap N)
    BY <2>2, <2>4, FS_Union
  <2>6. Cardinality(Live(d)) = w
    BY <1>1, <1>2, <1>10, <2>3, <2>4, <2>5 DEF Counted, w
  <2>7. QED BY <1>9, <2>6 DEF Counted, Is
<1>12. Marks(d)
  <2> HIDE DEF N
  <2>1. ASSUME NEW i \in Cell PROVE (k[i].pos >= 0) = (k[i].seq # {})
    <3>1. CASE i \in N
      BY <1>7, <3>1
    <3>2. CASE i \notin N
      BY <1>1, <1>7, <3>2 DEF Marks
    <3>3. QED BY <3>1, <3>2
  <2>2. QED BY <1>9, <2>1 DEF Marks, Is
<1>13. Pending(d)
  BY <1>1, <1>7, <1>9 DEF Pending, Is
<1>14. /\ d.head = h
       /\ \A i \in Cell \ N : d.cells[i] = c.cells[i]
       /\ \A i \in N : /\ d.cells[i].pos = u[i - h + 1].pos
                       /\ d.cells[i].seq = u[i - h + 1].seq
                       /\ d.cells[i].delta = c.cells[i].delta
  <2> HIDE DEF N
  <2>1. QED BY <1>3, <1>7, <1>9 DEF Is
<1>15. QED BY <1>9, <1>10, <1>11, <1>12, <1>13, <1>14 DEF GoodCache, d

LEMMA CellMaxIsNat == ASSUME NEW c PROVE CellMax(c) \in Nat
<1>1. CASE Live(c) = {}
  BY <1>1 DEF CellMax
<1>2. CASE Live(c) # {}
  <2> DEFINE L == Live(c)
             T == {k \in Nat : \E x \in L : x + k = Size}
  <2>1. Size \in Nat /\ L # {} /\ \A x \in L : x \in 0..Size-1
    BY <1>2, CellFacts, LiveFacts DEF Cell
  <2> HIDE DEF L
  <2>2. PICK x \in L : TRUE
    BY <2>1
  <2>3. Size - x \in Nat /\ x + (Size - x) = Size
    BY <2>1, <2>2
  <2>4. T \in SUBSET Nat /\ T # {}
    BY <2>2, <2>3
  <2>5. PICK k \in T : \A j \in T : k <= j
    <3> HIDE DEF T
    <3>1. QED BY <2>4, Smallest
  <2>6. PICK z \in L : z + k = Size
    BY <2>5
  <2>7. \A y \in L : z >= y
    <3>1. ASSUME NEW y \in L PROVE z >= y
      <4>1. Size - y \in Nat /\ y + (Size - y) = Size
        BY <2>1
      <4>2. Size - y \in T
        BY <4>1
      <4>3. k <= Size - y
        BY <2>5, <4>2
      <4> HIDE DEF T
      <4>4. z \in Nat /\ y \in Nat /\ k \in Nat
        BY <2>1, <2>4, <2>5
      <4>5. QED BY <2>1, <2>6, <4>3, <4>4
    <3>2. QED BY <3>1
  <2>8. Max(L) \in L
    BY <2>7 DEF Max
  <2>9. QED BY <1>2, <2>1, <2>8 DEF CellMax, L
<1>3. QED BY <1>1, <1>2

LEMMA PaddedIsNat == ASSUME NEW c PROVE Padded(c) \in Nat
<1> DEFINE x == CellMax(c) + Pad - 1
           y == x \div Pad
           up == y * Pad
<1>1. Size \in Nat /\ Pad \in Nat /\ Pad > 0 /\ CellMax(c) \in Nat
  BY KvAssumption, CellMaxIsNat
<1>2. x \in Nat
  BY <1>1
<1> HIDE DEF x
<1>3. y \in Nat
  BY <1>1, <1>2, DivIsNat
<1> HIDE DEF y
<1>4. up \in Nat
  BY <1>1, <1>3
<1>5. Padded(c) = Min({Size, Max({Pad, up})})
  BY DEF Padded, up, x, y
<1> HIDE DEF up
<1>6. Max({Pad, up}) \in Nat
  BY <1>1, <1>4, MaxOfTwo
<1>7. Min({Size, Max({Pad, up})}) \in Nat
  BY <1>1, <1>6, MaxOfTwo
<1>8. QED BY <1>5, <1>7

LEMMA PaddingGood ==
  ASSUME NEW c, GoodCache(c)
  PROVE  /\ GoodCache(WithPadding(c)) /\ WithPadding(c).cells = c.cells
         /\ Live(WithPadding(c)) = Live(c) /\ WithPadding(c).head = c.head
<1> DEFINE q == Padded(c)
           d == [c EXCEPT !.n = q]
<1>1. CacheType(c) /\ Marks(c) /\ Counted(c) /\ Pending(c)
  BY DEF GoodCache
<1>2. q \in Nat /\ d = WithPadding(c)
  BY PaddedIsNat DEF WithPadding
<1> HIDE DEF q
<1>3. CacheType(d) /\ Is(d, c.head, c.used, c.has_shift, c.do_defrag, q, c.cells)
  BY <1>1, <1>2 DEF CacheType, Is
<1> HIDE DEF d
<1>4. Live(d) = Live(c)
  BY <1>3 DEF Live, Is
<1>5. Marks(d) /\ Counted(d) /\ Pending(d)
  BY <1>1, <1>3, <1>4 DEF Marks, Counted, Pending, Is
<1>6. QED BY <1>2, <1>3, <1>4, <1>5 DEF GoodCache, Is

LEMMA FinishGood ==
  ASSUME NEW c, GoodCache(c)
  PROVE  /\ GoodCache(FinishDecode(c)) /\ FinishDecode(c).cells = c.cells
         /\ Live(FinishDecode(c)) = Live(c)
<1> DEFINE d == [c EXCEPT !.do_defrag = TRUE]
<1>1. CacheType(c) /\ Marks(c) /\ Counted(c) /\ Pending(c)
  BY DEF GoodCache
<1>2. FinishDecode(c) = d \/ FinishDecode(c) = c
  BY DEF FinishDecode
<1>3. CacheType(d) /\ Is(d, c.head, c.used, c.has_shift, TRUE, c.n, c.cells)
  BY <1>1 DEF CacheType, Is
<1> HIDE DEF d
<1>4. Live(d) = Live(c)
  BY <1>3 DEF Live, Is
<1>5. Marks(d) /\ Counted(d) /\ Pending(d)
  BY <1>1, <1>3, <1>4 DEF Marks, Counted, Pending, Is
<1>6. QED BY <1>2, <1>3, <1>4, <1>5 DEF GoodCache, Is

(* The cells of a ubatch of n tokens placed at h.                          *)
Slot(h, n) == h..h+n-1

LEMMA PlaceGood ==
  ASSUME NEW c, GoodCache(c), NEW u \in Seq(Token) \ {<<>>}
  PROVE  LET e == kv_cache_update(c)
             p == Place(c, u)
         IN  /\ p.ok \in BOOLEAN /\ GoodCache(p.cache) /\ NoDelta(p.cache)
             /\ p.ok => /\ p.slot \in Nat /\ p.slot + Len(u) <= Size
                        /\ Live(p.cache) = Live(e) \union Slot(p.slot, Len(u))
                        /\ Live(e) \cap Slot(p.slot, Len(u)) = {}
                        /\ \A i \in Live(e) : p.cache.cells[i] = e.cells[i]
                        /\ \A i \in Slot(p.slot, Len(u)) :
                             /\ p.cache.cells[i].pos = u[i - p.slot + 1].pos
                             /\ p.cache.cells[i].seq = u[i - p.slot + 1].seq
             /\ ~p.ok => /\ p.cache.cells = e.cells /\ Live(p.cache) = Live(e)
                         /\ \A s \in 0..Size-Len(u) : InUse(p.cache, Len(u), s) # {}
<1> DEFINE e == kv_cache_update(c)
           n == Len(u)
           b == StartSearch(e, n)
           a == Search(b, n)
           p == Place(c, u)
<1>1. GoodCache(e) /\ NoDelta(e)
  BY UpdateGood
<1>2. n \in Nat \ {0} /\ Size \in Nat /\ 0 \in 0..Size
  <2>1. Len(u) \in Nat /\ Len(u) > 0
    OBVIOUS
  <2>2. QED BY <2>1, CellFacts
<1>3. p = PlaceIn(b, a, u)
  BY DEF Place, PlaceFrom
<1> HIDE DEF e, p
<1>4. GoodCache(b) /\ b.cells = e.cells /\ Live(b) = Live(e)
  BY <1>1, <1>2, HeadMoves DEF StartSearch
<1> HIDE DEF b, n
<1>5. b.head \in 0..Size
  BY <1>4, CacheIs DEF GoodCache
<1>6. /\ a.found \in BOOLEAN /\ a.head \in 0..Size
      /\ a.found => a.head + n <= Size /\ InUse(b, n, a.head) = {}
      /\ ~a.found => \A s \in 0..Size-n : InUse(b, n, s) # {}
  BY <1>2, <1>5, SearchFinds
<1> HIDE DEF a
<1>7. p.ok = a.found /\ p.slot = a.head
  BY <1>3 DEF PlaceIn
<1>8. CASE ~a.found
  <2>1. p.cache = [b EXCEPT !.head = a.head]
    BY <1>3, <1>8 DEF PlaceIn
  <2>2. GoodCache(p.cache) /\ p.cache.cells = b.cells /\ Live(p.cache) = Live(b)
    BY <1>4, <1>6, <2>1, HeadMoves
  <2>3. NoDelta(p.cache)
    BY <1>1, <1>4, <2>2 DEF NoDelta
  <2>4. \A s : InUse(p.cache, n, s) = InUse(b, n, s)
    BY <2>2 DEF InUse
  <2>5. QED BY <1>4, <1>6, <1>7, <1>8, <2>2, <2>3, <2>4 DEF p, e, n
<1>9. CASE a.found
  <2> DEFINE h == a.head
             o == Occupy(b, h, u)
             w == WithPadding(o)
             N == Slot(h, n)
  <2>1. h \in Nat /\ h + n <= Size /\ InUse(b, n, h) = {}
    BY <1>2, <1>6, <1>9
  <2>2. p.cache = AdvanceHead(w, n)
    BY <1>3, <1>9 DEF PlaceIn, n
  <2> HIDE DEF h
  <2>3. /\ GoodCache(o) /\ o.head = h
        /\ Live(o) = Live(b) \union N /\ Live(b) \cap N = {}
        /\ \A i \in Cell \ N : o.cells[i] = b.cells[i]
        /\ \A i \in N : /\ o.cells[i].pos = u[i - h + 1].pos
                        /\ o.cells[i].seq = u[i - h + 1].seq
                        /\ o.cells[i].delta = b.cells[i].delta
    BY <1>4, <2>1, OccupyGood DEF Slot, n
  <2> HIDE DEF o
  <2>4. /\ GoodCache(w) /\ w.cells = o.cells /\ Live(w) = Live(o) /\ w.head = h
    BY <2>3, PaddingGood
  <2> HIDE DEF w
  <2> DEFINE g == IF w.head + n >= Size THEN 0 ELSE w.head + n
  <2>5. p.cache = [w EXCEPT !.head = g] /\ g \in 0..Size
    BY <1>2, <2>1, <2>2, <2>4 DEF AdvanceHead
  <2> HIDE DEF g
  <2>6. GoodCache(p.cache) /\ p.cache.cells = o.cells /\ Live(p.cache) = Live(o)
    BY <2>4, <2>5, HeadMoves
  <2> HIDE DEF N
  <2>7. N \subseteq Cell
    BY <2>3, LiveFacts
  <2>8. NoDelta(p.cache)
    <3>1. \A i \in Cell : b.cells[i].delta = 0
      BY <1>1, <1>4 DEF NoDelta
    <3>2. \A i \in Cell : o.cells[i].delta = b.cells[i].delta
      BY <2>3, <2>7
    <3>3. QED BY <2>6, <3>1, <3>2 DEF NoDelta
  <2>9. \A i \in Live(e) : p.cache.cells[i] = e.cells[i]
    <3>1. \A i \in Live(e) : i \in Cell \ N
      BY <1>4, <2>3, LiveFacts
    <3>2. QED BY <1>4, <2>3, <2>6, <3>1
  <2>10. QED BY <1>4, <1>7, <1>9, <2>1, <2>3, <2>6, <2>8, <2>9 DEF p, e, n, h, N
<1>10. QED BY <1>6, <1>8, <1>9
-----------------------------------------------------------------------------
(* Two devices that call the same sequences by different numbers.          *)
Lowered(Q) == {q - 1 : q \in Q}

(* d is the cache of a device that has 1 less for every sequence of c.     *)
Alike(c, d) ==
  /\ GoodCache(c) /\ GoodCache(d)
  /\ d.head = c.head /\ d.do_defrag = c.do_defrag /\ d.n = c.n
  /\ Live(d) = Live(c)
  /\ \A x \in Live(c) : /\ d.cells[x].pos = c.cells[x].pos
                        /\ d.cells[x].seq = Lowered(c.cells[x].seq)

LEMMA LoweredIs ==
  ASSUME NEW Q \in SUBSET Nat, NEW s \in Nat
  PROVE  /\ s \in Lowered(Q) <=> s + 1 \in Q
         /\ Lowered(Q) = {} <=> Q = {}
         /\ Lowered(Q \ {s + 1}) = Lowered(Q) \ {s}
         /\ Lowered({s + 1}) = {s}
<1>1. s \in Lowered(Q) <=> s + 1 \in Q
  BY DEF Lowered
<1>2. Lowered(Q) = {} <=> Q = {}
  BY DEF Lowered
<1>3. Lowered(Q \ {s + 1}) = Lowered(Q) \ {s}
  BY DEF Lowered
<1>4. Lowered({s + 1}) = {s}
  BY DEF Lowered
<1>5. QED BY <1>1, <1>2, <1>3, <1>4

LEMMA AlikeUsed ==
  ASSUME NEW c, NEW d, Alike(c, d)
  PROVE  d.used = c.used
BY DEF Alike, GoodCache, Counted

LEMMA AlikeSeq ==
  ASSUME NEW c, NEW d, Alike(c, d), NEW s \in Nat, NEW x \in Cell
  PROVE  /\ s \in d.cells[x].seq <=> s + 1 \in c.cells[x].seq
         /\ s + 1 \in c.cells[x].seq => x \in Live(c)
<1>0. s + 1 \in c.cells[x].seq => x \in Live(c)
  BY DEF Live
<1>1. CASE x \in Live(c)
  <2> DEFINE Q == c.cells[x].seq
  <2>1. Q \in SUBSET Nat /\ d.cells[x].seq = Lowered(Q)
    BY <1>1, CellIs DEF Alike, GoodCache
  <2> HIDE DEF Q
  <2>2. s \in Lowered(Q) <=> s + 1 \in Q
    BY <2>1, LoweredIs
  <2>3. QED BY <1>0, <2>1, <2>2 DEF Q
<1>2. CASE x \notin Live(c)
  <2>1. x \notin Live(d)
    BY <1>2 DEF Alike
  <2>2. QED BY <1>2, <2>1 DEF Live
<1>3. QED BY <1>1, <1>2

(* The cells that are freed by a removal and by a shift of positions.      *)
RmFreed(c, s, p0, p1) ==
  {x \in Selected(c, s, p0, p1) : (IF s < 0 THEN {} ELSE c.cells[x].seq \ {s}) = {}}

AddFreed(c, s, p0, p1, e) ==
  {x \in Cell : /\ s \in c.cells[x].seq /\ InRange(c.cells[x].pos, p0, p1)
                /\ c.cells[x].pos + e < 0}

(* The fields an operation leaves alone, and the head.                     *)
LEMMA RmFields ==
  ASSUME NEW c, CacheType(c), NEW s, NEW p0, NEW p1
  PROVE  /\ kv_cache_seq_rm(c, s, p0, p1).head = HeadAfterFreeing(c, RmFreed(c, s, p0, p1))
         /\ kv_cache_seq_rm(c, s, p0, p1).do_defrag = c.do_defrag
         /\ kv_cache_seq_rm(c, s, p0, p1).n = c.n
BY DEF kv_cache_seq_rm, CacheType, RmFreed

LEMMA AddFields ==
  ASSUME NEW c, CacheType(c), NEW s, NEW p0, NEW p1, NEW e
  PROVE  /\ e = 0 \/ EmptyRange(p0, p1) => kv_cache_seq_add(c, s, p0, p1, e) = c
         /\ ~(e = 0 \/ EmptyRange(p0, p1)) =>
              kv_cache_seq_add(c, s, p0, p1, e).head =
                IF AddFreed(c, s, p0, p1, e) # {} THEN Min(AddFreed(c, s, p0, p1, e)) ELSE 0
         /\ kv_cache_seq_add(c, s, p0, p1, e).do_defrag = c.do_defrag
         /\ kv_cache_seq_add(c, s, p0, p1, e).n = c.n
<1> DEFINE d == kv_cache_seq_add(c, s, p0, p1, e)
           hit == {i \in Cell : s \in c.cells[i].seq /\ InRange(c.cells[i].pos, p0, p1)}
           free == {i \in hit : c.cells[i].pos + e < 0}
<1>1. free = AddFreed(c, s, p0, p1, e)
  BY DEF AddFreed
<1>2. CASE e = 0 \/ EmptyRange(p0, p1)
  BY <1>2 DEF kv_cache_seq_add
<1>3. CASE ~(e = 0 \/ EmptyRange(p0, p1))
  <2> DEFINE h == IF free # {} THEN Min(free) ELSE 0
             b == c.has_shift \/ hit # {}
             u == c.used - Cardinality(free)
             k == [i \in Cell |->
                     CASE i \in free ->
                            [pos |-> -1, delta |-> c.cells[i].delta + e, seq |-> {}]
                       [] i \in hit \ free ->
                            [c.cells[i] EXCEPT !.pos   = c.cells[i].pos + e,
                                               !.delta = c.cells[i].delta + e]
                       [] OTHER -> c.cells[i]]
  <2>1. d = [c EXCEPT !.has_shift = b, !.head = h, !.used = u, !.cells = k]
    BY <1>3 DEF kv_cache_seq_add
  <2>2. h = IF AddFreed(c, s, p0, p1, e) # {} THEN Min(AddFreed(c, s, p0, p1, e)) ELSE 0
    BY <1>1
  <2> HIDE DEF d, h, b, u, k
  <2>3. d.head = h /\ d.do_defrag = c.do_defrag /\ d.n = c.n
    BY <2>1 DEF CacheType
  <2>4. QED BY <1>3, <2>2, <2>3 DEF d
<1>4. QED BY <1>2, <1>3

LEMMA ClearAlike ==
  ASSUME NEW c, NEW d, Alike(c, d)
  PROVE  Alike(kv_cache_clear(c), kv_cache_clear(d)) /\ kv_cache_clear(c).head = 0
<1>1. /\ GoodCache(kv_cache_clear(c)) /\ GoodCache(kv_cache_clear(d))
      /\ Live(kv_cache_clear(c)) = {} /\ Live(kv_cache_clear(d)) = {}
  BY ClearGood DEF Alike
<1>2. \A b : CacheType(b) => /\ kv_cache_clear(b).head = 0
                             /\ kv_cache_clear(b).do_defrag = b.do_defrag
                             /\ kv_cache_clear(b).n = b.n
  BY DEF kv_cache_clear, CacheType
<1>3. QED BY <1>1, <1>2 DEF Alike, GoodCache

(* Where nothing is stored, nothing is copied.                             *)
LEMMA CpAlike ==
  ASSUME NEW c, NEW d, Alike(c, d), NEW s \in Nat, Live(c) = {}, c.head = 0
  PROVE  LET e == kv_cache_seq_cp(c, 0, s + 1, -1, -1)
         IN  Alike(e, kv_cache_seq_cp(d, 0, s, -1, -1)) /\ Live(e) = {} /\ e.head = 0
<1> DEFINE e == kv_cache_seq_cp(c, 0, s + 1, -1, -1)
           g == kv_cache_seq_cp(d, 0, s, -1, -1)
<1>1. /\ GoodCache(e) /\ GoodCache(g) /\ Live(e) \subseteq Live(c) /\ Live(g) \subseteq Live(d)
  BY CpGood DEF Alike, Tame
<1>2. \A b, t : CacheType(b) /\ b.head = 0 =>
                  /\ kv_cache_seq_cp(b, 0, t, -1, -1).head = 0
                  /\ kv_cache_seq_cp(b, 0, t, -1, -1).do_defrag = b.do_defrag
                  /\ kv_cache_seq_cp(b, 0, t, -1, -1).n = b.n
  BY DEF kv_cache_seq_cp, CacheType
<1>3. QED BY <1>1, <1>2 DEF Alike, GoodCache

LEMMA RmAlike ==
  ASSUME NEW c, NEW d, Alike(c, d), NEW s \in Nat, NEW p0 \in Int, NEW p1 \in Int
  PROVE  Alike(kv_cache_seq_rm(c, s + 1, p0, p1), kv_cache_seq_rm(d, s, p0, p1))
<1> DEFINE e == kv_cache_seq_rm(c, s + 1, p0, p1)
           g == kv_cache_seq_rm(d, s, p0, p1)
           F == RmFreed(c, s + 1, p0, p1)
           G == RmFreed(d, s, p0, p1)
           rest(x) == IF ~InRange(c.cells[x].pos, p0, p1) THEN c.cells[x].seq
                      ELSE c.cells[x].seq \ {s + 1}
<1>1. /\ GoodCache(c) /\ GoodCache(d) /\ Live(d) = Live(c) /\ Live(c) \subseteq Cell
      /\ d.head = c.head /\ d.do_defrag = c.do_defrag /\ d.n = c.n
  BY LiveFacts DEF Alike
<1>2. /\ GoodCache(e) /\ Live(e) \subseteq Live(c) /\ RmDone(c, e, s + 1, p0, p1)
      /\ GoodCache(g) /\ Live(g) \subseteq Live(d) /\ RmDone(d, g, s, p0, p1)
  BY <1>1, RmGood DEF Tame
<1>3. /\ e.head = HeadAfterFreeing(c, F) /\ e.do_defrag = c.do_defrag /\ e.n = c.n
      /\ g.head = HeadAfterFreeing(d, G) /\ g.do_defrag = d.do_defrag /\ g.n = d.n
  BY <1>1, RmFields DEF GoodCache, F, G, e, g
<1>4. ASSUME NEW x \in Live(c)
      PROVE  /\ c.cells[x].seq \in SUBSET Nat /\ rest(x) \in SUBSET Nat
             /\ d.cells[x].pos = c.cells[x].pos
             /\ d.cells[x].seq = Lowered(c.cells[x].seq)
             /\ d.cells[x].seq \ {s} = Lowered(c.cells[x].seq \ {s + 1})
             /\ d.cells[x].seq \ {s} = {} <=> c.cells[x].seq \ {s + 1} = {}
  <2>1. c.cells[x].seq \in SUBSET Nat
    BY <1>1, CellIs DEF GoodCache
  <2>2. c.cells[x].seq \ {s + 1} \in SUBSET Nat
    BY <2>1
  <2>3. d.cells[x].pos = c.cells[x].pos /\ d.cells[x].seq = Lowered(c.cells[x].seq)
    BY DEF Alike
  <2>4. Lowered(c.cells[x].seq \ {s + 1}) = Lowered(c.cells[x].seq) \ {s}
    BY <2>1, LoweredIs
  <2>5. Lowered(c.cells[x].seq \ {s + 1}) = {} <=> c.cells[x].seq \ {s + 1} = {}
    BY <2>2, LoweredIs
  <2>6. QED BY <2>1, <2>2, <2>3, <2>4, <2>5
<1>5. F = G
  <2>1. ASSUME NEW x \in Cell PROVE x \in F <=> x \in G
    <3>1. x \notin Live(c) => x \notin F /\ x \notin G
      <4>1. \A b : GoodCache(b) /\ x \notin Live(b) => ~(b.cells[x].pos >= 0)
        BY DEF GoodCache, Marks, Live
      <4>2. QED BY <1>1, <4>1 DEF RmFreed, Selected, InRange
    <3>2. CASE x \in Live(c)
      <4>1. s + 1 \in c.cells[x].seq <=> s \in d.cells[x].seq
        BY AlikeSeq
      <4>2. ~(s + 1 < 0) /\ ~(s < 0)
        OBVIOUS
      <4>3. d.cells[x].pos = c.cells[x].pos
        BY <1>4, <3>2
      <4>4. x \in Selected(c, s + 1, p0, p1) <=> x \in Selected(d, s, p0, p1)
        BY <4>1, <4>2, <4>3 DEF Selected
      <4>5. d.cells[x].seq \ {s} = {} <=> c.cells[x].seq \ {s + 1} = {}
        BY <1>4, <3>2
      <4>6. QED BY <4>2, <4>4, <4>5 DEF RmFreed
    <3>3. QED BY <3>1, <3>2
  <2>2. F \subseteq Cell /\ G \subseteq Cell
    BY DEF RmFreed, Selected
  <2>3. QED BY <2>1, <2>2
<1> HIDE DEF e, g, F, G
<1>6. e.head = g.head
  BY <1>1, <1>3, <1>5 DEF HeadAfterFreeing
<1>7. ASSUME NEW x \in Live(c)
      PROVE  /\ x \in Live(e) <=> rest(x) # {}
             /\ x \in Live(e) => e.cells[x].seq = rest(x) /\ e.cells[x].pos = c.cells[x].pos
             /\ x \in Live(g) <=> rest(x) # {}
             /\ x \in Live(g) => g.cells[x].seq = Lowered(rest(x)) /\ g.cells[x].pos = c.cells[x].pos
  <2>1. ~(s + 1 < 0) /\ ~(s < 0)
    OBVIOUS
  <2>2. /\ x \in Live(e) <=> rest(x) # {}
        /\ x \in Live(e) => e.cells[x].seq = rest(x) /\ e.cells[x].pos = c.cells[x].pos
    BY <1>2, <2>1 DEF RmDone
  <2> DEFINE q == IF ~InRange(d.cells[x].pos, p0, p1) THEN d.cells[x].seq ELSE d.cells[x].seq \ {s}
  <2>3. /\ x \in Live(g) <=> q # {}
        /\ x \in Live(g) => g.cells[x].seq = q /\ g.cells[x].pos = d.cells[x].pos
    BY <1>1, <1>2, <2>1 DEF RmDone
  <2>4. q = Lowered(rest(x))
    BY <1>4
  <2>5. q = {} <=> rest(x) = {}
    BY <1>4, <2>4, LoweredIs
  <2> HIDE DEF q, rest
  <2>6. QED BY <1>4, <2>2, <2>3, <2>4, <2>5
<1>8. Live(g) = Live(e)
  BY <1>1, <1>2, <1>7
<1>9. QED BY <1>1, <1>2, <1>3, <1>6, <1>7, <1>8 DEF Alike, e, g

LEMMA AddAlike ==
  ASSUME NEW c, NEW d, Alike(c, d), NEW s \in Nat, NEW p0 \in Int, NEW p1 \in Int, NEW a \in Int
  PROVE  Alike(kv_cache_seq_add(c, s + 1, p0, p1, a), kv_cache_seq_add(d, s, p0, p1, a))
<1> DEFINE e == kv_cache_seq_add(c, s + 1, p0, p1, a)
           g == kv_cache_seq_add(d, s, p0, p1, a)
           F == AddFreed(c, s + 1, p0, p1, a)
           G == AddFreed(d, s, p0, p1, a)
<1>1. /\ GoodCache(c) /\ GoodCache(d) /\ Live(d) = Live(c) /\ Live(c) \subseteq Cell
      /\ d.head = c.head /\ d.do_defrag = c.do_defrag /\ d.n = c.n
  BY LiveFacts DEF Alike
<1>2. /\ GoodCache(e) /\ Live(e) \subseteq Live(c) /\ AddDone(c, e, s + 1, p0, p1, a)
      /\ GoodCache(g) /\ Live(g) \subseteq Live(d) /\ AddDone(d, g, s, p0, p1, a)
  BY <1>1, AddGood DEF Tame
<1>3. CASE a = 0 \/ EmptyRange(p0, p1)
  <2>1. e = c /\ g = d
    BY <1>1, <1>3, AddFields DEF GoodCache
  <2>2. QED BY <2>1
<1>4. CASE ~(a = 0 \/ EmptyRange(p0, p1))
  <2>1. /\ e.head = (IF F # {} THEN Min(F) ELSE 0) /\ e.do_defrag = c.do_defrag /\ e.n = c.n
        /\ g.head = (IF G # {} THEN Min(G) ELSE 0) /\ g.do_defrag = d.do_defrag /\ g.n = d.n
    BY <1>1, <1>4, AddFields DEF GoodCache
  <2>2. ASSUME NEW x \in Cell
        PROVE  /\ s + 1 \in c.cells[x].seq <=> s \in d.cells[x].seq
               /\ s + 1 \in c.cells[x].seq => d.cells[x].pos = c.cells[x].pos
    <3>1. /\ s + 1 \in c.cells[x].seq <=> s \in d.cells[x].seq
          /\ s + 1 \in c.cells[x].seq => x \in Live(c)
      BY AlikeSeq
    <3>2. QED BY <3>1 DEF Alike
  <2>3. F = G
    BY <2>2 DEF AddFreed
  <2> HIDE DEF e, g, F, G
  <2>4. ASSUME NEW x \in Live(c)
        PROVE  /\ x \in Live(e) <=> x \in Live(g)
               /\ x \in Live(e) => /\ e.cells[x].seq = c.cells[x].seq
                                   /\ g.cells[x].seq = d.cells[x].seq
                                   /\ g.cells[x].pos = e.cells[x].pos
    <3>1. /\ s + 1 \in c.cells[x].seq <=> s \in d.cells[x].seq
          /\ d.cells[x].pos = c.cells[x].pos
      BY <1>1, <2>2 DEF Alike
    <3>2. QED BY <1>1, <1>2, <3>1 DEF AddDone
  <2>5. Live(g) = Live(e)
    BY <1>1, <1>2, <2>4
  <2>6. \A x \in Live(e) : d.cells[x].seq = Lowered(c.cells[x].seq)
    BY <1>2 DEF Alike
  <2>7. QED BY <1>1, <1>2, <2>1, <2>3, <2>4, <2>5, <2>6 DEF Alike, e, g
<1>5. QED BY <1>3, <1>4

(* The search reads nothing but the head and which cells are in use.       *)
LEMMA SearchSame ==
  ASSUME NEW c, NEW d, NEW n \in Nat \ {0}, c.head \in 0..Size, d.head = c.head,
         \A x \in Cell : d.cells[x].pos >= 0 <=> c.cells[x].pos >= 0
  PROVE  Search(d, n) = Search(c, n)
<1>0. Size \in Nat /\ Size > 0
  BY KvAssumption
<1>1. CASE n > Size
  BY <1>1 DEF Search
<1>2. CASE ~(n > Size)
  <2>1. ASSUME NEW f, NEW w \in Tries PROVE Try(d, n, f, w) = Try(c, n, f, w)
    <3>1. w[1] \in 0..Size
      BY DEF Tries
    <3>2. CASE w[1] + n > Size
      BY <3>2 DEF Try
    <3>3. CASE ~(w[1] + n > Size)
      <4>1. w[1]..w[1]+n-1 \subseteq Cell
        BY <1>0, <3>1, <3>3 DEF Cell
      <4>2. InUse(d, n, w[1]) = InUse(c, n, w[1])
        BY <4>1 DEF InUse
      <4>3. QED BY <4>2 DEF Try
    <3>4. QED BY <3>2, <3>3
  <2> DEFINE F(b) == CHOOSE f : f = [w \in Tries |-> Try(b, n, f, w)]
  <2>2. \A f : [w \in Tries |-> Try(d, n, f, w)] = [w \in Tries |-> Try(c, n, f, w)]
    BY <2>1
  <2>3. F(d) = F(c)
    BY <2>2
  <2>4. Search(c, n) = F(c)[<<c.head, 0>>] /\ Search(d, n) = F(d)[<<d.head, 0>>]
    BY <1>2 DEF Search, Try, InUse
  <2> HIDE DEF F
  <2>5. QED BY <2>3, <2>4
<1>3. QED BY <1>1, <1>2

LEMMA ShiftAlike ==
  ASSUME NEW c, NEW d, Alike(c, d)
  PROVE  Alike(KShift(c), KShift(d))
<1>1. /\ GoodCache(c) /\ GoodCache(d) /\ Live(d) = Live(c) /\ Live(c) \subseteq Cell
      /\ d.head = c.head /\ d.do_defrag = c.do_defrag /\ d.n = c.n
  BY LiveFacts DEF Alike
<1>2. \A b : GoodCache(b) =>
        /\ GoodCache(KShift(b)) /\ Live(KShift(b)) = Live(b)
        /\ KShift(b).do_defrag = b.do_defrag
        /\ KShift(b).head = b.head /\ KShift(b).n = b.n
        /\ \A x \in Cell : /\ KShift(b).cells[x].pos = b.cells[x].pos
                           /\ KShift(b).cells[x].seq = b.cells[x].seq
  BY ShiftGood
<1>3. QED BY <1>1, <1>2 DEF Alike

LEMMA DefragAlike ==
  ASSUME NEW c, NEW d, Alike(c, d)
  PROVE  Alike(kv_cache_defrag(c), kv_cache_defrag(d))
<1> DEFINE m == Moves(c)
           e == MoveCells(c, m)
           g == MoveCells(d, m)
<1>1. /\ GoodCache(c) /\ GoodCache(d) /\ Live(d) = Live(c) /\ Live(c) \subseteq Cell
      /\ d.head = c.head /\ d.used = c.used /\ d.n = c.n
  BY LiveFacts, AlikeUsed DEF Alike
<1>2. Moves(d) = m
  <2>1. c.used <= Size /\ c.used \in Nat /\ Size \in Nat
    BY <1>1, EnoughMovable, CellFacts, CacheIs DEF GoodCache
  <2>2. 0..c.used-1 \subseteq Cell
    BY <2>1 DEF Cell
  <2>3. \A x \in Cell : c.cells[x].seq = {} <=> d.cells[x].seq = {}
    <3>1. \A x \in Cell : x \in Live(c) <=> x \in Live(d)
      BY <1>1
    <3>2. QED BY <3>1 DEF Live
  <2>4. Holes(c) = Holes(d)
    BY <1>1, <2>2, <2>3 DEF Holes
  <2>5. Movable(c) = Movable(d)
    BY <1>1 DEF Movable
  <2>6. QED BY <2>4, <2>5 DEF Moves
<1>3. kv_cache_defrag(c) = e /\ kv_cache_defrag(d) = g
  BY <1>2 DEF kv_cache_defrag
<1>4. GoodMoves(c, m) /\ GoodMoves(d, m)
  <2>1. GoodMoves(c, Moves(c)) /\ GoodMoves(d, Moves(d))
    BY <1>1, MovesAre DEF GoodCache
  <2>2. QED BY <1>2, <2>1
<1> HIDE DEF m
<1>5. /\ GoodCache(e) /\ Rearranged(c, e, m) /\ e.do_defrag = FALSE /\ e.n = c.n
      /\ e.head = (IF m = <<>> THEN c.head ELSE c.used)
      /\ Live(e) = (Live(c) \ Range(m)) \union DOMAIN m
  BY <1>1, <1>4, MoveGood
<1>6. /\ GoodCache(g) /\ Rearranged(d, g, m) /\ g.do_defrag = FALSE /\ g.n = d.n
      /\ g.head = (IF m = <<>> THEN d.head ELSE d.used)
      /\ Live(g) = (Live(d) \ Range(m)) \union DOMAIN m
  BY <1>1, <1>4, MoveGood
<1> HIDE DEF e, g
<1>7. Live(g) = Live(e) /\ g.head = e.head /\ g.n = e.n /\ g.do_defrag = e.do_defrag
  BY <1>1, <1>5, <1>6
<1>8. ASSUME NEW x \in Live(e)
      PROVE  g.cells[x].pos = e.cells[x].pos /\ g.cells[x].seq = Lowered(e.cells[x].seq)
  <2>1. From(m, x) \in Live(c) /\ e.cells[x] = c.cells[From(m, x)]
    BY <1>5 DEF Rearranged
  <2>2. g.cells[x] = d.cells[From(m, x)]
    BY <1>6, <1>7 DEF Rearranged
  <2>3. QED BY <2>1, <2>2 DEF Alike
<1>9. QED BY <1>3, <1>5, <1>6, <1>7, <1>8 DEF Alike

LEMMA UpdateAlike ==
  ASSUME NEW c, NEW d, Alike(c, d)
  PROVE  Alike(kv_cache_update(c), kv_cache_update(d))
<1>1. Alike(KShift(c), KShift(d))
  BY ShiftAlike
<1>2. KShift(d).do_defrag = KShift(c).do_defrag
  BY <1>1 DEF Alike
<1>3. Alike(kv_cache_defrag(KShift(c)), kv_cache_defrag(KShift(d)))
  BY <1>1, DefragAlike
<1>4. QED BY <1>1, <1>2, <1>3 DEF kv_cache_update, DefragIfAsked

(* Operations that change single fields.                                   *)
LEMMA FieldsAre ==
  ASSUME NEW c, CacheType(c), NEW h, NEW u
  PROVE  /\ [c EXCEPT !.head = h].n = c.n /\ [c EXCEPT !.head = h].do_defrag = c.do_defrag
         /\ [c EXCEPT !.head = h].head = h
         /\ Occupy(c, h, u).n = c.n /\ Occupy(c, h, u).do_defrag = c.do_defrag
         /\ WithPadding(c).n = Padded(c) /\ WithPadding(c).do_defrag = c.do_defrag
         /\ [c EXCEPT !.do_defrag = TRUE].n = c.n
         /\ [c EXCEPT !.do_defrag = TRUE].head = c.head
         /\ [c EXCEPT !.do_defrag = TRUE].do_defrag = TRUE
BY DEF CacheType, Occupy, WithPadding

LEMMA FinishAlike ==
  ASSUME NEW c, NEW d, Alike(c, d)
  PROVE  Alike(FinishDecode(c), FinishDecode(d))
<1> DEFINE Queue(b) == Thold >= 0 /\ b.n >= MinDefrag /\ (b.n - b.used) * 100 > Thold * b.n
           e == FinishDecode(c)
           g == FinishDecode(d)
<1>1. /\ GoodCache(c) /\ GoodCache(d) /\ Live(d) = Live(c)
      /\ d.head = c.head /\ d.used = c.used /\ d.n = c.n /\ d.do_defrag = c.do_defrag
  BY AlikeUsed DEF Alike
<1>2. Queue(c) <=> Queue(d)
  BY <1>1
<1>3. \A b : FinishDecode(b) = IF Queue(b) THEN [b EXCEPT !.do_defrag = TRUE] ELSE b
  BY DEF FinishDecode
<1> HIDE DEF Queue
<1>4. /\ GoodCache(e) /\ e.cells = c.cells /\ Live(e) = Live(c)
      /\ GoodCache(g) /\ g.cells = d.cells /\ Live(g) = Live(d)
  BY <1>1, FinishGood
<1>5. CacheType(c) /\ CacheType(d)
  BY <1>1 DEF GoodCache
<1>6. e.head = c.head /\ e.n = c.n /\ e.do_defrag = (IF Queue(c) THEN TRUE ELSE c.do_defrag)
  BY <1>3, <1>5, FieldsAre
<1>7. g.head = d.head /\ g.n = d.n /\ g.do_defrag = (IF Queue(d) THEN TRUE ELSE d.do_defrag)
  BY <1>3, <1>5, FieldsAre
<1> HIDE DEF e, g
<1>8. QED BY <1>1, <1>2, <1>4, <1>6, <1>7 DEF Alike, e, g

(* The tokens of a ubatch with the numbers of the other device.            *)
LoweredTokens(u, v) ==
  /\ Len(v) = Len(u)
  /\ \A k \in 1..Len(u) : v[k].pos = u[k].pos /\ v[k].seq = Lowered(u[k].seq)

LEMMA HeadAlike ==
  ASSUME NEW c, NEW d, Alike(c, d), NEW h \in 0..Size
  PROVE  Alike([c EXCEPT !.head = h], [d EXCEPT !.head = h])
<1> DEFINE e == [c EXCEPT !.head = h]
           g == [d EXCEPT !.head = h]
<1>1. GoodCache(c) /\ GoodCache(d) /\ CacheType(c) /\ CacheType(d)
  BY DEF Alike, GoodCache
<1>2. /\ GoodCache(e) /\ e.cells = c.cells /\ Live(e) = Live(c) /\ e.head = h
      /\ GoodCache(g) /\ g.cells = d.cells /\ Live(g) = Live(d) /\ g.head = h
  BY <1>1, HeadMoves
<1>3. /\ e.n = c.n /\ e.do_defrag = c.do_defrag
      /\ g.n = d.n /\ g.do_defrag = d.do_defrag
  BY <1>1, FieldsAre
<1> HIDE DEF e, g
<1>4. QED BY <1>2, <1>3 DEF Alike, e, g

LEMMA StartAlike ==
  ASSUME NEW c, NEW d, Alike(c, d), NEW n \in Nat
  PROVE  Alike(StartSearch(c, n), StartSearch(d, n))
<1>1. d.head = c.head /\ d.used = c.used
  BY AlikeUsed DEF Alike
<1>2. Alike([c EXCEPT !.head = 0], [d EXCEPT !.head = 0])
  <2>1. 0 \in 0..Size
    BY CellFacts
  <2>2. QED BY <2>1, HeadAlike
<1>3. QED BY <1>1, <1>2 DEF StartSearch

LEMMA PaddingAlike ==
  ASSUME NEW c, NEW d, Alike(c, d)
  PROVE  Alike(WithPadding(c), WithPadding(d))
<1> DEFINE e == WithPadding(c)
           g == WithPadding(d)
<1>1. GoodCache(c) /\ GoodCache(d) /\ CacheType(c) /\ CacheType(d)
  BY DEF Alike, GoodCache
<1>2. /\ GoodCache(e) /\ e.cells = c.cells /\ Live(e) = Live(c) /\ e.head = c.head
      /\ GoodCache(g) /\ g.cells = d.cells /\ Live(g) = Live(d) /\ g.head = d.head
  BY <1>1, PaddingGood
<1>3. /\ e.n = Padded(c) /\ e.do_defrag = c.do_defrag
      /\ g.n = Padded(d) /\ g.do_defrag = d.do_defrag
  BY <1>1, FieldsAre
<1>4. Padded(c) = Padded(d)
  BY DEF Alike, Padded, CellMax
<1> HIDE DEF e, g
<1>5. QED BY <1>2, <1>3, <1>4 DEF Alike, e, g

LEMMA OccupyAlike ==
  ASSUME NEW c, NEW d, Alike(c, d), NEW u \in Seq(Token) \ {<<>>},
         NEW v \in Seq(Token) \ {<<>>}, LoweredTokens(u, v),
         NEW h \in Nat, h + Len(u) <= Size, InUse(c, Len(u), h) = {}
  PROVE  Alike(Occupy(c, h, u), Occupy(d, h, v)) /\ Occupy(c, h, u).head = h
<1> DEFINE e == Occupy(c, h, u)
           g == Occupy(d, h, v)
           n == Len(u)
           N == h..h+n-1
<1>1. /\ GoodCache(c) /\ GoodCache(d) /\ CacheType(c) /\ CacheType(d)
      /\ Live(d) = Live(c) /\ Live(c) \subseteq Cell
      /\ d.head = c.head /\ d.do_defrag = c.do_defrag /\ d.n = c.n
  BY LiveFacts DEF Alike, GoodCache
<1>2. n \in Nat /\ Len(v) = n /\ Size \in Nat
  BY CellFacts DEF LoweredTokens
<1>3. InUse(d, Len(v), h) = {}
  <2>1. N \subseteq Cell
    BY <1>2 DEF Cell
  <2>2. \A x \in Cell : d.cells[x].pos >= 0 => c.cells[x].pos >= 0
    <3>1. \A x \in Cell : d.cells[x].pos >= 0 => x \in Live(d)
      BY <1>1 DEF GoodCache, Marks, Live
    <3>2. \A x \in Cell : x \in Live(c) => c.cells[x].pos >= 0
      BY <1>1 DEF GoodCache, Marks, Live
    <3>3. QED BY <1>1, <3>1, <3>2
  <2>3. QED BY <1>2, <2>1, <2>2 DEF InUse
<1>4. /\ GoodCache(e) /\ e.head = h /\ Live(e) = Live(c) \union N /\ Live(c) \cap N = {}
      /\ \A x \in Cell \ N : e.cells[x] = c.cells[x]
      /\ \A x \in N : e.cells[x].pos = u[x - h + 1].pos /\ e.cells[x].seq = u[x - h + 1].seq
  BY <1>1, OccupyGood
<1>5. /\ GoodCache(g) /\ g.head = h /\ Live(g) = Live(d) \union N
      /\ \A x \in Cell \ N : g.cells[x] = d.cells[x]
      /\ \A x \in N : g.cells[x].pos = v[x - h + 1].pos /\ g.cells[x].seq = v[x - h + 1].seq
  <2>1. /\ GoodCache(g) /\ g.head = h /\ Live(g) = Live(d) \union (h..h+Len(v)-1)
        /\ \A x \in Cell \ (h..h+Len(v)-1) : g.cells[x] = d.cells[x]
        /\ \A x \in h..h+Len(v)-1 : g.cells[x].pos = v[x - h + 1].pos /\ g.cells[x].seq = v[x - h + 1].seq
    <3>1. h + Len(v) <= Size
      BY <1>2
    <3>2. QED BY <1>1, <1>3, <3>1, OccupyGood
  <2>2. QED BY <1>2, <2>1
<1>6. /\ e.n = c.n /\ e.do_defrag = c.do_defrag
      /\ g.n = d.n /\ g.do_defrag = d.do_defrag
  BY <1>1, FieldsAre
<1> HIDE DEF e, g
<1>7. ASSUME NEW x \in Live(e)
      PROVE  g.cells[x].pos = e.cells[x].pos /\ g.cells[x].seq = Lowered(e.cells[x].seq)
  <2>1. CASE x \in N
    <3>1. x - h + 1 \in 1..Len(u)
      BY <1>2, <2>1
    <3> DEFINE k == x - h + 1
    <3>2. v[k].pos = u[k].pos /\ v[k].seq = Lowered(u[k].seq)
      BY <3>1 DEF LoweredTokens
    <3>3. QED BY <1>4, <1>5, <2>1, <3>2
  <2>2. CASE x \notin N
    <3> HIDE DEF N
    <3>1. x \in Live(c) /\ x \in Cell
      BY <1>1, <1>4, <2>2
    <3>2. e.cells[x] = c.cells[x] /\ g.cells[x] = d.cells[x]
      BY <1>4, <1>5, <2>2, <3>1
    <3>3. QED BY <3>1, <3>2 DEF Alike
  <2>3. QED BY <2>1, <2>2
<1>8. Live(g) = Live(e)
  BY <1>1, <1>4, <1>5
<1> HIDE DEF N, n
<1>9. QED BY <1>1, <1>4, <1>5, <1>6, <1>7, <1>8 DEF Alike, e, g

LEMMA PlaceAlike ==
  ASSUME NEW c, NEW d, Alike(c, d), NEW u \in Seq(Token) \ {<<>>},
         NEW v \in Seq(Token) \ {<<>>}, LoweredTokens(u, v)
  PROVE  /\ Place(d, v).ok = Place(c, u).ok
         /\ Alike(Place(c, u).cache, Place(d, v).cache)
<1> DEFINE n == Len(u)
           b == StartSearch(kv_cache_update(c), n)
           f == StartSearch(kv_cache_update(d), n)
           a == Search(b, n)
<1>1. n \in Nat \ {0} /\ Len(v) = n /\ Size \in Nat /\ 0 \in 0..Size
  <2>1. Len(u) \in Nat /\ Len(u) > 0
    OBVIOUS
  <2>2. QED BY <2>1, CellFacts DEF LoweredTokens
<1>2. Alike(b, f)
  BY <1>1, UpdateAlike, StartAlike
<1> HIDE DEF b, f
<1>3. b.head \in 0..Size /\ f.head = b.head
  BY <1>2, CacheIs DEF Alike, GoodCache
<1>4. Search(f, n) = a
  <2>1. \A x \in Cell : f.cells[x].pos >= 0 <=> b.cells[x].pos >= 0
    <3>1. \A x \in Cell : x \in Live(b) <=> x \in Live(f)
      BY <1>2 DEF Alike
    <3>2. QED BY <1>2, <3>1 DEF Alike, GoodCache, Marks, Live
  <2> HIDE DEF n
  <2>2. QED BY <1>1, <1>3, <2>1, SearchSame
<1>5. /\ a.found \in BOOLEAN /\ a.head \in 0..Size
      /\ a.found => a.head + n <= Size /\ InUse(b, n, a.head) = {}
  <2> HIDE DEF n
  <2>1. QED BY <1>1, <1>3, SearchFinds
<1>6. Place(c, u) = PlaceIn(b, a, u) /\ Place(d, v) = PlaceIn(f, a, v)
  BY <1>1, <1>4 DEF Place, PlaceFrom, b, f
<1> HIDE DEF a
<1>7. Place(c, u).ok = a.found /\ Place(d, v).ok = a.found
  BY <1>6 DEF PlaceIn
<1>8. CASE ~a.found
  <2>1. /\ Place(c, u).cache = [b EXCEPT !.head = a.head]
        /\ Place(d, v).cache = [f EXCEPT !.head = a.head]
    BY <1>6, <1>8 DEF PlaceIn
  <2>2. QED BY <1>2, <1>5, <1>7, <2>1, HeadAlike
<1>9. CASE a.found
  <2> DEFINE h == a.head
             o == Occupy(b, h, u)
             p == Occupy(f, h, v)
             g == IF h + n >= Size THEN 0 ELSE h + n
  <2>1. h \in Nat /\ h + n <= Size /\ InUse(b, n, h) = {}
    BY <1>1, <1>5, <1>9
  <2>2. /\ Place(c, u).cache = AdvanceHead(WithPadding(o), n)
        /\ Place(d, v).cache = AdvanceHead(WithPadding(p), n)
    BY <1>1, <1>6, <1>9 DEF PlaceIn
  <2> HIDE DEF h
  <2>3. Alike(o, p) /\ o.head = h
    BY <1>2, <2>1, OccupyAlike DEF n
  <2> HIDE DEF o, p
  <2>4. Alike(WithPadding(o), WithPadding(p))
    BY <2>3, PaddingAlike
  <2>5. WithPadding(o).head = h /\ WithPadding(p).head = h
    BY <2>3, <2>4, PaddingGood DEF Alike
  <2>6. g \in 0..Size
    BY <1>1, <2>1
  <2>7. /\ AdvanceHead(WithPadding(o), n) = [WithPadding(o) EXCEPT !.head = g]
        /\ AdvanceHead(WithPadding(p), n) = [WithPadding(p) EXCEPT !.head = g]
    BY <2>5 DEF AdvanceHead
  <2> HIDE DEF g
  <2>8. QED BY <1>7, <2>2, <2>4, <2>6, <2>7, HeadAlike
<1>10. QED BY <1>5, <1>8, <1>9

-----------------------------------------------------------------------------
(* What a sequence has in a cache: its cells and their positions.          *)
CellsWith(c, q) == {x \in Live(c) : q \in c.cells[x].seq}

PosOf(c, q) == {c.cells[x].pos : x \in CellsWith(c, q)}

(* No position is stored twice.                                            *)
Once(c, q) == \A x, y \in CellsWith(c, q) : c.cells[x].pos = c.cells[y].pos => x = y

(* Two sequences have no cell in common.                                   *)
Apart(c, q, r) == \A x \in CellsWith(c, q) : r \notin c.cells[x].seq

(* In d sequence q has what it has in c, wherever it is.                   *)
SameSeq(c, d, q) == PosOf(d, q) = PosOf(c, q) /\ (Once(c, q) => Once(d, q))

(* From c to d nothing was stored, removed or shifted.                     *)
SameSeqs(c, d) ==
  /\ \A q \in Nat : SameSeq(c, d, q)
  /\ \A q, r \in Nat : Apart(c, q, r) => Apart(d, q, r)

LEMMA PositionsAre ==
  ASSUME NEW c, GoodCache(c), NEW q
  PROVE  PosOf(c, q) \in SUBSET Nat
<1>1. ASSUME NEW x \in Live(c) PROVE c.cells[x].pos \in Nat
  <2>1. x \in Cell /\ c.cells[x].pos \in Int /\ c.cells[x].seq # {}
    BY CellIs, LiveFacts DEF GoodCache, Live
  <2>2. c.cells[x].pos >= 0
    BY <2>1 DEF GoodCache, Marks
  <2>3. QED BY <2>1, <2>2
<1>2. QED BY <1>1 DEF PosOf, CellsWith

LEMMA SameCellsSeqs ==
  ASSUME NEW c, NEW d, d.cells = c.cells, Live(d) = Live(c)
  PROVE  SameSeqs(c, d)
BY DEF SameSeqs, SameSeq, PosOf, Once, Apart, CellsWith

LEMMA SameSeqsTwice ==
  ASSUME NEW c, NEW d, NEW e, SameSeqs(c, d), SameSeqs(d, e)
  PROVE  SameSeqs(c, e)
BY DEF SameSeqs, SameSeq

LEMMA UpdateSeqs ==
  ASSUME NEW c, GoodCache(c)
  PROVE  SameSeqs(c, kv_cache_update(c))
<1> DEFINE e == kv_cache_update(c)
           m == NextMoves(c)
<1>1. UpdateDone(c, e, m)
  BY UpdateGood
<1> HIDE DEF e, m
<1>2. ASSUME NEW q PROVE \A x \in CellsWith(e, q) : From(m, x) \in CellsWith(c, q)
  BY <1>1 DEF UpdateDone, CellsWith
<1>3. ASSUME NEW q, NEW y \in CellsWith(c, q)
      PROVE  \E x \in CellsWith(e, q) : From(m, x) = y
  BY <1>1 DEF UpdateDone, CellsWith
<1>4. ASSUME NEW q PROVE \A x \in CellsWith(e, q) : /\ x \in Live(e)
                                                     /\ e.cells[x].pos = c.cells[From(m, x)].pos
                                                     /\ e.cells[x].seq = c.cells[From(m, x)].seq
  BY <1>1 DEF UpdateDone, CellsWith
<1>5. ASSUME NEW q PROVE PosOf(e, q) = PosOf(c, q)
  <2>1. PosOf(e, q) \subseteq PosOf(c, q)
    BY <1>2, <1>4 DEF PosOf
  <2>2. PosOf(c, q) \subseteq PosOf(e, q)
    BY <1>3, <1>4 DEF PosOf
  <2>3. QED BY <2>1, <2>2
<1>6. ASSUME NEW q, Once(c, q) PROVE Once(e, q)
  <2>1. ASSUME NEW x \in CellsWith(e, q), NEW y \in CellsWith(e, q),
               e.cells[x].pos = e.cells[y].pos
        PROVE  x = y
    <3>1. From(m, x) = From(m, y)
      BY <1>2, <1>4, <1>6, <2>1 DEF Once
    <3>2. QED BY <1>1, <1>4, <3>1 DEF UpdateDone
  <2>2. QED BY <2>1 DEF Once
<1>7. ASSUME NEW q, NEW r, Apart(c, q, r) PROVE Apart(e, q, r)
  BY <1>2, <1>4, <1>7 DEF Apart
<1>8. SameSeqs(c, e)
  BY <1>5, <1>6, <1>7 DEF SameSeqs, SameSeq
<1>9. QED BY <1>8 DEF e

(* The places in a ubatch of the tokens of a sequence.                     *)
TokensOf(u, q) == {k \in DOMAIN u : q \in u[k].seq}

PosIn(u, q) == {u[k].pos : k \in TokensOf(u, q)}

(* The tokens of q have different positions, and none that is stored.      *)
Fresh(c, u, q) ==
  /\ \A k, l \in TokensOf(u, q) : u[k].pos = u[l].pos => k = l
  /\ PosIn(u, q) \cap PosOf(c, q) = {}

(* From c to d the tokens of u were added: each sequence gets its          *)
(* positions, none of them twice, and no other shared cell comes up.       *)
Holds(c, d, u) ==
  /\ \A q \in Nat : PosOf(d, q) = PosOf(c, q) \union PosIn(u, q)
  /\ \A q \in Nat : Once(c, q) /\ Fresh(c, u, q) => Once(d, q)
  /\ \A q, r \in Nat :
       Apart(c, q, r) /\ (\A k \in TokensOf(u, q) : r \notin u[k].seq) => Apart(d, q, r)

LEMMA PlaceSeqs ==
  ASSUME NEW c, GoodCache(c), NEW u \in Seq(Token) \ {<<>>}
  PROVE  /\ ~Place(c, u).ok => SameSeqs(c, Place(c, u).cache)
         /\ Place(c, u).ok => Holds(c, Place(c, u).cache, u)
<1> DEFINE e == kv_cache_update(c)
           r == Place(c, u)
           d == r.cache
           h == r.slot
           n == Len(u)
           S == Slot(h, n)
<1>1. /\ r.ok => /\ h \in Nat /\ h + n <= Size
                 /\ Live(d) = Live(e) \union S
                 /\ Live(e) \cap S = {}
                 /\ \A x \in Live(e) : d.cells[x] = e.cells[x]
                 /\ \A x \in S :
                      d.cells[x].pos = u[x - h + 1].pos /\ d.cells[x].seq = u[x - h + 1].seq
      /\ ~r.ok => d.cells = e.cells /\ Live(d) = Live(e)
  BY PlaceGood
<1>2. SameSeqs(c, e)
  BY UpdateSeqs
<1>3. n \in Nat /\ DOMAIN u = 1..n
  OBVIOUS
<1> HIDE DEF e, r, n
<1>4. CASE ~r.ok
  <2>1. SameSeqs(e, d)
    BY <1>1, <1>4, SameCellsSeqs
  <2>2. SameSeqs(c, d)
    BY <1>2, <2>1, SameSeqsTwice
  <2>3. QED BY <1>4, <2>2 DEF r
<1>5. CASE r.ok
  <2>1. /\ h \in Nat /\ S = h..h+n-1
        /\ Live(d) = Live(e) \union S /\ Live(e) \cap S = {}
        /\ \A x \in Live(e) : d.cells[x] = e.cells[x]
        /\ \A x \in S :
             d.cells[x].pos = u[x - h + 1].pos /\ d.cells[x].seq = u[x - h + 1].seq
    BY <1>1, <1>5 DEF Slot
  <2>2. /\ \A x \in S : x - h + 1 \in DOMAIN u
        /\ \A x, y \in S : x - h + 1 = y - h + 1 => x = y
        /\ \A k \in DOMAIN u : h + k - 1 \in S /\ (h + k - 1) - h + 1 = k
    BY <1>3, <2>1
  <2> DEFINE P(x) == x - h + 1
  <2>3. /\ \A x \in S : /\ P(x) \in DOMAIN u
                        /\ d.cells[x].pos = u[P(x)].pos /\ d.cells[x].seq = u[P(x)].seq
        /\ \A x, y \in S : P(x) = P(y) => x = y
        /\ \A k \in DOMAIN u : \E x \in S : P(x) = k
    BY <2>1, <2>2
  <2> HIDE DEF S, P, h
  <2>4. ASSUME NEW q
        PROVE  /\ CellsWith(d, q) = CellsWith(e, q) \union {x \in S : P(x) \in TokensOf(u, q)}
               /\ CellsWith(e, q) \subseteq Live(e)
    <3>1. \A x \in Live(e) : x \in CellsWith(d, q) <=> x \in CellsWith(e, q)
      BY <2>1 DEF CellsWith
    <3>2. \A x \in S : x \in CellsWith(d, q) <=> P(x) \in TokensOf(u, q)
      BY <2>1, <2>3 DEF CellsWith, TokensOf
    <3>3. CellsWith(d, q) \subseteq Live(e) \union S /\ CellsWith(e, q) \subseteq Live(e)
      BY <2>1 DEF CellsWith
    <3>4. QED BY <3>1, <3>2, <3>3
  <2>5. ASSUME NEW q PROVE PosOf(d, q) = PosOf(e, q) \union PosIn(u, q)
    <3>1. ASSUME NEW p \in PosOf(d, q) PROVE p \in PosOf(e, q) \union PosIn(u, q)
      <4>1. PICK x \in CellsWith(d, q) : d.cells[x].pos = p
        BY DEF PosOf
      <4>2. CASE x \in CellsWith(e, q)
        BY <2>1, <2>4, <4>1, <4>2 DEF PosOf
      <4>3. CASE x \in S /\ P(x) \in TokensOf(u, q)
        BY <2>3, <4>1, <4>3 DEF PosIn
      <4>4. QED BY <2>4, <4>2, <4>3
    <3>2. ASSUME NEW p \in PosOf(e, q) PROVE p \in PosOf(d, q)
      <4>1. PICK x \in CellsWith(e, q) : e.cells[x].pos = p
        BY DEF PosOf
      <4>2. x \in CellsWith(d, q) /\ d.cells[x].pos = p
        BY <2>1, <2>4, <4>1
      <4>3. QED BY <4>2 DEF PosOf
    <3>3. ASSUME NEW p \in PosIn(u, q) PROVE p \in PosOf(d, q)
      <4>1. PICK k \in TokensOf(u, q) : u[k].pos = p
        BY DEF PosIn
      <4>2. PICK x \in S : P(x) = k
        BY <2>3 DEF TokensOf
      <4>3. x \in CellsWith(d, q) /\ d.cells[x].pos = p
        BY <2>3, <2>4, <4>1, <4>2
      <4>4. QED BY <4>3 DEF PosOf
    <3>4. QED BY <3>1, <3>2, <3>3
  <2>6. ASSUME NEW q, Once(e, q), Fresh(e, u, q) PROVE Once(d, q)
    <3> SUFFICES ASSUME NEW x \in CellsWith(d, q), NEW y \in CellsWith(d, q),
                        d.cells[x].pos = d.cells[y].pos
                 PROVE  x = y
      BY DEF Once
    <3>1. ASSUME NEW z \in CellsWith(e, q)
          PROVE  d.cells[z].pos = e.cells[z].pos /\ d.cells[z].pos \in PosOf(e, q)
      BY <2>1, <2>4 DEF PosOf
    <3>2. ASSUME NEW z \in S, P(z) \in TokensOf(u, q)
          PROVE  d.cells[z].pos = u[P(z)].pos /\ d.cells[z].pos \in PosIn(u, q)
      BY <2>3, <3>2 DEF PosIn
    <3>3. CASE x \in CellsWith(e, q) /\ y \in CellsWith(e, q)
      BY <2>6, <3>1, <3>3 DEF Once
    <3>4. CASE (x \in S /\ P(x) \in TokensOf(u, q)) /\ (y \in S /\ P(y) \in TokensOf(u, q))
      <4>1. P(x) = P(y)
        BY <2>6, <3>2, <3>4 DEF Fresh
      <4>2. QED BY <2>3, <3>4, <4>1
    <3>5. CASE x \in CellsWith(e, q) /\ (y \in S /\ P(y) \in TokensOf(u, q))
      BY <2>6, <3>1, <3>2, <3>5 DEF Fresh
    <3>6. CASE y \in CellsWith(e, q) /\ (x \in S /\ P(x) \in TokensOf(u, q))
      BY <2>6, <3>1, <3>2, <3>6 DEF Fresh
    <3>7. QED BY <2>4, <3>3, <3>4, <3>5, <3>6
  <2>7. ASSUME NEW q, NEW t, Apart(e, q, t), \A k \in TokensOf(u, q) : t \notin u[k].seq
        PROVE  Apart(d, q, t)
    <3>1. \A x \in CellsWith(e, q) : t \notin d.cells[x].seq
      BY <2>1, <2>4, <2>7 DEF Apart
    <3>2. \A x \in S : P(x) \in TokensOf(u, q) => t \notin d.cells[x].seq
      BY <2>3, <2>7
    <3>3. QED BY <2>4, <3>1, <3>2 DEF Apart
  <2>8. Holds(c, d, u)
    BY <1>2, <2>5, <2>6, <2>7 DEF Holds, SameSeqs, SameSeq, Fresh
  <2>9. QED BY <1>5, <2>8 DEF r
<1>6. QED BY <1>4, <1>5

LEMMA FinishSeqs ==
  ASSUME NEW c, GoodCache(c)
  PROVE  SameSeqs(c, FinishDecode(c))
BY FinishGood, SameCellsSeqs

LEMMA ClearSeqs ==
  ASSUME NEW c, GoodCache(c), NEW q
  PROVE  /\ PosOf(kv_cache_clear(c), q) = {} /\ Once(kv_cache_clear(c), q)
         /\ \A r : Apart(kv_cache_clear(c), q, r)
<1>1. Live(kv_cache_clear(c)) = {}
  BY ClearGood
<1>2. QED BY <1>1 DEF PosOf, Once, Apart, CellsWith

LEMMA RmSeqs ==
  ASSUME NEW c, GoodCache(c), NEW s \in Nat, NEW p0 \in Int, NEW p1 \in Int
  PROVE  LET d == kv_cache_seq_rm(c, s, p0, p1)
         IN  /\ PosOf(d, s) = {p \in PosOf(c, s) : ~InRange(p, p0, p1)}
             /\ Once(c, s) => Once(d, s)
             /\ \A q \in Nat \ {s} : SameSeq(c, d, q)
             /\ \A q, r \in Nat : Apart(c, q, r) => Apart(d, q, r)
<1> DEFINE d == kv_cache_seq_rm(c, s, p0, p1)
           rest(x) == IF ~InRange(c.cells[x].pos, p0, p1) THEN c.cells[x].seq
                      ELSE c.cells[x].seq \ {s}
<1>1. Live(d) \subseteq Live(c) /\ RmDone(c, d, s, p0, p1)
  BY RmGood DEF Tame
<1> HIDE DEF d
<1>2. ASSUME NEW x \in Live(c)
      PROVE  /\ x \in Live(d) <=> rest(x) # {}
             /\ x \in Live(d) => d.cells[x].seq = rest(x) /\ d.cells[x].pos = c.cells[x].pos
  <2>1. ~(s < 0)
    OBVIOUS
  <2>2. QED BY <1>1, <2>1 DEF RmDone
<1>3. ASSUME NEW q
      PROVE  /\ CellsWith(d, q) = {x \in CellsWith(c, q) : q # s \/ ~InRange(c.cells[x].pos, p0, p1)}
             /\ \A x \in CellsWith(d, q) : /\ d.cells[x].pos = c.cells[x].pos
                                           /\ d.cells[x].seq \subseteq c.cells[x].seq
  BY <1>1, <1>2 DEF CellsWith
<1>4. PosOf(d, s) = {p \in PosOf(c, s) : ~InRange(p, p0, p1)}
  BY <1>3 DEF PosOf
<1>5. ASSUME NEW q PROVE Once(c, q) => Once(d, q)
  BY <1>3 DEF Once
<1>6. ASSUME NEW q, q # s PROVE PosOf(d, q) = PosOf(c, q)
  BY <1>3, <1>6 DEF PosOf
<1>7. ASSUME NEW q, NEW r PROVE Apart(c, q, r) => Apart(d, q, r)
  BY <1>3 DEF Apart
<1>8. QED BY <1>4, <1>5, <1>6, <1>7 DEF SameSeq, d

(* The shift of a position by e, where it is in the range.                 *)
To(p, p0, p1, e) == IF InRange(p, p0, p1) THEN p + e ELSE p

LEMMA AddSeqs ==
  ASSUME NEW c, GoodCache(c), NEW s \in Nat, NEW p0 \in Int, NEW p1 \in Int, NEW e \in Int,
         \A p \in PosOf(c, s) : To(p, p0, p1, e) >= 0,
         \A p, q \in PosOf(c, s) : To(p, p0, p1, e) = To(q, p0, p1, e) => p = q
  PROVE  LET d == kv_cache_seq_add(c, s, p0, p1, e)
         IN  /\ PosOf(d, s) = {To(p, p0, p1, e) : p \in PosOf(c, s)}
             /\ Once(c, s) => Once(d, s)
             /\ \A q \in Nat : Apart(c, q, s) => SameSeq(c, d, q)
             /\ \A q, r \in Nat : Apart(c, q, r) => Apart(d, q, r)
<1> DEFINE d == kv_cache_seq_add(c, s, p0, p1, e)
           new(x) == IF s \in c.cells[x].seq THEN To(c.cells[x].pos, p0, p1, e) ELSE c.cells[x].pos
<1>1. Live(d) \subseteq Live(c) /\ AddDone(c, d, s, p0, p1, e)
  BY AddGood DEF Tame
<1> HIDE DEF d
<1>2. ASSUME NEW x \in Live(c) PROVE c.cells[x].pos >= 0 /\ new(x) >= 0
  <2>1. c.cells[x].pos >= 0
    BY LiveFacts DEF GoodCache, Marks, Live
  <2>2. s \in c.cells[x].seq => To(c.cells[x].pos, p0, p1, e) >= 0
    BY DEF PosOf, CellsWith
  <2>3. QED BY <2>1, <2>2
<1>3. ASSUME NEW x \in Live(c)
      PROVE  x \in Live(d) /\ d.cells[x].pos = new(x) /\ d.cells[x].seq = c.cells[x].seq
  BY <1>1, <1>2 DEF AddDone, To
<1>4. ASSUME NEW q
      PROVE  /\ CellsWith(d, q) = CellsWith(c, q)
             /\ \A x \in CellsWith(d, q) : /\ d.cells[x].pos = new(x)
                                           /\ d.cells[x].seq = c.cells[x].seq
  BY <1>1, <1>3 DEF CellsWith
<1>5. \A x \in CellsWith(c, s) : new(x) = To(c.cells[x].pos, p0, p1, e)
  BY DEF CellsWith
<1>6. ASSUME NEW q, Apart(c, q, s) PROVE \A x \in CellsWith(c, q) : new(x) = c.cells[x].pos
  BY <1>6 DEF Apart
<1> HIDE DEF new
<1>7. PosOf(d, s) = {To(p, p0, p1, e) : p \in PosOf(c, s)}
  BY <1>4, <1>5 DEF PosOf
<1>8. Once(c, s) => Once(d, s)
  BY <1>4, <1>5 DEF Once, PosOf
<1>9. ASSUME NEW q, Apart(c, q, s) PROVE SameSeq(c, d, q)
  BY <1>4, <1>6, <1>9 DEF SameSeq, PosOf, Once
<1>10. ASSUME NEW q, NEW r PROVE Apart(c, q, r) => Apart(d, q, r)
  BY <1>4 DEF Apart
<1>11. QED BY <1>7, <1>8, <1>9, <1>10 DEF d

LEMMA NoPositions ==
  ASSUME NEW c, NEW q, PosOf(c, q) = {}
  PROVE  CellsWith(c, q) = {} /\ Once(c, q) /\ \A r : Apart(c, q, r)
<1>1. CellsWith(c, q) = {}
  BY DEF PosOf
<1>2. QED BY <1>1 DEF Once, Apart

(* All that sequence 0 has goes to sequence t as well.                     *)
LEMMA CpSeqs ==
  ASSUME NEW c, GoodCache(c), NEW t \in Nat \ {0}
  PROVE  LET d == kv_cache_seq_cp(c, 0, t, -1, -1)
         IN  /\ PosOf(d, t) = PosOf(c, t) \union PosOf(c, 0)
             /\ \A q \in Nat \ {t} : SameSeq(c, d, q)
             /\ PosOf(c, t) = {} /\ Once(c, 0) => Once(d, t)
<1> DEFINE d == kv_cache_seq_cp(c, 0, t, -1, -1)
<1>1. Live(d) \subseteq Live(c) /\ CpDone(c, d, 0, t, -1, -1)
  BY CpGood DEF Tame
<1> HIDE DEF d
<1>2. ASSUME NEW x \in Live(c)
      PROVE  /\ x \in Live(d) /\ d.cells[x].pos = c.cells[x].pos
             /\ d.cells[x].seq = IF 0 \in c.cells[x].seq THEN c.cells[x].seq \union {t}
                                 ELSE c.cells[x].seq
  <2>1. x \in Cell /\ c.cells[x].pos \in Int /\ c.cells[x].seq # {}
    BY CellIs, LiveFacts DEF GoodCache, Live
  <2>2. InRange(c.cells[x].pos, -1, -1)
    BY <2>1 DEF GoodCache, Marks, InRange
  <2>3. QED BY <1>1, <2>2 DEF CpDone
<1>3. ASSUME NEW q
      PROVE  /\ CellsWith(d, q) = IF q = t THEN CellsWith(c, q) \union CellsWith(c, 0)
                                  ELSE CellsWith(c, q)
             /\ \A x \in CellsWith(d, q) : d.cells[x].pos = c.cells[x].pos
  <2>1. CellsWith(d, q) \subseteq Live(c) /\ CellsWith(c, q) \subseteq Live(c)
        /\ CellsWith(c, 0) \subseteq Live(c)
    BY <1>1 DEF CellsWith
  <2>2. ASSUME NEW x \in Live(c)
        PROVE  x \in CellsWith(d, q) <=>
                 (x \in CellsWith(c, q) \/ (q = t /\ x \in CellsWith(c, 0)))
    BY <1>2 DEF CellsWith
  <2>3. QED BY <1>2, <2>1, <2>2
<1>4. PosOf(d, t) = PosOf(c, t) \union PosOf(c, 0)
  BY <1>3 DEF PosOf
<1>5. ASSUME NEW q, q # t PROVE SameSeq(c, d, q)
  BY <1>3, <1>5 DEF SameSeq, PosOf, Once
<1>6. ASSUME PosOf(c, t) = {}, Once(c, 0) PROVE Once(d, t)
  <2>1. CellsWith(c, t) = {}
    BY <1>6, NoPositions
  <2>2. CellsWith(d, t) = CellsWith(c, 0)
    BY <1>3, <2>1
  <2>3. QED BY <1>3, <1>6, <2>2 DEF Once
<1>7. QED BY <1>4, <1>5, <1>6 DEF d

=============================================================================
