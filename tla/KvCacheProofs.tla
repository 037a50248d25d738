---------------------------- MODULE KvCacheProofs ----------------------------
(***************************************************************************)
(* The KV cache of any size keeps its count, its two marks of a free cell  *)
(* and its rows consistent through any calls, and llama_decode reports a   *)
(* full cache only when it is.                                             *)
(***************************************************************************)
EXTENDS KvCache, KvProofs

TodoType == todo \in Seq(Seq(Token) \ {<<>>})

(* The keys are rotated to the positions, up to the pending shift.         *)
KeysAreAt == \A i \in Live(cache) : /\ row[i].rot \in Int
                                    /\ row[i].rot + cache.cells[i].delta = cache.cells[i].pos

RowType == row \in [Cell -> [id : Ids \union {NoId}, rot : Int]]

KvInv == TodoType /\ RowType /\ GoodCache(cache) /\ KeysAreAt /\ RowsAreDistinct

LEMMA RowFacts ==
  ASSUME RowType, NEW i \in Cell
  PROVE  /\ row[i] \in [id : Ids \union {NoId}, rot : Int]
         /\ row[i].id \in Ids \union {NoId} /\ row[i].rot \in Int
BY DEF RowType

LEMMA RequestGood ==
  ASSUME NEW c, GoodCache(c)
  PROVE  LET d == [c EXCEPT !.do_defrag = TRUE] IN GoodCache(d) /\ Tame(c, d)
<1> DEFINE d == [c EXCEPT !.do_defrag = TRUE]
<1>1. CacheType(c) /\ Marks(c) /\ Counted(c) /\ Pending(c)
  BY DEF GoodCache
<1>2. CacheType(d) /\ Is(d, c.head, c.used, c.has_shift, TRUE, c.n, c.cells)
  BY <1>1 DEF CacheType, Is
<1> HIDE DEF d
<1>3. Live(d) = Live(c)
  BY <1>2 DEF Live, Is
<1>4. Marks(d) /\ Counted(d) /\ Pending(d) /\ Tame(c, d)
  BY <1>1, <1>2, <1>3 DEF Marks, Counted, Pending, Tame, Is
<1>5. QED BY <1>2, <1>4 DEF GoodCache, d

LEMMA KvInit == Init => KvInv
<1> SUFFICES ASSUME Init PROVE KvInv
  OBVIOUS
<1>1. GoodCache(cache) /\ Live(cache) = {}
  BY InitGood DEF Init, Live, InitCache, EmptyCell
<1>2. TodoType
  BY DEF Init, TodoType
<1>3. RowType
  BY DEF Init, RowType, NoRow
<1>4. QED BY <1>1, <1>2, <1>3 DEF KvInv, KeysAreAt, RowsAreDistinct

(* A call that only frees or shifts cells.                                 *)
LEMMA CallKeeps ==
  ASSUME KvInv, NEW d, GoodCache(d), Tame(cache, d), Call(d)
  PROVE  KvInv'
<1>1. cache' = d /\ row' = RowsOf(d, row) /\ todo' = todo
  BY DEF Call
<1>2. Live(d) \subseteq Live(cache) /\ Live(d) \subseteq Cell
  BY LiveFacts DEF Tame
<1>3. TodoType' /\ GoodCache(cache')
  BY <1>1 DEF KvInv, TodoType
<1>4. RowType'
  BY <1>1 DEF KvInv, RowType, RowsOf, NoRow
<1>5. \A i \in Live(d) : row'[i] = row[i]
  BY <1>1, <1>2 DEF RowsOf
<1>6. KeysAreAt'
  <2>1. ASSUME NEW i \in Live(d)
        PROVE  row'[i].rot \in Int /\ row'[i].rot + d.cells[i].delta = d.cells[i].pos
    <3>1. i \in Cell /\ i \in Live(cache)
      BY <1>2
    <3>2. /\ cache.cells[i].pos \in Int /\ cache.cells[i].delta \in Int
          /\ d.cells[i].pos \in Int /\ d.cells[i].delta \in Int
      BY <3>1, CellIs DEF KvInv, GoodCache
    <3>3. d.cells[i].pos - d.cells[i].delta = cache.cells[i].pos - cache.cells[i].delta
      BY DEF Tame
    <3>4. row[i].rot \in Int /\ row[i].rot + cache.cells[i].delta = cache.cells[i].pos
      BY <3>1 DEF KvInv, KeysAreAt
    <3>5. QED BY <1>5, <3>2, <3>3, <3>4
  <2>2. QED BY <1>1, <2>1 DEF KeysAreAt
<1>7. RowsAreDistinct'
  BY <1>1, <1>2, <1>5 DEF KvInv, RowsAreDistinct
<1>8. QED BY <1>3, <1>4, <1>6, <1>7 DEF KvInv

(* The rows after llama_kv_cache_update: every key at its position.        *)
LEMMA UpdatedRowsAre ==
  ASSUME KvInv
  PROVE  LET e == kv_cache_update(cache)
         IN  /\ UpdatedRows \in [Cell -> [id : Ids \union {NoId}, rot : Int]]
             /\ \A i \in Live(e) :
                  /\ UpdatedRows[i].rot = e.cells[i].pos
                  /\ UpdatedRows[i].id = row[From(NextMoves(cache), i)].id
             /\ \A i, j \in Live(e) : i # j => UpdatedRows[i].id # UpdatedRows[j].id
<1> DEFINE e == kv_cache_update(cache)
           m == NextMoves(cache)
           t == Turned
<1>1. GoodCache(e) /\ UpdateDone(cache, e, m) /\ Live(e) \subseteq Cell
  BY UpdateGood, LiveFacts DEF KvInv
<1>2. CacheType(cache) /\ Pending(cache) /\ RowType /\ Live(cache) \subseteq Cell
  BY LiveFacts DEF KvInv, GoodCache
<1>3. ASSUME NEW i \in Cell
      PROVE  /\ t[i] \in [id : Ids \union {NoId}, rot : Int] /\ t[i].id = row[i].id
             /\ i \in Live(cache) => t[i].rot = cache.cells[i].pos
  <2>1. row[i] \in [id : Ids \union {NoId}, rot : Int]
    BY <1>2, RowFacts
  <2>2. cache.cells[i].delta \in Int /\ cache.cells[i].pos \in Int
    BY <1>2, CellIs
  <2>3. CASE i \in Live(cache) /\ cache.has_shift
    <3> DEFINE p == row[i].rot + cache.cells[i].delta
    <3>1. t[i] = [row[i] EXCEPT !.rot = p]
      BY <2>3 DEF Turned
    <3>2. p \in Int
      BY <2>1, <2>2
    <3>3. p = cache.cells[i].pos
      BY <2>3 DEF KvInv, KeysAreAt
    <3> HIDE DEF p, t
    <3>4. QED BY <2>1, <3>1, <3>2, <3>3
  <2>4. CASE ~(i \in Live(cache) /\ cache.has_shift)
    <3>1. t[i] = row[i]
      BY <2>4 DEF Turned
    <3>2. ASSUME i \in Live(cache) PROVE row[i].rot = cache.cells[i].pos
      <4>1. cache.cells[i].delta = 0
        BY <1>2, <2>4, <3>2 DEF Pending
      <4>2. row[i].rot \in Int /\ row[i].rot + cache.cells[i].delta = cache.cells[i].pos
        BY <3>2 DEF KvInv, KeysAreAt
      <4>3. QED BY <4>1, <4>2
    <3> HIDE DEF t
    <3>3. QED BY <2>1, <3>1, <3>2
  <2>5. QED BY <2>3, <2>4
<1>4. ASSUME NEW i \in Cell
      PROVE  UpdatedRows[i] = IF i \in Live(e) THEN t[From(m, i)] ELSE NoRow
  BY DEF UpdatedRows, RowsOf, Relocated, From, NextMoves
<1> HIDE DEF t, e, m
<1>5. \A i \in Live(e) : From(m, i) \in Live(cache) /\ From(m, i) \in Cell
  BY <1>1, <1>2 DEF UpdateDone
<1>6. UpdatedRows \in [Cell -> [id : Ids \union {NoId}, rot : Int]]
  <2>1. NoRow \in [id : Ids \union {NoId}, rot : Int]
    BY DEF NoRow
  <2>2. \A i \in Cell : UpdatedRows[i] \in [id : Ids \union {NoId}, rot : Int]
    BY <1>3, <1>4, <1>5, <2>1
  <2>3. UpdatedRows = [i \in Cell |-> UpdatedRows[i]]
    BY DEF UpdatedRows, RowsOf
  <2> HIDE DEF UpdatedRows
  <2>4. QED BY <2>2, <2>3
<1>7. \A i \in Live(e) : /\ UpdatedRows[i].rot = e.cells[i].pos
                         /\ UpdatedRows[i].id = row[From(m, i)].id
  BY <1>1, <1>3, <1>4, <1>5 DEF UpdateDone
<1>8. ASSUME NEW i \in Live(e), NEW j \in Live(e), i # j
      PROVE  UpdatedRows[i].id # UpdatedRows[j].id
  <2>1. From(m, i) # From(m, j)
    BY <1>1, <1>8 DEF UpdateDone
  <2>2. row[From(m, i)].id # row[From(m, j)].id
    BY <1>5, <2>1 DEF KvInv, RowsAreDistinct
  <2>3. i \in Cell /\ j \in Cell
    BY <1>1
  <2>4. QED BY <1>3, <1>4, <1>5, <2>2, <2>3
<1>9. QED BY <1>6, <1>7, <1>8 DEF e, m

(* A stored ubatch has rows of its own, rotated to its positions.          *)
LEMMA StoresKeeps ==
  ASSUME KvInv, NEW u \in Seq(Token) \ {<<>>}, todo # <<>>,
         Place(cache, u).ok, Stores(u, Place(cache, u), UpdatedRows)
  PROVE  KvInv' /\ ret' = 0
<1> DEFINE e == kv_cache_update(cache)
           p == Place(cache, u)
           h == p.slot
           n == Len(u)
           N == Slot(h, n)
           d == cache'
           R == UpdatedRows
<1>1. /\ GoodCache(p.cache) /\ NoDelta(p.cache)
      /\ h \in Nat /\ h + n <= Size
      /\ Live(p.cache) = Live(e) \union N
      /\ Live(e) \cap N = {}
      /\ \A i \in Live(e) : p.cache.cells[i] = e.cells[i]
      /\ \A i \in N : p.cache.cells[i].pos = u[i - h + 1].pos
  BY PlaceGood DEF KvInv
<1>2. GoodCache(d) /\ d.cells = p.cache.cells /\ Live(d) = Live(p.cache)
  BY <1>1, FinishGood DEF Stores
<1>3. /\ R \in [Cell -> [id : Ids \union {NoId}, rot : Int]]
      /\ \A i \in Live(e) : R[i].rot = e.cells[i].pos
      /\ \A i, j \in Live(e) : i # j => R[i].id # R[j].id
  BY UpdatedRowsAre
<1>4. PICK f \in FreshIds(R, u) :
        row' = [i \in Cell |-> IF i \in h..h+n-1
                               THEN [id |-> f[i - h + 1], rot |-> u[i - h + 1].pos]
                               ELSE R[i]]
  BY DEF Stores
<1>5. n \in Nat /\ DOMAIN u = 1..n
  OBVIOUS
<1>6. Live(e) \subseteq Cell /\ N \subseteq Cell
  BY <1>1, LiveFacts
<1>7. /\ todo' = Tail(todo) /\ ret' = 0
  BY DEF Stores
<1> HIDE DEF e, p, h, R, d
<1>8. \A i \in N : i \in Nat /\ i - h + 1 \in 1..n
  BY <1>1, <1>5 DEF Slot
<1>9. f \in [1..n -> Ids \ {R[i].id : i \in Cell}] /\ IsInjective(f)
  BY <1>4, <1>5 DEF FreshIds
<1> HIDE DEF n, N
<1>10. \A i \in N : u[i - h + 1].pos \in Int
  <2>1. \A x \in 1..n : u[x] \in Token
    BY <1>5
  <2>2. \A t \in Token : t.pos \in Int
    BY DEF Token
  <2>3. QED BY <1>8, <2>1, <2>2
<1>11. \A i \in N : f[i - h + 1] \in Ids /\ \A j \in Cell : f[i - h + 1] # R[j].id
  BY <1>8, <1>9
<1> DEFINE W == [i \in N |-> [id |-> f[i - h + 1], rot |-> u[i - h + 1].pos]]
<1>13. \A i \in N : row'[i] = W[i]
  BY <1>4, <1>6 DEF N, Slot
<1>14. \A i \in Cell \ N : row'[i] = R[i]
  BY <1>4 DEF N, Slot
<1>15. ASSUME NEW i \in N
       PROVE  /\ W[i] \in [id : Ids \union {NoId}, rot : Int]
              /\ W[i].rot = p.cache.cells[i].pos
              /\ \A j \in Cell : W[i].id # R[j].id
              /\ \A j \in N : i # j => W[i].id # W[j].id
  <2> DEFINE x == f[i - h + 1]
             y == u[i - h + 1].pos
  <2>1. W[i] = [id |-> x, rot |-> y]
    OBVIOUS
  <2>2. ASSUME NEW j \in N, i # j PROVE W[i].id # W[j].id
    <3> DEFINE z == f[j - h + 1]
    <3>1. i - h + 1 # j - h + 1 /\ i - h + 1 \in 1..n /\ j - h + 1 \in 1..n
      BY <1>1, <1>8, <2>2
    <3>2. x # z
      BY <1>9, <3>1 DEF IsInjective
    <3>3. W[j].id = z /\ W[i].id = x
      OBVIOUS
    <3> HIDE DEF W, x, z
    <3>4. QED BY <3>2, <3>3
  <2>3. /\ x \in Ids \union {NoId} /\ y \in Int /\ y = p.cache.cells[i].pos
        /\ \A j \in Cell : x # R[j].id
    BY <1>1, <1>10, <1>11 DEF N
  <2> HIDE DEF W, x, y
  <2>4. W[i].id = x /\ W[i].rot = y /\ W[i] \in [id : Ids \union {NoId}, rot : Int]
    BY <2>1, <2>3
  <2>5. QED BY <2>2, <2>3, <2>4
<1> HIDE DEF W
<1>16. RowType'
  <2>1. ASSUME NEW i \in Cell PROVE row'[i] \in [id : Ids \union {NoId}, rot : Int]
    <3>1. CASE i \in N
      BY <1>13, <1>15, <3>1
    <3>2. CASE i \notin N
      BY <1>3, <1>14, <3>2
    <3>3. QED BY <3>1, <3>2
  <2>2. row' = [i \in Cell |-> row'[i]]
    BY <1>4
  <2>3. QED BY <2>1, <2>2 DEF RowType
<1>17. KeysAreAt'
  <2>1. ASSUME NEW i \in Live(d)
        PROVE  row'[i].rot \in Int /\ row'[i].rot + d.cells[i].delta = d.cells[i].pos
    <3>1. i \in Live(e) \union N /\ i \in Cell
      BY <1>1, <1>2, <1>6
    <3>2. d.cells[i].delta = 0 /\ d.cells[i].pos \in Int
      BY <1>1, <1>2, <3>1, CellIs DEF NoDelta, GoodCache
    <3>3. row'[i].rot = d.cells[i].pos
      <4>1. CASE i \in N
        BY <1>2, <1>13, <1>15, <4>1
      <4>2. CASE i \notin N
        BY <1>1, <1>2, <1>3, <1>14, <3>1, <4>2
      <4>3. QED BY <4>1, <4>2
    <3>4. QED BY <3>2, <3>3
  <2>2. QED BY <2>1 DEF KeysAreAt, d
<1>18. RowsAreDistinct'
  <2>1. ASSUME NEW i \in Live(d), NEW j \in Live(d), i # j PROVE row'[i].id # row'[j].id
    <3>1. i \in Live(e) \union N /\ j \in Live(e) \union N /\ i \in Cell /\ j \in Cell
      BY <1>1, <1>2, <1>6
    <3>2. CASE i \in N /\ j \in N
      BY <1>13, <1>15, <2>1, <3>2
    <3>3. CASE i \in N /\ j \notin N
      BY <1>13, <1>14, <1>15, <3>1, <3>3
    <3>4. CASE i \notin N /\ j \in N
      BY <1>13, <1>14, <1>15, <3>1, <3>4
    <3>5. CASE i \notin N /\ j \notin N
      BY <1>3, <1>14, <2>1, <3>1, <3>5
    <3>6. QED BY <3>2, <3>3, <3>4, <3>5
  <2>2. QED BY <2>1 DEF RowsAreDistinct, d
<1>19. TodoType'
  BY <1>7 DEF KvInv, TodoType
<1>20. QED BY <1>2, <1>7, <1>16, <1>17, <1>18, <1>19 DEF KvInv, d

LEMMA NoSlotKeeps ==
  ASSUME KvInv, NEW u \in Seq(Token) \ {<<>>},
         NoSlot(Place(cache, u), UpdatedRows)
  PROVE  /\ KvInv'
         /\ \A s \in 0..Size-Len(u) : InUse(cache', Len(u), s) # {}
<1> DEFINE e == kv_cache_update(cache)
           p == Place(cache, u)
           R == UpdatedRows
<1>1. cache' = p.cache /\ row' = R /\ todo' = <<>> /\ ~p.ok
  BY DEF NoSlot
<1>2. /\ GoodCache(p.cache) /\ NoDelta(p.cache)
      /\ p.cache.cells = e.cells /\ Live(p.cache) = Live(e)
      /\ \A s \in 0..Size-Len(u) : InUse(p.cache, Len(u), s) # {}
  BY <1>1, PlaceGood DEF KvInv
<1>3. /\ R \in [Cell -> [id : Ids \union {NoId}, rot : Int]]
      /\ \A i \in Live(e) : R[i].rot = e.cells[i].pos
      /\ \A i, j \in Live(e) : i # j => R[i].id # R[j].id
  BY UpdatedRowsAre
<1> HIDE DEF e, p, R
<1>4. KeysAreAt'
  <2>1. ASSUME NEW i \in Live(cache')
        PROVE  /\ row'[i].rot \in Int
               /\ row'[i].rot + cache'.cells[i].delta = cache'.cells[i].pos
    <3>1. i \in Live(e) /\ i \in Cell
      BY <1>1, <1>2, LiveFacts
    <3>2. cache'.cells[i].delta = 0 /\ cache'.cells[i].pos \in Int
      BY <1>1, <1>2, <3>1, CellIs DEF NoDelta, GoodCache
    <3>3. row'[i].rot = cache'.cells[i].pos
      BY <1>1, <1>2, <1>3, <3>1
    <3>4. QED BY <3>2, <3>3
  <2>2. QED BY <2>1 DEF KeysAreAt
<1>5. RowsAreDistinct'
  BY <1>1, <1>2, <1>3 DEF RowsAreDistinct
<1>6. RowType' /\ TodoType' /\ GoodCache(cache')
  BY <1>1, <1>2, <1>3 DEF RowType, TodoType
<1>7. QED BY <1>1, <1>2, <1>4, <1>5, <1>6 DEF KvInv

LEMMA HeadIsUbatch ==
  ASSUME TodoType, todo # <<>>
  PROVE  Head(todo) \in Seq(Token) \ {<<>>}
BY DEF TodoType

LEMMA KvStep == ASSUME KvInv, [Next]_vars PROVE KvInv'
<1>1. GoodCache(cache) /\ TodoType
  BY DEF KvInv
<1>0. SeqIds \subseteq Nat /\ MaxPos \in Nat
  BY CallsAssumption
<1>2. \A r \in Ranges : r[1] \in Int /\ r[2] \in Int
  BY CallsAssumption
<1>3. CASE Clear
  BY <1>1, <1>3, ClearGood, CallKeeps DEF Clear
<1>4. ASSUME NEW s \in SeqIds \union {-1}, NEW r \in Ranges, SeqRm(s, r[1], r[2])
      PROVE  KvInv'
  <2>1. s \in Int
    BY <1>0
  <2>2. QED BY <1>1, <1>2, <1>4, <2>1, RmGood, CallKeeps DEF SeqRm
<1>5. ASSUME NEW src \in SeqIds, NEW dst \in SeqIds, NEW r \in Ranges,
             SeqCp(src, dst, r[1], r[2])
      PROVE  KvInv'
  BY <1>0, <1>1, <1>2, <1>5, CpGood, CallKeeps DEF SeqCp
<1>6. ASSUME NEW s \in SeqIds, SeqKeep(s) PROVE KvInv'
  BY <1>0, <1>1, <1>6, KeepGood, CallKeeps DEF SeqKeep
<1>7. ASSUME NEW s \in SeqIds, NEW r \in Ranges, NEW x \in -MaxPos..MaxPos,
             SeqAdd(s, r[1], r[2], x)
      PROVE  KvInv'
  BY <1>0, <1>1, <1>2, <1>7, AddGood, CallKeeps DEF SeqAdd
<1>8. ASSUME NEW s \in SeqIds, NEW r \in Ranges, NEW x \in 2..MaxPos+1,
             SeqDiv(s, r[1], r[2], x)
      PROVE  KvInv'
  BY <1>0, <1>1, <1>2, <1>8, DivGood, CallKeeps DEF SeqDiv
<1>9. CASE Defrag
  BY <1>1, <1>9, RequestGood, CallKeeps DEF Defrag
<1>10. ASSUME NEW b \in Batches, Decode(b) PROVE KvInv'
  <2>1. b \in Seq(Seq(Token) \ {<<>>})
    BY CallsAssumption DEF Token
  <2>2. QED BY <1>10, <2>1 DEF Decode, KvInv, TodoType, RowType, KeysAreAt, RowsAreDistinct
<1>11. CASE Ubatch
  <2>1. todo # <<>> /\ Head(todo) \in Seq(Token) \ {<<>>}
    BY <1>1, <1>11, HeadIsUbatch DEF Ubatch
  <2>2. CASE Stores(Head(todo), Place(cache, Head(todo)), UpdatedRows)
    <3>1. Place(cache, Head(todo)).ok
      BY <2>2 DEF Stores
    <3>2. QED BY <2>1, <2>2, <3>1, StoresKeeps
  <2>3. CASE NoSlot(Place(cache, Head(todo)), UpdatedRows)
    BY <2>1, <2>3, NoSlotKeeps
  <2>4. QED BY <1>11, <2>2, <2>3 DEF Ubatch, Turn
<1>12. CASE UNCHANGED vars
  BY <1>12 DEF vars, KvInv, TodoType, RowType, KeysAreAt, RowsAreDistinct
<1>13. QED BY <1>3, <1>4, <1>5, <1>6, <1>7, <1>8, <1>9, <1>10, <1>11, <1>12 DEF Next

LEMMA KvCorrect == Spec => []KvInv
BY KvInit, KvStep, PTL DEF Spec

(* The count of cells in use is exact, the marks of a free cell agree, and *)
(* a defragmentation always finds cells for its holes.                     *)
THEOREM UsedIsAccurateTheorem == Spec => []UsedIsAccurate
<1>1. ASSUME KvInv PROVE UsedIsAccurate
  <2>1. CacheType(cache) /\ Marks(cache) /\ Counted(cache)
    BY <1>1 DEF KvInv, GoodCache
  <2>2. ~DefragAborts(cache)
    BY <2>1, EnoughMovable DEF DefragAborts
  <2>3. \A i \in Cell : (cache.cells[i].pos >= 0) = (i \in Live(cache))
    BY <2>1 DEF Marks, Live
  <2>4. QED BY <2>1, <2>2, <2>3 DEF UsedIsAccurate, Counted
<1>2. QED BY <1>1, KvCorrect, PTL

(* Each stored key is rotated to its token's position, up to the shift     *)
(* that is still pending.                                                  *)
THEOREM KeysFollowPositionsTheorem == Spec => []KeysFollowPositions
<1>1. ASSUME KvInv PROVE KeysFollowPositions
  <2>1. Pending(cache) /\ KeysAreAt /\ Live(cache) \subseteq Cell
    BY <1>1, LiveFacts DEF KvInv, GoodCache
  <2>2. QED BY <2>1 DEF KeysFollowPositions, KeysAreAt, Pending
<1>2. QED BY <1>1, KvCorrect, PTL

(* No cell's keys and values are overwritten or lost by another's.         *)
THEOREM RowsAreDistinctTheorem == Spec => []RowsAreDistinct
BY KvCorrect, PTL DEF KvInv

(* A decode that reports a full cache leaves no run of free cells that is  *)
(* long enough, wherever its search began.                                 *)
THEOREM FailsOnlyWithoutRoomTheorem == Spec => FailsOnlyWithoutRoom
<1> DEFINE Fails == /\ todo # <<>> /\ ret' = 1
           Full  == LET n == Len(Head(todo))
                    IN  \A h \in 0..Size-n : \E i \in h..h+n-1 : cache'.cells[i].pos >= 0
<1>1. ASSUME KvInv, Next PROVE Fails => Full
  <2>1. SUFFICES ASSUME Fails PROVE Full
    OBVIOUS
  <2>2. Ubatch
    BY <1>1, <2>1 DEF Next, Clear, SeqRm, SeqCp, SeqKeep, SeqAdd, SeqDiv, Defrag, Call, Decode
  <2>3. todo # <<>> /\ Head(todo) \in Seq(Token) \ {<<>>}
    BY <1>1, <2>1, HeadIsUbatch DEF KvInv
  <2>4. NoSlot(Place(cache, Head(todo)), UpdatedRows)
    BY <2>1, <2>2 DEF Ubatch, Turn, Stores
  <2>5. \A s \in 0..Size-Len(Head(todo)) : InUse(cache', Len(Head(todo)), s) # {}
    BY <1>1, <2>3, <2>4, NoSlotKeeps
  <2>6. QED BY <2>5 DEF InUse
<1>2. ASSUME KvInv, [Next]_vars PROVE [Fails => Full]_vars
  BY <1>1, <1>2
<1>3. QED BY <1>2, KvCorrect, PTL DEF Spec, FailsOnlyWithoutRoom

-----------------------------------------------------------------------------
(* The cache implements TokenStore: to its callers it is a set of tokens.  *)

TokenAt(c, i) == [id |-> row[i].id, pos |-> c.cells[i].pos, seq |-> c.cells[i].seq]

LEMMA StoredIs == Stored = {TokenAt(cache, i) : i \in Live(cache)}
BY DEF Stored, TokenAt

LEMMA CallStores ==
  ASSUME KvInv, NEW d, Tame(cache, d), Call(d)
  PROVE  Stored' = {TokenAt(d, i) : i \in Live(d)}
<1>1. cache' = d /\ row' = RowsOf(d, row)
  BY DEF Call
<1>2. Live(d) \subseteq Cell
  BY LiveFacts
<1>3. \A i \in Live(d) : row'[i] = row[i]
  BY <1>1, <1>2 DEF RowsOf
<1>4. Stored' = {[id |-> row'[i].id, pos |-> d.cells[i].pos, seq |-> d.cells[i].seq]
                   : i \in Live(d)}
  BY <1>1 DEF Stored
<1>5. QED BY <1>3, <1>4 DEF TokenAt

LEMMA TokenFacts ==
  ASSUME KvInv, NEW i \in Live(cache), NEW p0 \in Int, NEW p1 \in Int
  PROVE  LET t == TokenAt(cache, i)
         IN  /\ t.id = row[i].id /\ t.pos = cache.cells[i].pos /\ t.seq = cache.cells[i].seq
             /\ t.pos \in Int /\ t.pos >= 0
             /\ Store!In(t, p0, p1) <=> InRange(cache.cells[i].pos, p0, p1)
<1>1. i \in Cell /\ cache.cells[i].seq # {} /\ CacheType(cache) /\ Marks(cache)
  BY DEF Live, KvInv, GoodCache
<1>2. cache.cells[i].pos \in Int /\ cache.cells[i].pos >= 0
  BY <1>1, CellIs DEF Marks
<1>3. QED BY <1>2 DEF TokenAt, Store!In, InRange

LEMMA TokenFields ==
  ASSUME NEW a, NEW b, NEW q, NEW x
  PROVE  LET t == [id |-> a, pos |-> b, seq |-> q]
         IN  /\ [t EXCEPT !.seq = x] = [id |-> a, pos |-> b, seq |-> x]
             /\ [t EXCEPT !.pos = x] = [id |-> a, pos |-> x, seq |-> q]
OBVIOUS

LEMMA RmStores ==
  ASSUME KvInv, NEW s \in Int, NEW p0 \in Int, NEW p1 \in Int, SeqRm(s, p0, p1)
  PROVE  Store!Remove(s, p0, p1)
<1> DEFINE d == kv_cache_seq_rm(cache, s, p0, p1)
           rest(t) == IF ~Store!In(t, p0, p1) THEN t.seq
                      ELSE IF s < 0 THEN {} ELSE t.seq \ {s}
           RHS == {[t EXCEPT !.seq = rest(t)] : t \in {x \in Stored : rest(x) # {}}}
<1>1. RmDone(cache, d, s, p0, p1) /\ Tame(cache, d) /\ Call(d) /\ Live(d) \subseteq Live(cache)
  BY RmGood DEF KvInv, SeqRm, Tame
<1> HIDE DEF d
<1>2. Stored' = {TokenAt(d, i) : i \in Live(d)}
  BY <1>1, CallStores
<1>3. ASSUME NEW i \in Live(cache)
      PROVE  /\ i \in Live(d) <=> rest(TokenAt(cache, i)) # {}
             /\ i \in Live(d) => TokenAt(d, i) = [TokenAt(cache, i) EXCEPT !.seq = rest(TokenAt(cache, i))]
  <2> DEFINE t == TokenAt(cache, i)
             q == rest(t)
  <2>1. /\ t.id = row[i].id /\ t.pos = cache.cells[i].pos /\ t.seq = cache.cells[i].seq
        /\ Store!In(t, p0, p1) <=> InRange(cache.cells[i].pos, p0, p1)
    BY TokenFacts
  <2>2. /\ i \in Live(d) <=> q # {}
        /\ i \in Live(d) => d.cells[i].seq = q /\ d.cells[i].pos = cache.cells[i].pos
    BY <1>1, <2>1 DEF RmDone
  <2> HIDE DEF q
  <2>3. [t EXCEPT !.seq = q]
           = [id |-> row[i].id, pos |-> cache.cells[i].pos, seq |-> q]
    BY TokenFields DEF TokenAt
  <2>4. QED BY <2>2, <2>3 DEF TokenAt, q
<1>4. Stored' = RHS
  <2>1. Stored = {TokenAt(cache, i) : i \in Live(cache)}
    BY StoredIs
  <2>2. ASSUME NEW i \in Live(d) PROVE TokenAt(d, i) \in RHS
    BY <1>1, <1>3, <2>1
  <2>3. ASSUME NEW t \in Stored, rest(t) # {}
        PROVE  [t EXCEPT !.seq = rest(t)] \in {TokenAt(d, i) : i \in Live(d)}
    <3>1. PICK i \in Live(cache) : t = TokenAt(cache, i)
      BY <2>1
    <3>2. QED BY <1>3, <2>3, <3>1
  <2>4. QED BY <1>2, <2>2, <2>3
<1>5. QED BY <1>4 DEF Store!Remove

LEMMA CpStores ==
  ASSUME KvInv, NEW s \in Nat, NEW dst \in Nat, NEW p0 \in Int, NEW p1 \in Int,
         SeqCp(s, dst, p0, p1)
  PROVE  Store!Copy(s, dst, p0, p1)
<1> DEFINE d == kv_cache_seq_cp(cache, s, dst, p0, p1)
           copy(t) == IF s \in t.seq /\ Store!In(t, p0, p1)
                      THEN [t EXCEPT !.seq = t.seq \union {dst}] ELSE t
<1>1. /\ CpDone(cache, d, s, dst, p0, p1) /\ Tame(cache, d) /\ Call(d)
      /\ Live(d) = Live(cache)
  <2>1. GoodCache(cache) /\ Call(d)
    BY DEF KvInv, SeqCp
  <2>2. CpDone(cache, d, s, dst, p0, p1) /\ Tame(cache, d)
    BY <2>1, CpGood
  <2> HIDE DEF d
  <2>3. Live(d) = Live(cache)
    BY <2>2 DEF Tame, CpDone
  <2>4. QED BY <2>1, <2>2, <2>3
<1> HIDE DEF d
<1>2. Stored' = {TokenAt(d, i) : i \in Live(d)} /\ Stored = {TokenAt(cache, i) : i \in Live(cache)}
  BY <1>1, CallStores, StoredIs
<1>3. ASSUME NEW i \in Live(cache) PROVE TokenAt(d, i) = copy(TokenAt(cache, i))
  <2> DEFINE t == TokenAt(cache, i)
             q == t.seq \union {dst}
  <2>1. /\ t.pos = cache.cells[i].pos /\ t.seq = cache.cells[i].seq
        /\ Store!In(t, p0, p1) <=> InRange(cache.cells[i].pos, p0, p1)
    BY TokenFacts
  <2>2. /\ d.cells[i].pos = cache.cells[i].pos
        /\ d.cells[i].seq = IF s \in t.seq /\ Store!In(t, p0, p1) THEN q ELSE t.seq
    BY <1>1, <2>1 DEF CpDone
  <2>3. copy(t) = IF s \in t.seq /\ Store!In(t, p0, p1) THEN [t EXCEPT !.seq = q] ELSE t
    OBVIOUS
  <2> HIDE DEF q
  <2>4. [t EXCEPT !.seq = q]
           = [id |-> row[i].id, pos |-> cache.cells[i].pos, seq |-> q]
    BY TokenFields DEF TokenAt
  <2>5. CASE s \in t.seq /\ Store!In(t, p0, p1)
    BY <2>2, <2>3, <2>4, <2>5 DEF TokenAt
  <2>6. CASE ~(s \in t.seq /\ Store!In(t, p0, p1))
    <3>1. d.cells[i].seq = cache.cells[i].seq
      BY <2>1, <2>2, <2>6
    <3>2. QED BY <2>2, <2>3, <2>6, <3>1 DEF TokenAt
  <2>7. QED BY <2>5, <2>6
<1>4. Stored' = {copy(t) : t \in Stored}
  BY <1>1, <1>2, <1>3
<1>5. QED BY <1>4 DEF Store!Copy

LEMMA KeepStores ==
  ASSUME KvInv, NEW s \in Nat, SeqKeep(s)
  PROVE  Store!Keep(s)
<1> DEFINE d == kv_cache_seq_keep(cache, s)
           RHS == {[t EXCEPT !.seq = {s}] : t \in {x \in Stored : s \in x.seq}}
<1>1. KeepDone(cache, d, s) /\ Tame(cache, d) /\ Call(d) /\ Live(d) \subseteq Live(cache)
  BY KeepGood DEF KvInv, SeqKeep, Tame
<1> HIDE DEF d
<1>2. Stored' = {TokenAt(d, i) : i \in Live(d)} /\ Stored = {TokenAt(cache, i) : i \in Live(cache)}
  BY <1>1, CallStores, StoredIs
<1>3. ASSUME NEW i \in Live(cache)
      PROVE  /\ i \in Live(d) <=> s \in TokenAt(cache, i).seq
             /\ i \in Live(d) => TokenAt(d, i) = [TokenAt(cache, i) EXCEPT !.seq = {s}]
  <2>1. [TokenAt(cache, i) EXCEPT !.seq = {s}]
           = [id |-> row[i].id, pos |-> cache.cells[i].pos, seq |-> {s}]
    BY TokenFields DEF TokenAt
  <2>2. TokenAt(cache, i).seq = cache.cells[i].seq
    BY DEF TokenAt
  <2>3. QED BY <1>1, <2>1, <2>2 DEF KeepDone, TokenAt
<1>4. Stored' = RHS
  <2>1. ASSUME NEW i \in Live(d) PROVE TokenAt(d, i) \in RHS
    BY <1>1, <1>2, <1>3
  <2>2. ASSUME NEW t \in Stored, s \in t.seq
        PROVE  [t EXCEPT !.seq = {s}] \in {TokenAt(d, i) : i \in Live(d)}
    <3>1. PICK i \in Live(cache) : t = TokenAt(cache, i)
      BY <1>2
    <3>2. QED BY <1>3, <2>2, <3>1
  <2>3. QED BY <1>2, <2>1, <2>2
<1>5. QED BY <1>4 DEF Store!Keep

LEMMA AddStores ==
  ASSUME KvInv, NEW s \in Nat, NEW p0 \in Int, NEW p1 \in Int, NEW e \in Int,
         SeqAdd(s, p0, p1, e)
  PROVE  Store!Shift(s, p0, p1, e)
<1> DEFINE d == kv_cache_seq_add(cache, s, p0, p1, e)
           moved(t) == IF s \in t.seq /\ Store!In(t, p0, p1) THEN t.pos + e ELSE t.pos
           RHS == {[t EXCEPT !.pos = moved(t)] : t \in {x \in Stored : moved(x) >= 0}}
<1>1. /\ AddDone(cache, d, s, p0, p1, e) /\ Tame(cache, d) /\ Call(d)
      /\ Live(d) \subseteq Live(cache)
  BY AddGood DEF KvInv, SeqAdd, Tame
<1> HIDE DEF d
<1>2. Stored' = {TokenAt(d, i) : i \in Live(d)} /\ Stored = {TokenAt(cache, i) : i \in Live(cache)}
  BY <1>1, CallStores, StoredIs
<1>3. ASSUME NEW i \in Live(cache)
      PROVE  /\ i \in Live(d) <=> moved(TokenAt(cache, i)) >= 0
             /\ i \in Live(d) =>
                  TokenAt(d, i) = [TokenAt(cache, i) EXCEPT !.pos = moved(TokenAt(cache, i))]
  <2> DEFINE t == TokenAt(cache, i)
             x == moved(t)
  <2>1. /\ t.pos = cache.cells[i].pos /\ t.seq = cache.cells[i].seq
        /\ Store!In(t, p0, p1) <=> InRange(cache.cells[i].pos, p0, p1)
    BY TokenFacts
  <2>2. /\ i \in Live(d) <=> x >= 0
        /\ i \in Live(d) => d.cells[i].pos = x /\ d.cells[i].seq = cache.cells[i].seq
    BY <1>1, <2>1 DEF AddDone
  <2> HIDE DEF x
  <2>3. [t EXCEPT !.pos = x]
           = [id |-> row[i].id, pos |-> x, seq |-> cache.cells[i].seq]
    BY TokenFields DEF TokenAt
  <2>4. QED BY <2>2, <2>3 DEF TokenAt, x
<1>4. Stored' = RHS
  <2>1. ASSUME NEW i \in Live(d) PROVE TokenAt(d, i) \in RHS
    BY <1>1, <1>2, <1>3
  <2>2. ASSUME NEW t \in Stored, moved(t) >= 0
        PROVE  [t EXCEPT !.pos = moved(t)] \in {TokenAt(d, i) : i \in Live(d)}
    <3>1. PICK i \in Live(cache) : t = TokenAt(cache, i)
      BY <1>2
    <3>2. QED BY <1>3, <2>2, <3>1
  <2>3. QED BY <1>2, <2>1, <2>2
<1>5. QED BY <1>4 DEF Store!Shift

LEMMA DivStores ==
  ASSUME KvInv, NEW s \in Nat, NEW p0 \in Int, NEW p1 \in Int, NEW e \in Nat, e > 1,
         SeqDiv(s, p0, p1, e)
  PROVE  Store!Divide(s, p0, p1, e)
<1> DEFINE d == kv_cache_seq_div(cache, s, p0, p1, e)
           div(t) == IF s \in t.seq /\ Store!In(t, p0, p1)
                     THEN [t EXCEPT !.pos = t.pos \div e] ELSE t
<1>1. /\ DivDone(cache, d, s, p0, p1, e) /\ Tame(cache, d) /\ Call(d)
      /\ Live(d) = Live(cache)
  <2>1. e > 0 /\ e # 1
    OBVIOUS
  <2>2. QED BY <2>1, DivGood DEF KvInv, SeqDiv, Tame, DivDone
<1> HIDE DEF d
<1>2. Stored' = {TokenAt(d, i) : i \in Live(d)} /\ Stored = {TokenAt(cache, i) : i \in Live(cache)}
  BY <1>1, CallStores, StoredIs
<1>3. ASSUME NEW i \in Live(cache) PROVE TokenAt(d, i) = div(TokenAt(cache, i))
  <2> DEFINE t == TokenAt(cache, i)
             x == t.pos \div e
  <2>1. /\ t.pos = cache.cells[i].pos /\ t.seq = cache.cells[i].seq
        /\ Store!In(t, p0, p1) <=> InRange(cache.cells[i].pos, p0, p1)
    BY TokenFacts
  <2>2. /\ d.cells[i].seq = cache.cells[i].seq
        /\ d.cells[i].pos = IF s \in t.seq /\ Store!In(t, p0, p1) THEN x ELSE t.pos
    BY <1>1, <2>1 DEF DivDone
  <2>3. div(t) = IF s \in t.seq /\ Store!In(t, p0, p1) THEN [t EXCEPT !.pos = x] ELSE t
    OBVIOUS
  <2> HIDE DEF x
  <2>4. [t EXCEPT !.pos = x]
           = [id |-> row[i].id, pos |-> x, seq |-> cache.cells[i].seq]
    BY TokenFields DEF TokenAt
  <2>5. CASE s \in t.seq /\ Store!In(t, p0, p1)
    BY <2>2, <2>3, <2>4, <2>5 DEF TokenAt
  <2>6. CASE ~(s \in t.seq /\ Store!In(t, p0, p1))
    <3>1. d.cells[i].pos = cache.cells[i].pos
      BY <2>1, <2>2, <2>6
    <3>2. QED BY <2>2, <2>3, <2>6, <3>1 DEF TokenAt
  <2>7. QED BY <2>5, <2>6
<1>4. Stored' = {div(t) : t \in Stored}
  BY <1>1, <1>2, <1>3
<1>5. QED BY <1>4 DEF Store!Divide

LEMMA ClearStores == ASSUME KvInv, Clear PROVE Store!Clear
<1> DEFINE d == kv_cache_clear(cache)
<1>1. Tame(cache, d) /\ Call(d) /\ Live(d) = {}
  BY ClearGood DEF KvInv, Clear
<1> HIDE DEF d
<1>2. Stored' = {TokenAt(d, i) : i \in Live(d)}
  BY <1>1, CallStores
<1>3. QED BY <1>1, <1>2 DEF Store!Clear

LEMMA DefragStores == ASSUME KvInv, Defrag PROVE Stored' = Stored
<1> DEFINE d == [cache EXCEPT !.do_defrag = TRUE]
<1>1. Tame(cache, d) /\ Call(d)
  BY RequestGood DEF KvInv, Defrag
<1>2. d.cells = cache.cells
  BY DEF KvInv, GoodCache, CacheType
<1> HIDE DEF d
<1>3. Stored' = {TokenAt(d, i) : i \in Live(d)}
  BY <1>1, CallStores
<1>4. QED BY <1>2, <1>3, StoredIs DEF TokenAt, Live

(* The update is invisible.                                                *)
TokenIn(e, r, i) == [id |-> r[i].id, pos |-> e.cells[i].pos, seq |-> e.cells[i].seq]

LEMMA UpdateStores ==
  ASSUME KvInv
  PROVE  LET e == kv_cache_update(cache)
         IN  Stored = {TokenIn(e, UpdatedRows, i) : i \in Live(e)}
<1> DEFINE e == kv_cache_update(cache)
           m == NextMoves(cache)
           R == UpdatedRows
<1>1. UpdateDone(cache, e, m)
  BY UpdateGood DEF KvInv
<1>2. \A i \in Live(e) : R[i].id = row[From(m, i)].id
  BY UpdatedRowsAre
<1> HIDE DEF e, m, R
<1>3. \A i \in Live(e) : /\ From(m, i) \in Live(cache)
                         /\ TokenIn(e, R, i) = TokenAt(cache, From(m, i))
  BY <1>1, <1>2 DEF UpdateDone, TokenIn, TokenAt
<1>4. \A j \in Live(cache) : \E i \in Live(e) : From(m, i) = j
  BY <1>1 DEF UpdateDone
<1>5. Stored = {TokenAt(cache, i) : i \in Live(cache)}
  BY StoredIs
<1>6. QED BY <1>3, <1>4, <1>5 DEF e, R

LEMMA NoSlotStores ==
  ASSUME KvInv, NEW u \in Seq(Token) \ {<<>>}, NoSlot(Place(cache, u), UpdatedRows)
  PROVE  Stored' = Stored
<1> DEFINE e == kv_cache_update(cache)
           p == Place(cache, u)
<1>1. cache' = p.cache /\ row' = UpdatedRows /\ ~p.ok
  BY DEF NoSlot
<1>2. p.cache.cells = e.cells /\ Live(p.cache) = Live(e)
  BY <1>1, PlaceGood DEF KvInv
<1>3. Stored' = {TokenIn(cache', row', i) : i \in Live(cache')}
  BY DEF Stored, TokenIn
<1>4. QED BY <1>1, <1>2, <1>3, UpdateStores DEF TokenIn

LEMMA UbatchStores ==
  ASSUME KvInv, NEW u \in Seq(Token) \ {<<>>},
         Place(cache, u).ok, Stores(u, Place(cache, u), UpdatedRows)
  PROVE  Store!Add(u)
<1> DEFINE e == kv_cache_update(cache)
           p == Place(cache, u)
           h == p.slot
           n == Len(u)
           N == Slot(h, n)
           d == cache'
           R == UpdatedRows
<1>1. /\ GoodCache(p.cache) /\ h \in Nat /\ h + n <= Size
      /\ Live(p.cache) = Live(e) \union N
      /\ Live(e) \cap N = {}
      /\ \A i \in Live(e) : p.cache.cells[i] = e.cells[i]
      /\ \A i \in N : /\ p.cache.cells[i].pos = u[i - h + 1].pos
                      /\ p.cache.cells[i].seq = u[i - h + 1].seq
  BY PlaceGood DEF KvInv
<1>2. d.cells = p.cache.cells /\ Live(d) = Live(p.cache)
  BY <1>1, FinishGood DEF Stores
<1>3. PICK f \in FreshIds(R, u) :
        row' = [i \in Cell |-> IF i \in h..h+n-1
                               THEN [id |-> f[i - h + 1], rot |-> u[i - h + 1].pos]
                               ELSE R[i]]
  BY DEF Stores
<1>4. n \in Nat /\ DOMAIN u = 1..n
  OBVIOUS
<1>5. Live(e) \subseteq Cell /\ N \subseteq Cell
  BY <1>1, LiveFacts
<1>6. Stored = {TokenIn(e, R, i) : i \in Live(e)}
  BY UpdateStores
<1>7. Stored' = {TokenIn(d, row', i) : i \in Live(d)}
  BY DEF Stored, TokenIn
<1> HIDE DEF e, p, h, R, d
<1>8. \A i \in N : i - h + 1 \in 1..n
  BY <1>1, <1>4 DEF Slot
<1>9. \A x \in 1..n : x + h - 1 \in N /\ (x + h - 1) - h + 1 = x
  BY <1>1, <1>4 DEF Slot
<1> DEFINE new(x) == [id |-> f[x], pos |-> u[x].pos, seq |-> u[x].seq]
<1>10. \A i \in Live(e) : i \in Live(d) /\ TokenIn(d, row', i) = TokenIn(e, R, i)
  <2>1. ASSUME NEW i \in Live(e) PROVE i \in Live(d) /\ TokenIn(d, row', i) = TokenIn(e, R, i)
    <3>1. i \in Live(d) /\ i \notin N /\ d.cells[i] = e.cells[i] /\ i \in Cell
      BY <1>1, <1>2, <1>5
    <3>2. row'[i] = R[i]
      BY <1>3, <3>1 DEF N, Slot
    <3>3. QED BY <3>1, <3>2 DEF TokenIn
  <2>2. QED BY <2>1
<1>11. \A i \in N : i \in Live(d) /\ TokenIn(d, row', i) = new(i - h + 1)
  <2>1. ASSUME NEW i \in N PROVE i \in Live(d) /\ TokenIn(d, row', i) = new(i - h + 1)
    <3>1. /\ i \in Live(d) /\ i \in Cell
          /\ d.cells[i].pos = u[i - h + 1].pos /\ d.cells[i].seq = u[i - h + 1].seq
      BY <1>1, <1>2, <1>5
    <3>2. row'[i] = [id |-> f[i - h + 1], rot |-> u[i - h + 1].pos]
      BY <1>3, <3>1 DEF N, Slot
    <3>3. row'[i].id = f[i - h + 1]
      BY <3>2
    <3>4. QED BY <3>1, <3>3 DEF TokenIn
  <2>2. QED BY <2>1
<1>12. Live(d) = Live(e) \union N
  BY <1>1, <1>2
<1>13. f \in [1..n -> Ids \ {R[i].id : i \in Cell}] /\ IsInjective(f)
  BY <1>3, <1>4 DEF FreshIds
<1> HIDE DEF n, N, new
<1>14. Stored' = Stored \union {new(x) : x \in 1..n}
  <2>1. \A i \in Live(d) : TokenIn(d, row', i) \in Stored \union {new(x) : x \in 1..n}
    BY <1>6, <1>8, <1>10, <1>11, <1>12
  <2>2. \A t \in Stored : t \in Stored'
    BY <1>6, <1>7, <1>10
  <2>3. \A x \in 1..n : new(x) \in Stored'
    <3>1. ASSUME NEW x \in 1..n PROVE new(x) \in Stored'
      <4>1. x + h - 1 \in N /\ (x + h - 1) - h + 1 = x
        BY <1>9
      <4>2. x + h - 1 \in Live(d) /\ TokenIn(d, row', x + h - 1) = new(x)
        BY <1>11, <4>1
      <4>3. QED BY <1>7, <4>2
    <3>2. QED BY <3>1
  <2>4. QED BY <1>7, <2>1, <2>2, <2>3
<1>15. {t.id : t \in Stored} \subseteq {R[i].id : i \in Cell}
  BY <1>5, <1>6 DEF TokenIn
<1>16. f \in [1..n -> Ids \ {t.id : t \in Stored}]
  <2>1. \A x \in 1..n : f[x] \in Ids /\ f[x] \notin {t.id : t \in Stored}
    BY <1>13, <1>15
  <2>2. f = [x \in 1..n |-> f[x]]
    BY <1>13
  <2>3. QED BY <2>1, <2>2
<1>17. \A x, y \in 1..n : x # y => f[x] # f[y]
  BY <1>13 DEF IsInjective
<1>18. Stored' = Stored \union {[id |-> f[x], pos |-> u[x].pos, seq |-> u[x].seq] : x \in 1..n}
  BY <1>14 DEF new
<1>19. QED BY <1>4, <1>16, <1>17, <1>18 DEF Store!Add, n

-----------------------------------------------------------------------------
(* What is decoded was in a batch.                                         *)
TodoComes == \A k \in DOMAIN todo : todo[k] \in UbatchesOf

LEMMA TodoInit == Init => TodoComes
BY DEF Init, TodoComes

LEMMA TodoStep == ASSUME KvInv, TodoComes, [Next]_vars PROVE TodoComes'
<1>1. todo \in Seq(Seq(Token) \ {<<>>})
  BY DEF KvInv, TodoType
<1>2. CASE todo' = todo \/ todo' = <<>>
  BY <1>2 DEF TodoComes
<1>3. ASSUME NEW b \in Batches, Decode(b) PROVE TodoComes'
  BY <1>3 DEF Decode, TodoComes, UbatchesOf
<1>4. CASE todo # <<>> /\ todo' = Tail(todo)
  <2>1. \A k \in DOMAIN Tail(todo) : k + 1 \in DOMAIN todo /\ Tail(todo)[k] = todo[k + 1]
    BY <1>1, <1>4
  <2>2. QED BY <1>4, <2>1 DEF TodoComes
<1>5. \/ todo' = todo \/ todo' = <<>> \/ (todo # <<>> /\ todo' = Tail(todo))
      \/ \E b \in Batches : Decode(b)
  BY DEF Next, Clear, SeqRm, SeqCp, SeqKeep, SeqAdd, SeqDiv, Defrag, Call, Ubatch, Turn,
         Stores, NoSlot, vars
<1>6. QED BY <1>2, <1>3, <1>4, <1>5

LEMMA StoreInit == Init => Store!Init
<1> SUFFICES ASSUME Init PROVE Store!Init
  OBVIOUS
<1>1. Live(cache) = {}
  BY DEF Init, Live, InitCache, EmptyCell
<1>2. QED BY <1>1 DEF Store!Init, Stored

LEMMA StoreStep ==
  ASSUME KvInv, TodoComes, [Next]_vars
  PROVE  [Store!Next]_Stored
<1>1. SeqIds \subseteq Nat /\ MaxPos \in Nat /\ \A r \in Ranges : r[1] \in Int /\ r[2] \in Int
  BY CallsAssumption
<1>2. CASE Clear
  BY <1>2, ClearStores DEF Store!Next
<1>3. ASSUME NEW s \in SeqIds \union {-1}, NEW r \in Ranges, SeqRm(s, r[1], r[2])
      PROVE  Store!Next
  <2>1. s \in Int
    BY <1>1
  <2>2. Store!Remove(s, r[1], r[2])
    BY <1>1, <1>3, <2>1, RmStores
  <2>3. QED BY <2>2 DEF Store!Next
<1>4. ASSUME NEW s \in SeqIds, NEW dst \in SeqIds, NEW r \in Ranges, SeqCp(s, dst, r[1], r[2])
      PROVE  Store!Next
  <2>1. Store!Copy(s, dst, r[1], r[2])
    BY <1>1, <1>4, CpStores
  <2>2. QED BY <2>1 DEF Store!Next
<1>5. ASSUME NEW s \in SeqIds, SeqKeep(s) PROVE Store!Next
  <2>1. Store!Keep(s)
    BY <1>1, <1>5, KeepStores
  <2>2. QED BY <2>1 DEF Store!Next
<1>6. ASSUME NEW s \in SeqIds, NEW r \in Ranges, NEW x \in -MaxPos..MaxPos,
             SeqAdd(s, r[1], r[2], x)
      PROVE  Store!Next
  <2>1. x \in Int /\ s \in Nat
    BY <1>1
  <2>2. Store!Shift(s, r[1], r[2], x)
    BY <1>1, <1>6, <2>1, AddStores
  <2>3. QED BY <2>2 DEF Store!Next
<1>7. ASSUME NEW s \in SeqIds, NEW r \in Ranges, NEW x \in 2..MaxPos+1,
             SeqDiv(s, r[1], r[2], x)
      PROVE  Store!Next
  <2>1. x \in Nat /\ x > 1
    BY <1>1
  <2>2. Store!Divide(s, r[1], r[2], x)
    BY <1>1, <1>7, <2>1, DivStores
  <2>3. QED BY <2>2 DEF Store!Next
<1>8. CASE Defrag
  BY <1>8, DefragStores
<1>9. ASSUME NEW b \in Batches, Decode(b) PROVE Stored' = Stored
  BY <1>9 DEF Decode, Stored
<1>10. CASE Ubatch
  <2>1. TodoType /\ todo # <<>>
    BY <1>10 DEF KvInv, Ubatch
  <2>2. Head(todo) \in Seq(Token) \ {<<>>}
    BY <2>1, HeadIsUbatch
  <2>3. Head(todo) \in UbatchesOf
    <3>1. 1 \in DOMAIN todo /\ Head(todo) = todo[1]
      BY <2>1 DEF TodoType
    <3>2. QED BY <3>1 DEF TodoComes
  <2>4. CASE Stores(Head(todo), Place(cache, Head(todo)), UpdatedRows)
    <3>1. Place(cache, Head(todo)).ok
      BY <2>4 DEF Stores
    <3>2. Store!Add(Head(todo))
      BY <2>2, <2>4, <3>1, UbatchStores
    <3>3. QED BY <2>3, <3>2 DEF Store!Next
  <2>5. CASE NoSlot(Place(cache, Head(todo)), UpdatedRows)
    BY <2>2, <2>5, NoSlotStores
  <2>6. QED BY <1>10, <2>4, <2>5 DEF Ubatch, Turn
<1>11. CASE UNCHANGED vars
  BY <1>11 DEF vars, Stored
<1>12. QED
  BY <1>2, <1>3, <1>4, <1>5, <1>6, <1>7, <1>8, <1>9, <1>10, <1>11 DEF Next

(* To its callers the cache of src/llama.cpp is a set of tokens: slots,    *)
(* pending shifts, defragmentation and failed searches change nothing in   *)
(* what is stored, and every operation does to each token what it says.    *)
THEOREM StoresTokensTheorem == Spec => StoresTokens
<1>1. Spec => [](KvInv /\ TodoComes)
  <2>1. Init => KvInv /\ TodoComes
    BY KvInit, TodoInit
  <2>2. KvInv /\ TodoComes /\ [Next]_vars => (KvInv /\ TodoComes)'
    BY KvStep, TodoStep
  <2>3. QED BY <2>1, <2>2, PTL DEF Spec
<1>2. Init => Store!Init
  BY StoreInit
<1>3. KvInv /\ TodoComes /\ [Next]_vars => [Store!Next]_Stored
  BY StoreStep
<1>4. QED BY <1>1, <1>2, <1>3, PTL DEF Spec, StoresTokens, Store!Spec

=============================================================================
