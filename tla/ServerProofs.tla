---------------------------- MODULE ServerProofs ----------------------------
(***************************************************************************)
(* The batches of the server and the slots that share them, for a cache,   *)
(* slots, prompts and batches of any size.                                 *)
(*                                                                         *)
(* First the loop that decodes a batch by itself: it gives the batch up    *)
(* only when every cell of the KV cache is in use, and it stores nothing   *)
(* twice where a piece is one ubatch.                                      *)
(*                                                                         *)
(* Then the slots.  Good states what update_slots keeps true of the record *)
(* it works on, in the middle of a batch as well; the lemmas follow it     *)
(* through context shifts, sampled tokens, prompts, pieces and the system  *)
(* prompt.  SlotsInv states the same of the variables between two calls.   *)
(* Three conclusions need different cases: AgreeCase, StrayCase, WholeCase.*)
(***************************************************************************)
EXTENDS BatchRetry, ServerSlots, KvProofs

Full(c) == \A x \in Cell : c.cells[x].pos >= 0

(* A piece of a single token is a single ubatch of that token.             *)
RetryInv ==
  /\ phase \in {"before", "loop", "decode", "done", "failed"}
  /\ i \in Nat /\ n_batch \in Nat /\ n_batch > 0
  /\ GoodCache(cache)
  /\ todo \in Seq(Seq(Token) \ {<<>>})
  /\ phase = "decode" => todo # <<>>
  /\ phase = "decode" /\ n_batch = 1 => Len(todo) = 1 /\ Len(Head(todo)) = 1
  /\ phase = "failed" => ret < 0 \/ Full(cache)

LEMMA TokIsToken == ASSUME NEW p \in Nat, NEW s \in Nat PROVE Tok(p, s) \in Token
BY DEF Tok, Token

(* The ubatches of tokens a to b - 1.                                      *)
LEMMA SplitIs ==
  ASSUME NEW a \in Nat, NEW b \in Nat, a < b
  PROVE  /\ Split(a, b) \in Seq(Seq(Token) \ {<<>>}) /\ Split(a, b) # <<>>
         /\ b = a + 1 => Len(Split(a, b)) = 1 /\ Len(Head(Split(a, b))) = 1
<1> DEFINE N == NUbatch
           k == (b - a + N - 1) \div N
           first(u) == a + (u - 1) * N
           last(u)  == Min({first(u) + N, b}) - 1
           piece(u) == [x \in 1..last(u) - first(u) + 1 |-> Tok(first(u) + x - 1, 1)]
<1>1. N \in Nat /\ N > 0 /\ b - a + N - 1 \in Nat
  BY TokensAssumption, BatchAssumption
<1>2. Split(a, b) = [u \in 1..k |-> piece(u)]
  BY DEF Split
<1>3. k \in Nat /\ k * N <= b - a + N - 1 /\ b - a + N - 1 < k * N + N
  <2> DEFINE y == b - a + N - 1
  <2>1. y \in Nat /\ k = y \div N
    BY <1>1
  <2>2. y \div N \in Nat
    BY <1>1, <2>1, DivIsNat
  <2> HIDE DEF y, k, N
  <2>3. y = N * (y \div N) + (y % N) /\ y % N \in 0..N-1
    BY <1>1, <2>1
  <2>4. k \in Nat /\ N * k = k * N /\ y = N * k + (y % N)
    BY <1>1, <2>1, <2>2, <2>3
  <2>5. N * k \in Nat
    BY <1>1, <2>4
  <2>6. k * N <= y /\ y < k * N + N
    BY <1>1, <2>1, <2>3, <2>4, <2>5
  <2>7. QED BY <2>4, <2>6 DEF y
<1> HIDE DEF k, N
<1>4. k > 0
  <2>1. SUFFICES ASSUME k = 0 PROVE FALSE
    BY <1>3
  <2>2. k * N = 0
    BY <1>1, <2>1
  <2>3. QED BY <1>1, <1>3, <2>2
<1>5. ASSUME NEW u \in 1..k
      PROVE  /\ first(u) \in Nat /\ first(u) < b
             /\ last(u) = (IF first(u) + N <= b THEN first(u) + N ELSE b) - 1
  <2> DEFINE v == u - 1
  <2>1. v \in Nat /\ v <= k - 1
    BY <1>3
  <2> HIDE DEF v
  <2>2. v * N \in Nat /\ v * N <= (k - 1) * N
    BY <1>1, <1>3, <1>4, <2>1
  <2>3. (k - 1) * N = k * N - N /\ k * N \in Nat
    BY <1>1, <1>3
  <2>4. first(u) = a + v * N
    BY DEF v
  <2>5. first(u) \in Nat /\ first(u) < b
    BY <1>1, <1>3, <2>2, <2>3, <2>4
  <2> HIDE DEF first
  <2>6. first(u) + N \in Nat
    BY <1>1, <2>5
  <2>7. Min({first(u) + N, b}) = IF first(u) + N <= b THEN first(u) + N ELSE b
    BY <2>6, MaxOfTwo
  <2>8. QED BY <2>5, <2>7
<1>6. ASSUME NEW u \in 1..k PROVE piece(u) \in Seq(Token) \ {<<>>}
  <2> DEFINE f == first(u)
             l == last(u) - first(u) + 1
  <2>1. f \in Nat /\ l \in Nat /\ l > 0
    BY <1>1, <1>5
  <2>2. piece(u) = [x \in 1..l |-> Tok(f + x - 1, 1)]
    OBVIOUS
  <2> HIDE DEF f, l, piece
  <2>3. \A x \in 1..l : Tok(f + x - 1, 1) \in Token
    BY <2>1, TokIsToken
  <2>4. piece(u) \in [1..l -> Token]
    BY <2>2, <2>3
  <2>5. piece(u) \in Seq(Token) /\ Len(piece(u)) = l
    BY <2>1, <2>4
  <2>6. QED BY <2>1, <2>5
<1>7. Split(a, b) \in [1..k -> Seq(Token) \ {<<>>}]
  BY <1>2, <1>6
<1>8. Split(a, b) \in Seq(Seq(Token) \ {<<>>}) /\ Len(Split(a, b)) = k
  BY <1>3, <1>7
<1>9. ASSUME b = a + 1 PROVE k = 1 /\ Len(Head(Split(a, b))) = 1
  <2>1. k * N <= N
    BY <1>1, <1>3, <1>9
  <2>2. k = 1
    <3>1. SUFFICES ASSUME k >= 2 PROVE FALSE
      BY <1>3, <1>4
    <3>2. k * N = (k - 2) * N + 2 * N /\ (k - 2) * N \in Nat
      BY <1>1, <1>3, <3>1
    <3>3. QED BY <1>1, <2>1, <3>2
  <2>3. 1 \in 1..k /\ first(1) = a
    BY <1>1, <2>2
  <2>4. last(1) = a
    BY <1>1, <1>5, <1>9, <2>3
  <2>5. Head(Split(a, b)) = piece(1)
    BY <1>2, <1>8, <2>2, <2>3
  <2>6. piece(1) = [x \in 1..1 |-> Tok(a + x - 1, 1)]
    BY <2>3, <2>4
  <2> DEFINE q == piece(1)
  <2>7. Len(q) = 1
    <3>1. \A x \in 1..1 : Tok(a + x - 1, 1) \in Token
      <4>1. \A x \in 1..1 : a + x - 1 \in Nat
        OBVIOUS
      <4>2. QED BY <4>1, TokIsToken
    <3>2. q \in [1..1 -> Token]
      BY <2>6, <3>1
    <3> HIDE DEF q
    <3>3. QED BY <3>2
  <2>8. QED BY <2>2, <2>5, <2>7
<1>10. QED BY <1>4, <1>8, <1>9

LEMMA HeadAndTail ==
  ASSUME NEW T, NEW u \in Seq(T), u # <<>>
  PROVE  /\ Head(u) \in T /\ Tail(u) \in Seq(T)
         /\ Len(u) \in Nat /\ Len(Tail(u)) = Len(u) - 1
OBVIOUS

(* Where not even one token found a cell, there is none.                   *)
LEMMA NoRoomIsFull ==
  ASSUME NEW c, \A s \in 0..Size-1 : InUse(c, 1, s) # {}
  PROVE  Full(c)
<1>1. Size \in Nat
  BY KvAssumption
<1>2. ASSUME NEW x \in Cell PROVE c.cells[x].pos >= 0
  <2>1. x \in 0..Size-1 /\ InUse(c, 1, x) # {}
    BY DEF Cell
  <2>2. PICK y \in x..x+1-1 : c.cells[y].pos >= 0
    BY <2>1 DEF InUse
  <2>3. y = x
    BY <1>1, <2>1, <2>2
  <2>4. QED BY <2>2, <2>3
<1>3. QED BY <1>2 DEF Full

LEMMA RetryInit == BatchInit => RetryInv
BY InitGood, TokensAssumption, BatchAssumption DEF BatchInit, RetryInv

LEMMA OtherDecodeKeeps ==
  ASSUME RetryInv, NEW p \in 0..Size-1, OtherDecode(p)
  PROVE  RetryInv'
<1> DEFINE u == <<Tok(p, 0)>>
<1>1. p \in Nat
  BY KvAssumption
<1>2. u \in Seq(Token) \ {<<>>}
  <2>1. Tok(p, 0) \in Token
    BY <1>1, TokIsToken
  <2>2. QED BY <2>1
<1> HIDE DEF u
<1>3. GoodCache(Place(cache, u).cache)
  BY <1>2, PlaceGood DEF RetryInv
<1>4. GoodCache(cache')
  BY <1>3, FinishGood DEF OtherDecode, u
<1>5. QED BY <1>4 DEF RetryInv, OtherDecode

LEMMA OtherRmKeeps ==
  ASSUME RetryInv, NEW p \in 0..Size-1, OtherRm(p)
  PROVE  RetryInv'
<1>1. p \in Int /\ p + 1 \in Int /\ 0 \in Int
  BY KvAssumption
<1>2. GoodCache(cache')
  BY <1>1, RmGood DEF RetryInv, OtherRm
<1>3. QED BY <1>2 DEF RetryInv, OtherRm

LEMMA CallKeeps ==
  ASSUME RetryInv, Call
  PROVE  RetryInv'
<1> DEFINE b == Min({i + n_batch, Tokens})
<1>1. i \in Nat /\ n_batch \in Nat /\ n_batch > 0 /\ Tokens \in Nat /\ i < Tokens
  BY TokensAssumption, BatchAssumption DEF RetryInv, Call
<1>2. b = IF i + n_batch <= Tokens THEN i + n_batch ELSE Tokens
  BY <1>1, MaxOfTwo
<1>3. b \in Nat /\ i < b /\ (n_batch = 1 => b = i + 1)
  BY <1>1, <1>2
<1>4. todo' = Split(i, b)
  BY DEF Call
<1> HIDE DEF b
<1>5. /\ todo' \in Seq(Seq(Token) \ {<<>>}) /\ todo' # <<>>
      /\ n_batch = 1 => Len(todo') = 1 /\ Len(Head(todo')) = 1
  BY <1>1, <1>3, <1>4, SplitIs
<1>6. QED BY <1>5 DEF RetryInv, Call

LEMMA UbatchKeeps ==
  ASSUME RetryInv, Ubatch
  PROVE  RetryInv'
<1> DEFINE u == Head(todo)
           p == Place(cache, u)
<1>1. phase = "decode" /\ todo # <<>> /\ i \in Nat /\ n_batch \in Nat /\ n_batch > 0
  BY DEF RetryInv, Ubatch
<1>2. /\ u \in Seq(Token) \ {<<>>} /\ Tail(todo) \in Seq(Seq(Token) \ {<<>>})
      /\ Len(todo) \in Nat /\ Len(Tail(todo)) = Len(todo) - 1
  BY <1>1, HeadAndTail DEF RetryInv
<1> HIDE DEF u
<1>3. /\ GoodCache(p.cache) /\ p.ok \in BOOLEAN
      /\ ~p.ok => \A s \in 0..Size-Len(u) : InUse(p.cache, Len(u), s) # {}
  BY <1>2, PlaceGood DEF RetryInv
<1>4. /\ cache' = IF p.ok /\ Len(todo) = 1 THEN FinishDecode(p.cache) ELSE p.cache
      /\ \/ ~p.ok /\ Fail(1)
         \/ /\ p.ok /\ Len(todo) > 1 /\ todo' = Tail(todo)
            /\ phase' = phase /\ i' = i /\ n_batch' = n_batch
         \/ /\ p.ok /\ Len(todo) = 1 /\ todo' = <<>> /\ phase' = "loop"
            /\ i' = i + n_batch /\ n_batch' = n_batch
  BY DEF Ubatch, u
<1> HIDE DEF p
<1>5. GoodCache(cache')
  BY <1>3, <1>4, FinishGood
<1>6. CASE ~p.ok /\ Fail(1)
  <2>1. cache' = p.cache /\ todo' = <<>>
    BY <1>4, <1>6 DEF Fail
  <2>2. CASE n_batch = 1
    <3>1. phase' = "failed" /\ i' = i /\ n_batch' = n_batch
      BY <1>6, <2>2 DEF Fail
    <3>2. Len(u) = 1
      BY <1>1, <2>2 DEF RetryInv, u
    <3>3. Full(cache')
      BY <1>3, <1>6, <2>1, <3>2, NoRoomIsFull
    <3>4. QED BY <1>1, <1>5, <2>1, <3>1, <3>3 DEF RetryInv
  <2>3. CASE n_batch # 1
    <3>1. phase' = "loop" /\ i' = i /\ n_batch' = n_batch \div 2
      BY <1>6, <2>3 DEF Fail
    <3>2. n_batch \div 2 \in Nat /\ n_batch \div 2 > 0
      BY <1>1, <2>3
    <3>3. QED BY <1>1, <1>5, <2>1, <3>1, <3>2 DEF RetryInv
  <2>4. QED BY <2>2, <2>3
<1>7. CASE p.ok /\ Len(todo) > 1
  <2>0. p.ok /\ Len(todo) # 1
    <3>1. Len(todo) \in Nat /\ Len(todo) > 1
      BY <1>2, <1>7
    <3> DEFINE n == Len(todo)
    <3>2. n # 1
      <4>1. n \in Nat /\ n > 1
        BY <3>1
      <4> HIDE DEF n
      <4>2. QED BY <4>1
    <3>3. QED BY <1>7, <3>2
  <2>1. n_batch # 1
    BY <1>1, <2>0 DEF RetryInv
  <2>2. /\ todo' = Tail(todo) /\ phase' = "decode" /\ i' = i /\ n_batch' = n_batch
    BY <1>1, <1>4, <2>0
  <2>3. todo' # <<>>
    <3>1. Len(Tail(todo)) > 0
      BY <1>2, <1>7
    <3>2. QED BY <2>2, <3>1
  <2>4. QED BY <1>1, <1>2, <1>5, <2>1, <2>2, <2>3 DEF RetryInv
<1>8. CASE p.ok /\ Len(todo) = 1
  <2>1. todo' = <<>> /\ phase' = "loop" /\ i' = i + n_batch /\ n_batch' = n_batch
    BY <1>4, <1>8
  <2>2. QED BY <1>1, <1>5, <2>1 DEF RetryInv
<1>9. QED BY <1>4, <1>6, <1>7, <1>8

(* A piece that llama_decode refuses ends the loop.                        *)
LEMMA RefuseFails ==
  ASSUME Refuse
  PROVE  /\ phase = "loop" /\ phase' = "failed" /\ todo' = <<>> /\ ret' < 0
         /\ UNCHANGED <<i, n_batch, cache>>
<1>1. PICK r \in {-1, -2} : Fail(r)
  BY DEF Refuse
<1>2. r < 0
  OBVIOUS
<1>3. QED BY <1>1, <1>2 DEF Refuse, Fail

LEMMA RefuseKeeps ==
  ASSUME RetryInv, Refuse
  PROVE  RetryInv'
BY RefuseFails DEF RetryInv

LEMMA RetryStep == ASSUME RetryInv, [BatchNext]_batchVars PROVE RetryInv'
<1>1. CASE \E p \in 0..Size-1 : OtherDecode(p) \/ OtherRm(p)
  BY <1>1, OtherDecodeKeeps, OtherRmKeeps
<1>2. CASE Start
  BY <1>2 DEF Start, RetryInv
<1>3. CASE Call
  BY <1>3, CallKeeps
<1>4. CASE Ubatch
  BY <1>4, UbatchKeeps
<1>5. CASE BatchDone
  BY <1>5 DEF BatchDone, RetryInv
<1>6. CASE Refuse
  BY <1>6, RefuseKeeps
<1>7. CASE UNCHANGED batchVars
  BY <1>7 DEF batchVars, RetryInv
<1>8. QED BY <1>1, <1>2, <1>3, <1>4, <1>5, <1>6, <1>7 DEF BatchNext, Loop, Ended

(* The loop gives up only when llama_decode refused the piece before its   *)
(* first ubatch, or when there is not even one free cell: then the last    *)
(* attempt was a piece of one token, and the search tried every cell.      *)
THEOREM GivesUpForAReasonTheorem == BatchSpec => []GivesUpForAReason
<1>1. RetryInv => GivesUpForAReason
  BY DEF RetryInv, GivesUpForAReason, Full
<1>2. QED BY <1>1, RetryInit, RetryStep, PTL DEF BatchSpec

-----------------------------------------------------------------------------
(* A piece is a single ubatch.  Otherwise a piece that fails in its second *)
(* ubatch leaves the first one behind, and StoredOnce does not hold.       *)
OneUbatchPerPiece == NBatch <= NUbatch

PieceOf(a, b) == [x \in 1..b-a |-> Tok(a + x - 1, 1)]

(* The end of the present piece.                                           *)
PieceEnd == IF i + n_batch <= Tokens THEN i + n_batch ELSE Tokens

OfPrompt(c, x) == 1 \in c.cells[x].seq

(* No token of the prompt is in the cache.                                 *)
NoneStored(c) == \A x \in Live(c) : ~OfPrompt(c, x)

(* The first k tokens of the prompt are in the cache, each of them once,   *)
(* and no other one.                                                       *)
OnceBelow(c, k) ==
  /\ \A t \in 0..Tokens-1 :
       t < k => \E x \in Live(c) : OfPrompt(c, x) /\ c.cells[x].pos = t
  /\ \A x \in Live(c) : OfPrompt(c, x) => c.cells[x].pos < k
  /\ \A x, y \in Live(c) :
       OfPrompt(c, x) /\ OfPrompt(c, y) /\ c.cells[x].pos = c.cells[y].pos => x = y

StoreInv ==
  /\ n_batch <= NUbatch
  /\ phase = "before" => i = 0 /\ NoneStored(cache)
  /\ phase # "before" => OnceBelow(cache, i)
  /\ phase = "decode" =>
       i < Tokens /\ Len(todo) = 1 /\ Head(todo) = PieceOf(i, PieceEnd)

LEMMA SplitOne ==
  ASSUME NEW a \in Nat, NEW b \in Nat, a < b, b - a <= NUbatch
  PROVE  Len(Split(a, b)) = 1 /\ Head(Split(a, b)) = PieceOf(a, b)
<1> DEFINE N == NUbatch
           y == b - a + N - 1
           k == y \div N
           first(u) == a + (u - 1) * N
           last(u)  == Min({first(u) + N, b}) - 1
           piece(u) == [x \in 1..last(u) - first(u) + 1 |-> Tok(first(u) + x - 1, 1)]
<1>1. N \in Nat /\ N > 0 /\ y \in Nat /\ N <= y /\ y < 2 * N
  BY TokensAssumption, BatchAssumption
<1>2. Split(a, b) = [u \in 1..k |-> piece(u)]
  BY DEF Split
<1> HIDE DEF N, y
<1>3. k = 1
  BY <1>1
<1> HIDE DEF k
<1>4. Split(a, b) = [u \in 1..1 |-> piece(u)]
  BY <1>2, <1>3
<1>5. first(1) = a
  BY <1>1
<1>6. last(1) = b - 1
  <2>1. a + N \in Nat /\ b <= a + N
    BY <1>1 DEF N
  <2>2. Min({a + N, b}) = b
    BY <2>1, MaxOfTwo
  <2>3. QED BY <1>5, <2>2
<1>7. piece(1) = PieceOf(a, b)
  BY <1>5, <1>6 DEF PieceOf
<1> HIDE DEF piece
<1>8. QED BY <1>4, <1>7

LEMMA PieceIs ==
  ASSUME NEW a \in Nat, NEW b \in Nat, a < b
  PROVE  /\ PieceOf(a, b) \in Seq(Token) \ {<<>>} /\ Len(PieceOf(a, b)) = b - a
         /\ \A x \in 1..b-a : /\ PieceOf(a, b)[x].pos = a + x - 1
                              /\ PieceOf(a, b)[x].seq = {1}
<1> DEFINE n == b - a
<1>1. n \in Nat /\ n > 0
  OBVIOUS
<1>2. \A x \in 1..n : a + x - 1 \in Nat
  OBVIOUS
<1>3. PieceOf(a, b) = [x \in 1..n |-> Tok(a + x - 1, 1)]
  BY DEF PieceOf
<1> HIDE DEF n
<1>4. \A x \in 1..n : Tok(a + x - 1, 1) \in Token
  BY <1>2, TokIsToken
<1>5. PieceOf(a, b) \in [1..n -> Token]
  BY <1>3, <1>4
<1>6. PieceOf(a, b) \in Seq(Token) /\ Len(PieceOf(a, b)) = n
  BY <1>1, <1>5
<1>7. \A x \in 1..n : PieceOf(a, b)[x].pos = a + x - 1 /\ PieceOf(a, b)[x].seq = {1}
  BY <1>3 DEF Tok
<1>8. QED BY <1>1, <1>6, <1>7 DEF n

(* An update moves cells and keeps their tokens.                           *)
LEMMA UpdateKeepsStored ==
  ASSUME NEW c, GoodCache(c)
  PROVE  LET e == kv_cache_update(c)
         IN  /\ NoneStored(c) => NoneStored(e)
             /\ \A k : OnceBelow(c, k) => OnceBelow(e, k)
<1> DEFINE e == kv_cache_update(c)
           m == NextMoves(c)
<1>1. UpdateDone(c, e, m)
  BY UpdateGood
<1> HIDE DEF e, m
<1>2. NoneStored(c) => NoneStored(e)
  BY <1>1 DEF UpdateDone, NoneStored, OfPrompt
<1>3. ASSUME NEW k, OnceBelow(c, k) PROVE OnceBelow(e, k)
  <2>1. ASSUME NEW t \in 0..Tokens-1, t < k
        PROVE  \E x \in Live(e) : OfPrompt(e, x) /\ e.cells[x].pos = t
    <3>1. PICK y \in Live(c) : OfPrompt(c, y) /\ c.cells[y].pos = t
      BY <1>3, <2>1 DEF OnceBelow
    <3>2. PICK x \in Live(e) : From(m, x) = y
      BY <1>1 DEF UpdateDone
    <3>3. QED BY <1>1, <3>1, <3>2 DEF UpdateDone, OfPrompt
  <2>2. ASSUME NEW x \in Live(e), OfPrompt(e, x) PROVE e.cells[x].pos < k
    BY <1>1, <1>3, <2>2 DEF UpdateDone, OnceBelow, OfPrompt
  <2>3. ASSUME NEW x \in Live(e), NEW y \in Live(e), OfPrompt(e, x), OfPrompt(e, y),
               e.cells[x].pos = e.cells[y].pos
        PROVE  x = y
    <3>1. From(m, x) = From(m, y)
      BY <1>1, <1>3, <2>3 DEF UpdateDone, OnceBelow, OfPrompt
    <3>2. QED BY <1>1, <3>1 DEF UpdateDone
  <2>4. QED BY <2>1, <2>2, <2>3 DEF OnceBelow
<1>4. QED BY <1>2, <1>3 DEF e

(* Where the cells are the same, so is what they store.                    *)
LEMMA SameCells ==
  ASSUME NEW c, NEW d, d.cells = c.cells, Live(d) = Live(c)
  PROVE  /\ NoneStored(c) => NoneStored(d)
         /\ \A k : OnceBelow(c, k) => OnceBelow(d, k)
BY DEF NoneStored, OnceBelow, OfPrompt

(* A ubatch of another sequence.                                           *)
LEMMA PlaceOther ==
  ASSUME NEW c, GoodCache(c), NEW p \in Nat, NoneStored(c),
         Place(c, <<Tok(p, 0)>>).ok
  PROVE  NoneStored(Place(c, <<Tok(p, 0)>>).cache)
<1> DEFINE u == <<Tok(p, 0)>>
           e == kv_cache_update(c)
           r == Place(c, u)
           d == r.cache
<1>1. u \in Seq(Token) \ {<<>>} /\ Len(u) = 1 /\ u[1].seq = {0}
  <2>1. Tok(p, 0) \in Token /\ Tok(p, 0).seq = {0}
    BY TokIsToken DEF Tok
  <2>2. QED BY <2>1
<1> HIDE DEF u
<1>2. /\ r.slot \in Nat
      /\ Live(d) = Live(e) \union Slot(r.slot, Len(u))
      /\ \A x \in Live(e) : d.cells[x] = e.cells[x]
      /\ \A x \in Slot(r.slot, Len(u)) : d.cells[x].seq = u[x - r.slot + 1].seq
  BY <1>1, PlaceGood DEF u
<1>3. NoneStored(e)
  BY UpdateKeepsStored
<1> HIDE DEF e, r
<1>4. ASSUME NEW x \in Slot(r.slot, Len(u)) PROVE ~OfPrompt(d, x)
  <2>1. x = r.slot
    BY <1>1, <1>2 DEF Slot
  <2>2. x - r.slot + 1 = 1
    BY <1>2, <2>1
  <2>3. d.cells[x].seq = {0}
    BY <1>1, <1>2, <2>2
  <2>4. QED BY <2>3 DEF OfPrompt
<1>5. \A x \in Live(e) : ~OfPrompt(d, x)
  BY <1>2, <1>3 DEF NoneStored, OfPrompt
<1>6. NoneStored(d)
  BY <1>2, <1>4, <1>5 DEF NoneStored
<1>7. QED BY <1>6 DEF r, u

(* A piece of the prompt.                                                  *)
LEMMA PlacePiece ==
  ASSUME NEW c, GoodCache(c), NEW a \in Nat, NEW b \in Nat, a < b, b <= Tokens,
         OnceBelow(c, a)
  PROVE  LET r == Place(c, PieceOf(a, b))
         IN  OnceBelow(r.cache, IF r.ok THEN b ELSE a)
<1> DEFINE u == PieceOf(a, b)
           e == kv_cache_update(c)
           r == Place(c, u)
           d == r.cache
           h == r.slot
<1>1. /\ u \in Seq(Token) \ {<<>>} /\ Len(u) = b - a
      /\ \A x \in 1..b-a : u[x].pos = a + x - 1 /\ u[x].seq = {1}
  BY PieceIs
<1> HIDE DEF u
<1>2. /\ r.ok => /\ h \in Nat
                 /\ Live(d) = Live(e) \union Slot(h, Len(u))
                 /\ Live(e) \cap Slot(h, Len(u)) = {}
                 /\ \A x \in Live(e) : d.cells[x] = e.cells[x]
                 /\ \A x \in Slot(h, Len(u)) :
                      d.cells[x].pos = u[x - h + 1].pos /\ d.cells[x].seq = u[x - h + 1].seq
      /\ ~r.ok => d.cells = e.cells /\ Live(d) = Live(e)
  BY <1>1, PlaceGood
<1>3. OnceBelow(e, a)
  BY UpdateKeepsStored
<1> HIDE DEF e, r
<1>4. CASE ~r.ok
  BY <1>2, <1>3, <1>4, SameCells DEF r, u
<1>5. CASE r.ok
  <2> DEFINE S == Slot(h, Len(u))
  <2>1. S = h..h+(b-a)-1 /\ h \in Nat
    BY <1>1, <1>2, <1>5 DEF Slot
  <2>2. ASSUME NEW x \in S
        PROVE  /\ x \in Int /\ x - h + 1 \in 1..b-a
               /\ d.cells[x].pos = a + (x - h) /\ OfPrompt(d, x)
               /\ d.cells[x].pos \in Nat /\ a <= d.cells[x].pos /\ d.cells[x].pos < b
    <3>1. x \in Int /\ x - h + 1 \in 1..b-a
      BY <2>1
    <3>2. d.cells[x].pos = a + (x - h + 1) - 1 /\ d.cells[x].seq = {1}
      BY <1>1, <1>2, <1>5, <3>1
    <3>3. a + (x - h + 1) - 1 = a + (x - h) /\ a + (x - h) \in Nat
          /\ a <= a + (x - h) /\ a + (x - h) < b
      BY <2>1, <3>1
    <3>4. QED BY <3>1, <3>2, <3>3 DEF OfPrompt
  <2>3. /\ Live(d) = Live(e) \union S
        /\ \A x \in Live(e) : d.cells[x] = e.cells[x]
    BY <1>2, <1>5
  <2> HIDE DEF S
  <2>4. ASSUME NEW x \in Live(e), OfPrompt(d, x)
        PROVE  OfPrompt(e, x) /\ d.cells[x].pos = e.cells[x].pos /\ d.cells[x].pos < a
    BY <1>3, <2>3, <2>4 DEF OnceBelow, OfPrompt
  <2>5. ASSUME NEW t \in 0..Tokens-1, t < b
        PROVE  \E x \in Live(d) : OfPrompt(d, x) /\ d.cells[x].pos = t
    <3>1. CASE t < a
      <4>1. PICK x \in Live(e) : OfPrompt(e, x) /\ e.cells[x].pos = t
        BY <1>3, <2>5, <3>1 DEF OnceBelow
      <4>2. QED BY <2>3, <4>1 DEF OfPrompt
    <3>2. CASE ~(t < a)
      <4> DEFINE x == h + (t - a)
      <4>1. x \in S /\ a + (x - h) = t
        BY <2>1, <2>5, <3>2
      <4>2. QED BY <2>2, <2>3, <4>1
    <3>3. QED BY <3>1, <3>2
  <2>6. ASSUME NEW x \in Live(d), OfPrompt(d, x)
        PROVE  d.cells[x].pos < b
    <3>1. CASE x \in S
      BY <2>2, <3>1
    <3>2. CASE x \in Live(e)
      <4>1. d.cells[x].pos < a /\ d.cells[x].pos = e.cells[x].pos
        BY <2>4, <2>6, <3>2
      <4>2. e.cells[x].pos \in Int
        <5>1. GoodCache(e)
          BY UpdateGood DEF e
        <5>2. x \in Cell
          BY <3>2, LiveFacts
        <5>3. QED BY <5>1, <5>2, CellIs DEF GoodCache
      <4>3. QED BY <4>1, <4>2
    <3>3. QED BY <2>3, <3>1, <3>2
  <2>7. ASSUME NEW x \in Live(d), NEW y \in Live(d), OfPrompt(d, x), OfPrompt(d, y),
               d.cells[x].pos = d.cells[y].pos
        PROVE  x = y
    <3>1. CASE x \in S /\ y \in S
      <4>1. a + (x - h) = a + (y - h) /\ x \in Int /\ y \in Int
        BY <2>2, <2>7, <3>1
      <4>2. QED BY <2>1, <4>1
    <3>2. CASE x \in Live(e) /\ y \in Live(e)
      BY <1>3, <2>4, <2>7, <3>2 DEF OnceBelow
    <3>3. CASE x \in S /\ y \in Live(e)
      <4>1. a <= d.cells[x].pos /\ d.cells[x].pos \in Nat /\ d.cells[y].pos < a
        BY <2>2, <2>4, <2>7, <3>3
      <4>2. QED BY <2>7, <4>1
    <3>4. CASE y \in S /\ x \in Live(e)
      <4>1. a <= d.cells[y].pos /\ d.cells[y].pos \in Nat /\ d.cells[x].pos < a
        BY <2>2, <2>4, <2>7, <3>4
      <4>2. QED BY <2>7, <4>1
    <3>5. QED BY <2>3, <3>1, <3>2, <3>3, <3>4
  <2>8. OnceBelow(d, b)
    BY <2>5, <2>6, <2>7 DEF OnceBelow
  <2>9. QED BY <1>5, <2>8 DEF r, u
<1>6. QED BY <1>4, <1>5

LEMMA RmKeepsNone ==
  ASSUME NEW c, GoodCache(c), NoneStored(c), NEW s \in Nat, NEW p0 \in Int, NEW p1 \in Int
  PROVE  NoneStored(kv_cache_seq_rm(c, s, p0, p1))
<1> DEFINE d == kv_cache_seq_rm(c, s, p0, p1)
<1>1. Live(d) \subseteq Live(c) /\ RmDone(c, d, s, p0, p1)
  BY RmGood DEF Tame
<1> HIDE DEF d
<1>2. \A x \in Live(d) : d.cells[x].seq \subseteq c.cells[x].seq
  BY <1>1 DEF RmDone
<1>3. NoneStored(d)
  BY <1>1, <1>2 DEF NoneStored, OfPrompt
<1>4. QED BY <1>3 DEF d

LEMMA StoreInit == OneUbatchPerPiece /\ BatchInit => StoreInv
<1> SUFFICES ASSUME OneUbatchPerPiece, BatchInit PROVE StoreInv
  OBVIOUS
<1>1. n_batch <= NUbatch /\ phase = "before" /\ i = 0 /\ cache = InitCache
  BY DEF BatchInit, OneUbatchPerPiece
<1>2. Live(InitCache) = {}
  BY DEF Live, InitCache, EmptyCell
<1>3. QED BY <1>1, <1>2 DEF StoreInv, NoneStored

LEMMA UbatchStores ==
  ASSUME RetryInv, StoreInv, Ubatch
  PROVE  StoreInv'
<1> DEFINE b == PieceEnd
           r == Place(cache, Head(todo))
<1>1. /\ phase = "decode" /\ i \in Nat /\ n_batch \in Nat /\ n_batch > 0
      /\ Tokens \in Nat /\ i < Tokens /\ n_batch <= NUbatch /\ NUbatch \in Nat
      /\ Len(todo) = 1 /\ Head(todo) = PieceOf(i, b) /\ OnceBelow(cache, i)
      /\ GoodCache(cache)
  BY TokensAssumption, BatchAssumption DEF RetryInv, StoreInv, Ubatch
<1>2. b \in Nat /\ i < b /\ b <= Tokens /\ b <= i + n_batch
      /\ (b < i + n_batch => b = Tokens)
  BY <1>1 DEF PieceEnd
<1> HIDE DEF b
<1>3. OnceBelow(r.cache, IF r.ok THEN b ELSE i)
  BY <1>1, <1>2, PlacePiece
<1>4. GoodCache(r.cache) /\ r.ok \in BOOLEAN
  <2>1. PieceOf(i, b) \in Seq(Token) \ {<<>>}
    BY <1>1, <1>2, PieceIs
  <2>2. QED BY <1>1, <2>1, PlaceGood
<1>5. /\ cache' = IF r.ok THEN FinishDecode(r.cache) ELSE r.cache
      /\ \/ ~r.ok /\ Fail(1)
         \/ /\ r.ok /\ phase' = "loop" /\ i' = i + n_batch /\ n_batch' = n_batch
  BY <1>1 DEF Ubatch
<1> HIDE DEF r
<1>6. CASE ~r.ok /\ Fail(1)
  <2>1. cache' = r.cache /\ i' = i /\ phase' \in {"failed", "loop"}
        /\ n_batch' \in {n_batch, n_batch \div 2}
    BY <1>5, <1>6 DEF Fail
  <2>2. n_batch' <= NUbatch
    <3>1. n_batch \div 2 <= n_batch /\ n_batch \div 2 \in Nat
      BY <1>1
    <3>2. QED BY <1>1, <2>1, <3>1
  <2>3. OnceBelow(cache', i')
    BY <1>3, <1>6, <2>1
  <2>4. QED BY <2>1, <2>2, <2>3 DEF StoreInv
<1>7. CASE r.ok /\ phase' = "loop" /\ i' = i + n_batch /\ n_batch' = n_batch
  <2>1. OnceBelow(cache', b)
    <3>1. OnceBelow(r.cache, b) /\ cache' = FinishDecode(r.cache)
      BY <1>3, <1>5, <1>7
    <3>2. cache'.cells = r.cache.cells /\ Live(cache') = Live(r.cache)
      BY <1>4, <3>1, FinishGood
    <3>3. QED BY <3>1, <3>2, SameCells
  <2> DEFINE d == cache'
  <2>2. GoodCache(d) /\ OnceBelow(d, b)
    BY <1>4, <1>5, <1>7, <2>1, FinishGood
  <2> HIDE DEF d
  <2>3. OnceBelow(d, i + n_batch)
    <3>1. ASSUME NEW x \in Live(d), OfPrompt(d, x) PROVE d.cells[x].pos < i + n_batch
      <4>1. d.cells[x].pos \in Int /\ d.cells[x].pos < b
        BY <2>2, <3>1, CellIs, LiveFacts DEF OnceBelow, GoodCache
      <4>2. QED BY <1>1, <1>2, <4>1
    <3>2. ASSUME NEW t \in 0..Tokens-1, t < i + n_batch PROVE t < b
      BY <1>1, <1>2, <3>2
    <3>3. QED BY <2>2, <3>1, <3>2 DEF OnceBelow
  <2>4. QED BY <1>1, <1>7, <2>3 DEF StoreInv, d
<1>8. QED BY <1>5, <1>6, <1>7

LEMMA StoreStep ==
  ASSUME RetryInv, StoreInv, [BatchNext]_batchVars
  PROVE  StoreInv'
<1>1. ASSUME NEW p \in 0..Size-1, OtherDecode(p) PROVE StoreInv'
  <2> DEFINE r == Place(cache, <<Tok(p, 0)>>)
  <2>1. p \in Nat /\ GoodCache(cache) /\ NoneStored(cache) /\ r.ok /\ i = 0
    BY <1>1, KvAssumption DEF StoreInv, RetryInv, OtherDecode
  <2>2. NoneStored(r.cache)
    BY <2>1, PlaceOther
  <2>3. GoodCache(r.cache)
    <3>1. <<Tok(p, 0)>> \in Seq(Token) \ {<<>>}
      <4>1. Tok(p, 0) \in Token
        BY <2>1, TokIsToken
      <4>2. QED BY <4>1
    <3>2. QED BY <2>1, <3>1, PlaceGood
  <2>4. cache' = FinishDecode(r.cache) /\ UNCHANGED <<phase, i, n_batch>>
    BY <1>1 DEF OtherDecode
  <2> HIDE DEF r
  <2>5. NoneStored(cache')
    BY <2>2, <2>3, <2>4, FinishGood, SameCells
  <2>6. QED BY <1>1, <2>4, <2>5 DEF StoreInv, OtherDecode
<1>2. ASSUME NEW p \in 0..Size-1, OtherRm(p) PROVE StoreInv'
  <2>1. p \in Int /\ p + 1 \in Int /\ GoodCache(cache) /\ NoneStored(cache)
    BY <1>2, KvAssumption DEF StoreInv, RetryInv, OtherRm
  <2>2. NoneStored(cache') /\ phase = "before" /\ UNCHANGED <<phase, i, n_batch>>
    BY <1>2, <2>1, RmKeepsNone DEF OtherRm
  <2>3. QED BY <2>2 DEF StoreInv
<1>3. CASE Start
  <2>1. i = 0 /\ NoneStored(cache)
    BY <1>3 DEF Start, StoreInv
  <2>2. OnceBelow(cache, 0)
    BY <2>1, TokensAssumption, BatchAssumption DEF OnceBelow, NoneStored
  <2>3. QED BY <1>3, <2>1, <2>2 DEF Start, StoreInv
<1>4. CASE Call
  <2> DEFINE b == PieceEnd
  <2>1. /\ i \in Nat /\ n_batch \in Nat /\ n_batch > 0 /\ Tokens \in Nat /\ i < Tokens
        /\ n_batch <= NUbatch /\ NUbatch \in Nat
    BY <1>4, TokensAssumption, BatchAssumption DEF RetryInv, StoreInv, Call
  <2>2. b \in Nat /\ i < b /\ b - i <= NUbatch
    BY <2>1 DEF PieceEnd
  <2>3. Min({i + n_batch, Tokens}) = b
    BY <2>1, MaxOfTwo DEF PieceEnd
  <2>4. todo' = Split(i, b) /\ UNCHANGED <<i, n_batch, cache>> /\ phase' = "decode"
    BY <1>4, <2>3 DEF Call
  <2>5. PieceEnd' = b
    BY <2>4 DEF PieceEnd
  <2> HIDE DEF b
  <2>6. Len(todo') = 1 /\ Head(todo') = PieceOf(i, b)
    BY <2>1, <2>2, <2>4, SplitOne
  <2>7. OnceBelow(cache, i)
    BY <1>4 DEF Call, StoreInv
  <2>8. QED BY <2>1, <2>4, <2>5, <2>6, <2>7 DEF StoreInv
<1>5. CASE Ubatch
  BY <1>5, UbatchStores
<1>6. CASE BatchDone
  BY <1>6 DEF BatchDone, StoreInv
<1>7. CASE Refuse
  BY <1>7, RefuseFails DEF StoreInv
<1>8. CASE UNCHANGED batchVars
  BY <1>8 DEF batchVars, StoreInv, PieceEnd
<1>9. QED BY <1>1, <1>2, <1>3, <1>4, <1>5, <1>6, <1>7, <1>8 DEF BatchNext, Loop, Ended

(* The retry stores nothing twice and forgets nothing: between two calls   *)
(* of llama_decode, and when the loop has given up, the cache holds each   *)
(* token of the batch that precedes i once, wherever updates have moved    *)
(* it, and no later token.                                                 *)
THEOREM NothingStoredTwice == OneUbatchPerPiece => (BatchSpec => []StoredOnce)
<1> SUFFICES ASSUME OneUbatchPerPiece PROVE BatchSpec => []StoredOnce
  OBVIOUS
<1>1. ASSUME RetryInv, StoreInv PROVE StoredOnce
  <2> SUFFICES ASSUME phase \in {"loop", "done", "failed"}, NEW t \in 0..Tokens-1
               PROVE  Cardinality(Copies(t)) = IF t < i THEN 1 ELSE 0
    BY DEF StoredOnce
  <2>1. OnceBelow(cache, i) /\ i \in Nat /\ t \in Int
    BY <1>1, TokensAssumption, BatchAssumption DEF RetryInv, StoreInv
  <2>2. Copies(t) = {x \in Live(cache) : OfPrompt(cache, x) /\ cache.cells[x].pos = t}
    BY DEF Copies, Live, OfPrompt
  <2>3. CASE t < i
    <3>1. PICK x \in Live(cache) : OfPrompt(cache, x) /\ cache.cells[x].pos = t
      BY <2>1, <2>3 DEF OnceBelow
    <3>2. Copies(t) = {x}
      BY <2>1, <2>2, <3>1 DEF OnceBelow
    <3>3. QED BY <2>3, <3>2, FS_Singleton
  <2>4. CASE ~(t < i)
    <3>1. Copies(t) = {}
      BY <2>1, <2>2, <2>4 DEF OnceBelow
    <3>2. QED BY <2>4, <3>1, FS_EmptySet
  <2>5. QED BY <2>3, <2>4
<1>2. BatchInit => StoreInv
  BY StoreInit
<1>3. QED BY <1>1, <1>2, RetryInit, RetryStep, StoreStep, PTL DEF BatchSpec

-----------------------------------------------------------------------------
(* The steps that the loops of the server repeat; x is what they read.     *)
StepOf(loop, x, v, k) ==
  CASE loop = "shift"  -> ContextShift(v, k - 1)
    [] loop = "sample" -> AddSampled(v, k - 1)
    [] loop = "prompt" -> AddPrompt(v, k - 1, x.common[k - 1], x.len[k - 1])
    [] loop = "assign" -> AssignTo(v, k - 1)
    [] loop = "place"  -> PlaceNext(v, x[k])
    [] loop = "piece"  -> NextPiece(v, x)
    [] loop = "system" -> SystemPart(v, k)

Runs(loop, x, w, n, f) ==
  f = [k \in 0..n |-> IF k = 0 THEN w ELSE StepOf(loop, x, f[k - 1], k)]

(* The values after each turn exist.                                       *)
LEMMA RunExists ==
  ASSUME NEW loop, NEW x, NEW w, NEW n \in Nat
  PROVE  \E f : Runs(loop, x, w, n, f)
<1> DEFINE Missing == {j \in Nat : ~\E f : Runs(loop, x, w, j, f)}
<1>1. SUFFICES ASSUME Missing # {} PROVE FALSE
  OBVIOUS
<1>2. PICK j \in Missing : \A y \in Missing : j <= y
  <2>1. Missing \in SUBSET Nat
    OBVIOUS
  <2> HIDE DEF Missing
  <2>2. QED BY <1>1, <2>1, Smallest
<1>3. j # 0
  <2> DEFINE e == [k \in 0..0 |-> w]
  <2>1. e = [k \in 0..0 |-> IF k = 0 THEN w ELSE StepOf(loop, x, e[k - 1], k)]
    OBVIOUS
  <2>2. Runs(loop, x, w, 0, e)
    BY <2>1 DEF Runs
  <2> HIDE DEF e
  <2>3. QED BY <2>2
<1>4. j - 1 \in Nat /\ j - 1 \notin Missing
  BY <1>2, <1>3
<1>5. PICK f : Runs(loop, x, w, j - 1, f)
  BY <1>4
<1>6. \A k \in 0..j-1 : f[k] = IF k = 0 THEN w ELSE StepOf(loop, x, f[k - 1], k)
  BY <1>4, <1>5 DEF Runs
<1> DEFINE g == [k \in 0..j |-> IF k = 0 THEN w ELSE StepOf(loop, x, f[k - 1], k)]
<1>7. \A k \in 0..j-1 : g[k] = f[k]
  BY <1>4, <1>6
<1>8. \A k \in 1..j : k - 1 \in 0..j-1
  BY <1>4
<1>9. \A k \in 0..j : (IF k = 0 THEN w ELSE StepOf(loop, x, f[k - 1], k))
                       = (IF k = 0 THEN w ELSE StepOf(loop, x, g[k - 1], k))
  <2> HIDE DEF g
  <2>1. \A k \in 0..j : k # 0 => k \in 1..j
    BY <1>4
  <2>2. QED BY <1>7, <1>8, <2>1
<1>10. g = [k \in 0..j |-> IF k = 0 THEN w ELSE StepOf(loop, x, g[k - 1], k)]
  <2> DEFINE h == [k \in 0..j |-> IF k = 0 THEN w ELSE StepOf(loop, x, g[k - 1], k)]
  <2>1. g = h
    BY <1>9
  <2>2. QED BY <2>1
<1>11. Runs(loop, x, w, j, g)
  BY <1>10 DEF Runs
<1> HIDE DEF g
<1>12. QED BY <1>2, <1>11

(* A set that has 0 and with each number the next one has all of them.     *)
LEMMA UpToAll ==
  ASSUME NEW n \in Nat, NEW P, 0 \in P, \A k \in 1..n : k - 1 \in P => k \in P
  PROVE  \A k \in 0..n : k \in P
<1> DEFINE Bad == {k \in 0..n : k \notin P}
<1>1. SUFFICES ASSUME Bad # {} PROVE FALSE
  OBVIOUS
<1>2. Bad \in SUBSET Nat
  OBVIOUS
<1>3. PICK j \in Bad : \A y \in Bad : j <= y
  <2> HIDE DEF Bad
  <2>1. QED BY <1>1, <1>2, Smallest
<1>4. j \in 1..n /\ j - 1 \in 0..n /\ ~(j <= j - 1)
  BY <1>3
<1>5. j - 1 \in P
  BY <1>3, <1>4
<1>6. QED BY <1>3, <1>4, <1>5

NSlots == Cardinality(Slots)

LEMMA SlotFacts ==
  /\ NSlots \in Nat /\ Slots = 0..NSlots-1 /\ Slots \in SUBSET Nat
  /\ \A k \in 1..NSlots : k - 1 \in Slots
  /\ \A s \in Slots : s + 1 \in Nat /\ s + 1 \in 1..NSlots
<1>1. NSlots \in Nat /\ Slots = 0..NSlots-1
  BY ServerAssumption, FS_CardinalityType DEF NSlots
<1> HIDE DEF NSlots
<1>2. QED BY <1>1

(* A loop as the values after each of its turns.                           *)
LEMMA ShiftTurns ==
  ASSUME NEW w
  PROVE  \E f : /\ f[0] = w /\ EachSlot(ContextShift, w) = f[NSlots]
                /\ \A k \in 1..NSlots : f[k] = ContextShift(f[k - 1], k - 1)
<1> DEFINE F == CHOOSE f : f = [k \in 0..NSlots |-> IF k = 0 THEN w ELSE ContextShift(f[k - 1], k - 1)]
<1>1. EachSlot(ContextShift, w) = F[NSlots]
  BY DEF EachSlot, Turns, NSlots
<1>2. \E f : f = [k \in 0..NSlots |-> IF k = 0 THEN w ELSE ContextShift(f[k - 1], k - 1)]
  <2>1. PICK f : Runs("shift", 0, w, NSlots, f)
    BY SlotFacts, RunExists
  <2>2. f = [k \in 0..NSlots |-> IF k = 0 THEN w ELSE ContextShift(f[k - 1], k - 1)]
    BY <2>1 DEF Runs, StepOf
  <2>3. QED BY <2>2
<1>3. F = [k \in 0..NSlots |-> IF k = 0 THEN w ELSE ContextShift(F[k - 1], k - 1)]
  BY <1>2
<1> HIDE DEF F
<1>4. F[0] = w /\ \A k \in 1..NSlots : F[k] = ContextShift(F[k - 1], k - 1)
  BY <1>3, SlotFacts
<1>5. QED BY <1>1, <1>4

LEMMA SampleTurns ==
  ASSUME NEW w
  PROVE  \E f : /\ f[0] = w /\ EachSlot(AddSampled, w) = f[NSlots]
                /\ \A k \in 1..NSlots : f[k] = AddSampled(f[k - 1], k - 1)
<1> DEFINE F == CHOOSE f : f = [k \in 0..NSlots |-> IF k = 0 THEN w ELSE AddSampled(f[k - 1], k - 1)]
<1>1. EachSlot(AddSampled, w) = F[NSlots]
  BY DEF EachSlot, Turns, NSlots
<1>2. \E f : f = [k \in 0..NSlots |-> IF k = 0 THEN w ELSE AddSampled(f[k - 1], k - 1)]
  <2>1. PICK f : Runs("sample", 0, w, NSlots, f)
    BY SlotFacts, RunExists
  <2>2. f = [k \in 0..NSlots |-> IF k = 0 THEN w ELSE AddSampled(f[k - 1], k - 1)]
    BY <2>1 DEF Runs, StepOf
  <2>3. QED BY <2>2
<1>3. F = [k \in 0..NSlots |-> IF k = 0 THEN w ELSE AddSampled(F[k - 1], k - 1)]
  BY <1>2
<1> HIDE DEF F
<1>4. F[0] = w /\ \A k \in 1..NSlots : F[k] = AddSampled(F[k - 1], k - 1)
  BY <1>3, SlotFacts
<1>5. QED BY <1>1, <1>4

LEMMA AssignTurns ==
  ASSUME NEW w
  PROVE  \E f : /\ f[0] = w /\ EachSlot(AssignTo, w) = f[NSlots]
                /\ \A k \in 1..NSlots : f[k] = AssignTo(f[k - 1], k - 1)
<1> DEFINE F == CHOOSE f : f = [k \in 0..NSlots |-> IF k = 0 THEN w ELSE AssignTo(f[k - 1], k - 1)]
<1>1. EachSlot(AssignTo, w) = F[NSlots]
  BY DEF EachSlot, Turns, NSlots
<1>2. \E f : f = [k \in 0..NSlots |-> IF k = 0 THEN w ELSE AssignTo(f[k - 1], k - 1)]
  <2>1. PICK f : Runs("assign", 0, w, NSlots, f)
    BY SlotFacts, RunExists
  <2>2. f = [k \in 0..NSlots |-> IF k = 0 THEN w ELSE AssignTo(f[k - 1], k - 1)]
    BY <2>1 DEF Runs, StepOf
  <2>3. QED BY <2>2
<1>3. F = [k \in 0..NSlots |-> IF k = 0 THEN w ELSE AssignTo(F[k - 1], k - 1)]
  BY <1>2
<1> HIDE DEF F
<1>4. F[0] = w /\ \A k \in 1..NSlots : F[k] = AssignTo(F[k - 1], k - 1)
  BY <1>3, SlotFacts
<1>5. QED BY <1>1, <1>4

PromptPass(w, common, len) ==
  LET prompt(v, s) == AddPrompt(v, s, common[s], len[s]) IN EachSlot(prompt, w)

LEMMA PromptTurns ==
  ASSUME NEW w, NEW common, NEW len
  PROVE  \E f : /\ f[0] = w /\ PromptPass(w, common, len) = f[NSlots]
                /\ \A k \in 1..NSlots :
                     f[k] = AddPrompt(f[k - 1], k - 1, common[k - 1], len[k - 1])
<1> DEFINE F == CHOOSE f : f = [k \in 0..NSlots |-> IF k = 0 THEN w
                     ELSE AddPrompt(f[k - 1], k - 1, common[k - 1], len[k - 1])]
<1>1. PromptPass(w, common, len) = F[NSlots]
  BY DEF PromptPass, EachSlot, Turns, NSlots
<1>2. \E f : f = [k \in 0..NSlots |-> IF k = 0 THEN w
                     ELSE AddPrompt(f[k - 1], k - 1, common[k - 1], len[k - 1])]
  <2> DEFINE x == [common |-> common, len |-> len]
  <2>1. PICK f : Runs("prompt", x, w, NSlots, f)
    BY SlotFacts, RunExists
  <2>2. f = [k \in 0..NSlots |-> IF k = 0 THEN w
                     ELSE AddPrompt(f[k - 1], k - 1, common[k - 1], len[k - 1])]
    BY <2>1 DEF Runs, StepOf
  <2>3. QED BY <2>2
<1>3. F = [k \in 0..NSlots |-> IF k = 0 THEN w
                     ELSE AddPrompt(F[k - 1], k - 1, common[k - 1], len[k - 1])]
  BY <1>2
<1> HIDE DEF F
<1>4. F[0] = w /\ \A k \in 1..NSlots :
                    F[k] = AddPrompt(F[k - 1], k - 1, common[k - 1], len[k - 1])
  BY <1>3, SlotFacts
<1>5. QED BY <1>1, <1>4

LEMMA FillIs ==
  ASSUME NEW w, NEW common, NEW len
  PROVE  FillBatch(w, common, len)
           = PromptPass(EachSlot(AddSampled, EachSlot(ContextShift, w)), common, len)
BY DEF FillBatch, PromptPass

LEMMA PlaceTurns ==
  ASSUME NEW c, NEW b, Len(Ubatches(b)) \in Nat
  PROVE  \E f : /\ f[0] = [ok |-> TRUE, cache |-> c]
                /\ Decoded(c, b) = Decided(f[Len(Ubatches(b))])
                /\ \A k \in 1..Len(Ubatches(b)) : f[k] = PlaceNext(f[k - 1], Ubatches(b)[k])
<1> DEFINE x == Ubatches(b)
           w == [ok |-> TRUE, cache |-> c]
           n == Len(x)
           F == CHOOSE f : f = [k \in 0..n |-> IF k = 0 THEN w ELSE PlaceNext(f[k - 1], x[k])]
<1>1. Decoded(c, b) = Decided(F[n])
  BY DEF Decoded, Turns
<1> HIDE DEF x, w
<1>2. \E f : f = [k \in 0..n |-> IF k = 0 THEN w ELSE PlaceNext(f[k - 1], x[k])]
  <2>1. PICK f : Runs("place", x, w, n, f)
    BY RunExists DEF x
  <2>2. f = [k \in 0..n |-> IF k = 0 THEN w ELSE PlaceNext(f[k - 1], x[k])]
    BY <2>1 DEF Runs, StepOf
  <2>3. QED BY <2>2
<1>3. F = [k \in 0..n |-> IF k = 0 THEN w ELSE PlaceNext(F[k - 1], x[k])]
  BY <1>2
<1> HIDE DEF F
<1>4. F[0] = w /\ \A k \in 1..n : F[k] = PlaceNext(F[k - 1], x[k])
  <2>1. n \in Nat
    BY DEF x
  <2> HIDE DEF n
  <2>2. QED BY <1>3, <2>1
<1>5. QED BY <1>1, <1>4 DEF x, w

LEMMA PieceTurns ==
  ASSUME NEW w, NEW bad, Len(w.batch) \in Nat
  PROVE  \E f : /\ f[0] = w /\ DecodeBatch(w, bad) = f[Len(w.batch) + NBatch]
                /\ \A k \in 1..Len(w.batch) + NBatch : f[k] = NextPiece(f[k - 1], bad)
<1> DEFINE n == Len(w.batch) + NBatch
           F == CHOOSE f : f = [k \in 0..n |-> IF k = 0 THEN w ELSE NextPiece(f[k - 1], bad)]
<1>0. n \in Nat
  BY BatchAssumption
<1>1. DecodeBatch(w, bad) = F[n]
  BY DEF DecodeBatch, Turns
<1>2. \E f : f = [k \in 0..n |-> IF k = 0 THEN w ELSE NextPiece(f[k - 1], bad)]
  <2> HIDE DEF n
  <2>1. PICK f : Runs("piece", bad, w, n, f)
    BY <1>0, RunExists
  <2>2. f = [k \in 0..n |-> IF k = 0 THEN w ELSE NextPiece(f[k - 1], bad)]
    BY <2>1 DEF Runs, StepOf
  <2>3. QED BY <2>2
<1>3. F = [k \in 0..n |-> IF k = 0 THEN w ELSE NextPiece(F[k - 1], bad)]
  BY <1>2
<1> HIDE DEF F
<1>4. F[0] = w /\ \A k \in 1..n : F[k] = NextPiece(F[k - 1], bad)
  <2> HIDE DEF n
  <2>1. QED BY <1>0, <1>3
<1>5. QED BY <1>1, <1>4

SystemParts == (system + NBatch - 1) \div NBatch

LEMMA SystemTurns ==
  ASSUME NEW w, SystemParts \in Nat
  PROVE  \E f : /\ f[0] = ClearBoth(w) /\ SystemPromptUpdate(w) = AssignSystem(f[SystemParts])
                /\ \A k \in 1..SystemParts : f[k] = SystemPart(f[k - 1], k)
<1> DEFINE n == SystemParts
           v == ClearBoth(w)
           F == CHOOSE f : f = [k \in 0..n |-> IF k = 0 THEN v ELSE SystemPart(f[k - 1], k)]
<1>1. SystemPromptUpdate(w) = AssignSystem(F[n])
  BY DEF SystemPromptUpdate, Turns, SystemParts
<1>2. \E f : f = [k \in 0..n |-> IF k = 0 THEN v ELSE SystemPart(f[k - 1], k)]
  <2>1. PICK f : Runs("system", 0, v, n, f)
    BY RunExists
  <2>2. f = [k \in 0..n |-> IF k = 0 THEN v ELSE SystemPart(f[k - 1], k)]
    BY <2>1 DEF Runs, StepOf
  <2>3. QED BY <2>2
<1>3. F = [k \in 0..n |-> IF k = 0 THEN v ELSE SystemPart(F[k - 1], k)]
  BY <1>2
<1> HIDE DEF F
<1>4. F[0] = v /\ \A k \in 1..n : F[k] = SystemPart(F[k - 1], k)
  BY <1>3
<1>5. QED BY <1>1, <1>4

-----------------------------------------------------------------------------
(* The configurations the properties of the slots are about.  Outside of   *)
(* them TLC shows what goes wrong:                                         *)
(*  - a system prompt is decoded in sequence 0, which the worker gets as   *)
(*    -1, and slots that share its cells cannot be shifted one by one;     *)
(*  - a slot erase action does not reach the worker;                       *)
(*  - a piece that fails in its second ubatch leaves the first one behind, *)
(*    and the slot does not know of it;                                    *)
(*  - the caches are cleared once, in the first call of update_slots that  *)
(*    has nothing to do, and an early task is there before it.             *)
NoSystemPrompt == FirstSystem = 0 /\ NewSystems \subseteq {0}

AgreeCase == NoSystemPrompt /\ ~CanErase

StrayCase == OneUbatchPerPiece /\ (NSlots = 1 \/ NoSystemPrompt)

WholeCase == OneUbatchPerPiece /\ FirstSystem = 0 /\ NewSystems = {} /\ ~EarlyTask

(* The slots, and the record update_slots works on.                        *)
SlotRecord == [state : {"idle", "prompt", "run", "done", "ended"},
               n_past : Int, len : Nat, cached : Nat]

(* A slot with a prompt, or the beginning of it.                           *)
Begun(r) == r.state \in {"run", "done"} \/ r.len > 0

SlotForm(r) ==
  /\ r \in SlotRecord
  /\ r.state = "idle" => r.n_past = 0 /\ r.len = 0
  /\ IF Begun(r) THEN r.n_past = r.cached ELSE r.n_past <= 0
  /\ r.len > 0 => r.state = "prompt" /\ r.n_past < r.len
  /\ NoSystemPrompt => r.state # "ended"

(* Every slot's prompt and batch, and nothing of the system's.             *)
SlotToken == {t \in Token : \E s \in Slots : t.seq = {s + 1}}

WorkFields == {"m", "w", "slot", "batch", "i", "n", "ok", "need", "lost"}

Base(w) ==
  /\ DOMAIN w = WorkFields /\ system \in Nat /\ (NoSystemPrompt => system = 0)
  /\ GoodCache(w.m)
  /\ w.slot \in [Slots -> SlotRecord] /\ \A s \in Slots : SlotForm(w.slot[s])
  /\ w.batch \in Seq(SlotToken)
  /\ w.i \in Nat /\ w.n \in 1..NBatch /\ w.ok \in BOOLEAN /\ w.need \in BOOLEAN
  /\ w.lost \in SUBSET Slots

(* The tokens of a slot in the batch that are not decoded yet.             *)
Waiting(w, s) == {k \in TokensOf(w.batch, s + 1) : k > w.i}

WaitingPos(w, s) == {w.batch[k].pos : k \in Waiting(w, s)}

(* What a slot has, in the cache or in the batch, it has once, and what it *)
(* has it does not share; nothing is behind its end.                       *)
StrayOf(w, s) ==
  /\ Once(w.m, s + 1)
  /\ \A k, l \in Waiting(w, s) : w.batch[k].pos = w.batch[l].pos => k = l
  /\ WaitingPos(w, s) \cap PosOf(w.m, s + 1) = {}
  /\ \A t \in Slots \ {s} : Apart(w.m, s + 1, t + 1)
  /\ Begun(w.slot[s]) => \A p \in PosOf(w.m, s + 1) \union WaitingPos(w, s) : p < End(w, s)

Stray(w) == \A s \in Slots : StrayOf(w, s)

(* It has all the tokens it says it has.                                   *)
WholeOf(w, s) ==
  s \notin w.lost =>
    PosOf(w.m, s + 1) \union WaitingPos(w, s) = 0..w.slot[s].cached-1

Whole(w) == \A s \in Slots : WholeOf(w, s)

Good(w) ==
  /\ Base(w)
  /\ AgreeCase => Alike(w.m, w.w)
  /\ StrayCase => Stray(w)
  /\ WholeCase => Whole(w)

LEMMA CasesAre == WholeCase => NoSystemPrompt /\ StrayCase
BY DEF WholeCase, NoSystemPrompt, StrayCase

(* From w to v the position in the batch and the flags are the same.       *)
Rest(w, v) ==
  /\ DOMAIN v = WorkFields
  /\ v.i = w.i /\ v.n = w.n /\ v.ok = w.ok /\ v.need = w.need

OnlySlot(w, v, s) == \A t \in Slots \ {s} : v.slot[t] = w.slot[t]

LEMMA DiscardIs ==
  ASSUME NEW w, Base(w), NEW s \in Slots, IsFull(w, s), SlotCtx >= 2
  PROVE  /\ Discard(w, s) \in Nat /\ Keep + Discard(w, s) <= End(w, s)
         /\ End(w, s) \in Nat /\ End(w, s) = system + w.slot[s].n_past
<1>1. w.slot[s].n_past \in Int /\ system \in Nat /\ SlotCtx \in Nat
  BY ServerAssumption DEF Base, SlotRecord
<1>2. End(w, s) \in Int /\ End(w, s) >= 1 /\ End(w, s) = system + w.slot[s].n_past
  BY <1>1 DEF End, IsFull
<1> DEFINE e == End(w, s)
<1>3. Discard(w, s) = (e - 1) \div 2
  BY DEF Discard, Keep
<1> HIDE DEF e
<1>4. e \in Int /\ e >= 1
  BY <1>2 DEF e
<1>5. (e - 1) \div 2 \in Nat /\ 1 + (e - 1) \div 2 <= e
  BY <1>4
<1>6. QED BY <1>2, <1>3, <1>5 DEF e, Keep

LEMMA ShiftFields ==
  ASSUME NEW w, Base(w), NEW s \in Slots, IsFull(w, s)
  PROVE  LET v == ContextShift(w, s)
             n == Discard(w, s)
         IN  /\ Rest(w, v) /\ v.batch = w.batch /\ v.lost = w.lost
             /\ v.m = Shifted(w.m, s + 1, n, End(w, s))
             /\ v.w = Shifted(w.w, s, n, End(w, s))
             /\ DOMAIN v.slot = Slots /\ OnlySlot(w, v, s)
             /\ v.slot[s] = [w.slot[s] EXCEPT !.n_past = @ - n, !.cached = @ - n]
<1> DEFINE v == ContextShift(w, s)
           n == Discard(w, s)
           a == Shifted(w.m, s + 1, n, End(w, s))
           b == Shifted(w.w, s, n, End(w, s))
<1>1. v = [w EXCEPT !.m = a, !.w = b, !.slot[s].n_past = @ - n, !.slot[s].cached = @ - n]
  BY DEF ContextShift
<1> HIDE DEF v, n, a, b
<1>2. Rest(w, v) /\ v.batch = w.batch /\ v.lost = w.lost /\ v.m = a /\ v.w = b
  BY <1>1 DEF Base, WorkFields, Rest
<1>3. v.slot = [[w.slot EXCEPT ![s].n_past = @ - n] EXCEPT ![s].cached = @ - n]
  BY <1>1 DEF Base, WorkFields
<1>4. DOMAIN w.slot = Slots /\ w.slot[s] \in SlotRecord
  BY DEF Base
<1>5. DOMAIN v.slot = Slots /\ \A t \in Slots \ {s} : v.slot[t] = w.slot[t]
  BY <1>3, <1>4
<1>6. v.slot[s] = [w.slot[s] EXCEPT !.n_past = @ - n, !.cached = @ - n]
  BY <1>3, <1>4
<1>7. QED BY <1>2, <1>5, <1>6 DEF v, n, a, b, OnlySlot

(* A context shift of one sequence.                                        *)
LEMMA ShiftedGood ==
  ASSUME NEW c, GoodCache(c), NEW q \in Nat, NEW n \in Nat, NEW e \in Nat
  PROVE  GoodCache(Shifted(c, q, n, e))
<1>1. GoodCache(kv_cache_seq_rm(c, q, Keep, Keep + n))
  BY RmGood DEF Keep
<1>2. GoodCache(kv_cache_seq_add(kv_cache_seq_rm(c, q, Keep, Keep + n), q, Keep + n, e, -n))
  BY <1>1, AddGood DEF Keep
<1>3. QED BY <1>2 DEF Shifted

LEMMA ShiftedAlike ==
  ASSUME NEW c, NEW d, Alike(c, d), NEW s \in Nat, NEW n \in Nat, NEW e \in Nat
  PROVE  Alike(Shifted(c, s + 1, n, e), Shifted(d, s, n, e))
<1>1. Keep \in Int /\ Keep + n \in Int /\ -n \in Int
  BY DEF Keep
<1>2. Alike(kv_cache_seq_rm(c, s + 1, Keep, Keep + n), kv_cache_seq_rm(d, s, Keep, Keep + n))
  BY <1>1, RmAlike
<1>3. QED BY <1>1, <1>2, AddAlike DEF Shifted

(* What is left of the positions, and where those after the gap go.        *)
LEMMA ShiftedSeqs ==
  ASSUME NEW c, GoodCache(c), NEW q \in Nat, NEW n \in Nat, NEW e \in Nat, Keep + n <= e
  PROVE  LET d == Shifted(c, q, n, e)
         IN  /\ PosOf(d, q) = {To(p, Keep + n, e, -n) :
                                 p \in {x \in PosOf(c, q) : x < Keep \/ x >= Keep + n}}
             /\ Once(c, q) => Once(d, q)
             /\ \A r \in Nat \ {q} : Apart(c, r, q) => SameSeq(c, d, r)
             /\ \A r, t \in Nat : Apart(c, r, t) => Apart(d, r, t)
<1> DEFINE a == kv_cache_seq_rm(c, q, Keep, Keep + n)
           d == Shifted(c, q, n, e)
<1>1. Keep \in Int /\ Keep + n \in Int /\ -n \in Int /\ Keep = 1
  BY DEF Keep
<1>2. d = kv_cache_seq_add(a, q, Keep + n, e, -n)
  BY DEF Shifted
<1>3. GoodCache(a)
  BY <1>1, RmGood
<1>4. /\ PosOf(a, q) = {p \in PosOf(c, q) : ~InRange(p, Keep, Keep + n)}
      /\ Once(c, q) => Once(a, q)
      /\ \A r \in Nat \ {q} : SameSeq(c, a, r)
      /\ \A r, t \in Nat : Apart(c, r, t) => Apart(a, r, t)
  BY <1>1, RmSeqs
<1> HIDE DEF a, d
<1>5. PosOf(c, q) \in SUBSET Nat
  BY PositionsAre
<1>6. \A p \in Nat : ~InRange(p, Keep, Keep + n) <=> (p < Keep \/ p >= Keep + n)
  BY <1>1 DEF InRange
<1>7. PosOf(a, q) = {x \in PosOf(c, q) : x < Keep \/ x >= Keep + n}
  BY <1>4, <1>5, <1>6
<1>8. \A p \in PosOf(a, q) : p \in Nat /\ (p < Keep \/ p >= Keep + n)
  BY <1>5, <1>7
<1>9. \A p \in PosOf(a, q) :
        To(p, Keep + n, e, -n) = IF p >= Keep + n /\ p < e THEN p - n ELSE p
  BY <1>1, <1>8 DEF To, InRange
<1>10. \A p \in PosOf(a, q) : To(p, Keep + n, e, -n) >= 0
  BY <1>1, <1>8, <1>9
<1>11. \A p, r \in PosOf(a, q) : To(p, Keep + n, e, -n) = To(r, Keep + n, e, -n) => p = r
  BY <1>1, <1>8, <1>9
<1>12. /\ PosOf(d, q) = {To(p, Keep + n, e, -n) : p \in PosOf(a, q)}
       /\ Once(a, q) => Once(d, q)
       /\ \A r \in Nat : Apart(a, r, q) => SameSeq(a, d, r)
       /\ \A r, t \in Nat : Apart(a, r, t) => Apart(d, r, t)
  BY <1>1, <1>2, <1>3, <1>10, <1>11, AddSeqs
<1>13. \A r \in Nat \ {q} : Apart(c, r, q) => SameSeq(c, d, r)
  BY <1>4, <1>12 DEF SameSeq
<1>14. QED BY <1>4, <1>7, <1>12, <1>13 DEF d

-----------------------------------------------------------------------------
(* The first pass: context shifts.                                         *)
LEMMA NoneWait ==
  ASSUME NEW w, w.batch = <<>>, NEW s
  PROVE  Waiting(w, s) = {} /\ WaitingPos(w, s) = {}
BY DEF Waiting, WaitingPos, TokensOf

LEMMA ShiftKeeps ==
  ASSUME NEW w, Good(w), NEW s \in Slots, SlotCtx >= 2, w.batch = <<>>,
         IsFull(w, s) => w.slot[s].cached >= Discard(w, s)
  PROVE  LET v == ContextShift(w, s)
         IN  /\ Good(v) /\ Rest(w, v) /\ v.batch = <<>> /\ v.lost = w.lost
             /\ OnlySlot(w, v, s)
             /\ v.slot[s].state = w.slot[s].state /\ v.slot[s].len = w.slot[s].len
<1> DEFINE v == ContextShift(w, s)
           n == Discard(w, s)
           e == End(w, s)
<1>1. CASE ~IsFull(w, s)
  <2>1. v = w
    BY <1>1 DEF ContextShift
  <2>2. QED BY <2>1 DEF Rest, OnlySlot, Good, Base
<1>2. CASE IsFull(w, s)
  <2>1. /\ n \in Nat /\ Keep + n <= e /\ e \in Nat /\ e = system + w.slot[s].n_past
        /\ w.slot[s].cached >= n
    BY <1>2, DiscardIs DEF Good
  <2>2. /\ Rest(w, v) /\ v.batch = <<>> /\ v.lost = w.lost
        /\ v.m = Shifted(w.m, s + 1, n, e) /\ v.w = Shifted(w.w, s, n, e)
        /\ DOMAIN v.slot = Slots /\ OnlySlot(w, v, s)
        /\ v.slot[s] = [w.slot[s] EXCEPT !.n_past = @ - n, !.cached = @ - n]
    BY <1>2, ShiftFields DEF Good
  <2> HIDE DEF v, n, e
  <2>3. s \in Nat /\ s + 1 \in Nat
    BY SlotFacts
  <2>4. /\ w.slot[s] \in SlotRecord /\ SlotForm(w.slot[s]) /\ w.slot[s].cached \in Nat
        /\ w.slot[s].n_past \in Int /\ GoodCache(w.m) /\ system \in Nat
    BY DEF Good, Base, SlotRecord
  <2>5. /\ v.slot[s] \in SlotRecord /\ SlotForm(v.slot[s])
        /\ v.slot[s].state = w.slot[s].state /\ v.slot[s].cached = w.slot[s].cached - n
        /\ v.slot[s].len = w.slot[s].len /\ v.slot[s].n_past = w.slot[s].n_past - n
        /\ Begun(v.slot[s]) <=> Begun(w.slot[s])
    <3> DEFINE r == w.slot[s]
               q == v.slot[s]
    <3>1. /\ q.state = r.state /\ q.len = r.len /\ q.n_past = r.n_past - n
          /\ q.cached = r.cached - n /\ q \in SlotRecord
      <4>1. q = [r EXCEPT !.n_past = r.n_past - n, !.cached = r.cached - n]
        BY <2>2
      <4>2. r \in SlotRecord /\ r.n_past - n \in Int /\ r.cached - n \in Nat
        BY <2>1, <2>4
      <4> HIDE DEF r, q
      <4>3. QED BY <4>1, <4>2 DEF SlotRecord
    <3>2. r.state # "idle"
      BY <1>2 DEF IsFull
    <3> HIDE DEF r, q
    <3>3. SlotForm(r) /\ r.len \in Nat /\ r.n_past \in Int /\ r.cached \in Nat
      BY <2>4 DEF r, SlotRecord
    <3>4. SlotForm(q)
      BY <2>1, <3>1, <3>2, <3>3 DEF SlotForm, Begun
    <3>5. QED BY <3>1, <3>4 DEF r, q, Begun
  <2>6. GoodCache(v.m)
    <3>1. GoodCache(Shifted(w.m, s + 1, n, e))
      BY <2>1, <2>3, <2>4, ShiftedGood
    <3>2. QED BY <2>2, <3>1
  <2>7. Base(v)
    <3>1. \A t \in Slots : v.slot[t] \in SlotRecord /\ SlotForm(v.slot[t])
      BY <2>2, <2>5 DEF OnlySlot, Good, Base
    <3>2. v.slot \in [Slots -> SlotRecord]
      <4>1. v.slot = [t \in Slots |-> v.slot[t]]
        <5>1. w.slot = [t \in Slots |-> w.slot[t]]
          BY DEF Good, Base
        <5> QED BY <1>2, <5>1 DEF v, ContextShift, Good, Base, WorkFields
      <4>2. QED BY <3>1, <4>1
    <3>3. QED BY <2>2, <2>6, <3>1, <3>2 DEF Good, Base, Rest
  <2>8. ASSUME AgreeCase PROVE Alike(v.m, v.w)
    BY <2>1, <2>2, <2>3, <2>8, ShiftedAlike DEF Good
  <2>9. /\ PosOf(v.m, s + 1) = {To(p, Keep + n, e, -n) :
                  p \in {x \in PosOf(w.m, s + 1) : x < Keep \/ x >= Keep + n}}
        /\ Once(w.m, s + 1) => Once(v.m, s + 1)
        /\ \A r \in Nat \ {s + 1} : Apart(w.m, r, s + 1) => SameSeq(w.m, v.m, r)
        /\ \A r, t \in Nat : Apart(w.m, r, t) => Apart(v.m, r, t)
    BY <2>1, <2>2, <2>3, <2>4, ShiftedSeqs
  <2>10. PosOf(w.m, s + 1) \in SUBSET Nat
    BY <2>4, PositionsAre
  <2>11. \A t : WaitingPos(v, t) = {} /\ Waiting(v, t) = {} /\ WaitingPos(w, t) = {}
    BY <2>2, NoneWait
  <2>12. ASSUME StrayCase, NEW t \in Slots \ {s}
         PROVE  PosOf(v.m, t + 1) = PosOf(w.m, t + 1) /\ Once(v.m, t + 1)
    <3>1. t + 1 \in Nat \ {s + 1}
      BY SlotFacts
    <3>2. Apart(w.m, t + 1, s + 1) /\ Once(w.m, t + 1)
      BY <2>12 DEF Good, Stray, StrayOf
    <3>3. QED BY <2>9, <3>1, <3>2 DEF SameSeq
  <2>13. ASSUME StrayCase PROVE Stray(v)
    <3>1. ASSUME NEW t \in Slots PROVE \A x \in Slots \ {t} : Apart(v.m, t + 1, x + 1)
      <4>1. \A x \in Slots \ {t} : Apart(w.m, t + 1, x + 1)
        BY <2>13 DEF Good, Stray, StrayOf
      <4>2. QED BY <2>9, <4>1, SlotFacts
    <3>2. ASSUME NEW t \in Slots \ {s} PROVE StrayOf(v, t)
      <4>1. v.slot[t] = w.slot[t] /\ End(v, t) = End(w, t)
        BY <2>2 DEF OnlySlot, End
      <4>2. PosOf(v.m, t + 1) = PosOf(w.m, t + 1) /\ Once(v.m, t + 1)
        BY <2>12, <2>13
      <4>3. StrayOf(w, t)
        BY <2>13 DEF Good, Stray
      <4>4. QED BY <2>11, <3>1, <4>1, <4>2, <4>3 DEF StrayOf
    <3>3. StrayOf(v, s)
      <4>1. Once(v.m, s + 1)
        BY <2>9, <2>13 DEF Good, Stray, StrayOf
      <4>2. ASSUME Begun(v.slot[s]), NEW p \in PosOf(v.m, s + 1) PROVE p < End(v, s)
        <5>1. End(v, s) = e - n
          BY <2>1, <2>4, <2>5 DEF End
        <5>2. PICK x \in PosOf(w.m, s + 1) : (x < Keep \/ x >= Keep + n) /\ p = To(x, Keep + n, e, -n)
          BY <2>9
        <5>3. x < e /\ x \in Nat
          BY <2>5, <2>10, <2>13, <4>2 DEF Good, Stray, StrayOf, e
        <5>4. Keep = 1
          BY DEF Keep
        <5>5. QED BY <2>1, <5>1, <5>2, <5>3, <5>4 DEF To, InRange
      <4>3. QED BY <2>11, <3>1, <4>1, <4>2 DEF StrayOf
    <3>4. QED BY <3>2, <3>3 DEF Stray
  <2>14. ASSUME WholeCase PROVE Whole(v)
    <3>0. StrayCase /\ system = 0
      BY <2>14, CasesAre DEF Good, Base
    <3>1. ASSUME NEW t \in Slots \ {s} PROVE WholeOf(v, t)
      <4>1. v.slot[t] = w.slot[t]
        BY <2>2 DEF OnlySlot
      <4>2. PosOf(v.m, t + 1) = PosOf(w.m, t + 1)
        BY <2>12, <3>0
      <4>3. WholeOf(w, t)
        BY <2>14 DEF Good, Whole
      <4>4. QED BY <2>2, <2>11, <4>1, <4>2, <4>3 DEF WholeOf
    <3>2. ASSUME s \notin v.lost
          PROVE  PosOf(v.m, s + 1) = 0..v.slot[s].cached-1
      <4>1. e >= SlotCtx - 1 /\ SlotCtx \in Nat
        BY <1>2, ServerAssumption DEF IsFull, e
      <4>2. Begun(w.slot[s])
        BY <2>1, <2>4, <3>0, <4>1 DEF SlotForm
      <4>3. w.slot[s].cached = e
        BY <2>1, <2>4, <3>0, <4>2 DEF SlotForm
      <4>4. PosOf(w.m, s + 1) = 0..e-1
        BY <2>2, <2>5, <2>11, <2>14, <3>2, <4>3 DEF Good, Whole, WholeOf
      <4>5. Keep = 1
        BY DEF Keep
      <4>6. v.slot[s].cached = e - n
        BY <2>5, <4>3
      <4>7. ASSUME NEW p \in PosOf(v.m, s + 1) PROVE p \in 0..e-n-1
        <5>1. PICK x \in 0..e-1 : (x < 1 \/ x >= 1 + n) /\ p = To(x, 1 + n, e, -n)
          BY <2>9, <4>4, <4>5
        <5>2. QED BY <2>1, <4>5, <5>1 DEF To, InRange
      <4>8. ASSUME NEW p \in 0..e-n-1 PROVE p \in PosOf(v.m, s + 1)
        <5> DEFINE x == IF p < 1 THEN p ELSE p + n
        <5>1. x \in 0..e-1 /\ (x < 1 \/ x >= 1 + n) /\ p = To(x, 1 + n, e, -n)
          BY <2>1, <4>5 DEF To, InRange
        <5> HIDE DEF x
        <5>2. QED BY <2>9, <4>4, <4>5, <5>1
      <4>9. QED BY <4>6, <4>7, <4>8
    <3>3. WholeOf(v, s)
      BY <2>11, <3>2 DEF WholeOf
    <3>4. QED BY <3>1, <3>3 DEF Whole
  <2>15. QED BY <2>2, <2>5, <2>7, <2>8, <2>13, <2>14 DEF Good, v
<1>3. QED BY <1>1, <1>2

SameStates(w, v) ==
  \A s \in Slots : v.slot[s].state = w.slot[s].state /\ v.slot[s].len = w.slot[s].len

LEMMA ShiftPass ==
  ASSUME NEW w, Good(w), SlotCtx >= 2, w.batch = <<>>, ~Throws(w)
  PROVE  LET v == EachSlot(ContextShift, w)
         IN  Good(v) /\ Rest(w, v) /\ v.batch = <<>> /\ SameStates(w, v)
<1>1. PICK f : /\ f[0] = w /\ EachSlot(ContextShift, w) = f[NSlots]
               /\ \A k \in 1..NSlots : f[k] = ContextShift(f[k - 1], k - 1)
  BY ShiftTurns
<1> DEFINE P == {k \in 0..NSlots :
                   /\ Good(f[k]) /\ Rest(w, f[k]) /\ f[k].batch = <<>> /\ SameStates(w, f[k])
                   /\ \A s \in Slots : s >= k => f[k].slot[s] = w.slot[s]}
<1>2. 0 \in P
  <2>1. Rest(w, w) /\ SameStates(w, w)
    BY DEF Good, Base, Rest, SameStates
  <2>2. 0 \in 0..NSlots
    BY SlotFacts
  <2>3. QED BY <1>1, <2>1, <2>2
<1>3. ASSUME NEW k \in 1..NSlots, k - 1 \in P PROVE k \in P
  <2> DEFINE s == k - 1
             a == f[k - 1]
             v == f[k]
  <2>1. s \in Slots /\ v = ContextShift(a, s) /\ k \in 0..NSlots
    BY <1>1, SlotFacts
  <2>2. /\ Good(a) /\ Rest(w, a) /\ a.batch = <<>> /\ SameStates(w, a)
        /\ \A t \in Slots : t >= s => a.slot[t] = w.slot[t]
    BY <1>3
  <2>3. s \in Nat /\ \A t \in Slots : t \in Nat
    BY <2>1, SlotFacts
  <2>4. IsFull(a, s) => a.slot[s].cached >= Discard(a, s)
    <3>1. a.slot[s] = w.slot[s]
      BY <2>1, <2>2, <2>3
    <3>2. End(a, s) = End(w, s)
      BY <3>1 DEF End
    <3>3. IsFull(a, s) <=> IsFull(w, s)
      BY <3>1, <3>2 DEF IsFull
    <3>4. Discard(a, s) = Discard(w, s)
      BY <3>2 DEF Discard
    <3>5. IsFull(w, s) => ~(w.slot[s].cached < Discard(w, s))
      BY <2>1 DEF Throws
    <3>6. IsFull(w, s) => Discard(w, s) \in Nat
      BY <2>1, DiscardIs DEF Good
    <3>7. w.slot[s].cached \in Nat
      BY <2>1 DEF Good, Base, SlotRecord
    <3>8. QED BY <3>1, <3>3, <3>4, <3>5, <3>6, <3>7
  <2> HIDE DEF a, s
  <2>5. /\ Good(v) /\ Rest(a, v) /\ v.batch = <<>> /\ OnlySlot(a, v, s)
        /\ v.slot[s].state = a.slot[s].state /\ v.slot[s].len = a.slot[s].len
    BY <2>1, <2>2, <2>4, ShiftKeeps
  <2>6. Rest(w, v)
    BY <2>2, <2>5 DEF Rest
  <2>7. SameStates(w, v)
    BY <2>2, <2>5 DEF SameStates, OnlySlot
  <2>8. ASSUME NEW t \in Slots, t >= k PROVE v.slot[t] = w.slot[t]
    <3>1. t >= s /\ t # s
      BY <2>3, <2>8 DEF s
    <3>2. QED BY <2>2, <2>5, <3>1 DEF OnlySlot
  <2>9. QED BY <2>1, <2>5, <2>6, <2>7, <2>8
<1>4. NSlots \in Nat
  BY SlotFacts
<1> HIDE DEF P
<1>5. \A k \in 0..NSlots : k \in P
  BY <1>2, <1>3, <1>4, UpToAll
<1>6. NSlots \in P
  BY <1>4, <1>5
<1>7. QED BY <1>1, <1>6 DEF P
-----------------------------------------------------------------------------
(* Tokens of one slot that join the batch.                                 *)
LEMMA Joins ==
  ASSUME NEW b \in Seq(SlotToken), NEW u \in Seq(SlotToken), NEW s \in Slots,
         \A j \in 1..Len(u) : u[j].seq = {s + 1}
  PROVE  /\ b \o u \in Seq(SlotToken)
         /\ \A t \in Slots \ {s} : TokensOf(b \o u, t + 1) = TokensOf(b, t + 1)
         /\ \A k \in DOMAIN b : (b \o u)[k] = b[k]
         /\ TokensOf(b, s + 1) = {} =>
              TokensOf(b \o u, s + 1) = {Len(b) + j : j \in 1..Len(u)}
         /\ \A j \in 1..Len(u) : (b \o u)[Len(b) + j] = u[j]
<1> DEFINE v == b \o u
           n == Len(b)
           l == Len(u)
<1>1. /\ n \in Nat /\ l \in Nat /\ DOMAIN b = 1..n /\ DOMAIN v = 1..n+l
      /\ v \in Seq(SlotToken)
  OBVIOUS
<1>2. \A k \in 1..n : v[k] = b[k]
  OBVIOUS
<1>3. \A j \in 1..l : v[n + j] = u[j]
  OBVIOUS
<1>4. \A k \in 1..n+l : k \in 1..n \/ \E j \in 1..l : k = n + j
  <2> HIDE DEF n, l
  <2>1. ASSUME NEW k \in 1..n+l, k \notin 1..n PROVE k - n \in 1..l /\ k = n + (k - n)
    BY <1>1, <2>1
  <2>2. QED BY <2>1
<1>5. \A j \in 1..l : n + j \in 1..n+l
  BY <1>1
<1>6. \A k \in 1..n : k \in 1..n+l
  BY <1>1
<1> HIDE DEF v, n, l
<1>7. ASSUME NEW t \in Slots \ {s} PROVE TokensOf(v, t + 1) = TokensOf(b, t + 1)
  <2>1. \A j \in 1..l : t + 1 \notin v[n + j].seq
    <3>1. t + 1 # s + 1
      BY SlotFacts
    <3>2. QED BY <1>3, <3>1 DEF l
  <2>2. QED BY <1>1, <1>2, <1>4, <1>6, <2>1 DEF TokensOf
<1>8. ASSUME TokensOf(b, s + 1) = {} PROVE TokensOf(v, s + 1) = {n + j : j \in 1..l}
  <2>1. \A j \in 1..l : s + 1 \in v[n + j].seq
    BY <1>3 DEF l
  <2>2. \A k \in 1..n : s + 1 \notin v[k].seq
    BY <1>1, <1>2, <1>8 DEF TokensOf
  <2>3. \A j \in 1..l : n + j \in TokensOf(v, s + 1)
    BY <1>1, <1>5, <2>1 DEF TokensOf
  <2>4. ASSUME NEW k \in TokensOf(v, s + 1) PROVE \E j \in 1..l : k = n + j
    <3>1. k \in 1..n+l /\ s + 1 \in v[k].seq
      BY <1>1 DEF TokensOf
    <3>2. QED BY <1>4, <2>2, <3>1
  <2>5. QED BY <2>3, <2>4
<1>9. QED BY <1>1, <1>2, <1>3, <1>7, <1>8 DEF v, n, l

(* From w to v the tokens u of slot s, which had none, joined the batch.   *)
Joined(w, v, u, s) ==
  /\ Base(w) /\ w.i = 0 /\ v.i = 0
  /\ u \in Seq(SlotToken) /\ s \in Slots /\ \A j \in 1..Len(u) : u[j].seq = {s + 1}
  /\ v.batch = w.batch \o u /\ TokensOf(w.batch, s + 1) = {}

LEMMA JoinWaits ==
  ASSUME NEW w, NEW v, NEW u, NEW s, Joined(w, v, u, s)
  PROVE  /\ v.batch \in Seq(SlotToken)
         /\ \A t \in Slots \ {s} : /\ Waiting(v, t) = Waiting(w, t)
                                   /\ \A k \in Waiting(w, t) : v.batch[k] = w.batch[k]
                                   /\ WaitingPos(v, t) = WaitingPos(w, t)
                                   /\ TokensOf(v.batch, t + 1) = TokensOf(w.batch, t + 1)
         /\ WaitingPos(v, s) = {u[j].pos : j \in 1..Len(u)}
         /\ (\A j, l \in 1..Len(u) : u[j].pos = u[l].pos => j = l) =>
              \A k, l \in Waiting(v, s) : v.batch[k].pos = v.batch[l].pos => k = l
<1> USE DEF Joined
<1> DEFINE b == w.batch
           n == Len(b)
<1>1. b \in Seq(SlotToken) /\ n \in Nat
  BY DEF Base
<1> HIDE DEF b
<1>2. /\ b \o u \in Seq(SlotToken)
      /\ \A t \in Slots \ {s} : TokensOf(b \o u, t + 1) = TokensOf(b, t + 1)
      /\ \A k \in DOMAIN b : (b \o u)[k] = b[k]
      /\ TokensOf(b, s + 1) = {} => TokensOf(b \o u, s + 1) = {Len(b) + j : j \in 1..Len(u)}
      /\ \A j \in 1..Len(u) : (b \o u)[Len(b) + j] = u[j]
  BY <1>1, Joins
<1>3. v.batch = b \o u /\ w.batch = b /\ TokensOf(b, s + 1) = {}
  BY DEF b
<1> HIDE DEF n
<1>4. ASSUME NEW t \in Slots \ {s}
      PROVE  /\ Waiting(v, t) = Waiting(w, t)
             /\ \A k \in Waiting(w, t) : v.batch[k] = w.batch[k]
             /\ TokensOf(v.batch, t + 1) = TokensOf(w.batch, t + 1)
  BY <1>2, <1>3 DEF Waiting, TokensOf
<1>5. \A t \in Slots \ {s} : WaitingPos(v, t) = WaitingPos(w, t)
  BY <1>4 DEF WaitingPos
<1>6. Waiting(v, s) = {n + j : j \in 1..Len(u)}
  <2>1. TokensOf(v.batch, s + 1) = {n + j : j \in 1..Len(u)}
    BY <1>2, <1>3 DEF n
  <2>2. \A j \in 1..Len(u) : n + j > 0
    BY <1>1
  <2>3. QED BY <2>1, <2>2 DEF Waiting
<1>7. \A j \in 1..Len(u) : v.batch[n + j] = u[j]
  BY <1>2, <1>3 DEF n
<1>8. WaitingPos(v, s) = {u[j].pos : j \in 1..Len(u)}
  <2>1. ASSUME NEW p \in WaitingPos(v, s) PROVE \E j \in 1..Len(u) : p = u[j].pos
    <3>1. PICK k \in Waiting(v, s) : p = v.batch[k].pos
      BY DEF WaitingPos
    <3>2. PICK j \in 1..Len(u) : k = n + j
      BY <1>6
    <3>3. QED BY <1>7, <3>1, <3>2
  <2>2. ASSUME NEW j \in 1..Len(u) PROVE u[j].pos \in WaitingPos(v, s)
    <3>1. n + j \in Waiting(v, s) /\ v.batch[n + j].pos = u[j].pos
      BY <1>6, <1>7
    <3>2. QED BY <3>1 DEF WaitingPos
  <2>3. QED BY <2>1, <2>2
<1>9. ASSUME \A j, l \in 1..Len(u) : u[j].pos = u[l].pos => j = l,
             NEW k \in Waiting(v, s), NEW x \in Waiting(v, s), v.batch[k].pos = v.batch[x].pos
      PROVE  k = x
  <2>1. PICK j \in 1..Len(u) : k = n + j
    BY <1>6
  <2>2. PICK l \in 1..Len(u) : x = n + l
    BY <1>6
  <2>3. j = l
    BY <1>7, <1>9, <2>1, <2>2
  <2>4. QED BY <2>1, <2>2, <2>3
<1>10. v.batch \in Seq(SlotToken)
  BY <1>2, <1>3
<1>11. QED BY <1>4, <1>5, <1>8, <1>9, <1>10

(* Slots the step of another one leaves as they are.                       *)
LEMMA OthersKeep ==
  ASSUME NEW w, NEW v, NEW u, NEW s, Joined(w, v, u, s), OnlySlot(w, v, s),
         \A t \in Slots \ {s} : SameSeq(w.m, v.m, t + 1),
         \A q, r \in Nat : Apart(w.m, q, r) => Apart(v.m, q, r),
         \A t \in Slots \ {s} : t \in v.lost <=> t \in w.lost
  PROVE  /\ Stray(w) => /\ \A t \in Slots \ {s} : StrayOf(v, t)
                        /\ \A t \in Slots \ {s} : Apart(v.m, s + 1, t + 1)
         /\ \A t \in Slots \ {s} : WholeOf(w, t) => WholeOf(v, t)
<1>1. ASSUME NEW t \in Slots \ {s}
      PROVE  /\ Waiting(v, t) = Waiting(w, t)
             /\ \A k \in Waiting(w, t) : v.batch[k] = w.batch[k]
             /\ WaitingPos(v, t) = WaitingPos(w, t)
  <2>1. /\ v.batch \in Seq(SlotToken)
        /\ \A x \in Slots \ {s} : /\ Waiting(v, x) = Waiting(w, x)
                                  /\ \A k \in Waiting(w, x) : v.batch[k] = w.batch[k]
                                  /\ WaitingPos(v, x) = WaitingPos(w, x)
                                  /\ TokensOf(v.batch, x + 1) = TokensOf(w.batch, x + 1)
        /\ WaitingPos(v, s) = {u[j].pos : j \in 1..Len(u)}
        /\ (\A j, l \in 1..Len(u) : u[j].pos = u[l].pos => j = l) =>
             \A k, l \in Waiting(v, s) : v.batch[k].pos = v.batch[l].pos => k = l
    BY JoinWaits
  <2>2. QED BY <2>1
<1>2. ASSUME NEW t \in Slots \ {s}
      PROVE  /\ v.slot[t] = w.slot[t] /\ End(v, t) = End(w, t)
             /\ PosOf(v.m, t + 1) = PosOf(w.m, t + 1)
             /\ Once(w.m, t + 1) => Once(v.m, t + 1)
  BY DEF OnlySlot, End, SameSeq
<1>3. ASSUME Stray(w), NEW t \in Slots, NEW x \in Slots \ {t} PROVE Apart(v.m, t + 1, x + 1)
  <2>1. Apart(w.m, t + 1, x + 1)
    BY <1>3 DEF Stray, StrayOf
  <2>2. QED BY <2>1, SlotFacts
<1>4. ASSUME Stray(w), NEW t \in Slots \ {s} PROVE StrayOf(v, t)
  <2>1. StrayOf(w, t)
    BY <1>4 DEF Stray
  <2>2. QED BY <1>1, <1>2, <1>3, <1>4, <2>1 DEF StrayOf
<1>5. ASSUME NEW t \in Slots \ {s}, WholeOf(w, t) PROVE WholeOf(v, t)
  <2>1. /\ WaitingPos(v, t) = WaitingPos(w, t) /\ PosOf(v.m, t + 1) = PosOf(w.m, t + 1)
        /\ v.slot[t] = w.slot[t] /\ (t \in v.lost <=> t \in w.lost)
    BY <1>1, <1>2
  <2>2. QED BY <1>5, <2>1 DEF WholeOf
<1>6. s \in Slots
  BY DEF Joined
<1>7. QED BY <1>3, <1>4, <1>5, <1>6

(* The second pass: the tokens that were sampled last.                     *)
LEMMA SampleFields ==
  ASSUME NEW w, Base(w), NEW s \in Slots, w.slot[s].state = "run"
  PROVE  LET v == AddSampled(w, s)
         IN  /\ Rest(w, v) /\ v.lost = w.lost /\ v.m = w.m /\ v.w = w.w
             /\ v.batch = w.batch \o <<[pos |-> End(w, s), seq |-> {s + 1}]>>
             /\ v.slot \in [Slots -> SlotRecord] /\ OnlySlot(w, v, s)
             /\ v.slot[s] = At("run", w.slot[s].n_past + 1, 0)
             /\ SlotForm(v.slot[s])
<1> DEFINE v == AddSampled(w, s)
           t == [pos |-> End(w, s), seq |-> {s + 1}]
           b == Append(w.batch, t)
           r == w.slot[s]
<1>1. v = [w EXCEPT !.batch = b, !.slot[s].n_past = @ + 1, !.slot[s].cached = @ + 1]
  BY DEF AddSampled
<1>2. w.batch \in Seq(SlotToken)
  BY DEF Base
<1>3. b = w.batch \o <<t>>
  <2> HIDE DEF t
  <2>1. QED BY <1>2
<1>4. w.slot \in [Slots -> SlotRecord] /\ r \in SlotRecord /\ SlotForm(r) /\ r.state = "run"
  BY DEF Base
<1> HIDE DEF v, b
<1>5. Rest(w, v) /\ v.lost = w.lost /\ v.m = w.m /\ v.w = w.w /\ v.batch = b
  BY <1>1 DEF Base, WorkFields, Rest
<1>6. v.slot = [[w.slot EXCEPT ![s].n_past = @ + 1] EXCEPT ![s].cached = @ + 1]
  BY <1>1 DEF Base, WorkFields
<1>7. v.slot[s] = [r EXCEPT !.n_past = r.n_past + 1, !.cached = r.cached + 1]
  BY <1>4, <1>6
<1>8. r.n_past = r.cached /\ r.len = 0 /\ r.cached \in Nat /\ r.n_past \in Int
  BY <1>4 DEF SlotForm, Begun, SlotRecord
<1>9. OnlySlot(w, v, s) /\ DOMAIN v.slot = Slots /\ v.slot = [x \in Slots |-> v.slot[x]]
  BY <1>4, <1>6 DEF OnlySlot
<1> HIDE DEF r
<1>10. v.slot[s] = At("run", r.n_past + 1, 0)
  BY <1>4, <1>7, <1>8 DEF At, SlotRecord
<1>11. v.slot[s] \in SlotRecord /\ SlotForm(v.slot[s])
  BY <1>8, <1>10 DEF At, SlotRecord, SlotForm, Begun
<1>12. v.slot \in [Slots -> SlotRecord]
  BY <1>4, <1>9, <1>11 DEF OnlySlot
<1>13. QED BY <1>3, <1>5, <1>9, <1>10, <1>11, <1>12 DEF v, r, b

LEMMA SampleKeeps ==
  ASSUME NEW w, Good(w), NEW s \in Slots, w.i = 0, TokensOf(w.batch, s + 1) = {}
  PROVE  LET v == AddSampled(w, s)
         IN  /\ Good(v) /\ Rest(w, v) /\ OnlySlot(w, v, s)
             /\ v.slot[s].state = w.slot[s].state /\ v.slot[s].len = w.slot[s].len
             /\ \A t \in Slots \ {s} : TokensOf(v.batch, t + 1) = TokensOf(w.batch, t + 1)
             /\ w.slot[s].state # "run" => TokensOf(v.batch, s + 1) = {}
<1> DEFINE v == AddSampled(w, s)
           e == End(w, s)
           u == <<[pos |-> e, seq |-> {s + 1}]>>
           r == w.slot[s]
<1>1. CASE r.state # "run"
  <2>1. v = w
    BY <1>1 DEF AddSampled
  <2>2. QED BY <1>1, <2>1 DEF Rest, OnlySlot, Good, Base
<1>2. CASE r.state = "run"
  <2>1. /\ Rest(w, v) /\ v.lost = w.lost /\ v.m = w.m /\ v.w = w.w
        /\ v.batch = w.batch \o u
        /\ v.slot \in [Slots -> SlotRecord] /\ OnlySlot(w, v, s)
        /\ v.slot[s] = At("run", r.n_past + 1, 0) /\ SlotForm(v.slot[s])
    BY <1>2, SampleFields DEF Good
  <2>2. r.n_past = r.cached /\ r.cached \in Nat /\ system \in Nat /\ r.len = 0 /\ Begun(r)
    <3>1. SlotForm(r) /\ r \in SlotRecord /\ system \in Nat
      BY DEF Good, Base
    <3>2. QED BY <1>2, <3>1 DEF SlotForm, Begun, SlotRecord
  <2>3. e \in Nat /\ e = system + r.n_past /\ End(v, s) = e + 1
    <3>1. v.slot[s].n_past = r.n_past + 1
      BY <2>1 DEF At
    <3>2. e = system + r.n_past /\ End(v, s) = system + v.slot[s].n_past
      BY DEF End
    <3>3. QED BY <2>2, <3>1, <3>2
  <2>4. v.slot[s].cached = r.cached + 1 /\ v.slot[s].state = "run" /\ v.slot[s].len = 0
    BY <2>1, <2>2 DEF At
  <2> HIDE DEF v, e, r
  <2>5. u \in Seq(SlotToken) /\ Len(u) = 1 /\ u[1].pos = e /\ u[1].seq = {s + 1}
    <3>1. [pos |-> e, seq |-> {s + 1}] \in SlotToken
      BY <2>3, SlotFacts DEF SlotToken, Token
    <3>2. QED BY <3>1
  <2> HIDE DEF u
  <2>6. v.i = 0 /\ Base(w)
    BY <2>1 DEF Rest, Good
  <2>7. \A q : SameSeq(w.m, v.m, q)
    BY <2>1 DEF SameSeq
  <2>8. /\ v.batch \in Seq(SlotToken)
        /\ \A t \in Slots \ {s} : TokensOf(v.batch, t + 1) = TokensOf(w.batch, t + 1)
        /\ WaitingPos(v, s) = {u[j].pos : j \in 1..Len(u)}
        /\ (\A j, l \in 1..Len(u) : u[j].pos = u[l].pos => j = l) =>
             \A k, l \in Waiting(v, s) : v.batch[k].pos = v.batch[l].pos => k = l
    <3>1. Joined(w, v, u, s)
      BY <2>1, <2>5, <2>6 DEF Joined
    <3>4. /\ v.batch \in Seq(SlotToken)
          /\ \A t \in Slots \ {s} : /\ Waiting(v, t) = Waiting(w, t)
                                    /\ \A k \in Waiting(w, t) : v.batch[k] = w.batch[k]
                                    /\ WaitingPos(v, t) = WaitingPos(w, t)
                                    /\ TokensOf(v.batch, t + 1) = TokensOf(w.batch, t + 1)
          /\ WaitingPos(v, s) = {u[j].pos : j \in 1..Len(u)}
          /\ (\A j, l \in 1..Len(u) : u[j].pos = u[l].pos => j = l) =>
               \A k, l \in Waiting(v, s) : v.batch[k].pos = v.batch[l].pos => k = l
      BY <3>1, JoinWaits
    <3>5. QED BY <3>4
  <2>9. WaitingPos(v, s) = {e}
    BY <2>5, <2>8
  <2>10. \A k, l \in Waiting(v, s) : v.batch[k].pos = v.batch[l].pos => k = l
    BY <2>5, <2>8
  <2>11. WaitingPos(w, s) = {}
    BY DEF WaitingPos, Waiting
  <2>12. /\ Stray(w) => /\ \A t \in Slots \ {s} : StrayOf(v, t)
                        /\ \A t \in Slots \ {s} : Apart(v.m, s + 1, t + 1)
         /\ \A t \in Slots \ {s} : WholeOf(w, t) => WholeOf(v, t)
    <3>1. Joined(w, v, u, s) /\ OnlySlot(w, v, s)
      BY <2>1, <2>5, <2>6 DEF Joined
    <3>4. \A t \in Slots \ {s} : SameSeq(w.m, v.m, t + 1)
      BY <2>7
    <3>5. \A q, z \in Nat : Apart(w.m, q, z) => Apart(v.m, q, z)
      BY <2>1
    <3>6. \A t \in Slots \ {s} : t \in v.lost <=> t \in w.lost
      BY <2>1
    <3>7. QED BY <3>1, <3>4, <3>5, <3>6, OthersKeep
  <2>13. Base(v)
    BY <2>1, <2>8 DEF Good, Base, Rest, OnlySlot
  <2>14. PosOf(w.m, s + 1) \in SUBSET Nat
    BY PositionsAre DEF Good, Base
  <2>15. ASSUME StrayCase PROVE Stray(v)
    <3>1. StrayOf(w, s) /\ Stray(w)
      BY <2>15 DEF Good, Stray
    <3>2. \A p \in PosOf(w.m, s + 1) : p < e
      BY <2>2, <3>1 DEF StrayOf, e, r
    <3>3. e \notin PosOf(w.m, s + 1)
      BY <2>3, <3>2
    <3>4. \A p \in PosOf(w.m, s + 1) \union {e} : p < e + 1
      BY <2>3, <2>14, <3>2
    <3>5. StrayOf(v, s)
      <4>1. Once(v.m, s + 1) /\ WaitingPos(v, s) \cap PosOf(v.m, s + 1) = {}
        BY <2>1, <2>9, <3>1, <3>3 DEF StrayOf
      <4>2. \A t \in Slots \ {s} : Apart(v.m, s + 1, t + 1)
        BY <2>12, <3>1
      <4>3. \A p \in PosOf(v.m, s + 1) \union WaitingPos(v, s) : p < End(v, s)
        BY <2>1, <2>3, <2>9, <3>4
      <4>4. QED BY <2>10, <4>1, <4>2, <4>3 DEF StrayOf
    <3>6. QED BY <2>12, <3>1, <3>5 DEF Stray
  <2>16. ASSUME WholeCase PROVE Whole(v)
    <3>1. Whole(w) /\ system = 0
      BY <2>16, CasesAre DEF Good, Base
    <3>2. e = r.cached
      BY <2>2, <2>3, <3>1
    <3>3. s \notin v.lost => PosOf(w.m, s + 1) = 0..r.cached-1
      <4>1. QED BY <2>1, <2>11, <3>1 DEF Whole, WholeOf, r
    <3>4. (0..r.cached-1) \union {r.cached} = 0..(r.cached+1)-1
      BY <2>2
    <3>5. WholeOf(v, s)
      BY <2>1, <2>4, <2>9, <3>2, <3>3, <3>4 DEF WholeOf
    <3>6. QED BY <2>12, <3>1, <3>5 DEF Whole
  <2>17. QED BY <1>2, <2>1, <2>2, <2>4, <2>8, <2>13, <2>15, <2>16 DEF Good, v, r
<1>3. QED BY <1>1, <1>2

-----------------------------------------------------------------------------
LEMMA SamplePass ==
  ASSUME NEW w, Good(w), w.batch = <<>>, w.i = 0
  PROVE  LET v == EachSlot(AddSampled, w)
         IN  /\ Good(v) /\ Rest(w, v) /\ SameStates(w, v)
             /\ \A s \in Slots : v.slot[s].state # "run" => TokensOf(v.batch, s + 1) = {}
<1>1. PICK f : /\ f[0] = w /\ EachSlot(AddSampled, w) = f[NSlots]
               /\ \A k \in 1..NSlots : f[k] = AddSampled(f[k - 1], k - 1)
  BY ONLY SampleTurns
<1> DEFINE None(v, s) == TokensOf(v.batch, s + 1) = {}
           P == {k \in 0..NSlots :
                   /\ Good(f[k]) /\ Rest(w, f[k]) /\ SameStates(w, f[k])
                   /\ \A s \in Slots : s >= k \/ f[k].slot[s].state # "run" => None(f[k], s)}
<1>2. 0 \in P
  <2>1. Rest(w, w) /\ SameStates(w, w)
    BY DEF Good, Base, Rest, SameStates
  <2>2. 0 \in 0..NSlots
    BY SlotFacts
  <2>3. \A s \in Slots : None(w, s)
    BY DEF TokensOf
  <2>4. QED BY <1>1, <2>1, <2>2, <2>3
<1>3. ASSUME NEW k \in 1..NSlots, k - 1 \in P PROVE k \in P
  <2> DEFINE s == k - 1
             a == f[k - 1]
             v == f[k]
  <2>1. s \in Slots /\ v = AddSampled(a, s) /\ k \in 0..NSlots
    BY <1>1, SlotFacts
  <2>2. /\ Good(a) /\ Rest(w, a) /\ SameStates(w, a)
        /\ \A t \in Slots : t >= s \/ a.slot[t].state # "run" => None(a, t)
    BY <1>3
  <2>3. s \in Nat /\ \A t \in Slots : t \in Nat
    BY <2>1, SlotFacts
  <2>4. a.i = 0 /\ TokensOf(a.batch, s + 1) = {}
    BY <2>1, <2>2, <2>3 DEF Rest
  <2> HIDE DEF a
  <2>5. /\ Good(v) /\ Rest(a, v) /\ OnlySlot(a, v, s)
        /\ v.slot[s].state = a.slot[s].state /\ v.slot[s].len = a.slot[s].len
        /\ \A t \in Slots \ {s} : TokensOf(v.batch, t + 1) = TokensOf(a.batch, t + 1)
        /\ a.slot[s].state # "run" => TokensOf(v.batch, s + 1) = {}
    <3> HIDE DEF s, v
    <3>1. Good(a) /\ s \in Slots /\ a.i = 0 /\ TokensOf(a.batch, s + 1) = {}
      BY <2>1, <2>2, <2>4
    <3>2. QED BY <2>1, <3>1, SampleKeeps
  <2>6. Rest(w, v)
    BY <2>2, <2>5 DEF Rest
  <2>7. SameStates(w, v)
    BY <2>2, <2>5 DEF SameStates, OnlySlot
  <2>8. ASSUME NEW t \in Slots, t >= k \/ v.slot[t].state # "run" PROVE None(v, t)
    <3>1. CASE t = s
      BY <2>3, <2>5, <2>8, <3>1
    <3>2. CASE t # s
      <4>1. t >= s \/ a.slot[t].state # "run"
        BY <2>3, <2>5, <2>8, <3>2 DEF OnlySlot
      <4>2. QED BY <2>2, <2>5, <3>2, <4>1
    <3>3. QED BY <3>1, <3>2
  <2>9. QED BY <2>1, <2>5, <2>6, <2>7, <2>8
<1>4. NSlots \in Nat
  BY SlotFacts
<1> HIDE DEF P
<1>5. \A k \in 0..NSlots : k \in P
  BY <1>2, <1>3, <1>4, UpToAll
<1>6. NSlots \in P
  BY <1>4, <1>5
<1>7. QED BY <1>1, <1>6 DEF P

-----------------------------------------------------------------------------
(* The third pass: prompts, or what fits of them.                          *)
PromptMore(w, n, len) == Min({len - n, Max({NBatch - Len(w.batch), 0})})

PromptTokens(s, end, more) == [x \in 1..more |-> [pos |-> end + x - 1, seq |-> {s + 1}]]

LEMMA MoreIs ==
  ASSUME NEW w, w.batch \in Seq(SlotToken), NEW n \in Nat, NEW len \in Nat, n < len
  PROVE  PromptMore(w, n, len) \in 0..len-n
<1> DEFINE room == NBatch - Len(w.batch)
           max == Max({room, 0})
<1>1. room \in Int
  BY BatchAssumption
<1> HIDE DEF room
<1>2. max \in Nat
  <2>1. \E x \in {room, 0} : \A y \in {room, 0} : x >= y
    <3>1. CASE room >= 0
      BY <1>1, <3>1
    <3>2. CASE ~(room >= 0)
      BY <1>1, <3>2
    <3>3. QED BY <3>1, <3>2
  <2>2. max \in {room, 0} /\ \A y \in {room, 0} : max >= y
    BY <2>1 DEF Max
  <2> HIDE DEF max
  <2>3. QED BY <1>1, <2>2
<1> HIDE DEF max
<1>3. Min({len - n, max}) = IF len - n <= max THEN len - n ELSE max
  <2>1. len - n \in Nat
    OBVIOUS
  <2>2. QED BY <1>2, <2>1, MaxOfTwo
<1>4. PromptMore(w, n, len) = IF len - n <= max THEN len - n ELSE max
  BY <1>3 DEF PromptMore, max, room
<1>5. QED BY <1>2, <1>4

LEMMA PromptTokensAre ==
  ASSUME NEW s \in Slots, NEW end \in Nat, NEW more \in Nat
  PROVE  LET u == PromptTokens(s, end, more)
         IN  /\ u \in Seq(SlotToken) /\ Len(u) = more
             /\ \A j \in 1..Len(u) : u[j].seq = {s + 1} /\ u[j].pos = end + j - 1
             /\ \A j, l \in 1..Len(u) : u[j].pos = u[l].pos => j = l
             /\ {u[j].pos : j \in 1..Len(u)} = end..end+more-1
<1> DEFINE u == PromptTokens(s, end, more)
<1>1. \A x \in 1..more : [pos |-> end + x - 1, seq |-> {s + 1}] \in SlotToken
  <2>1. {s + 1} \in (SUBSET Nat) \ {{}}
    BY SlotFacts
  <2>2. \A x \in 1..more : end + x - 1 \in Nat
    OBVIOUS
  <2>3. QED BY <2>1, <2>2 DEF SlotToken, Token
<1>2. u \in [1..more -> SlotToken]
  BY <1>1 DEF PromptTokens
<1>3. u \in Seq(SlotToken) /\ Len(u) = more
  <2> HIDE DEF u
  <2>1. u \in Seq(SlotToken)
    BY <1>2
  <2>2. DOMAIN u = 1..more /\ DOMAIN u = 1..Len(u) /\ Len(u) \in Nat
    BY <1>2, <2>1
  <2>3. QED BY <2>1, <2>2
<1>4. \A j \in 1..more : u[j].seq = {s + 1} /\ u[j].pos = end + j - 1
  BY DEF PromptTokens
<1> HIDE DEF u
<1>5. \A j, l \in 1..more : u[j].pos = u[l].pos => j = l
  BY <1>4
<1>6. {u[j].pos : j \in 1..more} = end..end+more-1
  <2>1. \A j \in 1..more : u[j].pos \in end..end+more-1
    BY <1>4
  <2>2. ASSUME NEW p \in end..end+more-1 PROVE p \in {u[j].pos : j \in 1..more}
    <3>1. p - end + 1 \in 1..more /\ end + (p - end + 1) - 1 = p
      OBVIOUS
    <3> DEFINE j == p - end + 1
    <3>2. j \in 1..more /\ end + j - 1 = p
      BY <3>1
    <3> HIDE DEF j
    <3>3. QED BY <1>4, <3>2
  <2>3. QED BY <2>1, <2>2
<1>7. QED BY <1>3, <1>4, <1>5, <1>6 DEF u

LEMMA PromptFields ==
  ASSUME NEW w, Base(w), NEW s \in Slots, NEW n \in Nat, NEW len \in Nat, n < len
  PROVE  LET v    == PromptPart(w, s, n, len)
             more == PromptMore(w, n, len)
             e    == system + n
         IN  /\ Rest(w, v) /\ v.lost = w.lost /\ more \in 0..len-n
             /\ v.m = kv_cache_seq_rm(w.m, s + 1, e, -1)
             /\ v.w = kv_cache_seq_rm(w.w, s, e, -1)
             /\ v.batch = w.batch \o PromptTokens(s, e, more)
             /\ v.slot \in [Slots -> SlotRecord] /\ OnlySlot(w, v, s)
             /\ v.slot[s] = IF n + more = len THEN At("done", len, 0)
                                              ELSE At("prompt", n + more, len)
             /\ SlotForm(v.slot[s])
<1> DEFINE v    == PromptPart(w, s, n, len)
           more == PromptMore(w, n, len)
           e    == system + n
           a == kv_cache_seq_rm(w.m, s + 1, e, -1)
           d == kv_cache_seq_rm(w.w, s, e, -1)
           b == w.batch \o PromptTokens(s, e, more)
           r == IF n + more = len THEN At("done", len, 0) ELSE At("prompt", n + more, len)
<1>1. v = [w EXCEPT !.m = a, !.w = d, !.batch = b, !.slot[s] = r]
  BY DEF PromptPart, PromptMore, PromptTokens
<1>2. more \in 0..len-n
  BY MoreIs DEF Base
<1> HIDE DEF v, more, e, a, d, b
<1>3. r \in SlotRecord /\ SlotForm(r)
  <2>1. CASE n + more = len
    <3>1. r = At("done", len, 0)
      BY <2>1
    <3> HIDE DEF r
    <3>2. QED BY <3>1 DEF At, SlotRecord, SlotForm, Begun
  <2>2. CASE n + more # len
    <3>1. r = At("prompt", n + more, len) /\ n + more \in Nat /\ n + more < len
      BY <1>2, <2>2
    <3> HIDE DEF r
    <3> DEFINE k == n + more
    <3>2. k \in Nat /\ k < len /\ r = At("prompt", k, len)
      BY <3>1
    <3> HIDE DEF k
    <3>3. QED BY <3>2 DEF At, SlotRecord, SlotForm, Begun
  <2>3. QED BY <2>1, <2>2
<1> HIDE DEF r
<1>4. /\ Rest(w, v) /\ v.lost = w.lost /\ v.m = a /\ v.w = d /\ v.batch = b
      /\ v.slot = [w.slot EXCEPT ![s] = r]
  BY <1>1 DEF Base, WorkFields, Rest
<1>5. w.slot \in [Slots -> SlotRecord]
  BY DEF Base
<1>6. v.slot \in [Slots -> SlotRecord] /\ OnlySlot(w, v, s) /\ v.slot[s] = r
  BY <1>3, <1>4, <1>5 DEF OnlySlot
<1>7. QED BY <1>2, <1>3, <1>4, <1>6 DEF v, more, e, a, d, b, r

LEMMA PromptKeeps ==
  ASSUME NEW w, Base(w), NEW s \in Slots, NEW n \in Nat, NEW len \in Nat, n < len,
         w.i = 0, TokensOf(w.batch, s + 1) = {},
         AgreeCase => Alike(w.m, w.w), StrayCase => Stray(w),
         WholeCase => \A t \in Slots \ {s} : WholeOf(w, t),
         WholeCase /\ s \notin w.lost => 0..n-1 \subseteq PosOf(w.m, s + 1)
  PROVE  LET v == PromptPart(w, s, n, len)
         IN  /\ Good(v) /\ Rest(w, v) /\ OnlySlot(w, v, s)
             /\ \A t \in Slots \ {s} : TokensOf(v.batch, t + 1) = TokensOf(w.batch, t + 1)
<1> DEFINE v    == PromptPart(w, s, n, len)
           more == PromptMore(w, n, len)
           e    == system + n
           u    == PromptTokens(s, e, more)
<1>1. /\ Rest(w, v) /\ v.lost = w.lost /\ more \in 0..len-n
      /\ v.m = kv_cache_seq_rm(w.m, s + 1, e, -1)
      /\ v.w = kv_cache_seq_rm(w.w, s, e, -1)
      /\ v.batch = w.batch \o u
      /\ v.slot \in [Slots -> SlotRecord] /\ OnlySlot(w, v, s)
      /\ v.slot[s] = IF n + more = len THEN At("done", len, 0)
                                       ELSE At("prompt", n + more, len)
      /\ SlotForm(v.slot[s])
  BY PromptFields
<1> HIDE DEF v, more, e
<1>2. e \in Nat /\ e = system + n /\ more \in Nat /\ s + 1 \in Nat /\ s \in Nat /\ system \in Nat
  BY <1>1, SlotFacts DEF Base, e
<1>3. v.slot[s].n_past = n + more /\ v.slot[s].cached = n + more /\ v.slot[s].state # "ended"
  BY <1>1 DEF At
<1>4. End(v, s) = e + more
  BY <1>2, <1>3 DEF End
<1>5. /\ u \in Seq(SlotToken) /\ Len(u) = more
      /\ \A j \in 1..Len(u) : u[j].seq = {s + 1} /\ u[j].pos = e + j - 1
      /\ \A j, l \in 1..Len(u) : u[j].pos = u[l].pos => j = l
      /\ {u[j].pos : j \in 1..Len(u)} = e..e+more-1
  BY <1>2, PromptTokensAre
<1> HIDE DEF u
<1>6. Joined(w, v, u, s)
  BY <1>1, <1>5 DEF Joined, Rest
<1>7. GoodCache(w.m) /\ GoodCache(v.m)
  BY <1>1, <1>2, RmGood DEF Base
<1>8. /\ PosOf(v.m, s + 1) = {p \in PosOf(w.m, s + 1) : ~InRange(p, e, -1)}
      /\ Once(w.m, s + 1) => Once(v.m, s + 1)
      /\ \A q \in Nat \ {s + 1} : SameSeq(w.m, v.m, q)
      /\ \A q, r \in Nat : Apart(w.m, q, r) => Apart(v.m, q, r)
  BY <1>1, <1>2, <1>7, RmSeqs
<1>9. PosOf(w.m, s + 1) \in SUBSET Nat
  BY <1>7, PositionsAre
<1>10. PosOf(v.m, s + 1) = {p \in PosOf(w.m, s + 1) : p < e}
  <2>1. \A p \in Nat : ~InRange(p, e, -1) <=> p < e
    BY <1>2 DEF InRange
  <2>2. QED BY <1>8, <1>9, <2>1
<1>11. /\ v.batch \in Seq(SlotToken)
       /\ \A t \in Slots \ {s} : TokensOf(v.batch, t + 1) = TokensOf(w.batch, t + 1)
       /\ WaitingPos(v, s) = e..e+more-1
       /\ \A k, l \in Waiting(v, s) : v.batch[k].pos = v.batch[l].pos => k = l
  <2>1. /\ v.batch \in Seq(SlotToken)
        /\ \A t \in Slots \ {s} : /\ Waiting(v, t) = Waiting(w, t)
                                  /\ \A k \in Waiting(w, t) : v.batch[k] = w.batch[k]
                                  /\ WaitingPos(v, t) = WaitingPos(w, t)
                                  /\ TokensOf(v.batch, t + 1) = TokensOf(w.batch, t + 1)
        /\ WaitingPos(v, s) = {u[j].pos : j \in 1..Len(u)}
        /\ (\A j, l \in 1..Len(u) : u[j].pos = u[l].pos => j = l) =>
             \A k, l \in Waiting(v, s) : v.batch[k].pos = v.batch[l].pos => k = l
    BY <1>6, JoinWaits
  <2>2. QED BY <1>5, <2>1
<1>12. /\ Stray(w) => /\ \A t \in Slots \ {s} : StrayOf(v, t)
                      /\ \A t \in Slots \ {s} : Apart(v.m, s + 1, t + 1)
       /\ \A t \in Slots \ {s} : WholeOf(w, t) => WholeOf(v, t)
  <2>1. \A t \in Slots \ {s} : SameSeq(w.m, v.m, t + 1)
    <3>1. \A t \in Slots \ {s} : t + 1 \in Nat \ {s + 1}
      BY SlotFacts
    <3>2. QED BY <1>8, <3>1
  <2>2. \A q, r \in Nat : Apart(w.m, q, r) => Apart(v.m, q, r)
    BY <1>8
  <2>3. \A t \in Slots \ {s} : t \in v.lost <=> t \in w.lost
    BY <1>1
  <2>4. OnlySlot(w, v, s)
    BY <1>1
  <2>5. QED BY <1>6, <2>1, <2>2, <2>3, <2>4, OthersKeep
<1>13. Base(v)
  <2>1. \A t \in Slots : SlotForm(v.slot[t])
    BY <1>1 DEF Base, OnlySlot
  <2>2. QED BY <1>1, <1>7, <1>11, <2>1 DEF Base, Rest
<1>14. ASSUME AgreeCase PROVE Alike(v.m, v.w)
  BY <1>1, <1>2, <1>14, RmAlike
<1>15. ASSUME StrayCase PROVE Stray(v)
  <2>1. Stray(w) /\ StrayOf(w, s)
    BY <1>15 DEF Stray
  <2>2. Once(v.m, s + 1)
    BY <1>8, <2>1 DEF StrayOf
  <2>3. WaitingPos(v, s) \cap PosOf(v.m, s + 1) = {}
    BY <1>2, <1>9, <1>10, <1>11
  <2>4. \A p \in PosOf(v.m, s + 1) \union WaitingPos(v, s) : p < End(v, s)
    BY <1>2, <1>4, <1>9, <1>10, <1>11
  <2>5. StrayOf(v, s)
    BY <1>11, <1>12, <2>1, <2>2, <2>3, <2>4 DEF StrayOf
  <2>6. QED BY <1>12, <2>1, <2>5 DEF Stray
<1>16. ASSUME WholeCase PROVE Whole(v)
  <2>1. e = n
    BY <1>2, <1>16, CasesAre DEF Base
  <2>2. ASSUME s \notin v.lost
        PROVE  PosOf(v.m, s + 1) \union WaitingPos(v, s) = 0..v.slot[s].cached-1
    <3>1. 0..n-1 \subseteq PosOf(w.m, s + 1)
      BY <1>1, <1>16, <2>2
    <3>2. PosOf(v.m, s + 1) = 0..n-1
      <4>1. \A p \in 0..n-1 : p \in PosOf(v.m, s + 1)
        BY <1>10, <2>1, <3>1
      <4>2. \A p \in PosOf(v.m, s + 1) : p \in 0..n-1
        BY <1>9, <1>10, <2>1
      <4>3. QED BY <4>1, <4>2
    <3>3. (0..n-1) \union (n..n+more-1) = 0..n+more-1
      BY <1>2
    <3>4. WaitingPos(v, s) = n..n+more-1
      BY <1>11, <2>1
    <3>5. v.slot[s].cached-1 = n+more-1
      BY <1>2, <1>3
    <3> HIDE DEF u
    <3>6. PosOf(v.m, s + 1) \union WaitingPos(v, s) = 0..n+more-1
      BY <3>2, <3>3, <3>4
    <3>7. QED BY <3>5, <3>6
  <2>3. WholeOf(v, s)
    BY <2>2 DEF WholeOf
  <2>4. QED BY <1>12, <1>16, <2>3 DEF Whole
<1>17. QED BY <1>1, <1>11, <1>13, <1>14, <1>15, <1>16 DEF Good, v

(* What the tasks and the code of the slots make sure of.                  *)
NewPrompt(r) == r.state = "prompt" /\ r.len = 0

LEMMA AddPromptKeeps ==
  ASSUME NEW w, Good(w), NEW s \in Slots, w.i = 0, TokensOf(w.batch, s + 1) = {} \/ w.slot[s].state # "prompt",
         NEW common, NEW len,
         NewPrompt(w.slot[s]) => common \in Nat /\ len \in Nat /\ common < len
  PROVE  LET v == AddPrompt(w, s, common, len)
         IN  /\ Good(v) /\ Rest(w, v) /\ OnlySlot(w, v, s)
             /\ \A t \in Slots \ {s} : TokensOf(v.batch, t + 1) = TokensOf(w.batch, t + 1)
<1> DEFINE v == AddPrompt(w, s, common, len)
           r == w.slot[s]
<1>1. CASE r.state # "prompt" \/ (s > 0 /\ Len(w.batch) >= NBatch)
  <2>1. v = w
    BY <1>1 DEF AddPrompt
  <2>2. QED BY <2>1 DEF Rest, OnlySlot, Good, Base
<1>2. /\ Base(w) /\ (AgreeCase => Alike(w.m, w.w)) /\ (StrayCase => Stray(w))
      /\ (WholeCase => Whole(w)) /\ r \in SlotRecord /\ SlotForm(r)
      /\ r.cached \in Nat /\ r.n_past \in Int /\ r.len \in Nat
  BY DEF Good, Base, SlotRecord
<1>3. CASE ~(r.state # "prompt" \/ (s > 0 /\ Len(w.batch) >= NBatch)) /\ r.len > 0
  <2>1. v = PromptPart(w, s, r.n_past, r.len)
    BY <1>3 DEF AddPrompt
  <2>2. r.n_past \in Nat /\ r.n_past < r.len /\ r.n_past = r.cached /\ r.state = "prompt"
    BY <1>2, <1>3 DEF SlotForm, Begun
  <2>3. TokensOf(w.batch, s + 1) = {}
    BY <2>2
  <2>4. WaitingPos(w, s) = {}
    BY <2>3 DEF WaitingPos, Waiting
  <2>5. WholeCase => \A t \in Slots \ {s} : WholeOf(w, t)
    BY <1>2 DEF Whole
  <2>6. WholeCase /\ s \notin w.lost => 0..r.n_past-1 \subseteq PosOf(w.m, s + 1)
    <3>1. SUFFICES ASSUME WholeCase, s \notin w.lost PROVE 0..r.n_past-1 \subseteq PosOf(w.m, s + 1)
      OBVIOUS
    <3>2. WholeOf(w, s)
      BY <1>2, <3>1 DEF Whole
    <3>3. QED BY <2>2, <2>4, <3>1, <3>2 DEF WholeOf
  <2> HIDE DEF r
  <2>7. QED BY <1>2, <2>1, <2>2, <2>3, <2>5, <2>6, PromptKeeps
<1>4. CASE ~(r.state # "prompt" \/ (s > 0 /\ Len(w.batch) >= NBatch)) /\ ~(r.len > 0)
  <2> DEFINE n == Min({common, r.cached})
             l == IF n = 0 THEN w.lost \ {s} ELSE w.lost
             a == [w EXCEPT !.lost = l]
  <2>1. v = PromptPart(a, s, n, len)
    BY <1>4 DEF AddPrompt
  <2>2. NewPrompt(r)
    BY <1>2, <1>4 DEF NewPrompt
  <2>3. common \in Nat /\ len \in Nat /\ common < len
    BY <2>2
  <2>4. n = IF common <= r.cached THEN common ELSE r.cached
    BY <1>2, <2>3, MaxOfTwo
  <2>5. n \in Nat /\ n < len /\ n <= r.cached
    BY <1>2, <2>3, <2>4
  <2>6. TokensOf(w.batch, s + 1) = {}
    BY <2>2 DEF NewPrompt
  <2> HIDE DEF n, l
  <2>7. /\ DOMAIN a = WorkFields /\ a.lost = l
        /\ a.m = w.m /\ a.w = w.w /\ a.slot = w.slot /\ a.batch = w.batch /\ a.i = w.i
        /\ a.n = w.n /\ a.ok = w.ok /\ a.need = w.need
    BY <1>2 DEF Base, WorkFields
  <2>8. l \in SUBSET Slots /\ \A t \in Slots \ {s} : t \in l <=> t \in w.lost
    BY <1>2 DEF Base, l
  <2> HIDE DEF a
  <2>9. /\ \A t : Waiting(a, t) = Waiting(w, t)
        /\ \A t : WaitingPos(a, t) = WaitingPos(w, t)
        /\ \A t : End(a, t) = End(w, t)
    BY <2>7 DEF Waiting, WaitingPos, End
  <2>10. Base(a)
    BY <1>2, <2>7, <2>8 DEF Base
  <2>11. ASSUME StrayCase PROVE Stray(a)
    <3>1. Stray(w)
      BY <1>2, <2>11
    <3>2. ASSUME NEW t \in Slots PROVE StrayOf(a, t)
      <4>1. StrayOf(w, t)
        BY <3>1 DEF Stray
      <4>2. QED BY <2>7, <2>9, <4>1 DEF StrayOf
    <3>3. QED BY <3>2 DEF Stray
  <2>12. ASSUME WholeCase PROVE \A t \in Slots \ {s} : WholeOf(a, t)
    <3>1. ASSUME NEW t \in Slots \ {s} PROVE WholeOf(a, t)
      <4>1. WholeOf(w, t) /\ (t \in a.lost <=> t \in w.lost)
        BY <1>2, <2>7, <2>8, <2>12 DEF Whole
      <4>2. QED BY <2>7, <2>9, <4>1 DEF WholeOf
    <3>2. QED BY <3>1
  <2>13. WaitingPos(w, s) = {}
    BY <2>6 DEF WaitingPos, Waiting
  <2>14. WholeCase /\ s \notin a.lost => 0..n-1 \subseteq PosOf(a.m, s + 1)
    <3>1. SUFFICES ASSUME WholeCase, s \notin a.lost PROVE 0..n-1 \subseteq PosOf(a.m, s + 1)
      OBVIOUS
    <3>2. CASE n = 0
      BY <3>2
    <3>3. CASE n # 0
      <4>1. s \notin w.lost
        BY <2>7, <3>1, <3>3 DEF l
      <4>2. WholeOf(w, s) /\ r.state # "ended"
        BY <1>2, <2>2, <3>1 DEF Whole, NewPrompt
      <4>3. PosOf(w.m, s + 1) = 0..r.cached-1
        BY <2>13, <4>1, <4>2 DEF WholeOf
      <4>4. QED BY <1>2, <2>5, <2>7, <4>3
    <3>4. QED BY <3>2, <3>3
  <2>15. a.i = 0 /\ TokensOf(a.batch, s + 1) = {} /\ (AgreeCase => Alike(a.m, a.w))
    BY <1>2, <2>6, <2>7
  <2> HIDE DEF r
  <2>16. /\ Good(v) /\ Rest(a, v) /\ OnlySlot(a, v, s)
         /\ \A t \in Slots \ {s} : TokensOf(v.batch, t + 1) = TokensOf(a.batch, t + 1)
    BY <2>1, <2>3, <2>5, <2>10, <2>11, <2>12, <2>14, <2>15, PromptKeeps
  <2>17. QED BY <2>7, <2>16 DEF Rest, OnlySlot
<1>5. QED BY <1>1, <1>3, <1>4

LEMMA PromptPassKeeps ==
  ASSUME NEW w, Good(w), w.i = 0, NEW common, NEW len,
         \A s \in Slots : w.slot[s].state = "prompt" => TokensOf(w.batch, s + 1) = {},
         \A s \in Slots : NewPrompt(w.slot[s]) =>
                            common[s] \in Nat /\ len[s] \in Nat /\ common[s] < len[s]
  PROVE  Good(PromptPass(w, common, len)) /\ Rest(w, PromptPass(w, common, len))
<1>1. PICK f : /\ f[0] = w /\ PromptPass(w, common, len) = f[NSlots]
               /\ \A k \in 1..NSlots :
                    f[k] = AddPrompt(f[k - 1], k - 1, common[k - 1], len[k - 1])
  BY PromptTurns
<1> DEFINE None(v, s) == w.slot[s].state = "prompt" => TokensOf(v.batch, s + 1) = {}
           P == {k \in 0..NSlots :
                   /\ Good(f[k]) /\ Rest(w, f[k])
                   /\ \A s \in Slots : s >= k => f[k].slot[s] = w.slot[s] /\ None(f[k], s)}
<1>2. 0 \in P
  <2>1. Rest(w, w)
    BY DEF Good, Base, Rest
  <2>2. 0 \in 0..NSlots
    BY SlotFacts
  <2>3. QED BY <1>1, <2>1, <2>2
<1>3. ASSUME NEW k \in 1..NSlots, k - 1 \in P PROVE k \in P
  <2> DEFINE s == k - 1
             a == f[k - 1]
             v == f[k]
  <2>1. s \in Slots /\ v = AddPrompt(a, s, common[s], len[s]) /\ k \in 0..NSlots
    BY <1>1, SlotFacts
  <2>2. /\ Good(a) /\ Rest(w, a)
        /\ \A t \in Slots : t >= s => a.slot[t] = w.slot[t] /\ None(a, t)
    BY <1>3
  <2>3. s \in Nat /\ \A t \in Slots : t \in Nat
    BY <2>1, SlotFacts
  <2>4. a.i = 0 /\ a.slot[s] = w.slot[s] /\ None(a, s)
    BY <2>1, <2>2, <2>3 DEF Rest
  <2> HIDE DEF a, v
  <2>5. /\ Good(v) /\ Rest(a, v) /\ OnlySlot(a, v, s)
        /\ \A t \in Slots \ {s} : TokensOf(v.batch, t + 1) = TokensOf(a.batch, t + 1)
    <3> HIDE DEF s
    <3>1. Good(a) /\ s \in Slots /\ a.i = 0
      BY <2>1, <2>2, <2>4
    <3>2. TokensOf(a.batch, s + 1) = {} \/ a.slot[s].state # "prompt"
      BY <2>4
    <3>3. NewPrompt(a.slot[s]) => common[s] \in Nat /\ len[s] \in Nat /\ common[s] < len[s]
      BY <2>1, <2>4
    <3>4. QED BY <2>1, <3>1, <3>2, <3>3, AddPromptKeeps
  <2>6. Rest(w, v)
    BY <2>2, <2>5 DEF Rest
  <2>7. ASSUME NEW t \in Slots, t >= k PROVE v.slot[t] = w.slot[t] /\ None(v, t)
    <3>1. t >= s /\ t # s
      BY <2>3, <2>7 DEF s
    <3>2. QED BY <2>2, <2>5, <3>1 DEF OnlySlot
  <2>8. QED BY <2>1, <2>5, <2>6, <2>7 DEF v
<1>4. NSlots \in Nat
  BY SlotFacts
<1> HIDE DEF P
<1>5. \A k \in 0..NSlots : k \in P
  BY <1>2, <1>3, <1>4, UpToAll
<1>6. NSlots \in P
  BY <1>4, <1>5
<1>7. QED BY <1>1, <1>6 DEF P

(* The three passes that fill the batch.                                   *)
LEMMA FillKeeps ==
  ASSUME NEW w, Good(w), SlotCtx >= 2, w.batch = <<>>, w.i = 0, ~Throws(w),
         NEW common, NEW len,
         \A s \in Slots : NewPrompt(w.slot[s]) =>
                            common[s] \in Nat /\ len[s] \in Nat /\ common[s] < len[s]
  PROVE  Good(FillBatch(w, common, len)) /\ Rest(w, FillBatch(w, common, len))
<1> DEFINE a == EachSlot(ContextShift, w)
           b == EachSlot(AddSampled, a)
           v == PromptPass(b, common, len)
<1>1. FillBatch(w, common, len) = v
  BY FillIs
<1>2. Good(a) /\ Rest(w, a) /\ a.batch = <<>> /\ SameStates(w, a)
  BY ShiftPass
<1> HIDE DEF a
<1>3. a.i = 0
  BY <1>2 DEF Rest
<1>4. /\ Good(b) /\ Rest(a, b) /\ SameStates(a, b)
      /\ \A s \in Slots : b.slot[s].state # "run" => TokensOf(b.batch, s + 1) = {}
  BY <1>2, <1>3, SamplePass
<1> HIDE DEF b
<1>5. \A s \in Slots : NewPrompt(b.slot[s]) <=> NewPrompt(w.slot[s])
  BY <1>2, <1>4 DEF SameStates, NewPrompt
<1>6. \A s \in Slots : NewPrompt(b.slot[s]) =>
                            common[s] \in Nat /\ len[s] \in Nat /\ common[s] < len[s]
  BY <1>5
<1>7. \A s \in Slots : b.slot[s].state = "prompt" => TokensOf(b.batch, s + 1) = {}
  BY <1>4
<1>8. b.i = 0
  BY <1>3, <1>4 DEF Rest
<1>9. Good(v) /\ Rest(b, v)
  BY <1>4, <1>6, <1>7, <1>8, PromptPassKeeps
<1>10. QED BY <1>1, <1>2, <1>4, <1>9 DEF Rest

-----------------------------------------------------------------------------
(* l tokens in parts of n.                                                 *)
PartsOf(l, n) == (l + n - 1) \div n

LEMMA PartsAre ==
  ASSUME NEW l \in Nat, NEW n \in Nat \ {0}
  PROVE  LET k == PartsOf(l, n)
         IN  /\ k \in Nat /\ k * n \in Nat /\ k * n <= l + n - 1 /\ l <= k * n
             /\ \A u \in 1..k :
                  (u - 1) * n \in Nat /\ (u - 1) * n < l /\ u * n = (u - 1) * n + n
<1> DEFINE k == PartsOf(l, n)
           y == l + n - 1
<1>1. n \in Nat /\ n > 0 /\ y \in Nat
  OBVIOUS
<1>2. k \in Nat /\ k * n <= y /\ y < k * n + n /\ k * n \in Nat
  <2>1. k = y \div n
    BY DEF PartsOf
  <2>2. y \div n \in Nat
    BY <1>1, DivIsNat
  <2> HIDE DEF y, k
  <2>3. y = n * (y \div n) + (y % n) /\ y % n \in 0..n-1
    BY <1>1
  <2>4. k \in Nat /\ n * k = k * n /\ y = n * k + (y % n)
    BY <1>1, <2>1, <2>2, <2>3
  <2>5. n * k \in Nat
    BY <1>1, <2>4
  <2>6. k * n <= y /\ y < k * n + n
    BY <1>1, <2>3, <2>4, <2>5
  <2>7. QED BY <2>4, <2>5, <2>6
<1> HIDE DEF k
<1>3. ASSUME NEW u \in 1..k
      PROVE  (u - 1) * n \in Nat /\ (u - 1) * n < l /\ u * n = (u - 1) * n + n
  <2> DEFINE v == u - 1
  <2>1. v \in Nat /\ v <= k - 1 /\ u = v + 1
    BY <1>2
  <2> HIDE DEF v
  <2>2. v * n \in Nat /\ v * n <= (k - 1) * n
    BY <1>1, <1>2, <2>1
  <2>3. (k - 1) * n = k * n - n
    BY <1>1, <1>2
  <2>4. v * n < l
    BY <1>1, <1>2, <2>2, <2>3
  <2>5. (v + 1) * n = v * n + n
    BY <1>1, <2>1
  <2>6. QED BY <2>1, <2>2, <2>4, <2>5 DEF v
<1>4. l <= k * n
  BY <1>2
<1>5. QED BY <1>2, <1>3, <1>4 DEF k

(* The tokens of a ubatch, and how many ubatches there are.                *)
FirstOf(u) == (u - 1) * NUbatch + 1

LastOf(l, u) == Min({u * NUbatch, l})

NUbatches(l) == PartsOf(l, NUbatch)

LEMMA UbatchBounds ==
  ASSUME NEW l \in Nat
  PROVE  /\ NUbatches(l) \in Nat
         /\ \A u \in 1..NUbatches(l) :
              FirstOf(u) \in 1..l /\ LastOf(l, u) \in FirstOf(u)..l
         /\ l \in 1..NUbatch => NUbatches(l) = 1 /\ FirstOf(1) = 1 /\ LastOf(l, 1) = l
<1> DEFINE N == NUbatch
           k == NUbatches(l)
<1>1. N \in Nat \ {0} /\ N \in Nat /\ N > 0
  BY BatchAssumption
<1>2. /\ k \in Nat /\ k * N \in Nat /\ k * N <= l + N - 1 /\ l <= k * N
      /\ \A u \in 1..k :
           (u - 1) * N \in Nat /\ (u - 1) * N < l /\ u * N = (u - 1) * N + N
  BY <1>1, PartsAre DEF NUbatches
<1> HIDE DEF k, N
<1>3. ASSUME NEW u \in 1..k PROVE FirstOf(u) \in 1..l /\ LastOf(l, u) \in FirstOf(u)..l
  <2> DEFINE z == (u - 1) * N
             t == u * N
  <2>1. z \in Nat /\ z < l /\ t = z + N
    BY <1>2
  <2>2. FirstOf(u) = z + 1
    BY DEF FirstOf, N
  <2>3. LastOf(l, u) = Min({t, l})
    BY DEF LastOf, N
  <2> HIDE DEF z, t
  <2>4. LastOf(l, u) = IF t <= l THEN t ELSE l
    <3>1. t \in Nat
      BY <1>1, <2>1
    <3>2. QED BY <2>3, <3>1, MaxOfTwo
  <2>5. QED BY <1>1, <2>1, <2>2, <2>4
<1>4. ASSUME l \in 1..N PROVE k = 1 /\ FirstOf(1) = 1 /\ LastOf(l, 1) = l
  <2>1. k * N <= 2 * N - 1 /\ k * N >= 1
    BY <1>1, <1>2, <1>4
  <2>2. k = 1
    <3>1. SUFFICES ASSUME k # 1 PROVE FALSE
      OBVIOUS
    <3>2. CASE k = 0
      BY <1>1, <2>1, <3>2
    <3>3. CASE k >= 2
      <4>1. k * N = (k - 2) * N + 2 * N /\ (k - 2) * N \in Nat
        BY <1>1, <1>2, <3>3
      <4>2. QED BY <1>1, <2>1, <4>1
    <3>4. QED BY <1>2, <3>1, <3>2, <3>3
  <2>3. FirstOf(1) = 1
    BY <1>1 DEF FirstOf, N
  <2>4. LastOf(l, 1) = l
    <3>1. 1 * NUbatch = N
      BY <1>1 DEF N
    <3>2. Min({N, l}) = l
      BY <1>1, <1>4, MaxOfTwo
    <3>3. QED BY <3>1, <3>2 DEF LastOf
  <2>5. QED BY <2>2, <2>3, <2>4
<1>5. QED BY <1>2, <1>3, <1>4 DEF k, N

LEMMA UbatchesAre ==
  ASSUME NEW T, NEW b \in Seq(T)
  PROVE  /\ Len(Ubatches(b)) = NUbatches(Len(b))
         /\ \A u \in 1..NUbatches(Len(b)) :
              /\ Ubatches(b)[u] = SubSeq(b, FirstOf(u), LastOf(Len(b), u))
              /\ Ubatches(b)[u] \in Seq(T) \ {<<>>}
         /\ Len(b) \in 1..NUbatch => Ubatches(b)[1] = b
<1> DEFINE l == Len(b)
           k == NUbatches(l)
           U == Ubatches(b)
<1>1. l \in Nat
  OBVIOUS
<1>2. /\ k \in Nat
      /\ \A u \in 1..k : FirstOf(u) \in 1..l /\ LastOf(l, u) \in FirstOf(u)..l
      /\ l \in 1..NUbatch => k = 1 /\ FirstOf(1) = 1 /\ LastOf(l, 1) = l
  BY <1>1, UbatchBounds
<1>3. U = [u \in 1..k |-> SubSeq(b, FirstOf(u), LastOf(l, u))]
  BY DEF Ubatches, NUbatches, PartsOf, FirstOf, LastOf
<1> HIDE DEF k, U
<1>4. ASSUME NEW u \in 1..k PROVE SubSeq(b, FirstOf(u), LastOf(l, u)) \in Seq(T) \ {<<>>}
  <2> DEFINE f == FirstOf(u)
             g == LastOf(l, u)
             d == SubSeq(b, f, g)
  <2>1. f \in 1..l /\ g \in f..l
    BY <1>2
  <2> HIDE DEF f, g
  <2>2. d \in Seq(T) /\ Len(d) = g - f + 1
    BY <1>1, <2>1
  <2>3. Len(d) > 0
    BY <1>1, <2>1, <2>2
  <2> HIDE DEF d
  <2>4. d # <<>>
    BY <2>3
  <2>5. QED BY <2>2, <2>4 DEF d, f, g
<1>5. U \in [1..k -> Seq(T) \ {<<>>}]
  BY <1>3, <1>4
<1>6. Len(U) = k
  BY <1>2, <1>5
<1>7. ASSUME l \in 1..NUbatch PROVE U[1] = b
  <2>1. U[1] = SubSeq(b, 1, l)
    BY <1>2, <1>3, <1>7
  <2>2. SubSeq(b, 1, l) = b
    OBVIOUS
  <2>3. QED BY <2>1, <2>2
<1>8. QED BY <1>3, <1>4, <1>6, <1>7 DEF k, U

-----------------------------------------------------------------------------
(* llama_decode, ubatch by ubatch.                                         *)
Answer(r) == "ok" \in DOMAIN r /\ "cache" \in DOMAIN r /\ r.ok \in BOOLEAN

LEMMA DecidedIs ==
  ASSUME NEW r, Answer(r)
  PROVE  /\ Decided(r).ok = r.ok
         /\ Decided(r).cache = IF r.ok THEN FinishDecode(r.cache) ELSE r.cache
BY DEF Decided, Answer

LEMMA PlaceAnswers ==
  ASSUME NEW c, GoodCache(c), NEW u \in Seq(Token) \ {<<>>}
  PROVE  Answer(Place(c, u)) /\ GoodCache(Place(c, u).cache)
<1>1. Place(c, u).ok \in BOOLEAN /\ GoodCache(Place(c, u).cache)
  BY PlaceGood
<1>2. "ok" \in DOMAIN Place(c, u) /\ "cache" \in DOMAIN Place(c, u)
  BY DEF Place, PlaceFrom, PlaceIn
<1>3. QED BY <1>1, <1>2 DEF Answer

LEMMA NextAnswers ==
  ASSUME NEW r, Answer(r), GoodCache(r.cache), NEW u \in Seq(Token) \ {<<>>}
  PROVE  Answer(PlaceNext(r, u)) /\ GoodCache(PlaceNext(r, u).cache)
BY PlaceAnswers DEF PlaceNext

LEMMA DecodedGood ==
  ASSUME NEW c, GoodCache(c), NEW b \in Seq(Token)
  PROVE  GoodCache(Decoded(c, b).cache) /\ Decoded(c, b).ok \in BOOLEAN
<1> DEFINE n == Len(Ubatches(b))
           U == Ubatches(b)
<1>1. n \in Nat /\ \A k \in 1..n : U[k] \in Seq(Token) \ {<<>>}
  <2>1. NUbatches(Len(b)) \in Nat
    BY UbatchBounds
  <2>2. QED BY <2>1, UbatchesAre
<1>2. PICK f : /\ f[0] = [ok |-> TRUE, cache |-> c]
               /\ Decoded(c, b) = Decided(f[n])
               /\ \A k \in 1..n : f[k] = PlaceNext(f[k - 1], U[k])
  BY <1>1, PlaceTurns
<1> HIDE DEF n, U
<1> DEFINE P == {k \in 0..n : Answer(f[k]) /\ GoodCache(f[k].cache)}
<1>3. 0 \in P
  <2>1. Answer(f[0]) /\ GoodCache(f[0].cache)
    BY <1>2 DEF Answer
  <2>2. 0 \in 0..n
    BY <1>1
  <2>3. QED BY <2>1, <2>2
<1>4. ASSUME NEW k \in 1..n, k - 1 \in P PROVE k \in P
  <2>1. f[k] = PlaceNext(f[k - 1], U[k]) /\ U[k] \in Seq(Token) \ {<<>>} /\ k \in 0..n
    BY <1>1, <1>2
  <2>2. Answer(f[k - 1]) /\ GoodCache(f[k - 1].cache)
    BY <1>4
  <2>3. QED BY <2>1, <2>2, NextAnswers
<1> HIDE DEF P
<1>5. n \in P
  <2>1. \A k \in 0..n : k \in P
    BY <1>1, <1>3, <1>4, UpToAll
  <2>2. QED BY <1>1, <2>1
<1>6. Answer(f[n]) /\ GoodCache(f[n].cache)
  BY <1>5 DEF P
<1>7. /\ Decided(f[n]).ok = f[n].ok
      /\ Decided(f[n]).cache = IF f[n].ok THEN FinishDecode(f[n].cache) ELSE f[n].cache
  BY <1>6, DecidedIs
<1>8. GoodCache(FinishDecode(f[n].cache))
  BY <1>6, FinishGood
<1>9. QED BY <1>2, <1>6, <1>7, <1>8 DEF Answer

(* A piece that is one ubatch is stored as a whole, or not at all.         *)
LEMMA DecodedOne ==
  ASSUME NEW c, GoodCache(c), NEW b \in Seq(Token), Len(b) \in 1..NUbatch
  PROVE  LET d == Decoded(c, b)
         IN  /\ d.ok => Holds(c, d.cache, b)
             /\ ~d.ok => SameSeqs(c, d.cache)
<1> DEFINE d == Decoded(c, b)
           p == Place(c, b)
<1>1. Len(Ubatches(b)) = 1 /\ Ubatches(b)[1] = b /\ b \in Seq(Token) \ {<<>>}
  <2>1. NUbatches(Len(b)) = 1
    BY UbatchBounds
  <2>2. b # <<>>
    BY BatchAssumption
  <2>3. QED BY <2>1, <2>2, UbatchesAre
<1>2. PICK f : /\ f[0] = [ok |-> TRUE, cache |-> c]
               /\ d = Decided(f[Len(Ubatches(b))])
               /\ \A k \in 1..Len(Ubatches(b)) : f[k] = PlaceNext(f[k - 1], Ubatches(b)[k])
  <2>1. Len(Ubatches(b)) \in Nat
    BY <1>1
  <2>2. QED BY <2>1, PlaceTurns
<1>3. f[1] = PlaceNext(f[0], b)
  BY <1>1, <1>2
<1>4. f[1] = p
  BY <1>2, <1>3 DEF PlaceNext
<1>5. d = Decided(p)
  BY <1>1, <1>2, <1>4
<1>6. /\ Answer(p) /\ GoodCache(p.cache)
      /\ ~p.ok => SameSeqs(c, p.cache)
      /\ p.ok => Holds(c, p.cache, b)
  BY <1>1, PlaceAnswers, PlaceSeqs
<1> HIDE DEF d, p
<1>7. d.ok = p.ok /\ d.cache = IF p.ok THEN FinishDecode(p.cache) ELSE p.cache
  BY <1>5, <1>6, DecidedIs
<1>8. SameSeqs(p.cache, FinishDecode(p.cache))
  BY <1>6, FinishSeqs
<1>9. CASE p.ok
  <2> DEFINE g == p.cache
             h == d.cache
  <2>1. SameSeqs(g, h) /\ Holds(c, g, b)
    BY <1>6, <1>7, <1>8, <1>9
  <2> HIDE DEF g, h
  <2>2. \A q \in Nat : PosOf(h, q) = PosOf(g, q) /\ (Once(g, q) => Once(h, q))
    BY <2>1 DEF SameSeqs, SameSeq
  <2>3. \A q, r \in Nat : Apart(g, q, r) => Apart(h, q, r)
    BY <2>1 DEF SameSeqs
  <2>4. Holds(c, h, b)
    BY <2>1, <2>2, <2>3 DEF Holds
  <2>5. QED BY <1>7, <1>9, <2>4 DEF h, d
<1>10. CASE ~p.ok
  BY <1>6, <1>7, <1>10 DEF d
<1>11. QED BY <1>6, <1>9, <1>10 DEF Answer, d

(* The worker is sent the same tokens of the sequences one below.          *)
LEMMA SentIs ==
  ASSUME NEW b \in Seq(SlotToken)
  PROVE  b \in Seq(Token) /\ Sent(b) \in Seq(Token) /\ LoweredTokens(b, Sent(b))
<1> DEFINE v == Sent(b)
           l == Len(b)
<1>1. l \in Nat /\ DOMAIN b = 1..l /\ \A k \in 1..l : b[k] \in SlotToken
  OBVIOUS
<1>2. v = [k \in 1..l |-> [b[k] EXCEPT !.seq = {AlignedSeqId(q) : q \in b[k].seq}]]
  BY <1>1 DEF Sent
<1>3. ASSUME NEW k \in 1..l
      PROVE  /\ b[k] \in Token /\ v[k] \in Token
             /\ v[k].pos = b[k].pos /\ v[k].seq = Lowered(b[k].seq)
  <2>1. b[k] \in Token /\ \E s \in Slots : b[k].seq = {s + 1}
    BY <1>1 DEF SlotToken
  <2>2. PICK s \in Slots : b[k].seq = {s + 1}
    BY <2>1
  <2>3. {AlignedSeqId(q) : q \in b[k].seq} = Lowered(b[k].seq)
    BY DEF AlignedSeqId, Lowered
  <2>4. v[k] = [b[k] EXCEPT !.seq = Lowered(b[k].seq)]
    BY <1>2, <2>3
  <2>5. Lowered({s + 1}) = {s} /\ s \in Nat
    BY SlotFacts DEF Lowered
  <2>6. b[k] = [pos |-> b[k].pos, seq |-> b[k].seq] /\ b[k].pos \in Nat
    BY <2>1 DEF Token
  <2>7. v[k] = [pos |-> b[k].pos, seq |-> {s}]
    BY <2>2, <2>4, <2>5, <2>6
  <2> HIDE DEF v
  <2>8. v[k] \in Token
    BY <2>5, <2>6, <2>7 DEF Token
  <2>9. Lowered(b[k].seq) = {s}
    BY <2>2, <2>5
  <2>10. v[k].pos = b[k].pos /\ v[k].seq = {s}
    BY <2>7
  <2>11. QED BY <2>1, <2>8, <2>9, <2>10
<1> HIDE DEF v, l
<1>4. v \in [1..l -> Token]
  <2>1. v = [k \in 1..l |-> v[k]]
    BY <1>2
  <2>2. QED BY <1>3, <2>1
<1>5. v \in Seq(Token) /\ Len(v) = l
  BY <1>1, <1>4
<1>6. b \in Seq(Token)
  <2>1. b \in [1..l -> Token]
    BY <1>1, <1>3 DEF l
  <2>2. QED BY <1>1, <2>1
<1>7. QED BY <1>3, <1>5, <1>6 DEF LoweredTokens, v, l

LEMMA DecodedAlike ==
  ASSUME NEW c, NEW d, Alike(c, d), NEW b \in Seq(SlotToken)
  PROVE  /\ Decoded(d, Sent(b)).ok = Decoded(c, b).ok
         /\ Alike(Decoded(c, b).cache, Decoded(d, Sent(b)).cache)
<1> DEFINE v == Sent(b)
           n == NUbatches(Len(b))
           U == Ubatches(b)
           V == Ubatches(v)
<1>1. b \in Seq(Token) /\ v \in Seq(Token) /\ LoweredTokens(b, v) /\ Len(v) = Len(b) /\ Len(b) \in Nat
  <2>1. b \in Seq(Token) /\ v \in Seq(Token) /\ LoweredTokens(b, v)
    BY SentIs
  <2>2. QED BY <2>1 DEF LoweredTokens
<1> HIDE DEF v
<1>2. n \in Nat /\ \A k \in 1..n : FirstOf(k) \in 1..Len(b) /\ LastOf(Len(b), k) \in FirstOf(k)..Len(b)
  BY <1>1, UbatchBounds
<1>3. /\ Len(U) = n
      /\ \A k \in 1..n : /\ U[k] = SubSeq(b, FirstOf(k), LastOf(Len(b), k))
                         /\ U[k] \in Seq(Token) \ {<<>>}
  BY <1>1, UbatchesAre
<1>4. /\ Len(V) = n
      /\ \A k \in 1..n : /\ V[k] = SubSeq(v, FirstOf(k), LastOf(Len(b), k))
                         /\ V[k] \in Seq(Token) \ {<<>>}
  <2>1. /\ Len(V) = NUbatches(Len(v))
        /\ \A k \in 1..NUbatches(Len(v)) : /\ V[k] = SubSeq(v, FirstOf(k), LastOf(Len(v), k))
                                           /\ V[k] \in Seq(Token) \ {<<>>}
    BY <1>1, UbatchesAre
  <2>2. QED BY <1>1, <2>1
<1>5. PICK f : /\ f[0] = [ok |-> TRUE, cache |-> c]
               /\ Decoded(c, b) = Decided(f[n])
               /\ \A k \in 1..n : f[k] = PlaceNext(f[k - 1], U[k])
  <2>1. Len(U) \in Nat
    BY <1>2, <1>3
  <2>2. \E f : /\ f[0] = [ok |-> TRUE, cache |-> c]
               /\ Decoded(c, b) = Decided(f[Len(U)])
               /\ \A k \in 1..Len(U) : f[k] = PlaceNext(f[k - 1], U[k])
    BY <2>1, PlaceTurns
  <2>3. QED BY <1>3, <2>2
<1>6. PICK g : /\ g[0] = [ok |-> TRUE, cache |-> d]
               /\ Decoded(d, v) = Decided(g[n])
               /\ \A k \in 1..n : g[k] = PlaceNext(g[k - 1], V[k])
  <2>1. Len(V) \in Nat
    BY <1>2, <1>4
  <2>2. \E g : /\ g[0] = [ok |-> TRUE, cache |-> d]
               /\ Decoded(d, v) = Decided(g[Len(V)])
               /\ \A k \in 1..Len(V) : g[k] = PlaceNext(g[k - 1], V[k])
    BY <2>1, PlaceTurns
  <2>3. QED BY <1>4, <2>2
<1> HIDE DEF n, U, V
<1>7. ASSUME NEW k \in 1..n PROVE LoweredTokens(U[k], V[k])
  <2> DEFINE x == FirstOf(k)
             y == LastOf(Len(b), k)
  <2>1. x \in 1..Len(b) /\ y \in x..Len(b) /\ U[k] = SubSeq(b, x, y) /\ V[k] = SubSeq(v, x, y)
    BY <1>2, <1>3, <1>4
  <2> HIDE DEF x, y
  <2>2. /\ Len(U[k]) = y - x + 1 /\ \A z \in 1..y-x+1 : U[k][z] = b[x + z - 1]
    BY <1>1, <2>1
  <2>3. /\ Len(V[k]) = y - x + 1 /\ \A z \in 1..y-x+1 : V[k][z] = v[x + z - 1]
    BY <1>1, <2>1
  <2>4. \A z \in 1..y-x+1 : x + z - 1 \in 1..Len(b)
    BY <1>1, <2>1
  <2>5. \A z \in 1..Len(b) : v[z].pos = b[z].pos /\ v[z].seq = Lowered(b[z].seq)
    BY <1>1 DEF LoweredTokens
  <2>6. QED BY <2>2, <2>3, <2>4, <2>5 DEF LoweredTokens
<1> DEFINE P == {k \in 0..n : /\ Answer(f[k]) /\ Answer(g[k]) /\ g[k].ok = f[k].ok
                              /\ Alike(f[k].cache, g[k].cache)}
<1>8. 0 \in P
  <2>1. Answer(f[0]) /\ Answer(g[0]) /\ g[0].ok = f[0].ok /\ Alike(f[0].cache, g[0].cache)
    BY <1>5, <1>6 DEF Answer
  <2>2. QED BY <1>2, <2>1
<1>9. ASSUME NEW k \in 1..n, k - 1 \in P PROVE k \in P
  <2> DEFINE r == f[k - 1]
             t == g[k - 1]
  <2>1. /\ f[k] = PlaceNext(r, U[k]) /\ g[k] = PlaceNext(t, V[k]) /\ k \in 0..n
        /\ U[k] \in Seq(Token) \ {<<>>} /\ V[k] \in Seq(Token) \ {<<>>}
        /\ LoweredTokens(U[k], V[k])
    BY <1>2, <1>3, <1>4, <1>5, <1>6, <1>7
  <2>2. Answer(r) /\ Answer(t) /\ t.ok = r.ok /\ Alike(r.cache, t.cache)
    BY <1>9
  <2> HIDE DEF r, t, P
  <2>3. GoodCache(r.cache) /\ GoodCache(t.cache)
    BY <2>2 DEF Alike
  <2>4. Answer(f[k]) /\ Answer(g[k])
    BY <2>1, <2>2, <2>3, NextAnswers
  <2>5. g[k].ok = f[k].ok /\ Alike(f[k].cache, g[k].cache)
    <3>1. CASE r.ok
      <4>1. f[k] = Place(r.cache, U[k]) /\ g[k] = Place(t.cache, V[k])
        BY <2>1, <2>2, <3>1 DEF PlaceNext
      <4>2. QED BY <2>1, <2>2, <4>1, PlaceAlike
    <3>2. CASE ~r.ok
      BY <2>1, <2>2, <3>2 DEF PlaceNext
    <3>3. QED BY <3>1, <3>2
  <2>6. QED BY <2>1, <2>4, <2>5 DEF P
<1> HIDE DEF P
<1>10. n \in P
  <2>1. \A k \in 0..n : k \in P
    BY <1>2, <1>8, <1>9, UpToAll
  <2>2. QED BY <1>2, <2>1
<1>11. Answer(f[n]) /\ Answer(g[n]) /\ g[n].ok = f[n].ok /\ Alike(f[n].cache, g[n].cache)
  BY <1>10 DEF P
<1>12. /\ Decided(f[n]).ok = f[n].ok
       /\ Decided(f[n]).cache = IF f[n].ok THEN FinishDecode(f[n].cache) ELSE f[n].cache
  BY <1>11, DecidedIs
<1>13. /\ Decided(g[n]).ok = g[n].ok
       /\ Decided(g[n]).cache = IF g[n].ok THEN FinishDecode(g[n].cache) ELSE g[n].cache
  BY <1>11, DecidedIs
<1>14. Alike(FinishDecode(f[n].cache), FinishDecode(g[n].cache))
  BY <1>11, FinishAlike
<1>15. QED BY <1>5, <1>6, <1>11, <1>12, <1>13, <1>14 DEF v

-----------------------------------------------------------------------------
(* One piece of the batch.                                                 *)
IsPiece(T, b, f, n) == b \in Seq(T) /\ f \in Nat /\ f < Len(b) /\ n \in Nat \ {0}

LEMMA BatchPieceIs ==
  ASSUME NEW T, NEW b, NEW f, NEW n, IsPiece(T, b, f, n)
  PROVE  LET p == Piece(b, f, n)
         IN  /\ p \in Seq(T)
             /\ Len(p) \in 1..n /\ Len(p) = IF f + n <= Len(b) THEN n ELSE Len(b) - f
             /\ \A k \in 1..Len(p) : p[k] = b[f + k]
             /\ \A q, k : k \in TokensOf(p, q) <=> k \in 1..Len(p) /\ f + k \in TokensOf(b, q)
<1> USE DEF IsPiece
<1> DEFINE p == Piece(b, f, n)
           l == Len(b)
           m == IF f + n <= l THEN f + n ELSE l
<1>1. l \in Nat /\ DOMAIN b = 1..l
  OBVIOUS
<1>2. Min({f + n, l}) = m
  <2>1. f + n \in Nat
    OBVIOUS
  <2> HIDE DEF l
  <2>2. QED BY <1>1, <2>1, MaxOfTwo
<1>3. p = SubSeq(b, f + 1, m)
  BY <1>2 DEF Piece
<1> HIDE DEF p, l
<1>4. m \in f+1..l /\ m - f = (IF f + n <= l THEN n ELSE l - f) /\ m - f \in 1..n
  BY <1>1 DEF l
<1> HIDE DEF m
<1>5. p \in Seq(T) /\ Len(p) = m - f /\ \A k \in 1..m-f : p[k] = b[f + k]
  <2> DEFINE a == f + 1
  <2>1. a \in 1..l /\ m \in a..l /\ a \in Nat /\ m \in Nat
    BY <1>1, <1>4
  <2>2. m - a + 1 = m - f /\ \A k \in 1..m-f : a + k - 1 = f + k
    BY <1>4, <1>1
  <2> HIDE DEF a
  <2>3. p = SubSeq(b, a, m)
    BY <1>3 DEF a
  <2>4. p \in Seq(T) /\ Len(p) = m - a + 1 /\ \A k \in 1..m-a+1 : p[k] = b[a + k - 1]
    BY <1>1, <2>1, <2>3 DEF l
  <2>5. QED BY <2>2, <2>4
<1>7. \A k \in 1..m-f : f + k \in 1..l
  BY <1>1, <1>4
<1>8. ASSUME NEW q, NEW k
      PROVE  k \in TokensOf(p, q) <=> k \in 1..m-f /\ f + k \in TokensOf(b, q)
  <2>1. DOMAIN p = 1..m-f
    BY <1>5
  <2>2. QED BY <1>1, <1>5, <1>7, <2>1 DEF TokensOf
<1>9. QED BY <1>4, <1>5, <1>8 DEF p, l

LEMMA NextFields ==
  ASSUME NEW w, NEW bad, Base(w), w.ok, w.i < Len(w.batch), bad \notin w.i+1..w.i+w.n
  PROVE  LET v == NextPiece(w, bad)
             p == Piece(w.batch, w.i, w.n)
             d == Decoded(w.m, p)
         IN  /\ DOMAIN v = WorkFields
             /\ v.m = d.cache /\ v.w = Decoded(w.w, Sent(p)).cache
             /\ v.slot = w.slot /\ v.batch = w.batch /\ v.need = w.need /\ v.lost = w.lost
             /\ d.ok => v.ok /\ v.i = w.i + w.n /\ v.n = w.n
             /\ ~d.ok /\ w.n = 1 => ~v.ok /\ v.i = w.i /\ v.n = w.n
             /\ ~d.ok /\ w.n # 1 => v.ok /\ v.i = w.i /\ v.n = w.n \div 2
             /\ v.ok \in BOOLEAN
<1> DEFINE v == NextPiece(w, bad)
           p == Piece(w.batch, w.i, w.n)
           d == Decoded(w.m, p)
           e == Decoded(w.w, Sent(p))
           x == Returned(w, d, e)
<1>1. v = PieceDone(x)
  BY DEF NextPiece, DecodeBoth
<1>2. d.ok \in BOOLEAN
  <2>1. w.batch \in Seq(SlotToken) /\ w.i \in Nat /\ w.n \in Nat \ {0} /\ GoodCache(w.m)
    BY BatchAssumption DEF Base
  <2>2. w.i < Len(w.batch)
    OBVIOUS
  <2>3. p \in Seq(SlotToken)
    <3>1. IsPiece(SlotToken, w.batch, w.i, w.n)
      BY <2>1, <2>2 DEF IsPiece
    <3>2. QED BY <3>1, BatchPieceIs
  <2>4. p \in Seq(Token)
    BY <2>3, SentIs
  <2>5. QED BY <2>1, <2>4, DecodedGood
<1> HIDE DEF v, p, d, e
<1>3. /\ DOMAIN x = WorkFields /\ x.m = d.cache /\ x.w = e.cache /\ x.ok = d.ok
      /\ x.slot = w.slot /\ x.batch = w.batch /\ x.need = w.need /\ x.lost = w.lost
      /\ x.i = w.i /\ x.n = w.n
  BY DEF Returned, Base, WorkFields
<1> HIDE DEF x
<1>4. CASE d.ok
  <2>1. v = [x EXCEPT !.i = x.i + x.n]
    BY <1>1, <1>3, <1>4 DEF PieceDone
  <2>2. QED BY <1>2, <1>3, <1>4, <2>1 DEF WorkFields, v, p, d, e
<1>5. CASE ~d.ok /\ w.n = 1
  <2>1. v = x
    BY <1>1, <1>3, <1>5 DEF PieceDone
  <2>2. QED BY <1>2, <1>3, <1>5, <2>1 DEF v, p, d, e
<1>6. CASE ~d.ok /\ w.n # 1
  <2>1. v = [x EXCEPT !.ok = TRUE, !.n = x.n \div 2]
    BY <1>1, <1>3, <1>6 DEF PieceDone
  <2>2. QED BY <1>2, <1>3, <1>6, <2>1 DEF WorkFields, v, p, d, e
<1>7. QED BY <1>4, <1>5, <1>6

(* What slot s has, and what it will have when the batch is decoded.       *)
Having(w, s) == PosOf(w.m, s + 1) \union WaitingPos(w, s)

LEMMA PieceStored ==
  ASSUME NEW w, Base(w), w.i < Len(w.batch), Stray(w), NEW v,
         v.slot = w.slot, v.batch = w.batch, v.i = w.i + w.n,
         Holds(w.m, v.m, Piece(w.batch, w.i, w.n))
  PROVE  Stray(v) /\ \A s \in Slots : Having(v, s) = Having(w, s)
<1> DEFINE p == Piece(w.batch, w.i, w.n)
           l == Len(w.batch)
           j == w.i
           n == w.n
           b == w.batch
<1>1. b \in Seq(SlotToken) /\ j \in Nat /\ n \in Nat \ {0} /\ l \in Nat /\ j < l
  BY BatchAssumption DEF Base
<1>2. /\ Len(p) \in 1..n /\ Len(p) = IF j + n <= l THEN n ELSE l - j
      /\ \A k \in 1..Len(p) : p[k] = b[j + k]
      /\ \A q, k : k \in TokensOf(p, q) <=> k \in 1..Len(p) /\ j + k \in TokensOf(b, q)
  <2>1. p = Piece(b, j, n) /\ l = Len(b)
    OBVIOUS
  <2> HIDE DEF p, b, j, n, l
  <2>2. j < Len(b)
    BY <1>1, <2>1
  <2>3. /\ Piece(b, j, n) \in Seq(SlotToken)
        /\ Len(Piece(b, j, n)) \in 1..n
        /\ Len(Piece(b, j, n)) = IF j + n <= Len(b) THEN n ELSE Len(b) - j
        /\ \A k \in 1..Len(Piece(b, j, n)) : Piece(b, j, n)[k] = b[j + k]
        /\ \A q, k : k \in TokensOf(Piece(b, j, n), q)
                       <=> k \in 1..Len(Piece(b, j, n)) /\ j + k \in TokensOf(b, q)
    <3>1. IsPiece(SlotToken, b, j, n)
      BY <1>1, <2>2 DEF IsPiece
    <3>2. QED BY <3>1, BatchPieceIs
  <2>4. QED BY <2>1, <2>3
<1>3. Holds(w.m, v.m, p)
  OBVIOUS
<1> HIDE DEF p
<1>4. \A q : TokensOf(b, q) \subseteq 1..l
  BY <1>1 DEF TokensOf
<1>5. /\ v.batch = b /\ w.batch = b /\ v.i = j + n /\ w.i = j
      /\ \A k \in 1..l : k > j <=> (k > j + n \/ \E x \in 1..Len(p) : k = j + x)
      /\ \A x \in 1..Len(p) : j + x > j /\ ~(j + x > j + n)
  <2> HIDE DEF l, b, j, n
  <2>1. ASSUME NEW k \in 1..l, k > j, ~(k > j + n) PROVE k - j \in 1..Len(p) /\ k = j + (k - j)
    BY <1>1, <1>2, <2>1
  <2>2. \A k \in 1..l : k > j /\ ~(k > j + n) => \E x \in 1..Len(p) : k = j + x
    BY <2>1
  <2>3. \A k \in 1..l : k > j + n => k > j
    BY <1>1
  <2>4. \A x \in 1..Len(p) : j + x > j /\ ~(j + x > j + n)
    BY <1>1, <1>2
  <2>5. v.batch = b /\ w.batch = b /\ v.i = j + n /\ w.i = j
    BY DEF b, j, n
  <2>6. QED BY <2>2, <2>3, <2>4, <2>5
<1> HIDE DEF l, b, j, n
<1>6. ASSUME NEW s \in Slots
      PROVE  /\ Waiting(v, s) \subseteq Waiting(w, s)
             /\ \A x \in TokensOf(p, s + 1) :
                  /\ j + x \in Waiting(w, s) /\ j + x \notin Waiting(v, s)
                  /\ p[x].pos = b[j + x].pos /\ p[x] = b[j + x]
             /\ \A k \in Waiting(w, s) : k \in Waiting(v, s)
                                         \/ \E x \in TokensOf(p, s + 1) : k = j + x
  <2>1. Waiting(w, s) = {k \in TokensOf(b, s + 1) : k > j}
    BY <1>5 DEF Waiting
  <2>2. Waiting(v, s) = {k \in TokensOf(b, s + 1) : k > j + n}
    BY <1>5 DEF Waiting
  <2>3. Waiting(v, s) \subseteq Waiting(w, s)
    BY <1>4, <1>5, <2>1, <2>2
  <2>4. ASSUME NEW x \in TokensOf(p, s + 1)
        PROVE  j + x \in Waiting(w, s) /\ j + x \notin Waiting(v, s) /\ p[x] = b[j + x]
    <3>1. x \in 1..Len(p) /\ j + x \in TokensOf(b, s + 1)
      BY <1>2
    <3>2. QED BY <1>2, <1>5, <2>1, <2>2, <3>1
  <2>5. ASSUME NEW k \in Waiting(w, s), k \notin Waiting(v, s)
        PROVE  \E x \in TokensOf(p, s + 1) : k = j + x
    <3>1. k \in TokensOf(b, s + 1) /\ k > j /\ ~(k > j + n) /\ k \in 1..l
      BY <1>4, <2>1, <2>2, <2>5
    <3>2. PICK x \in 1..Len(p) : k = j + x
      BY <1>5, <3>1
    <3>3. x \in TokensOf(p, s + 1)
      BY <1>2, <3>1, <3>2
    <3>4. QED BY <3>2, <3>3
  <2>6. QED BY <2>3, <2>4, <2>5
<1>7. ASSUME NEW s \in Slots PROVE WaitingPos(w, s) = PosIn(p, s + 1) \union WaitingPos(v, s)
  <2>1. WaitingPos(w, s) = {b[k].pos : k \in Waiting(w, s)}
    BY <1>5 DEF WaitingPos
  <2>2. WaitingPos(v, s) = {b[k].pos : k \in Waiting(v, s)}
    BY <1>5 DEF WaitingPos
  <2>3. PosIn(p, s + 1) = {p[x].pos : x \in TokensOf(p, s + 1)}
    BY DEF PosIn
  <2>4. WaitingPos(w, s) \subseteq PosIn(p, s + 1) \union WaitingPos(v, s)
    BY <1>6, <2>1, <2>2, <2>3
  <2>5. PosIn(p, s + 1) \union WaitingPos(v, s) \subseteq WaitingPos(w, s)
    BY <1>6, <2>1, <2>2, <2>3
  <2>6. QED BY <2>4, <2>5
<1>8. ASSUME NEW s \in Slots PROVE PosOf(v.m, s + 1) = PosOf(w.m, s + 1) \union PosIn(p, s + 1)
  BY <1>3, SlotFacts DEF Holds
<1>9. ASSUME NEW s \in Slots PROVE Having(v, s) = Having(w, s)
  BY <1>7, <1>8 DEF Having
<1>10. ASSUME NEW s \in Slots PROVE StrayOf(v, s)
  <2>1. StrayOf(w, s) /\ s + 1 \in Nat
    BY SlotFacts DEF Stray
  <2>2. \A k, x \in Waiting(w, s) : b[k].pos = b[x].pos => k = x
    BY <1>5, <2>1 DEF StrayOf
  <2>3. ASSUME NEW k \in TokensOf(p, s + 1), NEW x \in TokensOf(p, s + 1), p[k].pos = p[x].pos
        PROVE  k = x
    <3>1. j + k = j + x
      BY <1>6, <2>2, <2>3
    <3>2. k \in 1..Len(p) /\ x \in 1..Len(p) /\ Len(p) \in Nat
      BY <1>2
    <3>3. QED BY <1>1, <3>1, <3>2
  <2>4. PosIn(p, s + 1) \cap PosOf(w.m, s + 1) = {}
    BY <1>7, <2>1 DEF StrayOf
  <2>5. Fresh(w.m, p, s + 1)
    BY <2>3, <2>4 DEF Fresh
  <2>6. Once(v.m, s + 1)
    BY <1>3, <2>1, <2>5 DEF Holds, StrayOf
  <2>7. \A k, x \in Waiting(v, s) : b[k].pos = b[x].pos => k = x
    BY <1>6, <2>2
  <2>8. WaitingPos(v, s) \cap PosIn(p, s + 1) = {}
    <3>1. SUFFICES ASSUME NEW k \in Waiting(v, s), NEW x \in TokensOf(p, s + 1), b[k].pos = p[x].pos
                   PROVE  FALSE
      BY <1>5 DEF WaitingPos, PosIn
    <3>2. k = j + x
      BY <1>6, <2>2, <3>1
    <3>3. QED BY <1>6, <3>2
  <2>9. WaitingPos(v, s) \cap PosOf(v.m, s + 1) = {}
    BY <1>7, <1>8, <2>1, <2>8 DEF StrayOf
  <2>10. ASSUME NEW t \in Slots \ {s} PROVE Apart(v.m, s + 1, t + 1)
    <3>1. Apart(w.m, s + 1, t + 1)
      BY <2>1 DEF StrayOf
    <3>2. ASSUME NEW k \in TokensOf(p, s + 1) PROVE t + 1 \notin p[k].seq
      <4>1. p[k] = b[j + k] /\ j + k \in Waiting(w, s)
        BY <1>6
      <4>2. j + k \in 1..l /\ s + 1 \in b[j + k].seq
        <5>1. j + k \in TokensOf(b, s + 1)
          BY <1>5, <4>1 DEF Waiting
        <5>2. QED BY <1>4, <5>1 DEF TokensOf
      <4>3. b[j + k] \in SlotToken
        BY <1>1, <4>2 DEF l, b
      <4>4. PICK x \in Slots : b[j + k].seq = {x + 1}
        BY <4>3 DEF SlotToken
      <4>5. x + 1 = s + 1 /\ t + 1 # s + 1
        BY <4>2, <4>4, SlotFacts
      <4>6. QED BY <4>1, <4>4, <4>5
    <3>3. t + 1 \in Nat
      BY SlotFacts
    <3>4. QED BY <1>3, <2>1, <3>1, <3>2, <3>3 DEF Holds
  <2>11. ASSUME Begun(v.slot[s]), NEW x \in Having(v, s) PROVE x < End(v, s)
    <3>1. End(v, s) = End(w, s) /\ Begun(w.slot[s]) /\ x \in Having(w, s)
      BY <1>9, <2>11 DEF End
    <3>2. QED BY <2>1, <3>1 DEF StrayOf, Having
  <2>12. QED BY <1>5, <2>6, <2>7, <2>9, <2>10, <2>11 DEF StrayOf, Having
<1>11. QED BY <1>9, <1>10 DEF Stray

LEMMA NothingStored ==
  ASSUME NEW w, Base(w), Stray(w), NEW v,
         v.slot = w.slot, v.batch = w.batch, v.i = w.i, SameSeqs(w.m, v.m)
  PROVE  Stray(v) /\ \A s \in Slots : Having(v, s) = Having(w, s)
<1>1. ASSUME NEW s \in Slots
      PROVE  /\ Waiting(v, s) = Waiting(w, s) /\ WaitingPos(v, s) = WaitingPos(w, s)
             /\ PosOf(v.m, s + 1) = PosOf(w.m, s + 1) /\ End(v, s) = End(w, s)
             /\ Once(w.m, s + 1) => Once(v.m, s + 1)
  <2>1. s + 1 \in Nat
    BY SlotFacts
  <2>2. SameSeq(w.m, v.m, s + 1)
    BY <2>1 DEF SameSeqs
  <2>3. QED BY <2>2 DEF SameSeq, Waiting, WaitingPos, End
<1>2. ASSUME NEW s \in Slots, NEW t \in Slots \ {s} PROVE Apart(v.m, s + 1, t + 1)
  <2>1. Apart(w.m, s + 1, t + 1) /\ s + 1 \in Nat /\ t + 1 \in Nat
    BY SlotFacts DEF Stray, StrayOf
  <2>2. QED BY <2>1 DEF SameSeqs
<1>3. ASSUME NEW s \in Slots PROVE StrayOf(v, s)
  <2>1. StrayOf(w, s)
    BY DEF Stray
  <2>2. QED BY <1>1, <1>2, <2>1 DEF StrayOf
<1>4. QED BY <1>1, <1>3 DEF Stray, Having

(* The batch itself, and what is not about the caches.                     *)
SameBatch(w, v) ==
  v.slot = w.slot /\ v.batch = w.batch /\ v.need = w.need /\ v.lost = w.lost

Undone(w) == w.ok /\ w.i < Len(w.batch)

(* A piece that llama_decode refuses: only ok changes.                     *)
LEMMA GivenUpKeeps ==
  ASSUME NEW w, Good(w)
  PROVE  LET v == [w EXCEPT !.ok = FALSE]
         IN  Good(v) /\ SameBatch(w, v) /\ v.ok = FALSE
<1> DEFINE v == [w EXCEPT !.ok = FALSE]
<1>1. Base(w)
  BY DEF Good
<1>2. /\ DOMAIN v = WorkFields /\ v.ok = FALSE
      /\ v.m = w.m /\ v.w = w.w /\ v.slot = w.slot /\ v.batch = w.batch
      /\ v.i = w.i /\ v.n = w.n /\ v.need = w.need /\ v.lost = w.lost
  BY <1>1 DEF Base, WorkFields
<1> HIDE DEF v
<1>3. Base(v)
  BY <1>1, <1>2 DEF Base
<1>4. ASSUME NEW s \in Slots
      PROVE  Waiting(v, s) = Waiting(w, s) /\ WaitingPos(v, s) = WaitingPos(w, s)
  BY <1>2 DEF Waiting, WaitingPos
<1>5. Stray(w) => Stray(v)
  BY <1>2, <1>4 DEF Stray, StrayOf, End
<1>6. Whole(w) => Whole(v)
  BY <1>2, <1>4 DEF Whole, WholeOf
<1>7. QED BY <1>2, <1>3, <1>5, <1>6 DEF Good, SameBatch, v

LEMMA NextPieceKeeps ==
  ASSUME NEW w, NEW bad, Good(w)
  PROVE  LET v == NextPiece(w, bad)
         IN  /\ Good(v) /\ SameBatch(w, v)
             /\ Undone(v) => Undone(w) /\ v.i - v.n >= w.i - w.n + 1
<1> DEFINE v == NextPiece(w, bad)
           p == Piece(w.batch, w.i, w.n)
           d == Decoded(w.m, p)
<1>1. CASE ~Undone(w)
  <2>1. v = w
    BY <1>1 DEF NextPiece, Undone
  <2>2. QED BY <1>1, <2>1 DEF SameBatch
<1>2. CASE Undone(w) /\ bad \notin w.i+1..w.i+w.n
  <2>1. Base(w) /\ w.ok /\ w.i < Len(w.batch) /\ GoodCache(w.m)
    BY <1>2 DEF Good, Base, Undone
  <2>2. /\ DOMAIN v = WorkFields
        /\ v.m = d.cache /\ v.w = Decoded(w.w, Sent(p)).cache
        /\ v.slot = w.slot /\ v.batch = w.batch /\ v.need = w.need /\ v.lost = w.lost
        /\ d.ok => v.ok /\ v.i = w.i + w.n /\ v.n = w.n
        /\ ~d.ok /\ w.n = 1 => ~v.ok /\ v.i = w.i /\ v.n = w.n
        /\ ~d.ok /\ w.n # 1 => v.ok /\ v.i = w.i /\ v.n = w.n \div 2
        /\ v.ok \in BOOLEAN
    <3>1. bad \notin w.i+1..w.i+w.n
      BY <1>2
    <3>2. QED BY ONLY <2>1, <3>1, NextFields DEF v, d, p
  <2>3. w.batch \in Seq(SlotToken) /\ w.i \in Nat /\ w.n \in 1..NBatch /\ w.n \in Nat \ {0}
    BY <2>1, BatchAssumption DEF Base
  <2>4. p \in Seq(SlotToken) /\ p \in Seq(Token) /\ Len(p) \in 1..w.n
    <3>1. p \in Seq(SlotToken) /\ Len(p) \in 1..w.n
      <4>1. IsPiece(SlotToken, w.batch, w.i, w.n)
        BY <2>1, <2>3 DEF IsPiece
      <4>2. QED BY <4>1, BatchPieceIs
    <3>2. QED BY <3>1, SentIs
  <2>5. GoodCache(d.cache) /\ d.ok \in BOOLEAN
    BY <2>1, <2>4, DecodedGood
  <2>6. AgreeCase => Alike(d.cache, Decoded(w.w, Sent(p)).cache)
    BY <2>4, DecodedAlike DEF Good
  <2>7. StrayCase => /\ d.ok => Holds(w.m, d.cache, p)
                     /\ ~d.ok => SameSeqs(w.m, d.cache)
    <3>1. SUFFICES ASSUME StrayCase
                   PROVE  /\ d.ok => Holds(w.m, d.cache, p)
                          /\ ~d.ok => SameSeqs(w.m, d.cache)
      OBVIOUS
    <3>2. Len(p) \in 1..NUbatch
      BY <2>3, <2>4, <3>1, BatchAssumption DEF StrayCase, OneUbatchPerPiece
    <3>3. QED BY <2>1, <2>4, <3>2, DecodedOne
  <2> HIDE DEF d, v
  <2>8. /\ v.n \in 1..NBatch /\ v.i \in Nat
        /\ v.ok => v.i - v.n >= w.i - w.n + 1
    <3>1. CASE d.ok
      BY <2>2, <2>3, <3>1
    <3>2. CASE ~d.ok /\ w.n = 1
      BY <2>2, <2>3, <3>2
    <3>3. CASE ~d.ok /\ w.n # 1
      <4> DEFINE n == w.n
      <4>1. n \in 2..NBatch /\ NBatch \in Nat
        BY <2>3, <3>3, BatchAssumption
      <4> HIDE DEF n
      <4>2. n \div 2 \in 1..NBatch /\ n \div 2 <= n - 1
        BY <4>1
      <4>3. v.n = n \div 2 /\ v.i = w.i
        BY <2>2, <3>3 DEF n
      <4>4. QED BY <2>3, <4>1, <4>2, <4>3 DEF n
    <3>4. QED BY <2>5, <3>1, <3>2, <3>3
  <2>9. Base(v)
    BY <2>1, <2>2, <2>5, <2>8 DEF Base
  <2>10. ASSUME StrayCase PROVE Stray(v) /\ \A s \in Slots : Having(v, s) = Having(w, s)
    <3>1. Stray(w)
      BY <2>10 DEF Good
    <3>2. CASE d.ok
      <4>1. Holds(w.m, v.m, Piece(w.batch, w.i, w.n))
        BY <2>2, <2>7, <2>10, <3>2
      <4>2. v.i = w.i + w.n /\ v.slot = w.slot /\ v.batch = w.batch
        BY <2>2, <3>2
      <4>3. QED BY <2>1, <3>1, <4>1, <4>2, PieceStored
    <3>3. CASE ~d.ok
      <4>1. SameSeqs(w.m, v.m)
        BY <2>2, <2>7, <2>10, <3>3
      <4>2. v.i = w.i /\ v.slot = w.slot /\ v.batch = w.batch
        BY <2>2, <3>3
      <4>3. QED BY <2>1, <3>1, <4>1, <4>2, NothingStored
    <3>4. QED BY <3>2, <3>3
  <2>11. ASSUME WholeCase PROVE Whole(v)
    <3>1. Whole(w) /\ \A s \in Slots : Having(v, s) = Having(w, s)
      BY <2>10, <2>11, CasesAre DEF Good
    <3>2. ASSUME NEW s \in Slots PROVE WholeOf(v, s)
      <4>1. WholeOf(w, s) /\ Having(v, s) = Having(w, s)
        BY <3>1 DEF Whole
      <4>2. QED BY <2>2, <4>1 DEF WholeOf, Having
    <3>3. QED BY <3>2 DEF Whole
  <2>12. Good(v)
    BY <2>2, <2>6, <2>9, <2>10, <2>11 DEF Good
  <2>13. QED BY <1>2, <2>2, <2>8, <2>12 DEF SameBatch, Undone, v
<1>3. CASE Undone(w) /\ bad \in w.i+1..w.i+w.n
  <2>1. v = [w EXCEPT !.ok = FALSE]
    BY <1>3 DEF NextPiece, Undone
  <2>2. Good(v) /\ SameBatch(w, v) /\ v.ok = FALSE
    BY <2>1, GivenUpKeeps
  <2> HIDE DEF v
  <2>3. QED BY <2>2 DEF Undone, v
<1>4. QED BY <1>1, <1>2, <1>3

(* The whole batch: in the end it is decoded, or a single token was not.   *)
LEMMA DecodeBatchKeeps ==
  ASSUME NEW w, NEW bad, Good(w), w.i = 0, w.n = NBatch
  PROVE  LET v == DecodeBatch(w, bad)
         IN  Good(v) /\ SameBatch(w, v) /\ ~Undone(v)
<1> DEFINE l == Len(w.batch)
           n == l + NBatch
<1>1. l \in Nat /\ n \in Nat /\ NBatch \in Nat \ {0}
  BY BatchAssumption DEF Good, Base
<1>2. PICK f : /\ f[0] = w /\ DecodeBatch(w, bad) = f[n]
               /\ \A k \in 1..n : f[k] = NextPiece(f[k - 1], bad)
  <2>1. Len(w.batch) \in Nat
    BY <1>1
  <2>2. QED BY ONLY <2>1, PieceTurns
<1> HIDE DEF l
<1> DEFINE P == {k \in 0..n : /\ Good(f[k]) /\ SameBatch(w, f[k])
                              /\ Undone(f[k]) => k <= f[k].i + NBatch - f[k].n}
<1>3. 0 \in P
  <2>1. Good(f[0]) /\ SameBatch(w, f[0]) /\ f[0].i = 0 /\ f[0].n = NBatch
    BY <1>2 DEF SameBatch
  <2>2. 0 <= f[0].i + NBatch - f[0].n /\ 0 \in 0..n
    BY <1>1, <2>1
  <2>3. QED BY <2>1, <2>2
<1>4. ASSUME NEW k \in 1..n, k - 1 \in P PROVE k \in P
  <2> DEFINE a == f[k - 1]
             v == f[k]
  <2>1. v = NextPiece(a, bad) /\ k \in 0..n /\ k \in Nat
    BY <1>1, <1>2
  <2>2. Good(a) /\ SameBatch(w, a) /\ (Undone(a) => k - 1 <= a.i + NBatch - a.n)
    BY <1>4
  <2> HIDE DEF a, v
  <2>3. /\ Good(v) /\ SameBatch(a, v)
        /\ Undone(v) => Undone(a) /\ v.i - v.n >= a.i - a.n + 1
    BY <2>1, <2>2, NextPieceKeeps
  <2>4. SameBatch(w, v)
    BY <2>2, <2>3 DEF SameBatch
  <2>5. a.i \in Nat /\ a.n \in Nat /\ v.i \in Nat /\ v.n \in Nat
    BY <1>1, <2>2, <2>3 DEF Good, Base
  <2>6. Undone(v) => k <= v.i + NBatch - v.n
    BY <1>1, <2>1, <2>2, <2>3, <2>5
  <2>7. QED BY <2>1, <2>3, <2>4, <2>6 DEF v
<1> HIDE DEF P, n
<1>5. n \in P
  <2>1. \A k \in 0..n : k \in P
    BY <1>1, <1>3, <1>4, UpToAll
  <2>2. QED BY <1>1, <2>1
<1>6. Good(f[n]) /\ SameBatch(w, f[n]) /\ (Undone(f[n]) => n <= f[n].i + NBatch - f[n].n)
  BY <1>5 DEF P
<1>7. ~Undone(f[n])
  <2>1. SUFFICES ASSUME Undone(f[n]) PROVE FALSE
    OBVIOUS
  <2>2. f[n].i < l /\ f[n].i \in Nat /\ f[n].n \in 1..NBatch
    BY <1>6, <2>1 DEF Undone, SameBatch, l, Good, Base
  <2>3. QED BY <1>1, <1>6, <2>1, <2>2 DEF n
<1>8. QED BY <1>2, <1>6, <1>7

-----------------------------------------------------------------------------
(* The parts of the system prompt.                                         *)
SystemPiece(k) == Piece(SystemTokens, (k - 1) * NBatch, NBatch)

LEMMA SystemPieceIs ==
  ASSUME system \in Nat
  PROVE  /\ SystemParts \in Nat /\ (system = 0 => SystemParts = 0)
         /\ \A k \in 1..SystemParts :
              /\ SystemPiece(k) \in Seq(Token) /\ Len(SystemPiece(k)) \in 1..NBatch
              /\ (k - 1) * NBatch \in Nat /\ k * NBatch = (k - 1) * NBatch + NBatch
              /\ (k - 1) * NBatch + Len(SystemPiece(k)) <= system
              /\ \A x \in 1..Len(SystemPiece(k)) :
                   /\ SystemPiece(k)[x].pos = (k - 1) * NBatch + x - 1
                   /\ SystemPiece(k)[x].seq = {0}
<1> DEFINE N == NBatch
           b == SystemTokens
<1>1. N \in Nat \ {0} /\ N \in Nat /\ N > 0
  BY BatchAssumption
<1> DEFINE parts == PartsOf(system, N)
<1>2. /\ parts \in Nat /\ parts * N \in Nat
      /\ parts * N <= system + N - 1 /\ system <= parts * N
      /\ \A u \in 1..parts :
           (u - 1) * N \in Nat /\ (u - 1) * N < system /\ u * N = (u - 1) * N + N
  BY <1>1, PartsAre
<1>3. SystemParts = parts
  BY DEF SystemParts, PartsOf
<1> HIDE DEF parts
<1>4. ASSUME system = 0 PROVE parts = 0
  <2>1. SUFFICES ASSUME 1 \in 1..parts PROVE FALSE
    BY <1>2
  <2>2. (1 - 1) * N = 0 /\ (1 - 1) * N < system
    BY <1>1, <1>2, <2>1
  <2>3. QED BY <1>4, <2>2
<1>5. b \in Seq(Token) /\ Len(b) = system /\ \A x \in 1..system : b[x] = [pos |-> x - 1, seq |-> {0}]
  <2>1. b = [x \in 1..system |-> [pos |-> x - 1, seq |-> {0}]]
    BY DEF SystemTokens
  <2> HIDE DEF b
  <2>2. \A x \in 1..system : [pos |-> x - 1, seq |-> {0}] \in Token
    BY DEF Token
  <2>3. b \in [1..system -> Token]
    BY <2>1, <2>2
  <2>4. b \in Seq(Token) /\ Len(b) = system
    BY <2>3
  <2>5. QED BY <2>1, <2>4
<1>6. ASSUME NEW k \in 1..parts
      PROVE  /\ SystemPiece(k) \in Seq(Token) /\ Len(SystemPiece(k)) \in 1..N
             /\ (k - 1) * N + Len(SystemPiece(k)) <= system
             /\ \A x \in 1..Len(SystemPiece(k)) :
                  /\ SystemPiece(k)[x].pos = (k - 1) * N + x - 1
                  /\ SystemPiece(k)[x].seq = {0}
  <2> DEFINE f == (k - 1) * N
             p == Piece(b, f, N)
  <2>1. f \in Nat /\ f < system
    BY <1>2
  <2>2. SystemPiece(k) = p
    BY DEF SystemPiece
  <2>3. IsPiece(Token, b, f, N)
    BY <1>1, <1>5, <2>1 DEF IsPiece
  <2> HIDE DEF f, b, N, p
  <2>4. /\ p \in Seq(Token) /\ Len(p) \in 1..N
        /\ Len(p) = IF f + N <= Len(b) THEN N ELSE Len(b) - f
        /\ \A x \in 1..Len(p) : p[x] = b[f + x]
    BY <2>3, BatchPieceIs DEF p
  <2>5. f + Len(p) <= system
    BY <1>1, <1>5, <2>1, <2>4
  <2>6. ASSUME NEW x \in 1..Len(p) PROVE p[x].pos = f + x - 1 /\ p[x].seq = {0}
    <3>1. f + x \in 1..system
      BY <1>1, <2>1, <2>4, <2>5
    <3>2. p[x] = b[f + x]
      BY <2>4
    <3>3. b[f + x] = [pos |-> (f + x) - 1, seq |-> {0}]
      BY <1>5, <3>1
    <3>4. QED BY <2>1, <3>2, <3>3
  <2>7. QED BY <2>2, <2>4, <2>5, <2>6 DEF f
<1>7. QED BY <1>2, <1>3, <1>4, <1>6 DEF N

(* The caches change, and whether a part could be decoded.                 *)
Beside(w, v) ==
  /\ DOMAIN v = WorkFields /\ SameBatch(w, v) /\ v.i = w.i /\ v.n = w.n
  /\ v.ok \in BOOLEAN /\ GoodCache(v.m)

(* Sequence 0 has each position below e at most once, the slots nothing.   *)
OnlySystem(c, e) ==
  /\ Once(c, 0) /\ \A p \in PosOf(c, 0) : p < e /\ p < system
  /\ \A s \in Slots : PosOf(c, s + 1) = {}

LEMMA SystemPartKeeps ==
  ASSUME NEW w, NEW v, Beside(w, v), system \in Nat, NEW k \in 1..SystemParts
  PROVE  /\ Beside(w, SystemPart(v, k))
         /\ StrayCase /\ OnlySystem(v.m, (k - 1) * NBatch) =>
              OnlySystem(SystemPart(v, k).m, k * NBatch)
<1> DEFINE p == SystemPiece(k)
           f == (k - 1) * NBatch
           d == Decoded(v.m, p)
           e == Decoded(v.w, Sent(p))
           r == SystemPart(v, k)
           l == Len(p)
<1>1. /\ p \in Seq(Token) /\ l \in 1..NBatch /\ f \in Nat /\ k * NBatch = f + NBatch
      /\ f + l <= system /\ NBatch \in Nat
      /\ \A x \in 1..l : p[x].pos = f + x - 1 /\ p[x].seq = {0}
  BY SystemPieceIs, BatchAssumption
<1>2. r = IF v.ok THEN Returned(v, d, e) ELSE v
  BY DEF SystemPart, DecodeBoth, SystemPiece
<1> HIDE DEF p, f, r
<1>3. GoodCache(d.cache) /\ d.ok \in BOOLEAN
  BY <1>1, DecodedGood DEF Beside
<1>4. CASE ~v.ok
  <2>1. r = v
    BY <1>2, <1>4
  <2>2. ASSUME OnlySystem(v.m, f) PROVE OnlySystem(v.m, f + NBatch)
    <3>1. \A x \in PosOf(v.m, 0) : x \in Nat
      BY PositionsAre DEF Beside
    <3>2. \A x \in PosOf(v.m, 0) : x < f + NBatch
      BY <1>1, <2>2, <3>1 DEF OnlySystem
    <3>3. QED BY <2>2, <3>2 DEF OnlySystem
  <2>3. QED BY <1>1, <2>1, <2>2 DEF f, r
<1>5. CASE v.ok
  <2>1. r = Returned(v, d, e)
    BY <1>2, <1>5
  <2> HIDE DEF d, e
  <2>2. /\ DOMAIN r = WorkFields /\ r.m = d.cache /\ r.ok = d.ok /\ SameBatch(v, r)
        /\ r.i = v.i /\ r.n = v.n
    BY <2>1 DEF Returned, Beside, WorkFields, SameBatch
  <2>3. Beside(w, r)
    BY <1>3, <2>2 DEF Beside, SameBatch
  <2>4. ASSUME StrayCase, OnlySystem(v.m, f) PROVE OnlySystem(r.m, f + NBatch)
    <3>0. \A x \in PosOf(v.m, 0) : x \in Nat /\ x < f
      BY <2>4, PositionsAre DEF Beside, OnlySystem
    <3>1. CASE d.ok
      <4>1. Holds(v.m, r.m, p)
        <5>1. l \in 1..NUbatch
          BY <1>1, <2>4, BatchAssumption DEF StrayCase, OneUbatchPerPiece
        <5>2. QED BY <1>1, <2>2, <3>1, <5>1, DecodedOne DEF d, Beside
      <4>2. TokensOf(p, 0) = 1..l
        BY <1>1 DEF TokensOf
      <4>3. PosIn(p, 0) = {p[x].pos : x \in 1..l}
        BY <4>2 DEF PosIn
      <4>4. \A z \in PosIn(p, 0) : z >= f /\ z < f + NBatch /\ z < system
        <5>1. \A x \in 1..l : p[x].pos >= f /\ p[x].pos < f + NBatch /\ p[x].pos < system
          BY <1>1
        <5>2. QED BY <4>3, <5>1
      <4>5. Fresh(v.m, p, 0)
        <5>1. \A x, y \in 1..l : p[x].pos = p[y].pos => x = y
          BY <1>1
        <5>2. PosIn(p, 0) \cap PosOf(v.m, 0) = {}
          <6>1. ASSUME NEW z \in PosIn(p, 0), z \in PosOf(v.m, 0) PROVE FALSE
            BY <1>1, <3>0, <4>4, <6>1
          <6>2. QED BY <6>1
        <5>3. QED BY <4>2, <5>1, <5>2 DEF Fresh
      <4>6. Once(r.m, 0) /\ PosOf(r.m, 0) = PosOf(v.m, 0) \union PosIn(p, 0)
        BY <2>4, <4>1, <4>5 DEF Holds, OnlySystem
      <4>7. \A x \in PosOf(r.m, 0) : x < f + NBatch /\ x < system
        <5>1. \A x \in PosOf(v.m, 0) : x < f + NBatch /\ x < system
          BY <1>1, <2>4, <3>0 DEF OnlySystem
        <5>2. QED BY <4>4, <4>6, <5>1
      <4>8. ASSUME NEW s \in Slots PROVE PosOf(r.m, s + 1) = {}
        <5>1. s + 1 \in Nat /\ s + 1 # 0
          BY SlotFacts
        <5>2. TokensOf(p, s + 1) = {}
          BY <1>1, <5>1 DEF TokensOf
        <5>3. PosIn(p, s + 1) = {}
          BY <5>2 DEF PosIn
        <5>4. PosOf(r.m, s + 1) = PosOf(v.m, s + 1) \union PosIn(p, s + 1)
          BY <4>1, <5>1 DEF Holds
        <5>5. QED BY <2>4, <5>3, <5>4 DEF OnlySystem
      <4>9. QED BY <4>6, <4>7, <4>8 DEF OnlySystem
    <3>2. CASE ~d.ok
      <4>1. SameSeqs(v.m, r.m)
        <5>1. l \in 1..NUbatch
          BY <1>1, <2>4, BatchAssumption DEF StrayCase, OneUbatchPerPiece
        <5>2. QED BY <1>1, <2>2, <3>2, <5>1, DecodedOne DEF d, Beside
      <4>2. Once(r.m, 0) /\ PosOf(r.m, 0) = PosOf(v.m, 0)
        BY <2>4, <4>1 DEF SameSeqs, SameSeq, OnlySystem
      <4>3. \A x \in PosOf(r.m, 0) : x < f + NBatch /\ x < system
        BY <1>1, <2>4, <3>0, <4>2 DEF OnlySystem
      <4>4. \A s \in Slots : PosOf(r.m, s + 1) = {}
        BY <2>4, <4>1, SlotFacts DEF SameSeqs, SameSeq, OnlySystem
      <4>5. QED BY <4>2, <4>3, <4>4 DEF OnlySystem
    <3>3. QED BY <1>3, <3>1, <3>2
  <2>5. QED BY <1>1, <2>3, <2>4 DEF f, r
<1>6. QED BY <1>4, <1>5 DEF Beside

LEMMA SystemPartsRun ==
  ASSUME NEW w, Good(w)
  PROVE  \E v : /\ SystemPromptUpdate(w) = AssignSystem(v) /\ Beside(w, v)
                /\ StrayCase => \E e : OnlySystem(v.m, e)
                /\ NoSystemPrompt => Live(v.m) = {}
                /\ AgreeCase => Alike(v.m, v.w) /\ v.m.head = 0
<1> DEFINE c == ClearBoth(w)
<1>1. system \in Nat /\ GoodCache(w.m) /\ DOMAIN w = WorkFields /\ w.ok \in BOOLEAN
  BY DEF Good, Base
<1>2. SystemParts \in Nat /\ (system = 0 => SystemParts = 0)
  BY <1>1, SystemPieceIs
<1>3. PICK f : /\ f[0] = c /\ SystemPromptUpdate(w) = AssignSystem(f[SystemParts])
               /\ \A k \in 1..SystemParts : f[k] = SystemPart(f[k - 1], k)
  BY <1>2, SystemTurns
<1>4. /\ DOMAIN c = WorkFields /\ SameBatch(w, c) /\ c.i = w.i /\ c.n = w.n /\ c.ok = w.ok
      /\ c.m = kv_cache_clear(w.m) /\ c.w = kv_cache_clear(w.w)
  BY <1>1 DEF ClearBoth, WorkFields, SameBatch
<1> HIDE DEF c
<1>5. GoodCache(c.m) /\ Live(c.m) = {}
  BY <1>1, <1>4, ClearGood
<1>6. Beside(w, c)
  BY <1>1, <1>4, <1>5 DEF Beside
<1>7. AgreeCase => Alike(c.m, c.w) /\ c.m.head = 0
  BY <1>4, ClearAlike DEF Good
<1>8. OnlySystem(c.m, 0 * NBatch)
  <2>1. \A q : CellsWith(c.m, q) = {}
    BY <1>5 DEF CellsWith
  <2>2. \A q : PosOf(c.m, q) = {}
    BY <2>1 DEF PosOf
  <2>3. QED BY <2>1, <2>2 DEF OnlySystem, Once
<1> DEFINE P == {k \in 0..SystemParts :
                   Beside(w, f[k]) /\ (StrayCase => OnlySystem(f[k].m, k * NBatch))}
<1>9. 0 \in P
  BY <1>2, <1>3, <1>6, <1>8
<1>10. ASSUME NEW k \in 1..SystemParts, k - 1 \in P PROVE k \in P
  <2> DEFINE v == f[k - 1]
  <2>1. f[k] = SystemPart(v, k) /\ Beside(w, v) /\ k \in 0..SystemParts
        /\ (StrayCase => OnlySystem(v.m, (k - 1) * NBatch))
    BY <1>2, <1>3, <1>10
  <2> HIDE DEF v, P
  <2>2. /\ Beside(w, SystemPart(v, k))
        /\ StrayCase /\ OnlySystem(v.m, (k - 1) * NBatch) =>
             OnlySystem(SystemPart(v, k).m, k * NBatch)
    BY <1>1, <2>1, SystemPartKeeps
  <2>3. QED BY <2>1, <2>2 DEF P
<1> HIDE DEF P
<1>11. SystemParts \in P
  <2>1. \A k \in 0..SystemParts : k \in P
    BY <1>2, <1>9, <1>10, UpToAll
  <2>2. QED BY <1>2, <2>1
<1> DEFINE v == f[SystemParts]
<1>12. Beside(w, v) /\ (StrayCase => \E e : OnlySystem(v.m, e))
  BY <1>11 DEF P
<1>13. ASSUME NoSystemPrompt PROVE v = c
  BY <1>2, <1>3, <1>13 DEF Good, Base
<1>14. NoSystemPrompt => Live(v.m) = {}
  BY <1>5, <1>13
<1>15. AgreeCase => Alike(v.m, v.w) /\ v.m.head = 0
  BY <1>7, <1>13 DEF AgreeCase
<1>16. QED BY <1>3, <1>12, <1>14, <1>15

(* What the slots are handed is of the system prompt.                      *)
Handed(c, k) ==
  /\ Once(c, 0) /\ \A p \in PosOf(c, 0) : p < system
  /\ \A s \in Slots : Once(c, s + 1) /\ PosOf(c, s + 1) \subseteq PosOf(c, 0)
  /\ \A s \in Slots : s >= k => PosOf(c, s + 1) = {}

LEMMA AssignOne ==
  ASSUME NEW w, NEW v, Beside(w, v), NEW s \in Slots
  PROVE  LET r == AssignTo(v, s)
         IN  /\ Beside(w, r) /\ r.ok = v.ok
             /\ Handed(v.m, s) => Handed(r.m, s + 1)
             /\ Live(v.m) = {} => Live(r.m) = {}
             /\ Alike(v.m, v.w) /\ Live(v.m) = {} /\ v.m.head = 0 =>
                  Alike(r.m, r.w) /\ r.m.head = 0
<1> DEFINE r == AssignTo(v, s)
           d == kv_cache_seq_cp(v.m, 0, s + 1, -1, -1)
<1>1. /\ DOMAIN r = WorkFields /\ SameBatch(v, r) /\ r.i = v.i /\ r.n = v.n /\ r.ok = v.ok
      /\ r.m = d /\ r.w = kv_cache_seq_cp(v.w, 0, s, -1, -1)
  BY DEF AssignTo, Beside, WorkFields, SameBatch
<1> HIDE DEF r, d
<1>2. s \in Nat /\ s + 1 \in Nat /\ s + 1 \in Nat \ {0} /\ 0 \in Nat /\ -1 \in Int
  BY SlotFacts
<1>3. GoodCache(d) /\ Live(d) \subseteq Live(v.m)
  BY <1>2, CpGood DEF Beside, d, Tame
<1>4. Beside(w, r)
  BY <1>1, <1>3 DEF Beside, SameBatch
<1>5. ASSUME Handed(v.m, s) PROVE Handed(d, s + 1)
  <2>1. /\ PosOf(d, s + 1) = PosOf(v.m, s + 1) \union PosOf(v.m, 0)
        /\ \A q \in Nat \ {s + 1} : SameSeq(v.m, d, q)
        /\ PosOf(v.m, s + 1) = {} /\ Once(v.m, 0) => Once(d, s + 1)
    BY <1>2, CpSeqs DEF Beside, d
  <2>2. PosOf(v.m, s + 1) = {} /\ Once(v.m, 0) /\ \A p \in PosOf(v.m, 0) : p < system
    BY <1>2, <1>5 DEF Handed
  <2>3. SameSeq(v.m, d, 0)
    BY <1>2, <2>1
  <2>4. Once(d, 0) /\ PosOf(d, 0) = PosOf(v.m, 0)
    BY <2>2, <2>3 DEF SameSeq
  <2>5. ASSUME NEW t \in Slots \ {s} PROVE Once(d, t + 1) /\ PosOf(d, t + 1) = PosOf(v.m, t + 1)
    <3>1. t + 1 \in Nat \ {s + 1}
      BY SlotFacts
    <3>2. Once(v.m, t + 1)
      BY <1>5 DEF Handed
    <3>3. QED BY <2>1, <3>1, <3>2 DEF SameSeq
  <2>6. Once(d, s + 1) /\ PosOf(d, s + 1) = PosOf(v.m, 0)
    BY <2>1, <2>2
  <2>7. \A t \in Slots : Once(d, t + 1) /\ PosOf(d, t + 1) \subseteq PosOf(d, 0)
    BY <1>5, <2>4, <2>5, <2>6 DEF Handed
  <2>8. ASSUME NEW t \in Slots, t >= s + 1 PROVE PosOf(d, t + 1) = {}
    <3>1. t # s /\ t >= s
      BY <1>2, <2>8, SlotFacts
    <3>2. QED BY <1>5, <2>5, <3>1 DEF Handed
  <2>9. QED BY <2>2, <2>4, <2>7, <2>8 DEF Handed
<1>6. ASSUME Alike(v.m, v.w), Live(v.m) = {}, v.m.head = 0 PROVE Alike(r.m, r.w) /\ r.m.head = 0
  BY <1>1, <1>2, <1>6, CpAlike DEF d
<1>7. QED BY <1>1, <1>3, <1>4, <1>5, <1>6 DEF r

LEMMA AssignPass ==
  ASSUME NEW w, NEW v, Beside(w, v),
         StrayCase => \E e : OnlySystem(v.m, e),
         NoSystemPrompt => Live(v.m) = {},
         AgreeCase => Alike(v.m, v.w) /\ v.m.head = 0
  PROVE  LET r == EachSlot(AssignTo, v)
         IN  /\ Beside(w, r) /\ r.ok = v.ok /\ (StrayCase => Handed(r.m, NSlots))
             /\ (NoSystemPrompt => Live(r.m) = {}) /\ (AgreeCase => Alike(r.m, r.w))
<1>1. PICK f : /\ f[0] = v /\ EachSlot(AssignTo, v) = f[NSlots]
               /\ \A k \in 1..NSlots : f[k] = AssignTo(f[k - 1], k - 1)
  BY ONLY AssignTurns
<1> DEFINE P == {k \in 0..NSlots :
                   /\ Beside(w, f[k]) /\ f[k].ok = v.ok /\ (StrayCase => Handed(f[k].m, k))
                   /\ NoSystemPrompt => Live(f[k].m) = {}
                   /\ AgreeCase => Alike(f[k].m, f[k].w) /\ f[k].m.head = 0}
<1>2. NSlots \in Nat /\ 0 \in 0..NSlots
  BY SlotFacts
<1>3. 0 \in P
  <2>1. ASSUME StrayCase PROVE Handed(v.m, 0)
    <3>1. PICK e : OnlySystem(v.m, e)
      BY <2>1
    <3>2. \A s \in Slots : Once(v.m, s + 1)
      BY <3>1, NoPositions DEF OnlySystem
    <3>3. QED BY <3>1, <3>2 DEF OnlySystem, Handed
  <2>2. QED BY <1>1, <1>2, <2>1
<1>4. ASSUME NEW k \in 1..NSlots, k - 1 \in P PROVE k \in P
  <2> DEFINE s == k - 1
             a == f[k - 1]
             r == f[k]
  <2>1. s \in Slots /\ r = AssignTo(a, s) /\ k \in 0..NSlots /\ s + 1 = k
    BY <1>1, SlotFacts
  <2>2. /\ Beside(w, a) /\ a.ok = v.ok /\ (StrayCase => Handed(a.m, s))
        /\ NoSystemPrompt => Live(a.m) = {}
        /\ AgreeCase => Alike(a.m, a.w) /\ a.m.head = 0
    BY <1>4
  <2> HIDE DEF s, a, r
  <2>3. /\ Beside(w, r) /\ r.ok = a.ok
        /\ Handed(a.m, s) => Handed(r.m, s + 1)
        /\ Live(a.m) = {} => Live(r.m) = {}
        /\ Alike(a.m, a.w) /\ Live(a.m) = {} /\ a.m.head = 0 => Alike(r.m, r.w) /\ r.m.head = 0
    BY <2>1, <2>2, AssignOne
  <2>4. StrayCase => Handed(r.m, k)
    BY <2>1, <2>2, <2>3
  <2>5. AgreeCase => NoSystemPrompt
    BY DEF AgreeCase
  <2>6. QED BY <2>1, <2>2, <2>3, <2>4, <2>5 DEF r
<1> HIDE DEF P
<1>5. \A k \in 0..NSlots : k \in P
  BY <1>2, <1>3, <1>4, UpToAll
<1>6. NSlots \in P
  BY <1>2, <1>5
<1>7. QED BY <1>1, <1>6 DEF P

(* With a batch that is empty the slots have what is in the cache.         *)
LEMMA EmptyBatch ==
  ASSUME NEW w, w.batch = <<>>
  PROVE  /\ \A s : Waiting(w, s) = {} /\ WaitingPos(w, s) = {}
         /\ \A s : StrayOf(w, s) <=>
              /\ Once(w.m, s + 1) /\ \A t \in Slots \ {s} : Apart(w.m, s + 1, t + 1)
              /\ Begun(w.slot[s]) => \A p \in PosOf(w.m, s + 1) : p < End(w, s)
<1>1. \A s : Waiting(w, s) = {} /\ WaitingPos(w, s) = {}
  BY NoneWait
<1>2. QED BY <1>1 DEF StrayOf

(* After the system prompt the caches, and whether it is still needed.     *)
SystemDone(w, v) ==
  /\ DOMAIN v = WorkFields /\ v.slot = w.slot /\ v.batch = w.batch /\ v.lost = w.lost
  /\ v.i = w.i /\ v.n = w.n /\ v.ok = TRUE /\ v.need \in BOOLEAN /\ GoodCache(v.m)
  /\ AgreeCase => Alike(v.m, v.w)
  /\ NoSystemPrompt => Live(v.m) = {}
  /\ StrayCase => \A s \in Slots : Once(v.m, s + 1) /\ \A p \in PosOf(v.m, s + 1) : p < system

LEMMA SystemFields ==
  ASSUME NEW w, Good(w), w.ok
  PROVE  SystemDone(w, SystemPromptUpdate(w))
<1>1. PICK u : /\ SystemPromptUpdate(w) = AssignSystem(u) /\ Beside(w, u)
               /\ StrayCase => \E e : OnlySystem(u.m, e)
               /\ NoSystemPrompt => Live(u.m) = {}
               /\ AgreeCase => Alike(u.m, u.w) /\ u.m.head = 0
  BY SystemPartsRun
<1> DEFINE v == AssignSystem(u)
<1>2. w.need \in BOOLEAN
  BY DEF Good, Base
<1>3. CASE u.ok
  <2> DEFINE a == EachSlot(AssignTo, u)
  <2>1. /\ Beside(w, a) /\ a.ok = u.ok /\ (StrayCase => Handed(a.m, NSlots))
        /\ (NoSystemPrompt => Live(a.m) = {}) /\ (AgreeCase => Alike(a.m, a.w))
    BY ONLY <1>1, AssignPass
  <2>2. v = [a EXCEPT !.need = FALSE]
    BY <1>3 DEF AssignSystem
  <2> HIDE DEF a, v
  <2>3. /\ DOMAIN v = WorkFields /\ v.slot = a.slot /\ v.batch = a.batch /\ v.lost = a.lost
        /\ v.i = a.i /\ v.n = a.n /\ v.ok = a.ok /\ v.need = FALSE /\ v.m = a.m /\ v.w = a.w
    BY <2>1, <2>2 DEF Beside, WorkFields
  <2>4. a.ok = TRUE
    BY <1>1, <1>3, <2>1 DEF Beside
  <2>5. ASSUME StrayCase, NEW s \in Slots
        PROVE  Once(a.m, s + 1) /\ \A p \in PosOf(a.m, s + 1) : p < system
    BY <2>1, <2>5 DEF Handed
  <2>6. /\ v.slot = w.slot /\ v.batch = w.batch /\ v.lost = w.lost /\ v.i = w.i /\ v.n = w.n
        /\ GoodCache(v.m)
    BY <2>1, <2>3 DEF Beside, SameBatch
  <2>7. QED BY <1>1, <2>1, <2>3, <2>4, <2>5, <2>6 DEF SystemDone, v
<1>4. CASE ~u.ok
  <2>1. v = [u EXCEPT !.ok = TRUE]
    BY <1>4 DEF AssignSystem
  <2> HIDE DEF v
  <2>2. /\ DOMAIN v = WorkFields /\ v.slot = u.slot /\ v.batch = u.batch /\ v.lost = u.lost
        /\ v.i = u.i /\ v.n = u.n /\ v.ok = TRUE /\ v.need = u.need /\ v.m = u.m /\ v.w = u.w
    BY <1>1, <2>1 DEF Beside, WorkFields
  <2>3. /\ v.slot = w.slot /\ v.batch = w.batch /\ v.lost = w.lost /\ v.i = w.i /\ v.n = w.n
        /\ v.need = w.need /\ GoodCache(v.m)
    BY <1>1, <2>2 DEF Beside, SameBatch
  <2>4. ASSUME StrayCase, NEW s \in Slots
        PROVE  Once(u.m, s + 1) /\ \A p \in PosOf(u.m, s + 1) : p < system
    <3>1. PosOf(u.m, s + 1) = {}
      BY <1>1, <2>4 DEF OnlySystem
    <3>2. QED BY <3>1, NoPositions
  <2>5. QED BY <1>1, <1>2, <2>2, <2>3, <2>4 DEF SystemDone, v
<1>5. QED BY <1>1, <1>3, <1>4 DEF Beside

LEMMA SystemKeeps ==
  ASSUME NEW w, Good(w), w.batch = <<>>, w.ok, ~WholeCase
  PROVE  LET v == SystemPromptUpdate(w)
         IN  /\ Good(v) /\ v.slot = w.slot /\ v.batch = <<>> /\ v.lost = w.lost
             /\ v.i = w.i /\ v.n = w.n /\ v.ok = TRUE /\ v.need \in BOOLEAN
<1> DEFINE v == SystemPromptUpdate(w)
<1>1. SystemDone(w, v)
  BY SystemFields
<1> HIDE DEF v
<1>2. Base(v)
  BY <1>1 DEF SystemDone, Good, Base
<1>3. ASSUME StrayCase, NEW s \in Slots PROVE StrayOf(v, s)
  <2>1. Once(v.m, s + 1) /\ \A p \in PosOf(v.m, s + 1) : p < system
    BY <1>1, <1>3 DEF SystemDone
  <2>2. \A t \in Slots \ {s} : Apart(v.m, s + 1, t + 1)
    <3>1. CASE NSlots = 1
      <4>1. \A t \in Slots : t = s
        BY <3>1, SlotFacts
      <4>2. QED BY <4>1
    <3>2. CASE NoSystemPrompt
      <4>1. Live(v.m) = {}
        BY <1>1, <3>2 DEF SystemDone
      <4>2. QED BY <4>1 DEF Apart, CellsWith
    <3>3. QED BY <1>3, <3>1, <3>2 DEF StrayCase
  <2>3. ASSUME Begun(v.slot[s]), NEW p \in PosOf(v.m, s + 1) PROVE p < End(v, s)
    <3>1. v.slot[s].n_past \in Nat /\ system \in Nat
      BY <1>2, <2>3 DEF Base, SlotForm, SlotRecord
    <3>2. p < system /\ p \in Int
      BY <1>2, <2>1, <2>3, PositionsAre DEF Base
    <3>3. QED BY <3>1, <3>2 DEF End
  <2>4. v.batch = <<>>
    BY <1>1 DEF SystemDone
  <2>5. QED BY <2>1, <2>2, <2>3, <2>4, EmptyBatch
<1>4. QED BY <1>1, <1>2, <1>3 DEF Good, SystemDone, Stray, v

-----------------------------------------------------------------------------
SlotsType ==
  /\ system \in Nat /\ (NoSystemPrompt => system = 0)
  /\ GoodCache(kv)
  /\ slot \in [Slots -> SlotRecord] /\ \A s \in Slots : SlotForm(slot[s])
  /\ need_update \in BOOLEAN /\ lost \in SUBSET Slots /\ clean \in BOOLEAN

(* A slot has no position twice, shares no cell with another, and has      *)
(* nothing from its end on.                                                *)
NothingStray ==
  \A s \in Slots :
    /\ Once(kv, s + 1) /\ \A t \in Slots \ {s} : Apart(kv, s + 1, t + 1)
    /\ Begun(slot[s]) => \A p \in PosOf(kv, s + 1) : p < system + slot[s].n_past

(* The cache has the tokens the slot says it has.  Without system prompts  *)
(* and early tasks there is nothing before the caches are cleared.         *)
AllThere ==
  /\ \A s \in Slots : s \notin lost => PosOf(kv, s + 1) = 0..slot[s].cached-1
  /\ ~need_update
  /\ \A s \in Slots : clean => slot[s].state = "idle" /\ slot[s].cached = 0

(* What the steps preserve.                                                *)
SlotsInv ==
  /\ SlotsType
  /\ AgreeCase => Alike(kv, wkv)
  /\ StrayCase => NothingStray
  /\ WholeCase => AllThere

LEMMA WorkIs ==
  /\ DOMAIN Work = WorkFields
  /\ Work.m = kv /\ Work.w = wkv /\ Work.slot = slot /\ Work.batch = <<>> /\ Work.i = 0
  /\ Work.n = NBatch /\ Work.ok = TRUE /\ Work.need = need_update /\ Work.lost = lost
BY DEF Work, WorkFields

LEMMA WorkGood ==
  ASSUME SlotsInv
  PROVE  Good(Work)
<1> DEFINE w == Work
<1>1. /\ DOMAIN w = WorkFields
      /\ w.m = kv /\ w.w = wkv /\ w.slot = slot /\ w.batch = <<>> /\ w.i = 0
      /\ w.n = NBatch /\ w.ok = TRUE /\ w.need = need_update /\ w.lost = lost
  BY WorkIs
<1> HIDE DEF w
<1>2. NBatch \in 1..NBatch /\ <<>> \in Seq(SlotToken)
  BY BatchAssumption
<1>3. Base(w)
  <2>1. w.batch \in Seq(SlotToken) /\ w.n \in 1..NBatch /\ w.i \in Nat /\ w.ok \in BOOLEAN
    <3>1. w.batch \in Seq(SlotToken)
      <4>1. \A b : b = <<>> => b \in Seq(SlotToken)
        BY <1>2
      <4>2. w.batch = <<>>
        BY <1>1
      <4>3. QED BY ONLY <4>1, <4>2
    <3>2. w.n \in 1..NBatch
      BY <1>1, <1>2
    <3>3. w.i \in Nat
      BY <1>1
    <3>4. w.ok \in BOOLEAN
      BY <1>1, Zenon
    <3>5. QED BY <3>1, <3>2, <3>3, <3>4
  <2>2. /\ system \in Nat /\ (NoSystemPrompt => system = 0) /\ GoodCache(w.m)
        /\ w.slot \in [Slots -> SlotRecord] /\ \A s \in Slots : SlotForm(w.slot[s])
        /\ w.need \in BOOLEAN /\ w.lost \in SUBSET Slots
    BY <1>1 DEF SlotsInv, SlotsType
  <2>3. QED BY <1>1, <2>1, <2>2 DEF Base
<1>4. ASSUME StrayCase PROVE Stray(w)
  <2>1. \A s : StrayOf(w, s) <=>
              /\ Once(w.m, s + 1) /\ \A t \in Slots \ {s} : Apart(w.m, s + 1, t + 1)
              /\ Begun(w.slot[s]) => \A p \in PosOf(w.m, s + 1) : p < End(w, s)
    BY <1>1, EmptyBatch
  <2>2. QED BY <1>1, <1>4, <2>1 DEF SlotsInv, NothingStray, Stray, End
<1>5. ASSUME WholeCase PROVE Whole(w)
  <2>1. \A s : WaitingPos(w, s) = {}
    BY <1>1, EmptyBatch
  <2>2. QED BY <1>1, <1>5, <2>1 DEF SlotsInv, AllThere, Whole, WholeOf
<1>6. ASSUME AgreeCase PROVE Alike(w.m, w.w)
  BY <1>1, <1>6 DEF SlotsInv
<1>7. QED BY <1>3, <1>4, <1>5, <1>6 DEF Good, w

(* What is done to the record is done to the variables.                    *)
LEMMA Became ==
  ASSUME NEW v, Good(v), v.batch = <<>>, kv' = v.m, wkv' = v.w, slot' = v.slot,
         need_update' = v.need, lost' = v.lost, clean' \in BOOLEAN,
         system' \in Nat, NoSystemPrompt => system' = 0,
         system' = system \/ \A s \in Slots : ~Begun(v.slot[s]),
         WholeCase => ~v.need /\ \A s \in Slots :
                        clean' => v.slot[s].state = "idle" /\ v.slot[s].cached = 0
  PROVE  SlotsInv'
<1>1. /\ GoodCache(v.m) /\ v.slot \in [Slots -> SlotRecord]
      /\ \A s \in Slots : SlotForm(v.slot[s])
      /\ v.need \in BOOLEAN /\ v.lost \in SUBSET Slots
  BY DEF Good, Base
<1>2. SlotsType'
  BY <1>1 DEF SlotsType
<1>3. ASSUME StrayCase PROVE NothingStray'
  <2>1. \A s : StrayOf(v, s) <=>
              /\ Once(v.m, s + 1) /\ \A t \in Slots \ {s} : Apart(v.m, s + 1, t + 1)
              /\ Begun(v.slot[s]) => \A p \in PosOf(v.m, s + 1) : p < End(v, s)
    BY EmptyBatch
  <2>2. \A s \in Slots : StrayOf(v, s)
    BY <1>3 DEF Good, Stray
  <2>3. \A s \in Slots : Begun(v.slot[s]) => \A p \in PosOf(v.m, s + 1) : p < system' + v.slot[s].n_past
    BY <2>1, <2>2 DEF End
  <2>4. QED BY <2>1, <2>2, <2>3 DEF NothingStray
<1>4. ASSUME WholeCase PROVE AllThere'
  <2>1. \A s : WaitingPos(v, s) = {}
    BY EmptyBatch
  <2>2. \A s \in Slots : WholeOf(v, s)
    BY <1>4 DEF Good, Whole
  <2>3. \A s \in Slots : s \notin v.lost => PosOf(v.m, s + 1) = 0..v.slot[s].cached-1
    BY <2>1, <2>2 DEF WholeOf
  <2>4. QED BY <1>4, <2>3 DEF AllThere
<1>5. ASSUME AgreeCase PROVE Alike(kv, wkv)'
  BY <1>5 DEF Good
<1>6. QED BY <1>2, <1>3, <1>4, <1>5 DEF SlotsInv

(* The server starts.                                                      *)
LEMMA InitSlots == Init => SlotsInv
<1> SUFFICES ASSUME Init PROVE SlotsInv
  OBVIOUS
<1> DEFINE r == [state |-> "idle", n_past |-> 0, len |-> 0, cached |-> 0]
<1>1. /\ kv = InitCache /\ wkv = InitCache /\ slot = [s \in Slots |-> r]
      /\ system = FirstSystem /\ clean = TRUE /\ lost = {}
      /\ need_update = (FirstSystem > 0)
  BY DEF Init
<1>1a. need_update \in BOOLEAN
  <2>1. (FirstSystem > 0) \in BOOLEAN
    OBVIOUS
  <2>2. QED BY <1>1, <2>1, Zenon
<1>1b. FirstSystem = 0 => ~need_update
  <2>1. FirstSystem = 0 => ~(FirstSystem > 0)
    OBVIOUS
  <2>2. QED BY <1>1, <2>1, Zenon
<1>1c. clean \in BOOLEAN
  BY <1>1, Zenon
<1>2. GoodCache(InitCache) /\ Live(InitCache) = {}
  BY InitGood DEF Live, InitCache, EmptyCell
<1>3. r \in SlotRecord /\ SlotForm(r) /\ ~Begun(r) /\ r.state = "idle" /\ r.cached = 0
  BY DEF SlotRecord, SlotForm, Begun
<1> HIDE DEF r
<1>4. \A s \in Slots : slot[s] = r
  BY <1>1
<1>5. SlotsType
  <2>1. slot \in [Slots -> SlotRecord]
    BY <1>1, <1>3
  <2>2. system \in Nat
    BY <1>1, ServerAssumption
  <2>3. QED BY <1>1, <1>1a, <1>1c, <1>2, <1>3, <1>4, <2>1, <2>2 DEF SlotsType, NoSystemPrompt
<1>6. Alike(kv, wkv)
  BY <1>1, <1>2 DEF Alike
<1>7. \A q : PosOf(kv, q) = {}
  BY <1>1, <1>2 DEF PosOf, CellsWith
<1>8. NothingStray
  BY <1>3, <1>4, <1>7, NoPositions DEF NothingStray
<1>9. ASSUME WholeCase PROVE AllThere
  <2>1. ~need_update
    BY <1>1b, <1>9 DEF WholeCase
  <2>2. 0..0-1 = {}
    OBVIOUS
  <2>3. QED BY <1>3, <1>4, <1>7, <2>1, <2>2 DEF AllThere
<1>10. QED BY <1>5, <1>6, <1>8, <1>9 DEF SlotsInv

(* The system prompt is decoded first when it is new.                      *)
LEMMA BeginKeeps ==
  ASSUME SlotsInv
  PROVE  LET v == BeginUpdate
         IN  /\ Good(v) /\ v.slot = slot /\ v.batch = <<>> /\ v.lost = lost
             /\ v.i = 0 /\ v.n = NBatch /\ v.ok = TRUE /\ (WholeCase => ~v.need)
<1>1. /\ Good(Work) /\ Work.slot = slot /\ Work.batch = <<>> /\ Work.i = 0
      /\ Work.n = NBatch /\ Work.ok = TRUE /\ Work.need = need_update /\ Work.lost = lost
  BY WorkIs, WorkGood
<1>2. CASE need_update
  <2>1. ~WholeCase
    BY <1>2 DEF SlotsInv, AllThere
  <2>2. Work.ok
    BY <1>1
  <2>3. LET v == SystemPromptUpdate(Work)
        IN  /\ Good(v) /\ v.slot = Work.slot /\ v.batch = <<>> /\ v.lost = Work.lost
            /\ v.i = Work.i /\ v.n = Work.n /\ v.ok = TRUE /\ v.need \in BOOLEAN
    BY <1>1, <2>1, <2>2, SystemKeeps
  <2>4. QED BY <1>1, <1>2, <2>1, <2>3 DEF BeginUpdate
<1>3. CASE ~need_update
  BY <1>1, <1>3 DEF BeginUpdate
<1>4. QED BY <1>2, <1>3

LEMMA ReleasedIs ==
  ASSUME NEW r \in SlotRecord
  PROVE  /\ Released(r) \in SlotRecord /\ SlotForm(Released(r)) /\ ~Begun(Released(r))
         /\ Released(r).cached = r.cached /\ Released(r).state = "idle"
<1> DEFINE q == Released(r)
<1>1. q.state = "idle" /\ q.n_past = 0 /\ q.len = 0 /\ q.cached = r.cached /\ q \in SlotRecord
  <2> DEFINE a == [r EXCEPT !.state = "idle"]
             b == [a EXCEPT !.n_past = 0]
             d == [b EXCEPT !.len = 0]
  <2>1. a.state = "idle" /\ a.cached = r.cached /\ a \in SlotRecord
    BY DEF SlotRecord
  <2>2. q = d
    BY DEF Released
  <2> HIDE DEF a, q
  <2>3. b.state = "idle" /\ b.cached = r.cached /\ b.n_past = 0 /\ b \in SlotRecord
    BY <2>1 DEF SlotRecord
  <2> HIDE DEF b
  <2>4. d.state = "idle" /\ d.cached = r.cached /\ d.n_past = 0 /\ d.len = 0 /\ d \in SlotRecord
    BY <2>3 DEF SlotRecord
  <2>5. QED BY <2>2, <2>4
<1> HIDE DEF q
<1>2. SlotForm(q) /\ ~Begun(q)
  BY <1>1 DEF SlotForm, Begun
<1>3. QED BY <1>1, <1>2 DEF q

(* The end of a batch; the next one starts from an empty one.              *)
LEMMA FinishKeeps ==
  ASSUME NEW w, Good(w), ~Undone(w), NEW stops \in SUBSET Sampled(w)
  PROVE  LET v == [Finish(w, stops) EXCEPT !.batch = <<>>]
         IN  /\ Good(v) /\ v.need = w.need
             /\ v.m = Finish(w, stops).m /\ v.w = Finish(w, stops).w
             /\ v.slot = Finish(w, stops).slot /\ v.need = Finish(w, stops).need
             /\ v.lost = Finish(w, stops).lost /\ v.batch = <<>>
<1> DEFINE f == Finish(w, stops)
           v == [f EXCEPT !.batch = <<>>]
           next(s, r) == IF ~w.ok \/ s \in stops THEN Released(r)
                         ELSE IF r.state = "done" THEN [r EXCEPT !.state = "run"] ELSE r
           failed == {s \in Slots : \E k \in DOMAIN w.batch : s + 1 \in w.batch[k].seq}
<1>1. f = [w EXCEPT !.slot = [s \in Slots |-> next(s, @[s])],
                    !.lost = IF w.ok THEN @ ELSE @ \union failed]
  BY DEF Finish
<1>2. DOMAIN w = WorkFields /\ Base(w)
  BY DEF Good, Base
<1> HIDE DEF failed
<1>3. /\ DOMAIN f = WorkFields /\ f.m = w.m /\ f.w = w.w /\ f.batch = w.batch /\ f.i = w.i
      /\ f.n = w.n /\ f.ok = w.ok /\ f.need = w.need
      /\ f.slot = [s \in Slots |-> next(s, w.slot[s])]
      /\ f.lost = IF w.ok THEN w.lost ELSE w.lost \union failed
  BY <1>1, <1>2 DEF WorkFields
<1> HIDE DEF f
<1>4. /\ DOMAIN v = WorkFields /\ v.m = f.m /\ v.w = f.w /\ v.batch = <<>> /\ v.i = f.i
      /\ v.n = f.n /\ v.ok = f.ok /\ v.need = f.need /\ v.slot = f.slot /\ v.lost = f.lost
  BY <1>3 DEF WorkFields
<1> HIDE DEF v
<1>5. ASSUME NEW s \in Slots
      PROVE  /\ v.slot[s] \in SlotRecord /\ SlotForm(v.slot[s])
             /\ v.slot[s].cached = w.slot[s].cached
             /\ Begun(v.slot[s]) => Begun(w.slot[s]) /\ v.slot[s].n_past = w.slot[s].n_past
  <2> DEFINE r == w.slot[s]
  <2>1. r \in SlotRecord /\ SlotForm(r)
    BY <1>2 DEF Base
  <2>2. v.slot[s] = next(s, r)
    BY <1>3, <1>4
  <2> HIDE DEF r
  <2>3. CASE ~w.ok \/ s \in stops
    <3>1. v.slot[s] = Released(r)
      BY <2>2, <2>3
    <3>2. QED BY <2>1, <3>1, ReleasedIs DEF r
  <2>4. CASE ~(~w.ok \/ s \in stops) /\ r.state = "done"
    <3> DEFINE q == [r EXCEPT !.state = "run"]
    <3>1. v.slot[s] = q
      BY <2>2, <2>4
    <3>2. /\ q.state = "run" /\ q.n_past = r.n_past /\ q.len = r.len /\ q.cached = r.cached
          /\ q \in SlotRecord
      BY <2>1 DEF SlotRecord
    <3> HIDE DEF q
    <3>3. SlotForm(q) /\ Begun(r)
      BY <2>1, <2>4, <3>2 DEF SlotForm, Begun
    <3>4. QED BY <3>1, <3>2, <3>3 DEF r
  <2>5. CASE ~(~w.ok \/ s \in stops) /\ r.state # "done"
    <3>1. v.slot[s] = r
      BY <2>2, <2>5
    <3>2. QED BY <2>1, <3>1 DEF r
  <2>6. QED BY <2>3, <2>4, <2>5
<1>6. v.lost \in SUBSET Slots
  BY <1>2, <1>3, <1>4 DEF Base, failed
<1>7. Base(v)
  <2>1. DOMAIN v.slot = Slots /\ v.slot = [s \in Slots |-> v.slot[s]]
    BY <1>3, <1>4
  <2>2. v.slot \in [Slots -> SlotRecord]
    BY <1>5, <2>1
  <2>3. v.batch \in Seq(SlotToken)
    <3>1. \A b : b = <<>> => b \in Seq(SlotToken)
      OBVIOUS
    <3>2. QED BY <1>4, <3>1
  <2>4. QED BY <1>2, <1>3, <1>4, <1>5, <1>6, <2>2, <2>3 DEF Base
<1>8. ASSUME StrayCase, NEW s \in Slots PROVE StrayOf(v, s)
  <2>1. StrayOf(w, s)
    BY <1>8 DEF Good, Stray
  <2>2. ASSUME Begun(v.slot[s]), NEW p \in PosOf(v.m, s + 1) PROVE p < End(v, s)
    <3>1. End(v, s) = End(w, s) /\ Begun(w.slot[s]) /\ v.m = w.m
      BY <1>3, <1>4, <1>5, <2>2 DEF End
    <3>2. QED BY <2>1, <2>2, <3>1 DEF StrayOf
  <2>3. QED BY <1>3, <1>4, <2>1, <2>2, EmptyBatch DEF StrayOf
<1>9. ASSUME WholeCase, NEW s \in Slots PROVE WholeOf(v, s)
  <2>1. SUFFICES ASSUME s \notin v.lost PROVE PosOf(v.m, s + 1) = 0..v.slot[s].cached-1
    BY <1>4, EmptyBatch DEF WholeOf
  <2>2. s \notin w.lost
    BY <1>3, <1>4, <2>1
  <2>3. PosOf(w.m, s + 1) \union WaitingPos(w, s) = 0..w.slot[s].cached-1
    BY <1>9, <2>2 DEF Good, Whole, WholeOf
  <2>4. Waiting(w, s) = {}
    <3>1. CASE w.ok
      <4>1. w.i >= Len(w.batch) /\ w.i \in Nat /\ w.batch \in Seq(SlotToken)
        BY <1>2, <3>1 DEF Undone, Base
      <4>2. \A k \in DOMAIN w.batch : ~(k > w.i)
        BY <4>1
      <4>3. QED BY <4>2 DEF Waiting, TokensOf
    <3>2. CASE ~w.ok
      <4>1. s \notin failed
        BY <1>3, <1>4, <2>1, <3>2
      <4>2. TokensOf(w.batch, s + 1) = {}
        BY <4>1 DEF failed, TokensOf
      <4>3. QED BY <4>2 DEF Waiting
    <3>3. QED BY <3>1, <3>2
  <2>5. WaitingPos(w, s) = {}
    BY <2>4 DEF WaitingPos
  <2>6. QED BY <1>3, <1>4, <1>5, <2>3, <2>5
<1>10. ASSUME AgreeCase PROVE Alike(v.m, v.w)
  BY <1>3, <1>4, <1>10 DEF Good
<1>11. Good(v)
  BY <1>7, <1>8, <1>9, <1>10 DEF Good, Stray, Whole
<1>12. QED BY <1>3, <1>4, <1>11 DEF v, f

(* A shift that takes more tokens than there are needs a system prompt.    *)
LEMMA NothingThrown ==
  ASSUME NEW w, Good(w), NoSystemPrompt, SlotCtx >= 2
  PROVE  ~Throws(w)
<1> SUFFICES ASSUME Throws(w) PROVE FALSE
  OBVIOUS
<1>1. PICK s \in Slots : IsFull(w, s) /\ w.slot[s].cached < Discard(w, s)
  BY DEF Throws
<1> DEFINE r == w.slot[s]
<1>2. Base(w) /\ system = 0
  BY DEF Good, Base
<1>3. r \in SlotRecord /\ SlotForm(r)
  BY <1>2 DEF Base
<1>4. /\ Discard(w, s) \in Nat /\ Keep + Discard(w, s) <= End(w, s)
      /\ End(w, s) = system + r.n_past
  BY <1>1, <1>2, DiscardIs
<1>5. End(w, s) >= SlotCtx - 1 /\ SlotCtx \in Nat /\ Keep = 1
  BY <1>1, ServerAssumption DEF IsFull, Keep
<1> HIDE DEF r
<1>6. r.n_past \in Int /\ r.cached \in Nat /\ r.n_past >= 1
  BY <1>2, <1>3, <1>4, <1>5 DEF SlotRecord
<1>7. r.n_past = r.cached
  BY <1>3, <1>6 DEF SlotForm
<1>8. r.cached < Discard(w, s)
  BY <1>1 DEF r
<1>9. QED BY <1>2, <1>4, <1>5, <1>6, <1>7, <1>8

LEMMA EndedIs ==
  /\ At("ended", 0, 0) \in SlotRecord /\ ~Begun(At("ended", 0, 0))
  /\ ~NoSystemPrompt => SlotForm(At("ended", 0, 0))
BY DEF At, SlotRecord, SlotForm, Begun

LEMMA ThrownKeeps ==
  ASSUME NEW w, Good(w), w.batch = <<>>, ~NoSystemPrompt
  PROVE  LET v == [w EXCEPT !.slot = [s \in Slots |-> At("ended", 0, 0)]]
         IN  Good(v) /\ v.batch = <<>>
<1> DEFINE e == At("ended", 0, 0)
           v == [w EXCEPT !.slot = [s \in Slots |-> e]]
<1>1. DOMAIN w = WorkFields /\ Base(w)
  BY DEF Good, Base
<1>2. e \in SlotRecord /\ SlotForm(e) /\ ~Begun(e)
  BY EndedIs
<1> HIDE DEF e
<1>3. /\ DOMAIN v = WorkFields /\ v.m = w.m /\ v.w = w.w /\ v.batch = w.batch /\ v.i = w.i
      /\ v.n = w.n /\ v.ok = w.ok /\ v.need = w.need /\ v.lost = w.lost
      /\ v.slot = [s \in Slots |-> e]
  BY <1>1 DEF WorkFields
<1> HIDE DEF v
<1>4. v.slot \in [Slots -> SlotRecord] /\ \A s \in Slots : v.slot[s] = e
  BY <1>2, <1>3
<1>5. Base(v)
  BY <1>1, <1>2, <1>3, <1>4 DEF Base
<1>6. ASSUME StrayCase, NEW s \in Slots PROVE StrayOf(v, s)
  <2>1. StrayOf(w, s)
    BY <1>6 DEF Good, Stray
  <2>2. QED BY <1>2, <1>3, <1>4, <2>1, EmptyBatch DEF StrayOf
<1>7. ~WholeCase /\ ~AgreeCase
  BY CasesAre DEF AgreeCase
<1>8. QED BY <1>3, <1>5, <1>6, <1>7 DEF Good, Stray, v, e

(* One call of update_slots with a slot that is busy.                      *)
LEMMA UpdateBusyKeeps == SlotsInv /\ UpdateBusy => SlotsInv'
<1> SUFFICES ASSUME SlotsInv, UpdateBusy PROVE SlotsInv'
  OBVIOUS
<1>1. PICK common \in [Slots -> 0..SlotCtx-2], len \in [Slots -> PromptLens] :
        /\ \A s \in Slots :
             IF slot[s].state = "prompt" /\ slot[s].len = 0
             THEN common[s] < len[s] /\ common[s] <= slot[s].cached
             ELSE common[s] = 0 /\ len[s] = Min(PromptLens)
        /\ UpdateSlots(common, len)
  BY DEF UpdateBusy
<1> DEFINE w == BeginUpdate
           a == FillBatch(w, common, len)
<1>2. /\ \E s \in Slots : Busy(s)
      /\ Serve(w, common, len)
      /\ clean' = (clean /\ ~need_update)
      /\ system' = system
  BY <1>1 DEF UpdateSlots
<1>3. /\ Good(w) /\ w.slot = slot /\ w.batch = <<>> /\ w.lost = lost
      /\ w.i = 0 /\ w.n = NBatch /\ w.ok = TRUE /\ (WholeCase => ~w.need)
  BY BeginKeeps
<1>4. SlotCtx >= 2 /\ SlotCtx \in Nat
  <2>1. PICK s \in Slots : Busy(s)
    BY <1>2
  <2>2. len[s] \in PromptLens
    BY <2>1
  <2>3. len[s] \in 1..SlotCtx-1 /\ SlotCtx \in Nat
    BY <2>2, ServerAssumption
  <2>4. QED BY <2>3
<1>5. clean' \in BOOLEAN
  BY <1>2
<1>6. WholeCase => ~clean'
  <2>1. PICK s \in Slots : Busy(s)
    BY <1>2
  <2>2. WholeCase => ~clean
    BY <2>1 DEF SlotsInv, AllThere, Busy
  <2>3. QED BY <1>2, <2>2
<1>7. system' \in Nat /\ (NoSystemPrompt => system' = 0)
  BY <1>2 DEF SlotsInv, SlotsType
<1> HIDE DEF w
<1>8. CASE Throws(w)
  <2> DEFINE v == [w EXCEPT !.slot = [s \in Slots |-> At("ended", 0, 0)]]
  <2>1. ~NoSystemPrompt /\ ~WholeCase
    BY <1>3, <1>4, <1>8, NothingThrown, CasesAre
  <2>2. Good(v) /\ v.batch = <<>>
    BY <1>3, <2>1, ThrownKeeps
  <2>3. Become(v)
    BY <1>2, <1>8 DEF Serve
  <2> HIDE DEF v
  <2>4. kv' = v.m /\ wkv' = v.w /\ slot' = v.slot /\ need_update' = v.need /\ lost' = v.lost
    BY <2>3 DEF Become
  <2>5. QED BY <1>2, <1>5, <1>7, <2>1, <2>2, <2>4, Became
<1>9. CASE ~Throws(w)
  <2>0. PICK bad \in {0} \union FromPrompts(a) : EndUpdate(DecodeBatch(a, bad))
    BY <1>2, <1>9 DEF Serve
  <2> DEFINE b == DecodeBatch(a, bad)
  <2>1. \A s \in Slots : NewPrompt(w.slot[s]) =>
                            common[s] \in Nat /\ len[s] \in Nat /\ common[s] < len[s]
    <3>1. ASSUME NEW s \in Slots, NewPrompt(slot[s])
          PROVE  common[s] \in Nat /\ len[s] \in Nat /\ common[s] < len[s]
      <4>1. len[s] \in PromptLens /\ common[s] \in 0..SlotCtx-2
        OBVIOUS
      <4>2. len[s] \in 1..SlotCtx-1
        BY <4>1, ServerAssumption
      <4>3. common[s] < len[s]
        BY <1>1, <3>1 DEF NewPrompt
      <4>4. QED BY <1>4, <4>1, <4>2, <4>3
    <3>2. QED BY <1>3, <3>1
  <2>2. Good(a) /\ Rest(w, a)
    BY <1>3, <1>4, <1>9, <2>1, FillKeeps
  <2> HIDE DEF a
  <2>3. a.i = 0 /\ a.n = NBatch /\ a.need = w.need
    BY <1>3, <2>2 DEF Rest
  <2>4. Good(b) /\ SameBatch(a, b) /\ ~Undone(b)
    BY <2>2, <2>3, DecodeBatchKeeps
  <2>5. EndUpdate(b)
    BY <2>0
  <2> HIDE DEF b
  <2>6. PICK stops \in SUBSET Sampled(b) : Become(Finish(b, stops))
    BY <2>5 DEF EndUpdate
  <2> DEFINE f == Finish(b, stops)
             v == [f EXCEPT !.batch = <<>>]
  <2>7. /\ Good(v) /\ v.need = b.need /\ v.m = f.m /\ v.w = f.w
        /\ v.slot = f.slot /\ v.need = f.need /\ v.lost = f.lost /\ v.batch = <<>>
    BY <2>4, FinishKeeps
  <2>8. Become(f)
    BY <2>6
  <2> HIDE DEF f, v
  <2>9. kv' = v.m /\ wkv' = v.w /\ slot' = v.slot /\ need_update' = v.need /\ lost' = v.lost
    BY <2>7, <2>8 DEF Become
  <2>10. WholeCase => ~v.need
    BY <1>3, <2>3, <2>4, <2>7 DEF SameBatch
  <2>11. QED BY <1>2, <1>5, <1>6, <1>7, <2>7, <2>9, <2>10, Became
<1>10. QED BY <1>8, <1>9

(* No slot is busy.                                                        *)
LEMMA ClearKeeps ==
  ASSUME SlotsInv, WholeCase => clean
  PROVE  LET v == ClearBoth(Work)
         IN  Good(v) /\ v.slot = slot /\ v.batch = <<>> /\ v.need = need_update
<1> DEFINE w == Work
           v == ClearBoth(w)
<1>1. /\ Good(w) /\ DOMAIN w = WorkFields /\ w.m = kv /\ w.w = wkv /\ w.slot = slot
      /\ w.batch = <<>> /\ w.need = need_update
  BY WorkIs, WorkGood
<1> HIDE DEF w
<1>2. /\ DOMAIN v = WorkFields /\ v.m = kv_cache_clear(w.m) /\ v.w = kv_cache_clear(w.w)
      /\ v.slot = w.slot /\ v.batch = w.batch /\ v.i = w.i /\ v.n = w.n /\ v.ok = w.ok
      /\ v.need = w.need /\ v.lost = w.lost
  BY <1>1 DEF ClearBoth, WorkFields
<1> HIDE DEF v
<1>3. GoodCache(v.m) /\ Live(v.m) = {}
  BY <1>1, <1>2, ClearGood DEF Good, Base
<1>4. Base(v)
  BY <1>1, <1>2, <1>3 DEF Good, Base
<1>5. \A q : PosOf(v.m, q) = {}
  BY <1>3 DEF PosOf, CellsWith
<1>6. Stray(v)
  BY <1>1, <1>2, <1>5, NoPositions, EmptyBatch DEF Stray
<1>7. ASSUME WholeCase, NEW s \in Slots PROVE WholeOf(v, s)
  <2>1. v.slot[s].cached = 0 /\ 0..0-1 = {}
    BY <1>1, <1>2, <1>7 DEF SlotsInv, AllThere
  <2>2. WaitingPos(v, s) = {}
    BY <1>1, <1>2, EmptyBatch
  <2>3. QED BY <1>5, <2>1, <2>2 DEF WholeOf
<1>8. AgreeCase => Alike(v.m, v.w)
  BY <1>1, <1>2, ClearAlike DEF Good
<1>9. QED BY <1>1, <1>2, <1>4, <1>6, <1>7, <1>8 DEF Good, Whole, v, w

LEMMA AllIdleKeeps == SlotsInv /\ AllIdle => SlotsInv'
<1> SUFFICES ASSUME SlotsInv, AllIdle PROVE SlotsInv'
  OBVIOUS
<1> DEFINE clears == system = 0 /\ clean /\ ~need_update
<1>1. /\ \A s \in Slots : Idle(s)
      /\ need_update \/ clears
      /\ Become(IF clears THEN ClearBoth(Work) ELSE BeginUpdate)
      /\ clean' = FALSE /\ system' = system
  BY DEF AllIdle
<1>2. system' \in Nat /\ (NoSystemPrompt => system' = 0)
  BY <1>1 DEF SlotsInv, SlotsType
<1>3. clean' \in BOOLEAN /\ ~clean'
  BY <1>1
<1>4. CASE clears
  <2> DEFINE v == ClearBoth(Work)
  <2>1. Good(v) /\ v.slot = slot /\ v.batch = <<>> /\ v.need = need_update
    BY <1>4, ClearKeeps
  <2>2. Become(v)
    BY <1>1, <1>4
  <2> HIDE DEF v
  <2>3. kv' = v.m /\ wkv' = v.w /\ slot' = v.slot /\ need_update' = v.need /\ lost' = v.lost
    BY <2>2 DEF Become
  <2>4. WholeCase => ~v.need
    BY <1>4, <2>1
  <2>5. QED BY <1>1, <1>2, <1>3, <2>1, <2>3, <2>4, Became
<1>5. CASE ~clears
  <2> DEFINE v == BeginUpdate
  <2>1. Good(v) /\ v.batch = <<>> /\ (WholeCase => ~v.need)
    BY BeginKeeps
  <2>2. Become(v)
    BY <1>1, <1>5
  <2> HIDE DEF v
  <2>3. kv' = v.m /\ wkv' = v.w /\ slot' = v.slot /\ need_update' = v.need /\ lost' = v.lost
    BY <2>2 DEF Become
  <2>4. QED BY <1>1, <1>2, <1>3, <2>1, <2>3, Became
<1>6. QED BY <1>4, <1>5

(* A task changes slots and leaves the caches as they are.                 *)
LEMMA TaskKeeps ==
  ASSUME SlotsInv, kv' = kv, wkv' = wkv, lost' = lost, clean' = clean,
         need_update' \in BOOLEAN, system' \in Nat, NoSystemPrompt => system' = 0,
         slot' \in [Slots -> SlotRecord],
         \A s \in Slots :
           /\ SlotForm(slot'[s]) /\ slot'[s].cached = slot[s].cached
           /\ Begun(slot'[s]) => /\ Begun(slot[s]) /\ slot'[s].n_past = slot[s].n_past
                                 /\ system' = system
           /\ WholeCase /\ clean => slot'[s].state = "idle",
         WholeCase => ~need_update'
  PROVE  SlotsInv'
<1>1. SlotsType'
  BY DEF SlotsInv, SlotsType
<1>2. ASSUME StrayCase PROVE NothingStray'
  <2>1. NothingStray
    BY <1>2 DEF SlotsInv
  <2>2. ASSUME NEW s \in Slots, Begun(slot'[s])
        PROVE  \A p \in PosOf(kv, s + 1) : p < system' + slot'[s].n_past
    BY <2>1, <2>2 DEF NothingStray
  <2>3. QED BY <2>1, <2>2 DEF NothingStray
<1>3. ASSUME WholeCase PROVE AllThere'
  BY <1>3 DEF SlotsInv, AllThere
<1>4. ASSUME AgreeCase PROVE Alike(kv, wkv)'
  BY <1>4 DEF SlotsInv
<1>5. QED BY <1>1, <1>2, <1>3, <1>4 DEF SlotsInv

LEMMA PromptIs ==
  ASSUME NEW r \in SlotRecord, SlotForm(r), r.state = "idle"
  PROVE  LET q == [r EXCEPT !.state = "prompt"]
         IN  q \in SlotRecord /\ SlotForm(q) /\ q.cached = r.cached /\ ~Begun(q)
<1> DEFINE q == [r EXCEPT !.state = "prompt"]
<1>1. /\ q.state = "prompt" /\ q.n_past = r.n_past /\ q.len = r.len /\ q.cached = r.cached
      /\ q \in SlotRecord
  BY DEF SlotRecord
<1> HIDE DEF q
<1>2. r.n_past = 0 /\ r.len = 0
  BY DEF SlotForm
<1>3. SlotForm(q) /\ ~Begun(q)
  BY <1>1, <1>2 DEF SlotForm, Begun
<1>4. QED BY <1>1, <1>3 DEF q

LEMMA LaunchKeeps ==
  ASSUME SlotsInv, NEW s \in Slots, Launch(s)
  PROVE  SlotsInv'
<1>1. /\ slot \in [Slots -> SlotRecord] /\ \A t \in Slots : SlotForm(slot[t])
      /\ system \in Nat /\ (NoSystemPrompt => system = 0) /\ need_update \in BOOLEAN
  BY DEF SlotsInv, SlotsType
<1> DEFINE q == [slot[s] EXCEPT !.state = "prompt"]
<1>2. slot' = [slot EXCEPT ![s] = q]
  BY DEF Launch
<1>3. q \in SlotRecord /\ SlotForm(q) /\ q.cached = slot[s].cached /\ ~Begun(q)
  BY <1>1, PromptIs DEF Launch, Idle
<1> HIDE DEF q
<1>4. /\ slot' \in [Slots -> SlotRecord]
      /\ \A t \in Slots : slot'[t] = IF t = s THEN q ELSE slot[t]
  BY <1>1, <1>2, <1>3
<1>5. WholeCase => ~clean /\ ~need_update
  BY DEF Launch, WholeCase, SlotsInv, AllThere
<1>6. /\ kv' = kv /\ wkv' = wkv /\ lost' = lost /\ clean' = clean
      /\ need_update' = need_update /\ system' = system
  BY DEF Launch
<1>7. \A t \in Slots :
        /\ SlotForm(slot'[t]) /\ slot'[t].cached = slot[t].cached
        /\ Begun(slot'[t]) => /\ Begun(slot[t]) /\ slot'[t].n_past = slot[t].n_past
                              /\ system' = system
        /\ WholeCase /\ clean => slot'[t].state = "idle"
  BY <1>1, <1>3, <1>4, <1>5, <1>6
<1>8. QED BY <1>1, <1>4, <1>5, <1>6, <1>7, TaskKeeps

LEMMA CancelKeeps ==
  ASSUME SlotsInv, NEW s \in Slots, Cancel(s)
  PROVE  SlotsInv'
<1>1. /\ slot \in [Slots -> SlotRecord] /\ \A t \in Slots : SlotForm(slot[t])
      /\ system \in Nat /\ (NoSystemPrompt => system = 0) /\ need_update \in BOOLEAN
  BY DEF SlotsInv, SlotsType
<1> DEFINE q == Released(slot[s])
<1>2. slot' = [slot EXCEPT ![s] = q]
  BY DEF Cancel
<1>3. /\ q \in SlotRecord /\ SlotForm(q) /\ q.cached = slot[s].cached /\ ~Begun(q)
      /\ q.state = "idle"
  BY <1>1, ReleasedIs
<1> HIDE DEF q
<1>4. /\ slot' \in [Slots -> SlotRecord]
      /\ \A t \in Slots : slot'[t] = IF t = s THEN q ELSE slot[t]
  BY <1>1, <1>2, <1>3
<1>5. WholeCase => ~need_update /\ \A t \in Slots : clean => slot[t].state = "idle"
  BY DEF SlotsInv, AllThere
<1>6. /\ kv' = kv /\ wkv' = wkv /\ lost' = lost /\ clean' = clean
      /\ need_update' = need_update /\ system' = system
  BY DEF Cancel
<1>7. \A t \in Slots :
        /\ SlotForm(slot'[t]) /\ slot'[t].cached = slot[t].cached
        /\ Begun(slot'[t]) => /\ Begun(slot[t]) /\ slot'[t].n_past = slot[t].n_past
                              /\ system' = system
        /\ WholeCase /\ clean => slot'[t].state = "idle"
  BY <1>1, <1>3, <1>4, <1>5, <1>6
<1>8. QED BY <1>1, <1>4, <1>5, <1>6, <1>7, TaskKeeps

(* A new system prompt leaves no slot with a prompt.                       *)
LEMMA LaunchWithSystemKeeps ==
  ASSUME SlotsInv, NEW s \in Slots, NEW k \in NewSystems, LaunchWithSystem(s, k)
  PROVE  SlotsInv'
<1>1. slot \in [Slots -> SlotRecord] /\ \A t \in Slots : SlotForm(slot[t])
  BY DEF SlotsInv, SlotsType
<1> DEFINE q == [slot[s] EXCEPT !.state = "prompt"]
<1>2. slot' = [t \in Slots |-> IF t = s THEN q ELSE Released(slot[t])]
  <2>1. slot' = [t \in Slots |-> IF t = s THEN [slot[t] EXCEPT !.state = "prompt"]
                                          ELSE Released(slot[t])]
    BY DEF LaunchWithSystem
  <2>2. QED BY <2>1
<1>3. q \in SlotRecord /\ SlotForm(q) /\ q.cached = slot[s].cached /\ ~Begun(q)
  BY <1>1, PromptIs DEF LaunchWithSystem, Idle
<1>4. \A t \in Slots : /\ Released(slot[t]) \in SlotRecord /\ SlotForm(Released(slot[t]))
                       /\ Released(slot[t]).cached = slot[t].cached
                       /\ ~Begun(Released(slot[t]))
  BY <1>1, ReleasedIs
<1> HIDE DEF q
<1>5. /\ slot' \in [Slots -> SlotRecord]
      /\ \A t \in Slots : slot'[t] = IF t = s THEN q ELSE Released(slot[t])
  BY <1>2, <1>3, <1>4
<1>6. ~WholeCase
  BY DEF WholeCase
<1>7. system' \in Nat /\ (NoSystemPrompt => system' = 0)
  BY ServerAssumption DEF LaunchWithSystem, NoSystemPrompt
<1>8. kv' = kv /\ wkv' = wkv /\ lost' = lost /\ clean' = clean /\ need_update' \in BOOLEAN
  BY DEF LaunchWithSystem
<1>9. \A t \in Slots :
        /\ SlotForm(slot'[t]) /\ slot'[t].cached = slot[t].cached
        /\ Begun(slot'[t]) => /\ Begun(slot[t]) /\ slot'[t].n_past = slot[t].n_past
                              /\ system' = system
        /\ WholeCase /\ clean => slot'[t].state = "idle"
  BY <1>3, <1>4, <1>5, <1>6
<1>10. QED BY <1>5, <1>6, <1>7, <1>8, <1>9, TaskKeeps

(* An erased slot has nothing in the cache of the master.                  *)
LEMMA EraseKeeps ==
  ASSUME SlotsInv, NEW s \in Slots, Erase(s)
  PROVE  SlotsInv'
<1>1. /\ slot \in [Slots -> SlotRecord] /\ \A t \in Slots : SlotForm(slot[t])
      /\ system \in Nat /\ GoodCache(kv)
  BY DEF SlotsInv, SlotsType
<1> DEFINE q == [slot[s] EXCEPT !.cached = 0]
           d == kv_cache_seq_rm(kv, s + 1, -1, -1)
<1>2. /\ slot' = [slot EXCEPT ![s] = q] /\ kv' = d /\ lost' = lost /\ clean' = clean
      /\ need_update' = need_update /\ system' = system /\ CanErase /\ slot[s].state = "idle"
  BY DEF Erase, Idle
<1>3. q \in SlotRecord /\ SlotForm(q) /\ q.cached = 0 /\ q.state = "idle" /\ ~Begun(q)
  <2>1. /\ q.state = slot[s].state /\ q.n_past = slot[s].n_past /\ q.len = slot[s].len
        /\ q.cached = 0 /\ q \in SlotRecord
    BY <1>1 DEF SlotRecord
  <2> HIDE DEF q
  <2>2. QED BY <1>1, <1>2, <2>1 DEF SlotForm, Begun
<1> HIDE DEF q
<1>4. /\ slot' \in [Slots -> SlotRecord]
      /\ \A t \in Slots : slot'[t] = IF t = s THEN q ELSE slot[t]
  BY <1>1, <1>2, <1>3
<1>5. s + 1 \in Nat /\ -1 \in Int
  BY SlotFacts
<1>6. /\ PosOf(d, s + 1) = {p \in PosOf(kv, s + 1) : ~InRange(p, -1, -1)}
      /\ Once(kv, s + 1) => Once(d, s + 1)
      /\ \A r \in Nat \ {s + 1} : SameSeq(kv, d, r)
      /\ \A r, z \in Nat : Apart(kv, r, z) => Apart(d, r, z)
  BY <1>1, <1>5, RmSeqs
<1>7. GoodCache(d)
  BY <1>1, <1>5, RmGood
<1> HIDE DEF d
<1>8. PosOf(d, s + 1) = {}
  <2>1. PosOf(kv, s + 1) \in SUBSET Nat
    BY <1>1, PositionsAre
  <2>2. \A p \in Nat : InRange(p, -1, -1)
    BY DEF InRange
  <2>3. QED BY <1>6, <2>1, <2>2
<1>9. \A t \in Slots : t + 1 \in Nat /\ (t # s => t + 1 # s + 1)
  BY SlotFacts
<1>10. SlotsType'
  BY <1>1, <1>2, <1>3, <1>4, <1>7 DEF SlotsInv, SlotsType
<1>11. ASSUME NEW t \in Slots \ {s} PROVE SameSeq(kv, d, t + 1)
  BY <1>6, <1>9
<1>12. ASSUME StrayCase PROVE NothingStray'
  <2>1. NothingStray
    BY <1>12 DEF SlotsInv
  <2>2. ASSUME NEW t \in Slots PROVE Once(d, t + 1)
    <3>1. CASE t = s
      BY <1>8, <3>1, NoPositions
    <3>2. CASE t # s
      BY <1>11, <2>1, <3>2 DEF NothingStray, SameSeq
    <3>3. QED BY <3>1, <3>2
  <2>3. ASSUME NEW t \in Slots, NEW x \in Slots \ {t} PROVE Apart(d, t + 1, x + 1)
    BY <1>6, <1>9, <2>1 DEF NothingStray
  <2>4. ASSUME NEW t \in Slots, Begun(slot'[t]), NEW p \in PosOf(d, t + 1)
        PROVE  p < system + slot'[t].n_past
    <3>1. t # s /\ slot'[t] = slot[t]
      BY <1>3, <1>4, <2>4
    <3>2. PosOf(d, t + 1) = PosOf(kv, t + 1)
      BY <1>11, <3>1 DEF SameSeq
    <3>3. QED BY <2>1, <2>4, <3>1, <3>2 DEF NothingStray
  <2>5. QED BY <1>2, <2>2, <2>3, <2>4 DEF NothingStray
<1>13. ASSUME WholeCase PROVE AllThere'
  <2>1. AllThere
    BY <1>13 DEF SlotsInv
  <2>2. ASSUME NEW t \in Slots, t \notin lost PROVE PosOf(d, t + 1) = 0..slot'[t].cached-1
    <3>1. CASE t = s
      <4>1. 0..0-1 = {}
        OBVIOUS
      <4>2. QED BY <1>3, <1>4, <1>8, <3>1, <4>1
    <3>2. CASE t # s
      BY <1>4, <1>11, <2>1, <2>2, <3>2 DEF AllThere, SameSeq
    <3>3. QED BY <3>1, <3>2
  <2>3. \A t \in Slots : clean => slot'[t].state = "idle" /\ slot'[t].cached = 0
    BY <1>3, <1>4, <2>1 DEF AllThere
  <2>4. QED BY <1>2, <2>1, <2>2, <2>3 DEF AllThere
<1>14. ~AgreeCase
  BY <1>2 DEF AgreeCase
<1>15. QED BY <1>10, <1>12, <1>13, <1>14 DEF SlotsInv

(* Every step keeps what is in the cache and what the slots say together.  *)
LEMMA NextSlots == SlotsInv /\ [Next]_vars => SlotsInv'
<1> SUFFICES ASSUME SlotsInv, [Next]_vars PROVE SlotsInv'
  OBVIOUS
<1>1. CASE AllIdle
  BY <1>1, AllIdleKeeps
<1>2. CASE UpdateBusy
  BY <1>2, UpdateBusyKeeps
<1>3. ASSUME NEW s \in Slots, Launch(s) PROVE SlotsInv'
  BY <1>3, LaunchKeeps
<1>4. ASSUME NEW s \in Slots, NEW k \in NewSystems, LaunchWithSystem(s, k) PROVE SlotsInv'
  BY <1>4, LaunchWithSystemKeeps
<1>5. ASSUME NEW s \in Slots, Cancel(s) PROVE SlotsInv'
  BY <1>5, CancelKeeps
<1>6. ASSUME NEW s \in Slots, Erase(s) PROVE SlotsInv'
  BY <1>6, EraseKeeps
<1>7. CASE UNCHANGED vars
  BY <1>7 DEF vars, SlotsInv, SlotsType, NothingStray, AllThere
<1>8. QED BY <1>1, <1>2, <1>3, <1>4, <1>5, <1>6, <1>7 DEF Next

(* Between two calls of update_slots the caches and the slots fit together: *)
(* types and the cache's own invariant always, the rest in its cases.       *)
THEOREM SlotsInvHolds == Spec => []SlotsInv
BY InitSlots, NextSlots, PTL DEF Spec

(* Without a system prompt no shift takes more tokens than there are, and  *)
(* the server does not end by an exception.                                *)
THEOREM ServerNeverThrows == NoSystemPrompt => (Spec => []NeverThrows)
<1> SUFFICES ASSUME NoSystemPrompt PROVE Spec => []NeverThrows
  OBVIOUS
<1>1. SlotsInv => NeverThrows
  BY DEF SlotsInv, SlotsType, SlotForm, NeverThrows
<1>2. QED BY <1>1, SlotsInvHolds, PTL

LEMMA AlikePositions ==
  ASSUME NEW c, NEW d, Alike(c, d), NEW s \in Nat
  PROVE  Positions(c, s + 1) = Positions(d, s)
<1>1. \A x \in Cell : /\ s \in d.cells[x].seq <=> s + 1 \in c.cells[x].seq
                      /\ s + 1 \in c.cells[x].seq => x \in Live(c)
  BY AlikeSeq
<1>2. \A x \in Live(c) : d.cells[x].pos = c.cells[x].pos
  BY DEF Alike
<1>3. {y \in Cell : s \in d.cells[y].seq} = {y \in Cell : s + 1 \in c.cells[y].seq}
  BY <1>1
<1>4. QED BY <1>1, <1>2, <1>3 DEF Positions

(* Without system prompts and slot erase actions a slot attends to the     *)
(* same cells and positions on the worker as on the master, however the    *)
(* batches were cut, retried or failed.                                    *)
THEOREM ServerSlotsAgree == AgreeCase => (Spec => []SlotsAgree)
<1> SUFFICES ASSUME AgreeCase PROVE Spec => []SlotsAgree
  OBVIOUS
<1>1. SlotsInv => SlotsAgree
  <2> SUFFICES ASSUME SlotsInv, NEW s \in Slots PROVE Positions(kv, s + 1) = Positions(wkv, s)
    BY DEF SlotsAgree
  <2>1. Alike(kv, wkv) /\ s \in Nat
    BY SlotFacts DEF SlotsInv
  <2>2. QED BY <2>1, AlikePositions
<1>2. QED BY <1>1, SlotsInvHolds, PTL

(* The cells of a sequence and what they hold.                             *)
LEMMA PositionsOf ==
  ASSUME NEW c, GoodCache(c), NEW q
  PROVE  /\ Positions(c, q) = {<<x, c.cells[x].pos>> : x \in CellsWith(c, q)}
         /\ \A p : CellsAt(c, q, p) = {x \in CellsWith(c, q) : c.cells[x].pos = p}
<1>1. {y \in Cell : q \in c.cells[y].seq} = CellsWith(c, q)
  BY DEF CellsWith, Live
<1>2. QED BY <1>1 DEF Positions, CellsAt

LEMMA StartedBegun ==
  ASSUME NEW s, Started(s)
  PROVE  Begun(slot[s])
BY DEF Started, Begun

(* When a piece of a batch is one ubatch, and several slots do not share a *)
(* system prompt, a slot attends to no position twice and to none from its *)
(* end on.                                                                 *)
THEOREM ServerNoStrayTokens == StrayCase => (Spec => []NoStrayTokens)
<1> SUFFICES ASSUME StrayCase PROVE Spec => []NoStrayTokens
  OBVIOUS
<1>1. SlotsInv => NoStrayTokens
  <2> SUFFICES ASSUME SlotsInv, NEW s \in Slots, Started(s)
               PROVE  LET mine == Positions(kv, s + 1)
                      IN  /\ \A t, u \in mine : t[2] = u[2] => t = u
                          /\ \A t \in mine : t[2] < system + slot[s].n_past
    BY DEF NoStrayTokens
  <2>1. GoodCache(kv) /\ NothingStray
    BY DEF SlotsInv, SlotsType
  <2>2. Once(kv, s + 1) /\ \A p \in PosOf(kv, s + 1) : p < system + slot[s].n_past
    BY <2>1, StartedBegun DEF NothingStray
  <2>3. Positions(kv, s + 1) = {<<x, kv.cells[x].pos>> : x \in CellsWith(kv, s + 1)}
    BY <2>1, PositionsOf
  <2>4. ASSUME NEW t \in Positions(kv, s + 1)
        PROVE  \E x \in CellsWith(kv, s + 1) : t = <<x, kv.cells[x].pos>> /\ t[2] = kv.cells[x].pos
    BY <2>3
  <2>5. ASSUME NEW t \in Positions(kv, s + 1), NEW u \in Positions(kv, s + 1), t[2] = u[2]
        PROVE  t = u
    <3>1. PICK x \in CellsWith(kv, s + 1) : t = <<x, kv.cells[x].pos>> /\ t[2] = kv.cells[x].pos
      BY <2>4
    <3>2. PICK y \in CellsWith(kv, s + 1) : u = <<y, kv.cells[y].pos>> /\ u[2] = kv.cells[y].pos
      BY <2>4
    <3>3. x = y
      BY <2>2, <2>5, <3>1, <3>2 DEF Once
    <3>4. QED BY <3>1, <3>2, <3>3
  <2>6. ASSUME NEW t \in Positions(kv, s + 1) PROVE t[2] < system + slot[s].n_past
    <3>1. PICK x \in CellsWith(kv, s + 1) : t[2] = kv.cells[x].pos
      BY <2>4
    <3>2. kv.cells[x].pos \in PosOf(kv, s + 1)
      BY DEF PosOf
    <3>3. QED BY <2>2, <3>1, <3>2
  <2>7. QED BY <2>5, <2>6
<1>2. QED BY <1>1, SlotsInvHolds, PTL

(* A sequence that has each position below end once, and no others.        *)
LEMMA WholeSequence ==
  ASSUME NEW c, GoodCache(c), NEW q, Once(c, q), NEW end \in Nat, PosOf(c, q) = 0..end-1
  PROVE  /\ \A p \in 0..end-1 : Cardinality(CellsAt(c, q, p)) = 1
         /\ Cardinality(Positions(c, q)) = end
<1>1. /\ Positions(c, q) = {<<x, c.cells[x].pos>> : x \in CellsWith(c, q)}
      /\ \A p : CellsAt(c, q, p) = {x \in CellsWith(c, q) : c.cells[x].pos = p}
  BY PositionsOf
<1>2. ASSUME NEW p \in 0..end-1 PROVE Cardinality(CellsAt(c, q, p)) = 1
  <2>1. PICK x \in CellsWith(c, q) : c.cells[x].pos = p
    BY DEF PosOf
  <2>2. CellsAt(c, q, p) = {x}
    BY <1>1, <2>1 DEF Once
  <2>3. QED BY <2>2, FS_Singleton
<1> DEFINE at == [p \in 0..end-1 |-> CHOOSE t \in Positions(c, q) : t[2] = p]
<1>3. ASSUME NEW t \in Positions(c, q) PROVE t[2] \in 0..end-1
  <2>1. PICK x \in CellsWith(c, q) : t = <<x, c.cells[x].pos>> /\ t[2] = c.cells[x].pos
    BY <1>1
  <2>2. QED BY <2>1 DEF PosOf
<1>4. ASSUME NEW t \in Positions(c, q), NEW u \in Positions(c, q), t[2] = u[2] PROVE t = u
  <2>1. PICK x \in CellsWith(c, q) : t = <<x, c.cells[x].pos>> /\ t[2] = c.cells[x].pos
    BY <1>1
  <2>2. PICK y \in CellsWith(c, q) : u = <<y, c.cells[y].pos>> /\ u[2] = c.cells[y].pos
    BY <1>1
  <2>3. x = y
    BY <1>4, <2>1, <2>2 DEF Once
  <2>4. QED BY <2>1, <2>2, <2>3
<1>5. ASSUME NEW p \in 0..end-1 PROVE \E t \in Positions(c, q) : t[2] = p
  <2>1. PICK x \in CellsWith(c, q) : c.cells[x].pos = p
    BY DEF PosOf
  <2>2. <<x, p>> \in Positions(c, q) /\ <<x, p>>[2] = p
    BY <1>1, <2>1
  <2>3. QED BY <2>2
<1>6. \A p \in 0..end-1 : at[p] \in Positions(c, q) /\ at[p][2] = p
  BY <1>5
<1> HIDE DEF at
<1>7. at \in Bijection(0..end-1, Positions(c, q))
  <2>1. at \in [0..end-1 -> Positions(c, q)]
    <3>1. at = [p \in 0..end-1 |-> at[p]]
      BY DEF at
    <3>2. QED BY <1>6, <3>1
  <2>2. \A p, r \in 0..end-1 : at[p] = at[r] => p = r
    BY <1>6
  <2>3. \A t \in Positions(c, q) : \E p \in 0..end-1 : at[p] = t
    <3>1. ASSUME NEW t \in Positions(c, q) PROVE t[2] \in 0..end-1 /\ at[t[2]] = t
      BY <1>3, <1>4, <1>6
    <3>2. QED BY <3>1
  <2>4. QED BY <2>1, <2>2, <2>3 DEF Bijection, Injection, IsInjective, Surjection
<1>8. IsFiniteSet(0..end-1) /\ Cardinality(0..end-1) = end
  BY FS_Interval
<1>9. Cardinality(Positions(c, q)) = end
  BY <1>7, <1>8, FS_Bijection DEF ExistsBijection
<1>10. QED BY <1>2, <1>9

(* When a piece of a batch is one ubatch, without system prompts and tasks *)
(* before the loop, a slot that lost no tokens attends to each position    *)
(* before the next exactly once, and to nothing else.                      *)
THEOREM ServerSlotsAreWhole == WholeCase => (Spec => []SlotsAreWhole)
<1> SUFFICES ASSUME WholeCase PROVE Spec => []SlotsAreWhole
  OBVIOUS
<1>1. SlotsInv => SlotsAreWhole
  <2> SUFFICES ASSUME SlotsInv, NEW s \in Slots \ lost, Started(s)
               PROVE  LET end == system + slot[s].n_past
                      IN  /\ \A p \in 0..end-1 : Cardinality(CellsAt(kv, s + 1, p)) = 1
                          /\ Cardinality(Positions(kv, s + 1)) = end
    BY DEF SlotsAreWhole
  <2>1. StrayCase /\ system = 0 /\ GoodCache(kv) /\ NothingStray /\ AllThere
    BY CasesAre DEF SlotsInv, SlotsType
  <2>2. slot[s].n_past = slot[s].cached /\ slot[s].cached \in Nat
    BY StartedBegun DEF SlotsInv, SlotsType, SlotForm, SlotRecord
  <2> DEFINE end == system + slot[s].n_past
  <2>3. end \in Nat /\ end = slot[s].cached
    BY <2>1, <2>2
  <2>4. Once(kv, s + 1)
    BY <2>1 DEF NothingStray
  <2> HIDE DEF end
  <2>5. PosOf(kv, s + 1) = 0..end-1
    BY <2>1, <2>3 DEF AllThere
  <2>6. /\ \A p \in 0..end-1 : Cardinality(CellsAt(kv, s + 1, p)) = 1
        /\ Cardinality(Positions(kv, s + 1)) = end
    BY <2>1, <2>3, <2>4, <2>5, WholeSequence
  <2>7. QED BY <2>6 DEF end
<1>2. QED BY <1>1, SlotsInvHolds, PTL

=============================================================================
