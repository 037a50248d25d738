----------------------------- MODULE BatchRetry -----------------------------
(***************************************************************************)
(* The loop of server_context::update_slots that decodes the batch it has  *)
(* put together: in pieces of n_batch tokens, and when llama_decode finds  *)
(* no slot in the KV cache, again with pieces half as long.  llama_decode  *)
(* itself cuts a piece into ubatches and finds a slot for each of them;    *)
(* the ones before the first that fails stay in the cache.  A negative     *)
(* return, for a token that is not in the vocabulary or for want of memory *)
(* for the outputs, comes before the first ubatch and ends the loop at     *)
(* once.                                                                   *)
(*                                                                         *)
(* The batch is one prompt of Tokens tokens in sequence 1; sequence 0      *)
(* stands for everything else in the cache.                                *)
(***************************************************************************)
EXTENDS Batches

CONSTANT Tokens      (* batch.n_tokens                                       *)

ASSUME TokensAssumption == Tokens \in Nat \ {0}

VARIABLES phase,     (* "before", "loop", "decode", "done" or "failed"       *)
          i,         (* the first token of the present piece                 *)
          n_batch,   (* the length of a piece                                *)
          todo,      (* the ubatches llama_decode still has to do            *)
          ret,       (* what llama_decode returned last                      *)
          cache

batchVars == <<phase, i, n_batch, todo, ret, cache>>

Tok(p, s) == [pos |-> p, seq |-> {s}]

BatchInit ==
  /\ phase = "before"
  /\ i = 0
  /\ n_batch = NBatch
  /\ todo = <<>>
  /\ ret = 0
  /\ cache = InitCache

(* What happened before: other tokens came and went.                       *)
OtherDecode(p) ==
  /\ phase = "before"
  /\ Place(cache, <<Tok(p, 0)>>).ok
  /\ cache' = FinishDecode(Place(cache, <<Tok(p, 0)>>).cache)
  /\ UNCHANGED <<phase, i, n_batch, todo, ret>>

OtherRm(p) ==
  /\ phase = "before"
  /\ cache' = kv_cache_seq_rm(cache, 0, p, p + 1)
  /\ UNCHANGED <<phase, i, n_batch, todo, ret>>

Start ==
  /\ phase = "before"
  /\ phase' = "loop"
  /\ UNCHANGED <<i, n_batch, todo, ret, cache>>

(* Tokens a..b-1 in ubatches of at most NUbatch.                           *)
Split(a, b) ==
  [u \in 1..(b - a + NUbatch - 1) \div NUbatch |->
     LET first == a + (u - 1) * NUbatch
         last  == Min({first + NUbatch, b}) - 1
     IN  [x \in 1..last - first + 1 |-> Tok(first + x - 1, 1)]]

(* One turn of the loop up to the call of llama_decode.                    *)
Call ==
  /\ phase = "loop"
  /\ i < Tokens
  /\ phase' = "decode"
  /\ todo' = Split(i, Min({i + n_batch, Tokens}))
  /\ UNCHANGED <<i, n_batch, ret, cache>>

(* Faulty variant of Fail: goes on behind the piece that failed.           *)
FailSkips(r) ==
  /\ todo' = <<>>
  /\ ret' = r
  /\ IF n_batch = 1 \/ r < 0
     THEN phase' = "failed" /\ UNCHANGED <<i, n_batch>>
     ELSE phase' = "loop" /\ n_batch' = n_batch \div 2 /\ i' = i + n_batch

(* Faulty variant of Fail: gives up before the pieces are single tokens.   *)
FailEarly(r) ==
  /\ todo' = <<>>
  /\ ret' = r
  /\ IF n_batch <= 2 \/ r < 0
     THEN phase' = "failed" /\ UNCHANGED <<i, n_batch>>
     ELSE phase' = "loop" /\ n_batch' = n_batch \div 2 /\ UNCHANGED i

(* Faulty variant of Fail: does not give up at pieces of one token.        *)
FailNever(r) ==
  /\ todo' = <<>>
  /\ ret' = r
  /\ IF r < 0
     THEN phase' = "failed" /\ UNCHANGED <<i, n_batch>>
     ELSE phase' = "loop" /\ n_batch' = Max({n_batch \div 2, 1}) /\ UNCHANGED i

(* llama_decode returned r # 0.  "n_batch /= 2; i -= n_batch; continue"    *)
(* goes through the increment of the loop: the next piece starts where     *)
(* this one did.                                                           *)
Fail(r) ==
  /\ todo' = <<>>
  /\ ret' = r
  /\ IF n_batch = 1 \/ r < 0
     THEN phase' = "failed" /\ UNCHANGED <<i, n_batch>>
     ELSE phase' = "loop" /\ n_batch' = n_batch \div 2 /\ UNCHANGED i

(* llama_decode returns before its first ubatch: -1 for a token that is    *)
(* not in the vocabulary, -2 when llama_output_reserve finds no memory.    *)
Refuse ==
  /\ phase = "loop"
  /\ i < Tokens
  /\ \E r \in {-1, -2} : Fail(r)
  /\ UNCHANGED cache

Ubatch ==
  LET p == Place(cache, Head(todo)) IN
  /\ phase = "decode"
  /\ cache' = IF p.ok /\ Len(todo) = 1 THEN FinishDecode(p.cache) ELSE p.cache
  /\ \/ /\ ~p.ok
        /\ Fail(1)
     \/ /\ p.ok /\ Len(todo) > 1
        /\ todo' = Tail(todo)
        /\ UNCHANGED <<phase, i, n_batch, ret>>
     \/ /\ p.ok /\ Len(todo) = 1
        /\ todo' = <<>>
        /\ ret' = 0
        /\ phase' = "loop"
        /\ i' = i + n_batch
        /\ UNCHANGED n_batch

BatchDone ==
  /\ phase = "loop"
  /\ i >= Tokens
  /\ phase' = "done"
  /\ UNCHANGED <<i, n_batch, todo, ret, cache>>

Ended == phase \in {"done", "failed"} /\ UNCHANGED batchVars

Loop == Call \/ Refuse \/ Ubatch \/ BatchDone

BatchNext ==
  \/ \E p \in 0..Size-1 : OtherDecode(p) \/ OtherRm(p)
  \/ Start
  \/ Loop
  \/ Ended

(* The loop runs in one thread and nothing in it blocks.                   *)
BatchSpec == BatchInit /\ [][BatchNext]_batchVars /\ WF_batchVars(Loop)
-----------------------------------------------------------------------------
Copies(t) == {x \in Cell : cache.cells[x].pos = t /\ 1 \in cache.cells[x].seq}

(* Between two calls of llama_decode, and when the loop has ended or given *)
(* up, the tokens up to i are in the cache, each of them once, and no      *)
(* later one is: a retry must not find tokens of the failed attempt        *)
(* ("retry with half the batch size to try to find a free slot in the KV   *)
(* cache"), and a batch given up leaves none of its last piece.            *)
StoredOnce ==
  phase \in {"loop", "done", "failed"} =>
    \A t \in 0..Tokens-1 : Cardinality(Copies(t)) = IF t < i THEN 1 ELSE 0

(* "if you get here, it means the KV cache is full", as the loop says when *)
(* it gives up.  Refuted: llama_decode may have refused the piece.         *)
GivesUpOnlyWhenFull ==
  phase = "failed" => \A x \in Cell : cache.cells[x].pos >= 0

(* The loop gives a batch up for one of two reasons: llama_decode refused  *)
(* the piece, or found no slot for it; and then there is not even one free *)
(* cell, wherever the cache is occupied and its search began, the halving  *)
(* having come down to pieces of one token.                                *)
GivesUpForAReason ==
  phase = "failed" => ret < 0 \/ \A x \in Cell : cache.cells[x].pos >= 0

(* The halving ends, with the batch decoded or with an error.              *)
LoopEnds == phase = "loop" ~> phase \in {"done", "failed"}

=============================================================================
