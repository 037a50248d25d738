------------------------------- MODULE MCRing -------------------------------
(* The caches of Ring are those of KvOps with two cells.                    *)
EXTENDS Ring

K == INSTANCE KvOps WITH Size <- 2, Pad <- 1, MinDefrag <- 1, Thold <- 20, MaxMoves <- 1

Tok(p) == [pos |-> p, seq |-> {0}]

MCUbatches == {<<Tok(0)>>, <<Tok(1)>>, <<Tok(0), Tok(1)>>}

(* Two ubatches or the warm-up batch fill the cache; then the next batch    *)
(* does not fit unless something was removed.                               *)
MCWarmBatch == << <<Tok(0), Tok(1)>> >>
MCBatches   == {MCWarmBatch, << <<Tok(0)>>, <<Tok(1)>> >>, << <<Tok(1)>> >>}

MCKvCmds == {<<"rm", 0, 1>>, <<"add", 0, 1>>}

(* The operators of KvOps, applied to a member of a set of one: TLC then    *)
(* computes the cache once, also where it checks liveness.                  *)
The(S) == CHOOSE x \in S : TRUE

Op(c, op) == IF op[1] = "rm" THEN K!kv_cache_seq_rm(c, 0, op[2], op[3])
                             ELSE K!kv_cache_seq_add(c, 0, op[2], -1, op[3])

(* K!Place(c, u): update, then search and occupy.                           *)
Place(c, u) ==
  LET updated == {K!StartSearch(x, Len(u)) : x \in {K!kv_cache_update(y) : y \in {c}}}
  IN  {[ok |-> p.ok, cache |-> p.cache] : p \in {K!PlaceFrom(x, u) : x \in updated}}

MCCacheInit        == K!InitCache
MCCacheCleared(c)  == K!kv_cache_clear(c)
MCCacheOp(c, op)   == The({Op(x, op) : x \in {c}})
MCCachePlace(c, u) == The(Place(c, u))
MCCacheEnd(c)      == The({K!FinishDecode(x) : x \in {c}})

(* What the application forgets to send.                                    *)
None  == {}
Erase == {<<"rm", 0, 1>>}

=============================================================================
