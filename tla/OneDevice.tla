----------------------------- MODULE OneDevice ------------------------------
(***************************************************************************)
(* What the ring promises the application: llama_decode and the cache      *)
(* operations of a single device that has all the layers.                  *)
(***************************************************************************)
EXTENDS Integers, Sequences

CONSTANTS Windows, Batches, WarmBatch, KvCmds, CacheInit,
          CacheCleared(_), CacheOp(_, _), CachePlace(_, _), CacheEnd(_)

VARIABLES kv,     (* the cache                                               *)
          todo,   (* the ubatches of the running llama_decode                *)
          next,   (* the sub-graph to compute next, -1 outside of the loop   *)
          fresh   (* nothing but the warm-up run has been done               *)

dvars == <<kv, todo, next, fresh>>

Init == kv = CacheInit /\ todo = <<>> /\ next = -1 /\ fresh = TRUE

End(c) ==
  /\ todo' = <<>>
  /\ next' = -1
  /\ kv' = IF fresh THEN CacheCleared(c) ELSE c
  /\ fresh' = FALSE

Decode(b) ==
  /\ todo = <<>>
  /\ fresh => b = WarmBatch
  /\ todo' = b
  /\ UNCHANGED <<kv, next, fresh>>

Kv(op) ==
  /\ todo = <<>> /\ ~fresh
  /\ kv' = CacheOp(kv, op)
  /\ UNCHANGED <<todo, next, fresh>>

(* A slot for the ubatch, or an error and no further ubatch.               *)
Slot ==
  LET p == CachePlace(kv, Head(todo)) IN
  /\ todo # <<>> /\ next = -1
  /\ IF p.ok THEN kv' = p.cache /\ next' = 0 /\ UNCHANGED <<todo, fresh>>
             ELSE End(p.cache)

(* The layers one after the other, none twice and none left out.           *)
Layers ==
  /\ next \in 0..Windows
  /\ next' = next + 1
  /\ UNCHANGED <<kv, todo, fresh>>

Output ==
  /\ next = Windows + 1
  /\ IF Len(todo) > 1
     THEN /\ todo' = Tail(todo)
          /\ next' = -1
          /\ UNCHANGED <<kv, fresh>>
     ELSE End(CacheEnd(kv))

Next ==
  \/ \E b \in Batches : Decode(b)
  \/ \E op \in KvCmds : Kv(op)
  \/ Slot
  \/ Layers
  \/ Output

Spec == Init /\ [][Next]_dvars

=============================================================================
