----------------------------- MODULE ServerSlots -----------------------------
(***************************************************************************)
(* The slots of the server and the KV caches they share, with ga_n = 1 and *)
(* cache_prompt set, which are the defaults.  On the master slot s keeps   *)
(* its tokens in sequence s + 1, and sequence 0 holds the system prompt.   *)
(* What is sent to the workers names the slot by s, and llama_send_meta,   *)
(* called with server_mode, takes 1 from the sequence ids of a batch.      *)
(*                                                                         *)
(* kv is the cache of the master and wkv that of a worker.  Ring shows     *)
(* that a worker does what is sent to it in the order of the master, so    *)
(* the worker's part is done in the same step here.  Prompts may take      *)
(* several batches, and a decode fails when the master's cache is full.    *)
(***************************************************************************)
EXTENDS Batches

CONSTANTS Slots,        (* ids of the server's slots, 0..n_parallel-1        *)
          SlotCtx,      (* slot.n_ctx, the context of each slot              *)
          PromptLens,   (* n_prompt_tokens of the prompts that come          *)
          FirstSystem,  (* tokens of the system prompt at startup; 0: none   *)
          NewSystems,   (* tokens of the system prompts that tasks bring     *)
          CanErase,     (* clients use the slot erase action                 *)
          EarlyTask     (* a task may be queued before start_loop            *)

ASSUME ServerAssumption ==
  /\ Slots = 0..Cardinality(Slots)-1 /\ IsFiniteSet(Slots)
  /\ SlotCtx \in Nat /\ FirstSystem \in Nat
  /\ PromptLens \subseteq 1..SlotCtx-1
  /\ NewSystems \subseteq Nat
  /\ CanErase \in BOOLEAN /\ EarlyTask \in BOOLEAN

VARIABLES kv, wkv,
          slot,         (* of each slot: state (ended: of a server that      *)
                        (* ended by an exception); n_past (0 when idle);     *)
                        (* cached, the number of cache_tokens; len, the      *)
                        (* length of a prompt of which parts are missing     *)
          system,       (* number of system tokens                           *)
          need_update,  (* system_need_update                                *)
          clean,        (* clean_kv_cache                                    *)
          updates,      (* history: calls of update_slots, modulo 2, so that *)
                        (* a call that changes nothing else is a step        *)
          lost          (* history: slots with tokens in a batch that could  *)
                        (* not be decoded, until they start from scratch     *)

vars == <<kv, wkv, slot, system, need_update, clean, lost, updates>>

Init ==
  /\ kv = InitCache
  /\ wkv = InitCache
  /\ slot = [s \in Slots |-> [state |-> "idle", n_past |-> 0, len |-> 0, cached |-> 0]]
  /\ system = FirstSystem
  /\ need_update = (FirstSystem > 0)
  /\ clean = TRUE
  /\ lost = {} /\ updates = 0
-----------------------------------------------------------------------------
(* What n turns of a loop make of w.                                       *)
Turns(Step(_, _), w, n) ==
  LET after[k \in 0..n] == IF k = 0 THEN w ELSE Step(after[k - 1], k)
  IN  after[n]

(* One pass over the slots works on a record of the two caches, the slots  *)
(* and the batch that is being filled.                                     *)
EachSlot(Step(_, _), w) ==
  LET turn(v, k) == Step(v, k - 1) IN Turns(turn, w, Cardinality(Slots))

(* The end of what slot s has in the cache.                                *)
End(w, s) == system + w.slot[s].n_past

(* llama_send_meta with align_seq_ids.                                     *)
AlignedSeqId(q) == q - 1

Sent(b) == [i \in DOMAIN b |-> [b[i] EXCEPT !.seq = {AlignedSeqId(q) : q \in @}]]

Ubatches(b) ==
  [u \in 1..(Len(b) + NUbatch - 1) \div NUbatch |->
     SubSeq(b, (u - 1) * NUbatch + 1, Min({u * NUbatch, Len(b)}))]

(* llama_decode on one device; not ok if an ubatch found no slot.          *)
Decided(r) == IF r.ok THEN [r EXCEPT !.cache = FinishDecode(@)] ELSE r

PlaceNext(r, u) == IF r.ok THEN Place(r.cache, u) ELSE r

Decoded(c, b) ==
  LET next(r, k) == PlaceNext(r, Ubatches(b)[k])
  IN  Decided(Turns(next, [ok |-> TRUE, cache |-> c], Len(Ubatches(b))))

Returned(w, m, other) == [w EXCEPT !.m = m.cache, !.w = other.cache, !.ok = m.ok]

DecodeBoth(w, b) == Returned(w, Decoded(w.m, b), Decoded(w.w, Sent(b)))

Piece(b, i, n) == SubSeq(b, i + 1, Min({i + n, Len(b)}))

(* The batch in pieces of n, from token i on; a piece that finds no room   *)
(* is tried again with half of n, until n is 1.  Each turn gets on, halves *)
(* n, or gives up: at once when bad, the first token of the batch that is  *)
(* not in the vocabulary (0: none), is in the piece, before anything is    *)
(* sent or stored.                                                         *)
PieceDone(w) ==
  IF w.ok THEN [w EXCEPT !.i = @ + w.n]
  ELSE IF w.n = 1 THEN w
  ELSE [w EXCEPT !.ok = TRUE, !.n = @ \div 2]

NextPiece(w, bad) ==
  IF ~(w.ok /\ w.i < Len(w.batch)) THEN w
  ELSE IF bad \in w.i+1..w.i+w.n THEN [w EXCEPT !.ok = FALSE]
  ELSE PieceDone(DecodeBoth(w, Piece(w.batch, w.i, w.n)))

DecodeBatch(w, bad) ==
  LET turn(v, k) == NextPiece(v, bad) IN Turns(turn, w, Len(w.batch) + NBatch)

ClearBoth(w) == [w EXCEPT !.m = kv_cache_clear(@), !.w = kv_cache_clear(@)]

(* The cells of the system prompt are handed to the slots.                 *)
AssignTo(w, s) == [w EXCEPT !.m = kv_cache_seq_cp(@, 0, s + 1, -1, -1),
                            !.w = kv_cache_seq_cp(@, 0, s, -1, -1)]

AssignSystem(w) == IF w.ok THEN [EachSlot(AssignTo, w) EXCEPT !.need = FALSE]
                           ELSE [w EXCEPT !.ok = TRUE]

SystemTokens == [i \in 1..system |-> [pos |-> i - 1, seq |-> {0}]]

SystemPart(w, k) ==
  IF w.ok THEN DecodeBoth(w, Piece(SystemTokens, (k - 1) * NBatch, NBatch)) ELSE w

(* It is not tried again with a smaller batch, and nothing is handed out   *)
(* when a part could not be decoded.                                       *)
SystemPromptUpdate(w) ==
  AssignSystem(Turns(SystemPart, ClearBoth(w), (system + NBatch - 1) \div NBatch))

(* Context shift: when the slot is full all but the first token move down  *)
(* by one half of what is left.  n_keep is 0, and add_bos_token adds 1.    *)
Keep == 1

Discard(w, s) == (End(w, s) - Keep) \div 2

IsFull(w, s) == w.slot[s].state # "idle" /\ End(w, s) >= SlotCtx - 1

(* With fewer cache_tokens than n_discard their new size wraps around, and *)
(* nothing catches what resize throws.                                     *)
Throws(w) == \E s \in Slots : IsFull(w, s) /\ w.slot[s].cached < Discard(w, s)

Shifted(c, q, discard, end) ==
  kv_cache_seq_add(kv_cache_seq_rm(c, q, Keep, Keep + discard),
                   q, Keep + discard, end, -discard)

(* Faulty variant of ContextShift: the end does not reach the worker.      *)
ContextShiftHalfSent(w, s) ==
  LET n == Discard(w, s)
  IN  IF ~IsFull(w, s) THEN w
      ELSE [w EXCEPT !.m = Shifted(@, s + 1, n, End(w, s)),
                     !.w = kv_cache_seq_rm(@, s, Keep, Keep + n),
                     !.slot[s].n_past = @ - n,
                     !.slot[s].cached = @ - n]

ContextShift(w, s) ==
  LET n == Discard(w, s)
  IN  IF ~IsFull(w, s) THEN w
      ELSE [w EXCEPT !.m = Shifted(@, s + 1, n, End(w, s)),
                     !.w = Shifted(@, s, n, End(w, s)),
                     !.slot[s].n_past = @ - n,
                     !.slot[s].cached = @ - n]

(* The token sampled last joins the batch.                                 *)
AddSampled(w, s) ==
  IF w.slot[s].state # "run" THEN w
  ELSE [w EXCEPT !.batch = Append(@, [pos |-> End(w, s), seq |-> {s + 1}]),
                 !.slot[s].n_past = @ + 1,
                 !.slot[s].cached = @ + 1]

(* A slot with the first n of the len tokens of a prompt.                  *)
At(state, n, len) == [state |-> state, n_past |-> n, len |-> len, cached |-> n]

(* Faulty variants of PromptPart: what is after the common part stays, or  *)
(* the prompt is cut at the end of the batch.                              *)
PromptPartKeepsTail(w, s, n, len) ==
  LET end  == system + n
      more == Min({len - n, Max({NBatch - Len(w.batch), 0})})
      toks == [i \in 1..more |-> [pos |-> end + i - 1, seq |-> {s + 1}]]
  IN  [w EXCEPT !.batch = @ \o toks,
                !.slot[s] = IF n + more = len THEN At("done", len, 0)
                                              ELSE At("prompt", n + more, len)]

PromptPartStalls(w, s, n, len) ==
  LET end  == system + n
      more == IF len - n > NBatch - Len(w.batch) THEN 0 ELSE len - n
      toks == [i \in 1..more |-> [pos |-> end + i - 1, seq |-> {s + 1}]]
  IN  [w EXCEPT !.m = kv_cache_seq_rm(@, s + 1, end, -1),
                !.w = kv_cache_seq_rm(@, s, end, -1),
                !.batch = @ \o toks,
                !.slot[s] = IF n + more = len THEN At("done", len, 0)
                                              ELSE At("prompt", n + more, len)]

(* The cache has the first n of the len tokens of a prompt: what follows   *)
(* them is removed, and as much of the rest as fits joins the batch.       *)
PromptPart(w, s, n, len) ==
  LET end  == system + n
      more == Min({len - n, Max({NBatch - Len(w.batch), 0})})
      toks == [i \in 1..more |-> [pos |-> end + i - 1, seq |-> {s + 1}]]
  IN  [w EXCEPT !.m = kv_cache_seq_rm(@, s + 1, end, -1),
                !.w = kv_cache_seq_rm(@, s, end, -1),
                !.batch = @ \o toks,
                !.slot[s] = IF n + more = len THEN At("done", len, 0)
                                              ELSE At("prompt", n + more, len)]

(* A prompt of len tokens, of which the first common are in cache_tokens,  *)
(* unless a shift took them, or the next part of a prompt.  The loop over  *)
(* the slots is left at a slot, but for the first, when the batch is full. *)
AddPrompt(w, s, common, len) ==
  LET left == s > 0 /\ Len(w.batch) >= NBatch
      n    == Min({common, w.slot[s].cached})
  IN  IF w.slot[s].state # "prompt" \/ left THEN w
      ELSE IF w.slot[s].len > 0
      THEN PromptPart(w, s, w.slot[s].n_past, w.slot[s].len)
      ELSE PromptPart([w EXCEPT !.lost = IF n = 0 THEN @ \ {s} ELSE @], s, n, len)

(* server_slot::release.                                                   *)
Released(r) == [r EXCEPT !.state = "idle", !.n_past = 0, !.len = 0]

(* The slots a token was sampled for in a batch.                           *)
Sampled(w) == IF w.ok THEN {s \in Slots : w.slot[s].state \in {"run", "done"}} ELSE {}

(* The end of a batch.  If it failed all slots are released; otherwise a   *)
(* slot with a token sampled goes on, unless that was its last (stops).    *)
Finish(w, stops) ==
  LET next(s, r) == IF ~w.ok \/ s \in stops THEN Released(r)
                    ELSE IF r.state = "done" THEN [r EXCEPT !.state = "run"] ELSE r
      failed     == {s \in Slots : \E i \in DOMAIN w.batch : s + 1 \in w.batch[i].seq}
  IN  [w EXCEPT !.slot = [s \in Slots |-> next(s, @[s])],
                !.lost = IF w.ok THEN @ ELSE @ \union failed]
-----------------------------------------------------------------------------
Idle(s) == slot[s].state = "idle"

Busy(s) == slot[s].state \in {"prompt", "run"}

Work == [m |-> kv, w |-> wkv, slot |-> slot, batch |-> <<>>, i |-> 0, n |-> NBatch,
         ok |-> TRUE, need |-> need_update, lost |-> lost]

Become(w) ==
  /\ kv' = w.m /\ wkv' = w.w /\ slot' = w.slot
  /\ need_update' = w.need /\ lost' = w.lost
  /\ updates' = 1 - updates

BeginUpdate == IF need_update THEN SystemPromptUpdate(Work) ELSE Work

(* update_slots after the system prompt: nothing to do, except to clear    *)
(* the caches once.                                                        *)
AllIdle ==
  LET clears == system = 0 /\ clean /\ ~need_update
  IN  /\ \A s \in Slots : Idle(s)
      /\ need_update \/ clears
      /\ Become(IF clears THEN ClearBoth(Work) ELSE BeginUpdate)
      /\ clean' = FALSE
      /\ UNCHANGED system

(* The part of update_slots after the system prompt.  For a slot with a    *)
(* new prompt common is common_part(cache_tokens, prompt_tokens), less one *)
(* if it is the whole prompt.                                              *)
FillBatch(w, common, len) ==
  LET prompt(v, s) == AddPrompt(v, s, common[s], len[s])
  IN  EachSlot(prompt, EachSlot(AddSampled, EachSlot(ContextShift, w)))

(* The tokens of the batch that clients sent; the others were sampled.     *)
FromPrompts(w) ==
  {i \in DOMAIN w.batch :
     \A s \in Slots : s + 1 \in w.batch[i].seq => w.slot[s].state # "run"}

EndUpdate(w) == \E stops \in SUBSET Sampled(w) : Become(Finish(w, stops))

Serve(w, common, len) ==
  IF Throws(w) THEN Become([w EXCEPT !.slot = [s \in Slots |-> At("ended", 0, 0)]])
  ELSE LET b == FillBatch(w, common, len)
       IN  \E bad \in {0} \union FromPrompts(b) : EndUpdate(DecodeBatch(b, bad))

UpdateSlots(common, len) ==
  /\ \E s \in Slots : Busy(s)
  /\ Serve(BeginUpdate, common, len)
  /\ clean' = (clean /\ ~need_update)
  /\ UNCHANGED system

(* process_single_task of a completion: the slot is reset, but keeps its   *)
(* cache_tokens.  A task that brings a system prompt stops all slots.      *)
Launch(s) ==
  /\ Idle(s)
  /\ EarlyTask \/ ~clean
  /\ slot' = [slot EXCEPT ![s].state = "prompt"]
  /\ UNCHANGED <<kv, wkv, system, need_update, clean, lost, updates>>

LaunchWithSystem(s, k) ==
  /\ Idle(s)
  /\ EarlyTask \/ ~clean
  /\ system' = k /\ need_update' = TRUE
  /\ slot' = [t \in Slots |->
                IF t = s THEN [slot[t] EXCEPT !.state = "prompt"] ELSE Released(slot[t])]
  /\ UNCHANGED <<kv, wkv, clean, lost, updates>>

(* process_single_task of a cancellation.                                  *)
Cancel(s) ==
  /\ Busy(s)
  /\ slot' = [slot EXCEPT ![s] = Released(@)]
  /\ UNCHANGED <<kv, wkv, system, need_update, clean, lost, updates>>

(* process_single_task of a slot erase action: nothing is sent.            *)
Erase(s) ==
  /\ CanErase /\ Idle(s)
  /\ EarlyTask \/ ~clean
  /\ kv' = kv_cache_seq_rm(kv, s + 1, -1, -1)
  /\ slot' = [slot EXCEPT ![s].cached = 0]
  /\ UNCHANGED <<wkv, system, need_update, clean, lost, updates>>

UpdateBusy ==
  \E common \in [Slots -> 0..SlotCtx-2], len \in [Slots -> PromptLens] :
     /\ \A s \in Slots :
          IF slot[s].state = "prompt" /\ slot[s].len = 0
          THEN common[s] < len[s] /\ common[s] <= slot[s].cached
          ELSE common[s] = 0 /\ len[s] = Min(PromptLens)
     /\ UpdateSlots(common, len)

Next ==
  \/ AllIdle
  \/ UpdateBusy
  \/ \E s \in Slots : \/ Launch(s)
                      \/ \E k \in NewSystems : LaunchWithSystem(s, k)
                      \/ Cancel(s)
                      \/ Erase(s)

(* While a slot is busy a NEXT_RESPONSE task keeps the loop going.         *)
Updated == (\E s \in Slots : Busy(s)) /\ updates' = 1 - updates

Spec == Init /\ [][Next]_vars /\ WF_updates(Updated)
-----------------------------------------------------------------------------
CellsAt(c, q, p) == {x \in Cell : q \in c.cells[x].seq /\ c.cells[x].pos = p}
Positions(c, q)  == {<<x, c.cells[x].pos>> : x \in {y \in Cell : q \in c.cells[y].seq}}

(* Slots that have a prompt, or the beginning of it, in the cache.         *)
Started(s) == slot[s].state = "run" \/ slot[s].len > 0

(* A slot attends to each token before the next exactly once: those it     *)
(* reused, those of the system prompt, those that were shifted and those   *)
(* it decoded, in one batch or several; and to nothing else.  A decode     *)
(* that fails, for whatever slots, leaves this true of all slots that had  *)
(* no token in it.                                                         *)
SlotsAreWhole ==
  \A s \in Slots \ lost : Started(s) =>
    LET end == system + slot[s].n_past
    IN  /\ \A p \in 0..end-1 : Cardinality(CellsAt(kv, s + 1, p)) = 1
        /\ Cardinality(Positions(kv, s + 1)) = end

(* Whatever is cleared, erased or replaced between its tasks, and whatever *)
(* could not be decoded, a slot attends to no position twice and to none   *)
(* from its end on.                                                        *)
NoStrayTokens ==
  \A s \in Slots : Started(s) =>
    LET mine == Positions(kv, s + 1)
    IN  /\ \A t, u \in mine : t[2] = u[2] => t = u
        /\ \A t \in mine : t[2] < system + slot[s].n_past

(* A slot attends to the same cells and positions on the worker as on the  *)
(* master, whatever the two call its sequence, also after a batch that     *)
(* failed and was tried again in smaller pieces on both.                   *)
SlotsAgree ==
  \A s \in Slots : Positions(kv, s + 1) = Positions(wkv, s)

(* The server does not end by an exception.                                *)
NeverThrows == \A s \in Slots : slot[s].state # "ended"

(* A prompt that needs several batches is finished, or given up, if the    *)
(* slots before its own have no new prompts for ever: those are put into   *)
(* the batch first.                                                        *)
PromptsEnd ==
  \A s \in Slots :
    <>[](\A t \in Slots : t < s => slot[t].state # "prompt")
      => (slot[s].state = "prompt" ~> slot[s].state # "prompt")

=============================================================================
