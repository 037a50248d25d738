------------------------------ MODULE KvCache -------------------------------
(***************************************************************************)
(* The KV cache of one device between its callers (llama_kv_cache_* and    *)
(* llama_decode) and its two halves: the cell metadata of KvOps and the    *)
(* tensor rows that hold the keys and values of each cell.                 *)
(*                                                                         *)
(* A row is [id |-> whose keys and values it holds, rot |-> the position   *)
(* its key is rotated to].  Rows of free cells are never read (KQ_mask)    *)
(* and count as NoRow.                                                     *)
(***************************************************************************)
EXTENDS KvOps

CONSTANTS Ids,        (* identities of the stored keys and values; enough   *)
          NoId,       (* for all cells; NoId is none of them                *)
          SeqIds,     (* sequence ids of the callers                         *)
          MaxPos,     (* bound on positions                                  *)
          Ranges,     (* the pairs <<p0, p1>> the callers pass               *)
          Batches     (* batches: non-empty sequences of ubatches            *)

ASSUME IdsAssumption == Cardinality(Ids) >= Size /\ NoId \notin Ids

ASSUME CallsAssumption ==
  /\ SeqIds \subseteq Nat /\ MaxPos \in Nat
  /\ Ranges \subseteq Int \X Int
  /\ \A b \in Batches :
       b # <<>> /\ b \in Seq(Seq([pos : Nat, seq : (SUBSET Nat) \ {{}}]) \ {<<>>})

NoRow == [id |-> NoId, rot |-> -1]

VARIABLES cache,      (* the metadata, a record of KvOps                     *)
          row,        (* the contents of the K/V tensors                     *)
          todo,       (* ubatches the running llama_decode still has to do   *)
          ret         (* what the last llama_decode returned                 *)

vars == <<cache, row, todo, ret>>

Init ==
  /\ cache = InitCache
  /\ row = [i \in Cell |-> NoRow]
  /\ todo = <<>>
  /\ ret = 0

RowsOf(c, r) == [i \in Cell |-> IF i \in Live(c) THEN r[i] ELSE NoRow]

(* A metadata operation of a caller; only positions within the bound.      *)
Call(c) ==
  /\ todo = <<>>
  /\ \A i \in Cell : c.cells[i].pos <= MaxPos
  /\ cache' = c
  /\ row' = RowsOf(c, row)
  /\ UNCHANGED <<todo, ret>>

Clear == Call(kv_cache_clear(cache))

SeqRm(s, p0, p1) == Call(kv_cache_seq_rm(cache, s, p0, p1))

SeqCp(src, dst, p0, p1) == Call(kv_cache_seq_cp(cache, src, dst, p0, p1))

SeqKeep(s) == Call(kv_cache_seq_keep(cache, s))

SeqAdd(s, p0, p1, d) == Call(kv_cache_seq_add(cache, s, p0, p1, d))

SeqDiv(s, p0, p1, d) == Call(kv_cache_seq_div(cache, s, p0, p1, d))

(* llama_kv_cache_defrag: only a request, served by the next update.       *)
Defrag == Call([cache EXCEPT !.do_defrag = TRUE])

(* llama_decode splits the batch into ubatches.                            *)
Decode(b) ==
  /\ todo = <<>>
  /\ todo' = b
  /\ UNCHANGED <<cache, row, ret>>

(* K-shift rotates every key by its cell's delta.                          *)
Turned ==
  [i \in Cell |-> IF i \in Live(cache) /\ cache.has_shift
                  THEN [row[i] EXCEPT !.rot = @ + cache.cells[i].delta]
                  ELSE row[i]]

(* Then the defragmentation copies rows the way it moves the cells.        *)
Relocated(moves) ==
  [i \in Cell |-> Turned[IF i \in DOMAIN moves THEN moves[i] ELSE i]]

(* Faulty variant: the defragmentation moves the metadata only.            *)
RowsStay == RowsOf(kv_cache_update(cache), Turned)

(* The rows after llama_kv_cache_update.                                   *)
UpdatedRows ==
  RowsOf(kv_cache_update(cache),
         Relocated(IF cache.do_defrag THEN Moves(KShift(cache)) ELSE <<>>))

(* An identity no row holds for each token of a ubatch.                    *)
FreshIds(rows, u) ==
  {f \in [DOMAIN u -> Ids \ {rows[i].id : i \in Cell}] : IsInjective(f)}

(* One turn of the loop; computing the graph stores each token's key,      *)
(* rotated to its position, and value in the cell p.slot found for it.     *)
Stores(u, p, rows) ==
  /\ p.ok
  /\ \E f \in FreshIds(rows, u) :
       row' = [i \in Cell |->
         IF i \in p.slot..p.slot+Len(u)-1
         THEN [id |-> f[i - p.slot + 1], rot |-> u[i - p.slot + 1].pos]
         ELSE rows[i]]
  /\ todo' = Tail(todo)
  /\ cache' = IF Tail(todo) = <<>> THEN FinishDecode(p.cache) ELSE p.cache
  /\ ret' = 0

NoSlot(p, rows) ==
  /\ ~p.ok
  /\ row' = rows
  /\ todo' = <<>>
  /\ cache' = p.cache
  /\ ret' = 1

Turn(u, p, rows) == Stores(u, p, rows) \/ NoSlot(p, rows)

Ubatch ==
  /\ todo # <<>>
  /\ Turn(Head(todo), Place(cache, Head(todo)), UpdatedRows)

Next ==
  \/ Clear
  \/ \E s \in SeqIds \union {-1}, r \in Ranges : SeqRm(s, r[1], r[2])
  \/ \E src, dst \in SeqIds, r \in Ranges : SeqCp(src, dst, r[1], r[2])
  \/ \E s \in SeqIds : SeqKeep(s)
  \/ \E s \in SeqIds, r \in Ranges, d \in -MaxPos..MaxPos : SeqAdd(s, r[1], r[2], d)
  \/ \E s \in SeqIds, r \in Ranges, d \in 2..MaxPos+1 : SeqDiv(s, r[1], r[2], d)
  \/ Defrag
  \/ \E b \in Batches : Decode(b)
  \/ Ubatch

Spec == Init /\ [][Next]_vars
-----------------------------------------------------------------------------
(* kv_self.used is the number of cells in use after any sequence of calls; *)
(* defragmentation aborts the process when it is not ("this can only       *)
(* happen if `n_used` is not accurate, which would be a bug").  And the    *)
(* two marks of a free cell agree: find_slot looks at pos, defrag at the   *)
(* sequence set, and neither may take a cell the other counts as used.     *)
UsedIsAccurate ==
  /\ cache.used = Cardinality(Live(cache))
  /\ ~DefragAborts(cache)
  /\ \A i \in Cell : (cache.cells[i].pos >= 0) = (i \in Live(cache))

(* The keys catch up with the positions: what a key is rotated to plus the *)
(* shift still pending is the token's position, and a pending shift is     *)
(* never forgotten or applied to a token stored after it was asked for.    *)
KeysFollowPositions ==
  \A i \in Live(cache) :
    /\ row[i].rot + cache.cells[i].delta = cache.cells[i].pos
    /\ cache.cells[i].delta # 0 => cache.has_shift

(* No two cells in use hold the same token's keys and values.              *)
RowsAreDistinct ==
  \A i, j \in Live(cache) : i # j => row[i].id # row[j].id

(* llama_decode only reports a full cache when no run of free cells is     *)
(* long enough, wherever the search started.                               *)
FailsOnlyWithoutRoom ==
  [][ todo # <<>> /\ ret' = 1 =>
        LET n == Len(Head(todo))
        IN  \A h \in 0..Size-n : \E i \in h..h+n-1 : cache'.cells[i].pos >= 0 ]_vars

(* The cache is a set of tokens: shifts, defragmentation and the search    *)
(* for slots are invisible in what is stored.                              *)
Stored ==
  {[id |-> row[i].id, pos |-> cache.cells[i].pos, seq |-> cache.cells[i].seq]
     : i \in Live(cache)}

UbatchesOf == UNION {{b[i] : i \in DOMAIN b} : b \in Batches}

Store == INSTANCE TokenStore
           WITH store <- Stored, Ubatches <- UbatchesOf, Bound <- MaxPos

StoresTokens == Store!Spec

=============================================================================
