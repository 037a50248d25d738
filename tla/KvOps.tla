------------------------------- MODULE KvOps --------------------------------
(***************************************************************************)
(* The cell metadata of one device's KV cache (struct llama_kv_cache) and  *)
(* the functions of src/llama.cpp that change it, as operators from cache  *)
(* to cache.  This is the cache of a Transformer-like model; the recurrent *)
(* branch of each function is left out, because llama_build_graph aborts   *)
(* for every recurrent architecture.                                       *)
(*                                                                         *)
(* A ubatch is a sequence of tokens [pos |-> position, seq |-> the set of  *)
(* sequences the token belongs to].                                        *)
(***************************************************************************)
EXTENDS Integers, Sequences, FiniteSets, FiniteSetsExt, Functions

CONSTANTS Size,        (* number of cells, kv_self.size                      *)
          Pad,         (* llama_kv_cache_get_padding: 32, or 256             *)
          MinDefrag,   (* below this kv_self.n nothing is defragmented: 128  *)
          Thold,       (* defrag_thold in percent; negative: never defrag    *)
          MaxMoves     (* block moves one defragmentation may make           *)

ASSUME KvAssumption ==
  /\ Size \in Nat \ {0} /\ Pad \in Nat \ {0} /\ MinDefrag \in Nat
  /\ Thold \in Int /\ MaxMoves \in Nat \ {0}

Cell == 0..Size-1

EmptyCell == [pos |-> -1, delta |-> 0, seq |-> {}]

InitCache ==
  [head |-> 0, used |-> 0, has_shift |-> FALSE, do_defrag |-> FALSE,
   n |-> 0, cells |-> [i \in Cell |-> EmptyCell]]

Live(c) == {i \in Cell : c.cells[i].seq # {}}

(* p0 < 0 stands for 0 and p1 < 0 for the largest position.                *)
InRange(p, p0, p1) == p >= 0 /\ p >= p0 /\ (p1 < 0 \/ p < p1)
EmptyRange(p0, p1) == p1 >= 0 /\ p1 = (IF p0 < 0 THEN 0 ELSE p0)

(* The search for a slot starts at the first cell an operation freed, if   *)
(* that is before the present head.                                        *)
HeadAfterFreeing(c, freed) ==
  IF freed # {} /\ Min(freed) < c.head THEN Min(freed) ELSE c.head

(* The cells an operation on sequence s (any sequence if s < 0) selects.   *)
Selected(c, s, p0, p1) ==
  {i \in Cell : /\ InRange(c.cells[i].pos, p0, p1)
                /\ s < 0 \/ s \in c.cells[i].seq}
-----------------------------------------------------------------------------
(* Deltas survive: only the next update resets them.                       *)
kv_cache_clear(c) ==
  [c EXCEPT !.head = 0, !.used = 0,
            !.cells = [i \in Cell |-> [@[i] EXCEPT !.pos = -1, !.seq = {}]]]

kv_cache_seq_rm(c, s, p0, p1) ==
  LET hit     == Selected(c, s, p0, p1)
      left(i) == IF s < 0 THEN {} ELSE c.cells[i].seq \ {s}
      freed   == {i \in hit : left(i) = {}}
  IN  [c EXCEPT
         !.head  = HeadAfterFreeing(c, freed),
         !.used  = @ - Cardinality(freed),
         !.cells = [i \in Cell |->
            IF i \notin hit THEN @[i]
            ELSE [@[i] EXCEPT !.seq = left(i),
                              !.pos = IF i \in freed THEN -1 ELSE c.cells[i].pos]]]

kv_cache_seq_cp(c, src, dst, p0, p1) ==
  IF src = dst THEN c
  ELSE [c EXCEPT
          !.head  = 0,
          !.cells = [i \in Cell |->
             IF src \in c.cells[i].seq /\ InRange(c.cells[i].pos, p0, p1)
             THEN [@[i] EXCEPT !.seq = c.cells[i].seq \union {dst}] ELSE @[i]]]

kv_cache_seq_keep(c, s) ==
  LET other == {i \in Cell : s \notin c.cells[i].seq}
  IN  [c EXCEPT
         !.head  = HeadAfterFreeing(c, other),
         !.used  = @ - Cardinality({i \in other : c.cells[i].pos >= 0}),
         !.cells = [i \in Cell |->
            IF i \in other THEN [@[i] EXCEPT !.pos = -1, !.seq = {}]
                           ELSE [@[i] EXCEPT !.seq = {s}]]]

(* Faulty variant: a cell shifted below position 0 is not freed.           *)
AddKeepsNegative(c, s, p0, p1, d) ==
  LET hit == {i \in Cell : s \in c.cells[i].seq /\ InRange(c.cells[i].pos, p0, p1)}
  IN  IF d = 0 \/ EmptyRange(p0, p1) THEN c
      ELSE [c EXCEPT
              !.has_shift = @ \/ hit # {},
              !.head  = 0,
              !.cells = [i \in Cell |->
                 IF i \in hit THEN [@[i] EXCEPT !.pos = @ + d, !.delta = @ + d]
                              ELSE @[i]]]

(* A cell whose position becomes negative is freed.                        *)
kv_cache_seq_add(c, s, p0, p1, d) ==
  LET hit   == {i \in Cell : s \in c.cells[i].seq /\ InRange(c.cells[i].pos, p0, p1)}
      freed == {i \in hit : c.cells[i].pos + d < 0}
  IN  IF d = 0 \/ EmptyRange(p0, p1) THEN c
      ELSE [c EXCEPT
              !.has_shift = @ \/ hit # {},
              !.head  = IF freed # {} THEN Min(freed) ELSE 0,
              !.used  = @ - Cardinality(freed),
              !.cells = [i \in Cell |->
                 CASE i \in freed ->
                        [pos |-> -1, delta |-> @[i].delta + d, seq |-> {}]
                   [] i \in hit \ freed ->
                        [@[i] EXCEPT !.pos   = c.cells[i].pos + d,
                                     !.delta = c.cells[i].delta + d]
                   [] OTHER -> @[i]]]

kv_cache_seq_div(c, s, p0, p1, d) ==
  LET hit == {i \in Cell : s \in c.cells[i].seq /\ InRange(c.cells[i].pos, p0, p1)}
  IN  IF d = 1 \/ EmptyRange(p0, p1) THEN c
      ELSE [c EXCEPT
              !.has_shift = @ \/ hit # {},
              !.cells = [i \in Cell |->
                 IF i \in hit
                 THEN LET p == c.cells[i].pos
                      IN  [@[i] EXCEPT !.pos   = p \div d,
                                       !.delta = c.cells[i].delta + p \div d - p]
                 ELSE @[i]]]
-----------------------------------------------------------------------------
(* llama_kv_cache_defrag_internal.  Holes are the empty cells below the    *)
(* number of used cells.  Each maximal run of holes is filled, in order,   *)
(* with the last live cells not yet moved.  Adjacent cells that move into  *)
(* one run are one block move; after MaxMoves block moves it stops.        *)
CellMax(c) == IF Live(c) = {} THEN 0 ELSE Max(Live(c)) + 1

Holes(c)   == {i \in 0..c.used-1 : c.cells[i].seq = {}}
Movable(c) == {i \in Live(c) : i >= c.used}

RunOf(holes, i) == {j \in holes : (i..j) \union (j..i) \subseteq holes}

Nth(S, k) == CHOOSE x \in S : Cardinality({y \in S : y < x}) = k

(* The live cell that fills hole i: its run takes as many cells as it has  *)
(* holes, in ascending order, from the end of those the earlier runs left. *)
Filler(holes, movable, i) ==
  LET run  == RunOf(holes, i)
      upTo == {j \in holes : \E k \in run : j <= k}
  IN  Nth(movable, Cardinality(movable) - Cardinality(upTo)
                     + Cardinality({j \in run : j < i}))

(* For a function from holes to fillers: the holes a block move starts at. *)
BlockStarts(filler) ==
  {i \in DOMAIN filler : i - 1 \in DOMAIN filler => filler[i] # filler[i - 1] + 1}

(* The holes that are filled before the limit on moves is reached.         *)
Filled(filler, starts) ==
  {i \in DOMAIN filler : Cardinality({j \in starts : j <= i}) <= MaxMoves}

WithinLimit(filler) == Restrict(filler, Filled(filler, BlockStarts(filler)))

AllMoves(holes, movable) == [i \in holes |-> Filler(holes, movable, i)]

(* The function from each cell that is filled to the cell that moves there.*)
Moves(c) == WithinLimit(AllMoves(Holes(c), Movable(c)))

Moved(c, moves, emptied) ==
  [c EXCEPT !.do_defrag = FALSE,
            !.head  = IF moves = <<>> THEN @ ELSE c.used,
            !.cells = [i \in Cell |-> CASE i \in DOMAIN moves -> @[moves[i]]
                                       [] i \in emptied      -> EmptyCell
                                       [] OTHER              -> @[i]]]

(* Faulty variant: the moved cell is not cleared.                          *)
DefragLeavesSource(c) == Moved(c, Moves(c), {})

MoveCells(c, moves) == Moved(c, moves, Range(moves))

kv_cache_defrag(c) == MoveCells(c, Moves(c))

(* GGML_ASSERT(nf == nh) in the search for cells that fill a hole.         *)
DefragAborts(c) == Cardinality(Movable(c)) < Cardinality(Holes(c))

(* Faulty variant: the deltas are left behind and applied again later.     *)
ShiftKeepsDelta(c) == [c EXCEPT !.has_shift = FALSE]

KShift(c) ==
  IF c.has_shift
  THEN [c EXCEPT !.has_shift = FALSE,
                 !.cells = [i \in Cell |-> [@[i] EXCEPT !.delta = 0]]]
  ELSE c

(* llama_kv_cache_update: pending shift first, then pending defrag.        *)
DefragIfAsked(c) == IF c.do_defrag THEN kv_cache_defrag(c) ELSE c

kv_cache_update(c) == DefragIfAsked(KShift(c))
-----------------------------------------------------------------------------
(* Faulty variant: the search does not wrap around.                        *)
SearchStopsEarly(c, n) ==
  LET try[h \in 0..Size] ==
        LET busy == {i \in h..h+n-1 : c.cells[i].pos >= 0}
        IN  IF h + n > Size THEN [found |-> FALSE, head |-> 0]
            ELSE IF busy = {} THEN [found |-> TRUE, head |-> h]
            ELSE try[Min(busy) + 1]
  IN  try[c.head]

(* llama_kv_cache_find_slot: from the head, wrapping round at the end, to  *)
(* the first run of n free cells.  The search is at cell w[1] when it has  *)
(* tested w[2] cells; it is back at the start when it has tested them all. *)
Tries == {w \in (0..Size) \X (0..2*Size) : w[1] = 0 \/ w[2] < Size}

Search(c, n) ==
  LET try[w \in Tries] ==
        LET h == w[1]
            t == w[2]
            busy == {i \in h..h+n-1 : c.cells[i].pos >= 0}
        IN  IF h + n > Size THEN try[<<0, t + Size - h>>]
            ELSE IF busy = {} THEN [found |-> TRUE, head |-> h]
            ELSE LET h2 == Min(busy) + 1
                     t2 == t + h2 - h
                 IN  IF t2 >= Size THEN [found |-> FALSE, head |-> h2]
                                   ELSE try[<<h2, t2>>]
  IN  IF n > Size THEN [found |-> FALSE, head |-> c.head] ELSE try[<<c.head, 0>>]

Occupy(c, h, u) ==
  [c EXCEPT !.head  = h,
            !.used  = @ + Len(u),
            !.cells = [i \in Cell |->
               IF i \in h..h+Len(u)-1
               THEN [@[i] EXCEPT !.pos = u[i - h + 1].pos,
                                 !.seq = c.cells[i].seq \union u[i - h + 1].seq]
               ELSE @[i]]]

(* The cache side of one turn of the ubatch loop of llama_decode_internal: *)
(* update, restart the search if there is enough room before the head,     *)
(* find a slot, round n up, and move the head past the slot.               *)
StartSearch(c, n) ==
  IF c.head > c.used + 2 * n THEN [c EXCEPT !.head = 0] ELSE c

AdvanceHead(c, n) ==
  [c EXCEPT !.head = IF @ + n >= Size THEN 0 ELSE @ + n]

Padded(c) ==
  LET up == ((CellMax(c) + Pad - 1) \div Pad) * Pad
  IN  Min({Size, Max({Pad, up})})

WithPadding(c) == [c EXCEPT !.n = Padded(c)]

PlaceIn(c, slot, u) ==
  [ok |-> slot.found, slot |-> slot.head,
   cache |-> IF slot.found
             THEN AdvanceHead(WithPadding(Occupy(c, slot.head, u)), Len(u))
             ELSE [c EXCEPT !.head = slot.head]]

PlaceFrom(c, u) == PlaceIn(c, Search(c, Len(u)), u)

Place(c, u) == PlaceFrom(StartSearch(kv_cache_update(c), Len(u)), u)

(* The end of llama_decode_internal: queue a defragmentation.              *)
FinishDecode(c) ==
  IF Thold >= 0 /\ c.n >= MinDefrag /\ (c.n - c.used) * 100 > Thold * c.n
  THEN [c EXCEPT !.do_defrag = TRUE] ELSE c

=============================================================================
