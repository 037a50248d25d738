----------------------------- MODULE TokenStore -----------------------------
(***************************************************************************)
(* What a KV cache promises its callers: a set of tokens, each at a        *)
(* position and in one or more sequences, and nothing about cells, holes,  *)
(* shifts that are still to be applied, or defragmentation.                *)
(***************************************************************************)
EXTENDS Integers, Sequences, FiniteSets

CONSTANTS Ids,      (* identities of stored tokens                           *)
          SeqIds,   (* sequence ids                                          *)
          Ubatches, (* the sequences of [pos, seq] tokens that may be added  *)
          Ranges,   (* position ranges <<p0, p1>>                             *)
          Bound     (* shifts are within -Bound..Bound                       *)

VARIABLE store      (* a set of [id, pos, seq] records                       *)

In(t, p0, p1) == t.pos >= p0 /\ (p1 < 0 \/ t.pos < p1)

Init == store = {}

Clear == store' = {}

(* Every sequence if s is negative.                                        *)
Remove(s, p0, p1) ==
  LET rest(t) == IF ~In(t, p0, p1) THEN t.seq
                 ELSE IF s < 0 THEN {} ELSE t.seq \ {s}
  IN  store' = {[t EXCEPT !.seq = rest(t)] : t \in {x \in store : rest(x) # {}}}

Copy(src, dst, p0, p1) ==
  store' = {IF src \in t.seq /\ In(t, p0, p1)
            THEN [t EXCEPT !.seq = @ \union {dst}] ELSE t : t \in store}

Keep(s) == store' = {[t EXCEPT !.seq = {s}] : t \in {x \in store : s \in x.seq}}

(* A token that leaves the sequence's beginning is gone.                   *)
Shift(s, p0, p1, d) ==
  LET moved(t) == IF s \in t.seq /\ In(t, p0, p1) THEN t.pos + d ELSE t.pos
  IN  store' = {[t EXCEPT !.pos = moved(t)] : t \in {x \in store : moved(x) >= 0}}

Divide(s, p0, p1, d) ==
  store' = {IF s \in t.seq /\ In(t, p0, p1) THEN [t EXCEPT !.pos = @ \div d] ELSE t
              : t \in store}

(* The tokens of a ubatch, under identities no stored token has.           *)
Add(u) ==
  \E id \in [DOMAIN u -> Ids \ {t.id : t \in store}] :
    /\ \A i, j \in DOMAIN u : i # j => id[i] # id[j]
    /\ store' = store \union
         {[id |-> id[i], pos |-> u[i].pos, seq |-> u[i].seq] : i \in DOMAIN u}

Next ==
  \/ Clear
  \/ \E s \in SeqIds \union {-1}, r \in Ranges : Remove(s, r[1], r[2])
  \/ \E s \in SeqIds, d \in SeqIds, r \in Ranges : Copy(s, d, r[1], r[2])
  \/ \E s \in SeqIds : Keep(s)
  \/ \E s \in SeqIds, r \in Ranges, d \in -Bound..Bound : Shift(s, r[1], r[2], d)
  \/ \E s \in SeqIds, r \in Ranges, d \in 2..Bound+1 : Divide(s, r[1], r[2], d)
  \/ \E u \in Ubatches : Add(u)

Spec == Init /\ [][Next]_store

=============================================================================
