------------------------------ MODULE LayerMap ------------------------------
(***************************************************************************)
(* How prima.cpp deals the layers of a model to the devices of the ring.   *)
(*                                                                         *)
(* A window vector w gives every rank r \in 0..n-1 its n_layer_window.     *)
(* Layers are dealt in cycles: rank 1 takes the first w[1] layers, rank 2  *)
(* the next w[2], ..., rank 0 the last w[0] layers of the cycle, and the   *)
(* next cycle starts again at rank 1 (README: "Rank 1 starts from layer    *)
(* 0").  The operators are the static functions of src/llama.cpp, with the *)
(* world size n, the rank r and the windows w as their arguments.          *)
(***************************************************************************)
EXTENDS Integers

(* The running sums of a loop that adds f[1], f[2], ...                    *)
Sums(f) == LET sum[j \in Nat] == IF j = 0 THEN 0 ELSE sum[j - 1] + f[j] IN sum

(* The for loop over all ranks.                                            *)
CycleSize(n, w) == Sums([j \in 1..n |-> w[j - 1]])[n]

(* The layers dealt before those of rank r in a cycle: to 1..r-1, to all   *)
(* the others before rank 0.                                               *)
EarlierInCycle(n, r, w) == Sums(w)[IF r = 0 THEN n - 1 ELSE r - 1]

(* The while loop deals windows to ranks 1, 2, ..., n-1, 0, 1, ... until   *)
(* the running sum passes layer l; m visits of the loop are enough when m  *)
(* is n * (l + 1).                                                         *)
Cumulative(n, w) == Sums([j \in Nat |-> w[j % n]])

OwnerRank(l, n, w) ==
  LET cum == Cumulative(n, w)
  IN  (CHOOSE j \in 1..n * (l + 1) : cum[j - 1] <= l /\ l < cum[j]) % n

this_layer_is_mine(l, n, r, w) == OwnerRank(l, n, w) = r

(* A variant that forgets the layers of the earlier cycles.                *)
LocalIdWithinCycle(l, n, r, w) ==
  IF this_layer_is_mine(l, n, r, w)
  THEN (l % CycleSize(n, w)) - EarlierInCycle(n, r, w)
  ELSE -1

(* Index of the layer in this rank's model.layers, buft_layer, k_l, v_l.   *)
map_layer_to_local_id(l, n, r, w) ==
  IF this_layer_is_mine(l, n, r, w)
  THEN   (l % CycleSize(n, w)) - EarlierInCycle(n, r, w)
       + (l \div CycleSize(n, w)) * w[r]
  ELSE -1

(* A variant that forgets the input sub-graph of rank 0.                   *)
SubgraphIdNoInput(l, n, r, w) ==
  IF this_layer_is_mine(l, n, r, w) THEN l \div CycleSize(n, w) ELSE -1

(* Index of the sub-graph (and of the backend scheduler) of the layer.     *)
map_layer_to_subgf_id(l, n, r, w) ==
  IF this_layer_is_mine(l, n, r, w)
  THEN (l \div CycleSize(n, w)) + (IF r = 0 THEN 1 ELSE 0)
  ELSE -1

(* First layer of the node this rank sends its output to, as the code      *)
(* computes it for the RMS-aware compression of that output.               *)
get_next_node_first_layer_id(n, r, w) == Sums([j \in 1..r |-> w[j - 1]])[r]

=============================================================================
