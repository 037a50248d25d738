----------------------------- MODULE GraphSplit -----------------------------
(***************************************************************************)
(* Every rank walks over all the layers of the model with the functions of *)
(* LayerMap and builds what it needs for its own ones: one K tensor per    *)
(* layer (llama_kv_cache_init) and the list of sub-graphs that             *)
(* llama_decode_internal runs one after the other, receiving and sending   *)
(* in between (build_llama).  Both walks go over the layers in the same    *)
(* order and are one walk here.                                            *)
(*                                                                         *)
(* A sub-graph is the sequence of the layers in it.  The input embedding   *)
(* and the output of rank 0 are sub-graphs with no layer.                  *)
(***************************************************************************)
EXTENDS LayerMap, Sequences

CONSTANTS MaxWorld,    (* largest n_world                                    *)
          MaxWindow,   (* largest n_layer_window of a rank                   *)
          MaxLayers    (* largest n_layer                                    *)

ASSUME BoundsAssumption ==
  /\ MaxWorld  \in Nat \ {0}
  /\ MaxWindow \in Nat \ {0}
  /\ MaxLayers \in Nat \ {0}

VARIABLES
  n_world, n_layer, window, my_rank,   (* the configuration, never changed   *)
  il,                                  (* the layer the walk is at           *)
  sub_gf,                              (* layers of the open sub-graph       *)
  sub_gfs,                             (* the finished sub-graphs            *)
  k_l,                                 (* the layers that own a K/V tensor   *)
  done                                 (* the walk is over                   *)

config == <<n_world, n_layer, window, my_rank>>
vars   == <<n_world, n_layer, window, my_rank, il, sub_gf, sub_gfs, k_l, done>>

Mine(l)      == this_layer_is_mine(l, n_world, my_rank, window)
LocalId(l)   == map_layer_to_local_id(l, n_world, my_rank, window)
SubgraphId(l) == map_layer_to_subgf_id(l, n_world, my_rank, window)
NextRank     == (my_rank + 1) % n_world

(* A device alone owns every layer; in a larger world every rank has a     *)
(* window of its own.                                                      *)
Init ==
  /\ n_world \in 1..MaxWorld
  /\ n_layer \in 1..MaxLayers
  /\ window  \in IF n_world = 1 THEN {[r \in {0} |-> n_layer]}
                                ELSE [0..n_world-1 -> 1..MaxWindow]
  /\ my_rank \in 0..n_world-1
  /\ il = 0
  /\ sub_gf = <<>>
  /\ sub_gfs = IF my_rank = 0 THEN << <<>> >> ELSE <<>>
  /\ k_l = <<>>
  /\ done = FALSE

(* Faulty variant of SkipLayer: the sub-graph stays open across a layer of *)
(* another rank.                                                           *)
SkipKeepsOpen ==
  /\ il < n_layer
  /\ ~Mine(il)
  /\ il' = il + 1
  /\ UNCHANGED <<config, sub_gf, sub_gfs, k_l, done>>

(* A layer of another rank closes the open sub-graph.                      *)
SkipLayer ==
  /\ il < n_layer
  /\ ~Mine(il)
  /\ sub_gfs' = IF sub_gf = <<>> THEN sub_gfs ELSE Append(sub_gfs, sub_gf)
  /\ sub_gf' = <<>>
  /\ il' = il + 1
  /\ UNCHANGED <<config, k_l, done>>

TakeLayer ==
  /\ il < n_layer
  /\ Mine(il)
  /\ sub_gf' = Append(sub_gf, il)
  /\ k_l' = Append(k_l, il)
  /\ il' = il + 1
  /\ UNCHANGED <<config, sub_gfs, done>>

(* After the last layer: the open sub-graph, and on rank 0 the output.     *)
Finish ==
  /\ il = n_layer
  /\ ~done
  /\ sub_gfs' = (IF sub_gf = <<>> THEN sub_gfs ELSE Append(sub_gfs, sub_gf))
                  \o (IF my_rank = 0 THEN << <<>> >> ELSE <<>>)
  /\ sub_gf' = <<>>
  /\ done' = TRUE
  /\ UNCHANGED <<config, il, k_l>>

Next == SkipLayer \/ TakeLayer \/ Finish

Spec == Init /\ [][Next]_vars
-----------------------------------------------------------------------------
(* The tensors of a layer are found where they were put: the arithmetic of *)
(* map_layer_to_local_id gives the index at which the walk pushed the      *)
(* layer's K and V tensors, also in the last, incomplete cycle.            *)
LocalIdsFindTheLayer ==
  \A i \in DOMAIN k_l : LocalId(k_l[i]) = i - 1

(* A layer is scheduled by the scheduler of the sub-graph it is in:        *)
(* map_layer_to_subgf_id counts the sub-graphs the way build_llama makes   *)
(* them.                                                                   *)
SubgraphIdsMatch ==
  \A s \in DOMAIN sub_gfs : \A i \in DOMAIN sub_gfs[s] :
     SubgraphId(sub_gfs[s][i]) = s - 1

(* The ring passes the hidden state to the device that needs it: a         *)
(* sub-graph holds consecutive layers, and the layer after its last one is *)
(* owned by the next rank, which starts a sub-graph with it.               *)
OutputGoesToNextRank ==
  \A s \in DOMAIN sub_gfs : sub_gfs[s] # <<>> =>
    LET g    == sub_gfs[s]
        last == g[Len(g)]
    IN  /\ \A i \in 1..Len(g)-1 : g[i + 1] = g[i] + 1
        /\ last + 1 < n_layer =>
             OwnerRank(last + 1, n_world, window) = NextRank

(* The comment above get_next_node_first_layer_id: it is the first layer   *)
(* of the next node, whose norm weights steer the compression of what is   *)
(* sent to it.                                                             *)
NextNodeFirstLayer ==
  done /\ (\E l \in 0..n_layer-1 : OwnerRank(l, n_world, window) = NextRank) =>
    LET mine == {l \in 0..n_layer-1 : OwnerRank(l, n_world, window) = NextRank}
    IN  get_next_node_first_layer_id(n_world, my_rank, window)
          = CHOOSE l \in mine : \A m \in mine : l <= m

(* build_defrag moves rows in kv_self.k_l[il] for every il < n_layer; each *)
(* of them must be a tensor this rank has.                                 *)
DefragTensors == 0..n_layer-1

DefragStaysInCache ==
  done => DefragTensors \subseteq 0..Len(k_l)-1

=============================================================================
