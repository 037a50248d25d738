------------------------------ MODULE Batches -------------------------------
(***************************************************************************)
(* The two lengths at which batches are cut, which the loop over one batch *)
(* (BatchRetry) and the slots of the server (ServerSlots) share: the       *)
(* server gives llama_decode at most NBatch tokens at a time, and          *)
(* llama_decode places at most NUbatch of them in the KV cache at a time.  *)
(***************************************************************************)
EXTENDS KvOps

CONSTANTS NBatch,    (* llama_n_batch                                        *)
          NUbatch    (* llama_n_ubatch                                       *)

ASSUME BatchAssumption ==
  /\ NBatch \in Nat \ {0}
  /\ NUbatch \in 1..NBatch

=============================================================================
