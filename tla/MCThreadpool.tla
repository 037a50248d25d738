---------------------------- MODULE MCThreadpool ----------------------------
(* Instances of Threadpool.                                                *)
EXTENDS Threadpool

ThreeNodes == <<"mul_mat", "mul_mat", "split">>
SplitNodes == <<"split", "split">>

=============================================================================
