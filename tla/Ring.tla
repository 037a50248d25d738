-------------------------------- MODULE Ring --------------------------------
(***************************************************************************)
(* The ring of devices that evaluate one model together: what the master   *)
(* (rank 0) and the workers do in llama_decode_internal, in the cache      *)
(* operations that are sent along the ring, in the warm-up run and at      *)
(* shutdown.                                                               *)
(*                                                                         *)
(* An ubatch passes through sub-graphs 0, 1, ..., Windows + 1.  Number 0   *)
(* is the input embedding and Windows + 1 the output, both on the master;  *)
(* the others are the windows of layers in the order of the layers.        *)
(* GraphSplit shows that the windows are dealt to the ranks in turn, so    *)
(* sub-graph g belongs to rank g % N, and that a rank runs its sub-graphs  *)
(* in this order.                                                          *)
(*                                                                         *)
(* A channel <<p, q>> is the ZeroMQ pipe from rank p to rank q: from a     *)
(* rank's send_socket to its successor, and from a worker's master_socket  *)
(* to the master (the last rank uses its send_socket for both).  It keeps  *)
(* order and loses nothing.  Messages are records: a "ctl" message is the  *)
(* meta data of a batch or one cache operation (llama_send_meta, and       *)
(* llama_send_kv_cache_seq_rm and its likes), a "tensor" message the       *)
(* hidden state of an ubatch (llama_send_tensors).  The fields k, j, g     *)
(* (command, ubatch, sub-graph it is the input of) and seen (the caches of *)
(* the devices that worked on it) are not in the real messages and no      *)
(* action depends on them: the properties do.                              *)
(***************************************************************************)
EXTENDS Integers, Sequences, FiniteSets

CONSTANTS N,              (* number of devices, n_world                      *)
          Windows,        (* number of windows the layers are dealt in       *)
          Ubatches,       (* ubatches                                        *)
          Batches,        (* batches: non-empty sequences of ubatches        *)
          WarmBatch,      (* the batch of the warm-up run                    *)
          KvCmds,         (* cache operations the application sends          *)
          LocalCmds,      (* cache operations it forgets to send             *)
          WarmTimesOut,   (* the master may take longer than a worker's      *)
                          (* receive timeout to start the warm-up run        *)
          MaxLog,         (* bound on the commands of the master             *)
          CacheInit,          (* the empty cache                             *)
          CacheCleared(_),    (* llama_kv_cache_clear                        *)
          CacheOp(_, _),      (* a cache operation                           *)
          CachePlace(_, _),   (* the cache side of an ubatch: [ok, cache]    *)
          CacheEnd(_)         (* the cache side of the end of llama_decode   *)

ASSUME RingAssumption ==
  /\ N \in Nat \ {0, 1}
  /\ Windows \in Nat /\ Windows >= N - 1
  /\ Batches \subseteq Seq(Ubatches) \ {<<>>}
  /\ WarmBatch \in Batches
  /\ WarmTimesOut \in BOOLEAN
  /\ MaxLog \in Nat

Node    == 0..N-1
Worker  == 1..N-1
Succ(n) == (n + 1) % N

Channel  == {<<n, Succ(n)>> : n \in Node} \union {<<n, 0>> : n \in Worker}

VARIABLES
  pc,      (* where a node's main thread is:                                 *)
           (*   "idle"   the master in the application, a worker in          *)
           (*            llama_recv_meta                                     *)
           (*   "slot"   at the top of the ubatch loop                       *)
           (*   "gf"     in the loop over its sub-graphs                     *)
           (*   "check"  a worker whose llama_decode has returned            *)
           (*   "close"  the master in llama_free_sockets                    *)
           (*   "off"    after the main loop                                 *)
           (*   "dead"   aborted by an assertion                             *)
  cache,   (* metadata of a node's KV cache                                  *)
  batch,   (* the ubatches llama_decode still has to do, the present first   *)
  ub,      (* number of the present ubatch, 0 outside of llama_decode        *)
  at,      (* the next sub-graph of the node                                 *)
  warm,    (* the node has not finished its warm-up run                      *)
  chan,    (* the messages in each channel                                   *)
  sig,     (* the nodes whose signal_socket holds a STOP                     *)
  stop,    (* stop_signal of a worker: "none", being written, or "STOP"      *)
  acc,     (* number of commands a node has accepted (history)               *)
  log      (* the commands of the master (history)                           *)

decoding == <<batch, ub, at>>
vars == <<pc, cache, batch, ub, at, warm, chan, sig, stop, acc, log>>
-----------------------------------------------------------------------------
(* The sub-graphs of a rank, in the order it runs them; Windows + 1 is the *)
(* output on the master and the end of the loop on a worker.               *)
FirstGraph(n) == n
NextGraph(g)  == IF g + N <= Windows THEN g + N ELSE Windows + 1

Ctl(k, cmd) == [type |-> "ctl", k |-> k, j |-> 0, g |-> 0, seen |-> {}, cmd |-> cmd]

Tensor(k, j, g, seen) ==
  [type |-> "tensor", k |-> k, j |-> j, g |-> g, seen |-> seen, cmd |-> <<>>]

DecodeCmd(b) == <<"decode", b>>
KvCmd(op)    == <<"kv", op>>

Push(ch, c, m) == [ch EXCEPT ![c] = Append(@, m)]
Pop(ch, c)     == [ch EXCEPT ![c] = Tail(@)]

Incoming(n) == {c \in Channel : c[2] = n /\ chan[c] # <<>>}

Init ==
  /\ pc    = [n \in Node |-> "idle"]
  /\ cache = [n \in Node |-> CacheInit]
  /\ batch = [n \in Node |-> <<>>]
  /\ ub    = [n \in Node |-> 0]
  /\ at    = [n \in Node |-> FirstGraph(n)]
  /\ warm  = [n \in Node |-> TRUE]
  /\ chan  = [c \in Channel |-> <<>>]
  /\ sig   = {}
  /\ stop  = [n \in Worker |-> "none"]
  /\ acc   = [n \in Node |-> 0]
  /\ log   = <<>>

(* Faulty variant of Return: only the master clears after the warm-up run. *)
ReturnKeepsWarmUp(n, c) ==
  /\ pc'    = [pc EXCEPT ![n] = IF n = 0 THEN "idle" ELSE "check"]
  /\ cache' = [cache EXCEPT ![n] = IF warm[n] /\ n = 0 THEN CacheCleared(c) ELSE c]
  /\ warm'  = [warm EXCEPT ![n] = FALSE]
  /\ batch' = [batch EXCEPT ![n] = <<>>]
  /\ ub'    = [ub EXCEPT ![n] = 0]
  /\ at'    = [at EXCEPT ![n] = FirstGraph(n)]

(* llama_decode returns and leaves cache c; the warm-up run clears it.     *)
Return(n, c) ==
  /\ pc'    = [pc EXCEPT ![n] = IF n = 0 THEN "idle" ELSE "check"]
  /\ cache' = [cache EXCEPT ![n] = IF warm[n] THEN CacheCleared(c) ELSE c]
  /\ warm'  = [warm EXCEPT ![n] = FALSE]
  /\ batch' = [batch EXCEPT ![n] = <<>>]
  /\ ub'    = [ub EXCEPT ![n] = 0]
  /\ at'    = [at EXCEPT ![n] = FirstGraph(n)]

StartUbatch(n, b, j) ==
  /\ pc'    = [pc EXCEPT ![n] = "slot"]
  /\ batch' = [batch EXCEPT ![n] = b]
  /\ ub'    = [ub EXCEPT ![n] = j]
  /\ at'    = [at EXCEPT ![n] = FirstGraph(n)]
-----------------------------------------------------------------------------
(* The application on the master.                                          *)

(* llama_decode up to the ubatch loop; the first call is the warm-up run.  *)
AppDecode(b) ==
  /\ pc[0] = "idle" /\ Len(log) < MaxLog
  /\ warm[0] => b = WarmBatch
  /\ StartUbatch(0, b, 1)
  /\ log' = Append(log, DecodeCmd(b))
  /\ acc' = [acc EXCEPT ![0] = @ + 1]
  /\ chan' = Push(chan, <<0, 1>>, Ctl(acc[0] + 1, DecodeCmd(b)))
  /\ UNCHANGED <<cache, warm, sig, stop>>

(* A function llama_kv_cache_xyz and its llama_send_kv_cache_xyz.          *)
AppKv(op) ==
  /\ pc[0] = "idle" /\ ~warm[0] /\ Len(log) < MaxLog
  /\ cache' = [cache EXCEPT ![0] = CacheOp(@, op)]
  /\ log' = Append(log, KvCmd(op))
  /\ acc' = [acc EXCEPT ![0] = @ + 1]
  /\ chan' = Push(chan, <<0, 1>>, Ctl(acc[0] + 1, KvCmd(op)))
  /\ UNCHANGED <<pc, decoding, warm, sig, stop>>

(* A function llama_kv_cache_xyz alone.                                    *)
AppLocalKv(op) ==
  /\ pc[0] = "idle" /\ ~warm[0]
  /\ cache' = [cache EXCEPT ![0] = CacheOp(@, op)]
  /\ UNCHANGED <<pc, decoding, warm, chan, sig, stop, acc, log>>

(* The end of the program: STOP goes to the next node's signal_socket.     *)
Shutdown ==
  /\ pc[0] = "idle" /\ ~warm[0]
  /\ pc'  = [pc EXCEPT ![0] = "close"]
  /\ sig' = sig \union {1}
  /\ UNCHANGED <<cache, decoding, warm, chan, stop, acc, log>>

(* Faulty variant of Closed: the master does not wait for the STOP.        *)
ClosedAtOnce ==
  /\ pc[0] = "close"
  /\ pc'  = [pc EXCEPT ![0] = "off"]
  /\ UNCHANGED <<cache, decoding, warm, chan, sig, stop, acc, log>>

Closed ==
  /\ pc[0] = "close" /\ 0 \in sig
  /\ pc'  = [pc EXCEPT ![0] = "off"]
  /\ sig' = sig \ {0}
  /\ UNCHANGED <<cache, decoding, warm, chan, stop, acc, log>>
-----------------------------------------------------------------------------
(* A worker between two ubatch loops.                                      *)

(* Faulty variants of Forward: the last rank sends commands on to the      *)
(* master; the last but one is taken for the last.                         *)
ForwardByAll(n, ch, m) == Push(ch, <<n, Succ(n)>>, m)

ForwardTooFew(n, ch, m) ==
  IF n >= N - 2 THEN ch ELSE Push(ch, <<n, Succ(n)>>, m)

(* A node that is not the last sends a command on.                         *)
Forward(n, ch, m) == IF n = N - 1 THEN ch ELSE Push(ch, <<n, Succ(n)>>, m)

(* Faulty variant of AcceptKv: the operation is sent on but not done.      *)
AcceptKvForwardOnly(n) ==
  LET c == <<n - 1, n>> IN
  /\ pc[n] = "idle" /\ chan[c] # <<>>
  /\ Head(chan[c]).type = "ctl" /\ Head(chan[c]).cmd[1] = "kv"
  /\ Return(n, cache[n])
  /\ acc' = [acc EXCEPT ![n] = @ + 1]
  /\ chan' = Forward(n, Pop(chan, c), Head(chan[c]))
  /\ UNCHANGED <<sig, stop, log>>

AcceptKv(n) ==
  LET c == <<n - 1, n>> IN
  /\ pc[n] = "idle" /\ chan[c] # <<>>
  /\ Head(chan[c]).type = "ctl" /\ Head(chan[c]).cmd[1] = "kv"
  /\ Return(n, CacheOp(cache[n], Head(chan[c]).cmd[2]))
  /\ acc' = [acc EXCEPT ![n] = @ + 1]
  /\ chan' = Forward(n, Pop(chan, c), Head(chan[c]))
  /\ UNCHANGED <<sig, stop, log>>

AcceptBatch(n) ==
  LET c == <<n - 1, n>> IN
  /\ pc[n] = "idle" /\ chan[c] # <<>>
  /\ Head(chan[c]).type = "ctl" /\ Head(chan[c]).cmd[1] = "decode"
  /\ StartUbatch(n, Head(chan[c]).cmd[2], 1)
  /\ acc' = [acc EXCEPT ![n] = @ + 1]
  /\ chan' = Forward(n, Pop(chan, c), Head(chan[c]))
  /\ UNCHANGED <<cache, warm, sig, stop, log>>

(* Faulty variant of Misread: the empty batch yields a hidden state.       *)
MisreadAnswers(n) ==
  LET c == <<n - 1, n>> IN
  /\ pc[n] = "idle" /\ chan[c] # <<>>
  /\ Head(chan[c]).type = "tensor"
  /\ IF n = N - 1
     THEN /\ chan' = Push(Pop(chan, c), <<n, 0>>, Tensor(acc[n], 0, at[n] + 1, {}))
          /\ Return(n, CacheEnd(cache[n]))
     ELSE /\ chan' = Pop(chan, c)
          /\ pc' = [pc EXCEPT ![n] = "dead"]
          /\ UNCHANGED <<cache, decoding, warm>>
  /\ UNCHANGED <<sig, stop, acc, log>>

(* llama_recv_meta finds no meta data in a tensor message, and n_tokens    *)
(* stays 0: llama_send_meta aborts, but the last rank, which does not send *)
(* it on, runs an empty batch.                                             *)
Misread(n) ==
  LET c == <<n - 1, n>> IN
  /\ pc[n] = "idle" /\ chan[c] # <<>>
  /\ Head(chan[c]).type = "tensor"
  /\ chan' = Pop(chan, c)
  /\ IF n = N - 1
     THEN Return(n, CacheEnd(cache[n]))
     ELSE /\ pc' = [pc EXCEPT ![n] = "dead"]
          /\ UNCHANGED <<cache, decoding, warm>>
  /\ UNCHANGED <<sig, stop, acc, log>>

(* Nothing arrived within rcvtimeo: llama_decode returns -1.               *)
Timeout(n) ==
  /\ pc[n] = "idle" /\ chan[<<n - 1, n>>] = <<>>
  /\ warm[n] => WarmTimesOut
  /\ Return(n, cache[n])
  /\ UNCHANGED <<chan, sig, stop, acc, log>>

(* strcmp(stop_signal, "STOP") may be TRUE or FALSE while the other thread *)
(* is writing the string.                                                  *)
CheckStop(n) ==
  /\ pc[n] = "check"
  /\ \/ /\ stop[n] # "none"
        /\ pc' = [pc EXCEPT ![n] = "off"]
     \/ /\ stop[n] # "STOP"
        /\ pc' = [pc EXCEPT ![n] = "idle"]
  /\ UNCHANGED <<cache, decoding, warm, chan, sig, stop, acc, log>>
-----------------------------------------------------------------------------
(* The ubatch loop, on every node.                                         *)

Slot(n) ==
  LET p == CachePlace(cache[n], Head(batch[n])) IN
  /\ pc[n] = "slot"
  /\ IF p.ok
     THEN /\ pc'    = [pc EXCEPT ![n] = "gf"]
          /\ cache' = [cache EXCEPT ![n] = p.cache]
          /\ UNCHANGED <<decoding, warm>>
     ELSE Return(n, p.cache)
  /\ UNCHANGED <<chan, sig, stop, acc, log>>

(* Faulty variant of EndUbatch: the last ubatch of a batch is left out.    *)
EndUbatchEarly(n) ==
  IF Len(batch[n]) > 2
  THEN StartUbatch(n, Tail(batch[n]), ub[n] + 1) /\ UNCHANGED <<cache, warm>>
  ELSE Return(n, CacheEnd(cache[n]))

(* The loop over the sub-graphs is left: on a worker when none is left, on *)
(* the master after the output.  The next ubatch, or the end of the batch. *)
EndUbatch(n) ==
  IF Len(batch[n]) > 1
  THEN StartUbatch(n, Tail(batch[n]), ub[n] + 1) /\ UNCHANGED <<cache, warm>>
  ELSE Return(n, CacheEnd(cache[n]))

LastGraph(n, g) == IF n = 0 THEN g = Windows + 1 ELSE NextGraph(g) = Windows + 1

(* Faulty variant of NeedsInput: the output is computed without waiting    *)
(* for the last window.                                                    *)
NeedsInputButOutput(n) == n = 0 => at[0] \in 1..Windows

(* The input of the first sub-graph is the batch, and the output follows   *)
(* the last window directly if that is the master's own.                   *)
NeedsInput(n) ==
  n = 0 => at[0] # 0 /\ (at[0] = Windows + 1 => Windows % N # 0)

Sends(n) == n = 0 => at[0] < Windows

(* The output of the last window goes to the master, through the socket    *)
(* the worker has for it.                                                  *)
Target(n) == IF at[n] = Windows THEN 0 ELSE Succ(n)

(* Compute sub-graph at[n] and send its result; ch are the channels after  *)
(* the input was received, seen the caches that worked on the input.       *)
Compute(n, ch, seen) ==
  /\ chan' = IF Sends(n)
             THEN Push(ch, <<n, Target(n)>>,
                       Tensor(acc[n], ub[n], at[n] + 1, seen \union {cache[n]}))
             ELSE ch
  /\ IF LastGraph(n, at[n])
     THEN EndUbatch(n)
     ELSE /\ at' = [at EXCEPT ![n] = NextGraph(@)]
          /\ UNCHANGED <<pc, cache, batch, ub, warm>>

(* One turn of the loop.  Whatever arrives is taken for the input:         *)
(* llama_recv_tensors skips the keys it does not know.                     *)
SubGraph(n) ==
  /\ pc[n] = "gf"
  /\ IF NeedsInput(n)
     THEN \E c \in Incoming(n) : Compute(n, Pop(chan, c), Head(chan[c]).seen)
     ELSE Compute(n, chan, {})
  /\ UNCHANGED <<sig, stop, acc, log>>
-----------------------------------------------------------------------------
(* Faulty variant of RelayStop: the STOP is not sent on.                   *)
SwallowStop(n) ==
  /\ pc[n] # "dead"
  /\ n \in sig /\ ~warm[n] /\ stop[n] = "none"
  /\ sig'  = sig \ {n}
  /\ stop' = [stop EXCEPT ![n] = "writing"]
  /\ UNCHANGED <<pc, cache, decoding, warm, chan, acc, log>>

(* The signal thread of a worker, started after the warm-up run: it sends  *)
(* the STOP on and stores it for the main thread.  An assertion that fails *)
(* ends the process, this thread as well.                                  *)
RelayStop(n) ==
  /\ pc[n] # "dead"
  /\ n \in sig /\ ~warm[n] /\ stop[n] = "none"
  /\ sig'  = (sig \ {n}) \union {Succ(n)}
  /\ stop' = [stop EXCEPT ![n] = "writing"]
  /\ UNCHANGED <<pc, cache, decoding, warm, chan, acc, log>>

StoreStop(n) ==
  /\ pc[n] # "dead"
  /\ stop[n] = "writing"
  /\ stop' = [stop EXCEPT ![n] = "STOP"]
  /\ UNCHANGED <<pc, cache, decoding, warm, chan, sig, acc, log>>

(* Every process has left its main loop.                                   *)
Terminated ==
  /\ \A n \in Node : pc[n] = "off"
  /\ UNCHANGED vars

Main(n)  == Slot(n) \/ SubGraph(n)
Wait(n)  == AcceptKv(n) \/ AcceptBatch(n) \/ Misread(n) \/ Timeout(n) \/ CheckStop(n)
Signal(n) == RelayStop(n) \/ StoreStop(n)

Next ==
  \/ \E b \in Batches : AppDecode(b)
  \/ \E op \in KvCmds : AppKv(op)
  \/ \E op \in LocalCmds : AppLocalKv(op)
  \/ Shutdown
  \/ Closed
  \/ \E n \in Node : Main(n)
  \/ \E n \in Worker : Wait(n)
  \/ \E n \in Worker : Signal(n)
  \/ Terminated

Spec == Init /\ [][Next]_vars

(* Threads that can go on do; the application need not call anything.      *)
Fairness ==
  /\ WF_vars(Closed)
  /\ \A n \in Node : WF_vars(Main(n))
  /\ \A n \in Worker : WF_vars(Wait(n)) /\ WF_vars(Signal(n))

LiveSpec == Spec /\ Fairness
-----------------------------------------------------------------------------
TypeOK ==
  /\ pc \in [Node -> {"idle", "slot", "gf", "check", "close", "off", "dead"}]
  /\ DOMAIN cache = Node
  /\ batch \in [Node -> Seq(Ubatches)]
  /\ ub \in [Node -> Nat]
  /\ at \in [Node -> 0..Windows+1]
  /\ warm \in [Node -> BOOLEAN]
  /\ DOMAIN chan = Channel
  /\ sig \subseteq Node
  /\ stop \in [Worker -> {"none", "writing", "STOP"}]
  /\ acc \in [Node -> Nat]
  /\ log \in Seq({"decode", "kv"} \X (Batches \union KvCmds))

(* A node only ever reads what it waits for: a command, the next one, when *)
(* it waits for commands, and the input of its next sub-graph in the loop  *)
(* over its sub-graphs.  Nothing else tells a command from a hidden state. *)
Expected(n, m) ==
  CASE pc[n] \in {"idle", "check"} -> /\ n # 0
                                      /\ m.type = "ctl"
                                      /\ m.k = acc[n] + 1
    [] pc[n] = "gf"                -> /\ m.type = "tensor"
                                      /\ <<m.k, m.j, m.g>> = <<acc[n], ub[n], at[n]>>
    [] OTHER                       -> n # 0

NoConfusion ==
  \A c \in Channel : chan[c] # <<>> => Expected(c[2], Head(chan[c]))

(* At most one hidden state is on its way, and none when the master is not *)
(* waiting for it: a late or lost one would be taken for a later ubatch's. *)
InFlight ==
  UNION {{<<c, i>> : i \in {x \in DOMAIN chan[c] : chan[c][x].type = "tensor"}}
           : c \in Channel}

OneHiddenState ==
  /\ Cardinality(InFlight) <= 1
  /\ InFlight # {} => pc[0] = "gf"

(* Nodes that have done the same part of the same commands have the same   *)
(* cache metadata, although each one computes its own.                     *)
Stage(n) ==
  <<acc[n], ub[n], IF pc[n] \in {"slot", "gf", "dead"} THEN pc[n] ELSE "between">>

ReplicasAgree ==
  \A m, n \in Node : Stage(m) = Stage(n) => cache[m] = cache[n]

(* All layers of an ubatch are computed on the cache the master has.       *)
SameCacheInAllLayers ==
  \A x \in InFlight : chan[x[1]][x[2]].seen = {cache[0]}

(* Where the caches of the devices have come apart, because the master     *)
(* alone erased cells or a worker kept the tokens of the warm-up run, a    *)
(* worker without a slot returns and takes the next hidden state for a     *)
(* command.  That stops the ring but spoils no result: whatever arrives at *)
(* the master, or at a worker in the loop over its sub-graphs, is the      *)
(* input of the present command, ubatch and sub-graph; and a worker that   *)
(* aborts leaves the master waiting in its loop, which never ends with     *)
(* what the others had computed.                                           *)
NoWrongResult ==
  /\ \A c \in Channel :
       chan[c] # <<>> /\ (c[2] = 0 \/ pc[c[2]] = "gf") => Expected(c[2], Head(chan[c]))
  /\ \A n \in Worker : pc[n] = "dead" => pc[0] = "gf"

(* STOP goes around the ring once: it is in one place, behind it the       *)
(* workers have got it and ahead of it they have not; the master closes    *)
(* its sockets last.                                                       *)
StopOnce ==
  /\ Cardinality(sig) <= 1
  /\ pc[0] \notin {"close", "off"} => sig = {} /\ \A n \in Worker : stop[n] = "none"
  /\ pc[0] = "off" => \A n \in Worker : stop[n] # "none"
  /\ \A n \in sig \ {0} : \A m \in Worker : stop[m] # "none" <=> m < n
  /\ \A n \in Worker : pc[n] = "off" => stop[n] # "none"

(* The ring does what one device with all the layers does.                 *)
NextToCompute ==
  IF pc[0] # "gf" THEN -1
  ELSE IF InFlight = {} THEN at[0]
  ELSE LET x == CHOOSE x \in InFlight : TRUE IN chan[x[1]][x[2]].g

Device == INSTANCE OneDevice
            WITH kv <- cache[0], todo <- batch[0], next <- NextToCompute,
                 fresh <- warm[0]

ActsAsOneDevice == Device!Spec

(* llama_decode returns on the master, whatever the workers are still busy *)
(* with; a command reaches every worker; after the master has sent STOP    *)
(* every process leaves its main loop.                                     *)
DecodeReturns == pc[0] = "slot" ~> pc[0] = "idle"

CommandsArrive ==
  \A n \in Worker : \A k \in 1..MaxLog : acc[0] >= k ~> acc[n] >= k \/ pc[n] = "off"

AllStop == pc[0] = "close" ~> \A n \in Node : pc[n] = "off"

(* The warm-up run is "an empty run" (common/common.cpp): a node that has  *)
(* done it, and nothing else, has no token in its cache.                   *)
WarmUpIsEmptyRun ==
  \A n \in Node : acc[n] = 1 /\ ub[n] = 0 => cache[n] = CacheCleared(cache[n])

=============================================================================
