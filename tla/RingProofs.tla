----------------------------- MODULE RingProofs -----------------------------
(***************************************************************************)
(* Theorems about Ring, for every number of devices, every split of the    *)
(* layers, all batches and cache operations, and whatever the cache        *)
(* functions compute.                                                      *)
(***************************************************************************)
EXTENDS Ring, SequenceTheorems, FiniteSetTheorems, TLAPS

(* A sequence, of whatever elements.                                       *)
IsSeq(s) == s \in Seq({s[i] : i \in 1..Len(s)})

(* What a worker that takes m for a batch gets is a batch.                 *)
IsMessage(m) == m.type = "ctl" /\ m.cmd[1] = "decode" => m.cmd[2] \in Batches

ChannelsOK(ch) ==
  /\ DOMAIN ch = Channel
  /\ \A c \in Channel : IsSeq(ch[c]) /\ \A i \in 1..Len(ch[c]) : IsMessage(ch[c][i])

(* The inductive type invariant: TypeOK and the type of the messages.      *)
TypeInv == TypeOK /\ ChannelsOK(chan)
-----------------------------------------------------------------------------
(* A sequence is one over any set that has its elements.                   *)
LEMMA SeqOverElements ==
  ASSUME NEW S, NEW s \in Seq(S)
  PROVE  IsSeq(s)
<1>1. Len(s) \in Nat /\ s \in [1..Len(s) -> S]
  OBVIOUS
<1>2. s \in [1..Len(s) -> {s[i] : i \in 1..Len(s)}]
  BY <1>1
<1>3. QED BY <1>1, <1>2, SeqDef DEF IsSeq

(* Sending and receiving keep the channels well-formed.                    *)
LEMMA PushOK ==
  ASSUME NEW ch, ChannelsOK(ch), NEW c \in Channel, NEW m, IsMessage(m)
  PROVE  ChannelsOK(Push(ch, c, m))
<1> DEFINE S == {ch[c][i] : i \in 1..Len(ch[c])}
<1>1. ch[c] \in Seq(S) /\ \A x \in S : IsMessage(x)
  BY DEF ChannelsOK, IsSeq
<1>2. ch[c] \in Seq(S \union {m}) /\ \A x \in S \union {m} : IsMessage(x)
  BY <1>1
<1> HIDE DEF S
<1>3. Append(ch[c], m) \in Seq(S \union {m})
  BY <1>2
<1>4. IsSeq(Append(ch[c], m))
  BY <1>3, SeqOverElements
<1>5. \A i \in 1..Len(Append(ch[c], m)) : IsMessage(Append(ch[c], m)[i])
  BY <1>2, <1>3
<1>6. QED BY <1>4, <1>5 DEF ChannelsOK, Push

LEMMA PopOK ==
  ASSUME NEW ch, ChannelsOK(ch), NEW c \in Channel, ch[c] # <<>>
  PROVE  ChannelsOK(Pop(ch, c)) /\ IsMessage(Head(ch[c]))
<1> DEFINE S == {ch[c][i] : i \in 1..Len(ch[c])}
<1>1. ch[c] \in Seq(S) /\ \A x \in S : IsMessage(x)
  BY DEF ChannelsOK, IsSeq
<1> HIDE DEF S
<1>2. Head(ch[c]) \in S /\ Tail(ch[c]) \in Seq(S)
  BY <1>1
<1>3. IsSeq(Tail(ch[c]))
  BY <1>2, SeqOverElements
<1>4. \A i \in 1..Len(Tail(ch[c])) : IsMessage(Tail(ch[c])[i])
  BY <1>1, <1>2
<1>5. QED BY <1>1, <1>2, <1>3, <1>4 DEF ChannelsOK, Pop
-----------------------------------------------------------------------------
(* Facts about the ring and the sub-graphs of a rank.                      *)
LEMMA RingFacts ==
  /\ Node \subseteq Nat /\ Worker \subseteq Node /\ 0 \in Node /\ 1 \in Worker
  /\ \A n \in Node : Succ(n) \in Node /\ <<n, Succ(n)>> \in Channel
  /\ \A n \in Worker : n - 1 \in Node /\ <<n - 1, n>> \in Channel /\ <<n, 0>> \in Channel
  /\ Succ(0) = 1 /\ <<0, 1>> \in Channel
<1>1. /\ Node \subseteq Nat /\ Worker \subseteq Node /\ 0 \in Node /\ 1 \in Worker
      /\ \A n \in Node : Succ(n) \in Node
  BY RingAssumption DEF Node, Worker, Succ
<1>2. \A n \in Worker : n - 1 \in Node /\ Succ(n - 1) = n
  BY RingAssumption DEF Node, Worker, Succ
<1>3. \A n \in Node : <<n, Succ(n)>> \in Channel
  BY DEF Channel
<1>4. \A n \in Worker : <<n, 0>> \in Channel /\ <<n - 1, n>> \in Channel
  BY <1>2, <1>3 DEF Channel
<1>5. Succ(0) = 1
  BY RingAssumption DEF Succ
<1>6. QED BY <1>1, <1>2, <1>3, <1>4, <1>5

LEMMA GraphFacts ==
  /\ \A n \in Node : FirstGraph(n) \in 0..Windows+1
  /\ \A g \in 0..Windows+1 : NextGraph(g) \in 0..Windows+1
BY RingAssumption DEF Node, FirstGraph, NextGraph

(* What TypeOK says of the variables llama_decode works on.                *)
LEMMA ReturnType ==
  ASSUME TypeOK, NEW n \in Node, NEW c, Return(n, c)
  PROVE  /\ pc' \in [Node -> {"idle", "slot", "gf", "check", "close", "off", "dead"}]
         /\ DOMAIN cache' = Node
         /\ batch' \in [Node -> Seq(Ubatches)]
         /\ ub' \in [Node -> Nat]
         /\ at' \in [Node -> 0..Windows+1]
         /\ warm' \in [Node -> BOOLEAN]
<1>1. FirstGraph(n) \in 0..Windows+1
  BY GraphFacts
<1>2. QED BY <1>1 DEF TypeOK, Return

LEMMA StartUbatchType ==
  ASSUME TypeOK, NEW n \in Node, NEW b \in Seq(Ubatches), NEW j \in Nat,
         StartUbatch(n, b, j)
  PROVE  /\ pc' \in [Node -> {"idle", "slot", "gf", "check", "close", "off", "dead"}]
         /\ batch' \in [Node -> Seq(Ubatches)]
         /\ ub' \in [Node -> Nat]
         /\ at' \in [Node -> 0..Windows+1]
<1>1. FirstGraph(n) \in 0..Windows+1
  BY GraphFacts
<1>2. QED BY <1>1 DEF TypeOK, StartUbatch

(* The end of an ubatch.                                                   *)
LEMMA EndUbatchType ==
  ASSUME TypeOK, NEW n \in Node, EndUbatch(n)
  PROVE  /\ pc' \in [Node -> {"idle", "slot", "gf", "check", "close", "off", "dead"}]
         /\ DOMAIN cache' = Node
         /\ batch' \in [Node -> Seq(Ubatches)]
         /\ ub' \in [Node -> Nat]
         /\ at' \in [Node -> 0..Windows+1]
         /\ warm' \in [Node -> BOOLEAN]
<1>1. CASE Len(batch[n]) > 1
  <2>1. batch[n] \in Seq(Ubatches) /\ ub[n] \in Nat
    BY DEF TypeOK
  <2>2. Tail(batch[n]) \in Seq(Ubatches)
    BY <1>1, <2>1
  <2>3. StartUbatch(n, Tail(batch[n]), ub[n] + 1) /\ UNCHANGED <<cache, warm>>
    BY <1>1 DEF EndUbatch
  <2>4. ub[n] + 1 \in Nat
    BY <2>1
  <2>5. QED BY <2>2, <2>3, <2>4, StartUbatchType DEF TypeOK
<1>2. CASE ~(Len(batch[n]) > 1)
  <2>1. Return(n, CacheEnd(cache[n]))
    BY <1>2 DEF EndUbatch
  <2>2. QED BY <2>1, ReturnType
<1>3. QED BY <1>1, <1>2

(* The prime of the definition is the definition of the prime.             *)
LEMMA NextChannelsOK == ASSUME ChannelsOK(chan') PROVE ChannelsOK(chan)' /\ DOMAIN chan' = Channel
BY DEF ChannelsOK, IsSeq, IsMessage

(* Compute sends at most one hidden state and ends in a well-typed state.  *)
LEMMA ComputeType ==
  ASSUME TypeOK, NEW n \in Node, NEW ch, ChannelsOK(ch), NEW seen, Compute(n, ch, seen),
         UNCHANGED <<sig, stop, acc, log>>
  PROVE  TypeInv'
<1>1. ChannelsOK(chan')
  <2>1. Sends(n) => <<n, Target(n)>> \in Channel
    <3>1. CASE at[n] = Windows /\ n # 0
      <4>1. n \in Worker
        BY <3>1, RingAssumption DEF Node, Worker
      <4>2. QED BY <3>1, <4>1, RingFacts DEF Target
    <3>2. CASE at[n] = Windows /\ n = 0
      BY <3>2, RingAssumption DEF Sends
    <3>3. CASE at[n] # Windows
      BY <3>3, RingFacts DEF Target
    <3>4. QED BY <3>1, <3>2, <3>3
  <2>2. \A m : m.type = "tensor" => IsMessage(m)
    BY DEF IsMessage
  <2>3. IsMessage(Tensor(acc[n], ub[n], at[n] + 1, seen \union {cache[n]}))
    BY <2>2 DEF Tensor
  <2>4. QED BY <2>1, <2>3, PushOK DEF Compute
<1>2. CASE LastGraph(n, at[n])
  <2>1. EndUbatch(n)
    BY <1>2 DEF Compute
  <2>2. QED BY <1>1, <2>1, EndUbatchType, NextChannelsOK DEF TypeInv, TypeOK
<1>3. CASE ~LastGraph(n, at[n])
  <2>1. /\ at' = [at EXCEPT ![n] = NextGraph(@)]
        /\ UNCHANGED <<pc, cache, batch, ub, warm>>
    BY <1>3 DEF Compute
  <2>2. at' \in [Node -> 0..Windows+1]
    BY <2>1, GraphFacts DEF TypeOK
  <2>3. QED BY <1>1, <2>1, <2>2, NextChannelsOK DEF TypeInv, TypeOK
<1>4. QED BY <1>2, <1>3

(* A worker sends on what it received.                                     *)
LEMMA ForwardOK ==
  ASSUME NEW n \in Worker, ChannelsOK(chan), chan[<<n - 1, n>>] # <<>>
  PROVE  /\ ChannelsOK(Forward(n, Pop(chan, <<n - 1, n>>), Head(chan[<<n - 1, n>>])))
         /\ ChannelsOK(Pop(chan, <<n - 1, n>>))
         /\ IsMessage(Head(chan[<<n - 1, n>>]))
<1>1. <<n - 1, n>> \in Channel /\ <<n, Succ(n)>> \in Channel
  BY RingFacts
<1>2. /\ ChannelsOK(Pop(chan, <<n - 1, n>>))
      /\ IsMessage(Head(chan[<<n - 1, n>>]))
  BY <1>1, PopOK
<1>3. QED BY <1>1, <1>2, PushOK DEF Forward

LEMMA InitType == Init => TypeInv
<1>1. SUFFICES ASSUME Init PROVE TypeInv
  OBVIOUS
<1>2. \A n \in Node : FirstGraph(n) \in 0..Windows+1
  BY GraphFacts
<1>3. TypeOK
  BY <1>1, <1>2 DEF Init, TypeOK
<1>4. ChannelsOK(chan)
  <2>1. \A c \in Channel : chan[c] = <<>> /\ DOMAIN chan = Channel
    BY <1>1 DEF Init
  <2>2. IsSeq(<<>>)
    <3>1. <<>> \in Seq({})
      OBVIOUS
    <3>2. QED BY <3>1, SeqOverElements
  <2>3. QED BY <1>1, <2>1, <2>2 DEF ChannelsOK, Init
<1>5. QED BY <1>3, <1>4, NextChannelsOK DEF TypeInv

LEMMA NextType == TypeInv /\ [Next]_vars => TypeInv'
<1> SUFFICES ASSUME TypeInv, [Next]_vars PROVE TypeInv'
  OBVIOUS
<1> USE RingFacts
<1>0. TypeOK /\ ChannelsOK(chan)
  BY DEF TypeInv
<1>1. ASSUME NEW b \in Batches, AppDecode(b) PROVE TypeInv'
  <2>1. b \in Seq(Ubatches) /\ StartUbatch(0, b, 1)
    BY <1>1, RingAssumption DEF AppDecode
  <2>2. IsMessage(Ctl(acc[0] + 1, DecodeCmd(b)))
    BY DEF IsMessage, Ctl, DecodeCmd
  <2>3. ChannelsOK(chan')
    BY <1>0, <1>1, <2>2, PushOK DEF AppDecode
  <2>4. acc' \in [Node -> Nat] /\ log' \in Seq({"decode", "kv"} \X (Batches \union KvCmds))
    BY <1>0, <1>1 DEF AppDecode, TypeOK, DecodeCmd
  <2>5. QED BY <1>0, <1>1, <2>1, <2>3, <2>4, StartUbatchType, NextChannelsOK DEF AppDecode, TypeInv, TypeOK
<1>2. ASSUME NEW op \in KvCmds, AppKv(op) PROVE TypeInv'
  <2>1. IsMessage(Ctl(acc[0] + 1, KvCmd(op)))
    BY DEF IsMessage, Ctl, KvCmd
  <2>2. ChannelsOK(chan')
    BY <1>0, <1>2, <2>1, PushOK DEF AppKv
  <2>3. acc' \in [Node -> Nat] /\ log' \in Seq({"decode", "kv"} \X (Batches \union KvCmds))
    BY <1>0, <1>2 DEF AppKv, TypeOK, KvCmd
  <2>4. QED BY <1>0, <1>2, <2>2, <2>3, NextChannelsOK DEF AppKv, TypeInv, TypeOK, decoding
<1>3. ASSUME NEW op \in LocalCmds, AppLocalKv(op) PROVE TypeInv'
  BY <1>0, <1>3, NextChannelsOK DEF AppLocalKv, TypeInv, TypeOK, decoding
<1>4. CASE Shutdown
  BY <1>0, <1>4, NextChannelsOK DEF Shutdown, TypeInv, TypeOK, decoding
<1>5. CASE Closed
  BY <1>0, <1>5, NextChannelsOK DEF Closed, TypeInv, TypeOK, decoding
<1>6. ASSUME NEW n \in Node, Slot(n) PROVE TypeInv'
  <2> DEFINE p == CachePlace(cache[n], Head(batch[n]))
  <2>1. UNCHANGED <<chan, sig, stop, acc, log>>
    BY <1>6 DEF Slot
  <2>2. CASE p.ok
    BY <1>0, <1>6, <2>1, <2>2, NextChannelsOK DEF Slot, TypeInv, TypeOK, decoding
  <2>3. CASE ~p.ok
    <3>1. Return(n, p.cache)
      BY <1>6, <2>3 DEF Slot
    <3>2. QED BY <1>0, <2>1, <3>1, ReturnType, NextChannelsOK DEF TypeInv, TypeOK
  <2>4. QED BY <2>2, <2>3
<1>7. ASSUME NEW n \in Node, SubGraph(n) PROVE TypeInv'
  <2>1. UNCHANGED <<sig, stop, acc, log>>
    BY <1>7 DEF SubGraph
  <2>2. CASE NeedsInput(n)
    <3>1. PICK c \in Incoming(n) : Compute(n, Pop(chan, c), Head(chan[c]).seen)
      BY <1>7, <2>2 DEF SubGraph
    <3>2. c \in Channel /\ chan[c] # <<>>
      BY DEF Incoming
    <3>3. ChannelsOK(Pop(chan, c))
      BY <1>0, <3>2, PopOK
    <3>4. QED BY <1>0, <2>1, <3>1, <3>3, ComputeType
  <2>3. CASE ~NeedsInput(n)
    <3>1. Compute(n, chan, {})
      BY <1>7, <2>3 DEF SubGraph
    <3>2. QED BY <1>0, <2>1, <3>1, ComputeType
  <2>4. QED BY <2>2, <2>3
<1>8. ASSUME NEW n \in Worker, AcceptKv(n) PROVE TypeInv'
  <2>1. PICK x : Return(n, x)
    BY <1>8 DEF AcceptKv
  <2>2. ChannelsOK(chan') /\ UNCHANGED <<sig, stop, log>>
    BY <1>0, <1>8, ForwardOK DEF AcceptKv
  <2>3. acc' \in [Node -> Nat]
    <3>1. n \in Node /\ acc' = [acc EXCEPT ![n] = @ + 1]
      BY <1>8 DEF AcceptKv
    <3>2. acc \in [Node -> Nat]
      BY <1>0 DEF TypeOK
    <3>3. QED BY <3>1, <3>2
  <2>4. QED BY <1>0, <2>1, <2>2, <2>3, ReturnType, NextChannelsOK DEF TypeInv, TypeOK
<1>9. ASSUME NEW n \in Worker, AcceptBatch(n) PROVE TypeInv'
  <2> DEFINE m == Head(chan[<<n - 1, n>>])
  <2>1. IsMessage(m) /\ m.type = "ctl" /\ m.cmd[1] = "decode"
    BY <1>0, <1>9, ForwardOK DEF AcceptBatch
  <2>2. m.cmd[2] \in Seq(Ubatches)
    BY <2>1, RingAssumption DEF IsMessage
  <2>3. StartUbatch(n, m.cmd[2], 1) /\ UNCHANGED <<cache, warm, sig, stop, log>>
    BY <1>9 DEF AcceptBatch
  <2>4. ChannelsOK(chan')
    BY <1>0, <1>9, ForwardOK DEF AcceptBatch
  <2>5. acc' \in [Node -> Nat]
    <3>1. n \in Node /\ acc' = [acc EXCEPT ![n] = @ + 1]
      BY <1>9 DEF AcceptBatch
    <3>2. acc \in [Node -> Nat]
      BY <1>0 DEF TypeOK
    <3>3. QED BY <3>1, <3>2
  <2>6. QED BY <1>0, <2>2, <2>3, <2>4, <2>5, StartUbatchType, NextChannelsOK DEF TypeInv, TypeOK
<1>10. ASSUME NEW n \in Worker, Misread(n) PROVE TypeInv'
  <2>1. ChannelsOK(chan') /\ UNCHANGED <<sig, stop, acc, log>>
    BY <1>0, <1>10, ForwardOK DEF Misread
  <2>2. CASE n = N - 1
    <3>1. Return(n, CacheEnd(cache[n]))
      BY <1>10, <2>2 DEF Misread
    <3>2. QED BY <1>0, <2>1, <3>1, ReturnType, NextChannelsOK DEF TypeInv, TypeOK
  <2>3. CASE n # N - 1
    BY <1>0, <1>10, <2>1, <2>3, NextChannelsOK DEF Misread, TypeInv, TypeOK, decoding
  <2>4. QED BY <2>2, <2>3
<1>11. ASSUME NEW n \in Worker, Timeout(n) PROVE TypeInv'
  <2>1. Return(n, cache[n]) /\ UNCHANGED <<chan, sig, stop, acc, log>>
    BY <1>11 DEF Timeout
  <2>2. QED BY <1>0, <2>1, ReturnType, NextChannelsOK DEF TypeInv, TypeOK
<1>12. ASSUME NEW n \in Worker, CheckStop(n) PROVE TypeInv'
  BY <1>0, <1>12, NextChannelsOK DEF CheckStop, TypeInv, TypeOK, decoding
<1>13. ASSUME NEW n \in Worker, RelayStop(n) PROVE TypeInv'
  BY <1>0, <1>13, NextChannelsOK DEF RelayStop, TypeInv, TypeOK, decoding
<1>14. ASSUME NEW n \in Worker, StoreStop(n) PROVE TypeInv'
  BY <1>0, <1>14, NextChannelsOK DEF StoreStop, TypeInv, TypeOK, decoding
<1>15. CASE UNCHANGED vars
  BY <1>0, <1>15, NextChannelsOK DEF vars, decoding, TypeInv, TypeOK
<1>16. QED
  BY <1>1, <1>2, <1>3, <1>4, <1>5, <1>6, <1>7, <1>8, <1>9, <1>10, <1>11, <1>12,
     <1>13, <1>14, <1>15
     DEF Next, Main, Wait, Signal, Terminated

(* Every reachable state has the types of TypeOK, and every channel holds  *)
(* well-formed messages.                                                   *)
THEOREM TypeTheorem == Spec => []TypeInv
BY InitType, NextType, PTL DEF Spec

(* TypeOK: the program counters, sub-graph numbers and the rest stay in    *)
(* range whatever the nodes do.                                            *)
THEOREM TypeCorrect == Spec => []TypeOK
<1>1. TypeInv => TypeOK
  BY DEF TypeInv
<1>2. QED BY <1>1, TypeTheorem, PTL
-----------------------------------------------------------------------------
(* StopOnce is not inductive: it does not say where the STOP is.  Before   *)
(* Shutdown it is nowhere; from then until Closed there is one, in a       *)
(* signal_socket, and the workers before that socket's node have got it;   *)
(* after Closed all have got it.                                           *)
StopInv ==
  /\ pc[0] \notin {"close", "off"} => sig = {} /\ \A n \in Worker : stop[n] = "none"
  /\ pc[0] = "close" =>
       \E x \in Node :
          /\ sig = {x}
          /\ \A m \in Worker : stop[m] # "none" <=> (x = 0 \/ m < x)
  /\ pc[0] = "off" => sig = {} /\ \A n \in Worker : stop[n] # "none"
  /\ \A n \in Worker : pc[n] = "off" => stop[n] # "none"

Running(c) == c \notin {"close", "off"}

(* Most steps have to do with neither the STOP nor the end of a main loop. *)
LEMMA StopFrame ==
  ASSUME StopInv, UNCHANGED <<sig, stop>>,
         pc'[0] = pc[0] \/ (Running(pc[0]) /\ Running(pc'[0])),
         \A n \in Worker : pc'[n] = "off" => pc[n] = "off"
  PROVE  StopInv'
BY DEF StopInv, Running

(* llama_decode neither begins nor ends the shutdown.                      *)
LEMMA StopReturn ==
  ASSUME TypeOK, StopInv, NEW n \in Node, UNCHANGED <<sig, stop>>,
         n = 0 => Running(pc[0]),
         (\E c : Return(n, c)) \/ (\E b, j : StartUbatch(n, b, j))
  PROVE  StopInv'
<1>1. PICK v \in {"idle", "check", "slot"} : pc' = [pc EXCEPT ![n] = v]
  BY DEF Return, StartUbatch
<1>2. \A m \in Node : pc'[m] = IF m = n THEN v ELSE pc[m]
  BY <1>1 DEF TypeOK
<1>3. \A m \in Worker : pc'[m] = "off" => pc[m] = "off"
  BY <1>2, RingFacts
<1>4. pc'[0] = pc[0] \/ (Running(pc[0]) /\ Running(pc'[0]))
  BY <1>2, RingFacts DEF Running
<1>5. QED BY <1>3, <1>4, StopFrame

(* The STOP moves on: from the socket of a worker to that of its successor.*)
LEMMA StopRelayed ==
  ASSUME TypeOK, StopInv, NEW n \in Worker, RelayStop(n)
  PROVE  StopInv'
<1>1. /\ sig' = (sig \ {n}) \union {Succ(n)}
      /\ stop' = [stop EXCEPT ![n] = "writing"]
      /\ UNCHANGED pc /\ n \in sig /\ stop[n] = "none"
  BY DEF RelayStop
<1>2. pc[0] = "close"
  BY <1>1 DEF StopInv
<1>3. sig = {n} /\ \A m \in Worker : stop[m] # "none" <=> m < n
  <2>1. PICK x \in Node : /\ sig = {x}
                          /\ \A m \in Worker : stop[m] # "none" <=> (x = 0 \/ m < x)
    BY <1>2 DEF StopInv
  <2>2. x = n
    BY <1>1, <2>1
  <2>3. n # 0
    BY RingAssumption DEF Worker
  <2>4. QED BY <2>1, <2>2, <2>3
<1>4. sig' = {Succ(n)}
  BY <1>1, <1>3
<1>5. \A m \in Worker : stop'[m] # "none" <=> m < n \/ m = n
  BY <1>1, <1>3 DEF TypeOK
<1>6. \A m \in Worker : stop'[m] # "none" <=> Succ(n) = 0 \/ m < Succ(n)
  BY <1>5, RingAssumption DEF Worker, Succ
<1>7. \A m \in Worker : pc'[m] = "off" => stop'[m] # "none"
  <2>1. \A m \in Worker : pc[m] = "off" => stop[m] # "none"
    BY DEF StopInv
  <2>2. QED BY <1>1, <1>3, <1>5, <2>1
<1>8. Succ(n) \in Node
  BY RingFacts
<1>9. QED BY <1>1, <1>2, <1>4, <1>6, <1>7, <1>8 DEF StopInv

LEMMA InitStop == Init => StopInv
<1>1. SUFFICES ASSUME Init PROVE StopInv
  OBVIOUS
<1>2. \A n \in Node : pc[n] = "idle"
  BY <1>1 DEF Init
<1>3. QED BY <1>1, <1>2, RingFacts DEF Init, StopInv

LEMMA NextStop == TypeOK /\ StopInv /\ [Next]_vars => StopInv'
<1> SUFFICES ASSUME TypeOK, StopInv, [Next]_vars PROVE StopInv'
  OBVIOUS
<1> USE RingFacts
<1>1. ASSUME NEW b \in Batches, AppDecode(b) PROVE StopInv'
  BY <1>1, StopReturn DEF AppDecode, Running
<1>2. ASSUME NEW op \in KvCmds, AppKv(op) PROVE StopInv'
  BY <1>2, StopFrame DEF AppKv
<1>3. ASSUME NEW op \in LocalCmds, AppLocalKv(op) PROVE StopInv'
  BY <1>3, StopFrame DEF AppLocalKv
<1>4. CASE Shutdown
  <2>1. /\ pc'[0] = "close" /\ \A n \in Worker : pc'[n] = pc[n]
        /\ sig' = {1} /\ UNCHANGED stop
        /\ \A n \in Worker : stop[n] = "none"
    <3>1. \A n \in Worker : n # 0
      BY RingAssumption DEF Worker
    <3>2. sig = {} /\ \A n \in Worker : stop[n] = "none"
      BY <1>4 DEF Shutdown, StopInv
    <3>3. QED BY <1>4, <3>1, <3>2 DEF Shutdown, TypeOK
  <2>2. \A m \in Worker : ~(m < 1) /\ 1 \in Node
    BY RingAssumption DEF Worker
  <2>3. QED BY <2>1, <2>2 DEF StopInv
<1>5. CASE Closed
  <2>1. pc[0] = "close" /\ 0 \in sig /\ sig' = sig \ {0} /\ UNCHANGED stop
        /\ pc' = [pc EXCEPT ![0] = "off"]
    BY <1>5 DEF Closed
  <2>2. pc'[0] = "off" /\ \A n \in Worker : pc'[n] = pc[n]
    <3>1. \A n \in Worker : n # 0
      BY RingAssumption DEF Worker
    <3>2. QED BY <2>1, <3>1 DEF TypeOK
  <2>3. sig = {0} /\ \A n \in Worker : stop[n] # "none"
    BY <2>1 DEF StopInv
  <2>4. sig' = {}
    BY <2>1, <2>3
  <2>5. QED BY <2>1, <2>2, <2>3, <2>4 DEF StopInv
<1>6. ASSUME NEW n \in Node, Slot(n) PROVE StopInv'
  <2> DEFINE p == CachePlace(cache[n], Head(batch[n]))
  <2>1. UNCHANGED <<sig, stop>> /\ pc[n] = "slot"
    BY <1>6 DEF Slot
  <2>2. CASE p.ok
    <3>1. pc' = [pc EXCEPT ![n] = "gf"]
      BY <1>6, <2>2 DEF Slot
    <3>2. QED BY <2>1, <3>1, StopFrame DEF TypeOK, Running
  <2>3. CASE ~p.ok
    <3>1. Return(n, p.cache)
      BY <1>6, <2>3 DEF Slot
    <3>2. QED BY <2>1, <3>1, StopReturn DEF Running
  <2>4. QED BY <2>2, <2>3
<1>7. ASSUME NEW n \in Node, SubGraph(n) PROVE StopInv'
  <2>1. UNCHANGED <<sig, stop>> /\ pc[n] = "gf"
    BY <1>7 DEF SubGraph
  <2>2. PICK ch, seen : Compute(n, ch, seen)
    BY <1>7 DEF SubGraph
  <2>3. UNCHANGED pc \/ EndUbatch(n)
    BY <2>2 DEF Compute
  <2>4. CASE UNCHANGED pc
    BY <2>1, <2>4, StopFrame
  <2>5. CASE EndUbatch(n)
    BY <2>1, <2>5, StopReturn DEF EndUbatch, Running
  <2>6. QED BY <2>3, <2>4, <2>5
<1>8. ASSUME NEW n \in Worker,
             AcceptKv(n) \/ AcceptBatch(n) \/ Misread(n) \/ Timeout(n)
      PROVE StopInv'
  <2>1. UNCHANGED <<sig, stop>> /\ n # 0 /\ n \in Node
    BY <1>8, RingAssumption DEF AcceptKv, AcceptBatch, Misread, Timeout, Worker
  <2>2. \/ \E c : Return(n, c)
        \/ \E b, j : StartUbatch(n, b, j)
        \/ pc' = [pc EXCEPT ![n] = "dead"]
    BY <1>8 DEF AcceptKv, AcceptBatch, Misread, Timeout
  <2>3. CASE pc' = [pc EXCEPT ![n] = "dead"]
    BY <2>1, <2>3, StopFrame DEF TypeOK
  <2>4. QED BY <2>1, <2>2, <2>3, StopReturn
<1>9. ASSUME NEW n \in Worker, CheckStop(n) PROVE StopInv'
  <2>1. UNCHANGED <<sig, stop>> /\ n # 0 /\ n \in Node
    BY <1>9, RingAssumption DEF CheckStop, Worker
  <2>2. CASE pc' = [pc EXCEPT ![n] = "idle"]
    BY <2>1, <2>2, StopFrame DEF TypeOK
  <2>3. CASE stop[n] # "none" /\ pc' = [pc EXCEPT ![n] = "off"]
    <3>1. pc'[0] = pc[0] /\ \A m \in Worker : pc'[m] = "off" => stop[m] # "none"
      BY <2>1, <2>3 DEF TypeOK, StopInv
    <3>2. QED BY <2>1, <3>1 DEF StopInv
  <2>4. QED BY <1>9, <2>2, <2>3 DEF CheckStop
<1>10. ASSUME NEW n \in Worker, RelayStop(n) PROVE StopInv'
  BY <1>10, StopRelayed
<1>11. ASSUME NEW n \in Worker, StoreStop(n) PROVE StopInv'
  <2>1. /\ UNCHANGED <<pc, sig>> /\ stop[n] = "writing"
        /\ stop' = [stop EXCEPT ![n] = "STOP"]
    BY <1>11 DEF StoreStop
  <2>2. \A m \in Worker : stop'[m] = "none" <=> stop[m] = "none"
    BY <2>1 DEF TypeOK
  <2>3. QED BY <2>1, <2>2 DEF StopInv
<1>12. CASE UNCHANGED vars
  BY <1>12, StopFrame DEF vars
<1>13. QED
  BY <1>1, <1>2, <1>3, <1>4, <1>5, <1>6, <1>7, <1>8, <1>9, <1>10, <1>11, <1>12
     DEF Next, Main, Wait, Signal, Terminated

LEMMA StopInvImplies == TypeOK /\ StopInv => StopOnce
<1> SUFFICES ASSUME TypeOK, StopInv PROVE StopOnce
  OBVIOUS
<1>1. sig = {} \/ \E x \in Node : sig = {x}
  BY DEF StopInv
<1>2. Cardinality(sig) <= 1
  BY <1>1, FS_EmptySet, FS_Singleton
<1>3. \A n \in sig \ {0} : \A m \in Worker : stop[m] # "none" <=> m < n
  BY DEF StopInv
<1>4. QED BY <1>2, <1>3 DEF StopInv, StopOnce

(* StopOnce: the STOP goes around the ring once, and the master closes its *)
(* sockets, and a worker leaves its main loop, only behind it.             *)
THEOREM StopTheorem == Spec => []StopOnce
<1>1. Init => StopInv
  BY InitStop
<1>2. TypeOK /\ StopInv /\ [Next]_vars => StopInv'
  BY NextStop
<1>3. TypeOK /\ StopInv => StopOnce
  BY StopInvImplies
<1>4. QED BY <1>1, <1>2, <1>3, TypeCorrect, PTL DEF Spec

-----------------------------------------------------------------------------
(***************************************************************************)
(* Agreement: if the application sends every operation and the warm-up run *)
(* starts in time, all nodes go through the same states, every message is  *)
(* read for what it is, and the ring does what one device does.            *)
(***************************************************************************)

(* The application sends every cache operation, and starts in time.        *)
InStep == LocalCmds = {} /\ ~WarmTimesOut

(* What a node's further work depends on, its place in it included.        *)
Phase(n) == IF pc[n] \in {"slot", "gf"} THEN pc[n] ELSE "between"

State(n) == [k |-> acc[n], j |-> ub[n], ph |-> Phase(n), cache |-> cache[n],
             batch |-> batch[n], warm |-> warm[n]]

(* The state that follows s on the commands l; a function of s alone.      *)
Returned(s, k, c) ==
  [k |-> k, j |-> 0, ph |-> "between",
   cache |-> IF s.warm THEN CacheCleared(c) ELSE c, batch |-> <<>>, warm |-> FALSE]

Started(s, k, b, j) ==
  [k |-> k, j |-> j, ph |-> "slot", cache |-> s.cache, batch |-> b, warm |-> s.warm]

Placed(s, c) ==
  [k |-> s.k, j |-> s.j, ph |-> "gf", cache |-> c, batch |-> s.batch, warm |-> s.warm]

AfterBetween(s, cmd) ==
  IF cmd[1] = "kv" THEN Returned(s, s.k + 1, CacheOp(s.cache, cmd[2]))
                   ELSE Started(s, s.k + 1, cmd[2], 1)

AfterSlot(s, p) == IF p.ok THEN Placed(s, p.cache) ELSE Returned(s, s.k, p.cache)

AfterGraphs(s) ==
  IF Len(s.batch) > 1 THEN Started(s, s.k, Tail(s.batch), s.j + 1)
                      ELSE Returned(s, s.k, CacheEnd(s.cache))

After(s, l) ==
  IF s.ph = "between" THEN AfterBetween(s, l[s.k + 1])
  ELSE IF s.ph = "slot" THEN AfterSlot(s, CachePlace(s.cache, Head(s.batch)))
  ELSE AfterGraphs(s)

CanGo(s, l) == s.ph = "between" => s.k < Len(l)

(* s comes before t in the work on the commands.                           *)
Before(s, t) ==
  \/ s.k < t.k
  \/ /\ s.k = t.k /\ s.ph # "between"
     /\ \/ t.ph = "between"
        \/ s.j < t.j
        \/ s.j = t.j /\ s.ph = "slot" /\ t.ph = "gf"

IsState(s, l) ==
  /\ s.k \in 0..Len(l) /\ s.j \in Nat
  /\ s.ph \in {"between", "slot", "gf"}
  /\ s.batch \in Seq(Ubatches)
  /\ s.ph = "between" <=> s.batch = <<>>
  /\ s.ph = "between" => s.j = 0

(* The states 0..T all nodes pass through.                                 *)
History(f, T, l) ==
  /\ T \in Nat
  /\ \A i \in 0..T : IsState(f[i], l)
  /\ \A i \in 0..T-1 : CanGo(f[i], l) /\ f[i+1] = After(f[i], l)
  /\ \A i, j \in 0..T : i < j => Before(f[i], f[j])

IsLog(l) == l \in Seq({"decode", "kv"} \X (Batches \union KvCmds))
            /\ \A i \in 1..Len(l) : l[i][1] = "decode" => l[i][2] \in Batches

(* Where every node is on it.  No worker passes the sub-graphs of an       *)
(* ubatch without the master, nor the master without the workers.          *)
Placing(f, T, pos, l) ==
  /\ pos \in [Node -> 0..T]
  /\ f[pos[0]].k = Len(l)
  /\ \A n \in Worker :
       /\ pos[n] < pos[0] => \A i \in pos[n]..pos[0]-1 : f[i].ph # "gf"
       /\ pos[n] > pos[0] => \A i \in pos[0]+1..pos[n]-1 : f[i].ph # "gf"

Capped(g) == IF g <= Windows THEN g ELSE Windows + 1

(* While the master is in its loop, base + o is the next sub-graph.        *)
Turn(n, base, o) == IF n >= o THEN base + n ELSE base + N + n

Multiple == {N * q : q \in Nat}

Graphs(f, pos, base, o, a) ==
  /\ base \in Multiple /\ o \in Node /\ base + o <= Windows + 1
  /\ a[0] = IF f[pos[0]].ph = "gf" THEN Capped(Turn(0, base, o)) ELSE 0
  /\ \A n \in Worker :
       a[n] = IF f[pos[0]].ph = "gf" /\ pos[n] = pos[0] THEN Turn(n, base, o) ELSE n
  /\ f[pos[0]].ph = "gf" =>
       \A n \in Worker :
         /\ pos[n] < pos[0] => base = 0 /\ o <= n
         /\ pos[n] = pos[0] => Turn(n, base, o) <= Windows
         /\ pos[n] > pos[0] => Turn(n, base, o) > Windows

Pred(o) == IF o = 0 THEN N - 1 ELSE o - 1
Pipe(base, o) == <<Pred(o), IF base + o <= Windows THEN o ELSE 0>>

(* The channel with the hidden state, if it is not the master that has it. *)
InHand(base, o) == base + o = 0 \/ (base + o = Windows + 1 /\ o = 1)

Holds(s, base, o, c) == s.ph = "gf" /\ ~InHand(base, o) /\ c = Pipe(base, o)

(* A channel with the commands k + 1 to m, and then t if h.                *)
Filled(s, l, k, m, h, t) ==
  /\ k <= m
  /\ Len(s) = (m - k) + (IF h THEN 1 ELSE 0)
  /\ \A i \in 1..m-k : s[i] = Ctl(k + i, l[k + i])
  /\ h => s[m - k + 1] = t

Got(f, pos, c)  == IF c[2] = 0 THEN 0 ELSE f[pos[c[2]]].k
Sent(f, pos, c) == IF c[2] = 0 THEN 0 ELSE f[pos[c[1]]].k

Hidden(s, base, o) == Tensor(s.k, s.j, base + o, {s.cache})

Contents(f, pos, base, o, ch, l) ==
  \A c \in Channel :
    Filled(ch[c], l, Got(f, pos, c), Sent(f, pos, c),
           Holds(f[pos[0]], base, o, c), Hidden(f[pos[0]], base, o))

(* What relates the nodes, and with it an inductive invariant.             *)
Agrees(f, T, pos, base, o) ==
  /\ History(f, T, log)
  /\ \A n \in Node : State(n) = f[pos[n]]
  /\ Placing(f, T, pos, log)
  /\ Graphs(f, pos, base, o, at)
  /\ Contents(f, pos, base, o, chan, log)

Agreed(base, o) == \E f, T, pos : Agrees(f, T, pos, base, o)

Agreement == \E base, o : Agreed(base, o)

AgreeInv == TypeInv /\ InStep /\ IsLog(log) /\ Agreement
-----------------------------------------------------------------------------
(* What is used of the remainder.                                          *)
LEMMA UniqueRemainder ==
  ASSUME NEW q \in Int, NEW d \in Int, NEW r \in Node, NEW m \in Node,
         N * q + r = N * d + m
  PROVE  r = m
<1>1. N \in Nat /\ r \in 0..N-1 /\ m \in 0..N-1 /\ N * (q - d) = m - r
  BY RingAssumption DEF Node
<1>2. CASE q > d
  <2>1. N * (q - d) >= N
    BY <1>1, <1>2
  <2>2. QED BY <1>1, <2>1
<1>3. CASE q < d
  <2>1. N * (d - q) >= N /\ N * (d - q) = r - m
    BY <1>1, <1>3
  <2>2. QED BY <1>1, <2>1
<1>4. CASE q = d
  BY <1>1, <1>4
<1>5. QED BY <1>2, <1>3, <1>4

LEMMA MultipleFacts ==
  /\ 0 \in Multiple /\ Multiple \subseteq Nat
  /\ \A x \in Multiple : x + N \in Multiple
  /\ \A x \in Multiple \ {0} : x - N \in Multiple
  /\ \A x \in Multiple, r \in Node : (x + r) % N = r
<1>1. 0 \in Multiple
  <2>1. 0 = N * 0 /\ 0 \in Nat
    BY RingAssumption
  <2>2. QED BY <2>1 DEF Multiple
<1>2. ASSUME NEW q \in Nat PROVE N * q \in Nat /\ N * q + N \in Multiple
  <2>1. N * q \in Nat /\ N * q + N = N * (q + 1) /\ q + 1 \in Nat
    BY RingAssumption
  <2>2. QED BY <2>1 DEF Multiple
<1>3. ASSUME NEW q \in Nat, N * q # 0 PROVE N * q - N \in Multiple
  <2>1. N * q - N = N * (q - 1) /\ q - 1 \in Nat
    BY <1>3, RingAssumption
  <2>2. QED BY <2>1 DEF Multiple
<1>4. ASSUME NEW q \in Nat, NEW r \in Node PROVE (N * q + r) % N = r
  <2> DEFINE x == N * q + r
  <2>1. x \in Nat
    BY RingAssumption DEF Node
  <2> HIDE DEF x
  <2>2. x = N * (x \div N) + (x % N) /\ x % N \in Node /\ x \div N \in Int
    BY <2>1, RingAssumption DEF Node
  <2>3. N * q + r = N * (x \div N) + (x % N)
    BY <2>2 DEF x
  <2>4. r = x % N
    BY <2>2, <2>3, UniqueRemainder
  <2>5. QED BY <2>4 DEF x
<1>5. QED BY <1>1, <1>2, <1>3, <1>4 DEF Multiple
-----------------------------------------------------------------------------
(* Channels: a command is taken from the front or added at the end; a      *)
(* hidden state is at the end.                                             *)
LEMMA TakeCommand ==
  ASSUME NEW s, IsSeq(s), NEW l, NEW k \in Nat, NEW m \in Nat, NEW h \in BOOLEAN, NEW t,
         Filled(s, l, k, m, h, t), k < m
  PROVE  /\ s # <<>> /\ Head(s) = Ctl(k + 1, l[k + 1])
         /\ Filled(Tail(s), l, k + 1, m, h, t)
<1> DEFINE S == {s[i] : i \in 1..Len(s)}
<1>1. s \in Seq(S)
  BY DEF IsSeq
<1> HIDE DEF S
<1>2. Len(s) = (m - k) + (IF h THEN 1 ELSE 0) /\ Len(s) > 0
  BY DEF Filled
<1>3. /\ s # <<>> /\ Head(s) = s[1] /\ Len(Tail(s)) = Len(s) - 1
      /\ \A i \in 1..Len(s)-1 : Tail(s)[i] = s[i+1]
  BY <1>1, <1>2
<1>4. \A i \in 1..m-(k+1) : Tail(s)[i] = Ctl((k+1) + i, l[(k+1) + i])
  <2> TAKE i \in 1..m-(k+1)
  <2>1. i + 1 \in 1..m-k /\ i \in 1..Len(s)-1 /\ k + (i + 1) = (k + 1) + i
    BY <1>2
  <2>2. s[i+1] = Ctl(k + (i+1), l[k + (i+1)])
    BY <2>1 DEF Filled
  <2>3. QED BY <1>3, <2>1, <2>2
<1>5. h => Tail(s)[m - (k+1) + 1] = t
  <2> HAVE h
  <2>1. m - (k+1) + 1 \in 1..Len(s)-1 /\ (m - (k+1) + 1) + 1 = m - k + 1
    BY <1>2
  <2>2. QED BY <1>3, <2>1 DEF Filled
<1>6. Head(s) = Ctl(k + 1, l[k + 1])
  BY <1>3, 1 \in 1..m-k DEF Filled
<1>7. Len(Tail(s)) = (m - (k+1)) + (IF h THEN 1 ELSE 0)
  BY <1>2, <1>3
<1>8. QED BY <1>3, <1>4, <1>5, <1>6, <1>7 DEF Filled

LEMMA AddCommand ==
  ASSUME NEW s, IsSeq(s), NEW l, NEW k \in Nat, NEW m \in Nat, NEW t, NEW t2,
         Filled(s, l, k, m, FALSE, t)
  PROVE  Filled(Append(s, Ctl(m + 1, l[m + 1])), l, k, m + 1, FALSE, t2)
<1> DEFINE S == {s[i] : i \in 1..Len(s)}
           x == Ctl(m + 1, l[m + 1])
<1>1. s \in Seq(S \union {x})
  BY DEF IsSeq
<1>2. Len(s) = m - k /\ k <= m
  BY DEF Filled
<1> HIDE DEF S, x
<1>3. Len(Append(s, x)) = (m + 1) - k
  BY <1>1, <1>2
<1>4. \A i \in 1..(m+1)-k : Append(s, x)[i] = IF i = m - k + 1 THEN x ELSE s[i]
  BY <1>1, <1>2
<1>5. \A i \in 1..(m+1)-k : Append(s, x)[i] = Ctl(k + i, l[k + i])
  <2> TAKE i \in 1..(m+1)-k
  <2>1. CASE i = m - k + 1
    <3>1. k + i = m + 1
      BY <2>1
    <3>2. QED BY <1>4, <2>1, <3>1 DEF x
  <2>2. CASE i # m - k + 1
    <3>1. i \in 1..m-k
      BY <2>2
    <3>2. QED BY <1>4, <2>2, <3>1 DEF Filled
  <2>3. QED BY <2>1, <2>2
<1>6. QED BY <1>2, <1>3, <1>5 DEF Filled, x

LEMMA TakeTensor ==
  ASSUME NEW s, IsSeq(s), NEW l, NEW k \in Nat, NEW t, NEW t2, Filled(s, l, k, k, TRUE, t)
  PROVE  s # <<>> /\ Head(s) = t /\ Filled(Tail(s), l, k, k, FALSE, t2)
<1> DEFINE S == {s[i] : i \in 1..Len(s)}
<1>1. s \in Seq(S)
  BY DEF IsSeq
<1> HIDE DEF S
<1>2. Len(s) = 1 /\ s[1] = t
  <2>1. k - k = 0 /\ k - k + 1 = 1
    OBVIOUS
  <2>2. QED BY <2>1 DEF Filled
<1>3. s # <<>> /\ Head(s) = s[1] /\ Len(Tail(s)) = 0
  BY <1>1, <1>2
<1>4. k - k = 0 /\ 1..k-k = {}
  OBVIOUS
<1>5. QED BY <1>2, <1>3, <1>4 DEF Filled

LEMMA AddTensor ==
  ASSUME NEW s, IsSeq(s), NEW l, NEW k \in Nat, NEW m \in Nat, NEW t, NEW t2,
         Filled(s, l, k, m, FALSE, t2)
  PROVE  Filled(Append(s, t), l, k, m, TRUE, t)
<1> DEFINE S == {s[i] : i \in 1..Len(s)}
<1>1. s \in Seq(S \union {t})
  BY DEF IsSeq
<1>2. Len(s) = m - k /\ k <= m
  BY DEF Filled
<1> HIDE DEF S
<1>3. /\ Len(Append(s, t)) = (m - k) + 1
      /\ Append(s, t)[m - k + 1] = t
      /\ \A i \in 1..m-k : Append(s, t)[i] = s[i]
  BY <1>1, <1>2
<1>4. QED BY <1>2, <1>3 DEF Filled

(* An empty channel, and one that is not.                                  *)
LEMMA FirstMessage ==
  ASSUME NEW s, IsSeq(s), NEW l, NEW k \in Nat, NEW m \in Nat, NEW h \in BOOLEAN, NEW t,
         Filled(s, l, k, m, h, t)
  PROVE  /\ s = <<>> <=> k = m /\ ~h
         /\ s # <<>> => Head(s) = IF k < m THEN Ctl(k + 1, l[k + 1]) ELSE t
<1>1. Len(s) = (m - k) + (IF h THEN 1 ELSE 0) /\ k <= m
  BY DEF Filled
<1>2. Len(s) = 0 <=> k = m /\ ~h
  BY <1>1
<1>3. s = <<>> <=> Len(s) = 0
  BY DEF IsSeq
<1>4. CASE k < m
  BY <1>2, <1>3, <1>4, TakeCommand
<1>5. CASE k = m /\ h
  <2>1. Filled(s, l, k, k, TRUE, t)
    BY <1>5
  <2>2. s # <<>> /\ Head(s) = t
    BY <2>1, TakeTensor
  <2>3. QED BY <1>5, <2>2
<1>6. CASE k = m /\ ~h
  BY <1>2, <1>3, <1>6
<1>7. k < m \/ k = m
  BY <1>1
<1>8. QED BY <1>4, <1>5, <1>6, <1>7

-----------------------------------------------------------------------------
(* The states of the nodes.                                                *)
LEMMA RestOfBatch ==
  ASSUME NEW S, NEW b \in Seq(S), Len(b) > 1
  PROVE  Tail(b) \in Seq(S) /\ Tail(b) # <<>>
<1>1. Tail(b) \in Seq(S) /\ Len(Tail(b)) = Len(b) - 1 /\ Len(b) \in Nat
  OBVIOUS
<1>2. Len(Tail(b)) # 0
  BY <1>1
<1>3. QED BY <1>1, <1>2, EmptySeq

LEMMA AfterIsState ==
  ASSUME NEW l, IsLog(l), NEW s, IsState(s, l), CanGo(s, l)
  PROVE  IsState(After(s, l), l) /\ Before(s, After(s, l))
<1> USE DEF IsState, Before
<1>0. Len(l) \in Nat /\ s.k \in Nat /\ s.j \in Nat
  BY DEF IsLog
<1>1. ASSUME NEW k \in 0..Len(l), NEW c PROVE IsState(Returned(s, k, c), l)
  BY DEF Returned
<1>2. CASE s.ph = "between"
  <2>1. s.k + 1 \in 1..Len(l)
    BY <1>0, <1>2 DEF CanGo
  <2>2. CASE l[s.k + 1][1] = "kv"
    BY <1>0, <1>1, <1>2, <2>1, <2>2 DEF After, AfterBetween, Returned
  <2>3. CASE l[s.k + 1][1] # "kv"
    <3>1. l[s.k + 1] \in {"decode", "kv"} \X (Batches \union KvCmds)
      BY <2>1 DEF IsLog
    <3>2. l[s.k + 1][2] \in Batches
      BY <2>1, <2>3, <3>1 DEF IsLog
    <3>3. l[s.k + 1][2] \in Seq(Ubatches) /\ l[s.k + 1][2] # <<>>
      BY <3>2, RingAssumption
    <3>4. QED BY <1>0, <1>2, <2>1, <2>3, <3>3 DEF After, AfterBetween, Started
  <2>4. QED BY <2>2, <2>3
<1>3. CASE s.ph = "slot"
  <2> DEFINE p == CachePlace(s.cache, Head(s.batch))
  <2>1. After(s, l) = AfterSlot(s, p)
    BY <1>3 DEF After
  <2> HIDE DEF p
  <2>2. CASE p.ok
    BY <1>0, <1>3, <2>1, <2>2 DEF AfterSlot, Placed
  <2>3. CASE ~p.ok
    BY <1>0, <1>1, <1>3, <2>1, <2>3 DEF AfterSlot, Returned
  <2>4. QED BY <2>2, <2>3
<1>4. CASE s.ph = "gf"
  <2>1. After(s, l) = AfterGraphs(s) /\ s.batch \in Seq(Ubatches) /\ s.batch # <<>>
    BY <1>4 DEF After
  <2>2. CASE Len(s.batch) > 1
    <3>1. Tail(s.batch) \in Seq(Ubatches) /\ Tail(s.batch) # <<>>
      BY <2>1, <2>2, RestOfBatch
    <3>2. QED BY <1>0, <1>4, <2>1, <2>2, <3>1 DEF AfterGraphs, Started
  <2>3. CASE ~(Len(s.batch) > 1)
    BY <1>0, <1>1, <1>4, <2>1, <2>3 DEF AfterGraphs, Returned
  <2>4. QED BY <2>2, <2>3
<1>5. QED BY <1>2, <1>3, <1>4

LEMMA BeforeFacts ==
  ASSUME NEW l, IsLog(l), NEW s, NEW t, NEW u, IsState(s, l), IsState(t, l), IsState(u, l)
  PROVE  /\ Before(s, t) /\ Before(t, u) => Before(s, u)
         /\ ~Before(s, s)
<1>1. Len(l) \in Nat
  BY DEF IsLog
<1>2. QED BY <1>1 DEF IsState, Before

(* A history goes on as soon as a node does.                               *)
LEMMA ExtendHistory ==
  ASSUME NEW f, NEW T, NEW l, History(f, T, l), IsLog(l),
         NEW i \in 0..T, CanGo(f[i], l)
  PROVE  \E f2, T2 : /\ History(f2, T2, l) /\ T <= T2 /\ i + 1 <= T2
                     /\ \A j \in 0..T : f2[j] = f[j]
                     /\ f2[i + 1] = After(f[i], l)
<1>0. T \in Nat
  BY DEF History
<1>1. CASE i < T
  <2>1. i + 1 <= T /\ i \in 0..T-1
    BY <1>0, <1>1
  <2>2. f[i + 1] = After(f[i], l)
    BY <2>1 DEF History
  <2>3. QED BY <1>0, <2>1, <2>2
<1>2. CASE i = T
  <2> DEFINE f2 == [j \in Nat |-> IF j = T + 1 THEN After(f[T], l) ELSE f[j]]
  <2>1. \A j \in 0..T : f2[j] = f[j]
    BY <1>0
  <2>2. f2[T + 1] = After(f[T], l)
    BY <1>0
  <2> HIDE DEF f2
  <2>3. IsState(f[T], l) /\ \A j \in 0..T : IsState(f[j], l)
    BY <1>2 DEF History
  <2>4. IsState(f2[T + 1], l) /\ Before(f2[T], f2[T + 1])
    BY <1>2, <2>1, <2>2, <2>3, AfterIsState
  <2>5. \A j \in 0..T+1 : IsState(f2[j], l)
    <3> TAKE j \in 0..T+1
    <3>1. j = T + 1 \/ j \in 0..T
      BY <1>0
    <3>2. QED BY <2>1, <2>3, <2>4, <3>1
  <2>6. \A j \in 0..(T+1)-1 : CanGo(f2[j], l) /\ f2[j + 1] = After(f2[j], l)
    <3> TAKE j \in 0..(T+1)-1
    <3>1. CASE j = T
      BY <1>2, <2>1, <2>2, <3>1
    <3>2. CASE j # T
      <4>1. j \in 0..T-1 /\ j \in 0..T /\ j + 1 \in 0..T
        BY <1>0, <3>2
      <4>2. CanGo(f[j], l) /\ f[j + 1] = After(f[j], l)
        BY <4>1 DEF History
      <4>3. QED BY <2>1, <4>1, <4>2
    <3>3. QED BY <3>1, <3>2
  <2>7. \A j, m \in 0..T+1 : j < m => Before(f2[j], f2[m])
    <3> TAKE j, m \in 0..T+1
    <3> HAVE j < m
    <3>1. CASE m = T + 1
      <4>1. j \in 0..T
        BY <1>0, <3>1
      <4>2. j = T \/ Before(f2[j], f2[T])
        BY <1>0, <2>1, <4>1 DEF History
      <4>3. QED BY <2>4, <2>5, <3>1, <4>1, <4>2, BeforeFacts, <1>0
    <3>2. CASE m # T + 1
      <4>1. j \in 0..T /\ m \in 0..T
        BY <1>0, <3>2
      <4>2. QED BY <2>1, <4>1 DEF History
    <3>3. QED BY <3>1, <3>2
  <2>8. History(f2, T + 1, l)
    BY <1>0, <2>5, <2>6, <2>7 DEF History
  <2>9. QED BY <1>0, <1>2, <2>1, <2>2, <2>8
<1>3. QED BY <1>0, <1>1, <1>2

(* One more command changes nothing in what has been.                      *)
LEMMA MoreCommands ==
  ASSUME NEW f, NEW T, NEW l, History(f, T, l), IsLog(l), NEW cmd
  PROVE  History(f, T, Append(l, cmd))
<1>1. T \in Nat /\ Len(l) \in Nat /\ Len(Append(l, cmd)) = Len(l) + 1
  BY DEF History, IsLog
<1>2. \A x \in 1..Len(l) : Append(l, cmd)[x] = l[x]
  BY DEF IsLog
<1>3. \A i \in 0..T : IsState(f[i], Append(l, cmd))
  BY <1>1 DEF History, IsState
<1>4. \A i \in 0..T-1 :
         CanGo(f[i], Append(l, cmd)) /\ f[i+1] = After(f[i], Append(l, cmd))
  <2> TAKE i \in 0..T-1
  <2>1. CanGo(f[i], l) /\ f[i+1] = After(f[i], l) /\ IsState(f[i], l)
    BY <1>1 DEF History
  <2>2. f[i].ph = "between" => f[i].k + 1 \in 1..Len(l)
    BY <1>1, <2>1 DEF CanGo, IsState
  <2>3. After(f[i], Append(l, cmd)) = After(f[i], l)
    BY <1>2, <2>2 DEF After
  <2>4. QED BY <1>1, <2>1, <2>3 DEF CanGo, IsState
<1>5. QED BY <1>1, <1>3, <1>4 DEF History

-----------------------------------------------------------------------------
(* What a node finds in its channels.                                      *)
LEMMA ChannelFacts ==
  \A c \in Channel : /\ c[1] \in Node /\ c[2] \in Node /\ c = <<c[1], c[2]>>
                     /\ c[2] # 0 => c[2] \in Worker /\ c[1] = c[2] - 1
<1> TAKE c \in Channel
<1>1. CASE \E n \in Node : c = <<n, Succ(n)>>
  BY <1>1, RingAssumption DEF Node, Worker, Succ
<1>2. CASE \E n \in Worker : c = <<n, 0>>
  BY <1>2, RingAssumption DEF Node, Worker
<1>3. QED BY <1>1, <1>2 DEF Channel

(* Who is with the master or ahead of it has got all commands.             *)
LEMMA CommandsGot ==
  ASSUME NEW f, NEW T, NEW pos, NEW l, History(f, T, l), IsLog(l), Placing(f, T, pos, l),
         NEW n \in Node
  PROVE  /\ pos[n] \in 0..T /\ T \in Nat /\ Len(l) \in Nat
         /\ IsState(f[pos[n]], l) /\ f[pos[n]].k \in 0..Len(l)
         /\ pos[n] >= pos[0] => f[pos[n]].k = Len(l)
         /\ pos[n] < pos[0] /\ f[pos[n]].ph = "between" => f[pos[n]].k < Len(l)
<1>1. pos[n] \in 0..T /\ pos[0] \in 0..T /\ T \in Nat /\ Len(l) \in Nat /\ f[pos[0]].k = Len(l)
  BY RingFacts DEF History, IsLog, Placing
<1>2. IsState(f[pos[n]], l)
  BY <1>1 DEF History
<1>3. f[pos[n]].k \in 0..Len(l)
  BY <1>2 DEF IsState
<1>4. ASSUME pos[n] >= pos[0] PROVE f[pos[n]].k = Len(l)
  <2>1. CASE pos[n] = pos[0]
    BY <1>1, <2>1
  <2>2. CASE pos[0] < pos[n]
    <3>1. Before(f[pos[0]], f[pos[n]])
      BY <1>1, <2>2 DEF History
    <3>2. QED BY <1>1, <1>3, <3>1 DEF Before
  <2>3. QED BY <1>1, <1>4, <2>1, <2>2
<1>5. ASSUME pos[n] < pos[0], f[pos[n]].ph = "between" PROVE f[pos[n]].k < Len(l)
  <2>1. Before(f[pos[n]], f[pos[0]])
    BY <1>1, <1>5 DEF History
  <2>2. QED BY <1>1, <1>3, <1>5, <2>1 DEF Before
<1>6. QED BY <1>1, <1>2, <1>3, <1>4, <1>5

(* The last message of a channel, or the only one.                         *)
LEMMA Messages ==
  ASSUME NEW f, NEW T, NEW pos, NEW base, NEW o, Agrees(f, T, pos, base, o),
         TypeInv, IsLog(log), NEW c \in Channel
  PROVE  LET k == Got(f, pos, c)
             m == Sent(f, pos, c)
             h == Holds(f[pos[0]], base, o, c)
             t == Hidden(f[pos[0]], base, o)
         IN  /\ IsSeq(chan[c]) /\ k \in Nat /\ m \in Nat /\ h \in BOOLEAN
             /\ Filled(chan[c], log, k, m, h, t) /\ k <= m
             /\ chan[c] = <<>> <=> k = m /\ ~h
             /\ chan[c] # <<>> => Head(chan[c]) = IF k < m THEN Ctl(k + 1, log[k + 1]) ELSE t
<1> DEFINE k == Got(f, pos, c)
           m == Sent(f, pos, c)
           h == Holds(f[pos[0]], base, o, c)
           t == Hidden(f[pos[0]], base, o)
<1>1. c[1] \in Node /\ c[2] \in Node
  BY ChannelFacts
<1>2. \A n \in Node : f[pos[n]].k \in Nat
  BY CommandsGot DEF Agrees
<1>3. /\ IsSeq(chan[c]) /\ k \in Nat /\ m \in Nat /\ h \in BOOLEAN
      /\ Filled(chan[c], log, k, m, h, t)
  BY <1>1, <1>2 DEF Agrees, Contents, TypeInv, ChannelsOK, Got, Sent, Holds
<1> HIDE DEF k, m, h, t
<1>4. k <= m
  BY <1>3 DEF Filled
<1>5. /\ chan[c] = <<>> <=> k = m /\ ~h
      /\ chan[c] # <<>> => Head(chan[c]) = IF k < m THEN Ctl(k + 1, log[k + 1]) ELSE t
  <2>1. CASE h
    <3>1. Filled(chan[c], log, k, m, TRUE, t)
      BY <1>3, <2>1
    <3>2. /\ chan[c] # <<>>
          /\ Head(chan[c]) = IF k < m THEN Ctl(k + 1, log[k + 1]) ELSE t
      BY <1>3, <3>1, FirstMessage
    <3>3. QED BY <2>1, <3>2
  <2>2. CASE ~h
    <3>1. Filled(chan[c], log, k, m, FALSE, t)
      BY <1>3, <2>2
    <3>2. /\ chan[c] = <<>> <=> k = m
          /\ chan[c] # <<>> => Head(chan[c]) = IF k < m THEN Ctl(k + 1, log[k + 1]) ELSE t
      BY <1>3, <3>1, FirstMessage
    <3>3. QED BY <2>2, <3>2
  <2>3. QED BY <2>1, <2>2
<1>6. QED BY <1>3, <1>4, <1>5 DEF k, m, h, t

(* A worker between two batches finds the next command, and one in its     *)
(* loop finds the input of its next sub-graph.                             *)
LEMMA WorkerReads ==
  ASSUME NEW f, NEW T, NEW pos, NEW base, NEW o, Agrees(f, T, pos, base, o),
         TypeInv, IsLog(log), NEW n \in Worker, chan[<<n - 1, n>>] # <<>>
  PROVE  LET s == f[pos[n]]
             P == f[pos[0]]
             m == Head(chan[<<n - 1, n>>])
         IN  /\ s.ph = "between" =>
                  /\ s.k < f[pos[n - 1]].k
                  /\ m = Ctl(s.k + 1, log[s.k + 1])
             /\ s.ph = "gf" =>
                  /\ pos[n] = pos[0] /\ P.ph = "gf" /\ ~InHand(base, o)
                  /\ o = n /\ at[n] = base + o /\ base + o <= Windows
                  /\ f[pos[n - 1]].k = s.k
                  /\ m = Hidden(P, base, o)
<1> DEFINE c == <<n - 1, n>>
           s == f[pos[n]]
           P == f[pos[0]]
<1>1. c \in Channel /\ n \in Node /\ n - 1 \in Node /\ n # 0 /\ 0 \in Node /\ n \in Nat
  <2>1. n # 0 /\ n \in Nat
    BY RingAssumption DEF Worker
  <2>2. QED BY <2>1, RingFacts
<1>2. Got(f, pos, c) = s.k /\ Sent(f, pos, c) = f[pos[n - 1]].k
  BY <1>1 DEF Got, Sent
<1>3. s.k \in 0..Len(log) /\ f[pos[n - 1]].k \in 0..Len(log) /\ Len(log) \in Nat
  BY <1>1, CommandsGot DEF Agrees
<1>4. pos[n] \in Nat /\ pos[0] \in Nat
  BY <1>1, CommandsGot DEF Agrees
<1>5. /\ s.k <= f[pos[n - 1]].k
      /\ s.k < f[pos[n - 1]].k \/ Holds(P, base, o, c)
      /\ Head(chan[c]) = IF s.k < f[pos[n - 1]].k THEN Ctl(s.k + 1, log[s.k + 1])
                                                  ELSE Hidden(P, base, o)
  <2>1. /\ Got(f, pos, c) <= Sent(f, pos, c)
        /\ chan[c] = <<>> <=> Got(f, pos, c) = Sent(f, pos, c) /\ ~Holds(P, base, o, c)
        /\ Head(chan[c]) = IF Got(f, pos, c) < Sent(f, pos, c)
                           THEN Ctl(Got(f, pos, c) + 1, log[Got(f, pos, c) + 1])
                           ELSE Hidden(P, base, o)
    BY <1>1, Messages
  <2>2. QED BY <1>2, <1>3, <2>1
<1>6. Graphs(f, pos, base, o, at) /\ Placing(f, T, pos, log)
  BY DEF Agrees
<1>7. ASSUME Holds(P, base, o, c)
      PROVE  /\ P.ph = "gf" /\ ~InHand(base, o) /\ base + o <= Windows /\ o = n
             /\ Turn(n, base, o) = base + o /\ pos[n] <= pos[0]
  <2>1. P.ph = "gf" /\ ~InHand(base, o) /\ c = Pipe(base, o)
    BY <1>7 DEF Holds
  <2>2. base + o <= Windows /\ o = n
    BY <1>1, <2>1 DEF Pipe
  <2>3. Turn(n, base, o) = base + o
    BY <1>1, <2>2 DEF Turn
  <2>4. ~(Turn(n, base, o) > Windows)
    BY <1>1, <1>6, <2>2, <2>3, RingAssumption, MultipleFacts DEF Graphs
  <2>5. QED BY <1>4, <1>6, <2>1, <2>2, <2>3, <2>4 DEF Graphs
<1>8. ASSUME s.ph = "between" PROVE s.k < f[pos[n - 1]].k
  <2> SUFFICES ASSUME ~(s.k < f[pos[n - 1]].k) PROVE FALSE
    OBVIOUS
  <2>1. Holds(P, base, o, c)
    BY <1>5
  <2>2. P.ph = "gf" /\ pos[n] <= pos[0] /\ o = n /\ base + o <= Windows
    BY <1>7, <2>1
  <2>3. pos[n] < pos[0]
    BY <1>4, <1>8, <2>2
  <2>4. s.k < Len(log)
    BY <1>1, <1>8, <2>3, CommandsGot DEF Agrees
  <2>5. pos[n - 1] < pos[0]
    <3>1. pos[n - 1] >= pos[0] => f[pos[n - 1]].k = Len(log)
      BY <1>1, CommandsGot DEF Agrees
    <3>2. pos[n - 1] \in Nat
      BY <1>1, CommandsGot DEF Agrees
    <3>3. QED BY <1>3, <1>4, <1>5, <2>4, <3>1, <3>2
  <2>6. n - 1 \in Worker
    BY <1>1, <1>4, <2>5 DEF Node, Worker
  <2>7. o <= n - 1
    BY <1>6, <2>2, <2>5, <2>6 DEF Graphs
  <2>8. QED BY <1>1, <2>2, <2>7
<1>9. ASSUME s.ph = "gf"
      PROVE  /\ pos[n] = pos[0] /\ P.ph = "gf" /\ ~InHand(base, o)
             /\ o = n /\ at[n] = base + o /\ base + o <= Windows
             /\ f[pos[n - 1]].k = s.k
             /\ Head(chan[c]) = Hidden(P, base, o)
  <2>1. ~(pos[n] < pos[0])
    <3> SUFFICES ASSUME pos[n] < pos[0] PROVE FALSE
      OBVIOUS
    <3>1. pos[n] \in pos[n]..pos[0]-1
      BY <1>4
    <3>2. QED BY <1>6, <1>9, <3>1 DEF Placing
  <2>2. s.k = Len(log)
    BY <1>1, <1>4, <2>1, CommandsGot DEF Agrees
  <2>3. f[pos[n - 1]].k = s.k /\ ~(s.k < f[pos[n - 1]].k)
    BY <1>3, <1>5, <2>2
  <2>4. Holds(P, base, o, c) /\ Head(chan[c]) = Hidden(P, base, o)
    BY <1>5, <2>3
  <2>5. /\ P.ph = "gf" /\ ~InHand(base, o) /\ base + o <= Windows /\ o = n
        /\ Turn(n, base, o) = base + o /\ pos[n] = pos[0]
    BY <1>4, <1>7, <2>1, <2>4
  <2>6. at[n] = base + o
    BY <1>6, <2>5 DEF Graphs
  <2>7. QED BY <2>3, <2>4, <2>5, <2>6
<1>10. QED BY <1>5, <1>8, <1>9

(* The master only finds the input of its next sub-graph.                  *)
LEMMA MasterReads ==
  ASSUME NEW f, NEW T, NEW pos, NEW base, NEW o, Agrees(f, T, pos, base, o),
         TypeInv, IsLog(log), NEW c \in Channel, c[2] = 0, chan[c] # <<>>
  PROVE  /\ f[pos[0]].ph = "gf" /\ ~InHand(base, o) /\ c = Pipe(base, o)
         /\ at[0] = base + o /\ (o = 0 \/ base + o = Windows + 1)
         /\ Head(chan[c]) = Hidden(f[pos[0]], base, o)
<1> DEFINE P == f[pos[0]]
<1>1. Got(f, pos, c) = 0 /\ Sent(f, pos, c) = 0
  BY DEF Got, Sent
<1>2. Holds(P, base, o, c) /\ Head(chan[c]) = Hidden(P, base, o)
  BY <1>1, Messages
<1>3. P.ph = "gf" /\ ~InHand(base, o) /\ c = Pipe(base, o)
  BY <1>2 DEF Holds
<1>4. /\ base \in Nat /\ o \in Node /\ base + o <= Windows + 1
      /\ at[0] = Capped(Turn(0, base, o))
  BY <1>3, MultipleFacts DEF Agrees, Graphs
<1>5. o = 0 \/ ~(base + o <= Windows)
  BY <1>3 DEF Pipe
<1>6. CASE o = 0
  <2>1. at[0] = base + o
    BY <1>4, <1>6, RingAssumption DEF Capped, Turn, Node
  <2>2. QED BY <1>2, <1>3, <1>6, <2>1
<1>7. CASE o # 0
  <2>1. o \in 1..N-1 /\ base + o = Windows + 1
    BY <1>4, <1>5, <1>7, RingAssumption DEF Node
  <2>2. base + N > Windows /\ ~(0 >= o)
    BY <1>4, <2>1, RingAssumption
  <2>3. at[0] = Windows + 1
    BY <1>4, <2>2, RingAssumption DEF Capped, Turn
  <2>4. QED BY <1>2, <1>3, <2>1, <2>3
<1>8. QED BY <1>2, <1>3, <1>6, <1>7

-----------------------------------------------------------------------------
(* What the actions do to the states of the nodes.                         *)
LEMMA ReturnState ==
  ASSUME TypeOK, NEW n \in Node, NEW c, Return(n, c), NEW k,
         acc' = [acc EXCEPT ![n] = k]
  PROVE  /\ State(n)' = Returned(State(n), k, c)
         /\ \A m \in Node \ {n} : State(m)' = State(m)
         /\ at' = [at EXCEPT ![n] = n]
<1>1. pc'[n] \notin {"slot", "gf"}
  BY DEF TypeOK, Return
<1>2. /\ acc'[n] = k /\ ub'[n] = 0 /\ batch'[n] = <<>> /\ warm'[n] = FALSE
      /\ cache'[n] = IF warm[n] THEN CacheCleared(c) ELSE c
  BY DEF TypeOK, Return
<1>3. State(n)' = Returned(State(n), k, c)
  BY <1>1, <1>2 DEF State, Phase, Returned
<1>4. \A m \in Node \ {n} : State(m)' = State(m)
  BY DEF TypeOK, Return, State, Phase
<1>5. QED BY <1>3, <1>4 DEF Return, FirstGraph

LEMMA StartState ==
  ASSUME TypeOK, NEW n \in Node, NEW b, NEW j, StartUbatch(n, b, j),
         UNCHANGED <<cache, warm>>, NEW k, acc' = [acc EXCEPT ![n] = k]
  PROVE  /\ State(n)' = Started(State(n), k, b, j)
         /\ \A m \in Node \ {n} : State(m)' = State(m)
         /\ at' = [at EXCEPT ![n] = n]
<1>1. /\ pc'[n] = "slot" /\ acc'[n] = k /\ ub'[n] = j /\ batch'[n] = b
      /\ warm'[n] = warm[n] /\ cache'[n] = cache[n]
  BY DEF TypeOK, StartUbatch
<1>2. State(n)' = Started(State(n), k, b, j)
  BY <1>1 DEF State, Phase, Started
<1>3. \A m \in Node \ {n} : State(m)' = State(m)
  BY DEF TypeOK, StartUbatch, State, Phase
<1>4. QED BY <1>2, <1>3 DEF StartUbatch, FirstGraph

LEMMA SlotState ==
  ASSUME TypeOK, NEW n \in Node, Slot(n), NEW l, at[n] = n
  PROVE  /\ State(n).ph = "slot" /\ State(n)' = After(State(n), l)
         /\ \A m \in Node \ {n} : State(m)' = State(m)
         /\ at' = at
<1> DEFINE p == CachePlace(cache[n], Head(batch[n]))
<1>1. State(n).ph = "slot" /\ After(State(n), l) = AfterSlot(State(n), p)
  BY DEF Slot, State, Phase, After
<1>2. acc' = [acc EXCEPT ![n] = acc[n]] /\ at = [at EXCEPT ![n] = n]
  BY DEF Slot, TypeOK
<1>3. CASE p.ok
  <2>1. /\ pc' = [pc EXCEPT ![n] = "gf"] /\ cache' = [cache EXCEPT ![n] = p.cache]
        /\ UNCHANGED <<batch, ub, at, warm, acc>>
    BY <1>3 DEF Slot, decoding
  <2>2. State(n)' = Placed(State(n), p.cache)
    BY <2>1 DEF TypeOK, State, Phase, Placed
  <2>3. \A m \in Node \ {n} : State(m)' = State(m)
    BY <2>1 DEF TypeOK, State, Phase
  <2>4. QED BY <1>1, <1>3, <2>1, <2>2, <2>3 DEF AfterSlot
<1>4. CASE ~p.ok
  <2>1. Return(n, p.cache) /\ State(n).k = acc[n]
    BY <1>4 DEF Slot, State
  <2>2. QED BY <1>1, <1>2, <1>4, <2>1, ReturnState DEF AfterSlot
<1>5. QED BY <1>3, <1>4

LEMMA EndUbatchState ==
  ASSUME TypeOK, NEW n \in Node, pc[n] = "gf", EndUbatch(n), UNCHANGED acc, NEW l
  PROVE  /\ State(n).ph = "gf" /\ State(n)' = After(State(n), l)
         /\ \A m \in Node \ {n} : State(m)' = State(m)
         /\ at' = [at EXCEPT ![n] = n]
<1>1. State(n).ph = "gf" /\ After(State(n), l) = AfterGraphs(State(n))
  BY DEF State, Phase, After
<1>2. acc' = [acc EXCEPT ![n] = acc[n]]
  BY DEF TypeOK
<1>3. /\ State(n).k = acc[n] /\ State(n).batch = batch[n] /\ State(n).j = ub[n]
      /\ State(n).cache = cache[n]
  BY DEF State
<1>4. CASE Len(batch[n]) > 1
  <2>1. StartUbatch(n, Tail(batch[n]), ub[n] + 1) /\ UNCHANGED <<cache, warm>>
    BY <1>4 DEF EndUbatch
  <2>2. AfterGraphs(State(n)) = Started(State(n), acc[n], Tail(batch[n]), ub[n] + 1)
    BY <1>3, <1>4 DEF AfterGraphs
  <2>3. /\ State(n)' = Started(State(n), acc[n], Tail(batch[n]), ub[n] + 1)
        /\ \A m \in Node \ {n} : State(m)' = State(m)
        /\ at' = [at EXCEPT ![n] = n]
    BY <1>2, <2>1, StartState
  <2>4. QED BY <1>1, <2>2, <2>3
<1>5. CASE ~(Len(batch[n]) > 1)
  <2>1. Return(n, CacheEnd(cache[n]))
    BY <1>5 DEF EndUbatch
  <2>2. QED BY <1>1, <1>2, <1>3, <1>5, <2>1, ReturnState DEF AfterGraphs
<1>6. QED BY <1>4, <1>5

(* A step that moves nobody keeps the agreement.                           *)
LEMMA StandStill ==
  ASSUME NEW f, NEW T, NEW pos, NEW base, NEW o, Agrees(f, T, pos, base, o),
         \A n \in Node : State(n)' = State(n), UNCHANGED <<at, chan, log>>
  PROVE  Agreed(base, o)'
BY DEF Agrees, Agreed

(* The next state of a node, if it has one, is in some history; l are the  *)
(* commands it knows of.                                                   *)
LEMMA ReachOn ==
  ASSUME NEW f, NEW T, NEW pos, NEW base, NEW o, Agrees(f, T, pos, base, o),
         NEW l, IsLog(l), History(f, T, l), NEW n \in Node, CanGo(f[pos[n]], l)
  PROVE  \E f2, T2 : /\ History(f2, T2, l) /\ \A m \in Node : State(m) = f2[pos[m]]
                     /\ Placing(f2, T2, pos, log) /\ Graphs(f2, pos, base, o, at)
                     /\ Contents(f2, pos, base, o, chan, log)
                     /\ T2 \in Nat /\ pos[n] + 1 \in 0..T2
                     /\ f2[pos[n] + 1] = After(State(n), l)
<1>1. /\ History(f, T, log) /\ Placing(f, T, pos, log) /\ Graphs(f, pos, base, o, at)
      /\ Contents(f, pos, base, o, chan, log)
  BY DEF Agrees
<1>2. T \in Nat /\ 0 \in Node /\ \A m \in Node : pos[m] \in 0..T
  BY <1>1, RingFacts DEF History, Placing
<1>3. PICK f2, T2 : /\ History(f2, T2, l) /\ T <= T2 /\ pos[n] + 1 <= T2
                    /\ \A j \in 0..T : f2[j] = f[j]
                    /\ f2[pos[n] + 1] = After(f[pos[n]], l)
  BY <1>1, <1>2, ExtendHistory
<1>4. T2 \in Nat /\ \A m \in Node : pos[m] \in 0..T2 /\ f2[pos[m]] = f[pos[m]]
  BY <1>2, <1>3 DEF History
<1>5. \A m \in Node : State(m) = f2[pos[m]]
  BY <1>4 DEF Agrees
<1>6. Placing(f2, T2, pos, log)
  <2>1. ASSUME NEW m \in Worker, pos[m] < pos[0], NEW i \in pos[m]..pos[0]-1
        PROVE  f2[i].ph # "gf"
    <3>1. i \in 0..T
      BY <1>2, <2>1, RingFacts
    <3>2. QED BY <1>1, <1>3, <2>1, <3>1 DEF Placing
  <2>2. ASSUME NEW m \in Worker, pos[m] > pos[0], NEW i \in pos[0]+1..pos[m]-1
        PROVE  f2[i].ph # "gf"
    <3>1. i \in 0..T
      BY <1>2, <2>2, RingFacts
    <3>2. QED BY <1>1, <1>3, <2>2, <3>1 DEF Placing
  <2>3. pos \in [Node -> 0..T2]
    BY <1>1, <1>4 DEF Placing
  <2>4. QED BY <1>1, <1>2, <1>4, <2>1, <2>2, <2>3 DEF Placing
<1>7. Graphs(f2, pos, base, o, at)
  BY <1>1, <1>2, <1>4 DEF Graphs
<1>8. Contents(f2, pos, base, o, chan, log)
  BY <1>1, <1>2, <1>4, ChannelFacts DEF Contents, Got, Sent, Hidden
<1>9. f2[pos[n] + 1] = After(State(n), l)
  BY <1>3 DEF Agrees
<1>10. pos[n] + 1 \in 0..T2
  BY <1>2, <1>3, <1>4
<1>11. QED BY <1>3, <1>4, <1>5, <1>6, <1>7, <1>8, <1>9, <1>10

LEMMA Reach ==
  ASSUME NEW f, NEW T, NEW pos, NEW base, NEW o, Agrees(f, T, pos, base, o), IsLog(log),
         NEW n \in Node, CanGo(f[pos[n]], log)
  PROVE  \E f2, T2 : /\ Agrees(f2, T2, pos, base, o)
                     /\ pos[n] + 1 \in 0..T2
                     /\ f2[pos[n] + 1] = After(State(n), log)
<1>1. History(f, T, log)
  BY DEF Agrees
<1>2. QED BY <1>1, ReachOn DEF Agrees

-----------------------------------------------------------------------------
(* How the relations between the nodes survive a step.                     *)
Forth(pos, n) == [pos EXCEPT ![n] = @ + 1]

LEMMA Moves ==
  ASSUME NEW f, NEW T, NEW pos, NEW n \in Node, NEW b, NEW p,
         \A m \in Node : State(m) = f[pos[m]],
         pos \in [Node -> 0..T],
         State(n)' = f[pos[n] + 1],
         \A m \in Node \ {n} : State(m)' = State(m),
         History(f, T, log'),
         Placing(f, T, Forth(pos, n), log'),
         Graphs(f, Forth(pos, n), b, p, at'),
         Contents(f, Forth(pos, n), b, p, chan', log')
  PROVE  Agreed(b, p)'
<1>1. \A m \in Node : State(m)' = f[Forth(pos, n)[m]]
  BY DEF Forth
<1>2. Agrees(f, T, Forth(pos, n), b, p)'
  BY <1>1 DEF Agrees
<1>3. QED BY <1>2 DEF Agreed

LEMMA PlacingWorker ==
  ASSUME NEW f, NEW T \in Nat, NEW pos, NEW l, Placing(f, T, pos, l), NEW n \in Worker,
         pos[n] + 1 \in 0..T, f[pos[n]].ph = "gf" => pos[n] = pos[0]
  PROVE  Placing(f, T, Forth(pos, n), l)
<1>1. /\ pos \in [Node -> 0..T] /\ n # 0 /\ n \in Node /\ 0 \in Node
      /\ \A m \in Worker : m \in Node
  BY RingFacts, RingAssumption DEF Placing, Worker
<1>2. /\ Forth(pos, n) \in [Node -> 0..T] /\ Forth(pos, n)[0] = pos[0]
      /\ \A m \in Node : Forth(pos, n)[m] = IF m = n THEN pos[n] + 1 ELSE pos[m]
  BY <1>1 DEF Forth
<1>3. ASSUME NEW m \in Worker
      PROVE  /\ Forth(pos, n)[m] < pos[0] =>
                  \A i \in Forth(pos, n)[m]..pos[0]-1 : f[i].ph # "gf"
             /\ Forth(pos, n)[m] > pos[0] =>
                  \A i \in pos[0]+1..Forth(pos, n)[m]-1 : f[i].ph # "gf"
  <2>1. pos[m] \in Nat /\ pos[0] \in Nat /\ m \in Node
    BY <1>1
  <2>2. /\ pos[m] < pos[0] => \A i \in pos[m]..pos[0]-1 : f[i].ph # "gf"
        /\ pos[m] > pos[0] => \A i \in pos[0]+1..pos[m]-1 : f[i].ph # "gf"
    BY DEF Placing
  <2>3. CASE m # n
    BY <1>2, <2>1, <2>2, <2>3
  <2>4. CASE m = n
    <3>1. Forth(pos, n)[m] = pos[m] + 1
      BY <1>2, <2>1, <2>4
    <3>2. pos[m] > pos[0] => f[pos[m]].ph # "gf"
      BY <2>1, <2>4
    <3>3. QED BY <2>1, <2>2, <3>1, <3>2
  <2>5. QED BY <2>3, <2>4
<1>4. QED BY <1>2, <1>3 DEF Placing

LEMMA PlacingMaster ==
  ASSUME NEW f, NEW T \in Nat, NEW pos, NEW l, Placing(f, T, pos, l), NEW l2,
         pos[0] + 1 \in 0..T, f[pos[0] + 1].k = Len(l2),
         f[pos[0]].ph = "gf" => \A m \in Worker : pos[m] > pos[0]
  PROVE  Placing(f, T, Forth(pos, 0), l2)
<1>1. /\ pos \in [Node -> 0..T] /\ 0 \in Node
      /\ \A m \in Worker : m \in Node /\ m # 0
  BY RingFacts, RingAssumption DEF Placing, Worker
<1>2. /\ Forth(pos, 0) \in [Node -> 0..T] /\ Forth(pos, 0)[0] = pos[0] + 1
      /\ \A m \in Worker : Forth(pos, 0)[m] = pos[m]
  BY <1>1 DEF Forth
<1>3. ASSUME NEW m \in Worker
      PROVE  /\ pos[m] < pos[0] + 1 => \A i \in pos[m]..(pos[0]+1)-1 : f[i].ph # "gf"
             /\ pos[m] > pos[0] + 1 => \A i \in (pos[0]+1)+1..pos[m]-1 : f[i].ph # "gf"
  <2>1. pos[m] \in Nat /\ pos[0] \in Nat
    BY <1>1
  <2>2. /\ pos[m] < pos[0] => \A i \in pos[m]..pos[0]-1 : f[i].ph # "gf"
        /\ pos[m] > pos[0] => \A i \in pos[0]+1..pos[m]-1 : f[i].ph # "gf"
    BY DEF Placing
  <2>3. pos[m] <= pos[0] => f[pos[0]].ph # "gf"
    BY <2>1
  <2>4. QED BY <2>1, <2>2, <2>3
<1>4. QED BY <1>2, <1>3 DEF Placing

(* A worker goes on outside of its loop over the sub-graphs.               *)
LEMMA GraphsWorker ==
  ASSUME NEW f, NEW T \in Nat, NEW pos \in [Node -> 0..T], NEW base, NEW o, NEW a, NEW a2,
         Graphs(f, pos, base, o, a), NEW n \in Worker, f[pos[n]].ph # "gf",
         \A m \in Node \ {n} : a2[m] = a[m], a2[n] = n
  PROVE  Graphs(f, Forth(pos, n), base, o, a2)
<1>1. /\ n # 0 /\ n \in Node /\ 0 \in Node /\ n \in Nat /\ n <= Windows
      /\ \A m \in Worker : m \in Node
  BY RingFacts, RingAssumption DEF Worker, Node
<1>2. /\ Forth(pos, n)[0] = pos[0] /\ \A m \in Node : pos[m] \in Nat
      /\ \A m \in Node : Forth(pos, n)[m] = IF m = n THEN pos[n] + 1 ELSE pos[m]
  BY <1>1 DEF Forth
<1>3. ASSUME f[pos[0]].ph = "gf", pos[n] < pos[0]
      PROVE  base = 0 /\ o <= n /\ Turn(n, base, o) = n
  BY <1>1, <1>3, RingAssumption DEF Graphs, Turn, Node
<1>4. ASSUME NEW m \in Worker
      PROVE  a2[m] = IF f[pos[0]].ph = "gf" /\ Forth(pos, n)[m] = pos[0]
                     THEN Turn(m, base, o) ELSE m
  <2>1. CASE m # n
    BY <1>1, <1>2, <2>1 DEF Graphs
  <2>2. CASE m = n
    BY <1>1, <1>2, <1>3, <2>2
  <2>3. QED BY <2>1, <2>2
<1>5. ASSUME NEW m \in Worker, f[pos[0]].ph = "gf"
      PROVE  /\ Forth(pos, n)[m] < pos[0] => base = 0 /\ o <= m
             /\ Forth(pos, n)[m] = pos[0] => Turn(m, base, o) <= Windows
             /\ Forth(pos, n)[m] > pos[0] => Turn(m, base, o) > Windows
  <2>1. CASE m # n
    BY <1>1, <1>2, <1>5, <2>1 DEF Graphs
  <2>2. CASE m = n
    <3>1. Forth(pos, n)[m] = pos[n] + 1 /\ pos[n] # pos[0]
      BY <1>1, <1>2, <1>5, <2>2
    <3>2. pos[n] > pos[0] => Turn(n, base, o) > Windows
      BY <1>5 DEF Graphs
    <3>3. QED BY <1>1, <1>2, <1>3, <1>5, <2>2, <3>1, <3>2
  <2>3. QED BY <2>1, <2>2
<1>6. QED BY <1>1, <1>2, <1>4, <1>5 DEF Graphs

(* The master begins an ubatch or a batch, or ends one.                    *)
LEMMA GraphsMaster ==
  ASSUME NEW f, NEW T \in Nat, NEW pos, NEW l, NEW base, NEW o, NEW a, NEW a2,
         Graphs(f, pos, base, o, a), Placing(f, T, pos, l),
         \A m \in Worker : a2[m] = a[m], a2[0] = 0,
         f[pos[0]].ph = "gf" => /\ f[pos[0] + 1].ph # "gf"
                                /\ \A m \in Worker : pos[m] > pos[0]
  PROVE  Graphs(f, Forth(pos, 0), 0, 0, a2)
<1>1. /\ pos \in [Node -> 0..T] /\ 0 \in Node
      /\ \A m \in Worker : m \in Node /\ m \in Nat /\ m # 0 /\ m <= Windows
  BY RingFacts, RingAssumption DEF Placing, Worker
<1>2. /\ Forth(pos, 0)[0] = pos[0] + 1
      /\ \A m \in Worker : Forth(pos, 0)[m] = pos[m]
  BY <1>1 DEF Forth
<1>3. \A m \in Node : m \in Nat /\ Turn(m, 0, 0) = m
  BY RingAssumption DEF Turn, Node
<1>4. 0 \in Multiple /\ 0 + 0 <= Windows + 1 /\ Capped(0) = 0
  BY MultipleFacts, RingAssumption DEF Capped
<1>5. \A m \in Worker : a2[m] = m
  <2> TAKE m \in Worker
  <2>1. pos[m] \in Nat /\ pos[0] \in Nat
    BY <1>1
  <2>2. ~(f[pos[0]].ph = "gf" /\ pos[m] = pos[0])
    BY <2>1
  <2>3. QED BY <2>2 DEF Graphs
<1>6. ASSUME NEW m \in Worker, f[pos[0] + 1].ph = "gf"
      PROVE  ~(pos[m] > pos[0] + 1)
  <2> SUFFICES ASSUME pos[m] > pos[0] + 1 PROVE FALSE
    OBVIOUS
  <2>1. pos[m] \in Nat /\ pos[0] \in Nat
    BY <1>1
  <2>2. pos[0] + 1 \in pos[0]+1..pos[m]-1
    BY <2>1
  <2>3. QED BY <1>6, <2>1, <2>2 DEF Placing
<1>7. QED BY <1>1, <1>2, <1>3, <1>4, <1>5, <1>6 DEF Graphs

(* The hidden state passes from the owner of sub-graph base + o to the     *)
(* next one.                                                               *)
NextBase(base, o) == IF o = N - 1 THEN base + N ELSE base

LEMMA TurnPasses ==
  ASSUME NEW base \in Multiple, NEW o \in Node
  PROVE  LET b == NextBase(base, o)
             p == Succ(o)
         IN  /\ b \in Multiple /\ p \in Node /\ b + p = base + o + 1
             /\ Pred(p) = o
             /\ p = IF o = N - 1 THEN 0 ELSE o + 1
             /\ Turn(o, base, o) = base + o
             /\ Turn(o, b, p) = base + o + N
             /\ \A m \in Node \ {o} : Turn(m, b, p) = Turn(m, base, o)
<1>1. base \in Nat /\ o \in 0..N-1 /\ N \in Nat /\ N >= 2
  BY MultipleFacts, RingAssumption DEF Node
<1>2. CASE o = N - 1
  <2>1. Succ(o) = 0 /\ NextBase(base, o) = base + N
    BY <1>1, <1>2, RingAssumption DEF Succ, NextBase
  <2>2. base + N \in Multiple /\ 0 \in Node /\ (base + N) + 0 = base + o + 1
    BY <1>1, <1>2, MultipleFacts DEF Node
  <2>3. Pred(0) = o
    BY <1>1, <1>2 DEF Pred
  <2>4. Turn(o, base, o) = base + o /\ Turn(o, base + N, 0) = base + o + N
    BY <1>1, <1>2 DEF Turn
  <2>5. \A m \in Node \ {o} : Turn(m, base + N, 0) = Turn(m, base, o)
    BY <1>1, <1>2 DEF Turn, Node
  <2>6. QED BY <1>2, <2>1, <2>2, <2>3, <2>4, <2>5
<1>3. CASE o # N - 1
  <2>1. Succ(o) = o + 1 /\ NextBase(base, o) = base /\ o + 1 # 0 /\ o + 1 \in Node
    BY <1>1, <1>3, RingAssumption DEF Succ, NextBase, Node
  <2>2. QED BY <1>1, <1>3, <2>1 DEF Turn, Pred, Node
<1>4. QED BY <1>2, <1>3

(* A worker has done a sub-graph, and that was not its last one.           *)
LEMMA GraphsPass ==
  ASSUME NEW f, NEW T \in Nat, NEW pos \in [Node -> 0..T], NEW base, NEW o, NEW a, NEW a2,
         Graphs(f, pos, base, o, a), f[pos[0]].ph = "gf", pos[o] = pos[0],
         base + o <= Windows,
         o # 0 => base + o + N <= Windows,
         \A m \in Node \ {o} : a2[m] = a[m], a2[o] = NextGraph(base + o)
  PROVE  Graphs(f, pos, NextBase(base, o), Succ(o), a2)
<1> DEFINE b == NextBase(base, o)
           p == Succ(o)
<1>1. /\ base \in Multiple /\ o \in Node /\ base \in Nat /\ o \in Nat
      /\ \A m \in Worker : m \in Node /\ m # 0 /\ m \in Nat
      /\ 0 \in Node
  BY MultipleFacts, RingFacts, RingAssumption DEF Graphs, Worker
<1>2. /\ b \in Multiple /\ p \in Node /\ b + p = base + o + 1
      /\ p = IF o = N - 1 THEN 0 ELSE o + 1
      /\ Turn(o, b, p) = base + o + N
      /\ \A m \in Node \ {o} : Turn(m, b, p) = Turn(m, base, o)
  BY <1>1, TurnPasses
<1> HIDE DEF b, p
<1>3. b + p <= Windows + 1
  BY <1>1, <1>2, RingAssumption
<1>4. NextGraph(base + o) = Capped(base + o + N)
  BY DEF NextGraph, Capped
<1>5. a2[0] = Capped(Turn(0, b, p))
  <2>1. CASE o = 0
    BY <1>2, <1>4, <2>1
  <2>2. CASE o # 0
    BY <1>1, <1>2, <2>2 DEF Graphs
  <2>3. QED BY <2>1, <2>2
<1>6. ASSUME NEW m \in Worker
      PROVE  /\ a2[m] = IF pos[m] = pos[0] THEN Turn(m, b, p) ELSE m
             /\ pos[m] < pos[0] => b = 0 /\ p <= m
             /\ pos[m] = pos[0] => Turn(m, b, p) <= Windows
             /\ pos[m] > pos[0] => Turn(m, b, p) > Windows
  <2>1. CASE m = o
    <3>1. Capped(base + o + N) = base + o + N
      BY <1>1, <2>1 DEF Capped
    <3>2. QED BY <1>1, <1>2, <1>4, <2>1, <3>1
  <2>2. CASE m # o
    <3>1. /\ a2[m] = IF pos[m] = pos[0] THEN Turn(m, b, p) ELSE m
          /\ pos[m] < pos[0] => base = 0 /\ o <= m
          /\ pos[m] = pos[0] => Turn(m, b, p) <= Windows
          /\ pos[m] > pos[0] => Turn(m, b, p) > Windows
      BY <1>1, <1>2, <2>2 DEF Graphs
    <3>2. ASSUME base = 0, o <= m PROVE b = 0 /\ p <= m
      <4>1. m \in 0..N-1 /\ o < m
        BY <1>1, <2>2, <3>2 DEF Node
      <4>2. o # N - 1
        BY <1>1, <4>1, RingAssumption
      <4>3. QED BY <1>1, <1>2, <3>2, <4>1, <4>2 DEF b, NextBase
    <3>3. QED BY <3>1, <3>2
  <2>3. QED BY <2>1, <2>2
<1>7. QED BY <1>2, <1>3, <1>5, <1>6 DEF Graphs, b, p

(* A worker has done its last sub-graph.                                   *)
LEMMA GraphsDone ==
  ASSUME NEW f, NEW T \in Nat, NEW pos \in [Node -> 0..T], NEW base, NEW o, NEW a, NEW a2,
         Graphs(f, pos, base, o, a), f[pos[0]].ph = "gf", o \in Worker, pos[o] = pos[0],
         base + o <= Windows, base + o + N > Windows,
         \A m \in Node \ {o} : a2[m] = a[m], a2[o] = o
  PROVE  Graphs(f, Forth(pos, o), NextBase(base, o), Succ(o), a2)
<1> DEFINE b == NextBase(base, o)
           p == Succ(o)
<1>1. /\ base \in Multiple /\ o \in Node /\ base \in Nat /\ o \in Nat /\ o # 0
      /\ \A m \in Worker : m \in Node /\ m # 0 /\ m \in Nat
      /\ 0 \in Node
  <2>1. \A m \in Worker : m # 0 /\ m \in Nat
    BY RingAssumption DEF Worker
  <2>2. QED BY <2>1, MultipleFacts, RingFacts DEF Graphs
<1>2. /\ b \in Multiple /\ p \in Node /\ b + p = base + o + 1
      /\ p = IF o = N - 1 THEN 0 ELSE o + 1
      /\ Turn(o, b, p) = base + o + N
      /\ \A m \in Node \ {o} : Turn(m, b, p) = Turn(m, base, o)
  BY <1>1, TurnPasses
<1> HIDE DEF b, p
<1>3. b + p <= Windows + 1
  BY <1>1, <1>2, RingAssumption
<1>4. a2[0] = Capped(Turn(0, b, p))
  BY <1>1, <1>2 DEF Graphs
<1>5. /\ Forth(pos, o)[0] = pos[0] /\ Forth(pos, o)[o] = pos[0] + 1
      /\ \A m \in Node \ {o} : Forth(pos, o)[m] = pos[m]
      /\ \A m \in Node : pos[m] \in Nat
  BY <1>1 DEF Forth
<1>6. ASSUME NEW m \in Worker
      PROVE  /\ a2[m] = IF Forth(pos, o)[m] = pos[0] THEN Turn(m, b, p) ELSE m
             /\ Forth(pos, o)[m] < pos[0] => b = 0 /\ p <= m
             /\ Forth(pos, o)[m] = pos[0] => Turn(m, b, p) <= Windows
             /\ Forth(pos, o)[m] > pos[0] => Turn(m, b, p) > Windows
  <2>1. CASE m = o
    BY <1>1, <1>2, <1>5, <2>1
  <2>2. CASE m # o
    <3>1. /\ a2[m] = IF pos[m] = pos[0] THEN Turn(m, b, p) ELSE m
          /\ pos[m] < pos[0] => base = 0 /\ o <= m
          /\ pos[m] = pos[0] => Turn(m, b, p) <= Windows
          /\ pos[m] > pos[0] => Turn(m, b, p) > Windows
      BY <1>1, <1>2, <2>2 DEF Graphs
    <3>2. ASSUME base = 0, o <= m PROVE b = 0 /\ p <= m
      <4>1. m \in 0..N-1 /\ o < m
        BY <1>1, <2>2, <3>2 DEF Node
      <4>2. o # N - 1
        BY <1>1, <4>1, RingAssumption
      <4>3. QED BY <1>1, <1>2, <3>2, <4>1, <4>2 DEF b, NextBase
    <3>3. QED BY <1>1, <1>5, <2>2, <3>1, <3>2
  <2>3. QED BY <2>1, <2>2
<1>7. QED BY <1>2, <1>3, <1>4, <1>5, <1>6 DEF Graphs, b, p

-----------------------------------------------------------------------------
(* How the contents of the channels survive a step.  H are the channels    *)
(* with a hidden state, t is that state.                                   *)
Carries(f, pos, ch, l, H, t) ==
  \A c \in Channel : Filled(ch[c], l, Got(f, pos, c), Sent(f, pos, c), c \in H, t)

LEMMA NoneHeld ==
  ASSUME NEW f, NEW pos, NEW base, NEW o, NEW ch, NEW l,
         f[pos[0]].ph # "gf" \/ InHand(base, o)
  PROVE  /\ Contents(f, pos, base, o, ch, l) =>
              \A t : Carries(f, pos, ch, l, {}, t)
         /\ \A t : Carries(f, pos, ch, l, {}, t) => Contents(f, pos, base, o, ch, l)
<1>1. \A c : Holds(f[pos[0]], base, o, c) = (c \in {})
  BY DEF Holds
<1>2. \A s, k, m, t, t2 : Filled(s, l, k, m, FALSE, t) = Filled(s, l, k, m, FALSE, t2)
  BY DEF Filled
<1>3. \A c : (c \in {}) = FALSE
  OBVIOUS
<1>4. QED BY <1>1, <1>2, <1>3 DEF Contents, Carries

LEMMA OneHeld ==
  ASSUME NEW f, NEW pos, NEW base, NEW o, NEW ch, NEW l,
         f[pos[0]].ph = "gf", ~InHand(base, o)
  PROVE  Contents(f, pos, base, o, ch, l)
           <=> Carries(f, pos, ch, l, {Pipe(base, o)}, Hidden(f[pos[0]], base, o))
<1>1. \A c : Holds(f[pos[0]], base, o, c) = (c \in {Pipe(base, o)})
  BY DEF Holds
<1>2. QED BY <1>1 DEF Contents, Carries

LEMMA TakeHidden ==
  ASSUME NEW f, NEW pos, NEW ch, ChannelsOK(ch), NEW l, NEW c \in Channel, NEW t, NEW t2,
         Carries(f, pos, ch, l, {c}, t),
         Got(f, pos, c) \in Nat, Sent(f, pos, c) = Got(f, pos, c)
  PROVE  Carries(f, pos, Pop(ch, c), l, {}, t2)
<1>1. IsSeq(ch[c]) /\ DOMAIN ch = Channel
  BY DEF ChannelsOK
<1>2. Filled(ch[c], l, Got(f, pos, c), Got(f, pos, c), TRUE, t)
  <2>1. (c \in {c}) = TRUE
    OBVIOUS
  <2>2. QED BY <2>1 DEF Carries
<1>3. Filled(Tail(ch[c]), l, Got(f, pos, c), Got(f, pos, c), FALSE, t2)
  BY <1>1, <1>2, TakeTensor
<1>4. ASSUME NEW x \in Channel, x # c PROVE Filled(ch[x], l, Got(f, pos, x), Sent(f, pos, x), FALSE, t2)
  <2>1. (x \in {c}) = FALSE
    BY <1>4
  <2>2. Filled(ch[x], l, Got(f, pos, x), Sent(f, pos, x), FALSE, t)
    BY <2>1 DEF Carries
  <2>3. QED BY <2>2 DEF Filled
<1>5. \A x \in Channel : Pop(ch, c)[x] = IF x = c THEN Tail(ch[c]) ELSE ch[x]
  BY <1>1 DEF Pop
<1>6. \A x : (x \in {}) = FALSE
  OBVIOUS
<1>7. QED BY <1>3, <1>4, <1>5, <1>6 DEF Carries

LEMMA AddHidden ==
  ASSUME NEW f, NEW pos, NEW ch, ChannelsOK(ch), NEW l, NEW c \in Channel, NEW t, NEW t2,
         Carries(f, pos, ch, l, {}, t),
         Got(f, pos, c) \in Nat, Sent(f, pos, c) \in Nat
  PROVE  Carries(f, pos, Push(ch, c, t2), l, {c}, t2)
<1>1. IsSeq(ch[c]) /\ DOMAIN ch = Channel
  BY DEF ChannelsOK
<1>2. \A x \in Channel : Filled(ch[x], l, Got(f, pos, x), Sent(f, pos, x), FALSE, t)
  <2> TAKE x \in Channel
  <2>1. (x \in {}) = FALSE
    OBVIOUS
  <2>2. QED BY <2>1 DEF Carries
<1>3. Filled(Append(ch[c], t2), l, Got(f, pos, c), Sent(f, pos, c), TRUE, t2)
  BY <1>1, <1>2, AddTensor
<1>4. \A x \in Channel : Filled(ch[x], l, Got(f, pos, x), Sent(f, pos, x), FALSE, t2)
  BY <1>2 DEF Filled
<1>5. \A x \in Channel : Push(ch, c, t2)[x] = IF x = c THEN Append(ch[c], t2) ELSE ch[x]
  BY <1>1 DEF Push
<1>6. (c \in {c}) = TRUE /\ \A x \in Channel \ {c} : (x \in {c}) = FALSE
  OBVIOUS
<1>7. QED BY <1>3, <1>4, <1>5, <1>6 DEF Carries

(* A node goes on without sending or receiving.                            *)
LEMMA CarriesOn ==
  ASSUME NEW f, NEW T \in Nat, NEW pos \in [Node -> 0..T], NEW ch, NEW l, NEW H, NEW t,
         NEW n \in Node, f[pos[n] + 1].k = f[pos[n]].k,
         Carries(f, pos, ch, l, H, t)
  PROVE  Carries(f, Forth(pos, n), ch, l, H, t)
<1>1. \A m \in Node : f[Forth(pos, n)[m]].k = f[pos[m]].k
  BY DEF Forth
<1>2. \A c \in Channel : /\ Got(f, Forth(pos, n), c) = Got(f, pos, c)
                         /\ Sent(f, Forth(pos, n), c) = Sent(f, pos, c)
  BY <1>1, ChannelFacts DEF Got, Sent
<1>3. QED BY <1>2 DEF Carries

(* The master sends command m + 1.                                         *)
LEMMA MasterSends ==
  ASSUME NEW f, NEW T \in Nat, NEW pos \in [Node -> 0..T], NEW ch, ChannelsOK(ch),
         NEW l, IsLog(l), NEW cmd, NEW t,
         \A n \in Node : f[pos[n]].k \in 0..Len(l),
         f[pos[0]].k = Len(l), f[pos[0] + 1].k = Len(l) + 1,
         Carries(f, pos, ch, l, {}, t)
  PROVE  Carries(f, Forth(pos, 0), Push(ch, <<0, 1>>, Ctl(Len(l) + 1, cmd)),
                 Append(l, cmd), {}, t)
<1> DEFINE c == <<0, 1>>
           L == Append(l, cmd)
           q == Forth(pos, 0)
<1>1. /\ c \in Channel /\ 0 \in Node /\ 1 \in Node /\ IsSeq(ch[c]) /\ DOMAIN ch = Channel
      /\ \A n \in Worker : n \in Node /\ n # 0
  BY RingFacts, RingAssumption DEF ChannelsOK, Worker
<1>2. Len(l) \in Nat /\ L[Len(l) + 1] = cmd /\ \A i \in 1..Len(l) : L[i] = l[i]
  BY DEF IsLog
<1> HIDE DEF L
<1>3. /\ f[q[0]].k = Len(l) + 1
      /\ \A n \in Node \ {0} : f[q[n]].k = f[pos[n]].k
  BY <1>1 DEF Forth
<1>4. \A x \in Channel : x[1] = 0 /\ x[2] # 0 => x = c
  BY ChannelFacts, RingAssumption DEF Worker
<1>5. /\ \A x \in Channel : Got(f, q, x) = Got(f, pos, x)
      /\ \A x \in Channel \ {c} : Sent(f, q, x) = Sent(f, pos, x)
      /\ \A x \in Channel : Got(f, pos, x) \in Nat /\ Sent(f, pos, x) \in 0..Len(l)
      /\ Sent(f, pos, c) = Len(l) /\ Sent(f, q, c) = Len(l) + 1
  BY <1>1, <1>2, <1>3, <1>4, ChannelFacts DEF Got, Sent
<1>6. \A x \in Channel : Filled(ch[x], L, Got(f, pos, x), Sent(f, pos, x), FALSE, t)
  <2> TAKE x \in Channel
  <2>1. Filled(ch[x], l, Got(f, pos, x), Sent(f, pos, x), FALSE, t)
    <3>1. (x \in {}) = FALSE
      OBVIOUS
    <3>2. QED BY <3>1 DEF Carries
  <2>2. \A i \in 1..Sent(f, pos, x) - Got(f, pos, x) :
           L[Got(f, pos, x) + i] = l[Got(f, pos, x) + i]
    BY <1>2, <1>5
  <2>3. QED BY <2>1, <2>2 DEF Filled
<1>7. Filled(Append(ch[c], Ctl(Len(l) + 1, cmd)), L, Got(f, pos, c), Len(l) + 1, FALSE, t)
  BY <1>1, <1>2, <1>5, <1>6, AddCommand
<1>8. \A x \in Channel : Push(ch, c, Ctl(Len(l) + 1, cmd))[x]
                           = IF x = c THEN Append(ch[c], Ctl(Len(l) + 1, cmd)) ELSE ch[x]
  BY <1>1 DEF Push
<1>9. \A x : (x \in {}) = FALSE
  OBVIOUS
<1>10. QED BY <1>5, <1>6, <1>7, <1>8, <1>9 DEF Carries, L

(* A worker takes a command, and sends it on unless it is the last.        *)
LEMMA WorkerTakes ==
  ASSUME NEW f, NEW T \in Nat, NEW pos \in [Node -> 0..T], NEW ch, ChannelsOK(ch),
         NEW l, NEW H, NEW t, NEW n \in Worker,
         \A m \in Node : f[pos[m]].k \in Nat,
         f[pos[n]].k < f[pos[n - 1]].k, f[pos[n] + 1].k = f[pos[n]].k + 1,
         <<n, Succ(n)>> \notin H,
         Carries(f, pos, ch, l, H, t)
  PROVE  Carries(f, Forth(pos, n),
                 Forward(n, Pop(ch, <<n - 1, n>>), Head(ch[<<n - 1, n>>])), l, H, t)
<1> DEFINE c == <<n - 1, n>>
           d == <<n, Succ(n)>>
           q == Forth(pos, n)
           x0 == Head(ch[c])
           k == f[pos[n]].k
           ch2 == Forward(n, Pop(ch, c), x0)
<1>1. /\ c \in Channel /\ d \in Channel /\ n \in Node /\ n - 1 \in Node /\ 0 \in Node
      /\ Succ(n) \in Node /\ IsSeq(ch[c]) /\ IsSeq(ch[d]) /\ DOMAIN ch = Channel
  BY RingFacts DEF ChannelsOK
<1>2. /\ n # 0 /\ n - 1 # n /\ c # d /\ n \in Nat
      /\ n = N - 1 => Succ(n) = 0
      /\ n # N - 1 => Succ(n) = n + 1 /\ Succ(n) # 0
  <2>1. n \in 1..N-1 /\ N \in Nat
    BY RingAssumption DEF Worker
  <2>2. n # 0 /\ n - 1 # n /\ n \in Nat
    BY <2>1
  <2>3. c # d
    BY <2>2
  <2>4. n = N - 1 => Succ(n) = 0
    BY <2>1, RingAssumption DEF Succ
  <2>5. ASSUME n # N - 1 PROVE Succ(n) = n + 1 /\ Succ(n) # 0
    <3>1. n + 1 \in 1..N-1
      BY <2>1, <2>5
    <3>2. n + 1 \in Node /\ 0 + (n + 1) = n + 1
      BY <2>1, <3>1 DEF Node
    <3>3. (0 + (n + 1)) % N = n + 1
      BY <3>2, MultipleFacts
    <3>4. QED BY <3>1, <3>2, <3>3 DEF Succ
  <2>6. QED BY <2>2, <2>3, <2>4, <2>5
<1>3. /\ f[q[n]].k = k + 1
      /\ \A m \in Node \ {n} : f[q[m]].k = f[pos[m]].k
  BY <1>1 DEF Forth
<1>4. \A x \in Channel : /\ x[2] = n => x = c
                         /\ x[1] = n /\ x[2] # 0 => x = d /\ n # N - 1
  <2> TAKE x \in Channel
  <2>1. x = <<x[1], x[2]>> /\ x[2] \in Node /\ (x[2] # 0 => x[2] \in Worker /\ x[1] = x[2] - 1)
    BY ChannelFacts
  <2>2. x[2] = n => x = c
    BY <1>2, <2>1
  <2>3. ASSUME x[1] = n, x[2] # 0 PROVE x = d /\ n # N - 1
    <3>1. x[2] \in 1..N-1 /\ x[2] = n + 1
      BY <1>2, <2>1, <2>3 DEF Worker
    <3>2. n # N - 1
      BY <3>1, RingAssumption
    <3>3. QED BY <1>2, <2>1, <2>3, <3>1, <3>2
  <2>4. QED BY <2>2, <2>3
<1>5. /\ \A x \in Channel : Got(f, pos, x) \in Nat /\ Sent(f, pos, x) \in Nat
      /\ Got(f, pos, c) = k /\ Sent(f, pos, c) = f[pos[n - 1]].k
      /\ Got(f, q, c) = k + 1 /\ Sent(f, q, c) = Sent(f, pos, c)
  BY <1>1, <1>2, <1>3, ChannelFacts DEF Got, Sent
<1>6. n # N - 1 => /\ Got(f, q, d) = Got(f, pos, d)
                   /\ Sent(f, pos, d) = k /\ Sent(f, q, d) = k + 1
  BY <1>1, <1>2, <1>3 DEF Got, Sent
<1>7. \A x \in Channel \ {c} : (x = d /\ n # N - 1) \/
                               (Got(f, q, x) = Got(f, pos, x) /\ Sent(f, q, x) = Sent(f, pos, x))
  BY <1>1, <1>2, <1>3, <1>4, ChannelFacts DEF Got, Sent
<1>8. x0 = Ctl(k + 1, l[k + 1]) /\ Filled(Tail(ch[c]), l, k + 1, Sent(f, pos, c), c \in H, t)
  <2>1. Filled(ch[c], l, k, Sent(f, pos, c), c \in H, t)
    BY <1>1, <1>5 DEF Carries
  <2>2. k \in Nat /\ Sent(f, pos, c) \in Nat /\ k < Sent(f, pos, c)
    BY <1>1, <1>5
  <2> HIDE DEF k
  <2>3. CASE c \in H
    <3>1. (c \in H) = TRUE
      BY <2>3
    <3>2. Filled(ch[c], l, k, Sent(f, pos, c), TRUE, t)
      BY <2>1, <3>1
    <3>3. /\ Head(ch[c]) = Ctl(k + 1, l[k + 1])
          /\ Filled(Tail(ch[c]), l, k + 1, Sent(f, pos, c), TRUE, t)
      BY <1>1, <2>2, <3>2, TakeCommand
    <3>4. QED BY <3>1, <3>3
  <2>4. CASE c \notin H
    <3>1. (c \in H) = FALSE
      BY <2>4
    <3>2. Filled(ch[c], l, k, Sent(f, pos, c), FALSE, t)
      BY <2>1, <3>1
    <3>3. /\ Head(ch[c]) = Ctl(k + 1, l[k + 1])
          /\ Filled(Tail(ch[c]), l, k + 1, Sent(f, pos, c), FALSE, t)
      BY <1>1, <2>2, <3>2, TakeCommand
    <3>4. QED BY <3>1, <3>3
  <2>5. QED BY <2>3, <2>4
<1>9. n # N - 1 => Filled(Append(ch[d], x0), l, Got(f, pos, d), k + 1, d \in H, t)
  <2> HAVE n # N - 1
  <2>1. (d \in H) = FALSE /\ k \in Nat
    BY <1>1
  <2>2. Filled(ch[d], l, Got(f, pos, d), k, FALSE, t)
    BY <1>1, <1>6, <2>1 DEF Carries
  <2> HIDE DEF k, x0
  <2>3. Filled(Append(ch[d], Ctl(k + 1, l[k + 1])), l, Got(f, pos, d), k + 1, FALSE, t)
    BY <1>1, <1>5, <2>1, <2>2, AddCommand
  <2>4. QED BY <1>8, <2>1, <2>3
<1>10. \A x \in Channel :
          ch2[x] = IF x = c THEN Tail(ch[c])
                   ELSE IF x = d /\ n # N - 1 THEN Append(ch[d], x0) ELSE ch[x]
  <2> HIDE DEF x0
  <2>1. \A x \in Channel : Pop(ch, c)[x] = IF x = c THEN Tail(ch[c]) ELSE ch[x]
    BY <1>1 DEF Pop
  <2>2. DOMAIN Pop(ch, c) = Channel
    BY <1>1 DEF Pop
  <2>3. \A x \in Channel :
           Push(Pop(ch, c), d, x0)[x] = IF x = d THEN Append(Pop(ch, c)[d], x0) ELSE Pop(ch, c)[x]
    BY <1>1, <2>2 DEF Push
  <2>4. QED BY <1>1, <1>2, <2>1, <2>3 DEF Forward
<1> HIDE DEF ch2, x0, k, q
<1>11. ASSUME NEW x \in Channel
       PROVE Filled(ch2[x], l, Got(f, q, x), Sent(f, q, x), x \in H, t)
  <2>1. CASE x = c
    BY <1>1, <1>5, <1>8, <1>10, <2>1
  <2>2. CASE x = d /\ n # N - 1
    BY <1>1, <1>2, <1>6, <1>9, <1>10, <2>2
  <2>3. CASE x # c /\ ~(x = d /\ n # N - 1)
    <3>1. Filled(ch[x], l, Got(f, pos, x), Sent(f, pos, x), x \in H, t)
      BY DEF Carries
    <3>2. QED BY <1>7, <1>10, <2>3, <3>1
  <2>4. QED BY <2>1, <2>2, <2>3
<1>12. QED BY <1>11 DEF Carries, ch2, x0, q

Held(s, base, o) == IF s.ph = "gf" /\ ~InHand(base, o) THEN {Pipe(base, o)} ELSE {}

LEMMA HeldContents ==
  ASSUME NEW f, NEW pos, NEW base, NEW o, NEW ch, NEW l
  PROVE  Contents(f, pos, base, o, ch, l)
           <=> Carries(f, pos, ch, l, Held(f[pos[0]], base, o), Hidden(f[pos[0]], base, o))
<1>1. CASE f[pos[0]].ph = "gf" /\ ~InHand(base, o)
  <2>1. Held(f[pos[0]], base, o) = {Pipe(base, o)}
    BY <1>1 DEF Held
  <2>2. QED BY <1>1, <2>1, OneHeld
<1>2. CASE ~(f[pos[0]].ph = "gf" /\ ~InHand(base, o))
  <2>1. Held(f[pos[0]], base, o) = {}
    BY <1>2 DEF Held
  <2>2. QED BY <1>2, <2>1, NoneHeld
<1>3. QED BY <1>1, <1>2
-----------------------------------------------------------------------------
(* Every step keeps the agreement.                                         *)
LEMMA AgreeFacts ==
  ASSUME NEW f, NEW T, NEW pos, NEW base, NEW o, Agrees(f, T, pos, base, o), IsLog(log)
  PROVE  /\ T \in Nat /\ pos \in [Node -> 0..T] /\ Len(log) \in Nat
         /\ \A n \in Node : /\ State(n) = f[pos[n]] /\ IsState(f[pos[n]], log)
                            /\ f[pos[n]].k \in Nat /\ f[pos[n]].k \in 0..Len(log)
         /\ f[pos[0]].k = Len(log)
         /\ History(f, T, log) /\ Placing(f, T, pos, log)
         /\ Graphs(f, pos, base, o, at) /\ Contents(f, pos, base, o, chan, log)
         /\ base \in Multiple /\ base \in Nat /\ o \in Node
<1>1. T \in Nat /\ pos \in [Node -> 0..T]
  BY DEF Agrees, History, Placing
<1>2. \A n \in Node : f[pos[n]].k \in 0..Len(log) /\ IsState(f[pos[n]], log) /\ Len(log) \in Nat
  BY CommandsGot DEF Agrees
<1>3. 0 \in Node
  BY RingFacts
<1>4. QED BY <1>1, <1>2, <1>3, MultipleFacts DEF Agrees, Placing, Graphs

LEMMA PhaseFacts ==
  ASSUME NEW n
  PROVE  /\ State(n).ph = "gf" <=> pc[n] = "gf"
         /\ State(n).ph = "slot" <=> pc[n] = "slot"
         /\ State(n).ph = "between" <=> pc[n] \notin {"slot", "gf"}
         /\ State(n).k = acc[n] /\ State(n).j = ub[n] /\ State(n).cache = cache[n]
         /\ State(n).batch = batch[n] /\ State(n).warm = warm[n]
BY DEF State, Phase

(* A worker outside of its loop over the sub-graphs is at its first one.   *)
LEMMA AtFirst ==
  ASSUME NEW f, NEW T, NEW pos, NEW base, NEW o, Agrees(f, T, pos, base, o), IsLog(log),
         NEW n \in Worker, f[pos[n]].ph # "gf"
  PROVE  at[n] = n
<1>1. n \in Node /\ 0 \in Node /\ pos \in [Node -> 0..T] /\ T \in Nat
      /\ Graphs(f, pos, base, o, at)
  BY AgreeFacts, RingFacts
<1>2. ~(f[pos[0]].ph = "gf" /\ pos[n] = pos[0])
  OBVIOUS
<1>3. QED BY <1>1, <1>2 DEF Graphs

(* A worker goes on outside of its loop.                                   *)
LEMMA AgreeWorker ==
  ASSUME NEW f, NEW T, NEW pos, NEW base, NEW o, Agrees(f, T, pos, base, o), IsLog(log),
         NEW n \in Worker, f[pos[n]].ph # "gf", pos[n] + 1 \in 0..T,
         State(n)' = f[pos[n] + 1], \A m \in Node \ {n} : State(m)' = State(m),
         \A m \in Node \ {n} : at'[m] = at[m], at'[n] = n, log' = log,
         Carries(f, Forth(pos, n), chan', log,
                 Held(f[pos[0]], base, o), Hidden(f[pos[0]], base, o))
  PROVE  Agreed(base, o)'
<1>1. n \in Node /\ n # 0 /\ 0 \in Node
  <2>1. n # 0
    BY RingAssumption DEF Worker
  <2>2. QED BY <2>1, RingFacts
<1>2. /\ T \in Nat /\ pos \in [Node -> 0..T] /\ History(f, T, log) /\ Placing(f, T, pos, log)
      /\ Graphs(f, pos, base, o, at) /\ \A m \in Node : State(m) = f[pos[m]]
  BY AgreeFacts
<1>3. Forth(pos, n)[0] = pos[0]
  BY <1>1, <1>2 DEF Forth
<1>4. Placing(f, T, Forth(pos, n), log)
  BY <1>2, PlacingWorker
<1>5. Graphs(f, Forth(pos, n), base, o, at')
  BY <1>2, GraphsWorker
<1>6. Contents(f, Forth(pos, n), base, o, chan', log)
  BY <1>3, HeldContents
<1>7. QED BY <1>1, <1>2, <1>4, <1>5, <1>6, Moves

LEMMA AcceptState ==
  ASSUME TypeOK, NEW n \in Worker, AcceptKv(n) \/ AcceptBatch(n)
  PROVE  LET c == <<n - 1, n>>
             x == Head(chan[c])
         IN  /\ pc[n] = "idle" /\ chan[c] # <<>>
             /\ State(n)' = AfterBetween(State(n), x.cmd)
             /\ \A m \in Node \ {n} : State(m)' = State(m)
             /\ at' = [at EXCEPT ![n] = n]
             /\ chan' = Forward(n, Pop(chan, c), x)
             /\ log' = log
<1> DEFINE c == <<n - 1, n>>
           x == Head(chan[c])
<1>1. n \in Node /\ acc' = [acc EXCEPT ![n] = acc[n] + 1]
  BY RingFacts DEF AcceptKv, AcceptBatch, TypeOK
<1>2. /\ pc[n] = "idle" /\ chan[c] # <<>> /\ log' = log
      /\ chan' = Forward(n, Pop(chan, c), x)
  BY DEF AcceptKv, AcceptBatch
<1>3. CASE AcceptKv(n)
  <2>1. Return(n, CacheOp(cache[n], x.cmd[2])) /\ x.cmd[1] = "kv"
    BY <1>3 DEF AcceptKv
  <2>2. AfterBetween(State(n), x.cmd) = Returned(State(n), acc[n] + 1, CacheOp(cache[n], x.cmd[2]))
    BY <2>1, PhaseFacts DEF AfterBetween
  <2>3. /\ State(n)' = Returned(State(n), acc[n] + 1, CacheOp(cache[n], x.cmd[2]))
        /\ \A m \in Node \ {n} : State(m)' = State(m)
        /\ at' = [at EXCEPT ![n] = n]
    BY <1>1, <2>1, ReturnState
  <2>4. QED BY <1>2, <2>2, <2>3
<1>4. CASE AcceptBatch(n)
  <2>1. StartUbatch(n, x.cmd[2], 1) /\ x.cmd[1] = "decode" /\ UNCHANGED <<cache, warm>>
    BY <1>4 DEF AcceptBatch
  <2>2. AfterBetween(State(n), x.cmd) = Started(State(n), acc[n] + 1, x.cmd[2], 1)
    BY <2>1, PhaseFacts DEF AfterBetween
  <2>3. /\ State(n)' = Started(State(n), acc[n] + 1, x.cmd[2], 1)
        /\ \A m \in Node \ {n} : State(m)' = State(m)
        /\ at' = [at EXCEPT ![n] = n]
    BY <1>1, <2>1, StartState
  <2>4. QED BY <1>2, <2>2, <2>3
<1>5. QED BY <1>3, <1>4

LEMMA AgreeAccept ==
  ASSUME TypeInv, IsLog(log), NEW base, NEW o, Agreed(base, o), NEW n \in Worker,
         AcceptKv(n) \/ AcceptBatch(n)
  PROVE  Agreed(base, o)'
<1> DEFINE c == <<n - 1, n>>
           x == Head(chan[c])
<1>1. TypeOK /\ ChannelsOK(chan)
  BY DEF TypeInv
<1>2. /\ pc[n] = "idle" /\ chan[c] # <<>>
      /\ State(n)' = AfterBetween(State(n), x.cmd)
      /\ \A m \in Node \ {n} : State(m)' = State(m)
      /\ at' = [at EXCEPT ![n] = n]
      /\ chan' = Forward(n, Pop(chan, c), x)
      /\ log' = log
  BY <1>1, AcceptState
<1>3. PICK f0, T0, pos : Agrees(f0, T0, pos, base, o)
  BY DEF Agreed
<1>4. n \in Node /\ n - 1 \in Node /\ 0 \in Node /\ n # 0
  <2>1. n # 0
    BY RingAssumption DEF Worker
  <2>2. QED BY <2>1, RingFacts
<1>5. State(n).ph = "between"
  BY <1>2, PhaseFacts
<1>6. CanGo(f0[pos[n]], log)
  <2>1. f0[pos[n]].k < f0[pos[n - 1]].k
    BY <1>2, <1>3, <1>4, <1>5, WorkerReads, AgreeFacts
  <2>2. QED BY <1>3, <1>4, <2>1, AgreeFacts DEF CanGo
<1>7. PICK f, T : /\ Agrees(f, T, pos, base, o) /\ pos[n] + 1 \in 0..T
                  /\ f[pos[n] + 1] = After(State(n), log)
  BY <1>3, <1>4, <1>6, Reach
<1>8. /\ T \in Nat /\ pos \in [Node -> 0..T] /\ Len(log) \in Nat
      /\ \A m \in Node : State(m) = f[pos[m]] /\ f[pos[m]].k \in Nat
      /\ \A m \in Node : f[pos[m]].k \in 0..Len(log)
      /\ Graphs(f, pos, base, o, at) /\ Placing(f, T, pos, log) /\ History(f, T, log)
      /\ Contents(f, pos, base, o, chan, log) /\ o \in Node
  BY <1>7, AgreeFacts
<1>9. f[pos[n]].k < f[pos[n - 1]].k /\ x = Ctl(f[pos[n]].k + 1, log[f[pos[n]].k + 1])
  BY <1>2, <1>4, <1>5, <1>7, <1>8, WorkerReads
<1>10. f[pos[n] + 1] = State(n)'
  <2>1. x.cmd = log[State(n).k + 1]
    BY <1>4, <1>8, <1>9 DEF Ctl
  <2>2. QED BY <1>2, <1>5, <1>7, <2>1 DEF After
<1>11. f[pos[n] + 1].k = f[pos[n]].k + 1
  <2>1. \A s, cmd : AfterBetween(s, cmd).k = s.k + 1
    BY DEF AfterBetween, Returned, Started
  <2>2. QED BY <1>2, <1>4, <1>8, <1>10, <2>1
<1>12. <<n, Succ(n)>> \notin Held(f[pos[0]], base, o)
  <2> SUFFICES ASSUME <<n, Succ(n)>> \in Held(f[pos[0]], base, o) PROVE FALSE
    OBVIOUS
  <2>1. f[pos[0]].ph = "gf" /\ ~InHand(base, o) /\ <<n, Succ(n)>> = Pipe(base, o)
    BY DEF Held
  <2>2. n = Pred(o)
    BY <2>1 DEF Pipe
  <2>3. o = n + 1 \/ (o = 0 /\ n = N - 1)
    BY <1>8, <2>2 DEF Pred, Node
  <2>4. f[pos[n]].k < Len(log)
    BY <1>4, <1>8, <1>9
  <2>5. pos[n] < pos[0]
    <3>1. pos[n] >= pos[0] => f[pos[n]].k = Len(log)
      BY <1>4, <1>7, CommandsGot DEF Agrees
    <3>2. QED BY <1>4, <1>8, <2>4, <3>1
  <2>6. base = 0 /\ o <= n
    BY <1>8, <2>1, <2>5 DEF Graphs
  <2>7. o = 0 /\ n = N - 1
    BY <1>4, <2>3, <2>6, RingAssumption DEF Node
  <2>8. QED BY <2>1, <2>6, <2>7 DEF InHand
<1>13. Carries(f, Forth(pos, n), chan', log,
               Held(f[pos[0]], base, o), Hidden(f[pos[0]], base, o))
  <2>1. Carries(f, pos, chan, log, Held(f[pos[0]], base, o), Hidden(f[pos[0]], base, o))
    BY <1>8, HeldContents
  <2>2. QED BY <1>1, <1>2, <1>8, <1>9, <1>11, <1>12, <2>1, WorkerTakes
<1>14. f[pos[n]].ph # "gf" /\ at'[n] = n /\ \A m \in Node \ {n} : at'[m] = at[m]
  BY <1>1, <1>2, <1>4, <1>5, <1>8 DEF TypeOK
<1>15. QED BY <1>2, <1>7, <1>10, <1>13, <1>14, AgreeWorker

(* The master goes on outside of its loop, with no hidden state under way. *)
LEMMA AgreeMaster ==
  ASSUME NEW f, NEW T \in Nat, NEW pos, NEW base, NEW o,
         Placing(f, T, pos, log), Graphs(f, pos, base, o, at),
         \A m \in Node : State(m) = f[pos[m]],
         pos[0] + 1 \in 0..T, f[pos[0] + 1].k = Len(log'), History(f, T, log'),
         f[pos[0]].ph = "gf" => /\ f[pos[0] + 1].ph # "gf"
                                /\ \A m \in Worker : pos[m] > pos[0],
         State(0)' = f[pos[0] + 1], \A m \in Node \ {0} : State(m)' = State(m),
         \A m \in Worker : at'[m] = at[m], at'[0] = 0,
         NEW t, Carries(f, Forth(pos, 0), chan', log', {}, t)
  PROVE  Agreed(0, 0)'
<1>1. 0 \in Node
  BY RingFacts
<1>2. pos \in [Node -> 0..T]
  BY DEF Placing
<1>3. Placing(f, T, Forth(pos, 0), log')
  BY <1>2, PlacingMaster
<1>4. Graphs(f, Forth(pos, 0), 0, 0, at')
  BY <1>2, GraphsMaster
<1>5. Contents(f, Forth(pos, 0), 0, 0, chan', log')
  <2>1. InHand(0, 0)
    BY DEF InHand
  <2>2. \A u : Carries(f, Forth(pos, 0), chan', log', {}, u)
    <3>1. \A c : (c \in {}) = FALSE
      OBVIOUS
    <3>2. QED BY <3>1 DEF Carries, Filled
  <2>3. QED BY <2>1, <2>2, NoneHeld
<1>6. QED BY <1>1, <1>2, <1>3, <1>4, <1>5, Moves

LEMMA AfterKeeps ==
  ASSUME NEW s, NEW l, s.ph \in {"slot", "gf"}
  PROVE  After(s, l).k = s.k /\ CanGo(s, l) /\ (s.ph = "gf" => After(s, l).ph # "gf")
BY DEF After, AfterSlot, AfterGraphs, Placed, Returned, Started, CanGo

LEMMA AgreeSlot ==
  ASSUME TypeInv, IsLog(log), NEW base, NEW o, Agreed(base, o),
         NEW n \in Node, Slot(n)
  PROVE  IF n = 0 THEN Agreed(0, 0)' ELSE Agreed(base, o)'
<1>1. TypeOK /\ pc[n] = "slot" /\ UNCHANGED <<chan, log>>
  BY DEF TypeInv, Slot
<1>2. PICK f0, T0, pos : Agrees(f0, T0, pos, base, o)
  BY DEF Agreed
<1>3. State(n).ph = "slot" /\ f0[pos[n]] = State(n)
  BY <1>1, <1>2, PhaseFacts, AgreeFacts
<1>4. CanGo(f0[pos[n]], log)
  BY <1>3, AfterKeeps
<1>5. PICK f, T : /\ Agrees(f, T, pos, base, o) /\ pos[n] + 1 \in 0..T
                  /\ f[pos[n] + 1] = After(State(n), log)
  BY <1>2, <1>4, Reach
<1>6. /\ T \in Nat /\ pos \in [Node -> 0..T] /\ Len(log) \in Nat
      /\ \A m \in Node : State(m) = f[pos[m]]
      /\ f[pos[0]].k = Len(log) /\ History(f, T, log) /\ Placing(f, T, pos, log)
      /\ Graphs(f, pos, base, o, at) /\ Contents(f, pos, base, o, chan, log)
  BY <1>5, AgreeFacts
<1>7. f[pos[n]].ph = "slot" /\ f[pos[n] + 1].k = f[pos[n]].k
  BY <1>3, <1>5, <1>6, AfterKeeps
<1>8. 0 \in Node /\ Worker \subseteq Node
  BY RingFacts
<1>9. at[n] = n
  <2>1. CASE n = 0
    BY <1>6, <1>7, <2>1 DEF Graphs
  <2>2. CASE n # 0
    <3>1. n \in Worker
      BY <2>2, RingAssumption DEF Node, Worker
    <3>2. QED BY <1>5, <1>7, <3>1, AtFirst
  <2>3. QED BY <2>1, <2>2
<1>10. /\ State(n)' = f[pos[n] + 1] /\ \A m \in Node \ {n} : State(m)' = State(m)
       /\ at' = at
  BY <1>1, <1>5, <1>9, SlotState
<1>11. CASE n = 0
  <2>1. \A t : Carries(f, pos, chan, log, {}, t)
    BY <1>6, <1>7, <1>11, NoneHeld
  <2>2. Carries(f, Forth(pos, 0), chan, log, {}, 0)
    BY <1>6, <1>7, <1>8, <1>11, <2>1, CarriesOn
  <2>3. f[pos[0] + 1].k = Len(log') /\ History(f, T, log')
        /\ Carries(f, Forth(pos, 0), chan', log', {}, 0)
    BY <1>1, <1>6, <1>7, <1>11, <2>2
  <2>4. at'[0] = 0 /\ \A m \in Worker : at'[m] = at[m]
    BY <1>9, <1>10, <1>11
  <2>5. State(0)' = f[pos[0] + 1] /\ \A m \in Node \ {0} : State(m)' = State(m)
    BY <1>10, <1>11
  <2>6. f[pos[0]].ph # "gf" /\ pos[0] + 1 \in 0..T
    BY <1>5, <1>7, <1>11
  <2>7. QED BY <1>6, <1>11, <2>3, <2>4, <2>5, <2>6, AgreeMaster
<1>12. CASE n # 0
  <2>1. n \in Worker
    BY <1>12, RingAssumption DEF Node, Worker
  <2>2. Carries(f, pos, chan, log, Held(f[pos[0]], base, o), Hidden(f[pos[0]], base, o))
    BY <1>6, HeldContents
  <2>3. Carries(f, Forth(pos, n), chan, log, Held(f[pos[0]], base, o),
                Hidden(f[pos[0]], base, o))
    BY <1>6, <1>7, <2>2, CarriesOn
  <2>4. at'[n] = n /\ \A m \in Node \ {n} : at'[m] = at[m]
    BY <1>9, <1>10
  <2>5. log' = log /\ Carries(f, Forth(pos, n), chan', log, Held(f[pos[0]], base, o),
                Hidden(f[pos[0]], base, o))
    BY <1>1, <2>3
  <2>6. QED BY <1>5, <1>7, <1>10, <1>12, <2>1, <2>4, <2>5, AgreeWorker
<1>13. QED BY <1>11, <1>12

(* A worker receives the hidden state of its next sub-graph, and the       *)
(* result is the hidden state of the one after it.                         *)
LEMMA WorkerPasses ==
  ASSUME NEW f, NEW T, NEW pos, NEW base, NEW o, Agrees(f, T, pos, base, o),
         TypeInv, IsLog(log), NEW n \in Worker, SubGraph(n)
  PROVE  LET b == NextBase(base, o)
             p == Succ(o)
             P == f[pos[0]]
         IN  /\ pos[n] = pos[0] /\ P.ph = "gf" /\ o = n
             /\ at[n] = base + o /\ base + o <= Windows
             /\ ~InHand(b, p)
             /\ Carries(f, pos, chan', log, {Pipe(b, p)}, Hidden(P, b, p))
             /\ IF NextGraph(at[n]) = Windows + 1
                THEN EndUbatch(n)
                ELSE /\ at' = [at EXCEPT ![n] = NextGraph(@)]
                     /\ UNCHANGED <<pc, cache, batch, ub, warm>>
<1> DEFINE c == <<n - 1, n>>
           b == NextBase(base, o)
           p == Succ(o)
           P == f[pos[0]]
           d == <<n, Target(n)>>
<1>1. n \in Node /\ n # 0 /\ 0 \in Node /\ n - 1 \in Node /\ c \in Channel /\ n \in 1..N-1
  <2>1. n # 0 /\ n \in 1..N-1
    BY RingAssumption DEF Worker
  <2>2. QED BY <2>1, RingFacts
<1>2. ChannelsOK(chan)
  BY DEF TypeInv
<1>3. /\ \A m \in Node : State(m) = f[pos[m]] /\ f[pos[m]].k \in Nat
      /\ Contents(f, pos, base, o, chan, log) /\ base \in Multiple /\ base \in Nat /\ o \in Node
  BY AgreeFacts
<1>4. PICK x \in Incoming(n) : Compute(n, Pop(chan, x), Head(chan[x]).seen)
  BY <1>1 DEF SubGraph, NeedsInput
<1>5. x = c /\ chan[c] # <<>>
  BY <1>1, <1>4, ChannelFacts DEF Incoming
<1>6. pc[n] = "gf" /\ Compute(n, Pop(chan, c), Head(chan[c]).seen)
  BY <1>4, <1>5 DEF SubGraph
<1>7. State(n).ph = "gf" /\ f[pos[n]] = State(n)
  BY <1>1, <1>3, <1>6, PhaseFacts
<1>8. /\ pos[n] = pos[0] /\ P.ph = "gf" /\ ~InHand(base, o)
      /\ o = n /\ at[n] = base + o /\ base + o <= Windows
      /\ f[pos[n - 1]].k = f[pos[n]].k
      /\ Head(chan[c]) = Hidden(P, base, o)
  BY <1>5, <1>7, WorkerReads
<1>9. P = State(n)
  BY <1>7, <1>8
<1>10. /\ b + p = base + o + 1 /\ Pred(p) = o /\ p \in Node
       /\ p = IF o = N - 1 THEN 0 ELSE o + 1
  BY <1>3, TurnPasses
<1> HIDE DEF b, p, P
<1>11. Pipe(base, o) = c
  BY <1>1, <1>8 DEF Pipe, Pred
<1>12. Pipe(b, p) = d
  <2>1. b + p <= Windows <=> at[n] # Windows
    BY <1>3, <1>8, <1>10, RingAssumption DEF Node
  <2>2. Succ(n) = p
    BY <1>8 DEF p
  <2>3. QED BY <1>8, <1>10, <2>1, <2>2 DEF Pipe, Target
<1>13. ~InHand(b, p)
  BY <1>1, <1>3, <1>8, <1>10 DEF InHand, Node
<1>14. Tensor(acc[n], ub[n], at[n] + 1, Head(chan[c]).seen \union {cache[n]}) = Hidden(P, b, p)
  <2>1. Head(chan[c]).seen = {P.cache}
    BY <1>8 DEF Hidden, Tensor
  <2>2. P.k = acc[n] /\ P.j = ub[n] /\ P.cache = cache[n]
    BY <1>9, PhaseFacts
  <2>3. QED BY <1>8, <1>10, <2>1, <2>2 DEF Hidden
<1>15. Sends(n)
  BY <1>1 DEF Sends
<1>16. chan' = Push(Pop(chan, c), d, Hidden(P, b, p))
  BY <1>6, <1>14, <1>15 DEF Compute
<1>17. d \in Channel /\ ChannelsOK(Pop(chan, c))
  BY <1>1, <1>2, <1>5, RingFacts, PopOK DEF Target
<1>18. Carries(f, pos, chan, log, {c}, Hidden(P, base, o))
  <2>1. P.ph = "gf" /\ P = f[pos[0]]
    BY <1>8 DEF P
  <2>2. QED BY <1>3, <1>8, <1>11, <2>1, OneHeld
<1>19. /\ \A y \in Channel : Got(f, pos, y) \in Nat /\ Sent(f, pos, y) \in Nat
       /\ Sent(f, pos, c) = Got(f, pos, c)
  BY <1>1, <1>3, <1>8, ChannelFacts DEF Got, Sent
<1>20. Carries(f, pos, Pop(chan, c), log, {}, 0)
  BY <1>1, <1>2, <1>18, <1>19, TakeHidden
<1>21. Carries(f, pos, chan', log, {d}, Hidden(P, b, p))
  BY <1>16, <1>17, <1>19, <1>20, AddHidden
<1>22. IF NextGraph(at[n]) = Windows + 1
       THEN EndUbatch(n)
       ELSE /\ at' = [at EXCEPT ![n] = NextGraph(@)]
            /\ UNCHANGED <<pc, cache, batch, ub, warm>>
  BY <1>1, <1>6 DEF Compute, LastGraph
<1>23. QED BY <1>8, <1>12, <1>13, <1>21, <1>22 DEF b, p, P

LEMMA AgreeGraphWorker ==
  ASSUME TypeInv, IsLog(log), NEW base, NEW o, Agreed(base, o),
         NEW n \in Worker, SubGraph(n)
  PROVE  /\ pc[0] = "gf" /\ base \in Multiple /\ o \in Node /\ base + o <= Windows
         /\ Agreed(NextBase(base, o), Succ(o))'
<1>1. TypeOK /\ pc[n] = "gf" /\ log' = log /\ acc' = acc
  BY DEF TypeInv, SubGraph
<1>2. PICK f0, T0, pos : Agrees(f0, T0, pos, base, o)
  BY DEF Agreed
<1>3. n \in Node /\ 0 \in Node /\ n # 0 /\ n \in 1..N-1
  <2>1. n # 0 /\ n \in 1..N-1
    BY RingAssumption DEF Worker
  <2>2. QED BY <2>1, RingFacts
<1>4. State(n).ph = "gf" /\ f0[pos[n]] = State(n)
  BY <1>1, <1>2, <1>3, PhaseFacts, AgreeFacts
<1>5. CanGo(f0[pos[n]], log)
  BY <1>4, AfterKeeps
<1>6. PICK f, T : /\ Agrees(f, T, pos, base, o) /\ pos[n] + 1 \in 0..T
                  /\ f[pos[n] + 1] = After(State(n), log)
  BY <1>2, <1>3, <1>5, Reach
<1>7. /\ T \in Nat /\ pos \in [Node -> 0..T]
      /\ \A m \in Node : State(m) = f[pos[m]]
      /\ Placing(f, T, pos, log) /\ History(f, T, log)
      /\ Graphs(f, pos, base, o, at) /\ base \in Multiple /\ base \in Nat /\ o \in Node
  BY <1>6, AgreeFacts
<1> DEFINE b == NextBase(base, o)
           p == Succ(o)
<1>8. /\ pos[n] = pos[0] /\ f[pos[0]].ph = "gf" /\ o = n
      /\ at[n] = base + o /\ base + o <= Windows
      /\ ~InHand(b, p)
      /\ Carries(f, pos, chan', log, {Pipe(b, p)}, Hidden(f[pos[0]], b, p))
      /\ IF NextGraph(at[n]) = Windows + 1
         THEN EndUbatch(n)
         ELSE /\ at' = [at EXCEPT ![n] = NextGraph(@)]
              /\ UNCHANGED <<pc, cache, batch, ub, warm>>
  BY <1>6, WorkerPasses
<1> HIDE DEF b, p
<1>9. ASSUME NextGraph(at[n]) # Windows + 1 PROVE Agreed(NextBase(base, o), Succ(o))'
  <2>1. base + o + N <= Windows
    BY <1>8, <1>9 DEF NextGraph
  <2>2. at'[o] = NextGraph(base + o) /\ \A m \in Node \ {o} : at'[m] = at[m]
    BY <1>1, <1>3, <1>8, <1>9 DEF TypeOK
  <2>3. Graphs(f, pos, b, p, at')
    BY <1>7, <1>8, <2>1, <2>2, GraphsPass DEF b, p
  <2>4. Contents(f, pos, b, p, chan', log)
    BY <1>8, OneHeld
  <2>5. \A m \in Node : State(m)' = State(m)
    BY <1>1, <1>8, <1>9 DEF State, Phase
  <2>6. Agrees(f, T, pos, b, p)'
    BY <1>1, <1>7, <2>3, <2>4, <2>5 DEF Agrees
  <2>7. Agreed(b, p)'
    BY <2>6 DEF Agreed
  <2>8. QED BY <2>7 DEF b, p
<1>10. ASSUME NextGraph(at[n]) = Windows + 1 PROVE Agreed(NextBase(base, o), Succ(o))'
  <2>1. EndUbatch(n)
    BY <1>8, <1>10
  <2>2. /\ State(n)' = f[pos[n] + 1] /\ \A m \in Node \ {n} : State(m)' = State(m)
        /\ at' = [at EXCEPT ![n] = n]
    BY <1>1, <1>3, <1>6, <2>1, EndUbatchState
  <2>3. base + o + N > Windows
    BY <1>3, <1>7, <1>8, <1>10, RingAssumption DEF NextGraph
  <2>4. at'[o] = o /\ \A m \in Node \ {o} : at'[m] = at[m]
    BY <1>1, <1>3, <1>8, <2>2 DEF TypeOK
  <2>5. Graphs(f, Forth(pos, n), b, p, at')
    <3>1. o \in Worker
      BY <1>8
    <3>2. Graphs(f, Forth(pos, o), b, p, at')
      BY <1>7, <1>8, <2>3, <2>4, <3>1, GraphsDone DEF b, p
    <3>3. QED BY <1>8, <3>2
  <2>6. Placing(f, T, Forth(pos, n), log)
    BY <1>6, <1>7, <1>8, PlacingWorker
  <2>7. f[pos[n] + 1].k = f[pos[n]].k
    BY <1>3, <1>4, <1>6, <1>7, AfterKeeps
  <2>8. Carries(f, Forth(pos, n), chan', log, {Pipe(b, p)}, Hidden(f[pos[0]], b, p))
    BY <1>3, <1>7, <1>8, <2>7, CarriesOn
  <2>9. Forth(pos, n)[0] = pos[0]
    BY <1>3, <1>7 DEF Forth
  <2>10. Contents(f, Forth(pos, n), b, p, chan', log)
    BY <1>8, <2>8, <2>9, OneHeld
  <2>11. /\ History(f, T, log') /\ Placing(f, T, Forth(pos, n), log')
         /\ Contents(f, Forth(pos, n), b, p, chan', log')
         /\ \A m \in Node : State(m) = f[pos[m]]
         /\ pos \in [Node -> 0..T]
    BY <1>1, <1>7, <2>6, <2>10
  <2>12. State(n)' = f[pos[n] + 1] /\ \A m \in Node \ {n} : State(m)' = State(m)
    BY <2>2
  <2> HIDE <1>10
  <2>13. Agreed(b, p)'
    BY <1>3, <2>5, <2>11, <2>12, Moves
  <2>14. QED BY <2>13 DEF b, p
<1>11. pc[0] = "gf"
  <2>1. State(0).ph = "gf"
    BY <1>3, <1>7, <1>8
  <2>2. QED BY <2>1, PhaseFacts
<1>12. QED BY <1>7, <1>8, <1>9, <1>10, <1>11

(* The master waits for the hidden state unless it has it.                 *)
LEMMA MasterHolds ==
  ASSUME NEW f, NEW T, NEW pos, NEW base, NEW o, Agrees(f, T, pos, base, o), IsLog(log),
         f[pos[0]].ph = "gf", ~NeedsInput(0)
  PROVE  InHand(base, o) /\ at[0] = base + o
<1>1. /\ Graphs(f, pos, base, o, at) /\ base \in Multiple /\ base \in Nat /\ o \in 0..N-1
      /\ base + o <= Windows + 1
  BY AgreeFacts DEF Graphs, Node
<1>2. at[0] = Capped(Turn(0, base, o))
  BY <1>1 DEF Graphs
<1>3. N \in Nat /\ N >= 2 /\ Windows \in Nat
  BY RingAssumption
<1>4. at[0] = 0 \/ (at[0] = Windows + 1 /\ Windows % N = 0)
  BY DEF NeedsInput
<1>5. CASE at[0] = 0
  BY <1>1, <1>2, <1>3, <1>5 DEF Capped, Turn, InHand
<1>6. CASE at[0] = Windows + 1 /\ Windows % N = 0
  <2>1. \A x \in Multiple, r \in 0..N-1 : (x + r) % N = r
    BY MultipleFacts DEF Node
  <2>2. Turn(0, base, o) > Windows
    BY <1>1, <1>2, <1>3, <1>6 DEF Capped, Turn
  <2>3. CASE o = 0
    <3>1. base = Windows + 1
      BY <1>1, <1>3, <2>2, <2>3 DEF Turn
    <3>2. base - N \in Multiple
      BY <1>1, <1>3, <3>1, MultipleFacts
    <3>3. ((base - N) + (N - 1)) % N = N - 1
      BY <1>3, <2>1, <3>2
    <3>4. (base - N) + (N - 1) = Windows
      BY <1>3, <3>1
    <3>5. QED BY <1>3, <1>6, <3>3, <3>4
  <2>4. CASE o # 0
    <3>1. base + N > Windows
      BY <1>1, <1>3, <2>2, <2>4 DEF Turn
    <3>2. base >= Windows
      <4> SUFFICES ASSUME base < Windows PROVE FALSE
        BY <1>1, <1>3
      <4>1. Windows - base \in 1..N-1
        BY <1>1, <1>3, <3>1
      <4>2. (base + (Windows - base)) % N = Windows - base
        BY <1>1, <2>1, <4>1
      <4>3. base + (Windows - base) = Windows
        BY <1>1, <1>3
      <4>4. QED BY <1>6, <4>1, <4>2, <4>3
    <3>3. base = Windows /\ o = 1
      BY <1>1, <1>3, <2>4, <3>2
    <3>4. QED BY <1>3, <1>6, <3>3 DEF InHand
  <2>5. QED BY <2>3, <2>4
<1>7. QED BY <1>4, <1>5, <1>6

(* What the master computes a sub-graph from.                              *)
LEMMA MasterTakes ==
  ASSUME NEW f, NEW T, NEW pos, NEW base, NEW o, Agrees(f, T, pos, base, o),
         TypeInv, IsLog(log), SubGraph(0)
  PROVE  /\ f[pos[0]].ph = "gf" /\ at[0] = base + o /\ at[0] <= Windows + 1
         /\ at[0] <= Windows => o = 0
         /\ \E ch, seen : /\ ChannelsOK(ch) /\ Carries(f, pos, ch, log, {}, 0)
                          /\ seen \union {cache[0]} = {f[pos[0]].cache}
                          /\ Compute(0, ch, seen)
<1> DEFINE P == f[pos[0]]
<1>1. 0 \in Node /\ pc[0] = "gf" /\ ChannelsOK(chan)
  BY RingFacts DEF SubGraph, TypeInv
<1>2. /\ State(0) = P /\ Contents(f, pos, base, o, chan, log)
      /\ base \in Nat /\ o \in Node /\ o \in Nat /\ base + o <= Windows + 1
  <2>1. /\ State(0) = P /\ Contents(f, pos, base, o, chan, log)
        /\ base \in Nat /\ o \in Node /\ Graphs(f, pos, base, o, at)
    BY <1>1, AgreeFacts
  <2>2. o \in Nat
    BY <2>1, RingFacts
  <2>3. base + o <= Windows + 1
    BY <2>1 DEF Graphs
  <2>4. QED BY <2>1, <2>2, <2>3
<1>3. P.ph = "gf" /\ P.cache = cache[0]
  BY <1>1, <1>2, PhaseFacts
<1>4. CASE ~NeedsInput(0)
  <2>1. InHand(base, o) /\ at[0] = base + o
    BY <1>3, <1>4, MasterHolds
  <2>2. at[0] <= Windows => o = 0
    BY <1>2, <2>1, RingAssumption DEF InHand
  <2>3. Carries(f, pos, chan, log, {}, 0)
    BY <1>2, <2>1, NoneHeld
  <2>4. Compute(0, chan, {})
    BY <1>4 DEF SubGraph
  <2>5. {} \union {cache[0]} = {P.cache}
    BY <1>3
  <2>6. QED BY <1>1, <1>2, <1>3, <2>1, <2>2, <2>3, <2>4, <2>5
<1>5. CASE NeedsInput(0)
  <2>1. PICK c \in Incoming(0) : Compute(0, Pop(chan, c), Head(chan[c]).seen)
    BY <1>5 DEF SubGraph
  <2>2. c \in Channel /\ c[2] = 0 /\ chan[c] # <<>>
    BY DEF Incoming
  <2>3. /\ ~InHand(base, o) /\ c = Pipe(base, o)
        /\ at[0] = base + o /\ (o = 0 \/ base + o = Windows + 1)
        /\ Head(chan[c]) = Hidden(P, base, o)
    BY <2>2, MasterReads
  <2>4. Head(chan[c]).seen \union {cache[0]} = {P.cache}
    BY <1>3, <2>3 DEF Hidden, Tensor
  <2>5. Carries(f, pos, chan, log, {c}, Hidden(P, base, o))
    BY <1>2, <1>3, <2>3, OneHeld
  <2>6. Got(f, pos, c) \in Nat /\ Sent(f, pos, c) = Got(f, pos, c)
    BY <2>2 DEF Got, Sent
  <2>7. Carries(f, pos, Pop(chan, c), log, {}, 0)
    BY <1>1, <2>2, <2>5, <2>6, TakeHidden
  <2>8. ChannelsOK(Pop(chan, c))
    BY <1>1, <2>2, PopOK
  <2>9. at[0] <= Windows => o = 0
    BY <1>2, <2>3, RingAssumption
  <2>10. QED BY <1>2, <1>3, <2>1, <2>3, <2>4, <2>7, <2>8, <2>9
<1>6. QED BY <1>4, <1>5

(* When the output is computed all workers are done with the ubatch.       *)
LEMMA WorkersDone ==
  ASSUME NEW f, NEW T, NEW pos, NEW base, NEW o, Agrees(f, T, pos, base, o), IsLog(log),
         f[pos[0]].ph = "gf", base + o = Windows + 1
  PROVE  \A m \in Worker : pos[m] > pos[0]
<1> TAKE m \in Worker
<1>1. /\ Graphs(f, pos, base, o, at) /\ base \in Nat /\ o \in 0..N-1
      /\ pos \in [Node -> 0..T] /\ T \in Nat
  BY AgreeFacts DEF Node
<1>2. m \in Node /\ 0 \in Node /\ m \in 1..N-1
  BY RingFacts DEF Worker
<1>3. pos[m] \in Nat /\ pos[0] \in Nat
  BY <1>1, <1>2
<1>4. N \in Nat /\ Windows \in Nat /\ Windows >= N - 1
  BY RingAssumption
<1>5. pos[m] # pos[0]
  <2>1. Turn(m, base, o) > Windows
    BY <1>1, <1>2, <1>4 DEF Turn
  <2>2. Turn(m, base, o) \in Int
    BY <1>1, <1>2, <1>4 DEF Turn
  <2>3. pos[m] = pos[0] => Turn(m, base, o) <= Windows
    BY <1>1 DEF Graphs
  <2>4. QED BY <1>4, <2>1, <2>2, <2>3
<1>6. ~(pos[m] < pos[0])
  <2>1. pos[m] < pos[0] => base = 0 /\ o <= m
    BY <1>1 DEF Graphs
  <2>2. QED BY <1>1, <1>2, <1>4, <2>1
<1>7. QED BY <1>3, <1>5, <1>6

LEMMA AgreeGraphMaster ==
  ASSUME TypeInv, IsLog(log), NEW base, NEW o, Agreed(base, o),
         SubGraph(0)
  PROVE  /\ base \in Nat /\ base + o = at[0]
         /\ at[0] <= Windows => o = 0 /\ Agreed(base, 1)'
         /\ at[0] = Windows + 1 => Agreed(0, 0)'
<1>1. TypeOK /\ pc[0] = "gf" /\ log' = log /\ acc' = acc /\ 0 \in Node
  BY RingFacts DEF TypeInv, SubGraph
<1>2. PICK f0, T0, pos : Agrees(f0, T0, pos, base, o)
  BY DEF Agreed
<1>3. State(0).ph = "gf" /\ f0[pos[0]] = State(0)
  BY <1>1, <1>2, PhaseFacts, AgreeFacts
<1>4. CanGo(f0[pos[0]], log)
  BY <1>3, AfterKeeps
<1>5. PICK f, T : /\ Agrees(f, T, pos, base, o) /\ pos[0] + 1 \in 0..T
                  /\ f[pos[0] + 1] = After(State(0), log)
  BY <1>1, <1>2, <1>4, Reach
<1>6. /\ T \in Nat /\ pos \in [Node -> 0..T] /\ Len(log) \in Nat /\ f[pos[0]].k = Len(log)
      /\ \A m \in Node : State(m) = f[pos[m]] /\ f[pos[m]].k \in Nat
      /\ Placing(f, T, pos, log) /\ History(f, T, log)
      /\ Graphs(f, pos, base, o, at) /\ base \in Multiple /\ base \in Nat /\ o \in Node
  BY <1>1, <1>5, AgreeFacts
<1>7. /\ f[pos[0]].ph = "gf" /\ at[0] = base + o /\ at[0] <= Windows + 1
      /\ at[0] <= Windows => o = 0
  BY <1>5, MasterTakes
<1>8. PICK ch, seen : /\ ChannelsOK(ch) /\ Carries(f, pos, ch, log, {}, 0)
                      /\ seen \union {cache[0]} = {f[pos[0]].cache}
                      /\ Compute(0, ch, seen)
  BY <1>5, MasterTakes
<1>9. N \in Nat /\ N >= 2 /\ Windows \in Nat
  BY RingAssumption
<1>10. ASSUME at[0] <= Windows PROVE o = 0 /\ Agreed(base, 1)'
  <2> DEFINE P == f[pos[0]]
             d == <<0, 1>>
  <2>1. o = 0 /\ at[0] = base /\ base <= Windows
    BY <1>6, <1>7, <1>10
  <2>2. Succ(0) = 1 /\ NextBase(base, o) = base /\ d \in Channel
    BY <1>9, <2>1, RingFacts DEF NextBase
  <2>3. at' = [at EXCEPT ![0] = NextGraph(@)] /\ UNCHANGED <<pc, cache, batch, ub, warm>>
    <3>1. ~LastGraph(0, at[0])
      BY <1>6, <1>9, <2>1 DEF LastGraph
    <3>2. QED BY <1>8, <3>1 DEF Compute
  <2>4. at'[o] = NextGraph(base + o) /\ \A m \in Node \ {o} : at'[m] = at[m]
    BY <1>1, <1>6, <1>7, <2>1, <2>3 DEF TypeOK
  <2>5. Graphs(f, pos, base, 1, at')
    <3>1. Graphs(f, pos, NextBase(base, o), Succ(o), at')
      BY <1>6, <1>7, <2>1, <2>4, GraphsPass
    <3>2. QED BY <2>1, <2>2, <3>1
  <2>6. Contents(f, pos, base, 1, chan', log)
    <3>1. CASE base = Windows
      <4>1. chan' = ch
        BY <1>8, <1>9, <2>1, <3>1 DEF Compute, Sends
      <4>2. InHand(base, 1)
        BY <3>1 DEF InHand
      <4>3. \A u : Carries(f, pos, ch, log, {}, u)
        <5>1. \A c : (c \in {}) = FALSE
          OBVIOUS
        <5>2. QED BY <1>8, <5>1 DEF Carries, Filled
      <4>4. QED BY <4>1, <4>2, <4>3, NoneHeld
    <3>2. CASE base # Windows
      <4>1. Sends(0) /\ Target(0) = 1
        BY <1>6, <1>9, <2>1, <2>2, <3>2 DEF Sends, Target
      <4>2. ~InHand(base, 1) /\ Pipe(base, 1) = d
        BY <1>6, <1>9, <2>1, <3>2 DEF InHand, Pipe, Pred
      <4>3. Tensor(acc[0], ub[0], at[0] + 1, seen \union {cache[0]}) = Hidden(P, base, 1)
        <5>1. P.k = acc[0] /\ P.j = ub[0]
          BY <1>1, <1>6, PhaseFacts
        <5>2. QED BY <1>8, <2>1, <5>1 DEF Hidden
      <4>4. chan' = Push(ch, d, Hidden(P, base, 1))
        BY <1>8, <4>1, <4>3 DEF Compute
      <4>5. Got(f, pos, d) \in Nat /\ Sent(f, pos, d) \in Nat
        <5>1. 1 \in Node
          BY RingFacts
        <5>2. QED BY <1>1, <1>6, <5>1 DEF Got, Sent
      <4>6. Carries(f, pos, chan', log, {d}, Hidden(P, base, 1))
        BY <1>8, <2>2, <4>4, <4>5, AddHidden
      <4>7. QED BY <1>7, <4>2, <4>6, OneHeld
    <3>3. QED BY <3>1, <3>2
  <2>7. \A m \in Node : State(m)' = State(m)
    BY <1>1, <2>3 DEF State, Phase
  <2>8. Agrees(f, T, pos, base, 1)'
    BY <1>1, <1>6, <2>5, <2>6, <2>7 DEF Agrees
  <2>9. QED BY <2>1, <2>8 DEF Agreed
<1>11. ASSUME at[0] = Windows + 1 PROVE Agreed(0, 0)'
  <2>1. \A m \in Worker : pos[m] > pos[0]
    BY <1>5, <1>7, <1>11, WorkersDone
  <2>2. chan' = ch /\ EndUbatch(0)
    BY <1>8, <1>9, <1>11 DEF Compute, Sends, LastGraph
  <2>3. /\ State(0)' = f[pos[0] + 1] /\ \A m \in Node \ {0} : State(m)' = State(m)
        /\ at' = [at EXCEPT ![0] = 0]
    BY <1>1, <1>5, <2>2, EndUbatchState
  <2>4. f[pos[0] + 1].k = f[pos[0]].k /\ f[pos[0] + 1].ph # "gf"
    BY <1>1, <1>3, <1>5, <1>6, AfterKeeps
  <2>5. Carries(f, Forth(pos, 0), ch, log, {}, 0)
    BY <1>1, <1>6, <1>8, <2>4, CarriesOn
  <2>6. at'[0] = 0 /\ \A m \in Worker : at'[m] = at[m]
    <3>1. \A m \in Worker : m \in Node /\ m # 0
      BY RingFacts, RingAssumption DEF Worker
    <3>2. QED BY <1>1, <2>3, <3>1 DEF TypeOK
  <2>7. f[pos[0] + 1].k = Len(log') /\ History(f, T, log')
        /\ Carries(f, Forth(pos, 0), chan', log', {}, 0)
    BY <1>1, <1>6, <2>2, <2>4, <2>5
  <2>8. State(0)' = f[pos[0] + 1] /\ \A m \in Node \ {0} : State(m)' = State(m)
    BY <2>3
  <2>9. QED BY <1>5, <1>6, <2>1, <2>4, <2>6, <2>7, <2>8, AgreeMaster
<1>12. QED BY <1>6, <1>7, <1>10, <1>11

(* The application gives a command, and sends it.                          *)
LEMMA LogGrows ==
  ASSUME IsLog(log), NEW cmd \in {"decode", "kv"} \X (Batches \union KvCmds),
         cmd[1] = "decode" => cmd[2] \in Batches
  PROVE  IsLog(Append(log, cmd)) /\ Len(Append(log, cmd)) = Len(log) + 1
         /\ Append(log, cmd)[Len(log) + 1] = cmd
<1> DEFINE S == {"decode", "kv"} \X (Batches \union KvCmds)
<1> HIDE DEF S
<1>1. log \in Seq(S) /\ cmd \in S
  BY DEF IsLog, S
<1>2. /\ Append(log, cmd) \in Seq(S) /\ Len(Append(log, cmd)) = Len(log) + 1
      /\ Append(log, cmd)[Len(log) + 1] = cmd
      /\ \A i \in 1..Len(log) : Append(log, cmd)[i] = log[i]
  BY <1>1
<1>3. \A i \in 1..Len(log) : log[i][1] = "decode" => log[i][2] \in Batches
  BY DEF IsLog
<1>4. \A i \in 1..Len(log)+1 : i \in 1..Len(log) \/ i = Len(log) + 1
  BY <1>1
<1>5. QED BY <1>2, <1>3, <1>4 DEF IsLog, S

LEMMA AgreeSends ==
  ASSUME TypeInv, IsLog(log), NEW base, NEW o, Agreed(base, o), State(0).ph = "between",
         NEW cmd \in {"decode", "kv"} \X (Batches \union KvCmds),
         cmd[1] = "decode" => cmd[2] \in Batches,
         log' = Append(log, cmd),
         chan' = Push(chan, <<0, 1>>, Ctl(acc[0] + 1, cmd)),
         State(0)' = AfterBetween(State(0), cmd),
         \A m \in Node \ {0} : State(m)' = State(m),
         at' \in {at, [at EXCEPT ![0] = 0]}
  PROVE  IsLog(log') /\ Agreed(0, 0)'
<1>1. /\ IsLog(log') /\ Len(log') = Len(log) + 1 /\ log'[Len(log) + 1] = cmd
  BY LogGrows
<1>2. TypeOK /\ ChannelsOK(chan) /\ 0 \in Node /\ \A m \in Worker : m \in Node /\ m # 0
  BY RingFacts, RingAssumption DEF TypeInv, Worker
<1>3. PICK f0, T0, pos : Agrees(f0, T0, pos, base, o)
  BY DEF Agreed
<1>4. History(f0, T0, log') /\ f0[pos[0]] = State(0) /\ f0[pos[0]].k = Len(log)
      /\ Len(log) \in Nat
  <2>1. History(f0, T0, log) /\ f0[pos[0]] = State(0) /\ f0[pos[0]].k = Len(log)
        /\ Len(log) \in Nat
    BY <1>2, <1>3, AgreeFacts
  <2>2. QED BY <2>1, MoreCommands
<1>5. CanGo(f0[pos[0]], log')
  BY <1>1, <1>4 DEF CanGo
<1>6. PICK f, T : /\ History(f, T, log') /\ \A m \in Node : State(m) = f[pos[m]]
                  /\ Placing(f, T, pos, log) /\ Graphs(f, pos, base, o, at)
                  /\ Contents(f, pos, base, o, chan, log)
                  /\ T \in Nat /\ pos[0] + 1 \in 0..T
                  /\ f[pos[0] + 1] = After(State(0), log')
  BY <1>1, <1>2, <1>3, <1>4, <1>5, ReachOn
<1>7. State(0).k = Len(log)
  BY <1>4
<1>8. f[pos[0] + 1] = State(0)'
  BY <1>1, <1>6, <1>7 DEF After
<1>9. f[pos[0] + 1].k = Len(log) + 1
  <2>1. \A s : AfterBetween(s, cmd).k = s.k + 1
    BY DEF AfterBetween, Returned, Started
  <2>2. QED BY <1>7, <1>8, <2>1
<1>10. f[pos[0]].ph = "between" /\ f[pos[0]].k = Len(log) /\ pos \in [Node -> 0..T]
  BY <1>2, <1>6, <1>7 DEF Placing
<1>11. at[0] = 0
  BY <1>6, <1>10 DEF Graphs
<1>12. at'[0] = 0 /\ \A m \in Worker : at'[m] = at[m]
  BY <1>2, <1>11 DEF TypeOK
<1>13. \A m \in Node : f[pos[m]].k \in 0..Len(log)
  <2> TAKE m \in Node
  <2>1. f0[pos[m]].k \in 0..Len(log) /\ State(m) = f0[pos[m]]
    BY <1>3, AgreeFacts
  <2>2. QED BY <1>6, <2>1
<1>14. Carries(f, pos, chan, log, {}, 0)
  BY <1>6, <1>10, NoneHeld
<1>15. chan' = Push(chan, <<0, 1>>, Ctl(Len(log) + 1, cmd))
  BY <1>7 DEF State
<1>16. Carries(f, Forth(pos, 0), chan', log', {}, 0)
  <2>1. Carries(f, Forth(pos, 0), Push(chan, <<0, 1>>, Ctl(Len(log) + 1, cmd)),
                Append(log, cmd), {}, 0)
    BY <1>2, <1>6, <1>9, <1>10, <1>13, <1>14, MasterSends
  <2>2. QED BY <1>15, <2>1
<1>17. Agreed(0, 0)'
  BY <1>1, <1>6, <1>8, <1>9, <1>10, <1>12, <1>16, AgreeMaster
<1>18. QED BY <1>1, <1>17

LEMMA AgreeApp ==
  ASSUME TypeInv, IsLog(log), NEW base, NEW o, Agreed(base, o),
         (\E b \in Batches : AppDecode(b)) \/ (\E op \in KvCmds : AppKv(op))
  PROVE  IsLog(log') /\ Agreed(0, 0)'
<1>1. TypeOK /\ 0 \in Node
  BY RingFacts DEF TypeInv
<1>2. /\ State(0).k = acc[0] /\ State(0).j = ub[0] /\ State(0).cache = cache[0]
      /\ State(0).batch = batch[0] /\ State(0).warm = warm[0]
  BY PhaseFacts
<1>3. ASSUME NEW b \in Batches, AppDecode(b) PROVE IsLog(log') /\ Agreed(0, 0)'
  <2> DEFINE cmd == DecodeCmd(b)
  <2>1. State(0).ph = "between"
    BY <1>3, PhaseFacts DEF AppDecode
  <2>2. /\ StartUbatch(0, b, 1) /\ UNCHANGED <<cache, warm>>
        /\ acc' = [acc EXCEPT ![0] = acc[0] + 1]
        /\ log' = Append(log, cmd)
        /\ chan' = Push(chan, <<0, 1>>, Ctl(acc[0] + 1, cmd))
    BY <1>3 DEF AppDecode
  <2>3. /\ State(0)' = Started(State(0), acc[0] + 1, b, 1)
        /\ \A m \in Node \ {0} : State(m)' = State(m)
        /\ at' = [at EXCEPT ![0] = 0]
    BY <1>1, <2>2, StartState
  <2>4. AfterBetween(State(0), cmd) = Started(State(0), acc[0] + 1, b, 1)
    BY <1>2 DEF AfterBetween, DecodeCmd
  <2>5. cmd \in {"decode", "kv"} \X (Batches \union KvCmds) /\ cmd[2] \in Batches
    BY DEF DecodeCmd
  <2> HIDE DEF cmd
  <2>6. QED BY <2>1, <2>2, <2>3, <2>4, <2>5, AgreeSends
<1>4. ASSUME NEW op \in KvCmds, AppKv(op) PROVE IsLog(log') /\ Agreed(0, 0)'
  <2> DEFINE cmd == KvCmd(op)
  <2>1. State(0).ph = "between" /\ pc[0] = "idle"
    BY <1>4, PhaseFacts DEF AppKv
  <2>2. /\ UNCHANGED <<pc, batch, ub, at, warm>> /\ ~warm[0]
        /\ cache' = [cache EXCEPT ![0] = CacheOp(cache[0], op)]
        /\ acc' = [acc EXCEPT ![0] = acc[0] + 1]
        /\ log' = Append(log, cmd)
        /\ chan' = Push(chan, <<0, 1>>, Ctl(acc[0] + 1, cmd))
    BY <1>4 DEF AppKv, decoding
  <2>3. batch[0] = <<>> /\ ub[0] = 0
    <3>1. PICK f, T, pos : Agrees(f, T, pos, base, o)
      BY DEF Agreed
    <3>2. IsState(State(0), log)
      <4>1. State(0) = f[pos[0]] /\ IsState(f[pos[0]], log)
        BY <1>1, <3>1, AgreeFacts
      <4>2. QED BY <4>1
    <3>3. QED BY <1>2, <2>1, <3>2 DEF IsState
  <2>4. warm[0] = FALSE
    BY <1>1, <2>2 DEF TypeOK
  <2>5. AfterBetween(State(0), cmd) = Returned(State(0), acc[0] + 1, CacheOp(cache[0], op))
    BY <1>2 DEF AfterBetween, KvCmd
  <2>6. State(0)' = Returned(State(0), acc[0] + 1, CacheOp(cache[0], op))
    BY <1>1, <1>2, <2>1, <2>2, <2>3, <2>4 DEF State, Phase, Returned, TypeOK
  <2>7. \A m \in Node \ {0} : State(m)' = State(m)
    BY <1>1, <2>2 DEF State, Phase, TypeOK
  <2>8. cmd \in {"decode", "kv"} \X (Batches \union KvCmds) /\ cmd[1] # "decode"
    BY DEF KvCmd
  <2> HIDE DEF cmd
  <2>9. QED BY <2>1, <2>2, <2>5, <2>6, <2>7, <2>8, AgreeSends
<1>5. QED BY <1>3, <1>4

(* No worker takes a hidden state for a command, and a worker that waited  *)
(* in vain is where it was.                                                *)
LEMMA NeverMisreads ==
  ASSUME TypeInv, IsLog(log), Agreement, NEW n \in Worker
  PROVE  ~Misread(n)
<1> SUFFICES ASSUME Misread(n) PROVE FALSE
  OBVIOUS
<1>1. PICK f, T, pos, base, o : Agrees(f, T, pos, base, o)
  BY DEF Agreement, Agreed
<1>2. /\ pc[n] = "idle" /\ chan[<<n - 1, n>>] # <<>>
      /\ Head(chan[<<n - 1, n>>]).type = "tensor"
  BY DEF Misread
<1>3. f[pos[n]].ph = "between"
  <2>1. State(n).ph = "between"
    BY <1>2, PhaseFacts
  <2>2. n \in Node
    BY RingFacts
  <2>3. State(n) = f[pos[n]]
    BY <1>1, <2>2, AgreeFacts
  <2>4. QED BY <2>1, <2>3
<1>4. Head(chan[<<n - 1, n>>]) = Ctl(f[pos[n]].k + 1, log[f[pos[n]].k + 1])
  BY <1>1, <1>2, <1>3, WorkerReads
<1>5. Head(chan[<<n - 1, n>>]).type = "ctl"
  BY <1>4 DEF Ctl
<1>6. QED BY <1>2, <1>5

LEMMA AgreeTimeout ==
  ASSUME TypeInv, InStep, IsLog(log), NEW base, NEW o, Agreed(base, o),
         NEW n \in Worker, Timeout(n)
  PROVE  Agreed(base, o)'
<1>1. TypeOK /\ n \in Node
  BY RingFacts DEF TypeInv
<1>2. /\ pc[n] = "idle" /\ Return(n, cache[n]) /\ UNCHANGED <<chan, acc, log>> /\ ~warm[n]
  BY DEF Timeout, InStep
<1>3. PICK f, T, pos : Agrees(f, T, pos, base, o)
  BY DEF Agreed
<1>4. State(n) = f[pos[n]] /\ IsState(f[pos[n]], log) /\ State(n).ph = "between"
  BY <1>1, <1>2, <1>3, AgreeFacts, PhaseFacts
<1>5. at[n] = n
  BY <1>3, <1>4, AtFirst
<1>6. ub[n] = 0 /\ batch[n] = <<>> /\ warm[n] = FALSE
  <2>1. IsState(State(n), log)
    BY <1>4
  <2>2. State(n).j = 0 /\ State(n).batch = <<>>
    BY <1>4, <2>1 DEF IsState
  <2>3. QED BY <1>1, <1>2, <2>2, PhaseFacts DEF TypeOK
<1>7. acc' = [acc EXCEPT ![n] = acc[n]]
  BY <1>1, <1>2 DEF TypeOK
<1>8. /\ State(n)' = Returned(State(n), acc[n], cache[n])
      /\ \A m \in Node \ {n} : State(m)' = State(m)
      /\ at' = [at EXCEPT ![n] = n]
  BY <1>1, <1>2, <1>7, ReturnState
<1>9. Returned(State(n), acc[n], cache[n]) = State(n)
  BY <1>2, <1>6 DEF Returned, State, Phase
<1>10. at' = at
  BY <1>1, <1>5, <1>8 DEF TypeOK
<1>11. \A m \in Node : State(m)' = State(m)
  BY <1>8, <1>9
<1>12. QED BY <1>2, <1>3, <1>10, <1>11, StandStill

(* A step at which no node does any of its work.                           *)
LEMMA AgreeElse ==
  ASSUME NEW base, NEW o, Agreed(base, o),
         UNCHANGED <<cache, batch, ub, at, warm, chan, acc, log>>,
         \A n \in Node : pc'[n] = pc[n] \/ {pc[n], pc'[n]} \cap {"slot", "gf"} = {}
  PROVE  Agreed(base, o)'
<1>1. PICK f, T, pos : Agrees(f, T, pos, base, o)
  BY DEF Agreed
<1>2. \A n \in Node : Phase(n)' = Phase(n)
  <2> TAKE n \in Node
  <2>1. CASE pc'[n] = pc[n]
    BY <2>1 DEF Phase
  <2>2. CASE {pc[n], pc'[n]} \cap {"slot", "gf"} = {}
    <3>1. pc[n] \notin {"slot", "gf"} /\ pc'[n] \notin {"slot", "gf"}
      BY <2>2
    <3>2. QED BY <3>1 DEF Phase
  <2>3. QED BY <2>1, <2>2
<1>3. \A n \in Node : State(n)' = State(n)
  BY <1>2 DEF State
<1>4. QED BY <1>1, <1>3, StandStill

LEMMA InitAgree == ASSUME Init, InStep PROVE AgreeInv
<1>1. TypeInv /\ log = <<>>
  BY InitType DEF Init
<1>2. IsLog(log)
  BY <1>1 DEF IsLog
<1>3. 0 \in Node /\ N \in Nat /\ Windows \in Nat /\ 0 \in Multiple
      /\ \A n \in Worker : n \in Node
  BY RingFacts, RingAssumption, MultipleFacts
<1> DEFINE s == State(0)
           f == [i \in Nat |-> s]
           pos == [n \in Node |-> 0]
<1>4. \A n \in Node : State(n) = s
  BY <1>3 DEF Init, State, Phase
<1>5. /\ s.k = 0 /\ s.j = 0 /\ s.ph = "between" /\ s.batch = <<>>
  BY <1>3 DEF Init, State, Phase
<1>6. Len(log) = 0 /\ 0..0 = {0} /\ 0..0-1 = {}
  BY <1>1
<1>7. IsState(s, log)
  <2>1. <<>> \in Seq(Ubatches) /\ 0 \in 0..Len(log)
    BY <1>6
  <2> HIDE DEF s, f, pos
  <2>2. s.k \in 0..Len(log) /\ s.j \in Nat /\ s.ph \in {"between", "slot", "gf"}
        /\ s.batch \in Seq(Ubatches)
    BY <1>5, <2>1
  <2>3. (s.ph = "between" <=> s.batch = <<>>) /\ (s.ph = "between" => s.j = 0)
    BY <1>5
  <2>4. QED BY <2>2, <2>3 DEF IsState
<1>8. f[0] = s /\ \A n \in Node : pos[n] = 0
  OBVIOUS
<1> HIDE DEF s, f, pos
<1>9. History(f, 0, log)
  BY <1>6, <1>7, <1>8 DEF History
<1>10. pos \in [Node -> 0..0]
  BY <1>6 DEF pos
<1>11. Placing(f, 0, pos, log)
  BY <1>3, <1>5, <1>6, <1>8, <1>10 DEF Placing
<1>12. Graphs(f, pos, 0, 0, at)
  BY <1>3, <1>5, <1>8 DEF Graphs, Init, FirstGraph
<1>13. Contents(f, pos, 0, 0, chan, log)
  <2>1. \A c \in Channel : Got(f, pos, c) = 0 /\ Sent(f, pos, c) = 0 /\ chan[c] = <<>>
    BY <1>3, <1>5, <1>8, ChannelFacts DEF Got, Sent, Init
  <2>2. \A c \in Channel : Holds(f[pos[0]], 0, 0, c) = FALSE
    BY DEF Holds, InHand
  <2>3. \A t : Filled(<<>>, log, 0, 0, FALSE, t)
    BY DEF Filled
  <2>4. QED BY <2>1, <2>2, <2>3 DEF Contents
<1>14. Agreement
  BY <1>4, <1>8, <1>9, <1>11, <1>12, <1>13 DEF Agreement, Agreed, Agrees
<1>15. QED BY <1>1, <1>2, <1>14 DEF AgreeInv

LEMMA NextAgree == AgreeInv /\ [Next]_vars => AgreeInv'
<1> SUFFICES ASSUME AgreeInv, [Next]_vars PROVE AgreeInv'
  OBVIOUS
<1>1. TypeInv /\ InStep /\ IsLog(log) /\ Agreement
  BY DEF AgreeInv
<1> PICK base, o : Agreed(base, o)
  BY <1>1 DEF Agreement
<1>2. TypeOK /\ TypeInv'
  BY <1>1, NextType DEF TypeInv
<1>3. InStep'
  BY <1>1 DEF InStep
<1>4. SUFFICES IsLog(log') /\ Agreement'
  <2>1. IsLog(log') => IsLog(log)'
    BY DEF IsLog
  <2>2. QED BY <1>2, <1>3, <2>1 DEF AgreeInv
<1>5. ASSUME UNCHANGED <<cache, batch, ub, at, warm, chan, acc, log>>,
             \A n \in Node : pc'[n] = pc[n] \/ {pc[n], pc'[n]} \cap {"slot", "gf"} = {}
      PROVE  IsLog(log') /\ Agreement'
  BY <1>1, <1>5, AgreeElse DEF Agreement
<1>6. CASE \E b \in Batches : AppDecode(b)
  BY <1>1, <1>6, AgreeApp DEF Agreement
<1>7. CASE \E op \in KvCmds : AppKv(op)
  BY <1>1, <1>7, AgreeApp DEF Agreement
<1>8. CASE \E op \in LocalCmds : AppLocalKv(op)
  BY <1>1, <1>8 DEF InStep
<1>9. CASE Shutdown \/ Closed
  <2>1. /\ UNCHANGED <<cache, batch, ub, at, warm, chan, acc, log>>
        /\ \A n \in Node : pc'[n] = pc[n] \/ {pc[n], pc'[n]} \cap {"slot", "gf"} = {}
    BY <1>2, <1>9 DEF Shutdown, Closed, decoding, TypeOK
  <2>2. QED BY <1>5, <2>1
<1>10. ASSUME NEW n \in Node, Main(n) PROVE IsLog(log') /\ Agreement'
  <2>1. log' = log
    BY <1>10 DEF Main, Slot, SubGraph
  <2>2. CASE Slot(n)
    BY <1>1, <2>1, <2>2, AgreeSlot DEF Agreement
  <2>3. CASE SubGraph(n)
    <3>1. n = 0 \/ n \in Worker
      BY RingAssumption DEF Node, Worker
    <3>2. ASSUME n = 0 PROVE Agreement'
      <4>1. at[0] <= Windows \/ at[0] = Windows + 1
        <5>1. at[0] \in 0..Windows+1
          BY <1>2, RingFacts DEF TypeOK
        <5>2. QED BY <5>1, RingAssumption
      <4>2. QED BY <1>1, <2>3, <3>2, <4>1, AgreeGraphMaster DEF Agreement
    <3>3. ASSUME n \in Worker PROVE Agreement'
      BY <1>1, <2>3, <3>3, AgreeGraphWorker DEF Agreement
    <3>4. QED BY <1>1, <2>1, <3>1, <3>2, <3>3
  <2>4. QED BY <1>10, <2>2, <2>3 DEF Main
<1>11. ASSUME NEW n \in Worker, Wait(n) PROVE IsLog(log') /\ Agreement'
  <2>1. CASE AcceptKv(n) \/ AcceptBatch(n)
    <3>1. log' = log
      BY <2>1 DEF AcceptKv, AcceptBatch
    <3>2. QED BY <1>1, <2>1, <3>1, AgreeAccept DEF Agreement
  <2>2. CASE Misread(n)
    BY <1>1, <2>2, NeverMisreads
  <2>3. CASE Timeout(n)
    <3>1. log' = log
      BY <2>3 DEF Timeout
    <3>2. QED BY <1>1, <2>3, <3>1, AgreeTimeout DEF Agreement
  <2>4. CASE CheckStop(n)
    <3>1. /\ UNCHANGED <<cache, batch, ub, at, warm, chan, acc, log>>
          /\ \A m \in Node : pc'[m] = pc[m] \/ {pc[m], pc'[m]} \cap {"slot", "gf"} = {}
      BY <1>2, <2>4, RingFacts DEF CheckStop, decoding, TypeOK
    <3>2. QED BY <1>5, <3>1
  <2>5. QED BY <1>11, <2>1, <2>2, <2>3, <2>4 DEF Wait
<1>12. ASSUME NEW n \in Worker, Signal(n) PROVE IsLog(log') /\ Agreement'
  <2>1. UNCHANGED <<cache, batch, ub, at, warm, chan, acc, log, pc>>
    BY <1>12 DEF Signal, RelayStop, StoreStop, decoding
  <2>2. QED BY <1>5, <2>1
<1>13. CASE Terminated \/ UNCHANGED vars
  <2>1. UNCHANGED <<cache, batch, ub, at, warm, chan, acc, log, pc>>
    BY <1>13 DEF Terminated, vars
  <2>2. QED BY <1>5, <2>1
<1>14. QED BY <1>6, <1>7, <1>8, <1>9, <1>10, <1>11, <1>12, <1>13 DEF Next

(* The agreement of the nodes is an invariant.                             *)
THEOREM AgreeTheorem == InStep /\ Spec => []AgreeInv
<1>1. Init /\ InStep => AgreeInv
  BY InitAgree
<1>2. AgreeInv /\ [Next]_vars => AgreeInv'
  BY NextAgree
<1>3. QED BY <1>1, <1>2, PTL DEF Spec

-----------------------------------------------------------------------------
(* What follows for the messages and the caches.                           *)
LEMMA PipeIsChannel ==
  ASSUME NEW base \in Nat, NEW o \in Node, base + o <= Windows + 1, ~InHand(base, o)
  PROVE  Pipe(base, o) \in Channel
<1>1. N \in Nat /\ N >= 2 /\ Windows \in Nat /\ o \in 0..N-1
  BY RingAssumption DEF Node
<1>2. CASE o = 0
  <2>1. N - 1 \in Worker /\ Pipe(base, o) = <<N - 1, 0>>
    BY <1>1, <1>2 DEF Pipe, Pred, Worker
  <2>2. QED BY <2>1, RingFacts
<1>3. CASE o # 0 /\ base + o <= Windows
  <2>1. o \in Worker /\ Pipe(base, o) = <<o - 1, o>>
    BY <1>1, <1>3 DEF Pipe, Pred, Worker
  <2>2. QED BY <2>1, RingFacts
<1>4. CASE o # 0 /\ base + o = Windows + 1
  <2>1. o # 1
    BY <1>4 DEF InHand
  <2>2. o - 1 \in Worker /\ Pipe(base, o) = <<o - 1, 0>>
    BY <1>1, <1>4, <2>1 DEF Pipe, Pred, Worker
  <2>3. QED BY <2>2, RingFacts
<1>5. QED BY <1>1, <1>2, <1>3, <1>4

LEMMA FlightFacts ==
  ASSUME NEW f, NEW T, NEW pos, NEW base, NEW o, Agrees(f, T, pos, base, o),
         TypeInv, IsLog(log)
  PROVE  LET P == f[pos[0]]
             d == Pipe(base, o)
         IN  IF P.ph = "gf" /\ ~InHand(base, o)
             THEN /\ InFlight = {<<d, Len(chan[d])>>}
                  /\ chan[d][Len(chan[d])] = Hidden(P, base, o)
             ELSE InFlight = {}
<1> DEFINE P == f[pos[0]]
           d == Pipe(base, o)
           t == Hidden(P, base, o)
<1>1. ASSUME NEW c \in Channel, NEW i \in DOMAIN chan[c]
      PROVE  /\ chan[c][i].type = "tensor" <=> Holds(P, base, o, c) /\ i = Len(chan[c])
             /\ Holds(P, base, o, c) => chan[c][Len(chan[c])] = t
  <2> DEFINE k == Got(f, pos, c)
             m == Sent(f, pos, c)
             h == Holds(P, base, o, c)
  <2>1. /\ IsSeq(chan[c]) /\ k \in Nat /\ m \in Nat /\ Filled(chan[c], log, k, m, h, t)
    BY Messages
  <2>2. i \in 1..Len(chan[c])
    BY <2>1 DEF IsSeq
  <2> HIDE DEF k, m
  <2>3. /\ k <= m /\ Len(chan[c]) = (m - k) + (IF h THEN 1 ELSE 0)
        /\ \A x \in 1..m-k : chan[c][x] = Ctl(k + x, log[k + x])
        /\ h => chan[c][m - k + 1] = t
    BY <2>1 DEF Filled
  <2>4. h => Len(chan[c]) = m - k + 1 /\ chan[c][Len(chan[c])] = t
    BY <2>1, <2>3
  <2>5. t.type = "tensor" /\ \A x, y : Ctl(x, y).type = "ctl"
    BY DEF Hidden, Tensor, Ctl
  <2> HIDE DEF h, t
  <2>6. CASE i \in 1..m-k
    <3>1. chan[c][i].type = "ctl"
      BY <2>3, <2>5, <2>6
    <3>2. h => i # Len(chan[c])
      BY <2>1, <2>4, <2>6
    <3>3. QED BY <2>4, <3>1, <3>2 DEF h
  <2>7. CASE i \notin 1..m-k
    <3>1. h /\ i = Len(chan[c])
      BY <2>1, <2>2, <2>3, <2>7
    <3>2. chan[c][i].type = "tensor"
      BY <2>4, <2>5, <3>1
    <3>3. QED BY <2>4, <3>1, <3>2 DEF h
  <2>8. QED BY <2>6, <2>7
<1>2. CASE P.ph = "gf" /\ ~InHand(base, o)
  <2>1. base \in Nat /\ o \in Node /\ base + o <= Windows + 1
    BY AgreeFacts DEF Graphs
  <2>2. d \in Channel
    BY <1>2, <2>1, PipeIsChannel
  <2>3. \A c \in Channel : Holds(P, base, o, c) <=> c = d
    BY <1>2 DEF Holds
  <2>4. Len(chan[d]) \in DOMAIN chan[d]
    <3>1. /\ IsSeq(chan[d]) /\ (chan[d] = <<>> <=> Got(f, pos, d) = Sent(f, pos, d)
                                                    /\ ~Holds(P, base, o, d))
      BY <2>2, Messages
    <3>2. chan[d] # <<>>
      BY <2>2, <2>3, <3>1
    <3>3. Len(chan[d]) \in Nat /\ Len(chan[d]) # 0 /\ DOMAIN chan[d] = 1..Len(chan[d])
      BY <3>1, <3>2 DEF IsSeq
    <3>4. QED BY <3>3
  <2>5. chan[d][Len(chan[d])] = t
    BY <1>1, <2>2, <2>3, <2>4
  <2> HIDE DEF d, t
  <2>6. ASSUME NEW c \in Channel
        PROVE  {x \in DOMAIN chan[c] : chan[c][x].type = "tensor"}
                 = IF c = d THEN {Len(chan[d])} ELSE {}
    BY <1>1, <2>3, <2>4
  <2>7. InFlight = {<<d, Len(chan[d])>>}
    BY <2>2, <2>6 DEF InFlight
  <2>8. QED BY <1>2, <2>5, <2>7 DEF d, t
<1>3. CASE ~(P.ph = "gf" /\ ~InHand(base, o))
  <2>1. \A c \in Channel : ~Holds(P, base, o, c)
    BY <1>3 DEF Holds
  <2>2. \A c \in Channel : {x \in DOMAIN chan[c] : chan[c][x].type = "tensor"} = {}
    BY <1>1, <2>1
  <2>3. InFlight = {}
    BY <2>2 DEF InFlight
  <2>4. QED BY <1>3, <2>3
<1>4. QED BY <1>2, <1>3

(* A message is read for what it is.                                       *)
LEMMA AgreeConfusion == AgreeInv => NoConfusion
<1> SUFFICES ASSUME AgreeInv, NEW c \in Channel, chan[c] # <<>>
             PROVE  Expected(c[2], Head(chan[c]))
  BY DEF NoConfusion
<1>1. TypeInv /\ IsLog(log)
  BY DEF AgreeInv
<1>2. PICK f, T, pos, base, o : Agrees(f, T, pos, base, o)
  BY DEF AgreeInv, Agreement, Agreed
<1>3. /\ c[2] \in Node /\ (c[2] # 0 => c[2] \in Worker /\ c = <<c[2] - 1, c[2]>>)
  BY ChannelFacts
<1>4. State(0) = f[pos[0]] /\ State(c[2]) = f[pos[c[2]]]
  BY <1>2, <1>3, <1>1, AgreeFacts, RingFacts
<1> DEFINE m == Head(chan[c])
           P == f[pos[0]]
<1>5. CASE c[2] = 0
  <2>1. P.ph = "gf" /\ at[0] = base + o /\ m = Hidden(P, base, o)
    BY <1>1, <1>2, <1>5, MasterReads
  <2>2. pc[0] = "gf" /\ P.k = acc[0] /\ P.j = ub[0]
    BY <1>4, <2>1, PhaseFacts
  <2>3. m.type = "tensor" /\ m.k = acc[0] /\ m.j = ub[0] /\ m.g = at[0]
    BY <2>1, <2>2 DEF Hidden, Tensor
  <2>4. QED BY <1>5, <2>2, <2>3 DEF Expected
<1>6. CASE c[2] # 0
  <2> DEFINE n == c[2]
  <2>1. n \in Worker /\ chan[<<n - 1, n>>] # <<>> /\ m = Head(chan[<<n - 1, n>>])
    BY <1>3, <1>6
  <2>2. CASE pc[n] \in {"idle", "check"}
    <3>1. f[pos[n]].ph = "between"
      <4>1. State(n).ph = "between"
        BY <2>2, PhaseFacts
      <4>2. QED BY <1>4, <4>1
    <3>2. m = Ctl(f[pos[n]].k + 1, log[f[pos[n]].k + 1])
      BY <1>1, <1>2, <2>1, <3>1, WorkerReads
    <3>3. f[pos[n]].k = acc[n]
      BY <1>4, PhaseFacts
    <3>4. m.type = "ctl" /\ m.k = acc[n] + 1
      BY <3>2, <3>3 DEF Ctl
    <3>5. QED BY <1>6, <2>2, <3>4 DEF Expected
  <2>3. CASE pc[n] = "gf"
    <3>1. f[pos[n]].ph = "gf"
      <4>1. State(n).ph = "gf"
        BY <2>3, PhaseFacts
      <4>2. QED BY <1>4, <4>1
    <3>2. pos[n] = pos[0] /\ at[n] = base + o /\ m = Hidden(P, base, o)
      BY <1>1, <1>2, <2>1, <3>1, WorkerReads
    <3>3. P.k = acc[n] /\ P.j = ub[n]
      BY <1>4, <3>2, PhaseFacts
    <3>4. m.type = "tensor" /\ m.k = acc[n] /\ m.j = ub[n] /\ m.g = at[n]
      BY <3>2, <3>3 DEF Hidden, Tensor
    <3>5. QED BY <2>3, <3>4 DEF Expected
  <2>4. CASE pc[n] \notin {"idle", "check", "gf"}
    BY <1>6, <2>4 DEF Expected
  <2>5. QED BY <2>2, <2>3, <2>4
<1>7. QED BY <1>5, <1>6

(* The history has no state twice.                                         *)
LEMMA AgreeReplicas == AgreeInv => ReplicasAgree
<1> SUFFICES ASSUME AgreeInv, NEW m \in Node, NEW n \in Node, Stage(m) = Stage(n)
             PROVE  cache[m] = cache[n]
  BY DEF ReplicasAgree
<1>1. IsLog(log)
  BY DEF AgreeInv
<1>2. PICK f, T, pos, base, o : Agrees(f, T, pos, base, o)
  BY DEF AgreeInv, Agreement, Agreed
<1>3. /\ State(m) = f[pos[m]] /\ State(n) = f[pos[n]] /\ History(f, T, log)
      /\ T \in Nat /\ pos[m] \in 0..T /\ pos[n] \in 0..T
      /\ IsState(f[pos[m]], log) /\ IsState(f[pos[n]], log)
  BY <1>1, <1>2, AgreeFacts
<1>4. acc[m] = acc[n] /\ ub[m] = ub[n] /\ Phase(m) = Phase(n)
  BY DEF Stage, Phase
<1>5. /\ f[pos[m]].k = f[pos[n]].k /\ f[pos[m]].j = f[pos[n]].j
      /\ f[pos[m]].ph = f[pos[n]].ph /\ f[pos[m]].k \in Nat /\ f[pos[m]].j \in Nat
  <2>1. State(m).k = State(n).k /\ State(m).j = State(n).j /\ State(m).ph = State(n).ph
    BY <1>4 DEF State
  <2>2. f[pos[m]].k \in Nat /\ f[pos[m]].j \in Nat
    BY <1>3 DEF IsState
  <2>3. QED BY <1>3, <2>1, <2>2
<1>6. ~Before(f[pos[m]], f[pos[n]]) /\ ~Before(f[pos[n]], f[pos[m]])
  BY <1>5 DEF Before
<1>7. pos[m] = pos[n]
  <2>1. ~(pos[m] < pos[n]) /\ ~(pos[n] < pos[m])
    BY <1>3, <1>6 DEF History
  <2>2. QED BY <1>3, <2>1
<1>8. State(m).cache = State(n).cache
  BY <1>3, <1>7
<1>9. QED BY <1>8, PhaseFacts

(* The hidden state is the one the agreement speaks of.                    *)
LEMMA AgreeFlight == AgreeInv => OneHiddenState /\ SameCacheInAllLayers
<1> SUFFICES ASSUME AgreeInv PROVE OneHiddenState /\ SameCacheInAllLayers
  OBVIOUS
<1>1. TypeInv /\ IsLog(log)
  BY DEF AgreeInv
<1>2. PICK f, T, pos, base, o : Agrees(f, T, pos, base, o)
  BY DEF AgreeInv, Agreement, Agreed
<1> DEFINE P == f[pos[0]]
           d == Pipe(base, o)
<1>3. P = State(0)
  BY <1>1, <1>2, AgreeFacts, RingFacts
<1>4. CASE P.ph = "gf" /\ ~InHand(base, o)
  <2>1. /\ InFlight = {<<d, Len(chan[d])>>}
        /\ chan[d][Len(chan[d])] = Hidden(P, base, o)
    BY <1>1, <1>2, <1>4, FlightFacts
  <2>2. pc[0] = "gf" /\ P.cache = cache[0]
    BY <1>3, <1>4, PhaseFacts
  <2>3. Cardinality(InFlight) <= 1
    <3>1. PICK x : InFlight = {x}
      BY <2>1
    <3>2. Cardinality({x}) = 1
      BY FS_Singleton
    <3>3. QED BY <3>1, <3>2
  <2>4. chan[d][Len(chan[d])].seen = {cache[0]}
    BY <2>1, <2>2 DEF Hidden, Tensor
  <2> HIDE DEF d
  <2>5. QED BY <2>1, <2>2, <2>3, <2>4 DEF OneHiddenState, SameCacheInAllLayers
<1>5. CASE ~(P.ph = "gf" /\ ~InHand(base, o))
  <2>1. InFlight = {}
    BY <1>1, <1>2, <1>5, FlightFacts
  <2>2. Cardinality(InFlight) <= 1
    BY <2>1, FS_EmptySet
  <2>3. QED BY <2>1, <2>2 DEF OneHiddenState, SameCacheInAllLayers
<1>6. QED BY <1>4, <1>5

(* What llama_recv_meta and llama_recv_tensors find in their socket is     *)
(* always the next command, or the input of the sub-graph that is waited   *)
(* for.                                                                    *)
THEOREM NoConfusionTheorem == InStep /\ Spec => []NoConfusion
BY AgreeTheorem, AgreeConfusion, PTL

(* There is at most one hidden state on its way, and none that the master  *)
(* has stopped waiting for.                                                *)
THEOREM OneHiddenStateTheorem == InStep /\ Spec => []OneHiddenState
BY AgreeTheorem, AgreeFlight, PTL

(* Devices that have come equally far have the same cache metadata.        *)
THEOREM ReplicasAgreeTheorem == InStep /\ Spec => []ReplicasAgree
BY AgreeTheorem, AgreeReplicas, PTL

(* A hidden state has only seen caches like the master's.                  *)
THEOREM SameCacheTheorem == InStep /\ Spec => []SameCacheInAllLayers
BY AgreeTheorem, AgreeFlight, PTL
-----------------------------------------------------------------------------
(* The ring as one device.  The sub-graph that is computed next is the one *)
(* the hidden state is the input of, or the master's own.                  *)
Numbered ==
  \A base, o : TypeInv /\ IsLog(log) /\ Agreed(base, o) =>
                 NextToCompute = IF pc[0] = "gf" THEN base + o ELSE -1

LEMMA NumberLemma == Numbered
<1> SUFFICES ASSUME NEW base, NEW o, TypeInv, IsLog(log), Agreed(base, o)
             PROVE  NextToCompute = IF pc[0] = "gf" THEN base + o ELSE -1
  BY DEF Numbered
<1>1. PICK f, T, pos : Agrees(f, T, pos, base, o)
  BY DEF Agreed
<1> DEFINE P == f[pos[0]]
           d == Pipe(base, o)
<1>2. 0 \in Node /\ P = State(0)
  BY <1>1, AgreeFacts, RingFacts
<1>3. CASE pc[0] # "gf"
  BY <1>3 DEF NextToCompute
<1>4. CASE pc[0] = "gf" /\ ~InHand(base, o)
  <2>1. P.ph = "gf"
    BY <1>2, <1>4, PhaseFacts
  <2>2. /\ InFlight = {<<d, Len(chan[d])>>}
        /\ chan[d][Len(chan[d])] = Hidden(P, base, o)
    BY <1>1, <1>4, <2>1, FlightFacts
  <2> HIDE DEF d
  <2> DEFINE y == CHOOSE x \in InFlight : TRUE
  <2>3. NextToCompute = chan[y[1]][y[2]].g
    BY <1>4, <2>2 DEF NextToCompute
  <2>4. y \in InFlight
    <3>1. \E x \in InFlight : TRUE
      BY <2>2
    <3>2. QED BY <3>1
  <2> HIDE DEF y
  <2>5. y = <<d, Len(chan[d])>>
    BY <2>2, <2>4
  <2>6. QED BY <1>4, <2>2, <2>3, <2>5 DEF Hidden, Tensor
<1>5. CASE pc[0] = "gf" /\ InHand(base, o)
  <2>1. P.ph = "gf"
    BY <1>2, <1>5, PhaseFacts
  <2>2. InFlight = {}
    BY <1>1, <1>5, FlightFacts
  <2>3. at[0] = Capped(Turn(0, base, o)) /\ base \in Nat /\ o \in Node
    BY <1>1, <2>1, AgreeFacts DEF Graphs
  <2>4. at[0] = base + o
    <3>1. N \in Nat /\ N >= 2 /\ Windows \in Nat /\ o \in 0..N-1
      BY <2>3, RingAssumption DEF Node
    <3>2. QED BY <1>5, <2>3, <3>1 DEF InHand, Capped, Turn
  <2>5. QED BY <1>5, <2>2, <2>4 DEF NextToCompute
<1>6. QED BY <1>3, <1>4, <1>5

LEMMA NumberNext == Numbered'
BY NumberLemma, PTL

LEMMA DeviceStands ==
  ASSUME pc'[0] = "gf" <=> pc[0] = "gf", cache'[0] = cache[0], batch'[0] = batch[0],
         warm'[0] = warm[0], at'[0] = at[0], chan' = chan
  PROVE  UNCHANGED Device!dvars
<1>1. InFlight' = InFlight
  BY DEF InFlight
<1>2. NextToCompute' = NextToCompute
  BY <1>1 DEF NextToCompute
<1>3. QED BY <1>2 DEF Device!dvars

LEMMA OthersWork ==
  ASSUME TypeOK, NEW n \in Worker, Main(n) \/ Wait(n) \/ Signal(n)
  PROVE  /\ pc'[0] = pc[0] /\ cache'[0] = cache[0] /\ batch'[0] = batch[0]
         /\ warm'[0] = warm[0] /\ at'[0] = at[0]
<1>1. n # 0 /\ 0 \in Node /\ n \in Node
  <2>1. n # 0
    BY RingAssumption DEF Worker
  <2>2. QED BY <2>1, RingFacts
<1> DEFINE Same == /\ pc'[0] = pc[0] /\ cache'[0] = cache[0] /\ batch'[0] = batch[0]
                   /\ warm'[0] = warm[0] /\ at'[0] = at[0]
<1>2. ASSUME NEW c, Return(n, c) PROVE Same
  BY <1>1, <1>2 DEF Return, TypeOK
<1>3. ASSUME NEW b, NEW j, StartUbatch(n, b, j), UNCHANGED <<cache, warm>> PROVE Same
  BY <1>1, <1>3 DEF StartUbatch, TypeOK
<1>4. CASE Slot(n)
  <2>1. CASE CachePlace(cache[n], Head(batch[n])).ok
    BY <1>1, <1>4, <2>1 DEF Slot, TypeOK, decoding
  <2>2. CASE ~CachePlace(cache[n], Head(batch[n])).ok
    <3>1. Return(n, CachePlace(cache[n], Head(batch[n])).cache)
      BY <1>4, <2>2 DEF Slot
    <3>2. QED BY <1>2, <3>1
  <2>3. QED BY <2>1, <2>2
<1>5. CASE SubGraph(n)
  <2>1. PICK ch, seen : Compute(n, ch, seen)
    BY <1>5 DEF SubGraph
  <2>2. CASE ~LastGraph(n, at[n])
    BY <1>1, <2>1, <2>2 DEF Compute, TypeOK
  <2>3. CASE LastGraph(n, at[n])
    <3>1. EndUbatch(n)
      BY <2>1, <2>3 DEF Compute
    <3>2. \/ StartUbatch(n, Tail(batch[n]), ub[n] + 1) /\ UNCHANGED <<cache, warm>>
          \/ Return(n, CacheEnd(cache[n]))
      BY <3>1 DEF EndUbatch
    <3>3. QED BY <1>2, <1>3, <3>2
  <2>4. QED BY <2>2, <2>3
<1>6. CASE AcceptKv(n)
  BY <1>2, <1>6 DEF AcceptKv
<1>7. CASE AcceptBatch(n)
  BY <1>3, <1>7 DEF AcceptBatch
<1>8. CASE Misread(n)
  <2>1. Return(n, CacheEnd(cache[n])) \/
        (pc' = [pc EXCEPT ![n] = "dead"] /\ UNCHANGED <<cache, batch, ub, at, warm>>)
    BY <1>8 DEF Misread, decoding
  <2>2. QED BY <1>1, <1>2, <2>1 DEF TypeOK
<1>9. CASE Timeout(n)
  BY <1>2, <1>9 DEF Timeout
<1>10. CASE CheckStop(n)
  BY <1>1, <1>10 DEF CheckStop, decoding, TypeOK
<1>11. CASE Signal(n)
  BY <1>11 DEF Signal, RelayStop, StoreStop, decoding
<1>12. QED BY <1>4, <1>5, <1>6, <1>7, <1>8, <1>9, <1>10, <1>11 DEF Main, Wait

(* A step of the ring is a step of the device or none of its.              *)
LEMMA DeviceApp ==
  ASSUME TypeOK, IsLog(log), Agreement,
         (\E b \in Batches : AppDecode(b)) \/ (\E op \in KvCmds : AppKv(op))
  PROVE  Device!Next
<1>1. 0 \in Node
  BY RingFacts
<1>2. pc[0] = "idle"
  BY DEF AppDecode, AppKv
<1>3. batch[0] = <<>>
  <2>1. PICK f, T, pos, base, o : Agrees(f, T, pos, base, o)
    BY DEF Agreement, Agreed
  <2>2. IsState(State(0), log)
    <3>1. State(0) = f[pos[0]] /\ IsState(f[pos[0]], log)
      BY <1>1, <2>1, AgreeFacts
    <3>2. QED BY <3>1
  <2>3. State(0).ph = "between" /\ State(0).batch = batch[0]
    BY <1>2, PhaseFacts
  <2>4. QED BY <2>2, <2>3 DEF IsState
<1>4. NextToCompute = -1
  BY <1>2 DEF NextToCompute
<1>5. ASSUME NEW b \in Batches, AppDecode(b) PROVE Device!Decode(b)
  <2>1. pc'[0] = "slot" /\ batch'[0] = b /\ (warm[0] => b = WarmBatch)
        /\ cache' = cache /\ warm' = warm
    BY <1>1, <1>5 DEF AppDecode, StartUbatch, TypeOK
  <2>2. NextToCompute' = -1
    BY <2>1 DEF NextToCompute
  <2>3. QED BY <1>3, <1>4, <2>1, <2>2 DEF Device!Decode
<1>6. ASSUME NEW op \in KvCmds, AppKv(op) PROVE Device!Kv(op)
  <2>1. pc'[0] = "idle" /\ batch' = batch /\ ~warm[0] /\ warm' = warm
        /\ cache'[0] = CacheOp(cache[0], op)
    BY <1>1, <1>6 DEF AppKv, decoding, TypeOK
  <2>2. NextToCompute' = -1
    BY <2>1 DEF NextToCompute
  <2>3. QED BY <1>3, <1>4, <2>1, <2>2 DEF Device!Kv
<1>7. QED BY <1>5, <1>6 DEF Device!Next

LEMMA DeviceEnds ==
  ASSUME TypeOK, NEW c, Return(0, c)
  PROVE  Device!End(c)
<1>1. /\ pc'[0] = "idle" /\ batch'[0] = <<>> /\ warm'[0] = FALSE
      /\ cache'[0] = IF warm[0] THEN CacheCleared(c) ELSE c
  BY RingFacts DEF Return, TypeOK
<1>2. NextToCompute' = -1
  BY <1>1 DEF NextToCompute
<1>3. QED BY <1>1, <1>2 DEF Device!End

LEMMA DeviceSlot ==
  ASSUME TypeInv, TypeInv', IsLog(log), IsLog(log)', NEW base, NEW o, Agreed(base, o), Slot(0)
  PROVE  Device!Slot
<1> DEFINE p == CachePlace(cache[0], Head(batch[0]))
<1>1. 0 \in Node /\ TypeOK /\ pc[0] = "slot"
  BY RingFacts DEF TypeInv, Slot
<1>2. batch[0] # <<>>
  <2>1. PICK f, T, pos : Agrees(f, T, pos, base, o)
    BY DEF Agreed
  <2>2. IsState(State(0), log)
    <3>1. State(0) = f[pos[0]] /\ IsState(f[pos[0]], log)
      BY <1>1, <2>1, AgreeFacts
    <3>2. QED BY <3>1
  <2>3. State(0).ph = "slot" /\ State(0).batch = batch[0]
    BY <1>1, PhaseFacts
  <2>4. QED BY <2>2, <2>3 DEF IsState
<1>3. NextToCompute = -1
  BY <1>1 DEF NextToCompute
<1>4. CASE p.ok
  <2>1. /\ pc'[0] = "gf" /\ cache'[0] = p.cache /\ batch' = batch /\ warm' = warm
    BY <1>1, <1>4 DEF Slot, decoding, TypeOK
  <2>2. Agreed(0, 0)'
    BY <1>1, AgreeSlot
  <2>3. NextToCompute' = IF pc'[0] = "gf" THEN 0 + 0 ELSE -1
    BY <2>2, NumberNext DEF Numbered
  <2>4. NextToCompute' = 0
    BY <2>1, <2>3
  <2>5. QED BY <1>2, <1>3, <1>4, <2>1, <2>4 DEF Device!Slot
<1>5. CASE ~p.ok
  <2>1. Device!End(p.cache)
    <3>1. Return(0, p.cache)
      BY <1>5 DEF Slot
    <3>2. QED BY <1>1, <3>1, DeviceEnds
  <2>2. QED BY <1>2, <1>3, <1>5, <2>1 DEF Device!Slot
<1>6. QED BY <1>4, <1>5

LEMMA DeviceGraphs ==
  ASSUME TypeInv, TypeInv', IsLog(log), IsLog(log)', NEW base, NEW o, Agreed(base, o),
         SubGraph(0)
  PROVE  Device!Layers \/ Device!Output
<1>1. 0 \in Node /\ TypeOK /\ pc[0] = "gf"
  BY RingFacts DEF TypeInv, SubGraph
<1>2. /\ base \in Nat /\ base + o = at[0] /\ at[0] \in 0..Windows+1
      /\ at[0] <= Windows => o = 0 /\ Agreed(base, 1)'
      /\ Windows \in Nat
  BY <1>1, AgreeGraphMaster, RingAssumption DEF TypeOK
<1>3. NextToCompute = at[0]
  BY <1>1, <1>2, NumberLemma DEF Numbered
<1>4. PICK ch, seen : Compute(0, ch, seen)
  BY DEF SubGraph
<1>5. CASE at[0] <= Windows
  <2>1. UNCHANGED <<pc, cache, batch, ub, warm>>
    <3>1. ~LastGraph(0, at[0])
      BY <1>2, <1>5 DEF LastGraph
    <3>2. QED BY <1>4, <3>1 DEF Compute
  <2>2. Agreed(base, 1)' /\ at[0] = base
    <3>1. o = 0 /\ Agreed(base, 1)'
      BY <1>2, <1>5
    <3>2. QED BY <1>2, <3>1
  <2>3. NextToCompute' = IF pc'[0] = "gf" THEN base + 1 ELSE -1
    BY <2>2, NumberNext DEF Numbered
  <2>4. NextToCompute' = NextToCompute + 1 /\ NextToCompute \in 0..Windows
    BY <1>1, <1>2, <1>3, <1>5, <2>1, <2>2, <2>3
  <2>5. QED BY <2>1, <2>4 DEF Device!Layers
<1>6. CASE at[0] = Windows + 1
  <2>1. EndUbatch(0)
    BY <1>4, <1>6 DEF Compute, LastGraph
  <2>2. CASE Len(batch[0]) > 1
    <3>1. StartUbatch(0, Tail(batch[0]), ub[0] + 1) /\ UNCHANGED <<cache, warm>>
      BY <2>1, <2>2 DEF EndUbatch
    <3>2. pc'[0] = "slot" /\ batch'[0] = Tail(batch[0])
      BY <1>1, <3>1 DEF StartUbatch, TypeOK
    <3>3. NextToCompute' = -1
      BY <3>2 DEF NextToCompute
    <3>4. QED BY <1>3, <1>6, <2>2, <3>1, <3>2, <3>3 DEF Device!Output
  <2>3. CASE ~(Len(batch[0]) > 1)
    <3>1. Device!End(CacheEnd(cache[0]))
      BY <1>1, <2>1, <2>3, DeviceEnds DEF EndUbatch
    <3>2. QED BY <1>3, <1>6, <2>3, <3>1 DEF Device!Output
  <2>4. QED BY <2>2, <2>3
<1>7. at[0] <= Windows \/ at[0] = Windows + 1
  BY <1>2
<1>8. QED BY <1>5, <1>6, <1>7

LEMMA DeviceWorker ==
  ASSUME TypeInv, TypeInv', InStep, IsLog(log), IsLog(log)', NEW base, NEW o,
         Agreed(base, o), NEW n \in Worker, Main(n) \/ Wait(n) \/ Signal(n)
  PROVE  Device!Layers \/ UNCHANGED Device!dvars
<1>1. TypeOK /\ Agreement
  BY DEF TypeInv, Agreement
<1>2. /\ pc'[0] = pc[0] /\ cache'[0] = cache[0] /\ batch'[0] = batch[0]
      /\ warm'[0] = warm[0] /\ at'[0] = at[0]
  BY <1>1, OthersWork
<1>3. CASE SubGraph(n)
  <2>1. /\ pc[0] = "gf" /\ base \in Multiple /\ o \in Node /\ base + o <= Windows
        /\ Agreed(NextBase(base, o), Succ(o))'
    BY <1>3, AgreeGraphWorker
  <2>2. NextBase(base, o) + Succ(o) = base + o + 1
    BY <2>1, TurnPasses
  <2>3. NextToCompute = base + o
    BY <2>1, NumberLemma DEF Numbered
  <2>4. NextToCompute' = IF pc'[0] = "gf" THEN NextBase(base, o) + Succ(o) ELSE -1
    BY <2>1, NumberNext DEF Numbered
  <2>5. NextToCompute \in 0..Windows
    <3>1. base \in Nat /\ o \in Nat
      BY <2>1, MultipleFacts, RingFacts
    <3>2. QED BY <2>1, <2>3, <3>1, RingAssumption
  <2>6. NextToCompute' = NextToCompute + 1
    BY <1>2, <2>1, <2>2, <2>3, <2>4
  <2>7. QED BY <1>2, <2>5, <2>6 DEF Device!Layers
<1>4. CASE AcceptKv(n) \/ AcceptBatch(n)
  <2>1. Agreed(base, o)'
    BY <1>4, AgreeAccept
  <2>2. NextToCompute = IF pc[0] = "gf" THEN base + o ELSE -1
    BY NumberLemma DEF Numbered
  <2>3. NextToCompute' = IF pc'[0] = "gf" THEN base + o ELSE -1
    BY <2>1, NumberNext DEF Numbered
  <2>4. NextToCompute' = NextToCompute
    BY <1>2, <2>2, <2>3
  <2>5. QED BY <1>2, <2>4 DEF Device!dvars
<1>5. CASE Slot(n) \/ Timeout(n) \/ CheckStop(n) \/ Signal(n)
  <2>1. chan' = chan
    BY <1>5 DEF Slot, Timeout, CheckStop, Signal, RelayStop, StoreStop
  <2>2. QED BY <1>2, <2>1, DeviceStands
<1>6. ~Misread(n)
  BY <1>1, NeverMisreads
<1>7. QED BY <1>3, <1>4, <1>5, <1>6 DEF Main, Wait

LEMMA DeviceNext == AgreeInv /\ AgreeInv' /\ [Next]_vars => [Device!Next]_Device!dvars
<1> SUFFICES ASSUME AgreeInv, AgreeInv', [Next]_vars
             PROVE  Device!Next \/ UNCHANGED Device!dvars
  OBVIOUS
<1>1. /\ TypeOK /\ TypeInv /\ TypeInv' /\ InStep /\ IsLog(log) /\ IsLog(log)' /\ Agreement
  BY DEF AgreeInv, TypeInv
<1> PICK base, o : Agreed(base, o)
  BY <1>1 DEF Agreement
<1>2. CASE (\E b \in Batches : AppDecode(b)) \/ (\E op \in KvCmds : AppKv(op))
  BY <1>1, <1>2, DeviceApp
<1>3. CASE \E op \in LocalCmds : AppLocalKv(op)
  BY <1>1, <1>3 DEF InStep
<1>4. CASE Shutdown \/ Closed
  <2>1. /\ pc[0] # "gf" /\ pc'[0] # "gf"
        /\ UNCHANGED <<cache, batch, ub, at, warm, chan>>
    BY <1>1, <1>4, RingFacts DEF Shutdown, Closed, decoding, TypeOK
  <2>2. QED BY <2>1, DeviceStands
<1>5. CASE Main(0)
  BY <1>1, <1>5, DeviceSlot, DeviceGraphs DEF Main, Device!Next
<1>6. ASSUME NEW n \in Worker, Main(n) \/ Wait(n) \/ Signal(n)
      PROVE  Device!Next \/ UNCHANGED Device!dvars
  BY <1>1, <1>6, DeviceWorker DEF Device!Next
<1>7. CASE Terminated \/ UNCHANGED vars
  <2>1. UNCHANGED <<pc, cache, batch, ub, at, warm, chan>>
    BY <1>7 DEF Terminated, vars, decoding
  <2>2. QED BY <2>1, DeviceStands
<1>8. \A n \in Node : n = 0 \/ n \in Worker
  BY RingAssumption DEF Node, Worker
<1>9. QED BY <1>2, <1>3, <1>4, <1>5, <1>6, <1>7, <1>8 DEF Next

LEMMA DeviceInit == Init => Device!Init
<1> SUFFICES ASSUME Init PROVE Device!Init
  OBVIOUS
<1>1. cache[0] = CacheInit /\ batch[0] = <<>> /\ pc[0] = "idle" /\ warm[0] = TRUE
  BY RingFacts DEF Init
<1>2. NextToCompute = -1
  BY <1>1 DEF NextToCompute
<1>3. QED BY <1>1, <1>2 DEF Device!Init

(* To the application the ring is one device that computes every sub-graph *)
(* of every ubatch once and in order.                                      *)
THEOREM OneDeviceTheorem == InStep /\ Spec => ActsAsOneDevice
<1>1. Init => Device!Init
  BY DeviceInit
<1>2. AgreeInv /\ AgreeInv' /\ [Next]_vars => [Device!Next]_Device!dvars
  BY DeviceNext
<1>3. QED BY <1>1, <1>2, AgreeTheorem, PTL DEF Spec, ActsAsOneDevice, Device!Spec

=============================================================================
