-------------------------- MODULE ThreadpoolProofs --------------------------
(***************************************************************************)
(* Theorems about Threadpool, for every number of threads, every graph,    *)
(* any number of chunks and any number of calls: as long as no graph uses  *)
(* more threads than the one before and none is aborted, the nodes of a    *)
(* graph are computed in order and each once, and no thread is left in a   *)
(* graph when ggml_graph_compute returns.                                  *)
(***************************************************************************)
EXTENDS Threadpool, FiniteSetTheorems, TLAPS

(* The graphs the theorems are about; without any of the three conditions  *)
(* TLC refutes NoThreadLeftInGraph.                                        *)
Steady == ~MayGrow /\ ~MayAbort /\ Nodes # <<>>

OutsidePc == {"top", "pause lock", "paused", "running", "exited", "poll?", "poll",
              "new graph", "lock", "asleep"}
CallerPc == {"idle", "kickoff", "join", "freed"}
WaitPc == {"arrive middle", "reset middle", "open middle", "spin middle",
           "arrive end", "reset end", "open end", "spin end"}
MiddlePc == {"prepare", "enter middle", "arrive middle", "reset middle", "open middle",
             "spin middle"}
EndPc == {"compute", "computed", "enter end", "arrive end", "reset end", "open end",
          "spin end"}

PoolType ==
  /\ pc \in [Thread -> OutsidePc \cup CallerPc \cup MiddlePc \cup EndPc \cup {"begin", "node"}]
  /\ pc[0] \notin OutsidePc /\ \A t \in Thread \ {0} : pc[t] \notin CallerPc
  /\ last \in [Thread -> Nat] /\ node \in [Thread -> Nat \ {0}]
  /\ nth \in [Thread -> 1..N] /\ chunk \in [Thread -> Nat]
  /\ seen \in [Thread -> [n : Nat, passed : Nat]]
  /\ n_graph \in Nat /\ n_threads_cur \in 1..N
  /\ n_barrier \in Nat /\ n_barrier_passed \in Nat /\ current_chunk \in Nat
  /\ abort = FALSE /\ again = FALSE
  /\ \A t \in Thread : last[t] <= n_graph

(* The threads that take part in the graph.                                *)
Part == 0..n_threads_cur-1

(* Thread t waits in a barrier that is still closed.                       *)
Waits(t) == /\ pc[t] \in {"spin middle", "spin end"}
            /\ seen[t].passed = n_barrier_passed

(* Thread t does no work for any graph before it has found a new one.      *)
Out(t) == OnItsWayOut(t) /\ (pc[t] = "spin end" => seen[t].passed < n_barrier_passed)

(* It has not looked yet whether it takes part in the last graph.          *)
Ready(t) == IF pc[t] = "new graph" THEN last[t] = n_graph ELSE last[t] # n_graph

(* Thread t has finished the last graph.                                   *)
Gone(t) == Out(t) /\ last[t] = n_graph /\ pc[t] # "new graph"

(* The frontier: the furthest node, and its half before or after the       *)
(* barrier in its middle, that a thread may have come to.                  *)
FirstHalf(n) == IF n <= Len(Nodes) /\ Nodes[n] = "mul_mat" THEN "middle" ELSE "end"

Frontier(n, h) == /\ n \in 1..Len(Nodes) + 1
                  /\ h = "end" \/ h = FirstHalf(n)

(* Thread t has yet to begin with the graph.                               *)
NotYet(n, h, t) ==
  /\ n = 1 /\ h = FirstHalf(1)
  /\ \/ pc[t] = "begin" /\ (t = 0 \/ last[t] = n_graph)
     \/ t # 0 /\ Out(t) /\ Ready(t)

InStep(t) == nth[t] = n_threads_cur /\ (t = 0 \/ last[t] = n_graph)

(* Thread t has come to the frontier.                                      *)
Here(n, h, t) ==
  /\ InStep(t) /\ node[t] = n
  /\ \/ pc[t] = "node" /\ h = FirstHalf(n)
     \/ pc[t] \in MiddlePc /\ h = "middle" /\ n <= Len(Nodes)
     \/ pc[t] \in EndPc /\ h = "end" /\ n <= Len(Nodes)
  /\ pc[t] \in WaitPc => seen[t].n = n_threads_cur /\ seen[t].passed = n_barrier_passed

(* Thread t has yet to leave the barrier before the frontier, which is     *)
(* open.                                                                   *)
Behind(n, h, t) ==
  /\ InStep(t) /\ seen[t].passed < n_barrier_passed
  /\ \/ pc[t] = "spin middle" /\ node[t] = n /\ h = "end" /\ n <= Len(Nodes)
     \/ pc[t] = "spin end" /\ node[t] + 1 = n /\ h = FirstHalf(n)

Status(n, h, t) == \/ NotYet(n, h, t) \/ Here(n, h, t) \/ Behind(n, h, t)
                   \/ n = Len(Nodes) + 1 /\ t # 0 /\ Gone(t)

(* Of the threads in the barrier all have been counted, or the last one to *)
(* arrive is about to open it.                                             *)
Spinning == {t \in Part : Waits(t)}

Counted == /\ n_barrier = Cardinality(Spinning)
           /\ Spinning # Part
           /\ \A t \in Part : pc[t] \notin {"reset middle", "open middle", "reset end", "open end"}

LastOne(t) ==
  /\ \A u \in Part \ {t} : Waits(u)
  /\ \/ pc[t] \in {"reset middle", "reset end"} /\ n_barrier = n_threads_cur
     \/ pc[t] \in {"open middle", "open end"} /\ n_barrier = 0

BarrierInv == Counted \/ \E t \in Part : LastOne(t)

(* The work up to the frontier is done, and behind it there is none.       *)
PastPrepare == MiddlePc \ {"prepare"}
PastCompute(t) == \/ pc[t] \in {"computed", "enter end", "arrive end", "reset end", "open end"}
                  \/ pc[t] = "spin end" /\ Waits(t)

Many(n) == Nodes[n] = "mul_mat" /\ NChunks >= 4 * n_threads_cur

MiddleWork(n) ==
  /\ \A w \in done : w[1] = n => w[2] = "rows"
  /\ \A u \in Part : <<n, "rows", u>> \in done <=> pc[u] \in PastPrepare
  /\ \A u \in Part : pc[u] \in MiddlePc => chunk[u] = u
  /\ pc[0] \in PastPrepare => current_chunk = n_threads_cur

(* One chunk for each thread.                                              *)
FewChunks(n) ==
  \A u \in Part : /\ <<n, "chunk", u>> \in done <=> PastCompute(u)
                  /\ pc[u] \in {"compute", "spin middle"} => chunk[u] = u

(* Chunks are taken from the counter.  A thread that is still to leave the *)
(* middle barrier has its first one.                                       *)
Taking == {t \in Part : pc[t] \in {"compute", "spin middle"}}

ManyChunks(n) ==
  /\ \A t \in Taking : /\ chunk[t] < current_chunk /\ chunk[t] < NChunks
                       /\ <<n, "chunk", chunk[t]>> \notin done
  /\ \A t, u \in Taking : chunk[t] = chunk[u] => t = u
  /\ \A c \in 0..NChunks-1 :
       IF c < current_chunk THEN <<n, "chunk", c>> \in done \/ \E t \in Taking : chunk[t] = c
       ELSE <<n, "chunk", c>> \notin done
  /\ \A t \in Part \ Taking : current_chunk >= NChunks

WorkInv(n, h) ==
  /\ \A m \in 1..n-1 : WorkOf(m, n_threads_cur) \subseteq done
  /\ \A w \in done : w[1] \in 1..n
  /\ h = "middle" => MiddleWork(n)
  /\ h = "end" /\ n <= Len(Nodes) =>
       /\ Nodes[n] = "mul_mat" => \A u \in Part : <<n, "rows", u>> \in done
       /\ IF Many(n) THEN ManyChunks(n) ELSE FewChunks(n)

(* Between two graphs.                                                     *)
Resting ==
  /\ pc[0] \in CallerPc
  /\ n_barrier = 0
  /\ \A t \in Thread \ {0} : Out(t) /\ (t \in Part => Gone(t))
  /\ pc[0] = "kickoff" => nth[0] <= n_threads_cur /\ done = {}

Running(n, h) ==
  /\ Frontier(n, h)
  /\ \A t \in Thread \ Part : Out(t)
  /\ \A t \in Part : Status(n, h, t)
  /\ BarrierInv
  /\ WorkInv(n, h)

PoolInv == /\ PoolType
           /\ Resting \/ \E n \in 1..Len(Nodes) + 1, h \in {"middle", "end"} : Running(n, h)
-----------------------------------------------------------------------------
LEMMA PartFacts ==
  ASSUME PoolType
  PROVE  /\ Part \subseteq Thread /\ 0 \in Part /\ 0 \in Thread
         /\ IsFiniteSet(Part) /\ Cardinality(Part) = n_threads_cur
         /\ n_threads_cur \in Nat /\ n_threads_cur >= 1 /\ N \in Nat
<1>1. n_threads_cur \in 1..N /\ N \in Nat
  BY PoolAssumption DEF PoolType
<1>2. IsFiniteSet(Part) /\ Cardinality(Part) = n_threads_cur
  BY <1>1, FS_Interval DEF Part
<1>3. QED BY <1>1, <1>2 DEF Part, Thread

LEMMA ThreadPc ==
  ASSUME PoolType, NEW t \in Thread
  PROVE  pc[t] \in OutsidePc \cup CallerPc \cup MiddlePc \cup EndPc \cup {"begin", "node"}
BY DEF PoolType

LEMMA ThreadTypes ==
  ASSUME PoolType, NEW t \in Thread
  PROVE  /\ last[t] \in Nat /\ node[t] \in Nat /\ node[t] >= 1 /\ nth[t] \in 1..N
         /\ chunk[t] \in Nat /\ seen[t].n \in Nat /\ seen[t].passed \in Nat
         /\ n_graph \in Nat /\ last[t] <= n_graph
         /\ n_barrier \in Nat /\ n_barrier_passed \in Nat /\ current_chunk \in Nat
BY DEF PoolType

LEMMA NodesFacts ==
  ASSUME Steady
  PROVE  /\ Len(Nodes) \in Nat /\ Len(Nodes) >= 1
         /\ \A n \in 1..Len(Nodes) : Nodes[n] \in {"mul_mat", "split"}
BY PoolAssumption DEF Steady

LEMMA PcNames ==
  /\ Enter["middle"] = "enter middle" /\ Enter["end"] = "enter end"
  /\ Arrive["middle"] = "arrive middle" /\ Arrive["end"] = "arrive end"
  /\ Reset["middle"] = "reset middle" /\ Reset["end"] = "reset end"
  /\ Open["middle"] = "open middle" /\ Open["end"] = "open end"
  /\ Spin["middle"] = "spin middle" /\ Spin["end"] = "spin end"
BY DEF Enter, Arrive, Reset, Open, Spin

-----------------------------------------------------------------------------
(* What a step of thread t leaves alone.                                   *)
Same(u) == /\ pc'[u] = pc[u] /\ last'[u] = last[u] /\ node'[u] = node[u]
           /\ nth'[u] = nth[u] /\ chunk'[u] = chunk[u] /\ seen'[u] = seen[u]

Others(t) == /\ \A u \in Thread \ {t} : Same(u)
             /\ n_graph' = n_graph /\ n_threads_cur' = n_threads_cur

LEMMA OthersSame ==
  ASSUME PoolType, NEW t \in Thread, Wait(t) \/ InGraph(t)
  PROVE  Others(t)
<1> USE DEF PoolType
<1>1. ASSUME Wait(t) PROVE Others(t)
  BY <1>1 DEF Wait, ReadPause, SleepPaused, ReadStop, MayPoll, GiveUp, PollGraph, PollActive,
              LockedReady, Look, Goto, locals, Others, Same
<1>2. ASSUME Begin(t) \/ NextNode(t) PROVE Others(t)
  BY <1>2 DEF Begin, NextNode, Goto, Others, Same
<1>3. ASSUME PrepareMulMat(t) \/ EndNode(t) PROVE Others(t)
  BY <1>3 DEF PrepareMulMat, EndNode, Goto, Others, Same, locals
<1>4. ASSUME ComputeChunk(t) PROVE Others(t)
  BY <1>4 DEF ComputeChunk, Goto, Others, Same
<1>5. ASSUME NEW w \in {"middle", "end"}, Barrier(t, w) PROVE Others(t)
  <2>1. CASE EnterBarrier(t, w)
    BY <2>1 DEF EnterBarrier, Leave, Goto, Others, Same
  <2>2. CASE ArriveAtBarrier(t, w) \/ ResetBarrier(t, w)
    BY <2>2 DEF ArriveAtBarrier, ResetBarrier, Goto, Others, Same, locals
  <2>3. CASE OpenBarrier(t, w) \/ LeaveBarrier(t, w)
    BY <2>3 DEF OpenBarrier, LeaveBarrier, Leave, Goto, Others, Same
  <2>4. QED BY <1>5, <2>1, <2>2, <2>3 DEF Barrier
<1>6. QED BY <1>1, <1>2, <1>3, <1>4, <1>5 DEF InGraph

(* Every step keeps the types.                                             *)
LEMMA TypeInit == Init => PoolType
<1> SUFFICES ASSUME Init PROVE PoolType
  OBVIOUS
<1>1. N \in Nat \ {0} /\ 0 \in Thread
  BY PoolAssumption DEF Thread
<1>2. QED BY <1>1 DEF Init, PoolType, OutsidePc, CallerPc

LEMMA TypeWait ==
  ASSUME PoolType, NEW t \in Thread \ {0}, Wait(t)
  PROVE  PoolType'
<1> USE DEF PoolType
<1> 0 \in Thread
  BY PartFacts
<1>1. pc[t] \in OutsidePc /\ pc'[t] \in OutsidePc \cup {"begin"} /\ pc' = [pc EXCEPT ![t] = pc'[t]]
  BY DEF Wait, ReadPause, SleepPaused, ReadStop, MayPoll, GiveUp, PollGraph, PollActive,
         LockedReady, Look, Goto, OutsidePc
<1>2. last' = [last EXCEPT ![t] = last'[t]] /\ last'[t] \in {last[t], n_graph}
  BY DEF Wait, ReadPause, SleepPaused, ReadStop, MayPoll, GiveUp, PollGraph, PollActive,
         LockedReady, Look, locals
<1>3. UNCHANGED <<node, nth, chunk, seen, n_graph, n_threads_cur, n_barrier, n_barrier_passed,
                  current_chunk, abort, again>>
  BY DEF Wait, ReadPause, SleepPaused, ReadStop, MayPoll, GiveUp, PollGraph, PollActive,
         LockedReady, Look, locals, barrier, flags, work
<1>4. pc' \in [Thread -> OutsidePc \cup CallerPc \cup MiddlePc \cup EndPc \cup {"begin", "node"}]
  BY <1>1
<1>5. pc'[0] \notin OutsidePc /\ \A u \in Thread \ {0} : pc'[u] \notin CallerPc
  BY <1>1 DEF CallerPc, OutsidePc
<1>6. last' \in [Thread -> Nat] /\ \A u \in Thread : last'[u] <= n_graph
  BY <1>2
<1>7. QED BY <1>3, <1>4, <1>5, <1>6

LEMMA TypeInGraph ==
  ASSUME PoolType, Steady, NEW t \in Thread, InGraph(t), t = 0 => pc[0] \notin CallerPc,
         again' = again
  PROVE  PoolType'
<1> USE DEF PoolType
<1> DEFINE From == MiddlePc \cup EndPc \cup {"begin", "node"}
<1>1. ASSUME NEW p \in From \cup {"top"}, t = 0 => p # "top", Goto(t, p)
      PROVE  /\ pc' \in [Thread -> OutsidePc \cup CallerPc \cup MiddlePc \cup EndPc \cup {"begin", "node"}]
             /\ pc'[0] \notin OutsidePc /\ \A u \in Thread \ {0} : pc'[u] \notin CallerPc
  BY <1>1, PartFacts DEF Goto, OutsidePc, CallerPc, MiddlePc, EndPc
<1>2. ASSUME t = 0, Goto(t, "idle")
      PROVE  /\ pc' \in [Thread -> OutsidePc \cup CallerPc \cup MiddlePc \cup EndPc \cup {"begin", "node"}]
             /\ pc'[0] \notin OutsidePc /\ \A u \in Thread \ {0} : pc'[u] \notin CallerPc
  BY <1>2, PartFacts DEF Goto, OutsidePc, CallerPc
<1> DEFINE PcOK == /\ pc' \in [Thread -> OutsidePc \cup CallerPc \cup MiddlePc \cup EndPc \cup {"begin", "node"}]
                   /\ pc'[0] \notin OutsidePc /\ \A u \in Thread \ {0} : pc'[u] \notin CallerPc
<1>3. CASE Begin(t)
  <2>1. PcOK
    BY <1>3, <1>1 DEF Begin
  <2>2. node' \in [Thread -> Nat \ {0}] /\ nth' \in [Thread -> 1..N]
    BY <1>3 DEF Begin
  <2>3. QED BY <1>3, <2>1, <2>2 DEF Begin, barrier, flags, work
<1>4. CASE NextNode(t)
  <2>1. PcOK
    <3>1. CASE t = 0 /\ Goto(t, "idle")
      BY <3>1, <1>2
    <3>2. CASE \E p \in {"top", "prepare", "compute"} : Goto(t, p) /\ (t = 0 => p # "top")
      BY <3>2, <1>1 DEF MiddlePc, EndPc
    <3>3. QED BY <1>4, <3>1, <3>2 DEF NextNode
  <2>2. QED BY <1>4, <2>1, t \in Nat DEF NextNode, barrier, flags, work, Thread
<1>5. CASE PrepareMulMat(t)
  <2>1. PcOK
    <3>1. "enter middle" \in From /\ Goto(t, "enter middle")
      BY <1>5 DEF PrepareMulMat, MiddlePc
    <3>2. QED BY <3>1, <1>1
  <2>2. current_chunk' \in Nat
    <3>1. nth[t] \in Nat
      BY ThreadTypes, PartFacts
    <3>2. QED BY <1>5, <3>1 DEF PrepareMulMat
  <2>3. QED BY <1>5, <2>1, <2>2 DEF PrepareMulMat, locals, barrier, flags
<1>6. CASE ComputeChunk(t)
  <2>1. PcOK
    <3>1. \E p \in {"compute", "computed"} : Goto(t, p)
      BY <1>6 DEF ComputeChunk
    <3>2. QED BY <3>1, <1>1 DEF EndPc
  <2>2. chunk' \in [Thread -> Nat] /\ current_chunk' \in Nat
    BY <1>6 DEF ComputeChunk
  <2>3. QED BY <1>6, <2>1, <2>2 DEF ComputeChunk, barrier, flags
<1>7. CASE EndNode(t)
  <2>1. PcOK
    BY <1>7, <1>1 DEF EndNode, EndPc
  <2>2. abort' = FALSE
    BY <1>7 DEF EndNode, Steady
  <2>3. QED BY <1>7, <2>1, <2>2 DEF EndNode, locals, barrier, work
<1>8. ASSUME NEW w \in {"middle", "end"}, Barrier(t, w)
      PROVE  PoolType'
  <2>1. PcOK
    <3>1. /\ Arrive[w] \in From /\ Reset[w] \in From /\ Open[w] \in From /\ Spin[w] \in From
          /\ "compute" \in From /\ "node" \in From /\ "top" \notin From
      BY PcNames DEF MiddlePc, EndPc
    <3>2. \E p \in From : Goto(t, p)
      <4>1. Leave(t, w) => \E p \in From : Goto(t, p)
        BY <3>1 DEF Leave
      <4>2. CASE EnterBarrier(t, w)
        BY <3>1, <4>1, <4>2 DEF EnterBarrier
      <4>3. CASE ArriveAtBarrier(t, w) \/ ResetBarrier(t, w)
        BY <3>1, <4>3 DEF ArriveAtBarrier, ResetBarrier
      <4>4. CASE OpenBarrier(t, w) \/ LeaveBarrier(t, w)
        BY <4>1, <4>4 DEF OpenBarrier, LeaveBarrier
      <4>5. QED BY <1>8, <4>2, <4>3, <4>4 DEF Barrier
    <3>3. QED BY <3>1, <3>2, <1>1
  <2>2. node' \in [Thread -> Nat \ {0}] /\ seen' \in [Thread -> [n : Nat, passed : Nat]]
    <3>1. Leave(t, w) => node' \in [Thread -> Nat \ {0}]
      BY DEF Leave
    <3>2. CASE EnterBarrier(t, w)
      <4>1. n_threads_cur \in Nat
        BY PartFacts
      <4>2. QED BY <3>1, <3>2, <4>1 DEF EnterBarrier
    <3>3. CASE ArriveAtBarrier(t, w) \/ ResetBarrier(t, w)
      BY <3>3 DEF ArriveAtBarrier, ResetBarrier, locals
    <3>4. CASE OpenBarrier(t, w) \/ LeaveBarrier(t, w)
      BY <3>1, <3>4 DEF OpenBarrier, LeaveBarrier
    <3>5. QED BY <1>8, <3>2, <3>3, <3>4 DEF Barrier
  <2>3. n_barrier' \in Nat /\ n_barrier_passed' \in Nat
    <3>1. /\ n_barrier' \in {n_barrier, n_barrier + 1, 0}
          /\ n_barrier_passed' \in {n_barrier_passed, n_barrier_passed + 1}
      BY <1>8 DEF Barrier, EnterBarrier, ArriveAtBarrier, ResetBarrier, OpenBarrier, LeaveBarrier, barrier
    <3>2. QED BY <3>1
  <2>4. UNCHANGED <<last, nth, chunk, n_graph, n_threads_cur, current_chunk, abort, again>>
    BY <1>8 DEF Barrier, EnterBarrier, ArriveAtBarrier, ResetBarrier, OpenBarrier, LeaveBarrier,
                locals, flags, work
  <2>5. QED BY <2>1, <2>2, <2>3, <2>4
<1>9. QED BY <1>3, <1>4, <1>5, <1>6, <1>7, <1>8 DEF InGraph

-----------------------------------------------------------------------------
(* The caller's steps between two graphs.                                  *)
LEMMA BroadcastMoves ==
  ASSUME PoolType, NEW p, Broadcast(0, p), p \in CallerPc \cup {"begin"}
  PROVE  /\ pc' \in [Thread -> OutsidePc \cup CallerPc \cup MiddlePc \cup EndPc \cup {"begin", "node"}]
         /\ pc'[0] = p /\ \A t \in Thread \ {0} : pc'[t] \notin CallerPc
         /\ \A t \in Thread \ {0} : /\ pc[t] \in OutsidePc <=> pc'[t] \in OutsidePc
                                    /\ pc[t] = "new graph" <=> pc'[t] = "new graph"
                                    /\ pc[t] \notin OutsidePc => pc'[t] = pc[t]
<1>1. 0 \in Thread
  BY PartFacts
<1>2. ASSUME NEW t \in Thread \ {0}
      PROVE  /\ pc[t] \in OutsidePc <=> pc'[t] \in OutsidePc
             /\ pc[t] = "new graph" <=> pc'[t] = "new graph"
             /\ pc[t] \notin OutsidePc => pc'[t] = pc[t]
  BY DEF Broadcast, OutsidePc
<1>3. pc' = [u \in Thread |-> pc'[u]] /\ pc'[0] = p
  BY <1>1 DEF Broadcast
<1>4. \A t \in Thread \ {0} : pc'[t] \in OutsidePc \/ pc'[t] = pc[t]
  BY <1>2
<1>5. QED BY <1>1, <1>2, <1>3, <1>4 DEF PoolType, CallerPc, OutsidePc

-----------------------------------------------------------------------------
(* What a thread may do that works for no graph.                           *)
LEMMA OutPc ==
  ASSUME NEW t, Out(t)
  PROVE  \/ pc[t] \in OutsidePc
         \/ pc[t] = "spin end" /\ node[t] = Len(Nodes) /\ seen[t].passed < n_barrier_passed
         \/ pc[t] = "node" /\ node[t] > Len(Nodes)
BY DEF Out, OnItsWayOut, OutsidePc

Moves(t) ==
  \/ Out(t)' /\ (Gone(t) => Gone(t)') /\ (t \in Part /\ Ready(t) => Ready(t)')
  \/ t \in Part /\ ~Gone(t) /\ pc'[t] = "begin" /\ last'[t] = n_graph

(* Moves, with what it says of the next state spelled out.                 *)
LEMMA MovesBy ==
  ASSUME NEW t, n_graph' = n_graph, Out(t)',
         pc[t] # "new graph" \/ t \notin Part,
         \/ last'[t] = last[t] /\ pc'[t] # "new graph"
         \/ last'[t] = n_graph /\ last[t] # n_graph /\ (t \in Part => pc'[t] = "new graph")
  PROVE  Moves(t)
BY DEF Moves, Gone, Ready

LEMMA MovesBegin ==
  ASSUME NEW t, t \in Part, Ready(t), pc'[t] = "begin", last'[t] = n_graph
  PROVE  Moves(t)
BY DEF Moves, Gone, Ready

LEMMA OutsideOut ==
  ASSUME NEW t, pc'[t] \in OutsidePc
  PROVE  Out(t)'
BY DEF Out, OnItsWayOut, OutsidePc

LEMMA WaitMoves ==
  ASSUME PoolType, Steady, NEW t \in Thread \ {0}, Out(t), Wait(t),
         t \in Part => Ready(t) \/ Gone(t)
  PROVE  Moves(t) /\ UNCHANGED <<barrier, current_chunk, work>>
<1>1. Others(t)
  BY OthersSame
<1> n_graph' = n_graph
  BY <1>1 DEF Others
<1> UNCHANGED <<barrier, current_chunk, work>>
  BY DEF Wait, ReadPause, SleepPaused, ReadStop, MayPoll, GiveUp, PollGraph, PollActive,
         LockedReady, Look
<1>2. SUFFICES Moves(t)
  OBVIOUS
<1>3. /\ pc \in [Thread -> OutsidePc \cup CallerPc \cup MiddlePc \cup EndPc \cup {"begin", "node"}]
      /\ last \in [Thread -> Nat] /\ n_threads_cur \in Nat
  BY PartFacts DEF PoolType
<1>4. Active(t) <=> t \in Part
  BY <1>3 DEF Active, Part, Thread
<1>5. CASE ReadPause(t) \/ SleepPaused(t) \/ ReadStop(t) \/ MayPoll(t) \/ GiveUp(t)
  <2>1. /\ last'[t] = last[t] /\ pc[t] # "new graph"
        /\ pc'[t] \in OutsidePc \ {"new graph"}
    BY <1>3, <1>5 DEF ReadPause, SleepPaused, ReadStop, MayPoll, GiveUp, Look, Goto, locals, OutsidePc
  <2>2. QED BY <2>1, OutsideOut, MovesBy
<1>6. CASE PollGraph(t)
  <2>1. /\ last'[t] = n_graph /\ pc[t] = "poll" /\ pc'[t] = "new graph" /\ last[t] # n_graph
        /\ pc'[t] \in OutsidePc
    BY <1>3, <1>6 DEF PollGraph, Goto, OutsidePc
  <2>2. QED BY <2>1, OutsideOut, MovesBy
<1>7. CASE PollActive(t)
  <2>1. /\ last'[t] = last[t] /\ pc[t] = "new graph"
        /\ pc'[t] = IF t \in Part THEN "begin" ELSE "poll"
    BY <1>3, <1>4, <1>7 DEF PollActive, Look, Goto, locals
  <2>2. CASE t \in Part
    <3>1. Ready(t) /\ last[t] = n_graph
      BY <2>1, <2>2 DEF Ready, Gone
    <3>2. QED BY <2>1, <2>2, <3>1, MovesBegin
  <2>3. CASE t \notin Part
    <3>1. pc'[t] \in OutsidePc /\ pc'[t] # "new graph"
      BY <2>1, <2>3 DEF OutsidePc
    <3>2. QED BY <2>1, <2>3, <3>1, OutsideOut, MovesBy
  <2>4. QED BY <2>2, <2>3
<1>8. CASE LockedReady(t)
  <2> DEFINE new == ~stop /\ ~pause /\ n_graph # last[t]
  <2>1. /\ last'[t] = IF new THEN n_graph ELSE last[t]
        /\ pc[t] = "lock"
        /\ pc'[t] = IF stop \/ pause THEN "top"
                    ELSE IF new /\ t \in Part THEN "begin" ELSE "asleep"
    BY <1>3, <1>4, <1>8 DEF LockedReady, Goto
  <2>2. CASE new /\ t \in Part
    <3>1. Ready(t)
      BY <2>1, <2>2 DEF Ready
    <3>2. QED BY <2>1, <2>2, <3>1, MovesBegin
  <2>3. CASE ~(new /\ t \in Part)
    <3>1. pc'[t] \in OutsidePc \ {"new graph"}
      BY <2>1, <2>3 DEF OutsidePc
    <3>2. QED BY <2>1, <2>3, <3>1, OutsideOut, MovesBy
  <2>4. QED BY <2>2, <2>3
<1>9. QED BY <1>5, <1>6, <1>7, <1>8 DEF Wait

LEMMA LeaveMoves ==
  ASSUME PoolType, Steady, NEW t \in Thread \ {0}, Out(t), InGraph(t)
  PROVE  Moves(t) /\ UNCHANGED <<barrier, current_chunk, work>>
<1>1. Others(t) /\ Len(Nodes) \in Nat /\ node[t] \in Nat
  BY OthersSame, NodesFacts, ThreadTypes
<1> n_graph' = n_graph
  BY <1>1 DEF Others
<1>2. \/ NextNode(t) /\ node[t] > Len(Nodes)
      \/ LeaveBarrier(t, "end") /\ node[t] = Len(Nodes)
  <2>1. ASSUME NEW w \in {"middle", "end"}, Barrier(t, w)
        PROVE  LeaveBarrier(t, "end") /\ node[t] = Len(Nodes)
    <3>1. /\ pc[t] \notin {Enter[w], Arrive[w], Reset[w], Open[w]}
          /\ pc[t] = Spin[w] => w = "end" /\ node[t] = Len(Nodes)
      BY OutPc, PcNames DEF OutsidePc
    <3>2. QED BY <2>1, <3>1 DEF Barrier, EnterBarrier, ArriveAtBarrier, ResetBarrier, OpenBarrier,
                              LeaveBarrier
  <2>2. ASSUME NextNode(t) PROVE node[t] > Len(Nodes)
    BY <2>2, OutPc DEF NextNode, OutsidePc
  <2>3. ~Begin(t) /\ ~PrepareMulMat(t) /\ ~ComputeChunk(t) /\ ~EndNode(t)
    BY OutPc DEF Begin, PrepareMulMat, ComputeChunk, EndNode, OutsidePc
  <2>4. QED BY <2>1, <2>2, <2>3 DEF InGraph
<1> UNCHANGED <<barrier, current_chunk, work>>
  BY <1>2 DEF NextNode, LeaveBarrier
<1>3. pc \in [Thread -> OutsidePc \cup CallerPc \cup MiddlePc \cup EndPc \cup {"begin", "node"}]
      /\ node \in [Thread -> Nat \ {0}]
  BY DEF PoolType
<1>4. CASE NextNode(t) /\ node[t] > Len(Nodes)
  <2>1. pc[t] = "node" /\ pc'[t] = "top" /\ pc'[t] \in OutsidePc /\ last'[t] = last[t]
    BY <1>3, <1>4 DEF NextNode, Goto, OutsidePc
  <2>2. QED BY <2>1, OutsideOut, MovesBy
<1>5. CASE LeaveBarrier(t, "end") /\ node[t] = Len(Nodes)
  <2>1. pc[t] = "spin end" /\ pc'[t] = "node" /\ last'[t] = last[t] /\ node'[t] = node[t] + 1
    BY <1>3, <1>5, PcNames DEF LeaveBarrier, Leave, Goto
  <2>2. Out(t)'
    <3>1. node'[t] > Len(Nodes)
      <4>1. node'[t] = Len(Nodes) + 1 /\ Len(Nodes) \in Nat
        BY <1>1, <1>5, <2>1
      <4>2. QED BY <4>1
    <3>2. QED BY <2>1, <3>1 DEF Out, OnItsWayOut
  <2>3. QED BY <2>1, <2>2, MovesBy
<1>6. QED BY <1>2, <1>4, <1>5

-----------------------------------------------------------------------------
(* What a step of one thread leaves of the running graph.                  *)
LEMMA StatusKept ==
  ASSUME NEW n, NEW h, NEW u, Same(u), n_graph' = n_graph,
         n_threads_cur' = n_threads_cur, n_barrier_passed' = n_barrier_passed
  PROVE  /\ Out(u) => Out(u)'
         /\ Gone(u) => Gone(u)'
         /\ Status(n, h, u) => Status(n, h, u)'
         /\ Waits(u)' <=> Waits(u)
<1>1. Out(u)' <=> Out(u)
  BY DEF Same, Out, OnItsWayOut
<1>2. Gone(u)' <=> Gone(u)
  BY <1>1 DEF Same, Gone
<1>3. NotYet(n, h, u)' <=> NotYet(n, h, u)
  BY <1>1 DEF Same, NotYet, Ready
<1>4. Here(n, h, u)' <=> Here(n, h, u)
  BY DEF Same, Here, InStep
<1>5. Behind(n, h, u)' <=> Behind(n, h, u)
  BY DEF Same, Behind, InStep
<1>6. QED BY <1>1, <1>2, <1>3, <1>4, <1>5 DEF Status, Same, Waits

LEMMA PlacesKept ==
  ASSUME PoolType, NEW n, NEW h, NEW t \in Thread, Running(n, h), Others(t),
         n_barrier_passed' = n_barrier_passed,
         IF t \in Part THEN Status(n, h, t)' ELSE Out(t)'
  PROVE  /\ Part' = Part /\ Frontier(n, h)'
         /\ \A u \in (Thread \ Part)' : Out(u)'
         /\ \A u \in Part' : Status(n, h, u)'
<1>1. Part' = Part /\ Part \subseteq Thread
  BY PartFacts DEF Others, Part
<1>2. Frontier(n, h)' <=> Frontier(n, h)
  BY DEF Frontier, FirstHalf
<1>3. ASSUME NEW u \in Thread \ {t}
      PROVE  (Out(u) => Out(u)') /\ (Status(n, h, u) => Status(n, h, u)')
  BY StatusKept DEF Others
<1>4. ASSUME NEW u \in Thread \ Part PROVE Out(u)'
  <2>1. CASE u = t
    BY <2>1
  <2>2. CASE u # t
    BY <1>3, <2>2 DEF Running
  <2>3. QED BY <2>1, <2>2
<1>5. ASSUME NEW u \in Part PROVE Status(n, h, u)'
  <2>1. CASE u = t
    BY <2>1
  <2>2. CASE u # t
    BY <1>1, <1>3, <2>2 DEF Running
  <2>3. QED BY <2>1, <2>2
<1>6. QED BY <1>1, <1>2, <1>4, <1>5 DEF Running, Thread

LastPc == {"reset middle", "open middle", "reset end", "open end"}

KeepsBarrier(u) == /\ Waits(u)' <=> Waits(u)
                   /\ pc[u] \in LastPc \/ pc'[u] \in LastPc => pc'[u] = pc[u]

LEMMA BarrierKept ==
  ASSUME PoolType, BarrierInv, n_barrier' = n_barrier, n_threads_cur' = n_threads_cur,
         \A u \in Part : KeepsBarrier(u)
  PROVE  BarrierInv'
<1>1. Part' = Part
  BY DEF Part
<1>2. Spinning' = Spinning
  BY <1>1 DEF Spinning, KeepsBarrier
<1>3. Counted => Counted'
  BY <1>1, <1>2 DEF Counted, KeepsBarrier, LastPc
<1>4. ASSUME NEW t \in Part, LastOne(t) PROVE LastOne(t)'
  BY <1>1, <1>4 DEF LastOne, KeepsBarrier, LastPc
<1>5. QED BY <1>1, <1>3, <1>4 DEF BarrierInv

KeepsWork(n, h, u) ==
  IF h = "middle"
  THEN /\ pc'[u] \in PastPrepare <=> pc[u] \in PastPrepare
       /\ pc'[u] \in MiddlePc => \/ pc[u] \in MiddlePc /\ chunk'[u] = chunk[u]
                                 \/ chunk'[u] = u
  ELSE /\ PastCompute(u)' <=> PastCompute(u)
       /\ pc'[u] \in {"compute", "spin middle"} =>
            \/ pc[u] \in {"compute", "spin middle"} /\ chunk'[u] = chunk[u]
            \/ ~Many(n) /\ chunk'[u] = u
       /\ Many(n) /\ pc[u] \in {"compute", "spin middle"} => pc'[u] \in {"compute", "spin middle"}

LEMMA WorkKept ==
  ASSUME PoolType, NEW n, NEW h \in {"middle", "end"}, WorkInv(n, h),
         UNCHANGED <<done, current_chunk, n_threads_cur>>,
         \A u \in Part : KeepsWork(n, h, u)
  PROVE  WorkInv(n, h)'
<1>1. Part' = Part /\ 0 \in Part
  BY PartFacts DEF Part
<1>2. ASSUME h = "middle", MiddleWork(n) PROVE MiddleWork(n)'
  BY <1>1, <1>2 DEF MiddleWork, KeepsWork
<1>3. ASSUME h = "end", ~Many(n), FewChunks(n) PROVE FewChunks(n)'
  BY <1>1, <1>3 DEF FewChunks, KeepsWork
<1>4. ASSUME h = "end", Many(n), ManyChunks(n) PROVE ManyChunks(n)'
  <2>1. Taking' = Taking
    BY <1>1, <1>4 DEF Taking, KeepsWork
  <2>2. \A u \in Taking : chunk'[u] = chunk[u]
    BY <1>4 DEF Taking, KeepsWork
  <2>3. QED BY <1>1, <1>4, <2>1, <2>2 DEF ManyChunks
<1>5. Many(n)' <=> Many(n)
  BY DEF Many
<1>6. \A m \in 1..n-1 : WorkOf(m, n_threads_cur)' = WorkOf(m, n_threads_cur)
  BY DEF WorkOf, ChunksOf
<1>7. QED BY <1>1, <1>2, <1>3, <1>4, <1>5, <1>6 DEF WorkInv

LEMMA OthersKeep ==
  ASSUME NEW n, NEW h, NEW u, Same(u), n_barrier_passed' = n_barrier_passed
  PROVE  KeepsBarrier(u) /\ KeepsWork(n, h, u)
BY DEF Same, KeepsBarrier, Waits, KeepsWork, PastCompute

LEMMA RunningBut ==
  ASSUME PoolType, NEW n, NEW h \in {"middle", "end"}, NEW t \in Thread, Running(n, h), Others(t),
         UNCHANGED <<n_barrier_passed, done, current_chunk>>,
         IF t \in Part THEN Status(n, h, t)' /\ KeepsWork(n, h, t) ELSE Out(t)',
         BarrierInv'
  PROVE  Running(n, h)'
<1>1. \A u \in Part : KeepsWork(n, h, u)
  BY OthersKeep, PartFacts DEF Others
<1>2. n_threads_cur' = n_threads_cur
  BY DEF Others
<1>3. WorkInv(n, h)'
  BY <1>1, <1>2, WorkKept DEF Running
<1>4. QED BY <1>3, PlacesKept DEF Running

LEMMA RunningKept ==
  ASSUME PoolType, NEW n, NEW h \in {"middle", "end"}, NEW t \in Thread, Running(n, h), Others(t),
         UNCHANGED <<n_barrier, n_barrier_passed, done, current_chunk>>,
         IF t \in Part THEN Status(n, h, t)' /\ KeepsBarrier(t) /\ KeepsWork(n, h, t) ELSE Out(t)'
  PROVE  Running(n, h)'
<1>1. \A u \in Part : KeepsBarrier(u)
  BY OthersKeep, PartFacts DEF Others
<1>2. n_threads_cur' = n_threads_cur
  BY DEF Others
<1>3. BarrierInv'
  BY <1>1, <1>2, BarrierKept DEF Running
<1>4. QED BY <1>3, RunningBut

-----------------------------------------------------------------------------
(* A thread that works for no graph, while one is running.                 *)
LEMMA LessDiffers == \A a, b \in Nat : a < b => a # b
OBVIOUS

LEMMA OutIdle ==
  ASSUME PoolType, NEW t \in Thread, Out(t)
  PROVE  /\ ~Waits(t) /\ ~PastCompute(t)
         /\ pc[t] \notin LastPc \cup MiddlePc \cup {"compute", "begin"}
<1>1. seen[t].passed \in Nat /\ n_barrier_passed \in Nat
  BY ThreadTypes
<1>2. CASE pc[t] \in OutsidePc \/ pc[t] = "node"
  BY <1>2 DEF Waits, PastCompute, LastPc, MiddlePc, OutsidePc
<1>3. CASE pc[t] = "spin end" /\ seen[t].passed < n_barrier_passed
  <2>1. seen[t].passed # n_barrier_passed
    BY <1>1, <1>3, LessDiffers
  <2>2. QED BY <1>3, <2>1 DEF Waits, PastCompute, LastPc, MiddlePc
<1>4. QED BY <1>2, <1>3, OutPc

LEMMA OutPart ==
  ASSUME PoolType, Steady, NEW n \in 1..Len(Nodes)+1, NEW h, NEW t \in Part \ {0},
         Status(n, h, t), Out(t)
  PROVE  \/ n = 1 /\ h = FirstHalf(1) /\ Ready(t)
         \/ n = Len(Nodes) + 1 /\ Gone(t)
<1>0. t \in Thread /\ Len(Nodes) \in Nat /\ node[t] \in Nat /\ seen[t].passed \in Nat
      /\ n_barrier_passed \in Nat
  BY PartFacts, NodesFacts, ThreadTypes
<1>1. CASE NotYet(n, h, t)
  BY <1>0, <1>1, OutIdle DEF NotYet
<1>2. CASE Here(n, h, t)
  <2>1. pc[t] # "spin end"
    <3>1. pc[t] = "spin end" => seen[t].passed = n_barrier_passed
      BY <1>2 DEF Here, WaitPc
    <3>2. QED BY <1>0, <3>1, OutIdle DEF Waits
  <2>2. pc[t] = "node" /\ node[t] > Len(Nodes)
    BY <1>2, <2>1, OutPc DEF Here, MiddlePc, EndPc, OutsidePc
  <2>3. n > Len(Nodes) /\ last[t] = n_graph /\ node[t] = n
    BY <1>2, <2>2 DEF Here, InStep
  <2>4. QED BY <1>0, <2>2, <2>3 DEF Gone
<1>3. CASE Behind(n, h, t)
  <2>1. pc[t] = "spin end" /\ node[t] = Len(Nodes) /\ node[t] + 1 = n
    BY <1>3, OutPc DEF Behind, OutsidePc
  <2>2. QED BY <1>0, <1>3, <2>1 DEF Gone, Behind, InStep
<1>4. QED BY <1>1, <1>2, <1>3 DEF Status

LEMMA OutIdleNext ==
  ASSUME NEW t, Out(t)', seen'[t].passed \in Nat, n_barrier_passed' \in Nat
  PROVE  /\ ~Waits(t)' /\ ~PastCompute(t)'
         /\ pc'[t] \notin LastPc \cup MiddlePc \cup {"compute"}
<1>1. pc'[t] = "spin end" => seen'[t].passed # n_barrier_passed'
  BY LessDiffers DEF Out
<1>2. QED BY <1>1 DEF Out, OnItsWayOut, Waits, PastCompute, LastPc, MiddlePc

LEMMA OutRuns ==
  ASSUME PoolType, PoolType', Steady, NEW n, NEW h \in {"middle", "end"}, Running(n, h),
         NEW t \in Thread \ {0}, Out(t), Wait(t) \/ InGraph(t)
  PROVE  Running(n, h)'
<1>1. n \in 1..Len(Nodes)+1
  BY DEF Running, Frontier
<1>2. t \in Part => \/ n = 1 /\ h = FirstHalf(1) /\ Ready(t)
                    \/ n = Len(Nodes) + 1 /\ Gone(t)
  BY <1>1, OutPart DEF Running
<1>3. Moves(t) /\ UNCHANGED <<barrier, current_chunk, work>>
  BY <1>2, WaitMoves, LeaveMoves
<1>4. Others(t)
  BY OthersSame
<1>5. seen'[t].passed \in Nat /\ n_barrier_passed' \in Nat
  BY DEF PoolType
<1>6. ~Waits(t) /\ ~PastCompute(t) /\ pc[t] \notin LastPc \cup MiddlePc \cup {"compute"}
  BY OutIdle
<1>7. ~Waits(t)' /\ ~PastCompute(t)' /\ pc'[t] \notin LastPc \cup MiddlePc \cup {"compute"}
  <2>1. CASE Out(t)'
    BY <1>5, <2>1, OutIdleNext
  <2>2. CASE pc'[t] = "begin"
    BY <2>2 DEF Waits, PastCompute, LastPc, MiddlePc
  <2>3. QED BY <1>3, <2>1, <2>2 DEF Moves
<1>8. KeepsBarrier(t) /\ KeepsWork(n, h, t)
  BY <1>6, <1>7 DEF KeepsBarrier, KeepsWork, MiddlePc, PastPrepare
<1>9. ASSUME t \in Part PROVE Status(n, h, t)'
  <2>1. CASE Out(t)'
    <3>1. (Ready(t) => Ready(t)') /\ (Gone(t) => Gone(t)')
      <4>1. pc'[t] # "begin"
        BY <2>1 DEF Out, OnItsWayOut
      <4>2. QED BY <1>3, <1>9, <4>1 DEF Moves
    <3>2. CASE n = 1 /\ h = FirstHalf(1) /\ Ready(t)
      BY <2>1, <3>1, <3>2 DEF Status, NotYet, FirstHalf
    <3>3. CASE n = Len(Nodes) + 1 /\ Gone(t)
      BY <3>1, <3>3 DEF Status
    <3>4. QED BY <1>2, <1>9, <3>2, <3>3
  <2>2. CASE ~Out(t)'
    <3>1. ~Gone(t) /\ pc'[t] = "begin" /\ last'[t] = n_graph
      BY <1>3, <2>2 DEF Moves
    <3>2. n = 1 /\ h = FirstHalf(1) /\ n_graph' = n_graph
      BY <1>2, <1>4, <1>9, <3>1 DEF Others
    <3>3. QED BY <3>1, <3>2 DEF Status, NotYet, FirstHalf
  <2>3. QED BY <2>1, <2>2
<1>10. ASSUME t \notin Part PROVE Out(t)'
  BY <1>3, <1>10 DEF Moves
<1>11. QED BY <1>3, <1>4, <1>8, <1>9, <1>10, RunningKept DEF barrier, work

LEMMA Participant ==
  ASSUME PoolType, Steady, NEW n, NEW h, Running(n, h), NEW t \in Thread, t = 0 \/ ~Out(t)
  PROVE  /\ t \in Part
         /\ \/ /\ n = 1 /\ h = FirstHalf(1)
               /\ pc[t] = "begin" /\ (t = 0 \/ last[t] = n_graph)
            \/ Here(n, h, t)
            \/ Behind(n, h, t)
BY PartFacts DEF Running, Status, NotYet, Gone

-----------------------------------------------------------------------------
(* Where a thread of the graph is, by its pc.                              *)
LEMMA NotLast == \A l \in Nat : \A k \in 1..l+1 : k <= l => k \in 1..l
OBVIOUS

LEMMA OutsideNode ==
  ASSUME NEW t, pc[t] \in (MiddlePc \cup EndPc \cup {"begin"}) \ {"spin end"}
  PROVE  ~Out(t)
BY DEF Out, OnItsWayOut, MiddlePc, EndPc

LEMMA BeginIs ==
  ASSUME PoolType, Steady, NEW n, NEW h, Running(n, h), NEW t \in Thread, pc[t] = "begin"
  PROVE  t \in Part /\ n = 1 /\ h = FirstHalf(1) /\ (t = 0 \/ last[t] = n_graph)
<1>1. ~Out(t)
  BY OutsideNode
<1>2. ~Here(n, h, t) /\ ~Behind(n, h, t)
  BY DEF Here, Behind, MiddlePc, EndPc
<1>3. QED BY <1>1, <1>2, Participant

LEMMA NodeIs ==
  ASSUME PoolType, Steady, NEW n, NEW h, Running(n, h), NEW t \in Thread, pc[t] = "node",
         t = 0 \/ ~Out(t)
  PROVE  /\ t \in Part /\ InStep(t) /\ node[t] = n /\ h = FirstHalf(n)
         /\ n \in 1..Len(Nodes)+1
         /\ t # 0 => n <= Len(Nodes)
<1>1. t \in Part /\ Here(n, h, t)
  BY Participant DEF Behind
<1>2. InStep(t) /\ node[t] = n /\ h = FirstHalf(n)
  BY <1>1 DEF Here, MiddlePc, EndPc
<1>3. n \in 1..Len(Nodes)+1 /\ Len(Nodes) \in Nat
  BY NodesFacts DEF Running, Frontier
<1>4. t # 0 => ~(node[t] > Len(Nodes))
  BY DEF Out, OnItsWayOut
<1>5. QED BY <1>1, <1>2, <1>3, <1>4

LEMMA InsideIs ==
  ASSUME PoolType, Steady, NEW n, NEW h, Running(n, h), NEW t \in Thread,
         pc[t] \in (MiddlePc \cup EndPc) \ {"spin middle", "spin end"}
  PROVE  /\ t \in Part /\ Here(n, h, t) /\ n \in 1..Len(Nodes) /\ n <= Len(Nodes)
         /\ InStep(t) /\ node[t] = n
         /\ pc[t] \in MiddlePc => h = "middle" /\ Nodes[n] = "mul_mat"
         /\ pc[t] \in EndPc => h = "end"
         /\ pc[t] \in WaitPc => seen[t].n = n_threads_cur /\ seen[t].passed = n_barrier_passed
<1>1. ~Out(t) /\ pc[t] # "begin" /\ pc[t] # "node"
  BY OutsideNode DEF MiddlePc, EndPc
<1>2. ~Behind(n, h, t)
  BY DEF Behind
<1>3. t \in Part /\ Here(n, h, t)
  BY <1>1, <1>2, Participant
<1>4. n \in 1..Len(Nodes)+1 /\ Len(Nodes) \in Nat /\ (h = "end" \/ h = FirstHalf(n))
  BY NodesFacts DEF Running, Frontier
<1>5. /\ InStep(t) /\ node[t] = n /\ n <= Len(Nodes)
      /\ pc[t] \in MiddlePc => h = "middle"
      /\ pc[t] \in EndPc => h = "end"
  BY <1>1, <1>3 DEF Here, MiddlePc, EndPc
<1>6. pc[t] \in WaitPc => seen[t].n = n_threads_cur /\ seen[t].passed = n_barrier_passed
  BY <1>3 DEF Here
<1>7. h = "middle" => Nodes[n] = "mul_mat"
  BY <1>4 DEF FirstHalf
<1>8. n \in 1..Len(Nodes)
  BY <1>4, <1>5, NotLast
<1>9. QED BY <1>3, <1>5, <1>6, <1>7, <1>8

LEMMA SpinIs ==
  ASSUME PoolType, Steady, NEW n, NEW h, Running(n, h), NEW t \in Thread,
         pc[t] \in {"spin middle", "spin end"}, t = 0 \/ ~Out(t), ~Waits(t)
  PROVE  t \in Part /\ Behind(n, h, t)
<1>1. ~Here(n, h, t)
  BY DEF Here, WaitPc, Waits
<1>2. QED BY <1>1, Participant

-----------------------------------------------------------------------------
(* The steps of a thread of the graph.                                     *)
LEMMA RunBegin ==
  ASSUME PoolType, Steady, NEW n, NEW h \in {"middle", "end"}, Running(n, h),
         NEW t \in Thread, Begin(t)
  PROVE  Running(n, h)'
<1>1. /\ t \in Part /\ n = 1 /\ h = FirstHalf(1) /\ (t = 0 \/ last[t] = n_graph)
      /\ pc[t] = "begin"
  BY BeginIs DEF Begin
<1>2. Others(t)
  BY OthersSame DEF InGraph
<1>3. /\ pc'[t] = "node" /\ node'[t] = 1 /\ nth'[t] = n_threads_cur /\ last'[t] = last[t]
      /\ UNCHANGED <<n_barrier, n_barrier_passed, done, current_chunk, n_graph, n_threads_cur>>
  BY DEF PoolType, Begin, Goto, barrier, work
<1>4. Status(n, h, t)'
  BY <1>1, <1>3 DEF Status, Here, InStep, FirstHalf, WaitPc
<1>5. KeepsBarrier(t) /\ KeepsWork(n, h, t)
  BY <1>1, <1>3 DEF KeepsBarrier, Waits, LastPc, KeepsWork, PastPrepare, PastCompute, MiddlePc
<1>6. QED BY <1>1, <1>2, <1>3, <1>4, <1>5, RunningKept

LEMMA RunNextNode ==
  ASSUME PoolType, Steady, NEW n, NEW h \in {"middle", "end"}, Running(n, h),
         NEW t \in Thread, NextNode(t), n <= Len(Nodes), t = 0 \/ ~Out(t)
  PROVE  Running(n, h)'
<1>0. Len(Nodes) \in Nat /\ n \in 1..Len(Nodes)+1
  BY NodesFacts DEF Running, Frontier
<1>1. /\ t \in Part /\ InStep(t) /\ node[t] = n /\ h = FirstHalf(n) /\ pc[t] = "node"
      /\ n \in 1..Len(Nodes) /\ Len(Nodes) \in Nat
  BY <1>0, NodeIs DEF NextNode
<1>2. Others(t)
  BY OthersSame DEF InGraph
<1>3. pc'[t] = IF Nodes[n] = "mul_mat" THEN "prepare" ELSE "compute"
  <2>1. abort = FALSE /\ ~(node[t] > Len(Nodes))
    BY <1>1 DEF PoolType
  <2>2. QED BY <1>1, <2>1 DEF PoolType, NextNode, Goto
<1>4. /\ chunk'[t] = t /\ node'[t] = n /\ nth'[t] = nth[t] /\ last'[t] = last[t]
      /\ UNCHANGED <<n_barrier, n_barrier_passed, done, current_chunk, n_graph, n_threads_cur>>
  BY <1>1 DEF PoolType, NextNode, barrier, work
<1>5. h = IF Nodes[n] = "mul_mat" THEN "middle" ELSE "end"
  BY <1>1 DEF FirstHalf
<1>6. Here(n, h, t)'
  BY <1>1, <1>3, <1>4, <1>5 DEF Here, InStep, WaitPc, MiddlePc, EndPc
<1>7. KeepsBarrier(t)
  BY <1>1, <1>3 DEF KeepsBarrier, Waits, LastPc
<1>8. KeepsWork(n, h, t)
  BY <1>1, <1>3, <1>4, <1>5 DEF KeepsWork, PastPrepare, PastCompute, MiddlePc, Many
<1>9. QED BY <1>1, <1>2, <1>4, <1>6, <1>7, <1>8, RunningKept DEF Status

LEMMA RunEndNode ==
  ASSUME PoolType, Steady, NEW n, NEW h \in {"middle", "end"}, Running(n, h),
         NEW t \in Thread, EndNode(t)
  PROVE  Running(n, h)'
<1>0. pc[t] = "computed" /\ pc[t] \in EndPc \ {"spin middle", "spin end"}
  BY DEF EndNode, EndPc
<1>1. /\ pc[t] = "computed" /\ t \in Part /\ n \in 1..Len(Nodes) /\ n <= Len(Nodes)
      /\ InStep(t) /\ node[t] = n /\ h = "end"
  BY <1>0, InsideIs
<1>2. Others(t)
  BY OthersSame DEF InGraph
<1>3. /\ pc'[t] = "enter end" /\ chunk'[t] = chunk[t] /\ node'[t] = n /\ nth'[t] = nth[t]
      /\ last'[t] = last[t]
      /\ UNCHANGED <<n_barrier, n_barrier_passed, done, current_chunk, n_graph, n_threads_cur>>
  BY <1>1 DEF PoolType, EndNode, Goto, locals, barrier, work
<1>4. Here(n, h, t)'
  BY <1>1, <1>3 DEF Here, InStep, WaitPc, EndPc
<1>5. KeepsBarrier(t) /\ KeepsWork(n, h, t)
  BY <1>1, <1>3 DEF KeepsBarrier, Waits, LastPc, KeepsWork, PastCompute
<1>6. QED BY <1>1, <1>2, <1>3, <1>4, <1>5, RunningKept DEF Status

LEMMA RunEnter ==
  ASSUME PoolType, Steady, NEW n, NEW h \in {"middle", "end"}, Running(n, h),
         NEW t \in Thread, NEW w \in {"middle", "end"}, EnterBarrier(t, w), n_threads_cur # 1
  PROVE  Running(n, h)'
<1>1. /\ pc[t] = Enter[w] /\ pc[t] \in (MiddlePc \cup EndPc) \ {"spin middle", "spin end"}
      /\ w = "middle" => pc[t] \in MiddlePc
      /\ w = "end" => pc[t] \in EndPc
  <2>1. CASE w = "middle"
    BY <2>1, PcNames DEF EnterBarrier, MiddlePc, EndPc
  <2>2. CASE w = "end"
    BY <2>2, PcNames DEF EnterBarrier, MiddlePc, EndPc
  <2>3. QED BY <2>1, <2>2
<1>2. /\ t \in Part /\ n \in 1..Len(Nodes) /\ n <= Len(Nodes) /\ InStep(t) /\ node[t] = n
      /\ pc[t] \in MiddlePc => h = "middle"
      /\ pc[t] \in EndPc => h = "end"
  BY <1>1, InsideIs
<1>3. /\ pc[t] = Enter[w] /\ t \in Part /\ n \in 1..Len(Nodes) /\ n <= Len(Nodes)
      /\ InStep(t) /\ node[t] = n /\ h = w
  BY <1>1, <1>2
<1>4. Others(t)
  BY OthersSame DEF InGraph, Barrier
<1>5. /\ pc'[t] = Arrive[w] /\ chunk'[t] = chunk[t] /\ node'[t] = n /\ nth'[t] = nth[t]
      /\ last'[t] = last[t]
      /\ UNCHANGED <<n_barrier, n_barrier_passed, done, current_chunk, n_graph, n_threads_cur>>
  BY <1>3 DEF PoolType, EnterBarrier, Goto, barrier, work
<1>6. seen'[t].n = n_threads_cur /\ seen'[t].passed = n_barrier_passed
  BY DEF PoolType, EnterBarrier
<1>7. Here(n, h, t)'
  BY <1>3, <1>5, <1>6, PcNames DEF Here, InStep, MiddlePc, EndPc
<1>8. KeepsBarrier(t) /\ KeepsWork(n, h, t)
  BY <1>3, <1>5, PcNames DEF KeepsBarrier, Waits, LastPc, KeepsWork, PastPrepare, PastCompute, MiddlePc
<1>9. QED BY <1>3, <1>4, <1>5, <1>7, <1>8, RunningKept DEF Status

LEMMA RunLeave ==
  ASSUME PoolType, Steady, NEW n, NEW h \in {"middle", "end"}, Running(n, h),
         NEW t \in Thread, NEW w \in {"middle", "end"}, LeaveBarrier(t, w), t = 0 \/ ~Out(t)
  PROVE  Running(n, h)'
<1>1. pc[t] = Spin[w] /\ ~Waits(t) /\ t \in Part /\ Behind(n, h, t)
  BY SpinIs, PcNames DEF LeaveBarrier, Waits
<1>2. Others(t)
  BY OthersSame DEF InGraph, Barrier
<1>3. /\ chunk'[t] = chunk[t] /\ nth'[t] = nth[t] /\ last'[t] = last[t]
      /\ UNCHANGED <<n_barrier, n_barrier_passed, done, current_chunk, n_graph, n_threads_cur>>
  BY DEF LeaveBarrier, barrier, work
<1>4. /\ pc'[t] = IF w = "middle" THEN "compute" ELSE "node"
      /\ node'[t] = IF w = "middle" THEN node[t] ELSE node[t] + 1
  BY DEF PoolType, LeaveBarrier, Leave, Goto
<1>5. InStep(t) /\ IF w = "middle" THEN node[t] = n /\ h = "end" /\ n <= Len(Nodes)
                   ELSE node[t] + 1 = n /\ h = FirstHalf(n)
  BY <1>1, PcNames DEF Behind
<1>6. Here(n, h, t)'
  BY <1>3, <1>4, <1>5 DEF Here, InStep, FirstHalf, WaitPc, EndPc
<1>7. KeepsBarrier(t)
  BY <1>1, <1>4, PcNames DEF KeepsBarrier, Waits, LastPc
<1>8. KeepsWork(n, h, t)
  <2>1. CASE w = "middle"
    BY <1>1, <1>3, <1>4, <1>5, <2>1, PcNames DEF KeepsWork, PastCompute
  <2>2. CASE w = "end"
    BY <1>1, <1>4, <2>2, PcNames DEF KeepsWork, PastCompute, PastPrepare, MiddlePc
  <2>3. QED BY <2>1, <2>2
<1>9. QED BY <1>1, <1>2, <1>3, <1>6, <1>7, <1>8, RunningKept DEF Status

-----------------------------------------------------------------------------
(* The barrier.                                                            *)
LEMMA RunReset ==
  ASSUME PoolType, Steady, NEW n, NEW h \in {"middle", "end"}, Running(n, h),
         NEW t \in Thread, NEW w \in {"middle", "end"}, ResetBarrier(t, w)
  PROVE  Running(n, h)'
<1>0. /\ pc[t] = Reset[w] /\ pc[t] \in (MiddlePc \cup EndPc) \ {"spin middle", "spin end"}
      /\ pc[t] \in LastPc /\ pc[t] \in WaitPc
      /\ w = "middle" => pc[t] \in MiddlePc
      /\ w = "end" => pc[t] \in EndPc
  <2>1. CASE w = "middle"
    BY <2>1, PcNames DEF ResetBarrier, MiddlePc, EndPc, LastPc, WaitPc
  <2>2. CASE w = "end"
    BY <2>2, PcNames DEF ResetBarrier, MiddlePc, EndPc, LastPc, WaitPc
  <2>3. QED BY <2>1, <2>2
<1>1. /\ t \in Part /\ n \in 1..Len(Nodes) /\ n <= Len(Nodes) /\ InStep(t) /\ node[t] = n
      /\ pc[t] \in MiddlePc => h = "middle"
      /\ pc[t] \in EndPc => h = "end"
      /\ seen[t].n = n_threads_cur /\ seen[t].passed = n_barrier_passed
  BY <1>0, InsideIs
<1>2. h = w /\ Others(t)
  BY <1>0, <1>1, OthersSame DEF InGraph, Barrier
<1>3. /\ pc'[t] = Open[w] /\ node'[t] = n /\ nth'[t] = nth[t] /\ last'[t] = last[t]
      /\ chunk'[t] = chunk[t] /\ seen'[t] = seen[t] /\ n_barrier' = 0
      /\ UNCHANGED <<n_barrier_passed, done, current_chunk, n_graph, n_threads_cur>>
  BY <1>1 DEF PoolType, ResetBarrier, Goto, locals, work
<1>4. Here(n, h, t)'
  BY <1>1, <1>2, <1>3, PcNames DEF Here, InStep, MiddlePc, EndPc
<1>5. KeepsWork(n, h, t)
  BY <1>0, <1>2, <1>3, PcNames DEF KeepsWork, PastPrepare, PastCompute, MiddlePc
<1>6. LastOne(t)
  <2>1. BarrierInv
    BY DEF Running
  <2>2. ~Counted
    BY <1>0, <1>1 DEF Counted, LastPc
  <2>3. ASSUME NEW o \in Part, LastOne(o) PROVE o = t
    BY <1>0, <1>1, <2>3, PcNames DEF LastOne, Waits
  <2>4. QED BY <2>1, <2>2, <2>3 DEF BarrierInv
<1>7. LastOne(t)'
  <2>1. Part' = Part /\ Part \subseteq Thread
    BY <1>3, PartFacts DEF Part
  <2>2. \A u \in Part \ {t} : Waits(u)'
    BY <1>2, <1>3, <1>6, <2>1 DEF LastOne, Others, Same, Waits
  <2>3. pc'[t] \in {"open middle", "open end"}
    BY <1>3, PcNames
  <2>4. QED BY <1>3, <2>1, <2>2, <2>3 DEF LastOne
<1>8. BarrierInv'
  BY <1>1, <1>3, <1>7 DEF BarrierInv, Part
<1>9. QED BY <1>1, <1>2, <1>3, <1>4, <1>5, <1>8, RunningBut DEF Status

LEMMA RunArrive ==
  ASSUME PoolType, Steady, NEW n, NEW h \in {"middle", "end"}, Running(n, h),
         NEW t \in Thread, NEW w \in {"middle", "end"}, ArriveAtBarrier(t, w)
  PROVE  Running(n, h)'
<1>0. /\ pc[t] = Arrive[w] /\ pc[t] \in (MiddlePc \cup EndPc) \ {"spin middle", "spin end"}
      /\ pc[t] \notin LastPc /\ pc[t] \in WaitPc
      /\ w = "middle" => pc[t] \in MiddlePc
      /\ w = "end" => pc[t] \in EndPc
  <2>1. CASE w = "middle"
    BY <2>1, PcNames DEF ArriveAtBarrier, MiddlePc, EndPc, LastPc, WaitPc
  <2>2. CASE w = "end"
    BY <2>2, PcNames DEF ArriveAtBarrier, MiddlePc, EndPc, LastPc, WaitPc
  <2>3. QED BY <2>1, <2>2
<1>1. /\ t \in Part /\ n \in 1..Len(Nodes) /\ n <= Len(Nodes) /\ InStep(t) /\ node[t] = n
      /\ pc[t] \in MiddlePc => h = "middle"
      /\ pc[t] \in EndPc => h = "end"
      /\ seen[t].n = n_threads_cur /\ seen[t].passed = n_barrier_passed
  BY <1>0, InsideIs
<1>2. h = w /\ Others(t)
  BY <1>0, <1>1, OthersSame DEF InGraph, Barrier
<1>3. /\ pc'[t] = IF n_barrier = n_threads_cur - 1 THEN Reset[w] ELSE Spin[w]
      /\ node'[t] = n /\ nth'[t] = nth[t] /\ last'[t] = last[t]
      /\ chunk'[t] = chunk[t] /\ seen'[t] = seen[t] /\ n_barrier' = n_barrier + 1
      /\ UNCHANGED <<n_barrier_passed, done, current_chunk, n_graph, n_threads_cur>>
  BY <1>1 DEF PoolType, ArriveAtBarrier, Goto, locals, work
<1>4. Here(n, h, t)'
  BY <1>1, <1>2, <1>3, PcNames DEF Here, InStep, MiddlePc, EndPc
<1>5. KeepsWork(n, h, t)
  <2>1. CASE w = "middle"
    BY <1>0, <1>2, <1>3, <2>1, PcNames DEF KeepsWork, PastPrepare, MiddlePc
  <2>2. CASE w = "end"
    BY <1>0, <1>1, <1>2, <1>3, <2>2, PcNames DEF KeepsWork, PastCompute, Waits
  <2>3. QED BY <2>1, <2>2
<1>6. Counted
  <2>1. ASSUME NEW o \in Part, LastOne(o) PROVE FALSE
    BY <1>0, <1>1, <2>1, PcNames DEF LastOne, Waits, LastPc
  <2>2. QED BY <2>1 DEF Running, BarrierInv
<1>7. /\ Part' = Part /\ IsFiniteSet(Part) /\ Cardinality(Part) = n_threads_cur /\ Part \subseteq Thread
      /\ n_threads_cur \in Nat /\ n_barrier \in Nat
  BY <1>3, PartFacts, ThreadTypes DEF Part
<1>8. t \notin Spinning /\ Spinning \subseteq Part /\ IsFiniteSet(Spinning)
      /\ n_barrier = Cardinality(Spinning)
  BY <1>0, <1>6, <1>7, PcNames, FS_Subset DEF Spinning, Waits, Counted
<1>9. \A u \in Part \ {t} : (Waits(u)' <=> Waits(u)) /\ pc'[u] = pc[u]
  BY <1>2, <1>3, <1>7 DEF Others, Same, Waits
<1>10. Cardinality(Spinning \cup {t}) = n_barrier + 1
  BY <1>8, FS_AddElement
<1>11. CASE n_barrier = n_threads_cur - 1
  <2>1. Spinning \cup {t} = Part
    BY <1>1, <1>7, <1>8, <1>10, <1>11, FS_Subset
  <2>2. \A u \in Part \ {t} : Waits(u)'
    BY <1>9, <2>1 DEF Spinning
  <2>3. pc'[t] \in {"reset middle", "reset end"} /\ n_barrier' = n_threads_cur
    <3>1. pc'[t] = Reset[w] /\ n_barrier' = n_barrier + 1
      BY <1>3, <1>11
    <3>2. n_barrier' = n_threads_cur
      BY <1>7, <1>11, <3>1
    <3>3. QED BY <3>1, <3>2, PcNames
  <2>4. BarrierInv'
    BY <1>1, <1>3, <1>7, <2>2, <2>3 DEF BarrierInv, LastOne
  <2>5. QED BY <1>1, <1>2, <1>3, <1>4, <1>5, <2>4, RunningBut DEF Status
<1>12. CASE n_barrier # n_threads_cur - 1
  <2>1. pc'[t] \in {"spin middle", "spin end"} /\ Waits(t)'
    BY <1>1, <1>3, <1>12, PcNames DEF Waits
  <2>2. Spinning' = Spinning \cup {t}
    BY <1>1, <1>7, <1>9, <2>1 DEF Spinning
  <2>3. Spinning' # Part
    BY <1>7, <1>10, <1>12, <2>2
  <2>4. \A u \in Part : pc'[u] \notin LastPc
    BY <1>6, <1>9, <2>1 DEF Counted, LastPc
  <2>5. BarrierInv'
    BY <1>3, <1>7, <1>10, <2>2, <2>3, <2>4 DEF BarrierInv, Counted, LastPc
  <2>6. QED BY <1>1, <1>2, <1>3, <1>4, <1>5, <2>5, RunningBut DEF Status
<1>13. QED BY <1>11, <1>12

-----------------------------------------------------------------------------
(* The work.                                                               *)
LEMMA RunPrepare ==
  ASSUME PoolType, Steady, NEW n, NEW h \in {"middle", "end"}, Running(n, h),
         NEW t \in Thread, PrepareMulMat(t)
  PROVE  Running(n, h)' /\ again' = again
<1>0. pc[t] = "prepare" /\ pc[t] \in MiddlePc \ {"spin middle", "spin end"}
  BY DEF PrepareMulMat, MiddlePc
<1>1. /\ t \in Part /\ n \in 1..Len(Nodes) /\ n <= Len(Nodes) /\ InStep(t) /\ node[t] = n
      /\ h = "middle"
  BY <1>0, InsideIs
<1> n \in Nat
  BY <1>1, NodesFacts
<1>2. Others(t)
  BY OthersSame DEF InGraph
<1>3. /\ pc'[t] = "enter middle" /\ node'[t] = n /\ nth'[t] = nth[t] /\ last'[t] = last[t]
      /\ chunk'[t] = chunk[t]
      /\ done' = done \cup {<<n, "rows", t>>}
      /\ again' = (again \/ <<n, "rows", t>> \in done)
      /\ current_chunk' = IF t = 0 THEN n_threads_cur ELSE current_chunk
      /\ UNCHANGED <<n_barrier, n_barrier_passed, n_graph, n_threads_cur>>
  BY <1>1 DEF PoolType, PrepareMulMat, Goto, Do, locals, barrier, InStep
<1>4. Here(n, h, t)'
  BY <1>1, <1>3 DEF Here, InStep, MiddlePc, WaitPc
<1>5. BarrierInv'
  <2>1. KeepsBarrier(t)
    BY <1>0, <1>3 DEF KeepsBarrier, Waits, LastPc
  <2>2. \A u \in Part : KeepsBarrier(u)
    BY <1>2, <1>3, <2>1, OthersKeep, PartFacts DEF Others
  <2>3. QED BY <1>3, <2>2, BarrierKept DEF Running
<1>6. WorkInv(n, h) /\ MiddleWork(n)
  BY <1>1 DEF Running, WorkInv
<1>7. again' = again
  <2>1. <<n, "rows", t>> \notin done
    BY <1>0, <1>1, <1>6 DEF MiddleWork, PastPrepare
  <2>2. QED BY <1>3, <2>1 DEF PoolType
<1>8. Part' = Part /\ Part \subseteq Thread /\ 0 \in Part
  BY <1>3, PartFacts DEF Part
<1>9. MiddleWork(n)'
  <2>1. ASSUME NEW w \in done', w[1] = n PROVE w[2] = "rows"
    <3>1. CASE w \in done
      BY <1>6, <2>1, <3>1 DEF MiddleWork
    <3>2. CASE w = <<n, "rows", t>>
      BY <3>2
    <3>3. QED BY <1>3, <3>1, <3>2
  <2>2. ASSUME NEW u \in Part
        PROVE  /\ <<n, "rows", u>> \in done' <=> pc'[u] \in PastPrepare
               /\ pc'[u] \in MiddlePc => chunk'[u] = u
    <3>1. CASE u = t
      BY <1>0, <1>1, <1>3, <1>6, <3>1 DEF MiddleWork, PastPrepare, MiddlePc
    <3>2. CASE u # t
      <4>1. pc'[u] = pc[u] /\ chunk'[u] = chunk[u]
        BY <1>2, <1>8, <3>2 DEF Others, Same
      <4>2. <<n, "rows", u>> \in done' <=> <<n, "rows", u>> \in done
        BY <1>3, <3>2
      <4>3. QED BY <1>6, <4>1, <4>2 DEF MiddleWork
    <3>3. QED BY <3>1, <3>2
  <2>3. pc'[0] \in PastPrepare => current_chunk' = n_threads_cur
    <3>1. CASE t = 0
      BY <1>3, <3>1
    <3>2. CASE t # 0
      BY <1>2, <1>3, <1>6, <1>8, <3>2 DEF MiddleWork, Others, Same
    <3>3. QED BY <3>1, <3>2
  <2>4. QED BY <1>3, <1>8, <2>1, <2>2, <2>3 DEF MiddleWork
<1>10. ASSUME NEW w \in done' PROVE w[1] \in 1..n
  <2>1. CASE w \in done
    BY <1>6, <2>1 DEF WorkInv
  <2>2. CASE w = <<n, "rows", t>>
    BY <1>1, <2>2
  <2>3. QED BY <1>3, <2>1, <2>2
<1>11. \A m \in 1..n-1 : WorkOf(m, n_threads_cur) \subseteq done'
  BY <1>3, <1>6 DEF WorkInv
<1>12. WorkInv(n, h)'
  <2>1. \A m \in 1..n-1 : WorkOf(m, n_threads_cur)' = WorkOf(m, n_threads_cur)
    BY <1>3 DEF WorkOf, ChunksOf
  <2>2. QED BY <1>1, <1>9, <1>10, <1>11, <2>1 DEF WorkInv
<1>13. QED BY <1>1, <1>2, <1>3, <1>4, <1>5, <1>7, <1>12, PlacesKept DEF Running, Status

LEMMA FewDone ==
  ASSUME PoolType, NEW n \in Nat, NEW t \in Part, FewChunks(n), Others(t), pc[t] = "compute",
         done' = done \cup {<<n, "chunk", chunk[t]>>}, pc'[t] = "computed",
         n_barrier_passed' = n_barrier_passed
  PROVE  FewChunks(n)' /\ <<n, "chunk", chunk[t]>> \notin done
<1>1. Part' = Part /\ Part \subseteq Thread
  BY PartFacts DEF Part, Others
<1>2. chunk[t] = t /\ <<n, "chunk", t>> \notin done
  BY DEF FewChunks, PastCompute
<1>3. ASSUME NEW u \in Part
      PROVE  /\ <<n, "chunk", u>> \in done' <=> PastCompute(u)'
             /\ pc'[u] \in {"compute", "spin middle"} => chunk'[u] = u
  <2>1. CASE u = t
    BY <1>2, <2>1 DEF PastCompute
  <2>2. CASE u # t
    <3>1. Same(u)
      BY <1>1, <2>2 DEF Others
    <3>2. PastCompute(u)' <=> PastCompute(u)
      BY <3>1 DEF Same, PastCompute, Waits
    <3>3. <<n, "chunk", u>> \in done' <=> <<n, "chunk", u>> \in done
      BY <1>2, <2>2
    <3>4. QED BY <3>1, <3>2, <3>3 DEF FewChunks, Same
  <2>3. QED BY <2>1, <2>2
<1>4. QED BY <1>1, <1>2, <1>3 DEF FewChunks

LEMMA ManyDone ==
  ASSUME PoolType, NEW n \in Nat, NEW t \in Part, ManyChunks(n), Others(t), pc[t] = "compute",
         done' = done \cup {<<n, "chunk", chunk[t]>>},
         chunk'[t] = current_chunk, current_chunk' = current_chunk + 1,
         pc'[t] = IF current_chunk < NChunks THEN "compute" ELSE "computed"
  PROVE  ManyChunks(n)' /\ <<n, "chunk", chunk[t]>> \notin done
<1>1. Part' = Part /\ Part \subseteq Thread /\ t \in Taking
  BY PartFacts DEF Part, Others, Taking
<1>2. /\ chunk[t] < current_chunk /\ chunk[t] < NChunks
      /\ <<n, "chunk", chunk[t]>> \notin done
  BY <1>1 DEF ManyChunks
<1>3. \A u \in Part \ {t} : pc'[u] = pc[u] /\ chunk'[u] = chunk[u]
  BY <1>1 DEF Others, Same
<1>4. /\ current_chunk \in Nat /\ NChunks \in Nat /\ \A u \in Part : chunk[u] \in Nat
      /\ chunk'[t] \in Nat
  BY <1>1, PoolAssumption DEF PoolType
<1>5. Taking' = IF current_chunk < NChunks THEN Taking ELSE Taking \ {t}
  BY <1>1, <1>3 DEF Taking
<1>6. \A c : <<n, "chunk", c>> \in done' <=> <<n, "chunk", c>> \in done \/ c = chunk[t]
  OBVIOUS
<1>7. ASSUME NEW u \in Taking'
      PROVE  chunk'[u] < current_chunk' /\ chunk'[u] < NChunks /\ <<n, "chunk", chunk'[u]>> \notin done'
  <2>1. CASE u = t
    <3>1. chunk'[u] = current_chunk /\ current_chunk < NChunks
      BY <1>5, <1>7, <2>1
    <3>2. <<n, "chunk", current_chunk>> \notin done
      BY <1>4, <3>1 DEF ManyChunks
    <3>3. current_chunk # chunk[t]
      BY <1>2, <1>4
    <3>4. QED BY <1>4, <1>6, <3>1, <3>2, <3>3
  <2>2. CASE u # t
    <3>1. u \in Taking /\ u \in Part /\ chunk'[u] = chunk[u] /\ chunk[u] \in Nat
      BY <1>3, <1>4, <1>5, <1>7, <2>2 DEF Taking
    <3>2. chunk[u] < current_chunk /\ chunk[u] < NChunks /\ <<n, "chunk", chunk[u]>> \notin done
          /\ chunk[u] # chunk[t]
      BY <1>1, <2>2, <3>1 DEF ManyChunks
    <3>3. QED BY <1>4, <1>6, <3>1, <3>2
  <2>3. QED BY <2>1, <2>2
<1>8. ASSUME NEW u \in Taking', NEW v \in Taking', chunk'[u] = chunk'[v] PROVE u = v
  <2>1. ASSUME NEW x \in Taking', x # t
        PROVE  x \in Taking /\ chunk'[x] = chunk[x] /\ chunk'[x] # current_chunk
    <3>1. x \in Taking /\ x \in Part /\ chunk'[x] = chunk[x] /\ chunk[x] \in Nat
      BY <1>3, <1>4, <1>5, <2>1 DEF Taking
    <3>2. chunk[x] < current_chunk
      BY <3>1 DEF ManyChunks
    <3>3. QED BY <1>4, <3>1, <3>2
  <2>2. QED BY <1>8, <2>1 DEF ManyChunks
<1>9. ASSUME NEW c \in 0..NChunks-1
      PROVE  IF c < current_chunk'
             THEN <<n, "chunk", c>> \in done' \/ \E u \in Taking' : chunk'[u] = c
             ELSE <<n, "chunk", c>> \notin done'
  <2>1. CASE c < current_chunk
    <3>1. <<n, "chunk", c>> \in done \/ \E u \in Taking : chunk[u] = c
      BY <2>1 DEF ManyChunks
    <3>2. ASSUME NEW u \in Taking, u # t, chunk[u] = c PROVE \E v \in Taking' : chunk'[v] = c
      BY <1>3, <1>5, <3>2 DEF Taking
    <3>3. c < current_chunk'
      BY <1>4, <2>1
    <3>4. QED BY <1>6, <3>1, <3>2, <3>3
  <2>2. CASE c = current_chunk
    <3>1. t \in Taking' /\ c < current_chunk'
      BY <1>1, <1>4, <1>5, <2>2
    <3>2. QED BY <2>2, <3>1
  <2>3. CASE c > current_chunk
    <3>1. <<n, "chunk", c>> \notin done /\ c # chunk[t] /\ ~(c < current_chunk')
      BY <1>2, <1>4, <2>3 DEF ManyChunks
    <3>2. QED BY <1>6, <3>1
  <2>4. QED BY <1>4, <2>1, <2>2, <2>3
<1>10. ASSUME NEW u \in Part \ Taking' PROVE current_chunk' >= NChunks
  <2>1. current_chunk >= NChunks
    BY <1>4, <1>5 DEF ManyChunks
  <2>2. QED BY <1>4, <2>1
<1>11. QED BY <1>1, <1>2, <1>7, <1>8, <1>9, <1>10 DEF ManyChunks

LEMMA RunCompute ==
  ASSUME PoolType, Steady, NEW n, NEW h \in {"middle", "end"}, Running(n, h),
         NEW t \in Thread, ComputeChunk(t)
  PROVE  Running(n, h)' /\ again' = again
<1>0. pc[t] = "compute" /\ pc[t] \in EndPc \ {"spin middle", "spin end"}
  BY DEF ComputeChunk, EndPc
<1>1. /\ t \in Part /\ n \in 1..Len(Nodes) /\ n <= Len(Nodes) /\ InStep(t) /\ node[t] = n
      /\ h = "end"
  BY <1>0, InsideIs
<1> n \in Nat
  BY <1>1, NodesFacts
<1>2. Others(t)
  BY OthersSame DEF InGraph
<1>3. n_threads_cur \in Nat /\ NChunks \in Nat /\ nth[t] = n_threads_cur /\ n_threads_cur >= 1
  BY <1>1, PartFacts, PoolAssumption DEF InStep
<1>4. ChunksOf(n, n_threads_cur) = IF Many(n) THEN NChunks ELSE n_threads_cur
  BY DEF ChunksOf, Many
<1>5. /\ pc'[t] = IF Many(n) /\ current_chunk < NChunks THEN "compute" ELSE "computed"
      /\ Many(n) => chunk'[t] = current_chunk /\ current_chunk' = current_chunk + 1
      /\ ~Many(n) => current_chunk' = current_chunk
  <2>1. CASE Many(n)
    <3>1. NChunks >= 4 * n_threads_cur
      BY <2>1 DEF Many
    <3>2. ~(nth[t] >= ChunksOf(n, n_threads_cur))
      BY <1>3, <1>4, <2>1, <3>1
    <3>3. QED BY <1>1, <1>3, <1>4, <2>1, <3>2 DEF PoolType, ComputeChunk, Goto
  <2>2. CASE ~Many(n)
    BY <1>1, <1>3, <1>4, <2>2 DEF PoolType, ComputeChunk, Goto
  <2>3. QED BY <2>1, <2>2
<1>6. /\ node'[t] = n /\ nth'[t] = nth[t] /\ last'[t] = last[t]
      /\ done' = done \cup {<<n, "chunk", chunk[t]>>}
      /\ again' = (again \/ <<n, "chunk", chunk[t]>> \in done)
      /\ UNCHANGED <<n_barrier, n_barrier_passed, n_graph, n_threads_cur>>
  BY <1>1 DEF ComputeChunk, Do, barrier
<1>7. Here(n, h, t)'
  BY <1>1, <1>5, <1>6 DEF Here, InStep, EndPc, WaitPc
<1>8. BarrierInv'
  <2>1. KeepsBarrier(t)
    BY <1>0, <1>5 DEF KeepsBarrier, Waits, LastPc
  <2>2. \A u \in Part : KeepsBarrier(u)
    BY <1>2, <1>6, <2>1, OthersKeep, PartFacts DEF Others
  <2>3. QED BY <1>6, <2>2, BarrierKept DEF Running
<1>9. WorkInv(n, h) /\ IF Many(n) THEN ManyChunks(n) ELSE FewChunks(n)
  BY <1>1 DEF Running, WorkInv
<1>10. /\ IF Many(n) THEN ManyChunks(n)' ELSE FewChunks(n)'
       /\ <<n, "chunk", chunk[t]>> \notin done
  BY <1>0, <1>1, <1>2, <1>5, <1>6, <1>9, FewDone, ManyDone
<1>11. again' = again
  BY <1>6, <1>10 DEF PoolType
<1>12. WorkInv(n, h)'
  <2>1. \A m \in 1..n-1 : WorkOf(m, n_threads_cur)' = WorkOf(m, n_threads_cur)
    BY <1>6 DEF WorkOf, ChunksOf
  <2>2. \A m \in 1..n-1 : WorkOf(m, n_threads_cur) \subseteq done'
    BY <1>6, <1>9 DEF WorkInv
  <2>3. \A w \in done' : w[1] \in 1..n
    BY <1>1, <1>6, <1>9 DEF WorkInv
  <2>4. Nodes[n] = "mul_mat" => \A u \in Part' : <<n, "rows", u>> \in done'
    BY <1>1, <1>6, <1>9 DEF WorkInv, Part
  <2>5. Many(n)' <=> Many(n)
    BY <1>6 DEF Many
  <2>6. QED BY <1>1, <1>10, <2>1, <2>2, <2>3, <2>4, <2>5 DEF WorkInv
<1>13. QED BY <1>1, <1>2, <1>6, <1>7, <1>8, <1>11, <1>12, PlacesKept DEF Running, Status

-----------------------------------------------------------------------------
(* The barrier opens, and the frontier moves on.                           *)
NextN(n, h) == IF h = "middle" THEN n ELSE n + 1
NextH(n, h) == IF h = "middle" THEN "end" ELSE FirstHalf(n + 1)

LEMMA AllDone ==
  ASSUME PoolType, Steady, NEW n \in 1..Len(Nodes), WorkInv(n, "end"),
         \A u \in Part : PastCompute(u)
  PROVE  WorkOf(n, n_threads_cur) \subseteq done
<1>1. 0 \in Part /\ Part = 0..n_threads_cur-1 /\ n_threads_cur \in Nat /\ NChunks \in Nat
  BY PartFacts, PoolAssumption DEF Part
<1>2. /\ Nodes[n] = "mul_mat" => \A u \in Part : <<n, "rows", u>> \in done
      /\ IF Many(n) THEN ManyChunks(n) ELSE FewChunks(n)
  BY NodesFacts DEF WorkInv
<1>3. Taking = {}
  BY DEF PastCompute, Taking
<1>4. \A c \in 0..ChunksOf(n, n_threads_cur)-1 : <<n, "chunk", c>> \in done
  <2>1. CASE Many(n)
    <3>1. current_chunk >= NChunks /\ current_chunk \in Nat
      BY <1>1, <1>2, <1>3, <2>1 DEF ManyChunks, PoolType
    <3>2. \A c \in 0..NChunks-1 : c < current_chunk
      BY <1>1, <3>1
    <3>3. \A c \in 0..NChunks-1 : <<n, "chunk", c>> \in done
      BY <1>2, <1>3, <2>1, <3>2 DEF ManyChunks
    <3>4. QED BY <2>1, <3>3 DEF ChunksOf, Many
  <2>2. CASE ~Many(n)
    <3>1. ChunksOf(n, n_threads_cur) = n_threads_cur
      BY <2>2 DEF ChunksOf, Many
    <3>2. QED BY <1>1, <1>2, <2>2, <3>1 DEF FewChunks
  <2>3. QED BY <2>1, <2>2
<1>5. QED BY <1>1, <1>2, <1>4 DEF WorkOf

(* Thread u has done its work of the half, and leaves the barrier after it *)
(* or is free to.                                                          *)
Through(h, u) == IF h = "middle" THEN pc[u] \in PastPrepare ELSE PastCompute(u)

Freed(h, u) == IF h = "middle" THEN pc'[u] \in {"compute", "spin middle"}
               ELSE pc'[u] = "node" \/ (pc'[u] = "spin end" /\ ~Waits(u)')

LEMMA WorkAdvances ==
  ASSUME PoolType, Steady, NEW n \in 1..Len(Nodes), NEW h \in {"middle", "end"}, WorkInv(n, h),
         h = "middle" => Nodes[n] = "mul_mat",
         UNCHANGED <<done, current_chunk, chunk, n_threads_cur>>,
         \A u \in Part : Through(h, u) /\ Freed(h, u)
  PROVE  WorkInv(NextN(n, h), NextH(n, h))'
<1>1. Part' = Part /\ 0 \in Part /\ Part \subseteq Thread
  BY PartFacts DEF Part
<1>0. n_threads_cur \in Nat /\ NChunks \in Nat /\ n \in Nat /\ n <= Len(Nodes) /\ Len(Nodes) \in Nat
  BY PartFacts, PoolAssumption, NodesFacts
<1>2. \A m : WorkOf(m, n_threads_cur)' = WorkOf(m, n_threads_cur)
  BY DEF WorkOf, ChunksOf
<1>3. CASE h = "middle"
  <2>0. \A u \in Part : pc[u] \in PastPrepare /\ pc'[u] \in {"compute", "spin middle"}
    BY <1>3 DEF Through, Freed
  <2>1. MiddleWork(n)
    BY <1>3 DEF WorkInv
  <2>2. \A c : <<n, "chunk", c>> \notin done
    <3>1. ASSUME NEW c, <<n, "chunk", c>> \in done PROVE FALSE
      <4>1. <<n, "chunk", c>>[1] = n /\ <<n, "chunk", c>>[2] = "chunk"
        OBVIOUS
      <4>2. QED BY <2>1, <3>1, <4>1 DEF MiddleWork
    <3>2. QED BY <3>1
  <2>3. \A u \in Part : <<n, "rows", u>> \in done /\ chunk[u] = u
    BY <1>3, <2>0, <2>1 DEF MiddleWork, PastPrepare
  <2>4. current_chunk = n_threads_cur
    BY <1>1, <1>3, <2>0, <2>1 DEF MiddleWork
  <2>5. ASSUME ~Many(n) PROVE FewChunks(n)'
    BY <1>1, <1>3, <2>0, <2>2, <2>3 DEF FewChunks, PastCompute
  <2>6. ASSUME Many(n) PROVE ManyChunks(n)'
    <3>1. n_threads_cur < NChunks
      <4>1. NChunks >= 4 * n_threads_cur
        BY <2>6 DEF Many
      <4>2. n_threads_cur >= 1
        BY PartFacts
      <4>3. QED BY <1>0, <4>1, <4>2
    <3>2. Taking' = Part
      BY <1>1, <1>3, <2>0 DEF Taking
    <3>3. \A u \in Part : chunk'[u] = u /\ u < n_threads_cur /\ u < NChunks
      <4>1. \A u \in Part : u < n_threads_cur /\ u < NChunks
        BY <1>0, <3>1 DEF Part
      <4>2. QED BY <2>3, <4>1
    <3>4. \A c \in 0..NChunks-1 : c < n_threads_cur => c \in Part
      BY <1>0 DEF Part
    <3>5. QED BY <1>0, <1>1, <2>2, <2>4, <3>2, <3>3, <3>4 DEF ManyChunks
  <2>7. Many(n)' <=> Many(n)
    BY DEF Many
  <2>8. WorkInv(n, "end")'
    BY <1>1, <1>2, <1>3, <2>3, <2>5, <2>6, <2>7 DEF WorkInv
  <2>9. QED BY <1>3, <2>8 DEF NextN, NextH
<1>4. CASE h = "end"
  <2> \A u \in Part : PastCompute(u)
    BY <1>4 DEF Through
  <2>1. WorkOf(n, n_threads_cur) \subseteq done
    BY <1>4, AllDone
  <2>2. \A m \in 1..(n+1)-1 : WorkOf(m, n_threads_cur) \subseteq done
    BY <1>0, <1>4, <2>1 DEF WorkInv
  <2>3. \A k, c : <<n+1, k, c>> \notin done
    <3>1. ASSUME NEW k, NEW c, <<n+1, k, c>> \in done PROVE FALSE
      <4>1. <<n+1, k, c>>[1] = n + 1
        OBVIOUS
      <4>2. n + 1 \in 1..n
        BY <3>1, <4>1 DEF WorkInv
      <4>3. QED BY <1>0, <4>2
    <3>2. QED BY <3>1
  <2>4. \A w \in done : w[1] \in 1..n+1
    <3>1. \A w \in done : w[1] \in 1..n
      BY DEF WorkInv
    <3>2. \A x \in 1..n : x \in 1..n+1
      BY <1>0
    <3>3. QED BY <3>1, <3>2
  <2>5. \A u \in Part : /\ pc'[u] \notin MiddlePc \cup {"compute"} /\ ~PastCompute(u)'
    BY <1>4 DEF Freed, MiddlePc, PastCompute
  <2>6. CASE FirstHalf(n+1) = "middle"
    <3>1. MiddleWork(n+1)'
      <4>1. \A w \in done : w[1] = n+1 => w[2] = "rows"
        <5>1. n + 1 \notin 1..n
          BY <1>0
        <5>2. QED BY <5>1 DEF WorkInv
      <4>2. QED BY <1>1, <2>3, <2>5, <4>1 DEF MiddleWork, PastPrepare
    <3>2. WorkInv(n+1, "middle")'
      BY <1>2, <2>2, <2>4, <3>1 DEF WorkInv
    <3>3. QED BY <1>4, <2>6, <3>2 DEF NextN, NextH
  <2>7. CASE FirstHalf(n+1) = "end"
    <3>1. n+1 <= Len(Nodes) => Nodes[n+1] # "mul_mat"
      BY <2>7 DEF FirstHalf
    <3>2. FewChunks(n+1)'
      BY <1>1, <2>3, <2>5 DEF FewChunks, MiddlePc
    <3>3. WorkInv(n+1, "end")'
      BY <1>2, <2>2, <2>4, <3>1, <3>2 DEF WorkInv, Many
    <3>4. QED BY <1>4, <2>7, <3>3 DEF NextN, NextH
  <2>8. QED BY <2>6, <2>7 DEF FirstHalf
<1>5. QED BY <1>3, <1>4

(* All who wait are at the frontier.                                       *)
LEMMA WaitersHere ==
  ASSUME PoolType, Steady, NEW n, NEW h \in {"middle", "end"}, Running(n, h), NEW u \in Part, Waits(u)
  PROVE  /\ InStep(u) /\ node[u] = n /\ pc[u] = Spin[h] /\ Through(h, u)
<1>1. u \in Thread /\ ~Out(u)
  BY PartFacts, OutIdle
<1>2. ~Behind(n, h, u)
  BY ThreadTypes, <1>1, LessDiffers DEF Behind, Waits
<1>3. Here(n, h, u)
  BY <1>1, <1>2, Participant DEF Waits
<1>4. pc[u] = Spin[h]
  BY <1>3, PcNames DEF Here, Waits, MiddlePc, EndPc
<1>5. QED BY <1>3, <1>4, PcNames DEF Here, Through, PastPrepare, MiddlePc, PastCompute

(* The last thread to arrive opens the barrier, or there is no other.       *)
AllGo(t) ==
  \/ Part = {t} /\ n_barrier_passed' = n_barrier_passed
  \/ (\A u \in Part \ {t} : Waits(u)) /\ n_barrier_passed' = n_barrier_passed + 1

LEMMA UpByOne ==
  /\ \A a \in Nat : a < a + 1 /\ a # a + 1
  /\ \A a, b \in Nat : (a < b => a < b + 1) /\ (a + 1 = b + 1 => a = b)
  /\ \A l \in Nat : \A k \in 1..l : k \in 1..l+1 /\ k + 1 \in 1..l+1
OBVIOUS

LEMMA Advance ==
  ASSUME PoolType, PoolType', Steady, NEW n, NEW h \in {"middle", "end"}, Running(n, h),
         NEW t \in Thread, Others(t), Leave(t, h),
         pc[t] \in (MiddlePc \cup EndPc) \ {"spin middle", "spin end"}, Through(h, t),
         AllGo(t), n_barrier' = 0,
         UNCHANGED <<last, nth, chunk, seen, done, current_chunk>>
  PROVE  Running(NextN(n, h), NextH(n, h))'
<1>1. /\ t \in Part /\ n \in 1..Len(Nodes) /\ n <= Len(Nodes) /\ InStep(t) /\ node[t] = n
      /\ pc[t] \in MiddlePc => h = "middle" /\ Nodes[n] = "mul_mat"
      /\ pc[t] \in EndPc => h = "end"
  BY InsideIs
<1>2. /\ Part' = Part /\ Part \subseteq Thread /\ 0 \in Part
      /\ n_graph' = n_graph /\ n_threads_cur' = n_threads_cur
  BY PartFacts DEF Part, Others
<1>3. n_barrier_passed \in Nat /\ n \in Nat /\ Len(Nodes) \in Nat
  BY ThreadTypes, <1>1, NodesFacts
<1>4. /\ pc'[t] = IF h = "middle" THEN "compute" ELSE "node"
      /\ node'[t] = IF h = "middle" THEN n ELSE n + 1
  BY <1>1 DEF PoolType, Leave, Goto
<1>5. ASSUME NEW u \in Part \ {t}
      PROVE  /\ InStep(u) /\ node[u] = n /\ pc[u] = Spin[h] /\ Through(h, u)
             /\ Same(u) /\ Waits(u) /\ n_barrier_passed' = n_barrier_passed + 1 /\ ~Waits(u)'
             /\ seen'[u].passed < n_barrier_passed'
  <2>1. Waits(u) /\ n_barrier_passed' = n_barrier_passed + 1
    BY DEF AllGo
  <2>2. InStep(u) /\ node[u] = n /\ pc[u] = Spin[h] /\ Through(h, u) /\ Same(u)
    BY <1>2, <2>1, WaitersHere DEF Others
  <2>3. seen'[u].passed = n_barrier_passed
    BY <2>1, <2>2 DEF Waits, Same
  <2>4. n_barrier_passed < n_barrier_passed + 1 /\ n_barrier_passed # n_barrier_passed + 1
    BY <1>3, UpByOne
  <2>5. QED BY <2>1, <2>2, <2>3, <2>4 DEF Waits
<1>6. Frontier(NextN(n, h), NextH(n, h))
  BY <1>1, <1>3, UpByOne DEF Frontier, NextN, NextH
<1>7. ASSUME NEW u \in Thread \ Part PROVE Out(u)'
  <2>1. Out(u) /\ Same(u)
    BY <1>1 DEF Running, Others
  <2>2. pc[u] = "spin end" => seen[u].passed < n_barrier_passed'
    <3>1. pc[u] = "spin end" => seen[u].passed < n_barrier_passed
      BY <2>1 DEF Out
    <3>2. seen[u].passed \in Nat
      BY ThreadTypes
    <3>3. n_barrier_passed' = n_barrier_passed \/ n_barrier_passed' = n_barrier_passed + 1
      BY DEF AllGo
    <3>4. QED BY <1>3, <3>1, <3>2, <3>3, UpByOne
  <2>3. QED BY <2>1, <2>2 DEF Out, OnItsWayOut, Same
<1>8. InStep(t)' /\ \A u \in Part \ {t} : InStep(u)'
  BY <1>1, <1>2, <1>5 DEF InStep
<1>9. Status(NextN(n, h), NextH(n, h), t)'
  BY <1>1, <1>4, <1>8 DEF Status, Here, NextN, NextH, FirstHalf, WaitPc, EndPc
<1>10. ASSUME NEW u \in Part \ {t} PROVE Status(NextN(n, h), NextH(n, h), u)'
  <2>1. pc'[u] = Spin[h] /\ node'[u] = n /\ seen'[u].passed < n_barrier_passed' /\ InStep(u)'
    BY <1>5, <1>8 DEF Same
  <2>2. CASE h = "middle"
    BY <1>1, <2>1, <2>2, PcNames DEF Status, Behind, NextN, NextH
  <2>3. CASE h = "end"
    BY <1>1, <2>1, <2>3, PcNames DEF Status, Behind, NextN, NextH, FirstHalf
  <2>4. QED BY <2>2, <2>3
<1>11. BarrierInv'
  <2>1. \A u \in Part : ~Waits(u)' /\ pc'[u] \notin LastPc
    <3>1. ~Waits(t)' /\ pc'[t] \notin LastPc
      BY <1>4 DEF Waits, LastPc
    <3>2. \A u \in Part \ {t} : ~Waits(u)' /\ pc'[u] \notin LastPc
      BY <1>5, PcNames DEF Same, LastPc
    <3>3. QED BY <3>1, <3>2
  <2>2. Spinning' = {}
    BY <1>2, <2>1 DEF Spinning
  <2>3. Cardinality({}) = 0
    BY FS_EmptySet
  <2>4. QED BY <1>2, <2>1, <2>2, <2>3 DEF BarrierInv, Counted, LastPc
<1>12. WorkInv(NextN(n, h), NextH(n, h))'
  <2>1. WorkInv(n, h)
    BY DEF Running
  <2>2. h = "middle" => Nodes[n] = "mul_mat"
    BY <1>1 DEF Running, Frontier, FirstHalf
  <2>3. ASSUME NEW u \in Part PROVE Through(h, u) /\ Freed(h, u)
    <3>1. CASE u = t
      BY <1>4, <3>1 DEF Freed
    <3>2. CASE u # t
      <4>1. Through(h, u) /\ Same(u) /\ pc[u] = Spin[h] /\ ~Waits(u)'
        BY <1>5, <3>2
      <4>2. QED BY <4>1, PcNames DEF Freed, Same
    <3>3. QED BY <3>1, <3>2
  <2>4. QED BY <1>1, <1>2, <2>1, <2>2, <2>3, WorkAdvances
<1>13. QED BY <1>2, <1>6, <1>7, <1>9, <1>10, <1>11, <1>12 DEF Running, Frontier, FirstHalf, Thread


LEMMA RunOpen ==
  ASSUME PoolType, PoolType', Steady, NEW n, NEW h \in {"middle", "end"}, Running(n, h),
         NEW t \in Thread, NEW w \in {"middle", "end"}, OpenBarrier(t, w)
  PROVE  Running(NextN(n, h), NextH(n, h))'
<1>0. /\ pc[t] = Open[w] /\ pc[t] \in (MiddlePc \cup EndPc) \ {"spin middle", "spin end"}
      /\ pc[t] \in LastPc /\ pc[t] \in {"open middle", "open end"}
      /\ Through(w, t)
      /\ w = "middle" => pc[t] \in MiddlePc
      /\ w = "end" => pc[t] \in EndPc
  <2>1. CASE w = "middle"
    BY <2>1, PcNames DEF OpenBarrier, MiddlePc, EndPc, LastPc, Through, PastPrepare
  <2>2. CASE w = "end"
    BY <2>2, PcNames DEF OpenBarrier, MiddlePc, EndPc, LastPc, Through, PastCompute
  <2>3. QED BY <2>1, <2>2
<1>1. t \in Part /\ h = w
  BY <1>0, InsideIs
<1>2. LastOne(t) /\ n_barrier = 0
  <2>1. ~Counted
    BY <1>0, <1>1 DEF Counted, LastPc
  <2>2. ASSUME NEW o \in Part, LastOne(o) PROVE o = t
    BY <1>0, <1>1, <2>2 DEF LastOne, Waits
  <2>3. LastOne(t)
    BY <2>1, <2>2 DEF Running, BarrierInv
  <2>4. QED BY <1>0, <2>3 DEF LastOne
<1>3. AllGo(t)
  BY <1>2 DEF AllGo, LastOne, OpenBarrier
<1>4. Others(t)
  BY OthersSame DEF InGraph, Barrier
<1>5. Leave(t, h) /\ n_barrier' = 0 /\ UNCHANGED <<last, nth, chunk, seen, done, current_chunk>>
  BY <1>1, <1>2 DEF OpenBarrier, work
<1>6. QED BY <1>0, <1>1, <1>3, <1>4, <1>5, Advance

LEMMA RunEnterAlone ==
  ASSUME PoolType, PoolType', Steady, NEW n, NEW h \in {"middle", "end"}, Running(n, h),
         NEW t \in Thread, NEW w \in {"middle", "end"}, EnterBarrier(t, w), n_threads_cur = 1
  PROVE  Running(NextN(n, h), NextH(n, h))'
<1>0. /\ pc[t] = Enter[w] /\ pc[t] \in (MiddlePc \cup EndPc) \ {"spin middle", "spin end"}
      /\ ~Waits(t) /\ pc[t] \notin LastPc
      /\ Through(w, t)
      /\ w = "middle" => pc[t] \in MiddlePc
      /\ w = "end" => pc[t] \in EndPc
  <2>1. CASE w = "middle"
    BY <2>1, PcNames DEF EnterBarrier, MiddlePc, EndPc, LastPc, Through, PastPrepare, Waits
  <2>2. CASE w = "end"
    BY <2>2, PcNames DEF EnterBarrier, MiddlePc, EndPc, LastPc, Through, PastCompute, Waits
  <2>3. QED BY <2>1, <2>2
<1>1. t \in Part /\ h = w
  BY <1>0, InsideIs
<1>2. Part = {t}
  <2>1. Part = 0..0
    BY DEF Part
  <2>2. 0..0 = {0}
    OBVIOUS
  <2>3. QED BY <1>1, <2>1, <2>2
<1>3. n_barrier = 0
  <2>1. ~LastOne(t)
    BY <1>0 DEF LastOne, LastPc
  <2>2. Counted
    BY <1>2, <2>1 DEF Running, BarrierInv
  <2>3. Spinning = {} /\ Cardinality({}) = 0
    BY <1>0, <1>2, FS_EmptySet DEF Spinning
  <2>4. QED BY <2>2, <2>3 DEF Counted
<1>4. AllGo(t)
  BY <1>2 DEF AllGo, EnterBarrier, barrier
<1>5. Others(t)
  BY OthersSame DEF InGraph, Barrier
<1>6. Leave(t, h) /\ n_barrier' = 0 /\ UNCHANGED <<last, nth, chunk, seen, done, current_chunk>>
  BY <1>1, <1>3 DEF EnterBarrier, barrier, work
<1>7. QED BY <1>0, <1>1, <1>4, <1>5, <1>6, Advance


(* A step of a thread of the graph, but for the one with which thread 0    *)
(* returns.                                                                *)
LEMMA RunInGraph ==
  ASSUME PoolType, Steady, NEW n, NEW h \in {"middle", "end"}, Running(n, h),
         NEW t \in Thread, InGraph(t), t = 0 \/ ~Out(t), t = 0 => pc[0] \notin CallerPc,
         NextNode(t) => n <= Len(Nodes)
  PROVE  PoolType' /\ \E m, g : g \in {"middle", "end"} /\ Running(m, g)'
<1>1. ASSUME NEW w \in {"middle", "end"}, Barrier(t, w) PROVE again' = again
  BY <1>1 DEF Barrier, EnterBarrier, ArriveAtBarrier, ResetBarrier, OpenBarrier, LeaveBarrier, work
<1>2. again' = again
  BY <1>1, RunPrepare, RunCompute DEF InGraph, Begin, NextNode, EndNode, work
<1>3. PoolType'
  BY <1>2, TypeInGraph
<1>4. ASSUME NEW w \in {"middle", "end"}, Barrier(t, w)
      PROVE  Running(n, h)' \/ Running(NextN(n, h), NextH(n, h))'
  <2>1. CASE EnterBarrier(t, w)
    BY <1>3, <2>1, RunEnter, RunEnterAlone
  <2>2. CASE ArriveAtBarrier(t, w)
    BY <2>2, RunArrive
  <2>3. CASE ResetBarrier(t, w)
    BY <2>3, RunReset
  <2>4. CASE OpenBarrier(t, w)
    BY <1>3, <2>4, RunOpen
  <2>5. CASE LeaveBarrier(t, w)
    BY <2>5, RunLeave
  <2>6. QED BY <1>4, <2>1, <2>2, <2>3, <2>4, <2>5 DEF Barrier
<1>5. Running(n, h)' \/ Running(NextN(n, h), NextH(n, h))'
  BY <1>4, RunBegin, RunNextNode, RunPrepare, RunCompute, RunEndNode DEF InGraph
<1>6. NextH(n, h) \in {"middle", "end"}
  BY DEF NextH, FirstHalf
<1>7. QED BY <1>3, <1>5, <1>6

-----------------------------------------------------------------------------
(* Thread 0 returns.                                                       *)
LEMMA RunReturn ==
  ASSUME PoolType, Steady, NEW n, NEW h \in {"middle", "end"}, Running(n, h),
         NextNode(0), ~(n <= Len(Nodes))
  PROVE  PoolType' /\ Resting'
<1>0. /\ 0 \in Thread /\ Part \subseteq Thread /\ Others(0) /\ pc[0] = "node"
      /\ Part' = Part /\ pc[0] \notin CallerPc
  BY PartFacts, OthersSame DEF NextNode, InGraph, CallerPc, Others, Part
<1>1. node[0] = n /\ n \in 1..Len(Nodes)+1 /\ Len(Nodes) \in Nat /\ Len(Nodes) >= 1
  BY <1>0, NodeIs, NodesFacts DEF Running, Frontier
<1>2. n = Len(Nodes) + 1 /\ n # 1 /\ n > Len(Nodes) /\ node[0] > Len(Nodes)
  BY <1>1
<1>3. pc'[0] = "idle" /\ UNCHANGED <<n_graph, n_threads_cur, n_barrier, n_barrier_passed, again>>
  BY <1>0, <1>2 DEF PoolType, NextNode, Goto, barrier, work
<1>4. ASSUME NEW u \in Part \ {0} PROVE Gone(u)
  <2>1. u \in Thread /\ node[u] \in Nat
    BY <1>0, ThreadTypes
  <2>2. Status(n, h, u) /\ ~NotYet(n, h, u)
    BY <1>2 DEF Running, NotYet
  <2>3. CASE Here(n, h, u)
    BY <1>2, <2>3 DEF Here, InStep, Gone, Out, OnItsWayOut
  <2>4. CASE Behind(n, h, u)
    <3>1. pc[u] = "spin end" /\ node[u] + 1 = n /\ InStep(u) /\ seen[u].passed < n_barrier_passed
      BY <1>2, <2>4 DEF Behind
    <3>2. node[u] = Len(Nodes)
      BY <1>1, <1>2, <2>1, <3>1, UpByOne
    <3>3. QED BY <3>1, <3>2 DEF InStep, Gone, Out, OnItsWayOut
  <2>5. QED BY <2>2, <2>3, <2>4 DEF Status
<1>5. ASSUME NEW u \in Thread \ {0} PROVE Out(u)' /\ (u \in Part => Gone(u)')
  <2>1. Out(u) /\ (u \in Part => Gone(u)) /\ Same(u)
    BY <1>0, <1>4 DEF Running, Gone, Others
  <2>2. QED BY <1>3, <2>1, StatusKept
<1>6. n_barrier = 0
  <2>1. \A u \in Part : ~Waits(u) /\ pc[u] \notin LastPc
    <3>1. ~Waits(0) /\ pc[0] \notin LastPc
      BY <1>0 DEF Waits, LastPc
    <3>2. QED BY <1>0, <1>4, <3>1, OutIdle DEF Gone
  <2>2. Counted
    BY <2>1 DEF Running, BarrierInv, LastOne, LastPc
  <2>3. Spinning = {} /\ Cardinality({}) = 0
    BY <2>1, FS_EmptySet DEF Spinning
  <2>4. QED BY <2>2, <2>3 DEF Counted
<1>7. PoolType'
  BY <1>0, <1>3, TypeInGraph DEF InGraph
<1>8. QED BY <1>0, <1>3, <1>5, <1>6, <1>7 DEF Resting, CallerPc

-----------------------------------------------------------------------------
(* Between two graphs.                                                     *)
LEMMA RestOther ==
  ASSUME PoolType, Steady, Resting, NEW t \in Thread \ {0}, Wait(t) \/ InGraph(t)
  PROVE  PoolType' /\ Resting'
<1>1. Out(t) /\ (t \in Part => Gone(t))
  BY DEF Resting
<1>2. Moves(t) /\ UNCHANGED <<barrier, current_chunk, work>>
  BY <1>1, WaitMoves, LeaveMoves
<1>3. Others(t) /\ 0 \in Thread
  BY OthersSame, PartFacts
<1>4. PoolType'
  BY <1>2, TypeWait, TypeInGraph DEF work
<1>5. Part' = Part /\ n_graph' = n_graph /\ n_threads_cur' = n_threads_cur
  BY <1>3 DEF Others, Part
<1>6. ASSUME NEW u \in Thread \ {0} PROVE Out(u)' /\ (u \in Part => Gone(u)')
  <2>1. CASE u = t
    BY <1>1, <1>2, <2>1 DEF Moves, Gone
  <2>2. CASE u # t
    <3>1. Same(u) /\ Out(u) /\ (u \in Part => Gone(u))
      BY <1>3, <2>2 DEF Others, Resting
    <3>2. QED BY <1>2, <1>5, <3>1, StatusKept DEF barrier
  <2>3. QED BY <2>1, <2>2
<1>7. pc'[0] = pc[0] /\ nth'[0] = nth[0]
  BY <1>3 DEF Others, Same
<1>8. QED BY <1>2, <1>4, <1>5, <1>6, <1>7 DEF Resting, barrier, work


LEMMA BroadcastOut ==
  ASSUME PoolType, NEW p \in CallerPc \cup {"begin"}, Broadcast(0, p),
         UNCHANGED <<last, node, seen, n_barrier_passed>>, NEW u \in Thread \ {0}, Out(u)
  PROVE  Out(u)' /\ (Gone(u) => pc'[u] # "new graph" /\ (n_graph' = n_graph => Gone(u)'))
<1>1. /\ pc[u] \in OutsidePc <=> pc'[u] \in OutsidePc
      /\ pc[u] = "new graph" <=> pc'[u] = "new graph"
      /\ pc[u] \notin OutsidePc => pc'[u] = pc[u]
  BY BroadcastMoves
<1>2. Out(u)'
  <2>1. CASE pc[u] \in OutsidePc
    BY <1>1, <2>1, OutsideOut
  <2>2. CASE pc[u] \notin OutsidePc
    BY <1>1, <2>2 DEF Out, OnItsWayOut
  <2>3. QED BY <2>1, <2>2
<1>3. QED BY <1>1, <1>2 DEF Gone

(* Pause, Resume and Free.                                                 *)
LEMMA RestBroadcast ==
  ASSUME PoolType, Steady, Resting, NEW p \in {"idle", "join"}, Broadcast(0, p),
         UNCHANGED <<locals, n_graph, n_threads_cur, barrier, current_chunk, abort, work>>
  PROVE  PoolType' /\ Resting'
<1> USE DEF locals, barrier, work
<1>1. p \in CallerPc /\ p # "kickoff" /\ p \notin OutsidePc
  BY DEF CallerPc, OutsidePc
<1>2. /\ pc' \in [Thread -> OutsidePc \cup CallerPc \cup MiddlePc \cup EndPc \cup {"begin", "node"}]
      /\ pc'[0] = p /\ \A t \in Thread \ {0} : pc'[t] \notin CallerPc
  BY <1>1, BroadcastMoves
<1>3. PoolType'
  BY <1>1, <1>2 DEF PoolType
<1>4. \A u \in Thread \ {0} : Out(u)' /\ (u \in Part => Gone(u)')
  BY <1>1, BroadcastOut DEF Resting
<1>5. Part' = Part
  BY DEF Part
<1>6. QED BY <1>1, <1>2, <1>3, <1>4, <1>5 DEF Resting

LEMMA RestCompute ==
  ASSUME PoolType, Steady, Resting, NEW k \in 1..N, Compute(k)
  PROVE  PoolType' /\ Resting'
<1>1. /\ 0 \in Thread /\ pc[0] = "idle" /\ pc'[0] = "kickoff" /\ k <= n_threads_cur
      /\ nth'[0] = k /\ done' = {}
      /\ UNCHANGED <<last, node, chunk, seen, n_graph, n_threads_cur, n_barrier, n_barrier_passed,
                     again>>
  BY PartFacts DEF PoolType, Compute, Goto, Steady, barrier
<1>2. \A u \in Thread \ {0} : pc'[u] = pc[u]
  BY DEF PoolType, Compute, Goto
<1>3. PoolType'
  <2>1. pc' \in [Thread -> OutsidePc \cup CallerPc \cup MiddlePc \cup EndPc \cup {"begin", "node"}]
    BY DEF PoolType, Compute, Goto, CallerPc
  <2>2. nth' \in [Thread -> 1..N] /\ current_chunk' = 0 /\ abort' = FALSE
    BY DEF PoolType, Compute
  <2>3. pc'[0] \notin OutsidePc
    BY <1>1 DEF OutsidePc
  <2>4. QED BY <1>1, <1>2, <2>1, <2>2, <2>3 DEF PoolType
<1>4. \A u \in Thread \ {0} : (Out(u)' <=> Out(u)) /\ (Gone(u)' <=> Gone(u))
  BY <1>1, <1>2 DEF Gone, Out, OnItsWayOut
<1>5. Part' = Part
  BY <1>1 DEF Part
<1>6. QED BY <1>1, <1>3, <1>4, <1>5 DEF Resting, CallerPc

(* A graph starts, with no more threads than the last one had.             *)
LEMMA RestKickoff ==
  ASSUME PoolType, Steady, Resting, Kickoff
  PROVE  PoolType' /\ Running(1, FirstHalf(1))'
<1>0. /\ 0 \in Thread /\ Part \subseteq Thread /\ pc[0] = "kickoff" /\ nth[0] <= n_threads_cur
      /\ done = {} /\ done' = {} /\ again' = again /\ n_barrier = 0 /\ n_barrier' = 0
      /\ nth[0] \in 1..N /\ n_threads_cur \in 1..N /\ n_graph \in Nat /\ N \in Nat
  BY PartFacts DEF PoolType, Resting, Kickoff, barrier, work
<1>1. /\ n_threads_cur' = nth[0] /\ n_graph' = n_graph + 1 /\ abort' = abort
      /\ UNCHANGED <<last, node, nth, chunk, seen, n_barrier, n_barrier_passed, current_chunk>>
  BY DEF Kickoff, locals, barrier
<1>2. /\ pc' \in [Thread -> OutsidePc \cup CallerPc \cup MiddlePc \cup EndPc \cup {"begin", "node"}]
      /\ pc'[0] = "begin" /\ \A t \in Thread \ {0} : pc'[t] \notin CallerPc
  BY BroadcastMoves DEF Kickoff
<1>3. PoolType'
  <2>1. n_graph' \in Nat /\ \A u \in Thread : last'[u] <= n_graph'
    <3>1. ASSUME NEW u \in Thread PROVE last[u] <= n_graph + 1
      <4>1. last[u] \in Nat /\ last[u] <= n_graph
        BY ThreadTypes
      <4>2. QED BY <1>0, <4>1
    <3>2. QED BY <1>0, <1>1, <3>1
  <2>2. pc'[0] \notin OutsidePc
    BY <1>2 DEF OutsidePc
  <2>3. QED BY <1>0, <1>1, <1>2, <2>1, <2>2 DEF PoolType
<1>4. Part' \subseteq Part /\ 0 \in Part' /\ Thread' = Thread
  <2>1. n_threads_cur' <= n_threads_cur /\ n_threads_cur' >= 1 /\ n_threads_cur' \in Nat
    BY <1>0, <1>1
  <2>2. n_threads_cur \in Nat
    BY <1>0
  <2>3. \A a, b \in Nat : a >= 1 /\ a <= b => 0..a-1 \subseteq 0..b-1 /\ 0 \in 0..a-1
    OBVIOUS
  <2>4. Thread' = Thread
    BY DEF Thread
  <2>5. QED BY <2>1, <2>2, <2>3, <2>4 DEF Part
<1>5. ASSUME NEW u \in Thread \ {0}
      PROVE  Out(u)' /\ (u \in Part' => Ready(u)')
  <2>1. Out(u)' /\ (Gone(u) => pc'[u] # "new graph")
    BY <1>1, BroadcastOut DEF Resting, Kickoff
  <2>2. ASSUME u \in Part' PROVE Ready(u)'
    <3>1. Gone(u)
      BY <1>4, <2>2 DEF Resting
    <3>2. last'[u] = n_graph /\ n_graph' # n_graph
      BY <1>0, <1>1, <3>1, UpByOne DEF Gone
    <3>3. QED BY <2>1, <3>1, <3>2 DEF Ready
  <2>3. QED BY <2>1, <2>2
<1>6. ASSUME NEW u \in Part' PROVE Status(1, FirstHalf(1), u)'
  <2>1. CASE u = 0
    BY <1>2, <2>1 DEF Status, NotYet, FirstHalf
  <2>2. CASE u # 0
    <3>1. Out(u)' /\ Ready(u)'
      BY <1>0, <1>4, <1>5, <1>6, <2>2
    <3>2. QED BY <2>2, <3>1 DEF Status, NotYet, FirstHalf
  <2>3. QED BY <2>1, <2>2
<1>7. ASSUME NEW u \in Part'
      PROVE  /\ ~Waits(u)' /\ ~PastCompute(u)'
             /\ pc'[u] \notin LastPc \cup MiddlePc \cup {"compute"}
  <2>1. CASE u = 0
    BY <1>2, <2>1 DEF Waits, PastCompute, LastPc, MiddlePc
  <2>2. CASE u # 0
    <3>1. u \in Thread \ {0} /\ seen'[u].passed \in Nat /\ n_barrier_passed' \in Nat
      BY <1>0, <1>3, <1>4, <2>2 DEF PoolType
    <3>2. QED BY <1>5, <3>1, OutIdleNext
  <2>3. QED BY <2>1, <2>2
<1>8. BarrierInv'
  <2>1. Spinning' = {} /\ Cardinality({}) = 0
    BY <1>7, FS_EmptySet DEF Spinning
  <2>2. QED BY <1>0, <1>4, <1>7, <2>1 DEF BarrierInv, Counted, LastPc
<1>9. WorkInv(1, FirstHalf(1))'
  <2>1. 1..1-1 = {}
    OBVIOUS
  <2>2. MiddleWork(1)'
    BY <1>0, <1>4, <1>7 DEF MiddleWork, PastPrepare
  <2>3. FewChunks(1)'
    BY <1>0, <1>7 DEF FewChunks, MiddlePc
  <2>4. FirstHalf(1) = "end" /\ 1 <= Len(Nodes) => Nodes[1] # "mul_mat" /\ ~Many(1)'
    BY DEF FirstHalf, Many
  <2>5. QED BY <1>0, <2>1, <2>2, <2>3, <2>4 DEF WorkInv, FirstHalf
<1>10. Frontier(1, FirstHalf(1))'
  BY NodesFacts DEF Frontier, FirstHalf
<1>11. QED BY <1>3, <1>4, <1>5, <1>6, <1>8, <1>9, <1>10 DEF Running, FirstHalf


-----------------------------------------------------------------------------
(* The invariant.                                                          *)
LEMMA PoolInit == Init => PoolInv
<1> SUFFICES ASSUME Init PROVE PoolInv
  OBVIOUS
<1>1. PoolType
  BY TypeInit
<1>2. 0 \in Thread
  BY <1>1, PartFacts
<1>3. pc[0] = "idle" /\ n_barrier = 0
  BY <1>2 DEF Init
<1>4. ASSUME NEW t \in Thread \ {0} PROVE Out(t) /\ Gone(t)
  BY DEF Init, Gone, Out, OnItsWayOut
<1>5. QED BY <1>1, <1>3, <1>4 DEF PoolInv, Resting, CallerPc

LEMMA PoolRest ==
  ASSUME PoolType, Steady, Resting, Next
  PROVE  PoolInv'
<1>1. ASSUME NEW t \in Thread \ {0}, Wait(t) \/ InGraph(t) PROVE PoolInv'
  BY <1>1, RestOther DEF PoolInv
<1>2. ASSUME Kickoff PROVE PoolInv'
  <2>1. PoolType' /\ Running(1, FirstHalf(1))'
    BY <1>2, RestKickoff
  <2>2. FirstHalf(1) \in {"middle", "end"} /\ 1 \in 1..Len(Nodes)+1
    BY NodesFacts DEF FirstHalf
  <2>3. QED BY <2>1, <2>2 DEF PoolInv
<1>3. ASSUME Join PROVE PoolInv'
  <2>1. pc' = [pc EXCEPT ![0] = "freed"] /\ UNCHANGED <<locals, n_graph, n_threads_cur, barrier,
                                                       current_chunk, flags, work>>
    BY <1>3 DEF Join, Goto
  <2>2. 0 \in Thread /\ pc'[0] = "freed" /\ \A u \in Thread \ {0} : pc'[u] = pc[u]
    BY <2>1, PartFacts DEF PoolType
  <2>3. \A u \in Thread \ {0} : (Out(u)' <=> Out(u)) /\ (Gone(u)' <=> Gone(u))
    BY <2>1, <2>2 DEF Gone, Out, OnItsWayOut, locals, barrier
  <2>4. Resting'
    BY <2>1, <2>2, <2>3 DEF Resting, Part, CallerPc, barrier, locals, work
  <2>5. PoolType'
    <3>1. pc' \in [Thread -> OutsidePc \cup CallerPc \cup MiddlePc \cup EndPc \cup {"begin", "node"}]
      BY <2>1 DEF PoolType, CallerPc
    <3>2. "freed" \notin OutsidePc
      BY DEF OutsidePc
    <3>3. QED BY <2>1, <2>2, <3>1, <3>2 DEF PoolType, locals, barrier, flags, work
  <2>6. QED BY <2>4, <2>5 DEF PoolInv
<1>4. ~InGraph(0)
  <2>1. \A w \in {"middle", "end"} : pc[0] \notin {Enter[w], Arrive[w], Reset[w], Open[w], Spin[w]}
    BY PcNames DEF Resting, CallerPc
  <2>2. QED BY <2>1 DEF Resting, CallerPc, InGraph, Begin, NextNode, PrepareMulMat, ComputeChunk,
                    EndNode, Barrier, EnterBarrier, ArriveAtBarrier, ResetBarrier, OpenBarrier,
                    LeaveBarrier
<1>5. ASSUME Request PROVE PoolInv'
  <2>1. CASE Pause \/ Resume \/ Free
    <3>1. \E p \in {"idle", "join"} :
             Broadcast(0, p) /\ UNCHANGED <<locals, n_graph, n_threads_cur, barrier, current_chunk,
                                            abort, work>>
      BY <2>1 DEF Pause, Resume, Free
    <3>2. QED BY <3>1, RestBroadcast DEF PoolInv
  <2>2. CASE \E k \in 1..N : Compute(k)
    BY <2>2, RestCompute DEF PoolInv
  <2>3. QED BY <1>5, <2>1, <2>2 DEF Request
<1>6. ASSUME Terminated PROVE PoolInv'
  <2>1. PoolType' /\ Resting'
    BY <1>6 DEF Terminated, vars, locals, barrier, flags, work, PoolType, Resting, Part, Gone, Out,
                OnItsWayOut
  <2>2. QED BY <2>1 DEF PoolInv
<1>7. QED BY <1>1, <1>2, <1>3, <1>4, <1>5, <1>6 DEF Next, Main

LEMMA PoolRun ==
  ASSUME PoolType, Steady, NEW n, NEW h \in {"middle", "end"}, Running(n, h), Next
  PROVE  PoolInv'
<1>1. pc[0] \notin CallerPc /\ 0 \in Thread
  <2>1. Status(n, h, 0) /\ 0 \in Thread
    BY PartFacts DEF Running
  <2>2. QED BY <2>1 DEF Status, NotYet, Here, Behind, CallerPc, MiddlePc, EndPc
<1>2. ASSUME PoolType', NEW m, NEW g \in {"middle", "end"}, Running(m, g)' PROVE PoolInv'
  <2>1. m \in 1..Len(Nodes) + 1
    BY <1>2 DEF Running, Frontier
  <2>2. QED BY <1>2, <2>1 DEF PoolInv
<1>3. ASSUME InGraph(0) PROVE PoolInv'
  <2>1. CASE NextNode(0) /\ ~(n <= Len(Nodes))
    BY <2>1, RunReturn DEF PoolInv
  <2>2. CASE NextNode(0) => n <= Len(Nodes)
    BY <1>1, <1>2, <1>3, <2>2, RunInGraph
  <2>3. QED BY <2>1, <2>2
<1>4. ASSUME NEW t \in Thread \ {0}, Out(t), Wait(t) \/ InGraph(t) PROVE PoolInv'
  <2>1. t \in Part => Ready(t) \/ Gone(t)
    BY <1>4, OutPart DEF Running, Frontier
  <2>2. UNCHANGED <<barrier, current_chunk, work>>
    BY <1>4, <2>1, WaitMoves, LeaveMoves
  <2>3. PoolType'
    BY <1>4, <2>2, TypeWait, TypeInGraph DEF work
  <2>4. Running(n, h)'
    BY <1>4, <2>3, OutRuns
  <2>5. QED BY <1>2, <2>3, <2>4
<1>5. ASSUME NEW t \in Thread \ {0}, ~Out(t), InGraph(t) PROVE PoolInv'
  <2>1. NextNode(t) => n <= Len(Nodes)
    BY <1>5, NodeIs DEF NextNode
  <2>2. QED BY <1>2, <1>5, <2>1, RunInGraph
<1>6. ASSUME NEW t \in Thread \ {0}, Wait(t) PROVE Out(t)
  BY <1>6 DEF Wait, ReadPause, SleepPaused, ReadStop, MayPoll, GiveUp, PollGraph, PollActive,
              LockedReady, Look, Out, OnItsWayOut
<1>7. ~Kickoff /\ ~Join /\ ~Request /\ ~Terminated
  BY <1>1 DEF Kickoff, Join, Request, Pause, Resume, Free, Compute, Terminated, CallerPc
<1>8. QED BY <1>3, <1>4, <1>5, <1>6, <1>7 DEF Next, Main

LEMMA PoolStep == Steady /\ PoolInv /\ [Next]_vars => PoolInv'
<1> SUFFICES ASSUME Steady, PoolInv, [Next]_vars PROVE PoolInv'
  OBVIOUS
<1>1. CASE Next
  BY <1>1, PoolRest, PoolRun DEF PoolInv
<1>2. CASE UNCHANGED vars
  <2> UNCHANGED <<pc, last, node, nth, chunk, seen, n_graph, n_threads_cur, n_barrier,
                  n_barrier_passed, current_chunk, abort, done, again>>
    BY <1>2 DEF vars, locals, barrier, flags, work
  <2>1. PoolType'
    BY DEF PoolInv, PoolType
  <2>2. Part' = Part
    BY DEF Part
  <2>3. CASE Resting
    <3>1. Resting'
      BY <2>2, <2>3 DEF Resting, Gone, Out, OnItsWayOut
    <3>2. QED BY <2>1, <3>1 DEF PoolInv
  <2>4. ASSUME NEW n \in 1..Len(Nodes) + 1, NEW h \in {"middle", "end"}, Running(n, h)
        PROVE  Running(n, h)'
    <3>1. \A u \in Thread : Same(u)
      BY DEF Same
    <3>2. 0 \in Thread /\ Others(0)
      BY <3>1, PartFacts DEF PoolInv, Others
    <3>3. Same(0) /\ Status(n, h, 0)
      BY <2>4, <3>1, <3>2, PartFacts DEF PoolInv, Running
    <3>4. Status(n, h, 0)' /\ KeepsBarrier(0) /\ KeepsWork(n, h, 0)
      BY <3>3, StatusKept, OthersKeep
    <3>5. QED BY <2>4, <3>2, <3>4, RunningKept, PartFacts DEF PoolInv
  <2>5. QED BY <2>1, <2>3, <2>4 DEF PoolInv
<1>3. QED BY <1>1, <1>2

(* What the invariant says of the work.  A thread that computes a node is  *)
(* at the frontier, where the nodes before are done.                       *)
LEMMA PoolOrder ==
  ASSUME Steady, PoolInv
  PROVE  NodesInOrder
<1>1. ~again /\ PoolType
  BY DEF PoolInv, PoolType
<1>2. ASSUME NEW t \in Thread, pc[t] \in {"prepare", "compute"}
      PROVE  /\ \A m \in 1..node[t] - 1 : WorkOf(m, nth[t]) \subseteq done
             /\ pc[t] = "compute" /\ Nodes[node[t]] = "mul_mat" =>
                  {<<node[t], "rows", u>> : u \in 0..nth[t] - 1} \subseteq done
  <2>1. pc[t] \in (MiddlePc \cup EndPc) \ {"spin middle", "spin end"}
    BY <1>2 DEF MiddlePc, EndPc
  <2>2. ~Resting
    BY <1>2 DEF Resting, CallerPc, Out, OnItsWayOut
  <2>3. PICK n \in 1..Len(Nodes) + 1, h \in {"middle", "end"} : Running(n, h)
    BY <2>2 DEF PoolInv
  <2>4. /\ n <= Len(Nodes) /\ node[t] = n /\ nth[t] = n_threads_cur
        /\ pc[t] \in EndPc => h = "end"
    BY <1>1, <2>1, <2>3, InsideIs DEF InStep
  <2>5. \A m \in 1..node[t] - 1 : WorkOf(m, nth[t]) \subseteq done
    BY <2>3, <2>4 DEF Running, WorkInv
  <2>6. ASSUME pc[t] = "compute", Nodes[node[t]] = "mul_mat"
        PROVE  {<<node[t], "rows", u>> : u \in 0..nth[t] - 1} \subseteq done
    <3>1. \A u \in Part : <<n, "rows", u>> \in done
      BY <2>3, <2>4, <2>6 DEF Running, WorkInv, EndPc
    <3>2. QED BY <2>4, <3>1 DEF Part
  <2>7. QED BY <2>5, <2>6
<1>3. QED BY <1>1, <1>2 DEF NodesInOrder

LEMMA PoolLeft ==
  ASSUME Steady, PoolInv
  PROVE  NoThreadLeftInGraph
<1> SUFFICES ASSUME pc[0] \in CallerPc PROVE \A t \in Thread \ {0} : OnItsWayOut(t)
  BY DEF NoThreadLeftInGraph, CallerPc
<1>1. ASSUME NEW n, NEW h, Running(n, h) PROVE FALSE
  <2>1. Status(n, h, 0)
    BY <1>1, PartFacts DEF Running, PoolInv
  <2>2. QED BY <2>1 DEF Status, NotYet, Here, Behind, CallerPc, MiddlePc, EndPc
<1>2. QED BY <1>1 DEF PoolInv, Resting, Out

(* The types, and where each thread is: between two graphs, or at most one *)
(* barrier behind the furthest thread of the running one.                  *)
THEOREM PoolInvariant == Steady => (Spec => []PoolInv)
<1> SUFFICES ASSUME Steady PROVE Spec => []PoolInv
  OBVIOUS
<1>1. Init => PoolInv
  BY PoolInit
<1>2. PoolInv /\ [Next]_vars => PoolInv'
  BY PoolStep
<1>3. QED BY <1>1, <1>2, PTL DEF Spec

(* ggml_graph_compute_thread: the barriers keep the nodes in order, and no *)
(* row or chunk is worked on twice, with any number of threads, of nodes,  *)
(* of chunks and of graphs.                                                *)
THEOREM NodesStayInOrder == Steady => (Spec => []NodesInOrder)
<1> SUFFICES ASSUME Steady PROVE Spec => []NodesInOrder
  OBVIOUS
<1>1. PoolInv => NodesInOrder
  BY PoolOrder
<1>2. QED BY <1>1, PoolInvariant, PTL

(* When ggml_graph_compute has returned its caller may free what belongs   *)
(* to the graph: no other thread reads it any more.                        *)
THEOREM NoThreadIsLeft == Steady => (Spec => []NoThreadLeftInGraph)
<1> SUFFICES ASSUME Steady PROVE Spec => []NoThreadLeftInGraph
  OBVIOUS
<1>1. PoolInv => NoThreadLeftInGraph
  BY PoolLeft
<1>2. QED BY <1>1, PoolInvariant, PTL

=============================================================================
