----------------------------- MODULE Threadpool -----------------------------
(***************************************************************************)
(* The CPU thread pool of ggml, built without OpenMP.  Thread 0 is the     *)
(* caller of ggml_graph_compute; the others poll for a new graph, or sleep *)
(* until they are notified.  The threads of a graph go through its nodes   *)
(* in step: they meet at a barrier after every node, and once more in the  *)
(* middle of a matrix multiplication, whose chunks they take from a shared *)
(* counter.                                                                *)
(*                                                                         *)
(* A step reads or writes one of the shared atomics, or is a section under *)
(* the mutex; n_threads_cur and n_barrier_passed are read together on the  *)
(* way into a barrier, where neither can change.                           *)
(***************************************************************************)
EXTENDS Naturals, Sequences, FiniteSets

CONSTANTS N,         (* n_threads_max                                         *)
          Nodes,     (* the nodes of a graph: "mul_mat", or "split" for one   *)
                     (* that is divided by thread                             *)
          NChunks,   (* chunks of a matrix multiplication                     *)
          Computes,  (* bound: calls of ggml_graph_compute                    *)
          MayGrow,   (* whether a graph may use more threads than the last    *)
          MayAbort   (* whether the abort callback may return TRUE            *)

ASSUME PoolAssumption ==
  /\ N \in Nat \ {0} /\ NChunks \in Nat \ {0} /\ Computes \in Nat
  /\ Nodes \in Seq({"mul_mat", "split"})
  /\ MayGrow \in BOOLEAN /\ MayAbort \in BOOLEAN

Thread == 0..N-1

VARIABLES
  pc,       (* where each thread is                                          *)
  last,     (* last_graph of each thread                                     *)
  node,     (* node_n of each thread                                         *)
  nth,      (* params.nth of each thread; for thread 0 also cplan.n_threads  *)
  chunk,    (* the chunk each thread computes                                *)
  seen,     (* what each thread read on its way into a barrier               *)
  n_graph, n_threads_cur, n_barrier, n_barrier_passed, current_chunk,
  stop, pause, abort,
  done,     (* the work that was done in the graph                           *)
  again     (* whether some of it was done twice                             *)

locals  == <<last, node, nth, chunk, seen>>
barrier == <<n_barrier, n_barrier_passed>>
flags   == <<stop, pause, abort>>
work    == <<done, again>>
vars == <<pc, locals, n_graph, n_threads_cur, barrier, current_chunk, flags, work>>

Init ==
  /\ pc = [t \in Thread |-> IF t = 0 THEN "idle" ELSE "top"]
  /\ last = [t \in Thread |-> 0] /\ node = [t \in Thread |-> 1]
  /\ nth = [t \in Thread |-> 1] /\ chunk = [t \in Thread |-> 0]
  /\ seen = [t \in Thread |-> [n |-> 1, passed |-> 0]]
  /\ n_graph = 0 /\ n_threads_cur = N
  /\ n_barrier = 0 /\ n_barrier_passed = 0 /\ current_chunk = 0
  /\ stop = FALSE /\ abort = FALSE /\ pause \in BOOLEAN
  /\ done = {} /\ again = FALSE

Goto(t, p) == pc' = [pc EXCEPT ![t] = p]

(* ggml_cond_broadcast, and a step of thread t.  A thread that slept in    *)
(* the pause loop reads the flag again, the others look for work.          *)
Broadcast(t, p) ==
  pc' = [u \in Thread |-> IF u = t THEN p
                          ELSE CASE pc[u] = "paused" -> "top"
                                 [] pc[u] = "asleep" -> "lock"
                                 [] OTHER -> pc[u]]

Do(w) == done' = done \cup {w} /\ again' = (again \/ w \in done)

-----------------------------------------------------------------------------
(* The caller.                                                             *)

(* ggml_graph_compute resets the parameters without the mutex.             *)
Compute(n) ==
  /\ pc[0] = "idle"
  /\ n_graph < Computes
  /\ MayGrow \/ n <= n_threads_cur
  /\ nth' = [nth EXCEPT ![0] = n]
  /\ current_chunk' = 0 /\ abort' = FALSE
  /\ done' = {}
  /\ Goto(0, "kickoff")
  /\ UNCHANGED <<last, node, chunk, seen, n_graph, n_threads_cur, barrier, stop,
                 pause, again>>

(* Variant: those who sleep are not notified.                              *)
KickoffQuietly ==
  /\ pc[0] = "kickoff"
  /\ n_threads_cur' = nth[0]
  /\ n_graph' = n_graph + 1
  /\ pause' = FALSE
  /\ Goto(0, "begin")
  /\ UNCHANGED <<locals, barrier, current_chunk, stop, abort, work>>

Kickoff ==
  /\ pc[0] = "kickoff"
  /\ n_threads_cur' = nth[0]
  /\ n_graph' = n_graph + 1
  /\ pause' = FALSE
  /\ Broadcast(0, "begin")
  /\ UNCHANGED <<locals, barrier, current_chunk, stop, abort, work>>

Pause ==
  /\ pc[0] = "idle" /\ ~pause
  /\ pause' = TRUE
  /\ Broadcast(0, "idle")
  /\ UNCHANGED <<locals, n_graph, n_threads_cur, barrier, current_chunk, stop,
                 abort, work>>

Resume ==
  /\ pc[0] = "idle" /\ pause
  /\ pause' = FALSE
  /\ Broadcast(0, "idle")
  /\ UNCHANGED <<locals, n_graph, n_threads_cur, barrier, current_chunk, stop,
                 abort, work>>

(* Variant: a pool that is paused stays so.                                *)
FreePaused ==
  /\ pc[0] = "idle"
  /\ stop' = TRUE
  /\ Broadcast(0, "join")
  /\ UNCHANGED <<locals, n_graph, n_threads_cur, barrier, current_chunk, pause,
                 abort, work>>

Free ==
  /\ pc[0] = "idle"
  /\ stop' = TRUE /\ pause' = FALSE
  /\ Broadcast(0, "join")
  /\ UNCHANGED <<locals, n_graph, n_threads_cur, barrier, current_chunk, abort, work>>

Join ==
  /\ pc[0] = "join"
  /\ \A t \in Thread \ {0} : pc[t] = "exited"
  /\ Goto(0, "freed")
  /\ UNCHANGED <<locals, n_graph, n_threads_cur, barrier, current_chunk, flags, work>>

-----------------------------------------------------------------------------
(* The other threads, while they have no graph.                            *)

(* A step that reads shared variables and moves on.                        *)
Look(t, from, to) ==
  /\ pc[t] = from
  /\ Goto(t, to)
  /\ UNCHANGED <<locals, n_graph, n_threads_cur, barrier, current_chunk, flags, work>>

Active(t) == t < n_threads_cur

ReadPause(t) == Look(t, "top", IF pause THEN "pause lock" ELSE "running")
SleepPaused(t) == Look(t, "pause lock", IF pause THEN "paused" ELSE "top")
ReadStop(t) == Look(t, "running", IF stop THEN "exited" ELSE "poll?")

(* ggml_graph_compute_poll_for_work: threads the last graph did not use do *)
(* not poll, the others give up after some rounds.                         *)
MayPoll(t) == Look(t, "poll?", IF Active(t) THEN "poll" ELSE "lock")
GiveUp(t) == Look(t, "poll", "lock")

(* Variant: the graph is not remembered.                                   *)
PollGraphForgets(t) ==
  /\ pc[t] = "poll"
  /\ ~stop /\ ~pause /\ n_graph # last[t]
  /\ Goto(t, "new graph")
  /\ UNCHANGED <<locals, n_graph, n_threads_cur, barrier, current_chunk, flags, work>>

(* ggml_graph_compute_thread_ready without the mutex: the thread finds a   *)
(* new graph, and reads after that whether it takes part.                  *)
PollGraph(t) ==
  /\ pc[t] = "poll"
  /\ ~stop /\ ~pause /\ n_graph # last[t]
  /\ last' = [last EXCEPT ![t] = n_graph]
  /\ Goto(t, "new graph")
  /\ UNCHANGED <<node, nth, chunk, seen, n_graph, n_threads_cur, barrier,
                 current_chunk, flags, work>>

PollActive(t) == Look(t, "new graph", IF Active(t) THEN "begin" ELSE "poll")

(* The same under the mutex.                                               *)
LockedReady(t) ==
  /\ pc[t] = "lock"
  /\ LET new == ~stop /\ ~pause /\ n_graph # last[t]
     IN  /\ last' = IF new THEN [last EXCEPT ![t] = n_graph] ELSE last
         /\ Goto(t, IF stop \/ pause THEN "top"
                    ELSE IF new /\ Active(t) THEN "begin" ELSE "asleep")
  /\ UNCHANGED <<node, nth, chunk, seen, n_graph, n_threads_cur, barrier,
                 current_chunk, flags, work>>

-----------------------------------------------------------------------------
(* ggml_graph_compute_thread.                                              *)

Begin(t) ==
  /\ pc[t] = "begin"
  /\ nth' = [nth EXCEPT ![t] = n_threads_cur]
  /\ node' = [node EXCEPT ![t] = 1]
  /\ Goto(t, "node")
  /\ UNCHANGED <<last, chunk, seen, n_graph, n_threads_cur, barrier, current_chunk,
                 flags, work>>

NextNode(t) ==
  /\ pc[t] = "node"
  /\ Goto(t, IF node[t] > Len(Nodes) \/ abort
             THEN IF t = 0 THEN "idle" ELSE "top"
             ELSE IF Nodes[node[t]] = "mul_mat" THEN "prepare" ELSE "compute")
  /\ chunk' = [chunk EXCEPT ![t] = t]
  /\ UNCHANGED <<last, node, nth, seen, n_graph, n_threads_cur, barrier,
                 current_chunk, flags, work>>

(* Variant: the counter is only reset with the graph.                      *)
PrepareRowsOnly(t) ==
  /\ pc[t] = "prepare"
  /\ Do(<<node[t], "rows", t>>)
  /\ Goto(t, "enter middle")
  /\ UNCHANGED <<locals, n_graph, n_threads_cur, barrier, current_chunk, flags>>

(* Each thread converts its rows, the first one sets the counter.          *)
PrepareMulMat(t) ==
  /\ pc[t] = "prepare"
  /\ Do(<<node[t], "rows", t>>)
  /\ current_chunk' = IF t = 0 THEN nth[t] ELSE current_chunk
  /\ Goto(t, "enter middle")
  /\ UNCHANGED <<locals, n_graph, n_threads_cur, barrier, flags>>

(* With fewer than four chunks per thread there is one for each thread.    *)
ChunksOf(n, k) == IF Nodes[n] = "mul_mat" /\ NChunks >= 4 * k THEN NChunks ELSE k

(* A chunk is computed, and the next one taken.                            *)
ComputeChunk(t) ==
  /\ pc[t] = "compute"
  /\ Do(<<node[t], "chunk", chunk[t]>>)
  /\ LET all == ChunksOf(node[t], nth[t])
     IN  IF nth[t] >= all THEN Goto(t, "computed") /\ UNCHANGED <<chunk, current_chunk>>
         ELSE /\ chunk' = [chunk EXCEPT ![t] = current_chunk]
              /\ current_chunk' = current_chunk + 1
              /\ Goto(t, IF current_chunk < all THEN "compute" ELSE "computed")
  /\ UNCHANGED <<last, node, nth, seen, n_graph, n_threads_cur, barrier, flags>>

EndNode(t) ==
  /\ pc[t] = "computed"
  /\ abort' \in IF t = 0 /\ MayAbort THEN {abort, TRUE} ELSE {abort}
  /\ Goto(t, "enter end")
  /\ UNCHANGED <<locals, n_graph, n_threads_cur, barrier, current_chunk, stop, pause, work>>

-----------------------------------------------------------------------------
(* ggml_barrier, in the middle and at the end of a node.                   *)

Enter  == [middle |-> "enter middle",  end |-> "enter end"]
Arrive == [middle |-> "arrive middle", end |-> "arrive end"]
Open   == [middle |-> "open middle",   end |-> "open end"]
Reset  == [middle |-> "reset middle",  end |-> "reset end"]
Spin   == [middle |-> "spin middle",   end |-> "spin end"]

Leave(t, where) ==
  /\ Goto(t, IF where = "middle" THEN "compute" ELSE "node")
  /\ node' = IF where = "middle" THEN node ELSE [node EXCEPT ![t] = @ + 1]

EnterBarrier(t, w) ==
  /\ pc[t] = Enter[w]
  /\ IF n_threads_cur = 1 THEN Leave(t, w) /\ UNCHANGED seen
     ELSE /\ seen' = [seen EXCEPT ![t] = [n |-> n_threads_cur, passed |-> n_barrier_passed]]
          /\ Goto(t, Arrive[w])
          /\ UNCHANGED node
  /\ UNCHANGED <<last, nth, chunk, n_graph, n_threads_cur, barrier, current_chunk,
                 flags, work>>

ArriveAtBarrier(t, w) ==
  /\ pc[t] = Arrive[w]
  /\ n_barrier' = n_barrier + 1
  /\ Goto(t, IF n_barrier = seen[t].n - 1 THEN Reset[w] ELSE Spin[w])
  /\ UNCHANGED <<locals, n_graph, n_threads_cur, n_barrier_passed, current_chunk,
                 flags, work>>

(* The last one resets the counter, and then lets the others go.           *)
ResetBarrier(t, w) ==
  /\ pc[t] = Reset[w]
  /\ n_barrier' = 0
  /\ Goto(t, Open[w])
  /\ UNCHANGED <<locals, n_graph, n_threads_cur, n_barrier_passed, current_chunk,
                 flags, work>>

OpenBarrier(t, w) ==
  /\ pc[t] = Open[w]
  /\ n_barrier_passed' = n_barrier_passed + 1
  /\ Leave(t, w)
  /\ UNCHANGED <<last, nth, chunk, seen, n_graph, n_threads_cur, n_barrier,
                 current_chunk, flags, work>>

LeaveBarrier(t, w) ==
  /\ pc[t] = Spin[w]
  /\ n_barrier_passed # seen[t].passed
  /\ Leave(t, w)
  /\ UNCHANGED <<last, nth, chunk, seen, n_graph, n_threads_cur, barrier,
                 current_chunk, flags, work>>

Barrier(t, w) == \/ EnterBarrier(t, w) \/ ArriveAtBarrier(t, w)
                 \/ ResetBarrier(t, w) \/ OpenBarrier(t, w) \/ LeaveBarrier(t, w)

-----------------------------------------------------------------------------
Wait(t) == \/ ReadPause(t) \/ SleepPaused(t) \/ ReadStop(t) \/ MayPoll(t)
           \/ GiveUp(t) \/ PollGraph(t) \/ PollActive(t) \/ LockedReady(t)

InGraph(t) == \/ Begin(t) \/ NextNode(t) \/ PrepareMulMat(t) \/ ComputeChunk(t)
              \/ EndNode(t) \/ \E w \in {"middle", "end"} : Barrier(t, w)

Main == Kickoff \/ Join \/ InGraph(0)

(* What the program asks of the pool.                                      *)
Request == Pause \/ Resume \/ Free \/ \E n \in 1..N : Compute(n)

Terminated == pc[0] = "freed" /\ UNCHANGED vars

Next == \/ Main \/ Request \/ Terminated
        \/ \E t \in Thread \ {0} : Wait(t) \/ InGraph(t)

(* All threads run.                                                        *)
Fairness == WF_vars(Main) /\ \A t \in Thread \ {0} : WF_vars(Wait(t) \/ InGraph(t))

Spec == Init /\ [][Next]_vars /\ Fairness
-----------------------------------------------------------------------------
(* All work of a node, once it is finished with k threads.                 *)
WorkOf(n, k) ==
  {<<n, "chunk", c>> : c \in 0..ChunksOf(n, k) - 1}
    \cup (IF Nodes[n] = "mul_mat" THEN {<<n, "rows", u>> : u \in 0..k-1} ELSE {})

(* A thread works on a node when all work of the nodes before it is done,  *)
(* and on the chunks of a multiplication when all rows are converted; no   *)
(* work is done twice, although a thread may be a whole barrier behind,    *)
(* and the counter of the chunks is set again for each node.               *)
NodesInOrder ==
  /\ ~again
  /\ \A t \in Thread : pc[t] \in {"prepare", "compute"} =>
       /\ \A m \in 1..node[t] - 1 : WorkOf(m, nth[t]) \subseteq done
       /\ pc[t] = "compute" /\ Nodes[node[t]] = "mul_mat" =>
            {<<node[t], "rows", u>> : u \in 0..nth[t] - 1} \subseteq done

(* When thread 0 has left a graph no other thread reads what belongs to it *)
(* any more; it is on its way out of the last barrier at most.             *)
OnItsWayOut(t) ==
  \/ pc[t] \in {"top", "pause lock", "paused", "running", "exited", "poll?", "poll",
                "new graph", "lock", "asleep"}
  \/ pc[t] = "spin end" /\ node[t] = Len(Nodes)
  \/ pc[t] = "node" /\ node[t] > Len(Nodes)

NoThreadLeftInGraph ==
  pc[0] \in {"idle", "kickoff", "join"} => \A t \in Thread \ {0} : OnItsWayOut(t)

(* ggml_graph_compute returns, with all work done; and a pool can be freed *)
(* whether its threads poll, sleep, or are paused.                         *)
ComputeReturns == pc[0] = "kickoff" ~> pc[0] = "idle"
FreeReturns    == pc[0] = "join" ~> pc[0] = "freed"

=============================================================================
