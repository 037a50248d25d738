---------------------------- MODULE ServerQueue ----------------------------
(***************************************************************************)
(* The server's task queue and its results: HTTP threads post tasks and    *)
(* wait for results, one thread (start_loop) takes the tasks, gives        *)
(* completions to slots, and lets all slots advance between two rounds.    *)
(* A completion that finds no slot is deferred; every release of a slot    *)
(* puts one deferred task back.  SIGINT ends the loop.                     *)
(*                                                                         *)
(* A step of a thread is a critical section, with what it does alone until *)
(* the next one.  A thread that sleeps on a condition variable goes on     *)
(* when it is notified.  The id of a task is its request and its place in  *)
(* it: ids are only compared.                                              *)
(***************************************************************************)
EXTENDS Naturals, Sequences, FiniteSets, SequencesExt

CONSTANTS Client,    (* HTTP threads, with one request each                  *)
          Slot,
          AnySlot,   (* the slot of a task that asks for none                *)
          Rounds,    (* rounds of the loop a completion needs, at most       *)
          Scenarios  (* [req: [Client -> requests], fails: BOOLEAN]          *)

ASSUME QueueAssumption ==
  /\ Rounds \in Nat /\ Rounds >= 1
  /\ AnySlot \notin Slot
  /\ \A sc \in Scenarios : \A c \in Client :
       /\ sc.req[c].kind \in {"completion", "metrics", "action"}
       /\ sc.req[c].slots \in Seq(Slot \cup {AnySlot})
       /\ sc.req[c].kind # "completion" => Len(sc.req[c].slots) = 1

VARIABLES
  scenario, (* what the clients ask; whether launches may fail               *)
  pc,       (* where each client is                                          *)
  got,      (* the tasks whose final result a client received, in order      *)
  queue,    (* queue_tasks                                                   *)
  deferred, (* queue_tasks_deferred                                          *)
  waiting,  (* waiting_task_ids                                              *)
  results,  (* queue_results                                                 *)
  loop,     (* where start_loop is                                           *)
  rest,     (* the slots that are still to advance in this round             *)
  slot,     (* the task of each slot, and the rounds it has left             *)
  running

clientVars == <<pc, got>>
taskVars   == <<queue, deferred>>
loopVars   == <<loop, rest, running>>
vars == <<scenario, pc, got, queue, deferred, waiting, results, loop, rest,
          slot, running>>

Req(c) == scenario.req[c]
Ids(c) == {<<c, k>> : k \in DOMAIN Req(c).slots}

Tasks(c) == [k \in DOMAIN Req(c).slots |->
              [kind |-> Req(c).kind, id |-> <<c, k>>, slot |-> Req(c).slots[k]]]

NextResponse == [kind |-> "next", id |-> <<>>, slot |-> AnySlot]
Cancel(i)    == [kind |-> "cancel", id |-> i, slot |-> AnySlot]

Busy(s) == slot[s].left > 0
Idle    == [id |-> <<>>, left |-> 0]

Init ==
  /\ scenario \in Scenarios
  /\ pc = [c \in Client |-> IF Req(c).slots = <<>> THEN "done" ELSE "new"]
  /\ got = [c \in Client |-> <<>>]
  /\ queue = <<>> /\ deferred = <<>>
  /\ waiting = {} /\ results = <<>>
  /\ loop = "start" /\ rest = {} /\ running \in BOOLEAN
  /\ slot = [s \in Slot |-> Idle]

-----------------------------------------------------------------------------
(* server_queue and server_response.                                       *)

Notified(l) == IF l = "asleep" THEN "awake" ELSE l

Post(tasks, front) ==
  /\ queue' = IF front THEN Reverse(tasks) \o queue ELSE queue \o tasks
  /\ loop' = Notified(loop)

(* Variant: nobody is woken.                                               *)
SendQuietly(new) ==
  /\ results' = results \o SelectSeq(new, LAMBDA r : r.id \in waiting)
  /\ UNCHANGED pc

(* Results whose task is waited for; those who sleep in recv look again.   *)
Send(new) ==
  LET sent == SelectSeq(new, LAMBDA r : r.id \in waiting)
  IN  /\ results' = results \o sent
      /\ pc' = IF sent = <<>> THEN pc
               ELSE [c \in Client |-> IF pc[c] = "asleep" THEN "recv" ELSE pc[c]]

Result(i, t) == [id |-> i, type |-> t]

-----------------------------------------------------------------------------
(* The HTTP threads.                                                       *)

Goto(c, p) == pc' = [pc EXCEPT ![c] = p]

(* A completion and a metrics request are waited for before they are       *)
(* posted, a slot action and a change of the adapters after.               *)
Register(c) ==
  /\ pc[c] = IF Req(c).kind = "action" THEN "posted" ELSE "new"
  /\ waiting' = waiting \cup Ids(c)
  /\ Goto(c, IF Req(c).kind = "action" THEN "recv" ELSE "registered")
  /\ UNCHANGED <<scenario, got, taskVars, results, loopVars, slot>>

PostTasks(c) ==
  /\ pc[c] = IF Req(c).kind = "action" THEN "new" ELSE "registered"
  /\ Post(Tasks(c), Req(c).kind = "metrics")
  /\ Goto(c, IF Req(c).kind = "action" THEN "posted" ELSE "recv")
  /\ UNCHANGED <<scenario, got, deferred, waiting, results, rest, slot, running>>

Sleep(c) ==
  /\ pc[c] = "recv"
  /\ results = <<>>
  /\ Goto(c, "asleep")
  /\ UNCHANGED <<scenario, got, taskVars, waiting, results, loopVars, slot>>

(* Where a client goes with a result; one that reads a stream may be gone. *)
After(c, r, n) ==
  IF Req(c).kind # "completion" THEN {"leave"}
  ELSE (IF Req(c).stream THEN {"cancel"} ELSE {})
       \cup (CASE r.type = "error" -> {"cancel"}
               [] r.type = "final" /\ n = Len(Req(c).slots) -> {"leave"}
               [] OTHER -> {"recv"})

(* The first result that belongs to the client; without one it looks again *)
(* at once if there is any result at all.                                  *)
Receive(c) ==
  \E i \in 1..Len(results) :
    /\ pc[c] = "recv"
    /\ results[i].id \in Ids(c)
    /\ \A j \in 1..i-1 : results[j].id \notin Ids(c)
    /\ results' = RemoveAt(results, i)
    /\ got' = IF results[i].type = "final"
              THEN [got EXCEPT ![c] = Append(@, results[i].id)] ELSE got
    /\ \E p \in After(c, results[i], Len(got'[c])) : Goto(c, p)
    /\ UNCHANGED <<scenario, taskVars, waiting, loopVars, slot>>

(* cancel_tasks: the client's own tasks get a result, and are not waited   *)
(* for any more.                                                           *)
CancelResults(c) ==
  /\ pc[c] = "cancel"
  /\ LET own == waiting \cap Ids(c)
     IN  /\ results' = results \o SetToSeq({Result(i, "cancelled") : i \in own})
         /\ waiting' = waiting \ own
         /\ pc' = [d \in Client |-> IF d = c THEN "cancel slots"
                                    ELSE IF pc[d] = "asleep" /\ own # {} THEN "recv"
                                    ELSE pc[d]]
  /\ UNCHANGED <<scenario, got, taskVars, loopVars, slot>>

CancelTasks(c) ==
  /\ pc[c] = "cancel slots"
  /\ Post([k \in DOMAIN Tasks(c) |-> Cancel(<<c, k>>)], TRUE)
  /\ Goto(c, "leave")
  /\ UNCHANGED <<scenario, got, deferred, waiting, results, rest, slot, running>>

Leave(c) ==
  /\ pc[c] = "leave"
  /\ waiting' = waiting \ Ids(c)
  /\ Goto(c, "done")
  /\ UNCHANGED <<scenario, got, taskVars, results, loopVars, slot>>

-----------------------------------------------------------------------------
(* The loop: process_single_task.                                          *)

(* A signal before start_loop is forgotten.                                *)
Start ==
  /\ loop = "start"
  /\ loop' = "tasks" /\ running' = TRUE
  /\ UNCHANGED <<scenario, clientVars, taskVars, waiting, results, rest, slot>>

(* The slots a completion or an action may take now; all others defer it.  *)
Free(t) == {s \in Slot : ~Busy(s) /\ t.slot \in {s, AnySlot}}

Defer(t, q) ==
  /\ t.kind \in {"completion", "action"} /\ Free(t) = {}
  /\ queue' = q /\ deferred' = Append(deferred, t)
  /\ UNCHANGED <<slot, results, pc>>

Launch(t, q) ==
  /\ t.kind = "completion"
  /\ \E s \in Free(t) : slot' = [slot EXCEPT ![s] = [id |-> t.id, left |-> Rounds]]
  /\ queue' = q
  /\ UNCHANGED <<deferred, results, pc>>

(* launch_slot_with_task refuses the request: the slot stays idle.         *)
LaunchFails(t, q) ==
  /\ t.kind = "completion" /\ scenario.fails
  /\ \E s \in Free(t) : slot' = [slot EXCEPT ![s] = [id |-> t.id, left |-> 0]]
  /\ queue' = q
  /\ Send(<<Result(t.id, "error")>>)
  /\ UNCHANGED deferred

Answer(t, q) ==
  /\ t.kind = "metrics" \/ (t.kind = "action" /\ Free(t) # {})
  /\ queue' = q
  /\ Send(<<Result(t.id, "final")>>)
  /\ UNCHANGED <<deferred, slot>>

(* Variant: a slot is released, and the deferred tasks are not looked at.  *)
ReleaseOnly(s, q) ==
  /\ slot' = [slot EXCEPT ![s].left = 0]
  /\ queue' = q
  /\ UNCHANGED deferred

(* Release of a slot: one deferred task is queued again.                   *)
Release(s, q) ==
  /\ slot' = [slot EXCEPT ![s].left = 0]
  /\ IF Busy(s) /\ deferred # <<>>
     THEN /\ queue' = Append(q, Head(deferred))
          /\ deferred' = Tail(deferred)
     ELSE /\ queue' = q
          /\ UNCHANGED deferred

CancelSlot(t, q) ==
  /\ t.kind = "cancel"
  /\ IF \E s \in Slot : slot[s].id = t.id
     THEN Release(CHOOSE s \in Slot : slot[s].id = t.id, q)
     ELSE queue' = q /\ UNCHANGED <<slot, deferred>>
  /\ UNCHANGED <<results, pc>>

Nothing(t, q) ==
  /\ t.kind = "next"
  /\ queue' = q
  /\ UNCHANGED <<slot, deferred, results, pc>>

Process ==
  /\ loop = "tasks" /\ queue # <<>>
  /\ LET t == Head(queue)
         q == Tail(queue)
     IN  \/ Defer(t, q) \/ Launch(t, q) \/ LaunchFails(t, q)
         \/ Answer(t, q) \/ CancelSlot(t, q) \/ Nothing(t, q)
  /\ UNCHANGED <<scenario, got, waiting, loopVars>>

TasksDone ==
  /\ loop = "tasks" /\ queue = <<>>
  /\ loop' = "update"
  /\ UNCHANGED <<scenario, clientVars, taskVars, waiting, results, rest, slot,
                 running>>

-----------------------------------------------------------------------------
(* The loop: update_slots, and the wait for tasks.                         *)

(* While a slot is busy the loop has a task for itself in the queue.       *)
UpdateSlots ==
  /\ loop = "update"
  /\ rest' = {s \in Slot : Busy(s)}
  /\ IF rest' = {} THEN queue' = queue /\ loop' = "check"
     ELSE queue' = Append(queue, NextResponse) /\ loop' = "slots"
  /\ UNCHANGED <<scenario, clientVars, deferred, waiting, results, slot, running>>

(* A slot decodes more of its prompt, or a token.                          *)
SlotGoesOn(s) ==
  /\ loop = "slots" /\ s \in rest
  /\ slot[s].left > 1
  /\ slot' = [slot EXCEPT ![s].left = @ - 1]
  /\ rest' = rest \ {s}
  /\ IF Req(slot[s].id[1]).stream THEN Send(<<Result(slot[s].id, "partial")>>)
     ELSE UNCHANGED <<results, pc>>
  /\ UNCHANGED <<scenario, got, taskVars, waiting, loop, running>>

(* It has its last token, or its prompt is refused.                        *)
SlotEnds(s) ==
  /\ loop = "slots" /\ s \in rest
  /\ rest' = rest \ {s}
  /\ Release(s, queue)
  /\ \E t \in {"final", "error"} : Send(<<Result(slot[s].id, t)>>)
  /\ UNCHANGED <<scenario, got, waiting, loop, running>>

(* llama_decode fails: every slot is released and its task, also the one   *)
(* an idle slot had, gets an error.                                        *)
DecodeFails ==
  /\ loop = "slots" /\ \E s \in rest : Busy(s)
  /\ loop' = "failed"
  /\ rest' = Slot
  /\ UNCHANGED <<scenario, clientVars, taskVars, waiting, results, slot, running>>

SlotFails(s) ==
  /\ loop = "failed" /\ s \in rest
  /\ rest' = rest \ {s}
  /\ Release(s, queue)
  /\ Send(<<Result(slot[s].id, "error")>>)
  /\ UNCHANGED <<scenario, got, waiting, loop, running>>

SlotsDone ==
  /\ loop \in {"slots", "failed"} /\ rest = {}
  /\ loop' = "check"
  /\ UNCHANGED <<scenario, clientVars, taskVars, waiting, results, rest, slot,
                 running>>

(* Variant: the loop ends although there are tasks.                        *)
CheckRunningFirst ==
  /\ loop = "check"
  /\ loop' = IF ~running THEN "done" ELSE IF queue # <<>> THEN "tasks" ELSE "asleep"
  /\ UNCHANGED <<scenario, clientVars, taskVars, waiting, results, rest, slot,
                 running>>

Check ==
  /\ loop = "check"
  /\ loop' = IF queue # <<>> THEN "tasks" ELSE IF ~running THEN "done" ELSE "asleep"
  /\ UNCHANGED <<scenario, clientVars, taskVars, waiting, results, rest, slot,
                 running>>

WakeUp ==
  /\ loop = "awake"
  /\ loop' = IF queue # <<>> \/ ~running THEN "tasks" ELSE "asleep"
  /\ UNCHANGED <<scenario, clientVars, taskVars, waiting, results, rest, slot,
                 running>>

(* Variant: the loop is not notified.                                      *)
TerminateQuietly ==
  /\ running' = FALSE
  /\ UNCHANGED <<scenario, clientVars, taskVars, waiting, results, loop, rest, slot>>

(* The signal handler.                                                     *)
Terminate ==
  /\ running' = FALSE
  /\ loop' = Notified(loop)
  /\ UNCHANGED <<scenario, clientVars, taskVars, waiting, results, rest, slot>>

-----------------------------------------------------------------------------
ClientNext(c) == \/ Register(c) \/ PostTasks(c) \/ Sleep(c) \/ Receive(c)
                 \/ CancelResults(c) \/ CancelTasks(c) \/ Leave(c)

SlotNext(s) == SlotGoesOn(s) \/ SlotEnds(s) \/ SlotFails(s)

LoopNext == \/ Start \/ Process \/ TasksDone \/ UpdateSlots \/ DecodeFails
            \/ SlotsDone \/ Check \/ WakeUp
            \/ \E s \in Slot : SlotNext(s)

Next == LoopNext \/ Terminate \/ \E c \in Client : ClientNext(c)

(* The threads run; a signal need not come.                                *)
Fairness == WF_vars(LoopNext) /\ \A c \in Client : WF_vars(ClientNext(c))

Spec == Init /\ [][Next]_vars /\ Fairness
-----------------------------------------------------------------------------
(* A request that is waited for before its answer can be lost is answered, *)
(* with all its results or an error, unless the server is shut down.       *)
Queued(c) == \E i \in 1..Len(queue \o deferred) :
               LET t == (queue \o deferred)[i] IN t.id \in Ids(c) /\ t.kind # "cancel"

EveryRequestAnswered ==
  \A c \in Client :
    pc[c] = "recv" /\ Queued(c) ~> (pc[c] = "done" \/ loop = "done")

(* The loop neither sleeps nor ends over deferred tasks: as every slot is  *)
(* idle then, no release would ever put them back.                         *)
NoSleepOverDeferred == loop \in {"asleep", "done"} => deferred = <<>>

(* A shut down waits for the work that was accepted: when the loop ends,   *)
(* no slot is in the middle of a completion, and no task is queued but the *)
(* ones that came after it looked for the last time.                       *)
LoopEndsClean ==
  loop = "check" /\ loop' = "done" => queue = <<>> /\ \A s \in Slot : ~Busy(s)

EndsClean == [][LoopEndsClean]_vars

(* A signal that arrives while the loop runs ends it.                      *)
ServerEnds == loop \notin {"start", "done"} /\ ~running ~> loop = "done"

=============================================================================
