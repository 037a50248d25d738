----------------------------- MODULE QueueProofs -----------------------------
(***************************************************************************)
(* Theorems about the two queues that threads share with a worker.         *)
(* ServerQueue, for any number of HTTP threads, slots and rounds, and any  *)
(* requests: the loop ends without unfinished work, and no deferred task   *)
(* is forgotten.  LogQueue, for any size of a new log and any number of    *)
(* messages: nothing that was accepted is lost, doubled or reordered, and  *)
(* a log that is paused is quiet.                                          *)
(***************************************************************************)
EXTENDS ServerQueue, LogQueue, SequenceTheorems, FiniteSetTheorems, TLAPS

TaskId == (Client \X Nat) \union {<<>>}

Task == [kind : {"completion", "metrics", "action", "cancel", "next"},
         id   : TaskId,
         slot : Slot \union {AnySlot}]

(* What the loop's proof needs to know of the types.                       *)
QueueType ==
  /\ scenario \in Scenarios
  /\ queue \in Seq(Task) /\ deferred \in Seq(Task)
  /\ rest \subseteq Slot
  /\ DOMAIN slot = Slot
  /\ \A s \in Slot : slot[s].left \in Nat

(* From the moment the loop has seen a busy slot until it looks whether to *)
(* go on, there is a task in the queue: its own, if no other.              *)
BusyHasTask ==
  loop \in {"slots", "failed", "check"} /\ queue = <<>> => \A s \in Slot : ~Busy(s)

QueueInv == QueueType /\ BusyHasTask
-----------------------------------------------------------------------------
(* What the clients post are tasks.                                        *)
LEMMA TasksAreTasks ==
  ASSUME QueueType, NEW c \in Client
  PROVE  /\ Tasks(c) \in Seq(Task)
         /\ [k \in DOMAIN Tasks(c) |-> Cancel(<<c, k>>)] \in Seq(Task)
<1>1. /\ Req(c).kind \in {"completion", "metrics", "action"}
      /\ Req(c).slots \in Seq(Slot \union {AnySlot})
  BY QueueAssumption DEF QueueType, Req
<1>2. DOMAIN Req(c).slots = 1..Len(Req(c).slots) /\ Len(Req(c).slots) \in Nat
  BY <1>1
<1>3. \A k \in 1..Len(Req(c).slots) :
         /\ Req(c).slots[k] \in Slot \union {AnySlot}
         /\ <<c, k>> \in TaskId
  BY <1>1 DEF TaskId
<1>4. Tasks(c) \in [1..Len(Req(c).slots) -> Task]
  BY <1>1, <1>2, <1>3 DEF Tasks, Task
<1>5. DOMAIN Tasks(c) = 1..Len(Req(c).slots)
  BY <1>4
<1>6. [k \in DOMAIN Tasks(c) |-> Cancel(<<c, k>>)] \in [1..Len(Req(c).slots) -> Task]
  BY <1>3, <1>5 DEF Cancel, Task
<1>7. QED BY <1>2, <1>4, <1>6, SeqDef

(* Posting adds to the queue, at whichever end, and takes nothing away.    *)
LEMMA PostKeeps ==
  ASSUME QueueType, NEW tasks \in Seq(Task), NEW front \in BOOLEAN, Post(tasks, front)
  PROVE  /\ queue' \in Seq(Task)
         /\ queue # <<>> => queue' # <<>>
         /\ loop' = loop \/ (loop = "asleep" /\ loop' = "awake")
<1>1. Reverse(tasks) \in Seq(Task)
  <2>1. /\ Len(tasks) \in Nat
        /\ \A i \in 1..Len(tasks) : tasks[(Len(tasks) - i) + 1] \in Task
    OBVIOUS
  <2>2. Reverse(tasks) \in [1..Len(tasks) -> Task]
    BY <2>1 DEF Reverse
  <2>3. QED BY <2>1, <2>2, SeqDef
<1>2. \A p, q \in Seq(Task) : /\ p \o q \in Seq(Task)
                              /\ p # <<>> \/ q # <<>> => p \o q # <<>>
  BY ConcatProperties, EmptySeq, LenProperties
<1>3. queue \in Seq(Task)
  BY DEF QueueType
<1>4. QED BY <1>1, <1>2, <1>3 DEF Post, Notified

(* A release frees one slot, and the queue only grows.                     *)
LEMMA ReleaseKeeps ==
  ASSUME QueueType, NEW s \in Slot, NEW q \in Seq(Task), Release(s, q)
  PROVE  /\ queue' \in Seq(Task) /\ deferred' \in Seq(Task)
         /\ q # <<>> => queue' # <<>>
         /\ slot' = [slot EXCEPT ![s].left = 0]
<1>1. deferred \in Seq(Task) /\ slot' = [slot EXCEPT ![s].left = 0]
  BY DEF QueueType, Release
<1>2. CASE Busy(s) /\ deferred # <<>>
  <2>1. Head(deferred) \in Task /\ Tail(deferred) \in Seq(Task)
    BY <1>1, <1>2
  <2>2. Append(q, Head(deferred)) \in Seq(Task) /\ Append(q, Head(deferred)) # <<>>
    BY <2>1
  <2>3. QED BY <1>1, <1>2, <2>1, <2>2 DEF Release
<1>3. CASE ~(Busy(s) /\ deferred # <<>>)
  BY <1>1, <1>3 DEF Release
<1>4. QED BY <1>2, <1>3

(* A slot that is set free leaves the others as they are.                  *)
LEMMA FreedSlot ==
  ASSUME QueueType, NEW s \in Slot, slot' = [slot EXCEPT ![s].left = 0]
  PROVE  /\ DOMAIN slot' = Slot
         /\ \A x \in Slot : slot'[x].left \in Nat /\ (slot'[x].left > 0 => Busy(x))
BY DEF QueueType, Busy

-----------------------------------------------------------------------------
LEMMA InitQueue == Init => QueueInv
<1> SUFFICES ASSUME Init PROVE QueueInv
  OBVIOUS
<1>1. \A s \in Slot : slot[s].left = 0 /\ DOMAIN slot = Slot
  BY DEF Init, Idle
<1>2. QED BY <1>1 DEF Init, QueueInv, QueueType, BusyHasTask

LEMMA NextQueue == QueueInv /\ [Next]_vars => QueueInv'
<1> SUFFICES ASSUME QueueInv, [Next]_vars PROVE QueueInv'
  OBVIOUS
<1>0. QueueType /\ BusyHasTask /\ queue \in Seq(Task) /\ deferred \in Seq(Task)
  BY DEF QueueInv, QueueType
<1>1. CASE \/ UNCHANGED <<scenario, queue, deferred, rest, slot, loop>>
  BY <1>0, <1>1 DEF QueueInv, QueueType, BusyHasTask, Busy
<1>2. CASE Start
  BY <1>0, <1>2 DEF Start, QueueInv, QueueType, BusyHasTask, Busy, taskVars
<1>3. CASE Process
  <2> DEFINE t == Head(queue)
             q == Tail(queue)
  <2>1. t \in Task /\ q \in Seq(Task)
    BY <1>0, <1>3 DEF Process
  <2>2. loop = "tasks" /\ UNCHANGED <<scenario, loop, rest>>
    BY <1>3 DEF Process, loopVars
  <2>3. BusyHasTask'
    BY <2>2 DEF BusyHasTask
  <2>4. CASE Defer(t, q)
    <3>1. Append(deferred, t) \in Seq(Task)
      BY <1>0, <2>1
    <3>2. QED BY <1>0, <2>1, <2>2, <2>3, <2>4, <3>1 DEF Defer, QueueInv, QueueType
  <2>5. CASE Launch(t, q) \/ LaunchFails(t, q)
    <3>1. PICK s \in Slot, r \in Nat : slot' = [slot EXCEPT ![s] = [id |-> t.id, left |-> r]]
      BY <2>5, QueueAssumption DEF Launch, LaunchFails, Free
    <3>2. DOMAIN slot' = Slot /\ \A x \in Slot : slot'[x].left \in Nat
      BY <1>0, <3>1 DEF QueueType
    <3>3. queue' = q /\ deferred' = deferred
      BY <2>5 DEF Launch, LaunchFails
    <3>4. QED BY <1>0, <2>1, <2>2, <2>3, <3>2, <3>3 DEF QueueInv, QueueType
  <2>6. CASE Answer(t, q) \/ Nothing(t, q)
    BY <1>0, <2>1, <2>2, <2>3, <2>6 DEF Answer, Nothing, QueueInv, QueueType
  <2>7. CASE CancelSlot(t, q)
    <3>1. CASE \E s \in Slot : slot[s].id = t.id
      <4>1. PICK s \in Slot : Release(s, q)
        BY <2>7, <3>1 DEF CancelSlot
      <4>2. QED BY <1>0, <2>1, <2>2, <2>3, <4>1, ReleaseKeeps, FreedSlot
                DEF QueueInv, QueueType
    <3>2. CASE ~\E s \in Slot : slot[s].id = t.id
      BY <1>0, <2>1, <2>2, <2>3, <2>7, <3>2 DEF CancelSlot, QueueInv, QueueType
    <3>3. QED BY <3>1, <3>2
  <2>8. QED BY <1>3, <2>4, <2>5, <2>6, <2>7 DEF Process
<1>4. CASE TasksDone
  BY <1>0, <1>4 DEF TasksDone, QueueInv, QueueType, BusyHasTask, taskVars
<1>5. CASE UpdateSlots
  <2>1. rest' = {s \in Slot : Busy(s)} /\ UNCHANGED <<scenario, deferred, slot>>
    BY <1>5 DEF UpdateSlots
  <2>2. CASE rest' = {}
    BY <1>0, <1>5, <2>1, <2>2 DEF UpdateSlots, QueueInv, QueueType, BusyHasTask, Busy
  <2>3. CASE rest' # {}
    <3>1. NextResponse \in Task
      BY DEF NextResponse, Task, TaskId
    <3>2. queue' \in Seq(Task) /\ queue' # <<>>
      BY <1>0, <1>5, <2>3, <3>1 DEF UpdateSlots
    <3>3. QED BY <1>0, <2>1, <3>2 DEF QueueInv, QueueType, BusyHasTask
  <2>4. QED BY <2>2, <2>3
<1>6. ASSUME NEW s \in Slot, SlotGoesOn(s) PROVE QueueInv'
  <2>1. /\ slot[s].left \in Nat /\ slot[s].left > 1
        /\ slot' = [slot EXCEPT ![s].left = @ - 1]
        /\ rest' \subseteq rest
        /\ UNCHANGED <<scenario, queue, deferred, loop>>
    BY <1>0, <1>6 DEF SlotGoesOn, QueueType, taskVars
  <2>2. DOMAIN slot' = Slot /\ \A x \in Slot :
           slot'[x].left = IF x = s THEN slot[s].left - 1 ELSE slot[x].left
    BY <1>0, <2>1 DEF QueueType
  <2>3. \A x \in Slot : slot'[x].left \in Nat /\ (slot'[x].left > 0 => Busy(x))
    BY <1>0, <2>1, <2>2 DEF QueueType, Busy
  <2>4. QED BY <1>0, <2>1, <2>2, <2>3 DEF QueueInv, QueueType, BusyHasTask, Busy
<1>7. ASSUME NEW s \in Slot, SlotEnds(s) \/ SlotFails(s) PROVE QueueInv'
  <2>1. Release(s, queue) /\ rest' \subseteq rest /\ UNCHANGED <<scenario, loop>>
    BY <1>7 DEF SlotEnds, SlotFails
  <2>2. /\ queue' \in Seq(Task) /\ deferred' \in Seq(Task)
        /\ queue' = <<>> => queue = <<>>
        /\ slot' = [slot EXCEPT ![s].left = 0]
    BY <1>0, <2>1, ReleaseKeeps
  <2>3. DOMAIN slot' = Slot /\ \A x \in Slot :
           slot'[x].left \in Nat /\ (slot'[x].left > 0 => Busy(x))
    BY <1>0, <2>2, FreedSlot
  <2>4. QED BY <1>0, <2>1, <2>2, <2>3 DEF QueueInv, QueueType, BusyHasTask, Busy
<1>8. CASE DecodeFails
  BY <1>0, <1>8 DEF DecodeFails, QueueInv, QueueType, BusyHasTask, Busy, taskVars
<1>9. CASE SlotsDone
  BY <1>0, <1>9 DEF SlotsDone, QueueInv, QueueType, BusyHasTask, Busy, taskVars
<1>10. CASE Check \/ WakeUp
  BY <1>0, <1>10 DEF Check, WakeUp, QueueInv, QueueType, BusyHasTask, taskVars
<1>11. CASE Terminate
  <2>1. loop' = loop \/ loop' = "awake"
    BY <1>11 DEF Terminate, Notified
  <2>2. QED BY <1>0, <1>11, <2>1
            DEF Terminate, QueueInv, QueueType, BusyHasTask, Busy, taskVars
<1>12. ASSUME NEW c \in Client, PostTasks(c) \/ CancelTasks(c) PROVE QueueInv'
  <2>1. PICK tasks \in Seq(Task), front \in BOOLEAN : Post(tasks, front)
    <3>1. (Req(c).kind = "metrics") \in BOOLEAN
      OBVIOUS
    <3>2. QED BY <1>0, <1>12, <3>1, TasksAreTasks DEF PostTasks, CancelTasks
  <2>2. UNCHANGED <<scenario, deferred, rest, slot>>
    BY <1>12 DEF PostTasks, CancelTasks
  <2>3. /\ queue' \in Seq(Task)
        /\ queue' = <<>> => queue = <<>>
        /\ loop' = loop \/ (loop = "asleep" /\ loop' = "awake")
    BY <1>0, <2>1, PostKeeps
  <2>4. QED BY <1>0, <2>2, <2>3 DEF QueueInv, QueueType, BusyHasTask, Busy
<1>13. ASSUME NEW c \in Client,
              \/ Register(c) \/ Sleep(c) \/ Receive(c)
              \/ CancelResults(c) \/ Leave(c)
       PROVE  UNCHANGED <<scenario, queue, deferred, rest, slot, loop>>
  BY <1>13 DEF Register, Sleep, Receive, CancelResults, Leave, taskVars, loopVars
<1>14. CASE UNCHANGED vars
  BY <1>1, <1>14 DEF vars
<1>15. QED
  BY <1>1, <1>2, <1>3, <1>4, <1>5, <1>6, <1>7, <1>8, <1>9, <1>10, <1>11, <1>12,
     <1>13, <1>14
     DEF Next, LoopNext, SlotNext, ClientNext

(* Only the last look of the loop ends it.                                 *)
LEMMA EndIsClean == QueueInv /\ [Next]_vars => [LoopEndsClean]_vars
<1> SUFFICES ASSUME QueueInv, Next, loop = "check", loop' = "done"
             PROVE  queue = <<>> /\ \A s \in Slot : ~Busy(s)
  BY DEF LoopEndsClean
<1>1. queue = <<>>
  <2>1. CASE LoopNext
    BY <2>1 DEF LoopNext, Start, Process, TasksDone, UpdateSlots, DecodeFails,
                SlotsDone, Check, WakeUp, SlotNext, SlotGoesOn, SlotEnds, SlotFails
  <2>2. CASE Terminate
    BY <2>2 DEF Terminate, Notified
  <2>3. ASSUME NEW c \in Client, ClientNext(c) PROVE FALSE
    BY <2>3 DEF ClientNext, Register, PostTasks, Sleep, Receive, CancelResults,
                CancelTasks, Leave, Post, Notified, loopVars
  <2>4. QED BY <2>1, <2>2, <2>3 DEF Next
<1>2. QED BY <1>1 DEF QueueInv, BusyHasTask

(* EndsClean: however requests, cancellations, failures and the signal     *)
(* meet, start_loop returns with an empty queue and all slots idle.        *)
THEOREM EndsCleanTheorem == Spec => EndsClean
BY InitQueue, NextQueue, EndIsClean, PTL DEF Spec, EndsClean

-----------------------------------------------------------------------------
(* A release puts back one deferred task.  That is enough when the task    *)
(* will take the slot, which is itself released later: when no launch      *)
(* fails and no task is a slot action, which ends at once.  Otherwise it   *)
(* is enough when no second task is deferred.                              *)
Launchable == ~scenario.fails /\ \A c \in Client : Req(c).kind # "action"

Served == Launchable \/ Len(deferred) <= 1

Ordinary    == {t \in Task : t.kind # "action"}
Completions == {t \in Task : t.kind = "completion"}

HasCompletion(q) == \E j \in 1..Len(q) : q[j].kind = "completion"

AwakeInv ==
  /\ Launchable => queue \in Seq(Ordinary) /\ deferred \in Seq(Completions)
  /\ deferred # <<>> => \/ \E s \in Slot : Busy(s)
                        \/ Launchable /\ HasCompletion(queue)
  /\ loop \in {"asleep", "awake", "done"} => deferred = <<>>

LEMMA TailHas ==
  ASSUME NEW q \in Seq(Task), q # <<>>, Head(q).kind # "completion", HasCompletion(q)
  PROVE  HasCompletion(Tail(q))
<1>1. PICK j \in 1..Len(q) : q[j].kind = "completion"
  BY DEF HasCompletion
<1>2. Len(q) \in Nat /\ Len(Tail(q)) = Len(q) - 1 /\ Head(q) = q[1]
      /\ \A k \in 1..Len(q)-1 : Tail(q)[k] = q[k + 1]
  OBVIOUS
<1>3. j # 1
  BY <1>1, <1>2
<1>4. j - 1 \in 1..Len(q)-1 /\ (j - 1) + 1 = j
  BY <1>2, <1>3
<1>5. Tail(q)[j - 1].kind = "completion"
  BY <1>1, <1>2, <1>4
<1>6. QED BY <1>2, <1>4, <1>5 DEF HasCompletion

LEMMA AppendHas ==
  ASSUME NEW q \in Seq(Task), NEW t \in Task
  PROVE  /\ HasCompletion(q) => HasCompletion(Append(q, t))
         /\ t.kind = "completion" => HasCompletion(Append(q, t))
<1>1. /\ Len(q) \in Nat /\ Len(Append(q, t)) = Len(q) + 1
      /\ \A k \in 1..Len(q) : Append(q, t)[k] = q[k]
      /\ Append(q, t)[Len(q) + 1] = t
  OBVIOUS
<1>2. \A k \in 1..Len(q) : k \in 1..Len(q)+1
  BY <1>1
<1>3. Len(q) + 1 \in 1..Len(q)+1
  BY <1>1
<1>4. QED BY <1>1, <1>2, <1>3 DEF HasCompletion

LEMMA ConcatHas ==
  ASSUME NEW p \in Seq(Task), NEW q \in Seq(Task)
  PROVE  /\ HasCompletion(p) => HasCompletion(p \o q)
         /\ HasCompletion(q) => HasCompletion(p \o q)
<1>1. /\ Len(p) \in Nat /\ Len(q) \in Nat /\ Len(p \o q) = Len(p) + Len(q)
      /\ \A k \in 1..Len(p) : (p \o q)[k] = p[k]
      /\ \A k \in 1..Len(q) : (p \o q)[Len(p) + k] = q[k]
  BY ConcatProperties, LenProperties
<1>2. /\ \A k \in 1..Len(p) : k \in 1..Len(p)+Len(q)
      /\ \A k \in 1..Len(q) : Len(p) + k \in 1..Len(p)+Len(q)
  BY <1>1
<1>3. QED BY <1>1, <1>2 DEF HasCompletion

LEMMA ReverseIn ==
  ASSUME NEW T, NEW q \in Seq(T)
  PROVE  Reverse(q) \in Seq(T)
<1>1. Len(q) \in Nat /\ \A k \in 1..Len(q) : q[(Len(q) - k) + 1] \in T
  OBVIOUS
<1>2. Reverse(q) \in [1..Len(q) -> T]
  BY <1>1 DEF Reverse
<1>3. QED BY <1>1, <1>2, SeqDef

(* What the clients post, where no request is a slot action.               *)
LEMMA TasksAreOrdinary ==
  ASSUME QueueType, Launchable, NEW c \in Client
  PROVE  /\ Tasks(c) \in Seq(Ordinary)
         /\ [k \in DOMAIN Tasks(c) |-> Cancel(<<c, k>>)] \in Seq(Ordinary)
<1> DEFINE cancels == [k \in DOMAIN Tasks(c) |-> Cancel(<<c, k>>)]
<1>1. Tasks(c) \in Seq(Task) /\ cancels \in Seq(Task)
  BY TasksAreTasks
<1>2. \A k \in DOMAIN Tasks(c) : Tasks(c)[k].kind # "action"
  BY DEF Tasks, Launchable
<1>3. \A k \in DOMAIN cancels : cancels[k].kind # "action"
  BY DEF Cancel
<1> HIDE DEF cancels
<1>4. ASSUME NEW q \in Seq(Task), \A k \in DOMAIN q : q[k].kind # "action"
      PROVE  q \in Seq(Ordinary)
  <2>1. Len(q) \in Nat /\ DOMAIN q = 1..Len(q) /\ q \in [1..Len(q) -> Task]
    BY LenProperties
  <2>2. q \in [1..Len(q) -> Ordinary]
    BY <1>4, <2>1 DEF Ordinary
  <2>3. QED BY <2>1, <2>2, SeqDef
<1>5. QED BY <1>1, <1>2, <1>3, <1>4 DEF cancels

(* Where a task found no slot, one is busy.                                *)
LEMMA DeferredBehindBusy ==
  ASSUME Slot # {}, NEW t \in Task, Free(t) = {}
  PROVE  \E s \in Slot : Busy(s)
<1>1. t.slot \in Slot \union {AnySlot}
  BY DEF Task
<1>2. QED BY <1>1 DEF Free

(* A release leaves a slot busy, or puts a completion into the queue, or   *)
(* nothing is deferred any more.                                           *)
LEMMA ReleaseServes ==
  ASSUME QueueType, Served, NEW s \in Slot, NEW q \in Seq(Task), Release(s, q),
         scenario' = scenario,
         Launchable => q \in Seq(Ordinary) /\ deferred \in Seq(Completions),
         deferred # <<>> => (\E x \in Slot : Busy(x)) \/ (Launchable /\ HasCompletion(q))
  PROVE  /\ Launchable' => queue' \in Seq(Ordinary) /\ deferred' \in Seq(Completions)
         /\ deferred' # <<>> => \/ \E x \in Slot : Busy(x)'
                                \/ Launchable' /\ HasCompletion(queue')
         /\ deferred = <<>> => deferred' = <<>>
<1>1. Launchable' = Launchable
  BY DEF Launchable, Req
<1>2. deferred \in Seq(Task)
  BY DEF QueueType
<1>3. CASE Busy(s) /\ deferred # <<>>
  <2>1. queue' = Append(q, Head(deferred)) /\ deferred' = Tail(deferred)
    BY <1>3 DEF Release
  <2>2. Head(deferred) \in Task
    BY <1>2, <1>3
  <2>3. CASE Launchable
    <3>1. Head(deferred) \in Completions /\ Tail(deferred) \in Seq(Completions)
      BY <1>3, <2>3
    <3>2. Head(deferred) \in Ordinary /\ Head(deferred).kind = "completion"
      BY <3>1 DEF Completions, Ordinary
    <3>3. Append(q, Head(deferred)) \in Seq(Ordinary)
      BY <2>3, <3>2
    <3>4. HasCompletion(Append(q, Head(deferred)))
      BY <2>2, <3>2, AppendHas
    <3>5. QED BY <1>1, <1>3, <2>1, <2>3, <3>1, <3>3, <3>4
  <2>4. CASE ~Launchable
    <3>1. Len(deferred) <= 1
      BY <2>4 DEF Served
    <3>2. Tail(deferred) = <<>>
      BY <1>2, <1>3, <3>1
    <3>3. QED BY <1>1, <2>1, <2>4, <3>2
  <2>5. QED BY <2>3, <2>4
<1>4. CASE ~(Busy(s) /\ deferred # <<>>)
  <2>1. queue' = q /\ deferred' = deferred
    BY <1>4 DEF Release
  <2>2. ASSUME deferred # <<>> PROVE \A x \in Slot : Busy(x)' = Busy(x)
    <3>1. ~Busy(s) /\ slot' = [slot EXCEPT ![s].left = 0]
      BY <1>4, <2>2 DEF Release
    <3>2. \A x \in Slot : x # s => slot'[x] = slot[x]
      BY <3>1 DEF QueueType
    <3>3. slot'[s].left = 0
      BY <3>1 DEF QueueType
    <3>4. QED BY <3>1, <3>2, <3>3 DEF Busy
  <2>3. QED BY <1>1, <2>1, <2>2
<1>5. QED BY <1>3, <1>4

LEMMA ProcessServes ==
  ASSUME QueueInv, AwakeInv, Served, Slot # {}, Process
  PROVE  AwakeInv'
<1> DEFINE t == Head(queue)
           q == Tail(queue)
<1>1. /\ QueueType /\ queue \in Seq(Task) /\ deferred \in Seq(Task)
      /\ queue # <<>> /\ t \in Task /\ q \in Seq(Task)
  BY DEF Process, QueueInv, QueueType
<1>2. loop' = "tasks" /\ scenario' = scenario /\ Launchable' = Launchable
  BY DEF Process, loopVars, Launchable, Req
<1>3. Launchable => t \in Ordinary /\ q \in Seq(Ordinary) /\ deferred \in Seq(Completions)
  BY <1>1 DEF AwakeInv
<1>4. HasCompletion(queue) /\ t.kind # "completion" => HasCompletion(q)
  BY <1>1, TailHas
<1>5. deferred # <<>> => \/ \E s \in Slot : Busy(s)
                         \/ Launchable /\ HasCompletion(queue)
  BY DEF AwakeInv
<1> HIDE DEF t, q
<1>6. CASE Defer(t, q)
  <2>1. \E s \in Slot : Busy(s)'
    BY <1>1, <1>6, DeferredBehindBusy DEF Defer, Busy
  <2>2. ASSUME Launchable PROVE deferred' \in Seq(Completions) /\ queue' \in Seq(Ordinary)
    <3>1. t \in Completions
      BY <1>3, <1>6, <2>2 DEF Defer, Ordinary, Completions
    <3>2. QED BY <1>3, <1>6, <2>2, <3>1 DEF Defer
  <2>3. QED BY <1>2, <2>1, <2>2 DEF AwakeInv
<1>7. CASE Launch(t, q)
  <2>1. PICK s \in Slot : slot' = [slot EXCEPT ![s] = [id |-> t.id, left |-> Rounds]]
    BY <1>7 DEF Launch, Free
  <2>2. Busy(s)'
    BY <1>1, <2>1, QueueAssumption DEF Busy, QueueType
  <2>3. QED BY <1>2, <1>3, <1>7, <2>2 DEF Launch, AwakeInv
<1>8. CASE LaunchFails(t, q)
  <2>1. ~Launchable /\ queue' = q /\ deferred' = deferred
    BY <1>8 DEF LaunchFails, Launchable
  <2>2. PICK s \in Slot : ~Busy(s) /\ slot' = [slot EXCEPT ![s] = [id |-> t.id, left |-> 0]]
    BY <1>8 DEF LaunchFails, Free
  <2>3. \A x \in Slot : x # s => slot'[x] = slot[x]
    BY <1>1, <2>2 DEF QueueType
  <2>4. \A x \in Slot : Busy(x) => Busy(x)'
    BY <2>2, <2>3 DEF Busy
  <2>5. QED BY <1>2, <1>5, <2>1, <2>4 DEF AwakeInv
<1>9. CASE Answer(t, q) \/ Nothing(t, q)
  <2>1. t.kind # "completion" /\ queue' = q /\ deferred' = deferred /\ slot' = slot
    BY <1>9 DEF Answer, Nothing
  <2>2. QED BY <1>2, <1>3, <1>4, <1>5, <2>1 DEF AwakeInv, Busy
<1>10. CASE CancelSlot(t, q)
  <2>1. t.kind # "completion"
    BY <1>10 DEF CancelSlot
  <2>2. CASE \E s \in Slot : slot[s].id = t.id
    <3>1. PICK s \in Slot : Release(s, q)
      BY <1>10, <2>2 DEF CancelSlot
    <3>2. QED BY <1>1, <1>2, <1>3, <1>4, <1>5, <2>1, <3>1, ReleaseServes DEF AwakeInv
  <2>3. CASE ~\E s \in Slot : slot[s].id = t.id
    <3>1. queue' = q /\ deferred' = deferred /\ slot' = slot
      BY <1>10, <2>3 DEF CancelSlot
    <3>2. QED BY <1>2, <1>3, <1>4, <1>5, <2>1, <3>1 DEF AwakeInv, Busy
  <2>4. QED BY <2>2, <2>3
<1>11. QED BY <1>6, <1>7, <1>8, <1>9, <1>10 DEF Process, t, q

LEMMA PostServes ==
  ASSUME QueueInv, AwakeInv, NEW c \in Client, PostTasks(c) \/ CancelTasks(c)
  PROVE  AwakeInv'
<1>1. QueueType /\ queue \in Seq(Task)
  BY DEF QueueInv, QueueType
<1>2. PICK tasks \in Seq(Task), front \in BOOLEAN :
        Post(tasks, front) /\ (Launchable => tasks \in Seq(Ordinary))
  <2>1. (Req(c).kind = "metrics") \in BOOLEAN
    OBVIOUS
  <2>2. QED BY <1>1, <2>1, TasksAreTasks, TasksAreOrdinary DEF PostTasks, CancelTasks
<1>3. deferred' = deferred /\ slot' = slot /\ scenario' = scenario
      /\ loop' = Notified(loop)
  BY <1>2 DEF PostTasks, CancelTasks, Post
<1>4. Launchable' = Launchable
  BY <1>3 DEF Launchable, Req
<1>5. Launchable => queue' \in Seq(Ordinary)
  <2> SUFFICES ASSUME Launchable PROVE queue' \in Seq(Ordinary)
    OBVIOUS
  <2>1. queue \in Seq(Ordinary) /\ tasks \in Seq(Ordinary) /\ Reverse(tasks) \in Seq(Ordinary)
    BY <1>2, ReverseIn DEF AwakeInv
  <2>2. QED BY <1>2, <2>1, ConcatProperties DEF Post
<1>6. HasCompletion(queue) => HasCompletion(queue')
  <2>1. Reverse(tasks) \in Seq(Task)
    BY ReverseIn
  <2>2. QED BY <1>1, <1>2, <2>1, ConcatHas DEF Post
<1>7. loop' \in {"asleep", "awake", "done"} => loop \in {"asleep", "awake", "done"}
  BY <1>3 DEF Notified
<1>8. QED BY <1>3, <1>4, <1>5, <1>6, <1>7 DEF AwakeInv, Busy

LEMMA AwakeInit == Init => AwakeInv
<1> SUFFICES ASSUME Init PROVE AwakeInv
  OBVIOUS
<1>1. <<>> \in Seq(Ordinary) /\ <<>> \in Seq(Completions)
  OBVIOUS
<1>2. QED BY <1>1 DEF Init, AwakeInv

LEMMA AwakeStep ==
  ASSUME QueueInv, AwakeInv, Served, Slot # {}, [Next]_vars
  PROVE  AwakeInv'
<1>0. /\ QueueType /\ BusyHasTask /\ queue \in Seq(Task) /\ deferred \in Seq(Task)
      /\ Launchable => queue \in Seq(Ordinary) /\ deferred \in Seq(Completions)
      /\ deferred # <<>> => \/ \E s \in Slot : Busy(s)
                            \/ Launchable /\ HasCompletion(queue)
  BY DEF QueueInv, QueueType, AwakeInv
<1>1. ASSUME UNCHANGED <<scenario, queue, deferred, slot>>,
             loop' \in {"asleep", "awake", "done"} => deferred = <<>>
      PROVE  AwakeInv'
  BY <1>0, <1>1 DEF AwakeInv, Launchable, Req, Busy
<1>2. CASE Start \/ TasksDone \/ DecodeFails \/ SlotsDone
  BY <1>1, <1>2 DEF Start, TasksDone, DecodeFails, SlotsDone, taskVars
<1>3. CASE Process
  BY <1>3, ProcessServes
<1>4. CASE UpdateSlots
  <2>1. UNCHANGED <<scenario, deferred, slot>> /\ loop' \in {"check", "slots"}
        /\ queue' \in {queue, Append(queue, NextResponse)}
    BY <1>4 DEF UpdateSlots
  <2>2. NextResponse \in Task /\ NextResponse \in Ordinary
    BY DEF NextResponse, Task, TaskId, Ordinary
  <2>3. HasCompletion(queue) => HasCompletion(queue')
    <3>1. HasCompletion(queue) => HasCompletion(Append(queue, NextResponse))
      BY <1>0, <2>2, AppendHas
    <3>2. QED BY <2>1, <3>1
  <2>4. Launchable => queue' \in Seq(Ordinary)
    <3>1. Launchable => Append(queue, NextResponse) \in Seq(Ordinary)
      BY <1>0, <2>2
    <3>2. QED BY <1>0, <2>1, <3>1
  <2>5. QED BY <1>0, <2>1, <2>3, <2>4 DEF AwakeInv, Launchable, Req, Busy
<1>5. ASSUME NEW s \in Slot, SlotGoesOn(s) PROVE AwakeInv'
  <2>1. /\ slot[s].left \in Nat /\ slot[s].left > 1
        /\ slot' = [slot EXCEPT ![s].left = @ - 1]
        /\ UNCHANGED <<scenario, queue, deferred>> /\ loop' = "slots"
    BY <1>0, <1>5 DEF SlotGoesOn, QueueType, taskVars
  <2>2. slot'[s].left = slot[s].left - 1
    BY <1>0, <2>1 DEF QueueType
  <2>3. Busy(s)'
    BY <2>1, <2>2 DEF Busy
  <2>4. QED BY <1>0, <2>1, <2>3 DEF AwakeInv, Launchable, Req
<1>6. ASSUME NEW s \in Slot, SlotEnds(s) \/ SlotFails(s) PROVE AwakeInv'
  <2>1. Release(s, queue) /\ scenario' = scenario /\ loop' \in {"slots", "failed"}
    BY <1>6 DEF SlotEnds, SlotFails
  <2>2. QED BY <1>0, <2>1, ReleaseServes DEF AwakeInv
<1>7. CASE Check
  <2>1. UNCHANGED <<scenario, queue, deferred, slot>> /\ loop = "check"
        /\ (loop' \in {"asleep", "awake", "done"} => queue = <<>>)
    BY <1>7 DEF Check, taskVars
  <2>2. ASSUME queue = <<>> PROVE deferred = <<>>
    <3>1. ~HasCompletion(queue)
      BY <2>2 DEF HasCompletion
    <3>2. \A s \in Slot : ~Busy(s)
      BY <1>0, <2>1, <2>2 DEF BusyHasTask
    <3>3. QED BY <1>0, <3>1, <3>2
  <2>3. QED BY <1>1, <2>1, <2>2
<1>8. CASE WakeUp
  BY <1>1, <1>8 DEF WakeUp, taskVars, AwakeInv
<1>9. CASE Terminate
  <2>1. loop' \in {"asleep", "awake", "done"} => loop \in {"asleep", "awake", "done"}
    BY <1>9 DEF Terminate, Notified
  <2>2. QED BY <1>1, <1>9, <2>1 DEF Terminate, taskVars, AwakeInv
<1>10. ASSUME NEW c \in Client, ClientNext(c) PROVE AwakeInv'
  <2>1. CASE PostTasks(c) \/ CancelTasks(c)
    BY <2>1, PostServes
  <2>2. CASE \/ Register(c) \/ Sleep(c) \/ Receive(c)
             \/ CancelResults(c) \/ Leave(c)
    <3>1. UNCHANGED <<scenario, queue, deferred, slot, loop>>
      BY <2>2 DEF Register, Sleep, Receive, CancelResults, Leave, taskVars, loopVars
    <3>2. QED BY <1>1, <3>1 DEF AwakeInv
  <2>3. QED BY <1>10, <2>1, <2>2 DEF ClientNext
<1>11. CASE UNCHANGED vars
  BY <1>1, <1>11 DEF vars, AwakeInv
<1>12. QED
  BY <1>2, <1>3, <1>4, <1>5, <1>6, <1>7, <1>8, <1>9, <1>10, <1>11
     DEF Next, LoopNext, SlotNext

(* The loop neither sleeps nor ends over deferred tasks, as long as what a *)
(* release puts back is sure to take the slot, or nothing else is waiting: *)
(* pop_deferred_task looks at one task only.                               *)
THEOREM NobodyIsForgotten ==
  Slot # {} => (Spec /\ []Served => []NoSleepOverDeferred)
<1> SUFFICES ASSUME Slot # {} PROVE Spec /\ []Served => []NoSleepOverDeferred
  OBVIOUS
<1>1. AwakeInv => NoSleepOverDeferred
  BY DEF AwakeInv, NoSleepOverDeferred
<1>2. QueueInv /\ AwakeInv /\ Served /\ [Next]_vars => AwakeInv'
  BY AwakeStep
<1>3. QED BY <1>1, <1>2, InitQueue, NextQueue, AwakeInit, PTL DEF Spec
-----------------------------------------------------------------------------
(* The log.                                                                *)
(* The buffer ends with the entry for the end.                             *)
Marked == owner = "join" /\ worker # "off"

(* Messages the worker took.                                               *)
Sent == Len(printed) + (IF worker = "print" THEN 1 ELSE 0)

LogType ==
  /\ Size \in Nat /\ Size >= 2
  /\ entries \in [0..Size-1 -> Nat]
  /\ head \in 0..Size-1 /\ tail \in 0..Size-1
  /\ log_running = (owner = "on")
  /\ owner \in {"on", "join", "paused"}
  /\ worker \in {"wait", "asleep", "print", "off"}
  /\ accepted \in Seq(Nat) /\ printed \in Seq(Nat) /\ cur \in Nat

(* Both sequences count from 1, and so do the entries in the buffer.       *)
InSequence ==
  /\ \A k \in 1..Len(accepted) : accepted[k] = k
  /\ \A k \in 1..Len(printed) : printed[k] = k
  /\ worker = "print" => cur = Len(printed) + 1

(* Length of the buffer, and its k-th entry.                               *)
Length == IF tail > head \/ (tail = head /\ ~Marked) THEN tail - head
                                                     ELSE tail + Size - head
At(k)  == entries[IF head + k < Size THEN head + k ELSE head + k - Size]

BufferFollows ==
  /\ Len(accepted) = Sent + Length - (IF Marked THEN 1 ELSE 0)
  /\ \A k \in 0..Length - 1 :
       At(k) = IF Marked /\ k = Length - 1 THEN End ELSE Sent + 1 + k

(* The worker is gone only when it took the entry for the end.             *)
OffIsEmpty ==
  /\ owner = "on" => worker # "off"
  /\ owner = "paused" => worker = "off"
  /\ worker = "off" => head = tail

LogInv == LogType /\ InSequence /\ BufferFollows /\ OffIsEmpty
-----------------------------------------------------------------------------
(* Going round once.                                                       *)
LEMMA Wrap ==
  \A s \in Nat, x \in Nat : s > 0 /\ x < 2 * s => x % s = IF x < s THEN x ELSE x - s
<1> SUFFICES ASSUME NEW s \in Nat, s > 0, NEW x \in Nat, x < 2 * s
             PROVE  x % s = IF x < s THEN x ELSE x - s
  OBVIOUS
<1>1. CASE x < s  BY <1>1
<1>2. CASE x >= s
  <2>1. x = s * 1 + (x - s) /\ x - s \in 0..s-1
    BY <1>2
  <2>2. x = s * (x \div s) + (x % s) /\ x % s \in 0..s-1 /\ x \div s \in Int
    OBVIOUS
  <2>3. x % s = x - s
    BY <2>1, <2>2
  <2>4. QED BY <1>2, <2>3
<1>3. QED BY <1>1, <1>2

(* The places next to head and tail, and those of the entries.             *)
LEMMA Turns ==
  ASSUME LogType
  PROVE  /\ (tail + 1) % Size = IF tail + 1 < Size THEN tail + 1 ELSE 0
         /\ (head + 1) % Size = IF head + 1 < Size THEN head + 1 ELSE 0
         /\ (tail + Size - head) % Size = IF tail < head THEN tail + Size - head ELSE tail - head
         /\ \A k \in 0..Size-1 :
              (head + k) % Size = IF head + k < Size THEN head + k ELSE head + k - Size
<1>1. Size \in Nat /\ Size > 0 /\ head \in 0..Size-1 /\ tail \in 0..Size-1
  BY DEF LogType
<1>2. tail + 1 \in Nat /\ tail + 1 < 2 * Size
  BY <1>1
<1>3. (tail + 1) % Size = IF tail + 1 < Size THEN tail + 1 ELSE tail + 1 - Size
  BY <1>1, <1>2, Wrap
<1>4. head + 1 \in Nat /\ head + 1 < 2 * Size
  BY <1>1
<1>5. (head + 1) % Size = IF head + 1 < Size THEN head + 1 ELSE head + 1 - Size
  BY <1>1, <1>4, Wrap
<1>6. tail + Size - head \in Nat /\ tail + Size - head < 2 * Size
  BY <1>1
<1>7. (tail + Size - head) % Size =
        IF tail + Size - head < Size THEN tail + Size - head ELSE tail + Size - head - Size
  BY <1>1, <1>6, Wrap
<1>8. ASSUME NEW k \in 0..Size-1
      PROVE  (head + k) % Size = IF head + k < Size THEN head + k ELSE head + k - Size
  <2>1. head + k \in Nat /\ head + k < 2 * Size
    BY <1>1
  <2>2. QED BY <1>1, <2>1, Wrap
<1>9. QED
  <2>1. (tail + 1) % Size = IF tail + 1 < Size THEN tail + 1 ELSE 0
    BY <1>1, <1>3
  <2>2. (head + 1) % Size = IF head + 1 < Size THEN head + 1 ELSE 0
    BY <1>1, <1>5
  <2>3. (tail + Size - head) % Size = IF tail < head THEN tail + Size - head ELSE tail - head
    BY <1>1, <1>7
  <2>4. QED BY <1>8, <2>1, <2>2, <2>3

LEMMA SizeOf ==
  ASSUME NEW s \in Nat, NEW e, DOMAIN e = 0..s-1
  PROVE  Cardinality(DOMAIN e) = s
BY FS_Interval

LEMMA InitLog == LogInit => LogInv
<1> SUFFICES ASSUME LogInit PROVE LogInv
  OBVIOUS
<1>1. Size = Capacity
  BY SizeOf, LogAssumption DEF LogInit, Size
<1>2. /\ Size \in Nat /\ Size >= 2 /\ head \in 0..Size-1 /\ tail \in 0..Size-1
      /\ entries \in [0..Size-1 -> Nat]
  BY <1>1, LogAssumption DEF LogInit, End
<1>3. log_running = (owner = "on")
  BY DEF LogInit
<1>4. LogType
  BY <1>2, <1>3 DEF LogInit, LogType, End
<1>5. QED
  BY <1>1, <1>4, LogAssumption
     DEF LogInit, LogInv, InSequence, BufferFollows, OffIsEmpty, Length, Marked, Sent
-----------------------------------------------------------------------------
(* add, when there is a free entry left: one more at the end.              *)
LEMMA AddFits ==
  ASSUME LogInv, Add, (tail + 1) % Size # head
  PROVE  LogInv'
<1> DEFINE m == Len(accepted) + 1
           T == IF tail + 1 < Size THEN tail + 1 ELSE 0
<1>1. LogType /\ InSequence /\ BufferFollows /\ OffIsEmpty
  BY DEF LogInv
<1>2. (tail + 1) % Size = T
  BY <1>1, Turns
<1>20. T \in 0..Size-1 /\ m \in Nat
  BY <1>1 DEF LogType
<1>3. /\ entries' = [entries EXCEPT ![tail] = m] /\ tail' = T /\ head' = head
      /\ T # head
      /\ accepted' = Append(accepted, m)
      /\ worker' = Woken(worker) /\ owner = "on"
      /\ UNCHANGED <<log_running, cur, owner, printed>>
  <2>1. Store(m, T) /\ T # head
    BY <1>2 DEF Add
  <2>2. entries' = [entries EXCEPT ![tail] = m] /\ tail' = T /\ head' = head
    BY <2>1 DEF Store
  <2>3. owner = "on"
    BY <1>1 DEF Add, LogType
  <2>4. QED BY <2>1, <2>2, <2>3 DEF Add
<1>4. Size' = Size
  BY <1>1, <1>3 DEF Size, LogType
<1>5. /\ worker' \in {"wait", "asleep", "print"} /\ (worker' = "print") = (worker = "print")
      /\ ~Marked /\ ~Marked'
  BY <1>1, <1>3 DEF Woken, LogType, OffIsEmpty, Marked
<1>6. LogType'
  BY <1>1, <1>2, <1>3, <1>4, <1>5 DEF LogType
<1>7. Len(accepted') = m /\ \A k \in 1..m : accepted'[k] = k
  BY <1>1, <1>3 DEF LogType, InSequence
<1>8. InSequence' /\ OffIsEmpty' /\ Sent' = Sent /\ Sent \in Nat
  BY <1>1, <1>3, <1>5, <1>7 DEF InSequence, OffIsEmpty, LogType, Sent
<1>9. Length' = Length + 1 /\ Length \in Nat /\ Length < Size - 1
  BY <1>1, <1>2, <1>3, <1>4, <1>5 DEF Length, LogType
<1>10. \A k \in 0..Length : At(k)' = IF k = Length THEN m ELSE At(k)
  BY <1>1, <1>2, <1>3, <1>4, <1>5, <1>9 DEF Length, LogType, At
<1>11. BufferFollows'
  BY <1>1, <1>5, <1>7, <1>8, <1>9, <1>10 DEF BufferFollows
<1>12. QED BY <1>6, <1>8, <1>11 DEF LogInv

(* add, when it takes the last free entry: the buffer is moved to the      *)
(* start of one twice as large.                                            *)
LEMMA AddGrows ==
  ASSUME LogInv, Add, (tail + 1) % Size = head
  PROVE  LogInv'
<1> DEFINE m == Len(accepted) + 1
           full == [entries EXCEPT ![tail] = m]
<1>1. LogType /\ InSequence /\ BufferFollows /\ OffIsEmpty
  BY DEF LogInv
<1>2. head = IF tail + 1 < Size THEN tail + 1 ELSE 0
  BY <1>1, Turns
<1>20. m \in Nat
  BY <1>1 DEF LogType
<1>3. /\ entries' = [i \in 0..2 * Size - 1 |->
                       IF i < Size THEN full[(head + i) % Size] ELSE End]
      /\ tail' = Size /\ head' = 0
      /\ accepted' = Append(accepted, m)
      /\ worker' = Woken(worker) /\ owner = "on"
      /\ UNCHANGED <<log_running, cur, owner, printed>>
  BY <1>1, <1>2 DEF Add, Store, LogType
<1>4. Size' = 2 * Size
  BY <1>1, <1>3, SizeOf, 2 * Size \in Nat DEF Size, LogType
<1>5. /\ worker' \in {"wait", "asleep", "print"} /\ (worker' = "print") = (worker = "print")
      /\ ~Marked /\ ~Marked'
  BY <1>1, <1>3 DEF Woken, LogType, OffIsEmpty, Marked
<1>6. \A i \in 0..Size-1 :
         (head + i) % Size = IF head + i < Size THEN head + i ELSE head + i - Size
  BY <1>1, Turns
<1>7. \A i \in 0..Size-1 : entries'[i] = IF i = Size - 1 THEN m ELSE At(i)
  <2> SUFFICES ASSUME NEW i \in 0..Size-1
               PROVE  entries'[i] = IF i = Size - 1 THEN m ELSE At(i)
    OBVIOUS
  <2> DEFINE p == IF head + i < Size THEN head + i ELSE head + i - Size
  <2>1. Size \in Nat /\ p \in 0..Size-1 /\ (p = tail) = (i = Size - 1)
    BY <1>1, <1>2 DEF LogType
  <2>2. entries'[i] = full[p]
    BY <1>3, <1>6, <2>1
  <2>3. full[p] = IF p = tail THEN m ELSE entries[p]
    BY <1>1, <2>1 DEF LogType
  <2>4. QED BY <2>1, <2>2, <2>3 DEF At
<1>8. entries' \in [0..Size'-1 -> Nat]
  <2>1. ASSUME NEW i \in 0..Size-1 PROVE entries'[i] \in Nat
    <3>1. At(i) \in Nat
      BY <1>1 DEF LogType, At
    <3>2. QED BY <1>7, <1>20, <3>1
  <2>2. \A i \in 0..2*Size-1 : entries'[i] \in Nat
    BY <1>1, <1>3, <2>1 DEF LogType, End
  <2>3. QED BY <1>3, <1>4, <2>2
<1>9. LogType'
  BY <1>1, <1>2, <1>3, <1>4, <1>5, <1>8 DEF LogType
<1>10. Len(accepted') = m /\ \A k \in 1..m : accepted'[k] = k
  BY <1>1, <1>3 DEF LogType, InSequence
<1>11. InSequence' /\ OffIsEmpty' /\ Sent' = Sent /\ Sent \in Nat
  BY <1>1, <1>3, <1>5, <1>10 DEF InSequence, OffIsEmpty, LogType, Sent
<1>12. Length = Size - 1 /\ Length' = Size
  BY <1>1, <1>2, <1>3, <1>4, <1>5 DEF Length, LogType
<1>13. \A k \in 0..Size-1 : At(k)' = entries'[k]
  BY <1>1, <1>3, <1>4 DEF At, LogType
<1>14. BufferFollows'
  <2>1. Size \in Nat /\ m = Sent + Size
    BY <1>1, <1>5, <1>11, <1>12 DEF LogType, BufferFollows
  <2>2. \A k \in 0..Size-1 : At(k)' = Sent + 1 + k
    BY <1>1, <1>5, <1>7, <1>11, <1>12, <1>13, <2>1 DEF BufferFollows
  <2>3. QED BY <1>5, <1>10, <1>11, <1>12, <2>1, <2>2 DEF BufferFollows
<1>15. QED BY <1>9, <1>11, <1>14 DEF LogInv

(* pause: the entry for the end is one more, and may fill the buffer.      *)
LEMMA PauseMarks == ASSUME LogInv, Pause PROVE LogInv'
<1> DEFINE T == IF tail + 1 < Size THEN tail + 1 ELSE 0
<1>1. LogType /\ InSequence /\ BufferFollows /\ OffIsEmpty
  BY DEF LogInv
<1>2. (tail + 1) % Size = T /\ T \in 0..Size-1
  BY <1>1, Turns DEF LogType
<1>3. /\ entries' = [entries EXCEPT ![tail] = End] /\ tail' = T
      /\ owner = "on" /\ owner' = "join" /\ log_running' = FALSE
      /\ worker' = Woken(worker)
      /\ UNCHANGED <<head, cur, accepted, printed>>
  BY <1>2 DEF Pause
<1>4. Size' = Size
  BY <1>1, <1>3 DEF Size, LogType
<1>5. /\ worker' \in {"wait", "asleep", "print"} /\ (worker' = "print") = (worker = "print")
      /\ ~Marked /\ Marked'
  BY <1>1, <1>3 DEF Woken, LogType, OffIsEmpty, Marked
<1>6. LogType'
  BY <1>1, <1>2, <1>3, <1>4, <1>5 DEF LogType, End
<1>7. InSequence' /\ OffIsEmpty' /\ Sent' = Sent /\ Sent \in Nat
  BY <1>1, <1>3, <1>5 DEF InSequence, OffIsEmpty, LogType, Sent
<1>8. Length' = Length + 1 /\ Length \in Nat /\ Length < Size
  BY <1>1, <1>2, <1>3, <1>4, <1>5 DEF Length, LogType
<1>9. \A k \in 0..Length : At(k)' = IF k = Length THEN End ELSE At(k)
  BY <1>1, <1>2, <1>3, <1>4, <1>5, <1>8 DEF Length, LogType, At
<1>10. BufferFollows'
  <2>1. Len(accepted') = Len(accepted) /\ Len(accepted) \in Nat
    BY <1>1, <1>3 DEF LogType
  <2>2. QED BY <1>1, <1>5, <1>7, <1>8, <1>9, <2>1 DEF BufferFollows
<1>11. QED BY <1>6, <1>7, <1>10 DEF LogInv

(* The worker takes the first entry; if it is the end, it was the last.    *)
LEMMA TakeFirst == ASSUME LogInv, Take PROVE LogInv'
<1> DEFINE H == IF head + 1 < Size THEN head + 1 ELSE 0
<1>1. LogType /\ InSequence /\ BufferFollows /\ OffIsEmpty
  BY DEF LogInv
<1>2. (head + 1) % Size = H /\ H \in 0..Size-1
  BY <1>1, Turns DEF LogType
<1>3. /\ worker = "wait" /\ head # tail
      /\ cur' = entries[head] /\ head' = H
      /\ worker' = (IF cur' = End THEN "off" ELSE "print")
      /\ UNCHANGED <<entries, tail, log_running, owner, accepted, printed>>
  BY <1>2 DEF Take
<1>4. Size' = Size
  BY <1>3 DEF Size
<1>5. LogType' /\ Len(accepted) \in Nat /\ Len(printed) \in Nat
  BY <1>1, <1>2, <1>3, <1>4 DEF LogType
<1>6. cur' = At(0) /\ Length \in Nat /\ Length >= 1 /\ Sent = Len(printed)
  BY <1>1, <1>3 DEF At, LogType, Length, Sent
<1>7. cur' = (IF Marked /\ Length = 1 THEN End ELSE Sent + 1)
  BY <1>1, <1>6 DEF BufferFollows
<1>8. CASE Marked /\ Length = 1
  <2>1. worker' = "off" /\ ~Marked' /\ Sent' = Sent /\ owner = "join"
    BY <1>3, <1>7, <1>8 DEF Marked, Sent
  <2>0. H = tail
    BY <1>1, <1>8 DEF Length, LogType
  <2>2. InSequence' /\ OffIsEmpty'
    BY <1>1, <1>3, <2>1, <2>0 DEF InSequence, OffIsEmpty
  <2>3. Length' = 0
    BY <1>1, <1>2, <1>3, <2>1, <2>0 DEF Length, LogType
  <2>4. BufferFollows'
    BY <1>1, <1>3, <1>5, <1>6, <1>8, <2>1, <2>3 DEF BufferFollows
  <2>5. QED BY <1>5, <2>2, <2>4 DEF LogInv
<1>9. CASE ~(Marked /\ Length = 1)
  <2>1. /\ worker' = "print" /\ Marked' = Marked /\ Sent' = Sent + 1
        /\ cur' = Len(printed) + 1
    BY <1>3, <1>5, <1>6, <1>7, <1>9 DEF Marked, Sent, End
  <2>2. InSequence' /\ OffIsEmpty'
    BY <1>1, <1>3, <2>1 DEF InSequence, OffIsEmpty
  <2>3. Length' = Length - 1
    BY <1>1, <1>2, <1>3, <1>4, <1>6, <1>9, <2>1 DEF Length, LogType
  <2>4. \A k \in 0..Length - 2 : At(k)' = At(k + 1)
    <3> SUFFICES ASSUME NEW k \in 0..Length - 2 PROVE At(k)' = At(k + 1)
      OBVIOUS
    <3>1. Size \in Nat /\ Length \in 0..Size
      BY <1>1, <1>6 DEF Length, LogType
    <3>2. (IF H + k < Size THEN H + k ELSE H + k - Size)
            = (IF head + (k + 1) < Size THEN head + (k + 1) ELSE head + (k + 1) - Size)
      BY <1>1, <1>6, <3>1 DEF LogType
    <3>3. QED BY <1>3, <1>4, <3>2 DEF At
  <2>5. BufferFollows'
    BY <1>1, <1>3, <1>5, <1>6, <2>1, <2>3, <2>4 DEF BufferFollows
  <2>6. QED BY <1>5, <2>2, <2>5 DEF LogInv
<1>10. QED BY <1>8, <1>9

LEMMA PrintNext == ASSUME LogInv, PrintEntry PROVE LogInv'
<1>1. LogType /\ InSequence /\ BufferFollows /\ OffIsEmpty
  BY DEF LogInv
<1>2. /\ worker = "print" /\ worker' = "wait"
      /\ printed' = Append(printed, cur) /\ cur = Len(printed) + 1
      /\ UNCHANGED <<entries, head, tail, log_running, cur, owner, accepted>>
  BY <1>1 DEF PrintEntry, InSequence
<1>3. /\ Size' = Size /\ Marked' = Marked
      /\ Len(printed) \in Nat /\ Len(printed') = Len(printed) + 1
  BY <1>1, <1>2 DEF Size, Marked, LogType
<1>4. LogType' /\ OffIsEmpty'
  BY <1>1, <1>2, <1>3 DEF LogType, OffIsEmpty
<1>5. InSequence' /\ Sent' = Sent
  BY <1>1, <1>2, <1>3 DEF LogType, InSequence, Sent
<1>6. Length' = Length /\ \A k : At(k)' = At(k)
  BY <1>2, <1>3 DEF Length, At
<1>7. BufferFollows'
  BY <1>1, <1>2, <1>3, <1>5, <1>6 DEF BufferFollows
<1>8. QED BY <1>4, <1>5, <1>7 DEF LogInv

(* The steps that leave the buffer and the messages alone.                 *)
LEMMA OthersKeep ==
  ASSUME LogInv, JoinWorker \/ Resume \/ WorkerSleeps \/ UNCHANGED logVars
  PROVE  LogInv'
<1>1. LogType /\ InSequence /\ BufferFollows /\ OffIsEmpty
  BY DEF LogInv
<1>2. UNCHANGED <<entries, head, tail, cur, accepted, printed>>
  BY DEF JoinWorker, Resume, WorkerSleeps, logVars
<1>3. Size' = Size /\ Marked' = Marked /\ Sent' = Sent
  BY <1>1, <1>2 DEF Size, Marked, Sent, JoinWorker, Resume, WorkerSleeps, logVars, OffIsEmpty
<1>4. LogType'
  BY <1>1, <1>2, <1>3 DEF LogType, JoinWorker, Resume, WorkerSleeps, logVars
<1>5. InSequence' /\ OffIsEmpty'
  BY <1>1, <1>2 DEF InSequence, OffIsEmpty, JoinWorker, Resume, WorkerSleeps, logVars
<1>6. Length' = Length /\ \A k : At(k)' = At(k)
  BY <1>2, <1>3 DEF Length, At
<1>7. BufferFollows'
  BY <1>1, <1>2, <1>3, <1>6 DEF BufferFollows
<1>8. QED BY <1>4, <1>5, <1>7 DEF LogInv

LEMMA NextLog == LogInv /\ [LogNext]_logVars => LogInv'
<1> SUFFICES ASSUME LogInv, [LogNext]_logVars PROVE LogInv'
  OBVIOUS
<1>1. CASE Add  BY <1>1, AddFits, AddGrows
<1>2. CASE Pause  BY <1>2, PauseMarks
<1>3. CASE JoinWorker \/ Resume \/ WorkerSleeps \/ UNCHANGED logVars  BY <1>3, OthersKeep
<1>4. CASE Take  BY <1>4, TakeFirst
<1>5. CASE PrintEntry  BY <1>5, PrintNext
<1>6. QED BY <1>1, <1>2, <1>3, <1>4, <1>5 DEF LogNext, Worker, Halted

LEMMA LogCorrect == LogSpec => []LogInv
BY InitLog, NextLog, PTL DEF LogSpec
-----------------------------------------------------------------------------
LEMMA QuietFollows == LogInv => PausedIsQuiet
<1> SUFFICES ASSUME LogInv, owner = "paused" PROVE worker = "off" /\ printed = accepted
  BY DEF PausedIsQuiet
<1>1. LogType /\ InSequence /\ BufferFollows /\ OffIsEmpty
  BY DEF LogInv
<1>2. worker = "off" /\ ~Marked /\ Length = 0 /\ Sent = Len(printed)
  BY <1>1 DEF OffIsEmpty, Marked, Length, Sent, LogType
<1>3. Len(printed) = Len(accepted) /\ Len(printed) \in Nat
  BY <1>1, <1>2 DEF BufferFollows, LogType
<1>4. \A k \in 1..Len(printed) : printed[k] = accepted[k]
  BY <1>1, <1>3 DEF InSequence
<1>5. printed = accepted
  BY <1>1, <1>3, <1>4, SeqEqual DEF LogType
<1>6. QED BY <1>2, <1>5

LEMMA NothingLostFollows == LogInv => NothingLost
<1> SUFFICES ASSUME LogInv PROVE NothingLost
  OBVIOUS
<1> DEFINE n == Len(Taken)
           L == Length - (IF Marked THEN 1 ELSE 0)
<1>1. LogType /\ InSequence /\ BufferFollows /\ OffIsEmpty
  BY DEF LogInv
<1>2. /\ Taken \in Seq(Nat) /\ n = Sent /\ n \in Nat
      /\ \A k \in 1..n : Taken[k] = k
  BY <1>1 DEF LogType, InSequence, Taken, Sent
<1>3. Taken = [k \in 1..n |-> k]
  BY <1>2
<1>4. Count = Length /\ Length \in 0..Size /\ L \in Nat
  <2>1. Length \in 0..Size /\ L \in Nat
    BY <1>1 DEF Length, Marked, LogType
  <2>2. (tail + Size - head) % Size = IF tail < head THEN tail + Size - head ELSE tail - head
    BY <1>1, Turns
  <2>3. Length = IF Stuck THEN Size
                 ELSE IF tail < head THEN tail + Size - head ELSE tail - head
    BY <1>1 DEF Length, Stuck, Marked, LogType
  <2>4. QED BY <2>1, <2>2, <2>3 DEF Count
<1>5. \A k \in 0..Length-1 : Entry(k) = At(k)
  <2>1. Size \in Nat
    BY <1>1 DEF LogType
  <2>2. \A k \in 0..Size-1 :
          (head + k) % Size = IF head + k < Size THEN head + k ELSE head + k - Size
    BY <1>1, Turns
  <2>3. 0..Length-1 \subseteq 0..Size-1
    BY <1>4, <2>1
  <2>4. QED BY <2>2, <2>3 DEF Entry, At
<1>6. Len(accepted) = n + L
  BY <1>1, <1>2, <1>4 DEF BufferFollows, LogType
<1>7. /\ Places = 0..L-1
      /\ \A k \in 0..L-1 : Entry(k) = n + 1 + k
  BY <1>1, <1>2, <1>4, <1>5 DEF BufferFollows, Places, End
<1>8. {Entry(k) : k \in Places} = n + 1..Len(accepted)
  <2>1. ASSUME NEW x \in n + 1..Len(accepted) PROVE \E k \in Places : x = Entry(k)
    <3>1. x - n - 1 \in 0..L-1 /\ n + 1 + (x - n - 1) = x
      BY <1>2, <1>4, <1>6, <2>1
    <3>2. QED BY <1>7, <3>1
  <2>2. ASSUME NEW k \in Places PROVE Entry(k) \in n + 1..Len(accepted)
    BY <1>2, <1>4, <1>6, <1>7, <2>2
  <2>3. QED BY <2>1, <2>2
<1>9. \A k, l \in Places : k < l => Entry(k) < Entry(l)
  BY <1>2, <1>7
<1>10. QED BY <1>3, <1>8, <1>9 DEF NothingLost

(* Every accepted message is printed once and in order, however often the  *)
(* buffer of common/log.cpp grew, whatever its size, and however often the *)
(* log was paused.                                                         *)
THEOREM NothingLostTheorem == LogSpec => []NothingLost
BY LogCorrect, NothingLostFollows, PTL

(* When gpt_log::pause has returned, the worker has printed everything.    *)
THEOREM PausedIsQuietTheorem == LogSpec => []PausedIsQuiet
BY LogCorrect, QuietFollows, PTL

=============================================================================
