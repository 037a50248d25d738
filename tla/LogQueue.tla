------------------------------ MODULE LogQueue ------------------------------
(***************************************************************************)
(* The log: threads add messages to a ring buffer, a worker thread prints  *)
(* them.  The buffer grows when it is full.  To change the file or the     *)
(* colours the worker is paused: an entry that marks the end is queued,    *)
(* and the worker joined; what is added meanwhile is discarded.            *)
(* Every section under the mutex is a step.  A message is its number.      *)
(***************************************************************************)
EXTENDS Naturals, Sequences, FiniteSets

CONSTANTS Capacity,  (* entries of a new log                                  *)
          Messages   (* bound: messages that are accepted                     *)

ASSUME LogAssumption == Capacity \in Nat /\ Capacity >= 2 /\ Messages \in Nat

VARIABLES
  entries,   (* the ring buffer: a message, or End                            *)
  head, tail,
  log_running, (* running, whether there is a worker                          *)
  worker,    (* "wait", "asleep" in cv.wait, "print", or "off"                *)
  cur,       (* what the worker prints                                        *)
  owner,     (* the thread that pauses and resumes: "on", "join" or "paused"  *)
  accepted,  (* the messages that were not discarded                          *)
  printed    (* those that were printed, in order                             *)

logVars == <<entries, head, tail, log_running, worker, cur, owner, accepted, printed>>

End  == 0
Size == Cardinality(DOMAIN entries)

LogInit ==
  /\ entries = [i \in 0..Capacity - 1 |-> End]
  /\ head = 0 /\ tail = 0
  /\ log_running = TRUE /\ worker = "wait" /\ cur = End
  /\ owner = "on"
  /\ accepted = <<>> /\ printed = <<>>

Woken(w) == IF w = "asleep" THEN "wait" ELSE w

(* Variant: the worker's position is forgotten when the buffer grows.      *)
AddGrowing(m, after) ==
  LET full == [entries EXCEPT ![tail] = m]
  IN  IF after # head
      THEN entries' = full /\ tail' = after /\ UNCHANGED head
      ELSE /\ entries' = [i \in 0..2 * Size - 1 |-> IF i < Size THEN full[i] ELSE End]
           /\ head' = 0 /\ tail' = Size

(* The message is written; a buffer without a free entry is moved to one   *)
(* twice as large.                                                         *)
Store(m, after) ==
  LET full == [entries EXCEPT ![tail] = m]
  IN  IF after # head
      THEN entries' = full /\ tail' = after /\ UNCHANGED head
      ELSE /\ entries' = [i \in 0..2 * Size - 1 |->
                           IF i < Size THEN full[(head + i) % Size] ELSE End]
           /\ head' = 0 /\ tail' = Size

Add ==
  /\ log_running /\ Len(accepted) < Messages
  /\ Store(Len(accepted) + 1, (tail + 1) % Size)
  /\ accepted' = Append(accepted, Len(accepted) + 1)
  /\ worker' = Woken(worker)
  /\ UNCHANGED <<log_running, cur, owner, printed>>

(* Variant: the worker is not notified.                                    *)
PauseQuietly ==
  /\ owner = "on"
  /\ log_running' = FALSE
  /\ entries' = [entries EXCEPT ![tail] = End]
  /\ tail' = (tail + 1) % Size
  /\ owner' = "join"
  /\ UNCHANGED <<head, worker, cur, accepted, printed>>

(* gpt_log::pause, up to the join.                                         *)
Pause ==
  /\ owner = "on"
  /\ log_running' = FALSE
  /\ entries' = [entries EXCEPT ![tail] = End]
  /\ tail' = (tail + 1) % Size
  /\ worker' = Woken(worker)
  /\ owner' = "join"
  /\ UNCHANGED <<head, cur, accepted, printed>>

JoinWorker ==
  /\ owner = "join" /\ worker = "off"
  /\ owner' = "paused"
  /\ UNCHANGED <<entries, head, tail, log_running, worker, cur, accepted, printed>>

Resume ==
  /\ owner = "paused"
  /\ log_running' = TRUE
  /\ worker' = "wait"
  /\ owner' = "on"
  /\ UNCHANGED <<entries, head, tail, cur, accepted, printed>>

(* The worker.                                                             *)
WorkerSleeps ==
  /\ worker = "wait" /\ head = tail
  /\ worker' = "asleep"
  /\ UNCHANGED <<entries, head, tail, log_running, cur, owner, accepted, printed>>

(* Variant: the end is looked for before the queue is empty.               *)
TakeUnlessPaused ==
  /\ worker = "wait" /\ head # tail
  /\ cur' = entries[head]
  /\ head' = (head + 1) % Size
  /\ worker' = IF log_running THEN "print" ELSE "off"
  /\ UNCHANGED <<entries, tail, log_running, owner, accepted, printed>>

Take ==
  /\ worker = "wait" /\ head # tail
  /\ cur' = entries[head]
  /\ head' = (head + 1) % Size
  /\ worker' = IF cur' = End THEN "off" ELSE "print"
  /\ UNCHANGED <<entries, tail, log_running, owner, accepted, printed>>

PrintEntry ==
  /\ worker = "print"
  /\ printed' = Append(printed, cur)
  /\ worker' = "wait"
  /\ UNCHANGED <<entries, head, tail, log_running, cur, owner, accepted>>

(* With one free entry left, the entry for the end makes the buffer look   *)
(* empty: the worker sleeps, and pause never returns.                      *)
Stuck == owner = "join" /\ head = tail /\ worker # "off"

Halted == Stuck /\ worker = "asleep" /\ UNCHANGED logVars

Worker == WorkerSleeps \/ Take \/ PrintEntry

LogNext == Add \/ Pause \/ JoinWorker \/ Resume \/ Worker \/ Halted

(* The worker runs, and who waits for it goes on.                          *)
LogSpec == LogInit /\ [][LogNext]_logVars /\ WF_logVars(Worker) /\ WF_logVars(JoinWorker)
-----------------------------------------------------------------------------
(* The places of the buffer from head to tail that hold a message, and the *)
(* entry at a place.                                                       *)
Count    == IF Stuck THEN Size ELSE (tail + Size - head) % Size
Entry(k) == entries[(head + k) % Size]
Places   == {k \in 0..Count - 1 : Entry(k) # End}

(* What the worker has printed, or is about to.                            *)
Taken == IF worker = "print" THEN Append(printed, cur) ELSE printed

(* Every message that was accepted is printed once and in order: what the  *)
(* worker took are the first messages, and the others are in the buffer in *)
(* order, wherever that was moved to while it was full, and although       *)
(* entries are reused.                                                     *)
NothingLost ==
  LET n == Len(Taken)
  IN  /\ Taken = [k \in 1..n |-> k]
      /\ {Entry(k) : k \in Places} = n + 1..Len(accepted)
      /\ \A k, l \in Places : k < l => Entry(k) < Entry(l)

(* When pause has returned, the worker is gone and has printed all that    *)
(* was accepted: the file may be closed.                                   *)
PausedIsQuiet == owner = "paused" => worker = "off" /\ printed = accepted

(* pause returns, unless it found the buffer with one free entry.          *)
PauseReturns == owner = "join" /\ ~Stuck ~> owner = "paused"

=============================================================================
