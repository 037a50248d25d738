---------------------------- MODULE RingStartup ----------------------------
(***************************************************************************)
(* From N processes that were started by hand to a ring of devices that    *)
(* share a model, and to its end.                                          *)
(*                                                                         *)
(* Messages go around the initial ring rank after rank: the arguments, the *)
(* devices' profiles, the windows.  Then llama_rebuild_topo takes devices  *)
(* without layers out of it.  Each device that stays tries to connect past *)
(* its idle successors to the next device that works; the one it reaches   *)
(* stays, as a forwarder if it has no layers, and those between exit.      *)
(* After that every device numbers the ring by itself, one token goes      *)
(* around, and STOP ends the processes.                                    *)
(*                                                                         *)
(* A window is only ever compared with 0 here: works is the set of ranks   *)
(* with a positive one.  Each process has one pull socket; what comes from *)
(* one sender stays in order, different senders are read in any order.     *)
(***************************************************************************)
EXTENDS Integers, Sequences, FiniteSets

CONSTANTS N,          (* n_world                                              *)
          Host,       (* the machine a rank runs on                           *)
          DataPorts,  (* the data ports the ranks may be given: maps          *)
          SignalPort, (* the signal port of a rank                            *)
          Lost        (* no process listens there                             *)

Rank == 0..N-1

ASSUME StartupAssumption ==
  /\ N \in Nat /\ N >= 2
  /\ \A p \in DataPorts : \A r, s \in Rank :
       r # s => Host[r] # Host[s] \/ p[r] # p[s]
  /\ Lost \notin Rank

VARIABLES
  pc,       (* where each process is                                         *)
  chan,     (* chan[<<s, r>>]: messages from s in the pull socket of r       *)
  auto,     (* auto_schedule of the master: no windows were given            *)
  port,     (* the data ports                                                *)
  works,    (* the ranks with layers, once the master has dealt them         *)
  conn,     (* the send socket: the rank it is meant for and the one it is at*)
  fwd,      (* is_forwarder, as each process has it                          *)
  sig       (* ranks with a STOP in their signal socket                      *)

vars == <<pc, chan, auto, port, works, conn, fwd, sig>>

Succ(r) == (r + 1) % N

Msg(t, v) == [type |-> t, val |-> v]

Push(ch, s, r, m) == IF r = Lost THEN ch
                     ELSE [ch EXCEPT ![<<s, r>>] = Append(@, m)]

(* r reads m from s while it is at place p.                                *)
Reads(r, p, s, m) == /\ pc[r] = p
                     /\ chan[<<s, r>>] # <<>>
                     /\ m = Head(chan[<<s, r>>])

Popped(s, r) == [chan EXCEPT ![<<s, r>>] = Tail(@)]

Goto(r, p) == pc' = [pc EXCEPT ![r] = p]

Init ==
  /\ pc = [r \in Rank |-> IF r = 0 THEN "start" ELSE "args"]
  /\ chan = [e \in Rank \X Rank |-> <<>>]
  /\ auto \in BOOLEAN
  /\ port \in DataPorts
  /\ works = {}
  /\ conn = [r \in Rank |-> [rank |-> Succ(r), node |-> Succ(r)]]
  /\ fwd = [r \in Rank |-> {}]
  /\ sig = {}

-----------------------------------------------------------------------------
(* Arguments, profiles and windows.                                        *)

(* llama_bcast_startup_args: the master sends its arguments, the others    *)
(* pass them on and the last one acknowledges.                             *)
SendArgs ==
  /\ pc[0] = "start"
  /\ chan' = Push(chan, 0, conn[0].node, Msg("args", auto))
  /\ Goto(0, "ack args")
  /\ UNCHANGED <<auto, port, works, conn, fwd, sig>>

PassArgs(r) ==
  \E s \in Rank, m \in {Msg("args", b) : b \in BOOLEAN} :
    /\ Reads(r, "args", s, m)
    /\ chan' = Push(Popped(s, r), r, conn[r].node,
                    IF r = N - 1 THEN Msg("ack", TRUE) ELSE m)
    /\ Goto(r, IF m.val THEN "info" ELSE "setup")
    /\ UNCHANGED <<auto, port, works, conn, fwd, sig>>

(* The windows the user gave are all positive.                             *)
ArgsAcked ==
  \E s \in Rank :
    /\ Reads(0, "ack args", s, Msg("ack", TRUE))
    /\ IF auto
       THEN /\ chan' = Push(Popped(s, 0), 0, conn[0].node, Msg("info", {0}))
            /\ Goto(0, "infos")
            /\ UNCHANGED works
       ELSE /\ chan' = Push(Popped(s, 0), 0, conn[0].node, Msg("setup", Rank))
            /\ Goto(0, "ack setup")
            /\ works' = Rank
    /\ UNCHANGED <<auto, port, conn, fwd, sig>>

(* llama_send_device_info: every device adds its own profile.              *)
AddInfo(r) ==
  \E s \in Rank : \E m \in {chan[<<s, r>>][i] : i \in 1..Len(chan[<<s, r>>])} :
    /\ Reads(r, "info", s, m)
    /\ m.type = "info"
    /\ chan' = Push(Popped(s, r), r, conn[r].node, Msg("info", m.val \cup {r}))
    /\ Goto(r, "setup")
    /\ UNCHANGED <<auto, port, works, conn, fwd, sig>>

(* The master has all profiles and deals the layers.  Whatever the solver  *)
(* finds, the master keeps a window and a device may be left without one.  *)
DealLayers ==
  \E s \in Rank, w \in {u \in SUBSET Rank : 0 \in u} :
    /\ Reads(0, "infos", s, Msg("info", Rank))
    /\ works' = w
    /\ chan' = Push(Popped(s, 0), 0, conn[0].node, Msg("setup", w))
    /\ Goto(0, "ack setup")
    /\ UNCHANGED <<auto, port, conn, fwd, sig>>

(* The solver finds nothing: the master gives up, and tells nobody.        *)
NoAllocation ==
  \E s \in Rank :
    /\ Reads(0, "infos", s, Msg("info", Rank))
    /\ chan' = Popped(s, 0)
    /\ Goto(0, "failed")
    /\ UNCHANGED <<auto, port, works, conn, fwd, sig>>

(* llama_recv_layer_setup.                                                 *)
PassSetup(r) ==
  \E s \in Rank :
    /\ Reads(r, "setup", s, Msg("setup", works))
    /\ chan' = Push(Popped(s, r), r, conn[r].node,
                    IF r = N - 1 THEN Msg("ack", TRUE) ELSE Msg("setup", works))
    /\ Goto(r, IF auto THEN "topo" ELSE "ready")
    /\ UNCHANGED <<auto, port, works, conn, fwd, sig>>

-----------------------------------------------------------------------------
(* llama_rebuild_topo.                                                     *)

Stays(r, f) == r \in works \/ r \in f

(* The ranks after r up to the first one that works, as distances from r;  *)
(* N stands for r itself.                                                  *)
NextWorker(r) ==
  CHOOSE d \in 1..N : /\ (r + d) % N \in works \cup {r}
                      /\ \A e \in 1..d-1 : (r + e) % N \notin works \cup {r}

(* Who answers when r tries to connect to rank t: try_connect adds t to    *)
(* r's own port (map_rank_to_port).                                        *)
Listener(r, t) ==
  LET there == {u \in Rank : Host[u] = Host[t] /\ port[u] = port[r] + t}
  IN  IF there = {} THEN Lost ELSE CHOOSE u \in there : TRUE

(* Distances r may reach directly, beyond its next rank.                   *)
Reachable(r) == {d \in 2..NextWorker(r) : Listener(r, (r + d) % N) # Lost}

(* The farthest one in up, or the next rank, where the socket is already.  *)
Connection(r, up) ==
  IF up = {} THEN conn[r]
  ELSE LET d == CHOOSE d \in up : \A e \in up : e <= d
           t == (r + d) % N
       IN  [rank |-> t, node |-> Listener(r, t)]

(* Variant: the devices that are skipped are not told.                     *)
NotifyNobody(ch, r, f) == ch

(* The old socket tells the next device, which will exit.                  *)
NotifyNext(ch, r, f) == Push(ch, r, conn[r].node, Msg("topo", f))

(* A device that stays connects to c and tells it which ranks forward.     *)
Reconnect(r, ch, f, c) ==
  LET g == f \cup {c.rank}
      moved == c.rank # Succ(r)
  IN  /\ conn' = [conn EXCEPT ![r] = c]
      /\ fwd' = [fwd EXCEPT ![r] = g]
      /\ IF moved /\ Stays(Succ(r), g)
         THEN Goto(r, "aborted") /\ chan' = ch
         ELSE /\ chan' = Push(IF moved THEN NotifyNext(ch, r, g) ELSE ch,
                              r, c.node, Msg("topo", g))
              /\ Goto(r, "view")

(* Nobody else works: the master closes its socket and stays alone.        *)
StayAlone(r, ch, f) ==
  /\ conn' = [conn EXCEPT ![r] = [rank |-> r, node |-> Lost]]
  /\ chan' = NotifyNext(ch, r, f)
  /\ fwd' = [fwd EXCEPT ![r] = f]
  /\ Goto(r, "ready")

(* A device without layers that nobody connected to.                       *)
Exit(r, ch, f) ==
  /\ chan' = IF Stays(Succ(r), f) THEN ch ELSE NotifyNext(ch, r, f)
  /\ fwd' = [fwd EXCEPT ![r] = f]
  /\ Goto(r, "exited")
  /\ UNCHANGED conn

(* A port that somebody listens on may be out of reach all the same.       *)
Rebuild(r, ch, f) ==
  IF ~Stays(r, f) THEN Exit(r, ch, f)
  ELSE IF NextWorker(r) = N THEN StayAlone(r, ch, f)
  ELSE \E up \in SUBSET Reachable(r) : Reconnect(r, ch, f, Connection(r, up))

SetupAcked ==
  \E s \in Rank :
    /\ Reads(0, "ack setup", s, Msg("ack", TRUE))
    /\ IF auto THEN Rebuild(0, Popped(s, 0), {})
       ELSE /\ Goto(0, "ready")
            /\ chan' = Popped(s, 0)
            /\ UNCHANGED <<conn, fwd>>
    /\ UNCHANGED <<auto, port, works, sig>>

RebuildTopo(r) ==
  \E s \in Rank, f \in SUBSET Rank :
    /\ Reads(r, "topo", s, Msg("topo", f))
    /\ Rebuild(r, Popped(s, r), f)
    /\ UNCHANGED <<auto, port, works, sig>>

(* Variants: the view is sent on by all; or it is sent on and not looked at. *)
TakeViewByAll(r) ==
  \E s \in Rank, f \in SUBSET Rank :
    /\ Reads(r, "view", s, Msg("topo", f))
    /\ fwd' = [fwd EXCEPT ![r] = f]
    /\ chan' = Push(Popped(s, r), r, conn[r].node, Msg("topo", f))
    /\ Goto(r, "ready")
    /\ UNCHANGED <<auto, port, works, conn, sig>>

TakeViewStale(r) ==
  \E s \in Rank, f \in SUBSET Rank :
    /\ Reads(r, "view", s, Msg("topo", f))
    /\ chan' = IF conn[r].rank = 0 THEN Popped(s, r)
               ELSE Push(Popped(s, r), r, conn[r].node, Msg("topo", f))
    /\ Goto(r, "ready")
    /\ UNCHANGED <<auto, port, works, conn, fwd, sig>>

(* The marks of the whole ring, from the last device over the master to    *)
(* all others.                                                             *)
TakeView(r) ==
  \E s \in Rank, f \in SUBSET Rank :
    /\ Reads(r, "view", s, Msg("topo", f))
    /\ fwd' = [fwd EXCEPT ![r] = f]
    /\ chan' = IF conn[r].rank = 0 THEN Popped(s, r)
               ELSE Push(Popped(s, r), r, conn[r].node, Msg("topo", f))
    /\ Goto(r, "ready")
    /\ UNCHANGED <<auto, port, works, conn, sig>>

-----------------------------------------------------------------------------
(* The renumbered ring.                                                    *)

(* Ranks that stay in the ring, as r sees it.                              *)
Members(r) == {0} \cup {i \in 1..N-1 : Stays(i, fwd[r])}

(* Ranks that are counted in n_worker; worker_rank counts those up to r.   *)
Workers(r) == Members(r) \cap ({0} \cup works)

UpdateRank(r) == Cardinality({i \in Members(r) : 0 < i /\ i <= r})
WorkerRank(r) == Cardinality({i \in Workers(r) : 0 < i /\ i <= r})
NWorld(r)  == Cardinality(Members(r))
NWorker(r) == Cardinality(Workers(r))

IsForwarder(r) == r \notin works

(* The first token: metadata to all workers, the hidden state once around. *)
FirstToken ==
  /\ pc[0] = "ready"
  /\ chan' = IF WorkerRank(0) = NWorker(0) - 1 THEN chan
             ELSE Push(Push(chan, 0, conn[0].node, Msg("batch", TRUE)),
                       0, conn[0].node, Msg("hidden", <<>>))
  /\ Goto(0, IF NWorld(0) = 1 THEN "off" ELSE "lap")
  /\ UNCHANGED <<auto, port, works, conn, fwd, sig>>

TakeBatch(r) ==
  \E s \in Rank :
    /\ r # 0 /\ r \in works
    /\ Reads(r, "ready", s, Msg("batch", TRUE))
    /\ chan' = IF WorkerRank(r) = NWorker(r) - 1 THEN Popped(s, r)
               ELSE Push(Popped(s, r), r, conn[r].node, Msg("batch", TRUE))
    /\ Goto(r, "hidden")
    /\ UNCHANGED <<auto, port, works, conn, fwd, sig>>

(* Variant: any worker may take the short way to the master.               *)
TakeHiddenShortcut(r) ==
  \E s \in Rank : \E m \in {chan[<<s, r>>][i] : i \in 1..Len(chan[<<s, r>>])} :
    /\ Reads(r, "hidden", s, m)
    /\ m.type = "hidden"
    /\ \E t \in {conn[r].node, 0} :
         chan' = Push(Popped(s, r), r, t, Msg("hidden", Append(m.val, r)))
    /\ Goto(r, "idle")
    /\ UNCHANGED <<auto, port, works, conn, fwd, sig>>

(* If the last layer is in the window of the last worker, the hidden state *)
(* goes to the master directly, over master_socket.                        *)
TakeHidden(r) ==
  \E s \in Rank : \E m \in {chan[<<s, r>>][i] : i \in 1..Len(chan[<<s, r>>])} :
    /\ Reads(r, "hidden", s, m)
    /\ m.type = "hidden"
    /\ \E t \in {conn[r].node}
                  \cup (IF WorkerRank(r) = NWorker(r) - 1 THEN {0} ELSE {}) :
         chan' = Push(Popped(s, r), r, t, Msg("hidden", Append(m.val, r)))
    /\ Goto(r, "idle")
    /\ UNCHANGED <<auto, port, works, conn, fwd, sig>>

(* llama_forward_messages.                                                 *)
Relay(r) ==
  \E s \in Rank :
    /\ pc[r] = "ready" /\ IsForwarder(r)
    /\ chan[<<s, r>>] # <<>>
    /\ chan' = Push(Popped(s, r), r, conn[r].node, Head(chan[<<s, r>>]))
    /\ UNCHANGED <<pc, auto, port, works, conn, fwd, sig>>

(* llama_free_sockets: the address of the next device was updated with the *)
(* connection, its signal port was not.                                    *)
SignalTarget(r) ==
  {u \in Rank : /\ Host[u] = Host[conn[r].rank]
                /\ SignalPort[u] = SignalPort[Succ(r)]}

LapDone ==
  \E s \in Rank : \E m \in {chan[<<s, 0>>][i] : i \in 1..Len(chan[<<s, 0>>])} :
    /\ Reads(0, "lap", s, m)
    /\ m.type = "hidden"
    /\ chan' = Popped(s, 0)
    /\ sig' = sig \cup SignalTarget(0)
    /\ Goto(0, "closing")
    /\ UNCHANGED <<auto, port, works, conn, fwd>>

(* A worker's or a forwarder's signal is relayed before it ends.           *)
Stop(r) ==
  /\ r \in sig /\ r # 0
  /\ pc[r] = IF IsForwarder(r) THEN "ready" ELSE "idle"
  /\ sig' = (sig \ {r}) \cup SignalTarget(r)
  /\ Goto(r, "off")
  /\ UNCHANGED <<chan, auto, port, works, conn, fwd>>

Closed ==
  /\ 0 \in sig /\ pc[0] = "closing"
  /\ sig' = sig \ {0}
  /\ Goto(0, "off")
  /\ UNCHANGED <<chan, auto, port, works, conn, fwd>>

(* The messages a process may read where it is; anything else fails an     *)
(* assertion or is taken for what it is not.                               *)
Expected(r) ==
  CASE pc[r] = "args" -> {"args"}
    [] pc[r] \in {"info", "infos"} -> {"info"}
    [] pc[r] \in {"ack args", "ack setup"} -> {"ack"}
    [] pc[r] = "setup" -> {"setup"}
    [] pc[r] \in {"topo", "view"} -> {"topo"}
    [] pc[r] = "ready" /\ r # 0 /\ r \in works -> {"batch"}
    [] pc[r] \in {"hidden", "lap"} -> {"hidden"}
    [] OTHER -> {}

Confused(r) ==
  \E s \in Rank : /\ Expected(r) # {}
                  /\ chan[<<s, r>>] # <<>>
                  /\ Head(chan[<<s, r>>]).type \notin Expected(r)

Master == \/ SendArgs \/ ArgsAcked \/ DealLayers \/ NoAllocation \/ SetupAcked
          \/ FirstToken \/ LapDone \/ Closed

Other(r) == \/ PassArgs(r) \/ AddInfo(r) \/ PassSetup(r) \/ RebuildTopo(r)
            \/ TakeBatch(r) \/ TakeHidden(r) \/ Relay(r) \/ Stop(r)

Ended(r) == pc[r] \in {"exited", "off"}

(* Everybody ended, or the master gave up and the others wait for ever.    *)
Terminated ==
  /\ (\A r \in Rank : Ended(r)) \/ pc[0] = "failed"
  /\ UNCHANGED vars

Next == \/ Master
        \/ \E r \in Rank \ {0} : Other(r)
        \/ \E r \in Rank : TakeView(r)
        \/ Terminated

(* A process goes on when it can, and messages arrive.                     *)
Fairness == /\ WF_vars(Master \/ TakeView(0))
            /\ \A r \in Rank \ {0} : WF_vars(Other(r) \/ TakeView(r))

Spec == Init /\ [][Next]_vars /\ Fairness
-----------------------------------------------------------------------------
(* Every message is read by the step it is meant for, although devices are *)
(* in different phases, sockets move to other devices while messages are   *)
(* under way, and a pull socket mixes its senders; no assertion of         *)
(* llama_rebuild_topo fails.                                               *)
NoConfusion == \A r \in Rank : ~Confused(r) /\ pc[r] # "aborted"

(* Each device numbers the ring by itself, from the windows and the marks  *)
(* it was sent: devices that are ready have the same marks, so the same    *)
(* n_world, and different ranks below it; and exactly the others exit.     *)
ViewsAgree ==
  \A r, s \in Rank : pc[r] \in {"ready", "hidden", "idle", "lap", "closing"} =>
    /\ r \in Members(r)
    /\ UpdateRank(r) < NWorld(r)
    /\ pc[s] \in {"ready", "hidden", "idle", "lap", "closing"} =>
         /\ Members(s) = Members(r)
         /\ r # s => UpdateRank(r) # UpdateRank(s)
    /\ pc[s] = "exited" => s \notin Members(r)

(* What comes back to the master has been at every worker, once, in the    *)
(* order of the layers, whichever devices forward and whichever are gone.  *)
LapIsComplete ==
  \A s \in Rank : pc[0] = "lap" /\ chan[<<s, 0>>] # <<>> =>
    LET seen == Head(chan[<<s, 0>>]).val
    IN  /\ Len(seen) = Cardinality(works \ {0})
        /\ {seen[i] : i \in 1..Len(seen)} = works \ {0}
        /\ \A i \in 1..Len(seen) - 1 : seen[i] < seen[i + 1]

(* Every process comes to its end: it exits because it has no layers, or   *)
(* it takes part in the first token and is stopped.  Only a master that    *)
(* finds no allocation leaves the others behind.                           *)
EveryDeviceEnds ==
  <>(\/ pc[0] = "failed"
     \/ \A r \in Rank : Ended(r) /\ \A s \in Rank : chan[<<s, r>>] = <<>>)

=============================================================================
