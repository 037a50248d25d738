------------------------- MODULE RingStartupProofs -------------------------
(***************************************************************************)
(* Theorems about RingStartup, for any number of devices, any layers and   *)
(* any connections that can be made: no message is taken for another, all  *)
(* devices number the new ring alike, and the first token visits every     *)
(* worker in the order of the layers.                                      *)
(***************************************************************************)
EXTENDS RingStartup, SequenceTheorems, FiniteSetTheorems, WellFoundedInduction, TLAPS

(* A device that connects to the address try_connect computes for a rank   *)
(* reaches that rank or nobody: every device on a machine of its own, or   *)
(* ports that fit.                                                         *)
Numbered == \A p \in DataPorts : \A r, t, u \in Rank :
              Host[u] = Host[t] /\ p[u] = p[r] + t => u = t

Config == auto \in BOOLEAN /\ port \in DataPorts

-----------------------------------------------------------------------------
(* Up to the layers' setup one message goes around the initial ring.       *)

(* The rank at place k, where N is the master again.                       *)
At(k) == IF k = N THEN 0 ELSE k

Quiet == [e \in Rank \X Rank |-> <<>>]
Full(ch) == ch = [e \in Rank \X Rank |-> ch[e]]
Only(s, r, m) == [e \in Rank \X Rank |-> IF e = <<s, r>> THEN <<m>> ELSE <<>>]

Untouched == /\ conn = [r \in Rank |-> [rank |-> Succ(r), node |-> Succ(r)]]
             /\ fwd = [r \in Rank |-> {}] /\ sig = {}

(* The arguments are on their way to rank k, their receipt if k is N.      *)
ArgsAt(k) ==
  /\ pc = [r \in Rank |-> IF r = 0 THEN (IF k = 0 THEN "start" ELSE "ack args")
                          ELSE IF r < k THEN (IF auto THEN "info" ELSE "setup") ELSE "args"]
  /\ chan = IF k = 0 THEN Quiet
            ELSE Only(k - 1, At(k), IF k = N THEN Msg("ack", TRUE) ELSE Msg("args", auto))

InfoAt(k) ==
  /\ auto
  /\ pc = [r \in Rank |-> IF r = 0 THEN "infos" ELSE IF r < k THEN "setup" ELSE "info"]
  /\ chan = Only(k - 1, At(k), Msg("info", 0..k-1))

GivenUp ==
  /\ pc = [r \in Rank |-> IF r = 0 THEN "failed" ELSE "setup"]
  /\ chan = Quiet

SetupAt(k) ==
  /\ works \subseteq Rank /\ 0 \in works /\ (~auto => works = Rank)
  /\ pc = [r \in Rank |-> IF r = 0 THEN "ack setup"
                          ELSE IF r < k THEN (IF auto THEN "topo" ELSE "ready") ELSE "setup"]
  /\ chan = Only(k - 1, At(k), IF k = N THEN Msg("ack", TRUE) ELSE Msg("setup", works))

Before == /\ Untouched
          /\ \/ \E k \in 0..N : ArgsAt(k)
             \/ \E k \in 1..N : InfoAt(k)
             \/ \E k \in 1..N : SetupAt(k)
             \/ GivenUp

-----------------------------------------------------------------------------
(* The rebuilt ring.  Its members M are found one after another, up to     *)
(* rank t, which gets the marks next; N stands for the master.             *)

(* The member after r, or N.                                               *)
NextIs(M, r, x) == /\ x \in r+1..N
                   /\ x = N \/ x \in M
                   /\ \A y \in r+1..x-1 : y \notin M

RingOf(M, t) ==
  /\ M \subseteq Rank /\ 0 \in M
  /\ t = N \/ t \in M
  /\ \A m \in M : m <= t
  /\ works \subseteq Rank /\ 0 \in works
  /\ \A w \in works : w < t => w \in M
  /\ M # {0} => works # {0}

Sockets(M, t) ==
  /\ DOMAIN conn = Rank
  /\ \A r \in Rank :
       IF r \in M /\ r < t
       THEN M # {0} => \E x \in 1..N : NextIs(M, r, x) /\ conn[r] = [rank |-> At(x), node |-> At(x)]
       ELSE conn[r] = [rank |-> Succ(r), node |-> Succ(r)]

(* The marks f agree with the members from r to the next one.              *)
Agrees(f, M, r) ==
  \A x \in r..N-1 : (\A y \in r..x-1 : y \notin M) => (x \in f <=> x \in M)

Past(M, s) == s \in M \/ pc[s] = "exited"

(* A device that will exit gets the marks from the one before it.          *)
Told(M, t, s, r) ==
  /\ s = r - 1 /\ r < t /\ pc[r] = "topo" /\ Past(M, s)
  /\ \E f \in SUBSET Rank : Agrees(f, M, r) /\ chan[<<s, r>>] = <<Msg("topo", f)>>

Outside(M, t) ==
  \A r \in Rank \ M :
    /\ pc[r] = "topo" \/ (r < t /\ pc[r] = "exited" /\ Past(M, r - 1))
    /\ \A s \in Rank : chan[<<s, r>>] = <<>> \/ Told(M, t, s, r)

Shape(M, t) == /\ pc = [r \in Rank |-> pc[r]]
               /\ Full(chan)
               /\ fwd = [r \in Rank |-> fwd[r]]
               /\ RingOf(M, t) /\ Sockets(M, t) /\ Outside(M, t)

(* Rank t gets the marks of the members so far, the master those of all.   *)
Rebuilding(M, t) ==
  /\ Shape(M, t)
  /\ M # {0} /\ sig = {}
  /\ pc[0] = "view"
  /\ \A m \in M \ {0} : pc[m] = IF m = t THEN "topo" ELSE "view"
  /\ \A s \in Rank, r \in M :
       chan[<<s, r>>] = IF r = At(t) /\ s \in M /\ NextIs(M, s, t)
                    THEN <<Msg("topo", IF t = N THEN M ELSE M \ {0})>> ELSE <<>>

-----------------------------------------------------------------------------
(* Then the marks of the whole ring, the batch and the hidden state follow *)
(* each other from member to member: v, b and h are the ranks that get     *)
(* them next.  b and h are 0 until the master has sent the first token; N  *)
(* is the end of the lap, and h is N + 1 when the master has the hidden    *)
(* state back, which it got from src.                                      *)

(* The hidden state was at the workers before rank h, in their order.      *)
SeenBefore(h) == {w \in works : 0 < w /\ w < h}

Seen(q, h) == /\ q \in Seq(Rank)
              /\ Len(q) = Cardinality(SeenBefore(h))
              /\ {q[i] : i \in 1..Len(q)} = SeenBefore(h)
              /\ \A i \in 1..Len(q)-1 : q[i] < q[i + 1]

Tokens(M, v, b, h) ==
  /\ v \in (M \ {0}) \cup {N} /\ b \in M \cup {N} /\ h \in M \cup {N, N + 1}
  /\ b = 0 <=> h = 0
  /\ b < N => h <= b /\ b <= v
  /\ 0 < b /\ b < N => \E w \in works : b <= w
  /\ b = N => \A w \in works : w < v
  /\ h < N => h <= v
  /\ M = {0} => v = N /\ h \in {0, N + 1}

MasterPc(h) == IF h = 0 THEN {"ready"} ELSE IF h <= N THEN {"lap"} ELSE {"closing", "off"}

MemberPc(m, v, b, h) ==
  IF v <= m THEN {"view"}
  ELSE IF m \notin works THEN (IF h <= N THEN {"ready"} ELSE {"ready", "off"})
  ELSE IF b <= m THEN {"ready"} ELSE IF h <= m THEN {"hidden"}
  ELSE IF h <= N THEN {"idle"} ELSE {"idle", "off"}

Batch == Msg("batch", TRUE)

(* Marks, batch and hidden state, as far as they are on their way to r.    *)
Pile(v, b, h, q, M, r) ==
  IF v = r
  THEN IF b = r THEN IF h = r THEN <<Msg("topo", M), Batch, Msg("hidden", q)>>
                              ELSE <<Msg("topo", M), Batch>>
                ELSE IF h = r THEN <<Msg("topo", M), Msg("hidden", q)>> ELSE <<Msg("topo", M)>>
  ELSE IF b = r THEN IF h = r THEN <<Batch, Msg("hidden", q)>> ELSE <<Batch>>
                ELSE IF h = r THEN <<Msg("hidden", q)>> ELSE <<>>

Places(M, v, b, h) ==
  /\ pc[0] \in MasterPc(h)
  /\ \A m \in M \ {0} : pc[m] \in MemberPc(m, v, b, h)

Piles(M, v, b, h, q) ==
  \A s \in Rank, r \in M \ {0} :
    chan[<<s, r>>] = IF s \in M /\ NextIs(M, s, r)
                 THEN Pile(v, b, h, q, M, r) ELSE <<>>

Returned(h, q, src) ==
  \A s \in Rank : chan[<<s, 0>>] = IF h = N /\ s = src THEN <<Msg("hidden", q)>> ELSE <<>>

Marks(M, v) == \A m \in M : m < v => Members(m) = M

Running(M, v, b, h, q, src) ==
  /\ Shape(M, N)
  /\ Tokens(M, v, b, h) /\ (0 < h /\ h <= N => Seen(q, h))
  /\ Places(M, v, b, h)
  /\ Piles(M, v, b, h, q) /\ Returned(h, q, src)
  /\ Marks(M, v)
  /\ sig # {} => h = N + 1

StartInv ==
  /\ Config
  /\ \/ Before
     \/ \E M, t : Rebuilding(M, t)
     \/ \E M, v, b, h, q, src : Running(M, v, b, h, q, src)

-----------------------------------------------------------------------------
(* Ranks, and the least and the greatest of some of them.                  *)
LEMMA Least ==
  ASSUME NEW T \in SUBSET Nat, T # {}
  PROVE  \E x \in T : \A y \in T : x <= y
<1>1. PICK x \in T : \A y \in T : ~(<<y, x>> \in OpToRel(<, Nat))
  BY WFMin, NatLessThanWellFounded
<1>2. ASSUME NEW y \in T PROVE x <= y
  <2>1. ~(y < x)
    BY <1>1 DEF OpToRel
  <2>2. x \in Nat /\ y \in Nat
    OBVIOUS
  <2>3. QED BY <2>1, <2>2
<1>3. QED BY <1>2

LEMMA Greatest ==
  ASSUME NEW n \in Nat, NEW T \in SUBSET (0..n), T # {}
  PROVE  \E x \in T : \A y \in T : y <= x
<1> DEFINE U == {u \in Nat : n - u \in T}
<1>1. PICK y \in T : TRUE
  OBVIOUS
<1>2. n - y \in Nat /\ n - (n - y) = y
  OBVIOUS
<1>3. U \in SUBSET Nat /\ U # {}
  BY <1>1, <1>2
<1>4. PICK u \in U : \A z \in U : u <= z
  BY <1>3, Least
<1>5. n - u \in T
  OBVIOUS
<1>6. ASSUME NEW z \in T PROVE z <= n - u
  <2>1. n - z \in Nat /\ n - (n - z) = z /\ z \in 0..n
    OBVIOUS
  <2>2. n - z \in U
    BY <2>1
  <2>3. u <= n - z
    BY <1>4, <2>2
  <2>4. QED BY <2>1, <2>3
<1>7. QED BY <1>5, <1>6

(* The rank d places after r, if that is not beyond the master.            *)
LEMMA AtIs ==
  ASSUME StartupAssumption, NEW r \in Rank, NEW d \in 1..N - r
  PROVE  (r + d) % N = At(r + d) /\ At(r + d) \in Rank
<1>0. N \in Nat /\ N >= 2 /\ r \in 0..N-1
  BY DEF StartupAssumption, Rank
<1>1. CASE r + d = N
  <2>1. N % N = 0
    BY <1>0
  <2>2. QED BY <1>0, <1>1, <2>1 DEF At, Rank
<1>2. CASE r + d # N
  <2>1. r + d \in 0..N-1
    BY <1>0, <1>2
  <2>2. (r + d) % N = r + d
    BY <1>0, <2>1
  <2>3. QED BY <1>0, <1>2, <2>1, <2>2 DEF At, Rank
<1>3. QED BY <1>1, <1>2

LEMMA SuccIs ==
  ASSUME StartupAssumption, NEW r \in Rank
  PROVE  Succ(r) = At(r + 1) /\ Succ(r) \in Rank /\ r + 1 \in 1..N
<1>0. N \in Nat /\ N >= 2 /\ r \in 0..N-1 /\ 1 \in 1..N - r /\ r + 1 \in 1..N
  BY DEF StartupAssumption, Rank
<1>1. QED BY <1>0, AtIs DEF Succ

(* One message in the channels.                                            *)
LEMMA OneMoves ==
  ASSUME StartupAssumption, NEW s \in Rank, NEW r \in Rank, NEW m, chan = Only(s, r, m)
  PROVE  /\ \A a, b \in Rank : chan[<<a, b>>] # <<>> => a = s /\ b = r /\ Head(chan[<<a, b>>]) = m
         /\ \A a, b \in Rank : \A i \in 1..Len(chan[<<a, b>>]) : chan[<<a, b>>][i] = m
         /\ Popped(s, r) = Quiet
<1>1. \A a, b \in Rank : chan[<<a, b>>] = IF a = s /\ b = r THEN <<m>> ELSE <<>>
  BY DEF Only
<1>2. Head(<<m>>) = m /\ Tail(<<m>>) = <<>> /\ Len(<<m>>) = 1 /\ <<m>>[1] = m
  OBVIOUS
<1>3. Popped(s, r) = Quiet
  BY <1>2 DEF Popped, Only, Quiet
<1>4. ASSUME NEW a \in Rank, NEW b \in Rank, NEW i \in 1..Len(chan[<<a, b>>])
      PROVE  chan[<<a, b>>][i] = m
  <2>1. CASE a = s /\ b = r
    <3>1. chan[<<a, b>>] = <<m>>
      BY <1>1, <2>1
    <3>2. i \in 1..1
      BY <3>1, <1>2
    <3>3. i = 1
      BY <3>2
    <3>4. QED BY <3>1, <3>3, <1>2
  <2>2. CASE ~(a = s /\ b = r)
    <3>1. chan[<<a, b>>] = <<>> /\ Len(<<>>) = 0
      BY <1>1, <2>2
    <3>2. i \in 1..0
      BY <3>1
    <3>3. QED BY <3>2
  <2>3. QED BY <2>1, <2>2
<1>5. QED BY <1>1, <1>2, <1>3, <1>4

LEMMA QuietPush ==
  ASSUME StartupAssumption, NEW s \in Rank, NEW r \in Rank, NEW m
  PROVE  Push(Quiet, s, r, m) = Only(s, r, m)
<1>1. r # Lost
  BY DEF StartupAssumption
<1>2. Append(<<>>, m) = <<m>>
  OBVIOUS
<1>3. QED BY <1>1, <1>2 DEF Push, Quiet, Only

(* Short sequences.                                                        *)
LEMMA TwoIs ==
  ASSUME NEW z, NEW y
  PROVE  /\ Head(<<z, y>>) = z /\ Tail(<<z, y>>) = <<y>> /\ <<z, y>> # <<>>
         /\ Append(<<z>>, y) = <<z, y>>
<1> DEFINE S == {z, y}
<1>0. z \in S /\ y \in S
  OBVIOUS
<1> HIDE DEF S
<1>1. <<z>> \in Seq(S) /\ <<z, y>> \in Seq(S) /\ Append(<<z>>, y) \in Seq(S) /\ Len(<<z>>) = 1
  BY <1>0
<1>2. Len(Append(<<z>>, y)) = 2 /\ Len(<<z, y>>) = 2
  BY <1>0
<1>3. Append(<<z>>, y)[1] = z /\ Append(<<z>>, y)[2] = y /\ <<z, y>>[1] = z /\ <<z, y>>[2] = y
  BY <1>0, <1>1, AppendProperties
<1>4. \A i \in 1..2 : i = 1 \/ i = 2
  OBVIOUS
<1>5. \A i \in 1..2 : Append(<<z>>, y)[i] = <<z, y>>[i]
  BY <1>3, <1>4
<1>6. Append(<<z>>, y) = <<z, y>>
  BY <1>1, <1>2, <1>5, SeqEqual
<1>7. Head(<<z, y>>) = z /\ Tail(<<z, y>>) = <<y>> /\ <<z, y>> # <<>>
  BY <1>0
<1>8. QED BY <1>6, <1>7

LEMMA ThreeIs ==
  ASSUME NEW z, NEW y, NEW u
  PROVE  /\ Head(<<z, y, u>>) = z /\ Tail(<<z, y, u>>) = <<y, u>> /\ <<z, y, u>> # <<>>
         /\ Append(<<z, y>>, u) = <<z, y, u>>
<1> DEFINE S == {z, y, u}
<1>0. z \in S /\ y \in S /\ u \in S
  OBVIOUS
<1> HIDE DEF S
<1>1. <<z, y>> \in Seq(S) /\ <<z, y, u>> \in Seq(S) /\ Append(<<z, y>>, u) \in Seq(S)
      /\ Len(<<z, y>>) = 2
  BY <1>0
<1>2. Len(Append(<<z, y>>, u)) = 3 /\ Len(<<z, y, u>>) = 3
  BY <1>0
<1>3. Append(<<z, y>>, u)[1] = z /\ Append(<<z, y>>, u)[2] = y /\ Append(<<z, y>>, u)[3] = u
  BY <1>0, <1>1, AppendProperties
<1>4. <<z, y, u>>[1] = z /\ <<z, y, u>>[2] = y /\ <<z, y, u>>[3] = u
  BY <1>0
<1>5. \A i \in 1..3 : i = 1 \/ i = 2 \/ i = 3
  OBVIOUS
<1>6. \A i \in 1..3 : Append(<<z, y>>, u)[i] = <<z, y, u>>[i]
  BY <1>3, <1>4, <1>5
<1>7. Append(<<z, y>>, u) = <<z, y, u>>
  BY <1>1, <1>2, <1>6, SeqEqual
<1>8. Head(<<z, y, u>>) = z /\ Tail(<<z, y, u>>) = <<y, u>> /\ <<z, y, u>> # <<>>
  BY <1>0
<1>9. QED BY <1>7, <1>8

LEMMA PushIs ==
  ASSUME StartupAssumption, NEW s \in Rank, NEW r \in Rank, NEW m, NEW ch, Full(ch)
  PROVE  /\ Full(Push(ch, s, r, m))
         /\ \A a, b \in Rank : Push(ch, s, r, m)[<<a, b>>] =
              IF a = s /\ b = r THEN Append(ch[<<s, r>>], m) ELSE ch[<<a, b>>]
<1>1. r # Lost
  BY DEF StartupAssumption
<1>2. Push(ch, s, r, m) = [ch EXCEPT ![<<s, r>>] = Append(ch[<<s, r>>], m)]
  BY <1>1 DEF Push
<1> HIDE DEF Push
<1>3. QED BY <1>2 DEF Full

LEMMA PoppedIs ==
  ASSUME NEW s \in Rank, NEW r \in Rank, Full(chan)
  PROVE  /\ Full(Popped(s, r))
         /\ \A a, b \in Rank : Popped(s, r)[<<a, b>>] =
              IF a = s /\ b = r THEN Tail(chan[<<s, r>>]) ELSE chan[<<a, b>>]
  BY DEF Popped, Full

-----------------------------------------------------------------------------
(* The arguments, the profiles and the windows go around.                  *)
LEMMA ReadsOne ==
  ASSUME StartupAssumption, NEW s \in Rank, NEW r \in Rank, NEW m, chan = Only(s, r, m),
         NEW a \in Rank, NEW b \in Rank, NEW p, NEW w, Reads(b, p, a, w)
  PROVE  a = s /\ b = r /\ w = m /\ pc[r] = p
  BY OneMoves DEF Reads

LEMMA ReadsNone ==
  ASSUME chan = Quiet, NEW a \in Rank, NEW b \in Rank, NEW p, NEW w
  PROVE  ~Reads(b, p, a, w)
  BY DEF Reads, Quiet

LEMMA InitBefore == StartupAssumption /\ Init => Config /\ Before
<1> SUFFICES ASSUME StartupAssumption, Init PROVE Config /\ Before
  OBVIOUS
<1>1. Config /\ Untouched
  BY DEF Config, Init, Untouched
<1>2. 0 \in 0..N
  BY DEF StartupAssumption
<1>3. \A r \in Rank : ~(r < 0)
  BY DEF Rank, StartupAssumption
<1>4. ArgsAt(0)
  <2>1. pc = [r \in Rank |-> IF r = 0 THEN "start" ELSE "args"] /\ chan = Quiet
    BY DEF Init, Quiet
  <2>2. QED BY <2>1, <1>3 DEF ArgsAt
<1>5. QED BY <1>1, <1>2, <1>4 DEF Before

LEMMA ArgsStep ==
  ASSUME StartupAssumption, Config, Untouched, NEW k \in 0..N, ArgsAt(k), Next
  PROVE  \/ Before'
         \/ UNCHANGED vars
<1>0. /\ N \in Nat /\ N >= 2 /\ 0 \in Rank /\ At(N) = 0 /\ Rank = 0..N-1
      /\ auto \in BOOLEAN
  BY DEF StartupAssumption, Rank, At, Config
<1>1. \A r \in Rank : pc[r] = IF r = 0 THEN (IF k = 0 THEN "start" ELSE "ack args")
                              ELSE IF r < k THEN (IF auto THEN "info" ELSE "setup") ELSE "args"
  BY DEF ArgsAt
<1> DEFINE m == IF k = N THEN Msg("ack", TRUE) ELSE Msg("args", auto)
<1>2. k # 0 => k - 1 \in Rank /\ At(k) \in Rank /\ chan = Only(k - 1, At(k), m)
  <2>1. At(k) \in Rank /\ (k # 0 => k - 1 \in Rank)
    BY <1>0 DEF At
  <2>2. k # 0 => chan = Only(k - 1, At(k), m)
    BY DEF ArgsAt
  <2>3. QED BY <2>1, <2>2
<1>3. pc[At(k)] = IF k = 0 THEN "start" ELSE IF k = N THEN "ack args" ELSE "args"
  <2>1. At(k) \in Rank /\ (At(k) = 0 <=> k = 0 \/ k = N) /\ (At(k) # 0 => At(k) = k) /\ ~(k < k)
        /\ N # 0
    BY <1>0 DEF At
  <2>2. CASE At(k) = 0
    BY <1>0, <1>1, <2>1, <2>2
  <2>3. CASE At(k) # 0
    BY <1>1, <2>1, <2>3
  <2>4. QED BY <2>2, <2>3
<1> HIDE DEF m
<1>4. ASSUME NEW a \in Rank, NEW b \in Rank, NEW p, NEW w, Reads(b, p, a, w)
      PROVE  k # 0 /\ a = k - 1 /\ b = At(k) /\ w = m /\ pc[At(k)] = p
  <2>1. k # 0
    <3>1. k = 0 => chan = Quiet
      BY DEF ArgsAt
    <3>2. QED BY <3>1, <1>4, ReadsNone
  <2>2. k - 1 \in Rank /\ At(k) \in Rank /\ chan = Only(k - 1, At(k), m)
    BY <1>2, <2>1
  <2>3. a = k - 1 /\ b = At(k) /\ w = m /\ pc[At(k)] = p
    BY <2>2, <1>4, ReadsOne
  <2>4. QED BY <2>1, <2>3
<1>5. sig = {} /\ \A r \in Rank : conn[r].node = Succ(r)
  BY DEF Untouched
<1>5a. ASSUME NEW a \in Rank, NEW b \in Rank, NEW w, NEW p,
              p \notin {"args", "ack args"}
       PROVE  ~Reads(b, p, a, w)
  BY <1>3, <1>4, <1>5a
<1>6. CASE SendArgs
  <2>1. k = 0 /\ chan = Quiet
    BY <1>0, <1>1, <1>6 DEF SendArgs, ArgsAt
  <2>2. Succ(0) = At(1) /\ At(1) \in Rank
    BY <1>0, SuccIs
  <2>3. chan' = Only(0, At(1), Msg("args", auto))
    <3>1. chan' = Push(Quiet, 0, At(1), Msg("args", auto))
      BY <1>0, <1>5, <1>6, <2>1, <2>2 DEF SendArgs
    <3>2. QED BY <1>0, <2>2, <3>1, QuietPush
  <2>4. pc' = [r \in Rank |-> IF r = 0 THEN "ack args" ELSE "args"]
    <3>1. \A r \in Rank : ~(r < 0)
      BY <1>0
    <3>2. pc = [r \in Rank |-> IF r = 0 THEN "start" ELSE "args"]
      BY <2>1, <3>1 DEF ArgsAt
    <3>3. pc' = [pc EXCEPT ![0] = "ack args"]
      BY <1>6 DEF SendArgs, Goto
    <3>4. QED BY <1>0, <3>2, <3>3
  <2>5. ArgsAt(1)'
    <3>1. \A r \in Rank : r # 0 => ~(r < 1)
      BY <1>0
    <3>2. 1 - 1 = 0 /\ 1 # 0 /\ 1 # N
      BY <1>0
    <3>3. auto' = auto
      BY <1>6 DEF SendArgs
    <3>4. QED BY <2>3, <2>4, <3>1, <3>2, <3>3 DEF ArgsAt
  <2>6. Untouched'
    BY <1>6 DEF SendArgs, Untouched
  <2>7. 1 \in 0..N
    BY <1>0
  <2>8. QED BY <2>5, <2>6, <2>7 DEF Before
<1>7. ASSUME NEW r \in Rank \ {0}, PassArgs(r) PROVE Before'
  <2>1. PICK s \in Rank, w \in {Msg("args", b) : b \in BOOLEAN} :
          /\ Reads(r, "args", s, w)
          /\ chan' = Push(Popped(s, r), r, conn[r].node,
                          IF r = N - 1 THEN Msg("ack", TRUE) ELSE w)
          /\ Goto(r, IF w.val THEN "info" ELSE "setup")
          /\ UNCHANGED <<auto, port, works, conn, fwd, sig>>
    BY <1>7 DEF PassArgs
  <2>2. k # 0 /\ s = k - 1 /\ r = At(k) /\ w = m /\ pc[At(k)] = "args"
    BY <1>4, <2>1
  <2>3. k # N /\ r = k /\ k \in Rank
    BY <1>0, <1>3, <2>2 DEF At
  <2>4. w = Msg("args", auto) /\ w.val = auto
    BY <2>2, <2>3 DEF m, Msg
  <2>5. Popped(s, r) = Quiet
    BY <1>2, <2>2, OneMoves
  <2>6. Succ(k) = At(k + 1) /\ At(k + 1) \in Rank /\ k + 1 \in 1..N
    BY <2>3, SuccIs
  <2>7. chan' = Only(k, At(k + 1), IF k + 1 = N THEN Msg("ack", TRUE) ELSE Msg("args", auto))
    <3>1. chan' = Push(Quiet, k, At(k + 1), IF k = N - 1 THEN Msg("ack", TRUE) ELSE w)
      BY <1>5, <2>1, <2>3, <2>5, <2>6
    <3>2. k = N - 1 <=> k + 1 = N
      BY <1>0
    <3>3. QED BY <2>3, <2>4, <2>6, <3>1, <3>2, QuietPush
  <2>8. pc' = [x \in Rank |-> IF x = 0 THEN "ack args"
                 ELSE IF x < k + 1 THEN (IF auto THEN "info" ELSE "setup") ELSE "args"]
    <3>1. pc' = [pc EXCEPT ![k] = IF auto THEN "info" ELSE "setup"]
      BY <2>1, <2>3, <2>4 DEF Goto
    <3>2. pc = [x \in Rank |-> IF x = 0 THEN "ack args"
                 ELSE IF x < k THEN (IF auto THEN "info" ELSE "setup") ELSE "args"]
      BY <2>2 DEF ArgsAt
    <3>3. \A x \in Rank : x < k + 1 <=> x < k \/ x = k
      BY <1>0
    <3>4. k # 0 /\ ~(k < k)
      BY <2>2
    <3>5. QED BY <3>1, <3>2, <3>3, <3>4, <2>3
  <2>9. ArgsAt(k + 1)'
    <3>1. k + 1 # 0 /\ k + 1 - 1 = k
      OBVIOUS
    <3>3. auto' = auto
      BY <2>1
    <3>4. chan' = Only((k + 1) - 1, At(k + 1), IF k + 1 = N THEN Msg("ack", TRUE)
          ELSE Msg("args", auto'))
      BY <2>7, <3>1, <3>3
    <3>5. pc' = [x \in Rank |-> IF x = 0 THEN (IF k + 1 = 0 THEN "start" ELSE "ack args")
                 ELSE IF x < k + 1 THEN (IF auto' THEN "info" ELSE "setup") ELSE "args"]
      BY <2>8, <3>1, <3>3
    <3>6. QED BY <3>1, <3>4, <3>5 DEF ArgsAt
  <2>10. Untouched'
    BY <2>1 DEF Untouched
  <2>11. k + 1 \in 0..N
    BY <1>0, <2>6
  <2>12. QED BY <2>9, <2>10, <2>11 DEF Before
<1>8. CASE ArgsAcked
  <2>1. PICK s \in Rank : Reads(0, "ack args", s, Msg("ack", TRUE))
    BY <1>8 DEF ArgsAcked
  <2>2. k # 0 /\ s = k - 1 /\ 0 = At(k)
    BY <1>0, <1>4, <2>1
  <2>3. k = N /\ s = N - 1
    BY <1>0, <2>2 DEF At
  <2>4. \A z \in Rank : Reads(0, "ack args", z, Msg("ack", TRUE)) => z = N - 1
    BY <1>0, <1>4, <2>3
  <2>5. Popped(N - 1, 0) = Quiet
    BY <1>0, <1>2, <2>3, OneMoves
  <2>6. Succ(0) = At(1) /\ At(1) \in Rank /\ conn[0].node = At(1)
    BY <1>0, <1>5, SuccIs
  <2>7. Untouched' /\ auto' = auto
    BY <1>8 DEF ArgsAcked, Untouched
  <2>8. pc = [x \in Rank |-> IF x = 0 THEN "ack args" ELSE IF auto THEN "info" ELSE "setup"]
    <3>1. N # 0 /\ \A x \in Rank : x < N
      BY <1>0
    <3>2. pc = [x \in Rank |-> IF x = 0 THEN (IF k = 0 THEN "start" ELSE "ack args")
                                ELSE IF x < k THEN (IF auto THEN "info" ELSE "setup") ELSE "args"]
      BY DEF ArgsAt
    <3>3. QED BY <2>3, <3>1, <3>2
  <2>9. 1 \in 1..N /\ 1 # N /\ 1 - 1 = 0 /\ \A x \in Rank : x # 0 => ~(x < 1)
    BY <1>0
  <2>10. CASE auto
    <3>1. chan' = Push(Quiet, 0, At(1), Msg("info", {0})) /\ Goto(0, "infos")
      BY <1>8, <2>4, <2>5, <2>6, <2>10 DEF ArgsAcked
    <3>2. chan' = Only(0, At(1), Msg("info", {0}))
      BY <1>0, <2>6, <3>1, QuietPush
    <3>3. pc' = [x \in Rank |-> IF x = 0 THEN "infos" ELSE "info"]
      BY <1>0, <2>8, <2>10, <3>1 DEF Goto
    <3>4. 0..0 = {0}
      OBVIOUS
    <3>5. InfoAt(1)'
      BY <2>7, <2>9, <2>10, <3>2, <3>3, <3>4 DEF InfoAt
    <3>6. QED BY <2>7, <2>9, <3>5 DEF Before
  <2>11. CASE ~auto
    <3>1. chan' = Push(Quiet, 0, At(1), Msg("setup", Rank)) /\ Goto(0, "ack setup") /\ works' = Rank
      BY <1>8, <2>4, <2>5, <2>6, <2>11 DEF ArgsAcked
    <3>2. chan' = Only(0, At(1), Msg("setup", Rank))
      <4>1. Push(Quiet, 0, At(1), Msg("setup", Rank)) = Only(0, At(1), Msg("setup", Rank))
        <5>1. 0 \in Rank /\ At(1) \in Rank
          BY <1>0, <2>6
        <5>2. QED BY <5>1, QuietPush
      <4>2. QED BY <3>1, <4>1
    <3>3. pc' = [x \in Rank |-> IF x = 0 THEN "ack setup" ELSE "setup"]
      BY <1>0, <2>8, <2>11, <3>1 DEF Goto
    <3>5. SetupAt(1)'
      BY <1>0, <2>7, <2>9, <2>11, <3>1, <3>2, <3>3 DEF SetupAt
    <3>6. QED BY <2>7, <2>9, <3>5 DEF Before
  <2>12. QED BY <2>10, <2>11
<1>9. ~DealLayers /\ ~NoAllocation /\ ~SetupAcked /\ ~FirstToken /\ ~LapDone /\ ~Closed
  BY <1>0, <1>1, <1>5 DEF DealLayers, NoAllocation, SetupAcked, FirstToken, LapDone, Closed, Reads
<1>10. ASSUME NEW r \in Rank \ {0}
       PROVE ~AddInfo(r) /\ ~PassSetup(r) /\ ~RebuildTopo(r) /\ ~TakeBatch(r) /\ ~TakeHidden(r)
             /\ ~Relay(r) /\ ~Stop(r)
  <2>1. pc[r] \in {"args", "info", "setup"}
    BY <1>1
  <2>2. ~PassSetup(r) /\ ~RebuildTopo(r) /\ ~TakeBatch(r)
    BY <1>5a DEF PassSetup, RebuildTopo, TakeBatch
  <2>3. ~AddInfo(r) /\ ~TakeHidden(r)
    BY <1>5a DEF AddInfo, TakeHidden
  <2>4. QED BY <1>5, <2>1, <2>2, <2>3 DEF Relay, Stop
<1>11. ASSUME NEW r \in Rank PROVE ~TakeView(r)
  BY <1>5a DEF TakeView
<1>12. QED
  BY <1>6, <1>7, <1>8, <1>9, <1>10, <1>11 DEF Next, Master, Other, Terminated

LEMMA InfoStep ==
  ASSUME StartupAssumption, Config, Untouched, NEW k \in 1..N, InfoAt(k), Next
  PROVE  Before' \/ UNCHANGED vars
<1>0. /\ N \in Nat /\ N >= 2 /\ 0 \in Rank /\ At(N) = 0 /\ Rank = 0..N-1
      /\ auto
  BY DEF StartupAssumption, Rank, At, InfoAt
<1>1. \A r \in Rank : pc[r] = IF r = 0 THEN "infos" ELSE IF r < k THEN "setup" ELSE "info"
  BY DEF InfoAt
<1> DEFINE m == Msg("info", 0..k-1)
<1>2. k - 1 \in Rank /\ At(k) \in Rank /\ chan = Only(k - 1, At(k), m)
  <2>1. At(k) \in Rank /\ k - 1 \in Rank
    BY <1>0 DEF At
  <2>2. QED BY <2>1 DEF InfoAt
<1>3. pc[At(k)] = IF k = N THEN "infos" ELSE "info"
  <2>1. At(k) \in Rank /\ (At(k) = 0 <=> k = N) /\ (At(k) # 0 => At(k) = k) /\ ~(k < k)
    BY <1>0 DEF At
  <2>2. QED BY <1>1, <2>1
<1> HIDE DEF m
<1>4. ASSUME NEW a \in Rank, NEW b \in Rank, NEW p, NEW w, Reads(b, p, a, w)
      PROVE  a = k - 1 /\ b = At(k) /\ w = m /\ pc[At(k)] = p
  BY <1>2, <1>4, ReadsOne
<1>5. sig = {} /\ \A r \in Rank : conn[r].node = Succ(r)
  BY DEF Untouched
<1>6. ASSUME NEW a \in Rank, NEW b \in Rank, NEW w, NEW p,
              p \notin {"info", "infos"}
      PROVE  ~Reads(b, p, a, w)
  BY <1>3, <1>4, <1>6
<1>7. ASSUME NEW r \in Rank \ {0}, AddInfo(r) PROVE Before'
  <2>1. PICK s \in Rank : \E w \in {chan[<<s, r>>][i] : i \in 1..Len(chan[<<s, r>>])} :
          /\ Reads(r, "info", s, w)
          /\ chan' = Push(Popped(s, r), r, conn[r].node, Msg("info", w.val \cup {r}))
          /\ Goto(r, "setup")
          /\ UNCHANGED <<auto, port, works, conn, fwd, sig>>
    BY <1>7 DEF AddInfo
  <2>2. PICK w \in {chan[<<s, r>>][i] : i \in 1..Len(chan[<<s, r>>])} :
          /\ Reads(r, "info", s, w)
          /\ chan' = Push(Popped(s, r), r, conn[r].node, Msg("info", w.val \cup {r}))
          /\ Goto(r, "setup")
          /\ UNCHANGED <<auto, port, works, conn, fwd, sig>>
    BY <2>1
  <2>3. s = k - 1 /\ r = At(k) /\ w = m /\ pc[At(k)] = "info"
    BY <1>4, <2>2
  <2>4. k # N /\ r = k /\ k \in Rank /\ k # 0
    BY <1>0, <1>3, <2>3 DEF At
  <2>5. w.val = 0..k-1
    BY <2>3 DEF m, Msg
  <2>6. Popped(s, r) = Quiet
    BY <1>2, <2>3, OneMoves
  <2>7. Succ(k) = At(k + 1) /\ At(k + 1) \in Rank /\ k + 1 \in 1..N
    BY <2>4, SuccIs
  <2>8. chan' = Only(k, At(k + 1), Msg("info", 0..k))
    <3>1. (0..k-1) \cup {k} = 0..k
      BY <2>4, <1>0
    <3>2. chan' = Push(Quiet, k, At(k + 1), Msg("info", 0..k))
      BY <1>5, <2>2, <2>4, <2>5, <2>6, <2>7, <3>1
    <3>3. QED BY <2>4, <2>7, <3>2, QuietPush
  <2>9. pc' = [x \in Rank |-> IF x = 0 THEN "infos" ELSE IF x < k + 1 THEN "setup" ELSE "info"]
    <3>1. pc' = [pc EXCEPT ![k] = "setup"]
      BY <2>2, <2>4 DEF Goto
    <3>2. pc = [x \in Rank |-> IF x = 0 THEN "infos" ELSE IF x < k THEN "setup" ELSE "info"]
      BY DEF InfoAt
    <3>3. \A x \in Rank : x < k + 1 <=> x < k \/ x = k
      BY <1>0
    <3>4. ~(k < k)
      OBVIOUS
    <3>5. QED BY <3>1, <3>2, <3>3, <3>4, <2>4
  <2>10. InfoAt(k + 1)'
    <3>1. (k + 1) - 1 = k
      OBVIOUS
    <3>2. auto'
      BY <1>0, <2>2
    <3>3. QED BY <2>8, <2>9, <3>1, <3>2 DEF InfoAt
  <2>11. Untouched'
    BY <2>2 DEF Untouched
  <2>12. QED BY <2>7, <2>10, <2>11 DEF Before
<1>8. ASSUME NEW s \in Rank, Reads(0, "infos", s, Msg("info", Rank))
      PROVE  /\ k = N /\ s = N - 1 /\ Popped(s, 0) = Quiet
             /\ pc = [x \in Rank |-> IF x = 0 THEN "infos" ELSE "setup"]
  <2>1. s = k - 1 /\ 0 = At(k)
    BY <1>0, <1>4, <1>8
  <2>2. k = N
    BY <1>0, <2>1 DEF At
  <2>3. Popped(s, 0) = Quiet
    BY <1>0, <1>2, <2>1, OneMoves
  <2>4. \A x \in Rank : x < N
    BY <1>0
  <2>5. QED BY <2>1, <2>2, <2>3, <2>4 DEF InfoAt
<1>9. CASE DealLayers
  <2>1. PICK s \in Rank, w \in {u \in SUBSET Rank : 0 \in u} :
          /\ Reads(0, "infos", s, Msg("info", Rank))
          /\ works' = w
          /\ chan' = Push(Popped(s, 0), 0, conn[0].node, Msg("setup", w))
          /\ Goto(0, "ack setup")
          /\ UNCHANGED <<auto, port, conn, fwd, sig>>
    BY <1>9 DEF DealLayers
  <2>2. Succ(0) = At(1) /\ At(1) \in Rank /\ conn[0].node = At(1)
    BY <1>0, <1>5, SuccIs
  <2>3. chan' = Only(0, At(1), Msg("setup", w))
    <3>1. chan' = Push(Quiet, 0, At(1), Msg("setup", w))
      BY <1>8, <2>1, <2>2
    <3>2. QED BY <1>0, <2>2, <3>1, QuietPush
  <2>4. pc' = [x \in Rank |-> IF x = 0 THEN "ack setup" ELSE "setup"]
    <3>1. pc = [x \in Rank |-> IF x = 0 THEN "infos" ELSE "setup"]
      BY <1>8, <2>1
    <3>2. QED BY <1>0, <2>1, <3>1 DEF Goto
  <2>5. 1 \in 1..N /\ 1 # N /\ 1 - 1 = 0 /\ \A x \in Rank : x # 0 => ~(x < 1)
    BY <1>0
  <2>6. SetupAt(1)'
    BY <1>0, <2>1, <2>3, <2>4, <2>5 DEF SetupAt
  <2>7. Untouched'
    BY <2>1 DEF Untouched
  <2>8. QED BY <2>5, <2>6, <2>7 DEF Before
<1>10. CASE NoAllocation
  <2>1. PICK s \in Rank :
          /\ Reads(0, "infos", s, Msg("info", Rank))
          /\ chan' = Popped(s, 0)
          /\ Goto(0, "failed")
          /\ UNCHANGED <<auto, port, works, conn, fwd, sig>>
    BY <1>10 DEF NoAllocation
  <2>2. chan' = Quiet /\ pc = [x \in Rank |-> IF x = 0 THEN "infos" ELSE "setup"]
    BY <1>8, <2>1
  <2>3. pc' = [x \in Rank |-> IF x = 0 THEN "failed" ELSE "setup"]
    BY <1>0, <2>1, <2>2 DEF Goto
  <2>4. Untouched'
    BY <2>1 DEF Untouched
  <2>5. QED BY <2>2, <2>3, <2>4 DEF Before, GivenUp
<1>11. ~SendArgs /\ ~ArgsAcked /\ ~SetupAcked /\ ~FirstToken /\ ~LapDone /\ ~Closed
  BY <1>0, <1>1, <1>5, <1>6 DEF SendArgs, ArgsAcked, SetupAcked, FirstToken, LapDone, Closed
<1>12. ASSUME NEW r \in Rank \ {0}
       PROVE ~PassArgs(r) /\ ~PassSetup(r) /\ ~RebuildTopo(r) /\ ~TakeBatch(r) /\ ~TakeHidden(r)
             /\ ~Relay(r) /\ ~Stop(r)
  <2>1. pc[r] \in {"info", "setup"}
    BY <1>1
  <2>2. ~PassArgs(r) /\ ~PassSetup(r) /\ ~RebuildTopo(r) /\ ~TakeBatch(r)
    BY <1>6 DEF PassArgs, PassSetup, RebuildTopo, TakeBatch
  <2>3. ~TakeHidden(r)
    BY <1>6 DEF TakeHidden
  <2>4. QED BY <1>5, <2>1, <2>2, <2>3 DEF Relay, Stop
<1>13. ASSUME NEW r \in Rank PROVE ~TakeView(r)
  BY <1>6 DEF TakeView
<1>14. QED
  BY <1>7, <1>9, <1>10, <1>11, <1>12, <1>13 DEF Next, Master, Other, Terminated

LEMMA SetupStep ==
  ASSUME StartupAssumption, Config, Untouched, NEW k \in 1..N, SetupAt(k), Next
  PROVE  Before' \/ UNCHANGED vars \/ (k = N /\ SetupAcked)
<1>0. /\ N \in Nat /\ N >= 2 /\ 0 \in Rank /\ At(N) = 0 /\ Rank = 0..N-1
      /\ auto \in BOOLEAN
  BY DEF StartupAssumption, Rank, At, Config
<1>1. \A r \in Rank : pc[r] = IF r = 0 THEN "ack setup"
                          ELSE IF r < k THEN (IF auto THEN "topo" ELSE "ready") ELSE "setup"
  BY DEF SetupAt
<1> DEFINE m == IF k = N THEN Msg("ack", TRUE) ELSE Msg("setup", works)
<1>2. k - 1 \in Rank /\ At(k) \in Rank /\ chan = Only(k - 1, At(k), m)
  <2>1. At(k) \in Rank /\ k - 1 \in Rank
    BY <1>0 DEF At
  <2>2. QED BY <2>1 DEF SetupAt
<1>3. pc[At(k)] = IF k = N THEN "ack setup" ELSE "setup"
  <2>1. At(k) \in Rank /\ (At(k) = 0 <=> k = N) /\ (At(k) # 0 => At(k) = k) /\ ~(k < k)
    BY <1>0 DEF At
  <2>2. QED BY <1>1, <2>1
<1> HIDE DEF m
<1>4. ASSUME NEW a \in Rank, NEW b \in Rank, NEW p, NEW w, Reads(b, p, a, w)
      PROVE  a = k - 1 /\ b = At(k) /\ w = m /\ pc[At(k)] = p
  BY <1>2, <1>4, ReadsOne
<1>5. sig = {} /\ \A r \in Rank : conn[r].node = Succ(r)
  BY DEF Untouched
<1>6. ASSUME NEW a \in Rank, NEW b \in Rank, NEW w, NEW p,
              p \notin {"setup", "ack setup"}
      PROVE  ~Reads(b, p, a, w)
  BY <1>3, <1>4, <1>6
<1>7. ASSUME NEW r \in Rank \ {0}, PassSetup(r) PROVE Before'
  <2>1. PICK s \in Rank :
          /\ Reads(r, "setup", s, Msg("setup", works))
          /\ chan' = Push(Popped(s, r), r, conn[r].node,
                          IF r = N - 1 THEN Msg("ack", TRUE) ELSE Msg("setup", works))
          /\ Goto(r, IF auto THEN "topo" ELSE "ready")
          /\ UNCHANGED <<auto, port, works, conn, fwd, sig>>
    BY <1>7 DEF PassSetup
  <2>2. s = k - 1 /\ r = At(k) /\ pc[At(k)] = "setup"
    BY <1>4, <2>1
  <2>3. k # N /\ r = k /\ k \in Rank /\ k # 0
    BY <1>0, <1>3, <2>2 DEF At
  <2>4. Popped(s, r) = Quiet
    BY <1>2, <2>2, OneMoves
  <2>5. Succ(k) = At(k + 1) /\ At(k + 1) \in Rank /\ k + 1 \in 1..N
    BY <2>3, SuccIs
  <2>6. chan' = Only(k, At(k + 1), IF k + 1 = N THEN Msg("ack", TRUE) ELSE Msg("setup", works))
    <3>1. k = N - 1 <=> k + 1 = N
      BY <1>0
    <3>2. chan' = Push(Quiet, k, At(k + 1), IF k + 1 = N THEN Msg("ack", TRUE)
          ELSE Msg("setup", works))
      BY <1>5, <2>1, <2>3, <2>4, <2>5, <3>1
    <3>3. QED BY <2>3, <2>5, <3>2, QuietPush
  <2>7. pc' = [x \in Rank |-> IF x = 0 THEN "ack setup"
                 ELSE IF x < k + 1 THEN (IF auto THEN "topo" ELSE "ready") ELSE "setup"]
    <3>1. pc' = [pc EXCEPT ![k] = IF auto THEN "topo" ELSE "ready"]
      BY <2>1, <2>3 DEF Goto
    <3>2. pc = [x \in Rank |-> IF x = 0 THEN "ack setup"
                 ELSE IF x < k THEN (IF auto THEN "topo" ELSE "ready") ELSE "setup"]
      BY DEF SetupAt
    <3>3. \A x \in Rank : x < k + 1 <=> x < k \/ x = k
      BY <1>0
    <3>4. ~(k < k)
      OBVIOUS
    <3>5. QED BY <3>1, <3>2, <3>3, <3>4, <2>3
  <2>8. SetupAt(k + 1)'
    <3>1. (k + 1) - 1 = k
      OBVIOUS
    <3>2. auto' = auto /\ works' = works
      BY <2>1
    <3>3. works' \subseteq Rank /\ 0 \in works' /\ (~auto' => works' = Rank)
      BY <3>2 DEF SetupAt
    <3>4. chan' = Only((k + 1) - 1, At(k + 1), IF k + 1 = N THEN Msg("ack", TRUE)
          ELSE Msg("setup", works'))
      BY <2>6, <3>1, <3>2
    <3>5. pc' = [x \in Rank |-> IF x = 0 THEN "ack setup"
                 ELSE IF x < k + 1 THEN (IF auto' THEN "topo" ELSE "ready") ELSE "setup"]
      BY <2>7, <3>2
    <3>6. QED BY <3>3, <3>4, <3>5 DEF SetupAt
  <2>9. Untouched'
    BY <2>1 DEF Untouched
  <2>10. QED BY <2>5, <2>8, <2>9 DEF Before
<1>8. CASE SetupAcked
  <2>1. PICK s \in Rank : Reads(0, "ack setup", s, Msg("ack", TRUE))
    BY <1>8 DEF SetupAcked
  <2>2. 0 = At(k)
    BY <1>0, <1>4, <2>1
  <2>3. k = N
    BY <1>0, <2>2 DEF At
  <2>4. QED BY <1>8, <2>3
<1>11. ~SendArgs /\ ~ArgsAcked /\ ~DealLayers /\ ~NoAllocation /\ ~FirstToken /\ ~LapDone /\ ~Closed
  BY <1>0, <1>1, <1>5, <1>6
        DEF SendArgs, ArgsAcked, DealLayers, NoAllocation, FirstToken, LapDone, Closed
<1>12. ASSUME NEW r \in Rank \ {0}
       PROVE ~PassArgs(r) /\ ~AddInfo(r) /\ ~RebuildTopo(r) /\ ~TakeBatch(r) /\ ~TakeHidden(r)
             /\ ~Relay(r) /\ ~Stop(r)
  <2>1. ~PassArgs(r) /\ ~RebuildTopo(r) /\ ~TakeBatch(r)
    BY <1>6 DEF PassArgs, RebuildTopo, TakeBatch
  <2>2. ~TakeHidden(r) /\ ~AddInfo(r)
    BY <1>6 DEF TakeHidden, AddInfo
  <2>3. ~Relay(r)
    <3>1. SUFFICES ASSUME NEW s \in Rank, pc[r] = "ready", chan[<<s, r>>] # <<>> PROVE FALSE
      BY DEF Relay
    <3>2. r = At(k)
      BY <1>2, <3>1, OneMoves
    <3>3. QED BY <1>3, <3>1, <3>2
  <2>4. QED BY <1>5, <2>1, <2>2, <2>3 DEF Stop
<1>13. ASSUME NEW r \in Rank PROVE ~TakeView(r)
  BY <1>6 DEF TakeView
<1>14. QED
  BY <1>7, <1>8, <1>11, <1>12, <1>13 DEF Next, Master, Other, Terminated

LEMMA GivenUpStep ==
  ASSUME StartupAssumption, Untouched, GivenUp, Next PROVE UNCHANGED vars
<1>0. 0 \in Rank /\ sig = {} /\ chan = Quiet
  BY DEF StartupAssumption, Rank, Untouched, GivenUp
<1>1. \A r \in Rank : pc[r] = IF r = 0 THEN "failed" ELSE "setup"
  BY DEF GivenUp
<1>2. \A a, b \in Rank : \A p, w : ~Reads(b, p, a, w)
  BY <1>0, ReadsNone
<1>3. ~Master
  BY <1>0, <1>1, <1>2
        DEF Master, SendArgs, ArgsAcked, DealLayers, NoAllocation, SetupAcked, FirstToken,
            LapDone, Closed
<1>4. ASSUME NEW r \in Rank \ {0} PROVE ~Other(r)
  <2>1. ~PassArgs(r) /\ ~RebuildTopo(r) /\ ~TakeBatch(r) /\ ~PassSetup(r)
    BY <1>2 DEF PassArgs, RebuildTopo, TakeBatch, PassSetup
  <2>2. ~TakeHidden(r) /\ ~AddInfo(r)
    BY <1>2 DEF TakeHidden, AddInfo
  <2>3. QED BY <1>0, <1>1, <2>1, <2>2 DEF Other, Relay, Stop
<1>5. \A r \in Rank : ~TakeView(r)
  BY <1>2 DEF TakeView
<1>6. QED BY <1>3, <1>4, <1>5 DEF Next, Terminated

-----------------------------------------------------------------------------
(* The order of the members.                                               *)
LEMMA NextUnique ==
  ASSUME StartupAssumption, NEW M \in SUBSET Rank, NEW r \in Rank, NEW x, NEW y,
         NextIs(M, r, x), NextIs(M, r, y)
  PROVE  x = y
<1>1. N \in Nat /\ \A z \in M : z \in Nat /\ z < N
  BY DEF StartupAssumption, Rank
<1>2. r \in Nat
  BY <1>1 DEF Rank
<1>3. QED BY <1>1, <1>2 DEF NextIs

LEMMA NextInjective ==
  ASSUME StartupAssumption, NEW M \in SUBSET Rank, NEW r \in M, NEW s \in M, NEW x,
         NextIs(M, r, x), NextIs(M, s, x)
  PROVE  r = s
<1>1. N \in Nat /\ r \in Nat /\ s \in Nat
  BY DEF StartupAssumption, Rank
<1>2. QED BY <1>1 DEF NextIs

LEMMA NextExists ==
  ASSUME StartupAssumption, NEW M \in SUBSET Rank, NEW r \in Rank
  PROVE  \E x \in 1..N : NextIs(M, r, x)
<1>1. N \in Nat /\ r \in 0..N-1
  BY DEF StartupAssumption, Rank
<1> DEFINE U == {y \in r+1..N : y = N \/ y \in M}
<1>2. U \in SUBSET Nat /\ N \in U
  BY <1>1
<1>3. PICK x \in U : \A y \in U : x <= y
  BY <1>2, Least
<1>4. \A y \in r+1..x-1 : y \notin M
  BY <1>1, <1>3
<1>5. QED BY <1>1, <1>3, <1>4 DEF NextIs

LEMMA OutsideFrame ==
  ASSUME StartupAssumption, NEW M, 0 \in M, NEW t, Outside(M, t),
         \A r \in Rank \ M : pc'[r] = pc[r],
         \A s \in Rank, r \in Rank \ M : chan'[<<s, r>>] = chan[<<s, r>>]
  PROVE  Outside(M, t)'
<1>0. N \in Nat /\ Rank = 0..N-1
  BY DEF StartupAssumption, Rank
<1>1. ASSUME NEW r \in Rank \ M, Past(M, r - 1), r - 1 \in Rank PROVE Past(M, r - 1)'
  BY <1>1 DEF Past
<1>2. ASSUME NEW r \in Rank \ M, NEW s \in Rank, Told(M, t, s, r) PROVE Told(M, t, s, r)'
  <2>1. s = r - 1
    BY <1>2 DEF Told
  <2>2. QED BY <1>1, <1>2, <2>1 DEF Told
<1>3. ASSUME NEW r \in Rank \ M, r < t, pc[r] = "exited", Past(M, r - 1)
      PROVE  Past(M, r - 1)'
  <2>1. r - 1 \in Rank
    BY <1>0
  <2>2. QED BY <2>1, <1>3, <1>1
<1>4. QED BY <1>1, <1>2, <1>3 DEF Outside

(* A device that is told exits, whoever has the marks.                     *)
LEMMA OutsiderExits ==
  ASSUME StartupAssumption, NEW M, NEW t, Shape(M, t), NEW r \in Rank \ M, RebuildTopo(r)
  PROVE  /\ Shape(M, t)' /\ UNCHANGED <<auto, port, works, conn, sig>>
         /\ \A m \in M : pc'[m] = pc[m] /\ fwd'[m] = fwd[m]
         /\ \A s \in Rank, m \in M : chan'[<<s, m>>] = chan[<<s, m>>]
<1>0. N \in Nat /\ N >= 2 /\ Rank = 0..N-1 /\ 0 \in Rank
  BY DEF StartupAssumption, Rank
<1>1. /\ pc = [a \in Rank |-> pc[a]] /\ Full(chan)
      /\ fwd = [a \in Rank |-> fwd[a]]
      /\ M \subseteq Rank /\ 0 \in M /\ 0 \in works /\ (t = N \/ t \in M)
      /\ \A w \in works : w < t => w \in M
  BY DEF Shape, RingOf
<1>2. t \in Nat /\ t <= N /\ r \in Nat /\ r - 1 \in Rank
  BY <1>0, <1>1
<1>3. PICK s \in Rank, f \in SUBSET Rank :
        /\ Reads(r, "topo", s, Msg("topo", f))
        /\ Rebuild(r, Popped(s, r), f)
        /\ UNCHANGED <<auto, port, works, sig>>
  BY DEF RebuildTopo
<1>4. Told(M, t, s, r)
  BY <1>3 DEF Shape, Outside, Reads
<1>5. s = r - 1 /\ r < t /\ pc[r] = "topo" /\ Past(M, s)
  BY <1>4 DEF Told
<1>6. chan[<<s, r>>] = <<Msg("topo", f)>> /\ Agrees(f, M, r)
  <2>1. PICK g \in SUBSET Rank : Agrees(g, M, r) /\ chan[<<s, r>>] = <<Msg("topo", g)>>
    BY <1>4 DEF Told
  <2>2. Head(<<Msg("topo", g)>>) = Msg("topo", g)
    OBVIOUS
  <2>3. Msg("topo", f) = Msg("topo", g)
    BY <1>3, <2>1, <2>2 DEF Reads
  <2>4. Msg("topo", f).val = f /\ Msg("topo", g).val = g
    BY DEF Msg
  <2>5. f = g
    BY <2>3, <2>4
  <2>6. QED BY <2>1, <2>5
<1>7. r \notin works /\ r \notin f
  <2>1. r \notin works
    BY <1>1, <1>5
  <2>2. r \in r..N-1 /\ \A y \in r..r-1 : y \notin M
    BY <1>0, <1>2
  <2>3. QED BY <1>6, <2>1, <2>2 DEF Agrees
<1>8. Exit(r, Popped(s, r), f)
  BY <1>3, <1>7 DEF Rebuild, Stays
<1>9. conn[r].node = Succ(r) /\ Succ(r) = At(r + 1)
  BY <1>0, SuccIs DEF Shape, Sockets
<1>10. /\ fwd' = [fwd EXCEPT ![r] = f] /\ pc' = [pc EXCEPT ![r] = "exited"] /\ conn' = conn
  BY <1>8 DEF Exit, Goto
<1>11. /\ Full(Popped(s, r))
       /\ \A a, b \in Rank : Popped(s, r)[<<a, b>>] = IF a = s /\ b = r THEN <<>>
           ELSE chan[<<a, b>>]
  <2>1. Tail(<<Msg("topo", f)>>) = <<>>
    OBVIOUS
  <2>2. /\ Full(Popped(s, r))
        /\ \A a, b \in Rank : Popped(s, r)[<<a, b>>] =
              IF a = s /\ b = r THEN Tail(chan[<<s, r>>]) ELSE chan[<<a, b>>]
    BY <1>1, PoppedIs
  <2>3. Tail(chan[<<s, r>>]) = <<>>
    BY <1>6, <2>1
  <2>4. QED BY <2>2, <2>3
<1> DEFINE out == ~Stays(Succ(r), f)
<1>12. out => /\ r + 1 \in Rank \ M /\ Succ(r) = r + 1 /\ r + 1 < t
              /\ Agrees(f, M, r + 1)
  <2> SUFFICES ASSUME out PROVE r + 1 \in Rank \ M /\ Succ(r) = r + 1 /\ r + 1 < t
                      /\ Agrees(f, M, r + 1)
    OBVIOUS
  <2>1. Succ(r) \notin works /\ Succ(r) \notin f
    BY DEF Stays
  <2>2. r + 1 # N /\ r + 1 \in Rank /\ Succ(r) = r + 1
    <3>1. CASE r + 1 = N
      BY <1>1, <1>9, <2>1, <3>1 DEF At
    <3>2. CASE r + 1 # N
      <4>1. r + 1 \in Rank
        BY <1>0, <3>2
      <4>2. QED BY <1>9, <3>2, <4>1 DEF At
    <3>3. QED BY <3>1, <3>2
  <2>3. Agrees(f, M, r + 1)
    <3>1. ASSUME NEW x \in r+1..N-1, \A y \in r+1..x-1 : y \notin M
          PROVE  x \in f <=> x \in M
      <4>1. x \in r..N-1 /\ \A y \in r..x-1 : y = r \/ y \in r+1..x-1
        BY <1>0, <1>2
      <4>2. QED BY <1>6, <3>1, <4>1 DEF Agrees
    <3>2. QED BY <3>1 DEF Agrees
  <2>4. r + 1 \notin M
    <3>1. r + 1 \in r+1..N-1 /\ \A y \in r+1..(r+1)-1 : y \notin M
      BY <1>0, <2>2
    <3>2. QED BY <2>1, <2>2, <2>3, <3>1 DEF Agrees
  <2>5. r + 1 < t
    BY <1>0, <1>1, <1>2, <1>5, <2>2, <2>4
  <2>6. QED BY <2>2, <2>3, <2>4, <2>5
<1>13. chan' = IF out THEN Push(Popped(s, r), r, Succ(r), Msg("topo", f)) ELSE Popped(s, r)
  BY <1>8, <1>9 DEF Exit, NotifyNext
<1> HIDE DEF out
<1>14. out => chan[<<r, r + 1>>] = <<>>
  <2> SUFFICES ASSUME out PROVE chan[<<r, r + 1>>] = <<>>
    OBVIOUS
  <2>1. ~Past(M, r)
    BY <1>5 DEF Past
  <2>2. ~Told(M, t, r, r + 1)
    BY <2>1 DEF Told
  <2>3. QED BY <1>12, <2>2 DEF Shape, Outside
<1>15. /\ Full(chan')
       /\ \A a, b \in Rank : chan'[<<a, b>>] =
            IF a = s /\ b = r THEN <<>>
            ELSE IF out /\ a = r /\ b = r + 1 THEN <<Msg("topo", f)>> ELSE chan[<<a, b>>]
  <2>1. CASE out
    <3>1. Append(<<>>, Msg("topo", f)) = <<Msg("topo", f)>>
      OBVIOUS
    <3>2. Popped(s, r)[<<r, r + 1>>] = <<>>
      BY <1>11, <1>12, <1>14, <2>1, <1>2
    <3>3. /\ Full(chan')
          /\ \A a, b \in Rank : chan'[<<a, b>>] =
               IF a = r /\ b = r + 1 THEN <<Msg("topo", f)>> ELSE Popped(s, r)[<<a, b>>]
      <4> DEFINE ch == Popped(s, r)
      <4>1. r + 1 \in Rank /\ Succ(r) = r + 1 /\ chan' = Push(ch, r, r + 1, Msg("topo", f))
        BY <1>12, <1>13, <2>1
      <4>2. Full(ch)
        BY <1>11
      <4> HIDE DEF ch
      <4>3. /\ Full(chan')
            /\ \A a, b \in Rank : chan'[<<a, b>>] =
                 IF a = r /\ b = r + 1 THEN Append(ch[<<r, r + 1>>], Msg("topo", f))
                     ELSE ch[<<a, b>>]
        BY <4>1, <4>2, PushIs
      <4>4. ch[<<r, r + 1>>] = <<>>
        BY <3>2 DEF ch
      <4>5. QED BY <3>1, <4>3, <4>4 DEF ch
    <3>4. r # r + 1
      BY <1>2
    <3>5. ASSUME NEW a \in Rank, NEW b \in Rank
          PROVE  chan'[<<a, b>>] = IF a = s /\ b = r THEN <<>>
                   ELSE IF a = r /\ b = r + 1 THEN <<Msg("topo", f)>> ELSE chan[<<a, b>>]
      <4>1. Popped(s, r)[<<a, b>>] = IF a = s /\ b = r THEN <<>> ELSE chan[<<a, b>>]
        BY <1>11
      <4>2. chan'[<<a, b>>] = IF a = r /\ b = r + 1 THEN <<Msg("topo", f)>>
            ELSE Popped(s, r)[<<a, b>>]
        BY <3>3
      <4>3. QED BY <3>4, <4>1, <4>2
    <3>6. QED BY <2>1, <3>3, <3>5
  <2>2. CASE ~out
    BY <1>11, <1>13, <2>2
  <2>3. QED BY <2>1, <2>2
<1>16. \A a \in Rank : pc'[a] = IF a = r THEN "exited" ELSE pc[a]
  BY <1>1, <1>10
<1>17. \A a \in Int : Past(M, a) /\ (a \in M \/ a \in Rank) => Past(M, a)'
  BY <1>1, <1>16 DEF Past
<1>18. Outside(M, t)'
  <2>1. ASSUME NEW b \in Rank \ M
        PROVE  pc'[b] = "topo" \/ (b < t /\ pc'[b] = "exited" /\ Past(M, b - 1)')
    <3>1. b - 1 \in Rank /\ b - 1 \in Int
      BY <1>0, <1>1
    <3>2. pc[b] = "topo" \/ (b < t /\ pc[b] = "exited" /\ Past(M, b - 1))
      BY DEF Shape, Outside
    <3>3. CASE b = r
      BY <1>5, <1>16, <1>17, <3>1, <3>3
    <3>4. CASE b # r
      BY <1>16, <1>17, <3>1, <3>2, <3>4
    <3>5. QED BY <3>3, <3>4
  <2>2. ASSUME NEW a \in Rank, NEW b \in Rank \ M PROVE chan'[<<a, b>>] = <<>> \/ Told(M, t, a, b)'
    <3>1. chan[<<a, b>>] = <<>> \/ Told(M, t, a, b)
      BY DEF Shape, Outside
    <3>2. CASE b = r
      <4>1. CASE a = s
        BY <1>15, <3>2, <4>1
      <4>2. CASE a # s
        <5>1. ~Told(M, t, a, b)
          BY <1>5, <3>2, <4>2 DEF Told
        <5>2. chan'[<<a, b>>] = chan[<<a, b>>]
          BY <1>2, <1>15, <3>2, <4>2
        <5>3. QED BY <3>1, <5>1, <5>2
      <4>3. QED BY <4>1, <4>2
    <3>3. CASE b # r /\ out /\ a = r /\ b = r + 1
      <4>1. a = b - 1 /\ b < t
        BY <1>2, <1>12, <3>3
      <4>2. pc'[b] = "topo"
        <5>1. pc[b] = "topo"
          <6>1. b - 1 = r
            BY <1>2, <3>3
          <6>2. ~Past(M, r)
            BY <1>5 DEF Past
          <6>3. QED BY <6>1, <6>2 DEF Shape, Outside
        <5>2. QED BY <1>16, <3>3, <5>1
      <4>3. Past(M, a)'
        BY <1>16, <3>3 DEF Past
      <4>4. chan'[<<a, b>>] = <<Msg("topo", f)>>
        BY <1>15, <3>3
      <4>5. Agrees(f, M, b)
        BY <1>12, <3>3
      <4>6. QED BY <4>1, <4>2, <4>3, <4>4, <4>5 DEF Told
    <3>4. CASE b # r /\ ~(out /\ a = r /\ b = r + 1)
      <4>1. chan'[<<a, b>>] = chan[<<a, b>>] /\ pc'[b] = pc[b]
        BY <1>15, <1>16, <3>4
      <4>2. Told(M, t, a, b) => Told(M, t, a, b)'
        <5>1. a \in Int
          BY <1>0
        <5>2. QED BY <1>17, <4>1, <5>1 DEF Told
      <4>3. QED BY <3>1, <4>1, <4>2
    <3>5. QED BY <3>2, <3>3, <3>4
  <2>3. QED BY <2>1, <2>2 DEF Outside
<1>19. RingOf(M, t)' /\ Sockets(M, t)'
  BY <1>3, <1>10 DEF Shape, RingOf, Sockets
<1>20. Shape(M, t)'
  <2>1. pc' = [a \in Rank |-> pc'[a]] /\ fwd' = [a \in Rank |-> fwd'[a]]
    BY <1>1, <1>10
  <2>2. QED BY <1>15, <1>18, <1>19, <2>1 DEF Shape
<1>21. \A m \in M : pc'[m] = pc[m] /\ fwd'[m] = fwd[m]
  BY <1>1, <1>10
<1>22. ASSUME NEW a \in Rank, NEW m \in M PROVE chan'[<<a, m>>] = chan[<<a, m>>]
  BY <1>1, <1>12, <1>15
<1>23. QED BY <1>3, <1>10, <1>20, <1>21, <1>22

-----------------------------------------------------------------------------
(* A device connects to the next one that works, or to one before it.      *)
LEMMA NextWorkerIs ==
  ASSUME StartupAssumption, NEW r \in Rank, works \subseteq Rank, 0 \in works
  PROVE  /\ NextWorker(r) \in 1..N - r
         /\ (r + NextWorker(r)) % N \in works \cup {r}
         /\ \A e \in 1..NextWorker(r)-1 : r + e \in Rank /\ r + e \notin works
<1>0. N \in Nat /\ N >= 2 /\ r \in 0..N-1 /\ Rank = 0..N-1
  BY DEF StartupAssumption, Rank
<1> DEFINE D == {d \in 1..N : (r + d) % N \in works \cup {r}}
<1>1. N - r \in D
  <2>1. N - r \in 1..N - r /\ N - r \in 1..N /\ r + (N - r) = N
    BY <1>0
  <2>2. (r + (N - r)) % N = At(r + (N - r))
    BY <2>1, AtIs
  <2>3. At(N) = 0
    BY DEF At
  <2>4. QED BY <2>1, <2>2, <2>3
<1>2. D \in SUBSET Nat /\ D # {}
  <2>1. D # {}
    BY <1>1
  <2>2. \A d \in 1..N : d \in Nat
    BY <1>0
  <2>3. QED BY <2>1, <2>2
<1>3. PICK d \in D : \A e \in D : d <= e
  BY <1>2, Least
<1> DEFINE P(x) == /\ (r + x) % N \in works \cup {r}
                   /\ \A e \in 1..x-1 : (r + e) % N \notin works \cup {r}
<1>4. d \in 1..N /\ P(d)
  <2>1. ASSUME NEW e \in 1..d-1 PROVE e \notin D
    BY <1>0, <1>3
  <2>2. \A e \in 1..d-1 : e \in 1..N
    BY <1>0, <1>3
  <2>3. QED BY <1>3, <2>1, <2>2
<1>5. NextWorker(r) = CHOOSE x \in 1..N : P(x)
  BY DEF NextWorker
<1>6. NextWorker(r) \in 1..N /\ P(NextWorker(r))
  <2> HIDE DEF P
  <2>1. QED BY <1>4, <1>5
<1>7. NextWorker(r) <= N - r
  <2>1. SUFFICES ASSUME NextWorker(r) > N - r PROVE FALSE
    BY <1>0, <1>6
  <2>2. N - r \in 1..NextWorker(r)-1
    BY <1>0, <1>6, <2>1
  <2>3. QED BY <1>1, <1>6, <2>2
<1>8. NextWorker(r) \in 1..N - r
  BY <1>0, <1>6, <1>7
<1>9. ASSUME NEW e \in 1..NextWorker(r)-1 PROVE r + e \in Rank /\ r + e \notin works
  <2>1. e \in 1..N - r /\ r + e \in Rank /\ r + e # N
    BY <1>0, <1>8
  <2>2. (r + e) % N = r + e
    BY <2>1, AtIs DEF At
  <2>3. (r + e) % N \notin works \cup {r}
    BY <1>6, <1>9
  <2>4. QED BY <2>1, <2>2, <2>3
<1>10. (r + NextWorker(r)) % N \in works \cup {r}
  BY <1>6
<1>11. QED BY <1>8, <1>9, <1>10

LEMMA ListenerIs ==
  ASSUME Config, Numbered, NEW r \in Rank, NEW t \in Rank, Listener(r, t) # Lost
  PROVE  Listener(r, t) = t
<1> DEFINE there == {u \in Rank : Host[u] = Host[t] /\ port[u] = port[r] + t}
<1>1. there # {} /\ Listener(r, t) = CHOOSE u \in there : TRUE
  BY DEF Listener
<1>2. Listener(r, t) \in there
  BY <1>1
<1>3. QED BY <1>2 DEF Numbered, Config

LEMMA ConnectionIs ==
  ASSUME StartupAssumption, Config, Numbered, NEW r \in Rank, works \subseteq Rank, 0 \in works,
         conn[r] = [rank |-> Succ(r), node |-> Succ(r)], NEW up \in SUBSET Reachable(r)
  PROVE  \E d \in 1..NextWorker(r) : Connection(r, up) = [rank |-> At(r + d), node |-> At(r + d)]
<1>0. N \in Nat /\ r \in 0..N-1
  BY DEF StartupAssumption, Rank
<1>1. NextWorker(r) \in 1..N - r /\ 1 \in 1..NextWorker(r)
  BY <1>0, NextWorkerIs
<1>2. CASE up = {}
  <2>1. Connection(r, up) = conn[r]
    BY <1>2 DEF Connection
  <2>2. QED BY <1>1, <2>1, SuccIs
<1>3. CASE up # {}
  <2>1. \A d \in up : d \in 2..NextWorker(r) /\ Listener(r, (r + d) % N) # Lost
    BY DEF Reachable
  <2>2. up \in SUBSET (0..NextWorker(r)) /\ NextWorker(r) \in Nat
    BY <1>1, <2>1
  <2>3. \E d \in up : \A e \in up : e <= d
    BY <1>3, <2>2, Greatest
  <2> DEFINE d == CHOOSE z \in up : \A e \in up : e <= z
  <2>4. d \in up
    BY <2>3
  <2>5. Connection(r, up) = [rank |-> (r + d) % N, node |-> Listener(r, (r + d) % N)]
    BY <1>3 DEF Connection
  <2> HIDE DEF d
  <2>6. d \in 1..N - r /\ d \in 1..NextWorker(r)
    BY <1>0, <1>1, <2>1, <2>4
  <2>7. (r + d) % N = At(r + d) /\ At(r + d) \in Rank
    BY <2>6, AtIs
  <2>8. Listener(r, At(r + d)) = At(r + d)
    BY <2>1, <2>4, <2>7, ListenerIs
  <2>9. QED BY <2>5, <2>6, <2>7, <2>8
<1>4. QED BY <1>2, <1>3

(* What Reconnect does, for a connection to rank x.                        *)
Rewired(r, ch, f, x) ==
  LET g == f \cup {At(x)}
  IN  /\ conn' = [conn EXCEPT ![r] = [rank |-> At(x), node |-> At(x)]]
      /\ fwd' = [fwd EXCEPT ![r] = g] /\ pc' = [pc EXCEPT ![r] = "view"]
      /\ Full(chan')
      /\ \A a, b \in Rank : chan'[<<a, b>>] =
           IF a = r /\ (b = At(x) \/ (x # r + 1 /\ b = r + 1)) THEN <<Msg("topo", g)>>
           ELSE ch[<<a, b>>]

LEMMA Reconnected ==
  ASSUME StartupAssumption, NEW r \in Rank, NEW ch, Full(ch), NEW f \in SUBSET Rank,
         NEW d \in 1..N - r,
         works \subseteq Rank, 0 \in works, \A e \in 1..d-1 : r + e \notin works,
         \A x \in f : x <= r,
         conn[r] = [rank |-> Succ(r), node |-> Succ(r)],
         ch[<<r, At(r + d)>>] = <<>>, d # 1 => ch[<<r, r + 1>>] = <<>>,
         Reconnect(r, ch, f, [rank |-> At(r + d), node |-> At(r + d)])
  PROVE  Rewired(r, ch, f, r + d)
<1>0. N \in Nat /\ N >= 2 /\ r \in 0..N-1 /\ Rank = 0..N-1
  BY DEF StartupAssumption, Rank
<1> DEFINE x == At(r + d)
           g == f \cup {x}
           w == Msg("topo", g)
           c == [rank |-> x, node |-> x]
<1>1. x \in Rank /\ Succ(r) = At(r + 1) /\ Succ(r) \in Rank
  BY AtIs, SuccIs
<1>2. d = 1 => x = Succ(r)
  BY <1>1
<1>3. d # 1 => /\ Succ(r) = r + 1 /\ r + 1 # x /\ r + 1 \in Rank
               /\ r + 1 \notin works /\ r + 1 \notin f
  <2> SUFFICES ASSUME d # 1 PROVE /\ Succ(r) = r + 1 /\ r + 1 # x /\ r + 1 \in Rank
                                  /\ r + 1 \notin works /\ r + 1 \notin f
    OBVIOUS
  <2>1. r + 1 \in Rank /\ r + 1 # N /\ r + 1 # r + d /\ r + 1 # 0 /\ 1 \in 1..d-1
    BY <1>0
  <2>2. Succ(r) = r + 1 /\ r + 1 # x
    BY <1>1, <2>1 DEF At
  <2>3. r + 1 \notin f
    BY <1>0
  <2>4. QED BY <2>1, <2>2, <2>3
<1>4. c.rank = x /\ c.node = x /\ conn[r].node = Succ(r)
  OBVIOUS
<1>5. (c.rank # Succ(r)) <=> d # 1
  BY <1>2, <1>3, <1>4
<1>6. d # 1 => ~Stays(Succ(r), g)
  BY <1>3 DEF Stays
<1>7. /\ conn' = [conn EXCEPT ![r] = c] /\ fwd' = [fwd EXCEPT ![r] = g]
      /\ chan' = Push(IF d # 1 THEN NotifyNext(ch, r, g) ELSE ch, r, x, w)
      /\ pc' = [pc EXCEPT ![r] = "view"]
  <2>1. Reconnect(r, ch, f, c)
    OBVIOUS
  <2>2. f \cup {c.rank} = g
    BY <1>4
  <2> HIDE DEF c, g, x
  <2>3. QED BY <1>4, <1>5, <1>6, <2>1, <2>2 DEF Reconnect, Goto
<1>8. Append(<<>>, w) = <<w>>
  OBVIOUS
<1> DEFINE mid == IF d # 1 THEN NotifyNext(ch, r, g) ELSE ch
<1>9. /\ Full(mid)
      /\ \A a, b \in Rank : mid[<<a, b>>] = IF a = r /\ d # 1 /\ b = r + 1 THEN <<w>>
          ELSE ch[<<a, b>>]
  <2>1. CASE d = 1
    BY <2>1
  <2>2. CASE d # 1
    <3>1. mid = Push(ch, r, r + 1, w)
      BY <1>3, <1>4, <2>2 DEF NotifyNext
    <3>2. r + 1 \in Rank
      BY <1>3, <2>2
    <3> HIDE DEF w, mid
    <3>3. /\ Full(mid)
          /\ \A a, b \in Rank : mid[<<a, b>>] =
              IF a = r /\ b = r + 1 THEN Append(ch[<<r, r + 1>>], w) ELSE ch[<<a, b>>]
      BY <3>1, <3>2, PushIs
    <3>4. QED BY <1>8, <2>2, <3>3
  <2>3. QED BY <2>1, <2>2
<1>10. mid[<<r, x>>] = <<>>
  BY <1>1, <1>3, <1>9
<1>11. chan' = Push(mid, r, x, w)
  BY <1>7
<1>12. /\ Full(chan')
       /\ \A a, b \in Rank : chan'[<<a, b>>] = IF a = r /\ b = x THEN <<w>> ELSE mid[<<a, b>>]
  <2> HIDE DEF w, mid, x
  <2>1. /\ Full(chan')
        /\ \A a, b \in Rank : chan'[<<a, b>>] = IF a = r /\ b = x THEN Append(mid[<<r, x>>], w)
            ELSE mid[<<a, b>>]
    BY <1>1, <1>9, <1>11, PushIs
  <2>2. QED BY <1>8, <1>10, <2>1
<1>13. \A a, b \in Rank : chan'[<<a, b>>] =
         IF a = r /\ (b = x \/ (d # 1 /\ b = r + 1)) THEN <<w>> ELSE ch[<<a, b>>]
  <2> HIDE DEF w, mid, x
  <2> SUFFICES ASSUME NEW a \in Rank, NEW b \in Rank
               PROVE  chan'[<<a, b>>] = IF a = r /\ (b = x \/ (d # 1 /\ b = r + 1)) THEN <<w>>
                      ELSE ch[<<a, b>>]
    OBVIOUS
  <2>1. chan'[<<a, b>>] = IF a = r /\ b = x THEN <<w>> ELSE mid[<<a, b>>]
    BY <1>12
  <2>2. mid[<<a, b>>] = IF a = r /\ d # 1 /\ b = r + 1 THEN <<w>> ELSE ch[<<a, b>>]
    BY <1>9
  <2>3. QED BY <2>1, <2>2
<1>14. r + d # r + 1 <=> d # 1
  BY <1>0
<1>15. QED BY <1>7, <1>12, <1>13, <1>14 DEF Rewired

LEMMA Grows ==
  ASSUME StartupAssumption, NEW M, NEW t \in M, Shape(M, t), works # {0}, sig = {},
         NEW ch, Full(ch), \A a \in Rank, b \in Rank \ M : ch[<<a, b>>] = chan[<<a, b>>],
         \A a \in Rank, m \in M : ch[<<a, m>>] = <<>>,
         t # 0 => pc[0] = "view", \A m \in M \ {0, t} : pc[m] = "view",
         NEW d \in 1..NextWorker(t), d # N,
         Reconnect(t, ch, M \ {0}, [rank |-> At(t + d), node |-> At(t + d)]),
         UNCHANGED <<auto, port, works, sig>>
  PROVE  Rebuilding(M \cup {At(t + d)}, t + d)'
<1> DEFINE x == t + d
           y == At(x)
           M2 == M \cup {y}
           g == (M \ {0}) \cup {y}
           w == Msg("topo", g)
<1>0. N \in Nat /\ N >= 2 /\ Rank = 0..N-1 /\ 0 \in Rank
  BY DEF StartupAssumption, Rank
<1>1. /\ pc = [a \in Rank |-> pc[a]] /\ fwd = [a \in Rank |-> fwd[a]]
      /\ M \subseteq Rank /\ 0 \in M /\ works \subseteq Rank /\ 0 \in works
      /\ \A m \in M : m <= t
      /\ \A z \in works : z < t => z \in M
  BY DEF Shape, RingOf
<1>2. NextWorker(t) \in 1..N - t /\ \A e \in 1..NextWorker(t)-1 : t + e \in Rank
      /\ t + e \notin works
  BY <1>1, NextWorkerIs
<1>3. /\ t \in Rank /\ t \in Nat /\ t < N /\ d \in 1..N - t /\ x \in t+1..N
      /\ \A e \in 1..d-1 : t + e \in Rank /\ t + e \notin works
  BY <1>0, <1>1, <1>2
<1>4. y \in Rank /\ (x = N => y = 0) /\ (x # N => y = x /\ y \notin M)
  <2>1. y \in Rank
    BY <1>3, AtIs
  <2>2. x # N => y = x
    BY DEF At
  <2>3. x # N => y \notin M
    BY <1>1, <1>3, <2>2
  <2>4. QED BY <2>1, <2>2, <2>3 DEF At
<1>5. DOMAIN conn = Rank /\ conn[t] = [rank |-> Succ(t), node |-> Succ(t)]
  BY <1>3 DEF Shape, Sockets
<1>6. \A a \in Rank, b \in Rank \ M :
      /\ pc[b] = "topo" \/ (b < t /\ pc[b] = "exited" /\ Past(M, b - 1))
      /\ chan[<<a, b>>] = <<>> \/ Told(M, t, a, b)
  BY DEF Shape, Outside
<1>7. \A a \in Rank, b \in Rank : b > t => ch[<<a, b>>] = <<>> /\ b \notin M /\ pc[b] = "topo"
  <2> SUFFICES ASSUME NEW a \in Rank, NEW b \in Rank, b > t
               PROVE  ch[<<a, b>>] = <<>> /\ b \notin M /\ pc[b] = "topo"
    OBVIOUS
  <2>1. b \notin M /\ ~(b < t)
    BY <1>0, <1>1, <1>3
  <2>2. ~Told(M, t, a, b)
    BY <2>1 DEF Told
  <2>3. QED BY <1>6, <2>1, <2>2
<1>8. /\ conn' = [conn EXCEPT ![t] = [rank |-> y, node |-> y]]
      /\ fwd' = [fwd EXCEPT ![t] = g] /\ pc' = [pc EXCEPT ![t] = "view"]
      /\ Full(chan')
      /\ \A a, b \in Rank : chan'[<<a, b>>] =
           IF a = t /\ (b = y \/ (d # 1 /\ b = t + 1)) THEN <<w>> ELSE ch[<<a, b>>]
  <2>1. M \ {0} \in SUBSET Rank /\ \A z \in M \ {0} : z <= t
    BY <1>1
  <2>2. ch[<<t, At(t + d)>>] = <<>>
    <3>1. CASE x = N
      BY <1>1, <1>3, <1>4, <3>1
    <3>2. CASE x # N
      BY <1>3, <1>4, <1>7, <3>2
    <3>3. QED BY <3>1, <3>2
  <2>3. d # 1 => ch[<<t, t + 1>>] = <<>>
    <3>1. d # 1 => t + 1 \in Rank /\ t + 1 > t
      BY <1>0, <1>3
    <3>2. QED BY <1>3, <1>7, <3>1
  <2> HIDE DEF w, g, M2
  <2> DEFINE f == M \ {0}
             c == [rank |-> At(t + d), node |-> At(t + d)]
  <2>4. Reconnect(t, ch, f, c) /\ f \in SUBSET Rank /\ (\A z \in f : z <= t)
    BY <2>1
  <2>5. \A e \in 1..d-1 : t + e \notin works
    BY <1>3
  <2> HIDE DEF f
  <2>6. Rewired(t, ch, f, t + d)
    BY <1>1, <1>3, <1>5, <2>2, <2>3, <2>4, <2>5, Reconnected
  <2>7. t + d # t + 1 <=> d # 1
    BY <1>3
  <2>8. QED BY <2>6, <2>7 DEF Rewired, w, g, f
<1>9. \A b \in Rank : pc'[b] = IF b = t THEN "view" ELSE pc[b]
  BY <1>1, <1>8
<1>10. /\ M2 \subseteq Rank /\ 0 \in M2 /\ \A z \in M2 : z <= x
       /\ x = N \/ x \in M2
       /\ \A z \in Rank : z < x => (z \in M2 <=> z \in M)
  <2>1. \A z \in M : z <= x
    BY <1>0, <1>1, <1>3
  <2>2. y <= x
    BY <1>0, <1>3, <1>4
  <2>3. ASSUME NEW z \in Rank, z < x PROVE z \in M2 <=> z \in M
    BY <1>1, <1>4, <2>3, <1>0, <1>3
  <2>4. QED BY <1>1, <1>4, <2>1, <2>2, <2>3
<1>11. RingOf(M2, x)'
  <2>1. ASSUME NEW z \in works, z < x PROVE z \in M2
    <3>1. CASE z < t
      BY <1>1, <3>1
    <3>2. CASE z = t
      BY <3>2
    <3>3. CASE z > t
      <4>1. z \in 0..N-1
        BY <1>0, <1>1
      <4>2. z - t \in 1..d-1 /\ t + (z - t) = z
        BY <1>3, <2>1, <3>3, <4>1
      <4>3. QED BY <1>3, <4>2
    <3>4. QED BY <1>0, <1>1, <1>3, <3>1, <3>2, <3>3
  <2>2. works' = works
    OBVIOUS
  <2> HIDE DEF M2, x
  <2>3. QED BY <1>1, <1>10, <2>1, <2>2 DEF RingOf
<1>12. Sockets(M2, x)'
  <2>1. DOMAIN conn' = Rank /\ \A r \in Rank : conn'[r] = IF r = t THEN [rank |-> y, node |-> y]
        ELSE conn[r]
    BY <1>3, <1>5, <1>8
  <2>2. NextIs(M2, t, x)
    <3>1. \A z \in t+1..x-1 : z \notin M2
      BY <1>0, <1>1, <1>3, <1>4
    <3>2. QED BY <1>3, <1>10, <3>1 DEF NextIs
  <2>3. ASSUME NEW r \in Rank, r \in M2, r < x, r # t
        PROVE  \E z \in 1..N : NextIs(M2, r, z) /\ conn'[r] = [rank |-> At(z), node |-> At(z)]
    <3>1. r \in M /\ r < t /\ M # {0} /\ r \in Nat
      BY <1>0, <1>1, <1>3, <1>10, <2>3
    <3>2. PICK z \in 1..N : NextIs(M, r, z) /\ conn[r] = [rank |-> At(z), node |-> At(z)]
      BY <3>1 DEF Shape, Sockets
    <3>3. z <= t
      BY <1>0, <1>3, <3>1, <3>2 DEF NextIs
    <3>4. NextIs(M2, r, z)
      <4>1. z \in r+1..N /\ (z = N \/ z \in M2)
        BY <3>2 DEF NextIs
      <4>2. ASSUME NEW u \in r+1..z-1 PROVE u \notin M2
        <5>1. u \in Rank /\ u < x
          BY <1>0, <1>3, <3>1, <3>3
        <5>2. QED BY <1>10, <3>2, <5>1 DEF NextIs
      <4>3. QED BY <4>1, <4>2 DEF NextIs
    <3>5. QED BY <2>1, <2>3, <3>2, <3>4
  <2>4. ASSUME NEW r \in Rank, ~(r \in M2 /\ r < x)
               PROVE conn'[r] = [rank |-> Succ(r), node |-> Succ(r)]
    <3>1. r # t
      BY <1>3, <2>4
    <3>2. ~(r \in M /\ r < t)
      BY <1>0, <1>3, <2>4
    <3>3. QED BY <2>1, <3>1, <3>2 DEF Shape, Sockets
  <2>5. x \in 1..N /\ t < x
    BY <1>3
  <2> HIDE DEF M2, x
  <2>6. QED BY <1>10, <2>1, <2>2, <2>3, <2>4, <2>5 DEF Sockets, y
<1>13. Outside(M2, x)'
  <2>1. ASSUME NEW r, Past(M, r), r \in M \/ r \in Rank PROVE Past(M2, r)'
    BY <1>9, <2>1 DEF Past
  <2>2. ASSUME NEW b \in Rank \ M2
        PROVE  pc'[b] = "topo" \/ (b < x /\ pc'[b] = "exited" /\ Past(M2, b - 1)')
    <3>1. b \in Rank \ M /\ b # t /\ b - 1 \in Rank
      BY <1>0, <1>1
    <3>2. pc[b] = "topo" \/ (b < t /\ pc[b] = "exited" /\ Past(M, b - 1))
      BY <1>6, <3>1
    <3>3. b < t => b < x
      BY <1>0, <1>3
    <3>4. QED BY <1>9, <2>1, <3>1, <3>2, <3>3
  <2>3. ASSUME NEW a \in Rank, NEW b \in Rank \ M2
               PROVE chan'[<<a, b>>] = <<>> \/ Told(M2, x, a, b)'
    <3>1. b \in Rank \ M /\ b # t /\ b # y /\ pc'[b] = pc[b]
      BY <1>9
    <3>2. CASE a = t /\ d # 1 /\ b = t + 1
      <4>1. chan'[<<a, b>>] = <<w>> /\ g \in SUBSET Rank
        BY <1>1, <1>4, <1>8, <3>2
      <4>2. a = b - 1 /\ b < x /\ b > t /\ 0 < b
        BY <1>3, <3>2
      <4>3. pc'[b] = "topo"
        BY <1>7, <3>1, <4>2
      <4>4. Past(M2, a)'
        BY <3>2 DEF Past
      <4>5. Agrees(g, M2, b)
        <5>1. \A z \in b..N-1 : z # 0
          BY <1>0, <3>1, <4>2
        <5>2. QED BY <5>1 DEF Agrees
      <4>6. QED BY <4>1, <4>2, <4>3, <4>4, <4>5 DEF Told
    <3>3. CASE ~(a = t /\ d # 1 /\ b = t + 1)
      <4>1. chan'[<<a, b>>] = chan[<<a, b>>]
        BY <1>8, <3>1, <3>3
      <4>2. ASSUME Told(M, t, a, b) PROVE Told(M2, x, a, b)'
        <5>1. /\ a = b - 1 /\ b < t /\ pc[b] = "topo" /\ Past(M, a)
          BY <4>2 DEF Told
        <5>2. PICK f \in SUBSET Rank : Agrees(f, M, b) /\ chan[<<a, b>>] = <<Msg("topo", f)>>
          BY <4>2 DEF Told
        <5>3. Agrees(f, M2, b)
          <6>1. SUFFICES ASSUME NEW z \in b..N-1, \A u \in b..z-1 : u \notin M2
                         PROVE  z \in f <=> z \in M2
            BY DEF Agrees
          <6>2. z \in Rank /\ b \in Nat
            BY <1>0
          <6>3. z <= t
            BY <1>0, <1>3, <5>1, <6>1, <6>2
          <6>4. z < x
            BY <1>0, <1>3, <6>2, <6>3
          <6>5. z \in M2 <=> z \in M
            BY <1>10, <6>2, <6>4
          <6>6. \A u \in b..z-1 : u \notin M
            BY <6>1
          <6>7. QED BY <5>2, <6>5, <6>6 DEF Agrees
        <5>4. Past(M2, a)' /\ b < x
          <6>1. b < x
            BY <1>0, <1>3, <5>1
          <6>2. QED BY <2>1, <5>1, <6>1
        <5>5. QED BY <3>1, <4>1, <5>1, <5>2, <5>3, <5>4 DEF Told
      <4>3. QED BY <1>6, <3>1, <4>1, <4>2
    <3>4. QED BY <3>2, <3>3
  <2> HIDE DEF M2, x
  <2>4. QED BY <2>2, <2>3 DEF Outside
<1>14. Shape(M2, x)'
  <2>1. pc' = [a \in Rank |-> pc'[a]] /\ fwd' = [a \in Rank |-> fwd'[a]]
    BY <1>1, <1>8
  <2> HIDE DEF M2, x
  <2>2. QED BY <1>8, <1>11, <1>12, <1>13, <2>1 DEF Shape
<1>15. M2 # {0}
  <2>1. t # 0 \/ y # 0
    BY <1>0, <1>3, <1>4
  <2>2. QED BY <2>1
<1>16. pc'[0] = "view"
  BY <1>0, <1>9
<1>17. ASSUME NEW m \in M2 \ {0} PROVE pc'[m] = IF m = x THEN "topo" ELSE "view"
  <2>1. CASE m = x
    <3>1. m \in Rank /\ m > t /\ m # t
      BY <1>3, <1>10, <2>1
    <3>2. QED BY <1>7, <1>9, <2>1, <3>1
  <2>2. CASE m # x
    <3>1. m \in M /\ m \in Rank
      BY <1>1, <1>4, <2>2
    <3>2. QED BY <1>9, <2>2, <3>1
  <2>3. QED BY <2>1, <2>2
<1>18. ASSUME NEW a \in Rank, NEW b \in M2
       PROVE  chan'[<<a, b>>] = IF b = y /\ a \in M2 /\ NextIs(M2, a, x)
                                THEN <<Msg("topo", IF x = N THEN M2 ELSE M2 \ {0})>> ELSE <<>>
  <2>1. g = IF x = N THEN M2 ELSE M2 \ {0}
    <3>1. CASE x = N
      BY <1>1, <1>4, <3>1
    <3>2. CASE x # N
      <4>1. y # 0
        BY <1>1, <1>4, <3>2
      <4>2. QED BY <3>2, <4>1
    <3>3. QED BY <3>1, <3>2
  <2>2. NextIs(M2, t, x)
    <3>1. \A z \in t+1..x-1 : z \notin M2
      BY <1>0, <1>1, <1>3, <1>4
    <3>2. QED BY <1>3, <1>10, <3>1 DEF NextIs
  <2>3. a \in M2 /\ NextIs(M2, a, x) <=> a = t
    <3>1. M2 \in SUBSET Rank /\ t \in M2
      BY <1>10
    <3> HIDE DEF M2, x
    <3>2. QED BY <2>2, <3>1, NextInjective
  <2>4. ~(d # 1 /\ b = t + 1)
    BY <1>0, <1>1, <1>3, <1>4
  <2>5. ~(a = t /\ b = y) => ch[<<a, b>>] = <<>>
    <3>1. CASE b \in M
      BY <3>1
    <3>2. CASE b \notin M
      <4>1. b = y /\ y > t /\ y \in Rank
        BY <1>1, <1>3, <1>4, <3>2
      <4>2. QED BY <1>7, <4>1
    <3>3. QED BY <3>1, <3>2
  <2>6. b \in Rank
    BY <1>10
  <2>7. chan'[<<a, b>>] = IF a = t /\ b = y THEN <<w>> ELSE <<>>
    BY <1>8, <2>4, <2>5, <2>6
  <2> HIDE DEF M2, x, y, g
  <2>8. QED BY <2>1, <2>3, <2>7 DEF w
<1>19. Rebuilding(M2, x)'
  <2>1. sig' = {}
    OBVIOUS
  <2> HIDE DEF M2, x
  <2>2. QED BY <1>14, <1>15, <1>16, <1>17, <1>18, <2>1 DEF Rebuilding, y
<1>20. QED BY <1>19

-----------------------------------------------------------------------------
(* The devices find the members, one after another.                        *)
LEMMA SetupEnds ==
  ASSUME StartupAssumption, Config, Numbered, Untouched, SetupAt(N), SetupAcked
  PROVE  \/ \E M, t : Rebuilding(M, t)'
         \/ \E M, v : Running(M, v, 0, 0, <<>>, 0)'
<1>0. /\ N \in Nat /\ N >= 2 /\ Rank = 0..N-1 /\ 0 \in Rank /\ 1 \in Rank /\ N - 1 \in Rank
      /\ At(N) = 0 /\ auto \in BOOLEAN
  BY DEF StartupAssumption, Rank, At, Config
<1>1. /\ works \subseteq Rank /\ 0 \in works /\ (~auto => works = Rank)
      /\ pc = [r \in Rank |-> IF r = 0 THEN "ack setup" ELSE IF auto THEN "topo" ELSE "ready"]
  <2>1. \A r \in Rank : r < N
    BY <1>0
  <2>2. QED BY <2>1 DEF SetupAt
<1>2. chan = Only(N - 1, 0, Msg("ack", TRUE))
  BY <1>0 DEF SetupAt
<1>3. \A r \in Rank : conn[r] = [rank |-> Succ(r), node |-> Succ(r)] /\ fwd[r] = {}
  BY DEF Untouched
<1>4. DOMAIN conn = Rank /\ fwd = [r \in Rank |-> fwd[r]] /\ sig = {}
  BY DEF Untouched
<1>5. PICK s \in Rank :
        /\ Reads(0, "ack setup", s, Msg("ack", TRUE))
        /\ IF auto THEN Rebuild(0, Popped(s, 0), {})
           ELSE /\ Goto(0, "ready")
                /\ chan' = Popped(s, 0)
                /\ UNCHANGED <<conn, fwd>>
        /\ UNCHANGED <<auto, port, works, sig>>
  BY DEF SetupAcked
<1>6. Popped(s, 0) = Quiet
  <2>1. Reads(0, "ack setup", s, Msg("ack", TRUE)) /\ N - 1 \in Rank /\ 0 \in Rank
    BY <1>0, <1>5
  <2> DEFINE l == N - 1
             w == Msg("ack", TRUE)
  <2>2. chan = Only(l, 0, w)
    BY <1>2
  <2> HIDE DEF l, w
  <2>3. s = l /\ l \in Rank
    BY <2>1, <2>2, ReadsOne DEF l, w
  <2>4. QED BY <2>1, <2>2, <2>3, OneMoves
<1>7. Full(Quiet) /\ \A a, b \in Rank : Quiet[<<a, b>>] = <<>>
  BY DEF Full, Quiet
<1>8. Full(chan) /\ \A a, b \in Rank : b # 0 => chan[<<a, b>>] = <<>>
  BY <1>2 DEF Full, Only
<1>9. CASE ~auto
  <2> DEFINE M == Rank
  <2>1. chan' = Quiet /\ conn' = conn /\ fwd' = fwd /\ works' = Rank /\ sig' = {}
    BY <1>1, <1>4, <1>5, <1>6, <1>9
  <2>2. pc' = [r \in Rank |-> "ready"]
    BY <1>0, <1>1, <1>5, <1>9 DEF Goto
  <2>3. Shape(Rank, N)'
    <3>1. RingOf(Rank, N)'
      BY <1>0, <2>1 DEF RingOf
    <3>2. Sockets(Rank, N)'
      <4>1. ASSUME NEW r \in Rank
            PROVE  \E x \in 1..N : NextIs(Rank, r, x) /\ conn'[r] = [rank |-> At(x), node |-> At(x)]
        <5>1. r + 1 \in 1..N /\ Succ(r) = At(r + 1)
          BY SuccIs
        <5>2. NextIs(Rank, r, r + 1)
          BY <1>0 DEF NextIs
        <5>3. QED BY <1>3, <2>1, <5>1, <5>2
      <4>2. \A r \in Rank : r < N
        BY <1>0
      <4>3. QED BY <1>4, <2>1, <4>1, <4>2 DEF Sockets
    <3>3. Outside(Rank, N)'
      BY DEF Outside
    <3>4. QED BY <1>4, <1>7, <2>1, <2>2, <3>1, <3>2, <3>3 DEF Shape
  <2>4. Tokens(Rank, N, 0, 0)'
    <3>1. Rank # {0} /\ 0 <= N /\ 0 # N
      BY <1>0
    <3>2. QED BY <1>0, <3>1 DEF Tokens
  <2>5. Places(Rank, N, 0, 0)'
    <3>1. \A r \in Rank : ~(N <= r) /\ 0 <= r
      BY <1>0
    <3>2. QED BY <1>0, <2>1, <2>2, <3>1 DEF Places, MasterPc, MemberPc
  <2>6. Piles(Rank, N, 0, 0, <<>>)' /\ Returned(0, <<>>, 0)'
    <3>1. \A r \in Rank : N # r
      BY <1>0
    <3>2. QED BY <1>0, <1>7, <2>1, <3>1 DEF Piles, Pile, Returned
  <2>7. Marks(Rank, N)'
    <3>1. Rank = {0} \cup 1..N-1
      BY <1>0
    <3>2. \A m \in Rank : Members(m)' = {0} \cup {i \in 1..N-1 : i \in Rank \/ i \in fwd'[m]}
      BY <2>1 DEF Members, Stays
    <3>3. \A m \in Rank : Members(m)' = Rank
      BY <3>1, <3>2
    <3>4. QED BY <3>3 DEF Marks
  <2>8. Running(Rank, N, 0, 0, <<>>, 0)'
    BY <2>1, <2>3, <2>4, <2>5, <2>6, <2>7 DEF Running
  <2>9. QED BY <2>8
<1>10. CASE auto
  <2>1. Rebuild(0, Quiet, {}) /\ Stays(0, {})
    BY <1>1, <1>5, <1>6, <1>10 DEF Stays
  <2>2. /\ NextWorker(0) \in 1..N /\ NextWorker(0) % N \in works \cup {0}
        /\ \A e \in 1..NextWorker(0)-1 : e \notin works
    <3>1. /\ NextWorker(0) \in 1..N - 0 /\ (0 + NextWorker(0)) % N \in works \cup {0}
          /\ \A e \in 1..NextWorker(0)-1 : 0 + e \in Rank /\ 0 + e \notin works
      BY <1>0, <1>1, NextWorkerIs
    <3>2. NextWorker(0) \in 1..N
      BY <1>0, <3>1
    <3>3. 0 + NextWorker(0) = NextWorker(0) /\ \A e \in 1..NextWorker(0)-1 : 0 + e = e
      BY <3>2
    <3>4. QED BY <3>1, <3>2, <3>3
  <2>3. \A r \in Rank : r # 0 => pc[r] = "topo"
    BY <1>1, <1>10
  <2>4. CASE NextWorker(0) = N
    <3>1. works = {0}
      <4>1. \A e \in 1..N-1 : e \notin works
        BY <2>2, <2>4
      <4>2. \A e \in Rank : e = 0 \/ e \in 1..N-1
        BY <1>0
      <4>3. QED BY <1>1, <4>1, <4>2
    <3>2. StayAlone(0, Quiet, {})
      BY <2>1, <2>4 DEF Rebuild
    <3>3. /\ conn' = [conn EXCEPT ![0] = [rank |-> 0, node |-> Lost]]
          /\ chan' = Push(Quiet, 0, 1, Msg("topo", {}))
          /\ fwd' = [fwd EXCEPT ![0] = {}] /\ pc' = [pc EXCEPT ![0] = "ready"]
      <4>1. Succ(0) = 1
        BY <1>0, SuccIs DEF At
      <4>2. conn[0].node = 1
        <5>1. conn[0] = [rank |-> 1, node |-> 1]
          BY <1>0, <1>3, <4>1
        <5>2. QED BY <5>1
      <4>3. QED BY <3>2, <4>2 DEF StayAlone, NotifyNext, Goto
    <3>4. chan' = Only(0, 1, Msg("topo", {}))
      <4>1. Push(Quiet, 0, 1, Msg("topo", {})) = Only(0, 1, Msg("topo", {}))
        BY <1>0, QuietPush
      <4>2. QED BY <3>3, <4>1
    <3>5. Full(chan') /\ \A a, b \in Rank : chan'[<<a, b>>] =
          IF a = 0 /\ b = 1 THEN <<Msg("topo", {})>> ELSE <<>>
      BY <3>4 DEF Full, Only
    <3>6. works' = {0} /\ sig' = {}
      BY <1>4, <1>5, <3>1
    <3>7. \A r \in Rank : pc'[r] = IF r = 0 THEN "ready" ELSE "topo"
      BY <1>0, <1>1, <2>3, <3>3
    <3>8. Outside({0}, N)'
      <4>1. Told({0}, N, 0, 1)'
        <5>1. Agrees({}, {0}, 1)
          <6>1. \A x \in 1..N-1 : x # 0
            BY <1>0
          <6>2. QED BY <6>1 DEF Agrees
        <5>2. 0 = 1 - 1 /\ 1 < N /\ {} \in SUBSET Rank
          BY <1>0
        <5>3. QED BY <1>0, <3>5, <3>7, <5>1, <5>2 DEF Told, Past
      <4>2. QED BY <3>5, <3>7, <4>1 DEF Outside
    <3>9. Shape({0}, N)'
      <4>1. RingOf({0}, N)'
        BY <1>0, <3>6 DEF RingOf
      <4>2. Sockets({0}, N)'
        BY <1>3, <1>4, <3>3 DEF Sockets
      <4>3. pc' = [r \in Rank |-> pc'[r]] /\ fwd' = [r \in Rank |-> fwd'[r]]
        BY <1>1, <1>4, <3>3
      <4>4. QED BY <3>5, <3>8, <4>1, <4>2, <4>3 DEF Shape
    <3>10. Tokens({0}, N, 0, 0)'
      BY <1>0 DEF Tokens
    <3>11. Places({0}, N, 0, 0)'
      BY <1>0, <3>7 DEF Places, MasterPc
    <3>12. Piles({0}, N, 0, 0, <<>>)' /\ Returned(0, <<>>, 0)'
      BY <1>0, <3>5 DEF Piles, Returned
    <3>13. Marks({0}, N)'
      <4>1. fwd'[0] = {}
        BY <1>0, <1>4, <3>3
      <4>2. \A i \in 1..N-1 : i # 0
        BY <1>0
      <4>3. QED BY <3>6, <4>1, <4>2 DEF Marks, Members, Stays
    <3>14. Running({0}, N, 0, 0, <<>>, 0)'
      BY <3>6, <3>9, <3>10, <3>11, <3>12, <3>13 DEF Running
    <3>15. QED BY <3>14
  <2>5. CASE NextWorker(0) # N
    <3>1. PICK up \in SUBSET Reachable(0) : Reconnect(0, Quiet, {}, Connection(0, up))
      BY <2>1, <2>5 DEF Rebuild
    <3>2. PICK d \in 1..NextWorker(0) : Connection(0, up) = [rank |-> At(0 + d), node |-> At(0 + d)]
      BY <1>0, <1>1, <1>3, ConnectionIs
    <3>3. NextWorker(0) \in works /\ NextWorker(0) # 0
      <4>1. NextWorker(0) \in 0..N-1 /\ NextWorker(0) # 0
        BY <1>0, <2>2, <2>5
      <4>2. NextWorker(0) % N = NextWorker(0)
        BY <1>0, <4>1
      <4>3. QED BY <2>2, <4>1, <4>2
    <3>4. works # {0} /\ d # N
      BY <1>0, <2>2, <2>5, <3>3
    <3>5. Shape({0}, 0)
      <4>1. RingOf({0}, 0)
        <5>1. \A w \in works : ~(w < 0)
          <6>1. \A w \in Rank : ~(w < 0)
            BY <1>0
          <6>2. QED BY <1>1, <6>1
        <5>2. {0} \subseteq Rank /\ 0 <= 0
          BY <1>0
        <5>3. QED BY <1>1, <5>1, <5>2 DEF RingOf
      <4>2. Sockets({0}, 0)
        BY <1>3, <1>4 DEF Sockets
      <4>3. Outside({0}, 0)
        BY <1>8, <2>3 DEF Outside
      <4>4. QED BY <1>1, <1>4, <1>8, <4>1, <4>2, <4>3 DEF Shape
    <3>6. {0} \ {0} = {} /\ 0 \in {0}
      OBVIOUS
    <3>7. Rebuilding({0} \cup {At(0 + d)}, 0 + d)'
      <4>1. Reconnect(0, Quiet, {0} \ {0}, [rank |-> At(0 + d), node |-> At(0 + d)])
        BY <3>1, <3>2, <3>6
      <4>2. \A a \in Rank, b \in Rank \ {0} : Quiet[<<a, b>>] = chan[<<a, b>>]
        BY <1>7, <1>8
      <4>3. \A a \in Rank, m \in {0} : Quiet[<<a, m>>] = <<>>
        BY <1>0, <1>7
      <4>4. \A m \in {0} \ {0, 0} : pc[m] = "view"
        OBVIOUS
      <4>5. UNCHANGED <<auto, port, works, sig>>
        BY <1>5
      <4>6. QED BY <1>4, <1>7, <3>4, <3>5, <3>6, <4>1, <4>2, <4>3, <4>4, <4>5, Grows
    <3>8. QED BY <3>7
  <2>6. QED BY <2>4, <2>5
<1>11. QED BY <1>9, <1>10

LEMMA RebuildingStep ==
  ASSUME StartupAssumption, Config, Numbered, NEW M, NEW t, Rebuilding(M, t), Next
  PROVE  \/ \E U, x : Rebuilding(U, x)'
         \/ \E U, x : Running(U, x, 0, 0, <<>>, 0)'
         \/ UNCHANGED vars
<1>0. /\ N \in Nat /\ N >= 2 /\ Rank = 0..N-1 /\ 0 \in Rank /\ At(N) = 0
  BY DEF StartupAssumption, Rank, At
<1>1. /\ Shape(M, t) /\ M # {0} /\ sig = {} /\ pc[0] = "view"
      /\ \A m \in M \ {0} : pc[m] = IF m = t THEN "topo" ELSE "view"
      /\ \A a \in Rank, b \in M :
           chan[<<a, b>>] = IF b = At(t) /\ a \in M /\ NextIs(M, a, t)
                            THEN <<Msg("topo", IF t = N THEN M ELSE M \ {0})>> ELSE <<>>
  BY DEF Rebuilding
<1>2. /\ pc = [a \in Rank |-> pc[a]] /\ fwd = [a \in Rank |-> fwd[a]] /\ Full(chan)
      /\ M \subseteq Rank /\ 0 \in M /\ works \subseteq Rank /\ 0 \in works
      /\ (t = N \/ t \in M) /\ works # {0}
      /\ \A m \in M : m <= t
      /\ \A w \in works : w < t => w \in M
  BY <1>1 DEF Shape, RingOf
<1>3. \A r \in Rank : pc[r] \in {"view", "topo", "exited"}
  BY <1>1 DEF Shape, Outside
<1>4. ASSUME NEW r \in Rank \ M, RebuildTopo(r) PROVE Rebuilding(M, t)'
  <2>1. /\ Shape(M, t)' /\ UNCHANGED <<auto, port, works, conn, sig>>
        /\ \A m \in M : pc'[m] = pc[m] /\ fwd'[m] = fwd[m]
        /\ \A s \in Rank, m \in M : chan'[<<s, m>>] = chan[<<s, m>>]
    BY <1>1, <1>4, OutsiderExits
  <2>2. /\ pc'[0] = "view"
        /\ \A m \in M \ {0} : pc'[m] = IF m = t THEN "topo" ELSE "view"
    BY <1>1, <1>2, <2>1
  <2>3. \A a \in Rank, b \in M :
           chan'[<<a, b>>] = IF b = At(t) /\ a \in M /\ NextIs(M, a, t)
                             THEN <<Msg("topo", IF t = N THEN M ELSE M \ {0})>> ELSE <<>>
    <3> SUFFICES ASSUME NEW a \in Rank, NEW b \in M
                 PROVE  chan'[<<a, b>>] = IF b = At(t) /\ a \in M /\ NextIs(M, a, t)
                             THEN <<Msg("topo", IF t = N THEN M ELSE M \ {0})>> ELSE <<>>
      OBVIOUS
    <3>1. chan'[<<a, b>>] = chan[<<a, b>>]
      BY <2>1
    <3>2. QED BY <1>1, <3>1
  <2>4. sig' = {}
    BY <1>1, <2>1
  <2>5. QED BY <1>1, <2>1, <2>2, <2>3, <2>4 DEF Rebuilding
<1>5. ASSUME NEW r \in M, NEW s \in Rank, NEW p, NEW w, Reads(r, p, s, w)
      PROVE  /\ r = At(t) /\ s \in M /\ NextIs(M, s, t)
             /\ chan[<<s, r>>] = <<w>> /\ w = Msg("topo", IF t = N THEN M ELSE M \ {0})
  <2>1. chan[<<s, r>>] # <<>> /\ w = Head(chan[<<s, r>>])
    BY <1>5 DEF Reads
  <2> DEFINE w2 == Msg("topo", IF t = N THEN M ELSE M \ {0})
  <2>2. r = At(t) /\ s \in M /\ NextIs(M, s, t) /\ chan[<<s, r>>] = <<w2>>
    BY <1>1, <2>1
  <2>3. Head(<<w2>>) = w2
    OBVIOUS
  <2>4. QED BY <2>1, <2>2, <2>3
<1>6. ASSUME NEW r \in M \ {0}, RebuildTopo(r) PROVE \E U, x : Rebuilding(U, x)'
  <2>1. PICK s \in Rank, f \in SUBSET Rank :
          /\ Reads(r, "topo", s, Msg("topo", f))
          /\ Rebuild(r, Popped(s, r), f)
          /\ UNCHANGED <<auto, port, works, sig>>
    BY <1>6 DEF RebuildTopo
  <2>2. r = At(t) /\ s \in M /\ chan[<<s, r>>] = <<Msg("topo", f)>>
        /\ Msg("topo", f) = Msg("topo", IF t = N THEN M ELSE M \ {0})
    <3> DEFINE w == Msg("topo", f)
    <3>1. Reads(r, "topo", s, w) /\ r \in M
      BY <2>1
    <3> HIDE DEF w
    <3>2. /\ r = At(t) /\ s \in M /\ NextIs(M, s, t)
          /\ chan[<<s, r>>] = <<w>> /\ w = Msg("topo", IF t = N THEN M ELSE M \ {0})
      BY <1>5, <3>1
    <3>3. QED BY <3>2 DEF w
  <2>3. t # N /\ r = t /\ t \in M /\ t \in Rank
    BY <1>0, <1>2, <2>2 DEF At
  <2>4. f = M \ {0}
    <3>1. Msg("topo", f) = Msg("topo", M \ {0})
      BY <2>2, <2>3
    <3>2. Msg("topo", f).val = f /\ Msg("topo", M \ {0}).val = M \ {0}
      BY DEF Msg
    <3>3. QED BY <3>1, <3>2
  <2>5. Stays(t, f)
    BY <1>6, <2>3, <2>4 DEF Stays
  <2>6. NextWorker(t) \in 1..N - t
    BY <1>2, <2>3, NextWorkerIs
  <2>7. NextWorker(t) < N
    BY <1>0, <1>6, <2>3, <2>6
  <2>8. PICK up \in SUBSET Reachable(t) : Reconnect(t, Popped(s, t), M \ {0}, Connection(t, up))
    BY <2>1, <2>3, <2>4, <2>5, <2>6, <2>7 DEF Rebuild
  <2>9. conn[t] = [rank |-> Succ(t), node |-> Succ(t)]
    <3>1. ~(t < t)
      BY <1>0, <2>3
    <3>2. QED BY <1>1, <2>3, <3>1 DEF Shape, Sockets
  <2>10. PICK d \in 1..NextWorker(t) : Connection(t, up) = [rank |-> At(t + d), node |-> At(t + d)]
    BY <1>2, <2>3, <2>9, ConnectionIs
  <2>11. d # N
    BY <1>0, <2>6, <2>7
  <2> DEFINE ch == Popped(s, t)
  <2>12. Full(ch) /\ \A a, b \in Rank : ch[<<a, b>>] = IF a = s /\ b = t THEN <<>>
         ELSE chan[<<a, b>>]
    <3>1. Tail(<<Msg("topo", f)>>) = <<>>
      OBVIOUS
    <3>2. Tail(chan[<<s, t>>]) = <<>> /\ s \in Rank
      BY <2>2, <2>3, <3>1
    <3>3. Full(ch) /\ \A a, b \in Rank : ch[<<a, b>>] =
          IF a = s /\ b = t THEN Tail(chan[<<s, t>>]) ELSE chan[<<a, b>>]
      BY <1>2, <2>3, PoppedIs
    <3> HIDE DEF ch
    <3>4. QED BY <3>2, <3>3
  <2>13. Reconnect(t, ch, M \ {0}, [rank |-> At(t + d), node |-> At(t + d)])
    BY <2>8, <2>10
  <2> HIDE DEF ch
  <2>14. \A a \in Rank, b \in Rank \ M : ch[<<a, b>>] = chan[<<a, b>>]
    BY <2>3, <2>12
  <2>15. ASSUME NEW a \in Rank, NEW m \in M PROVE ch[<<a, m>>] = <<>>
    <3>1. CASE m # t
      <4>1. m # At(t)
        BY <2>2, <2>3, <3>1
      <4>2. QED BY <1>1, <1>2, <2>12, <3>1, <4>1
    <3>2. CASE m = t /\ a = s
      BY <2>3, <2>12, <3>2
    <3>3. CASE m = t /\ a # s
      <4>1. ~(a \in M /\ NextIs(M, a, t))
        <5>1. NextIs(M, s, t) /\ M \in SUBSET Rank
          BY <1>2, <1>5, <2>1
        <5>2. QED BY <2>2, <3>3, <5>1, NextInjective
      <4>2. QED BY <1>1, <2>3, <2>12, <3>3, <4>1
    <3>4. QED BY <3>1, <3>2, <3>3
  <2>16. Rebuilding(M \cup {At(t + d)}, t + d)'
    <3>1. \A m \in M \ {0, t} : pc[m] = "view"
      BY <1>1
    <3>2. UNCHANGED <<auto, port, works, sig>>
      BY <2>1
    <3>3. QED BY <1>1, <1>2, <2>3, <2>11, <2>12, <2>13, <2>14, <2>15, <3>1, <3>2, Grows
  <2>17. QED BY <2>16
<1>7. ASSUME NEW r \in Rank, TakeView(r) PROVE \E x : Running(M, x, 0, 0, <<>>, 0)'
  <2>1. PICK s \in Rank, f \in SUBSET Rank :
          /\ Reads(r, "view", s, Msg("topo", f))
          /\ fwd' = [fwd EXCEPT ![r] = f]
          /\ chan' = IF conn[r].rank = 0 THEN Popped(s, r)
                     ELSE Push(Popped(s, r), r, conn[r].node, Msg("topo", f))
          /\ Goto(r, "ready")
          /\ UNCHANGED <<auto, port, works, conn, sig>>
    BY <1>7 DEF TakeView
  <2>2. r \in M
    <3>1. \A z \in Rank \ M : pc[z] # "view"
      BY <1>1 DEF Shape, Outside
    <3>2. QED BY <2>1, <3>1 DEF Reads
  <2>3. r = At(t) /\ s \in M /\ NextIs(M, s, t) /\ chan[<<s, r>>] = <<Msg("topo", f)>>
        /\ Msg("topo", f) = Msg("topo", IF t = N THEN M ELSE M \ {0})
    <3> DEFINE w == Msg("topo", f)
    <3>1. Reads(r, "view", s, w) /\ r \in M
      BY <2>1, <2>2
    <3> HIDE DEF w
    <3>2. /\ r = At(t) /\ s \in M /\ NextIs(M, s, t)
          /\ chan[<<s, r>>] = <<w>> /\ w = Msg("topo", IF t = N THEN M ELSE M \ {0})
      BY <1>5, <3>1
    <3>3. QED BY <3>2 DEF w
  <2>4. t = N /\ r = 0
    <3>1. r = t /\ r \in M \ {0} => pc[r] = "topo"
      BY <1>1
    <3>2. pc[r] = "view"
      BY <2>1 DEF Reads
    <3>3. r = t => t = 0
      BY <2>2, <3>1, <3>2
    <3>4. t # 0
      <4>1. PICK m \in M : m # 0
        BY <1>1, <1>2
      <4>2. m \in 1..N-1 /\ m <= t
        BY <1>0, <1>2, <4>1
      <4>3. QED BY <4>2
    <3>5. QED BY <1>0, <2>3, <3>3, <3>4 DEF At
  <2>5. f = M
    <3>1. Msg("topo", f) = Msg("topo", M)
      BY <2>3, <2>4
    <3>2. Msg("topo", f).val = f /\ Msg("topo", M).val = M
      BY DEF Msg
    <3>3. QED BY <3>1, <3>2
  <2>6. PICK x \in 1..N : NextIs(M, 0, x) /\ conn[0] = [rank |-> At(x), node |-> At(x)]
    <3>1. 0 < t
      BY <1>0, <2>4
    <3>2. QED BY <1>0, <1>1, <1>2, <3>1 DEF Shape, Sockets
  <2>7. x \in M /\ x # 0 /\ x # N /\ At(x) = x /\ x \in Rank /\ x \in Nat
    <3>1. PICK m \in M : m # 0
      BY <1>1, <1>2
    <3>2. m \in 1..N-1
      BY <1>0, <1>2, <3>1
    <3>3. x <= m
      BY <1>0, <2>6, <3>2 DEF NextIs
    <3>4. x # N /\ x # 0
      BY <1>0, <3>2, <3>3
    <3>5. x \in M
      BY <2>6, <3>4 DEF NextIs
    <3>6. QED BY <1>2, <3>4, <3>5 DEF At
  <2> DEFINE ch == Popped(s, 0)
             w == Msg("topo", M)
  <2>8. chan' = Push(ch, 0, x, w)
    <3>1. conn[0].rank = x /\ conn[0].node = x
      BY <2>6, <2>7
    <3>2. QED BY <2>1, <2>4, <2>5, <2>7, <3>1
  <2>9. Full(ch) /\ \A a, b \in Rank : ch[<<a, b>>] = IF a = s /\ b = 0 THEN <<>>
        ELSE chan[<<a, b>>]
    <3>1. Tail(<<Msg("topo", f)>>) = <<>>
      OBVIOUS
    <3>2. Tail(chan[<<s, 0>>]) = <<>>
      BY <2>3, <2>4, <3>1
    <3>3. Full(ch) /\ \A a, b \in Rank : ch[<<a, b>>] =
          IF a = s /\ b = 0 THEN Tail(chan[<<s, 0>>]) ELSE chan[<<a, b>>]
      BY <1>0, <1>2, PoppedIs
    <3> HIDE DEF ch
    <3>4. QED BY <3>2, <3>3
  <2>10. chan[<<0, x>>] = <<>>
    <3>1. x # At(t)
      BY <2>3, <2>4, <2>7
    <3>2. QED BY <1>0, <1>1, <2>7, <3>1
  <2>11. Full(chan') /\ \A a, b \in Rank : chan'[<<a, b>>] =
           IF a = 0 /\ b = x THEN <<w>> ELSE IF a = s /\ b = 0 THEN <<>> ELSE chan[<<a, b>>]
    <3>1. Append(<<>>, w) = <<w>>
      OBVIOUS
    <3>2. ch[<<0, x>>] = <<>>
      BY <1>0, <2>7, <2>9, <2>10
    <3> HIDE DEF ch, w
    <3>3. Full(chan') /\ \A a, b \in Rank : chan'[<<a, b>>] =
             IF a = 0 /\ b = x THEN Append(ch[<<0, x>>], w) ELSE ch[<<a, b>>]
      BY <1>0, <2>7, <2>8, <2>9, PushIs
    <3>4. QED BY <2>9, <3>1, <3>2, <3>3
  <2>12. ASSUME NEW a \in Rank, NEW b \in M
         PROVE  chan'[<<a, b>>] = IF a = 0 /\ b = x THEN <<w>> ELSE <<>>
    <3>1. CASE b = 0
      <4>1. a # s => ~(a \in M /\ NextIs(M, a, t))
        <5>1. M \in SUBSET Rank
          BY <1>2
        <5>2. QED BY <2>3, <5>1, NextInjective
      <4>2. QED BY <1>0, <1>1, <2>7, <2>11, <3>1, <4>1
    <3>2. CASE b # 0
      <4>1. b # At(t) /\ b \in Rank
        BY <1>0, <1>2, <2>4, <3>2
      <4>2. QED BY <1>1, <2>11, <3>2, <4>1
    <3>3. QED BY <3>1, <3>2
  <2>13. pc' = [pc EXCEPT ![0] = "ready"] /\ fwd' = [fwd EXCEPT ![0] = M]
         /\ works' = works /\ conn' = conn /\ sig' = {}
    BY <1>1, <2>1, <2>4, <2>5 DEF Goto
  <2>14. \A z \in Rank : pc'[z] = IF z = 0 THEN "ready" ELSE pc[z]
    BY <1>2, <2>13
  <2>15. Shape(M, N)'
    <3>1. Outside(M, N)'
      <4>1. \A z \in Rank \ M : pc'[z] = pc[z]
        BY <1>2, <2>14
      <4>2. \A a \in Rank, z \in Rank \ M : chan'[<<a, z>>] = chan[<<a, z>>]
        BY <1>2, <2>7, <2>11
      <4>3. Outside(M, N)
        BY <1>1, <2>4 DEF Shape
      <4>4. QED BY <1>2, <4>1, <4>2, <4>3, OutsideFrame
    <3>2. RingOf(M, N)' /\ Sockets(M, N)'
      BY <1>1, <2>4, <2>13 DEF Shape, RingOf, Sockets
    <3>3. pc' = [a \in Rank |-> pc'[a]] /\ fwd' = [a \in Rank |-> fwd'[a]]
      BY <1>2, <2>13
    <3>4. QED BY <2>11, <3>1, <3>2, <3>3 DEF Shape
  <2>16. Tokens(M, x, 0, 0)'
    <3>1. 0 # N /\ 0 <= x /\ 0 <= 0 /\ ~(0 < 0)
      BY <1>0, <2>7
    <3>2. QED BY <1>0, <1>1, <1>2, <2>7, <3>1 DEF Tokens
  <2>17. Places(M, x, 0, 0)'
    <3>1. ASSUME NEW m \in M \ {0} PROVE pc'[m] = "view" /\ x <= m
      <4>1. m \in 1..N-1
        BY <1>0, <1>2
      <4>2. x <= m
        BY <2>6, <2>7, <4>1 DEF NextIs
      <4>3. m # t
        BY <1>0, <2>4, <4>1
      <4>4. QED BY <1>1, <1>2, <2>14, <4>2, <4>3
    <3>2. QED BY <1>0, <2>14, <3>1 DEF Places, MasterPc, MemberPc
  <2>18. Piles(M, x, 0, 0, <<>>)'
    <3>1. ASSUME NEW a \in Rank, NEW b \in M \ {0}
          PROVE  chan'[<<a, b>>] = IF a \in M /\ NextIs(M, a, b)
                   THEN Pile(x, 0, 0, <<>>, M, b) ELSE <<>>
      <4>1. b = x => (a \in M /\ NextIs(M, a, b) <=> a = 0)
        <5>1. M \in SUBSET Rank
          BY <1>2
        <5>2. QED BY <1>2, <2>6, <5>1, NextInjective
      <4>2. Pile(x, 0, 0, <<>>, M, b) = IF x = b THEN <<w>> ELSE <<>>
        BY DEF Pile
      <4> HIDE DEF w
      <4>3. QED BY <2>12, <4>1, <4>2
    <3>2. QED BY <3>1 DEF Piles
  <2>19. Returned(0, <<>>, 0)'
    <3>1. 0 # N
      BY <1>0
    <3>2. QED BY <1>2, <2>7, <2>12, <3>1 DEF Returned
  <2>20. Marks(M, x)'
    <3>1. \A m \in M : m < x => m = 0
      BY <1>0, <1>2, <2>6, <2>7 DEF NextIs
    <3>2. Members(0)' = {0} \cup {i \in 1..N-1 : i \in works \/ i \in M}
      BY <1>0, <1>2, <2>13 DEF Members, Stays
    <3>3. \A z \in Rank : z < t /\ (z = 0 \/ z \in 1..N-1)
      BY <1>0, <2>4
    <3>4. Members(0)' = M
      BY <1>2, <3>2, <3>3
    <3>5. QED BY <3>1, <3>4 DEF Marks
  <2>21. Running(M, x, 0, 0, <<>>, 0)'
    BY <2>13, <2>15, <2>16, <2>17, <2>18, <2>19, <2>20 DEF Running
  <2>22. QED BY <2>21
<1>8. ~Master
  <2>1. pc[0] \notin {"start", "ack args", "infos", "ack setup", "ready", "lap", "closing"}
    BY <1>1
  <2>2. QED BY <2>1 DEF Master, SendArgs, ArgsAcked, DealLayers, NoAllocation, SetupAcked,
                    FirstToken, LapDone, Closed, Reads
<1>9. ASSUME NEW r \in Rank \ {0}
      PROVE  ~PassArgs(r) /\ ~AddInfo(r) /\ ~PassSetup(r) /\ ~TakeBatch(r) /\ ~TakeHidden(r)
             /\ ~Relay(r) /\ ~Stop(r)
  <2>1. pc[r] \notin {"args", "info", "setup", "ready", "hidden", "idle"}
    BY <1>3
  <2>2. QED BY <1>1, <2>1 DEF PassArgs, AddInfo, PassSetup, TakeBatch, TakeHidden, Relay, Stop,
               Reads
<1>10. CASE \E r \in Rank \ {0} : RebuildTopo(r)
  <2>1. PICK r \in Rank \ {0} : RebuildTopo(r)
    BY <1>10
  <2>2. QED BY <1>4, <1>6, <2>1
<1>11. QED BY <1>7, <1>8, <1>9, <1>10 DEF Next, Other, Terminated

-----------------------------------------------------------------------------
(* Three messages follow each other through the new ring.                  *)
LEMMA Passes ==
  ASSUME StartupAssumption, NEW M \in SUBSET Rank, NEW r \in M, NEW x, NextIs(M, r, x),
         NEW m \in M, m # r
  PROVE  r <= m <=> x <= m
<1>1. N \in Nat /\ r \in Nat /\ m \in Nat /\ m < N
  BY DEF StartupAssumption, Rank
<1>2. QED BY <1>1 DEF NextIs

LEMMA NextMember ==
  ASSUME StartupAssumption, NEW M, Shape(M, N), NEW r \in M, M # {0}
  PROVE  \E x \in r+1..N : /\ NextIs(M, r, x) /\ (x = N \/ (x \in M \ {0} /\ x < N))
                           /\ conn[r].rank = At(x) /\ conn[r].node = At(x)
<1>0. N \in Nat /\ Rank = 0..N-1 /\ M \subseteq Rank
  BY DEF StartupAssumption, Rank, Shape, RingOf
<1>1. r \in Rank /\ r < N /\ r \in Nat
  BY <1>0
<1>2. PICK x \in 1..N : NextIs(M, r, x) /\ conn[r] = [rank |-> At(x), node |-> At(x)]
  BY <1>1 DEF Shape, Sockets
<1>3. x \in r+1..N /\ (x = N \/ x \in M)
  BY <1>2 DEF NextIs
<1>4. x # N => x \in M \ {0} /\ x < N
  BY <1>0, <1>1, <1>3
<1>5. conn[r].rank = At(x) /\ conn[r].node = At(x)
  BY <1>2
<1>6. QED BY <1>2, <1>3, <1>4, <1>5

LEMMA PileHead ==
  ASSUME NEW v, NEW b, NEW h, NEW q, NEW M, NEW r, v = r \/ b = r \/ h = r,
         NEW pi, pi = Pile(v, b, h, q, M, r)
  PROVE  /\ pi # <<>>
         /\ v = r => Head(pi) = Msg("topo", M)
         /\ v # r /\ b = r => Head(pi) = Batch
         /\ v # r /\ b # r => Head(pi) = Msg("hidden", q)
<1> DEFINE x == Msg("topo", M)
           y == Batch
           z == Msg("hidden", q)
<1>1. /\ Head(<<x>>) = x /\ Head(<<y>>) = y /\ Head(<<z>>) = z
      /\ <<x>> # <<>> /\ <<y>> # <<>> /\ <<z>> # <<>>
  OBVIOUS
<1>2. /\ Head(<<x, y>>) = x /\ Head(<<x, z>>) = x /\ Head(<<y, z>>) = y
      /\ <<x, y>> # <<>> /\ <<x, z>> # <<>> /\ <<y, z>> # <<>>
  BY TwoIs
<1>3. Head(<<x, y, z>>) = x /\ <<x, y, z>> # <<>>
  BY ThreeIs
<1> HIDE DEF x, y, z
<1>4. QED BY <1>1, <1>2, <1>3 DEF Pile, x, y, z

LEMMA MarksRead ==
  ASSUME NEW v, NEW b, NEW h, NEW q, NEW M, NEW r, v = r, NEW u, u # r
  PROVE  Tail(Pile(v, b, h, q, M, r)) = Pile(u, b, h, q, M, r)
<1> DEFINE x == Msg("topo", M)
           z == Msg("hidden", q)
<1>1. Tail(<<x>>) = <<>> /\ Tail(<<Batch>>) = <<>> /\ Tail(<<z>>) = <<>>
  OBVIOUS
<1>2. Tail(<<x, Batch>>) = <<Batch>> /\ Tail(<<x, z>>) = <<z>> /\ Tail(<<Batch, z>>) = <<z>>
  BY TwoIs
<1>3. Tail(<<x, Batch, z>>) = <<Batch, z>>
  BY ThreeIs
<1> HIDE DEF x, z
<1>4. QED BY <1>1, <1>2, <1>3 DEF Pile, x, z

LEMMA BatchRead ==
  ASSUME NEW v, NEW b, NEW h, NEW q, NEW M, NEW r, v # r, b = r, NEW u, u # r
  PROVE  Tail(Pile(v, b, h, q, M, r)) = Pile(v, u, h, q, M, r)
<1> DEFINE x == Msg("topo", M)
           z == Msg("hidden", q)
<1>1. Tail(<<x>>) = <<>> /\ Tail(<<Batch>>) = <<>> /\ Tail(<<z>>) = <<>>
  OBVIOUS
<1>2. Tail(<<x, Batch>>) = <<Batch>> /\ Tail(<<x, z>>) = <<z>> /\ Tail(<<Batch, z>>) = <<z>>
  BY TwoIs
<1>3. Tail(<<x, Batch, z>>) = <<Batch, z>>
  BY ThreeIs
<1> HIDE DEF x, z
<1>4. QED BY <1>1, <1>2, <1>3 DEF Pile, x, z

LEMMA HiddenRead ==
  ASSUME NEW v, NEW b, NEW q, NEW M, NEW r, v # r, b # r, NEW u, u # r, NEW p
  PROVE  Tail(Pile(v, b, r, q, M, r)) = Pile(v, b, u, p, M, r)
<1> DEFINE x == Msg("topo", M)
           z == Msg("hidden", q)
<1>1. Tail(<<x>>) = <<>> /\ Tail(<<Batch>>) = <<>> /\ Tail(<<z>>) = <<>>
  OBVIOUS
<1>2. Tail(<<x, Batch>>) = <<Batch>> /\ Tail(<<x, z>>) = <<z>> /\ Tail(<<Batch, z>>) = <<z>>
  BY TwoIs
<1>3. Tail(<<x, Batch, z>>) = <<Batch, z>>
  BY ThreeIs
<1> HIDE DEF x, z
<1>4. QED BY <1>1, <1>2, <1>3 DEF Pile, x, z

LEMMA MarksCome ==
  ASSUME NEW v, NEW b, NEW h, NEW q, NEW M, NEW r, v # r, b # r, h # r
  PROVE  Append(Pile(v, b, h, q, M, r), Msg("topo", M)) = Pile(r, b, h, q, M, r)
<1> DEFINE x == Msg("topo", M)
<1>1. \A z : Append(<<>>, z) = <<z>>
  OBVIOUS
<1>2. \A z : Append(<<x>>, z) = <<x, z>> /\ Append(<<Batch>>, z) = <<Batch, z>>
  BY TwoIs
<1>3. \A z : Append(<<x, Batch>>, z) = <<x, Batch, z>>
  BY ThreeIs
<1> HIDE DEF x
<1>4. QED BY <1>1, <1>2, <1>3 DEF Pile, x

LEMMA BatchComes ==
  ASSUME NEW v, NEW b, NEW h, NEW q, NEW M, NEW r, b # r, h # r
  PROVE  Append(Pile(v, b, h, q, M, r), Batch) = Pile(v, r, h, q, M, r)
<1> DEFINE x == Msg("topo", M)
<1>1. \A z : Append(<<>>, z) = <<z>>
  OBVIOUS
<1>2. \A z : Append(<<x>>, z) = <<x, z>> /\ Append(<<Batch>>, z) = <<Batch, z>>
  BY TwoIs
<1>3. \A z : Append(<<x, Batch>>, z) = <<x, Batch, z>>
  BY ThreeIs
<1> HIDE DEF x
<1>4. QED BY <1>1, <1>2, <1>3 DEF Pile, x

LEMMA HiddenComes ==
  ASSUME NEW v, NEW b, NEW h, NEW q, NEW M, NEW r, h # r, NEW p
  PROVE  Append(Pile(v, b, h, q, M, r), Msg("hidden", p)) = Pile(v, b, r, p, M, r)
<1> DEFINE x == Msg("topo", M)
<1>1. \A z : Append(<<>>, z) = <<z>>
  OBVIOUS
<1>2. \A z : Append(<<x>>, z) = <<x, z>> /\ Append(<<Batch>>, z) = <<Batch, z>>
  BY TwoIs
<1>3. \A z : Append(<<x, Batch>>, z) = <<x, Batch, z>>
  BY ThreeIs
<1> HIDE DEF x
<1>4. QED BY <1>1, <1>2, <1>3 DEF Pile, x

(* What a member may read, and what is left.                               *)
LEMMA MemberReads ==
  ASSUME StartupAssumption, NEW M, NEW v, NEW b, NEW h, NEW q, Piles(M, v, b, h, q),
         NEW r \in M \ {0}, NEW s \in Rank, chan[<<s, r>>] # <<>>
  PROVE  /\ s \in M /\ NextIs(M, s, r)
         /\ v = r \/ b = r \/ h = r
         /\ chan[<<s, r>>] = Pile(v, b, h, q, M, r)
         /\ v = r => Head(chan[<<s, r>>]) = Msg("topo", M)
         /\ v # r /\ b = r => Head(chan[<<s, r>>]) = Batch
         /\ v # r /\ b # r => Head(chan[<<s, r>>]) = Msg("hidden", q)
<1>1. s \in M /\ NextIs(M, s, r) /\ chan[<<s, r>>] = Pile(v, b, h, q, M, r)
  BY DEF Piles
<1>2. v = r \/ b = r \/ h = r
  BY <1>1 DEF Pile
<1> DEFINE pi == chan[<<s, r>>]
<1>3. pi = Pile(v, b, h, q, M, r)
  BY <1>1
<1> HIDE DEF pi
<1>4. /\ v = r => Head(pi) = Msg("topo", M)
      /\ v # r /\ b = r => Head(pi) = Batch
      /\ v # r /\ b # r => Head(pi) = Msg("hidden", q)
  BY <1>2, <1>3, PileHead
<1>5. QED BY <1>1, <1>2, <1>4 DEF pi

(* A step of member r that reads from s, and the members it has no part in. *)
Moved(M, r, s, x, v, b, h, q) ==
  \A a \in Rank, c \in M \ {0} : chan'[<<a, c>>] =
    IF a = s /\ c = r THEN Pile(v, b, h, q, M, r)
    ELSE IF a = r /\ c = x THEN Pile(v, b, h, q, M, x)
    ELSE chan[<<a, c>>]

Kept(M, r, x, v, b, h, q, v2, b2, h2, q2) ==
  \A c \in M \ {0, r, x} : /\ v2 = c <=> v = c
                           /\ b2 = c <=> b = c
                           /\ h2 = c <=> h = c
                           /\ h = c => q2 = q

(* A step moves messages from member r to member x.                        *)
LEMMA PilesMove ==
  ASSUME StartupAssumption, NEW M \in SUBSET Rank, NEW v, NEW b, NEW h, NEW q, Piles(M, v, b, h, q),
         NEW r \in M, NEW s, r # 0 => s \in M /\ NextIs(M, s, r),
         NEW x, NextIs(M, r, x), NEW v2, NEW b2, NEW h2, NEW q2,
         Moved(M, r, s, x, v2, b2, h2, q2), Kept(M, r, x, v, b, h, q, v2, b2, h2, q2)
  PROVE  Piles(M, v2, b2, h2, q2)'
<1> SUFFICES ASSUME NEW a \in Rank, NEW c \in M \ {0}
             PROVE  chan'[<<a, c>>] = IF a \in M /\ NextIs(M, a, c)
                      THEN Pile(v2, b2, h2, q2, M, c) ELSE <<>>
  BY DEF Piles
<1>20. chan'[<<a, c>>] =
          IF a = s /\ c = r THEN Pile(v2, b2, h2, q2, M, r)
          ELSE IF a = r /\ c = x THEN Pile(v2, b2, h2, q2, M, x)
          ELSE chan[<<a, c>>]
  BY DEF Moved
<1>1. CASE c = r
  <2>1. a \in M /\ NextIs(M, a, c) <=> a = s
    BY <1>1, NextInjective
  <2>2. CASE a = s
    BY <1>1, <1>20, <2>1, <2>2
  <2>3. CASE a # s
    <3>1. a # r \/ c # x
      <4>1. N \in Nat /\ r \in Nat
        BY DEF StartupAssumption, Rank
      <4>2. QED BY <1>1, <4>1 DEF NextIs
    <3>2. chan'[<<a, c>>] = chan[<<a, c>>] /\ chan[<<a, c>>] = <<>>
      BY <1>20, <2>1, <2>3, <3>1 DEF Piles
    <3>3. QED BY <2>1, <2>3, <3>2
  <2>4. QED BY <2>2, <2>3
<1>2. CASE c = x /\ c # r
  <2>1. a \in M /\ NextIs(M, a, c) <=> a = r
    BY <1>2, NextInjective
  <2>2. CASE a = r
    BY <1>2, <1>20, <2>1, <2>2
  <2>3. CASE a # r
    <3>1. chan'[<<a, c>>] = chan[<<a, c>>] /\ chan[<<a, c>>] = <<>>
      BY <1>2, <1>20, <2>1, <2>3 DEF Piles
    <3>2. QED BY <2>1, <2>3, <3>1
  <2>4. QED BY <2>2, <2>3
<1>3. CASE c # x /\ c # r
  <2>1. chan'[<<a, c>>] = chan[<<a, c>>]
    BY <1>3, <1>20
  <2>2. Pile(v2, b2, h2, q2, M, c) = Pile(v, b, h, q, M, c)
    BY <1>3 DEF Pile, Kept
  <2>3. QED BY <2>1, <2>2 DEF Piles
<1>4. QED BY <1>1, <1>2, <1>3

LEMMA PlacesMove ==
  ASSUME StartupAssumption, NEW M, NEW v, NEW b, NEW h, Places(M, v, b, h), works' = works,
         NEW r \in M, NEW v2, NEW b2, NEW h2,
         \A m \in M \ {0, r} : /\ pc'[m] = pc[m]
                               /\ v2 <= m <=> v <= m
                               /\ m \in works => (b2 <= m <=> b <= m) /\ (h2 <= m <=> h <= m),
         h2 <= N => h <= N,
         pc'[0] \in MasterPc(h2),
         r # 0 => pc'[r] \in MemberPc(r, v2, b2, h2)'
  PROVE  Places(M, v2, b2, h2)'
<1>1. ASSUME NEW m \in M \ {0} PROVE pc'[m] \in MemberPc(m, v2, b2, h2)'
  <2>1. CASE m = r
    BY <2>1
  <2>2. CASE m # r
    <3>1. pc[m] \in MemberPc(m, v, b, h)
      BY DEF Places
    <3>2. pc'[m] = pc[m] /\ (v2 <= m <=> v <= m)
      BY <2>2
    <3>3. CASE m \in works
      <4>1. (b2 <= m <=> b <= m) /\ (h2 <= m <=> h <= m)
        BY <2>2, <3>3
      <4>2. QED BY <3>1, <3>2, <3>3, <4>1 DEF MemberPc
    <3>4. CASE m \notin works
      BY <3>1, <3>2, <3>4 DEF MemberPc
    <3>5. QED BY <3>3, <3>4
  <2>3. QED BY <2>1, <2>2
<1>2. QED BY <1>1 DEF Places, MasterPc

LEMMA ShapeFrame ==
  ASSUME StartupAssumption, NEW M, Shape(M, N), works' = works, conn' = conn, Full(chan'),
         pc' = [a \in Rank |-> pc'[a]], fwd' = [a \in Rank |-> fwd'[a]],
         \A r \in Rank \ M : pc'[r] = pc[r],
         \A s \in Rank, r \in Rank \ M : chan'[<<s, r>>] = chan[<<s, r>>]
  PROVE  Shape(M, N)'
<1>1. Outside(M, N) /\ 0 \in M
  BY DEF Shape, RingOf
<1>2. Outside(M, N)'
  BY <1>1, OutsideFrame
<1>3. RingOf(M, N)' /\ Sockets(M, N)'
  BY DEF Shape, RingOf, Sockets
<1>4. QED BY <1>2, <1>3 DEF Shape

(* The last worker, as a device recognises it.                             *)
LEMMA LastWorker ==
  ASSUME StartupAssumption, NEW M, Shape(M, N), NEW r \in works, Members(r) = M
  PROVE  WorkerRank(r) = NWorker(r) - 1 <=> \A w \in works : w <= r
<1>0. N \in Nat /\ Rank = 0..N-1 /\ works \subseteq Rank /\ 0 \in works /\ works \subseteq M
  BY DEF StartupAssumption, Rank, Shape, RingOf
<1>1. IsFiniteSet(works)
  <2>1. IsFiniteSet(0..N-1)
    BY <1>0, FS_Interval
  <2>2. QED BY <1>0, <2>1, FS_Subset
<1> DEFINE A == {i \in works : 0 < i /\ i <= r}
           B == works \ {0}
<1>2. Workers(r) = works
  BY <1>0 DEF Workers
<1>3. WorkerRank(r) = Cardinality(A) /\ NWorker(r) = Cardinality(works)
  BY <1>2 DEF WorkerRank, NWorker
<1>4. A \subseteq B /\ IsFiniteSet(B) /\ IsFiniteSet(A)
  <2>1. A \subseteq B
    BY <1>0
  <2>2. B \subseteq works
    OBVIOUS
  <2>3. QED BY <1>1, <2>1, <2>2, FS_Subset
<1>5. Cardinality(B) = Cardinality(works) - 1
  BY <1>0, <1>1, FS_RemoveElement
<1>6. Cardinality(A) \in Nat /\ Cardinality(B) \in Nat /\ Cardinality(works) \in Nat
  BY <1>1, <1>4, FS_CardinalityType
<1>7. A = B <=> Cardinality(A) = Cardinality(B)
  <2> HIDE DEF A, B
  <2>1. QED BY <1>4, FS_Subset
<1>8. A = B <=> \A w \in works : w <= r
  <2>1. \A w \in works : w \in Nat
    BY <1>0
  <2>2. QED BY <2>1
<1>9. QED BY <1>3, <1>5, <1>6, <1>7, <1>8

-----------------------------------------------------------------------------
(* A token that was at member r is with the next one, x, or at its end,    *)
(* where no worker is left that needs it; or it stays where it is.         *)
GoesOn(r, x, o, n) == \/ n = o
                      \/ o = r /\ n = x
                      \/ o = r /\ n = N /\ \A w \in works : w <= r

LEMMA GoesOnIs ==
  ASSUME StartupAssumption, NEW M \in SUBSET Rank, NEW r \in M, NEW x, NextIs(M, r, x),
         NEW o, NEW n, GoesOn(r, x, o, n), NEW m \in M, m # r
  PROVE  /\ m # x => (n = m <=> o = m)
         /\ m \in works => (n <= m <=> o <= m)
<1>1. N \in Nat /\ r \in Nat /\ m \in Nat /\ m < N
  BY DEF StartupAssumption, Rank
<1>2. r <= m <=> x <= m
  BY Passes
<1>3. CASE n = o
  BY <1>3
<1>4. CASE o = r /\ n = x
  BY <1>2, <1>4
<1>5. CASE o = r /\ n = N /\ \A w \in works : w <= r
  BY <1>1, <1>5
<1>6. QED BY <1>3, <1>4, <1>5 DEF GoesOn

(* The sockets after a step of member r that read from s.                  *)
Sent(M, r, s, x, v, b, h, q, src) ==
  /\ Full(chan')
  /\ \A a, c \in Rank : chan'[<<a, c>>] =
       IF a = s /\ c = r THEN Pile(v, b, h, q, M, r)
       ELSE IF a = r /\ c = x THEN Pile(v, b, h, q, M, x)
       ELSE IF c = 0 THEN IF h = N /\ a = src THEN <<Msg("hidden", q)>> ELSE <<>>
       ELSE chan[<<a, c>>]

(* What a step of member r does to the tokens.                             *)
Moves(M, v, b, h, q, r, s, x, v2, b2, h2, q2, p) ==
  /\ r \in M \ {0} /\ s \in M /\ NextIs(M, s, r) /\ NextIs(M, r, x)
  /\ works' = works /\ conn' = conn /\ sig' = sig
  /\ pc' = [pc EXCEPT ![r] = p] /\ fwd' = [a \in Rank |-> fwd'[a]]
  /\ h2 = 0 <=> h = 0
  /\ h2 <= N <=> h <= N
  /\ h = N + 1 => h2 = N + 1
  /\ v2 = v \/ (v = r /\ v2 = x)
  /\ GoesOn(r, x, b, b2) /\ GoesOn(r, x, h, h2)
  /\ q2 = q \/ h = r
  /\ p \in MemberPc(r, v2, b2, h2)

(* What a step of a member other than the master leaves as it was.         *)
LEMMA MemberMoves ==
  ASSUME StartupAssumption, NEW M, NEW v, NEW b, NEW h, NEW q, NEW src, Running(M, v, b, h, q, src),
         NEW r, NEW s, NEW x, NEW v2, NEW b2, NEW h2, NEW q2, NEW src2, NEW p,
         Moves(M, v, b, h, q, r, s, x, v2, b2, h2, q2, p),
         Sent(M, r, s, x, v2, b2, h2, q2, src2)
  PROVE  /\ Shape(M, N)' /\ Places(M, v2, b2, h2)'
         /\ Piles(M, v2, b2, h2, q2)' /\ Returned(h2, q2, src2)'
         /\ sig' # {} => h2 = N + 1
<1>0. N \in Nat /\ Rank = 0..N-1 /\ 0 \in Rank
  BY DEF StartupAssumption, Rank
<1>21. /\ r \in M \ {0} /\ s \in M /\ NextIs(M, s, r) /\ NextIs(M, r, x)
       /\ works' = works /\ conn' = conn /\ sig' = sig
       /\ pc' = [pc EXCEPT ![r] = p] /\ fwd' = [a \in Rank |-> fwd'[a]]
       /\ h2 = 0 <=> h = 0
       /\ h2 <= N <=> h <= N
       /\ h = N + 1 => h2 = N + 1
       /\ v2 = v \/ (v = r /\ v2 = x)
       /\ GoesOn(r, x, b, b2) /\ GoesOn(r, x, h, h2)
       /\ q2 = q \/ h = r
       /\ p \in MemberPc(r, v2, b2, h2)
  BY DEF Moves
<1>1. /\ Shape(M, N) /\ Places(M, v, b, h) /\ Piles(M, v, b, h, q)
      /\ sig # {} => h = N + 1
  BY <1>21 DEF Running
<1>2. M \in SUBSET Rank /\ 0 \in M /\ r \in Rank /\ s \in Rank /\ pc = [a \in Rank |-> pc[a]]
  BY <1>21, <1>1 DEF Shape, RingOf
<1>3. r # 0 /\ x # 0 /\ (x = N \/ x \in M)
  BY <1>21, <1>0, <1>2 DEF NextIs
<1>20. /\ Full(chan')
       /\ \A a, c \in Rank : chan'[<<a, c>>] =
            IF a = s /\ c = r THEN Pile(v2, b2, h2, q2, M, r)
            ELSE IF a = r /\ c = x THEN Pile(v2, b2, h2, q2, M, x)
            ELSE IF c = 0 THEN IF h2 = N /\ a = src2 THEN <<Msg("hidden", q2)>> ELSE <<>>
            ELSE chan[<<a, c>>]
  BY <1>21 DEF Sent
<1>4. \A a \in Rank : pc'[a] = IF a = r THEN p ELSE pc[a]
  BY <1>21, <1>2
<1>5. Shape(M, N)'
  <2>1. pc' = [a \in Rank |-> pc'[a]]
    BY <1>21, <1>2
  <2>2. \A a \in Rank \ M : pc'[a] = pc[a]
    BY <1>21, <1>4
  <2>3. \A a \in Rank, c \in Rank \ M : chan'[<<a, c>>] = chan[<<a, c>>]
    <3>1. \A c \in Rank \ M : c # r /\ c # x /\ c # 0
      BY <1>21, <1>0, <1>2, <1>3
    <3>2. QED BY <1>21, <1>20, <3>1
  <2>4. QED BY <1>21, <1>1, <1>20, <2>1, <2>2, <2>3, ShapeFrame
<1>6. Piles(M, v2, b2, h2, q2)'
  <2>1. Kept(M, r, x, v, b, h, q, v2, b2, h2, q2)
    <3> SUFFICES ASSUME NEW c \in M \ {0, r, x}
                 PROVE  /\ v2 = c <=> v = c
                        /\ b2 = c <=> b = c
                        /\ h2 = c <=> h = c
                        /\ h = c => q2 = q
      BY <1>21 DEF Kept
    <3>1. v2 = c <=> v = c
      BY <1>21
    <3>2. b2 = c <=> b = c
      BY <1>21, <1>2, GoesOnIs
    <3>3. h2 = c <=> h = c
      BY <1>21, <1>2, GoesOnIs
    <3>4. QED BY <1>21, <3>1, <3>2, <3>3
  <2>2. Moved(M, r, s, x, v2, b2, h2, q2)
    BY <1>21, <1>2, <1>20 DEF Moved
  <2>3. QED BY <1>21, <1>1, <1>2, <2>1, <2>2, PilesMove
<1>7. Places(M, v2, b2, h2)'
  <2>1. \A m \in M \ {0, r} : /\ pc'[m] = pc[m]
                              /\ v2 <= m <=> v <= m
                              /\ m \in works => (b2 <= m <=> b <= m) /\ (h2 <= m <=> h <= m)
    <3> SUFFICES ASSUME NEW m \in M \ {0, r}
                 PROVE  /\ pc'[m] = pc[m]
                        /\ v2 <= m <=> v <= m
                        /\ m \in works => (b2 <= m <=> b <= m) /\ (h2 <= m <=> h <= m)
      BY <1>21
    <3>1. pc'[m] = pc[m]
      BY <1>21, <1>2, <1>4
    <3>2. v2 <= m <=> v <= m
      BY <1>21, <1>2, Passes
    <3>3. m \in works => (b2 <= m <=> b <= m)
      BY <1>21, <1>2, GoesOnIs
    <3>4. m \in works => (h2 <= m <=> h <= m)
      BY <1>21, <1>2, GoesOnIs
    <3>5. QED BY <1>21, <3>1, <3>2, <3>3, <3>4
  <2>2. pc'[0] \in MasterPc(h2)
    <3>1. pc'[0] = pc[0] /\ pc[0] \in MasterPc(h)
      BY <1>21, <1>0, <1>1, <1>3, <1>4 DEF Places
    <3>2. QED BY <1>21, <3>1 DEF MasterPc
  <2>3. pc'[r] \in MemberPc(r, v2, b2, h2)'
    BY <1>21, <1>2, <1>4 DEF MemberPc
  <2>4. QED BY <1>21, <1>1, <2>1, <2>2, <2>3, PlacesMove
<1>8. Returned(h2, q2, src2)'
  <2>1. \A a \in Rank : chan'[<<a, 0>>] = IF h2 = N /\ a = src2 THEN <<Msg("hidden", q2)>> ELSE <<>>
    BY <1>21, <1>0, <1>3, <1>20
  <2>2. QED BY <1>21, <2>1 DEF Returned
<1>9. sig' # {} => h2 = N + 1
  BY <1>21, <1>1
<1>10. QED BY <1>21, <1>5, <1>6, <1>7, <1>8, <1>9

(* The sockets after a step that reads from s and sends to t.              *)
LEMMA PopPush ==
  ASSUME StartupAssumption, NEW s \in Rank, NEW r \in Rank, NEW t \in Rank, r # t, NEW m,
         Full(chan), chan' = Push(Popped(s, r), r, t, m)
  PROVE  /\ Full(chan')
         /\ \A a, c \in Rank : chan'[<<a, c>>] =
              IF a = s /\ c = r THEN Tail(chan[<<s, r>>])
              ELSE IF a = r /\ c = t THEN Append(chan[<<r, t>>], m) ELSE chan[<<a, c>>]
<1> DEFINE ch == Popped(s, r)
<1>1. /\ Full(ch)
      /\ \A a, c \in Rank : ch[<<a, c>>] = IF a = s /\ c = r THEN Tail(chan[<<s, r>>])
          ELSE chan[<<a, c>>]
  BY PoppedIs
<1> HIDE DEF ch
<1>2. chan' = Push(ch, r, t, m)
  BY DEF ch
<1>3. /\ Full(Push(ch, r, t, m))
      /\ \A a, c \in Rank : Push(ch, r, t, m)[<<a, c>>] =
           IF a = r /\ c = t THEN Append(ch[<<r, t>>], m) ELSE ch[<<a, c>>]
  BY <1>1, PushIs
<1> DEFINE pu == Push(ch, r, t, m)
<1>4. chan' = pu /\ Full(pu) /\ \A a, c \in Rank : pu[<<a, c>>] =
           IF a = r /\ c = t THEN Append(ch[<<r, t>>], m) ELSE ch[<<a, c>>]
  BY <1>2, <1>3
<1> HIDE DEF pu
<1>5. ch[<<r, t>>] = chan[<<r, t>>]
  BY <1>1
<1>6. ASSUME NEW a \in Rank, NEW c \in Rank
      PROVE  pu[<<a, c>>] =
              IF a = s /\ c = r THEN Tail(chan[<<s, r>>])
              ELSE IF a = r /\ c = t THEN Append(chan[<<r, t>>], m) ELSE chan[<<a, c>>]
  BY <1>1, <1>4, <1>5
<1>7. QED BY <1>4, <1>6

-----------------------------------------------------------------------------
(* The steps of the new ring's members.                                    *)
LEMMA MembersOf ==
  ASSUME StartupAssumption, NEW M, Shape(M, N), NEW r, works' = works,
         (fwd'[r] = fwd[r] /\ Members(r) = M) \/ fwd'[r] = M
  PROVE  Members(r)' = M
<1>1. N \in Nat /\ Rank = 0..N-1 /\ M \subseteq Rank /\ 0 \in M /\ works \subseteq M
  BY DEF StartupAssumption, Rank, Shape, RingOf
<1>2. Members(r)' = {0} \cup {i \in 1..N-1 : i \in works \/ i \in fwd'[r]}
  BY DEF Members, Stays
<1>3. CASE fwd'[r] = M
  <2>1. M = {0} \cup {i \in 1..N-1 : i \in works \/ i \in M}
    <3>1. \A i : i \in M <=> i = 0 \/ (i \in 1..N-1 /\ (i \in works \/ i \in M))
      <4>1. \A i \in Rank : i = 0 \/ i \in 1..N-1
        BY <1>1
      <4>2. QED BY <1>1, <4>1
    <3>2. QED BY <3>1
  <2>2. QED BY <1>2, <1>3, <2>1
<1>4. CASE fwd'[r] = fwd[r] /\ Members(r) = M
  BY <1>2, <1>4 DEF Members, Stays
<1>5. QED BY <1>3, <1>4

(* What is known of a member that is about to read.                        *)
LEMMA MemberIs ==
  ASSUME StartupAssumption, NEW M, NEW v, NEW b, NEW h, NEW q, NEW src, Running(M, v, b, h, q, src),
         NEW r \in M \ {0}, NEW s \in Rank, chan[<<s, r>>] # <<>>
  PROVE  /\ r \in Rank /\ r \in Nat /\ 0 < r /\ r < N
         /\ s \in M /\ NextIs(M, s, r) /\ M # {0}
         /\ v \in Nat /\ b \in Nat /\ h \in Nat
         /\ v = r \/ b = r \/ h = r
         /\ b = r => r <= v
         /\ h = r => r <= v /\ r <= b
         /\ h <= N + 1
<1>0. N \in Nat /\ Rank = 0..N-1 /\ M \subseteq Rank
  BY DEF StartupAssumption, Rank, Running, Shape, RingOf
<1>1. Piles(M, v, b, h, q) /\ Tokens(M, v, b, h)
  BY DEF Running
<1>2. s \in M /\ NextIs(M, s, r) /\ (v = r \/ b = r \/ h = r)
  BY <1>1, MemberReads
<1>3. r \in Rank /\ r \in Nat /\ 0 < r /\ r < N /\ M # {0}
  BY <1>0
<1>4. v \in Nat /\ b \in Nat /\ h \in Nat
  BY <1>0, <1>1 DEF Tokens
<1>5. b = r => r <= v
  BY <1>1, <1>3 DEF Tokens
<1>6. h = r => r <= v /\ r <= b
  BY <1>0, <1>1, <1>3, <1>4 DEF Tokens
<1>7. h <= N + 1
  BY <1>0, <1>1 DEF Tokens
<1>8. QED BY <1>2, <1>3, <1>4, <1>5, <1>6, <1>7


LEMMA ViewStep ==
  ASSUME StartupAssumption, NEW M, NEW v, NEW b, NEW h, NEW q, NEW src, Running(M, v, b, h, q, src),
         NEW r \in Rank, TakeView(r)
  PROVE  \E u : Running(M, u, b, h, q, src)'
<1>0. N \in Nat /\ Rank = 0..N-1 /\ 0 \in Rank
  BY DEF StartupAssumption, Rank
<1>1. /\ Shape(M, N) /\ Tokens(M, v, b, h) /\ Places(M, v, b, h)
      /\ Piles(M, v, b, h, q) /\ Returned(h, q, src) /\ Marks(M, v)
      /\ 0 < h /\ h <= N => Seen(q, h)
      /\ sig # {} => h = N + 1
  BY DEF Running
<1>2. /\ M \subseteq Rank /\ 0 \in M /\ works \subseteq M /\ Full(chan)
      /\ pc = [a \in Rank |-> pc[a]] /\ fwd = [a \in Rank |-> fwd[a]]
  BY <1>0, <1>1 DEF Shape, RingOf
<1>3. PICK s \in Rank, f \in SUBSET Rank :
        /\ Reads(r, "view", s, Msg("topo", f))
        /\ fwd' = [fwd EXCEPT ![r] = f]
        /\ chan' = IF conn[r].rank = 0 THEN Popped(s, r)
                   ELSE Push(Popped(s, r), r, conn[r].node, Msg("topo", f))
        /\ Goto(r, "ready")
        /\ UNCHANGED <<auto, port, works, conn, sig>>
  BY DEF TakeView
<1>4. r \in M \ {0}
  <2>1. pc[r] = "view"
    BY <1>3 DEF Reads
  <2>2. r \in M
    BY <1>1, <2>1 DEF Shape, Outside
  <2>3. pc[0] # "view"
    BY <1>1 DEF Places, MasterPc
  <2>4. QED BY <2>1, <2>2, <2>3
<1>5. chan[<<s, r>>] # <<>> /\ Head(chan[<<s, r>>]) = Msg("topo", f) /\ pc[r] = "view"
  BY <1>3 DEF Reads
<1>6. /\ r \in Nat /\ 0 < r /\ r < N
      /\ s \in M /\ NextIs(M, s, r) /\ M # {0}
      /\ v \in Nat /\ b \in Nat /\ h \in Nat
      /\ v = r \/ b = r \/ h = r
      /\ b = r => r <= v
      /\ h = r => r <= v
      /\ h <= N + 1
  BY <1>4, <1>5, MemberIs
<1>7. v <= r
  BY <1>1, <1>4, <1>5 DEF Places, MemberPc
<1>8. v = r
  BY <1>6, <1>7
<1>9. f = M
  <2>1. v = r => Head(chan[<<s, r>>]) = Msg("topo", M)
    BY <1>1, <1>4, <1>5, MemberReads
  <2>2. Msg("topo", f) = Msg("topo", M)
    BY <1>5, <1>8, <2>1
  <2>3. QED BY <2>2 DEF Msg
<1>10. PICK x \in r+1..N : /\ NextIs(M, r, x) /\ (x = N \/ (x \in M \ {0} /\ x < N))
                           /\ conn[r].rank = At(x) /\ conn[r].node = At(x)
  BY <1>1, <1>4, <1>6, NextMember
<1>11. x \in Nat /\ r < x /\ x <= N /\ x # r
  BY <1>0, <1>6
<1> DEFINE m == Msg("topo", M)
<1>12. /\ Full(chan')
       /\ \A a, c \in Rank : chan'[<<a, c>>] =
            IF a = s /\ c = r THEN Tail(chan[<<s, r>>])
            ELSE IF a = r /\ c = x THEN Append(chan[<<r, x>>], m) ELSE chan[<<a, c>>]
  <2>1. CASE x = N
    <3>1. chan' = Popped(s, r)
      BY <1>3, <1>10, <2>1 DEF At
    <3>2. \A a \in Rank : a # x
      BY <1>0, <2>1
    <3>3. /\ Full(Popped(s, r))
          /\ \A a, c \in Rank : Popped(s, r)[<<a, c>>] =
              IF a = s /\ c = r THEN Tail(chan[<<s, r>>]) ELSE chan[<<a, c>>]
      BY <1>2, PoppedIs
    <3>4. QED BY <3>1, <3>2, <3>3
  <2>2. CASE x # N
    <3>1. x \in Rank /\ r # x /\ conn[r].rank # 0 /\ conn[r].node = x
      BY <1>0, <1>10, <1>11, <2>2 DEF At
    <3>2. chan' = Push(Popped(s, r), r, x, m)
      BY <1>3, <1>9, <3>1
    <3> HIDE DEF m
    <3>3. QED BY <1>2, <3>1, <3>2, PopPush
  <2>3. QED BY <2>1, <2>2
<1>13. /\ Tail(chan[<<s, r>>]) = Pile(x, b, h, q, M, r)
       /\ x # N => Append(chan[<<r, x>>], m) = Pile(x, b, h, q, M, x)
  <2>1. chan[<<s, r>>] = Pile(v, b, h, q, M, r)
    BY <1>1, <1>4, <1>5, MemberReads
  <2>2. Tail(Pile(v, b, h, q, M, r)) = Pile(x, b, h, q, M, r)
    BY <1>8, <1>11, MarksRead
  <2>3. CASE x # N
    <3>1. v # x /\ b # x /\ h # x
      <4>1. v # x
        BY <1>8, <1>11
      <4>2. b < N => b <= v
        BY <1>1 DEF Tokens
      <4>3. h < N => h <= v
        BY <1>1 DEF Tokens
      <4>4. x < N
        BY <1>10, <2>3
      <4>5. QED BY <1>6, <1>8, <1>11, <4>1, <4>2, <4>3, <4>4
    <3>2. chan[<<r, x>>] = Pile(v, b, h, q, M, x)
      BY <1>1, <1>2, <1>4, <1>10, <2>3 DEF Piles
    <3>3. Append(Pile(v, b, h, q, M, x), m) = Pile(x, b, h, q, M, x)
      BY <3>1, MarksCome
    <3>4. QED BY <2>1, <2>2, <3>2, <3>3
  <2>4. QED BY <2>1, <2>2, <2>3
<1>14. \A a, c \in Rank : chan'[<<a, c>>] =
            IF a = s /\ c = r THEN Pile(x, b, h, q, M, r)
            ELSE IF a = r /\ c = x THEN Pile(x, b, h, q, M, x)
            ELSE IF c = 0 THEN IF h = N /\ a = src THEN <<Msg("hidden", q)>> ELSE <<>>
            ELSE chan[<<a, c>>]
  <2> SUFFICES ASSUME NEW a \in Rank, NEW c \in Rank
      PROVE  chan'[<<a, c>>] =
            IF a = s /\ c = r THEN Pile(x, b, h, q, M, r)
            ELSE IF a = r /\ c = x THEN Pile(x, b, h, q, M, x)
            ELSE IF c = 0 THEN IF h = N /\ a = src THEN <<Msg("hidden", q)>> ELSE <<>>
            ELSE chan[<<a, c>>]
    OBVIOUS
  <2> HIDE DEF m
  <2>1. c = x => x # N
    BY <1>0
  <2>2. chan[<<a, 0>>] = IF h = N /\ a = src THEN <<Msg("hidden", q)>> ELSE <<>>
    BY <1>1 DEF Returned
  <2>3. QED BY <1>12, <1>13, <2>1, <2>2
<1> HIDE DEF m
<1>30. Sent(M, r, s, x, x, b, h, q, src)
  BY <1>12, <1>14 DEF Sent
<1>15. pc' = [pc EXCEPT ![r] = "ready"] /\ fwd' = [a \in Rank |-> fwd'[a]] /\ fwd'[r] = M
       /\ \A a \in Rank \ {r} : fwd'[a] = fwd[a]
  BY <1>2, <1>3, <1>9 DEF Goto
<1>16. "ready" \in MemberPc(r, x, b, h)
  <2>1. ~(x <= r)
    BY <1>6, <1>11
  <2>2. r \in works => b <= r
    <3>1. b = N => \A w \in works : w < v
      BY <1>1 DEF Tokens
    <3>2. b < N => b <= v
      BY <1>1 DEF Tokens
    <3>3. b <= N
      BY <1>0, <1>1, <1>2 DEF Tokens
    <3>4. QED BY <1>0, <1>6, <1>8, <3>1, <3>2, <3>3
  <2>3. QED BY <2>1, <2>2 DEF MemberPc
<1>17. /\ Shape(M, N)' /\ Places(M, x, b, h)'
       /\ Piles(M, x, b, h, q)' /\ Returned(h, q, src)'
       /\ sig' # {} => h = N + 1
  <2>1. GoesOn(r, x, b, b) /\ GoesOn(r, x, h, h)
    BY DEF GoesOn
  <2>2. works' = works /\ conn' = conn /\ sig' = sig
    BY <1>3
  <2>3. Moves(M, v, b, h, q, r, s, x, x, b, h, q, "ready")
    BY <1>4, <1>6, <1>8, <1>10, <1>15, <1>16, <2>1, <2>2 DEF Moves
  <2>4. QED BY <1>30, <2>3, MemberMoves
<1>18. Tokens(M, x, b, h)'
  <2>1. x \in (M \ {0}) \cup {N}
    BY <1>10
  <2>2. works' = works
    BY <1>3
  <2>3. \A w \in works : w \in Nat
    BY <1>0, <1>2
  <2>4. b = N => \A w \in works : w < x
    BY <1>1, <1>8, <1>11, <2>3 DEF Tokens
  <2>5. (b < N => h <= b /\ b <= x) /\ (h < N => h <= x)
    BY <1>1, <1>6, <1>8, <1>11 DEF Tokens
  <2>6. QED BY <1>1, <1>6, <2>1, <2>2, <2>4, <2>5 DEF Tokens
<1>19. Marks(M, x)'
  <2> SUFFICES ASSUME NEW a \in M, a < x PROVE Members(a)' = M
    BY DEF Marks
  <2>1. a <= r
    <3>1. a # r => (r <= a <=> x <= a)
      BY <1>2, <1>4, <1>10, Passes
    <3>2. QED BY <1>0, <1>2, <1>6, <1>11, <3>1
  <2>2. CASE a = r
    BY <1>1, <1>3, <1>15, <2>2, MembersOf
  <2>3. CASE a # r
    <3>1. a < v
      BY <1>0, <1>2, <1>6, <1>8, <2>1, <2>3
    <3>2. Members(a) = M /\ fwd'[a] = fwd[a]
      BY <1>1, <1>2, <1>15, <2>3, <3>1 DEF Marks
    <3>3. QED BY <1>1, <1>3, <3>2, MembersOf
  <2>4. QED BY <2>2, <2>3
<1>20. (0 < h /\ h <= N => Seen(q, h))'
  BY <1>1, <1>3 DEF Seen, SeenBefore
<1>21. Running(M, x, b, h, q, src)'
  BY <1>17, <1>18, <1>19, <1>20 DEF Running
<1>22. QED BY <1>21

-----------------------------------------------------------------------------
LEMMA SeenGrows ==
  ASSUME StartupAssumption, works \subseteq Rank, NEW r \in works, 0 < r, NEW q, Seen(q, r),
         NEW h \in Nat, \A w \in works : w < h <=> w <= r
  PROVE  Seen(Append(q, r), h)
<1>0. N \in Nat /\ Rank = 0..N-1 /\ r \in Nat /\ r \in Rank
  BY DEF StartupAssumption, Rank
<1> DEFINE A == SeenBefore(r)
           B == SeenBefore(h)
           l == Len(q)
<1>1. /\ q \in Seq(Rank) /\ l = Cardinality(A) /\ {q[i] : i \in 1..l} = A
      /\ \A i \in 1..l-1 : q[i] < q[i + 1]
  BY DEF Seen
<1>2. l \in Nat
  BY <1>1
<1>3. B = A \cup {r} /\ r \notin A /\ A \subseteq Rank
  <2>1. \A w \in works : w \in Nat
    BY <1>0
  <2>2. ASSUME NEW w PROVE w \in B <=> w \in A \/ w = r
    <3>1. CASE w \in works
      <4>1. w \in Nat /\ (w < h <=> w <= r)
        BY <2>1, <3>1
      <4>2. w < h <=> w < r \/ w = r
        BY <1>0, <4>1
      <4>3. QED BY <3>1, <4>2 DEF SeenBefore
    <3>2. CASE w \notin works
      BY <3>2 DEF SeenBefore
    <3>3. QED BY <3>1, <3>2
  <2>3. r \notin A /\ A \subseteq Rank
    <3>1. ~(r < r) /\ A \subseteq works
      BY <1>0 DEF SeenBefore
    <3>2. QED BY <3>1 DEF SeenBefore
  <2> HIDE DEF A, B
  <2>4. QED BY <2>2, <2>3
<1>4. IsFiniteSet(A)
  <2>1. IsFiniteSet(0..N-1)
    BY <1>0, FS_Interval
  <2>2. QED BY <1>0, <1>3, <2>1, FS_Subset
<1>5. Cardinality(B) = Cardinality(A) + 1
  <2> HIDE DEF A, B
  <2>1. QED BY <1>3, <1>4, FS_AddElement
<1> DEFINE u == Append(q, r)
<1>6. /\ u \in Seq(Rank) /\ Len(u) = l + 1 /\ u[l + 1] = r
      /\ \A i \in 1..l : u[i] = q[i]
  BY <1>0, <1>1
<1> HIDE DEF u, A, B, l
<1>7. \A i \in 1..l : q[i] \in A
  BY <1>1
<1>8. {u[i] : i \in 1..l+1} = B
  <2>1. ASSUME NEW i \in 1..l+1 PROVE u[i] \in B
    <3>1. CASE i = l + 1
      BY <1>3, <1>6, <3>1
    <3>2. CASE i # l + 1
      <4>1. i \in 1..l
        BY <1>2, <3>2
      <4>2. QED BY <1>3, <1>6, <1>7, <4>1
    <3>3. QED BY <3>1, <3>2
  <2>2. ASSUME NEW w \in B PROVE \E i \in 1..l+1 : u[i] = w
    <3>1. CASE w = r
      <4>1. l + 1 \in 1..l+1
        BY <1>2
      <4>2. QED BY <1>6, <3>1, <4>1
    <3>2. CASE w \in A
      <4>1. PICK i \in 1..l : q[i] = w
        BY <1>1, <3>2
      <4>2. i \in 1..l+1
        BY <1>2
      <4>3. QED BY <1>6, <4>1, <4>2
    <3>3. QED BY <1>3, <3>1, <3>2
  <2>3. QED BY <2>1, <2>2
<1>9. ASSUME NEW i \in 1..(l+1)-1 PROVE u[i] < u[i + 1]
  <2>1. i \in 1..l
    BY <1>2
  <2>2. CASE i = l
    <3>1. q[i] < r
      BY <1>7, <2>1 DEF A, SeenBefore
    <3>2. QED BY <1>6, <2>1, <2>2, <3>1
  <2>3. CASE i # l
    <3>1. i \in 1..l-1 /\ i + 1 \in 1..l
      BY <1>2, <2>1, <2>3
    <3>2. QED BY <1>1, <1>6, <2>1, <3>1
  <2>4. QED BY <2>2, <2>3
<1>10. QED BY <1>1, <1>3, <1>5, <1>6, <1>8, <1>9 DEF Seen, B, u

(* A forwarder adds nothing.                                               *)
LEMMA SeenStays ==
  ASSUME NEW q, NEW r, Seen(q, r), NEW h, \A w \in works : w < h <=> w < r
  PROVE  Seen(q, h)
<1>1. SeenBefore(h) = SeenBefore(r)
  BY DEF SeenBefore
<1>2. QED BY <1>1 DEF Seen

(* The marks a member has, after a step that leaves them alone.            *)
LEMMA MarksStay ==
  ASSUME StartupAssumption, NEW M, Shape(M, N), NEW v, Marks(M, v), works' = works, fwd' = fwd
  PROVE  Marks(M, v)'
<1>1. ASSUME NEW m \in M, m < v PROVE Members(m)' = M
  <2>1. Members(m) = M /\ fwd'[m] = fwd[m]
    BY <1>1 DEF Marks
  <2>2. QED BY <2>1, MembersOf
<1>2. QED BY <1>1 DEF Marks

(* The members after r, seen from r.                                       *)
LEMMA After ==
  ASSUME StartupAssumption, NEW M, Shape(M, N), NEW r \in M, NEW x \in Nat, NextIs(M, r, x)
  PROVE  /\ r < x /\ x <= N
         /\ \A m \in M \cup {N} : r < m => x <= m
         /\ \A w \in works : r < w => x <= w /\ w < N
<1>1. N \in Nat /\ Rank = 0..N-1 /\ M \subseteq Rank /\ works \subseteq M
  BY DEF StartupAssumption, Rank, Shape, RingOf
<1>2. r \in Nat /\ r < x /\ x <= N
  BY <1>1 DEF NextIs
<1>3. ASSUME NEW m \in M, r < m PROVE x <= m /\ m < N
  <2>1. m # r /\ m < N /\ m \in Nat
    BY <1>1, <1>2, <1>3
  <2>2. r <= m <=> x <= m
    BY <1>1, <2>1, Passes
  <2>3. QED BY <1>2, <1>3, <2>1, <2>2
<1>4. QED BY <1>1, <1>2, <1>3


LEMMA BatchStep ==
  ASSUME StartupAssumption, NEW M, NEW v, NEW b, NEW h, NEW q, NEW src, Running(M, v, b, h, q, src),
         NEW r \in Rank, TakeBatch(r)
  PROVE  \E u : Running(M, v, u, h, q, src)'
<1>0. N \in Nat /\ Rank = 0..N-1 /\ 0 \in Rank
  BY DEF StartupAssumption, Rank
<1>1. /\ Shape(M, N) /\ Tokens(M, v, b, h) /\ Places(M, v, b, h)
      /\ Piles(M, v, b, h, q) /\ Returned(h, q, src) /\ Marks(M, v)
      /\ 0 < h /\ h <= N => Seen(q, h)
      /\ sig # {} => h = N + 1
  BY DEF Running
<1>2. /\ M \subseteq Rank /\ 0 \in M /\ works \subseteq M /\ Full(chan)
      /\ pc = [a \in Rank |-> pc[a]] /\ fwd = [a \in Rank |-> fwd[a]]
  BY <1>0, <1>1 DEF Shape, RingOf
<1>3. PICK s \in Rank :
    /\ r # 0 /\ r \in works
    /\ Reads(r, "ready", s, Msg("batch", TRUE))
    /\ chan' = IF WorkerRank(r) = NWorker(r) - 1 THEN Popped(s, r)
               ELSE Push(Popped(s, r), r, conn[r].node, Msg("batch", TRUE))
    /\ Goto(r, "hidden")
    /\ UNCHANGED <<auto, port, works, conn, fwd, sig>>
  BY DEF TakeBatch
<1>4. r \in M \ {0} /\ r \in works
  BY <1>2, <1>3
<1>5. chan[<<s, r>>] # <<>> /\ pc[r] = "ready"
  BY <1>3 DEF Reads
<1>6. /\ r \in Nat /\ 0 < r /\ r < N
      /\ s \in M /\ NextIs(M, s, r) /\ M # {0}
      /\ v \in Nat /\ b \in Nat /\ h \in Nat
      /\ v = r \/ b = r \/ h = r
      /\ b = r => r <= v
      /\ h = r => r <= v /\ r <= b
  BY <1>4, <1>5, MemberIs
<1>7. ~(v <= r) /\ b <= r
  BY <1>1, <1>4, <1>5 DEF Places, MemberPc
<1>8. b = r /\ v # r
  BY <1>6, <1>7
<1>9. Members(r) = M
  BY <1>1, <1>4, <1>6, <1>7 DEF Marks
<1>10. PICK x \in r+1..N : /\ NextIs(M, r, x) /\ (x = N \/ (x \in M \ {0} /\ x < N))
                           /\ conn[r].rank = At(x) /\ conn[r].node = At(x)
  BY <1>1, <1>4, <1>6, NextMember
<1>11. x \in Nat /\ r < x /\ x <= N /\ x # r
  BY <1>0, <1>6
<1>12. /\ \A m \in M \cup {N} : r < m => x <= m
       /\ \A w \in works : r < w => x <= w /\ w < N
  BY <1>1, <1>4, <1>10, <1>11, After
<1> DEFINE last == \A w \in works : w <= r
<1>30. PICK y : y = IF last THEN N ELSE x
  OBVIOUS
<1>13. WorkerRank(r) = NWorker(r) - 1 <=> last
  BY <1>1, <1>4, <1>9, LastWorker
<1>14. \A w \in works : w \in Nat
  BY <1>0, <1>2
<1>15. ~last => x # N /\ \E w \in works : x <= w
  BY <1>0, <1>6, <1>11, <1>12, <1>14
<1>16. h <= r
  BY <1>0, <1>1, <1>6, <1>8 DEF Tokens
<1>17. /\ Tail(chan[<<s, r>>]) = Pile(v, y, h, q, M, r)
       /\ x # N /\ ~last => Append(chan[<<r, x>>], Batch) = Pile(v, y, h, q, M, x)
       /\ x # N /\ last => chan[<<r, x>>] = Pile(v, y, h, q, M, x)
  <2>1. y # r
    BY <1>6, <1>11, <1>30
  <2> HIDE DEF last
  <2>2. chan[<<s, r>>] = Pile(v, b, h, q, M, r)
    BY <1>1, <1>4, <1>5, MemberReads
  <2>3. Tail(Pile(v, b, h, q, M, r)) = Pile(v, y, h, q, M, r)
    BY <1>8, <2>1, BatchRead
  <2>4. x # N => chan[<<r, x>>] = Pile(v, b, h, q, M, x) /\ x < N
    BY <1>1, <1>2, <1>4, <1>10 DEF Piles
  <2>5. b # x /\ h # x
    BY <1>6, <1>8, <1>11, <1>16
  <2>6. Append(Pile(v, b, h, q, M, x), Batch) = Pile(v, x, h, q, M, x)
    BY <2>5, BatchComes
  <2>7. ~last => Append(Pile(v, b, h, q, M, x), Batch) = Pile(v, y, h, q, M, x)
    BY <1>30, <2>6
  <2>8. x # N /\ last => Pile(v, b, h, q, M, x) = Pile(v, y, h, q, M, x)
    BY <1>0, <1>30, <2>5 DEF Pile
  <2>9. QED BY <2>2, <2>3, <2>4, <2>7, <2>8
<1>18. /\ Full(chan')
       /\ \A a, c \in Rank : chan'[<<a, c>>] =
            IF a = s /\ c = r THEN Tail(chan[<<s, r>>])
            ELSE IF ~last /\ a = r /\ c = x THEN Append(chan[<<r, x>>], Batch) ELSE chan[<<a, c>>]
  <2>1. CASE last
    <3>1. chan' = Popped(s, r)
      BY <1>3, <1>13, <2>1
    <3>2. /\ Full(Popped(s, r))
          /\ \A a, c \in Rank : Popped(s, r)[<<a, c>>] =
              IF a = s /\ c = r THEN Tail(chan[<<s, r>>]) ELSE chan[<<a, c>>]
      BY <1>2, PoppedIs
    <3> HIDE DEF last
    <3>3. QED BY <2>1, <3>1, <3>2
  <2>2. CASE ~last
    <3>1. x \in Rank /\ r # x /\ conn[r].node = x
      BY <1>0, <1>10, <1>11, <1>15, <2>2 DEF At
    <3>2. chan' = Push(Popped(s, r), r, x, Batch)
      BY <1>3, <1>13, <2>2, <3>1 DEF Batch
    <3> HIDE DEF last
    <3>3. /\ Full(chan')
          /\ \A a, c \in Rank : chan'[<<a, c>>] =
               IF a = s /\ c = r THEN Tail(chan[<<s, r>>])
               ELSE IF a = r /\ c = x THEN Append(chan[<<r, x>>], Batch) ELSE chan[<<a, c>>]
      BY <1>2, <3>1, <3>2, PopPush
    <3>4. QED BY <2>2, <3>3
  <2>3. QED BY <2>1, <2>2
<1> HIDE DEF last
<1>19. Sent(M, r, s, x, v, y, h, q, src)
  <2> SUFFICES ASSUME NEW a \in Rank, NEW c \in Rank
      PROVE  chan'[<<a, c>>] =
            IF a = s /\ c = r THEN Pile(v, y, h, q, M, r)
            ELSE IF a = r /\ c = x THEN Pile(v, y, h, q, M, x)
            ELSE IF c = 0 THEN IF h = N /\ a = src THEN <<Msg("hidden", q)>> ELSE <<>>
            ELSE chan[<<a, c>>]
    BY <1>18 DEF Sent
  <2>1. c = x => x # N
    BY <1>0
  <2>2. chan[<<a, 0>>] = IF h = N /\ a = src THEN <<Msg("hidden", q)>> ELSE <<>>
    BY <1>1 DEF Returned
  <2>3. CASE a = s /\ c = r
    BY <1>17, <1>18, <2>3
  <2>4. CASE ~(a = s /\ c = r) /\ a = r /\ c = x
    BY <1>17, <1>18, <2>1, <2>4
  <2>5. CASE ~(a = s /\ c = r) /\ ~(a = r /\ c = x)
    <3>1. chan'[<<a, c>>] = chan[<<a, c>>]
      BY <1>18, <2>5
    <3>2. QED BY <2>2, <2>5, <3>1
  <2>6. QED BY <2>3, <2>4, <2>5
<1>20. GoesOn(r, x, b, y) /\ GoesOn(r, x, h, h)
  BY <1>8, <1>30 DEF GoesOn, last
<1>21. y \in Nat /\ r < y /\ y <= N
  BY <1>0, <1>6, <1>11, <1>30
<1>22. "hidden" \in MemberPc(r, v, y, h)
  <2>1. ~(y <= r)
    BY <1>6, <1>21
  <2>2. QED BY <1>4, <1>7, <1>16, <2>1 DEF MemberPc
<1>23. Moves(M, v, b, h, q, r, s, x, v, y, h, q, "hidden")
  <2>1. /\ pc' = [pc EXCEPT ![r] = "hidden"] /\ fwd' = [a \in Rank |-> fwd'[a]]
        /\ works' = works /\ conn' = conn /\ sig' = sig
    BY <1>2, <1>3 DEF Goto
  <2>2. QED BY <1>4, <1>6, <1>10, <1>20, <1>22, <2>1 DEF Moves
<1>24. /\ Shape(M, N)' /\ Places(M, v, y, h)'
       /\ Piles(M, v, y, h, q)' /\ Returned(h, q, src)'
       /\ sig' # {} => h = N + 1
  <2>1. QED BY <1>19, <1>23, MemberMoves
<1>25. Tokens(M, v, y, h)'
  <2>1. v \in (M \ {0}) \cup {N} /\ h \in M \cup {N, N + 1} /\ h # 0
    BY <1>1, <1>6, <1>8 DEF Tokens
  <2>2. y \in M \cup {N} /\ y # 0
    BY <1>10, <1>21, <1>30
  <2>3. h <= y /\ (h < N => h <= v)
    BY <1>6, <1>7, <1>16, <1>21
  <2>4. CASE last
    <3>1. y = N /\ \A w \in works : w < v
      BY <1>6, <1>7, <1>14, <1>30, <2>4 DEF last
    <3>2. ~(y < N) /\ works' = works
      BY <1>0, <1>3, <3>1
    <3>3. QED BY <1>6, <2>1, <2>2, <2>3, <3>1, <3>2 DEF Tokens
  <2>5. CASE ~last
    <3>1. y = x /\ x # N /\ \E w \in works : x <= w
      BY <1>15, <1>30, <2>5
    <3>2. x <= v
      BY <1>6, <1>7, <1>12, <2>1
    <3>3. QED BY <1>3, <1>6, <2>1, <2>2, <2>3, <3>1, <3>2 DEF Tokens
  <2>6. QED BY <2>4, <2>5
<1>26. Marks(M, v)'
  BY <1>1, <1>3, MarksStay
<1>27. (0 < h /\ h <= N => Seen(q, h))'
  BY <1>1, <1>3 DEF Seen, SeenBefore
<1>28. Running(M, v, y, h, q, src)'
  BY <1>24, <1>25, <1>26, <1>27 DEF Running
<1>29. QED BY <1>28


LEMMA HiddenStep ==
  ASSUME StartupAssumption, NEW M, NEW v, NEW b, NEW h, NEW q, NEW src, Running(M, v, b, h, q, src),
         NEW r \in Rank \ {0}, TakeHidden(r)
  PROVE  \E u, p : Running(M, v, b, u, p, r)'
<1>0. N \in Nat /\ Rank = 0..N-1 /\ 0 \in Rank
  BY DEF StartupAssumption, Rank
<1>1. /\ Shape(M, N) /\ Tokens(M, v, b, h) /\ Places(M, v, b, h)
      /\ Piles(M, v, b, h, q) /\ Returned(h, q, src) /\ Marks(M, v)
      /\ 0 < h /\ h <= N => Seen(q, h)
      /\ sig # {} => h = N + 1
  BY DEF Running
<1>2. /\ M \subseteq Rank /\ 0 \in M /\ works \subseteq M /\ Full(chan)
      /\ pc = [a \in Rank |-> pc[a]] /\ fwd = [a \in Rank |-> fwd[a]]
  BY <1>0, <1>1 DEF Shape, RingOf
<1>3. PICK s \in Rank : \E m \in {chan[<<s, r>>][i] : i \in 1..Len(chan[<<s, r>>])} :
    /\ Reads(r, "hidden", s, m)
    /\ m.type = "hidden"
    /\ \E t \in {conn[r].node}
                  \cup (IF WorkerRank(r) = NWorker(r) - 1 THEN {0} ELSE {}) :
         chan' = Push(Popped(s, r), r, t, Msg("hidden", Append(m.val, r)))
    /\ Goto(r, "idle")
    /\ UNCHANGED <<auto, port, works, conn, fwd, sig>>
  BY DEF TakeHidden
<1>4. PICK m :
    /\ Reads(r, "hidden", s, m)
    /\ m.type = "hidden"
    /\ \E t \in {conn[r].node}
                  \cup (IF WorkerRank(r) = NWorker(r) - 1 THEN {0} ELSE {}) :
         chan' = Push(Popped(s, r), r, t, Msg("hidden", Append(m.val, r)))
    /\ Goto(r, "idle")
    /\ UNCHANGED <<auto, port, works, conn, fwd, sig>>
  BY <1>3
<1>5. pc[r] = "hidden" /\ chan[<<s, r>>] # <<>> /\ m = Head(chan[<<s, r>>])
  BY <1>4 DEF Reads
<1>6. r \in M \ {0}
  BY <1>1, <1>5 DEF Shape, Outside
<1>7. /\ r \in Nat /\ 0 < r /\ r < N
      /\ s \in M /\ NextIs(M, s, r) /\ M # {0}
      /\ v \in Nat /\ b \in Nat /\ h \in Nat
      /\ v = r \/ b = r \/ h = r
  BY <1>5, <1>6, MemberIs
<1>8. ~(v <= r) /\ ~(b <= r) /\ r \in works
  BY <1>1, <1>5, <1>6 DEF Places, MemberPc
<1>9. h = r /\ v # r /\ b # r /\ r < v /\ r < b
  BY <1>7, <1>8
<1>10. Members(r) = M
  BY <1>1, <1>6, <1>9 DEF Marks
<1>11. PICK x \in r+1..N : /\ NextIs(M, r, x) /\ (x = N \/ (x \in M \ {0} /\ x < N))
                           /\ conn[r].rank = At(x) /\ conn[r].node = At(x)
  BY <1>1, <1>6, <1>7, NextMember
<1>12. x \in Nat /\ r < x /\ x <= N /\ x # r
  BY <1>0, <1>7
<1>13. /\ \A n \in M \cup {N} : r < n => x <= n
       /\ \A w \in works : r < w => x <= w /\ w < N
  BY <1>1, <1>6, <1>11, <1>12, After
<1>14. \A w \in works : w \in Nat /\ w < N
  BY <1>0, <1>2
<1> DEFINE last == \A w \in works : w <= r
<1>15. WorkerRank(r) = NWorker(r) - 1 <=> last
  BY <1>1, <1>8, <1>10, LastWorker
<1>16. x = N => last
  BY <1>0, <1>7, <1>13, <1>14
<1>17. m.val = q
  <2>1. m = Msg("hidden", q)
    <3>1. v # r /\ b # r => Head(chan[<<s, r>>]) = Msg("hidden", q)
      BY <1>1, <1>5, <1>6, MemberReads
    <3>2. QED BY <1>5, <1>9, <3>1
  <2>2. QED BY <2>1 DEF Msg
<1>18. PICK p : p = Append(q, r)
  OBVIOUS
<1>19. PICK t : /\ t \in {conn[r].node} \cup (IF WorkerRank(r) = NWorker(r) - 1 THEN {0} ELSE {})
                /\ chan' = Push(Popped(s, r), r, t, Msg("hidden", p))
  BY <1>4, <1>17, <1>18
<1>20. (t = 0 /\ last) \/ (t = x /\ x # N /\ x # 0 /\ x \in M)
  <2>1. CASE t = conn[r].node
    BY <1>11, <1>16, <2>1 DEF At
  <2>2. CASE t # conn[r].node
    BY <1>15, <1>19, <2>2
  <2>3. QED BY <2>1, <2>2
<1>21. PICK u : u = IF t = 0 THEN N ELSE x
  OBVIOUS
<1>22. u \in Nat /\ r < u /\ u <= N
  BY <1>0, <1>7, <1>12, <1>21
<1>23. t = 0 => b = N
  <2>1. 0 < b /\ b < N => \E w \in works : b <= w
    BY <1>1 DEF Tokens
  <2>2. b <= N
    BY <1>0, <1>1, <1>2 DEF Tokens
  <2>3. t = 0 => last
    BY <1>7, <1>12, <1>20
  <2>4. QED BY <1>0, <1>7, <1>9, <1>14, <2>1, <2>2, <2>3
<1>24. \A w \in works : w < u <=> w <= r
  <2> SUFFICES ASSUME NEW w \in works PROVE w < u <=> w <= r
    OBVIOUS
  <2>1. CASE t = 0
    <3>1. last
      BY <1>7, <1>12, <1>20, <2>1
    <3>2. QED BY <1>14, <1>21, <2>1, <3>1
  <2>2. CASE t # 0
    BY <1>7, <1>12, <1>13, <1>14, <1>21, <2>2
  <2>3. QED BY <2>1, <2>2
<1>25. Seen(p, u)
  <2>1. Seen(q, r) /\ works \subseteq Rank /\ r \in works /\ 0 < r
    BY <1>1, <1>2, <1>7, <1>8, <1>9
  <2>2. QED BY <1>18, <1>22, <1>24, <2>1, SeenGrows
<1>26. GoesOn(r, x, b, b) /\ GoesOn(r, x, h, u)
  BY <1>7, <1>9, <1>12, <1>20, <1>21 DEF GoesOn
<1> HIDE DEF last
<1> DEFINE z == Msg("hidden", p)
<1>27. /\ Full(chan')
       /\ \A a, c \in Rank : chan'[<<a, c>>] =
            IF a = s /\ c = r THEN Tail(chan[<<s, r>>])
            ELSE IF a = r /\ c = t THEN Append(chan[<<r, t>>], z) ELSE chan[<<a, c>>]
  <2>1. t \in Rank /\ r # t
    BY <1>0, <1>2, <1>7, <1>12, <1>20
  <2>2. chan' = Push(Popped(s, r), r, t, z)
    BY <1>19
  <2> HIDE DEF z
  <2>3. QED BY <1>2, <2>1, <2>2, PopPush
<1>28. Tail(chan[<<s, r>>]) = Pile(v, b, u, p, M, r)
  <2>1. chan[<<s, r>>] = Pile(v, b, h, q, M, r)
    BY <1>1, <1>5, <1>6, MemberReads
  <2>2. u # r
    BY <1>7, <1>22
  <2>3. Tail(Pile(v, b, r, q, M, r)) = Pile(v, b, u, p, M, r)
    <3>1. v # r /\ b # r
      BY <1>9
    <3>2. QED BY <2>2, <3>1, HiddenRead
  <2>4. QED BY <1>9, <2>1, <2>3
<1>29. x # N => IF t = 0 THEN chan[<<r, x>>] = Pile(v, b, u, p, M, x)
                ELSE Append(chan[<<r, x>>], z) = Pile(v, b, u, p, M, x)
  <2> SUFFICES ASSUME x # N
               PROVE  IF t = 0 THEN chan[<<r, x>>] = Pile(v, b, u, p, M, x)
                      ELSE Append(chan[<<r, x>>], z) = Pile(v, b, u, p, M, x)
    OBVIOUS
  <2>1. chan[<<r, x>>] = Pile(v, b, h, q, M, x) /\ x < N
    BY <1>1, <1>2, <1>6, <1>11 DEF Piles
  <2>2. h # x
    BY <1>7, <1>9, <1>12
  <2>3. CASE t = 0
    <3>1. u # x
      BY <1>21, <2>3
    <3>2. Pile(v, b, h, q, M, x) = Pile(v, b, u, p, M, x)
      BY <2>2, <3>1 DEF Pile
    <3>3. QED BY <2>1, <2>3, <3>2
  <2>4. CASE t # 0
    <3>1. u = x
      BY <1>21, <2>4
    <3>2. Append(Pile(v, b, h, q, M, x), z) = Pile(v, b, x, p, M, x)
      BY <2>2, HiddenComes
    <3> HIDE DEF z
    <3>3. QED BY <2>1, <2>4, <3>1, <3>2
  <2>5. QED BY <2>3, <2>4
<1>30. Append(<<>>, z) = <<z>>
  OBVIOUS
<1> HIDE DEF z
<1>31. Sent(M, r, s, x, v, b, u, p, r)
  <2>1. ASSUME NEW a \in Rank, NEW c \in Rank
        PROVE  chan'[<<a, c>>] =
            IF a = s /\ c = r THEN Pile(v, b, u, p, M, r)
            ELSE IF a = r /\ c = x THEN Pile(v, b, u, p, M, x)
            ELSE IF c = 0 THEN IF u = N /\ a = r THEN <<z>> ELSE <<>>
            ELSE chan[<<a, c>>]
    <3>1. c = x => x # N /\ x # 0
      BY <1>0, <1>12, <1>7
    <3>2. chan[<<a, 0>>] = <<>>
      <4>1. h # N
        BY <1>0, <1>7, <1>9
      <4>2. QED BY <1>1, <4>1 DEF Returned
    <3>3. CASE a = s /\ c = r
      BY <1>27, <1>28, <3>3
    <3>4. CASE ~(a = s /\ c = r) /\ a = r /\ c = x
      <4>1. CASE t = 0
        <5>1. chan'[<<a, c>>] = chan[<<r, x>>]
          BY <1>27, <3>1, <3>4, <4>1
        <5>2. QED BY <1>29, <3>1, <3>4, <4>1, <5>1
      <4>2. CASE t # 0
        <5>1. chan'[<<a, c>>] = Append(chan[<<r, x>>], z)
          BY <1>20, <1>27, <3>4, <4>2
        <5>2. QED BY <1>29, <3>1, <3>4, <4>2, <5>1
      <4>3. QED BY <4>1, <4>2
    <3>5. CASE ~(a = s /\ c = r) /\ ~(a = r /\ c = x) /\ c = 0
      <4>1. CASE t = 0 /\ a = r
        <5>1. chan'[<<a, c>>] = <<z>>
          BY <1>27, <1>30, <3>2, <3>5, <4>1
        <5>2. QED BY <1>21, <3>5, <4>1, <5>1
      <4>2. CASE t # 0 \/ a # r
        <5>1. chan'[<<a, c>>] = <<>>
          BY <1>27, <3>2, <3>5, <4>2
        <5>2. u = N => t = 0
          BY <1>20, <1>21
        <5>3. QED BY <3>5, <4>2, <5>1, <5>2
      <4>3. QED BY <4>1, <4>2
    <3>6. CASE ~(a = s /\ c = r) /\ ~(a = r /\ c = x) /\ c # 0
      <4>1. ~(a = r /\ c = t)
        BY <1>20, <3>6
      <4>2. QED BY <1>27, <3>6, <4>1
    <3>7. QED BY <3>3, <3>4, <3>5, <3>6
  <2>2. QED BY <1>27, <2>1 DEF Sent, z
<1>32. "idle" \in MemberPc(r, v, b, u)
  BY <1>7, <1>8, <1>22 DEF MemberPc
<1>33. Moves(M, v, b, h, q, r, s, x, v, b, u, p, "idle")
  <2>1. /\ pc' = [pc EXCEPT ![r] = "idle"] /\ fwd' = [a \in Rank |-> fwd'[a]]
        /\ works' = works /\ conn' = conn /\ sig' = sig
    BY <1>2, <1>4 DEF Goto
  <2>2. (u = 0 <=> h = 0) /\ (u <= N <=> h <= N) /\ (h = N + 1 => u = N + 1)
    BY <1>0, <1>7, <1>9, <1>22
  <2>3. QED BY <1>6, <1>7, <1>9, <1>11, <1>26, <1>32, <2>1, <2>2 DEF Moves
<1>34. /\ Shape(M, N)' /\ Places(M, v, b, u)'
       /\ Piles(M, v, b, u, p)' /\ Returned(u, p, r)'
       /\ sig' # {} => u = N + 1
  BY <1>31, <1>33, MemberMoves
<1>35. Tokens(M, v, b, u)'
  <2>1. v \in (M \ {0}) \cup {N} /\ b \in M \cup {N} /\ u \in M \cup {N, N + 1}
    BY <1>1, <1>20, <1>21 DEF Tokens
  <2>2. b # 0 /\ u # 0
    BY <1>7, <1>9, <1>22
  <2>3. b < N => u <= b
    BY <1>0, <1>9, <1>13, <1>21, <1>23, <2>1
  <2>4. u < N => u <= v
    BY <1>0, <1>9, <1>13, <1>21, <2>1
  <2>5. /\ b < N => b <= v
        /\ 0 < b /\ b < N => \E w \in works : b <= w
        /\ b = N => \A w \in works : w < v
    BY <1>1 DEF Tokens
  <2>6. works' = works
    BY <1>4
  <2>7. QED BY <1>7, <2>1, <2>2, <2>3, <2>4, <2>5, <2>6 DEF Tokens
<1>36. Marks(M, v)'
  BY <1>1, <1>4, MarksStay
<1>37. Seen(p, u)'
  BY <1>4, <1>25 DEF Seen, SeenBefore
<1>38. Running(M, v, b, u, p, r)'
  BY <1>34, <1>35, <1>36, <1>37 DEF Running
<1>39. QED BY <1>38


LEMMA RelayStep ==
  ASSUME StartupAssumption, NEW M, NEW v, NEW b, NEW h, NEW q, NEW src, Running(M, v, b, h, q, src),
         NEW r \in Rank \ {0}, Relay(r)
  PROVE  \E y, u, e : Running(M, v, y, u, q, e)'
<1>0. N \in Nat /\ Rank = 0..N-1 /\ 0 \in Rank
  BY DEF StartupAssumption, Rank
<1>1. /\ Shape(M, N) /\ Tokens(M, v, b, h) /\ Places(M, v, b, h)
      /\ Piles(M, v, b, h, q) /\ Returned(h, q, src) /\ Marks(M, v)
      /\ 0 < h /\ h <= N => Seen(q, h)
      /\ sig # {} => h = N + 1
  BY DEF Running
<1>2. /\ M \subseteq Rank /\ 0 \in M /\ works \subseteq M /\ Full(chan)
      /\ pc = [a \in Rank |-> pc[a]] /\ fwd = [a \in Rank |-> fwd[a]]
  BY <1>0, <1>1 DEF Shape, RingOf
<1>3. PICK s \in Rank :
    /\ pc[r] = "ready" /\ IsForwarder(r)
    /\ chan[<<s, r>>] # <<>>
    /\ chan' = Push(Popped(s, r), r, conn[r].node, Head(chan[<<s, r>>]))
    /\ UNCHANGED <<pc, auto, port, works, conn, fwd, sig>>
  BY DEF Relay
<1>4. r \in M \ {0} /\ r \notin works
  BY <1>1, <1>3 DEF Shape, Outside, IsForwarder
<1>5. /\ r \in Nat /\ 0 < r /\ r < N
      /\ s \in M /\ NextIs(M, s, r) /\ M # {0}
      /\ v \in Nat /\ b \in Nat /\ h \in Nat
      /\ v = r \/ b = r \/ h = r
      /\ h = r => r <= b
      /\ h <= N + 1
  BY <1>3, <1>4, MemberIs
<1>6. ~(v <= r) /\ r < v /\ v # r
  BY <1>1, <1>3, <1>4, <1>5 DEF Places, MemberPc
<1>7. PICK x \in r+1..N : /\ NextIs(M, r, x) /\ (x = N \/ (x \in M \ {0} /\ x < N))
                           /\ conn[r].rank = At(x) /\ conn[r].node = At(x)
  BY <1>1, <1>4, <1>5, NextMember
<1>8. x \in Nat /\ r < x /\ x <= N /\ x # r
  BY <1>0, <1>5
<1>9. /\ \A n \in M \cup {N} : r < n => x <= n
      /\ \A w \in works : r < w => x <= w /\ w < N
  BY <1>1, <1>4, <1>7, <1>8, After
<1>10. \A w \in works : w \in Nat /\ w < N /\ w # r
  BY <1>0, <1>2, <1>4
<1>11. chan[<<s, r>>] = Pile(v, b, h, q, M, r)
       /\ (b = r => Head(chan[<<s, r>>]) = Batch)
       /\ (b # r => Head(chan[<<s, r>>]) = Msg("hidden", q))
  <2>1. chan[<<s, r>>] = Pile(v, b, h, q, M, r)
    BY <1>1, <1>3, <1>4, MemberReads
  <2>2. v # r /\ b = r => Head(chan[<<s, r>>]) = Batch
    BY <1>1, <1>3, <1>4, MemberReads
  <2>3. v # r /\ b # r => Head(chan[<<s, r>>]) = Msg("hidden", q)
    BY <1>1, <1>3, <1>4, MemberReads
  <2>4. QED BY <1>6, <2>1, <2>2, <2>3
<1>12. At(x) \in Rank /\ At(x) # r /\ (x # N => At(x) = x) /\ (x = N => At(x) = 0)
  BY <1>0, <1>5, <1>8 DEF At
<1> DEFINE hd == Head(chan[<<s, r>>])
<1>13. /\ Full(chan')
       /\ \A a, c \in Rank : chan'[<<a, c>>] =
            IF a = s /\ c = r THEN Tail(chan[<<s, r>>])
            ELSE IF a = r /\ c = At(x) THEN Append(chan[<<r, At(x)>>], hd) ELSE chan[<<a, c>>]
  <2> DEFINE t == At(x)
  <2>1. chan' = Push(Popped(s, r), r, t, hd) /\ t \in Rank /\ t # r /\ r \in Rank
    BY <1>3, <1>7, <1>12
  <2> HIDE DEF hd, t
  <2>2. /\ Full(chan')
        /\ \A a, c \in Rank : chan'[<<a, c>>] =
             IF a = s /\ c = r THEN Tail(chan[<<s, r>>])
             ELSE IF a = r /\ c = t THEN Append(chan[<<r, t>>], hd) ELSE chan[<<a, c>>]
    BY <1>2, <2>1, PopPush
  <2>3. QED BY <2>2 DEF t
<1> HIDE DEF hd
<1>14. x # N => chan[<<r, x>>] = Pile(v, b, h, q, M, x) /\ x \in Rank
  <2>1. x # N => x \in M \ {0} /\ x \in Rank
    BY <1>2, <1>7
  <2>2. QED BY <1>1, <1>2, <1>4, <1>7, <2>1 DEF Piles
<1>15. /\ pc' = [pc EXCEPT ![r] = "ready"] /\ fwd' = [a \in Rank |-> fwd'[a]]
       /\ works' = works /\ conn' = conn /\ sig' = sig /\ fwd' = fwd
  <2>1. [pc EXCEPT ![r] = "ready"] = pc
    BY <1>2, <1>3
  <2>2. QED BY <1>2, <1>3, <2>1
<1>16. /\ v \in (M \ {0}) \cup {N} /\ b \in M \cup {N} /\ h \in M \cup {N, N + 1}
       /\ b = 0 <=> h = 0
       /\ b < N => h <= b /\ b <= v
       /\ 0 < b /\ b < N => \E w \in works : b <= w
       /\ b = N => \A w \in works : w < v
       /\ h < N => h <= v
  BY <1>1 DEF Tokens
<1>17. Marks(M, v)'
  BY <1>1, <1>15, MarksStay
<1>18. CASE b = r
  <2>1. x # N /\ x < N /\ \E w \in works : x <= w
    <3>1. PICK w \in works : b <= w
      BY <1>5, <1>16, <1>18
    <3>2. r < w /\ w < N /\ x <= w
      BY <1>5, <1>9, <1>10, <1>18, <3>1
    <3>3. QED BY <1>0, <1>8, <1>10, <3>2
  <2>2. h <= r /\ h # x /\ h # 0 /\ h <= x /\ h # N /\ h # N + 1
    BY <1>0, <1>5, <1>8, <1>16, <1>18
  <2>3. Tail(chan[<<s, r>>]) = Pile(v, x, h, q, M, r)
    <3>1. Tail(Pile(v, b, h, q, M, r)) = Pile(v, x, h, q, M, r)
      BY <1>6, <1>8, <1>18, BatchRead
    <3>2. QED BY <1>11, <3>1
  <2>4. Append(chan[<<r, x>>], hd) = Pile(v, x, h, q, M, x)
    <3>1. b # x
      BY <1>8, <1>18
    <3>2. Append(Pile(v, b, h, q, M, x), Batch) = Pile(v, x, h, q, M, x)
      BY <2>2, <3>1, BatchComes
    <3>3. QED BY <1>11, <1>14, <1>18, <2>1, <3>2 DEF hd
  <2>5. Sent(M, r, s, x, v, x, h, q, src)
    <3>1. ASSUME NEW a \in Rank, NEW c \in Rank
        PROVE  chan'[<<a, c>>] =
            IF a = s /\ c = r THEN Pile(v, x, h, q, M, r)
            ELSE IF a = r /\ c = x THEN Pile(v, x, h, q, M, x)
            ELSE IF c = 0 THEN IF h = N /\ a = src THEN <<Msg("hidden", q)>> ELSE <<>>
            ELSE chan[<<a, c>>]
      <4>1. chan[<<a, 0>>] = IF h = N /\ a = src THEN <<Msg("hidden", q)>> ELSE <<>>
        BY <1>1 DEF Returned
      <4>2. chan'[<<a, c>>] = IF a = s /\ c = r THEN Tail(chan[<<s, r>>])
               ELSE IF a = r /\ c = x THEN Append(chan[<<r, x>>], hd) ELSE chan[<<a, c>>]
        BY <1>12, <1>13, <2>1
      <4>3. QED BY <2>3, <2>4, <4>1, <4>2
    <3>2. QED BY <1>13, <3>1 DEF Sent
  <2>6. Moves(M, v, b, h, q, r, s, x, v, x, h, q, "ready")
    <3>1. "ready" \in MemberPc(r, v, x, h)
      BY <1>4, <1>6 DEF MemberPc
    <3>2. GoesOn(r, x, b, x) /\ GoesOn(r, x, h, h)
      BY <1>18 DEF GoesOn
    <3>3. QED BY <1>4, <1>5, <1>7, <1>15, <3>1, <3>2 DEF Moves
  <2>7. /\ Shape(M, N)' /\ Places(M, v, x, h)'
        /\ Piles(M, v, x, h, q)' /\ Returned(h, q, src)'
        /\ sig' # {} => h = N + 1
    BY <2>5, <2>6, MemberMoves
  <2>8. Tokens(M, v, x, h)'
    <3>1. x <= v
      BY <1>6, <1>9, <1>16
    <3>2. x \in M \cup {N} /\ x # 0
      BY <1>5, <1>7, <1>8
    <3>3. QED BY <1>5, <1>15, <1>16, <2>1, <2>2, <3>1, <3>2 DEF Tokens
  <2>9. (0 < h /\ h <= N => Seen(q, h))'
    BY <1>1, <1>15 DEF Seen, SeenBefore
  <2>10. Running(M, v, x, h, q, src)'
    BY <1>17, <2>7, <2>8, <2>9 DEF Running
  <2>11. QED BY <2>10
<1>19. CASE b # r
  <2>1. h = r /\ r < b /\ h # N /\ h # x
    BY <1>5, <1>6, <1>8, <1>19
  <2>2. x <= b /\ x <= v /\ (x = N => b = N)
    <3>1. x <= b /\ x <= v
      BY <1>6, <1>9, <1>16, <2>1
    <3>2. b \in M => b < N
      BY <1>0, <1>2
    <3>3. QED BY <1>5, <1>8, <1>16, <3>1, <3>2
  <2>3. Tail(chan[<<s, r>>]) = Pile(v, b, x, q, M, r)
    <3>1. Tail(Pile(v, b, r, q, M, r)) = Pile(v, b, x, q, M, r)
      BY <1>6, <1>8, <1>19, HiddenRead
    <3>2. QED BY <1>11, <2>1, <3>1
  <2> DEFINE z == Msg("hidden", q)
  <2>4. x # N => Append(chan[<<r, x>>], z) = Pile(v, b, x, q, M, x)
    <3>1. Append(Pile(v, b, h, q, M, x), z) = Pile(v, b, x, q, M, x)
      BY <2>1, HiddenComes
    <3>2. QED BY <1>14, <3>1
  <2>5. hd = z
    BY <1>11, <1>19 DEF hd
  <2>6. Append(<<>>, z) = <<z>>
    OBVIOUS
  <2> HIDE DEF z
  <2>7. Sent(M, r, s, x, v, b, x, q, r)
    <3>1. ASSUME NEW a \in Rank, NEW c \in Rank
        PROVE  chan'[<<a, c>>] =
            IF a = s /\ c = r THEN Pile(v, b, x, q, M, r)
            ELSE IF a = r /\ c = x THEN Pile(v, b, x, q, M, x)
            ELSE IF c = 0 THEN IF x = N /\ a = r THEN <<z>> ELSE <<>>
            ELSE chan[<<a, c>>]
      <4>1. chan[<<a, 0>>] = <<>> /\ c # N /\ x # 0
        <5>1. chan[<<a, 0>>] = <<>>
          BY <1>1, <2>1 DEF Returned
        <5>2. QED BY <1>0, <1>5, <1>8, <5>1
      <4>2. CASE a = s /\ c = r
        BY <1>13, <2>3, <4>2
      <4>3. CASE ~(a = s /\ c = r) /\ a = r /\ c = At(x)
        <5>1. chan'[<<a, c>>] = Append(chan[<<r, At(x)>>], z)
          BY <1>13, <2>5, <4>3
        <5>2. CASE x = N
          BY <1>12, <2>6, <4>1, <4>3, <5>1, <5>2
        <5>3. CASE x # N
          <6>1. At(x) = x
            BY <1>12, <5>3
          <6>2. chan'[<<a, c>>] = Pile(v, b, x, q, M, x)
            BY <2>4, <5>1, <5>3, <6>1
          <6>3. QED BY <4>3, <6>1, <6>2
        <5>4. QED BY <5>2, <5>3
      <4>4. CASE ~(a = s /\ c = r) /\ ~(a = r /\ c = At(x))
        <5>1. chan'[<<a, c>>] = chan[<<a, c>>]
          BY <1>13, <4>4
        <5>2. ~(a = r /\ c = x) /\ ~(c = 0 /\ x = N /\ a = r)
          BY <1>12, <4>1, <4>4
        <5>3. QED BY <4>1, <4>4, <5>1, <5>2
      <4>5. QED BY <4>2, <4>3, <4>4
    <3>2. QED BY <1>13, <3>1 DEF Sent, z
  <2>8. Moves(M, v, b, h, q, r, s, x, v, b, x, q, "ready")
    <3>1. "ready" \in MemberPc(r, v, b, x)
      BY <1>4, <1>6 DEF MemberPc
    <3>2. GoesOn(r, x, b, b) /\ GoesOn(r, x, h, x)
      BY <2>1 DEF GoesOn
    <3>3. (x = 0 <=> h = 0) /\ (x <= N <=> h <= N) /\ (h = N + 1 => x = N + 1)
      BY <1>0, <1>5, <1>8, <2>1
    <3>4. QED BY <1>4, <1>5, <1>7, <1>15, <3>1, <3>2, <3>3 DEF Moves
  <2>9. /\ Shape(M, N)' /\ Places(M, v, b, x)'
        /\ Piles(M, v, b, x, q)' /\ Returned(x, q, r)'
        /\ sig' # {} => x = N + 1
    BY <2>7, <2>8, MemberMoves
  <2>10. Tokens(M, v, b, x)'
    <3>1. x \in M \cup {N, N + 1} /\ x # 0 /\ b # 0
      BY <1>5, <1>7, <1>8, <2>1
    <3>2. QED BY <1>5, <1>15, <1>16, <2>2, <3>1 DEF Tokens
  <2>11. Seen(q, x)
    <3>1. \A w \in works : w < x <=> w < r
      BY <1>5, <1>8, <1>9, <1>10
    <3>2. Seen(q, r)
      BY <1>1, <1>5, <2>1
    <3>3. QED BY <3>1, <3>2, SeenStays
  <2>12. Seen(q, x)'
    BY <1>15, <2>11 DEF Seen, SeenBefore
  <2>13. Running(M, v, b, x, q, r)'
    BY <1>17, <2>9, <2>10, <2>12 DEF Running
  <2>14. QED BY <2>13
<1>20. QED BY <1>18, <1>19

-----------------------------------------------------------------------------
(* The master's steps, signals, and the devices that leave.                *)
LEMMA FirstStep ==
  ASSUME StartupAssumption, NEW M, NEW v, NEW b, NEW h, NEW q, NEW src, Running(M, v, b, h, q, src),
         FirstToken
  PROVE  \E y, u, p, t : Running(M, t, y, u, p, src)'
<1>0. N \in Nat /\ N >= 2 /\ Rank = 0..N-1 /\ 0 \in Rank
  BY DEF StartupAssumption, Rank
<1>1. /\ Shape(M, N) /\ Tokens(M, v, b, h) /\ Places(M, v, b, h)
      /\ Piles(M, v, b, h, q) /\ Returned(h, q, src) /\ Marks(M, v)
      /\ sig # {} => h = N + 1
  BY DEF Running
<1>2. /\ M \subseteq Rank /\ 0 \in M /\ works \subseteq M /\ 0 \in works /\ Full(chan)
      /\ (M # {0} => works # {0})
      /\ pc = [a \in Rank |-> pc[a]] /\ fwd = [a \in Rank |-> fwd[a]]
  BY <1>0, <1>1 DEF Shape, RingOf
<1>3. /\ pc[0] = "ready"
      /\ chan' = IF WorkerRank(0) = NWorker(0) - 1 THEN chan
             ELSE Push(Push(chan, 0, conn[0].node, Msg("batch", TRUE)),
                       0, conn[0].node, Msg("hidden", <<>>))
      /\ Goto(0, IF NWorld(0) = 1 THEN "off" ELSE "lap")
      /\ UNCHANGED <<auto, port, works, conn, fwd, sig>>
  BY DEF FirstToken
<1>4. h = 0 /\ b = 0
  <2>1. h = 0
    BY <1>1, <1>3 DEF Places, MasterPc
  <2>2. QED BY <1>1, <2>1 DEF Tokens
<1>5. /\ v \in Nat /\ 0 < v /\ v <= N /\ v \in M \cup {N}
      /\ (M = {0} => v = N)
  <2>1. v \in (M \ {0}) \cup {N} /\ (M = {0} => v = N)
    BY <1>1 DEF Tokens
  <2>2. \A m \in M : m \in 0..N-1
    BY <1>0, <1>2
  <2>3. QED BY <1>0, <2>1, <2>2
<1>6. Members(0) = M
  BY <1>1, <1>2, <1>5 DEF Marks
<1>7. WorkerRank(0) = NWorker(0) - 1 <=> \A w \in works : w <= 0
  BY <1>1, <1>2, <1>6, LastWorker
<1>8. NWorld(0) = 1 <=> M = {0}
  <2>1. NWorld(0) = Cardinality(M)
    BY <1>6 DEF NWorld
  <2>2. IsFiniteSet(M)
    <3>1. IsFiniteSet(0..N-1)
      BY <1>0, FS_Interval
    <3>2. QED BY <1>0, <1>2, <3>1, FS_Subset
  <2>3. Cardinality({0}) = 1 /\ {0} \subseteq M /\ IsFiniteSet({0})
    BY <1>2, FS_Singleton
  <2>4. Cardinality(M) = Cardinality({0}) => M = {0}
    BY <2>2, <2>3, FS_Subset
  <2>5. QED BY <2>1, <2>3, <2>4
<1>9. sig = {} /\ sig' = {} /\ works' = works /\ conn' = conn /\ fwd' = fwd
  BY <1>0, <1>1, <1>3, <1>4
<1>10. Marks(M, v)'
  BY <1>1, <1>9, MarksStay
<1>11. \A a \in Rank : chan[<<a, 0>>] = <<>>
  <2>1. h # N
    BY <1>0, <1>4
  <2>2. QED BY <1>1, <2>1 DEF Returned
<1>12. \A w \in works : w \in Nat /\ w < N
  BY <1>0, <1>2
<1>13. CASE M = {0}
  <2>1. \A w \in works : w <= 0
    <3>1. \A w \in works : w = 0
      BY <1>2, <1>13
    <3>2. QED BY <3>1
  <2>2. chan' = chan /\ pc' = [pc EXCEPT ![0] = "off"]
    BY <1>3, <1>7, <1>8, <1>13, <2>1 DEF Goto
  <2>3. pc' = [a \in Rank |-> pc'[a]] /\ pc'[0] = "off" /\ \A a \in Rank \ M : pc'[a] = pc[a]
    BY <1>0, <1>2, <2>2
  <2>4. Shape(M, N)'
    BY <1>1, <1>2, <1>9, <2>2, <2>3, ShapeFrame
  <2>5. Tokens(M, N, N, N + 1)'
    BY <1>0, <1>9, <1>12, <1>13 DEF Tokens
  <2>6. Places(M, N, N, N + 1)'
    <3>1. N + 1 # 0 /\ ~(N + 1 <= N)
      BY <1>0
    <3>2. QED BY <1>13, <2>3, <3>1 DEF Places, MasterPc
  <2>7. Piles(M, N, N, N + 1, q)' /\ Returned(N + 1, q, src)'
    <3>1. N + 1 # N
      BY <1>0
    <3>2. QED BY <1>11, <1>13, <2>2, <3>1 DEF Piles, Returned
  <2>8. ~(N + 1 <= N)
    BY <1>0
  <2>9. Marks(M, N)'
    BY <1>5, <1>10, <1>13
  <2>10. Running(M, N, N, N + 1, q, src)'
    BY <1>9, <2>4, <2>5, <2>6, <2>7, <2>8, <2>9 DEF Running
  <2>11. QED BY <1>5, <1>13, <2>10
<1>14. CASE M # {0}
  <2>1. PICK x \in 0+1..N : /\ NextIs(M, 0, x) /\ (x = N \/ (x \in M \ {0} /\ x < N))
                            /\ conn[0].rank = At(x) /\ conn[0].node = At(x)
    BY <1>1, <1>2, <1>14, NextMember
  <2>2. x \in Nat /\ 0 < x /\ x <= N
    BY <1>0, <2>1
  <2>3. /\ \A m \in M \cup {N} : 0 < m => x <= m
        /\ \A w \in works : 0 < w => x <= w /\ w < N
    BY <1>1, <1>2, <2>1, <2>2, After
  <2>4. PICK w \in works : w # 0
    BY <1>2, <1>14
  <2>5. ~(w <= 0) /\ x <= w /\ w < N /\ x < N /\ x # N
    BY <1>0, <1>12, <2>2, <2>3, <2>4
  <2>6. x \in Rank /\ x \in M \ {0} /\ conn[0].node = x /\ x # 0
    BY <1>0, <2>1, <2>2, <2>5 DEF At
  <2> DEFINE z == Msg("hidden", <<>>)
             ch == Push(chan, 0, x, Batch)
  <2>7. chan' = Push(ch, 0, x, z) /\ pc' = [pc EXCEPT ![0] = "lap"]
    BY <1>3, <1>7, <1>8, <1>14, <2>5, <2>6 DEF Goto, Batch
  <2>8. /\ Full(ch)
        /\ \A a, c \in Rank : ch[<<a, c>>] =
              IF a = 0 /\ c = x THEN Append(chan[<<0, x>>], Batch) ELSE chan[<<a, c>>]
    BY <1>0, <1>2, <2>6, PushIs
  <2> HIDE DEF z, ch
  <2>9. /\ Full(Push(ch, 0, x, z))
        /\ \A a, c \in Rank : Push(ch, 0, x, z)[<<a, c>>] =
              IF a = 0 /\ c = x THEN Append(ch[<<0, x>>], z) ELSE ch[<<a, c>>]
    BY <1>0, <2>6, <2>8, PushIs
  <2>10. /\ Full(chan')
         /\ \A a, c \in Rank : chan'[<<a, c>>] =
              IF a = 0 /\ c = x THEN Append(Append(chan[<<0, x>>], Batch), z) ELSE chan[<<a, c>>]
    <3>1. ch[<<0, x>>] = Append(chan[<<0, x>>], Batch)
      BY <1>0, <2>6, <2>8
    <3> DEFINE pu == Push(ch, 0, x, z)
    <3>2. chan' = pu /\ Full(pu) /\ \A a, c \in Rank : pu[<<a, c>>] =
              IF a = 0 /\ c = x THEN Append(ch[<<0, x>>], z) ELSE ch[<<a, c>>]
      BY <2>7, <2>9
    <3> HIDE DEF pu
    <3>3. QED BY <2>8, <3>1, <3>2
  <2>11. Append(Append(chan[<<0, x>>], Batch), z) = Pile(v, x, x, <<>>, M, x)
    <3>1. chan[<<0, x>>] = Pile(v, b, h, q, M, x)
      BY <1>0, <1>1, <1>2, <2>1, <2>6 DEF Piles
    <3>2. b # x /\ h # x
      BY <1>4, <2>6
    <3>3. Append(Pile(v, b, h, q, M, x), Batch) = Pile(v, x, h, q, M, x)
      BY <3>2, BatchComes
    <3>4. Append(Pile(v, x, h, q, M, x), z) = Pile(v, x, x, <<>>, M, x)
      BY <3>2, HiddenComes DEF z
    <3>5. QED BY <3>1, <3>3, <3>4
  <2>12. pc' = [a \in Rank |-> pc'[a]] /\ pc'[0] = "lap" /\ \A a \in Rank \ {0} : pc'[a] = pc[a]
    BY <1>0, <1>2, <2>7
  <2>13. Shape(M, N)'
    <3>1. \A a \in Rank, c \in Rank \ M : chan'[<<a, c>>] = chan[<<a, c>>]
      BY <2>6, <2>10
    <3>2. \A a \in Rank \ M : pc'[a] = pc[a]
      BY <1>2, <2>12
    <3>3. fwd' = [a \in Rank |-> fwd'[a]]
      BY <1>2, <1>9
    <3>4. QED BY <1>1, <1>9, <2>10, <2>12, <3>1, <3>2, <3>3, ShapeFrame
  <2>14. Piles(M, v, x, x, <<>>)'
    <3>1. Kept(M, 0, x, v, b, h, q, v, x, x, <<>>)
      BY <1>4 DEF Kept
    <3>2. Moved(M, 0, 0, x, v, x, x, <<>>)
      BY <1>2, <2>10, <2>11 DEF Moved
    <3>3. M \in SUBSET Rank /\ 0 \in M
      BY <1>2
    <3>4. QED BY <1>1, <2>1, <3>1, <3>2, <3>3, PilesMove
  <2>15. Places(M, v, x, x)'
    <3>1. \A m \in M \ {0, 0} : /\ pc'[m] = pc[m]
                                /\ v <= m <=> v <= m
                                /\ m \in works => (x <= m <=> b <= m) /\ (x <= m <=> h <= m)
      <4>1. \A m \in M \ {0} : x <= m /\ 0 <= m
        <5>1. \A m \in M \ {0} : 0 < m /\ 0 <= m
          BY <1>0, <1>2
        <5>2. QED BY <2>3, <5>1
      <4>2. QED BY <1>2, <1>4, <2>12, <4>1
    <3>2. x <= N => h <= N
      BY <1>0, <1>4
    <3>3. pc'[0] \in MasterPc(x)
      BY <2>2, <2>12 DEF MasterPc
    <3>4. QED BY <1>1, <1>2, <1>9, <3>1, <3>2, <3>3, PlacesMove
  <2>16. Returned(x, <<>>, src)'
    BY <1>0, <1>11, <2>5, <2>6, <2>10 DEF Returned
  <2>17. Tokens(M, v, x, x)'
    <3>1. v \in (M \ {0}) \cup {N}
      BY <1>1 DEF Tokens
    <3>2. x <= v
      BY <1>5, <2>3
    <3>3. QED BY <1>9, <1>14, <2>2, <2>4, <2>5, <2>6, <3>1, <3>2 DEF Tokens
  <2>18. Seen(<<>>, x)'
    <3>1. SeenBefore(x) = {}
      <4>1. \A u \in works : ~(0 < u /\ u < x)
        BY <1>12, <2>2, <2>3
      <4>2. QED BY <4>1 DEF SeenBefore
    <3>2. SeenBefore(x)' = {}
      BY <1>9, <3>1 DEF SeenBefore
    <3>3. Cardinality({}) = 0 /\ <<>> \in Seq(Rank) /\ Len(<<>>) = 0
      BY FS_EmptySet
    <3>4. \A i \in 1..0 : FALSE
      OBVIOUS
    <3>5. \A i \in 1..0-1 : FALSE
      OBVIOUS
    <3> DEFINE em == <<>>
    <3>6. Len(em) = 0 /\ em \in Seq(Rank)
      BY <3>3
    <3> HIDE DEF em
    <3>7. Seen(em, x)'
      BY <3>2, <3>3, <3>4, <3>5, <3>6 DEF Seen
    <3>8. QED BY <3>7 DEF em
  <2>19. Running(M, v, x, x, <<>>, src)'
    BY <1>9, <1>10, <2>13, <2>14, <2>15, <2>16, <2>17, <2>18 DEF Running
  <2>20. QED BY <2>19
<1>15. QED BY <1>13, <1>14


LEMMA LapEnds ==
  ASSUME StartupAssumption, NEW M, NEW v, NEW b, NEW h, NEW q, NEW src, Running(M, v, b, h, q, src),
         LapDone
  PROVE  Running(M, v, b, N + 1, q, src)'
<1>0. N \in Nat /\ N >= 2 /\ Rank = 0..N-1 /\ 0 \in Rank
  BY DEF StartupAssumption, Rank
<1>1. /\ Shape(M, N) /\ Tokens(M, v, b, h) /\ Places(M, v, b, h)
      /\ Piles(M, v, b, h, q) /\ Returned(h, q, src) /\ Marks(M, v)
  BY DEF Running
<1>2. /\ M \subseteq Rank /\ 0 \in M /\ Full(chan)
      /\ pc = [a \in Rank |-> pc[a]] /\ fwd = [a \in Rank |-> fwd[a]]
  BY <1>0, <1>1 DEF Shape, RingOf
<1>3. PICK s \in Rank :
    /\ pc[0] = "lap" /\ chan[<<s, 0>>] # <<>>
    /\ chan' = Popped(s, 0)
    /\ sig' = sig \cup SignalTarget(0)
    /\ Goto(0, "closing")
    /\ UNCHANGED <<auto, port, works, conn, fwd>>
  BY DEF LapDone, Reads
<1>4. h = N /\ s = src /\ chan[<<s, 0>>] = <<Msg("hidden", q)>>
  BY <1>1, <1>3 DEF Returned
<1>5. b = N
  <2>1. b \in M \cup {N} /\ (b < N => h <= b)
    BY <1>1 DEF Tokens
  <2>2. \A m \in M : m \in 0..N-1
    BY <1>0, <1>2
  <2>3. QED BY <1>0, <1>4, <2>1, <2>2
<1>6. Tail(chan[<<s, 0>>]) = <<>>
  <2> DEFINE z == Msg("hidden", q)
  <2>1. Tail(<<z>>) = <<>>
    OBVIOUS
  <2>2. QED BY <1>4, <2>1
<1>7. /\ Full(chan')
      /\ \A a, c \in Rank : chan'[<<a, c>>] = IF a = s /\ c = 0 THEN <<>> ELSE chan[<<a, c>>]
  <2>1. /\ Full(Popped(s, 0))
        /\ \A a, c \in Rank : Popped(s, 0)[<<a, c>>] =
              IF a = s /\ c = 0 THEN Tail(chan[<<s, 0>>]) ELSE chan[<<a, c>>]
    BY <1>0, <1>2, PoppedIs
  <2>2. QED BY <1>3, <1>6, <2>1
<1>8. pc' = [a \in Rank |-> pc'[a]] /\ pc'[0] = "closing" /\ \A a \in Rank \ {0} : pc'[a] = pc[a]
  <2>1. pc' = [pc EXCEPT ![0] = "closing"]
    BY <1>3 DEF Goto
  <2>2. QED BY <1>0, <1>2, <2>1
<1>9. works' = works /\ conn' = conn /\ fwd' = fwd
  BY <1>3
<1>10. Shape(M, N)'
  <2>1. \A a \in Rank, c \in Rank \ M : chan'[<<a, c>>] = chan[<<a, c>>]
    BY <1>2, <1>7
  <2>2. \A a \in Rank \ M : pc'[a] = pc[a]
    BY <1>2, <1>8
  <2>3. fwd' = [a \in Rank |-> fwd'[a]]
    BY <1>2, <1>9
  <2>4. QED BY <1>1, <1>7, <1>8, <1>9, <2>1, <2>2, <2>3, ShapeFrame
<1>11. \A m \in M \ {0} : m # N /\ m # N + 1 /\ ~(N <= m) /\ ~(N + 1 <= m)
  BY <1>0, <1>2
<1>12. Places(M, v, b, N + 1)'
  <2>1. \A m \in M \ {0, 0} : /\ pc'[m] = pc[m]
                              /\ v <= m <=> v <= m
                              /\ m \in works => (b <= m <=> b <= m) /\ (N + 1 <= m <=> h <= m)
    BY <1>2, <1>4, <1>8, <1>11
  <2>2. N + 1 <= N => h <= N
    BY <1>0
  <2>3. pc'[0] \in MasterPc(N + 1)
    BY <1>0, <1>8 DEF MasterPc
  <2>4. QED BY <1>1, <1>2, <1>9, <2>1, <2>2, <2>3, PlacesMove
<1>13. Piles(M, v, b, N + 1, q)'
  <2> SUFFICES ASSUME NEW a \in Rank, NEW c \in M \ {0}
               PROVE  chan'[<<a, c>>] = IF a \in M /\ NextIs(M, a, c)
                        THEN Pile(v, b, N + 1, q, M, c) ELSE <<>>
    BY DEF Piles
  <2>1. Pile(v, b, N + 1, q, M, c) = Pile(v, b, h, q, M, c)
    BY <1>4, <1>11 DEF Pile
  <2>2. chan'[<<a, c>>] = chan[<<a, c>>]
    BY <1>2, <1>7
  <2>3. QED BY <1>1, <2>1, <2>2 DEF Piles
<1>14. Returned(N + 1, q, src)'
  <2>1. N + 1 # N
    BY <1>0
  <2>2. QED BY <1>0, <1>1, <1>4, <1>7, <2>1 DEF Returned
<1>15. Tokens(M, v, b, N + 1)'
  <2>1. ~(N + 1 < N) /\ ~(N < N) /\ N # 0 /\ N + 1 # 0
    BY <1>0
  <2>2. QED BY <1>1, <1>4, <1>5, <1>9, <2>1 DEF Tokens
<1>16. Marks(M, v)'
  BY <1>1, <1>9, MarksStay
<1>17. ~(N + 1 <= N)
  BY <1>0
<1>18. QED BY <1>10, <1>12, <1>13, <1>14, <1>15, <1>16, <1>17 DEF Running

(* A step that touches neither the members' messages nor their marks.      *)
LEMMA RunningFrame ==
  ASSUME StartupAssumption, NEW M, NEW v, NEW b, NEW h, NEW q, NEW src, Running(M, v, b, h, q, src),
         Shape(M, N)', Places(M, v, b, h)', works' = works,
         \A m \in M : fwd'[m] = fwd[m],
         \A s \in Rank, m \in M : chan'[<<s, m>>] = chan[<<s, m>>],
         sig' # {} => h = N + 1
  PROVE  Running(M, v, b, h, q, src)'
<1>1. /\ Shape(M, N) /\ Tokens(M, v, b, h)
      /\ Piles(M, v, b, h, q) /\ Returned(h, q, src) /\ Marks(M, v)
      /\ 0 < h /\ h <= N => Seen(q, h)
  BY DEF Running
<1>2. 0 \in M
  BY <1>1 DEF Shape, RingOf
<1>3. Piles(M, v, b, h, q)'
  <2> SUFFICES ASSUME NEW a \in Rank, NEW c \in M \ {0}
               PROVE  chan'[<<a, c>>] = IF a \in M /\ NextIs(M, a, c)
                        THEN Pile(v, b, h, q, M, c) ELSE <<>>
    BY DEF Piles
  <2>1. chan'[<<a, c>>] = chan[<<a, c>>]
    OBVIOUS
  <2>2. QED BY <1>1, <2>1 DEF Piles
<1>4. Returned(h, q, src)'
  BY <1>1, <1>2 DEF Returned
<1>5. Tokens(M, v, b, h)'
  BY <1>1 DEF Tokens
<1>6. Marks(M, v)'
  <2>1. ASSUME NEW m \in M, m < v PROVE Members(m)' = M
    <3>1. Members(m) = M /\ fwd'[m] = fwd[m]
      BY <1>1, <2>1 DEF Marks
    <3>2. QED BY <1>1, <3>1, MembersOf
  <2>2. QED BY <2>1 DEF Marks
<1>7. (0 < h /\ h <= N => Seen(q, h))'
  BY <1>1 DEF Seen, SeenBefore
<1>8. QED BY <1>3, <1>4, <1>5, <1>6, <1>7 DEF Running

LEMMA OtherLeaves ==
  ASSUME StartupAssumption, NEW M, NEW v, NEW b, NEW h, NEW q, NEW src, Running(M, v, b, h, q, src),
         NEW r \in Rank \ {0}, RebuildTopo(r)
  PROVE  Running(M, v, b, h, q, src)'
<1>1. Shape(M, N) /\ Places(M, v, b, h) /\ (sig # {} => h = N + 1)
  BY DEF Running
<1>2. pc[r] = "topo"
  BY DEF RebuildTopo, Reads
<1>3. r \in Rank \ M
  <2>1. r \in M => pc[r] \in MemberPc(r, v, b, h)
    BY <1>1 DEF Places
  <2>2. "topo" \notin MemberPc(r, v, b, h)
    BY DEF MemberPc
  <2>3. QED BY <1>2, <2>1, <2>2
<1>4. /\ Shape(M, N)' /\ UNCHANGED <<auto, port, works, conn, sig>>
      /\ \A m \in M : pc'[m] = pc[m] /\ fwd'[m] = fwd[m]
      /\ \A s \in Rank, m \in M : chan'[<<s, m>>] = chan[<<s, m>>]
  BY <1>1, <1>3, OutsiderExits
<1>5. 0 \in M
  BY <1>1 DEF Shape, RingOf
<1>6. Places(M, v, b, h)'
  BY <1>1, <1>4, <1>5 DEF Places, MemberPc, MasterPc
<1>7. works' = works /\ (sig' # {} => h = N + 1)
  BY <1>1, <1>4
<1>8. QED BY <1>4, <1>6, <1>7, RunningFrame

(* A member ends.                                                          *)
LEMMA MemberEnds ==
  ASSUME StartupAssumption, NEW M, NEW v, NEW b, NEW h, NEW q, NEW src, Running(M, v, b, h, q, src),
         NEW r \in Rank, (r = 0 /\ Closed) \/ (r # 0 /\ Stop(r))
  PROVE  Running(M, v, b, h, q, src)'
<1>0. N \in Nat /\ N >= 2 /\ Rank = 0..N-1 /\ 0 \in Rank
  BY DEF StartupAssumption, Rank
<1>1. Shape(M, N) /\ Places(M, v, b, h) /\ (sig # {} => h = N + 1)
  BY DEF Running
<1>2. /\ sig # {} /\ (r # 0 => pc[r] = IF r \notin works THEN "ready" ELSE "idle")
      /\ pc' = [pc EXCEPT ![r] = "off"]
      /\ chan' = chan /\ works' = works /\ conn' = conn /\ fwd' = fwd
  BY DEF Closed, Stop, Goto, IsForwarder
<1>3. h = N + 1
  BY <1>1, <1>2
<1>4. 0 \in M /\ Full(chan) /\ pc = [a \in Rank |-> pc[a]] /\ fwd = [a \in Rank |-> fwd[a]]
  BY <1>1 DEF Shape, RingOf
<1>5. r \in M
  BY <1>1, <1>2, <1>4 DEF Shape, Outside
<1>6. pc' = [a \in Rank |-> pc'[a]] /\ pc'[r] = "off" /\ \A a \in Rank \ {r} : pc'[a] = pc[a]
  BY <1>2, <1>4
<1>7. Shape(M, N)'
  <2>1. \A a \in Rank, c \in Rank \ M : chan'[<<a, c>>] = chan[<<a, c>>]
    BY <1>2
  <2>2. \A a \in Rank \ M : pc'[a] = pc[a]
    BY <1>5, <1>6
  <2>3. fwd' = [a \in Rank |-> fwd'[a]] /\ Full(chan')
    BY <1>2, <1>4
  <2>4. QED BY <1>1, <1>2, <1>6, <2>1, <2>2, <2>3, ShapeFrame
<1>8. Places(M, v, b, h)'
  <2>1. M \subseteq Rank
    BY <1>1 DEF Shape, RingOf
  <2>2. ~(h <= N) /\ h # 0
    BY <1>0, <1>3
  <2>3. \A m \in M \ {0, r} : pc'[m] = pc[m]
    BY <1>6, <2>1
  <2>4. pc'[0] \in MasterPc(h)
    BY <1>0, <1>1, <1>6, <2>2 DEF Places, MasterPc
  <2>5. r # 0 => pc'[r] \in MemberPc(r, v, b, h)'
    <3>1. r # 0 => pc[r] \in MemberPc(r, v, b, h)
      BY <1>1, <1>5 DEF Places
    <3>2. QED BY <1>2, <1>6, <2>2, <3>1 DEF MemberPc
  <2>6. QED BY <1>1, <1>2, <1>5, <2>3, <2>4, <2>5, PlacesMove
<1>9. sig' # {} => h = N + 1
  BY <1>3
<1>10. \A m \in M : fwd'[m] = fwd[m]
  BY <1>2
<1>11. \A s \in Rank, m \in M : chan'[<<s, m>>] = chan[<<s, m>>]
  BY <1>2
<1>12. QED BY <1>2, <1>7, <1>8, <1>9, <1>10, <1>11, RunningFrame

-----------------------------------------------------------------------------
LEMMA RunningStep ==
  ASSUME StartupAssumption, NEW M, NEW v, NEW b, NEW h, NEW q, NEW src, Running(M, v, b, h, q, src),
         Next
  PROVE  \/ \E v2, b2, h2, q2, e : Running(M, v2, b2, h2, q2, e)'
         \/ UNCHANGED vars
<1>1. Shape(M, N) /\ Places(M, v, b, h)
  BY DEF Running
<1>2. 0 \in Rank /\ 0 \in M
  BY <1>1 DEF StartupAssumption, Rank, Shape, RingOf
<1>3. pc[0] \in {"ready", "lap", "closing", "off"}
  BY <1>1 DEF Places, MasterPc
<1>4. \A r \in Rank \ {0} : pc[r] \in {"topo", "exited", "view", "ready", "hidden", "idle", "off"}
  BY <1>1, <1>2 DEF Places, MemberPc, Shape, Outside
<1>5. CASE Master
  <2>1. ~SendArgs
    BY <1>3 DEF SendArgs
  <2>2. ~ArgsAcked
    BY <1>3 DEF ArgsAcked, Reads
  <2>3. ~DealLayers /\ ~NoAllocation
    BY <1>3 DEF DealLayers, NoAllocation, Reads
  <2>4. ~SetupAcked
    BY <1>3 DEF SetupAcked, Reads
  <2>5. CASE FirstToken
    BY <2>5, FirstStep
  <2>6. CASE LapDone
    BY <2>6, LapEnds
  <2>7. CASE Closed
    BY <1>2, <2>7, MemberEnds
  <2>8. QED BY <1>5, <2>1, <2>2, <2>3, <2>4, <2>5, <2>6, <2>7 DEF Master
<1>6. CASE \E r \in Rank \ {0} : Other(r)
  <2>1. PICK r \in Rank \ {0} : Other(r)
    BY <1>6
  <2>2. pc[r] \notin {"args", "info", "setup"}
    BY <1>4
  <2>3. ~PassArgs(r)
    BY <2>2 DEF PassArgs, Reads
  <2>4. ~AddInfo(r)
    BY <2>2 DEF AddInfo, Reads
  <2>5. ~PassSetup(r)
    BY <2>2 DEF PassSetup, Reads
  <2>6. CASE RebuildTopo(r)
    BY <2>6, OtherLeaves
  <2>7. CASE TakeBatch(r)
    BY <2>7, BatchStep
  <2>8. CASE TakeHidden(r)
    BY <2>8, HiddenStep
  <2>9. CASE Relay(r)
    BY <2>9, RelayStep
  <2>10. CASE Stop(r)
    BY <2>10, MemberEnds
  <2>11. QED BY <2>1, <2>3, <2>4, <2>5, <2>6, <2>7, <2>8, <2>9, <2>10 DEF Other
<1>7. CASE \E r \in Rank : TakeView(r)
  BY <1>7, ViewStep
<1>8. CASE Terminated
  BY <1>8 DEF Terminated
<1>9. QED BY <1>5, <1>6, <1>7, <1>8 DEF Next

(* The invariant is inductive.                                             *)
LEMMA StartStep ==
  ASSUME StartupAssumption, Numbered, StartInv, Next
  PROVE  StartInv' \/ UNCHANGED vars
<1>1. Config'
  <2>1. UNCHANGED <<auto, port>>
    BY DEF Next, Master, Other, Terminated, vars, SendArgs, ArgsAcked, DealLayers, NoAllocation,
           SetupAcked, FirstToken, LapDone, Closed, PassArgs, AddInfo, PassSetup, RebuildTopo,
           TakeBatch, TakeHidden, Relay, Stop, TakeView
  <2>2. QED BY <2>1 DEF Config, StartInv
<1>2. Config
  BY DEF StartInv
<1>3. CASE Before
  <2>1. Untouched
    BY <1>3 DEF Before
  <2>2. CASE \E k \in 0..N : ArgsAt(k)
    BY <1>1, <1>2, <2>1, <2>2, ArgsStep DEF StartInv
  <2>3. CASE \E k \in 1..N : InfoAt(k)
    BY <1>1, <1>2, <2>1, <2>3, InfoStep DEF StartInv
  <2>4. CASE \E k \in 1..N : SetupAt(k)
    <3>1. PICK k \in 1..N : SetupAt(k)
      BY <2>4
    <3>2. CASE k = N /\ SetupAcked
      <4>1. \/ \E M, t : Rebuilding(M, t)'
            \/ \E M, v : Running(M, v, 0, 0, <<>>, 0)'
        BY <1>2, <2>1, <3>1, <3>2, SetupEnds
      <4>2. QED BY <1>1, <4>1 DEF StartInv
    <3>3. Before' \/ UNCHANGED vars \/ (k = N /\ SetupAcked)
      BY <1>2, <2>1, <3>1, SetupStep
    <3>4. QED BY <1>1, <3>2, <3>3 DEF StartInv
  <2>5. CASE GivenUp
    BY <2>1, <2>5, GivenUpStep
  <2>6. QED BY <1>3, <2>2, <2>3, <2>4, <2>5 DEF Before
<1>4. CASE \E M, t : Rebuilding(M, t)
  <2>1. PICK M, t : Rebuilding(M, t)
    BY <1>4
  <2>2. \/ \E U, x : Rebuilding(U, x)'
        \/ \E U, x : Running(U, x, 0, 0, <<>>, 0)'
        \/ UNCHANGED vars
    BY <1>2, <2>1, RebuildingStep
  <2>3. QED BY <1>1, <2>2 DEF StartInv
<1>5. CASE \E M, v, b, h, q, src : Running(M, v, b, h, q, src)
  <2>1. PICK M, v, b, h, q, src : Running(M, v, b, h, q, src)
    BY <1>5
  <2>2. \/ \E v2, b2, h2, q2, e : Running(M, v2, b2, h2, q2, e)'
        \/ UNCHANGED vars
    BY <2>1, RunningStep
  <2>3. QED BY <1>1, <2>2 DEF StartInv
<1>6. QED BY <1>3, <1>4, <1>5 DEF StartInv

LEMMA NothingHappens ==
  ASSUME StartupAssumption, StartInv, UNCHANGED vars
  PROVE  StartInv'
<1>1. /\ pc' = pc /\ chan' = chan /\ auto' = auto /\ port' = port
      /\ works' = works /\ conn' = conn /\ fwd' = fwd /\ sig' = sig
  BY DEF vars
<1>2. Config'
  BY <1>1 DEF StartInv, Config
<1>3. CASE Before
  <2>1. Untouched'
    BY <1>1, <1>3 DEF Before, Untouched
  <2>2. ASSUME NEW k PROVE ArgsAt(k) <=> ArgsAt(k)'
    BY <1>1 DEF ArgsAt
  <2>3. ASSUME NEW k PROVE InfoAt(k) <=> InfoAt(k)'
    BY <1>1 DEF InfoAt
  <2>4. ASSUME NEW k PROVE SetupAt(k) <=> SetupAt(k)'
    BY <1>1 DEF SetupAt
  <2>5. GivenUp <=> GivenUp'
    BY <1>1 DEF GivenUp
  <2>6. Before'
    BY <1>3, <2>1, <2>2, <2>3, <2>4, <2>5 DEF Before
  <2>7. QED BY <1>2, <2>6 DEF StartInv
<1>4. ASSUME NEW M, NEW t, Shape(M, t) PROVE Shape(M, t)'
  <2>1. RingOf(M, t)'
    BY <1>1, <1>4 DEF Shape, RingOf
  <2>2. Sockets(M, t)'
    BY <1>1, <1>4 DEF Shape, Sockets
  <2>3. Outside(M, t)'
    <3>1. Outside(M, t) /\ 0 \in M
      BY <1>4 DEF Shape, RingOf
    <3>2. QED BY <1>1, <3>1, OutsideFrame
  <2>4. QED BY <1>1, <1>4, <2>1, <2>2, <2>3 DEF Shape, Full
<1>5. CASE \E M, t : Rebuilding(M, t)
  <2>1. PICK M, t : Rebuilding(M, t)
    BY <1>5
  <2>2. Shape(M, t)'
    BY <1>4, <2>1 DEF Rebuilding
  <2>3. Rebuilding(M, t)'
    BY <1>1, <2>1, <2>2 DEF Rebuilding
  <2>4. QED BY <1>2, <2>3 DEF StartInv
<1>6. CASE \E M, v, b, h, q, src : Running(M, v, b, h, q, src)
  <2>1. PICK M, v, b, h, q, src : Running(M, v, b, h, q, src)
    BY <1>6
  <2>2. Shape(M, N)'
    BY <1>4, <2>1 DEF Running
  <2>3. Places(M, v, b, h)' /\ (sig' # {} => h = N + 1)
    BY <1>1, <2>1 DEF Running, Places, MemberPc, MasterPc
  <2>4. Running(M, v, b, h, q, src)'
    BY <1>1, <2>1, <2>2, <2>3, RunningFrame
  <2>5. QED BY <1>2, <2>4 DEF StartInv
<1>7. QED BY <1>3, <1>5, <1>6 DEF StartInv

(* What the devices are doing is one of these at any time, for any number  *)
(* of devices, whatever layers they are given and whichever connections    *)
(* can be made.                                                            *)
THEOREM StartupInvariant == ASSUME Numbered PROVE Spec => []StartInv
<1>1. Init => StartInv
  BY StartupAssumption, InitBefore DEF StartInv
<1>2. StartInv /\ [Next]_vars => StartInv'
  <2> SUFFICES ASSUME StartInv, [Next]_vars PROVE StartInv'
    OBVIOUS
  <2>1. CASE UNCHANGED vars
    BY StartupAssumption, <2>1, NothingHappens
  <2>2. QED BY StartupAssumption, <2>1, StartStep
<1>3. QED BY <1>1, <1>2, PTL DEF Spec

-----------------------------------------------------------------------------
(* The properties.                                                         *)
LEMMA FitsBefore ==
  ASSUME StartupAssumption, Before, NEW r \in Rank
  PROVE  ~Confused(r)
         /\ pc[r] \notin {"aborted", "exited", "lap", "closing", "hidden", "idle", "view"}
         /\ (pc[r] = "ready" => works = Rank)
<1>0. N \in Nat /\ N >= 2 /\ 0 \in Rank /\ At(N) = 0 /\ Rank = 0..N-1
  BY DEF StartupAssumption, Rank, At
<1>1. ASSUME NEW k \in 1..N, NEW m, chan = Only(k - 1, At(k), m), NEW s \in Rank,
             chan[<<s, r>>] # <<>>
      PROVE  r = At(k) /\ Head(chan[<<s, r>>]) = m
  <2> DEFINE p == k - 1
             t == At(k)
  <2>1. p \in Rank /\ t \in Rank
    BY <1>0 DEF At
  <2>2. chan = Only(p, t, m)
    BY <1>1
  <2> HIDE DEF p, t
  <2>3. r = t /\ Head(chan[<<s, r>>]) = m
    BY <1>1, <2>1, <2>2, OneMoves
  <2>4. QED BY <2>3 DEF t
<1>2. CASE \E k \in 0..N : ArgsAt(k)
  <2>1. PICK k \in 0..N : ArgsAt(k)
    BY <1>2
  <2>2. pc[r] = IF r = 0 THEN (IF k = 0 THEN "start" ELSE "ack args")
                ELSE IF r < k THEN (IF auto THEN "info" ELSE "setup") ELSE "args"
    BY <2>1 DEF ArgsAt
  <2>3. ASSUME NEW s \in Rank, chan[<<s, r>>] # <<>> PROVE Head(chan[<<s, r>>]).type \in Expected(r)
    <3> DEFINE m == IF k = N THEN Msg("ack", TRUE) ELSE Msg("args", auto)
    <3>1. k # 0
      BY <2>1, <2>3 DEF ArgsAt, Quiet
    <3>2. chan = Only(k - 1, At(k), m) /\ k \in 1..N
      <4>1. k \in 1..N
        BY <1>0, <3>1
      <4>2. chan = Only(k - 1, At(k), m)
        BY <2>1, <3>1 DEF ArgsAt
      <4>3. QED BY <4>1, <4>2
    <3>3. m.type = IF k = N THEN "ack" ELSE "args"
      BY DEF Msg
    <3> HIDE DEF m
    <3>4. r = At(k) /\ Head(chan[<<s, r>>]) = m
      BY <1>1, <2>3, <3>2
    <3>5. pc[r] = IF k = N THEN "ack args" ELSE "args"
      <4>1. CASE k = N
        <5>1. r = 0
          BY <3>4, <4>1 DEF At
        <5>2. QED BY <2>2, <3>1, <4>1, <5>1
      <4>2. CASE k # N
        <5>1. r = k /\ r # 0 /\ ~(r < k)
          BY <1>0, <3>1, <3>4, <4>2 DEF At
        <5>2. QED BY <2>2, <4>2, <5>1
      <4>3. QED BY <4>1, <4>2
    <3>6. QED BY <3>3, <3>4, <3>5 DEF Expected
  <2>4. ~Confused(r)
    BY <2>3 DEF Confused
  <2>5. QED BY <2>2, <2>4
<1>3. CASE \E k \in 1..N : InfoAt(k)
  <2>1. PICK k \in 1..N : InfoAt(k)
    BY <1>3
  <2>2. pc[r] = IF r = 0 THEN "infos" ELSE IF r < k THEN "setup" ELSE "info"
    BY <2>1 DEF InfoAt
  <2>3. ASSUME NEW s \in Rank, chan[<<s, r>>] # <<>> PROVE Head(chan[<<s, r>>]).type \in Expected(r)
    <3> DEFINE m == Msg("info", 0..k-1)
    <3>1. chan = Only(k - 1, At(k), m)
      BY <2>1 DEF InfoAt
    <3>2. m.type = "info"
      BY DEF Msg
    <3> HIDE DEF m
    <3>3. r = At(k) /\ Head(chan[<<s, r>>]) = m
      BY <1>1, <2>3, <3>1
    <3>4. pc[r] = IF k = N THEN "infos" ELSE "info"
      BY <1>0, <2>2, <3>3 DEF At
    <3>5. QED BY <3>2, <3>3, <3>4 DEF Expected
  <2>4. ~Confused(r)
    BY <2>3 DEF Confused
  <2>5. QED BY <2>2, <2>4
<1>4. CASE \E k \in 1..N : SetupAt(k)
  <2>1. PICK k \in 1..N : SetupAt(k)
    BY <1>4
  <2>2. /\ pc[r] = IF r = 0 THEN "ack setup"
                   ELSE IF r < k THEN (IF auto THEN "topo" ELSE "ready") ELSE "setup"
        /\ (~auto => works = Rank)
    BY <2>1 DEF SetupAt
  <2>3. ASSUME NEW s \in Rank, chan[<<s, r>>] # <<>> PROVE Head(chan[<<s, r>>]).type \in Expected(r)
    <3> DEFINE m == IF k = N THEN Msg("ack", TRUE) ELSE Msg("setup", works)
    <3>1. PICK n : n = m
      OBVIOUS
    <3>2. chan = Only(k - 1, At(k), n)
      BY <2>1, <3>1 DEF SetupAt
    <3>3. n.type = IF k = N THEN "ack" ELSE "setup"
      BY <3>1 DEF Msg
    <3> HIDE DEF m
    <3>4. r = At(k) /\ Head(chan[<<s, r>>]) = n
      BY <1>1, <2>3, <3>2
    <3>5. pc[r] = IF k = N THEN "ack setup" ELSE "setup"
      <4>1. CASE k = N
        <5>1. r = 0
          BY <3>4, <4>1 DEF At
        <5>2. QED BY <2>2, <4>1, <5>1
      <4>2. CASE k # N
        <5>1. r = k /\ r # 0 /\ ~(r < k)
          BY <1>0, <3>4, <4>2 DEF At
        <5>2. QED BY <2>2, <4>2, <5>1
      <4>3. QED BY <4>1, <4>2
    <3>6. QED BY <3>3, <3>4, <3>5 DEF Expected
  <2>4. ~Confused(r)
    BY <2>3 DEF Confused
  <2>5. QED BY <2>2, <2>4
<1>5. CASE GivenUp
  <2>1. pc[r] = IF r = 0 THEN "failed" ELSE "setup"
    BY <1>5 DEF GivenUp
  <2>2. \A s \in Rank : chan[<<s, r>>] = <<>>
    BY <1>5 DEF GivenUp, Quiet
  <2>3. QED BY <2>1, <2>2 DEF Confused
<1>6. QED BY <1>2, <1>3, <1>4, <1>5 DEF Before

(* What reaches a device outside of the new ring.                          *)
LEMMA FitsOutside ==
  ASSUME StartupAssumption, NEW M, NEW t, Shape(M, t), NEW r \in Rank \ M
  PROVE  ~Confused(r) /\ pc[r] \in {"topo", "exited"}
<1>1. pc[r] \in {"topo", "exited"}
  BY DEF Shape, Outside
<1>2. ASSUME NEW s \in Rank, chan[<<s, r>>] # <<>> PROVE Head(chan[<<s, r>>]).type \in Expected(r)
  <2>1. Told(M, t, s, r)
    BY <1>2 DEF Shape, Outside
  <2>2. PICK f \in SUBSET Rank : chan[<<s, r>>] = <<Msg("topo", f)>>
    BY <2>1 DEF Told
  <2> DEFINE m == Msg("topo", f)
  <2>3. Head(<<m>>) = m
    OBVIOUS
  <2>4. m.type = "topo"
    BY DEF Msg
  <2> HIDE DEF m
  <2>5. Head(chan[<<s, r>>]).type = "topo"
    BY <2>2, <2>3, <2>4 DEF m
  <2>6. pc[r] = "topo"
    BY <2>1 DEF Told
  <2>7. QED BY <2>5, <2>6 DEF Expected
<1>3. QED BY <1>1, <1>2 DEF Confused

LEMMA FitsRebuilding ==
  ASSUME StartupAssumption, NEW M, NEW t, Rebuilding(M, t), NEW r \in Rank
  PROVE  ~Confused(r) /\ pc[r] \in {"topo", "exited", "view"}
<1>0. N \in Nat /\ N >= 2 /\ Rank = 0..N-1
  BY DEF StartupAssumption, Rank
<1>1. /\ Shape(M, t) /\ pc[0] = "view"
      /\ \A m \in M \ {0} : pc[m] = IF m = t THEN "topo" ELSE "view"
  BY DEF Rebuilding
<1>2. CASE r \notin M
  BY <1>1, <1>2, FitsOutside
<1>3. CASE r \in M
  <2>1. pc[r] \in {"topo", "view"}
    BY <1>1, <1>3
  <2>2. ASSUME NEW s \in Rank, chan[<<s, r>>] # <<>> PROVE Head(chan[<<s, r>>]).type \in Expected(r)
    <3> DEFINE m == Msg("topo", IF t = N THEN M ELSE M \ {0})
    <3>1. chan[<<s, r>>] = <<m>>
      BY <1>3, <2>2 DEF Rebuilding
    <3>2. Head(<<m>>) = m
      OBVIOUS
    <3>3. m.type = "topo"
      BY DEF Msg
    <3> HIDE DEF m
    <3>4. QED BY <2>1, <3>1, <3>2, <3>3 DEF Expected
  <2>3. QED BY <2>1, <2>2 DEF Confused
<1>4. QED BY <1>2, <1>3

LEMMA FitsRunning ==
  ASSUME StartupAssumption, NEW M, NEW v, NEW b, NEW h, NEW q, NEW src, Running(M, v, b, h, q, src),
         NEW r \in Rank
  PROVE  ~Confused(r) /\ pc[r] # "aborted"
<1>0. N \in Nat /\ N >= 2 /\ Rank = 0..N-1
  BY DEF StartupAssumption, Rank
<1>1. /\ Shape(M, N) /\ Tokens(M, v, b, h) /\ Places(M, v, b, h)
      /\ Piles(M, v, b, h, q) /\ Returned(h, q, src)
  BY DEF Running
<1>2. Msg("topo", M).type = "topo" /\ Batch.type = "batch" /\ Msg("hidden", q).type = "hidden"
  BY DEF Msg, Batch
<1>3. CASE r \notin M
  BY <1>1, <1>3, FitsOutside
<1>4. CASE r = 0
  <2>1. pc[r] \in MasterPc(h)
    BY <1>1, <1>4 DEF Places
  <2>2. ASSUME NEW s \in Rank, chan[<<s, r>>] # <<>> PROVE Head(chan[<<s, r>>]).type \in Expected(r)
    <3> DEFINE m == Msg("hidden", q)
    <3>1. h = N /\ chan[<<s, r>>] = <<m>>
      BY <1>1, <1>4, <2>2 DEF Returned
    <3>2. Head(<<m>>) = m
      OBVIOUS
    <3>3. m.type = "hidden"
      BY <1>2
    <3> HIDE DEF m
    <3>4. pc[r] = "lap"
      BY <1>0, <2>1, <3>1 DEF MasterPc
    <3>5. QED BY <3>1, <3>2, <3>3, <3>4 DEF Expected
  <2>3. QED BY <2>1, <2>2 DEF Confused, MasterPc
<1>5. CASE r \in M \ {0}
  <2>1. pc[r] \in MemberPc(r, v, b, h)
    BY <1>1, <1>5 DEF Places
  <2>2. ASSUME NEW s \in Rank, chan[<<s, r>>] # <<>>, Expected(r) # {}
        PROVE Head(chan[<<s, r>>]).type \in Expected(r)
    <3> DEFINE hd == Head(chan[<<s, r>>])
    <3>1. /\ v = r \/ b = r \/ h = r
          /\ r \in Nat /\ v \in Nat /\ b \in Nat /\ h \in Nat
          /\ b = r => r <= v
          /\ h = r => r <= v /\ r <= b
      BY <1>5, <2>2, MemberIs
    <3>2. v = r => hd = Msg("topo", M)
      BY <1>1, <1>5, <2>2, MemberReads
    <3>3. v # r /\ b = r => hd = Batch
      BY <1>1, <1>5, <2>2, MemberReads
    <3>4. v # r /\ b # r => hd = Msg("hidden", q)
      BY <1>1, <1>5, <2>2, MemberReads
    <3> HIDE DEF hd
    <3>5. CASE v = r
      <4>1. v <= r
        BY <3>1, <3>5
      <4>2. pc[r] = "view"
        BY <2>1, <4>1 DEF MemberPc
      <4>3. QED BY <1>2, <3>2, <3>5, <4>2 DEF Expected, hd
    <3>6. CASE v # r /\ b = r
      <4>1. ~(v <= r) /\ b <= r
        BY <3>1, <3>6
      <4>2. r \in works => pc[r] = "ready"
        BY <2>1, <4>1 DEF MemberPc
      <4>3. r \notin works => pc[r] \in {"ready", "off"}
        BY <2>1, <4>1 DEF MemberPc
      <4>4. r \in works /\ r # 0
        BY <1>5, <2>2, <4>3 DEF Expected
      <4>5. QED BY <1>2, <3>3, <3>6, <4>2, <4>4 DEF Expected, hd
    <3>7. CASE v # r /\ b # r
      <4>1. ~(v <= r) /\ ~(b <= r) /\ h <= r
        BY <3>1, <3>7
      <4>2. r \in works => pc[r] = "hidden"
        BY <2>1, <4>1 DEF MemberPc
      <4>3. r \notin works => pc[r] \in {"ready", "off"}
        BY <2>1, <4>1 DEF MemberPc
      <4>4. r \in works
        BY <2>2, <4>3 DEF Expected
      <4>5. QED BY <1>2, <3>4, <3>7, <4>2, <4>4 DEF Expected, hd
    <3>8. QED BY <3>5, <3>6, <3>7
  <2>3. pc[r] # "aborted"
    BY <2>1 DEF MemberPc
  <2>4. QED BY <2>2, <2>3 DEF Confused
<1>6. QED BY <1>3, <1>4, <1>5

(* Nothing is read by a step it is not meant for, and no assertion of      *)
(* llama_rebuild_topo fails.                                               *)
THEOREM NoConfusionHolds == ASSUME Numbered PROVE Spec => []NoConfusion
<1>1. ASSUME StartInv PROVE NoConfusion
  <2> SUFFICES ASSUME NEW r \in Rank PROVE ~Confused(r) /\ pc[r] # "aborted"
    BY DEF NoConfusion
  <2>1. CASE Before
    BY StartupAssumption, <2>1, FitsBefore
  <2>2. CASE \E M, t : Rebuilding(M, t)
    <3>1. PICK M, t : Rebuilding(M, t)
      BY <2>2
    <3>2. ~Confused(r) /\ pc[r] \in {"topo", "exited", "view"}
      BY StartupAssumption, <3>1, FitsRebuilding
    <3>3. QED BY <3>2
  <2>3. CASE \E M, v, b, h, q, src : Running(M, v, b, h, q, src)
    BY StartupAssumption, <2>3, FitsRunning
  <2>4. QED BY <1>1, <2>1, <2>2, <2>3 DEF StartInv
<1>2. StartInv => NoConfusion
  BY <1>1
<1>3. QED BY <1>2, StartupInvariant, PTL

-----------------------------------------------------------------------------
(* The ranks that a device counts.                                         *)
LEMMA RanksDiffer ==
  ASSUME StartupAssumption, NEW M \in SUBSET Rank, 0 \in M, NEW r \in M, NEW s \in M,
         Members(r) = M, Members(s) = M
  PROVE  /\ UpdateRank(r) < NWorld(r)
         /\ r < s => UpdateRank(r) < UpdateRank(s)
<1>0. N \in Nat /\ Rank = 0..N-1
  BY DEF StartupAssumption, Rank
<1>1. IsFiniteSet(M)
  <2>1. IsFiniteSet(0..N-1)
    BY <1>0, FS_Interval
  <2>2. QED BY <1>0, <2>1, FS_Subset
<1> DEFINE A == {i \in M : 0 < i /\ i <= r}
           B == {i \in M : 0 < i /\ i <= s}
<1>2. UpdateRank(r) = Cardinality(A) /\ UpdateRank(s) = Cardinality(B) /\ NWorld(r) = Cardinality(M)
  BY DEF UpdateRank, NWorld
<1>3. A \subseteq M /\ B \subseteq M /\ 0 \notin A
  <2>1. ~(0 < 0)
    OBVIOUS
  <2>2. QED BY <2>1
<1>4. IsFiniteSet(B)
  <2> HIDE DEF A, B
  <2>1. QED BY <1>1, <1>3, FS_Subset
<1>5. r < s => A \subseteq B /\ s \in B /\ s \notin A
  <2> SUFFICES ASSUME r < s PROVE A \subseteq B /\ s \in B /\ s \notin A
    OBVIOUS
  <2>1. r \in Nat /\ s \in Nat /\ 0 < s /\ s <= s /\ ~(s <= r)
    BY <1>0
  <2>2. \A i \in M : i \in Nat
    BY <1>0
  <2>3. \A i \in M : i <= r => i <= s
    BY <2>1, <2>2
  <2>4. QED BY <2>1, <2>3
<1> HIDE DEF A, B
<1>6. Cardinality(A) < Cardinality(M)
  <2>1. Cardinality(A) <= Cardinality(M) /\ (Cardinality(A) = Cardinality(M) => A = M)
    BY <1>1, <1>3, FS_Subset
  <2>2. Cardinality(A) \in Nat /\ Cardinality(M) \in Nat
    <3>1. IsFiniteSet(A)
      BY <1>1, <1>3, FS_Subset
    <3>2. QED BY <1>1, <3>1, FS_CardinalityType
  <2>3. A # M
    BY <1>3
  <2>4. QED BY <2>1, <2>2, <2>3
<1>7. r < s => Cardinality(A) < Cardinality(B)
  <2> SUFFICES ASSUME r < s PROVE Cardinality(A) < Cardinality(B)
    OBVIOUS
  <2>1. Cardinality(A) <= Cardinality(B) /\ (Cardinality(A) = Cardinality(B) => A = B)
    BY <1>4, <1>5, FS_Subset
  <2>2. Cardinality(A) \in Nat /\ Cardinality(B) \in Nat
    <3>1. IsFiniteSet(A)
      BY <1>1, <1>3, FS_Subset
    <3>2. QED BY <1>4, <3>1, FS_CardinalityType
  <2>3. A # B
    BY <1>5
  <2>4. QED BY <2>1, <2>2, <2>3
<1>8. QED BY <1>2, <1>6, <1>7

LEMMA RankIsNat ==
  ASSUME StartupAssumption, NEW M \in SUBSET Rank, NEW r, Members(r) = M
  PROVE  UpdateRank(r) \in Nat
<1>0. N \in Nat /\ Rank = 0..N-1
  BY DEF StartupAssumption, Rank
<1> DEFINE A == {i \in M : 0 < i /\ i <= r}
<1>1. IsFiniteSet(0..N-1) /\ A \subseteq 0..N-1
  <2>1. 0 \in Int /\ N-1 \in Int
    BY <1>0
  <2>2. IsFiniteSet(0..N-1)
    BY <2>1, FS_Interval
  <2>3. A \subseteq 0..N-1
    BY <1>0
  <2>4. QED BY <2>2, <2>3
<1>2. UpdateRank(r) = Cardinality(A)
  BY DEF UpdateRank
<1> HIDE DEF A
<1>3. QED BY <1>1, <1>2, FS_Subset, FS_CardinalityType

(* Devices that are past the setup, and all of them have the same marks.   *)
LEMMA ReadyAgree ==
  ASSUME StartupAssumption, NEW M \in SUBSET Rank, 0 \in M,
         \A r \in Rank : pc[r] \in {"ready", "hidden", "idle", "lap", "closing"} =>
           r \in M /\ Members(r) = M,
         \A s \in Rank : pc[s] = "exited" => s \notin M
  PROVE  ViewsAgree
<1> DEFINE P == {"ready", "hidden", "idle", "lap", "closing"}
<1>1. N \in Nat /\ Rank = 0..N-1
  BY DEF StartupAssumption, Rank
<1> HIDE DEF P
<1>2. ASSUME NEW r \in Rank, pc[r] \in P, NEW s \in Rank
      PROVE  /\ r \in Members(r)
             /\ UpdateRank(r) < NWorld(r)
             /\ pc[s] \in P =>
                  /\ Members(s) = Members(r)
                  /\ r # s => UpdateRank(r) # UpdateRank(s)
             /\ pc[s] = "exited" => s \notin Members(r)
  <2>1. r \in M /\ Members(r) = M
    BY <1>2 DEF P
  <2>2. UpdateRank(r) < NWorld(r)
    BY <2>1, RanksDiffer
  <2>3. CASE pc[s] \in P
    <3>1. s \in M /\ Members(s) = M
      BY <2>3 DEF P
    <3>2. r \in Nat /\ s \in Nat
      BY <1>1
    <3>3. r < s => UpdateRank(r) < UpdateRank(s)
      BY <2>1, <3>1, RanksDiffer
    <3>4. s < r => UpdateRank(s) < UpdateRank(r)
      BY <2>1, <3>1, RanksDiffer
    <3>5. UpdateRank(r) \in Nat /\ UpdateRank(s) \in Nat
      BY <2>1, <3>1, RankIsNat
    <3>6. r # s => UpdateRank(r) # UpdateRank(s)
      BY <3>2, <3>3, <3>4, <3>5
    <3>7. pc[s] # "exited"
      BY <2>3 DEF P
    <3>8. QED BY <2>1, <2>2, <3>1, <3>6, <3>7
  <2>4. CASE pc[s] \notin P
    BY <2>1, <2>2, <2>4
  <2>5. QED BY <2>3, <2>4
<1>3. QED BY <1>2 DEF ViewsAgree, P

(* Every device that takes part numbers the ring like all others, and the  *)
(* devices that exited are in nobody's ring.                               *)
THEOREM ViewsAgreeHolds == ASSUME Numbered PROVE Spec => []ViewsAgree
<1>0. N \in Nat /\ N >= 2 /\ Rank = 0..N-1 /\ 0 \in Rank
  BY StartupAssumption DEF StartupAssumption, Rank
<1> DEFINE P == {"ready", "hidden", "idle", "lap", "closing"}
<1>1. ASSUME StartInv PROVE ViewsAgree
  <2>1. CASE Before
    <3>1. ASSUME NEW r \in Rank, pc[r] \in P PROVE Members(r) = Rank
      <4>1. works = Rank
        BY StartupAssumption, <2>1, <3>1, FitsBefore
      <4>2. Rank = {0} \cup {i \in 1..N-1 : i \in Rank}
        <5>1. \A i : i \in 0..N-1 <=> i = 0 \/ i \in 1..N-1
          BY <1>0
        <5>2. QED BY <1>0, <5>1
      <4>3. Members(r) = {0} \cup {i \in 1..N-1 : i \in Rank}
        <5>1. \A i \in 1..N-1 : i \in Rank
          BY <1>0
        <5>2. QED BY <4>1, <5>1 DEF Members, Stays
      <4>4. QED BY <4>2, <4>3
    <3>2. \A s \in Rank : pc[s] # "exited"
      BY StartupAssumption, <2>1, FitsBefore
    <3>3. QED BY StartupAssumption, <1>0, <3>1, <3>2, ReadyAgree
  <2>2. CASE \E M, t : Rebuilding(M, t)
    <3>1. PICK M, t : Rebuilding(M, t)
      BY <2>2
    <3>2. \A r \in Rank : pc[r] \in {"topo", "exited", "view"}
      BY StartupAssumption, <3>1, FitsRebuilding
    <3>3. \A r \in Rank : pc[r] \notin P
      BY <3>2
    <3>4. QED BY <3>3 DEF ViewsAgree
  <2>3. CASE \E M, v, b, h, q, src : Running(M, v, b, h, q, src)
    <3>1. PICK M, v, b, h, q, src : Running(M, v, b, h, q, src)
      BY <2>3
    <3>2. Shape(M, N) /\ Tokens(M, v, b, h) /\ Places(M, v, b, h) /\ Marks(M, v)
      BY <3>1 DEF Running
    <3>3. M \in SUBSET Rank /\ 0 \in M /\ \A r \in Rank \ M : pc[r] \in {"topo", "exited"}
      BY <3>2 DEF Shape, RingOf, Outside
    <3>4. v \in Nat /\ 0 < v
      <4>1. v \in (M \ {0}) \cup {N}
        BY <3>2 DEF Tokens
      <4>2. \A m \in M : m \in 0..N-1
        BY <1>0, <3>3
      <4>3. QED BY <1>0, <4>1, <4>2
    <3>5. ASSUME NEW r \in Rank, pc[r] \in P PROVE r \in M /\ Members(r) = M
      <4>1. r \in M
        BY <3>3, <3>5
      <4>2. r < v
        <5>1. CASE r = 0
          BY <3>4, <5>1
        <5>2. CASE r # 0
          <6>1. pc[r] \in MemberPc(r, v, b, h)
            BY <3>2, <4>1, <5>2 DEF Places
          <6>2. ~(v <= r)
            BY <3>5, <6>1 DEF MemberPc
          <6>3. QED BY <1>0, <3>4, <6>2
        <5>3. QED BY <5>1, <5>2
      <4>3. QED BY <3>2, <4>1, <4>2 DEF Marks
    <3>6. \A s \in Rank : pc[s] = "exited" => s \notin M
      BY <3>2 DEF Places, MasterPc, MemberPc
    <3>7. QED BY StartupAssumption, <3>3, <3>5, <3>6, ReadyAgree
  <2>4. QED BY <1>1, <2>1, <2>2, <2>3 DEF StartInv
<1>2. StartInv => ViewsAgree
  BY <1>1
<1>3. QED BY <1>2, StartupInvariant, PTL

(* The master gets the hidden state back when it was at every worker, once *)
(* and in the order of the layers.                                         *)
THEOREM LapIsCompleteHolds == ASSUME Numbered PROVE Spec => []LapIsComplete
<1>0. N \in Nat /\ N >= 2 /\ Rank = 0..N-1 /\ 0 \in Rank
  BY StartupAssumption DEF StartupAssumption, Rank
<1>1. ASSUME StartInv PROVE LapIsComplete
  <2> SUFFICES ASSUME NEW s \in Rank, pc[0] = "lap", chan[<<s, 0>>] # <<>>
               PROVE  LET seen == Head(chan[<<s, 0>>]).val
                      IN  /\ Len(seen) = Cardinality(works \ {0})
                          /\ {seen[i] : i \in 1..Len(seen)} = works \ {0}
                          /\ \A i \in 1..Len(seen) - 1 : seen[i] < seen[i + 1]
    BY DEF LapIsComplete
  <2>1. ~Before
    BY StartupAssumption, <1>0, FitsBefore
  <2>2. ASSUME NEW M, NEW t PROVE ~Rebuilding(M, t)
    BY StartupAssumption, <1>0, FitsRebuilding
  <2>3. PICK M, v, b, h, q, src : Running(M, v, b, h, q, src)
    BY <1>1, <2>1, <2>2 DEF StartInv
  <2>4. h = N /\ chan[<<s, 0>>] = <<Msg("hidden", q)>>
    BY <2>3 DEF Running, Returned
  <2>5. Head(chan[<<s, 0>>]).val = q
    <3> DEFINE m == Msg("hidden", q)
    <3>1. Head(<<m>>) = m
      OBVIOUS
    <3>2. m.val = q
      BY DEF Msg
    <3> HIDE DEF m
    <3>3. chan[<<s, 0>>] = <<m>>
      BY <2>4 DEF m
    <3>4. QED BY <3>1, <3>2, <3>3
  <2>6. Seen(q, N)
    BY <1>0, <2>3, <2>4 DEF Running
  <2>7. SeenBefore(N) = works \ {0}
    <3>1. works \subseteq Rank
      BY <2>3 DEF Running, Shape, RingOf
    <3>2. \A w \in works : w # 0 <=> 0 < w /\ w < N
      BY <1>0, <3>1
    <3>3. QED BY <3>2 DEF SeenBefore
  <2>8. QED BY <2>5, <2>6, <2>7 DEF Seen
<1>2. StartInv => LapIsComplete
  BY <1>1
<1>3. QED BY <1>2, StartupInvariant, PTL

=============================================================================
