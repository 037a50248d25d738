--------------------------- MODULE MCRingStartup ---------------------------
(* Instances of RingStartup: every rank on a machine of its own.           *)
EXTENDS RingStartup

OwnHost == [r \in Rank |-> r]
SamePort == [r \in Rank |-> 0]

(* All ports equal, which is the default: only the master is reached       *)
(* directly.  The scheme in the message of try_connect: only the master    *)
(* reaches others.  And two in which ranks in the middle reach others.     *)
MCDataPorts ==
  { [r \in Rank |-> 0],
    [r \in Rank |-> r],
    [r \in Rank |-> IF r = 1 THEN 0 ELSE r],
    [r \in Rank |-> IF r <= 2 THEN 0 ELSE r] }

(* All ranks on one machine.                                               *)
OneHost == [r \in Rank |-> 0]
OwnPort == {[r \in Rank |-> r]}
OwnSignalPort == [r \in Rank |-> r]
=============================================================================
