------------------------------- MODULE MCNdp -------------------------------
(***************************************************************************)
(* Instances of Ndp for TLC.  The run has a part for each process, whose   *)
(* commands are given from all its vtys, move it and overlap as they like  *)
(* while the other processes only tick and listen, and a part "echoes", in *)
(* which all processes are given commands and the clients their peers.     *)
(***************************************************************************)
EXTENDS Ndp

VARIABLE part

FirstVty == CHOOSE v \in Vtys : TRUE
FirstPort == CHOOSE n \in Ports : TRUE

NoCommand(p, v) == cmd'[p][v] = "none"

(* Bounds of the part of one process: the clients keep the broadcast       *)
(* address they have at the start.                                         *)
CommandsOf(p) ==
  /\ \A q \in Procs \ {p}, v \in Vtys : NoCommand(q, v)
  /\ UNCHANGED peer

(* Bounds of "echoes": the commands of a process come from one vty, no     *)
(* call fails, no process moves while it is enabled, a server that was     *)
(* enabled again stays so, and a client is enabled once, with the server   *)
(* for its peer, which it keeps.                                           *)
Echoing ==
  /\ \A p \in Procs : cmd'[p][FirstVty] # "move"
  /\ \A p \in Procs, v \in Vtys \ {FirstVty} : NoCommand(p, v)
  /\ cmd'[Server][FirstVty] = "disable" => made[Server] = 1
  /\ \A c \in Clients :
       /\ cmd'[c][FirstVty] = "enable" => made[c] = 0 /\ peer[c] = Server
       /\ peer'[c] = peer[c] \/ (made[c] = 0 /\ Idle(c))
  /\ faults' = 0

MCInit ==
  /\ Init /\ \A p \in Procs : port[p] = FirstPort
  /\ part \in Procs \cup {"echoes"}

MCNext ==
  /\ Next
  /\ part # Server => UNCHANGED port
  /\ IF part = "echoes" THEN Echoing ELSE CommandsOf(part)
  /\ UNCHANGED part

MCSpec == MCInit /\ [][MCNext]_<<vars, part>> /\ Fairness
=============================================================================
