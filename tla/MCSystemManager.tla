--------------------------- MODULE MCSystemManager ---------------------------
(* The command line and the system manager for TLC.  They share nothing that *)
(* the models keep, so a behaviour is one of the line of a telnet vty, or of *)
(* the packet listener, or of the commands its packets carry.  The one of a  *)
(* line ends with the first key that overruns a buffer.                      *)
EXTENDS CommandLine

CONSTANTS MaxSockets, MaxThreads, Backlog, MaxFaults, Packets, Main, MaxActive
ASSUME ListenerAssumption ==
  MaxSockets \in Nat /\ MaxThreads \in Nat /\ Backlog \in Nat /\ MaxFaults \in Nat

VARIABLES part
VARIABLES sListen, kind, queue, runing, lpc, on, timer, faults
VARIABLES buffer, view, lines, at, word, seen, saved, alone, ran, given

Listening == INSTANCE PacketListener
listenVars == <<sListen, kind, queue, runing, lpc, on, timer, faults>>

SavedConfig == <<"set", "diagnose-view", "set">>
Commands == INSTANCE NorthCommands WITH Config <- SavedConfig
commandVars == <<buffer, view, lines, at, word, seen, saved, alone, ran, given>>

Completions == {<<"a">>, <<"a", " ">>}

AllVars == <<part, vars, listenVars, commandVars>>

MCInit ==
  /\ part \in {"line", "listener", "commands"}
  /\ Init /\ Listening!Init /\ Commands!Init
ListenerStep(A) == part = "listener" /\ A /\ UNCHANGED <<part, vars, commandVars>>
MCNext ==
  \/ part = "line" /\ Next /\ UNCHANGED <<part, listenVars, commandVars>>
  \/ part = "line" /\ overrun /\ UNCHANGED AllVars
  \/ ListenerStep(Listening!Next)
  \/ part = "commands" /\ Commands!Next /\ UNCHANGED <<part, vars, listenVars>>

MCSpec ==
  /\ MCInit /\ [][MCNext]_AllVars
  /\ WF_AllVars(ListenerStep(Listening!Timer))
  /\ \A t \in 1 .. MaxThreads : WF_AllVars(ListenerStep(Listening!Listener(t)))

(* The type invariants of the three modules.                                 *)
PartsTypeOK == TypeOK /\ Listening!TypeOK /\ Commands!CommandTypeOK

(* Properties of PacketListener and NorthCommands, stated there.             *)
LeaksBounded == Listening!LeaksBounded
ListenerRecovers == part = "listener" => Listening!Recovers
AloneRunsItsLines == Commands!AloneRunsItsLines
=============================================================================
