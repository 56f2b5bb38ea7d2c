-------------------------------- MODULE Ndp --------------------------------
(***************************************************************************)
(* Neighbour discovery (ndp/ndp.cpp).  Clients send echoes to a server;    *)
(* whoever receives an echo lists its sender, and an entry that is not     *)
(* refreshed ages out.  Every process has one listener thread per time it  *)
(* was enabled, a timer thread, one neighbour list, and commands from its  *)
(* vtys that enable, disable and move it.  Nothing excludes the threads    *)
(* from each other, nor one command from another; the network loses and    *)
(* reorders datagrams.                                                     *)
(*                                                                         *)
(* A socket is the number of the enabling that made it.  close() does not  *)
(* wake a thread that waits in recvfrom: the thread keeps the socket, and  *)
(* with it the port, until a datagram comes.                               *)
(***************************************************************************)
EXTENDS Integers, Sequences, FiniteSets, SequencesExt

CONSTANTS
  Clients,    \* the processes with an ndp client
  Server,     \* the process with the ndp server
  Broadcast,  \* 255.255.255.255, which no process has
  Peers,      \* what a command may give a client for its peer
  Ports,      \* the ports a command may give the server, or a client for it
  Vtys,       \* the vtys of a process, each with one command at a time
  AgeTime,    \* NDP_AGE_TIME, in ticks of the timer
  EchoTime,   \* an echo is sent every so many ticks
  MaxEnables, \* bound: the sockets of the server
  ClientEnables, \* bound: those of a client
  MaxFaults   \* bound: failed calls of socket() or bind()

ASSUME ServerAssumption ==
  /\ Server \notin Clients /\ Broadcast \notin Clients \cup {Server}
  /\ Peers \subseteq Clients \cup {Server, Broadcast} /\ IsFiniteSet(Vtys)
ASSUME PortsAssumption == Ports # {} /\ Ports \subseteq Nat \ {0}
ASSUME TimesAssumption == AgeTime \in Nat \ {0} /\ EchoTime \in Nat \ {0}
ASSUME BoundsAssumption == 
  /\ MaxEnables \in Nat \ {0} /\ ClientEnables \in 1 .. MaxEnables
  /\ MaxFaults \in Nat

VARIABLES
  enabled,  \* g_ulNdpServerEnable, g_ulNdpClientEnable
  sock,     \* g_ndpServerSocket, g_ndpClientSocket; 0: INVALID_SOCKET, or
            \* the number of a closed socket
  open,     \* the sockets nobody has closed
  made,     \* how many sockets the process has made
  bound,    \* the port each socket is bound to; 0: none
  port,     \* g_ulNdpServerPort; for a client g_ulNdpPeerPort
  peer,     \* g_szNdpPeerIP of a client
  cut,      \* history: a socket was closed or dropped with the switch on
  cmd,      \* the next step of the command of each vty
  again,    \* it enables the process again when it has disabled it
  mine,     \* the socket it has made
  lpc,      \* the listener thread of each enabling
  on,       \* the socket its recvfrom waits on
  from,     \* the sender of the datagram it works on
  list,     \* g_ndp_neighbors_head
  loop,     \* ulLoop of the timer thread, modulo EchoTime
  net,      \* the echoes under way
  faults    \* failed calls so far

switch == <<enabled, cut>>
command == <<cmd, again, mine, faults>>
sockets == <<sock, open, made>>
config == <<port, peer>>
listeners == <<lpc, on, from>>
vars == <<switch, sockets, bound, config, command, listeners, list, loop, net>>

Procs == Clients \cup {Server}
Gens == 1 .. MaxEnables
BoundOf(p) == IF p = Server THEN MaxEnables ELSE ClientEnables
Addrs == [proc : Procs \cup {Broadcast}, port : Nat]
NoAddr == [proc |-> Server, port |-> 0]

Steps == {"none", "enable", "socket", "bind", "undo", "thread", "hello",
          "move", "disable", "close", "reset", "reopen"}

TypeOK ==
  /\ enabled \in [Procs -> BOOLEAN] /\ cut \in [Procs -> BOOLEAN]
  /\ made \in [Procs -> 0 .. MaxEnables]
  /\ sock \in [Procs -> 0 .. MaxEnables] /\ open \in [Procs -> SUBSET Gens]
  /\ \A p \in Procs : open[p] \subseteq 1 .. made[p] /\ sock[p] \in open[p] \cup {0}
  /\ bound \in [Procs -> [Gens -> Nat]]
  /\ port \in [Procs -> Ports] /\ peer \in [Clients -> Peers \cup {Broadcast}]
  /\ cmd \in [Procs -> [Vtys -> Steps]]
  /\ again \in [Procs -> [Vtys -> BOOLEAN]]
  /\ mine \in [Procs -> [Vtys -> 0 .. MaxEnables]]
  /\ lpc \in [Procs -> [Gens -> {"none", "check", "recv", "search", "update",
                                 "append", "ended"}]]
  /\ on \in [Procs -> [Gens -> Gens]]
  /\ from \in [Procs -> [Gens -> Addrs]]
  /\ list \in [Procs -> Seq([addr : Addrs, age : 1 .. AgeTime])]
  /\ loop \in [Procs -> 0 .. EchoTime - 1]
  /\ net \subseteq [src : Addrs, dst : Addrs]
  /\ faults \in 0 .. MaxFaults

-----------------------------------------------------------------------------
(* Sockets and the network.                                                *)

Waiting(p, g) == {t \in Gens : lpc[p][t] = "recv" /\ on[p][t] = g}

(* A socket lives, and keeps its port, while nobody has closed it or a     *)
(* thread waits on it.                                                     *)
Lives(p, g) == bound[p][g] # 0 /\ (g \in open[p] \/ Waiting(p, g) # {})

(* The address a datagram from the current socket of p carries.            *)
Self(p) == [proc |-> p, port |-> bound[p][sock[p]]]
Open(p) == sock[p] # 0 /\ bound[p][sock[p]] # 0

(* The port the system chooses for socket g: a number that stands for it.  *)
Chosen(g) == g

(* NDP_SendMsgEcho to the addresses of dsts, of which those of sent go     *)
(* out.  With an invalid socket NDP_SendMsg returns, as it does when an    *)
(* ioctl for the address of the card fails; sendto may fail.  To the       *)
(* broadcast address it always does, because nothing allows the socket to  *)
(* broadcast: the setsockopt of NDP_ClientEnable gives the size of a bool  *)
(* for an int and is refused.  The first sendto of a socket without a port *)
(* binds it to one the system chooses, whether it then fails or not.       *)
SendEcho(p, dsts, sent) ==
  /\ sent \subseteq {d \in dsts : d.proc # Broadcast}
  /\ sock[p] = 0 => sent = {}
  /\ IF sock[p] # 0 /\ bound[p][sock[p]] = 0 /\ dsts # {}
     THEN \/ bound' = [bound EXCEPT ![p][sock[p]] = Chosen(sock[p])]
          \/ sent = {} /\ UNCHANGED bound
     ELSE UNCHANGED bound
  /\ net' = net \cup {[src |-> [proc |-> p, port |-> bound'[p][sock[p]]], dst |-> d] : d \in sent}

Peer(c) == [proc |-> peer[c], port |-> port[c]]

Lose(m) ==
  /\ m \in net
  /\ net' = net \ {m}
  /\ UNCHANGED <<switch, sockets, bound, config, command, listeners, list, loop>>

-----------------------------------------------------------------------------
(* The neighbour list.                                                     *)

Index(l, a) == {i \in DOMAIN l : l[i].addr = a}
Lists(p, a) == Index(list[p], a) # {}
Fresh(a) == [addr |-> a, age |-> AgeTime]

(* Mutant: the sender is appended without a search.                        *)
SearchSkipped(p, t) ==
  /\ lpc[p][t] = "search"
  /\ lpc' = [lpc EXCEPT ![p][t] = "append"]
  /\ UNCHANGED <<switch, sockets, bound, config, command, on, from, list, loop, net>>

(* NDP_NeighborAdd: DL_SEARCH, then the update or the append.              *)
Search(p, t) ==
  /\ lpc[p][t] = "search"
  /\ lpc' = [lpc EXCEPT ![p][t] = IF Lists(p, from[p][t]) THEN "update" ELSE "append"]
  /\ UNCHANGED <<switch, sockets, bound, config, command, on, from, list, loop, net>>

Forget(p, t) ==
  /\ lpc' = [lpc EXCEPT ![p][t] = "check"]
  /\ from' = [from EXCEPT ![p][t] = NoAddr]

(* The entry that was found is refreshed.  When the timer or a disabling   *)
(* has freed it meanwhile, the write is lost.                              *)
Update(p, t) ==
  /\ lpc[p][t] = "update"
  /\ Forget(p, t)
  /\ LET found == Index(list[p], from[p][t]) IN
       IF found = {} THEN UNCHANGED list
       ELSE \E i \in found :
              /\ \A j \in found : i <= j
              /\ list' = [list EXCEPT ![p][i] = Fresh(from[p][t])]
  /\ UNCHANGED <<switch, sockets, bound, config, command, on, loop, net>>

AppendNew(p, t) ==
  /\ lpc[p][t] = "append"
  /\ Forget(p, t)
  /\ list' = [list EXCEPT ![p] = Append(@, Fresh(from[p][t]))]
  /\ UNCHANGED <<switch, sockets, bound, config, command, on, loop, net>>

-----------------------------------------------------------------------------
(* NDP_ServerListenThread and NDP_ClientListenThread: look at the switch,  *)
(* receive on the socket of that moment, work on the datagram, look again. *)

(* With no socket recvfrom fails and the thread looks again; on one that   *)
(* has no port yet it waits.                                               *)
Check(p, t) ==
  /\ lpc[p][t] = "check"
  /\ IF enabled[p]
     THEN /\ sock[p] # 0
          /\ lpc' = [lpc EXCEPT ![p][t] = "recv"]
          /\ on' = [on EXCEPT ![p][t] = sock[p]]
     ELSE lpc' = [lpc EXCEPT ![p][t] = "ended"] /\ UNCHANGED on
  /\ UNCHANGED <<switch, sockets, bound, config, command, from, list, loop, net>>

(* A datagram to the port of the socket, open or closed meanwhile.         *)
Receive(p, t) ==
  /\ lpc[p][t] = "recv"
  /\ \E m \in net :
       /\ m.dst = [proc |-> p, port |-> bound[p][on[p][t]]]
       /\ net' = net \ {m}
       /\ from' = [from EXCEPT ![p][t] = m.src]
  /\ lpc' = [lpc EXCEPT ![p][t] = "search"]
  /\ on' = [on EXCEPT ![p][t] = 1]
  /\ UNCHANGED <<switch, sockets, bound, config, command, list, loop>>

Listener(p, t) ==
  Check(p, t) \/ Receive(p, t) \/ Search(p, t) \/ Update(p, t) \/ AppendNew(p, t)

-----------------------------------------------------------------------------
(* NDP_TimerThread: a tick ages the neighbours (NDP_NeighborsAge), and     *)
(* every EchoTime ticks it sends an echo, a client to its peer, the server *)
(* to the neighbours that are left.                                        *)

Old(e) == e.age <= 1
Older(l) == [i \in DOMAIN l |-> [l[i] EXCEPT !.age = @ - 1]]

(* Mutant: an entry that has aged out is counted down once more.           *)
AgedKept(l) == Older(l)

(* Mutant: an entry stays at age 1.                                        *)
AgedNever(l) == [i \in DOMAIN l |-> [l[i] EXCEPT !.age = IF @ <= 1 THEN @ ELSE @ - 1]]

(* What stays of the first n entries.                                      *)
Kept(l) ==
  LET kept[n \in 0 .. Len(l)] ==
        IF n = 0 THEN <<>>
        ELSE IF Old(l[n]) THEN kept[n - 1] ELSE Append(kept[n - 1], l[n])
  IN kept
Aged(l) == Older(Kept(l)[Len(l)])

(* Mutant: only the server sends echoes.                                   *)
EchoDueServer(p) == loop[p] = 0 /\ enabled[p] /\ p = Server

EchoDue(p) == loop[p] = 0 /\ enabled[p]

Echoes(p, l) ==
  IF ~EchoDue(p) THEN {}
  ELSE IF p = Server THEN {e.addr : e \in Range(l)} ELSE {Peer(p)}

TickSending(p, sent) ==
  LET l == Aged(list[p]) IN
  /\ loop' = [loop EXCEPT ![p] = (@ + 1) % EchoTime]
  /\ list' = [list EXCEPT ![p] = l]
  /\ SendEcho(p, Echoes(p, l), sent)
  /\ UNCHANGED <<switch, sockets, config, command, listeners>>

Tick(p) == \E sent \in SUBSET Echoes(p, Aged(list[p])) : TickSending(p, sent)

(* No sendto fails that could succeed.                                     *)
TickSendingAll(p) ==
  LET due == {d \in Echoes(p, Aged(list[p])) : d.proc # Broadcast} IN
  TickSending(p, IF sock[p] = 0 THEN {} ELSE due)

-----------------------------------------------------------------------------
(* Enabling: NDP_SH_ServerEnable with NDP_ServerEnable, and the same of a  *)
(* client.  Two commands may both find the switch off.  The socket is read *)
(* from the global variable whenever it is needed, which may hold that of  *)
(* another command by then.                                                *)

Goes(p, v, step) == cmd' = [cmd EXCEPT ![p][v] = step]

(* Bound: there is room for the sockets the commands under way will make.  *)
WillMake(p, v) ==
  \/ cmd[p][v] \in {"enable", "socket", "move", "reopen"}
  \/ cmd[p][v] \in {"disable", "close", "reset"} /\ again[p][v]
Room(p) == made[p] + Cardinality({v \in Vtys : WillMake(p, v)}) < BoundOf(p)

Enable(p, v) ==
  /\ cmd[p][v] = "none" /\ ~enabled[p] /\ Room(p)
  /\ Goes(p, v, "enable")
  /\ UNCHANGED <<switch, sockets, bound, config, again, mine, faults, listeners, list, loop, net>>

SwitchOn(p, v) ==
  /\ cmd[p][v] = "enable"
  /\ enabled' = [enabled EXCEPT ![p] = TRUE]
  /\ Goes(p, v, "socket")
  /\ UNCHANGED <<cut, sockets, bound, config, again, mine, faults, listeners, list, loop, net>>

Socket(p, v) ==
  /\ cmd[p][v] = "socket"
  /\ made' = [made EXCEPT ![p] = @ + 1]
  /\ sock' = [sock EXCEPT ![p] = made'[p]]
  /\ open' = [open EXCEPT ![p] = @ \cup {made'[p]}]
  /\ mine' = [mine EXCEPT ![p][v] = made'[p]]
  /\ cut' = [cut EXCEPT ![p] = FALSE]
  /\ Goes(p, v, "bind")
  /\ UNCHANGED <<enabled, bound, config, again, faults, listeners, list, loop, net>>

SocketFails(p, v) ==
  /\ cmd[p][v] = "socket"
  /\ faults < MaxFaults /\ faults' = faults + 1
  /\ sock' = [sock EXCEPT ![p] = 0]
  /\ Goes(p, v, "undo")
  /\ UNCHANGED <<switch, open, made, bound, config, again, mine, listeners, list, loop, net>>

(* bind() takes a socket that has no port.  The port of a client is one    *)
(* the system chooses; that of the server must not be held by a socket     *)
(* that still lives.                                                       *)
PortFree(p) ==
  p = Server => \A g \in Gens : Lives(p, g) => bound[p][g] # port[p]
CanBind(p) == sock[p] # 0 /\ bound[p][sock[p]] = 0 /\ PortFree(p)

Bind(p, v) ==
  /\ cmd[p][v] = "bind" /\ CanBind(p)
  /\ bound' = [bound EXCEPT ![p][sock[p]] = IF p = Server THEN port[p] ELSE Chosen(sock[p])]
  /\ Goes(p, v, "thread")
  /\ UNCHANGED <<switch, sockets, config, again, mine, faults, listeners, list, loop, net>>

(* The server closes the socket, a client does not.                        *)
BindFails(p, v) ==
  /\ cmd[p][v] = "bind"
  /\ \/ ~CanBind(p) /\ UNCHANGED faults
     \/ faults < MaxFaults /\ faults' = faults + 1
  /\ IF p = Server
     THEN /\ open' = [open EXCEPT ![p] = @ \ {sock[p]}]
          /\ sock' = [sock EXCEPT ![p] = 0]
     ELSE UNCHANGED <<open, sock>>
  /\ mine' = [mine EXCEPT ![p][v] = 0]
  /\ Goes(p, v, "undo")
  /\ UNCHANGED <<switch, made, bound, config, again, listeners, list, loop, net>>

(* Mutant: the switch stays on.                                            *)
UndoForgotten(p, v) ==
  /\ cmd[p][v] = "undo"
  /\ Goes(p, v, "none")
  /\ UNCHANGED <<switch, sockets, bound, config, again, mine, faults, listeners, list, loop, net>>

(* The switch goes back.                                                   *)
Undo(p, v) ==
  /\ cmd[p][v] = "undo"
  /\ enabled' = [enabled EXCEPT ![p] = FALSE]
  /\ Goes(p, v, "none")
  /\ UNCHANGED <<cut, sockets, bound, config, again, mine, faults, listeners, list, loop, net>>

(* thread_create; its result is not looked at, and it is taken to succeed. *)
Thread(p, v) ==
  /\ cmd[p][v] = "thread"
  /\ lpc' = [lpc EXCEPT ![p][mine[p][v]] = "check"]
  /\ mine' = [mine EXCEPT ![p][v] = 0]
  /\ Goes(p, v, IF p = Server THEN "none" ELSE "hello")
  /\ UNCHANGED <<switch, sockets, bound, config, again, faults, on, from, list, loop, net>>

(* The client says hello at once.                                          *)
Hello(p, v) ==
  /\ cmd[p][v] = "hello"
  /\ Goes(p, v, "none")
  /\ \E sent \in SUBSET {Peer(p)} : SendEcho(p, {Peer(p)}, sent)
  /\ UNCHANGED <<switch, sockets, config, again, mine, faults, listeners, list, loop>>

-----------------------------------------------------------------------------
(* Disabling: NDP_ServerDisable, NDP_ClientDisable turn the switch off,    *)
(* sleep a second and close the socket, whichever it is by then.           *)

Disable(p, v) ==
  /\ cmd[p][v] = "none" /\ enabled[p]
  /\ Goes(p, v, "disable")
  /\ UNCHANGED <<switch, sockets, bound, config, again, mine, faults, listeners, list, loop, net>>

SwitchOff(p, v) ==
  /\ cmd[p][v] = "disable"
  /\ enabled' = [enabled EXCEPT ![p] = FALSE]
  /\ Goes(p, v, "close")
  /\ UNCHANGED <<cut, sockets, bound, config, again, mine, faults, listeners, list, loop, net>>

Close(p, v) ==
  /\ cmd[p][v] = "close"
  /\ open' = [open EXCEPT ![p] = @ \ {sock[p]}]
  /\ sock' = [sock EXCEPT ![p] = 0]
  /\ cut' = [cut EXCEPT ![p] = @ \/ (enabled[p] /\ sock[p] # 0)]
  /\ Goes(p, v, "reset")
  /\ UNCHANGED <<enabled, made, bound, config, again, mine, faults, listeners, list, loop, net>>

(* The socket becomes INVALID_SOCKET, even if another command has made a   *)
(* new one since the close.  The server forgets its neighbours, a client   *)
(* does not.  A change of port goes on with the enabling.                  *)
Reset(p, v) ==
  /\ cmd[p][v] = "reset"
  /\ sock' = [sock EXCEPT ![p] = 0]
  /\ cut' = [cut EXCEPT ![p] = @ \/ (enabled[p] /\ sock[p] # 0)]
  /\ list' = [list EXCEPT ![p] = IF p = Server THEN <<>> ELSE @]
  /\ again' = [again EXCEPT ![p][v] = FALSE]
  /\ Goes(p, v, IF again[p][v] THEN "reopen" ELSE "none")
  /\ UNCHANGED <<enabled, open, made, bound, config, mine, faults, listeners, loop, net>>

(* NDP_SetServerBindPort, and NDP_SetServerIPPort, which gives a client    *)
(* its peer too.  A process that is enabled is disabled and enabled again, *)
(* and each of the two looks at the switch once more.                      *)
SetPort(p, v, n, q) ==
  /\ cmd[p][v] = "none"
  /\ port' = [port EXCEPT ![p] = n]
  /\ peer' = IF p = Server THEN peer ELSE [peer EXCEPT ![p] = q]
  /\ IF enabled[p]
     THEN /\ Room(p)
          /\ Goes(p, v, "move") /\ again' = [again EXCEPT ![p][v] = TRUE]
     ELSE UNCHANGED <<cmd, again>>
  /\ UNCHANGED <<switch, sockets, bound, mine, faults, listeners, list, loop, net>>

Move(p, v) ==
  /\ cmd[p][v] = "move"
  /\ Goes(p, v, IF enabled[p] THEN "disable" ELSE "reopen")
  /\ again' = [again EXCEPT ![p][v] = enabled[p]]
  /\ UNCHANGED <<switch, sockets, bound, config, mine, faults, listeners, list, loop, net>>

Reopen(p, v) ==
  /\ cmd[p][v] = "reopen"
  /\ Goes(p, v, IF enabled[p] THEN "none" ELSE "enable")
  /\ UNCHANGED <<switch, sockets, bound, config, again, mine, faults, listeners, list, loop, net>>

Begin(p, v) ==
  \/ Enable(p, v) \/ Disable(p, v)
  \/ \E n \in Ports, q \in Peers : SetPort(p, v, n, q)
GoOn(p, v) ==
  \/ SwitchOn(p, v) \/ Socket(p, v) \/ SocketFails(p, v) \/ Bind(p, v) \/ BindFails(p, v)
  \/ Undo(p, v) \/ Thread(p, v) \/ (p # Server /\ Hello(p, v))
  \/ SwitchOff(p, v) \/ Close(p, v) \/ Reset(p, v) \/ Move(p, v) \/ Reopen(p, v)

-----------------------------------------------------------------------------

Init ==
  /\ enabled = [p \in Procs |-> FALSE] /\ cut = [p \in Procs |-> FALSE]
  /\ sock = [p \in Procs |-> 0] /\ made = [p \in Procs |-> 0]
  /\ open = [p \in Procs |-> {}]
  /\ bound = [p \in Procs |-> [g \in Gens |-> 0]]
  /\ \E n \in Ports : port = [p \in Procs |-> n]
  /\ peer = [c \in Clients |-> Broadcast]
  /\ cmd = [p \in Procs |-> [v \in Vtys |-> "none"]]
  /\ again = [p \in Procs |-> [v \in Vtys |-> FALSE]]
  /\ mine = [p \in Procs |-> [v \in Vtys |-> 0]]
  /\ lpc = [p \in Procs |-> [g \in Gens |-> "none"]]
  /\ on = [p \in Procs |-> [g \in Gens |-> 1]]
  /\ from = [p \in Procs |-> [g \in Gens |-> NoAddr]]
  /\ list = [p \in Procs |-> <<>>]
  /\ loop = [p \in Procs |-> 0]
  /\ net = {} /\ faults = 0

Next ==
  \/ \E p \in Procs, v \in Vtys : Begin(p, v) \/ GoOn(p, v)
  \/ \E p \in Procs, t \in Gens : Listener(p, t)
  \/ \E p \in Procs : Tick(p)
  \/ \E m \in net : Lose(m)

Spec == Init /\ [][Next]_vars

(* The threads that work and the timers take their steps, and a process    *)
(* goes on with some command that has begun: a command ends after a few    *)
(* steps, so none waits for ever.  sendto does not fail for ever where it  *)
(* can succeed, and the network loses what it likes but not everything     *)
(* that is sent again and again, and keeps nothing for ever.  Nothing is   *)
(* asked of the listeners of a client.                                     *)
Fairness ==
  /\ \A p \in Procs : WF_vars(Tick(p)) /\ WF_vars(\E v \in Vtys : GoOn(p, v))
  /\ \A c \in Clients : SF_vars(TickSendingAll(c))
  /\ \A t \in Gens :
       /\ SF_vars(Receive(Server, t))
       /\ WF_vars(Check(Server, t) \/ Search(Server, t) \/ Update(Server, t) \/ AppendNew(Server, t))
  /\ WF_vars(\E m \in net : Lose(m))

FairSpec == Spec /\ Fairness

-----------------------------------------------------------------------------
(* Properties.                                                             *)

(* A process that is enabled, with no command under way, hears its         *)
(* neighbours: its socket is open, and the thread of that socket works on  *)
(* a datagram, looks at the switch, or waits on this very socket, whatever *)
(* older threads, failed binds, changes of port and commands that overlap  *)
(* have left behind.  The exception is a socket that was closed or dropped *)
(* by a command which had turned the switch off and slept, when another    *)
(* one had turned it on again.                                             *)
Hears(p) ==
  /\ sock[p] \in Gens /\ Open(p)
  /\ \/ lpc[p][sock[p]] \in {"check", "search", "update", "append"}
     \/ lpc[p][sock[p]] = "recv" /\ on[p][sock[p]] = sock[p]
Idle(p) == \A v \in Vtys : cmd[p][v] = "none"
HasListener == \A p \in Procs : enabled[p] /\ Idle(p) => Hears(p) \/ cut[p]

(* A thread that outlived its socket and is woken after the process was    *)
(* enabled again works beside the new one, and both may append a sender    *)
(* that neither has found.  It never gets worse than one entry for each    *)
(* thread: with one thread no neighbour is listed twice.                   *)
EntryPerThread ==
  \A p \in Procs : \A e \in Range(list[p]) :
    Cardinality(Index(list[p], e.addr)) <= made[p]

(* A client and a server that stay enabled with their sockets on the same  *)
(* port find each other, if the client was given the server for its peer:  *)
(* the server lists the client again and again.                            *)
Up(p) == enabled[p] /\ Idle(p) /\ ~cut[p]
AliveListed ==
  \A c \in Clients :
    <>[](Up(c) /\ Up(Server) /\ peer[c] = Server /\ port[c] = port[Server])
      => []<>(Open(c) /\ Lists(Server, Self(c)))

(* Once one of the two is disabled for good the server forgets the client, *)
(* although a thread that outlived the disabling may list it once more.    *)
StaleGone ==
  \A c \in Clients :
    <>[](~enabled[c] \/ ~enabled[Server])
      => <>[](\A i \in DOMAIN list[Server] : list[Server][i].addr.proc # c)
=============================================================================
