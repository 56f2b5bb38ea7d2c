----------------------------- MODULE FtpServer -----------------------------
(***************************************************************************)
(* The sockets of the ftp server (ftp/ftp_server.cpp).  A listener thread  *)
(* is started whenever the server is enabled or moved to another port or   *)
(* source; it accepts connections and starts a thread for each, to which   *)
(* it hands the address of its own variable.  All threads of the process   *)
(* share one table of descriptors, and a descriptor that was closed is     *)
(* given to the next file that is opened.                                  *)
(*                                                                         *)
(* close() does not wake a thread that waits in accept or recv: the thread *)
(* keeps the file, and with a listening socket its port.                   *)
(***************************************************************************)
EXTENDS Integers, FiniteSets

CONSTANTS
  Conns,      \* the connections clients may make
  MaxFd,      \* the largest descriptor of the process
  Ports,      \* the ports a command may give the server
  MaxListens, \* bound: how many listening sockets are made
  MaxPasv,    \* bound: how many PASV commands the sessions run
  MaxFaults   \* bound: failed calls of socket(), bind() or accept()

ASSUME PortsAssumption == Ports # {} /\ Ports \subseteq Nat
ASSUME BoundsAssumption ==
  MaxFd \in Nat \ {0} /\ MaxListens \in Nat \ {0} /\ MaxPasv \in Nat /\ MaxFaults \in Nat

VARIABLES
  table,    \* the file behind each descriptor of the process
  enabled,  \* g_ulFtpEnable
  sock,     \* g_sFtpListenSocket, a descriptor
  port,     \* g_Ftpsockport
  made,     \* how many listening sockets were made
  portOf,   \* the port of each
  cmd,      \* the step of the command in progress
  old,      \* its portOld
  lpc,      \* the listener thread of each listening socket
  on,       \* the socket its accept waits on
  sClient,  \* its variable sClient
  pend,     \* the socket in whose backlog a connection is
  gone,     \* the clients that have left
  spc,      \* the session thread started for each connection
  by,       \* the listener that started it
  own,      \* history: until it has started, the descriptor of its connection
  overtaken,\* history: the sessions that found another descriptor in sClient
  lSockCtrl,\* the descriptor it works on
  reads,    \* the connection its recv waits on
  waits,    \* the listening socket its accept has got hold of, or 0
  lSockPasv,\* its passive socket
  passive,  \* how many PASV commands were run
  cut,      \* history: listening sockets that a session closed
  faults    \* failed calls so far

server == <<enabled, sock, port, made, portOf, cmd, old>>
listeners == <<lpc, on, sClient>>
clients == <<pend, gone>>
work == <<reads, waits, lSockPasv, passive>>
sessions == <<spc, by, own, overtaken, lSockCtrl, work>>
vars == <<table, server, listeners, clients, sessions, cut, faults>>

Gens == 1 .. MaxListens
Fds == 0 .. MaxFd
INVALID_SOCKET == -1
Handles == Fds \cup {INVALID_SOCKET}

Free == [kind |-> "free"]
Console == [kind |-> "console"]
Listening(g) == [kind |-> "listen", gen |-> g]
Conn(c) == [kind |-> "conn", conn |-> c]
Passive(c) == [kind |-> "passive", conn |-> c]
Files ==
  {Free, Console} \cup {Listening(g) : g \in Gens}
    \cup {Conn(c) : c \in Conns} \cup {Passive(c) : c \in Conns}

TypeOK ==
  /\ table \in [Fds -> Files]
  /\ enabled \in BOOLEAN
  /\ sock \in Handles
  /\ port \in Ports /\ old \in Ports
  /\ made \in 0 .. MaxListens
  /\ portOf \in [Gens -> Ports]
  /\ cmd \in {"none", "enable", "move", "back", "thread"}
  /\ lpc \in [Gens -> {"none", "check", "accept", "ended"}]
  /\ on \in [Gens -> Gens]
  /\ sClient \in [Gens -> Handles]
  /\ pend \in [Conns -> 0 .. MaxListens]
  /\ gone \subseteq Conns
  /\ spc \in [Conns -> {"none", "start", "welcome", "check", "recv", "list", "stor",
                        "close", "ended", "unwelcome"}]
  /\ by \in [Conns -> Gens]
  /\ own \in [Conns -> Handles]
  /\ overtaken \subseteq Conns
  /\ lSockCtrl \in [Conns -> Handles]
  /\ reads \in [Conns -> SUBSET Conns]
  /\ waits \in [Conns -> 0 .. MaxListens]
  /\ lSockPasv \in [Conns -> Handles]
  /\ passive \in 0 .. MaxPasv
  /\ cut \subseteq Gens
  /\ faults \in 0 .. MaxFaults

-----------------------------------------------------------------------------
(* Descriptors and sockets.                                                *)

File(n) == IF n \in Fds THEN table[n] ELSE Free

(* The descriptor the next file gets: the lowest that is free.             *)
Lowest(n) ==
  /\ n \in Fds /\ table[n] = Free
  /\ \A m \in Fds : table[m] = Free => n <= m
FdsLeft == \E n \in Fds : table[n] = Free

(* closesocket: nothing happens with a descriptor that is not open.        *)
Closed(n) == IF n \in Fds THEN [table EXCEPT ![n] = Free] ELSE table

(* A listening socket lives while a descriptor stands for it or a thread   *)
(* waits in accept on it.                                                  *)
Lives(g) ==
  \/ \E n \in Fds : table[n] = Listening(g)
  \/ \E t \in Gens : lpc[t] = "accept" /\ on[t] = g
  \/ \E c \in Conns : waits[c] = g

(* bind with SO_REUSEADDR: no other socket listens on the port.  The       *)
(* address is always INADDR_ANY, whatever the source.                      *)
PortFree == \A g \in Gens : Lives(g) => portOf[g] # port

Fault == faults < MaxFaults /\ faults' = faults + 1

-----------------------------------------------------------------------------
(* The commands, one at a time.                                            *)

(* FTPS_SH_Enable: the switch, and then FTPS_Enable.                       *)
Enable ==
  /\ cmd = "none" /\ ~enabled /\ made < MaxListens
  /\ enabled' = TRUE
  /\ cmd' = "enable"
  /\ UNCHANGED <<table, sock, port, made, portOf, old, listeners, clients, sessions, cut, faults>>

(* FTP_SOCK_Create succeeds.                                               *)
Open ==
  /\ cmd \in {"enable", "move", "back"} /\ PortFree
  /\ \E n \in Fds :
       /\ Lowest(n)
       /\ table' = [table EXCEPT ![n] = Listening(made + 1)]
       /\ sock' = n
  /\ made' = made + 1
  /\ portOf' = [portOf EXCEPT ![made + 1] = port]
  /\ cmd' = "thread"
  /\ UNCHANGED <<enabled, port, old, listeners, clients, sessions, cut, faults>>

(* It fails.  FTPS_SH_Enable gives up; FTPS_SH_SetPort and                 *)
(* FTPS_SH_SetSource go back to the old value, try once more, and leave    *)
(* the switch alone.                                                       *)
OpenFails ==
  /\ cmd \in {"enable", "move", "back"}
  /\ \/ Fault
     \/ (~PortFree \/ ~FdsLeft) /\ UNCHANGED faults
  /\ sock' = INVALID_SOCKET
  /\ enabled' = (enabled /\ cmd # "enable")
  /\ port' = IF cmd = "move" THEN old ELSE port
  /\ cmd' = IF cmd = "move" THEN "back" ELSE "none"
  /\ UNCHANGED <<table, made, portOf, old, listeners, clients, sessions, cut>>

(* Mutant: a listener is started only when none is left.                   *)
ThreadIfNone ==
  /\ cmd = "thread"
  /\ lpc' = IF \A g \in Gens : lpc[g] \in {"none", "ended"}
            THEN [lpc EXCEPT ![made] = "check"] ELSE lpc
  /\ cmd' = "none"
  /\ UNCHANGED <<table, enabled, sock, port, made, portOf, old, on, sClient, clients,
                 sessions, cut, faults>>

(* thread_create(FTPS_ListenThread); it is taken to succeed.               *)
Thread ==
  /\ cmd = "thread"
  /\ lpc' = [lpc EXCEPT ![made] = "check"]
  /\ cmd' = "none"
  /\ UNCHANGED <<table, enabled, sock, port, made, portOf, old, on, sClient, clients,
                 sessions, cut, faults>>

(* FTPS_Disable: what g_sFtpListenSocket stands for is closed, 0 before    *)
(* the server was ever enabled.                                            *)
Shut == table' = Closed(sock) /\ sock' = INVALID_SOCKET

(* Mutant: the port is forgotten with the socket.                          *)
DisableForgetsPort ==
  /\ cmd = "none" /\ enabled
  /\ enabled' = FALSE
  /\ Shut
  /\ port' = 0
  /\ UNCHANGED <<made, portOf, cmd, old, listeners, clients, sessions, cut, faults>>

Disable ==
  /\ cmd = "none" /\ enabled
  /\ enabled' = FALSE
  /\ Shut
  /\ UNCHANGED <<port, made, portOf, cmd, old, listeners, clients, sessions, cut, faults>>

(* FTPS_SH_SetPort and FTPS_SH_SetSource; a change of source leaves the    *)
(* port as it is.                                                          *)
Move(n) ==
  /\ cmd = "none" /\ (enabled => made < MaxListens)
  /\ Shut
  /\ port' = n /\ old' = port
  /\ cmd' = IF enabled THEN "move" ELSE "none"
  /\ UNCHANGED <<enabled, made, portOf, listeners, clients, sessions, cut, faults>>

Command == Enable \/ Open \/ OpenFails \/ Thread \/ Disable \/ \E n \in Ports : Move(n)

-----------------------------------------------------------------------------
(* FTPS_ListenThread.                                                      *)

(* Without a socket that listens accept fails, sClient becomes             *)
(* INVALID_SOCKET and the loop goes on.                                    *)
Look(g) ==
  /\ lpc[g] = "check"
  /\ IF ~enabled
     THEN lpc' = [lpc EXCEPT ![g] = "ended"] /\ UNCHANGED <<on, sClient>>
     ELSE IF File(sock).kind = "listen"
          THEN /\ lpc' = [lpc EXCEPT ![g] = "accept"]
               /\ on' = [on EXCEPT ![g] = File(sock).gen]
               /\ UNCHANGED sClient
          ELSE /\ sClient' = [sClient EXCEPT ![g] = INVALID_SOCKET]
               /\ UNCHANGED <<lpc, on>>
  /\ UNCHANGED <<table, server, clients, sessions, cut, faults>>

(* accept returns a connection and thread_create starts its session: no    *)
(* other thread sees anything in between.                                  *)
Accept(g, c) ==
  /\ lpc[g] = "accept" /\ pend[c] = on[g]
  /\ \E n \in Fds :
       /\ Lowest(n)
       /\ table' = [table EXCEPT ![n] = Conn(c)]
       /\ sClient' = [sClient EXCEPT ![g] = n]
       /\ own' = [own EXCEPT ![c] = n]
  /\ pend' = [pend EXCEPT ![c] = 0]
  /\ spc' = [spc EXCEPT ![c] = "start"]
  /\ by' = [by EXCEPT ![c] = g]
  /\ lpc' = [lpc EXCEPT ![g] = "check"] /\ on' = [on EXCEPT ![g] = 1]
  /\ UNCHANGED <<server, gone, overtaken, lSockCtrl, work, cut, faults>>

AcceptFails(g) ==
  /\ lpc[g] = "accept"
  /\ \/ Fault
     \/ ~FdsLeft /\ UNCHANGED faults
  /\ sClient' = [sClient EXCEPT ![g] = INVALID_SOCKET]
  /\ lpc' = [lpc EXCEPT ![g] = "check"] /\ on' = [on EXCEPT ![g] = 1]
  /\ UNCHANGED <<table, server, clients, sessions, cut>>

Listener(g) == Look(g) \/ AcceptFails(g) \/ \E c \in Conns : Accept(g, c)

-----------------------------------------------------------------------------
(* FTPS_UserThread and FTPS_Run.                                           *)

Goto(c, where) == spc' = [spc EXCEPT ![c] = where]

(* A session closes a descriptor, whatever that stands for by now.         *)
CloseFd(n) ==
  /\ table' = Closed(n)
  /\ cut' = cut \cup {g \in Gens : File(n) = Listening(g)}

IsConn(n) == File(n).kind = "conn"

(* The variable of the listener is read: it may be another connection's by *)
(* now, or INVALID_SOCKET.  The stack of a listener that has ended stays,  *)
(* as nobody joins it.  A value that no thread will read is forgotten.     *)
Start(c) ==
  /\ spc[c] = "start"
  /\ sClient' = IF \E d \in Conns \ {c} : spc[d] = "start" /\ by[d] = by[c]
                THEN sClient ELSE [sClient EXCEPT ![by[c]] = INVALID_SOCKET]
  /\ by' = [by EXCEPT ![c] = 1]
  /\ lSockCtrl' = [lSockCtrl EXCEPT ![c] = sClient[by[c]]]
  /\ overtaken' = IF sClient[by[c]] = own[c] THEN overtaken ELSE overtaken \cup {c}
  /\ own' = [own EXCEPT ![c] = INVALID_SOCKET]
  /\ Goto(c, "welcome")
  /\ UNCHANGED <<table, server, lpc, on, clients, work, cut, faults>>

(* The welcome: when it cannot be sent the thread ends and closes nothing. *)
Welcome(c) ==
  /\ spc[c] = "welcome"
  /\ \/ /\ IsConn(lSockCtrl[c])
        /\ Goto(c, "check") /\ UNCHANGED lSockCtrl
     \/ /\ IsConn(lSockCtrl[c]) => File(lSockCtrl[c]).conn \in gone
        /\ Goto(c, "unwelcome")
        /\ lSockCtrl' = [lSockCtrl EXCEPT ![c] = INVALID_SOCKET]
  /\ UNCHANGED <<table, server, listeners, clients, by, own, overtaken, work, cut, faults>>

(* The loop of FTPS_Run: recv waits on a connection and fails on anything  *)
(* else.                                                                   *)
Check(c) ==
  /\ spc[c] = "check"
  /\ IF enabled /\ IsConn(lSockCtrl[c])
     THEN Goto(c, "recv") /\ reads' = [reads EXCEPT ![c] = {File(lSockCtrl[c]).conn}]
     ELSE Goto(c, "close") /\ UNCHANGED reads
  /\ UNCHANGED <<table, server, listeners, clients, by, own, overtaken, lSockCtrl,
                 waits, lSockPasv, passive, cut, faults>>

(* What recv brings is handled at once: nobody sees the difference.  A     *)
(* client that has left may have sent commands before.                     *)
Received(c, next) ==
  /\ spc[c] = "recv"
  /\ reads' = [reads EXCEPT ![c] = {}]
  /\ Goto(c, next)
  /\ UNCHANGED <<server, listeners, clients, by, own, overtaken, lSockCtrl, faults>>

(* Mutant: the end of the connection is taken for an empty command.        *)
RecvEndUnseen(c) ==
  /\ \E d \in reads[c] : d \in gone
  /\ Received(c, "check")
  /\ UNCHANGED <<table, waits, lSockPasv, passive, cut>>

RecvEnd(c) ==
  /\ \E d \in reads[c] : d \in gone
  /\ Received(c, "close")
  /\ UNCHANGED <<table, waits, lSockPasv, passive, cut>>

(* A command that leaves the sockets alone, an unknown one included.  So   *)
(* do RETR, and LIST and STOR in port mode: their data connection is one   *)
(* to the client, opened and closed on the way.                            *)
RunOther(c) ==
  /\ Received(c, "check")
  /\ UNCHANGED <<table, waits, lSockPasv, passive, cut>>

(* The user is authenticated anew before every command but USER and PASS.  *)
RunUnauthorised(c) ==
  /\ Received(c, "close")
  /\ UNCHANGED <<table, waits, lSockPasv, passive, cut>>

(* QUIT closes the connection, and the loop goes on with it.               *)
RunQuit(c) ==
  /\ Received(c, "check")
  /\ CloseFd(lSockCtrl[c])
  /\ UNCHANGED <<waits, lSockPasv, passive>>

(* PASV: the passive socket there may be already stays open.               *)
RunPasv(c) ==
  /\ Received(c, "check")
  /\ passive < MaxPasv /\ passive' = passive + 1
  /\ \/ \E n \in Fds :
          /\ Lowest(n)
          /\ table' = [table EXCEPT ![n] = Passive(c)]
          /\ lSockPasv' = [lSockPasv EXCEPT ![c] = n]
     \/ lSockPasv' = [lSockPasv EXCEPT ![c] = INVALID_SOCKET] /\ UNCHANGED table
  /\ UNCHANGED <<waits, cut>>

(* A passive number that is closed is given up, whatever it stood for.     *)
GiveUpPasv(c) ==
  /\ CloseFd(lSockPasv[c])
  /\ lSockPasv' = [lSockPasv EXCEPT ![c] = INVALID_SOCKET]

(* LIST and STOR in passive mode wait in accept for the data connection,   *)
(* on whatever the number of the passive socket stands for by now: the     *)
(* passive socket of another session, the listening socket, or nothing     *)
(* that listens, with which accept fails and the number is closed.         *)
Transfer(c, next) ==
  /\ lSockPasv[c] # INVALID_SOCKET
  /\ LET f == File(lSockPasv[c]) IN
       IF f.kind \in {"listen", "passive"}
       THEN /\ Received(c, next)
            /\ waits' = [waits EXCEPT ![c] = IF f.kind = "listen" THEN f.gen ELSE 0]
            /\ UNCHANGED <<table, cut, lSockPasv>>
       ELSE Received(c, "check") /\ GiveUpPasv(c) /\ UNCHANGED waits
  /\ UNCHANGED passive

RunList(c) == Transfer(c, "list")
RunStor(c) == Transfer(c, "stor")

Run(c) ==
  RunOther(c) \/ RunUnauthorised(c) \/ RunQuit(c) \/ RunPasv(c) \/ RunList(c) \/ RunStor(c)

(* The transfer is over: nothing is kept of its data connection.           *)
Resume(c) ==
  /\ Goto(c, "check")
  /\ waits' = [waits EXCEPT ![c] = 0]
  /\ UNCHANGED <<server, listeners, gone, by, own, overtaken, lSockCtrl, reads, passive>>

(* accept gives the data connection: with a listening socket a client from *)
(* its backlog, whose connection ends with the transfer.  STOR closes the  *)
(* passive socket then, LIST leaves it open.                               *)
Transferred(c) ==
  /\ spc[c] \in {"list", "stor"} /\ FdsLeft
  /\ IF waits[c] = 0 THEN UNCHANGED pend
     ELSE \E d \in Conns : pend[d] = waits[c] /\ pend' = [pend EXCEPT ![d] = 0]
  /\ IF spc[c] = "stor" THEN GiveUpPasv(c) ELSE UNCHANGED <<table, cut, lSockPasv>>
  /\ Resume(c)
  /\ UNCHANGED faults

(* accept fails, and either closes the passive socket.                     *)
TransferFails(c) ==
  /\ spc[c] \in {"list", "stor"}
  /\ \/ Fault
     \/ ~FdsLeft /\ UNCHANGED faults
  /\ GiveUpPasv(c)
  /\ Resume(c)
  /\ UNCHANGED pend

Leave(c) ==
  /\ Goto(c, "ended")
  /\ lSockCtrl' = [lSockCtrl EXCEPT ![c] = INVALID_SOCKET]
  /\ lSockPasv' = [lSockPasv EXCEPT ![c] = INVALID_SOCKET]
  /\ UNCHANGED <<server, listeners, clients, by, own, overtaken, reads, waits, passive,
                 faults>>

(* Mutant: nothing is closed once the server is disabled.                  *)
CloseIfEnabled(c) ==
  /\ spc[c] = "close"
  /\ IF enabled THEN CloseFd(lSockCtrl[c]) ELSE UNCHANGED <<table, cut>>
  /\ Leave(c)

(* The end of FTPS_Run; the passive socket stays open.                     *)
Close(c) ==
  /\ spc[c] = "close"
  /\ CloseFd(lSockCtrl[c])
  /\ Leave(c)

Session(c) ==
  \/ Start(c) \/ Welcome(c) \/ Check(c) \/ RecvEnd(c) \/ Run(c)
  \/ Transferred(c) \/ TransferFails(c) \/ Close(c)

-----------------------------------------------------------------------------
(* The clients.                                                            *)

(* A client connects to a socket that lives: it waits in the backlog.      *)
Connect(c) ==
  /\ spc[c] = "none" /\ pend[c] = 0 /\ c \notin gone
  /\ \E g \in Gens : Lives(g) /\ pend' = [pend EXCEPT ![c] = g]
  /\ UNCHANGED <<table, server, listeners, gone, sessions, cut, faults>>

Depart(c) ==
  /\ c \notin gone /\ (pend[c] # 0 \/ spc[c] # "none")
  /\ gone' = gone \cup {c}
  /\ UNCHANGED <<table, server, listeners, pend, sessions, cut, faults>>

Client(c) == Connect(c) \/ Depart(c)

-----------------------------------------------------------------------------

Init ==
  /\ table = [n \in Fds |-> IF n = 0 THEN Console ELSE Free]
  /\ enabled = FALSE /\ sock = 0 /\ made = 0
  /\ \E n \in Ports : port = n /\ old = n /\ portOf = [g \in Gens |-> n]
  /\ cmd = "none"
  /\ lpc = [g \in Gens |-> "none"] /\ on = [g \in Gens |-> 1]
  /\ sClient = [g \in Gens |-> INVALID_SOCKET]
  /\ pend = [c \in Conns |-> 0] /\ gone = {}
  /\ spc = [c \in Conns |-> "none"] /\ by = [c \in Conns |-> 1]
  /\ own = [c \in Conns |-> INVALID_SOCKET] /\ overtaken = {}
  /\ lSockCtrl = [c \in Conns |-> INVALID_SOCKET]
  /\ reads = [c \in Conns |-> {}] /\ waits = [c \in Conns |-> 0]
  /\ lSockPasv = [c \in Conns |-> INVALID_SOCKET]
  /\ passive = 0
  /\ cut = {} /\ faults = 0

Next ==
  \/ Command
  \/ \E g \in Gens : Listener(g)
  \/ \E c \in Conns : Session(c) \/ Client(c)

Spec == Init /\ [][Next]_vars

(* Threads take their steps; a command that has begun ends; what a client  *)
(* sent before it left has an end.  Nothing is assumed of the clients and  *)
(* of the data connection that LIST or STOR waits for.                     *)
Fairness ==
  /\ WF_vars(Open \/ OpenFails \/ Thread)
  /\ \A g \in Gens : WF_vars(Look(g)) /\ WF_vars(\E c \in Conns : Accept(g, c))
  /\ \A c \in Conns :
       /\ WF_vars(Start(c) \/ Welcome(c) \/ Check(c) \/ Close(c))
       /\ SF_vars(RecvEnd(c))

FairSpec == Spec /\ Fairness

-----------------------------------------------------------------------------
(* Properties.                                                             *)

(* While the server is enabled, with a socket and no command under way,    *)
(* the socket listens and the thread started with it accepts from it,      *)
(* whatever older listeners, failed moves and ended sessions have left     *)
(* behind - unless a session has closed the descriptor by its number.      *)
Accepts(g) == lpc[g] = "check" \/ (lpc[g] = "accept" /\ on[g] = g)
Listens ==
  enabled /\ cmd = "none" /\ sock # INVALID_SOCKET /\ made \notin cut
    => made \in Gens /\ File(sock) = Listening(made) /\ Accepts(made)

(* A connection stays open without a thread that works on its descriptor,  *)
(* or is about to read it, only when its own thread read sClient too late, *)
(* or had nobody to send the welcome to: however sessions share and close  *)
(* descriptors, there is no other way to lose one.                         *)
ConnectionsServed ==
  \A n \in Fds : \A c \in Conns : table[n] = Conn(c) =>
    \/ c \in overtaken \/ spc[c] = "unwelcome"
    \/ spc[c] = "start" /\ own[c] = n
    \/ spc[c] \notin {"none", "start", "ended"} /\ lSockCtrl[c] = n

(* Without the switch no file is stored (README.md:568). It does not hold:  *)
(* disabling closes the listening socket only, and no run checks it.       *)
StoresWhenEnabled == [][\A c \in Conns : RunStor(c) => enabled]_vars

(* When the clients have gone every session ends, but for those in a LIST  *)
(* or a STOR that wait for a data connection that will not come: nothing   *)
(* in FTP_SOCK_Accept limits the wait.                                     *)
SessionsEnd ==
  <>(gone = Conns)
    => <>[](\A c \in Conns : spc[c] \in {"none", "ended", "unwelcome", "list", "stor"})
=============================================================================
