-------------------------- MODULE FtpServerProofs --------------------------
(***************************************************************************)
(* Proofs about FtpServer, for any clients, descriptors, ports and bounds: *)
(* its types, that an enabled server listens, and that no connection is    *)
(* lost but by a late read of sClient or an unsent welcome.                *)
(***************************************************************************)
EXTENDS FtpServer, TLAPS

-----------------------------------------------------------------------------
(* The files behind descriptors, from here on known by these facts only.   *)

(* Every file a socket call of the server makes is one of Files.           *)
LEMMA FilesMembers ==
  /\ Free \in Files /\ Console \in Files
  /\ \A g \in Gens : Listening(g) \in Files
  /\ \A c \in Conns : Conn(c) \in Files /\ Passive(c) \in Files
BY DEF Files

(* A file knows its kind, and the socket or connection it stands for.      *)
LEMMA Fields ==
  /\ Free.kind = "free"
  /\ \A g : Listening(g).kind = "listen" /\ Listening(g).gen = g
  /\ \A c : Conn(c).kind = "conn" /\ Conn(c).conn = c
  /\ \A c : Passive(c).kind = "passive"
BY DEF Free, Listening, Conn, Passive

(* A listening file is one of the sockets that were made, and a connected  *)
(* one is a connection.                                                    *)
LEMMA Kinds ==
  ASSUME NEW f \in Files
  PROVE  /\ f.kind = "listen" => f.gen \in Gens /\ f = Listening(f.gen)
         /\ f.kind = "conn" => f.conn \in Conns /\ f = Conn(f.conn)
BY DEF Files, Free, Console, Listening, Conn, Passive

(* Whatever a number stands for is a file.                                 *)
LEMMA FileType ==
  ASSUME table \in [Fds -> Files], NEW n
  PROVE  File(n) \in Files
BY FilesMembers DEF File

(* A descriptor is closed, and the table stays one.                        *)
LEMMA ClosedType ==
  ASSUME table \in [Fds -> Files], NEW n
  PROVE  /\ Closed(n) \in [Fds -> Files]
         /\ \A m \in Fds : Closed(n)[m] = IF m = n THEN Free ELSE table[m]
BY FilesMembers DEF Closed

(* The initial value of on and by is a socket, and the failed calls give   *)
(* a handle.                                                               *)
LEMMA Small ==
  /\ 1 \in Gens /\ Gens \subseteq 0 .. MaxListens
  /\ 0 \in Fds /\ Fds \subseteq Handles /\ INVALID_SOCKET \in Handles
  /\ 0 \in 0 .. MaxListens /\ 0 \in 0 .. MaxPasv /\ 0 \in 0 .. MaxFaults
BY BoundsAssumption DEF Gens, Fds, Handles

-----------------------------------------------------------------------------
(* Types.  A socket is made only while there is room for one, and the      *)
(* thread a command starts is that of a socket that was made.              *)

Room ==
  /\ cmd \in {"enable", "move", "back"} => made < MaxListens
  /\ cmd = "thread" => made \in Gens
  /\ cmd # "none" => enabled

Typed == TypeOK /\ Room

LEMMA TypedInit == Init => Typed
<1> SUFFICES ASSUME Init PROVE Typed
  OBVIOUS
<1>1. table \in [Fds -> Files]
  BY FilesMembers DEF Init
<1>2. port \in Ports /\ old \in Ports /\ portOf \in [Gens -> Ports]
  BY DEF Init
<1>3. TypeOK
  BY <1>1, <1>2, Small DEF Init, TypeOK
<1>4. QED
  BY <1>3 DEF Init, Typed, Room

(* A command keeps them.                                                   *)
LEMMA TypedCommand == Typed /\ Command => Typed'
<1> SUFFICES ASSUME Typed, Command PROVE Typed'
  OBVIOUS
<1> USE BoundsAssumption DEF server, listeners, clients, sessions, work
<1>1. CASE Enable
  BY <1>1 DEF Enable, Typed, TypeOK, Room
<1>2. CASE Open
  <2>1. made + 1 \in Gens
    BY <1>2 DEF Open, Typed, TypeOK, Room, Gens
  <2>2. PICK n \in Fds : table' = [table EXCEPT ![n] = Listening(made + 1)] /\ sock' = n
    BY <1>2 DEF Open
  <2>3. table' \in [Fds -> Files]
    BY <2>1, <2>2, FilesMembers DEF Typed, TypeOK
  <2>4. TypeOK'
    <3>1. made + 1 \in 0 .. MaxListens
      BY <2>1, Small
    <3>2. portOf' \in [Gens -> Ports]
      BY <1>2, <2>1 DEF Open, Typed, TypeOK
    <3>3. QED
      BY <1>2, <2>2, <2>3, <3>1, <3>2, Small DEF Open, Typed, TypeOK
  <2>5. QED
    BY <1>2, <2>1, <2>4 DEF Open, Typed, Room
<1>3. CASE OpenFails
  <2>1. faults' \in 0 .. MaxFaults
    BY <1>3 DEF OpenFails, Fault, Typed, TypeOK
  <2>2. enabled' \in BOOLEAN
    BY <1>3 DEF OpenFails
  <2>3. QED
    BY <1>3, <2>1, <2>2 DEF OpenFails, Typed, TypeOK, Room, Handles
<1>4. CASE Thread
  BY <1>4 DEF Thread, Typed, TypeOK, Room
<1>5. CASE Disable
  BY <1>5, ClosedType DEF Disable, Shut, Typed, TypeOK, Room, Handles
<1>6. ASSUME NEW n \in Ports, Move(n) PROVE Typed'
  BY <1>6, ClosedType DEF Move, Shut, Typed, TypeOK, Room, Handles
<1>7. QED
  BY <1>1, <1>2, <1>3, <1>4, <1>5, <1>6 DEF Command

(* So does a listener thread.                                              *)
LEMMA TypedListener == ASSUME Typed, NEW g \in Gens, Listener(g) PROVE Typed'
<1> USE BoundsAssumption DEF server, clients, sessions, work
<1>1. CASE Look(g)
  <2>1. File(sock).kind = "listen" => File(sock).gen \in Gens
    BY FileType, Kinds DEF Typed, TypeOK
  <2>2. QED
    BY <1>1, <2>1, Small DEF Look, Typed, TypeOK, Room
<1>2. CASE AcceptFails(g)
  <2>1. faults' \in 0 .. MaxFaults
    BY <1>2 DEF AcceptFails, Fault, Typed, TypeOK
  <2>2. QED
    BY <1>2, <2>1, Small DEF AcceptFails, Typed, TypeOK, Room
<1>3. ASSUME NEW c \in Conns, Accept(g, c) PROVE Typed'
  <2>1. PICK n \in Fds : /\ table' = [table EXCEPT ![n] = Conn(c)]
                         /\ sClient' = [sClient EXCEPT ![g] = n]
                         /\ own' = [own EXCEPT ![c] = n]
    BY <1>3 DEF Accept
  <2>2. table' \in [Fds -> Files]
    BY <2>1, FilesMembers DEF Typed, TypeOK
  <2>3. QED
    BY <1>3, <2>1, <2>2, Small DEF Accept, Typed, TypeOK, Room
<1>4. QED
  BY <1>1, <1>2, <1>3 DEF Listener
(* What a session's command does to the descriptors.                       *)
LEMMA ReceivedType ==
  ASSUME Typed, NEW c \in Conns,
         \E next \in {"check", "close", "list", "stor"} : Received(c, next),
         waits' \in [Conns -> 0 .. MaxListens], table' \in [Fds -> Files], cut' \subseteq Gens,
         lSockPasv' \in [Conns -> Handles], passive' \in 0 .. MaxPasv
  PROVE  Typed'
<1>1. PICK next \in {"check", "close", "list", "stor"} : Received(c, next)
  OBVIOUS
<1>2. /\ spc' = [spc EXCEPT ![c] = next] /\ reads' = [reads EXCEPT ![c] = {}]
      /\ UNCHANGED <<server, listeners, clients, by, own, overtaken, lSockCtrl, faults>>
  BY <1>1 DEF Received, Goto
<1>3. spc' \in [Conns -> {"none", "start", "welcome", "check", "recv", "list", "stor",
                          "close", "ended", "unwelcome"}]
  BY <1>2 DEF Typed, TypeOK
<1>4. QED
  BY <1>2, <1>3 DEF Typed, TypeOK, Room, server, listeners, clients

LEMMA CloseFdType ==
  ASSUME Typed, NEW n, CloseFd(n)
  PROVE  table' \in [Fds -> Files] /\ cut' \subseteq Gens
BY ClosedType DEF CloseFd, Typed, TypeOK

LEMMA GiveUpType ==
  ASSUME Typed, NEW c \in Conns, GiveUpPasv(c)
  PROVE  table' \in [Fds -> Files] /\ cut' \subseteq Gens /\ lSockPasv' \in [Conns -> Handles]
BY CloseFdType, Small DEF GiveUpPasv, Typed, TypeOK

(* And a session.                                                          *)
LEMMA TypedSession == ASSUME Typed, NEW c \in Conns, Session(c) PROVE Typed'
<1> USE DEF server, listeners, clients, work
<1>1. CASE Start(c)
  <2>1. by[c] \in Gens /\ sClient[by[c]] \in Handles
    BY DEF Typed, TypeOK
  <2>2. sClient' \in [Gens -> Handles]
    BY <1>1, Small DEF Start, Typed, TypeOK
  <2>3. QED
    BY <1>1, <2>1, <2>2, Small DEF Start, Goto, Typed, TypeOK, Room
<1>2. CASE Welcome(c)
  BY <1>2, Small DEF Welcome, Goto, Typed, TypeOK, Room
<1>3. CASE Check(c)
  <2>1. IsConn(lSockCtrl[c]) => File(lSockCtrl[c]).conn \in Conns
    BY FileType, Kinds DEF IsConn, Typed, TypeOK
  <2>2. QED
    BY <1>3, <2>1 DEF Check, Goto, Typed, TypeOK, Room
<1>4. CASE RecvEnd(c)
  BY <1>4, ReceivedType DEF RecvEnd, Typed, TypeOK
<1>5. CASE RunOther(c)
  BY <1>5, ReceivedType DEF RunOther, Typed, TypeOK
<1>6. CASE RunUnauthorised(c)
  BY <1>6, ReceivedType DEF RunUnauthorised, Typed, TypeOK
<1>7. CASE RunQuit(c)
  BY <1>7, ReceivedType, CloseFdType DEF RunQuit, Typed, TypeOK
<1>8. CASE RunPasv(c)
  <2>1. table' \in [Fds -> Files]
    BY <1>8, FilesMembers DEF RunPasv, Typed, TypeOK
  <2>2. lSockPasv' \in [Conns -> Handles]
    BY <1>8, Small DEF RunPasv, Typed, TypeOK
  <2>3. passive' \in 0 .. MaxPasv
    BY <1>8, BoundsAssumption DEF RunPasv, Typed, TypeOK
  <2>4. QED
    BY <1>8, <2>1, <2>2, <2>3, ReceivedType DEF RunPasv, Typed, TypeOK
<1>9. CASE RunList(c) \/ RunStor(c)
  <2>1. PICK next \in {"list", "stor"} : Transfer(c, next)
    BY <1>9 DEF RunList, RunStor
  <2>2. \E n \in {"check", "close", "list", "stor"} : Received(c, n)
    BY <2>1 DEF Transfer
  <2>3. table' \in [Fds -> Files] /\ cut' \subseteq Gens /\ lSockPasv' \in [Conns -> Handles]
    BY <2>1, GiveUpType DEF Transfer, Typed, TypeOK
  <2>4. waits' \in [Conns -> 0 .. MaxListens]
    <3>1. File(lSockPasv[c]).kind = "listen" => File(lSockPasv[c]).gen \in 0 .. MaxListens
      BY FileType, Kinds, Small DEF Typed, TypeOK
    <3>2. QED
      BY <2>1, <3>1, Small DEF Transfer, Typed, TypeOK
  <2>5. passive' \in 0 .. MaxPasv
    BY <2>1 DEF Transfer, Typed, TypeOK
  <2>6. QED
    BY <2>2, <2>3, <2>4, <2>5, ReceivedType
<1>10. CASE Transferred(c) \/ TransferFails(c)
  <2>1. table' \in [Fds -> Files] /\ cut' \subseteq Gens /\ lSockPasv' \in [Conns -> Handles]
    BY <1>10, GiveUpType DEF Transferred, TransferFails, Typed, TypeOK
  <2>2. waits' \in [Conns -> 0 .. MaxListens] /\ pend' \in [Conns -> 0 .. MaxListens]
    BY <1>10, Small DEF Transferred, TransferFails, Resume, Typed, TypeOK
  <2>3. faults' \in 0 .. MaxFaults
    BY <1>10, BoundsAssumption DEF Transferred, TransferFails, Fault, Typed, TypeOK
  <2>4. Resume(c)
    BY <1>10 DEF Transferred, TransferFails
  <2>5. QED
    BY <2>1, <2>2, <2>3, <2>4 DEF Resume, Goto, Typed, TypeOK, Room
<1>11. CASE Close(c)
  BY <1>11, CloseFdType, Small DEF Close, Leave, Goto, Typed, TypeOK, Room
<1>12. QED
  BY <1>1, <1>2, <1>3, <1>4, <1>5, <1>6, <1>7, <1>8, <1>9, <1>10, <1>11
  DEF Session, Run

(* And a client.                                                           *)
LEMMA TypedClient == ASSUME Typed, NEW c \in Conns, Client(c) PROVE Typed'
BY Small DEF Client, Connect, Depart, Typed, TypeOK, Room, server, listeners, sessions, work

LEMMA TypedNext == Typed /\ [Next]_vars => Typed'
<1> SUFFICES ASSUME Typed, [Next]_vars PROVE Typed'
  OBVIOUS
<1>1. CASE UNCHANGED vars
  BY <1>1 DEF vars, server, listeners, clients, sessions, work, Typed, TypeOK, Room
<1>2. QED
  BY <1>1, TypedCommand, TypedListener, TypedSession, TypedClient DEF Next

LEMMA TypedAlways == Spec => []Typed
BY TypedInit, TypedNext, PTL DEF Spec

(* The variables keep their types in every behaviour, for any constants:   *)
(* no step makes a socket beyond the bound, reads the gen of a file that   *)
(* is none, or leaves the port without a value.                            *)
THEOREM FtpTypeCorrect == Spec => []TypeOK
<1>1. Typed => TypeOK
  BY DEF Typed
<1>2. QED
  BY <1>1, TypedAlways, PTL

-----------------------------------------------------------------------------
(* Listens.  It holds between a command's new socket and its thread too,   *)
(* but for the thread.                                                     *)

Up == enabled /\ cmd \in {"none", "thread"} /\ sock # INVALID_SOCKET /\ made \notin cut
Ready ==
  Up => /\ made \in Gens /\ sock \in Fds /\ table[sock] = Listening(made)
        /\ cmd = "none" => Accepts(made)

LInv == Typed /\ Ready

(* A new file takes a descriptor that is free, so the listening socket     *)
(* keeps its own.                                                          *)
LEMMA ReadyGrows ==
  ASSUME Typed, Ready, NEW n \in Fds, Lowest(n), NEW f,
         table' = [table EXCEPT ![n] = f],
         UNCHANGED <<enabled, sock, made, cmd, cut>>,
         Accepts(made) => Accepts(made)'
  PROVE  Ready'
<1> SUFFICES ASSUME Up' PROVE Ready'
  BY DEF Ready
<1>1. Up
  BY DEF Up
<1>2. sock # n
  BY <1>1, Fields DEF Ready, Lowest
<1>3. QED
  BY <1>1, <1>2 DEF Ready, Typed, TypeOK

(* A session closes it only on the record.                                 *)
LEMMA ReadyCut ==
  ASSUME Typed, Ready, NEW n, CloseFd(n), UNCHANGED <<enabled, sock, made, cmd, lpc, on>>
  PROVE  Ready'
<1> SUFFICES ASSUME Up' PROVE Ready'
  BY DEF Ready
<1>1. Up
  BY DEF Up, CloseFd
<1>2. made \in Gens /\ sock \in Fds /\ table[sock] = Listening(made)
  BY <1>1 DEF Ready
<1>3. sock # n
  BY <1>2 DEF CloseFd, File, Up
<1>4. table'[sock] = Listening(made)
  BY <1>2, <1>3, ClosedType DEF CloseFd, Typed, TypeOK
<1>5. QED
  BY <1>1, <1>2, <1>4 DEF Ready, Accepts

LEMMA ReadyCommand == LInv /\ Command => Ready'
<1> SUFFICES ASSUME LInv, Command PROVE Ready'
  OBVIOUS
<1> USE DEF server, listeners, clients, sessions, work
<1>1. CASE Enable
  BY <1>1 DEF Enable, Ready, Up
<1>2. CASE Open
  <2>1. made + 1 \in Gens
    BY <1>2, BoundsAssumption DEF Open, LInv, Typed, TypeOK, Room, Gens
  <2>2. PICK n \in Fds : table' = [table EXCEPT ![n] = Listening(made + 1)] /\ sock' = n
    BY <1>2 DEF Open
  <2>3. QED
    BY <1>2, <2>1, <2>2 DEF Open, Ready, LInv, Typed, TypeOK
<1>3. CASE OpenFails
  BY <1>3 DEF OpenFails, Ready, Up
<1>4. CASE Thread
  <2>1. lpc'[made] = "check"
    BY <1>4 DEF Thread, LInv, Typed, TypeOK, Room
  <2>2. QED
    BY <1>4, <2>1 DEF Thread, LInv, Ready, Up, Accepts
<1>5. CASE Disable
  BY <1>5 DEF Disable, Ready, Up
<1>6. ASSUME NEW n \in Ports, Move(n) PROVE Ready'
  BY <1>6 DEF Move, Shut, Ready, Up
<1>7. QED
  BY <1>1, <1>2, <1>3, <1>4, <1>5, <1>6 DEF Command

LEMMA ReadyListener == ASSUME LInv, NEW g \in Gens, Listener(g) PROVE Ready'
<1> USE DEF server, clients, sessions, work, LInv
<1>1. CASE Look(g)
  <2> SUFFICES ASSUME Up, cmd = "none" PROVE Accepts(made)'
    BY <1>1 DEF Look, Ready, Up
  <2>1. made \in Gens /\ sock \in Fds /\ table[sock] = Listening(made) /\ enabled
    BY DEF Ready, Up
  <2>2. File(sock).kind = "listen" /\ File(sock).gen = made
    BY <2>1, Fields DEF File
  <2>3. QED
    BY <1>1, <2>1, <2>2 DEF Look, Accepts, Ready, Up, Typed, TypeOK, Room
<1>2. CASE AcceptFails(g)
  BY <1>2 DEF AcceptFails, Accepts, Ready, Up, Typed, TypeOK
<1>3. ASSUME NEW c \in Conns, Accept(g, c) PROVE Ready'
  <2>1. PICK n \in Fds : Lowest(n) /\ table' = [table EXCEPT ![n] = Conn(c)]
    BY <1>3 DEF Accept
  <2>2. Accepts(made) => Accepts(made)'
    BY <1>3 DEF Accept, Accepts, Typed, TypeOK
  <2>3. UNCHANGED <<enabled, sock, made, cmd, cut>>
    BY <1>3 DEF Accept
  <2>4. QED
    BY <2>1, <2>2, <2>3, ReadyGrows
<1>4. QED
  BY <1>1, <1>2, <1>3 DEF Listener

LEMMA ReadySession == ASSUME LInv, NEW c \in Conns, Session(c) PROVE Ready'
<1> USE DEF server, listeners, clients, work, LInv
<1>1. CASE UNCHANGED <<table, server, lpc, on, cut>>
  BY <1>1 DEF Ready, Up, Accepts
<1>2. CASE RunPasv(c)
  <2>1. UNCHANGED <<enabled, sock, made, cmd, lpc, on, cut>>
    BY <1>2 DEF RunPasv, Received
  <2>2. CASE UNCHANGED table
    BY <2>1, <2>2, <1>1, <1>2 DEF RunPasv, Received
  <2>3. CASE ~UNCHANGED table
    <3>1. PICK n \in Fds : Lowest(n) /\ table' = [table EXCEPT ![n] = Passive(c)]
      BY <1>2, <2>3 DEF RunPasv
    <3>2. Accepts(made) => Accepts(made)'
      BY <2>1 DEF Accepts
    <3>3. QED
      BY <2>1, <3>1, <3>2, ReadyGrows
  <2>4. QED
    BY <2>2, <2>3
<1>3. CASE RunQuit(c) \/ Close(c)
  <2>1. \E n : CloseFd(n)
    BY <1>3 DEF RunQuit, Close
  <2>2. QED
    BY <1>3, <2>1, ReadyCut DEF RunQuit, Received, Close, Leave
<1>7. CASE RunList(c) \/ RunStor(c) \/ Transferred(c) \/ TransferFails(c)
  <2>1. UNCHANGED <<enabled, sock, made, cmd, lpc, on>>
    BY <1>7 DEF RunList, RunStor, Transfer, Received, Transferred, TransferFails, Resume
  <2>2. UNCHANGED <<table, cut>> \/ \E n : CloseFd(n)
    BY <1>7 DEF RunList, RunStor, Transfer, Transferred, TransferFails, GiveUpPasv
  <2>3. CASE UNCHANGED <<table, cut>>
    BY <2>1, <2>3 DEF Ready, Up, Accepts
  <2>4. QED
    BY <2>1, <2>2, <2>3, ReadyCut
<1>4. CASE Start(c) \/ Welcome(c) \/ Check(c)
  BY <1>1, <1>4 DEF Start, Welcome, Check
<1>5. CASE RecvEnd(c) \/ RunOther(c) \/ RunUnauthorised(c)
  BY <1>1, <1>5 DEF RecvEnd, RunOther, RunUnauthorised, Received
<1>6. QED
  BY <1>2, <1>3, <1>4, <1>5, <1>7 DEF Session, Run

LEMMA ReadyNext == LInv /\ [Next]_vars => LInv'
<1> SUFFICES ASSUME LInv, [Next]_vars PROVE Ready'
  BY TypedNext DEF LInv
<1>1. CASE UNCHANGED vars
  BY <1>1 DEF vars, server, listeners, LInv, Ready, Up, Accepts
<1>2. ASSUME NEW c \in Conns, Client(c) PROVE Ready'
  <2>1. UNCHANGED <<table, server, listeners, cut>>
    BY <1>2 DEF Client, Connect, Depart
  <2>2. QED
    BY <2>1 DEF server, listeners, LInv, Ready, Up, Accepts
<1>3. QED
  BY <1>1, <1>2, ReadyCommand, ReadyListener, ReadySession DEF Next

(* An enabled server listens: while it is enabled, has a socket and no     *)
(* command is under way, its socket listens and the thread started with it *)
(* accepts from it, whatever older threads and closed descriptors there    *)
(* are, unless a session closed that very descriptor.                      *)
THEOREM FtpListens == Spec => []Listens
<1>1. Init => LInv
  BY TypedInit DEF Init, LInv, Ready, Up
<1>2. LInv => Listens
  BY DEF LInv, Ready, Up, Listens, File
<1>3. QED
  BY <1>1, <1>2, ReadyNext, PTL DEF Spec

-----------------------------------------------------------------------------
(* Connections.  One that waits in a backlog has no thread yet, and only a *)
(* thread that has started can have been overtaken, so that accept always  *)
(* gives a connection its first descriptor.                                *)

Working == {"welcome", "check", "recv", "list", "stor", "close"}
Holder(c, n) ==
  \/ c \in overtaken \/ spc[c] = "unwelcome"
  \/ spc[c] = "start" /\ own[c] = n
  \/ spc[c] \in Working /\ lSockCtrl[c] = n
Kept(c) ==
  /\ \A n \in Fds : table[n] = Conn(c) => Holder(c, n)
  /\ pend[c] # 0 => spc[c] = "none"
  /\ c \in overtaken => spc[c] \notin {"none", "start"}

CInv == Typed /\ \A c \in Conns : Kept(c)

(* A step that leaves a session alone and gives its connection no          *)
(* descriptor keeps it, and so does one on its way through the loop.       *)
Shrinks(c) == \A n \in Fds : table'[n] = Conn(c) => table[n] = Conn(c)

LEMMA KeptAside ==
  ASSUME NEW c \in Conns, Kept(c), Shrinks(c),
         spc'[c] = spc[c], own'[c] = own[c], lSockCtrl'[c] = lSockCtrl[c],
         pend'[c] = 0 \/ pend'[c] = pend[c] \/ spc[c] = "none",
         c \in overtaken' <=> c \in overtaken
  PROVE  Kept(c)'
BY DEF Kept, Shrinks, Holder

LEMMA KeptOn ==
  ASSUME NEW c \in Conns, Kept(c), Shrinks(c),
         spc[c] \in Working, spc'[c] \in Working, lSockCtrl'[c] = lSockCtrl[c],
         pend'[c] = 0 \/ pend'[c] = pend[c], overtaken' = overtaken
  PROVE  Kept(c)'
BY DEF Kept, Shrinks, Holder, Working

(* A descriptor that is closed, or given to a file that is no connection,  *)
(* is nobody's connection any more.                                        *)
LEMMA Shrinking ==
  ASSUME Typed, NEW c \in Conns, NEW n,
         \/ UNCHANGED table
         \/ table' = Closed(n)
         \/ \E f \in Files : f.kind # "conn" /\ table' = [table EXCEPT ![n] = f]
  PROVE  Shrinks(c)
<1>1. Conn(c).kind = "conn" /\ Free.kind = "free"
  BY Fields
<1>2. QED
  BY <1>1, ClosedType DEF Shrinks, Typed, TypeOK

LEMMA KeptCommand == ASSUME CInv, Command, NEW d \in Conns PROVE Kept(d)'
<1> USE DEF server, listeners, clients, sessions, work, CInv
<1>1. UNCHANGED <<spc, own, lSockCtrl, pend, overtaken>>
  BY DEF Command, Enable, Open, OpenFails, Thread, Disable, Move
<1>2. CASE Open
  <2>1. made + 1 \in Gens
    BY <1>2, BoundsAssumption DEF Open, Typed, TypeOK, Room, Gens
  <2>2. PICK n \in Fds : table' = [table EXCEPT ![n] = Listening(made + 1)]
    BY <1>2 DEF Open
  <2>3. Listening(made + 1) \in Files /\ Listening(made + 1).kind # "conn"
    BY <2>1, FilesMembers, Fields
  <2>4. Shrinks(d)
    BY <2>2, <2>3, Shrinking
  <2>5. QED
    BY <1>1, <2>4, KeptAside
<1>3. CASE ~Open
  <2>1. table' = Closed(sock) \/ UNCHANGED table
    BY <1>3 DEF Command, Enable, OpenFails, Thread, Disable, Move, Shut
  <2>2. Shrinks(d)
    BY <2>1, Shrinking
  <2>3. QED
    BY <1>1, <2>2, KeptAside
<1>4. QED
  BY <1>2, <1>3

LEMMA KeptListener ==
  ASSUME CInv, NEW g \in Gens, Listener(g), NEW d \in Conns PROVE Kept(d)'
<1> USE DEF server, listeners, clients, sessions, work, CInv
<1>1. CASE Look(g) \/ AcceptFails(g)
  <2>1. UNCHANGED <<table, spc, own, lSockCtrl, pend, overtaken>>
    BY <1>1 DEF Look, AcceptFails
  <2>2. QED
    BY <2>1, Shrinking, KeptAside
<1>2. ASSUME NEW c \in Conns, Accept(g, c) PROVE Kept(d)'
  <2>1. PICK n \in Fds :
          Lowest(n) /\ table' = [table EXCEPT ![n] = Conn(c)] /\ own' = [own EXCEPT ![c] = n]
    BY <1>2 DEF Accept
  <2>2. CASE d = c
    <3>1. on[g] # 0
      BY BoundsAssumption DEF Typed, TypeOK, Gens
    <3>2. spc[c] = "none" /\ c \notin overtaken
      BY <1>2, <3>1 DEF Accept, Kept
    <3>3. \A m \in Fds : table[m] # Conn(c)
      BY <3>2 DEF Kept, Holder, Working
    <3>4. spc'[c] = "start" /\ own'[c] = n /\ pend'[c] = 0 /\ overtaken' = overtaken
      BY <1>2, <2>1 DEF Accept, Typed, TypeOK
    <3>5. \A m \in Fds : table'[m] = Conn(c) => m = n
      BY <2>1, <3>3 DEF Typed, TypeOK
    <3>6. QED
      BY <2>2, <3>2, <3>4, <3>5 DEF Kept, Holder
  <2>3. CASE d # c
    <3>1. Conn(c) # Conn(d)
      BY <2>3, Fields
    <3>2. Shrinks(d)
      BY <2>1, <3>1 DEF Shrinks, Typed, TypeOK
    <3>3. spc'[d] = spc[d] /\ own'[d] = own[d] /\ pend'[d] = pend[d]
      BY <1>2, <2>1, <2>3 DEF Accept, Typed, TypeOK
    <3>4. UNCHANGED <<lSockCtrl, overtaken>>
      BY <1>2 DEF Accept
    <3>5. QED
      BY <3>2, <3>3, <3>4, KeptAside
  <2>4. QED
    BY <2>2, <2>3
<1>3. QED
  BY <1>1, <1>2 DEF Listener

(* The table a session leaves behind has no new connection in it.          *)
LEMMA SessionShrinks ==
  ASSUME Typed, NEW c \in Conns, Session(c), NEW d \in Conns PROVE Shrinks(d)
<1>1. CASE RunPasv(c)
  <2>1. Passive(c) \in Files /\ Passive(c).kind # "conn"
    BY FilesMembers, Fields
  <2>2. QED
    BY <1>1, <2>1, Shrinking DEF RunPasv
<1>2. CASE ~RunPasv(c)
  <2>1. UNCHANGED table \/ \E n : table' = Closed(n)
    BY <1>2 DEF Session, Run, Start, Welcome, Check, RecvEnd, RunOther, RunUnauthorised,
                RunQuit, RunList, RunStor, Transfer, Transferred, TransferFails, GiveUpPasv,
                Close, CloseFd
  <2>2. QED
    BY <2>1, Shrinking
<1>3. QED
  BY <1>1, <1>2

(* A session leaves the others alone.                                      *)
LEMMA KeptOthers ==
  ASSUME CInv, NEW c \in Conns, Session(c), NEW d \in Conns \ {c} PROVE Kept(d)'
<1> USE DEF clients, work, CInv, Typed, TypeOK
<1>1. Shrinks(d)
  BY SessionShrinks
<1> DEFINE Aside ==
      /\ spc'[d] = spc[d] /\ own'[d] = own[d] /\ lSockCtrl'[d] = lSockCtrl[d]
      /\ pend'[d] = 0 \/ pend'[d] = pend[d]
      /\ d \in overtaken' <=> d \in overtaken
<1>2. CASE Start(c) \/ Welcome(c) \/ Check(c) \/ Close(c)
  BY <1>1, <1>2, KeptAside DEF Start, Welcome, Check, Close, Leave, Goto
<1>3. CASE RecvEnd(c) \/ RunOther(c) \/ RunUnauthorised(c) \/ RunQuit(c) \/ RunPasv(c)
  <2>1. \E next : Received(c, next)
    BY <1>3 DEF RecvEnd, RunOther, RunUnauthorised, RunQuit, RunPasv
  <2>2. Aside
    BY <2>1 DEF Received, Goto
  <2>3. QED
    BY <1>1, <2>2, KeptAside
<1>4. CASE RunList(c) \/ RunStor(c)
  <2>1. \E next : Received(c, next)
    BY <1>4 DEF RunList, RunStor, Transfer
  <2>2. Aside
    BY <2>1 DEF Received, Goto
  <2>3. QED
    BY <1>1, <2>2, KeptAside
<1>5. CASE Transferred(c) \/ TransferFails(c)
  <2>1. Resume(c) /\ (pend'[d] = 0 \/ pend'[d] = pend[d])
    BY <1>5 DEF Transferred, TransferFails
  <2>2. Aside
    BY <2>1 DEF Resume, Goto
  <2>3. QED
    BY <1>1, <2>2, KeptAside
<1>6. QED
  BY <1>2, <1>3, <1>4, <1>5 DEF Session, Run

LEMMA KeptSession == ASSUME CInv, NEW c \in Conns, Session(c) PROVE Kept(c)'
<1> USE DEF clients, work, CInv
<1>1. Shrinks(c) /\ Kept(c)
  BY SessionShrinks
<1>2. CASE Start(c)
  <2>1. /\ spc[c] = "start" /\ spc'[c] = "welcome" /\ lSockCtrl'[c] = sClient[by[c]]
        /\ pend' = pend
        /\ overtaken' = IF sClient[by[c]] = own[c] THEN overtaken ELSE overtaken \cup {c}
    BY <1>2 DEF Start, Goto, Typed, TypeOK
  <2>2. QED
    BY <1>1, <2>1 DEF Kept, Shrinks, Holder, Working
<1>3. CASE Welcome(c)
  <2>1. /\ spc[c] = "welcome" /\ UNCHANGED <<pend, overtaken>>
        /\ \/ spc'[c] = "check" /\ lSockCtrl' = lSockCtrl
           \/ spc'[c] = "unwelcome"
    BY <1>3 DEF Welcome, Goto, Typed, TypeOK
  <2>2. CASE spc'[c] = "check" /\ lSockCtrl' = lSockCtrl
    BY <1>1, <2>1, <2>2, KeptOn DEF Working
  <2>3. CASE spc'[c] = "unwelcome"
    BY <1>1, <2>1, <2>3 DEF Kept, Holder
  <2>4. QED
    BY <2>1, <2>2, <2>3
<1>4. CASE Close(c)
  <2>1. spc[c] = "close" /\ spc'[c] = "ended" /\ UNCHANGED <<pend, overtaken>>
    BY <1>4 DEF Close, Leave, Goto, Typed, TypeOK
  <2>2. lSockCtrl[c] \in Fds => table'[lSockCtrl[c]] = Free
    BY <1>4, ClosedType DEF Close, CloseFd, Typed, TypeOK
  <2>3. Free # Conn(c)
    BY Fields
  <2>4. \A n \in Fds : table'[n] = Conn(c) => c \in overtaken
    BY <1>1, <2>1, <2>2, <2>3 DEF Kept, Shrinks, Holder
  <2>5. QED
    BY <1>1, <2>1, <2>4 DEF Kept, Holder
<1>5. CASE Check(c) \/ RecvEnd(c) \/ Run(c)
  <2>1. Check(c) \/ \E next \in Working : Received(c, next)
    BY <1>5 DEF RecvEnd, Run, RunOther, RunUnauthorised, RunQuit, RunPasv, RunList, RunStor,
                Transfer, Working
  <2>2. spc[c] \in Working /\ spc'[c] \in Working /\ UNCHANGED <<lSockCtrl, pend, overtaken>>
    BY <2>1 DEF Check, Received, Goto, Working, Typed, TypeOK
  <2>3. QED
    BY <1>1, <2>2, KeptOn
<1>6. CASE Transferred(c) \/ TransferFails(c)
  <2>1. /\ spc[c] \in {"list", "stor"} /\ Resume(c)
        /\ pend'[c] = 0 \/ pend'[c] = pend[c]
    BY <1>6 DEF Transferred, TransferFails, Typed, TypeOK
  <2>2. spc[c] \in Working /\ spc'[c] \in Working /\ UNCHANGED <<lSockCtrl, overtaken>>
    BY <2>1 DEF Resume, Goto, Working, Typed, TypeOK
  <2>3. QED
    BY <1>1, <2>1, <2>2, KeptOn
<1>7. QED
  BY <1>2, <1>3, <1>4, <1>5, <1>6 DEF Session

LEMMA KeptClient ==
  ASSUME CInv, NEW c \in Conns, Client(c), NEW d \in Conns PROVE Kept(d)'
<1>1. UNCHANGED <<table, spc, own, lSockCtrl, overtaken>>
  BY DEF Client, Connect, Depart, sessions
<1>2. pend'[d] = pend[d] \/ spc[d] = "none"
  BY DEF Client, Connect, Depart, CInv, Typed, TypeOK
<1>3. QED
  BY <1>1, <1>2, Shrinking, KeptAside DEF CInv

LEMMA KeptNext == CInv /\ [Next]_vars => CInv'
<1> SUFFICES ASSUME CInv, [Next]_vars, NEW d \in Conns PROVE Kept(d)'
  BY TypedNext DEF CInv
<1>1. CASE UNCHANGED vars
  BY <1>1 DEF vars, clients, sessions, CInv, Kept, Holder
<1>2. CASE Command
  BY <1>2, KeptCommand
<1>3. ASSUME NEW g \in Gens, Listener(g) PROVE Kept(d)'
  BY <1>3, KeptListener
<1>4. ASSUME NEW c \in Conns, Session(c) PROVE Kept(d)'
  BY <1>4, KeptSession, KeptOthers
<1>5. ASSUME NEW c \in Conns, Client(c) PROVE Kept(d)'
  BY <1>5, KeptClient
<1>6. QED
  BY <1>1, <1>2, <1>3, <1>4, <1>5 DEF Next

(* However sessions share, close twice and take over each other's          *)
(* descriptors, a connection stays open unattended only when its thread    *)
(* read sClient too late or its welcome could not be sent.                 *)
THEOREM FtpConnectionsServed == Spec => []ConnectionsServed
<1>1. Init => CInv
  <2>1. \A c : Free # Conn(c) /\ Console # Conn(c)
    BY Fields DEF Console, Conn
  <2>2. QED
    BY <2>1, TypedInit DEF Init, CInv, Kept
<1>2. CInv => ConnectionsServed
  BY DEF CInv, Kept, Holder, Working, ConnectionsServed
<1>3. QED
  BY <1>1, <1>2, KeptNext, PTL DEF Spec

=============================================================================
