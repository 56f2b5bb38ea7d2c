-------------------------- MODULE TelnetVtyProofs --------------------------
(***************************************************************************)
(* Proofs about the vty pool: its invariant, and when a user without the   *)
(* telnet service can be online.                                           *)
(***************************************************************************)
EXTENDS TelnetVty, TLAPS

USE PoolAssumption, ConnsAssumption, ModesAssumption, BoundsAssumption

-----------------------------------------------------------------------------
(* The pool before anyone has connected satisfies the invariant.           *)
LEMMA InitPool == Init => PoolInv
<1> SUFFICES ASSUME Init PROVE PoolInv
  OBVIOUS
<1> 1 \in Slots
  BY DEF Slots
<1> FreshVty \in Vtys /\ ~FreshVty.used
  BY DEF FreshVty, Vtys, Names
<1>1. vty \in [Slots -> Vtys] /\ \A s \in Slots : ~vty[s].used
  BY DEF Init
<1>2. cmd \in [kind : {"idle", "user", "all"}, user : Names, mode : AllModes]
  BY DEF Init, NoCmd, Names, AllModes
<1>3. taken \in [conn : Conns \cup {NoConn}, slot : Slots]
  BY DEF Init, Nothing
<1>4. TypeOK
  BY <1>1, <1>2, <1>3 DEF Init, TypeOK
<1> QED
  BY <1>1, <1>4 DEF Init, PoolInv, HandedOver, VictimIsNext, NoVtyLost

(* Taking a vty offline keeps the pool well typed and leaves the others.   *)
LEMMA FreedTyped ==
  ASSUME NEW v \in Vtys
  PROVE  Freed(v) \in Vtys /\ ~Freed(v).used /\ Freed(v).state = 0
  BY DEF Freed, Vtys, Names

LEMMA OfflineTyped ==
  ASSUME TypeOK, NEW s \in Slots, Offline(s)
  PROVE  /\ vty' \in [Slots -> Vtys] /\ closed' \subseteq Conns
         /\ ~vty'[s].used /\ vty'[s].state = 0
         /\ \A t \in Slots : t # s => vty'[t] = vty[t]
<1>1. vty[s] \in Vtys /\ vty[s].socket \in Conns \cup {NoConn}
  BY DEF TypeOK, Vtys
<1>2. vty' = [vty EXCEPT ![s] = Freed(vty[s])]
  BY DEF Offline
<1> QED
  BY <1>1, <1>2, FreedTyped DEF TypeOK, Offline, Close

(* A step that uses no vty anew keeps every vty with its thread, when each *)
(* thread that ends has its vty taken offline.                             *)
LEMMA ThreadsStay ==
  ASSUME TypeOK, NoVtyLost, UNCHANGED <<listener, at>>,
         \A s \in Slots : vty'[s].used => vty[s].used,
         \A c \in Conns : tpc[c] \in Live => tpc'[c] \in Live \/ ~vty'[at[c]].used
  PROVE  NoVtyLost'
  BY DEF NoVtyLost, listener

(* A step of no thread and of no listener that takes a vty offline, or     *)
(* none, and touches nothing else of the pool.                             *)
LEMMA PoolStays ==
  ASSUME PoolInv, UNCHANGED <<listener, sessions>>,
         \A s \in Slots : vty'[s].used => vty[s].used
  PROVE  HandedOver' /\ NoVtyLost'
<1>1. UNCHANGED <<at, tpc, lpc, taken>>
  BY DEF sessions, listener
<1>2. NoVtyLost'
  BY <1>1, ThreadsStay DEF PoolInv, listener
<1> QED
  BY <1>1, <1>2 DEF PoolInv, HandedOver

(* One step of a session thread.                                           *)
LEMMA SessionStep ==
  ASSUME PoolInv, NEW c \in Conns, Session(c)
  PROVE  PoolInv'
<1>1. UNCHANGED <<peer, listener, at, aging, operator>>
  BY DEF Session, Start, Hello, AccessFree, AccessAsks, Name, Login, LoginFails,
         GoOnline, Read, Character, SessionEnds, Leave
<1> at[c] \in Slots /\ vty[at[c]] \in Vtys /\ TypeOK
  BY DEF PoolInv, TypeOK
<1> DEFINE Moves(to) ==
      /\ tpc[c] \in Live /\ tpc' = [tpc EXCEPT ![c] = to]
      /\ to \in Live \cup {"done"}
      /\ to = "done" => ~vty'[at[c]].used
      /\ sock' \in [Conns -> Conns \cup {NoConn}]
      /\ vty' \in [Slots -> Vtys] /\ closed' \subseteq Conns
      /\ \A s \in Slots : vty'[s].used => vty[s].used
<1> SUFFICES \E to : Moves(to)
  <2> SUFFICES ASSUME NEW to, Moves(to) PROVE PoolInv'
    OBVIOUS
  <2>1. tpc' \in [Conns -> Live \cup {"none", "done"}]
    BY DEF TypeOK
  <2>2. TypeOK'
    BY <1>1, <2>1 DEF TypeOK, listener, operator
  <2>3. NoVtyLost'
    BY <1>1, ThreadsStay DEF PoolInv, TypeOK
  <2>4. HandedOver'
    <3>1. "none" \notin Live
      BY DEF Live
    <3> QED
      BY <1>1, <3>1 DEF PoolInv, HandedOver, TypeOK, listener
  <2> QED
    BY <1>1, <2>2, <2>3, <2>4 DEF PoolInv, VictimIsNext, operator
<1>2. ASSUME NEW label \in Live, Goto(c, label) \/ Receive(c, label)
      PROVE  /\ tpc' = [tpc EXCEPT ![c] = label]
             /\ sock' \in [Conns -> Conns \cup {NoConn}]
  <2>1. vty[at[c]].socket \in Conns \cup {NoConn}
    BY DEF Vtys
  <2> QED
    BY <1>2, <2>1 DEF Goto, Receive, TypeOK
<1>3. ASSUME NEW v \in Vtys, vty' = [vty EXCEPT ![at[c]] = v], ~v.used \/ v.used = vty[at[c]].used
      PROVE  /\ vty' \in [Slots -> Vtys]
             /\ \A s \in Slots : vty'[s].used => vty[s].used
  BY <1>3 DEF TypeOK
<1>4. CASE Start(c) \/ AccessAsks(c) \/ Name(c) \/ Read(c) \/ SessionEnds(c)
  <2>1. tpc[c] \in Live /\ {"hello", "name", "password", "recv", "leave"} \subseteq Live
    BY <1>4 DEF Start, AccessAsks, Name, Read, SessionEnds, Live
  <2>2. \/ Receive(c, "hello") \/ Receive(c, "name") \/ Receive(c, "password")
        \/ Receive(c, "recv") \/ Goto(c, "leave")
    BY <1>4 DEF Start, AccessAsks, Name, Read, SessionEnds
  <2>3. PICK label \in Live : Goto(c, label) \/ Receive(c, label)
    BY <2>1, <2>2
  <2>4. UNCHANGED <<vty, closed>>
    BY <1>4 DEF Start, AccessAsks, Name, Read, SessionEnds
  <2>5. Moves(label)
    <3>1. "done" \notin Live
      BY DEF Live
    <3> QED
      BY <2>1, <2>3, <2>4, <1>2, <3>1 DEF TypeOK
  <2> QED
    BY <2>5
<1>5. CASE Hello(c) \/ AccessFree(c) \/ Login(c) \/ GoOnline(c)
  <2>1. tpc[c] \in Live /\ {"access", "granted", "read"} \subseteq Live
    BY <1>5 DEF Hello, AccessFree, Login, GoOnline, Live
  <2>4. Goto(c, "access") \/ Goto(c, "granted") \/ Goto(c, "read")
    BY <1>5 DEF Hello, AccessFree, Login, GoOnline
  <2>5. PICK label \in Live : Goto(c, label)
    BY <2>1, <2>4
  <2>2. UNCHANGED closed
    BY <1>5 DEF Hello, AccessFree, Login, GoOnline
  <2>3. \E v \in Vtys : /\ vty' = [vty EXCEPT ![at[c]] = v]
                       /\ v.used = vty[at[c]].used
    <3>1. CASE Hello(c)
      <4>1. vty' = [vty EXCEPT ![at[c]] = [vty[at[c]] EXCEPT !.idle = 0]]
        BY <3>1 DEF Hello
      <4>2. /\ [vty[at[c]] EXCEPT !.idle = 0] \in Vtys
            /\ [vty[at[c]] EXCEPT !.idle = 0].used = vty[at[c]].used
        BY DEF Vtys
      <4> QED
        BY <4>1, <4>2
    <3>2. CASE AccessFree(c)
      <4>1. vty' = [vty EXCEPT ![at[c]] = [vty[at[c]] EXCEPT !.user = ""]]
        BY <3>2 DEF AccessFree
      <4>2. /\ [vty[at[c]] EXCEPT !.user = ""] \in Vtys
            /\ [vty[at[c]] EXCEPT !.user = ""].used = vty[at[c]].used
        BY DEF Vtys, Names
      <4> QED
        BY <4>1, <4>2
    <3>3. CASE Login(c)
      <4>1. PICK u \in Names :
              vty' = [vty EXCEPT ![at[c]] = [vty[at[c]] EXCEPT !.user = u]]
        BY <3>3 DEF Login
      <4>2. /\ [vty[at[c]] EXCEPT !.user = u] \in Vtys
            /\ [vty[at[c]] EXCEPT !.user = u].used = vty[at[c]].used
        BY DEF Vtys
      <4> QED
        BY <4>1, <4>2
    <3>4. CASE GoOnline(c)
      <4>1. vty' = [vty EXCEPT ![at[c]] =
                      [vty[at[c]] EXCEPT !.state = 1, !.idle = 0]]
        BY <3>4 DEF GoOnline
      <4>2. /\ [vty[at[c]] EXCEPT !.state = 1, !.idle = 0] \in Vtys
            /\ [vty[at[c]] EXCEPT !.state = 1, !.idle = 0].used = vty[at[c]].used
        <5> DEFINE w == [vty[at[c]] EXCEPT !.state = 1]
        <5>1. w \in Vtys /\ w.used = vty[at[c]].used
          BY DEF Vtys
        <5>2. [w EXCEPT !.idle = 0] \in Vtys /\ [w EXCEPT !.idle = 0].used = w.used
          <6> HIDE DEF w
          <6> QED
            BY <5>1 DEF Vtys
        <5>3. [vty[at[c]] EXCEPT !.state = 1, !.idle = 0] = [w EXCEPT !.idle = 0]
          OBVIOUS
        <5> QED
          BY <5>1, <5>2, <5>3
      <4> QED
        BY <4>1, <4>2
    <3> QED
      BY <1>5, <3>1, <3>2, <3>3, <3>4
  <2>6. Moves(label)
    <3>1. "done" \notin Live
      BY DEF Live
    <3> QED
      BY <2>1, <2>2, <2>3, <2>5, <1>2, <1>3, <3>1 DEF TypeOK
  <2> QED
    BY <2>6
<1>6. CASE Character(c)
  <2>1. "read" \in Live /\ tpc[c] \in Live /\ Goto(c, "read")
    BY <1>6 DEF Character, Live
  <2>2. closed' \subseteq Conns
    BY <1>6 DEF Character, Close, TypeOK, Vtys
  <2>3. [Freed(vty[at[c]]) EXCEPT !.idle = 0] \in Vtys
        /\ ~[Freed(vty[at[c]]) EXCEPT !.idle = 0].used
    BY FreedTyped DEF Vtys
  <2>4. [vty[at[c]] EXCEPT !.idle = 0] \in Vtys
        /\ [vty[at[c]] EXCEPT !.idle = 0].used = vty[at[c]].used
    BY DEF Vtys
  <2>5. \/ vty' = [vty EXCEPT ![at[c]] = [vty[at[c]] EXCEPT !.idle = 0]]
        \/ vty' = [vty EXCEPT ![at[c]] = [Freed(vty[at[c]]) EXCEPT !.idle = 0]]
    BY <1>6 DEF Character
  <2>6. /\ vty' \in [Slots -> Vtys]
        /\ \A s \in Slots : vty'[s].used => vty[s].used
    BY <2>3, <2>4, <2>5, <1>3
  <2> QED
    BY <2>1, <2>2, <2>6, <1>2
<1>7. CASE LoginFails(c) \/ Leave(c)
  <2>1. tpc[c] \in Live /\ Goto(c, "done") /\ Offline(at[c])
    BY <1>7 DEF LoginFails, Leave, Live
  <2>2. tpc' = [tpc EXCEPT ![c] = "done"] /\ sock' \in [Conns -> Conns \cup {NoConn}]
    BY <2>1 DEF Goto, TypeOK
  <2>3. /\ vty' \in [Slots -> Vtys] /\ closed' \subseteq Conns /\ ~vty'[at[c]].used
        /\ \A s \in Slots : vty'[s].used => vty[s].used
    BY <2>1, OfflineTyped
  <2> QED
    BY <2>1, <2>2, <2>3
<1> QED
  BY <1>4, <1>5, <1>6, <1>7 DEF Session

(* Marking a vty used or free keeps it well typed.                         *)
LEMMA MarkTyped ==
  ASSUME NEW v \in Vtys, NEW b \in BOOLEAN
  PROVE  [v EXCEPT !.used = b] \in Vtys
  BY DEF Vtys

(* One step of the listener: the vty it takes is in its hands, and then    *)
(* in those of the thread it starts.                                       *)
LEMMA ListenerStep ==
  ASSUME PoolInv, NEW c \in Conns, Accept(c) \/ Reject(c) \/ HandOff
  PROVE  PoolInv'
<1> TypeOK /\ HandedOver /\ VictimIsNext /\ NoVtyLost
  BY DEF PoolInv
<1> VictimIsNext'
  BY DEF VictimIsNext, Accept, Reject, HandOff, operator
<1>1. CASE Accept(c)
  <2>1. PICK s \in Slots : /\ vty' = [vty EXCEPT ![s] = [vty[s] EXCEPT !.used = TRUE]]
                           /\ taken' = [conn |-> c, slot |-> s]
    <3>1. \E s \in Idle : /\ vty' = [vty EXCEPT ![s].used = TRUE]
                          /\ taken' = [conn |-> c, slot |-> s]
      BY <1>1 DEF Accept
    <3>2. Idle \subseteq Slots
      BY DEF Idle
    <3> QED
      BY <3>1, <3>2
  <2>2. UNCHANGED <<peer, closed, tpc, at, sock, aging, operator>>
        /\ lpc' = "handoff" /\ tpc[c] = "none"
    BY <1>1 DEF Accept, sessions
  <2>3. vty[s] \in Vtys /\ [vty[s] EXCEPT !.used = TRUE] \in Vtys
    <3>1. vty[s] \in Vtys
      BY <2>1 DEF TypeOK
    <3> QED
      BY <3>1, MarkTyped
  <2>4. TypeOK'
    BY <2>1, <2>2, <2>3 DEF TypeOK, operator
  <2>5. HandedOver'
    BY <2>1, <2>2 DEF HandedOver
  <2>6. ASSUME NEW t \in Slots, vty'[t].used
        PROVE  \/ taken'.slot = t
               \/ \E d \in Conns : at'[d] = t /\ tpc'[d] \in Live
    <3>1. CASE t = s
      BY <2>1, <3>1
    <3>2. CASE t # s
      <4>1. vty[t].used
        BY <2>1, <2>6, <3>2 DEF TypeOK
      <4>2. lpc # "handoff"
        BY <1>1 DEF Accept
      <4> QED
        BY <2>2, <4>1, <4>2 DEF NoVtyLost
    <3> QED
      BY <3>1, <3>2
  <2> QED
    BY <2>2, <2>4, <2>5, <2>6 DEF PoolInv, NoVtyLost
<1>2. CASE Reject(c)
  <2>1. TypeOK'
    BY <1>2 DEF Reject, TypeOK, listener, sessions, operator
  <2> QED
    BY <1>2, <2>1, PoolStays DEF Reject, PoolInv
<1>3. CASE HandOff
  <2> DEFINE d == taken.conn
             s == taken.slot
  <2>1. d \in Conns /\ tpc[d] = "none" /\ s \in Slots /\ lpc = "handoff"
    BY <1>3 DEF HandOff, HandedOver, TypeOK
  <2>2. /\ vty' = [vty EXCEPT ![s] = [vty[s] EXCEPT !.socket = d]]
        /\ tpc' = [tpc EXCEPT ![d] = "start"]
        /\ at' = [at EXCEPT ![d] = s]
        /\ lpc' = "accept" /\ taken' = Nothing
        /\ UNCHANGED <<peer, closed, sock, aging, operator>>
    BY <1>3 DEF HandOff
  <2>3. vty[s] \in Vtys /\ [vty[s] EXCEPT !.socket = d] \in Vtys
        /\ [vty[s] EXCEPT !.socket = d].used = vty[s].used
    BY <2>1 DEF TypeOK, Vtys
  <2>4. Nothing \in [conn : Conns \cup {NoConn}, slot : Slots]
    BY DEF Nothing, Slots
  <2>5. "start" \in Live /\ "none" \notin Live
    BY DEF Live
  <2> HIDE DEF d, s
  <2>6. TypeOK'
    BY <2>1, <2>2, <2>3, <2>4, <2>5 DEF TypeOK, operator
  <2>7. HandedOver'
    BY <2>2 DEF HandedOver
  <2>8. ASSUME NEW t \in Slots, vty'[t].used
        PROVE  \E e \in Conns : at'[e] = t /\ tpc'[e] \in Live
    <3>1. CASE t = s
      BY <2>1, <2>2, <2>5, <3>1 DEF TypeOK
    <3>2. CASE t # s
      <4>1. vty[t].used
        BY <2>1, <2>2, <2>3, <2>8, <3>2 DEF TypeOK
      <4>2. PICK e \in Conns : at[e] = t /\ tpc[e] \in Live
        BY <3>2, <4>1 DEF NoVtyLost, s
      <4>3. e # d
        BY <2>1, <2>5, <4>2
      <4> QED
        BY <2>1, <2>2, <4>2, <4>3 DEF TypeOK
    <3> QED
      BY <3>1, <3>2
  <2> QED
    BY <2>6, <2>7, <2>8 DEF PoolInv, NoVtyLost
<1> QED
  BY <1>1, <1>2, <1>3

(* One step of the clients, of time and of the timer.                      *)
LEMMA TimerStep ==
  ASSUME PoolInv,
         \/ \E c \in Conns : Connect(c) \/ Disconnect(c)
         \/ Tick \/ (\E s \in Slots : AgeLook(s)) \/ AgeOffline
  PROVE  PoolInv'
<1> TypeOK /\ VictimIsNext
  BY DEF PoolInv
<1>1. UNCHANGED <<listener, sessions, operator>>
  BY DEF Connect, Disconnect, Tick, AgeLook, AgeOffline
<1> SUFFICES TypeOK' /\ \A s \in Slots : vty'[s].used => vty[s].used
  BY <1>1, PoolStays DEF PoolInv, VictimIsNext, operator
<1>2. CASE \E c \in Conns : Connect(c) \/ Disconnect(c)
  BY <1>2 DEF Connect, Disconnect, TypeOK, listener, sessions, operator
<1>3. CASE Tick
  <2>1. ASSUME NEW s \in Slots
        PROVE  vty'[s] \in Vtys /\ vty'[s].used = vty[s].used
    <3> DEFINE older == IF vty[s].idle = 2 THEN 2 ELSE vty[s].idle + 1
    <3>1. vty[s] \in Vtys
      BY DEF TypeOK
    <3>2. older \in 0 .. 2
      BY <3>1 DEF Vtys
    <3>3. vty'[s] = [vty[s] EXCEPT !.idle = older]
      BY <1>3 DEF Tick
    <3> HIDE DEF older
    <3> QED
      BY <3>1, <3>2, <3>3 DEF Vtys
  <2>2. vty' = [s \in Slots |-> vty'[s]]
    BY <1>3 DEF Tick
  <2>3. vty' \in [Slots -> Vtys]
    BY <2>1, <2>2
  <2> QED
    BY <1>3, <2>1, <2>3 DEF Tick, TypeOK, listener, sessions, operator
<1>4. CASE \E s \in Slots : AgeLook(s)
  BY <1>4 DEF AgeLook, TypeOK, listener, sessions, operator
<1>5. CASE AgeOffline
  <2>1. aging \in Slots /\ Offline(aging) /\ aging' = 0
        /\ UNCHANGED <<peer, listener, sessions, operator>>
    BY <1>5 DEF AgeOffline, TypeOK
  <2>2. vty' \in [Slots -> Vtys] /\ closed' \subseteq Conns
        /\ \A s \in Slots : vty'[s].used => vty[s].used
    BY <2>1, OfflineTyped
  <2> QED
    BY <2>1, <2>2 DEF TypeOK, listener, sessions, operator
<1> QED
  BY <1>2, <1>3, <1>4, <1>5

(* One step of the operator.                                               *)
UserCommand ==
  \E u \in Users :
    AddUser(u) \/ SetUserServiceType(u) \/ UndoUserServiceType(u) \/ DelUser(u)

LEMMA OperatorStep ==
  ASSUME PoolInv,
         \/ UserCommand \/ KickLook \/ KickOffline \/ KickDone
         \/ (\E m \in Modes : SetMode(m)) \/ KillAllStep \/ KillAllDone
  PROVE  PoolInv'
<1> TypeOK /\ VictimIsNext
  BY DEF PoolInv
<1>1. UNCHANGED <<peer, listener, sessions, aging>>
  BY DEF UserCommand, AddUser, SetUserServiceType, UndoUserServiceType, DelUser,
         KickLook, KickOffline, KickDone, SetMode, KillAllStep, KillAllDone
<1> DEFINE PoolOK ==
      /\ vty' \in [Slots -> Vtys] /\ closed' \subseteq Conns
      /\ \A s \in Slots : vty'[s].used => vty[s].used
    OperatorOK ==
      /\ mode' \in AllModes
      /\ account' \in [Users -> {"none", "plain", "telnet"}]
      /\ cmd' \in [kind : {"idle", "user", "all"}, user : Names, mode : AllModes]
      /\ next' \in 1 .. MaxUserNum + 1
      /\ victim' \in Slots \cup {0}
      /\ commands' \in 0 .. MaxCommands
<1> SUFFICES PoolOK /\ OperatorOK /\ VictimIsNext'
  <2>1. TypeOK'
    BY <1>1 DEF TypeOK, listener, sessions
  <2> QED
    BY <1>1, <2>1, PoolStays DEF PoolInv
<1>2. UNCHANGED <<vty, closed>> => PoolOK
  BY DEF TypeOK
<1>3. ASSUME NEW s \in Slots, Offline(s) PROVE PoolOK
  BY <1>3, OfflineTyped
<1>4. 1 \in 1 .. MaxUserNum + 1 /\ NoCmd.kind = "idle"
      /\ NoCmd \in [kind : {"idle", "user", "all"}, user : Names, mode : AllModes]
  BY DEF NoCmd, Names, AllModes
<1>5. CASE UserCommand
  <2>1. PICK u \in Users : AddUser(u) \/ SetUserServiceType(u)
                          \/ UndoUserServiceType(u) \/ DelUser(u)
    BY <1>5 DEF UserCommand
  <2>2. commands' \in 0 .. MaxCommands /\ cmd.kind = "idle" /\ victim' = victim
        /\ UNCHANGED <<vty, closed, mode>>
    BY <2>1 DEF AddUser, SetUserServiceType, UndoUserServiceType, DelUser, Command,
                TypeOK
  <2>3. account' \in [Users -> {"none", "plain", "telnet"}]
    BY <2>1 DEF AddUser, SetUserServiceType, UndoUserServiceType, DelUser, TypeOK
  <2>4. Kick(u) \in [kind : {"idle", "user", "all"}, user : Names, mode : AllModes]
    BY <2>1 DEF Kick, Names, AllModes
  <2>5. UNCHANGED <<cmd, next>> \/ Notify(u)
    BY <2>1 DEF AddUser, SetUserServiceType, UndoUserServiceType, DelUser
  <2>6. cmd' \in [kind : {"idle", "user", "all"}, user : Names, mode : AllModes]
        /\ next' \in 1 .. MaxUserNum + 1
    BY <2>4, <2>5, <1>4 DEF Notify, TypeOK
  <2>7. victim' = 0
    BY <2>2 DEF VictimIsNext
  <2> QED
    BY <1>2, <2>2, <2>3, <2>6, <2>7 DEF TypeOK, VictimIsNext
<1>6. CASE KickLook
  BY <1>2, <1>6 DEF KickLook, TypeOK, VictimIsNext, Slots
<1>7. CASE KickOffline
  <2>1. victim \in Slots /\ next = victim
    BY <1>7 DEF KickOffline, TypeOK, VictimIsNext
  <2>2. next + 1 \in 1 .. MaxUserNum + 1
    BY <2>1 DEF Slots
  <2>3. PoolOK
    BY <1>3, <1>7, <2>1 DEF KickOffline
  <2> QED
    BY <1>7, <2>2, <2>3 DEF KickOffline, TypeOK, VictimIsNext
<1>8. CASE KickDone \/ KillAllDone
  <2>1. victim = 0
    BY <1>8 DEF KickDone, KillAllDone, VictimIsNext
  <2>2. mode' \in AllModes
    BY <1>8 DEF KickDone, KillAllDone, TypeOK
  <2> QED
    BY <1>2, <1>4, <1>8, <2>1, <2>2 DEF KickDone, KillAllDone, TypeOK, VictimIsNext
<1>9. CASE \E m \in Modes : SetMode(m)
  <2>1. PICK m \in Modes : SetMode(m)
    BY <1>9
  <2>2. KillAll(m) \in [kind : {"idle", "user", "all"}, user : Names, mode : AllModes]
    BY <2>1 DEF KillAll, Names
  <2>3. cmd' \in [kind : {"idle", "user", "all"}, user : Names, mode : AllModes]
    BY <2>1, <2>2 DEF SetMode
  <2>4. victim' = 0 /\ commands' \in 0 .. MaxCommands
    BY <2>1 DEF SetMode, Command, VictimIsNext, TypeOK
  <2> QED
    BY <1>2, <2>1, <2>3, <2>4 DEF SetMode, TypeOK, VictimIsNext
<1>10. CASE KillAllStep
  <2>1. next \in Slots /\ next + 1 \in 1 .. MaxUserNum + 1 /\ victim = 0
    BY <1>10 DEF KillAllStep, TypeOK, Slots, VictimIsNext
  <2>2. PoolOK
    BY <1>3, <1>10, <2>1 DEF KillAllStep
  <2> QED
    BY <1>10, <2>1, <2>2 DEF KillAllStep, TypeOK, VictimIsNext
<1> QED
  BY <1>5, <1>6, <1>7, <1>8, <1>9, <1>10

-----------------------------------------------------------------------------
LEMMA PoolStep == PoolInv /\ [Next]_vars => PoolInv'
<1> SUFFICES ASSUME PoolInv, [Next]_vars PROVE PoolInv'
  OBVIOUS
<1>1. CASE Next
  <2>1. CASE \E c \in Conns : Accept(c) \/ Reject(c) \/ Session(c)
    BY <2>1, SessionStep, ListenerStep
  <2>2. CASE HandOff
    <3>1. \E c \in Conns : TRUE
      BY <2>2 DEF HandOff, PoolInv, HandedOver
    <3> QED
      BY <2>2, <3>1, ListenerStep
  <2>3. CASE \/ \E c \in Conns : Connect(c) \/ Disconnect(c)
             \/ Tick \/ (\E s \in Slots : AgeLook(s)) \/ AgeOffline
    BY <2>3, TimerStep
  <2>4. CASE \/ UserCommand \/ KickLook \/ KickOffline \/ KickDone
             \/ (\E m \in Modes : SetMode(m)) \/ KillAllStep \/ KillAllDone
    BY <2>4, OperatorStep
  <2> QED
    BY <1>1, <2>1, <2>2, <2>3, <2>4 DEF Next, UserCommand
<1>2. CASE UNCHANGED vars
  <2>1. UNCHANGED <<listener, sessions, vty>>
    BY <1>2 DEF vars
  <2>2. TypeOK' /\ VictimIsNext'
    BY <1>2 DEF vars, listener, sessions, operator, PoolInv, TypeOK, VictimIsNext
  <2> QED
    BY <2>1, <2>2, PoolStays DEF PoolInv
<1> QED
  BY <1>1, <1>2

(* The inductive invariant of the pool, whatever its size.                 *)
THEOREM PoolInvariant == Spec => []PoolInv
BY InitPool, PoolStep, PTL DEF Spec

(* Every variable of the pool keeps its type; so the loops over the vtys   *)
(* stay within the pool.                                                   *)
THEOREM TypeCorrect == Spec => []TypeOK
<1>1. PoolInv => TypeOK
  BY DEF PoolInv
<1> QED
  BY <1>1, PoolInvariant, PTL

(* No vty is lost: each one in use has a thread that will take it offline, *)
(* although timer, commands and other threads free and reuse it meanwhile. *)
THEOREM NothingLost == Spec => []NoVtyLost
<1>1. PoolInv => NoVtyLost
  BY DEF PoolInv
<1> QED
  BY <1>1, PoolInvariant, PTL

-----------------------------------------------------------------------------
(* Stale looks at one vty, the accounts and the loop of a notification.    *)
LEMMA StaleUnchanged ==
  ASSUME NEW s \in Slots, UNCHANGED <<mode, account, cmd, next>>,
         UNCHANGED <<vty[s].used, vty[s].state, vty[s].user>>
  PROVE  Stale(s)' = Stale(s)
  BY DEF Stale, Matches

LEMMA StaleIsOnline ==
  ASSUME NEW s \in Slots
  PROVE  Stale(s)' => /\ vty'[s].used /\ vty'[s].state = 1 /\ mode' = "aaa"
                      /\ vty'[s].user \in Users
  BY DEF Stale, Matches

(* Which steps bring a stale user about.                                   *)
LEMMA StaleStep ==
  ASSUME PoolInv, Next, NEW s \in Slots, ~Stale(s), Stale(s)'
  PROVE  LogsIn(s) \/ TakenOnline(s) \/ mode' # mode
<1> SUFFICES ASSUME ~LogsIn(s), ~TakenOnline(s), mode' = mode
             PROVE  FALSE
  OBVIOUS
<1> TypeOK /\ VictimIsNext
  BY DEF PoolInv
<1> vty[s] \in Vtys /\ \A c \in Conns : at[c] \in Slots
  BY DEF TypeOK
<1> DEFINE Kept == UNCHANGED <<vty[s].used, vty[s].state, vty[s].user>>
<1>1. ASSUME UNCHANGED <<mode, account, cmd, next>>, Kept \/ ~vty'[s].used
      PROVE  FALSE
  BY <1>1, StaleUnchanged, StaleIsOnline
<1>2. ASSUME NEW t \in Slots, Offline(t)
      PROVE  Kept \/ ~vty'[s].used
  BY <1>2, OfflineTyped
<1>3. ASSUME NEW c \in Conns, Connect(c) \/ Disconnect(c) \/ Reject(c)
      PROVE  FALSE
  BY <1>1, <1>3 DEF Connect, Disconnect, Reject, operator
<1>4. ASSUME NEW c \in Conns, Accept(c) PROVE FALSE
  <2>1. PICK t \in Idle : vty' = [vty EXCEPT ![t].used = TRUE]
    BY <1>4 DEF Accept
  <2>2. t \in Slots /\ ~vty[t].used
    BY <2>1 DEF Idle
  <2>3. CASE t = s
    <3>1. vty'[s].used /\ vty'[s].state = vty[s].state
      BY <2>1, <2>2, <2>3 DEF TypeOK, Vtys
    <3> QED
      BY <2>2, <2>3, <3>1, StaleIsOnline DEF TakenOnline
  <2>4. CASE t # s
    <3>1. vty'[s] = vty[s]
      BY <2>1, <2>2, <2>4 DEF TypeOK
    <3> QED
      BY <1>1, <1>4, <3>1 DEF Accept, operator
  <2> QED
    BY <2>3, <2>4
<1>5. CASE HandOff
  <2>1. vty' = [vty EXCEPT ![taken.slot] = [vty[taken.slot] EXCEPT !.socket = taken.conn]]
    BY <1>5 DEF HandOff
  <2>2. Kept
    BY <2>1 DEF TypeOK, Vtys
  <2> QED
    BY <1>1, <1>5, <2>2 DEF HandOff, operator
<1>6. ASSUME NEW c \in Conns, Session(c) PROVE FALSE
  <2> at[c] \in Slots /\ vty[at[c]] \in Vtys
    BY DEF TypeOK
  <2>1. UNCHANGED <<mode, account, cmd, next>>
    BY <1>6 DEF Session, Start, Hello, AccessFree, AccessAsks, Name, Login, LoginFails,
         GoOnline, Read, Character, SessionEnds, Leave, operator
  <2>2. CASE Start(c) \/ AccessAsks(c) \/ Name(c) \/ Read(c) \/ SessionEnds(c)
    BY <1>1, <2>1, <2>2 DEF Start, AccessAsks, Name, Read, SessionEnds
  <2>3. CASE Hello(c)
    <3>1. vty' = [vty EXCEPT ![at[c]] = [vty[at[c]] EXCEPT !.idle = 0]]
      BY <2>3 DEF Hello
    <3> QED
      BY <1>1, <2>1, <3>1 DEF TypeOK, Vtys
  <2>4. CASE AccessFree(c)
    BY <2>4, StaleIsOnline DEF AccessFree
  <2>5. CASE Login(c) \/ GoOnline(c)
    <3>1. /\ tpc[c] \in {"password", "granted"} /\ tpc'[c] # tpc[c]
          /\ \A t \in Slots : t # at[c] => vty'[t] = vty[t]
      BY <2>5 DEF Login, GoOnline, Goto, TypeOK
    <3>2. s # at[c]
      BY <3>1 DEF LogsIn
    <3> QED
      BY <1>1, <2>1, <3>1, <3>2
  <2>6. CASE LoginFails(c) \/ Leave(c)
    BY <1>1, <1>2, <2>1, <2>6 DEF LoginFails, Leave
  <2>7. CASE Character(c)
    <3>1. CASE vty' = [vty EXCEPT ![at[c]].idle = 0]
      <4>1. vty' = [vty EXCEPT ![at[c]] = [vty[at[c]] EXCEPT !.idle = 0]]
        BY <3>1
      <4> QED
        BY <1>1, <2>1, <4>1 DEF TypeOK, Vtys
    <3>2. CASE vty' = [vty EXCEPT ![at[c]] = [Freed(vty[at[c]]) EXCEPT !.idle = 0]]
      <4>1. ~[Freed(vty[at[c]]) EXCEPT !.idle = 0].used
        BY FreedTyped DEF Vtys
      <4>2. vty'[s] = vty[s] \/ ~vty'[s].used
        BY <3>2, <4>1 DEF TypeOK
      <4> QED
        BY <1>1, <2>1, <4>2
    <3> QED
      BY <2>7, <3>1, <3>2 DEF Character
  <2> QED
    BY <1>6, <2>2, <2>3, <2>4, <2>5, <2>6, <2>7 DEF Session
<1>7. CASE Tick
  <2>1. vty'[s] = [vty[s] EXCEPT !.idle = IF @ = 2 THEN 2 ELSE @ + 1]
    BY <1>7 DEF Tick
  <2>2. Kept
    BY <2>1 DEF Vtys
  <2> QED
    BY <1>1, <1>7, <2>2 DEF Tick, operator
<1>8. CASE (\E t \in Slots : AgeLook(t)) \/ AgeOffline
  <2>1. Kept \/ ~vty'[s].used
    BY <1>2, <1>8 DEF AgeLook, AgeOffline, TypeOK
  <2> QED
    BY <1>1, <1>8, <2>1 DEF AgeLook, AgeOffline, operator
<1>9. ASSUME NEW u \in Users, \/ AddUser(u) \/ SetUserServiceType(u)
                              \/ UndoUserServiceType(u) \/ DelUser(u)
      PROVE  FALSE
  <2> DEFINE v == vty[s].user
  <2>1. UNCHANGED vty /\ cmd.kind = "idle" /\ mode = "aaa" /\ v \in Users
    BY <1>9, StaleIsOnline DEF AddUser, SetUserServiceType, UndoUserServiceType,
         DelUser, Command
  <2>2. account[v] = "telnet"
    BY <2>1 DEF Stale, Matches
  <2>3. account'[v] # "telnet"
    BY <2>1 DEF Stale
  <2>4. v = u /\ Notify(u)
    BY <1>9, <2>1, <2>2, <2>3
       DEF AddUser, SetUserServiceType, UndoUserServiceType, DelUser, TypeOK
  <2>5. cmd'.kind = "user" /\ cmd'.user = v /\ next' <= s
    BY <2>1, <2>4 DEF Notify, Kick, Slots
  <2> QED
    BY <2>1, <2>5 DEF Stale
<1>10. CASE KickLook
  <2>1. UNCHANGED <<vty, mode, account, cmd>> /\ cmd.kind = "user" /\ next \in Slots
    BY <1>10 DEF KickLook, TypeOK, Slots
  <2>2. next' # next
    BY <1>1, <2>1
  <2>3. next' = next + 1 /\ ~Matches(next, cmd.user)
    BY <1>10, <2>2 DEF KickLook
  <2>4. cmd.user = vty[s].user /\ next <= s /\ ~(next' <= s)
    BY <2>1 DEF Stale, Matches
  <2>5. next = s
    BY <2>1, <2>3, <2>4 DEF Slots
  <2> QED
    BY <2>1, <2>3, <2>4, <2>5 DEF Stale, Matches
<1>11. CASE KickOffline
  <2>1. UNCHANGED <<mode, account, cmd>> /\ victim = next /\ victim \in Slots
        /\ next' = next + 1 /\ Offline(victim)
    BY <1>11 DEF KickOffline, TypeOK, VictimIsNext
  <2>2. s # victim
    BY <2>1, OfflineTyped, StaleIsOnline
  <2>3. vty'[s] = vty[s]
    BY <2>1, <2>2, OfflineTyped
  <2>4. next <= s /\ ~(next' <= s)
    BY <2>1, <2>3 DEF Stale, Matches
  <2> QED
    BY <2>1, <2>2, <2>4 DEF Slots
<1>12. CASE KickDone
  <2>1. UNCHANGED <<vty, mode, account>> /\ ~(next <= s)
    BY <1>12 DEF KickDone, Slots
  <2> QED
    BY <2>1 DEF Stale, Matches
<1>13. ASSUME NEW m \in Modes, SetMode(m) PROVE FALSE
  <2>1. UNCHANGED <<vty, mode, account>> /\ cmd.kind = "idle"
    BY <1>13 DEF SetMode, Command
  <2> QED
    BY <2>1 DEF Stale, Matches
<1>14. CASE KillAllStep
  <2>1. UNCHANGED <<mode, account, cmd>> /\ cmd.kind = "all" /\ next \in Slots
        /\ Offline(next)
    BY <1>14 DEF KillAllStep, TypeOK, Slots
  <2>2. Kept
    BY <1>2, <2>1, StaleIsOnline
  <2> QED
    BY <2>1, <2>2 DEF Stale, Matches
<1>15. CASE KillAllDone
  <2>1. UNCHANGED <<vty, mode, account>> /\ cmd.kind = "all"
    BY <1>15 DEF KillAllDone
  <2> QED
    BY <2>1 DEF Stale, Matches
<1> QED
  BY <1>3, <1>4, <1>5, <1>6, <1>7, <1>8, <1>9, <1>10, <1>11, <1>12, <1>13, <1>14,
     <1>15 DEF Next

(* A user without the telnet service comes online in three ways only, all  *)
(* of them races of its own login, of a vty marked online after it was     *)
(* freed, and of a change of mode: the notification misses no other.       *)
THEOREM StaleUsers == Spec => StaleOnlyByLogin
<1> DEFINE Step == \A s \in Slots :
             ~Stale(s) /\ Stale(s)' => LogsIn(s) \/ TakenOnline(s) \/ mode' # mode
<1>1. PoolInv /\ [Next]_vars => [Step]_vars
  <2>1. PoolInv /\ Next => Step
    BY StaleStep
  <2> QED
    BY <2>1
<1>2. Spec => [][Step]_vars
  BY <1>1, PoolInvariant, PTL DEF Spec
<1> QED
  BY <1>2 DEF StaleOnlyByLogin
=============================================================================
