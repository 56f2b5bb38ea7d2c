----------------------------- MODULE TelnetVty -----------------------------
(***************************************************************************)
(* The telnet server of JungleOS and the pool of vtys it serves            *)
(* (telnet/telnet_server.cpp, cli/cli_vty.cpp), with the AAA users that    *)
(* may log in (aaa/aaa.cpp).                                               *)
(*                                                                         *)
(* The listener gives each connection a free vty and a session thread.     *)
(* The thread works on the vty, not on the connection: it authenticates,   *)
(* reads characters and takes the vty offline in the end.  Others take     *)
(* vtys offline too: the timer that ages them, commands that delete or     *)
(* change a user, and commands that change the authentication mode.  No    *)
(* lock protects a vty, and a thread does not learn that it has lost it.   *)
(***************************************************************************)
EXTENDS Integers, FiniteSets

CONSTANTS
  MaxUserNum,   (* CMD_VTY_MAXUSER_NUM, the telnet vtys of the pool        *)
  Conns,        (* the connections that clients open, once each            *)
  NoConn,       (* INVALID_SOCKET                                          *)
  Users,        (* the user names in play                                  *)
  Modes,        (* the authentication modes the operator sets              *)
  MaxAccounts,  (* AAA_USER_MAX_NUM                                        *)
  MaxCommands   (* bound on the commands of the operator                   *)

AllModes == {"none", "password", "aaa"}

ASSUME PoolAssumption    == MaxUserNum \in Nat \ {0}
ASSUME ConnsAssumption   == NoConn \notin Conns
ASSUME UsersAssumption   == IsFiniteSet(Users) /\ Users \cap {"", "local"} = {}
ASSUME ModesAssumption   == Modes \subseteq AllModes
ASSUME BoundsAssumption  == MaxAccounts \in Nat /\ MaxCommands \in Nat

VARIABLES
  vty,       (* g_telnet_vty                                               *)
  peer,      (* the client's end of each connection                        *)
  closed,    (* the connections the server has closed                      *)
  lpc,       (* where the listener is                                      *)
  taken,     (* the connection and the vty in its hands                    *)
  tpc,       (* where the session thread of each connection is             *)
  at,        (* the vty it works on                                        *)
  sock,      (* the socket it receives from                                *)
  aging,     (* the vty the timer is about to take offline, or 0           *)
  mode,      (* g_TelnetAuthMode                                           *)
  account,   (* g_stAAAUser by name: no user, a user, one for telnet       *)
  cmd,       (* the command in progress that takes vtys offline            *)
  next,      (* the vty its loop is at                                     *)
  victim,    (* the vty it is about to take offline, or 0                  *)
  commands   (* how many commands the operator has given                   *)

listener == <<lpc, taken>>
sessions == <<tpc, at, sock>>
operator == <<mode, account, cmd, next, victim, commands>>
vars     == <<vty, peer, closed, listener, sessions, aging, operator>>

-----------------------------------------------------------------------------
(* Data.                                                                   *)

Slots == 1 .. MaxUserNum
Names == Users \cup {"", "local"}

(* The parts of CMD_VTY_S and its user that other threads look at.  idle   *)
(* is the age of lastAccessTime: 0, 1 past two minutes, 2 past two days.   *)
Vtys ==
  [used : BOOLEAN, socket : Conns \cup {NoConn}, state : {0, 1},
   user : Names, idle : 0 .. 2]

Nothing  == [conn |-> NoConn, slot |-> 1]
NoCmd    == [kind |-> "idle", user |-> "", mode |-> "none"]
Kick(u)  == [kind |-> "user", user |-> u, mode |-> "none"]
KillAll(m) == [kind |-> "all", user |-> "", mode |-> m]
Live     == {"start", "hello", "access", "name", "password", "granted", "read",
             "recv", "leave"}

TypeOK ==
  /\ vty \in [Slots -> Vtys]
  /\ peer \in [Conns -> {"away", "open", "gone"}]
  /\ closed \subseteq Conns
  /\ lpc \in {"accept", "handoff"}
  /\ taken \in [conn : Conns \cup {NoConn}, slot : Slots]
  /\ tpc \in [Conns -> Live \cup {"none", "done"}]
  /\ at \in [Conns -> Slots]
  /\ sock \in [Conns -> Conns \cup {NoConn}]
  /\ aging \in Slots \cup {0}
  /\ mode \in AllModes
  /\ account \in [Users -> {"none", "plain", "telnet"}]
  /\ cmd \in [kind : {"idle", "user", "all"}, user : Names, mode : AllModes]
  /\ next \in 1 .. MaxUserNum + 1
  /\ victim \in Slots \cup {0}
  /\ commands \in 0 .. MaxCommands

(* cmd_vty_init.  It leaves lastAccessTime alone; that of a fresh vty is   *)
(* zeroed memory, older than any age.                                      *)
FreshVty ==
  [used |-> FALSE, socket |-> NoConn, state |-> 0, user |-> "", idle |-> 2]
Freed(v) ==
  [v EXCEPT !.used = FALSE, !.socket = NoConn, !.state = 0, !.user = ""]

(* vty_offline.                                                            *)
Close(s) == closed' = closed \cup ({vty[s].socket} \ {NoConn})
Offline(s) == vty' = [vty EXCEPT ![s] = Freed(@)] /\ Close(s)

-----------------------------------------------------------------------------
(* The clients.                                                            *)

Connect(c) ==
  /\ peer[c] = "away"
  /\ peer' = [peer EXCEPT ![c] = "open"]
  /\ UNCHANGED <<vty, closed, listener, sessions, aging, operator>>

Disconnect(c) ==
  /\ peer[c] = "open"
  /\ peer' = [peer EXCEPT ![c] = "gone"]
  /\ UNCHANGED <<vty, closed, listener, sessions, aging, operator>>

(* What recv on a socket may return: a character while the other side is   *)
(* there, or a failure once it has gone or the socket is closed.  A recv   *)
(* that already waits when another thread closes the socket still gets     *)
(* what comes.                                                             *)
Data(x) == x # NoConn /\ peer[x] = "open"
Fails(x) == x \in Conns => x \in closed \/ peer[x] = "gone"

-----------------------------------------------------------------------------
(* The listener: cmd_get_idle_vty takes the first free vty, then the       *)
(* socket is stored in it and the thread is started.                       *)

Idle == {s \in Slots : ~vty[s].used}

Accept(c) ==
  /\ lpc = "accept" /\ peer[c] # "away" /\ tpc[c] = "none" /\ c \notin closed
  /\ \E s \in Idle :
       /\ \A t \in Idle : s <= t
       /\ vty' = [vty EXCEPT ![s].used = TRUE]
       /\ taken' = [conn |-> c, slot |-> s]
  /\ lpc' = "handoff"
  /\ UNCHANGED <<peer, closed, sessions, aging, operator>>

Reject(c) ==
  /\ lpc = "accept" /\ peer[c] # "away" /\ tpc[c] = "none" /\ c \notin closed
  /\ Idle = {}
  /\ closed' = closed \cup {c}
  /\ UNCHANGED <<vty, peer, listener, sessions, aging, operator>>

HandOff ==
  /\ lpc = "handoff" /\ lpc' = "accept"
  /\ LET c == taken.conn IN
       /\ vty' = [vty EXCEPT ![taken.slot].socket = c]
       /\ tpc' = [tpc EXCEPT ![c] = "start"]
       /\ at' = [at EXCEPT ![c] = taken.slot]
  /\ taken' = Nothing
  /\ UNCHANGED <<peer, closed, sock, aging, operator>>

-----------------------------------------------------------------------------
(* TELNET_SessionThread of connection c.                                   *)

(* A recv is on the socket that the thread has just read from its vty.     *)
Goto(c, label) ==
  /\ tpc' = [tpc EXCEPT ![c] = label]
  /\ sock' = [sock EXCEPT ![c] = NoConn]
Receive(c, label) ==
  /\ tpc' = [tpc EXCEPT ![c] = label]
  /\ sock' = [sock EXCEPT ![c] = vty[at[c]].socket]

(* TELNET_Send_Will asks and waits for an answer, whatever it is.          *)
Start(c) ==
  /\ tpc[c] = "start" /\ Receive(c, "hello")
  /\ UNCHANGED <<vty, peer, closed, listener, at, aging, operator>>

Hello(c) ==
  /\ tpc[c] = "hello" /\ Goto(c, "access")
  /\ Data(sock[c]) \/ Fails(sock[c])
  /\ vty' = [vty EXCEPT ![at[c]].idle = 0]
  /\ UNCHANGED <<peer, closed, listener, at, aging, operator>>

(* TELNET_DoUserAccess.                                                    *)
AccessFree(c) ==
  /\ tpc[c] = "access" /\ mode = "none" /\ Goto(c, "granted")
  /\ vty' = [vty EXCEPT ![at[c]].user = ""]
  /\ UNCHANGED <<peer, closed, listener, at, aging, operator>>

AccessAsks(c) ==
  /\ tpc[c] = "access" /\ mode # "none" /\ Receive(c, "name")
  /\ UNCHANGED <<vty, peer, closed, listener, at, aging, operator>>

(* Each TELNET_RecvBuff reads the socket of the vty anew.                  *)
Name(c) ==
  /\ tpc[c] = "name" /\ Receive(c, "password")
  /\ Data(sock[c]) \/ Fails(sock[c])
  /\ UNCHANGED <<vty, peer, closed, listener, at, aging, operator>>

Accepted(u) ==
  \/ mode = "password" /\ u = "local"
  \/ mode = "aaa" /\ u \in Users /\ account[u] = "telnet"

Login(c) ==
  /\ tpc[c] = "password" /\ Goto(c, "granted")
  /\ Data(sock[c])
  /\ \E u \in Names : Accepted(u) /\ vty' = [vty EXCEPT ![at[c]].user = u]
  /\ UNCHANGED <<peer, closed, listener, at, aging, operator>>

(* Mutant: a failed login leaves the vty in use.                           *)
LoginFailsHeld(c) ==
  /\ tpc[c] = "password" /\ Goto(c, "done")
  /\ Data(sock[c]) \/ Fails(sock[c])
  /\ UNCHANGED <<vty, peer, closed, listener, at, aging, operator>>

LoginFails(c) ==
  /\ tpc[c] = "password" /\ Goto(c, "done")
  /\ Data(sock[c]) \/ Fails(sock[c])
  /\ Offline(at[c])
  /\ UNCHANGED <<peer, listener, at, aging, operator>>

GoOnline(c) ==
  /\ tpc[c] = "granted" /\ Goto(c, "read")
  /\ vty' = [vty EXCEPT ![at[c]].state = 1, ![at[c]].idle = 0]
  /\ UNCHANGED <<peer, closed, listener, at, aging, operator>>

(* cmd_fsm: vty_getchar reads the socket of the vty anew for every one.    *)
Read(c) ==
  /\ tpc[c] = "read" /\ Receive(c, "recv")
  /\ UNCHANGED <<vty, peer, closed, listener, at, aging, operator>>

(* A character, on a vty that is in use: it is worked on; or it ends a     *)
(* `quit' command, which takes the vty offline and returns to the loop.    *)
Character(c) ==
  /\ tpc[c] = "recv" /\ Data(sock[c]) /\ vty[at[c]].used
  /\ Goto(c, "read")
  /\ \/ vty' = [vty EXCEPT ![at[c]].idle = 0] /\ UNCHANGED closed
     \/ /\ vty' = [vty EXCEPT ![at[c]] = [Freed(@) EXCEPT !.idle = 0]]
        /\ Close(at[c])
  /\ UNCHANGED <<peer, listener, at, aging, operator>>

SessionEnds(c) ==
  /\ tpc[c] = "recv" /\ Goto(c, "leave")
  /\ Fails(sock[c]) \/ (Data(sock[c]) /\ ~vty[at[c]].used)
  /\ UNCHANGED <<vty, peer, closed, listener, at, aging, operator>>

(* Mutant: the thread ends without taking its vty offline.                 *)
LeaveHeld(c) ==
  /\ tpc[c] = "leave" /\ Goto(c, "done")
  /\ UNCHANGED <<vty, peer, closed, listener, at, aging, operator>>

Leave(c) ==
  /\ tpc[c] = "leave" /\ Goto(c, "done")
  /\ Offline(at[c])
  /\ UNCHANGED <<peer, listener, at, aging, operator>>

Session(c) ==
  \/ Start(c) \/ Hello(c) \/ AccessFree(c) \/ AccessAsks(c) \/ Name(c)
  \/ Login(c) \/ LoginFails(c) \/ GoOnline(c) \/ Read(c) \/ Character(c)
  \/ SessionEnds(c) \/ Leave(c)

-----------------------------------------------------------------------------
(* TELNET_AgingIdleVty.  Time passes for all vtys.                         *)

Tick ==
  /\ vty' = [s \in Slots |-> [vty[s] EXCEPT !.idle = IF @ = 2 THEN 2 ELSE @ + 1]]
  /\ vty' # vty
  /\ UNCHANGED <<peer, closed, listener, sessions, aging, operator>>

TooOld(v) == v.used /\ v.idle > v.state

AgeLook(s) ==
  /\ aging = 0 /\ TooOld(vty[s])
  /\ aging' = s
  /\ UNCHANGED <<vty, peer, closed, listener, sessions, operator>>

AgeOffline ==
  /\ aging # 0 /\ aging' = 0
  /\ Offline(aging)
  /\ UNCHANGED <<peer, listener, sessions, operator>>

-----------------------------------------------------------------------------
(* The commands of the operator, one at a time.                            *)

Command ==
  /\ cmd.kind = "idle" /\ commands < MaxCommands
  /\ commands' = commands + 1

(* Mutant: the loop over the vtys begins with the second.                  *)
NotifyFromSecond(u) ==
  /\ cmd' = IF mode = "aaa" THEN Kick(u) ELSE NoCmd
  /\ next' = 2

(* Mutant: it begins before the first.                                     *)
NotifyBeforeFirst(u) ==
  /\ cmd' = IF mode = "aaa" THEN Kick(u) ELSE NoCmd
  /\ next' = 0

(* AAA_EvtNotify: the callback TELNET_EVT_UserKill looks for the user on   *)
(* the vtys in AAA mode only.                                              *)
Notify(u) ==
  /\ cmd' = IF mode = "aaa" THEN Kick(u) ELSE NoCmd
  /\ next' = 1

Accounts == {u \in Users : account[u] # "none"}

(* A new user, or a new password of one.                                   *)
AddUser(u) ==
  /\ Command
  /\ \/ account[u] # "none" /\ UNCHANGED account
     \/ /\ account[u] = "none" /\ Cardinality(Accounts) < MaxAccounts
        /\ account' = [account EXCEPT ![u] = "plain"]
  /\ Notify(u)
  /\ UNCHANGED <<vty, peer, closed, listener, sessions, aging, mode, victim>>

SetUserServiceType(u) ==
  /\ Command
  /\ account[u] # "none"
  /\ account' = [account EXCEPT ![u] = "telnet"]
  /\ UNCHANGED <<vty, peer, closed, listener, sessions, aging, mode, cmd, next, victim>>

UndoUserServiceType(u) ==
  /\ Command
  /\ account[u] # "none"
  /\ account' = [account EXCEPT ![u] = "plain"]
  /\ Notify(u)
  /\ UNCHANGED <<vty, peer, closed, listener, sessions, aging, mode, victim>>

DelUser(u) ==
  /\ Command
  /\ account[u] # "none"
  /\ account' = [account EXCEPT ![u] = "none"]
  /\ Notify(u)
  /\ UNCHANGED <<vty, peer, closed, listener, sessions, aging, mode, victim>>

(* vty_offline_by_username.                                                *)
Matches(s, u) == vty[s].used /\ vty[s].state = 1 /\ vty[s].user = u

KickLook ==
  /\ cmd.kind = "user" /\ victim = 0 /\ next <= MaxUserNum
  /\ IF Matches(next, cmd.user)
     THEN victim' = next /\ UNCHANGED next
     ELSE next' = next + 1 /\ UNCHANGED victim
  /\ UNCHANGED <<vty, peer, closed, listener, sessions, aging, mode, account, cmd, commands>>

KickOffline ==
  /\ victim # 0 /\ victim' = 0
  /\ next' = next + 1
  /\ Offline(victim)
  /\ UNCHANGED <<peer, listener, sessions, aging, mode, account, cmd, commands>>

KickDone ==
  /\ cmd.kind = "user" /\ victim = 0 /\ next = MaxUserNum + 1
  /\ cmd' = NoCmd /\ next' = 1
  /\ UNCHANGED <<vty, peer, closed, listener, sessions, aging, mode, account, victim, commands>>

(* A new authentication mode, or new credentials in password mode, take    *)
(* all vtys offline first.  The index of vty_offile_all is compared with 0 *)
(* and never set: the loop begins wherever the stack left it, below 0, at  *)
(* some vty or past the last.                                              *)
SetMode(m) ==
  /\ Command
  /\ mode # m \/ m = "password"
  /\ cmd' = KillAll(m)
  /\ next' \in 1 .. MaxUserNum + 1
  /\ UNCHANGED <<vty, peer, closed, listener, sessions, aging, mode, account, victim>>

KillAllStep ==
  /\ cmd.kind = "all" /\ next <= MaxUserNum
  /\ next' = next + 1
  /\ Offline(next)
  /\ UNCHANGED <<peer, listener, sessions, aging, mode, account, cmd, victim, commands>>

KillAllDone ==
  /\ cmd.kind = "all" /\ next = MaxUserNum + 1
  /\ mode' = cmd.mode
  /\ cmd' = NoCmd /\ next' = 1
  /\ UNCHANGED <<vty, peer, closed, listener, sessions, aging, account, victim, commands>>

-----------------------------------------------------------------------------

(* The saved configuration has set the mode and the users.                 *)
Init ==
  /\ vty = [s \in Slots |-> FreshVty]
  /\ peer = [c \in Conns |-> "away"] /\ closed = {}
  /\ lpc = "accept" /\ taken = Nothing
  /\ tpc = [c \in Conns |-> "none"]
  /\ at = [c \in Conns |-> 1] /\ sock = [c \in Conns |-> NoConn]
  /\ aging = 0
  /\ mode \in Modes
  /\ account \in [Users -> {"none", "plain", "telnet"}]
  /\ Cardinality(Accounts) <= MaxAccounts
  /\ cmd = NoCmd /\ next = 1 /\ victim = 0 /\ commands = 0

Next ==
  \/ \E c \in Conns : Connect(c) \/ Disconnect(c)
  \/ \E c \in Conns : Accept(c) \/ Reject(c)
  \/ HandOff
  \/ \E c \in Conns : Session(c)
  \/ Tick \/ (\E s \in Slots : AgeLook(s)) \/ AgeOffline
  \/ \E u \in Users :
       AddUser(u) \/ SetUserServiceType(u) \/ UndoUserServiceType(u) \/ DelUser(u)
  \/ KickLook \/ KickOffline \/ KickDone
  \/ (\E m \in Modes : SetMode(m)) \/ KillAllStep \/ KillAllDone

Spec == Init /\ [][Next]_vars

(* The listener and the session threads take their steps, but a thread may *)
(* wait for a silent client for ever.  Time and the operator are left open.*)
Waits(c) == tpc[c] \in {"hello", "name", "password", "recv"} /\ Data(sock[c])

Fairness ==
  /\ WF_vars(HandOff)
  /\ \A c \in Conns : WF_vars(Session(c) /\ ~Waits(c))

FairSpec == Spec /\ Fairness

-----------------------------------------------------------------------------
(* Properties.                                                             *)

(* A vty in use has a thread that will take it offline, the listener on    *)
(* its way to start one included: no vty is lost to the pool, whoever      *)
(* takes whose vty offline.                                                *)
NoVtyLost ==
  \A s \in Slots : vty[s].used =>
    \/ lpc = "handoff" /\ taken.slot = s
    \/ \E c \in Conns : at[c] = s /\ tpc[c] \in Live

(* What makes it inductive: the connection in the listener's hands has no  *)
(* thread yet.  The loop of a notification is at its victim.               *)
HandedOver ==
  lpc = "handoff" => taken.conn \in Conns /\ tpc[taken.conn] = "none"
VictimIsNext == victim # 0 => cmd.kind = "user" /\ next = victim
PoolInv == TypeOK /\ HandedOver /\ VictimIsNext /\ NoVtyLost

(* When all clients have gone, the pool is free again: session threads     *)
(* that share a vty or read each other's socket do not hold each other up. *)
PoolDrains ==
  (\A c \in Conns : <>[](peer[c] # "open")) => <>[](\A s \in Slots : ~vty[s].used)

(* A deleted user, or one that has lost telnet, is still online and the    *)
(* notification will not find it any more.                                 *)
Stale(s) ==
  /\ mode = "aaa"
  /\ vty[s].user \in Users /\ Matches(s, vty[s].user)
  /\ account[vty[s].user] # "telnet"
  /\ ~(cmd.kind = "user" /\ cmd.user = vty[s].user /\ next <= s)

(* Such a user comes about only in the window between its authentication   *)
(* and its login, when a connection is given a vty that a login marked     *)
(* online after it had been taken offline, or when the mode changes after  *)
(* a kill of all vtys that began too late.                                 *)
LogsIn(s) ==
  \E c \in Conns : at[c] = s /\ tpc[c] \in {"password", "granted"} /\ tpc'[c] # tpc[c]
TakenOnline(s) == ~vty[s].used /\ vty[s].state = 1 /\ vty'[s].used
StaleOnlyByLogin ==
  [][\A s \in Slots :
       ~Stale(s) /\ Stale(s)' => LogsIn(s) \/ TakenOnline(s) \/ mode' # mode]_vars

(* A session that goes on after its vty was taken offline ends at the next *)
(* character, so it reads from no connection but its own.                  *)
ReadsItsOwn == \A c \in Conns : tpc[c] = "recv" => sock[c] \in {c, NoConn}
=============================================================================
