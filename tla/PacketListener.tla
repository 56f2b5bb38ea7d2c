--------------------------- MODULE PacketListener ---------------------------
(***************************************************************************)
(* The packet listener of the system manager (sysmng/sysmng.cpp).  A timer *)
(* thread probes the port of the manager; when the probe fails it closes   *)
(* the listening socket, makes another one and starts another listener     *)
(* thread, whether the one before still runs or not.                       *)
(*                                                                         *)
(* close() does not wake a thread that waits in accept: the thread keeps   *)
(* the socket listening, and its port taken, until a connection comes.     *)
(* Descriptors are taken to last: the accepted sockets are never closed.   *)
(***************************************************************************)
EXTENDS Integers, FiniteSets

CONSTANTS
  MaxSockets, \* bound: sockets that live at the same time
  MaxThreads, \* bound: listener threads that live at the same time
  Backlog,    \* listen(g_sListen, 20)
  MaxFaults   \* bound: failed calls

VARIABLES
  sListen,  \* g_sListen; 0: INVALID_SOCKET
  kind,     \* what each socket is: "free", "raw", "bound", "port" when it
            \* listens on g_sock_port, "other" when on a port nobody knows
  queue,    \* the connections waiting in its backlog
  runing,   \* g_sysmngListenRuning
  lpc,      \* the listener threads
  on,       \* the socket each waits on in accept
  timer,    \* where the timer thread is
  faults    \* failed calls so far

vars == <<sListen, kind, queue, runing, lpc, on, timer, faults>>

Sockets == 1 .. MaxSockets
Threads == 1 .. MaxThreads

TypeOK ==
  /\ sListen \in 0 .. MaxSockets
  /\ kind \in [Sockets -> {"free", "raw", "bound", "port", "other"}]
  /\ queue \in [Sockets -> 0 .. Backlog]
  /\ runing \in BOOLEAN
  /\ lpc \in [Threads -> {"none", "begin", "loop", "accept"}]
  /\ on \in [Threads -> 0 .. MaxSockets]
  /\ timer \in {"probe", "destroy", "create", "bind", "listen", "thread", "sleep"}
  /\ faults \in 0 .. MaxFaults

-----------------------------------------------------------------------------
(* Sockets.                                                                *)

Holders(s) == {t \in Threads : lpc[t] = "accept" /\ on[t] = s}

(* Socket s is gone if g_sListen is now m and thread t (0: none) has let   *)
(* go of it.                                                               *)
Gone(s, m, t) == s # m /\ Holders(s) \ {t} = {}
Release(s, m, t) ==
  IF s # 0 /\ Gone(s, m, t)
  THEN kind' = [kind EXCEPT ![s] = "free"] /\ queue' = [queue EXCEPT ![s] = 0]
  ELSE UNCHANGED <<kind, queue>>

Served == {s \in Sockets : kind[s] = "port"}

(* A thread accepts on s, or is about to.                                  *)
Attended(s) ==
  \/ Holders(s) # {}
  \/ sListen = s /\ \E t \in Threads : lpc[t] \in {"begin", "loop"}

Fault == faults < MaxFaults /\ faults' = faults + 1

-----------------------------------------------------------------------------
(* The timer thread: SYSMNG_IsSocketActive, and SYSMNG_PacketRecvRun with  *)
(* the four functions it calls.                                            *)

(* The probe connects: the system answers for any listening socket with    *)
(* room in its backlog, whether a thread accepts or not.                   *)
ProbeAnswered ==
  /\ timer = "probe" /\ timer' = "sleep"
  /\ \E s \in Served :
       queue[s] < Backlog /\ queue' = [queue EXCEPT ![s] = @ + 1]
  /\ UNCHANGED <<sListen, kind, runing, lpc, on, faults>>

(* Mutant: a full backlog is taken for a dead listener.                    *)
ProbeFailsBusy ==
  /\ timer = "probe" /\ timer' = "destroy"
  /\ \/ (\A s \in Served : queue[s] = Backlog) /\ UNCHANGED faults
     \/ Fault
  /\ runing' = FALSE
  /\ UNCHANGED <<sListen, kind, queue, lpc, on>>

(* Refused; out of sockets; or the backlog stays full for as long as       *)
(* connect() tries.  SYSMNG_CloseLisentThread takes the flag back.         *)
ProbeFails ==
  /\ timer = "probe" /\ timer' = "destroy"
  /\ \/ (\A s \in Served : queue[s] = Backlog /\ ~Attended(s)) /\ UNCHANGED faults
     \/ Fault
  /\ runing' = FALSE
  /\ UNCHANGED <<sListen, kind, queue, lpc, on>>

Destroy ==
  /\ timer = "destroy" /\ timer' = "create"
  /\ sListen' = 0
  /\ Release(sListen, 0, 0)
  /\ UNCHANGED <<runing, lpc, on, faults>>

Create ==
  /\ timer = "create" /\ timer' = "bind"
  /\ \E s \in Sockets :
       /\ kind[s] = "free" /\ \A r \in Sockets : r < s => kind[r] # "free"
       /\ kind' = [kind EXCEPT ![s] = "raw"]
       /\ sListen' = s
  /\ UNCHANGED <<queue, runing, lpc, on, faults>>

(* The thread is started all the same.                                     *)
CreateFails ==
  /\ timer = "create" /\ timer' = "thread"
  /\ Fault
  /\ UNCHANGED <<sListen, kind, queue, runing, lpc, on>>

(* bind() goes on for five seconds as long as another socket listens on    *)
(* the port; if that does not help, nothing is done about it.              *)
PortTaken == \E s \in Sockets \ {sListen} : kind[s] \in {"bound", "port"}
Bind ==
  /\ timer = "bind" /\ timer' = "listen"
  /\ kind' = IF PortTaken THEN kind ELSE [kind EXCEPT ![sListen] = "bound"]
  /\ UNCHANGED <<sListen, queue, runing, lpc, on, faults>>

(* A socket without a port listens on one that the system chooses.         *)
Listen ==
  /\ timer = "listen" /\ timer' = "thread"
  /\ kind' = [kind EXCEPT ![sListen] = IF @ = "bound" THEN "port" ELSE "other"]
  /\ UNCHANGED <<sListen, queue, runing, lpc, on, faults>>

ListenFails ==
  /\ timer = "listen" /\ timer' = "thread"
  /\ Fault
  /\ sListen' = 0
  /\ kind' = [kind EXCEPT ![sListen] = "free"]
  /\ UNCHANGED <<queue, runing, lpc, on>>

(* Mutant: no second thread is started while one lives.                    *)
ThreadIfNone ==
  /\ timer = "thread" /\ timer' = "sleep"
  /\ lpc' = IF \A t \in Threads : lpc[t] = "none" THEN [lpc EXCEPT ![1] = "begin"] ELSE lpc
  /\ UNCHANGED <<sListen, kind, queue, runing, on, faults>>

(* The result of thread_create is not looked at.                           *)
Thread ==
  /\ timer = "thread" /\ timer' = "sleep"
  /\ \/ /\ \E t \in Threads :
             /\ lpc[t] = "none" /\ \A r \in Threads : r < t => lpc[r] # "none"
             /\ lpc' = [lpc EXCEPT ![t] = "begin"]
        /\ UNCHANGED faults
     \/ Fault /\ UNCHANGED lpc
  /\ UNCHANGED <<sListen, kind, queue, runing, on>>

(* Ten seconds later.                                                      *)
Wake ==
  /\ timer = "sleep" /\ timer' = "probe"
  /\ UNCHANGED <<sListen, kind, queue, runing, lpc, on, faults>>

Timer ==
  \/ ProbeAnswered \/ ProbeFails \/ Destroy \/ Create \/ CreateFails
  \/ Bind \/ Listen \/ ListenFails \/ Thread \/ Wake

-----------------------------------------------------------------------------
(* SYSMNG_ListenThread.                                                    *)

Begin(t) ==
  /\ lpc[t] = "begin" /\ lpc' = [lpc EXCEPT ![t] = "loop"]
  /\ runing' = TRUE
  /\ UNCHANGED <<sListen, kind, queue, on, timer, faults>>

(* accept() fails at once on no socket, or on one that does not listen.    *)
Accepting(s) == s # 0 /\ kind[s] \in {"port", "other"}

Loop(t) ==
  /\ lpc[t] = "loop" /\ runing /\ Accepting(sListen)
  /\ lpc' = [lpc EXCEPT ![t] = "accept"]
  /\ on' = [on EXCEPT ![t] = sListen]
  /\ UNCHANGED <<sListen, kind, queue, runing, timer, faults>>

Leave(t) ==
  /\ lpc[t] = "loop" /\ ~(runing /\ Accepting(sListen))
  /\ lpc' = [lpc EXCEPT ![t] = "none"]
  /\ UNCHANGED <<sListen, kind, queue, runing, on, timer, faults>>

(* Mutant: one connection too many.                                        *)
ConnectOver(s) ==
  /\ s \in Served /\ queue[s] <= Backlog
  /\ queue' = [queue EXCEPT ![s] = @ + 1]
  /\ UNCHANGED <<sListen, kind, runing, lpc, on, timer, faults>>

(* The connection goes to a thread of its own; the accepting one sleeps    *)
(* for a moment and looks at the flag again.                               *)
Accept(t) ==
  /\ lpc[t] = "accept" /\ queue[on[t]] > 0
  /\ lpc' = [lpc EXCEPT ![t] = "loop"]
  /\ on' = [on EXCEPT ![t] = 0]
  /\ IF Gone(on[t], sListen, t) THEN Release(on[t], sListen, t)
     ELSE queue' = [queue EXCEPT ![on[t]] = @ - 1] /\ UNCHANGED kind
  /\ UNCHANGED <<sListen, runing, timer, faults>>

(* accept() fails, and the thread ends.                                    *)
AcceptFails(t) ==
  /\ lpc[t] = "accept"
  /\ Fault
  /\ lpc' = [lpc EXCEPT ![t] = "none"]
  /\ on' = [on EXCEPT ![t] = 0]
  /\ Release(on[t], sListen, t)
  /\ UNCHANGED <<sListen, runing, timer>>

Listener(t) == Begin(t) \/ Loop(t) \/ Leave(t) \/ Accept(t) \/ AcceptFails(t)

(* A packet comes in.                                                      *)
Connect(s) ==
  /\ s \in Served /\ queue[s] < Backlog
  /\ queue' = [queue EXCEPT ![s] = @ + 1]
  /\ UNCHANGED <<sListen, kind, runing, lpc, on, timer, faults>>

-----------------------------------------------------------------------------

Init ==
  /\ sListen = 0
  /\ kind = [s \in Sockets |-> "free"]
  /\ queue = [s \in Sockets |-> 0]
  /\ runing = FALSE
  /\ lpc = [t \in Threads |-> "none"]
  /\ on = [t \in Threads |-> 0]
  /\ timer = "probe"
  /\ faults = 0

Next ==
  \/ Timer
  \/ \E t \in Threads : Listener(t)
  \/ \E s \in Sockets : Connect(s)

Spec == Init /\ [][Next]_vars

(* Both kinds of thread go on.                                             *)
Fairness ==
  /\ WF_vars(Timer)
  /\ \A t \in Threads : WF_vars(Listener(t))

FairSpec == Spec /\ Fairness

-----------------------------------------------------------------------------
(* Properties.                                                             *)

(* A socket listens on the port and a thread accepts from it.              *)
Serving == \E s \in Served : Attended(s)

(* The manager can be reached again for good after every fault: the probe  *)
(* replaces a socket that nobody accepts from (when its backlog is full),  *)
(* one that listens on the wrong port, and the threads that keep old       *)
(* sockets alive cost at most a few rounds.                                *)
Recovers == <>[]Serving

(* A thread that waits on a socket nobody connects to any more waits for   *)
(* ever, and keeps its socket.  Only faults leave such threads behind:     *)
(* however long the manager runs and however busy its port is, it has at   *)
(* most one socket more than there were faults, and two threads a fault.   *)
LeaksBounded ==
  /\ Cardinality({s \in Sockets : kind[s] # "free"}) <= 1 + faults
  /\ Cardinality({t \in Threads : lpc[t] # "none"}) <= 1 + 2 * faults
=============================================================================
