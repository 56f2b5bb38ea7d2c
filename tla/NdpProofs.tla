----------------------------- MODULE NdpProofs -----------------------------
(***************************************************************************)
(* Proofs about Ndp for any clients, vtys, ports, times and bounds: a      *)
(* process that is enabled hears its neighbours, unless a command closed   *)
(* the socket of another (the lists, the network and the timer play no     *)
(* part in it), the types, and that a neighbour is listed once for each    *)
(* socket at most.                                                         *)
(***************************************************************************)
EXTENDS Ndp, FiniteSetTheorems, WellFoundedInduction, SequenceTheorems, TLAPS

Looking == {"check", "search", "update", "append"}

Places == Looking \cup {"none", "recv", "ended"}

(* The variables the argument is about.                                    *)
Typed ==
  /\ enabled \in [Procs -> BOOLEAN] /\ cut \in [Procs -> BOOLEAN]
  /\ made \in [Procs -> 0 .. MaxEnables]
  /\ sock \in [Procs -> 0 .. MaxEnables] /\ open \in [Procs -> SUBSET Gens]
  /\ bound \in [Procs -> [Gens -> Nat]]
  /\ port \in [Procs -> Ports]
  /\ cmd \in [Procs -> [Vtys -> Steps]]
  /\ again \in [Procs -> [Vtys -> BOOLEAN]]
  /\ mine \in [Procs -> [Vtys -> 0 .. MaxEnables]]
  /\ lpc \in [Procs -> [Gens -> Places]]
  /\ on \in [Procs -> [Gens -> Gens]]

(* There is room for the sockets the commands under way will make, the     *)
(* numbers of the others have been given, and only a command that has to   *)
(* disable the process first enables it again.                             *)
Making(p) == {v \in Vtys : WillMake(p, v)}
Numbered(p) ==
  /\ made[p] + Cardinality(Making(p)) <= BoundOf(p)
  /\ open[p] \subseteq 1 .. made[p] /\ sock[p] \in open[p] \cup {0}
  /\ \A v \in Vtys :
       /\ cmd[p][v] \in {"bind", "thread"} => mine[p][v] \in 1 .. made[p]
       /\ again[p][v] => cmd[p][v] \in {"move", "disable", "close", "reset"}

(* A process that is enabled hears, or lost its socket to a command that   *)
(* slept, or some command will see to it: one that is about to make a      *)
(* socket or to undo the enabling, or one that works on the current socket *)
(* and binds it or starts its thread.                                      *)
SeesTo(p, v) ==
  \/ cmd[p][v] \in {"socket", "undo"}
  \/ /\ sock[p] # 0 /\ mine[p][v] = sock[p]
     /\ cmd[p][v] = "bind" \/ (cmd[p][v] = "thread" /\ Open(p))
Secured(p) == enabled[p] => Hears(p) \/ cut[p] \/ \E v \in Vtys : SeesTo(p, v)

IInv == Typed /\ \A p \in Procs : Numbered(p) /\ Secured(p)

(* One thread, one vty or one socket of a process is given a value.        *)
LEMMA Nested ==
  ASSUME NEW A, NEW B, NEW V, NEW f \in [A -> [B -> V]], NEW a \in A, NEW b \in B, NEW v \in V,
         NEW g, g = [f EXCEPT ![a][b] = v]
  PROVE  /\ g \in [A -> [B -> V]]
         /\ g[a][b] = v
         /\ \A y \in B : y # b => g[a][y] = f[a][y]
         /\ \A x \in A : x # a => g[x] = f[x]
<1> DEFINE h == [f[a] EXCEPT ![b] = v]
<1>1. h \in [B -> V] /\ h[b] = v /\ \A y \in B : y # b => h[y] = f[a][y]
  OBVIOUS
<1>2. g = [f EXCEPT ![a] = h]
  OBVIOUS
<1> HIDE DEF h
<1>3. QED
  BY <1>1, <1>2

LEMMA Bounds ==
  /\ 1 \in Gens /\ 0 \in 0 .. MaxEnables /\ Gens \subseteq Nat \ {0}
  /\ 0 .. MaxEnables \subseteq Nat
  /\ \A p : BoundOf(p) <= MaxEnables /\ BoundOf(p) \in Nat
BY BoundsAssumption DEF Gens, BoundOf

LEMMA SocketIs == ASSUME Typed, NEW p \in Procs, sock[p] # 0 PROVE sock[p] \in Gens
BY BoundsAssumption DEF Typed, Gens

(* The commands of a process are finitely many.                            *)
LEMMA MakingFinite ==
  ASSUME NEW p
  PROVE  IsFiniteSet(Making(p)) /\ Cardinality(Making(p)) \in Nat
<1>1. IsFiniteSet(Making(p))
  BY ServerAssumption, FS_Subset DEF Making
<1>2. QED
  BY <1>1, FS_CardinalityType

LEMMA InitInv == Init => IInv
<1> SUFFICES ASSUME Init PROVE IInv
  OBVIOUS
<1>1. Typed
  BY Bounds, BoundsAssumption DEF Init, Typed, Places, Steps
<1>2. ASSUME NEW p \in Procs PROVE Numbered(p) /\ Secured(p)
  <2>1. Making(p) = {}
    BY <1>2 DEF Init, Making, WillMake
  <2>2. made[p] + Cardinality(Making(p)) <= BoundOf(p)
    BY <1>2, <2>1, Bounds, FS_EmptySet DEF Init
  <2>3. QED
    BY <1>2, <2>2 DEF Init, Numbered, Secured
<1>3. QED
  BY <1>1, <1>2 DEF IInv

-----------------------------------------------------------------------------
(* Commands.                                                               *)

Command(p, v) == Begin(p, v) \/ GoOn(p, v)

(* What is said of a process depends on its own part of the state only.    *)
LEMMA OwnPart ==
  ASSUME NEW q \in Procs, Numbered(q), Secured(q),
         enabled'[q] = enabled[q], cut'[q] = cut[q], made'[q] = made[q],
         sock'[q] = sock[q], open'[q] = open[q], bound'[q] = bound[q],
         cmd'[q] = cmd[q], again'[q] = again[q], mine'[q] = mine[q],
         lpc'[q] = lpc[q], on'[q] = on[q]
  PROVE  Numbered(q)' /\ Secured(q)'
<1>1. Making(q)' = Making(q)
  BY DEF Making, WillMake
<1>2. Numbered(q)'
  BY <1>1 DEF Numbered
<1>3. Secured(q)'
  BY DEF Secured, SeesTo, Hears, Open
<1>4. QED
  BY <1>2, <1>3

(* The sockets may get ports, which takes nothing from what holds.         *)
LEMMA PortsGiven ==
  ASSUME NEW q \in Procs, Secured(q),
         \A g \in Gens : bound[q][g] # 0 => bound'[q][g] # 0,
         Typed,
         enabled'[q] = enabled[q], cut'[q] = cut[q], sock'[q] = sock[q],
         \A v \in Vtys : SeesTo(q, v) => cmd'[q][v] = cmd[q][v] /\ mine'[q][v] = mine[q][v],
         lpc'[q] = lpc[q], on'[q] = on[q]
  PROVE  Secured(q)'
<1>1. Open(q) => Open(q)'
  BY SocketIs DEF Open
<1>2. Hears(q) => Hears(q)'
  BY <1>1 DEF Hears
<1>3. \A v \in Vtys : SeesTo(q, v) => SeesTo(q, v)'
  BY <1>1 DEF SeesTo
<1>4. QED
  BY <1>2, <1>3 DEF Secured

(* An echo may give the current socket a port.                             *)
LEMMA SendBinds ==
  ASSUME Typed, NEW p \in Procs, NEW dsts, NEW sent, SendEcho(p, dsts, sent)
  PROVE  /\ bound' \in [Procs -> [Gens -> Nat]]
         /\ \A q \in Procs : q # p => bound'[q] = bound[q]
         /\ \A g \in Gens : bound[p][g] # 0 => bound'[p][g] # 0
<1>1. CASE bound' = bound
  BY <1>1 DEF Typed
<1>2. CASE bound' = [bound EXCEPT ![p][sock[p]] = Chosen(sock[p])] /\ sock[p] # 0
  <2>1. sock[p] \in Gens /\ Chosen(sock[p]) \in Nat /\ Chosen(sock[p]) # 0
    BY <1>2, SocketIs, Bounds DEF Chosen
  <2>2. bound \in [Procs -> [Gens -> Nat]]
    BY DEF Typed
  <2>3. QED
    BY <1>2, <2>1, <2>2, Nested
<1>3. QED
  BY <1>1, <1>2 DEF SendEcho

(* A command keeps the types and, of the process, what the other vtys have *)
(* on their way; it leaves other processes alone.                          *)
CommandFrame(p, v) ==
  /\ Typed'
  /\ \A w \in Vtys : w # v =>
       cmd'[p][w] = cmd[p][w] /\ again'[p][w] = again[p][w] /\ mine'[p][w] = mine[p][w]
  /\ \A q \in Procs : q # p =>
       /\ enabled'[q] = enabled[q] /\ cut'[q] = cut[q] /\ made'[q] = made[q]
       /\ sock'[q] = sock[q] /\ open'[q] = open[q] /\ bound'[q] = bound[q]
       /\ cmd'[q] = cmd[q] /\ again'[q] = again[q] /\ mine'[q] = mine[q]
       /\ lpc'[q] = lpc[q] /\ on'[q] = on[q]

LEMMA GoesIs ==
  ASSUME Typed, NEW p \in Procs, NEW v \in Vtys, NEW s \in Steps, Goes(p, v, s)
  PROVE  /\ cmd' \in [Procs -> [Vtys -> Steps]] /\ cmd'[p][v] = s
         /\ \A w \in Vtys : w # v => cmd'[p][w] = cmd[p][w]
         /\ \A q \in Procs : q # p => cmd'[q] = cmd[q]
<1>1. cmd \in [Procs -> [Vtys -> Steps]] /\ cmd' = [cmd EXCEPT ![p][v] = s]
  BY DEF Typed, Goes
<1>2. QED
  BY <1>1, Nested

LEMMA AgainIs ==
  ASSUME Typed, NEW p \in Procs, NEW v \in Vtys, NEW b \in BOOLEAN,
         again' = [again EXCEPT ![p][v] = b]
  PROVE  /\ again' \in [Procs -> [Vtys -> BOOLEAN]] /\ again'[p][v] = b
         /\ \A w \in Vtys : w # v => again'[p][w] = again[p][w]
         /\ \A q \in Procs : q # p => again'[q] = again[q]
<1>1. again \in [Procs -> [Vtys -> BOOLEAN]]
  BY DEF Typed
<1>2. QED
  BY <1>1, Nested

LEMMA MineIs ==
  ASSUME Typed, NEW p \in Procs, NEW v \in Vtys, NEW k \in 0 .. MaxEnables,
         mine' = [mine EXCEPT ![p][v] = k]
  PROVE  /\ mine' \in [Procs -> [Vtys -> 0 .. MaxEnables]] /\ mine'[p][v] = k
         /\ \A w \in Vtys : w # v => mine'[p][w] = mine[p][w]
         /\ \A q \in Procs : q # p => mine'[q] = mine[q]
<1>1. mine \in [Procs -> [Vtys -> 0 .. MaxEnables]]
  BY DEF Typed
<1>2. QED
  BY <1>1, Nested

LEMMA LpcIs ==
  ASSUME Typed, NEW p \in Procs, NEW t \in Gens, NEW x \in Places,
         lpc' = [lpc EXCEPT ![p][t] = x]
  PROVE  /\ lpc' \in [Procs -> [Gens -> Places]] /\ lpc'[p][t] = x
         /\ \A u \in Gens : u # t => lpc'[p][u] = lpc[p][u]
         /\ \A q \in Procs : q # p => lpc'[q] = lpc[q]
<1>1. lpc \in [Procs -> [Gens -> Places]]
  BY DEF Typed
<1>2. QED
  BY <1>1, Nested

LEMMA BoundIs ==
  ASSUME Typed, NEW p \in Procs, NEW g \in Gens, NEW n \in Nat,
         bound' = [bound EXCEPT ![p][g] = n]
  PROVE  /\ bound' \in [Procs -> [Gens -> Nat]] /\ bound'[p][g] = n
         /\ \A h \in Gens : h # g => bound'[p][h] = bound[p][h]
         /\ \A q \in Procs : q # p => bound'[q] = bound[q]
<1>1. bound \in [Procs -> [Gens -> Nat]]
  BY DEF Typed
<1>2. QED
  BY <1>1, Nested

(* A command that is about to make a socket has room for it.               *)
LEMMA RoomLeft ==
  ASSUME IInv, NEW p \in Procs, NEW v \in Vtys, cmd[p][v] = "socket"
  PROVE  /\ made[p] \in Nat /\ made[p] + 1 \in Gens
         /\ Cardinality(Making(p) \ {v}) = Cardinality(Making(p)) - 1
         /\ made[p] + Cardinality(Making(p)) <= BoundOf(p)
<1>1. v \in Making(p)
  BY DEF Making, WillMake
<1>2. Cardinality(Making(p) \ {v}) = Cardinality(Making(p)) - 1 /\ Cardinality(Making(p)) \in Nat
  BY <1>1, MakingFinite, FS_RemoveElement
<1>3. Cardinality(Making(p) \ {v}) \in Nat
  BY MakingFinite, FS_RemoveElement, FS_CardinalityType, <1>1
<1>4. made[p] \in 0 .. MaxEnables /\ made[p] + Cardinality(Making(p)) <= BoundOf(p)
  BY DEF IInv, Typed, Numbered
<1>5. QED
  BY <1>2, <1>3, <1>4, Bounds, BoundsAssumption DEF Gens

LEMMA CommandKeeps ==
  ASSUME IInv, NEW p \in Procs, NEW v \in Vtys, Command(p, v)
  PROVE  CommandFrame(p, v)
<1> USE DEF switch, command, sockets, config, listeners
<1> Typed
  BY DEF IInv
<1>1. ASSUME UNCHANGED <<enabled, cut, made, sock, open, bound, again, mine, lpc, on>>,
             port' \in [Procs -> Ports], NEW s \in Steps, Goes(p, v, s)
      PROVE  CommandFrame(p, v)
  BY <1>1, GoesIs DEF CommandFrame, Typed
<1>2. CASE Enable(p, v) \/ Disable(p, v) \/ Reopen(p, v)
  BY <1>1, <1>2 DEF Enable, Disable, Reopen, Steps, Typed
<1>3. CASE SwitchOn(p, v) \/ Undo(p, v) \/ SwitchOff(p, v)
  <2>1. PICK b \in BOOLEAN, s \in Steps : enabled' = [enabled EXCEPT ![p] = b] /\ Goes(p, v, s)
    BY <1>3 DEF SwitchOn, Undo, SwitchOff, Steps
  <2>2. enabled' \in [Procs -> BOOLEAN] /\ \A q \in Procs : q # p => enabled'[q] = enabled[q]
    BY <2>1 DEF Typed
  <2>3. UNCHANGED <<cut, made, sock, open, bound, port, again, mine, lpc, on>>
    BY <1>3 DEF SwitchOn, Undo, SwitchOff
  <2>4. QED
    BY <2>1, <2>2, <2>3, GoesIs DEF CommandFrame, Typed
<1>4. CASE Socket(p, v)
  <2>1. made[p] + 1 \in Gens /\ made[p] + 1 \in 0 .. MaxEnables
    <3>1. made[p] + 1 \in Gens
      BY <1>4, RoomLeft DEF Socket
    <3>2. \A g \in Gens : g \in 0 .. MaxEnables
      BY BoundsAssumption DEF Gens
    <3>3. QED
      BY <3>1, <3>2
  <2> DEFINE k == made[p] + 1
  <2>2. made' = [made EXCEPT ![p] = k] /\ made'[p] = k
    BY <1>4 DEF Socket, Typed
  <2>3. /\ sock' = [sock EXCEPT ![p] = k]
        /\ open' = [open EXCEPT ![p] = open[p] \cup {k}]
        /\ cut' = [cut EXCEPT ![p] = FALSE]
        /\ mine' = [mine EXCEPT ![p][v] = k]
        /\ Goes(p, v, "bind") /\ UNCHANGED <<enabled, bound, port, again, lpc, on>>
    BY <1>4, <2>2 DEF Socket
  <2> HIDE DEF k
  <2>4. /\ made' \in [Procs -> 0 .. MaxEnables] /\ sock' \in [Procs -> 0 .. MaxEnables]
        /\ open' \in [Procs -> SUBSET Gens] /\ cut' \in [Procs -> BOOLEAN]
        /\ \A q \in Procs : q # p => made'[q] = made[q] /\ sock'[q] = sock[q]
                                     /\ open'[q] = open[q] /\ cut'[q] = cut[q]
    BY <2>1, <2>2, <2>3 DEF Typed, k
  <2>5. /\ mine' \in [Procs -> [Vtys -> 0 .. MaxEnables]]
        /\ \A w \in Vtys : w # v => mine'[p][w] = mine[p][w]
        /\ \A q \in Procs : q # p => mine'[q] = mine[q]
    BY <2>1, <2>3, MineIs DEF k
  <2>6. "bind" \in Steps
    BY DEF Steps
  <2>7. QED
    BY <2>3, <2>4, <2>5, <2>6, GoesIs DEF CommandFrame, Typed
<1>5. CASE SocketFails(p, v)
  <2>1. sock' \in [Procs -> 0 .. MaxEnables] /\ \A q \in Procs : q # p => sock'[q] = sock[q]
    BY <1>5, Bounds DEF SocketFails, Typed
  <2>2. "undo" \in Steps
    BY DEF Steps
  <2>3. QED
    BY <1>5, <2>1, <2>2, GoesIs DEF SocketFails, CommandFrame, Typed
<1>6. CASE Bind(p, v)
  <2> DEFINE n == IF p = Server THEN port[p] ELSE Chosen(sock[p])
  <2>1. sock[p] \in Gens
    BY <1>6, SocketIs DEF Bind, CanBind
  <2>2. n \in Nat
    BY <2>1, Bounds, PortsAssumption DEF Typed, Chosen
  <2>3. bound' = [bound EXCEPT ![p][sock[p]] = n] /\ Goes(p, v, "thread")
        /\ UNCHANGED <<enabled, cut, made, sock, open, port, again, mine, lpc, on>>
    BY <1>6 DEF Bind
  <2>4. "thread" \in Steps
    BY DEF Steps
  <2> HIDE DEF n
  <2>5. bound' \in [Procs -> [Gens -> Nat]] /\ \A q \in Procs : q # p => bound'[q] = bound[q]
    BY <2>1, <2>2, <2>3, BoundIs
  <2>6. QED
    BY <2>3, <2>4, <2>5, GoesIs DEF CommandFrame, Typed
<1>7. CASE BindFails(p, v)
  <2>1. /\ sock' \in [Procs -> 0 .. MaxEnables] /\ open' \in [Procs -> SUBSET Gens]
        /\ \A q \in Procs : q # p => sock'[q] = sock[q] /\ open'[q] = open[q]
    <3>1. \/ open' = [open EXCEPT ![p] = open[p] \ {sock[p]}] /\ sock' = [sock EXCEPT ![p] = 0]
          \/ UNCHANGED <<open, sock>>
      BY <1>7 DEF BindFails
    <3>2. sock \in [Procs -> 0 .. MaxEnables] /\ open \in [Procs -> SUBSET Gens]
      BY DEF Typed
    <3>3. open[p] \ {sock[p]} \in SUBSET Gens
      BY <3>2
    <3>4. QED
      BY <3>1, <3>2, <3>3, Bounds
  <2>2. "undo" \in Steps
    BY DEF Steps
  <2>3. mine' = [mine EXCEPT ![p][v] = 0] /\ Goes(p, v, "undo")
        /\ UNCHANGED <<enabled, cut, made, bound, port, again, lpc, on>>
    BY <1>7 DEF BindFails
  <2>4. /\ mine' \in [Procs -> [Vtys -> 0 .. MaxEnables]]
        /\ \A w \in Vtys : w # v => mine'[p][w] = mine[p][w]
        /\ \A q \in Procs : q # p => mine'[q] = mine[q]
    BY <2>3, MineIs, Bounds
  <2>5. QED
    BY <2>1, <2>2, <2>3, <2>4, GoesIs DEF CommandFrame, Typed
<1>8. CASE Thread(p, v)
  <2>1. mine[p][v] \in Gens /\ "check" \in Places
    BY <1>8, Bounds DEF Thread, IInv, Numbered, Typed, Gens, Places, Looking
  <2>2. PICK s \in Steps : Goes(p, v, s)
    BY <1>8 DEF Thread, Steps
  <2>3. /\ mine' = [mine EXCEPT ![p][v] = 0] /\ lpc' = [lpc EXCEPT ![p][mine[p][v]] = "check"]
        /\ UNCHANGED <<enabled, cut, made, sock, open, bound, port, again, on>>
    BY <1>8 DEF Thread
  <2>4. /\ mine' \in [Procs -> [Vtys -> 0 .. MaxEnables]]
        /\ \A w \in Vtys : w # v => mine'[p][w] = mine[p][w]
        /\ \A q \in Procs : q # p => mine'[q] = mine[q]
    BY <2>3, MineIs, Bounds
  <2>5. lpc' \in [Procs -> [Gens -> Places]] /\ \A q \in Procs : q # p => lpc'[q] = lpc[q]
    BY <2>1, <2>3, LpcIs
  <2>6. QED
    BY <2>2, <2>3, <2>4, <2>5, GoesIs DEF CommandFrame, Typed
<1>9. CASE Hello(p, v)
  <2>1. PICK sent : SendEcho(p, {Peer(p)}, sent)
    BY <1>9 DEF Hello
  <2>2. bound' \in [Procs -> [Gens -> Nat]] /\ \A q \in Procs : q # p => bound'[q] = bound[q]
    BY <2>1, SendBinds
  <2>3. "none" \in Steps
    BY DEF Steps
  <2>4. QED
    BY <1>9, <2>2, <2>3, GoesIs DEF Hello, CommandFrame, Typed
<1>10. CASE Close(p, v) \/ Reset(p, v)
  <2>1. /\ sock' \in [Procs -> 0 .. MaxEnables] /\ open' \in [Procs -> SUBSET Gens]
        /\ cut' \in [Procs -> BOOLEAN]
        /\ \A q \in Procs : q # p => sock'[q] = sock[q] /\ open'[q] = open[q] /\ cut'[q] = cut[q]
    <3>1. /\ sock' = [sock EXCEPT ![p] = 0]
          /\ cut' = [cut EXCEPT ![p] = cut[p] \/ (enabled[p] /\ sock[p] # 0)]
          /\ open' = open \/ open' = [open EXCEPT ![p] = open[p] \ {sock[p]}]
      BY <1>10 DEF Close, Reset
    <3>2. QED
      BY <3>1, Bounds DEF Typed
  <2>2. PICK s \in Steps : Goes(p, v, s)
    BY <1>10 DEF Close, Reset, Steps
  <2>3. again' = again \/ again' = [again EXCEPT ![p][v] = FALSE]
    BY <1>10 DEF Close, Reset
  <2>4. UNCHANGED <<enabled, made, bound, port, mine, lpc, on>>
    BY <1>10 DEF Close, Reset
  <2>5. /\ again' \in [Procs -> [Vtys -> BOOLEAN]]
        /\ \A w \in Vtys : w # v => again'[p][w] = again[p][w]
        /\ \A q \in Procs : q # p => again'[q] = again[q]
    BY <2>3, AgainIs DEF Typed
  <2>6. QED
    BY <2>1, <2>2, <2>4, <2>5, GoesIs DEF CommandFrame, Typed
<1>11. CASE Move(p, v)
  <2>1. PICK s \in Steps : Goes(p, v, s)
    BY <1>11 DEF Move, Steps
  <2>2. enabled[p] \in BOOLEAN /\ again' = [again EXCEPT ![p][v] = enabled[p]]
        /\ UNCHANGED <<enabled, cut, made, sock, open, bound, port, mine, lpc, on>>
    BY <1>11 DEF Move, Typed
  <2>3. /\ again' \in [Procs -> [Vtys -> BOOLEAN]]
        /\ \A w \in Vtys : w # v => again'[p][w] = again[p][w]
        /\ \A q \in Procs : q # p => again'[q] = again[q]
    BY <2>2, AgainIs
  <2>4. QED
    BY <2>1, <2>2, <2>3, GoesIs DEF CommandFrame, Typed
<1>12. ASSUME NEW n \in Ports, NEW q \in Peers, SetPort(p, v, n, q) PROVE CommandFrame(p, v)
  <2>1. port' \in [Procs -> Ports]
        /\ UNCHANGED <<enabled, cut, made, sock, open, bound, mine, lpc, on>>
    BY <1>12 DEF SetPort, Typed
  <2>2. CASE enabled[p]
    <3>1. again' = [again EXCEPT ![p][v] = TRUE] /\ Goes(p, v, "move") /\ "move" \in Steps
      BY <1>12, <2>2 DEF SetPort, Steps
    <3>2. /\ again' \in [Procs -> [Vtys -> BOOLEAN]]
          /\ \A w \in Vtys : w # v => again'[p][w] = again[p][w]
          /\ \A r \in Procs : r # p => again'[r] = again[r]
      BY <3>1, AgainIs
    <3>3. QED
      BY <2>1, <3>1, <3>2, GoesIs DEF CommandFrame, Typed
  <2>3. CASE ~enabled[p]
    BY <1>12, <2>1, <2>3 DEF SetPort, CommandFrame, Typed
  <2>4. QED
    BY <2>2, <2>3
<1>13. QED
  BY <1>2, <1>3, <1>4, <1>5, <1>6, <1>7, <1>8, <1>9, <1>10, <1>11, <1>12
     DEF Command, Begin, GoOn

(* No command takes a number twice, or makes more sockets than there is    *)
(* room for.                                                               *)
LEMMA NotMore ==
  ASSUME IInv, NEW p \in Procs, made'[p] = made[p], Making(p)' \subseteq Making(p)
  PROVE  made'[p] + Cardinality(Making(p)') <= BoundOf(p)
<1>1. Cardinality(Making(p)') <= Cardinality(Making(p)) /\ Cardinality(Making(p)') \in Nat
  BY MakingFinite, FS_Subset, FS_CardinalityType
<1>2. made[p] + Cardinality(Making(p)) <= BoundOf(p) /\ made[p] \in Nat
  BY Bounds DEF IInv, Numbered, Typed
<1>3. QED
  BY <1>1, <1>2, MakingFinite, Bounds

LEMMA OneMore ==
  ASSUME IInv, NEW p \in Procs, NEW v \in Vtys, made'[p] = made[p], Room(p),
         Making(p)' \subseteq Making(p) \cup {v}
  PROVE  made'[p] + Cardinality(Making(p)') <= BoundOf(p)
<1>1. IsFiniteSet(Making(p) \cup {v}) /\ Cardinality(Making(p) \cup {v}) <= Cardinality(Making(p)) + 1
      /\ Cardinality(Making(p) \cup {v}) \in Nat
  <2>1. IsFiniteSet(Making(p)) /\ Cardinality(Making(p)) \in Nat
    BY MakingFinite
  <2>2. CASE v \in Making(p)
    <3>1. Making(p) \cup {v} = Making(p)
      BY <2>2
    <3>2. QED
      BY <2>1, <3>1
  <2>3. CASE v \notin Making(p)
    BY <2>1, <2>3, FS_AddElement
  <2>4. QED
    BY <2>2, <2>3
<1>2. Cardinality(Making(p)') <= Cardinality(Making(p) \cup {v}) /\ Cardinality(Making(p)') \in Nat
  BY <1>1, FS_Subset, FS_CardinalityType
<1>3. made[p] + Cardinality(Making(p)) < BoundOf(p) /\ made[p] \in Nat
  BY Bounds DEF IInv, Typed, Room, Making
<1>4. QED
  BY <1>1, <1>2, <1>3, MakingFinite, Bounds

LEMMA CommandNumbered ==
  ASSUME IInv, NEW p \in Procs, NEW v \in Vtys, Command(p, v), CommandFrame(p, v)
  PROVE  Numbered(p)'
<1> USE DEF switch, command, sockets, config, listeners
<1>1. /\ Typed /\ Numbered(p)
      /\ \A w \in Vtys : w # v =>
           cmd'[p][w] = cmd[p][w] /\ again'[p][w] = again[p][w] /\ mine'[p][w] = mine[p][w]
  BY DEF IInv, CommandFrame
<1>2. \A w \in Vtys : w # v => (WillMake(p, w)' <=> WillMake(p, w))
  BY <1>1 DEF WillMake
(* A step of v that leaves its socket as it is.                            *)
<1>3. ASSUME made'[p] = made[p], open'[p] \subseteq open[p], sock'[p] \in {0, sock[p]},
             sock'[p] \in open'[p] \cup {0},
             cmd'[p][v] \in {"bind", "thread"} => mine'[p][v] \in 1 .. made[p],
             again'[p][v] => cmd'[p][v] \in {"move", "disable", "close", "reset"},
             \/ WillMake(p, v)' => WillMake(p, v)
             \/ Room(p)
      PROVE  Numbered(p)'
  <2>1. Making(p)' \subseteq Making(p) \cup {v}
    BY <1>2 DEF Making
  <2>2. (WillMake(p, v)' => WillMake(p, v)) => Making(p)' \subseteq Making(p)
    BY <1>2 DEF Making
  <2>3. made'[p] + Cardinality(Making(p)') <= BoundOf(p)
    BY <1>3, <2>1, <2>2, NotMore, OneMore
  <2>4. \A w \in Vtys :
          /\ cmd'[p][w] \in {"bind", "thread"} => mine'[p][w] \in 1 .. made'[p]
          /\ again'[p][w] => cmd'[p][w] \in {"move", "disable", "close", "reset"}
    BY <1>1, <1>3 DEF Numbered
  <2>5. QED
    BY <1>1, <1>3, <2>3, <2>4 DEF Numbered
<1>4. CASE Enable(p, v)
  <2>1. cmd'[p][v] = "enable" /\ cmd[p][v] = "none" /\ Room(p)
        /\ UNCHANGED <<made, open, sock, again, mine>>
    BY <1>1, <1>4, GoesIs DEF Enable, Steps
  <2>2. QED
    BY <1>1, <1>3, <2>1 DEF Numbered
<1>5. CASE SwitchOn(p, v)
  <2>1. cmd'[p][v] = "socket" /\ cmd[p][v] = "enable" /\ UNCHANGED <<made, open, sock, again, mine>>
    BY <1>1, <1>5, GoesIs DEF SwitchOn, Steps
  <2>2. QED
    BY <1>1, <1>3, <2>1 DEF Numbered, WillMake
<1>6. CASE Socket(p, v)
  <2>1. cmd'[p][v] = "bind" /\ cmd[p][v] = "socket" /\ again' = again
    BY <1>1, <1>6, GoesIs DEF Socket, Steps
  <2>2. made'[p] = made[p] + 1
    BY <1>1, <1>6 DEF Socket, Typed
  <2>3. sock'[p] = made'[p] /\ open'[p] = open[p] \cup {made'[p]}
    BY <1>1, <1>6 DEF Socket, Typed
  <2>4. /\ made[p] \in Nat /\ made[p] + 1 \in Gens
        /\ Cardinality(Making(p) \ {v}) = Cardinality(Making(p)) - 1
        /\ made[p] + Cardinality(Making(p)) <= BoundOf(p)
    BY <2>1, RoomLeft
  <2>5. mine'[p][v] = made'[p]
    <3>1. made'[p] \in 0 .. MaxEnables
      BY DEF CommandFrame, Typed
    <3>2. mine' = [mine EXCEPT ![p][v] = made'[p]]
      BY <1>6 DEF Socket
    <3>3. QED
      BY <1>1, <3>1, <3>2, MineIs
  <2>6. Making(p)' = Making(p) \ {v}
    BY <1>2, <2>1 DEF Making, WillMake
  <2>7. made'[p] + Cardinality(Making(p)') <= BoundOf(p)
    BY <2>2, <2>4, <2>6, MakingFinite, Bounds
  <2>8. 1 .. made[p] \subseteq 1 .. made'[p] /\ made'[p] \in 1 .. made'[p]
    BY <2>2, <2>4
  <2>9. open'[p] \subseteq 1 .. made'[p] /\ sock'[p] \in open'[p]
    BY <1>1, <2>3, <2>8 DEF Numbered
  <2>10. \A w \in Vtys :
           /\ cmd'[p][w] \in {"bind", "thread"} => mine'[p][w] \in 1 .. made'[p]
           /\ again'[p][w] => cmd'[p][w] \in {"move", "disable", "close", "reset"}
    <3>1. ~again'[p][v]
      BY <1>1, <2>1 DEF Numbered
    <3>2. QED
      BY <1>1, <2>1, <2>5, <2>8, <3>1 DEF Numbered
  <2>11. QED
    BY <2>7, <2>9, <2>10 DEF Numbered
<1>7. CASE SocketFails(p, v)
  <2>1. cmd'[p][v] = "undo" /\ cmd[p][v] = "socket" /\ UNCHANGED <<made, open, again, mine>>
        /\ sock'[p] = 0
    BY <1>1, <1>7, GoesIs DEF SocketFails, Steps, Typed
  <2>2. QED
    BY <1>1, <1>3, <2>1 DEF Numbered, WillMake
<1>8. CASE Bind(p, v)
  <2>1. cmd'[p][v] = "thread" /\ cmd[p][v] = "bind" /\ UNCHANGED <<made, open, sock, again, mine>>
    BY <1>1, <1>8, GoesIs DEF Bind, Steps
  <2>2. QED
    BY <1>1, <1>3, <2>1 DEF Numbered, WillMake
<1>9. CASE BindFails(p, v)
  <2>1. cmd'[p][v] = "undo" /\ cmd[p][v] = "bind" /\ UNCHANGED <<made, again>>
    BY <1>1, <1>9, GoesIs DEF BindFails, Steps
  <2>2. \/ open'[p] = open[p] \ {sock[p]} /\ sock'[p] = 0
        \/ UNCHANGED <<open, sock>>
    <3>1. \/ open' = [open EXCEPT ![p] = open[p] \ {sock[p]}] /\ sock' = [sock EXCEPT ![p] = 0]
          \/ UNCHANGED <<open, sock>>
      BY <1>9 DEF BindFails
    <3>2. p \in DOMAIN open /\ p \in DOMAIN sock
      BY <1>1 DEF Typed
    <3>3. QED
      BY <3>1, <3>2
  <2>3. open'[p] \subseteq open[p] /\ sock'[p] \in {0, sock[p]} /\ sock'[p] \in open'[p] \cup {0}
    BY <1>1, <2>2 DEF Numbered
  <2>4. ~again'[p][v] /\ ~WillMake(p, v)'
    BY <1>1, <2>1 DEF Numbered, WillMake
  <2>5. QED
    BY <1>3, <2>1, <2>3, <2>4
<1>10. CASE Undo(p, v)
  <2>1. cmd'[p][v] = "none" /\ cmd[p][v] = "undo" /\ UNCHANGED <<made, open, sock, again, mine>>
    BY <1>1, <1>10, GoesIs DEF Undo, Steps
  <2>2. QED
    BY <1>1, <1>3, <2>1 DEF Numbered, WillMake
<1>11. CASE Thread(p, v)
  <2>1. cmd'[p][v] \in {"none", "hello"} /\ cmd[p][v] = "thread" /\ UNCHANGED <<made, open, sock, again>>
    BY <1>1, <1>11, GoesIs DEF Thread, Steps
  <2>2. QED
    BY <1>1, <1>3, <2>1 DEF Numbered, WillMake
<1>12. CASE Hello(p, v)
  <2>1. cmd'[p][v] = "none" /\ cmd[p][v] = "hello" /\ UNCHANGED <<made, open, sock, again, mine>>
    BY <1>1, <1>12, GoesIs DEF Hello, Steps
  <2>2. QED
    BY <1>1, <1>3, <2>1 DEF Numbered, WillMake
<1>13. CASE Disable(p, v)
  <2>1. cmd'[p][v] = "disable" /\ cmd[p][v] = "none" /\ UNCHANGED <<made, open, sock, again, mine>>
    BY <1>1, <1>13, GoesIs DEF Disable, Steps
  <2>2. QED
    BY <1>1, <1>3, <2>1 DEF Numbered, WillMake
<1>14. CASE SwitchOff(p, v)
  <2>1. cmd'[p][v] = "close" /\ cmd[p][v] = "disable" /\ UNCHANGED <<made, open, sock, again, mine>>
    BY <1>1, <1>14, GoesIs DEF SwitchOff, Steps
  <2>2. QED
    BY <1>1, <1>3, <2>1 DEF Numbered, WillMake
<1>15. CASE Close(p, v)
  <2>1. cmd[p][v] = "close" /\ UNCHANGED <<made, again, mine>>
    BY <1>15 DEF Close
  <2>2. open'[p] = open[p] \ {sock[p]} /\ sock'[p] = 0
    BY <1>1, <1>15 DEF Close, Typed
  <2>3. cmd'[p][v] = "reset"
    BY <1>1, <1>15, GoesIs DEF Close, Steps
  <2>4. QED
    BY <1>3, <2>1, <2>2, <2>3 DEF WillMake
<1>16. CASE Move(p, v)
  <2>1. cmd[p][v] = "move" /\ UNCHANGED <<made, open, sock, mine>>
    BY <1>16 DEF Move
  <2>2. again'[p][v] = enabled[p]
    <3>1. again' = [again EXCEPT ![p][v] = enabled[p]] /\ enabled[p] \in BOOLEAN
      BY <1>1, <1>16 DEF Move, Typed
    <3>2. QED
      BY <1>1, <3>1, AgainIs
  <2>3. cmd'[p][v] = IF enabled[p] THEN "disable" ELSE "reopen"
    BY <1>1, <1>16, GoesIs DEF Move, Steps
  <2>4. QED
    BY <1>1, <1>3, <2>1, <2>2, <2>3 DEF WillMake, Numbered
<1>17. CASE Reopen(p, v)
  <2>1. cmd'[p][v] \in {"none", "enable"} /\ cmd[p][v] = "reopen"
        /\ UNCHANGED <<made, open, sock, again, mine>>
    BY <1>1, <1>17, GoesIs DEF Reopen, Steps
  <2>2. QED
    BY <1>1, <1>3, <2>1 DEF Numbered, WillMake
<1>18. ASSUME NEW n \in Ports, NEW q \in Peers, SetPort(p, v, n, q) PROVE Numbered(p)'
  <2>1. cmd[p][v] = "none" /\ UNCHANGED <<made, open, sock, mine>>
    BY <1>18 DEF SetPort
  <2>2. CASE enabled[p]
    <3>1. Room(p) /\ cmd'[p][v] = "move"
      BY <1>1, <1>18, <2>2, GoesIs DEF SetPort, Steps
    <3>2. QED
      BY <1>1, <1>3, <2>1, <3>1 DEF Numbered
  <2>3. CASE ~enabled[p]
    <3>1. UNCHANGED <<cmd, again>>
      BY <1>18, <2>3 DEF SetPort
    <3>2. QED
      BY <1>1, <1>3, <2>1, <3>1 DEF Numbered, WillMake
  <2>4. QED
    BY <2>2, <2>3
<1>19. CASE Reset(p, v)
  <2>1. cmd[p][v] = "reset" /\ UNCHANGED <<made, open, mine>>
    BY <1>19 DEF Reset
  <2>2. sock'[p] = 0
    BY <1>1, <1>19 DEF Reset, Typed
  <2>3. ~again'[p][v]
    <3>1. again' = [again EXCEPT ![p][v] = FALSE]
      BY <1>19 DEF Reset
    <3>2. QED
      BY <1>1, <3>1, AgainIs
  <2>4. cmd'[p][v] = IF again[p][v] THEN "reopen" ELSE "none"
    BY <1>1, <1>19, GoesIs DEF Reset, Steps
  <2>5. QED
    BY <1>3, <2>1, <2>2, <2>3, <2>4 DEF WillMake
<1>20. QED
  BY <1>4, <1>5, <1>6, <1>7, <1>8, <1>9, <1>10, <1>11, <1>12, <1>13, <1>14, <1>15, <1>16,
     <1>17, <1>18, <1>19 DEF Command, Begin, GoOn

(* A process stays secured when a command takes a step.                    *)
LEMMA CommandSecured ==
  ASSUME IInv, NEW p \in Procs, NEW v \in Vtys, Command(p, v), CommandFrame(p, v)
  PROVE  Secured(p)'
<1> USE DEF switch, command, sockets, config, listeners
<1>1. /\ Typed /\ Numbered(p) /\ Secured(p)
      /\ \A w \in Vtys : w # v => cmd'[p][w] = cmd[p][w] /\ mine'[p][w] = mine[p][w]
  BY DEF IInv, CommandFrame
<1>2. \A w \in Vtys : w # v /\ UNCHANGED <<sock, bound>> => (SeesTo(p, w)' <=> SeesTo(p, w))
  BY <1>1 DEF SeesTo, Open
<1>3. CASE \/ Enable(p, v) \/ Disable(p, v) \/ Move(p, v) \/ Reopen(p, v)
           \/ \E n \in Ports, q \in Peers : SetPort(p, v, n, q)
  <2>1. ~SeesTo(p, v) /\ UNCHANGED <<enabled, cut, sock, bound, mine, lpc, on>>
    BY <1>3 DEF SeesTo, Enable, Disable, Move, Reopen, SetPort
  <2>2. Hears(p)' <=> Hears(p)
    BY <2>1 DEF Hears, Open
  <2>3. QED
    BY <1>1, <1>2, <2>1, <2>2 DEF Secured
<1>4. CASE SwitchOn(p, v)
  <2>1. cmd'[p][v] = "socket"
    BY <1>1, <1>4, GoesIs DEF SwitchOn, Steps
  <2>2. QED
    BY <2>1 DEF Secured, SeesTo
<1>5. CASE Socket(p, v)
  <2>1. cmd'[p][v] = "bind"
    BY <1>1, <1>5, GoesIs DEF Socket, Steps
  <2>2. made'[p] = made[p] + 1 /\ sock'[p] = made'[p] /\ made[p] \in Nat
    BY <1>1, <1>5, Bounds DEF Socket, Typed
  <2>3. mine'[p][v] = made'[p]
    <3>1. made'[p] \in 0 .. MaxEnables
      BY DEF CommandFrame, Typed
    <3>2. mine' = [mine EXCEPT ![p][v] = made'[p]]
      BY <1>5 DEF Socket
    <3>3. QED
      BY <1>1, <3>1, <3>2, MineIs
  <2>4. QED
    BY <2>1, <2>2, <2>3 DEF Secured, SeesTo
<1>6. CASE SocketFails(p, v) \/ BindFails(p, v)
  <2>1. cmd'[p][v] = "undo"
    BY <1>1, <1>6, GoesIs DEF SocketFails, BindFails, Steps
  <2>2. QED
    BY <2>1 DEF Secured, SeesTo
<1>7. CASE Bind(p, v)
  <2> DEFINE n == IF p = Server THEN port[p] ELSE Chosen(sock[p])
  <2>1. sock[p] \in Gens /\ bound[p][sock[p]] = 0 /\ sock[p] # 0
    BY <1>1, <1>7, SocketIs DEF Bind, CanBind
  <2>2. n \in Nat /\ n # 0
    BY <1>1, <2>1, Bounds, PortsAssumption DEF Typed, Chosen
  <2>3. bound' = [bound EXCEPT ![p][sock[p]] = n] /\ UNCHANGED <<enabled, cut, sock, mine, lpc, on>>
    BY <1>7 DEF Bind
  <2> HIDE DEF n
  <2>4. Open(p)'
    BY <1>1, <2>1, <2>2, <2>3, BoundIs DEF Open
  <2>5. cmd'[p][v] = "thread" /\ cmd[p][v] = "bind"
    BY <1>1, <1>7, GoesIs DEF Bind, Steps
  <2>6. ~Hears(p)
    BY <2>1 DEF Hears, Open
  <2>7. \A w \in Vtys : SeesTo(p, w) => SeesTo(p, w)'
    BY <1>1, <2>3, <2>4, <2>5 DEF SeesTo
  <2>8. QED
    BY <1>1, <2>3, <2>6, <2>7 DEF Secured
<1>8. CASE Undo(p, v) \/ SwitchOff(p, v)
  <2>1. ~enabled'[p]
    BY <1>1, <1>8 DEF Undo, SwitchOff, Typed
  <2>2. QED
    BY <2>1 DEF Secured
<1>9. CASE Thread(p, v)
  <2>1. cmd[p][v] = "thread" /\ UNCHANGED <<enabled, cut, sock, bound, on>>
    BY <1>9 DEF Thread
  <2>2. mine[p][v] \in Gens /\ "check" \in Places
    BY <1>1, <2>1, Bounds DEF Numbered, Typed, Gens, Places, Looking
  <2>3. lpc'[p][mine[p][v]] = "check" /\ \A u \in Gens : u # mine[p][v] => lpc'[p][u] = lpc[p][u]
    <3>1. lpc' = [lpc EXCEPT ![p][mine[p][v]] = "check"]
      BY <1>9 DEF Thread
    <3>2. QED
      BY <1>1, <2>2, <3>1, LpcIs
  <2>4. Hears(p) => Hears(p)'
    BY <2>1, <2>3 DEF Hears, Open
  <2>5. SeesTo(p, v) => Hears(p)'
    BY <2>1, <2>2, <2>3 DEF SeesTo, Hears, Open
  <2>6. QED
    BY <1>1, <1>2, <2>1, <2>4, <2>5 DEF Secured
<1>10. CASE Hello(p, v)
  <2>1. PICK sent : SendEcho(p, {Peer(p)}, sent)
    BY <1>10 DEF Hello
  <2>2. \A g \in Gens : bound[p][g] # 0 => bound'[p][g] # 0
    BY <1>1, <2>1, SendBinds
  <2>3. ~SeesTo(p, v) /\ UNCHANGED <<enabled, cut, sock, mine, lpc, on>>
    BY <1>10 DEF SeesTo, Hello
  <2>4. \A w \in Vtys : SeesTo(p, w) => cmd'[p][w] = cmd[p][w] /\ mine'[p][w] = mine[p][w]
    BY <1>1, <2>3
  <2>5. QED
    BY <1>1, <2>2, <2>3, <2>4, PortsGiven
<1>11. CASE Close(p, v) \/ Reset(p, v)
  <2>1. /\ enabled' = enabled /\ cut'[p] = (cut[p] \/ (enabled[p] /\ sock[p] # 0))
        /\ UNCHANGED <<mine>>
    BY <1>1, <1>11 DEF Close, Reset, Typed
  <2>2. CASE enabled[p] /\ sock[p] = 0
    <3>1. ~Hears(p) /\ ~SeesTo(p, v)
      BY <1>11, <2>2 DEF Hears, Open, SeesTo, Close, Reset
    <3>2. \A w \in Vtys : w # v /\ SeesTo(p, w) => SeesTo(p, w)'
      BY <1>1, <2>2 DEF SeesTo
    <3>3. QED
      BY <1>1, <2>1, <3>1, <3>2 DEF Secured
  <2>3. CASE ~(enabled[p] /\ sock[p] = 0)
    BY <2>1, <2>3 DEF Secured
  <2>4. QED
    BY <2>2, <2>3
<1>12. QED
  BY <1>3, <1>4, <1>5, <1>6, <1>7, <1>8, <1>9, <1>10, <1>11 DEF Command, Begin, GoOn

LEMMA CommandInv == ASSUME IInv, NEW p \in Procs, NEW v \in Vtys, Command(p, v) PROVE IInv'
<1>1. CommandFrame(p, v)
  BY CommandKeeps
<1>2. Numbered(p)' /\ Secured(p)'
  BY <1>1, CommandNumbered, CommandSecured
<1>3. ASSUME NEW q \in Procs, q # p PROVE Numbered(q)' /\ Secured(q)'
  BY <1>1, <1>3, OwnPart DEF CommandFrame, IInv
<1>4. QED
  BY <1>1, <1>2, <1>3 DEF IInv, CommandFrame

-----------------------------------------------------------------------------
(* Listener threads and the timer.                                         *)

(* A listener thread works on, waits on the socket of the moment, or ends  *)
(* because the process is disabled; other threads stay where they are.     *)
LEMMA ListenerMoves ==
  ASSUME IInv, NEW p \in Procs, NEW t \in Gens, Listener(p, t)
  PROVE  /\ UNCHANGED <<switch, sockets, bound, config, command>>
         /\ \A q \in Procs, u \in Gens : <<q, u>> # <<p, t>> =>
              lpc'[q][u] = lpc[q][u] /\ on'[q][u] = on[q][u]
         /\ \/ lpc'[p][t] \in Looking /\ on'[p][t] \in Gens
            \/ lpc'[p][t] = "recv" /\ on'[p][t] = sock[p] /\ sock[p] # 0
            \/ lpc'[p][t] = "ended" /\ ~enabled[p]
<1>1. lpc \in [Procs -> [Gens -> Places]] /\ on \in [Procs -> [Gens -> Gens]]
  BY DEF IInv, Typed
<1> USE Bounds DEF Looking, Places
<1>2. CASE Check(p, t)
  BY <1>1, <1>2 DEF Check
<1>3. CASE Receive(p, t)
  BY <1>1, <1>3 DEF Receive
<1>4. CASE Search(p, t)
  BY <1>1, <1>4 DEF Search
<1>5. CASE Update(p, t)
  BY <1>1, <1>5 DEF Update, Forget
<1>6. CASE AppendNew(p, t)
  BY <1>1, <1>6 DEF AppendNew, Forget
<1>7. QED
  BY <1>2, <1>3, <1>4, <1>5, <1>6 DEF Listener

LEMMA ListenerTyped == ASSUME IInv, NEW p \in Procs, NEW t \in Gens, Listener(p, t) PROVE Typed'
<1>1. UNCHANGED <<enabled, cut, made, sock, open, bound, port, cmd, again, mine>>
  BY ListenerMoves DEF switch, sockets, config, command
<1>2. Typed
  BY DEF IInv
<1>3. lpc' \in [Procs -> [Gens -> Places]]
  <2>1. \E x \in Places : lpc' = [lpc EXCEPT ![p][t] = x]
    BY DEF Listener, Check, Receive, Search, Update, AppendNew, Forget, Places, Looking
  <2>2. QED
    BY <1>2, <2>1, LpcIs
<1>4. on' \in [Procs -> [Gens -> Gens]]
  <2>1. on' = on \/ \E g \in Gens : on' = [on EXCEPT ![p][t] = g]
    BY <1>2, SocketIs, Bounds DEF Listener, Check, Receive, Search, Update, AppendNew, Forget
  <2>2. on \in [Procs -> [Gens -> Gens]]
    BY <1>2 DEF Typed
  <2>3. ASSUME NEW g \in Gens, on' = [on EXCEPT ![p][t] = g] PROVE on' \in [Procs -> [Gens -> Gens]]
    BY <2>2, <2>3, Nested
  <2>4. QED
    BY <2>1, <2>2, <2>3
<1>5. QED
  BY <1>1, <1>2, <1>3, <1>4 DEF Typed

(* A process that hears still does when one of its threads has moved.      *)
LEMMA ListenerInv ==
  ASSUME IInv, NEW p \in Procs, NEW t \in Gens, Listener(p, t)
  PROVE  IInv'
<1> SUFFICES ASSUME NEW q \in Procs PROVE Numbered(q)' /\ Secured(q)'
  BY ListenerTyped DEF IInv
<1>1. UNCHANGED <<enabled, cut, made, sock, open, bound, cmd, again, mine>>
  BY ListenerMoves DEF switch, sockets, command
<1>2. Numbered(q) /\ Secured(q)
  BY DEF IInv
<1>3. Numbered(q)'
  <2>1. Making(q)' = Making(q)
    BY <1>1 DEF Making, WillMake
  <2>2. QED
    BY <1>1, <1>2, <2>1 DEF Numbered
<1>4. ASSUME enabled[q], Hears(q) PROVE Hears(q)'
  <2>1. sock[q] \in Gens /\ Open(q)'
    BY <1>1, <1>4 DEF Hears, Open
  <2>2. CASE <<q, sock[q]>> = <<p, t>>
    BY <1>1, <1>4, <2>1, <2>2, ListenerMoves DEF Hears, Looking
  <2>3. CASE <<q, sock[q]>> # <<p, t>>
    BY <1>1, <1>4, <2>1, <2>3, ListenerMoves DEF Hears
  <2>4. QED
    BY <2>2, <2>3
<1>5. \A v \in Vtys : SeesTo(q, v) => SeesTo(q, v)'
  BY <1>1 DEF SeesTo, Open
<1>6. QED
  BY <1>1, <1>2, <1>3, <1>4, <1>5 DEF Secured

LEMMA TickInv == ASSUME IInv, NEW p \in Procs, Tick(p) PROVE IInv'
<1>1. UNCHANGED <<enabled, cut, made, sock, open, port, cmd, again, mine, lpc, on>>
  BY DEF Tick, TickSending, switch, sockets, config, command, listeners
<1>2. Typed
  BY DEF IInv
<1>3. /\ bound' \in [Procs -> [Gens -> Nat]]
      /\ \A q \in Procs : q # p => bound'[q] = bound[q]
      /\ \A g \in Gens : bound[p][g] # 0 => bound'[p][g] # 0
  BY <1>2, SendBinds DEF Tick, TickSending
<1>4. Typed'
  BY <1>1, <1>2, <1>3 DEF Typed
<1>5. ASSUME NEW q \in Procs PROVE Numbered(q)' /\ Secured(q)'
  <2>1. Numbered(q) /\ Secured(q)
    BY DEF IInv
  <2>2. Making(q)' = Making(q)
    BY <1>1 DEF Making, WillMake
  <2>3. Numbered(q)'
    BY <1>1, <2>1, <2>2 DEF Numbered
  <2>4. \A g \in Gens : bound[q][g] # 0 => bound'[q][g] # 0
    BY <1>3
  <2>5. Secured(q)'
    BY <1>1, <1>2, <2>1, <2>4, PortsGiven
  <2>6. QED
    BY <2>3, <2>5
<1>6. QED
  BY <1>4, <1>5 DEF IInv

LEMMA NextInv == IInv /\ [Next]_vars => IInv'
<1> SUFFICES ASSUME IInv, [Next]_vars PROVE IInv'
  OBVIOUS
<1>1. ASSUME UNCHANGED <<switch, sockets, bound, config, command, listeners>> PROVE IInv'
  <2> USE <1>1 DEF switch, sockets, config, command, listeners
  <2>1. Typed'
    BY DEF IInv, Typed
  <2>2. QED
    BY <2>1, OwnPart DEF IInv
<1>2. ASSUME NEW p \in Procs, NEW v \in Vtys, Command(p, v) PROVE IInv'
  BY <1>2, CommandInv
<1>3. ASSUME NEW p \in Procs, NEW t \in Gens, Listener(p, t) PROVE IInv'
  BY <1>3, ListenerInv
<1>4. ASSUME NEW p \in Procs, Tick(p) PROVE IInv'
  BY <1>4, TickInv
<1>5. ASSUME NEW m \in net, Lose(m) PROVE IInv'
  BY <1>1, <1>5 DEF Lose
<1>6. CASE UNCHANGED vars
  BY <1>1, <1>6 DEF vars
<1>7. QED
  BY <1>2, <1>3, <1>4, <1>5, <1>6 DEF Next, Command

(* A process that is enabled, with no command under way, has an open       *)
(* socket and a thread that works, looks at the switch or waits on it,     *)
(* however many threads outlived their sockets, binds have failed and      *)
(* commands overlapped; or its socket was closed by a command that had     *)
(* turned the switch off and slept, when another had turned it on again.   *)
THEOREM NdpHasListener == Spec => []HasListener
<1>1. IInv => HasListener
  BY DEF IInv, Secured, SeesTo, HasListener, Idle
<1>2. QED
  BY <1>1, InitInv, NextInv, PTL DEF Spec

-----------------------------------------------------------------------------
(* What ages out of a list.                                                *)

(* A set of naturals that is not empty has a least member.                 *)
LEMMA Smallest ==
  ASSUME NEW S \in SUBSET Nat, S # {}
  PROVE  \E n \in S : \A m \in S : n <= m
<1> DEFINE Upto == {0 .. n : n \in S}
<1>1. Upto \subseteq FiniteSubsetsOf(Nat)
  <2>1. \A n \in S : IsFiniteSet(0 .. n) /\ 0 .. n \subseteq Nat
    BY FS_Interval
  <2>2. QED
    BY <2>1 DEF FiniteSubsetsOf
<1>2. Upto # {}
  OBVIOUS
<1> HIDE DEF Upto
<1>3. PICK x \in Upto : \A y \in Upto : <<y, x>> \notin StrictSubsetOrdering(Nat)
  BY <1>1, <1>2, FS_StrictSubsetOrderingWellFounded, WFMin
<1>4. PICK n \in S : x = 0 .. n
  BY DEF Upto
<1>5. ASSUME NEW m \in S, m < n PROVE FALSE
  <2>1. 0 .. m \in Upto
    BY DEF Upto
  <2>2. 0 .. m \subseteq 0 .. n /\ n \in 0 .. n /\ n \notin 0 .. m
    BY <1>5
  <2>3. <<0 .. m, 0 .. n>> \in StrictSubsetOrdering(Nat)
    BY <2>2 DEF StrictSubsetOrdering
  <2>4. QED
    BY <1>3, <1>4, <2>1, <2>3
<1>6. QED
  BY <1>5

(* The step from what stays of the first entries to one entry more.        *)
More(l, n, s) == IF n = 0 THEN <<>> ELSE IF Old(l[n]) THEN s ELSE Append(s, l[n])
Counts(l, f, n) == f = [k \in 0 .. n |-> More(l, k, f[k - 1])]

(* There is such a function for every beginning of the list.               *)
LEMMA KeptExists ==
  ASSUME NEW l, Len(l) \in Nat
  PROVE  \A n \in 0 .. Len(l) : \E f : Counts(l, f, n)
<1> DEFINE Bad == {n \in 0 .. Len(l) : ~ \E f : Counts(l, f, n)}
<1> SUFFICES ASSUME Bad # {} PROVE FALSE
  OBVIOUS
<1>1. PICK m \in Bad : \A n \in Bad : m <= n
  <2>1. Bad \in SUBSET Nat
    OBVIOUS
  <2> HIDE DEF Bad
  <2>2. QED
    BY <2>1, Smallest
<1>2. m \in 0 .. Len(l) /\ ~ \E f : Counts(l, f, m)
  BY <1>1
<1>3. CASE m = 0
  <2>1. Counts(l, [k \in 0 .. 0 |-> <<>>], 0)
    BY DEF Counts, More
  <2>2. QED
    BY <1>2, <1>3, <2>1
<1>4. CASE m # 0
  <2>1. m - 1 \in 0 .. Len(l) /\ m - 1 \notin Bad
    BY <1>1, <1>2, <1>4
  <2>2. PICK f : Counts(l, f, m - 1)
    BY <2>1
  <2> DEFINE g == [k \in 0 .. m |-> IF k = m THEN More(l, m, f[m - 1]) ELSE f[k]]
  <2>3. \A k \in 0 .. m - 1 : f[k] = More(l, k, f[k - 1])
    BY <2>2 DEF Counts
  <2>4. \A k \in 0 .. m : g[k] = More(l, k, g[k - 1])
    <3> SUFFICES ASSUME NEW k \in 0 .. m PROVE g[k] = More(l, k, g[k - 1])
      OBVIOUS
    <3>1. CASE k = 0
      BY <1>2, <1>4, <2>3, <3>1 DEF More
    <3>2. CASE k # 0 /\ k # m
      <4>1. k \in 0 .. m - 1 /\ k - 1 \in 0 .. m /\ k - 1 # m
        BY <1>2, <3>2
      <4>2. g[k] = f[k] /\ g[k - 1] = f[k - 1]
        BY <3>2, <4>1
      <4>3. QED
        BY <2>3, <4>1, <4>2
    <3>3. CASE k = m
      <4>1. m - 1 \in 0 .. m /\ m - 1 # m
        BY <1>2, <1>4
      <4>2. g[m - 1] = f[m - 1] /\ g[m] = More(l, m, f[m - 1])
        BY <1>2, <4>1
      <4>3. QED
        BY <3>3, <4>2
    <3>4. QED
      BY <3>1, <3>2, <3>3
  <2>5. DOMAIN g = 0 .. m /\ g = [k \in 0 .. m |-> g[k]]
    OBVIOUS
  <2> HIDE DEF g
  <2>6. Counts(l, g, m)
    BY <2>4, <2>5 DEF Counts
  <2>7. QED
    BY <1>2, <2>6
<1>5. QED
  BY <1>3, <1>4

LEMMA KeptIs ==
  ASSUME NEW l, Len(l) \in Nat
  PROVE  \A n \in 0 .. Len(l) : Kept(l)[n] = More(l, n, Kept(l)[n - 1])
<1>1. Kept(l) = CHOOSE f : Counts(l, f, Len(l))
  BY DEF Kept, Counts, More
<1>2. \E f : Counts(l, f, Len(l))
  BY KeptExists
<1>3. Counts(l, Kept(l), Len(l))
  BY <1>1, <1>2
<1>4. QED
  BY <1>3 DEF Counts

Entries == [addr : Addrs, age : 1 .. AgeTime]

(* The entries that stay, s, are entries of the first n, in their order.   *)
Picked(l, n, s, h) ==
  /\ s \in Seq(Entries)
  /\ h \in [1 .. Len(s) -> 1 .. n]
  /\ \A i \in 1 .. Len(s) : s[i] = l[h[i]] /\ ~Old(s[i])
  /\ \A i, j \in 1 .. Len(s) : i < j => h[i] < h[j]

LEMMA PickedStep ==
  ASSUME NEW l \in Seq(Entries), NEW n \in 1 .. Len(l), NEW s, NEW h, Picked(l, n - 1, s, h)
  PROVE  \E g : Picked(l, n, More(l, n, s), g)
<1>1. n \in Nat /\ n # 0 /\ n - 1 \in Nat /\ l[n] \in Entries
  OBVIOUS
<1>2. CASE Old(l[n])
  <2>1. More(l, n, s) = s
    BY <1>1, <1>2 DEF More
  <2>2. h \in [1 .. Len(s) -> 1 .. n]
    BY <1>1 DEF Picked
  <2>3. Picked(l, n, s, h)
    BY <2>2 DEF Picked
  <2>4. QED
    BY <2>1, <2>3
<1>3. CASE ~Old(l[n])
  <2> DEFINE r == Append(s, l[n])
             m == Len(s)
             g == [i \in 1 .. m + 1 |-> IF i = m + 1 THEN n ELSE h[i]]
  <2>1. More(l, n, s) = r
    BY <1>1, <1>3 DEF More
  <2>2. /\ r \in Seq(Entries) /\ Len(r) = m + 1 /\ m \in Nat
        /\ \A i \in 1 .. m : r[i] = s[i]
        /\ r[m + 1] = l[n]
    BY <1>1, AppendProperties DEF Picked
  <2>3. \A i \in 1 .. m : h[i] \in 1 .. n - 1 /\ s[i] = l[h[i]] /\ ~Old(s[i])
    BY DEF Picked
  <2>4. \A i, j \in 1 .. m : i < j => h[i] < h[j]
    BY DEF Picked
  <2> HIDE DEF r, m
  <2>5. /\ DOMAIN g = 1 .. m + 1 /\ g[m + 1] = n
        /\ \A i \in 1 .. m : g[i] = h[i]
    BY <2>2
  <2>6. g = [i \in 1 .. m + 1 |-> g[i]]
    OBVIOUS
  <2> HIDE DEF g
  <2>7. \A i \in 1 .. m + 1 : i \in 1 .. m \/ i = m + 1
    BY <2>2
  <2>8. \A i \in 1 .. m + 1 : g[i] \in 1 .. n /\ r[i] = l[g[i]] /\ ~Old(r[i])
    BY <1>1, <1>3, <2>2, <2>3, <2>5, <2>7
  <2>9. \A i, j \in 1 .. m + 1 : i < j => g[i] < g[j]
    <3> SUFFICES ASSUME NEW i \in 1 .. m + 1, NEW j \in 1 .. m + 1, i < j
                 PROVE  g[i] < g[j]
      OBVIOUS
    <3>1. i \in 1 .. m
      BY <2>2
    <3>2. CASE j \in 1 .. m
      BY <2>4, <2>5, <3>1, <3>2
    <3>3. CASE j = m + 1
      BY <1>1, <2>3, <2>5, <3>1, <3>3
    <3>4. QED
      BY <2>7, <3>2, <3>3
  <2>10. g \in [1 .. m + 1 -> 1 .. n]
    BY <2>6, <2>8
  <2>11. Picked(l, n, r, g)
    BY <2>2, <2>8, <2>9, <2>10 DEF Picked
  <2>12. QED
    BY <2>1, <2>11
<1>4. QED
  BY <1>2, <1>3

LEMMA KeptPicked ==
  ASSUME NEW l \in Seq(Entries)
  PROVE  \E h : Picked(l, Len(l), Kept(l)[Len(l)], h)
<1> DEFINE Bad == {n \in 0 .. Len(l) : ~ \E h : Picked(l, n, Kept(l)[n], h)}
<1>1. Len(l) \in Nat
  OBVIOUS
<1>2. \A n \in 0 .. Len(l) : Kept(l)[n] = More(l, n, Kept(l)[n - 1])
  BY <1>1, KeptIs
<1>3. ASSUME Bad # {} PROVE FALSE
  <2>1. PICK m \in Bad : \A n \in Bad : m <= n
    <3>1. Bad \in SUBSET Nat
      BY <1>1
    <3> HIDE DEF Bad
    <3>2. QED
      BY <1>3, <3>1, Smallest
  <2>2. m \in 0 .. Len(l) /\ ~ \E h : Picked(l, m, Kept(l)[m], h)
    BY <2>1
  <2>3. CASE m = 0
    <3>1. Kept(l)[0] = <<>>
      BY <1>2, <2>2, <2>3 DEF More
    <3>2. <<>> \in Seq(Entries) /\ Len(<<>>) = 0
      OBVIOUS
    <3>3. \A i \in 1 .. 0 : FALSE
      OBVIOUS
    <3>4. Picked(l, 0, <<>>, [i \in 1 .. 0 |-> i])
      BY <3>2, <3>3 DEF Picked
    <3>5. QED
      BY <2>2, <2>3, <3>1, <3>4
  <2>4. CASE m # 0
    <3>1. m - 1 \in 0 .. Len(l) /\ m \in 1 .. Len(l) /\ m - 1 \notin Bad
      BY <1>1, <2>1, <2>2, <2>4
    <3>2. PICK h : Picked(l, m - 1, Kept(l)[m - 1], h)
      BY <3>1
    <3>3. \E g : Picked(l, m, More(l, m, Kept(l)[m - 1]), g)
      BY <3>1, <3>2, PickedStep
    <3>4. QED
      BY <1>2, <2>2, <3>3
  <2>5. QED
    BY <2>3, <2>4
<1>4. Len(l) \in 0 .. Len(l)
  BY <1>1
<1>5. QED
  BY <1>3, <1>4

(* Every entry that is left was there before, one second younger.          *)
LEMMA AgedIs ==
  ASSUME NEW l \in Seq(Entries)
  PROVE  /\ Aged(l) \in Seq(Entries)
         /\ \E h \in [DOMAIN Aged(l) -> DOMAIN l] :
              /\ \A i \in DOMAIN Aged(l) : Aged(l)[i].addr = l[h[i]].addr
              /\ \A i, j \in DOMAIN Aged(l) : h[i] = h[j] => i = j
<1> DEFINE s == Kept(l)[Len(l)]
           m == Len(s)
<1>1. PICK h : Picked(l, Len(l), s, h)
  BY KeptPicked
<1>2. /\ s \in Seq(Entries) /\ m \in Nat /\ DOMAIN s = 1 .. m
      /\ h \in [1 .. m -> 1 .. Len(l)] /\ DOMAIN l = 1 .. Len(l)
      /\ \A i \in 1 .. m : s[i] \in Entries /\ s[i] = l[h[i]] /\ ~Old(s[i])
      /\ \A i, j \in 1 .. m : i < j => h[i] < h[j]
  BY <1>1 DEF Picked
<1>3. Aged(l) = [i \in 1 .. m |-> [s[i] EXCEPT !.age = s[i].age - 1]]
  BY <1>2 DEF Aged, Older
<1> HIDE DEF s, m
<1>4. \A i \in 1 .. m : /\ [s[i] EXCEPT !.age = s[i].age - 1] \in Entries
                        /\ [s[i] EXCEPT !.age = s[i].age - 1].addr = s[i].addr
  <2> SUFFICES ASSUME NEW i \in 1 .. m
               PROVE  /\ [s[i] EXCEPT !.age = s[i].age - 1] \in Entries
                      /\ [s[i] EXCEPT !.age = s[i].age - 1].addr = s[i].addr
    OBVIOUS
  <2> DEFINE e == s[i]
  <2>1. e \in [addr : Addrs, age : 1 .. AgeTime] /\ ~(e.age <= 1)
    BY <1>2 DEF Entries, Old
  <2> HIDE DEF e
  <2>2. e.age - 1 \in 1 .. AgeTime
    BY <2>1, TimesAssumption
  <2>3. [e EXCEPT !.age = e.age - 1] \in Entries /\ [e EXCEPT !.age = e.age - 1].addr = e.addr
    BY <2>1, <2>2 DEF Entries
  <2>4. QED
    BY <2>3 DEF e
<1>5. Aged(l) \in Seq(Entries) /\ DOMAIN Aged(l) = 1 .. m
  BY <1>2, <1>3, <1>4
<1>6. \A i \in 1 .. m : Aged(l)[i].addr = l[h[i]].addr
  BY <1>2, <1>3, <1>4
<1>7. \A i, j \in 1 .. m : h[i] = h[j] => i = j
  <2> SUFFICES ASSUME NEW i \in 1 .. m, NEW j \in 1 .. m, h[i] = h[j], i # j PROVE FALSE
    OBVIOUS
  <2>1. h[i] \in Nat /\ h[j] \in Nat
    BY <1>2
  <2>2. i < j \/ j < i
    BY <1>2
  <2>3. QED
    BY <1>2, <2>1, <2>2
<1>8. h \in [DOMAIN Aged(l) -> DOMAIN l]
  BY <1>2, <1>5
<1> DEFINE q == Aged(l)
<1> HIDE DEF q
<1>9. /\ q \in Seq(Entries) /\ h \in [DOMAIN q -> DOMAIN l]
      /\ \A i \in DOMAIN q : q[i].addr = l[h[i]].addr
      /\ \A i, j \in DOMAIN q : h[i] = h[j] => i = j
  BY <1>5, <1>6, <1>7, <1>8 DEF q
<1>10. QED
  BY <1>9 DEF q

LEMMA AgedFewer ==
  ASSUME NEW l \in Seq(Entries), NEW a
  PROVE  /\ IsFiniteSet(Index(l, a)) /\ IsFiniteSet(Index(Aged(l), a))
         /\ Cardinality(Index(Aged(l), a)) <= Cardinality(Index(l, a))
<1>1. IsFiniteSet(Index(l, a))
  <2>1. Len(l) \in Nat /\ DOMAIN l = 1 .. Len(l)
    OBVIOUS
  <2>2. IsFiniteSet(1 .. Len(l))
    BY <2>1, FS_Interval
  <2>3. QED
    BY <2>1, <2>2, FS_Subset DEF Index
<1>2. PICK h \in [DOMAIN Aged(l) -> DOMAIN l] :
              /\ \A i \in DOMAIN Aged(l) : Aged(l)[i].addr = l[h[i]].addr
              /\ \A i, j \in DOMAIN Aged(l) : h[i] = h[j] => i = j
  BY AgedIs
<1> DEFINE f == [i \in Index(Aged(l), a) |-> h[i]]
<1>3. f \in [Index(Aged(l), a) -> Index(l, a)]
  BY <1>2 DEF Index
<1>4. \A i, j \in Index(Aged(l), a) : f[i] = f[j] => i = j
  BY <1>2 DEF Index
<1> HIDE DEF f
<1>5. f \in Injection(Index(Aged(l), a), Index(l, a))
  BY <1>3, <1>4 DEF Injection, IsInjective
<1>6. QED
  BY <1>1, <1>5, FS_Injection

-----------------------------------------------------------------------------
(* The neighbour lists, the network and the timer.                         *)

ListTyped ==
  /\ peer \in [Clients -> Peers \cup {Broadcast}]
  /\ from \in [Procs -> [Gens -> Addrs]]
  /\ list \in [Procs -> Seq(Entries)]
  /\ loop \in [Procs -> 0 .. EchoTime - 1]
  /\ net \subseteq [src : Addrs, dst : Addrs]
  /\ faults \in 0 .. MaxFaults

(* Only the threads of sockets that were made run.                         *)
Started(p) == \A t \in Gens : lpc[p][t] # "none" => t <= made[p]

(* A thread that is about to append an address has not found it: it counts *)
(* as an entry already.                                                    *)
Appending(p, a) == {t \in Gens : lpc[p][t] = "append" /\ from[p][t] = a}
Paid(p) ==
  \A a \in Addrs :
    Cardinality(Index(list[p], a)) + Cardinality(Appending(p, a)) <= made[p]

ListInv == IInv /\ ListTyped /\ \A p \in Procs : Started(p) /\ Paid(p)

LEMMA NoAddrIs == NoAddr \in Addrs
BY DEF NoAddr, Addrs, Procs

LEMMA PeerIs ==
  ASSUME IInv, ListTyped, NEW c \in Clients
  PROVE  Peer(c) \in Addrs
<1>1. peer[c] \in Procs \cup {Broadcast}
  BY ServerAssumption DEF ListTyped, Procs
<1>2. port[c] \in Nat
  BY PortsAssumption DEF IInv, Typed, Procs
<1>3. QED
  BY <1>1, <1>2 DEF Peer, Addrs

LEMMA SendTyped ==
  ASSUME IInv, net \subseteq [src : Addrs, dst : Addrs], NEW p \in Procs,
         NEW dsts \in SUBSET Addrs, NEW sent, SendEcho(p, dsts, sent)
  PROVE  net' \subseteq [src : Addrs, dst : Addrs]
<1>1. bound' \in [Procs -> [Gens -> Nat]]
  BY SendBinds DEF IInv
<1>2. sent # {} => sock[p] \in Gens
  BY SocketIs DEF SendEcho, IInv
<1>3. sent # {} => [proc |-> p, port |-> bound'[p][sock[p]]] \in Addrs
  BY <1>1, <1>2 DEF Addrs
<1>4. sent \subseteq Addrs
  BY DEF SendEcho
<1>5. QED
  BY <1>3, <1>4 DEF SendEcho

LEMMA FromKept ==
  ASSUME from \in [Procs -> [Gens -> Addrs]], NEW p \in Procs, NEW t \in Gens,
         NEW a \in Addrs, from' = [from EXCEPT ![p][t] = a]
  PROVE  from' \in [Procs -> [Gens -> Addrs]]
<1>1. [from EXCEPT ![p][t] = a] \in [Procs -> [Gens -> Addrs]]
  BY Nested
<1>2. QED
  BY <1>1

LEMMA FreshIs == ASSUME NEW a \in Addrs PROVE Fresh(a) \in Entries
BY TimesAssumption DEF Fresh, Entries

(* What an update does to the entries of a list, and an append.            *)
LEMMA Refreshed ==
  ASSUME NEW l \in Seq(Entries), NEW a \in Addrs, NEW i \in Index(l, a), NEW r,
         r = [l EXCEPT ![i] = Fresh(a)]
  PROVE  r \in Seq(Entries) /\ \A b : Index(r, b) = Index(l, b)
<1>1. Fresh(a) \in Entries /\ Fresh(a).addr = a
  BY FreshIs DEF Fresh
<1>2. i \in DOMAIN l /\ l[i].addr = a
  BY DEF Index
<1>3. r \in Seq(Entries) /\ DOMAIN r = DOMAIN l
  BY <1>1, <1>2
<1>4. \A j \in DOMAIN l : r[j].addr = l[j].addr
  BY <1>1, <1>2
<1>5. QED
  BY <1>3, <1>4 DEF Index

LEMMA Appended ==
  ASSUME NEW l \in Seq(Entries), NEW a \in Addrs
  PROVE  /\ Append(l, Fresh(a)) \in Seq(Entries)
         /\ Cardinality(Index(Append(l, Fresh(a)), a)) = Cardinality(Index(l, a)) + 1
         /\ \A b : b # a => Index(Append(l, Fresh(a)), b) = Index(l, b)
<1> DEFINE e == Fresh(a)
           m == Len(l)
           r == Append(l, e)
<1>1. e \in Entries /\ e.addr = a
  BY FreshIs DEF Fresh
<1> HIDE DEF e
<1>2. /\ r \in Seq(Entries) /\ Len(r) = m + 1 /\ m \in Nat
      /\ \A i \in 1 .. m : r[i] = l[i]
      /\ r[m + 1] = e
  BY <1>1, AppendProperties
<1>3. DOMAIN l = 1 .. m /\ DOMAIN r = 1 .. m + 1
  BY <1>2
<1> HIDE DEF m, r
<1>4. Index(r, a) = Index(l, a) \cup {m + 1} /\ m + 1 \notin Index(l, a)
  BY <1>1, <1>2, <1>3 DEF Index
<1>5. \A b : b # a => Index(r, b) = Index(l, b)
  BY <1>1, <1>2, <1>3 DEF Index
<1>6. IsFiniteSet(Index(l, a))
  BY AgedFewer
<1>7. QED
  BY <1>2, <1>4, <1>5, <1>6, FS_AddElement DEF r, e

LEMMA AppendingFinite ==
  ASSUME NEW p, NEW a
  PROVE  IsFiniteSet(Appending(p, a)) /\ Cardinality(Appending(p, a)) \in Nat
<1>1. IsFiniteSet(Gens)
  BY BoundsAssumption, FS_Interval DEF Gens
<1>2. IsFiniteSet(Appending(p, a))
  BY <1>1, FS_Subset DEF Appending
<1>3. QED
  BY <1>2, FS_CardinalityType

LEMMA IndexFinite ==
  ASSUME NEW l \in Seq(Entries), NEW a
  PROVE  IsFiniteSet(Index(l, a)) /\ Cardinality(Index(l, a)) \in Nat
BY AgedFewer, FS_CardinalityType

(* At most one thread for each socket appends.                             *)
LEMMA AppendingFew ==
  ASSUME IInv, NEW p \in Procs, Started(p), NEW a
  PROVE  Cardinality(Appending(p, a)) <= made[p]
<1>1. made[p] \in Nat
  BY BoundsAssumption DEF IInv, Typed
<1>2. Appending(p, a) \subseteq 1 .. made[p]
  BY <1>1 DEF Appending, Started, Gens
<1>3. IsFiniteSet(1 .. made[p]) /\ Cardinality(1 .. made[p]) = made[p]
  BY <1>1, FS_Interval
<1>4. QED
  BY <1>2, <1>3, FS_Subset

(* A process keeps what it has when its part of the state does not change, *)
(* or when it drops entries, or makes a socket.                            *)
LEMMA PaidKept ==
  ASSUME ListInv, IInv', ListTyped', NEW q \in Procs,
         \A a \in Addrs : Cardinality(Index(list'[q], a)) <= Cardinality(Index(list[q], a)),
         \A t \in Gens : lpc'[q][t] = "append" => lpc[q][t] = "append" /\ from'[q][t] = from[q][t],
         made'[q] >= made[q]
  PROVE  Paid(q)'
<1> SUFFICES ASSUME NEW a \in Addrs
             PROVE  Cardinality(Index(list'[q], a)) + Cardinality(Appending(q, a)') <= made'[q]
  BY DEF Paid
<1>1. Appending(q, a)' \subseteq Appending(q, a)
  BY DEF Appending
<1>2. Cardinality(Appending(q, a)') <= Cardinality(Appending(q, a))
      /\ Cardinality(Appending(q, a)') \in Nat
  BY <1>1, AppendingFinite, FS_Subset, FS_CardinalityType
<1>3. Cardinality(Index(list[q], a)) + Cardinality(Appending(q, a)) <= made[q]
  BY DEF ListInv, Paid
<1>4. Cardinality(Index(list[q], a)) \in Nat /\ Cardinality(Index(list'[q], a)) \in Nat
      /\ Cardinality(Appending(q, a)) \in Nat /\ made[q] \in Int /\ made'[q] \in Int
  BY IndexFinite, AppendingFinite, BoundsAssumption DEF ListInv, ListTyped, IInv, Typed
<1>5. QED
  BY <1>2, <1>3, <1>4
LEMMA ListInit == Init => ListInv
<1> SUFFICES ASSUME Init PROVE ListInv
  OBVIOUS
<1>1. IInv
  BY InitInv
<1>2. ListTyped
  BY <1>1, NoAddrIs, TimesAssumption, BoundsAssumption DEF Init, ListTyped, Entries
<1>3. \A p \in Procs : Started(p)
  BY DEF Init, Started
<1>4. ASSUME NEW p \in Procs, NEW a \in Addrs
      PROVE  Cardinality(Index(list[p], a)) + Cardinality(Appending(p, a)) <= made[p]
  <2>1. Index(list[p], a) = {} /\ Appending(p, a) = {} /\ made[p] = 0
    BY <1>4 DEF Init, Index, Appending
  <2>2. QED
    BY <2>1, FS_EmptySet
<1>5. QED
  BY <1>1, <1>2, <1>3, <1>4 DEF ListInv, Paid

(* What a command leaves alone, and what it may do to the rest.            *)
LEMMA CommandLists ==
  ASSUME NEW p \in Procs, NEW v \in Vtys, Command(p, v)
  PROVE  /\ UNCHANGED <<from, loop>>
         /\ faults' = faults \/ (faults < MaxFaults /\ faults' = faults + 1)
         /\ \/ list' = list
            \/ list' = [list EXCEPT ![p] = IF p = Server THEN <<>> ELSE list[p]]
         /\ \/ net' = net
            \/ p # Server /\ \E sent : SendEcho(p, {Peer(p)}, sent)
         /\ \/ peer' = peer
            \/ p # Server /\ \E q \in Peers : peer' = [peer EXCEPT ![p] = q]
         /\ made' = made \/ made' = [made EXCEPT ![p] = made[p] + 1]
         /\ \/ lpc' = lpc
            \/ /\ cmd[p][v] = "thread" /\ made' = made
               /\ lpc' = [lpc EXCEPT ![p][mine[p][v]] = "check"]
<1> USE DEF command, sockets, config, listeners
<1>1. CASE Begin(p, v)
  BY <1>1 DEF Begin, Enable, Disable, SetPort
<1>2. CASE SwitchOn(p, v) \/ Socket(p, v) \/ SocketFails(p, v) \/ Bind(p, v)
  BY <1>2 DEF SwitchOn, Socket, SocketFails, Bind
<1>3. CASE BindFails(p, v) \/ Undo(p, v) \/ Thread(p, v)
  BY <1>3 DEF BindFails, Undo, Thread
<1>4. CASE p # Server /\ Hello(p, v)
  BY <1>4 DEF Hello
<1>5. CASE SwitchOff(p, v) \/ Close(p, v) \/ Reset(p, v) \/ Move(p, v) \/ Reopen(p, v)
  BY <1>5 DEF SwitchOff, Close, Reset, Move, Reopen
<1>6. QED
  BY <1>1, <1>2, <1>3, <1>4, <1>5 DEF Command, GoOn

LEMMA CommandListTyped ==
  ASSUME ListInv, NEW p \in Procs, NEW v \in Vtys, Command(p, v)
  PROVE  ListTyped'
<1>1. IInv /\ ListTyped /\ (p # Server => p \in Clients)
  BY DEF ListInv, Procs
<1>2. faults' \in 0 .. MaxFaults
  <2>1. faults \in 0 .. MaxFaults /\ (faults' = faults \/ (faults < MaxFaults /\ faults' = faults + 1))
    BY <1>1, CommandLists DEF ListTyped
  <2>2. QED
    BY <2>1, BoundsAssumption
<1>3. UNCHANGED <<from, loop>>
  BY CommandLists
<1>4. list' \in [Procs -> Seq(Entries)]
  <2>1. list' = list \/ list' = [list EXCEPT ![p] = IF p = Server THEN <<>> ELSE list[p]]
    BY CommandLists
  <2>2. <<>> \in Seq(Entries) /\ list[p] \in Seq(Entries)
    BY <1>1 DEF ListTyped
  <2>3. QED
    BY <1>1, <2>1, <2>2 DEF ListTyped
<1>5. net' \subseteq [src : Addrs, dst : Addrs]
  <2>1. CASE net' = net
    BY <1>1, <2>1 DEF ListTyped
  <2>2. ASSUME p # Server, NEW sent, SendEcho(p, {Peer(p)}, sent)
        PROVE  net' \subseteq [src : Addrs, dst : Addrs]
    <3>1. {Peer(p)} \in SUBSET Addrs
      BY <1>1, <2>2, PeerIs
    <3>2. QED
      BY <1>1, <2>2, <3>1, SendTyped DEF ListTyped
  <2>3. QED
    BY <2>1, <2>2, CommandLists
<1>6. peer' \in [Clients -> Peers \cup {Broadcast}]
  BY <1>1, CommandLists DEF ListTyped
<1>7. QED
  BY <1>1, <1>2, <1>3, <1>4, <1>5, <1>6 DEF ListTyped

LEMMA CommandPaid ==
  ASSUME ListInv, IInv', ListTyped', NEW p \in Procs, NEW v \in Vtys, Command(p, v),
         NEW q \in Procs
  PROVE  Started(q)' /\ Paid(q)'
<1>1. /\ lpc \in [Procs -> [Gens -> Places]] /\ made \in [Procs -> 0 .. MaxEnables]
      /\ list \in [Procs -> Seq(Entries)] /\ Started(q)
  BY DEF ListInv, IInv, Typed, ListTyped
<1>2. made[q] \in Nat /\ made'[q] \in Nat /\ made'[q] >= made[q]
  <2>1. made[q] \in Nat /\ made[p] \in Nat
    BY <1>1, Bounds
  <2>2. made'[q] = made[q] \/ made'[q] = made[q] + 1
    BY <1>1, CommandLists
  <2>3. QED
    BY <2>1, <2>2
<1>3. \A t \in Gens : lpc'[q][t] = lpc[q][t] \/ (lpc'[q][t] = "check" /\ t <= made'[q])
  <2>1. CASE lpc' = lpc
    BY <2>1
  <2>2. CASE /\ cmd[p][v] = "thread" /\ made' = made
             /\ lpc' = [lpc EXCEPT ![p][mine[p][v]] = "check"]
    <3>1. mine[p][v] \in 1 .. made[p] /\ made[p] \in 0 .. MaxEnables
      BY <1>1, <2>2 DEF ListInv, IInv, Numbered
    <3>2. mine[p][v] \in Gens /\ mine[p][v] <= made[p]
      BY <3>1, BoundsAssumption DEF Gens
    <3>3. "check" \in Places /\ Typed
      BY DEF Places, Looking, ListInv, IInv
    <3>4. /\ lpc'[p][mine[p][v]] = "check"
          /\ \A u \in Gens : u # mine[p][v] => lpc'[p][u] = lpc[p][u]
          /\ \A r \in Procs : r # p => lpc'[r] = lpc[r]
      BY <2>2, <3>2, <3>3, LpcIs
    <3>5. QED
      BY <2>2, <3>2, <3>4
  <2>3. QED
    BY <2>1, <2>2, CommandLists
<1>4. from' = from
  BY CommandLists
<1>5. \A a \in Addrs : Cardinality(Index(list'[q], a)) <= Cardinality(Index(list[q], a))
  <2> SUFFICES ASSUME NEW a \in Addrs
               PROVE  Cardinality(Index(list'[q], a)) <= Cardinality(Index(list[q], a))
    OBVIOUS
  <2>1. Cardinality(Index(list[q], a)) \in Nat
    BY <1>1, IndexFinite
  <2>2. list'[q] = list[q] \/ list'[q] = <<>>
    BY <1>1, CommandLists
  <2>3. CASE list'[q] = list[q]
    BY <2>1, <2>3
  <2>4. CASE list'[q] = <<>>
    <3>1. Index(list'[q], a) = {}
      BY <2>4 DEF Index
    <3>2. Cardinality(Index(list'[q], a)) = 0
      BY <3>1, FS_EmptySet
    <3>3. QED
      BY <2>1, <3>2
  <2>5. QED
    BY <2>2, <2>3, <2>4
<1>6. Started(q)'
  <2>1. SUFFICES ASSUME NEW t \in Gens, lpc'[q][t] # "none" PROVE t <= made'[q]
    BY DEF Started
  <2>2. t \in Nat
    BY Bounds
  <2>3. QED
    BY <1>1, <1>2, <1>3, <2>1, <2>2 DEF Started
<1>7. \A t \in Gens : lpc'[q][t] = "append" => lpc[q][t] = "append" /\ from'[q][t] = from[q][t]
  BY <1>3, <1>4
<1>8. Paid(q)'
  BY <1>2, <1>5, <1>7, PaidKept
<1>9. QED
  BY <1>6, <1>8

-----------------------------------------------------------------------------
(* A tick.                                                                 *)

LEMMA TickListInv ==
  ASSUME ListInv, IInv', NEW p \in Procs, Tick(p)
  PROVE  ListTyped' /\ \A q \in Procs : Started(q)' /\ Paid(q)'
<1> DEFINE l == Aged(list[p])
           dsts == Echoes(p, l)
<1>1. list[p] \in Seq(Entries)
  BY DEF ListInv, ListTyped
<1>2. l \in Seq(Entries)
  BY <1>1, AgedIs
<1>3. /\ list' = [list EXCEPT ![p] = l]
      /\ loop' = [loop EXCEPT ![p] = (loop[p] + 1) % EchoTime]
      /\ \E sent : SendEcho(p, dsts, sent)
      /\ UNCHANGED <<made, peer, faults, lpc, from>>
  BY DEF Tick, TickSending, sockets, config, command, listeners
<1>4. dsts \in SUBSET Addrs
  <2> HIDE DEF l
  <2>1. \A i \in DOMAIN l : l[i].addr \in Addrs
    <3>1. \A i \in DOMAIN l : l[i] \in Entries
      BY <1>2
    <3>2. QED
      BY <3>1 DEF Entries
  <2>2. Range(l) = {l[i] : i \in DOMAIN l}
    BY DEF Range
  <2>3. p # Server => Peer(p) \in Addrs
    BY PeerIs DEF ListInv, Procs
  <2>4. QED
    BY <2>1, <2>2, <2>3 DEF Echoes
<1>5. \A a \in Addrs : Cardinality(Index(l, a)) <= Cardinality(Index(list[p], a))
  BY <1>1, AgedFewer
<1> HIDE DEF l, dsts
<1>6. (loop[p] + 1) % EchoTime \in 0 .. EchoTime - 1
  <2>1. loop[p] \in Int /\ EchoTime \in Nat /\ EchoTime > 0
    BY TimesAssumption DEF ListInv, ListTyped
  <2>2. QED
    BY <2>1
<1>7. ListTyped'
  <2>1. net' \subseteq [src : Addrs, dst : Addrs]
    BY <1>3, <1>4, SendTyped DEF ListInv, ListTyped
  <2>2. list' \in [Procs -> Seq(Entries)] /\ loop' \in [Procs -> 0 .. EchoTime - 1]
    BY <1>2, <1>3, <1>6 DEF ListInv, ListTyped
  <2>3. QED
    BY <1>3, <2>1, <2>2 DEF ListInv, ListTyped
<1>8. ASSUME NEW q \in Procs PROVE Started(q)' /\ Paid(q)'
  <2>1. Started(q)'
    BY <1>3 DEF ListInv, Started
  <2>2. \A a \in Addrs : Cardinality(Index(list'[q], a)) \in Nat
                         /\ Cardinality(Index(list[q], a)) \in Nat
    BY <1>7, IndexFinite DEF ListInv, ListTyped
  <2>3. CASE q = p
    <3>1. list'[q] = l
      BY <1>3, <2>3 DEF ListInv, ListTyped
    <3>2. made'[q] >= made[q]
      BY <1>3, BoundsAssumption DEF ListInv, IInv, Typed
    <3>3. QED
      BY <1>3, <1>5, <1>7, <2>1, <2>3, <3>1, <3>2, PaidKept
  <2>4. CASE q # p
    <3>1. list'[q] = list[q]
      BY <1>3, <2>4 DEF ListInv, ListTyped
    <3>2. made'[q] >= made[q]
      BY <1>3, BoundsAssumption DEF ListInv, IInv, Typed
    <3>3. \A a \in Addrs : Cardinality(Index(list'[q], a)) <= Cardinality(Index(list[q], a))
      BY <2>2, <3>1
    <3>4. QED
      BY <1>3, <1>7, <2>1, <3>2, <3>3, PaidKept
  <2>5. QED
    BY <2>3, <2>4
<1>9. QED
  BY <1>7, <1>8
-----------------------------------------------------------------------------
(* A listener thread takes one datagram, searches, refreshes or appends.   *)

LEMMA ListenerList ==
  ASSUME ListInv, NEW p \in Procs, NEW t \in Gens, Listener(p, t)
  PROVE  \/ list' = list
         \/ /\ AppendNew(p, t) /\ list' = [list EXCEPT ![p] = Append(list[p], Fresh(from[p][t]))]
         \/ \E i \in Index(list[p], from[p][t]) :
              list' = [list EXCEPT ![p] = [list[p] EXCEPT ![i] = Fresh(from[p][t])]]
<1>1. CASE Update(p, t)
  <2> DEFINE found == Index(list[p], from[p][t])
  <2>1. CASE found = {}
    BY <1>1, <2>1 DEF Update
  <2>2. CASE found # {}
    <3>1. \E i \in found : list' = [list EXCEPT ![p][i] = Fresh(from[p][t])]
      BY <1>1, <2>2 DEF Update
    <3>2. QED
      BY <3>1
  <2>3. QED
    BY <2>1, <2>2
<1>2. CASE AppendNew(p, t)
  BY <1>2 DEF AppendNew
<1>3. CASE Check(p, t) \/ Receive(p, t) \/ Search(p, t)
  BY <1>3 DEF Check, Receive, Search
<1>4. QED
  BY <1>1, <1>2, <1>3 DEF Listener

LEMMA ListenerListTyped ==
  ASSUME ListInv, IInv', NEW p \in Procs, NEW t \in Gens, Listener(p, t)
  PROVE  ListTyped'
<1>1. UNCHANGED <<peer, loop, faults>>
  BY DEF Listener, Check, Receive, Search, Update, AppendNew, config, command
<1>2. net' \subseteq net
  BY DEF Listener, Check, Receive, Search, Update, AppendNew
<1>3. from' = from \/ \E a \in Addrs : from' = [from EXCEPT ![p][t] = a]
  <2>1. CASE Receive(p, t)
    <3>1. PICK m \in net : from' = [from EXCEPT ![p][t] = m.src]
      BY <2>1 DEF Receive
    <3>2. m.src \in Addrs
      BY DEF ListInv, ListTyped
    <3>3. QED
      BY <3>1, <3>2
  <2>2. CASE ~Receive(p, t)
    BY <2>2, NoAddrIs DEF Listener, Check, Search, Update, AppendNew, Forget
  <2>3. QED
    BY <2>1, <2>2
<1>4. from' \in [Procs -> [Gens -> Addrs]]
  BY <1>3, FromKept DEF ListInv, ListTyped
<1>5. list' \in [Procs -> Seq(Entries)]
  <2>1. from[p][t] \in Addrs /\ list[p] \in Seq(Entries)
    BY DEF ListInv, ListTyped
  <2>2. list' = list \/ \E r \in Seq(Entries) : list' = [list EXCEPT ![p] = r]
    BY <2>1, ListenerList, Refreshed, Appended
  <2>3. QED
    BY <2>2 DEF ListInv, ListTyped
<1>6. QED
  BY <1>1, <1>2, <1>4, <1>5 DEF ListInv, ListTyped

(* Where its thread moves, and that others stay.                           *)
LEMMA ListenerAppends ==
  ASSUME ListInv, NEW p \in Procs, NEW t \in Gens, Listener(p, t)
  PROVE  /\ made' = made
         /\ lpc[p][t] # "none"
         /\ \A q \in Procs, u \in Gens : <<q, u>> # <<p, t>> =>
              lpc'[q][u] = lpc[q][u] /\ from'[q][u] = from[q][u]
         /\ lpc'[p][t] = "append" =>
              /\ from' = from /\ list' = list
              /\ Index(list[p], from[p][t]) = {}
         /\ AppendNew(p, t) => lpc[p][t] = "append" /\ lpc'[p][t] = "check"
<1>1. lpc \in [Procs -> [Gens -> Places]] /\ from \in [Procs -> [Gens -> Addrs]]
  BY DEF ListInv, IInv, Typed, ListTyped
<1>2. CASE Check(p, t)
  BY <1>1, <1>2 DEF Check, AppendNew, sockets
<1>3. CASE Receive(p, t)
  BY <1>1, <1>3 DEF Receive, AppendNew, sockets
<1>4. CASE Search(p, t)
  BY <1>1, <1>4 DEF Search, AppendNew, sockets, Lists
<1>5. CASE Update(p, t)
  BY <1>1, <1>5 DEF Update, AppendNew, Forget, sockets
<1>6. CASE AppendNew(p, t)
  BY <1>1, <1>6 DEF AppendNew, Forget, sockets
<1>7. QED
  BY <1>2, <1>3, <1>4, <1>5, <1>6 DEF Listener

LEMMA ListenerStarted ==
  ASSUME ListInv, NEW p \in Procs, NEW t \in Gens, Listener(p, t), NEW q \in Procs
  PROVE  Started(q)'
<1> SUFFICES ASSUME NEW u \in Gens, lpc'[q][u] # "none" PROVE u <= made'[q]
  BY DEF Started
<1>1. made' = made /\ (\A v \in Gens : lpc[q][v] # "none" => v <= made[q])
  BY ListenerAppends DEF ListInv, Started
<1>2. lpc[q][u] # "none"
  BY ListenerAppends
<1>3. QED
  BY <1>1, <1>2

(* A thread that goes to the append found no entry: the entries are the    *)
(* threads that append, one for each socket at most.                       *)
LEMMA SearchPaid ==
  ASSUME ListInv, IInv', ListTyped', NEW p \in Procs, NEW t \in Gens, Listener(p, t),
         lpc'[p][t] = "append", NEW a \in Addrs
  PROVE  Cardinality(Index(list'[p], a)) + Cardinality(Appending(p, a)') <= made'[p]
<1>1. from' = from /\ list' = list /\ made' = made /\ Index(list[p], from[p][t]) = {}
  BY ListenerAppends
<1>2. CASE a = from[p][t]
  <2>1. Cardinality(Index(list'[p], a)) = 0
    BY <1>1, <1>2, FS_EmptySet
  <2>2. Started(p)'
    BY ListenerStarted
  <2>3. Cardinality(Appending(p, a)') <= made'[p] /\ Cardinality(Appending(p, a)') \in Nat
    <3>1. made'[p] \in Nat
      BY BoundsAssumption DEF IInv, Typed
    <3>2. Appending(p, a)' \subseteq 1 .. made'[p]
      BY <2>2, <3>1 DEF Appending, Started, Gens
    <3>3. IsFiniteSet(1 .. made'[p]) /\ Cardinality(1 .. made'[p]) = made'[p]
      BY <3>1, FS_Interval
    <3>4. QED
      BY <3>2, <3>3, FS_Subset, FS_CardinalityType
  <2>4. QED
    BY <2>1, <2>3
<1>3. CASE a # from[p][t]
  <2>1. Appending(p, a)' = Appending(p, a)
    BY <1>1, <1>3, ListenerAppends DEF Appending
  <2>2. QED
    BY <1>1, <2>1 DEF ListInv, Paid
<1>4. QED
  BY <1>2, <1>3

(* The append turns a thread that appends into an entry.                   *)
LEMMA AppendPaid ==
  ASSUME ListInv, IInv', ListTyped', NEW p \in Procs, NEW t \in Gens, AppendNew(p, t),
         NEW a \in Addrs
  PROVE  Cardinality(Index(list'[p], a)) + Cardinality(Appending(p, a)') <= made'[p]
<1> DEFINE b == from[p][t]
<1>1. b \in Addrs /\ list[p] \in Seq(Entries)
  BY DEF ListInv, ListTyped
<1>2. Listener(p, t)
  BY DEF Listener
<1>3. made' = made /\ lpc[p][t] = "append" /\ lpc'[p][t] = "check"
  BY <1>2, ListenerAppends
<1>4. list'[p] = Append(list[p], Fresh(b))
  BY DEF AppendNew, ListInv, ListTyped
<1>5. \A u \in Gens : u # t => lpc'[p][u] = lpc[p][u] /\ from'[p][u] = from[p][u]
  BY <1>2, ListenerAppends
<1>6. Cardinality(Index(list[p], a)) + Cardinality(Appending(p, a)) <= made[p]
  BY DEF ListInv, Paid
<1>7. made[p] \in Nat /\ Cardinality(Index(list[p], a)) \in Nat
      /\ Cardinality(Appending(p, a)) \in Nat /\ IsFiniteSet(Appending(p, a))
  BY <1>1, IndexFinite, AppendingFinite, BoundsAssumption DEF ListInv, IInv, Typed
<1>8. CASE a = b
  <2>1. Appending(p, a)' = Appending(p, a) \ {t} /\ t \in Appending(p, a)
    BY <1>3, <1>5, <1>8 DEF Appending
  <2>2. Cardinality(Appending(p, a)') = Cardinality(Appending(p, a)) - 1
    BY <1>7, <2>1, FS_RemoveElement
  <2>3. Cardinality(Index(list'[p], a)) = Cardinality(Index(list[p], a)) + 1
    BY <1>1, <1>4, <1>8, Appended
  <2> HIDE DEF b
  <2>4. QED
    BY <1>3, <1>6, <1>7, <2>2, <2>3
<1>9. CASE a # b
  <2>1. Appending(p, a)' = Appending(p, a)
    BY <1>3, <1>5, <1>9 DEF Appending
  <2>2. Index(list'[p], a) = Index(list[p], a)
    BY <1>1, <1>4, <1>9, Appended
  <2> HIDE DEF b
  <2>3. QED
    BY <1>3, <1>6, <2>1, <2>2
<1>10. QED
  BY <1>8, <1>9

LEMMA ListenerPaid ==
  ASSUME ListInv, IInv', ListTyped', NEW p \in Procs, NEW t \in Gens, Listener(p, t),
         NEW q \in Procs
  PROVE  Paid(q)'
<1>1. made' = made /\ made'[q] >= made[q]
  BY ListenerAppends, BoundsAssumption DEF ListInv, IInv, Typed
<1>2. \A u \in Gens : <<q, u>> # <<p, t>> =>
         lpc'[q][u] = lpc[q][u] /\ from'[q][u] = from[q][u]
  BY ListenerAppends
<1>3. \A a \in Addrs : Cardinality(Index(list[q], a)) \in Nat
  BY IndexFinite DEF ListInv, ListTyped
<1>4. CASE q = p /\ lpc'[p][t] = "append"
  BY <1>4, SearchPaid DEF Paid
<1>5. CASE q = p /\ AppendNew(p, t)
  BY <1>5, AppendPaid DEF Paid
<1>6. CASE q # p \/ (lpc'[p][t] # "append" /\ ~AppendNew(p, t))
  <2>1. \A u \in Gens : lpc'[q][u] = "append" => lpc[q][u] = "append" /\ from'[q][u] = from[q][u]
    BY <1>2, <1>6
  <2>2. \A a \in Addrs : Cardinality(Index(list'[q], a)) <= Cardinality(Index(list[q], a))
    <3>1. CASE q # p
      <4>1. list'[q] = list[q]
        BY <3>1, ListenerList DEF ListInv, ListTyped
      <4>2. QED
        BY <1>3, <4>1
    <3>2. CASE q = p /\ ~AppendNew(p, t)
      <4>1. list[p] \in Seq(Entries) /\ from[p][t] \in Addrs /\ p \in DOMAIN list
        BY DEF ListInv, ListTyped
      <4>2. \A a : Index(list'[p], a) = Index(list[p], a)
        BY <3>2, <4>1, ListenerList, Refreshed
      <4>3. QED
        BY <1>3, <3>2, <4>2
    <3>3. QED
      BY <1>6, <3>1, <3>2
  <2>3. QED
    BY <1>1, <2>1, <2>2, PaidKept
<1>7. QED
  BY <1>4, <1>5, <1>6

-----------------------------------------------------------------------------

LEMMA ListNext == ListInv /\ [Next]_vars => ListInv'
<1> SUFFICES ASSUME ListInv, [Next]_vars PROVE ListInv'
  OBVIOUS
<1>1. IInv'
  BY NextInv DEF ListInv
<1>2. ASSUME NEW p \in Procs, NEW v \in Vtys, Command(p, v) PROVE ListInv'
  BY <1>1, <1>2, CommandListTyped, CommandPaid DEF ListInv
<1>3. ASSUME NEW p \in Procs, NEW t \in Gens, Listener(p, t) PROVE ListInv'
  BY <1>1, <1>3, ListenerListTyped, ListenerStarted, ListenerPaid DEF ListInv
<1>4. ASSUME NEW p \in Procs, Tick(p) PROVE ListInv'
  BY <1>1, <1>4, TickListInv DEF ListInv
<1>5. ASSUME UNCHANGED <<sockets, config, command, listeners, list, loop>>, net' \subseteq net
      PROVE  ListInv'
  <2>1. ListTyped'
    BY <1>5 DEF ListInv, ListTyped, config, command, listeners
  <2>2. \A p \in Procs : Started(p)' /\ Paid(p)'
    BY <1>5 DEF ListInv, Started, Paid, Appending, sockets, listeners
  <2>3. QED
    BY <1>1, <2>1, <2>2 DEF ListInv
<1>6. ASSUME NEW m \in net, Lose(m) PROVE ListInv'
  BY <1>5, <1>6 DEF Lose
<1>7. CASE UNCHANGED vars
  BY <1>5, <1>7 DEF vars
<1>8. QED
  BY <1>2, <1>3, <1>4, <1>6, <1>7 DEF Next, Command

(* The types of the model: among them that a process holds no socket it    *)
(* has not made, that no entry of a list is older than its age allows, and *)
(* that whoever is listed has an address.                                  *)
THEOREM NdpTypeCorrect == Spec => []TypeOK
<1>1. ListInv => TypeOK
  <2> SUFFICES ASSUME ListInv PROVE TypeOK
    OBVIOUS
  <2>1. Typed /\ ListTyped /\ \A p \in Procs : Numbered(p)
    BY DEF ListInv, IInv
  <2>2. QED
    BY <2>1 DEF Typed, ListTyped, Numbered, TypeOK, Entries, Places, Looking
<1>2. QED
  BY <1>1, ListInit, ListNext, PTL DEF Spec

(* A neighbour is listed no more often than the process has made sockets,  *)
(* whatever datagrams the threads of old sockets still take and whatever   *)
(* ages out or is freed between their search and their append.             *)
THEOREM NdpEntryPerThread == Spec => []EntryPerThread
<1>1. ListInv => EntryPerThread
  <2> SUFFICES ASSUME ListInv, NEW p \in Procs, NEW e \in Range(list[p])
               PROVE  Cardinality(Index(list[p], e.addr)) <= made[p]
    BY DEF EntryPerThread
  <2>1. list[p] \in Seq(Entries) /\ made[p] \in Nat
    BY BoundsAssumption DEF ListInv, ListTyped, IInv, Typed
  <2>2. e \in Entries
    BY <2>1 DEF Range
  <2>3. e.addr \in Addrs
    BY <2>2 DEF Entries
  <2>4. Cardinality(Index(list[p], e.addr)) \in Nat /\ Cardinality(Appending(p, e.addr)) \in Nat
    BY <2>1, IndexFinite, AppendingFinite
  <2>5. QED
    BY <2>1, <2>3, <2>4 DEF ListInv, Paid
<1>2. QED
  BY <1>1, ListInit, ListNext, PTL DEF Spec
=============================================================================
