--------------------------- MODULE JudgeService ---------------------------
(***************************************************************************)
(* What the judge promises whoever submits: requests are served one at a   *)
(* time and in the order in which they wait; a request that is served      *)
(* writes the row of its solution and no other, and gives it exactly one   *)
(* result, unless the update is refused.  The row may also be settled from *)
(* outside (a skipped request, the remote judger).  Requests that arrive   *)
(* at the same moment may damage each other while they wait, never the     *)
(* request in service, and a crash forgets all requests but no row.        *)
(***************************************************************************)
EXTENDS Integers, Sequences

CONSTANT Solutions

VARIABLES
  waiting,  (* the targets of the waiting requests                         *)
  active,   (* the target of the request in service                        *)
  phase,    (* of the service: "free", "open", or "closed" once it is done *)
  status,   (* of the row of each solution                                 *)
  lost      (* how many updates of a row were refused                      *)

(* The target of a request is a solution, or 0 if it writes no row.        *)
Targets  == Solutions \cup {0}
Statuses == {"none", "queued", "judging", "settled"}

svars == <<waiting, active, phase, status, lost>>

Init ==
  /\ waiting = <<>> /\ active = 0 /\ phase = "free"
  /\ status = [s \in Solutions |-> "none"] /\ lost = 0

HasRow(t) == t \in Solutions /\ status[t] # "none"

Submit(s) ==
  /\ status[s] = "none"
  /\ status' = [status EXCEPT ![s] = "queued"]
  /\ UNCHANGED <<waiting, active, phase, lost>>

Arrive(t) ==
  /\ waiting' = Append(waiting, t)
  /\ UNCHANGED <<active, phase, status, lost>>

(* A request lands in the cell of a waiting one, or in none, and a cell    *)
(* with an arbitrary target may appear behind the last.                    *)
Collide(t) ==
  /\ \E w \in {waiting} \cup {[waiting EXCEPT ![i] = t] : i \in DOMAIN waiting} :
       waiting' = w \/ \E u \in Targets : waiting' = Append(w, u)
  /\ UNCHANGED <<active, phase, status, lost>>

(* A request without a target may be done as soon as it is taken.          *)
Start ==
  /\ phase = "free" /\ waiting # <<>>
  /\ active' = Head(waiting) /\ waiting' = Tail(waiting)
  /\ phase' = "open" \/ (phase' = "closed" /\ Head(waiting) = 0)
  /\ UNCHANGED <<status, lost>>

Mark ==
  /\ phase = "open" /\ HasRow(active)
  /\ status' = [status EXCEPT ![active] = "judging"]
  /\ UNCHANGED <<waiting, active, phase, lost>>

Result ==
  /\ phase = "open" /\ phase' = "closed"
  /\ IF HasRow(active)
     THEN \E v \in {"queued", "settled"} : status' = [status EXCEPT ![active] = v]
     ELSE UNCHANGED status
  /\ UNCHANGED <<waiting, active, lost>>

(* An update that is refused: of the mark, of the result, or of a row that *)
(* is settled from outside.                                                *)
Refuse ==
  /\ lost' = lost + 1
  /\ phase' = phase \/ (phase = "open" /\ phase' = "closed")
  /\ UNCHANGED <<waiting, active, status>>

Finish ==
  /\ phase = "closed" /\ phase' = "free" /\ active' = 0
  /\ UNCHANGED <<waiting, status, lost>>

SettleOutside(s) ==
  /\ HasRow(s)
  /\ status' = [status EXCEPT ![s] = "settled"]
  /\ UNCHANGED <<waiting, active, phase, lost>>

Crash ==
  /\ waiting' = <<>> /\ active' = 0 /\ phase' = "free"
  /\ UNCHANGED <<status, lost>>

Next ==
  \/ \E s \in Solutions : Submit(s) \/ SettleOutside(s)
  \/ \E t \in Targets : Arrive(t) \/ Collide(t)
  \/ Start \/ Mark \/ Result \/ Refuse \/ Finish
  \/ Crash

Spec == Init /\ [][Next]_svars
=============================================================================
