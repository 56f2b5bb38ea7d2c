----------------------------- MODULE CommandLog -----------------------------
(***************************************************************************)
(* What the user of a vty may count on from its command line: the lines    *)
(* that were run are remembered in order, the last Size of them and none   *)
(* twice in a row, and the arrow keys walk through them and put the one    *)
(* they stand at on the line.  CommandLine implements it with a ring of    *)
(* strings and two indices.                                                *)
(***************************************************************************)
EXTENDS Integers, Sequences

CONSTANTS Chars, Size

VARIABLES
  log,  \* the remembered lines, the oldest first
  back, \* how many lines back the arrows stand; 0: at the line being typed
  line  \* what stands on the line

vars == <<log, back, line>>

(* With Size lines remembered the walk is a circle, on which the oldest    *)
(* line has the place of the line being typed.                             *)
Remembered(b) == b \in 1 .. Len(log) \/ Len(log) = Size
Entry(b) == IF b = 0 THEN log[1] ELSE log[Len(log) + 1 - b]

Older(b) == IF b + 1 < Size THEN b + 1 ELSE 0
Newer(b) == IF b > 0 THEN b - 1 ELSE Size - 1

LogTypeOK ==
  /\ log \in Seq(Seq(Chars)) /\ Len(log) =< Size
  /\ back \in 0 .. Len(log)
  /\ line \in Seq(Chars)

Init == log = <<>> /\ back = 0 /\ line = <<>>

Edit == line' \in Seq(Chars) /\ UNCHANGED <<log, back>>

(* Two lines in a row that are the same are remembered as one.  A line     *)
(* that several commands match may be left standing.                       *)
Record(l) ==
  LET longer == Append(log, l) IN
  log' = IF log # <<>> /\ log[Len(log)] = l THEN log
         ELSE IF Len(log) = Size THEN Tail(longer) ELSE longer
RunLine ==
  /\ log' # <<>> /\ log'[Len(log')] \in Seq(Chars) /\ Record(log'[Len(log')])
  /\ back' = 0
  /\ line' \in {line, <<>>}

Walk(b) == Remembered(b) /\ back' = b /\ line' = Entry(b) /\ UNCHANGED log

(* The session ends and forgets everything.                                *)
Forget == log' = <<>> /\ back' = 0 /\ line' = <<>>

Next ==
  \/ Edit
  \/ RunLine
  \/ Walk(Older(back))
  \/ Walk(Newer(back))
  \/ Forget

Spec == Init /\ [][Next]_vars
=============================================================================
