--------------------------- MODULE NorthCommands ---------------------------
(***************************************************************************)
(* Command lines run without a user: the start-up thread recovers the      *)
(* saved configuration line by line (SYSMNG_CfgRecover), and every packet  *)
(* with a command runs it in a thread of its own (SYSMNG_TLVMsgProcess).   *)
(* All of them run on the one CFM vty: cmd_pub_run copies a line into its  *)
(* buffer, cmd_run takes it from there and matches it against the commands *)
(* of its view, which the command may change.  Nothing excludes them.      *)
(*                                                                         *)
(* A line is one word and stands for the command of that name.             *)
(***************************************************************************)
EXTENDS Sequences, FiniteSets, Naturals

CONSTANTS
  Packets, \* the threads of packets with a command
  Main,    \* the thread that recovers the configuration
  Config,  \* the saved configuration
  MaxActive \* bound: threads active at the same time

VARIABLES
  buffer, \* vty->szBuffer
  view,   \* vty->view_id
  lines,  \* the lines a thread still has to run
  at,     \* where the thread is in the first of them
  word,   \* the line it has taken from the buffer (v in cmd_run)
  seen,   \* the view the words were filtered in
  saved,  \* view_id_
  alone,  \* history: the threads that were never active with another one,
  ran,    \* the commands each of them has run,
  given   \* and the lines it was started with

vars == <<buffer, view, lines, at, word, seen, saved, alone, ran, given>>
locals == <<word, seen, saved>>
history == <<alone, ran, given>>

Threads == Packets \cup {Main}

(* The commands with an effect on the view; "set" stands for every command *)
(* of the configuration.                                                   *)
Home == [c \in {"system-view", "diagnose-view", "set", "return", "quit"} |->
           CASE c = "system-view" -> "user"
             [] c \in {"diagnose-view", "set"} -> "system"
             [] OTHER -> "global"]
Commands == DOMAIN Home
Visible(v) == {c \in Commands : Home[c] \in {"global", v}}

Views == {"user", "system", "diagnose"}
(* cmd_view_get_parent_view_id.                                            *)
Parent(v) == CASE v = "diagnose" -> "system" [] v = "system" -> "user" [] OTHER -> "global"

-----------------------------------------------------------------------------

Active(t) == at[t] \notin {"idle", "done"}

Start(t, program) ==
  /\ at[t] = "idle" /\ at' = [at EXCEPT ![t] = "copy"]
  /\ Cardinality({r \in Threads : Active(r)}) < MaxActive
  /\ lines' = [lines EXCEPT ![t] = program]
  /\ alone' = IF \E r \in Threads : Active(r) THEN {} ELSE {t}
  /\ given' = [r \in Threads |-> IF r \in alone' THEN program ELSE <<>>]
  /\ ran' = [r \in Threads |-> <<>>]
  /\ UNCHANGED <<buffer, view, locals>>

(* SYSMNG_CfgRecover; SYSMNG_TLVMsgProcess with the northern interface     *)
(* enabled.                                                                *)
CfgRecover == Start(Main, <<"system-view">> \o Config \o <<"return">>)
Packet(t) == \E c \in Commands \ {"system-view"} : Start(t, <<"system-view", c>>)

-----------------------------------------------------------------------------
(* cmd_pub_run.                                                            *)

Copy(t) ==
  /\ at[t] = "copy" /\ at' = [at EXCEPT ![t] = "parse"]
  /\ buffer' = Head(lines[t])
  /\ UNCHANGED <<view, lines, locals, history>>

(* cmd_str2vec finds nothing in a buffer that another thread has cleared.  *)
Parse(t) ==
  /\ at[t] = "parse"
  /\ at' = [at EXCEPT ![t] = IF buffer = "" THEN "clear" ELSE "filter"]
  /\ word' = [word EXCEPT ![t] = buffer]
  /\ UNCHANGED <<buffer, view, lines, seen, saved, history>>

(* cmd_execute_command, first loop: commands of the view that do not match *)
(* are struck out, those of other views are not looked at.                 *)
Filter(t) ==
  /\ at[t] = "filter"
  /\ seen' = [seen EXCEPT ![t] = view]
  /\ at' = [at EXCEPT ![t] = IF word[t] \in Visible(view) THEN "match" ELSE "missed"]
  /\ UNCHANGED <<buffer, view, lines, word, saved, history>>

(* Second loop: what is left and in the view, which may be another by now, *)
(* matches if it has as many words.  One match is the command to run.      *)
Left(t) == {c \in Visible(view) : c = word[t] \/ c \notin Visible(seen[t])}
Match(t) ==
  /\ at[t] = "match"
  /\ IF Cardinality(Left(t)) = 1
     THEN at' = [at EXCEPT ![t] = "run"] /\ word' = [word EXCEPT ![t] = CHOOSE c \in Left(t) : TRUE]
     ELSE at' = [at EXCEPT ![t] = "missed"] /\ UNCHANGED word
  /\ UNCHANGED <<buffer, view, lines, seen, saved, history>>

(* CMD_CFG_Callback.  A quit from the user view resets the vty.            *)
ViewAfter(c, v) ==
  CASE c = "system-view" -> "system"
    [] c = "diagnose-view" -> "diagnose"
    [] c = "return" -> "user"
    [] c = "quit" -> IF v = "user" THEN "user" ELSE Parent(v)
    [] OTHER -> v
Run(t) ==
  /\ at[t] = "run" /\ at' = [at EXCEPT ![t] = "clear"]
  /\ view' = ViewAfter(word[t], view)
  /\ ran' = [ran EXCEPT ![t] = IF t \in alone THEN Append(@, word[t]) ELSE @]
  /\ UNCHANGED <<buffer, lines, locals, alone, given>>

(* cmd_run notes the view of the first failure,                            *)
Missed(t) ==
  /\ at[t] = "missed" /\ at' = [at EXCEPT ![t] = "back"]
  /\ saved' = [saved EXCEPT ![t] = IF @ = "" THEN view ELSE @]
  /\ UNCHANGED <<buffer, view, lines, word, seen, history>>

(* Mutant: it stops at the system view.                                    *)
BackToSystem(t) ==
  /\ at[t] = "back"
  /\ IF Parent(view) \in {"system", "user", "global"}
     THEN view' = saved[t] /\ at' = [at EXCEPT ![t] = "clear"]
     ELSE view' = Parent(view) /\ at' = [at EXCEPT ![t] = "filter"]
  /\ UNCHANGED <<buffer, lines, locals, history>>

(* goes back view by view, and takes that view again when none is left.    *)
Back(t) ==
  /\ at[t] = "back"
  /\ IF Parent(view) \in {"user", "global"}
     THEN view' = saved[t] /\ at' = [at EXCEPT ![t] = "clear"]
     ELSE view' = Parent(view) /\ at' = [at EXCEPT ![t] = "filter"]
  /\ UNCHANGED <<buffer, lines, locals, history>>

(* A packet's thread ends, and the next packet has one like it.            *)
Clear(t) ==
  /\ at[t] = "clear"
  /\ buffer' = ""
  /\ lines' = [lines EXCEPT ![t] = Tail(@)]
  /\ at' = [at EXCEPT ![t] = IF Len(lines[t]) > 1 THEN "copy"
                             ELSE IF t = Main THEN "done" ELSE "idle"]
  /\ word' = [word EXCEPT ![t] = ""]
  /\ seen' = [seen EXCEPT ![t] = "user"]
  /\ saved' = [saved EXCEPT ![t] = ""]
  /\ UNCHANGED <<view, history>>

CmdRun(t) ==
  \/ Copy(t) \/ Parse(t) \/ Filter(t) \/ Match(t) \/ Run(t)
  \/ Missed(t) \/ Back(t) \/ Clear(t)

-----------------------------------------------------------------------------

Init ==
  /\ buffer = "" /\ view = "user"
  /\ lines = [t \in Threads |-> <<>>] /\ given = lines /\ ran = lines
  /\ at = [t \in Threads |-> "idle"]
  /\ word = [t \in Threads |-> ""] /\ saved = word
  /\ seen = [t \in Threads |-> "user"]
  /\ alone = {}

Next ==
  \/ CfgRecover
  \/ \E t \in Packets : Packet(t)
  \/ \E t \in Threads : CmdRun(t)

Spec == Init /\ [][Next]_vars

-----------------------------------------------------------------------------
(* Properties.                                                             *)

CommandTypeOK ==
  /\ buffer \in Commands \cup {""}
  /\ view \in Views
  /\ \A f \in {lines, ran, given} : f \in [Threads -> Seq(Commands)]
  /\ at \in [Threads -> {"idle", "copy", "parse", "filter", "match", "run", "missed",
                         "back", "clear", "done"}]
  /\ word \in [Threads -> Commands \cup {""}]
  /\ seen \in [Threads -> Views]
  /\ saved \in [Threads -> Views \cup {""}]
  /\ alone \subseteq Threads

(* Threads that overlap run each other's lines, or none.  But they leave   *)
(* nothing behind that harms the next one: a thread that was alone on the  *)
(* vty has run its lines, each of them, in their order and once, whatever  *)
(* view and buffer it found.  Only the first, system-view, may be missing, *)
(* when its view had been entered before.                                  *)
AloneRunsItsLines ==
  \A t \in Threads :
    t \in alone /\ ~Active(t) => ran[t] \in {given[t], Tail(given[t])}
=============================================================================
