---------------------------- MODULE CommandLine ----------------------------
(***************************************************************************)
(* The command line of one telnet vty: the keys of cmd_fsm                 *)
(* (cli/cli_core.cpp), which edit szBuffer, and the ring of lines that     *)
(* were run (cli/cli_history.cpp), over the sessions that have the vty one *)
(* after the other.                                                        *)
(*                                                                         *)
(* A key is one step, but for a command that takes its own vty offline:    *)
(* the vty may have a new user before that command is added to the         *)
(* history.  Overlapping memcpy calls copy as memmove does, with which     *)
(* they share their code in the C libraries the project is built with.     *)
(*                                                                         *)
(* Neither typing nor tab leaves a cell for the end of the line, and tab   *)
(* does not look whether what it appends fits at all, nor whether the word *)
(* it notes in tabbingString does.  A behaviour is followed up to the      *)
(* first key that fills the line or overruns one of the two: what happens  *)
(* to a vty whose other fields are written over is left open.              *)
(***************************************************************************)
EXTENDS Integers, Sequences

CONSTANTS
  Chars,  \* what is typed
  Blank,  \* the space
  NUL,    \* the character that ends a string
  Words,  \* what the tab key may complete a word to
  Cells,  \* CMD_BUFFER_SIZE
  ElemSize, \* CMD_MAX_CMD_ELEM_SIZE, of tabbingString
  Size    \* HISTORY_MAX_SIZE, of the ring and of what cmd_clear_line clears

ASSUME LineAssumption ==
  /\ Blank \in Chars /\ NUL \notin Chars
  /\ Cells \in Nat \ {0} /\ ElemSize \in Nat \ {0} /\ Size \in Nat \ {0, 1}
  /\ Words \subseteq Seq(Chars)

VARIABLES
  used,         \* the vty has a user
  szBuffer,     \* the line as a C string
  ulUsedLen,    \* its length, as the keys count it
  ulCurrentPos, \* the cursor
  pszHistory,   \* the ring of lines; NoLine: NULL
  ulhNum,       \* where the next line goes
  ulhpos,       \* where the arrow keys stand
  quitting,     \* a command has taken its vty offline and is not recorded yet
  stale,        \* history: szBuffer may hold what nobody has wiped
  overrun       \* history: a key has left the line without an end, or has
                \* written behind szBuffer or tabbingString

text == <<szBuffer, ulUsedLen, ulCurrentPos, stale>>
ring == <<pszHistory, ulhNum, ulhpos>>
vars == <<used, text, ring, quitting, overrun>>

Cell == 0 .. Cells - 1
Slot == 0 .. Size - 1
NoLine == <<NUL>>

TypeOK ==
  /\ used \in BOOLEAN /\ quitting \in BOOLEAN
  /\ stale \in BOOLEAN /\ overrun \in BOOLEAN
  /\ szBuffer \in [Cell -> Chars \cup {NUL}]
  /\ ulUsedLen \in Nat /\ ulCurrentPos \in 0 .. ulUsedLen
  /\ ~overrun => ulUsedLen \in Cell
  /\ pszHistory \in [Slot -> Seq(Chars) \cup {NoLine}]
  /\ ulhNum \in Slot /\ ulhpos \in Slot

-----------------------------------------------------------------------------
(* Strings.                                                                *)

(* strlen: the first cell with NUL; the last one holds it in a line that   *)
(* does not fill the buffer.                                               *)
StrLen(b) == CHOOSE n \in Cell : b[n] = NUL /\ \A i \in 0 .. n - 1 : b[i] # NUL
String(b) == [i \in 1 .. StrLen(b) |-> b[i - 1]]

(* What the user sees: the keys echo the cells below ulUsedLen, of which   *)
(* no more than Cells are cells of the line.                               *)
Shown == [i \in 1 .. IF ulUsedLen < Cells THEN ulUsedLen ELSE Cells |-> szBuffer[i - 1]]

Wiped == [i \in Cell |-> NUL]
(* strcpy of a line into cells that hold b.                                *)
Copied(b, line) ==
  [i \in Cell |-> IF i < Len(line) THEN line[i + 1] ELSE IF i = Len(line) THEN NUL ELSE b[i]]

IsBlank(line) == \A i \in DOMAIN line : line[i] = Blank

-----------------------------------------------------------------------------
(* The keys that edit.                                                     *)

(* A character that goes to the last cell leaves none for the end.         *)
Insert(c) ==
  /\ used /\ ulUsedLen < Cells
  /\ szBuffer' = [i \in Cell |->
       IF i = ulCurrentPos THEN c
       ELSE IF i \in ulCurrentPos + 1 .. ulUsedLen THEN szBuffer[i - 1] ELSE szBuffer[i]]
  /\ ulCurrentPos' = ulCurrentPos + 1 /\ ulUsedLen' = ulUsedLen + 1
  /\ overrun' = (ulUsedLen' = Cells)
  /\ UNCHANGED <<used, ring, quitting, stale>>

WithoutEnd(p) == [i \in Cell |->
  IF i \in p .. ulUsedLen - 2 THEN szBuffer[i + 1] ELSE szBuffer[i]]
(* The cell at p goes; those behind it move up and NUL ends the line.      *)
Without(p) == [i \in Cell |->
  IF i = ulUsedLen - 1 THEN NUL
  ELSE IF i \in p .. ulUsedLen - 2 THEN szBuffer[i + 1] ELSE szBuffer[i]]

Delete ==
  /\ used /\ ulCurrentPos < ulUsedLen
  /\ szBuffer' = Without(ulCurrentPos)
  /\ ulUsedLen' = ulUsedLen - 1
  /\ UNCHANGED <<used, ulCurrentPos, ring, quitting, stale>>

Backspace ==
  /\ used /\ ulCurrentPos > 0
  /\ szBuffer' = Without(ulCurrentPos - 1)
  /\ ulCurrentPos' = ulCurrentPos - 1 /\ ulUsedLen' = ulUsedLen - 1
  /\ UNCHANGED <<used, ring, quitting, stale>>

Move ==
  /\ used
  /\ ulCurrentPos' \in {ulCurrentPos - 1, ulCurrentPos + 1} \cap 0 .. ulUsedLen
  /\ UNCHANGED <<used, szBuffer, ulUsedLen, ring, quitting, stale>>

(* Tab and ? first cut the line at the cursor.                             *)
Cut == [i \in Cell |-> IF i \in ulCurrentPos .. StrLen(szBuffer) - 1 THEN NUL ELSE szBuffer[i]]
Ends(b) == szBuffer' = b /\ ulUsedLen' = StrLen(b) /\ ulCurrentPos' = StrLen(b)

Quest ==
  /\ used
  /\ Ends(Cut)
  /\ UNCHANGED <<used, ring, quitting, stale>>

(* A tab notes the last word, and if it finds a completion deletes it with *)
(* everything behind it, to the end of the buffer, and appends the         *)
(* completion, whether that fits or not.                                   *)
(* On an empty line a tab looks at szBuffer[ulUsedLen - 1], the byte before*)
(* the buffer; that decides nothing, for there is no word to match.        *)
BeforeWord(line) ==
  SubSeq(line, 1, CHOOSE n \in 0 .. Len(line) :
    (n = 0 \/ line[n] = Blank) /\ \A i \in n + 1 .. Len(line) : line[i] # Blank)
LastWordFits(line) == Len(line) - Len(BeforeWord(line)) < ElemSize
Becomes(line) ==
  /\ szBuffer' = Copied(Wiped, line)
  /\ ulUsedLen' = Len(line) /\ ulCurrentPos' = Len(line)
  /\ stale' = FALSE
Complete(w) ==
  LET line == BeforeWord(String(Cut)) \o w IN
  /\ used /\ ~IsBlank(String(Cut)) /\ LastWordFits(String(Cut))
  /\ Becomes(line)
  /\ overrun' = (Len(line) >= Cells)
  /\ UNCHANGED <<used, ring, quitting>>

TabOnLongWord ==
  /\ used /\ ~LastWordFits(String(Cut))
  /\ Ends(Cut)
  /\ overrun' = TRUE
  /\ UNCHANGED <<used, ring, quitting, stale>>

(* A second tab deletes the last word even if it finds no completion, and  *)
(* puts back the one that was noted.                                       *)
TabAgain ==
  /\ used /\ LastWordFits(String(Cut))
  /\ Becomes(String(Cut))
  /\ UNCHANGED <<used, ring, quitting>>

-----------------------------------------------------------------------------
(* The ring.                                                               *)

Before(i) == IF i = 0 THEN Size - 1 ELSE i - 1
After(i) == IF i = Size - 1 THEN 0 ELSE i + 1

(* cmd_vty_add_history: a line that repeats the one before is not added,   *)
(* and the arrow keys start over in both cases.                            *)
AddHistoryNext(line) ==
  IF pszHistory[ulhNum] = line
  THEN ulhpos' = ulhNum /\ UNCHANGED <<pszHistory, ulhNum>>
  ELSE /\ pszHistory' = [pszHistory EXCEPT ![ulhNum] = line]
       /\ ulhNum' = After(ulhNum) /\ ulhpos' = After(ulhNum)
AddHistory(line) ==
  IF pszHistory[Before(ulhNum)] = line
  THEN ulhpos' = ulhNum /\ UNCHANGED <<pszHistory, ulhNum>>
  ELSE /\ pszHistory' = [pszHistory EXCEPT ![ulhNum] = line]
       /\ ulhNum' = After(ulhNum) /\ ulhpos' = After(ulhNum)

(* cmd_clear_line clears as many cells as the ring has slots; strcpy puts  *)
(* the line there.                                                         *)
Recall(i) ==
  LET cleared == [k \in Cell |-> IF k < Size THEN NUL ELSE szBuffer[k]] IN
  /\ used /\ pszHistory[i] # NoLine
  /\ ulhpos' = i
  /\ szBuffer' = Copied(cleared, pszHistory[i])
  /\ ulUsedLen' = Len(pszHistory[i]) /\ ulCurrentPos' = Len(pszHistory[i])
  /\ stale' = (stale \/ ulUsedLen > Size)
  /\ UNCHANGED <<used, pszHistory, ulhNum, quitting>>

Up == Recall(Before(ulhpos))
Down == Recall(After(ulhpos))

-----------------------------------------------------------------------------
(* Running a line.                                                         *)

Wipe ==
  /\ szBuffer' = Wiped /\ stale' = FALSE
  /\ ulUsedLen' = 0 /\ ulCurrentPos' = 0

(* cmd_handle_enter.  A blank line stays where it is.  A line that several *)
(* commands of a parent view match stays too, as they are not listed.      *)
Enter ==
  /\ used /\ ~IsBlank(String(szBuffer))
  /\ AddHistory(String(szBuffer))
  /\ Wipe \/ UNCHANGED text
  /\ UNCHANGED <<used, quitting>>

NoLines == [i \in Slot |-> NoLine]

(* vty_offline: by the thread of the session, by aging, by a kick.  The    *)
(* line stays in the buffer.                                               *)
Free ==
  /\ used' = FALSE
  /\ pszHistory' = NoLines /\ ulhNum' = 0 /\ ulhpos' = 0
  /\ ulUsedLen' = 0 /\ ulCurrentPos' = 0 /\ UNCHANGED szBuffer

Offline ==
  /\ Free /\ stale' = (stale \/ ulUsedLen > 0)
  /\ UNCHANGED quitting

(* A command, such as quit, that takes its vty offline; the line is added  *)
(* to the history of a vty that is free by then or has another user.       *)
(* Bound: one such command at a time.                                      *)
EnterQuit ==
  /\ used /\ ~IsBlank(String(szBuffer)) /\ ~quitting
  /\ Free /\ stale' = TRUE
  /\ quitting' = TRUE
RecordQuit ==
  /\ quitting /\ quitting' = FALSE
  /\ AddHistory(String(szBuffer))
  /\ Wipe
  /\ UNCHANGED used

(* cmd_get_idle_vty takes the vty as it is.                                *)
Connect ==
  /\ ~used /\ used' = TRUE
  /\ UNCHANGED <<text, ring, quitting>>

Init ==
  /\ used = FALSE /\ quitting = FALSE /\ stale = FALSE /\ overrun = FALSE
  /\ szBuffer = Wiped /\ ulUsedLen = 0 /\ ulCurrentPos = 0
  /\ pszHistory = NoLines /\ ulhNum = 0 /\ ulhpos = 0

(* The steps that write to no cell behind the line.                        *)
Within ==
  \/ Delete \/ Backspace \/ Move
  \/ Quest \/ TabAgain
  \/ Up \/ Down
  \/ Enter \/ EnterQuit \/ RecordQuit
  \/ Offline \/ Connect

Next ==
  /\ ~overrun
  /\ \/ \E c \in Chars : Insert(c)
     \/ \E w \in Words : Complete(w)
     \/ TabOnLongWord
     \/ Within /\ UNCHANGED overrun

Spec == Init /\ [][Next]_vars

-----------------------------------------------------------------------------
(* What is run is what the user sees: the string in the buffer ends where  *)
(* the keys count it to end.  The exceptions are a line the vty was freed  *)
(* with, which the next user inherits, and one longer than cmd_clear_line  *)
(* clears, until the buffer is next wiped, and a line that has left the    *)
(* buffer no cell for its end.                                             *)
ShownIsRun ==
  ~stale /\ ~overrun => \A i \in Cell : szBuffer[i] = NUL <=> i >= ulUsedLen

(* The ring and its indices are the log: the lines run last, in order, and *)
(* the arrow keys put the right one on the line.                           *)
OnRing(n) == IF n < Size THEN n ELSE n - Size
LogOf(h, n) ==
  IF h[n] # NoLine
  THEN [i \in 1 .. Size |-> h[OnRing(n + i - 1)]]
  ELSE [i \in 1 .. n |-> h[i - 1]]
StepsBack(n, p) == IF p =< n THEN n - p ELSE n - p + Size
Log == INSTANCE CommandLog WITH
  log <- LogOf(pszHistory, ulhNum), back <- StepsBack(ulhNum, ulhpos), line <- Shown
ImplementsLog == Log!Spec
=============================================================================
