------------------------ MODULE SystemManagerProofs ------------------------
(***************************************************************************)
(* Theorems about the command line and the system manager, for every       *)
(* alphabet, size of the buffer and size of the ring, every bound on       *)
(* sockets, threads and faults and every set of packets: what is run is    *)
(* what is shown, the ring implements the log of CommandLog, what a fault  *)
(* of the packet listener costs, and what a thread that is alone on the    *)
(* shared vty runs.                                                        *)
(***************************************************************************)
EXTENDS MCSystemManager, FiniteSetTheorems, WellFoundedInduction,
        SequenceTheorems, TLAPS

-----------------------------------------------------------------------------
(* Strings.                                                                *)

(* A set of naturals that is not empty has a least member.                 *)
LEMMA Least ==
  ASSUME NEW S \in SUBSET Nat, S # {}
  PROVE  \E n \in S : \A m \in S : n =< m
<1> DEFINE Upto == {0 .. n : n \in S}
<1>1. Upto \subseteq FiniteSubsetsOf(Nat)
  <2>1. \A n \in S : IsFiniteSet(0 .. n) BY FS_Interval
  <2>2. \A n \in S : 0 .. n \subseteq Nat OBVIOUS
  <2> QED BY <2>1, <2>2 DEF FiniteSubsetsOf
<1>2. IsWellFoundedOn(StrictSubsetOrdering(Nat), FiniteSubsetsOf(Nat))
  BY FS_StrictSubsetOrderingWellFounded
<1>3. PICK x \in Upto : \A y \in Upto : <<y, x>> \notin StrictSubsetOrdering(Nat)
  <2>1. Upto # {} OBVIOUS
  <2> HIDE DEF Upto
  <2> QED BY <1>1, <1>2, <2>1, WFMin
<1>4. PICK n \in S : x = 0 .. n BY <1>3
<1>5. \A m \in S : n =< m
  <2> SUFFICES ASSUME NEW m \in S, m < n PROVE FALSE OBVIOUS
  <2>1. 0 .. m \in Upto OBVIOUS
  <2>2. 0 .. m \subseteq 0 .. n /\ n \in 0 .. n /\ n \notin 0 .. m OBVIOUS
  <2>3. 0 .. m \in SUBSET Nat /\ 0 .. n \in SUBSET Nat OBVIOUS
  <2>4. <<0 .. m, 0 .. n>> \in StrictSubsetOrdering(Nat)
    BY <2>2, <2>3 DEF StrictSubsetOrdering
  <2> QED BY <1>3, <1>4, <2>1, <2>4
<1> QED BY <1>5

(* A buffer: cells of characters of which the last ends every string.      *)
Buffers == {b \in [Cell -> Chars \cup {NUL}] : b[Cells - 1] = NUL}

(* strlen of a buffer is where its first NUL is.                           *)
LEMMA StringLength ==
  ASSUME NEW b \in Buffers
  PROVE  /\ StrLen(b) \in Cell /\ b[StrLen(b)] = NUL
         /\ \A i \in 0 .. StrLen(b) - 1 : b[i] # NUL
<1> DEFINE Stops == {n \in Cell : b[n] = NUL}
<1>1. Stops \in SUBSET Nat /\ Cells - 1 \in Stops BY LineAssumption DEF Buffers, Cell
<1>2. PICK n \in Stops : \A m \in Stops : n =< m
  <2> HIDE DEF Stops
  <2> QED BY <1>1, Least
<1>3. n \in Cell /\ b[n] = NUL BY <1>2
<1>4. \A i \in 0 .. n - 1 : b[i] # NUL BY <1>2, <1>3, LineAssumption DEF Cell
<1> QED BY <1>3, <1>4 DEF StrLen

(* A place that ends a string and has no end before it is its length.      *)
LEMMA LengthIs ==
  ASSUME NEW b \in Buffers, NEW n \in Cell, b[n] = NUL,
         \A i \in Cell : i < n => b[i] # NUL
  PROVE  StrLen(b) = n
BY StringLength, LineAssumption DEF Cell

(* The string in a buffer is a line that fits.                             *)
LEMMA StringType ==
  ASSUME NEW b \in Buffers
  PROVE  String(b) \in Seq(Chars) /\ Len(String(b)) = StrLen(b) /\ StrLen(b) < Cells
<1>1. StrLen(b) \in Nat /\ StrLen(b) < Cells BY StringLength, LineAssumption DEF Cell
<1>2. \A i \in 1 .. StrLen(b) : b[i - 1] \in Chars
  BY <1>1, StringLength, LineAssumption DEF Cell, Buffers
<1> QED BY <1>1, <1>2 DEF String

(* What is left when the last word goes is a part of the line.             *)
LEMMA BeforeWordType ==
  ASSUME NEW line \in Seq(Chars)
  PROVE  BeforeWord(line) \in Seq(Chars)
<1> DEFINE Good(n) == (n = 0 \/ line[n] = Blank) /\ \A i \in n + 1 .. Len(line) : line[i] # Blank
           After0 == {Len(line) - n : n \in {k \in 0 .. Len(line) : k = 0 \/ line[k] = Blank}}
<1>0. Len(line) \in Nat OBVIOUS
<1>1. After0 \in SUBSET Nat /\ Len(line) - 0 \in After0 BY <1>0
<1>2. PICK d \in After0 : \A m \in After0 : d =< m
  <2> HIDE DEF After0
  <2> QED BY <1>1, Least
<1>3. PICK n \in 0 .. Len(line) : d = Len(line) - n /\ (n = 0 \/ line[n] = Blank) BY <1>2
<1>4. Good(n)
  <2> SUFFICES ASSUME NEW i \in n + 1 .. Len(line), line[i] = Blank PROVE FALSE BY <1>3
  <2>1. Len(line) - i \in After0 BY <1>3
  <2>2. d =< Len(line) - i
    <3> HIDE DEF After0
    <3> QED BY <1>2, <2>1
  <2> QED BY <1>0, <1>3, <2>2
<1> DEFINE c == CHOOSE k \in 0 .. Len(line) : Good(k)
<1>5. c \in 0 .. Len(line) BY <1>3, <1>4
<1> HIDE DEF c
<1>6. SubSeq(line, 1, c) \in Seq(Chars) BY <1>0, <1>5
<1> QED BY <1>6 DEF BeforeWord, c

(* strcpy into a buffer leaves the line, its end and the rest.             *)
LEMMA CopiedType ==
  ASSUME NEW b \in Buffers, NEW line \in Seq(Chars), Len(line) < Cells
  PROVE  /\ Copied(b, line) \in Buffers
         /\ \A i \in Cell : i < Len(line) => Copied(b, line)[i] # NUL
         /\ Copied(b, line)[Len(line)] = NUL
         /\ \A i \in Cell : i > Len(line) => Copied(b, line)[i] = b[i]
<1>1. Len(line) \in Nat /\ \A i \in 1 .. Len(line) : line[i] \in Chars OBVIOUS
<1>2. Copied(b, line) \in [Cell -> Chars \cup {NUL}]
  BY <1>1, LineAssumption DEF Copied, Buffers, Cell
<1>3. Cells - 1 \in Cell /\ Len(line) \in Cell BY <1>1, LineAssumption DEF Cell
<1>4. Copied(b, line)[Cells - 1] = NUL BY <1>1, <1>3, LineAssumption DEF Copied, Buffers, Cell
<1> QED BY <1>1, <1>2, <1>3, <1>4, LineAssumption DEF Copied, Buffers, Cell

LEMMA WipedType == Wiped \in Buffers
BY LineAssumption DEF Wiped, Buffers, Cell

(* A NULL pointer is no line.                                              *)
LEMMA NoLineIsNone == NoLine \notin Seq(Chars)
<1> SUFFICES ASSUME NoLine \in Seq(Chars) PROVE FALSE OBVIOUS
<1>1. NoLine[1] = NUL /\ Len(NoLine) = 1 BY DEF NoLine
<1>2. NoLine[1] \in Chars BY <1>1
<1> QED BY <1>1, <1>2, LineAssumption

-----------------------------------------------------------------------------
(* The inductive invariant.  What the theorems rest on beyond types: every *)
(* string ends inside the buffer as long as nothing has been overrun, the  *)
(* keys count no NUL as a character, every remembered line fits, the ring  *)
(* is filled from its first slot on, and the arrows stand at a line or     *)
(* where the next one goes.  The parts about the text and about the ring   *)
(* are kept by different steps.                                            *)
TextTyped ==
  /\ szBuffer \in [Cell -> Chars \cup {NUL}] /\ stale \in BOOLEAN
  /\ ulUsedLen \in Nat /\ ulCurrentPos \in 0 .. ulUsedLen
  /\ \A i \in Cell : i < ulUsedLen => szBuffer[i] # NUL
EndsAsShown == ~stale => \A i \in Cell : szBuffer[i] = NUL <=> i >= ulUsedLen
TextInv ==
  /\ szBuffer \in Buffers /\ stale \in BOOLEAN
  /\ ulUsedLen \in Cell /\ ulCurrentPos \in 0 .. ulUsedLen
  /\ \A i \in Cell : i < ulUsedLen => szBuffer[i] # NUL
  /\ EndsAsShown
LinesFit == \A i \in Slot : pszHistory[i] # NoLine => Len(pszHistory[i]) < Cells
RingFilled ==
  /\ \A i \in Slot :
       pszHistory[i] # NoLine <=> i < ulhNum \/ pszHistory[ulhNum] # NoLine
  /\ ulhpos # ulhNum => pszHistory[ulhpos] # NoLine
RingInv ==
  /\ pszHistory \in [Slot -> Seq(Chars) \cup {NoLine}]
  /\ ulhNum \in Slot /\ ulhpos \in Slot
  /\ LinesFit /\ RingFilled
UsersInv == used \in BOOLEAN /\ quitting \in BOOLEAN
OverrunInv == overrun \in BOOLEAN /\ TextTyped /\ (~overrun => TextInv)
IInv == OverrunInv /\ RingInv /\ UsersInv

LEMMA TextNow == TextInv => TextTyped
BY LineAssumption DEF TextInv, TextTyped, Buffers, Cell

LEMMA TextNext == TextInv' => TextTyped'
BY LineAssumption DEF TextInv, TextTyped, Buffers, Cell

(* A step after which nothing is overrun, or that overruns a buffer.       *)
LEMMA WithinKeeps == TextInv' /\ overrun' \in BOOLEAN => OverrunInv'
BY TextNext DEF OverrunInv

LEMMA OverKeeps == TextTyped' /\ overrun' = TRUE => OverrunInv'
BY DEF OverrunInv

LEMMA TextKept == TextInv /\ UNCHANGED text => TextInv'
BY DEF TextInv, text, EndsAsShown, Cell

LEMMA RingKept == RingInv /\ UNCHANGED ring => RingInv'
BY DEF RingInv, ring, LinesFit, RingFilled, Slot

LEMMA InsertKeeps == \A c \in Chars : TextInv /\ Insert(c) => OverrunInv'
<1> SUFFICES ASSUME NEW c \in Chars, TextInv, Insert(c) PROVE OverrunInv' OBVIOUS
<1> USE LineAssumption
<1>1. szBuffer' \in [Cell -> Chars \cup {NUL}] BY DEF Insert, TextInv, Buffers, Cell
<1>2. /\ ulUsedLen' = ulUsedLen + 1 /\ ulUsedLen' \in Nat /\ ulUsedLen' =< Cells
      /\ ulCurrentPos' \in 0 .. ulUsedLen'
  BY DEF Insert, TextInv, Cell
<1>3. \A i \in Cell : i < ulUsedLen' => szBuffer'[i] # NUL
  BY DEF Insert, TextInv, Buffers, Cell
<1>4. stale' \in BOOLEAN /\ overrun' = (ulUsedLen' = Cells) BY DEF Insert, TextInv
<1>5. CASE ulUsedLen' = Cells
  <2>1. TextTyped' BY <1>1, <1>2, <1>3, <1>4 DEF TextTyped
  <2> QED BY <1>4, <1>5, <2>1, OverKeeps
<1>6. CASE ulUsedLen' # Cells
  <2>1. szBuffer'[Cells - 1] = NUL BY <1>2, <1>6 DEF Insert, TextInv, Buffers, Cell
  <2>2. EndsAsShown' BY <1>2, <1>6 DEF Insert, TextInv, EndsAsShown, Buffers, Cell
  <2>3. ulUsedLen' \in Cell BY <1>2, <1>6 DEF Cell
  <2>4. TextInv' BY <1>1, <1>2, <1>3, <1>4, <2>1, <2>2, <2>3 DEF TextInv, Buffers
  <2> QED BY <1>4, <2>4, WithinKeeps
<1> QED BY <1>5, <1>6

(* Taking the character at p out of a line.                                *)
LEMMA WithoutKeeps ==
  ASSUME TextInv, NEW p \in Nat, p < ulUsedLen, szBuffer' = Without(p),
         ulUsedLen' = ulUsedLen - 1, ulCurrentPos' \in 0 .. ulUsedLen', stale' = stale
  PROVE  TextInv'
<1> USE LineAssumption
<1>1. szBuffer' \in [Cell -> Chars \cup {NUL}] BY DEF Without, TextInv, Buffers, Cell
<1>2. szBuffer'[Cells - 1] = NUL BY DEF Without, TextInv, Buffers, Cell
<1>3. ulUsedLen' \in Cell BY DEF TextInv, Cell
<1>4. \A i \in Cell : i < ulUsedLen' => szBuffer'[i] # NUL
  BY DEF Without, TextInv, Buffers, Cell
<1>5. EndsAsShown' BY DEF Without, TextInv, EndsAsShown, Buffers, Cell
<1> QED BY <1>1, <1>2, <1>3, <1>4, <1>5 DEF TextInv, Buffers, Cell

LEMMA DeleteKeeps == TextInv /\ Delete => TextInv'
<1> SUFFICES ASSUME TextInv, Delete PROVE TextInv' OBVIOUS
<1>1. ulCurrentPos \in Nat /\ ulCurrentPos < ulUsedLen /\ ulCurrentPos' \in 0 .. ulUsedLen'
  BY LineAssumption DEF TextInv, Delete, Cell
<1> QED BY <1>1, WithoutKeeps DEF Delete

LEMMA BackspaceKeeps == TextInv /\ Backspace => TextInv'
<1> SUFFICES ASSUME TextInv, Backspace PROVE TextInv' OBVIOUS
<1>1. /\ ulCurrentPos - 1 \in Nat /\ ulCurrentPos - 1 < ulUsedLen
      /\ ulCurrentPos' \in 0 .. ulUsedLen'
  BY LineAssumption DEF TextInv, Backspace, Cell
<1> QED BY <1>1, WithoutKeeps DEF Backspace

LEMMA MoveKeeps == TextInv /\ Move => TextInv'
BY DEF TextInv, Move, EndsAsShown, Cell

LEMMA CutType == TextInv => Cut \in Buffers
BY StringLength, LineAssumption DEF TextInv, Cut, Buffers, Cell

LEMMA CutKeeps == TextInv /\ Ends(Cut) /\ stale' = stale => TextInv'
<1> SUFFICES ASSUME TextInv, Ends(Cut), stale' = stale PROVE TextInv' OBVIOUS
<1> USE LineAssumption
<1>1. Cut \in Buffers /\ szBuffer \in Buffers BY CutType DEF TextInv
<1>2. /\ StrLen(Cut) \in Cell /\ Cut[StrLen(Cut)] = NUL
      /\ \A i \in 0 .. StrLen(Cut) - 1 : Cut[i] # NUL
  BY <1>1, StringLength
<1>3. szBuffer' = Cut /\ ulUsedLen' = StrLen(Cut) /\ ulCurrentPos' = StrLen(Cut) /\ stale' = stale
  BY DEF Ends
<1>4. EndsAsShown'
  <2> SUFFICES ASSUME ~stale PROVE \A i \in Cell : Cut[i] = NUL <=> i >= StrLen(Cut)
    BY <1>3 DEF EndsAsShown
  <2>1. \A i \in Cell : szBuffer[i] = NUL <=> i >= ulUsedLen BY DEF TextInv, EndsAsShown
  <2>2. StrLen(szBuffer) = ulUsedLen
    <3>1. ulUsedLen \in Cell BY DEF TextInv
    <3>2. szBuffer[ulUsedLen] = NUL /\ \A i \in Cell : i < ulUsedLen => szBuffer[i] # NUL
      BY <2>1, <3>1 DEF Cell
    <3> QED BY <1>1, <3>1, <3>2, LengthIs
  <2>3. ulCurrentPos \in Nat /\ ulUsedLen \in Cell /\ ulCurrentPos =< ulUsedLen BY DEF TextInv, Cell
  <2>4. \A i \in Cell : Cut[i] = NUL <=> i >= ulCurrentPos BY <2>1, <2>2, <2>3 DEF Cut, Cell
  <2>5. StrLen(Cut) = ulCurrentPos
    <3>1. ulCurrentPos \in Cell BY <2>3 DEF Cell
    <3>2. Cut[ulCurrentPos] = NUL /\ \A i \in Cell : i < ulCurrentPos => Cut[i] # NUL
      BY <2>4, <3>1 DEF Cell
    <3> QED BY <1>1, <3>1, <3>2, LengthIs
  <2> QED BY <2>4, <2>5
<1>5. ulCurrentPos' \in 0 .. ulUsedLen' BY <1>2, <1>3 DEF Cell
<1>6. \A i \in Cell : i < ulUsedLen' => szBuffer'[i] # NUL BY <1>2, <1>3 DEF Cell
<1>7. szBuffer' \in Buffers /\ stale' \in BOOLEAN /\ ulUsedLen' \in Cell
  BY <1>1, <1>2, <1>3 DEF TextInv
<1> QED BY <1>4, <1>5, <1>6, <1>7 DEF TextInv, Buffers, Cell

LEMMA QuestKeeps == TextInv /\ Quest => TextInv'
BY CutKeeps DEF Quest

LEMMA LongWordKeeps == TextInv /\ TabOnLongWord => OverrunInv'
BY CutKeeps, WithinKeeps DEF TabOnLongWord

(* A line in a buffer whose cells behind it are empty, or may be stale.    *)
LEMMA LinePut ==
  ASSUME TextInv, NEW b \in Buffers, NEW line \in Seq(Chars), Len(line) < Cells,
         szBuffer' = Copied(b, line), ulUsedLen' = Len(line), ulCurrentPos' = Len(line),
         stale' \in BOOLEAN,
         ~stale' => \A i \in Cell : i > Len(line) => b[i] = NUL
  PROVE  TextInv'
<1> USE LineAssumption
<1>1. /\ Copied(b, line) \in Buffers
      /\ \A i \in Cell : i < Len(line) => Copied(b, line)[i] # NUL
      /\ Copied(b, line)[Len(line)] = NUL
      /\ \A i \in Cell : i > Len(line) => Copied(b, line)[i] = b[i]
  BY CopiedType
<1>2. Len(line) \in Cell /\ Len(line) \in 0 .. Len(line) BY DEF Cell
<1>3. EndsAsShown'
  <2> SUFFICES ASSUME ~stale'
               PROVE  \A i \in Cell : Copied(b, line)[i] = NUL <=> i >= Len(line)
    BY DEF EndsAsShown
  <2> SUFFICES ASSUME NEW i \in Cell PROVE Copied(b, line)[i] = NUL <=> i >= Len(line)
    OBVIOUS
  <2>1. CASE i < Len(line) BY <1>1, <1>2, <2>1 DEF Cell
  <2>2. CASE i = Len(line) BY <1>1, <1>2, <2>2 DEF Cell
  <2>3. CASE i > Len(line) BY <1>1, <1>2, <2>3 DEF Cell
  <2> QED BY <1>2, <2>1, <2>2, <2>3 DEF Cell
<1> QED BY <1>1, <1>2, <1>3 DEF TextInv

(* A line that leaves no cell for its end fills all of them.               *)
LEMMA LineFills ==
  ASSUME NEW line \in Seq(Chars), Len(line) >= Cells, szBuffer' = Copied(Wiped, line),
         ulUsedLen' = Len(line), ulCurrentPos' = Len(line), stale' = FALSE
  PROVE  TextTyped'
<1> USE LineAssumption
<1>1. Len(line) \in Nat /\ \A i \in 1 .. Len(line) : line[i] \in Chars OBVIOUS
<1>2. \A i \in Cell : i < Len(line) /\ i + 1 \in 1 .. Len(line) BY <1>1 DEF Cell
<1>3. szBuffer' = [i \in Cell |-> line[i + 1]] BY <1>1, <1>2 DEF Copied
<1>4. \A i \in Cell : szBuffer'[i] \in Chars BY <1>1, <1>2, <1>3
<1>5. szBuffer' \in [Cell -> Chars \cup {NUL}] BY <1>3, <1>4
<1>6. \A i \in Cell : i < ulUsedLen' => szBuffer'[i] # NUL BY <1>4
<1>7. ulUsedLen' \in Nat /\ ulCurrentPos' \in 0 .. ulUsedLen' BY <1>1
<1> QED BY <1>5, <1>6, <1>7 DEF TextTyped

LEMMA CompleteKeeps == \A w \in Words : TextInv /\ Complete(w) => OverrunInv'
<1> SUFFICES ASSUME NEW w \in Words, TextInv, Complete(w) PROVE OverrunInv' OBVIOUS
<1> DEFINE line == BeforeWord(String(Cut)) \o w
<1>1. line \in Seq(Chars)
  <2>1. String(Cut) \in Seq(Chars) BY CutType, StringType
  <2>2. BeforeWord(String(Cut)) \in Seq(Chars) BY <2>1, BeforeWordType
  <2>3. w \in Seq(Chars) BY LineAssumption
  <2> QED BY <2>2, <2>3
<1>2. /\ overrun' = (Len(line) >= Cells) /\ szBuffer' = Copied(Wiped, line) /\ stale' = FALSE
      /\ ulUsedLen' = Len(line) /\ ulCurrentPos' = Len(line)
  BY DEF Complete, Becomes
<1>3. \A i \in Cell : Wiped[i] = NUL BY DEF Wiped
<1> HIDE DEF line
<1>4. CASE Len(line) >= Cells
  <2>1. TextTyped' BY <1>1, <1>2, <1>4, LineFills
  <2> QED BY <1>2, <1>4, <2>1, OverKeeps
<1>5. CASE ~(Len(line) >= Cells)
  <2>1. Len(line) < Cells BY <1>1, <1>5, LineAssumption
  <2>2. TextInv' BY <1>1, <1>2, <1>3, <2>1, WipedType, LinePut
  <2> QED BY <1>2, <2>2, WithinKeeps
<1> QED BY <1>4, <1>5

LEMMA TabAgainKeeps == TextInv /\ TabAgain => TextInv'
<1> SUFFICES ASSUME TextInv, TabAgain PROVE TextInv' OBVIOUS
<1> DEFINE line == String(Cut)
<1>1. line \in Seq(Chars) /\ Len(line) < Cells
  <2>1. String(Cut) \in Seq(Chars) /\ Len(String(Cut)) = StrLen(Cut) /\ StrLen(Cut) < Cells
    BY CutType, StringType
  <2> QED BY <2>1
<1>2. /\ szBuffer' = Copied(Wiped, line) /\ stale' = FALSE
      /\ ulUsedLen' = Len(line) /\ ulCurrentPos' = Len(line)
  BY DEF TabAgain, Becomes
<1>3. \A i \in Cell : Wiped[i] = NUL BY DEF Wiped
<1> HIDE DEF line
<1> QED BY <1>1, <1>2, <1>3, WipedType, LinePut

LEMMA RecallKeeps == \A i \in Slot : TextInv /\ RingInv /\ Recall(i) => TextInv' /\ RingInv'
<1> SUFFICES ASSUME NEW i \in Slot, TextInv, RingInv, Recall(i)
             PROVE  TextInv' /\ RingInv'
  OBVIOUS
<1> USE LineAssumption
<1> DEFINE b == [k \in Cell |-> IF k < Size THEN NUL ELSE szBuffer[k]]
           line == pszHistory[i]
<1>1. line \in Seq(Chars) /\ Len(line) < Cells
  BY DEF Recall, RingInv, LinesFit
<1>2. b \in Buffers BY DEF TextInv, Buffers, Cell
<1>3. /\ szBuffer' = Copied(b, line) /\ ulUsedLen' = Len(line) /\ ulCurrentPos' = Len(line)
      /\ stale' = (stale \/ ulUsedLen > Size)
  BY DEF Recall
<1>4. stale' \in BOOLEAN BY <1>3 DEF TextInv
<1>5. ~stale' => \A k \in Cell : k > Len(line) => b[k] = NUL
  <2> SUFFICES ASSUME ~stale', NEW k \in Cell PROVE b[k] = NUL OBVIOUS
  <2>1. ~stale /\ ulUsedLen =< Size BY <1>3 DEF TextInv, Cell
  <2>2. k >= ulUsedLen => szBuffer[k] = NUL BY <2>1 DEF TextInv, EndsAsShown
  <2> QED BY <2>1, <2>2 DEF TextInv, Cell
<1>6. TextInv'
  <2> HIDE DEF b, line
  <2> QED BY <1>1, <1>2, <1>3, <1>4, <1>5, LinePut
<1>7. RingInv' BY DEF Recall, RingInv, LinesFit, RingFilled, Slot
<1> QED BY <1>6, <1>7

LEMMA WipeGives == Wipe => TextInv'
<1> SUFFICES ASSUME Wipe PROVE TextInv' OBVIOUS
<1>1. /\ szBuffer' = Wiped /\ stale' = FALSE /\ ulUsedLen' = 0 /\ ulCurrentPos' = 0
      /\ 0 \in Cell
  BY LineAssumption DEF Wipe, Cell
<1>2. EndsAsShown' BY <1>1 DEF EndsAsShown, Wiped, Cell
<1>3. \A i \in Cell : i < ulUsedLen' => szBuffer'[i] # NUL BY <1>1 DEF Cell
<1>4. szBuffer' \in Buffers BY <1>1, WipedType
<1>5. stale' \in BOOLEAN BY <1>1
<1>6. ulUsedLen' \in Cell BY <1>1
<1>7. ulCurrentPos' \in 0 .. ulUsedLen' BY <1>1
<1> QED BY <1>2, <1>3, <1>4, <1>5, <1>6, <1>7 DEF TextInv

(* The slot a new line goes to, and the one after it.                      *)
LEMMA SlotsOfRing == \A n \in Slot : Before(n) \in Slot /\ After(n) \in Slot
BY LineAssumption DEF Before, After, Slot

LEMMA AddHistoryKeeps ==
  \A line \in Seq(Chars) : RingInv /\ Len(line) < Cells /\ AddHistory(line) => RingInv'
<1> SUFFICES ASSUME NEW line \in Seq(Chars), RingInv, Len(line) < Cells, AddHistory(line)
             PROVE  RingInv'
  OBVIOUS
<1> USE LineAssumption
<1>1. CASE pszHistory[Before(ulhNum)] = line
  <2>1. ulhpos' = ulhNum /\ pszHistory' = pszHistory /\ ulhNum' = ulhNum
    BY <1>1 DEF AddHistory
  <2> QED BY <2>1 DEF RingInv, LinesFit, RingFilled
<1>2. CASE pszHistory[Before(ulhNum)] # line
  <2>1. /\ pszHistory' = [pszHistory EXCEPT ![ulhNum] = line]
        /\ ulhNum' = After(ulhNum) /\ ulhpos' = After(ulhNum)
    BY <1>2 DEF AddHistory
  <2>2. ulhNum \in Slot /\ pszHistory \in [Slot -> Seq(Chars) \cup {NoLine}] BY DEF RingInv
  <2>3. /\ pszHistory' \in [Slot -> Seq(Chars) \cup {NoLine}]
        /\ \A i \in Slot : pszHistory'[i] = IF i = ulhNum THEN line ELSE pszHistory[i]
    BY <2>1, <2>2
  <2>4. ulhNum' \in Slot /\ ulhpos' = ulhNum' BY <2>1, <2>2, SlotsOfRing
  <2>5. line # NoLine BY NoLineIsNone
  <2>6. LinesFit' BY <2>3 DEF RingInv, LinesFit
  <2>7. \A i \in Slot : pszHistory'[i] # NoLine <=> i < ulhNum' \/ pszHistory'[ulhNum'] # NoLine
    <3>1. CASE ulhNum = Size - 1
      <4>1. \A i \in Slot : pszHistory'[i] # NoLine
        BY <2>2, <2>3, <2>5, <3>1 DEF RingInv, RingFilled, Slot
      <4> QED BY <2>4, <4>1
    <3>2. CASE ulhNum # Size - 1
      <4>1. ulhNum' = ulhNum + 1 BY <2>1, <3>2 DEF After
      <4>2. \A i \in Slot : pszHistory[i] # NoLine <=> i < ulhNum \/ pszHistory[ulhNum] # NoLine
        BY DEF RingInv, RingFilled
      <4>3. pszHistory'[ulhNum'] = pszHistory[ulhNum + 1] BY <2>2, <2>3, <2>4, <4>1 DEF Slot
      <4>4. pszHistory[ulhNum + 1] # NoLine <=> pszHistory[ulhNum] # NoLine
        BY <2>2, <2>4, <4>1, <4>2 DEF Slot
      <4> QED BY <2>2, <2>3, <2>5, <4>1, <4>2, <4>3, <4>4 DEF Slot
    <3> QED BY <3>1, <3>2
  <2> QED BY <2>3, <2>4, <2>6, <2>7 DEF RingInv, RingFilled
<1> QED BY <1>1, <1>2

LEMMA FreeKeeps ==
  TextInv /\ RingInv /\ Free /\ stale' \in BOOLEAN /\ (~stale' => ~stale /\ ulUsedLen = 0)
    => TextInv' /\ RingInv'
<1> SUFFICES ASSUME TextInv, RingInv, Free, stale' \in BOOLEAN,
                    ~stale' => ~stale /\ ulUsedLen = 0
             PROVE  TextInv' /\ RingInv'
  OBVIOUS
<1>1. TextInv' BY LineAssumption DEF Free, TextInv, EndsAsShown, Cell
<1>2. RingInv' BY LineAssumption DEF Free, RingInv, NoLines, LinesFit, RingFilled, Slot
<1> QED BY <1>1, <1>2

(* The invariant holds of every behaviour.                                 *)
LEMMA InitHolds == Init => IInv
<1> SUFFICES ASSUME Init PROVE IInv OBVIOUS
<1> USE LineAssumption
<1>1. TextInv
  <2>1. szBuffer = Wiped /\ stale = FALSE /\ ulUsedLen = 0 /\ ulCurrentPos = 0 BY DEF Init
  <2>2. 0 \in Cell /\ 0 \in 0 .. 0 BY DEF Cell
  <2>3. \A i \in Cell : szBuffer[i] = NUL /\ i >= 0 /\ ~(i < 0) BY <2>1 DEF Wiped, Cell
  <2>4. EndsAsShown BY <2>1, <2>3 DEF EndsAsShown
  <2>5. szBuffer \in Buffers BY <2>1, WipedType
  <2> QED BY <2>1, <2>2, <2>3, <2>4, <2>5 DEF TextInv
<1>2. RingInv BY DEF Init, RingInv, NoLines, LinesFit, RingFilled, Slot
<1>3. OverrunInv BY <1>1, TextNow DEF OverrunInv, Init
<1> QED BY <1>2, <1>3 DEF Init, IInv, UsersInv

LEMMA WithinStepKeeps ==
  TextInv /\ RingInv /\ UsersInv /\ Within => TextInv' /\ RingInv' /\ UsersInv'
<1> SUFFICES ASSUME TextInv, RingInv, UsersInv, Within PROVE TextInv' /\ RingInv' /\ UsersInv'
  OBVIOUS
<1>0. TextInv /\ RingInv /\ UsersInv OBVIOUS
<1> USE DEF UsersInv
<1>S. String(szBuffer) \in Seq(Chars) /\ Len(String(szBuffer)) < Cells
  BY <1>0, StringType DEF TextInv
<1>2. CASE Delete BY <1>0, <1>2, DeleteKeeps, RingKept DEF Delete
<1>3. CASE Backspace BY <1>0, <1>3, BackspaceKeeps, RingKept DEF Backspace
<1>4. CASE Move BY <1>0, <1>4, MoveKeeps, RingKept DEF Move
<1>5. CASE Quest BY <1>0, <1>5, QuestKeeps, RingKept DEF Quest
<1>14. CASE TabAgain BY <1>0, <1>14, TabAgainKeeps, RingKept DEF TabAgain
<1>7. CASE Up \/ Down
  <2>1. PICK i \in Slot : Recall(i) BY <1>0, <1>7, SlotsOfRing DEF Up, Down, RingInv
  <2> QED BY <1>0, <2>1, RecallKeeps DEF Recall
<1>8. CASE Enter
  <2>1. RingInv' BY <1>0, <1>S, <1>8, AddHistoryKeeps DEF Enter
  <2>2. TextInv' BY <1>0, <1>8, WipeGives, TextKept DEF Enter
  <2> QED BY <1>0, <1>8, <2>1, <2>2 DEF Enter
<1>9. CASE EnterQuit BY <1>0, <1>9, FreeKeeps DEF EnterQuit, Free
<1>10. CASE RecordQuit
  <2>1. RingInv' BY <1>0, <1>S, <1>10, AddHistoryKeeps DEF RecordQuit
  <2>2. TextInv' BY <1>0, <1>10, WipeGives DEF RecordQuit
  <2> QED BY <1>0, <1>10, <2>1, <2>2 DEF RecordQuit
<1>11. CASE Offline
  <2>1. stale' = (stale \/ ulUsedLen > 0) /\ ulUsedLen \in Nat /\ stale \in BOOLEAN
    BY <1>0, <1>11, LineAssumption DEF Offline, TextInv, Cell
  <2>2. stale' \in BOOLEAN BY <2>1
  <2>3. ulUsedLen > 0 => stale' BY <2>1
  <2>4. stale => stale' BY <2>1
  <2>5. ~stale' => ~stale /\ ulUsedLen = 0 BY <2>1, <2>3, <2>4
  <2> QED BY <1>0, <1>11, <2>2, <2>5, FreeKeeps DEF Offline, Free
<1>12. CASE Connect BY <1>0, <1>12, TextKept, RingKept DEF Connect
<1> QED BY <1>0, <1>2, <1>3, <1>4, <1>5, <1>7, <1>8, <1>9, <1>10, <1>11, <1>12, <1>14
        DEF Within

LEMMA StepKeeps == IInv /\ [Next]_vars => IInv'
<1> SUFFICES ASSUME IInv, [Next]_vars PROVE IInv' OBVIOUS
<1>0. OverrunInv /\ RingInv /\ UsersInv BY DEF IInv
<1>1. CASE UNCHANGED vars
  <2>1. UNCHANGED <<text, ring, used, quitting, overrun>> BY <1>1 DEF vars
  <2>2. RingInv' /\ UsersInv' BY <1>0, <2>1, RingKept DEF UsersInv
  <2>3. TextTyped' BY <1>0, <2>1 DEF OverrunInv, TextTyped, text, Cell
  <2>4. ~overrun' => TextInv' BY <1>0, <2>1, TextKept DEF OverrunInv
  <2>5. OverrunInv' BY <1>0, <2>1, <2>3, <2>4 DEF OverrunInv
  <2> QED BY <2>2, <2>5 DEF IInv
<1>2. CASE Next
  <2>0. TextInv /\ ~overrun BY <1>0, <1>2 DEF OverrunInv, Next
  <2>1. CASE Within /\ UNCHANGED overrun
    <3>1. TextInv' /\ RingInv' /\ UsersInv' BY <1>0, <2>0, <2>1, WithinStepKeeps
    <3>2. overrun' \in BOOLEAN BY <1>0, <2>1 DEF OverrunInv
    <3>3. OverrunInv' BY <3>1, <3>2, WithinKeeps
    <3> QED BY <3>1, <3>3 DEF IInv
  <2>2. CASE OverrunInv' /\ UNCHANGED <<ring, used, quitting>>
    BY <1>0, <2>2, RingKept DEF IInv, UsersInv
  <2>3. ASSUME NEW c \in Chars, Insert(c) PROVE OverrunInv' /\ UNCHANGED <<ring, used, quitting>>
    BY <2>0, <2>3, InsertKeeps DEF Insert
  <2>4. ASSUME NEW w \in Words, Complete(w) PROVE OverrunInv' /\ UNCHANGED <<ring, used, quitting>>
    BY <2>0, <2>4, CompleteKeeps DEF Complete
  <2>5. CASE TabOnLongWord
    <3>1. OverrunInv' BY <2>0, <2>5, LongWordKeeps
    <3> QED BY <2>2, <2>5, <3>1 DEF TabOnLongWord
  <2> QED BY <1>2, <2>1, <2>2, <2>3, <2>4, <2>5 DEF Next
<1> QED BY <1>1, <1>2

(* Every behaviour keeps the invariant.                                    *)
THEOREM LineInvariant == Spec => []IInv
<1> QED BY InitHolds, StepKeeps, PTL DEF Spec

(* The cursor never leaves the line, and the indices of the history stay   *)
(* on the ring.  The line leaves the buffer, against the assertion at the  *)
(* end of cmd_fsm, by typing and by tab only: whatever the arrow keys      *)
(* recall, a command leaves behind or the next user inherits fits in with  *)
(* its end.                                                                *)
THEOREM LineTypeCorrect == Spec => []TypeOK
<1>1. IInv => TypeOK
  BY DEF IInv, OverrunInv, TextTyped, TextInv, RingInv, UsersInv, TypeOK
<1> QED BY LineInvariant, <1>1, PTL

(* What Enter runs is what the keys have echoed, but for a line inherited  *)
(* with the vty or longer than cmd_clear_line clears, and as long as no    *)
(* key has overrun the buffer.                                             *)
THEOREM WhatIsShownIsRun == Spec => []ShownIsRun
<1>1. IInv => ShownIsRun BY DEF IInv, OverrunInv, TextInv, EndsAsShown, ShownIsRun
<1> QED BY LineInvariant, <1>1, PTL

-----------------------------------------------------------------------------
(* The refinement.  A ring h whose next line goes to slot n.               *)

Ring(h, n) ==
  /\ h \in [Slot -> Seq(Chars) \cup {NoLine}] /\ n \in Slot
  /\ \A i \in Slot : h[i] # NoLine <=> i < n \/ h[n] # NoLine
Filled(h, n) == IF h[n] # NoLine THEN Size ELSE n

LEMMA RingNow == RingInv => Ring(pszHistory, ulhNum)
BY DEF RingInv, RingFilled, Ring

LEMMA RingNext == RingInv' => Ring(pszHistory', ulhNum')
BY DEF RingInv, RingFilled, Ring

(* The log of a ring: as many lines as it holds, the oldest first.         *)
LEMMA LogType ==
  ASSUME NEW h, NEW n, Ring(h, n)
  PROVE  /\ LogOf(h, n) \in Seq(Seq(Chars))
         /\ Len(LogOf(h, n)) = Filled(h, n) /\ Filled(h, n) \in 0 .. Size
         /\ \A i \in 1 .. Filled(h, n) :
              LogOf(h, n)[i] = IF h[n] # NoLine THEN h[OnRing(n + i - 1)] ELSE h[i - 1]
<1> USE LineAssumption
<1>1. CASE h[n] # NoLine
  <2>1. \A i \in 1 .. Size : OnRing(n + i - 1) \in Slot BY DEF Ring, OnRing, Slot
  <2>2. \A i \in 1 .. Size : h[OnRing(n + i - 1)] \in Seq(Chars)
    BY <1>1, <2>1 DEF Ring
  <2>3. LogOf(h, n) = [i \in 1 .. Size |-> h[OnRing(n + i - 1)]] BY <1>1 DEF LogOf
  <2> QED BY <1>1, <2>2, <2>3 DEF Filled
<1>2. CASE h[n] = NoLine
  <2>1. \A i \in 1 .. n : i - 1 \in Slot /\ h[i - 1] \in Seq(Chars)
    BY <1>2 DEF Ring, Slot
  <2>2. LogOf(h, n) = [i \in 1 .. n |-> h[i - 1]] /\ n \in Nat /\ n < Size
    BY <1>2 DEF LogOf, Ring, Slot
  <2> QED BY <1>2, <2>1, <2>2 DEF Filled
<1> QED BY <1>1, <1>2

(* The line in slot i is the entry of the log that many steps back.        *)
LEMMA EntryIs ==
  ASSUME NEW h, NEW n, NEW i \in Slot, Ring(h, n), h[i] # NoLine,
         NEW log, log = LogOf(h, n), NEW b, b = StepsBack(n, i)
  PROVE  /\ b \in 1 .. Len(log) \/ Len(log) = Size
         /\ (IF b = 0 THEN log[1] ELSE log[Len(log) + 1 - b]) = h[i]
<1> USE LineAssumption
<1>1. /\ Len(log) = Filled(h, n)
      /\ \A j \in 1 .. Filled(h, n) :
           log[j] = IF h[n] # NoLine THEN h[OnRing(n + j - 1)] ELSE h[j - 1]
  BY LogType
<1>2. n \in Slot /\ b \in Slot BY DEF Ring, Slot, StepsBack
<1>3. CASE h[n] # NoLine
  <2>1. Len(log) = Size /\ \A j \in 1 .. Size : log[j] = h[OnRing(n + j - 1)]
    BY <1>1, <1>3 DEF Filled
  <2>2. b = 0 => i = n /\ OnRing(n + 1 - 1) = n BY <1>2 DEF StepsBack, Slot, OnRing
  <2>3. b # 0 => Size + 1 - b \in 1 .. Size /\ OnRing(n + (Size + 1 - b) - 1) = i
    BY <1>2 DEF StepsBack, Slot, OnRing
  <2> QED BY <2>1, <2>2, <2>3
<1>4. CASE h[n] = NoLine
  <2>1. Len(log) = n /\ \A j \in 1 .. n : log[j] = h[j - 1] BY <1>1, <1>4 DEF Filled
  <2>2. i < n BY <1>4 DEF Ring
  <2>3. b \in 1 .. n /\ n + 1 - b \in 1 .. n /\ (n + 1 - b) - 1 = i
    BY <1>2, <2>2 DEF StepsBack, Slot
  <2> QED BY <2>1, <2>3
<1> QED BY <1>3, <1>4

(* Adding a line to the ring adds it to the log, and to the log only.      *)
Added(h, n, l, h2, n2) == h2 = [h EXCEPT ![n] = l] /\ n2 = After(n)

LEMMA AddIsRecord ==
  ASSUME NEW h, NEW n, Ring(h, n), NEW l \in Seq(Chars), NEW h2, NEW n2, Ring(h2, n2),
         Added(h, n, l, h2, n2)
  PROVE  LogOf(h2, n2) = IF Len(LogOf(h, n)) = Size THEN Tail(Append(LogOf(h, n), l))
                         ELSE Append(LogOf(h, n), l)
<1> USE LineAssumption
<1> DEFINE log == LogOf(h, n)
           longer == Append(log, l)
           log2 == LogOf(h2, n2)
<1>1. /\ log \in Seq(Seq(Chars)) /\ Len(log) = Filled(h, n) /\ Filled(h, n) \in 0 .. Size
      /\ \A i \in 1 .. Filled(h, n) :
           log[i] = IF h[n] # NoLine THEN h[OnRing(n + i - 1)] ELSE h[i - 1]
  BY LogType
<1>2. /\ log2 \in Seq(Seq(Chars)) /\ Len(log2) = Filled(h2, n2)
      /\ \A i \in 1 .. Filled(h2, n2) :
           log2[i] = IF h2[n2] # NoLine THEN h2[OnRing(n2 + i - 1)] ELSE h2[i - 1]
  <2>1. Ring(h2, n2) OBVIOUS
  <2> QED BY ONLY <2>1, LogType
<1>3. /\ longer \in Seq(Seq(Chars)) /\ Len(longer) = Len(log) + 1
      /\ \A i \in 1 .. Len(log) : longer[i] = log[i]
      /\ longer[Len(log) + 1] = l
  BY <1>1
<1>4. /\ n \in Slot /\ \A i \in Slot : h2[i] = IF i = n THEN l ELSE h[i]
      /\ l # NoLine
  BY NoLineIsNone DEF Ring, Added
<1>5. n2 \in Slot /\ n2 # n /\ (n2 = IF n = Size - 1 THEN 0 ELSE n + 1)
  BY <1>4 DEF After, Slot, Added
<1>6. h2[n2] # NoLine <=> h[n] # NoLine \/ n = Size - 1
  BY <1>4, <1>5 DEF Ring, Slot
<1>7. CASE h[n] # NoLine
  <2>1. Len(log) = Size /\ Len(log2) = Size BY <1>1, <1>2, <1>6, <1>7 DEF Filled
  <2>2. longer # <<>> BY <1>3, <2>1
  <2>3. /\ Tail(longer) \in Seq(Seq(Chars)) /\ Len(Tail(longer)) = Size
        /\ \A i \in 1 .. Size : Tail(longer)[i] = longer[i + 1]
    <3> HIDE DEF longer
    <3> QED BY <1>3, <2>1, <2>2, HeadTailProperties
  <2>4. \A i \in 1 .. Size : log2[i] = h2[OnRing(n2 + i - 1)]
    BY <1>2, <1>6, <1>7, <2>1
  <2>5. \A i \in 1 .. Size - 1 : longer[i + 1] = h[OnRing(n + i)]
    <3> SUFFICES ASSUME NEW i \in 1 .. Size - 1 PROVE longer[i + 1] = h[OnRing(n + i)]
      OBVIOUS
    <3>1. i + 1 \in 1 .. Size /\ n + (i + 1) - 1 = n + i BY <1>4 DEF Slot
    <3> HIDE DEF longer, log
    <3> QED BY <1>1, <1>3, <1>7, <2>1, <3>1
  <2>6. \A i \in 1 .. Size : log2[i] = Tail(longer)[i]
    <3> SUFFICES ASSUME NEW i \in 1 .. Size PROVE log2[i] = Tail(longer)[i] OBVIOUS
    <3>1. CASE i = Size
      <4>1. OnRing(n2 + i - 1) = n BY <1>4, <1>5, <3>1 DEF OnRing, Slot
      <4> HIDE DEF longer, log, log2
      <4> QED BY <1>3, <1>4, <2>1, <2>3, <2>4, <3>1, <4>1
    <3>2. CASE i # Size
      <4>1. i \in 1 .. Size - 1 BY <3>2
      <4>2. OnRing(n2 + i - 1) = OnRing(n + i) /\ OnRing(n + i) \in Slot /\ OnRing(n + i) # n
        BY <1>4, <1>5, <4>1 DEF OnRing, Slot
      <4> HIDE DEF longer, log, log2
      <4> QED BY <1>4, <2>3, <2>4, <2>5, <4>1, <4>2
    <3> QED BY <3>1, <3>2
  <2>7. log2 = Tail(longer)
    <3> HIDE DEF longer, log, log2
    <3> QED BY <1>2, <2>1, <2>3, <2>6, SeqEqual
  <2> QED BY <2>1, <2>7
<1>8. CASE h[n] = NoLine
  <2>1. Len(log) = n /\ Len(log) # Size BY <1>1, <1>4, <1>8 DEF Filled, Slot
  <2>2. Len(log2) = n + 1 BY <1>2, <1>4, <1>5, <1>6, <1>8 DEF Filled, Slot
  <2>3. \A i \in 1 .. n + 1 : log2[i] = h2[i - 1]
    <3>1. CASE n = Size - 1
      <4> SUFFICES ASSUME NEW i \in 1 .. n + 1 PROVE log2[i] = h2[i - 1] OBVIOUS
      <4>1. OnRing(n2 + i - 1) = i - 1 BY <1>5, <3>1 DEF OnRing
      <4>2. i \in 1 .. Filled(h2, n2) /\ h2[n2] # NoLine BY <1>2, <1>6, <2>2, <3>1
      <4> HIDE DEF log2
      <4> QED BY <1>2, <4>1, <4>2
    <3>2. CASE n # Size - 1
      <4> HIDE DEF log2
      <4> QED BY <1>2, <1>6, <1>8, <2>2, <3>2
    <3> QED BY <3>1, <3>2
  <2>4. \A i \in 1 .. n + 1 : log2[i] = longer[i]
    <3> SUFFICES ASSUME NEW i \in 1 .. n + 1 PROVE log2[i] = longer[i] OBVIOUS
    <3>1. i - 1 \in Slot BY <1>4 DEF Slot
    <3>2. CASE i = n + 1
      <4>1. i - 1 = n BY <1>4, <3>2 DEF Slot
      <4> HIDE DEF longer, log, log2
      <4> QED BY <1>3, <1>4, <2>1, <2>3, <3>2, <4>1
    <3>3. CASE i # n + 1
      <4>1. i \in 1 .. n /\ i - 1 # n BY <1>4, <3>3 DEF Slot
      <4>2. log[i] = h[i - 1]
        <5> HIDE DEF log
        <5> QED BY <1>1, <1>8, <2>1, <4>1
      <4> HIDE DEF longer, log, log2
      <4> QED BY <1>3, <1>4, <2>1, <2>3, <3>1, <4>1, <4>2
    <3> QED BY <3>2, <3>3
  <2>5. log2 = longer
    <3>1. Len(log2) = Len(longer) BY <1>3, <2>1, <2>2
    <3>2. \A i \in 1 .. Len(log2) : log2[i] = longer[i] BY <2>2, <2>4
    <3>3. log2 \in Seq(Seq(Chars)) /\ longer \in Seq(Seq(Chars)) BY <1>2, <1>3
    <3> HIDE DEF longer, log, log2
    <3> QED BY ONLY <3>1, <3>2, <3>3, SeqEqual
  <2> QED BY <2>1, <2>5
<1> QED BY <1>7, <1>8

(* The last line of the log is the one before the slot of the next.        *)
LEMMA LastOfLog ==
  ASSUME NEW h, NEW n, Ring(h, n), NEW l \in Seq(Chars), NEW log, log = LogOf(h, n)
  PROVE  log # <<>> /\ log[Len(log)] = l <=> h[Before(n)] = l
<1> USE LineAssumption
<1>1. /\ log \in Seq(Seq(Chars)) /\ Len(log) = Filled(h, n)
      /\ \A i \in 1 .. Filled(h, n) :
           log[i] = IF h[n] # NoLine THEN h[OnRing(n + i - 1)] ELSE h[i - 1]
  BY LogType
<1>2. n \in Slot /\ Before(n) \in Slot /\ l # NoLine BY SlotsOfRing, NoLineIsNone DEF Ring
<1>3. CASE h[n] # NoLine
  <2>1. Len(log) = Size /\ log[Size] = h[OnRing(n + Size - 1)] BY <1>1, <1>3 DEF Filled
  <2>2. OnRing(n + Size - 1) = Before(n) BY <1>2 DEF OnRing, Before, Slot
  <2>3. log # <<>> BY <2>1
  <2> QED BY <2>1, <2>2, <2>3
<1>4. CASE h[n] = NoLine /\ n = 0
  <2>1. Len(log) = 0 BY <1>1, <1>4 DEF Filled
  <2>2. log = <<>> BY <1>1, <2>1
  <2>3. h[Before(n)] = NoLine BY <1>2, <1>4 DEF Ring, Slot
  <2> QED BY <1>2, <2>2, <2>3
<1>5. CASE h[n] = NoLine /\ n # 0
  <2>1. Len(log) = n /\ n \in 1 .. n BY <1>1, <1>2, <1>5 DEF Filled, Slot
  <2>2. log[n] = h[n - 1] BY <1>1, <1>5, <2>1
  <2>3. Before(n) = n - 1 /\ log # <<>> BY <1>5, <2>1 DEF Before
  <2> QED BY <2>1, <2>2, <2>3
<1> QED BY <1>3, <1>4, <1>5

(* Adding a line to the history records it.                                *)
LEMMA AddHistoryRecords ==
  ASSUME RingInv, RingInv', NEW l \in Seq(Chars), AddHistory(l),
         NEW log, log = LogOf(pszHistory, ulhNum),
         NEW log2, log2 = LogOf(pszHistory', ulhNum')
  PROVE  /\ log2 # <<>> /\ log2[Len(log2)] = l
         /\ log2 = IF log # <<>> /\ log[Len(log)] = l THEN log
                   ELSE IF Len(log) = Size THEN Tail(Append(log, l)) ELSE Append(log, l)
         /\ StepsBack(ulhNum', ulhpos') = 0
<1> USE LineAssumption
<1>1. Ring(pszHistory, ulhNum) /\ Ring(pszHistory', ulhNum') BY RingNow, RingNext
<1>2. /\ log # <<>> /\ log[Len(log)] = l <=> pszHistory[Before(ulhNum)] = l
      /\ log2 # <<>> /\ log2[Len(log2)] = l <=> pszHistory'[Before(ulhNum')] = l
  BY <1>1, LastOfLog
<1>3. ulhpos' = ulhNum' /\ ulhNum' \in Nat BY DEF AddHistory, RingInv, Slot
<1>4. StepsBack(ulhNum', ulhpos') = 0
  <2>1. \A k \in Nat : StepsBack(k, k) = 0 BY DEF StepsBack
  <2> QED BY <1>3, <2>1
<1>5. CASE pszHistory[Before(ulhNum)] = l
  <2>1. log2 = log BY <1>5 DEF AddHistory
  <2> QED BY <1>2, <1>4, <1>5, <2>1
<1>6. CASE pszHistory[Before(ulhNum)] # l
  <2>1. pszHistory' = [pszHistory EXCEPT ![ulhNum] = l] /\ ulhNum' = After(ulhNum)
    BY <1>6 DEF AddHistory
  <2>2. ulhNum \in Slot /\ DOMAIN pszHistory = Slot BY DEF RingInv
  <2>3. Before(ulhNum') = ulhNum BY <2>1, <2>2 DEF Before, After, Slot
  <2>4. pszHistory'[Before(ulhNum')] = l BY <2>1, <2>2, <2>3
  <2>5. log2 = IF Len(log) = Size THEN Tail(Append(log, l)) ELSE Append(log, l)
    <3>0. Added(pszHistory, ulhNum, l, pszHistory', ulhNum') BY <2>1 DEF Added
    <3>1. l \in Seq(Chars) OBVIOUS
    <3>2. LogOf(pszHistory', ulhNum') =
            IF Len(LogOf(pszHistory, ulhNum)) = Size THEN Tail(Append(LogOf(pszHistory, ulhNum), l))
            ELSE Append(LogOf(pszHistory, ulhNum), l)
      BY ONLY <1>1, <3>0, <3>1, AddIsRecord
    <3> QED BY <3>2
  <2> QED BY <1>2, <1>4, <1>6, <2>4, <2>5
<1> QED BY <1>5, <1>6

(* Every step is one of the log, or leaves it alone.                       *)
LEMMA ShownNext == TextTyped' => Shown' \in Seq(Chars)
<1> SUFFICES ASSUME TextTyped' PROVE Shown' \in Seq(Chars) OBVIOUS
<1> DEFINE n == IF ulUsedLen' < Cells THEN ulUsedLen' ELSE Cells
<1>1. n \in Nat /\ \A i \in 1 .. n : szBuffer'[i - 1] \in Chars
  BY LineAssumption DEF TextTyped, Cell
<1>2. Shown' = [i \in 1 .. n |-> szBuffer'[i - 1]] BY DEF Shown
<1> HIDE DEF n
<1> QED BY <1>1, <1>2

LEMMA EditIsEdit == TextTyped' /\ UNCHANGED ring => Log!Edit
<1> SUFFICES ASSUME TextTyped', UNCHANGED ring PROVE Log!Edit OBVIOUS
<1>1. UNCHANGED <<LogOf(pszHistory, ulhNum), StepsBack(ulhNum, ulhpos)>> BY DEF ring
<1> QED BY <1>1, ShownNext DEF Log!Edit

LEMMA AddIsRunLine ==
  \A l \in Seq(Chars) :
    RingInv /\ RingInv' /\ AddHistory(l) /\ (Shown' = Shown \/ Shown' = <<>>) => Log!RunLine
<1> SUFFICES ASSUME NEW l \in Seq(Chars), RingInv, RingInv', AddHistory(l),
                    Shown' = Shown \/ Shown' = <<>>
             PROVE  Log!RunLine
  OBVIOUS
<1> DEFINE log == LogOf(pszHistory, ulhNum)
           log2 == LogOf(pszHistory', ulhNum')
<1>1. /\ log2 # <<>> /\ log2[Len(log2)] = l
      /\ log2 = IF log # <<>> /\ log[Len(log)] = l THEN log
                ELSE IF Len(log) = Size THEN Tail(Append(log, l)) ELSE Append(log, l)
      /\ StepsBack(ulhNum', ulhpos') = 0
  <2> HIDE DEF log, log2
  <2>1. log = LogOf(pszHistory, ulhNum) /\ log2 = LogOf(pszHistory', ulhNum') BY DEF log, log2
  <2> QED BY <2>1, AddHistoryRecords
<1>2. Log!Record(l) BY <1>1 DEF Log!Record
<1>3. Log!Record(log2[Len(log2)]) BY <1>1, <1>2
<1>4. Shown' \in {Shown, <<>>} OBVIOUS
<1> QED BY <1>1, <1>3, <1>4 DEF Log!RunLine

(* The arrows: one slot before is one more step back.                      *)
LEMMA StepsOfArrows ==
  \A n \in Slot, p \in Slot :
    /\ StepsBack(n, Before(p)) = Log!Older(StepsBack(n, p))
    /\ StepsBack(n, After(p)) = Log!Newer(StepsBack(n, p))
BY LineAssumption DEF StepsBack, Before, After, Slot, Log!Older, Log!Newer

LEMMA RecallIsWalk ==
  \A i \in Slot : TextInv /\ RingInv /\ Recall(i) => Log!Walk(StepsBack(ulhNum, i))
<1> SUFFICES ASSUME NEW i \in Slot, TextInv, RingInv, Recall(i)
             PROVE  Log!Walk(StepsBack(ulhNum, i))
  OBVIOUS
<1> USE LineAssumption
<1> DEFINE cleared == [k \in Cell |-> IF k < Size THEN NUL ELSE szBuffer[k]]
           l == pszHistory[i]
           log == LogOf(pszHistory, ulhNum)
           b == StepsBack(ulhNum, i)
<1>1. l \in Seq(Chars) /\ Len(l) < Cells BY DEF Recall, RingInv, LinesFit
<1>2. /\ szBuffer' = Copied(cleared, l) /\ ulUsedLen' = Len(l)
      /\ ulhpos' = i /\ UNCHANGED <<pszHistory, ulhNum>>
  BY DEF Recall
<1>3. Shown' = l
  <2>1. Shown' = [k \in 1 .. Len(l) |-> szBuffer'[k - 1]] BY <1>1, <1>2 DEF Shown
  <2>2. \A k \in 1 .. Len(l) : szBuffer'[k - 1] = l[k]
    <3> HIDE DEF cleared, l
    <3> QED BY <1>1, <1>2 DEF Copied, Cell
  <2>3. Shown' \in Seq(Chars) /\ Len(Shown') = Len(l) /\ \A k \in 1 .. Len(l) : Shown'[k] = l[k]
    <3> HIDE DEF l
    <3> QED BY <1>1, <2>1, <2>2
  <2> HIDE DEF l
  <2> QED BY <1>1, <2>3, SeqEqual
<1>4. (b \in 1 .. Len(log) \/ Len(log) = Size)
      /\ (IF b = 0 THEN log[1] ELSE log[Len(log) + 1 - b]) = l
  <2>1. log = LogOf(pszHistory, ulhNum) /\ b = StepsBack(ulhNum, i) BY DEF log, b
  <2>2. Ring(pszHistory, ulhNum) /\ pszHistory[i] # NoLine BY RingNow DEF Recall
  <2> HIDE DEF log, b
  <2> QED BY <2>1, <2>2, EntryIs
<1>5. Log!Remembered(b) BY <1>4 DEF Log!Remembered
<1>6. Shown' = Log!Entry(b) BY <1>3, <1>4 DEF Log!Entry
<1>7. StepsBack(ulhNum', ulhpos') = b /\ LogOf(pszHistory', ulhNum') = log BY <1>2
<1> HIDE DEF log, l
<1> QED BY <1>5, <1>6, <1>7 DEF Log!Walk, log

LEMMA FreeIsForget == Free => Log!Forget
<1> SUFFICES ASSUME Free PROVE Log!Forget OBVIOUS
<1>1. pszHistory' = NoLines /\ ulhNum' = 0 /\ ulhpos' = 0 /\ ulUsedLen' = 0 BY DEF Free
<1>2. LogOf(NoLines, 0) = <<>> /\ StepsBack(0, 0) = 0
  BY LineAssumption DEF LogOf, StepsBack, NoLines, Slot
<1>3. Shown' = <<>> BY <1>1, LineAssumption DEF Shown
<1> QED BY <1>1, <1>2, <1>3 DEF Log!Forget

LEMMA InitIsInit == Init => Log!Init
<1> SUFFICES ASSUME Init PROVE Log!Init OBVIOUS
<1>1. pszHistory = NoLines /\ ulhNum = 0 /\ ulhpos = 0 /\ ulUsedLen = 0 BY DEF Init
<1>2. LogOf(NoLines, 0) = <<>> /\ StepsBack(0, 0) = 0
  BY LineAssumption DEF LogOf, StepsBack, NoLines, Slot
<1>3. Shown = <<>> BY <1>1, LineAssumption DEF Shown
<1> QED BY <1>1, <1>2, <1>3 DEF Log!Init

LEMMA WipeShows == Wipe => Shown' = <<>>
BY LineAssumption DEF Wipe, Shown

LEMMA NothingShown == UNCHANGED <<text, ring>> => UNCHANGED Log!vars
BY DEF text, ring, Shown, Log!vars

LEMMA StepImplements == IInv /\ IInv' /\ [Next]_vars => [Log!Next]_(Log!vars)
<1> SUFFICES ASSUME IInv, IInv', [Next]_vars PROVE Log!Next \/ UNCHANGED Log!vars OBVIOUS
<1>7. UNCHANGED vars => UNCHANGED Log!vars BY NothingShown DEF vars
<1> SUFFICES ASSUME Next PROVE Log!Next BY <1>7
<1>0. TextInv /\ RingInv /\ TextTyped' /\ RingInv' BY DEF IInv, OverrunInv, Next
<1>S. String(szBuffer) \in Seq(Chars) BY <1>0, StringType DEF TextInv
<1>1. CASE UNCHANGED ring BY <1>0, <1>1, EditIsEdit DEF Log!Next
<1>2. CASE Up
  <2>1. Before(ulhpos) \in Slot /\ ulhpos \in Slot /\ ulhNum \in Slot
    BY <1>0, SlotsOfRing DEF RingInv
  <2>2. Log!Walk(StepsBack(ulhNum, Before(ulhpos)))
    BY <1>0, <1>2, <2>1, RecallIsWalk DEF Up
  <2> QED BY <2>1, <2>2, StepsOfArrows DEF Log!Next
<1>3. CASE Down
  <2>1. After(ulhpos) \in Slot /\ ulhpos \in Slot /\ ulhNum \in Slot
    BY <1>0, SlotsOfRing DEF RingInv
  <2>2. Log!Walk(StepsBack(ulhNum, After(ulhpos)))
    BY <1>0, <1>3, <2>1, RecallIsWalk DEF Down
  <2> QED BY <2>1, <2>2, StepsOfArrows DEF Log!Next
<1>4. CASE Enter
  <2>1. Shown' = Shown \/ Shown' = <<>> BY <1>4, WipeShows DEF Enter, text, Shown
  <2>2. AddHistory(String(szBuffer)) BY <1>4 DEF Enter
  <2> QED BY <1>0, <1>S, <2>1, <2>2, AddIsRunLine DEF Log!Next
<1>5. CASE RecordQuit
  <2>1. Shown' = <<>> BY <1>5, WipeShows DEF RecordQuit
  <2>2. AddHistory(String(szBuffer)) BY <1>5 DEF RecordQuit
  <2> QED BY <1>0, <1>S, <2>1, <2>2, AddIsRunLine DEF Log!Next
<1>6. CASE EnterQuit \/ Offline BY <1>6, FreeIsForget DEF EnterQuit, Offline, Log!Next
<1>8. ASSUME NEW c \in Chars, Insert(c) PROVE UNCHANGED ring BY <1>8 DEF Insert
<1>9. ASSUME NEW w \in Words, Complete(w) PROVE UNCHANGED ring BY <1>9 DEF Complete
<1>10. CASE Delete \/ Backspace \/ Move \/ Quest \/ TabAgain \/ TabOnLongWord \/ Connect
  BY <1>1, <1>10 DEF Delete, Backspace, Move, Quest, TabAgain, TabOnLongWord, Connect
<1> QED BY <1>1, <1>2, <1>3, <1>4, <1>5, <1>6, <1>8, <1>9, <1>10 DEF Next, Within

(* The ring with its two indices remembers the lines that were run as the  *)
(* log does, and the arrow keys walk through them in order.                *)
THEOREM LineRefinement == Spec => ImplementsLog
<1>1. Init => Log!Init BY InitIsInit
<1>2. IInv /\ IInv' /\ [Next]_vars => [Log!Next]_(Log!vars) BY StepImplements
<1> QED BY <1>1, <1>2, LineInvariant, PTL DEF Spec, ImplementsLog, Log!Spec

-----------------------------------------------------------------------------
(* The packet listener.                                                    *)

Sockets == Listening!Sockets
Threads == Listening!Threads
InUse == {s \in Sockets : kind[s] # "free"}
Alive == {t \in Threads : lpc[t] # "none"}
(* Sockets that listen where nobody will connect.                          *)
Lost == {s \in Sockets : kind[s] = "other"}
OnPort == {s \in Sockets : kind[s] \in {"port", "bound"}}
Ours == IF sListen = 0 THEN "none" ELSE kind[sListen]

(* What the sockets are to the threads and to the timer.  The port belongs *)
(* to one socket; a socket that is not the listener's is one that a thread *)
(* waits on.                                                               *)
Settled(w, k) ==
  CASE w = "create" -> k = "none"
    [] w = "bind" -> k = "raw"
    [] w = "listen" -> k \in {"raw", "bound"}
    [] OTHER -> k \in {"none", "port", "other"}
OnePort == \A s, r \in OnPort : s = r
Held ==
  \A s \in Sockets : kind[s] \in {"port", "other"} => s = sListen \/ Listening!Holders(s) # {}
Unready == \A s \in Sockets : kind[s] \in {"raw", "bound"} => s = sListen
Queues == \A s \in Sockets : queue[s] > 0 => kind[s] = "port"
Waits ==
  \A t \in Threads :
    lpc[t] = "accept" => on[t] \in Sockets /\ kind[on[t]] \in {"port", "other"}
Shape == OnePort /\ Held /\ Unready /\ Queues /\ Waits /\ Settled(timer, Ours)

(* The timer is between a failed probe and the new listener.  A zombie has *)
(* the port but is not, or will not be, the socket of the listener: only a *)
(* fault of this probe can have left one.                                  *)
Renewing == timer \in {"destroy", "create", "bind", "listen"}
Zombie ==
  \E s \in Sockets : /\ kind[s] = "port"
                     /\ s # sListen \/ (timer = "destroy" /\ Listening!Attended(s))
Serves == Ours = "port" /\ Listening!Attended(sListen)
Late == timer = "listen" /\ Ours = "raw"

SocketsPaid(n) ==
  /\ n <= faults
  /\ (Renewing /\ Zombie) \/ Late => n + 1 <= faults
ThreadsPaid(n) ==
  /\ n <= 1 + 2 * faults
  /\ timer \in {"probe", "sleep"} /\ ~Serves => n <= 2 * faults
  /\ Renewing \/ timer = "thread" => n <= 2 * faults
  /\ (Renewing /\ Zombie) \/ Late \/ (timer = "thread" /\ Ours # "port")
       => n + 1 <= 2 * faults

ListenerTyped == Listening!TypeOK
ListenerInv ==
  /\ ListenerTyped /\ Shape
  /\ SocketsPaid(Cardinality(Lost)) /\ ThreadsPaid(Cardinality(Alive))

-----------------------------------------------------------------------------
(* Counting.                                                               *)

LEMMA Finite ==
  /\ IsFiniteSet(Sockets) /\ IsFiniteSet(Threads)
  /\ \A S \in SUBSET Sockets : IsFiniteSet(S) /\ Cardinality(S) \in Nat
  /\ \A S \in SUBSET Threads : IsFiniteSet(S) /\ Cardinality(S) \in Nat
<1>1. IsFiniteSet(Sockets) /\ IsFiniteSet(Threads)
  BY FS_Interval, ListenerAssumption DEF Sockets, Threads, Listening!Sockets, Listening!Threads
<1>2. ASSUME NEW T, IsFiniteSet(T), NEW S \in SUBSET T
      PROVE  IsFiniteSet(S) /\ Cardinality(S) \in Nat
  <2>1. IsFiniteSet(S) BY <1>2, FS_Subset
  <2> QED BY <2>1, FS_CardinalityType
<1> QED BY <1>1, <1>2

LEMMA Fewer ==
  ASSUME NEW S, NEW T, IsFiniteSet(T), S \subseteq T
  PROVE  Cardinality(S) <= Cardinality(T)
BY FS_Subset

LEMMA OneMore ==
  ASSUME NEW S, NEW T, NEW x, IsFiniteSet(T), S \subseteq T \cup {x}
  PROVE  Cardinality(S) <= Cardinality(T) + 1
<1>1. IsFiniteSet(T \cup {x}) /\ Cardinality(T \cup {x}) <= Cardinality(T) + 1
  <2>1. Cardinality(T) \in Nat BY FS_CardinalityType
  <2> QED BY <2>1, FS_AddElement
<1>2. Cardinality(S) <= Cardinality(T \cup {x}) BY <1>1, Fewer
<1> QED BY <1>1, <1>2, FS_CardinalityType, FS_Subset

LEMMA OneLess ==
  ASSUME NEW S, NEW T, NEW x \in T, IsFiniteSet(T), S \subseteq T \ {x}
  PROVE  Cardinality(S) + 1 <= Cardinality(T)
<1>1. IsFiniteSet(T \ {x}) /\ Cardinality(T \ {x}) = Cardinality(T) - 1
  BY FS_RemoveElement
<1>2. Cardinality(S) <= Cardinality(T \ {x}) BY <1>1, Fewer
<1> QED BY <1>1, <1>2, FS_CardinalityType, FS_Subset

(* What the counts are when no socket is lost and no thread started.       *)
LEMMA NoMore ==
  /\ Cardinality(Lost) \in Nat /\ Cardinality(Lost)' \in Nat
  /\ Cardinality(Alive) \in Nat /\ Cardinality(Alive)' \in Nat
  /\ Lost' \subseteq Lost => Cardinality(Lost)' <= Cardinality(Lost)
  /\ Alive' \subseteq Alive => Cardinality(Alive)' <= Cardinality(Alive)
  /\ \A s : Lost' \subseteq Lost \cup {s} => Cardinality(Lost)' <= Cardinality(Lost) + 1
  /\ \A t : Alive' \subseteq Alive \cup {t} => Cardinality(Alive)' <= Cardinality(Alive) + 1
  /\ \A t \in Alive : Alive' \subseteq Alive \ {t} => Cardinality(Alive)' + 1 <= Cardinality(Alive)
<1>1. Lost \in SUBSET Sockets /\ Alive \in SUBSET Threads
  BY DEF Lost, Alive
<1>2. Lost' \in SUBSET Sockets /\ Alive' \in SUBSET Threads
  BY DEF Lost, Alive, Sockets, Threads, Listening!Sockets, Listening!Threads
<1>3. Cardinality(Lost)' = Cardinality(Lost') /\ Cardinality(Alive)' = Cardinality(Alive')
  OBVIOUS
<1>4. Cardinality(Lost) \in Nat /\ Cardinality(Lost') \in Nat
  BY <1>1, <1>2, Finite
<1>5. Cardinality(Alive) \in Nat /\ Cardinality(Alive') \in Nat
  BY <1>1, <1>2, Finite
<1>6. IsFiniteSet(Lost) /\ IsFiniteSet(Alive) BY <1>1, Finite
<1>7. \A s : Lost' \subseteq Lost \cup {s} => Cardinality(Lost') <= Cardinality(Lost) + 1
  BY <1>6, OneMore
<1>8. \A t : Alive' \subseteq Alive \cup {t} => Cardinality(Alive') <= Cardinality(Alive) + 1
  BY <1>6, OneMore
<1>9. \A t \in Alive : Alive' \subseteq Alive \ {t} => Cardinality(Alive') + 1 <= Cardinality(Alive)
  BY <1>6, OneLess
<1>10. /\ Lost' \subseteq Lost => Cardinality(Lost') <= Cardinality(Lost)
       /\ Alive' \subseteq Alive => Cardinality(Alive') <= Cardinality(Alive)
  BY <1>6, Fewer
<1> QED BY <1>3, <1>4, <1>5, <1>7, <1>8, <1>9, <1>10

-----------------------------------------------------------------------------
(* The socket of the listener, by where the timer thread is.               *)
LEMMA OursKnown ==
  ASSUME ListenerInv
  PROVE  /\ sListen # 0 => sListen \in Sockets /\ sListen \in 1 .. MaxSockets
         /\ sListen # 0 => Ours = kind[sListen]
         /\ timer = "create" => sListen = 0
         /\ timer = "bind" => sListen # 0 /\ kind[sListen] = "raw"
         /\ timer = "listen" => sListen # 0 /\ kind[sListen] \in {"raw", "bound"}
         /\ timer \notin {"create", "bind", "listen"} /\ sListen # 0
              => kind[sListen] \in {"port", "other"}
<1>1. sListen \in 0 .. MaxSockets /\ kind \in [Sockets -> {"free", "raw", "bound", "port", "other"}]
  BY DEF ListenerInv, ListenerTyped, Listening!TypeOK, Sockets
<1>2. sListen # 0 => sListen \in 1 .. MaxSockets /\ sListen \in Sockets
  BY <1>1, ListenerAssumption DEF Sockets, Listening!Sockets
<1>3. sListen # 0 => kind[sListen] # "none"
  <2> SUFFICES ASSUME sListen # 0 PROVE kind[sListen] # "none"
    OBVIOUS
  <2>1. kind[sListen] \in {"free", "raw", "bound", "port", "other"} BY <1>1, <1>2
  <2> QED BY <2>1
<1>4. sListen # 0 => Ours = kind[sListen] BY DEF Ours
<1>5. sListen = 0 => Ours = "none" BY DEF Ours
<1>6. Settled(timer, Ours) BY DEF ListenerInv, Shape
<1> QED BY <1>2, <1>3, <1>4, <1>5, <1>6 DEF Settled

-----------------------------------------------------------------------------
(* The timer thread.                                                       *)

LEMMA ListenerInit == Listening!Init => ListenerInv
<1> SUFFICES ASSUME Listening!Init PROVE ListenerInv
  OBVIOUS
<1> USE ListenerAssumption DEF Listening!Init
<1>1. ListenerTyped
  <2>1. 0 \in 0 .. MaxSockets /\ 0 \in 0 .. Backlog /\ 0 \in 0 .. MaxFaults
    OBVIOUS
  <2> QED BY <2>1 DEF ListenerTyped, Listening!TypeOK
<1>2. Shape
  BY DEF Shape, OnePort, Held, Unready, Queues, Waits, OnPort, Settled, Ours, Sockets, Threads, Listening!Sockets, Listening!Threads
<1>3. Lost = {} /\ Alive = {}
  BY DEF Lost, Alive, Sockets, Threads, Listening!Sockets, Listening!Threads
<1>4. Cardinality({}) = 0 BY FS_EmptySet
<1>5. SocketsPaid(0) /\ ThreadsPaid(0)
  BY DEF SocketsPaid, ThreadsPaid, Renewing, Late
<1> QED BY <1>1, <1>2, <1>3, <1>4, <1>5 DEF ListenerInv

LEMMA ProbeAnsweredStep == ListenerInv /\ Listening!ProbeAnswered => ListenerInv'
<1> SUFFICES ASSUME ListenerInv, Listening!ProbeAnswered PROVE ListenerInv'
  OBVIOUS
<1> USE DEF ListenerInv, Listening!ProbeAnswered
<1>1. ListenerTyped'
  BY ListenerAssumption DEF ListenerTyped, Listening!TypeOK, Listening!Served, Listening!Sockets
<1>2. Shape'
  BY DEF Shape, OnePort, Held, Unready, Queues, Waits, OnPort, Settled, Ours, Sockets, Threads, ListenerTyped, Listening!TypeOK,
         Listening!Served, Listening!Holders, Listening!Sockets, Listening!Threads
<1>3. Cardinality(Lost)' <= Cardinality(Lost) /\ Cardinality(Alive)' <= Cardinality(Alive)
  BY NoMore DEF Lost, Alive, Sockets, Threads, Listening!Sockets, Listening!Threads
<1>4. faults \in Nat /\ (Serves <=> Serves')
  BY ListenerAssumption DEF ListenerTyped, Listening!TypeOK, Serves, Ours, Listening!Attended, Listening!Holders
<1>5. SocketsPaid(Cardinality(Lost))' /\ ThreadsPaid(Cardinality(Alive))'
  BY <1>3, <1>4, NoMore DEF SocketsPaid, ThreadsPaid, Renewing, Late
<1> QED BY <1>1, <1>2, <1>5

LEMMA ProbeFailsStep == ListenerInv /\ Listening!ProbeFails => ListenerInv'
<1> SUFFICES ASSUME ListenerInv, Listening!ProbeFails PROVE ListenerInv'
  OBVIOUS
<1> USE DEF ListenerInv, Listening!ProbeFails
<1>1. ListenerTyped'
  <2>1. faults' \in 0 .. MaxFaults
    BY ListenerAssumption DEF ListenerTyped, Listening!TypeOK, Listening!Fault
  <2> QED BY <2>1 DEF ListenerTyped, Listening!TypeOK, Listening!Sockets, Listening!Threads
<1>2. Shape'
  BY DEF Shape, OnePort, Held, Unready, Queues, Waits, OnPort, Settled, Ours, Sockets, Threads, Listening!Holders,
         Listening!Sockets, Listening!Threads
<1>3. Cardinality(Lost)' <= Cardinality(Lost) /\ Cardinality(Alive)' <= Cardinality(Alive)
  BY NoMore DEF Lost, Alive, Sockets, Threads, Listening!Sockets, Listening!Threads
<1>4. faults \in Nat /\ sListen \in 0 .. MaxSockets
  BY ListenerAssumption DEF ListenerTyped, Listening!TypeOK
<1>5. CASE Listening!Fault
  BY <1>1, <1>2, <1>3, <1>4, <1>5, NoMore
     DEF SocketsPaid, ThreadsPaid, Renewing, Late, Listening!Fault
<1>6. CASE UNCHANGED faults /\ \A s \in Listening!Served : ~Listening!Attended(s)
  <2>1. ~Serves
    BY <1>4, <1>6, ListenerAssumption DEF Serves, Ours, Listening!Served, Listening!Sockets
  <2>2. \A s \in Sockets : kind[s] = "port" => ~Listening!Attended(s) /\ s = sListen
    BY <1>6 DEF Shape, Held, Sockets, Listening!Served, Listening!Attended
  <2>3. ~Zombie'
    BY <2>2 DEF Zombie, Sockets, Listening!Attended, Listening!Holders,
                Listening!Sockets, Listening!Threads
  <2> QED BY <1>1, <1>2, <1>3, <1>4, <1>6, <2>1, <2>3, NoMore
          DEF SocketsPaid, ThreadsPaid, Renewing, Late
<1> QED BY <1>1, <1>2, <1>5, <1>6

(* A socket that nobody waits on goes, a socket that somebody waits on     *)
(* becomes a zombie.                                                       *)
LEMMA DestroyStep == ListenerInv /\ Listening!Destroy => ListenerInv'
<1> SUFFICES ASSUME ListenerInv, Listening!Destroy PROVE ListenerInv'
  OBVIOUS
<1> USE DEF ListenerInv, Listening!Destroy
<1>1. ListenerTyped'
  <2>1. 0 \in 0 .. MaxSockets /\ 0 \in 0 .. Backlog BY ListenerAssumption
  <2>2. /\ kind' \in [Sockets -> {"free", "raw", "bound", "port", "other"}]
        /\ queue' \in [Sockets -> 0 .. Backlog]
    BY <2>1 DEF ListenerTyped, Listening!TypeOK, Listening!Release, Sockets
  <2> QED BY <2>1, <2>2 DEF ListenerTyped, Listening!TypeOK, Sockets, Listening!Sockets,
                            Listening!Threads
<1>2. Shape'
  <2>1. Settled(timer, Ours)' BY DEF Settled, Ours
  <2>2. sListen # 0 => kind[sListen] \in {"port", "other"}
    BY OursKnown
  <2>3. CASE /\ UNCHANGED <<kind, queue>>
             /\ sListen # 0 => Listening!Holders(sListen) # {}
    BY <2>1, <2>2, <2>3
       DEF Shape, OnePort, Held, Unready, Queues, Waits, OnPort, Sockets, Threads,
           Listening!Holders, Listening!Sockets, Listening!Threads
  <2>4. CASE /\ sListen # 0 /\ Listening!Holders(sListen) = {}
             /\ kind' = [kind EXCEPT ![sListen] = "free"]
             /\ queue' = [queue EXCEPT ![sListen] = 0]
    <3> USE <2>4
    <3>1. \A s \in Sockets : /\ kind'[s] = IF s = sListen THEN "free" ELSE kind[s]
                             /\ queue'[s] = IF s = sListen THEN 0 ELSE queue[s]
      BY DEF ListenerTyped, Listening!TypeOK, Sockets
    <3>2. OnePort' /\ Unready' /\ Queues'
      BY <2>2, <3>1 DEF Shape, OnePort, Unready, Queues, OnPort, Sockets, Listening!Sockets
    <3>3. Held' /\ Waits'
      BY <2>2, <3>1 DEF Shape, Held, Waits, Sockets, Threads, Listening!Holders,
                        Listening!Sockets, Listening!Threads
    <3> QED BY <2>1, <3>2, <3>3 DEF Shape
  <2>5. 0 \notin Threads BY ListenerAssumption DEF Threads, Listening!Threads
  <2>6. Listening!Holders(sListen) \ {0} = {} <=> Listening!Holders(sListen) = {}
    BY <2>5 DEF Listening!Holders, Threads
  <2> QED BY <2>3, <2>4, <2>6 DEF Listening!Release, Listening!Gone
<1>3. Cardinality(Lost)' <= Cardinality(Lost) /\ Cardinality(Alive)' <= Cardinality(Alive)
  BY NoMore DEF Lost, Alive, Sockets, Threads, Listening!Release, ListenerTyped, Listening!TypeOK,
                Listening!Sockets, Listening!Threads
<1>4. faults \in Nat /\ faults' = faults
  BY ListenerAssumption DEF ListenerTyped, Listening!TypeOK
<1>5. Zombie' => Zombie
  BY DEF Zombie, Sockets, ListenerTyped, Listening!TypeOK, Listening!Attended, Listening!Release,
         Listening!Gone, Listening!Holders, Listening!Sockets, Listening!Threads
<1>6. SocketsPaid(Cardinality(Lost))' /\ ThreadsPaid(Cardinality(Alive))'
  BY <1>3, <1>4, <1>5, NoMore DEF SocketsPaid, ThreadsPaid, Renewing, Late
<1> QED BY <1>1, <1>2, <1>6

LEMMA CreateStep == ListenerInv /\ Listening!Create => ListenerInv'
<1> SUFFICES ASSUME ListenerInv, Listening!Create PROVE ListenerInv'
  OBVIOUS
<1> USE DEF ListenerInv, Listening!Create
<1>1. PICK s \in Sockets : /\ kind[s] = "free" /\ kind' = [kind EXCEPT ![s] = "raw"]
                           /\ sListen' = s
  BY DEF Sockets
<1>2. s \in 1 .. MaxSockets /\ sListen = 0
  BY <1>1, OursKnown DEF Sockets, Listening!Sockets
<1>3. ListenerTyped'
  <2>1. s \in 0 .. MaxSockets BY <1>2, ListenerAssumption
  <2> QED BY <1>1, <2>1 DEF ListenerTyped, Listening!TypeOK, Listening!Sockets, Listening!Threads
<1>4. Shape'
  BY <1>1, <1>2 DEF Shape, OnePort, Held, Unready, Queues, Waits, OnPort, Settled, Ours, Sockets, Threads, ListenerTyped, Listening!TypeOK,
         Listening!Holders, Listening!Sockets, Listening!Threads
<1>5. Cardinality(Lost)' <= Cardinality(Lost) /\ Cardinality(Alive)' <= Cardinality(Alive)
  BY <1>1, NoMore DEF Lost, Alive, Sockets, Threads, ListenerTyped, Listening!TypeOK,
                      Listening!Sockets, Listening!Threads
<1>6. faults \in Nat /\ faults' = faults
  BY ListenerAssumption DEF ListenerTyped, Listening!TypeOK
<1>7. Zombie' => Zombie
  BY <1>1, <1>2 DEF Zombie, Sockets, ListenerTyped, Listening!TypeOK, Listening!Sockets
<1>8. SocketsPaid(Cardinality(Lost))' /\ ThreadsPaid(Cardinality(Alive))'
  BY <1>5, <1>6, <1>7, NoMore DEF SocketsPaid, ThreadsPaid, Renewing, Late
<1> QED BY <1>3, <1>4, <1>8

LEMMA CreateFailsStep == ListenerInv /\ Listening!CreateFails => ListenerInv'
<1> SUFFICES ASSUME ListenerInv, Listening!CreateFails PROVE ListenerInv'
  OBVIOUS
<1> USE DEF ListenerInv, Listening!CreateFails, Listening!Fault
<1>1. faults' = faults + 1 /\ faults \in Nat /\ faults' \in 0 .. MaxFaults
  BY ListenerAssumption DEF ListenerTyped, Listening!TypeOK
<1>2. ListenerTyped'
  BY <1>1 DEF ListenerTyped, Listening!TypeOK, Listening!Sockets, Listening!Threads
<1>3. sListen = 0 BY OursKnown
<1>4. Shape'
  BY <1>3 DEF Shape, OnePort, Held, Unready, Queues, Waits, OnPort, Settled, Ours, Sockets, Threads,
              Listening!Holders, Listening!Sockets, Listening!Threads
<1>5. Cardinality(Lost)' <= Cardinality(Lost) /\ Cardinality(Alive)' <= Cardinality(Alive)
  BY NoMore DEF Lost, Alive, Sockets, Threads, Listening!Sockets, Listening!Threads
<1>6. SocketsPaid(Cardinality(Lost))' /\ ThreadsPaid(Cardinality(Alive))'
  BY <1>1, <1>5, NoMore DEF SocketsPaid, ThreadsPaid, Renewing, Late
<1> QED BY <1>2, <1>4, <1>6

(* A socket without a port is made only when a zombie has it.              *)
LEMMA BindStep == ListenerInv /\ Listening!Bind => ListenerInv'
<1> SUFFICES ASSUME ListenerInv, Listening!Bind PROVE ListenerInv'
  OBVIOUS
<1> USE DEF ListenerInv, Listening!Bind
<1>1. sListen # 0 /\ sListen \in Sockets /\ kind[sListen] = "raw" BY OursKnown
<1>2. \A s \in Sockets :
        kind'[s] = IF s = sListen /\ ~Listening!PortTaken THEN "bound" ELSE kind[s]
  BY DEF ListenerTyped, Listening!TypeOK, Sockets
<1>3. ListenerTyped'
  BY DEF ListenerTyped, Listening!TypeOK, Listening!Sockets, Listening!Threads
<1>4. Listening!PortTaken => \E s \in Sockets : s # sListen /\ kind[s] = "port"
  BY DEF Listening!PortTaken, Sockets, Shape, Unready
<1>5. ~Listening!PortTaken => \A s \in Sockets : s # sListen => kind[s] \notin {"bound", "port"}
  BY DEF Listening!PortTaken, Sockets
<1>6. Shape'
  <2>1. OnePort'
    BY <1>1, <1>2, <1>5 DEF Shape, OnePort, OnPort, Sockets, Listening!Sockets
  <2>2. Held' /\ Unready' /\ Queues' /\ Waits'
    BY <1>1, <1>2 DEF Shape, Held, Unready, Queues, Waits, Sockets, Threads,
                      Listening!Holders, Listening!Sockets, Listening!Threads
  <2>3. Settled(timer, Ours)'
    BY <1>1, <1>2 DEF Settled, Ours
  <2> QED BY <2>1, <2>2, <2>3 DEF Shape
<1>7. Cardinality(Lost)' <= Cardinality(Lost) /\ Cardinality(Alive)' <= Cardinality(Alive)
  BY <1>2, NoMore DEF Lost, Alive, Sockets, Threads, Listening!Sockets, Listening!Threads
<1>8. faults \in Nat /\ faults' = faults
  BY ListenerAssumption DEF ListenerTyped, Listening!TypeOK
<1>9. Zombie' \/ Late' => Zombie
  BY <1>1, <1>2, <1>4 DEF Zombie, Late, Ours, Sockets, Listening!Sockets
<1>10. SocketsPaid(Cardinality(Lost))' /\ ThreadsPaid(Cardinality(Alive))'
  BY <1>7, <1>8, <1>9, NoMore DEF SocketsPaid, ThreadsPaid, Renewing
<1> QED BY <1>3, <1>6, <1>10

(* A socket without a port is lost, and was paid for by the zombie.        *)
LEMMA ListenStep == ListenerInv /\ Listening!Listen => ListenerInv'
<1> SUFFICES ASSUME ListenerInv, Listening!Listen PROVE ListenerInv'
  OBVIOUS
<1> USE DEF ListenerInv, Listening!Listen
<1>1. sListen # 0 /\ sListen \in Sockets /\ kind[sListen] \in {"raw", "bound"} BY OursKnown
<1>2. \A s \in Sockets :
        kind'[s] = IF s # sListen THEN kind[s]
                   ELSE IF kind[s] = "bound" THEN "port" ELSE "other"
  BY DEF ListenerTyped, Listening!TypeOK, Sockets
<1>3. ListenerTyped'
  BY DEF ListenerTyped, Listening!TypeOK, Listening!Sockets, Listening!Threads
<1>4. Shape'
  <2>1. OnePort'
    BY <1>1, <1>2 DEF Shape, OnePort, OnPort, Sockets, Listening!Sockets
  <2>2. Held' /\ Unready' /\ Queues' /\ Waits'
    BY <1>1, <1>2 DEF Shape, Held, Unready, Queues, Waits, Sockets, Threads,
                      Listening!Holders, Listening!Sockets, Listening!Threads
  <2>3. Settled(timer, Ours)'
    BY <1>1, <1>2 DEF Settled, Ours
  <2> QED BY <2>1, <2>2, <2>3 DEF Shape
<1>5. Cardinality(Alive)' <= Cardinality(Alive)
  BY NoMore DEF Alive, Threads, Listening!Threads
<1>6. faults \in Nat /\ faults' = faults
  BY ListenerAssumption DEF ListenerTyped, Listening!TypeOK
<1>7. CASE kind[sListen] = "bound"
  <2>1. Cardinality(Lost)' <= Cardinality(Lost)
    BY <1>1, <1>2, <1>7, NoMore DEF Lost, Sockets, Listening!Sockets
  <2>2. Ours' = "port" BY <1>1, <1>2, <1>7 DEF Ours
  <2> QED BY <1>3, <1>4, <1>5, <1>6, <2>1, <2>2, NoMore
          DEF SocketsPaid, ThreadsPaid, Renewing, Late
<1>8. CASE kind[sListen] = "raw"
  <2>1. Cardinality(Lost)' <= Cardinality(Lost) + 1
    BY <1>1, <1>2, NoMore DEF Lost, Sockets, Listening!Sockets
  <2>2. Late BY <1>1, <1>8 DEF Late, Ours
  <2> QED BY <1>3, <1>4, <1>5, <1>6, <2>1, <2>2, NoMore
          DEF SocketsPaid, ThreadsPaid, Renewing, Late
<1> QED BY <1>1, <1>7, <1>8

LEMMA ListenFailsStep == ListenerInv /\ Listening!ListenFails => ListenerInv'
<1> SUFFICES ASSUME ListenerInv, Listening!ListenFails PROVE ListenerInv'
  OBVIOUS
<1> USE DEF ListenerInv, Listening!ListenFails, Listening!Fault
<1>1. sListen # 0 /\ sListen \in Sockets /\ kind[sListen] \in {"raw", "bound"} BY OursKnown
<1>2. \A s \in Sockets : kind'[s] = IF s = sListen THEN "free" ELSE kind[s]
  BY DEF ListenerTyped, Listening!TypeOK, Sockets
<1>3. faults' = faults + 1 /\ faults \in Nat /\ faults' \in 0 .. MaxFaults
  BY ListenerAssumption DEF ListenerTyped, Listening!TypeOK
<1>4. ListenerTyped'
  <2>1. 0 \in 0 .. MaxSockets BY ListenerAssumption
  <2> QED BY <1>3, <2>1 DEF ListenerTyped, Listening!TypeOK, Listening!Sockets, Listening!Threads
<1>5. Shape'
  <2>1. OnePort' /\ Unready' /\ Queues'
    BY <1>1, <1>2 DEF Shape, OnePort, OnPort, Unready, Queues, Sockets, Listening!Sockets
  <2>2. Held' /\ Waits'
    BY <1>1, <1>2 DEF Shape, Held, Waits, Sockets, Threads,
                      Listening!Holders, Listening!Sockets, Listening!Threads
  <2>3. Settled(timer, Ours)' BY DEF Settled, Ours
  <2> QED BY <2>1, <2>2, <2>3 DEF Shape
<1>6. Cardinality(Lost)' <= Cardinality(Lost) /\ Cardinality(Alive)' <= Cardinality(Alive)
  BY <1>2, NoMore DEF Lost, Alive, Sockets, Threads, Listening!Sockets, Listening!Threads
<1>7. SocketsPaid(Cardinality(Lost))' /\ ThreadsPaid(Cardinality(Alive))'
  BY <1>3, <1>6, NoMore DEF SocketsPaid, ThreadsPaid, Renewing, Late
<1> QED BY <1>4, <1>5, <1>7

(* One thread more: it serves the port, or a fault has paid for it.        *)
LEMMA ThreadStep == ListenerInv /\ Listening!Thread => ListenerInv'
<1> SUFFICES ASSUME ListenerInv, Listening!Thread PROVE ListenerInv'
  OBVIOUS
<1> USE DEF ListenerInv, Listening!Thread
<1>1. faults \in Nat /\ faults \in 0 .. MaxFaults
  BY ListenerAssumption DEF ListenerTyped, Listening!TypeOK
<1>2. Cardinality(Lost)' <= Cardinality(Lost)
  BY NoMore DEF Lost, Sockets, Listening!Sockets
<1>3. sListen # 0 => sListen \in Sockets /\ kind[sListen] \in {"port", "other"}
  BY OursKnown
<1>4. CASE Listening!Fault /\ UNCHANGED lpc
  <2> USE <1>4 DEF Listening!Fault
  <2>1. ListenerTyped'
    BY <1>1, ListenerAssumption
       DEF ListenerTyped, Listening!TypeOK, Listening!Sockets, Listening!Threads
  <2>2. Shape'
    BY <1>3 DEF Shape, OnePort, Held, Unready, Queues, Waits, OnPort, Settled, Ours, Sockets, Threads,
                Listening!Holders, Listening!Sockets, Listening!Threads
  <2>3. Cardinality(Alive)' <= Cardinality(Alive)
    BY NoMore DEF Alive, Threads, Listening!Threads
  <2> QED BY <1>1, <1>2, <2>1, <2>2, <2>3, NoMore
          DEF SocketsPaid, ThreadsPaid, Renewing, Late
<1>5. CASE \E t \in Threads : /\ lpc[t] = "none" /\ lpc' = [lpc EXCEPT ![t] = "begin"]
                              /\ UNCHANGED faults
  <2>1. PICK t \in Threads : /\ lpc[t] = "none" /\ lpc' = [lpc EXCEPT ![t] = "begin"]
                             /\ UNCHANGED faults
    BY <1>5
  <2>2. \A r \in Threads : lpc'[r] = IF r = t THEN "begin" ELSE lpc[r]
    BY <2>1 DEF ListenerTyped, Listening!TypeOK, Threads
  <2>3. ListenerTyped'
    BY <2>1 DEF ListenerTyped, Listening!TypeOK, Listening!Sockets, Listening!Threads
  <2>4. Shape'
    <3>1. OnePort' /\ Unready' /\ Queues' /\ Settled(timer, Ours)'
      BY <1>3 DEF Shape, OnePort, OnPort, Unready, Queues, Settled, Ours, Sockets, Listening!Sockets
    <3>2. Waits'
      BY <2>2 DEF Shape, Waits, Sockets, Threads, Listening!Sockets, Listening!Threads
    <3>3. Held'
      BY <2>1, <2>2 DEF Shape, Held, Sockets, Threads, Listening!Holders,
                        Listening!Sockets, Listening!Threads
    <3> QED BY <3>1, <3>2, <3>3 DEF Shape
  <2>5. Cardinality(Alive)' <= Cardinality(Alive) + 1
    BY <2>2, NoMore DEF Alive, Threads, Listening!Threads
  <2>6. Ours = "port" => Serves'
    BY <2>1, <2>2 DEF Serves, Ours, Listening!Attended, Threads, Listening!Threads
  <2>7. faults' = faults BY <2>1
  <2> QED BY <1>1, <1>2, <2>3, <2>4, <2>5, <2>6, <2>7, NoMore
          DEF SocketsPaid, ThreadsPaid, Renewing, Late
<1> QED BY <1>4, <1>5 DEF Threads

LEMMA WakeStep == ListenerInv /\ Listening!Wake => ListenerInv'
<1> SUFFICES ASSUME ListenerInv, Listening!Wake PROVE ListenerInv'
  OBVIOUS
<1> USE DEF ListenerInv, Listening!Wake
<1>1. ListenerTyped'
  BY DEF ListenerTyped, Listening!TypeOK, Listening!Sockets, Listening!Threads
<1>2. Shape'
  BY DEF Shape, OnePort, Held, Unready, Queues, Waits, OnPort, Settled, Ours, Sockets, Threads,
         Listening!Holders, Listening!Sockets, Listening!Threads
<1>3. Cardinality(Lost)' <= Cardinality(Lost) /\ Cardinality(Alive)' <= Cardinality(Alive)
  BY NoMore DEF Lost, Alive, Sockets, Threads, Listening!Sockets, Listening!Threads
<1>4. faults \in Nat /\ faults' = faults /\ (Serves <=> Serves')
  BY ListenerAssumption DEF ListenerTyped, Listening!TypeOK, Serves, Ours, Listening!Attended,
     Listening!Holders, Listening!Threads
<1>5. SocketsPaid(Cardinality(Lost))' /\ ThreadsPaid(Cardinality(Alive))'
  BY <1>3, <1>4, NoMore DEF SocketsPaid, ThreadsPaid, Renewing, Late
<1> QED BY <1>1, <1>2, <1>5

-----------------------------------------------------------------------------
(* The listener threads and the senders of packets.                        *)

LEMMA BeginStep ==
  ASSUME ListenerInv, NEW t \in Threads, Listening!Begin(t)
  PROVE  ListenerInv'
<1> USE DEF ListenerInv, Listening!Begin
<1>1. \A r \in Threads : lpc'[r] = IF r = t THEN "loop" ELSE lpc[r]
  BY DEF ListenerTyped, Listening!TypeOK, Threads
<1>2. ListenerTyped'
  BY DEF ListenerTyped, Listening!TypeOK, Listening!Sockets, Listening!Threads
<1>3. \A s : Listening!Holders(s)' = Listening!Holders(s)
  BY <1>1 DEF Listening!Holders, Threads, Listening!Threads
<1>4. Shape'
  <2>1. OnePort' /\ Unready' /\ Queues' /\ Settled(timer, Ours)'
    BY DEF Shape, OnePort, OnPort, Unready, Queues, Settled, Ours, Sockets, Listening!Sockets
  <2>2. Held'
    BY <1>3 DEF Shape, Held, Sockets, Listening!Sockets
  <2>3. Waits'
    BY <1>1 DEF Shape, Waits, Sockets, Threads, Listening!Sockets, Listening!Threads
  <2> QED BY <2>1, <2>2, <2>3 DEF Shape
<1>5. Cardinality(Lost)' <= Cardinality(Lost) /\ Cardinality(Alive)' <= Cardinality(Alive)
  BY <1>1, NoMore DEF Lost, Alive, Sockets, Threads, Listening!Sockets, Listening!Threads
<1>6. \A s : Listening!Attended(s)' <=> Listening!Attended(s)
  BY <1>1, <1>3 DEF Listening!Attended, Threads, Listening!Threads
<1>7. (Serves <=> Serves') /\ (Zombie' => Zombie)
  BY <1>6 DEF Serves, Zombie, Ours, Sockets, Listening!Sockets
<1>8. faults \in Nat /\ faults' = faults
  BY ListenerAssumption DEF ListenerTyped, Listening!TypeOK
<1>9. SocketsPaid(Cardinality(Lost))' /\ ThreadsPaid(Cardinality(Alive))'
  BY <1>5, <1>7, <1>8, NoMore DEF SocketsPaid, ThreadsPaid, Renewing, Late, Ours
<1> QED BY <1>2, <1>4, <1>9

LEMMA LoopStep ==
  ASSUME ListenerInv, NEW t \in Threads, Listening!Loop(t)
  PROVE  ListenerInv'
<1> USE DEF ListenerInv, Listening!Loop
<1>1. sListen \in Sockets /\ kind[sListen] \in {"port", "other"}
  BY OursKnown DEF Listening!Accepting
<1>2. \A r \in Threads : /\ lpc'[r] = IF r = t THEN "accept" ELSE lpc[r]
                         /\ on'[r] = IF r = t THEN sListen ELSE on[r]
  BY DEF ListenerTyped, Listening!TypeOK, Threads
<1>3. ListenerTyped'
  BY DEF ListenerTyped, Listening!TypeOK, Listening!Sockets, Listening!Threads
<1>4. /\ t \in Listening!Holders(sListen)'
      /\ \A s : Listening!Holders(s) \subseteq Listening!Holders(s)'
      /\ \A s : s # sListen => Listening!Holders(s) = Listening!Holders(s)'
  BY <1>2 DEF Listening!Holders, Threads, Listening!Threads
<1>5. Shape'
  <2>1. OnePort' /\ Unready' /\ Queues' /\ Settled(timer, Ours)'
    BY DEF Shape, OnePort, OnPort, Unready, Queues, Settled, Ours, Sockets, Listening!Sockets
  <2>2. Held'
    BY <1>4 DEF Shape, Held, Sockets, Listening!Sockets
  <2>3. Waits'
    BY <1>1, <1>2 DEF Shape, Waits, Sockets, Threads, Listening!Sockets, Listening!Threads
  <2> QED BY <2>1, <2>2, <2>3 DEF Shape
<1>6. Cardinality(Lost)' <= Cardinality(Lost) /\ Cardinality(Alive)' <= Cardinality(Alive)
  BY <1>2, NoMore DEF Lost, Alive, Sockets, Threads, Listening!Sockets, Listening!Threads
<1>7. Listening!Attended(sListen) /\ Listening!Attended(sListen)'
  BY <1>4 DEF Listening!Attended, Threads
<1>8. Serves => Serves'
  BY <1>7 DEF Serves, Ours
<1>9. Zombie' => Zombie
  BY <1>7 DEF Zombie, Sockets, Listening!Sockets
<1>10. faults \in Nat /\ faults' = faults
  BY ListenerAssumption DEF ListenerTyped, Listening!TypeOK
<1>11. SocketsPaid(Cardinality(Lost))' /\ ThreadsPaid(Cardinality(Alive))'
  BY <1>6, <1>8, <1>9, <1>10, NoMore DEF SocketsPaid, ThreadsPaid, Renewing, Late, Ours
<1> QED BY <1>3, <1>5, <1>11

(* The thread that leaves may have been the only one that serves.          *)
LEMMA LeaveStep ==
  ASSUME ListenerInv, NEW t \in Threads, Listening!Leave(t)
  PROVE  ListenerInv'
<1> USE DEF ListenerInv, Listening!Leave
<1>1. \A r \in Threads : lpc'[r] = IF r = t THEN "none" ELSE lpc[r]
  BY DEF ListenerTyped, Listening!TypeOK, Threads
<1>2. ListenerTyped'
  BY DEF ListenerTyped, Listening!TypeOK, Listening!Sockets, Listening!Threads
<1>3. \A s : Listening!Holders(s)' = Listening!Holders(s)
  BY <1>1 DEF Listening!Holders, Threads, Listening!Threads
<1>4. Shape'
  <2>1. OnePort' /\ Unready' /\ Queues' /\ Settled(timer, Ours)'
    BY DEF Shape, OnePort, OnPort, Unready, Queues, Settled, Ours, Sockets, Listening!Sockets
  <2>2. Held'
    BY <1>3 DEF Shape, Held, Sockets, Listening!Sockets
  <2>3. Waits'
    BY <1>1 DEF Shape, Waits, Sockets, Threads, Listening!Sockets, Listening!Threads
  <2> QED BY <2>1, <2>2, <2>3 DEF Shape
<1>5. Cardinality(Lost)' <= Cardinality(Lost)
  BY <1>1, NoMore DEF Lost, Sockets, Listening!Sockets
<1>6. Cardinality(Alive)' + 1 <= Cardinality(Alive)
  <2>1. t \in Alive BY DEF Alive
  <2>2. Alive' \subseteq Alive \ {t}
    BY <1>1 DEF Alive, Threads, Listening!Threads
  <2> QED BY <2>1, <2>2, NoMore
<1>7. \A s : Listening!Attended(s)' => Listening!Attended(s)
  BY <1>1, <1>3 DEF Listening!Attended, Threads, Listening!Threads
<1>8. Zombie' => Zombie
  BY <1>7 DEF Zombie, Sockets, Listening!Sockets
<1>9. faults \in Nat /\ faults' = faults
  BY ListenerAssumption DEF ListenerTyped, Listening!TypeOK
<1>10. SocketsPaid(Cardinality(Lost))' /\ ThreadsPaid(Cardinality(Alive))'
  BY <1>5, <1>6, <1>8, <1>9, NoMore DEF SocketsPaid, ThreadsPaid, Renewing, Late, Ours
<1> QED BY <1>2, <1>4, <1>10

(* A socket that a thread lets go of: it goes with its last holder if it   *)
(* is not the listener's.                                                  *)
LEMMA LetGo ==
  ASSUME ListenerInv, NEW t \in Threads, lpc[t] = "accept", NEW x \in {"loop", "none"},
         lpc' = [lpc EXCEPT ![t] = x], on' = [on EXCEPT ![t] = 0],
         UNCHANGED <<sListen, timer>>,
         \/ Listening!Gone(on[t], sListen, t) /\ Listening!Release(on[t], sListen, t)
         \/ /\ ~Listening!Gone(on[t], sListen, t)
            /\ UNCHANGED kind
            /\ queue' \in [Sockets -> 0 .. Backlog]
            /\ \A s \in Sockets : queue'[s] <= queue[s]
  PROVE  /\ kind' \in [Sockets -> {"free", "raw", "bound", "port", "other"}]
         /\ queue' \in [Sockets -> 0 .. Backlog]
         /\ lpc' \in [Threads -> {"none", "begin", "loop", "accept"}]
         /\ on' \in [Threads -> 0 .. MaxSockets]
         /\ Shape' /\ Lost' \subseteq Lost /\ Alive' \subseteq Alive
         /\ Ours' = Ours
         /\ \A s \in Sockets : kind'[s] = kind[s] \/ kind'[s] = "free"
<1> USE DEF ListenerInv
<1>1. on[t] \in Sockets /\ on[t] # 0 /\ kind[on[t]] \in {"port", "other"}
  BY DEF Shape, Waits, Sockets, Listening!Sockets
<1>2. \A r \in Threads : /\ lpc'[r] = IF r = t THEN x ELSE lpc[r]
                         /\ on'[r] = IF r = t THEN 0 ELSE on[r]
  BY DEF ListenerTyped, Listening!TypeOK, Threads
<1>3. /\ lpc' \in [Threads -> {"none", "begin", "loop", "accept"}]
      /\ on' \in [Threads -> 0 .. MaxSockets]
  <2>1. 0 \in 0 .. MaxSockets BY ListenerAssumption
  <2> QED BY <2>1 DEF ListenerTyped, Listening!TypeOK, Threads
<1>4. /\ \A s : s # on[t] => Listening!Holders(s)' = Listening!Holders(s)
      /\ \A s : s = on[t] => Listening!Holders(s)' = Listening!Holders(s) \ {t}
  BY <1>1, <1>2 DEF Listening!Holders, Threads, Listening!Threads
<1>5. CASE Listening!Gone(on[t], sListen, t) /\ Listening!Release(on[t], sListen, t)
  <2>1. /\ on[t] # sListen /\ Listening!Holders(on[t]) \ {t} = {}
        /\ kind' = [kind EXCEPT ![on[t]] = "free"] /\ queue' = [queue EXCEPT ![on[t]] = 0]
    BY <1>1, <1>5 DEF Listening!Gone, Listening!Release
  <2>2. \A s \in Sockets : /\ kind'[s] = IF s = on[t] THEN "free" ELSE kind[s]
                           /\ queue'[s] = IF s = on[t] THEN 0 ELSE queue[s]
    BY <2>1 DEF ListenerTyped, Listening!TypeOK, Sockets
  <2>3. /\ kind' \in [Sockets -> {"free", "raw", "bound", "port", "other"}]
        /\ queue' \in [Sockets -> 0 .. Backlog]
    <3>1. 0 \in 0 .. Backlog BY ListenerAssumption
    <3> QED BY <2>1, <3>1 DEF ListenerTyped, Listening!TypeOK, Sockets
  <2>4. Ours' = Ours
    BY <2>1, <2>2, OursKnown DEF Ours
  <2>5. Shape'
    <3>1. OnePort' /\ Unready' /\ Queues'
      BY <1>1, <2>2 DEF Shape, OnePort, OnPort, Unready, Queues, Sockets, Listening!Sockets
    <3>2. Held'
      BY <1>4, <2>2 DEF Shape, Held, Sockets, Listening!Sockets
    <3>3. \A r \in Threads : lpc'[r] = "accept" => r # t /\ lpc[r] = "accept" /\ on'[r] = on[r]
      BY <1>2
    <3>4. \A r \in Threads : lpc'[r] = "accept" => on[r] # on[t]
      BY <2>1, <3>3 DEF Listening!Holders, Threads
    <3>5. Waits'
      BY <2>2, <3>3, <3>4 DEF Shape, Waits, Sockets, Threads, Listening!Sockets, Listening!Threads
    <3> QED BY <2>4, <3>1, <3>2, <3>5 DEF Shape
  <2>6. Lost' \subseteq Lost /\ Alive' \subseteq Alive
    BY <1>2, <2>2 DEF Lost, Alive, Sockets, Threads, Listening!Sockets, Listening!Threads
  <2> QED BY <1>3, <2>2, <2>3, <2>4, <2>5, <2>6
<1>6. CASE /\ ~Listening!Gone(on[t], sListen, t)
           /\ UNCHANGED kind
           /\ queue' \in [Sockets -> 0 .. Backlog]
           /\ \A s \in Sockets : queue'[s] <= queue[s]
  <2>1. on[t] = sListen \/ Listening!Holders(on[t]) \ {t} # {}
    BY <1>6 DEF Listening!Gone
  <2>2. Ours' = Ours BY <1>6 DEF Ours
  <2>3. Shape'
    <3>1. OnePort' /\ Unready'
      BY <1>6 DEF Shape, OnePort, OnPort, Unready, Sockets, Listening!Sockets
    <3>2. Queues'
      <4>1. \A s \in Sockets : queue'[s] \in Nat /\ queue[s] \in Nat
        BY <1>6, ListenerAssumption DEF ListenerTyped, Listening!TypeOK, Sockets
      <4> QED BY <1>6, <4>1 DEF Shape, Queues, Sockets, Listening!Sockets
    <3>3. Held'
      BY <1>4, <1>6, <2>1 DEF Shape, Held, Sockets, Listening!Sockets
    <3>4. Waits'
      BY <1>2, <1>6 DEF Shape, Waits, Sockets, Threads, Listening!Sockets, Listening!Threads
    <3> QED BY <2>2, <3>1, <3>2, <3>3, <3>4 DEF Shape
  <2>4. Lost' \subseteq Lost /\ Alive' \subseteq Alive
    BY <1>2, <1>6 DEF Lost, Alive, Sockets, Threads, Listening!Sockets, Listening!Threads
  <2>5. kind' \in [Sockets -> {"free", "raw", "bound", "port", "other"}]
    BY <1>6 DEF ListenerTyped, Listening!TypeOK, Sockets
  <2> QED BY <1>3, <1>6, <2>2, <2>3, <2>4, <2>5
<1> QED BY <1>5, <1>6

LEMMA AcceptStep ==
  ASSUME ListenerInv, NEW t \in Threads, Listening!Accept(t)
  PROVE  ListenerInv'
<1> USE DEF ListenerInv, Listening!Accept
<1>1. on[t] \in Sockets /\ kind[on[t]] = "port" /\ queue[on[t]] \in 1 .. Backlog
  <2>1. on[t] \in Sockets BY DEF Shape, Waits
  <2>2. queue[on[t]] \in 0 .. Backlog
    BY <2>1 DEF ListenerTyped, Listening!TypeOK, Sockets
  <2> QED BY <2>1, <2>2, ListenerAssumption DEF Shape, Queues
<1>2. \/ Listening!Gone(on[t], sListen, t) /\ Listening!Release(on[t], sListen, t)
      \/ /\ ~Listening!Gone(on[t], sListen, t)
         /\ UNCHANGED kind
         /\ queue' \in [Sockets -> 0 .. Backlog]
         /\ \A s \in Sockets : queue'[s] <= queue[s]
  <2>1. CASE Listening!Gone(on[t], sListen, t) BY <2>1
  <2>2. CASE ~Listening!Gone(on[t], sListen, t)
    <3>1. queue' = [queue EXCEPT ![on[t]] = @ - 1] /\ UNCHANGED kind
      BY <2>2
    <3>2. queue[on[t]] - 1 \in 0 .. Backlog BY <1>1, ListenerAssumption
    <3>3. queue \in [Sockets -> 0 .. Backlog]
      BY DEF ListenerTyped, Listening!TypeOK, Sockets
    <3>4. queue' \in [Sockets -> 0 .. Backlog] BY <3>1, <3>2, <3>3
    <3>5. \A s \in Sockets : queue'[s] = IF s = on[t] THEN queue[s] - 1 ELSE queue[s]
      BY <3>1, <3>3
    <3>6. \A s \in Sockets : queue'[s] <= queue[s]
      BY <3>3, <3>5, ListenerAssumption
    <3> QED BY <2>2, <3>1, <3>4, <3>6
  <2> QED BY <2>1, <2>2
<1>3. /\ kind' \in [Sockets -> {"free", "raw", "bound", "port", "other"}]
      /\ queue' \in [Sockets -> 0 .. Backlog]
      /\ lpc' \in [Threads -> {"none", "begin", "loop", "accept"}]
      /\ on' \in [Threads -> 0 .. MaxSockets]
      /\ Shape' /\ Lost' \subseteq Lost /\ Alive' \subseteq Alive
      /\ Ours' = Ours
      /\ \A s \in Sockets : kind'[s] = kind[s] \/ kind'[s] = "free"
  <2>1. "loop" \in {"loop", "none"} OBVIOUS
  <2> HIDE DEF ListenerInv
  <2> QED BY <1>2, <2>1, LetGo
<1>4. ListenerTyped'
  BY <1>3 DEF ListenerTyped, Listening!TypeOK, Sockets, Threads, Listening!Sockets, Listening!Threads
<1>5. Cardinality(Lost)' <= Cardinality(Lost) /\ Cardinality(Alive)' <= Cardinality(Alive)
  BY <1>3, NoMore
<1>6. \E r \in Threads : lpc'[r] = "loop"
  <2>1. lpc'[t] = "loop" BY DEF ListenerTyped, Listening!TypeOK, Threads
  <2> QED BY <2>1
<1>7. Serves => Serves'
  BY <1>3, <1>6 DEF Serves, Ours, Listening!Attended, Threads, Listening!Threads
<1>8. Zombie' => Zombie
  <2> SUFFICES ASSUME NEW s \in Sockets, kind'[s] = "port",
                      s # sListen \/ (timer = "destroy" /\ s = sListen)
               PROVE  Zombie
    BY DEF Zombie, Sockets, Listening!Sockets
  <2>1. kind[s] = "port" BY <1>3
  <2>2. s = on[t] BY <1>1, <2>1 DEF Shape, OnePort, OnPort
  <2>3. Listening!Attended(s) BY <2>2 DEF Listening!Attended, Listening!Holders, Threads
  <2> QED BY <2>1, <2>3 DEF Zombie
<1>9. faults \in Nat /\ faults' = faults
  BY ListenerAssumption DEF ListenerTyped, Listening!TypeOK
<1>10. SocketsPaid(Cardinality(Lost))' /\ ThreadsPaid(Cardinality(Alive))'
  BY <1>3, <1>5, <1>7, <1>8, <1>9, NoMore DEF SocketsPaid, ThreadsPaid, Renewing, Late
<1> QED BY <1>3, <1>4, <1>10

LEMMA AcceptFailsStep ==
  ASSUME ListenerInv, NEW t \in Threads, Listening!AcceptFails(t)
  PROVE  ListenerInv'
<1> USE DEF ListenerInv, Listening!AcceptFails, Listening!Fault
<1>1. faults' = faults + 1 /\ faults \in Nat /\ faults' \in 0 .. MaxFaults
  BY ListenerAssumption DEF ListenerTyped, Listening!TypeOK
<1>2. \/ Listening!Gone(on[t], sListen, t) /\ Listening!Release(on[t], sListen, t)
      \/ /\ ~Listening!Gone(on[t], sListen, t)
         /\ UNCHANGED kind
         /\ queue' \in [Sockets -> 0 .. Backlog]
         /\ \A s \in Sockets : queue'[s] <= queue[s]
  <2>1. CASE Listening!Gone(on[t], sListen, t) BY <2>1
  <2>2. CASE ~Listening!Gone(on[t], sListen, t)
    <3>1. UNCHANGED <<kind, queue>> BY <2>2 DEF Listening!Release
    <3>2. queue \in [Sockets -> 0 .. Backlog]
      BY DEF ListenerTyped, Listening!TypeOK, Sockets
    <3>3. \A s \in Sockets : queue'[s] <= queue[s]
      BY <3>1, <3>2, ListenerAssumption
    <3> QED BY <2>2, <3>1, <3>2, <3>3
  <2> QED BY <2>1, <2>2
<1>3. /\ kind' \in [Sockets -> {"free", "raw", "bound", "port", "other"}]
      /\ queue' \in [Sockets -> 0 .. Backlog]
      /\ lpc' \in [Threads -> {"none", "begin", "loop", "accept"}]
      /\ on' \in [Threads -> 0 .. MaxSockets]
      /\ Shape' /\ Lost' \subseteq Lost /\ Alive' \subseteq Alive
  <2>1. "none" \in {"loop", "none"} OBVIOUS
  <2> HIDE DEF ListenerInv
  <2> QED BY <1>2, <2>1, LetGo
<1>4. ListenerTyped'
  BY <1>1, <1>3 DEF ListenerTyped, Listening!TypeOK, Sockets, Threads, Listening!Sockets, Listening!Threads
<1>5. Cardinality(Lost)' <= Cardinality(Lost) /\ Cardinality(Alive)' <= Cardinality(Alive)
  BY <1>3, NoMore
<1>6. SocketsPaid(Cardinality(Lost))' /\ ThreadsPaid(Cardinality(Alive))'
  BY <1>1, <1>5, NoMore DEF SocketsPaid, ThreadsPaid, Renewing, Late
<1> QED BY <1>3, <1>4, <1>6

LEMMA ConnectStep ==
  ASSUME ListenerInv, NEW s \in Sockets, Listening!Connect(s)
  PROVE  ListenerInv'
<1> USE DEF ListenerInv, Listening!Connect
<1>1. kind[s] = "port" BY DEF Listening!Served
<1>2. queue \in [Sockets -> 0 .. Backlog]
  BY DEF ListenerTyped, Listening!TypeOK, Sockets
<1>3. queue[s] + 1 \in 0 .. Backlog BY <1>2, ListenerAssumption
<1>4. queue' \in [Sockets -> 0 .. Backlog]
  BY <1>2, <1>3
<1>5. ListenerTyped'
  BY <1>4 DEF ListenerTyped, Listening!TypeOK, Sockets, Listening!Sockets, Listening!Threads
<1>6. Shape'
  <2>1. \A r \in Sockets : queue'[r] = IF r = s THEN queue[r] + 1 ELSE queue[r]
    BY <1>2
  <2>2. Queues' BY <1>1, <2>1 DEF Shape, Queues, Sockets, Listening!Sockets
  <2>3. OnePort' /\ Held' /\ Unready' /\ Waits' /\ Settled(timer, Ours)'
    BY DEF Shape, OnePort, OnPort, Held, Unready, Waits, Settled, Ours, Sockets, Threads,
           Listening!Holders, Listening!Sockets, Listening!Threads
  <2> QED BY <2>2, <2>3 DEF Shape
<1>7. Cardinality(Lost)' <= Cardinality(Lost) /\ Cardinality(Alive)' <= Cardinality(Alive)
  BY NoMore DEF Lost, Alive, Sockets, Threads, Listening!Sockets, Listening!Threads
<1>8. (Serves <=> Serves') /\ (Zombie' => Zombie)
  BY DEF Serves, Zombie, Ours, Sockets, Listening!Attended, Listening!Holders,
         Listening!Sockets, Listening!Threads
<1>9. faults \in Nat /\ faults' = faults
  BY ListenerAssumption DEF ListenerTyped, Listening!TypeOK
<1>10. SocketsPaid(Cardinality(Lost))' /\ ThreadsPaid(Cardinality(Alive))'
  BY <1>7, <1>8, <1>9, NoMore DEF SocketsPaid, ThreadsPaid, Renewing, Late, Ours
<1> QED BY <1>5, <1>6, <1>10

-----------------------------------------------------------------------------
(* The listener as a whole.                                                *)

LEMMA ListenerStepKeeps == ListenerInv /\ Listening!Next => ListenerInv'
<1> SUFFICES ASSUME ListenerInv, Listening!Next PROVE ListenerInv'
  OBVIOUS
<1>1. CASE Listening!Timer
  BY <1>1, ProbeAnsweredStep, ProbeFailsStep, DestroyStep, CreateStep, CreateFailsStep,
     BindStep, ListenStep, ListenFailsStep, ThreadStep, WakeStep
     DEF Listening!Timer
<1>2. ASSUME NEW t \in Threads, Listening!Listener(t) PROVE ListenerInv'
  BY <1>2, BeginStep, LoopStep, LeaveStep, AcceptStep, AcceptFailsStep
     DEF Listening!Listener
<1>3. ASSUME NEW s \in Sockets, Listening!Connect(s) PROVE ListenerInv'
  BY <1>3, ConnectStep
<1> QED BY <1>1, <1>2, <1>3 DEF Listening!Next, Sockets, Threads

LEMMA ListenerKept == ListenerInv /\ UNCHANGED listenVars => ListenerInv'
<1> SUFFICES ASSUME ListenerInv, UNCHANGED listenVars PROVE ListenerInv'
  OBVIOUS
<1> USE DEF ListenerInv, listenVars
<1>1. ListenerTyped'
  BY DEF ListenerTyped, Listening!TypeOK, Listening!Sockets, Listening!Threads
<1>2. Shape'
  BY DEF Shape, OnePort, Held, Unready, Queues, Waits, OnPort, Settled, Ours, Sockets, Threads,
         Listening!Holders, Listening!Sockets, Listening!Threads
<1>3. Cardinality(Lost)' <= Cardinality(Lost) /\ Cardinality(Alive)' <= Cardinality(Alive)
  BY NoMore DEF Lost, Alive, Sockets, Threads, Listening!Sockets, Listening!Threads
<1>4. /\ faults \in Nat /\ faults' = faults
      /\ (Serves <=> Serves') /\ (Zombie' => Zombie)
  BY ListenerAssumption DEF ListenerTyped, Listening!TypeOK, Serves, Zombie, Ours, Sockets,
     Listening!Attended, Listening!Holders, Listening!Sockets, Listening!Threads
<1>5. SocketsPaid(Cardinality(Lost))' /\ ThreadsPaid(Cardinality(Alive))'
  BY <1>3, <1>4, NoMore DEF SocketsPaid, ThreadsPaid, Renewing, Late, Ours
<1> QED BY <1>1, <1>2, <1>5

(* Besides the lost sockets there is one on the port, or one on its way    *)
(* there, and both only if a fault has left the first behind.              *)
LEMMA ListenerBound == ListenerInv => LeaksBounded
<1> SUFFICES ASSUME ListenerInv PROVE LeaksBounded
  OBVIOUS
<1> USE DEF ListenerInv
<1>1. /\ faults \in Nat /\ Cardinality(Lost) \in Nat
      /\ sListen # 0 => sListen \in Sockets
  BY ListenerAssumption, NoMore, OursKnown DEF ListenerTyped, Listening!TypeOK
<1>2. \A s \in Sockets : kind[s] \in {"free", "raw", "bound", "port", "other"}
  BY DEF ListenerTyped, Listening!TypeOK, Sockets
<1>3. IsFiniteSet(Lost) /\ IsFiniteSet(InUse) /\ Cardinality(InUse) \in Nat
  BY Finite DEF Lost, InUse
<1>4. Cardinality(InUse) <= 1 + faults
  <2>1. CASE \E s \in Sockets : InUse \subseteq Lost \cup {s}
    <3>1. PICK s \in Sockets : InUse \subseteq Lost \cup {s} BY <2>1
    <3>2. Cardinality(InUse) <= Cardinality(Lost) + 1 BY <1>3, <3>1, OneMore
    <3> QED BY <1>1, <1>3, <3>2 DEF SocketsPaid
  <2>2. CASE InUse \subseteq Lost
    BY <1>1, <1>3, <2>2, Fewer DEF SocketsPaid
  <2>3. CASE \E r, s \in Sockets : /\ kind[r] = "port" /\ r # s
                                   /\ kind[s] = "raw" /\ s = sListen
    <3>1. PICK r, s \in Sockets : /\ kind[r] = "port" /\ r # s
                                  /\ kind[s] = "raw" /\ s = sListen
      BY <2>3
    <3>2. InUse \subseteq (Lost \cup {r}) \cup {s}
      BY <1>2, <3>1 DEF InUse, Lost, Shape, OnePort, OnPort, Unready
    <3>3. IsFiniteSet(Lost \cup {r}) /\ Cardinality(Lost \cup {r}) <= Cardinality(Lost) + 1
      BY <1>3, OneMore, FS_AddElement
    <3>4. Cardinality(Lost \cup {r}) \in Nat BY <3>3, FS_CardinalityType
    <3>5. Cardinality(InUse) <= Cardinality(Lost \cup {r}) + 1
      BY <3>2, <3>3, OneMore
    <3>6. Zombie /\ Renewing
      <4>1. Zombie BY <3>1 DEF Zombie
      <4>2. sListen # 0
        BY <3>1, ListenerAssumption DEF Sockets, Listening!Sockets
      <4>3. timer \in {"probe", "destroy", "create", "bind", "listen", "thread", "sleep"}
        BY DEF ListenerTyped, Listening!TypeOK
      <4>4. Renewing BY <3>1, <4>2, <4>3, OursKnown DEF Renewing
      <4> QED BY <4>1, <4>4
    <3>7. Cardinality(Lost) + 1 <= faults BY <3>6 DEF SocketsPaid
    <3> QED BY <1>1, <1>3, <3>3, <3>4, <3>5, <3>7
  <2>4. \/ InUse \subseteq Lost
        \/ \E s \in Sockets : InUse \subseteq Lost \cup {s}
        \/ \E r, s \in Sockets : /\ kind[r] = "port" /\ r # s
                                 /\ kind[s] = "raw" /\ s = sListen
    <3>1. CASE OnPort = {}
      BY <1>1, <1>2, <3>1 DEF InUse, Lost, OnPort, Shape, Unready
    <3>2. CASE OnPort # {}
      <4>1. PICK r \in OnPort : TRUE BY <3>2
      <4>2. r \in Sockets /\ kind[r] \in {"port", "bound"} /\ \A s \in OnPort : s = r
        BY <4>1 DEF OnPort, Shape, OnePort
      <4>3. CASE \E s \in Sockets : kind[s] = "raw"
        BY <4>2, <4>3 DEF Shape, Unready
      <4>4. CASE \A s \in Sockets : kind[s] # "raw"
        <5>1. InUse \subseteq Lost \cup {r}
          BY <1>2, <4>2, <4>4 DEF InUse, Lost, OnPort
        <5> QED BY <4>2, <5>1
      <4> QED BY <4>3, <4>4
    <3> QED BY <3>1, <3>2
  <2> QED BY <2>1, <2>2, <2>3, <2>4
<1>5. Cardinality(Alive) <= 1 + 2 * faults BY DEF ThreadsPaid
<1>6. /\ {s \in Listening!Sockets : kind[s] # "free"} = InUse
      /\ {t \in Listening!Threads : lpc[t] # "none"} = Alive
  BY DEF InUse, Alive, Sockets, Threads
<1>7. \A S : Listening!Cardinality(S) = Cardinality(S)
  BY DEF Listening!Cardinality, Cardinality
<1> QED BY <1>4, <1>5, <1>6, <1>7 DEF LeaksBounded, Listening!LeaksBounded

-----------------------------------------------------------------------------
(* The commands of packets and of the saved configuration.                 *)

Runners == Commands!Threads
Lines == Commands!Commands
Running(t) == Commands!Active(t)

(* The commands that are found in a view.                                  *)
LEMMA VisibleIs ==
  /\ Lines = {"system-view", "diagnose-view", "set", "return", "quit"}
  /\ \A v \in Commands!Views : \A c :
       c \in Commands!Visible(v) <=>
         \/ c \in {"return", "quit"}
         \/ c = "system-view" /\ v = "user"
         \/ c \in {"diagnose-view", "set"} /\ v = "system"
<1>1. Lines = {"system-view", "diagnose-view", "set", "return", "quit"}
  BY DEF Lines, Commands!Commands, Commands!Home
<1>2. /\ Commands!Home["system-view"] = "user"
      /\ Commands!Home["diagnose-view"] = "system" /\ Commands!Home["set"] = "system"
      /\ Commands!Home["return"] = "global" /\ Commands!Home["quit"] = "global"
  BY DEF Commands!Home
<1> QED BY <1>1, <1>2 DEF Commands!Visible, Commands!Views, Lines

(* What a program does to the view before its last line: it enters the     *)
(* system view and stays in it or in the one below.                        *)
Program(g) ==
  /\ g \in Seq(Lines) /\ Len(g) > 0 /\ g[1] = "system-view"
  /\ \A i \in 2 .. Len(g) : g[i] # "system-view"
  /\ \A i \in 2 .. Len(g) - 1 : g[i] \in {"set", "diagnose-view"}

LEMMA ConfigType == SavedConfig \in Seq({"set", "diagnose-view"})
BY DEF SavedConfig

LEMMA RecoverProgram == Program(<<"system-view">> \o SavedConfig \o <<"return">>)
<1> DEFINE g == <<"system-view">> \o SavedConfig \o <<"return">>
           n == Len(SavedConfig)
<1>1. n \in Nat /\ \A i \in 1 .. n : SavedConfig[i] \in {"set", "diagnose-view"}
  BY ConfigType
<1>2. Len(g) = n + 2 /\ g[1] = "system-view" /\ g[n + 2] = "return"
  BY ConfigType
<1>3. \A i \in 2 .. n + 1 : g[i] = SavedConfig[i - 1]
  BY ConfigType
<1>4. g \in Seq(Lines)
  <2>1. SavedConfig \in Seq(Lines) /\ <<"system-view">> \in Seq(Lines) /\ <<"return">> \in Seq(Lines)
    BY VisibleIs DEF SavedConfig
  <2> QED BY <2>1, ConcatProperties
<1>5. \A i \in 2 .. n + 1 : g[i] \in {"set", "diagnose-view"}
  BY <1>1, <1>3
<1>6. \A i \in 2 .. n + 2 : g[i] # "system-view"
  BY <1>1, <1>2, <1>5
<1> HIDE DEF g, n
<1>7. Program(g)
  BY <1>1, <1>2, <1>4, <1>5, <1>6 DEF Program
<1> QED BY <1>7 DEF g

LEMMA PacketProgram == \A c \in Lines \ {"system-view"} : Program(<<"system-view", c>>)
<1> SUFFICES ASSUME NEW c \in Lines, c # "system-view" PROVE Program(<<"system-view", c>>)
  OBVIOUS
<1>1. <<"system-view", c>> \in Seq(Lines) BY VisibleIs
<1> QED BY <1>1 DEF Program

(* A thread that is alone: how many of its lines are done with, and that   *)
(* it has run those, the first perhaps excepted.                           *)
Finished(t) == Len(given[t]) - Len(lines[t]) + (IF at[t] = "clear" THEN 1 ELSE 0)
Follows(l, g, e, n) == e <= n /\ Len(l) = n - e /\ \A i \in 1 .. n - e : l[i] = g[i + e]
Rest(t) ==
  /\ Len(lines[t]) <= Len(given[t])
  /\ \A i \in 1 .. Len(lines[t]) : lines[t][i] = given[t][Len(given[t]) - Len(lines[t]) + i]
InView(t) == Finished(t) \in 1 .. Len(given[t]) - 1 => view \in {"system", "diagnose"}
(* What it has taken of its line, by where it is: it looks for the line in *)
(* the view, or has found it there, or has not and goes back.              *)
Place(t) ==
  /\ at[t] = "parse" => buffer = Head(lines[t])
  /\ at[t] \in {"filter", "match", "run", "missed", "back"} => word[t] = Head(lines[t])
  /\ at[t] \in {"filter", "missed", "back"} =>
       /\ saved[t] \in {"", "system", "diagnose"}
       /\ saved[t] # "" => view \in {"system", "diagnose"}
  /\ at[t] = "match" => seen[t] = view /\ word[t] \in Commands!Visible(view)
  /\ at[t] \in {"missed", "back"} =>
       view \in {"system", "diagnose"} /\ word[t] \notin Commands!Visible(view)
AloneInv(t) ==
  /\ \A r \in Runners : r # t => ~Running(r)
  /\ Program(given[t]) /\ Rest(t) /\ InView(t) /\ Place(t)
  /\ \E e \in {0, 1} : Follows(ran[t], given[t], e, Finished(t))

(* Of the other threads only that they stay within their types.            *)
CommandTyped ==
  /\ Commands!CommandTypeOK
  /\ \A t \in Runners :
       /\ Running(t) <=> lines[t] # <<>>
       /\ at[t] \in {"idle", "copy", "parse"} => saved[t] = ""
       /\ at[t] = "back" => saved[t] # ""
       /\ at[t] \in {"match", "run"} => word[t] # ""
CommandInv == CommandTyped /\ \A t \in alone : AloneInv(t)

(* The parts of the type invariant.                                        *)
LEMMA CommandTypes ==
  ASSUME CommandTyped
  PROVE  /\ buffer \in Lines \cup {""} /\ view \in Commands!Views
         /\ lines \in [Runners -> Seq(Lines)] /\ ran \in [Runners -> Seq(Lines)]
         /\ given \in [Runners -> Seq(Lines)]
         /\ at \in [Runners -> {"idle", "copy", "parse", "filter", "match", "run", "missed",
                                "back", "clear", "done"}]
         /\ word \in [Runners -> Lines \cup {""}]
         /\ seen \in [Runners -> Commands!Views]
         /\ saved \in [Runners -> Commands!Views \cup {""}]
         /\ alone \subseteq Runners
BY DEF CommandTyped, Commands!CommandTypeOK, Runners, Lines

LEMMA CommandInit == Commands!Init => CommandInv
<1> SUFFICES ASSUME Commands!Init PROVE CommandInv
  OBVIOUS
<1>1. <<>> \in Seq(Lines) OBVIOUS
<1>2. Commands!CommandTypeOK
  BY <1>1 DEF Commands!Init, Commands!CommandTypeOK, Commands!Views, Lines
<1> QED BY <1>2 DEF Commands!Init, CommandInv, CommandTyped, Runners, Running, Commands!Active

(* A thread that starts knows what it has to run, and another one that     *)
(* was alone is not any more.                                              *)
LEMMA StartStep ==
  ASSUME CommandInv, NEW t \in Runners, NEW program, Program(program),
         Commands!Start(t, program)
  PROVE  CommandInv'
<1>1. program \in Seq(Lines) /\ program # <<>> /\ Len(program) \in Nat
  BY DEF Program
<1>2. \A r \in Runners : /\ at'[r] = IF r = t THEN "copy" ELSE at[r]
                         /\ lines'[r] = IF r = t THEN program ELSE lines[r]
                         /\ saved'[r] = saved[r] /\ word'[r] = word[r]
  BY CommandTypes DEF CommandInv, Commands!Start, Commands!locals, Runners
<1>3. alone' = {} \/ (alone' = {t} /\ \A r \in Runners : ~Running(r))
  BY DEF Commands!Start, Runners, Running
<1>4. /\ at' \in [Runners -> {"idle", "copy", "parse", "filter", "match", "run", "missed",
                                "back", "clear", "done"}]
      /\ lines' \in [Runners -> Seq(Lines)]
  BY <1>1, CommandTypes DEF CommandInv, Commands!Start
<1>5. ran' \in [Runners -> Seq(Lines)] /\ given' \in [Runners -> Seq(Lines)]
  <2>1. <<>> \in Seq(Lines) OBVIOUS
  <2> QED BY <1>1, <2>1 DEF Commands!Start, Runners
<1>6. Commands!CommandTypeOK'
  BY <1>3, <1>4, <1>5, CommandTypes
     DEF CommandInv, Commands!Start, Commands!CommandTypeOK, Commands!Views, Commands!locals,
         Runners, Lines, Commands!Threads, Commands!Commands, Commands!Home
<1>7. CommandTyped'
  <2>1. at[t] = "idle" BY DEF Commands!Start
  <2>2. \A r \in Runners :
          /\ at'[r] \notin {"idle", "done"} <=> lines'[r] # <<>>
          /\ at'[r] \in {"idle", "copy", "parse"} => saved'[r] = ""
          /\ at'[r] = "back" => saved'[r] # ""
          /\ at'[r] \in {"match", "run"} => word'[r] # ""
    BY <1>1, <1>2, <2>1 DEF CommandInv, CommandTyped, Running, Commands!Active
  <2> QED BY <1>6, <2>2 DEF CommandTyped, Runners, Running, Commands!Active, Commands!Threads
<1>8. ASSUME alone' = {t}, \A r \in Runners : ~Running(r) PROVE AloneInv(t)'
  <2>1. \A r \in Runners : r # t => ~Running(r)'
    BY <1>2, <1>8 DEF Running, Commands!Active
  <2>2. given'[t] = program /\ ran'[t] = <<>> /\ lines'[t] = program /\ at'[t] = "copy"
    BY <1>2, <1>8 DEF Commands!Start, Runners
  <2>3. Finished(t)' = 0
    BY <1>1, <2>2 DEF Finished
  <2>4. Rest(t)'
    <3>1. \A i \in 1 .. Len(program) : Len(program) - Len(program) + i = i
      BY <1>1
    <3> QED BY <1>1, <2>2, <3>1 DEF Rest
  <2>5. InView(t)' /\ Place(t)'
    BY <2>2, <2>3 DEF InView, Place
  <2>6. Follows(ran[t], given[t], 0, Finished(t))'
    BY <2>2, <2>3 DEF Follows
  <2>7. Program(given[t])'
    BY <2>2 DEF Program, Lines, Commands!Commands, Commands!Home
  <2> QED BY <2>1, <2>4, <2>5, <2>6, <2>7 DEF AloneInv, Runners, Commands!Threads
<1> QED BY <1>3, <1>7, <1>8 DEF CommandInv

(* A step of a running thread: it is the only one that may be alone.       *)
LEMMA OnlyIt ==
  ASSUME CommandInv, NEW t \in Runners, Running(t), alone' = alone, given' = given,
         \A r \in Runners : r # t => at'[r] = at[r],
         CommandTyped',
         t \in alone =>
           /\ Rest(t)' /\ InView(t)' /\ Place(t)'
           /\ \E e \in {0, 1} : Follows(ran[t], given[t], e, Finished(t))'
  PROVE  CommandInv'
<1>1. \A r \in alone : r = t
  BY CommandTypes DEF CommandInv, AloneInv
<1>2. ASSUME t \in alone PROVE AloneInv(t)'
  <2>1. AloneInv(t) BY <1>2 DEF CommandInv
  <2>2. \A r \in Runners : r # t => ~Running(r)'
    BY <2>1 DEF AloneInv, Running, Commands!Active
  <2>3. Program(given[t])'
    BY <2>1 DEF AloneInv, Program, Lines, Commands!Commands, Commands!Home
  <2>4. /\ Rest(t)' /\ InView(t)' /\ Place(t)'
        /\ \E e \in {0, 1} : Follows(ran[t], given[t], e, Finished(t))'
    BY <1>2
  <2> QED BY <2>2, <2>3, <2>4 DEF AloneInv, Runners, Commands!Threads
<1> QED BY <1>1, <1>2 DEF CommandInv

(* The types after a step, from those of what it may change and from what  *)
(* it makes of each thread.                                                *)
LEMMA TypedAfter ==
  ASSUME CommandTyped, alone' = alone, given' = given,
         buffer' \in Lines \cup {""}, view' \in Commands!Views,
         lines' \in [Runners -> Seq(Lines)], ran' \in [Runners -> Seq(Lines)],
         at' \in [Runners -> {"idle", "copy", "parse", "filter", "match", "run", "missed",
                              "back", "clear", "done"}],
         word' \in [Runners -> Lines \cup {""}],
         seen' \in [Runners -> Commands!Views],
         saved' \in [Runners -> Commands!Views \cup {""}],
         NEW t \in Runners,
         \A r \in Runners : r # t =>
           at'[r] = at[r] /\ lines'[r] = lines[r] /\ saved'[r] = saved[r] /\ word'[r] = word[r],
         /\ at'[t] \notin {"idle", "done"} <=> lines'[t] # <<>>
         /\ at'[t] \in {"idle", "copy", "parse"} => saved'[t] = ""
         /\ at'[t] = "back" => saved'[t] # ""
         /\ at'[t] \in {"match", "run"} => word'[t] # ""
  PROVE  CommandTyped'
<1>1. Commands!CommandTypeOK'
  <2>1. given' \in [Runners -> Seq(Lines)] /\ alone' \subseteq Runners
    BY CommandTypes
  <2> QED BY <2>1 DEF Commands!CommandTypeOK, Commands!Views, Runners, Lines,
                      Commands!Threads, Commands!Commands, Commands!Home
<1>2. \A r \in Runners :
        /\ at'[r] \notin {"idle", "done"} <=> lines'[r] # <<>>
        /\ at'[r] \in {"idle", "copy", "parse"} => saved'[r] = ""
        /\ at'[r] = "back" => saved'[r] # ""
        /\ at'[r] \in {"match", "run"} => word'[r] # ""
  BY DEF CommandTyped, Running, Commands!Active
<1> QED BY <1>1, <1>2 DEF CommandTyped, Runners, Running, Commands!Active, Commands!Threads

(* A step that leaves the thread at its line.                              *)
LEMMA SameLine ==
  ASSUME CommandInv, NEW t \in Runners, t \in alone, at[t] # "clear", at'[t] # "clear",
         given' = given, lines' = lines, ran' = ran,
         view' = view \/ view' \in {"system", "diagnose"}
  PROVE  /\ Rest(t)' /\ InView(t)'
         /\ \E e \in {0, 1} : Follows(ran[t], given[t], e, Finished(t))'
<1>1. AloneInv(t) BY DEF CommandInv
<1>2. Finished(t)' = Finished(t) BY DEF Finished
<1>3. Rest(t)' BY <1>1 DEF AloneInv, Rest
<1>4. InView(t)' BY <1>1, <1>2 DEF AloneInv, InView
<1>5. PICK e \in {0, 1} : Follows(ran[t], given[t], e, Finished(t)) BY <1>1 DEF AloneInv
<1>6. Follows(ran[t], given[t], e, Finished(t))' BY <1>2, <1>5 DEF Follows
<1> QED BY <1>3, <1>4, <1>6

(* The line a running thread is at.                                        *)
LEMMA ItsLine ==
  ASSUME CommandInv, NEW t \in Runners, Running(t)
  PROVE  /\ lines[t] \in Seq(Lines) /\ lines[t] # <<>> /\ Len(lines[t]) \in Nat \ {0}
         /\ Head(lines[t]) = lines[t][1] /\ Head(lines[t]) \in Lines
         /\ Tail(lines[t]) \in Seq(Lines)
<1>1. lines[t] \in Seq(Lines) /\ lines[t] # <<>>
  BY CommandTypes DEF CommandInv, CommandTyped
<1> QED BY <1>1

(* And of one that is alone: it is the first line or not, and the last or  *)
(* not.                                                                    *)
LEMMA ItsPlace ==
  ASSUME CommandInv, NEW t \in Runners, Running(t), t \in alone
  PROVE  /\ AloneInv(t)
         /\ given[t] \in Seq(Lines) /\ Len(given[t]) \in Nat /\ Len(lines[t]) \in 1 .. Len(given[t])
         /\ Head(lines[t]) = given[t][Len(given[t]) - Len(lines[t]) + 1]
         /\ Head(lines[t]) = "system-view" <=> Len(lines[t]) = Len(given[t])
         /\ Head(lines[t]) \in {"return", "quit"} => Len(lines[t]) = 1
         /\ at[t] # "clear" /\ Head(lines[t]) # "system-view" => view \in {"system", "diagnose"}
<1> DEFINE n == Len(given[t])
           m == Len(lines[t])
           k == n - m + 1
<1>1. AloneInv(t) BY DEF CommandInv
<1>2. given[t] \in Seq(Lines) /\ n \in Nat /\ Program(given[t])
  BY <1>1 DEF AloneInv, Program
<1>3. m \in 1 .. n
  BY <1>1, <1>2, ItsLine DEF AloneInv, Rest
<1>4. Head(lines[t]) = given[t][k]
  <2>1. 1 \in 1 .. m BY <1>3
  <2>2. lines[t][1] = given[t][n - m + 1] BY <1>1, <2>1 DEF AloneInv, Rest
  <2> QED BY <2>2, ItsLine
<1>5. at[t] # "clear" => Finished(t) = k - 1
  BY <1>2, <1>3 DEF Finished
<1>6. /\ given[t][1] = "system-view"
      /\ \A i \in 2 .. n : given[t][i] # "system-view"
      /\ \A i \in 2 .. n - 1 : given[t][i] \in {"set", "diagnose-view"}
  BY <1>2 DEF Program
<1>7. Finished(t) \in 1 .. n - 1 => view \in {"system", "diagnose"}
  BY <1>1 DEF AloneInv, InView
<1> HIDE DEF n, m
<1>8. k = 1 <=> given[t][k] = "system-view"
  BY <1>2, <1>3, <1>6
<1>9. given[t][k] \in {"return", "quit"} => m = 1
  BY <1>2, <1>3, <1>6
<1>10. at[t] # "clear" /\ k # 1 => view \in {"system", "diagnose"}
  BY <1>2, <1>3, <1>5, <1>7
<1>11. k = 1 <=> m = n BY <1>2, <1>3
<1> QED BY <1>1, <1>2, <1>3, <1>4, <1>8, <1>9, <1>10, <1>11 DEF n, m

LEMMA CopyStep ==
  ASSUME CommandInv, NEW t \in Runners, Commands!Copy(t)
  PROVE  CommandInv'
<1>0. /\ at[t] = "copy" /\ at' = [at EXCEPT ![t] = "parse"] /\ buffer' = Head(lines[t])
      /\ view' = view /\ lines' = lines /\ word' = word /\ seen' = seen /\ saved' = saved
      /\ alone' = alone /\ ran' = ran /\ given' = given
  BY DEF Commands!Copy, Commands!locals, Commands!history
<1>1. Running(t) /\ Head(lines[t]) \in Lines /\ lines[t] # <<>>
  BY <1>0, ItsLine DEF Running, Commands!Active
<1>2. \A r \in Runners : at'[r] = IF r = t THEN "parse" ELSE at[r]
  BY <1>0, CommandTypes DEF CommandInv
<1>3. at' \in [Runners -> {"idle", "copy", "parse", "filter", "match", "run", "missed",
                           "back", "clear", "done"}]
  BY <1>0, CommandTypes DEF CommandInv
<1>4. saved[t] = "" BY <1>0 DEF CommandInv, CommandTyped
<1>5. CommandTyped'
  BY <1>0, <1>1, <1>2, <1>3, <1>4, CommandTypes, TypedAfter DEF CommandInv
<1>6. ASSUME t \in alone PROVE Place(t)'
  <2>1. at'[t] = "parse" /\ buffer' = Head(lines'[t]) BY <1>0, <1>2
  <2> QED BY <2>1 DEF Place
<1> QED BY <1>0, <1>1, <1>2, <1>5, <1>6, SameLine, OnlyIt

LEMMA ParseStep ==
  ASSUME CommandInv, NEW t \in Runners, Commands!Parse(t)
  PROVE  CommandInv'
<1> DEFINE next == IF buffer = "" THEN "clear" ELSE "filter"
<1>0. /\ at[t] = "parse" /\ at' = [at EXCEPT ![t] = next] /\ word' = [word EXCEPT ![t] = buffer]
      /\ buffer' = buffer /\ view' = view /\ lines' = lines /\ seen' = seen /\ saved' = saved
      /\ alone' = alone /\ ran' = ran /\ given' = given
  BY DEF Commands!Parse, Commands!history
<1>1. Running(t) /\ Head(lines[t]) \in Lines /\ lines[t] # <<>>
  BY <1>0, ItsLine DEF Running, Commands!Active
<1>2. \A r \in Runners : /\ at'[r] = IF r = t THEN next ELSE at[r]
                         /\ word'[r] = IF r = t THEN buffer ELSE word[r]
  BY <1>0, CommandTypes DEF CommandInv
<1>3. /\ at' \in [Runners -> {"idle", "copy", "parse", "filter", "match", "run", "missed",
                              "back", "clear", "done"}]
      /\ word' \in [Runners -> Lines \cup {""}]
  BY <1>0, CommandTypes DEF CommandInv
<1>4. saved[t] = "" BY <1>0 DEF CommandInv, CommandTyped
<1>5. CommandTyped'
  BY <1>0, <1>1, <1>2, <1>3, <1>4, CommandTypes, TypedAfter DEF CommandInv
<1>6. ASSUME t \in alone PROVE at'[t] = "filter" /\ Place(t)'
  <2>1. AloneInv(t) BY <1>6 DEF CommandInv
  <2>2. buffer = Head(lines[t]) /\ buffer # ""
    BY <1>0, <1>1, <2>1, VisibleIs DEF AloneInv, Place
  <2>3. at'[t] = "filter" /\ word'[t] = Head(lines'[t]) /\ saved'[t] = ""
    BY <1>0, <1>2, <1>4, <2>2
  <2> QED BY <2>3 DEF Place
<1> QED BY <1>0, <1>1, <1>2, <1>5, <1>6, SameLine, OnlyIt

(* The first line is missed when its view has been entered before; any     *)
(* other one is found, if only after going back to the system view.        *)
LEMMA FilterStep ==
  ASSUME CommandInv, NEW t \in Runners, Commands!Filter(t)
  PROVE  CommandInv'
<1> DEFINE next == IF word[t] \in Commands!Visible(view) THEN "match" ELSE "missed"
<1>0. /\ at[t] = "filter" /\ at' = [at EXCEPT ![t] = next] /\ seen' = [seen EXCEPT ![t] = view]
      /\ buffer' = buffer /\ view' = view /\ lines' = lines /\ word' = word /\ saved' = saved
      /\ alone' = alone /\ ran' = ran /\ given' = given
  BY DEF Commands!Filter, Commands!history
<1>1. Running(t) /\ Head(lines[t]) \in Lines /\ lines[t] # <<>>
  BY <1>0, ItsLine DEF Running, Commands!Active
<1>2. \A r \in Runners : /\ at'[r] = IF r = t THEN next ELSE at[r]
                         /\ seen'[r] = IF r = t THEN view ELSE seen[r]
  BY <1>0, CommandTypes DEF CommandInv
<1>3. /\ at' \in [Runners -> {"idle", "copy", "parse", "filter", "match", "run", "missed",
                              "back", "clear", "done"}]
      /\ seen' \in [Runners -> Commands!Views]
      /\ view \in Commands!Views
  BY <1>0, CommandTypes DEF CommandInv
<1>4. next = "match" => word[t] # ""
  BY <1>3, VisibleIs
<1>5. CommandTyped'
  BY <1>0, <1>1, <1>2, <1>3, <1>4, CommandTypes, TypedAfter DEF CommandInv
<1>6. ASSUME t \in alone PROVE Place(t)'
  <2>1. AloneInv(t) /\ (Head(lines[t]) # "system-view" => view \in {"system", "diagnose"})
    BY <1>0, <1>1, <1>6, ItsPlace
  <2>2. /\ word[t] = Head(lines[t]) /\ saved[t] \in {"", "system", "diagnose"}
        /\ saved[t] # "" => view \in {"system", "diagnose"}
    BY <1>0, <2>1 DEF AloneInv, Place
  <2>3. word[t] \notin Commands!Visible(view) => view \in {"system", "diagnose"}
    BY <1>1, <1>3, <2>1, <2>2, VisibleIs DEF Commands!Views
  <2>4. Commands!Visible(view)' = Commands!Visible(view)
    BY <1>0 DEF Commands!Visible, Commands!Commands, Commands!Home
  <2>5. /\ at'[t] = next /\ seen'[t] = view'
        /\ word'[t] = word[t] /\ lines'[t] = lines[t] /\ saved'[t] = saved[t] /\ view' = view
    BY <1>0, <1>2
  <2>6. CASE word[t] \in Commands!Visible(view)
    BY <2>2, <2>4, <2>5, <2>6 DEF Place
  <2>7. CASE word[t] \notin Commands!Visible(view)
    BY <2>2, <2>3, <2>4, <2>5, <2>7 DEF Place
  <2> QED BY <2>6, <2>7
<1>7. at'[t] # "clear" BY <1>2
<1> QED BY <1>0, <1>1, <1>2, <1>5, <1>6, <1>7, SameLine, OnlyIt

LEMMA CardinalityIs ==
  /\ \A S : Commands!Cardinality(S) = Cardinality(S)
  /\ \A x : Cardinality({x}) = 1
  /\ Cardinality({}) = 0
<1>1. \A S : Commands!Cardinality(S) = Cardinality(S)
  BY DEF Commands!Cardinality, Cardinality
<1> QED BY <1>1, FS_Singleton, FS_EmptySet

(* One that is alone finds in the view what it has found there before.     *)
LEMMA MatchStep ==
  ASSUME CommandInv, NEW t \in Runners, Commands!Match(t)
  PROVE  CommandInv'
<1> DEFINE one == Cardinality(Commands!Left(t)) = 1
           found == CHOOSE c \in Commands!Left(t) : TRUE
           next == IF one THEN "run" ELSE "missed"
           taken == IF one THEN found ELSE word[t]
<1>1. word \in [Runners -> Lines \cup {""}] BY CommandTypes DEF CommandInv
<1>0. /\ at[t] = "match" /\ at' = [at EXCEPT ![t] = next] /\ word' = [word EXCEPT ![t] = taken]
      /\ buffer' = buffer /\ view' = view /\ lines' = lines /\ seen' = seen /\ saved' = saved
      /\ alone' = alone /\ ran' = ran /\ given' = given
  <2>1. [word EXCEPT ![t] = word[t]] = word BY <1>1
  <2> HIDE DEF found
  <2>2. CASE one
    BY <2>2, CardinalityIs DEF found, Commands!Match, Commands!history
  <2>3. CASE ~one
    BY <2>1, <2>3, CardinalityIs DEF Commands!Match, Commands!history
  <2> QED BY <2>2, <2>3
<1>2. Running(t) /\ Head(lines[t]) \in Lines /\ lines[t] # <<>>
  BY <1>0, ItsLine DEF Running, Commands!Active
<1>3. one => found \in Commands!Left(t) /\ found \in Lines /\ found # ""
  <2>1. one => Commands!Left(t) # {} BY CardinalityIs
  <2>2. one => found \in Commands!Left(t) BY <2>1
  <2>3. Commands!Left(t) \subseteq Lines
    BY DEF Commands!Left, Commands!Visible, Lines
  <2>4. "" \notin Lines BY VisibleIs
  <2> QED BY <2>2, <2>3, <2>4
<1>4. taken \in Lines \cup {""} /\ next \in {"run", "missed"} /\ (next = "run" => taken # "")
  BY <1>1, <1>3
<1>5. ASSUME t \in alone PROVE next = "run" /\ taken = Head(lines[t])
  <2>1. /\ word[t] = Head(lines[t])
        /\ seen[t] = view /\ word[t] \in Commands!Visible(view)
    BY <1>0, <1>5 DEF CommandInv, AloneInv, Place
  <2>2. Commands!Left(t) = {word[t]}
    BY <2>1 DEF Commands!Left
  <2>3. one BY <2>2, CardinalityIs
  <2>4. found = word[t] BY <1>3, <2>2, <2>3
  <2> QED BY <2>1, <2>3, <2>4
<1> HIDE DEF taken, next
<1>6. \A r \in Runners : /\ at'[r] = IF r = t THEN next ELSE at[r]
                         /\ word'[r] = IF r = t THEN taken ELSE word[r]
  BY <1>0, CommandTypes DEF CommandInv
<1>7. /\ at' \in [Runners -> {"idle", "copy", "parse", "filter", "match", "run", "missed",
                              "back", "clear", "done"}]
      /\ word' \in [Runners -> Lines \cup {""}]
  BY <1>0, <1>4, CommandTypes DEF CommandInv
<1>8. CommandTyped'
  BY <1>0, <1>2, <1>4, <1>6, <1>7, CommandTypes, TypedAfter DEF CommandInv
<1>9. ASSUME t \in alone PROVE Place(t)' /\ at'[t] # "clear"
  <2>1. at'[t] = "run" /\ word'[t] = Head(lines'[t]) BY <1>0, <1>5, <1>6, <1>9
  <2> QED BY <2>1 DEF Place
<1> QED BY <1>0, <1>2, <1>6, <1>8, <1>9, SameLine, OnlyIt

(* It runs the line it is at, which keeps it in the views of the system    *)
(* unless it is the last.                                                  *)
LEMMA RunStep ==
  ASSUME CommandInv, NEW t \in Runners, Commands!Run(t)
  PROVE  CommandInv'
<1> DEFINE more == IF t \in alone THEN Append(ran[t], word[t]) ELSE ran[t]
<1>0. /\ at[t] = "run" /\ at' = [at EXCEPT ![t] = "clear"] /\ ran' = [ran EXCEPT ![t] = more]
      /\ view' = Commands!ViewAfter(word[t], view)
      /\ buffer' = buffer /\ lines' = lines /\ word' = word /\ seen' = seen /\ saved' = saved
      /\ alone' = alone /\ given' = given
  BY DEF Commands!Run, Commands!locals
<1>1. Running(t) /\ Head(lines[t]) \in Lines /\ lines[t] # <<>>
  BY <1>0, ItsLine DEF Running, Commands!Active
<1>2. word[t] \in Lines /\ view \in Commands!Views /\ ran[t] \in Seq(Lines)
  BY <1>0, CommandTypes DEF CommandInv, CommandTyped
<1>3. more \in Seq(Lines) BY <1>2
<1>4. /\ at' \in [Runners -> {"idle", "copy", "parse", "filter", "match", "run", "missed",
                              "back", "clear", "done"}]
      /\ ran' \in [Runners -> Seq(Lines)]
  BY <1>0, <1>3, CommandTypes DEF CommandInv
<1>5. view' \in Commands!Views
  BY <1>0, <1>2, VisibleIs DEF Commands!ViewAfter, Commands!Views, Commands!Parent
<1>6. (\A r \in Runners : at'[r] = IF r = t THEN "clear" ELSE at[r]) /\ ran'[t] = more
  BY <1>0, CommandTypes DEF CommandInv
<1>7. CommandTyped'
  BY <1>0, <1>1, <1>4, <1>5, <1>6, CommandTypes, TypedAfter DEF CommandInv
<1>8. ASSUME t \in alone
      PROVE  /\ Rest(t)' /\ InView(t)' /\ Place(t)'
             /\ \E e \in {0, 1} : Follows(ran[t], given[t], e, Finished(t))'
  <2> DEFINE n == Len(given[t])
             k == n - Len(lines[t])
  <2>1. /\ AloneInv(t) /\ n \in Nat /\ Len(lines[t]) \in 1 .. n
        /\ Head(lines[t]) = given[t][k + 1]
        /\ Head(lines[t]) = "system-view" <=> Len(lines[t]) = n
        /\ Head(lines[t]) \in {"return", "quit"} => Len(lines[t]) = 1
        /\ Head(lines[t]) # "system-view" => view \in {"system", "diagnose"}
    BY <1>0, <1>1, <1>8, ItsPlace
  <2>2. word[t] = Head(lines[t]) BY <1>0, <2>1 DEF AloneInv, Place
  <2>3. Finished(t) = k /\ Finished(t)' = k + 1 /\ k \in Nat
    <3>1. k \in Nat BY <2>1
    <3>2. Finished(t) = k + 0 BY <1>0 DEF Finished
    <3>3. Finished(t)' = k + 1 BY <1>0, <1>6 DEF Finished
    <3> QED BY <3>1, <3>2, <3>3
  <2>4. Rest(t)' BY <1>0, <2>1 DEF AloneInv, Rest
  <2>5. Place(t)' BY <1>6 DEF Place
  <2>6. InView(t)'
    <3>1. Len(lines[t]) # 1 => word[t] \notin {"return", "quit"} BY <2>1, <2>2
    <3>2. word[t] \notin {"return", "quit"} => view' \in {"system", "diagnose"}
      BY <1>0, <1>2, <2>1, <2>2, VisibleIs DEF Commands!ViewAfter
    <3>3. k + 1 \in 1 .. n - 1 => Len(lines[t]) # 1
      <4> DEFINE m == Len(lines[t])
      <4>1. m \in 1 .. n /\ n \in Nat BY <2>1
      <4> HIDE DEF n, m
      <4>2. n - m + 1 \in 1 .. n - 1 => m # 1 BY <4>1
      <4> QED BY <4>2 DEF m
    <3>4. Finished(t)' \in 1 .. Len(given'[t]) - 1 => k + 1 \in 1 .. n - 1
      BY <1>0, <2>3
    <3> QED BY <3>1, <3>2, <3>3, <3>4 DEF InView
  <2>7. PICK e \in {0, 1} : Follows(ran[t], given[t], e, k)
    BY <2>1, <2>3 DEF AloneInv
  <2>8. Follows(ran'[t], given[t], e, k + 1)
    <3>1. e <= k /\ Len(ran[t]) = k - e /\ \A i \in 1 .. k - e : ran[t][i] = given[t][i + e]
      BY <2>7 DEF Follows
    <3>2. ran'[t] = Append(ran[t], given[t][k + 1]) BY <1>6, <1>8, <2>1, <2>2
    <3>3. /\ Len(ran'[t]) = k - e + 1 /\ ran'[t][k - e + 1] = given[t][k + 1]
          /\ \A i \in 1 .. k - e : ran'[t][i] = ran[t][i]
      <4>1. given[t][k + 1] \in Lines BY <1>2, <2>1, <2>2
      <4> DEFINE s == ran[t]
                 x == given[t][k + 1]
      <4>2. s \in Seq(Lines) /\ x \in Lines BY <1>2, <4>1
      <4> HIDE DEF s, x
      <4>3. /\ Len(Append(s, x)) = Len(s) + 1 /\ Append(s, x)[Len(s) + 1] = x
            /\ \A i \in 1 .. Len(s) : Append(s, x)[i] = s[i]
        BY <4>2, AppendProperties
      <4> QED BY <3>1, <3>2, <4>3 DEF s, x
    <3> HIDE DEF k
    <3>4. \A i \in 1 .. k + 1 - e : i \in 1 .. k - e \/ i = k - e + 1
      BY <2>3, <3>1
    <3>5. \A i \in 1 .. k + 1 - e : ran'[t][i] = given[t][i + e]
      <4> SUFFICES ASSUME NEW i \in 1 .. k + 1 - e PROVE ran'[t][i] = given[t][i + e]
        OBVIOUS
      <4>1. CASE i \in 1 .. k - e BY <3>1, <3>3, <4>1
      <4>2. CASE i = k - e + 1
        <5>1. i + e = k + 1 BY <2>3, <4>2
        <5> QED BY <3>3, <4>2, <5>1
      <4> QED BY <3>4, <4>1, <4>2
    <3> QED BY <2>3, <3>1, <3>3, <3>5 DEF Follows
  <2>9. \E d \in {0, 1} : Follows(ran[t], given[t], d, Finished(t))'
    <3>1. given'[t] = given[t] BY <1>0
    <3>2. Follows(ran'[t], given'[t], e, Finished(t)') BY <2>3, <2>8, <3>1
    <3>3. Follows(ran[t], given[t], e, Finished(t))' BY <3>2 DEF Follows
    <3> QED BY <3>3
  <2> QED BY <2>4, <2>5, <2>6, <2>9
<1> QED BY <1>0, <1>1, <1>6, <1>7, <1>8, OnlyIt

LEMMA MissedStep ==
  ASSUME CommandInv, NEW t \in Runners, Commands!Missed(t)
  PROVE  CommandInv'
<1> DEFINE from == IF saved[t] = "" THEN view ELSE saved[t]
<1>0. /\ at[t] = "missed" /\ at' = [at EXCEPT ![t] = "back"] /\ saved' = [saved EXCEPT ![t] = from]
      /\ buffer' = buffer /\ view' = view /\ lines' = lines /\ word' = word /\ seen' = seen
      /\ alone' = alone /\ ran' = ran /\ given' = given
  BY DEF Commands!Missed, Commands!history
<1>1. Running(t) /\ lines[t] # <<>>
  BY <1>0, ItsLine DEF Running, Commands!Active
<1>2. from \in Commands!Views /\ from # ""
  BY CommandTypes DEF CommandInv, Commands!Views
<1>3. \A r \in Runners : /\ at'[r] = IF r = t THEN "back" ELSE at[r]
                         /\ saved'[r] = IF r = t THEN from ELSE saved[r]
  BY <1>0, CommandTypes DEF CommandInv
<1>4. /\ at' \in [Runners -> {"idle", "copy", "parse", "filter", "match", "run", "missed",
                              "back", "clear", "done"}]
      /\ saved' \in [Runners -> Commands!Views \cup {""}]
  BY <1>0, <1>2, CommandTypes DEF CommandInv
<1>5. CommandTyped'
  BY <1>0, <1>1, <1>2, <1>3, <1>4, CommandTypes, TypedAfter DEF CommandInv
<1>6. ASSUME t \in alone PROVE Place(t)'
  <2>1. /\ word[t] = Head(lines[t]) /\ saved[t] \in {"", "system", "diagnose"}
        /\ view \in {"system", "diagnose"} /\ word[t] \notin Commands!Visible(view)
    BY <1>0, <1>6 DEF CommandInv, AloneInv, Place
  <2>2. /\ at'[t] = "back" /\ word'[t] = Head(lines'[t]) /\ saved'[t] \in {"system", "diagnose"}
        /\ view' = view
    BY <1>0, <1>3, <2>1
  <2>3. Commands!Visible(view)' = Commands!Visible(view)
    BY <1>0 DEF Commands!Visible, Commands!Commands, Commands!Home
  <2> QED BY <1>0, <2>1, <2>2, <2>3 DEF Place
<1>7. at'[t] # "clear" BY <1>3
<1> QED BY <1>0, <1>1, <1>3, <1>5, <1>6, <1>7, SameLine, OnlyIt

(* Below the system view it goes back there; in it only system-view can    *)
(* have been missed, and the view is as before.                            *)
LEMMA BackStep ==
  ASSUME CommandInv, NEW t \in Runners, Commands!Back(t)
  PROVE  CommandInv'
<1> DEFINE top == Commands!Parent(view) \in {"user", "global"}
           next == IF top THEN "clear" ELSE "filter"
<1>0. /\ at[t] = "back" /\ at' = [at EXCEPT ![t] = next]
      /\ view' = IF top THEN saved[t] ELSE Commands!Parent(view)
      /\ buffer' = buffer /\ lines' = lines /\ word' = word /\ seen' = seen /\ saved' = saved
      /\ alone' = alone /\ ran' = ran /\ given' = given
  BY DEF Commands!Back, Commands!locals, Commands!history
<1>1. Running(t) /\ Head(lines[t]) \in Lines /\ lines[t] # <<>>
  BY <1>0, ItsLine DEF Running, Commands!Active
<1>2. view \in Commands!Views /\ saved[t] \in Commands!Views
  BY <1>0, CommandTypes DEF CommandInv, CommandTyped
<1>3. \A r \in Runners : at'[r] = IF r = t THEN next ELSE at[r]
  BY <1>0, CommandTypes DEF CommandInv
<1>4. at' \in [Runners -> {"idle", "copy", "parse", "filter", "match", "run", "missed",
                           "back", "clear", "done"}]
  BY <1>0, CommandTypes DEF CommandInv
<1>5. view = "diagnose" <=> ~top
  BY <1>2 DEF Commands!Parent, Commands!Views
<1>6. ~top => view' = "system"
  BY <1>0, <1>5 DEF Commands!Parent
<1>7. view' \in Commands!Views
  BY <1>0, <1>2, <1>6 DEF Commands!Views
<1> HIDE DEF top
<1>8. CommandTyped'
  BY <1>0, <1>1, <1>3, <1>4, <1>7, CommandTypes, TypedAfter DEF CommandInv
<1>9. ASSUME t \in alone
      PROVE  /\ Rest(t)' /\ InView(t)' /\ Place(t)'
             /\ \E e \in {0, 1} : Follows(ran[t], given[t], e, Finished(t))'
  <2>1. AloneInv(t) BY <1>9 DEF CommandInv
  <2>2. /\ word[t] = Head(lines[t]) /\ saved[t] \in {"system", "diagnose"}
        /\ view \in {"system", "diagnose"} /\ word[t] \notin Commands!Visible(view)
    BY <1>0, <1>2, <2>1 DEF AloneInv, Place, Commands!Views
  <2>3. view' \in {"system", "diagnose"} BY <1>0, <1>6, <2>2
  <2>4. CASE ~top
    <3>1. at'[t] = "filter" BY <1>3, <2>4
    <3>2. word'[t] = Head(lines'[t]) /\ saved'[t] = saved[t] BY <1>0, <2>2
    <3>3. Place(t)' BY <2>2, <2>3, <3>1, <3>2 DEF Place
    <3> QED BY <1>0, <1>9, <2>3, <3>1, <3>3, SameLine
  <2>5. CASE top
    <3>1. view = "system" BY <1>5, <2>2, <2>5
    <3>2. Head(lines[t]) = "system-view"
      BY <1>1, <1>2, <2>2, <3>1, VisibleIs
    <3>3. Len(lines[t]) = Len(given[t]) /\ Len(given[t]) \in Nat
      BY <1>1, <1>9, <3>2, ItsPlace
    <3>4. at'[t] = "clear" BY <1>3, <2>5
    <3>5. Finished(t) = 0 /\ Finished(t)' = 1
      BY <1>0, <3>3, <3>4 DEF Finished
    <3>6. PICK e \in {0, 1} : Follows(ran[t], given[t], e, 0)
      BY <2>1, <3>5 DEF AloneInv
    <3>7. Len(ran[t]) = 0 BY <3>6 DEF Follows
    <3>8. Follows(ran[t], given[t], 1, Finished(t))'
      BY <1>0, <3>5, <3>7 DEF Follows
    <3>9. Rest(t)' BY <1>0, <2>1 DEF AloneInv, Rest
    <3>10. InView(t)' BY <2>3 DEF InView
    <3>11. Place(t)' BY <3>4 DEF Place
    <3> QED BY <3>8, <3>9, <3>10, <3>11
  <2> QED BY <2>4, <2>5
<1> QED BY <1>0, <1>1, <1>3, <1>8, <1>9, OnlyIt

LEMMA ClearStep ==
  ASSUME CommandInv, NEW t \in Runners, Commands!Clear(t)
  PROVE  CommandInv'
<1> DEFINE next == IF Len(lines[t]) > 1 THEN "copy" ELSE IF t = Main THEN "done" ELSE "idle"
<1>0. /\ at[t] = "clear" /\ at' = [at EXCEPT ![t] = next] /\ buffer' = ""
      /\ lines' = [lines EXCEPT ![t] = Tail(lines[t])]
      /\ word' = [word EXCEPT ![t] = ""] /\ seen' = [seen EXCEPT ![t] = "user"]
      /\ saved' = [saved EXCEPT ![t] = ""]
      /\ view' = view /\ alone' = alone /\ ran' = ran /\ given' = given
  BY DEF Commands!Clear, Commands!history
<1>1. /\ Running(t) /\ lines[t] \in Seq(Lines) /\ lines[t] # <<>>
      /\ Len(lines[t]) \in Nat \ {0} /\ Tail(lines[t]) \in Seq(Lines)
  BY <1>0, ItsLine DEF Running, Commands!Active
<1>2. next \in {"copy", "done", "idle"} /\ (next = "copy" <=> Len(lines[t]) > 1)
  OBVIOUS
<1> HIDE DEF next
<1>3. /\ Len(Tail(lines[t])) = Len(lines[t]) - 1
      /\ \A i \in 1 .. Len(lines[t]) - 1 : Tail(lines[t])[i] = lines[t][i + 1]
      /\ Tail(lines[t]) # <<>> <=> Len(lines[t]) > 1
  <2>1. /\ Len(Tail(lines[t])) = Len(lines[t]) - 1
        /\ \A i \in 1 .. Len(lines[t]) - 1 : Tail(lines[t])[i] = lines[t][i + 1]
    BY <1>1, HeadTailProperties
  <2>2. Tail(lines[t]) # <<>> <=> Len(Tail(lines[t])) # 0
    BY <1>1, EmptySeq
  <2> DEFINE m == Len(lines[t])
             l == Len(Tail(lines[t]))
  <2>3. m \in Nat \ {0} /\ l = m - 1 BY <1>1, <2>1
  <2> HIDE DEF m, l
  <2>4. l # 0 <=> m > 1 BY <2>3
  <2> QED BY <2>1, <2>2, <2>4 DEF m, l
<1>4. \A r \in Runners : /\ at'[r] = IF r = t THEN next ELSE at[r]
                         /\ lines'[r] = IF r = t THEN Tail(lines[t]) ELSE lines[r]
                         /\ word'[r] = IF r = t THEN "" ELSE word[r]
                         /\ saved'[r] = IF r = t THEN "" ELSE saved[r]
  BY <1>0, CommandTypes DEF CommandInv
<1>5. /\ at' \in [Runners -> {"idle", "copy", "parse", "filter", "match", "run", "missed",
                              "back", "clear", "done"}]
      /\ lines' \in [Runners -> Seq(Lines)]
      /\ word' \in [Runners -> Lines \cup {""}]
      /\ seen' \in [Runners -> Commands!Views]
      /\ saved' \in [Runners -> Commands!Views \cup {""}]
  <2>1. "user" \in Commands!Views BY DEF Commands!Views
  <2> QED BY <1>0, <1>1, <1>2, <2>1, CommandTypes DEF CommandInv
<1>6. CommandTyped'
  <2>1. buffer' \in Lines \cup {""} /\ view' \in Commands!Views /\ ran' \in [Runners -> Seq(Lines)]
    BY <1>0, CommandTypes DEF CommandInv
  <2>2. /\ at'[t] \notin {"idle", "done"} <=> lines'[t] # <<>>
        /\ at'[t] \in {"idle", "copy", "parse"} => saved'[t] = ""
        /\ at'[t] = "back" => saved'[t] # ""
        /\ at'[t] \in {"match", "run"} => word'[t] # ""
    BY <1>2, <1>3, <1>4
  <2> QED BY <1>0, <1>4, <1>5, <2>1, <2>2, TypedAfter DEF CommandInv
<1>7. ASSUME t \in alone
      PROVE  /\ Rest(t)' /\ InView(t)' /\ Place(t)'
             /\ \E e \in {0, 1} : Follows(ran[t], given[t], e, Finished(t))'
  <2> DEFINE n == Len(given[t])
             m == Len(lines[t])
  <2>1. AloneInv(t) /\ n \in Nat /\ m \in 1 .. n
    BY <1>1, <1>7, ItsPlace
  <2>2. Len(lines'[t]) = m - 1 /\ \A i \in 1 .. m - 1 : lines'[t][i] = lines[t][i + 1]
    BY <1>3, <1>4
  <2>3. Finished(t) = n - m + 1 /\ Finished(t)' = n - (m - 1)
    <3>1. at'[t] # "clear" BY <1>2, <1>4
    <3>2. Finished(t)' = n - (m - 1) + 0 BY <1>0, <2>2, <3>1 DEF Finished
    <3>3. Finished(t) = n - m + 1 BY <1>0 DEF Finished
    <3> HIDE DEF n, m
    <3> QED BY <2>1, <3>2, <3>3
  <2>4. \A i \in 1 .. m : lines[t][i] = given[t][n - m + i]
    BY <2>1 DEF AloneInv, Rest
  <2> HIDE DEF n, m
  <2>5. Finished(t)' = Finished(t) BY <2>1, <2>3
  <2>6. \A i \in 1 .. m - 1 : lines'[t][i] = given[t][n - (m - 1) + i]
    <3> SUFFICES ASSUME NEW i \in 1 .. m - 1 PROVE lines'[t][i] = given[t][n - (m - 1) + i]
      OBVIOUS
    <3>1. i + 1 \in 1 .. m /\ n - m + (i + 1) = n - (m - 1) + i BY <2>1
    <3>2. lines[t][i + 1] = given[t][n - m + (i + 1)] BY <2>4, <3>1
    <3> QED BY <2>2, <3>1, <3>2
  <2>7. Rest(t)'
    <3>1. Len(given'[t]) = n BY <1>0 DEF n
    <3>2. given'[t] = given[t] BY <1>0
    <3>3. m - 1 <= n BY <2>1
    <3> QED BY <2>2, <2>6, <3>1, <3>2, <3>3 DEF Rest
  <2>8. InView(t)' BY <1>0, <2>1, <2>5 DEF AloneInv, InView
  <2>9. Place(t)' BY <1>2, <1>4 DEF Place
  <2>10. PICK e \in {0, 1} : Follows(ran[t], given[t], e, Finished(t))
    BY <2>1 DEF AloneInv
  <2>11. Follows(ran[t], given[t], e, Finished(t))'
    BY <1>0, <2>5, <2>10 DEF Follows
  <2> QED BY <2>7, <2>8, <2>9, <2>11
<1> QED BY <1>0, <1>1, <1>4, <1>6, <1>7, OnlyIt

LEMMA CommandKept == CommandInv /\ UNCHANGED commandVars => CommandInv'
<1> SUFFICES ASSUME CommandInv, UNCHANGED commandVars PROVE CommandInv'
  OBVIOUS
<1>0. /\ buffer' = buffer /\ view' = view /\ lines' = lines /\ at' = at /\ word' = word
      /\ seen' = seen /\ saved' = saved /\ alone' = alone /\ ran' = ran /\ given' = given
  BY DEF commandVars
<1>1. CommandTyped'
  BY <1>0 DEF CommandInv, CommandTyped, Commands!CommandTypeOK, Commands!Views, Runners, Running,
              Commands!Active, Commands!Threads, Commands!Commands, Commands!Home
<1>2. ASSUME NEW t \in alone PROVE AloneInv(t)'
  <2>1. AloneInv(t) BY DEF CommandInv
  <2>2. Commands!Visible(view)' = Commands!Visible(view)
    BY <1>0 DEF Commands!Visible, Commands!Commands, Commands!Home
  <2>3. Program(given[t])'
    BY <1>0, <2>1 DEF AloneInv, Program, Lines, Commands!Commands, Commands!Home
  <2>4. Finished(t)' = Finished(t) BY <1>0 DEF Finished
  <2>5. Rest(t)' /\ InView(t)' BY <1>0, <2>1, <2>4 DEF AloneInv, Rest, InView
  <2>6. Place(t)' BY <1>0, <2>1, <2>2 DEF AloneInv, Place
  <2>7. PICK e \in {0, 1} : Follows(ran[t], given[t], e, Finished(t)) BY <2>1 DEF AloneInv
  <2>8. Follows(ran[t], given[t], e, Finished(t))' BY <1>0, <2>4, <2>7 DEF Follows
  <2>9. \A r \in Runners : r # t => ~Running(r)'
    BY <1>0, <2>1 DEF AloneInv, Running, Commands!Active
  <2> QED BY <2>3, <2>5, <2>6, <2>8, <2>9 DEF AloneInv, Runners, Commands!Threads
<1> QED BY <1>0, <1>1, <1>2 DEF CommandInv

LEMMA CommandStepKeeps == CommandInv /\ Commands!Next => CommandInv'
<1> SUFFICES ASSUME CommandInv, Commands!Next PROVE CommandInv'
  OBVIOUS
<1>1. CASE Commands!CfgRecover
  <2>1. Main \in Runners BY DEF Runners, Commands!Threads
  <2>2. PICK program : Program(program) /\ Commands!Start(Main, program)
    BY <1>1, RecoverProgram DEF Commands!CfgRecover
  <2> QED BY <2>1, <2>2, StartStep
<1>2. ASSUME NEW t \in Packets, Commands!Packet(t) PROVE CommandInv'
  <2>1. t \in Runners BY DEF Runners, Commands!Threads
  <2>2. PICK c \in Lines \ {"system-view"} : Commands!Start(t, <<"system-view", c>>)
    BY <1>2 DEF Commands!Packet, Lines
  <2>3. Program(<<"system-view", c>>) BY PacketProgram
  <2> QED BY <2>1, <2>2, <2>3, StartStep
<1>3. ASSUME NEW t \in Runners, Commands!CmdRun(t) PROVE CommandInv'
  BY <1>3, CopyStep, ParseStep, FilterStep, MatchStep, RunStep, MissedStep, BackStep, ClearStep
     DEF Commands!CmdRun
<1> QED BY <1>1, <1>2, <1>3 DEF Commands!Next, Runners

(* All lines done with, and all run but perhaps the first.                 *)
LEMMA CommandsRun == CommandInv => AloneRunsItsLines
<1> SUFFICES ASSUME CommandInv, NEW t \in Runners, t \in alone, ~Running(t)
             PROVE  ran[t] \in {given[t], Tail(given[t])}
  BY DEF AloneRunsItsLines, Commands!AloneRunsItsLines, Runners, Running
<1> DEFINE n == Len(given[t])
<1>1. /\ AloneInv(t) /\ given[t] \in Seq(Lines) /\ ran[t] \in Seq(Lines)
      /\ given[t] # <<>> /\ n \in Nat \ {0}
  <2>1. AloneInv(t) /\ given[t] \in Seq(Lines) /\ Len(given[t]) > 0
    BY DEF CommandInv, AloneInv, Program
  <2>2. ran[t] \in Seq(Lines) BY CommandTypes DEF CommandInv
  <2>3. n \in Nat /\ Len(<<>>) = 0 BY <2>1, EmptySeq
  <2> QED BY <2>1, <2>2, <2>3
<1>2. lines[t] = <<>> /\ at[t] # "clear"
  BY DEF CommandInv, CommandTyped, Running, Commands!Active
<1>3. Finished(t) = n
  BY <1>1, <1>2 DEF Finished
<1>4. PICK e \in {0, 1} : Follows(ran[t], given[t], e, n)
  BY <1>1, <1>3 DEF AloneInv
<1>5. /\ Tail(given[t]) \in Seq(Lines) /\ Len(Tail(given[t])) = n - 1
      /\ \A i \in 1 .. n - 1 : Tail(given[t])[i] = given[t][i + 1]
  BY <1>1, HeadTailProperties
<1>6. CASE e = 0
  <2>1. Len(ran[t]) = n /\ \A i \in 1 .. n : ran[t][i] = given[t][i]
    BY <1>1, <1>4, <1>6 DEF Follows
  <2> QED BY <1>1, <2>1, SeqEqual
<1>7. CASE e = 1
  <2>1. Len(ran[t]) = n - 1 /\ \A i \in 1 .. n - 1 : ran[t][i] = given[t][i + 1]
    BY <1>4, <1>7 DEF Follows
  <2>2. Len(ran[t]) = Len(Tail(given[t]))
    BY <1>5, <2>1
  <2>3. \A i \in 1 .. Len(ran[t]) : ran[t][i] = Tail(given[t])[i]
    BY <1>5, <2>1
  <2>4. ran[t] = Tail(given[t])
    BY <1>1, <1>5, <2>2, <2>3, SeqEqual
  <2> QED BY <2>4
<1> QED BY <1>6, <1>7

-----------------------------------------------------------------------------
(* The parts together.                                                     *)

PartsInv == IInv /\ ListenerInv /\ CommandInv

(* The inductive invariants of the three hold together: each step is one   *)
(* of one part and leaves the others alone.                                *)
THEOREM PartsInvariant == MCSpec => []PartsInv
<1>1. MCInit => PartsInv
  BY InitHolds, ListenerInit, CommandInit DEF MCInit, PartsInv
<1>2. PartsInv /\ [MCNext]_AllVars => PartsInv'
  <2> SUFFICES ASSUME PartsInv, [MCNext]_AllVars PROVE PartsInv'
    OBVIOUS
  <2> USE DEF PartsInv
  <2>1. CASE Next /\ UNCHANGED <<part, listenVars, commandVars>>
    BY <2>1, StepKeeps, ListenerKept, CommandKept
  <2>2. CASE Listening!Next /\ UNCHANGED <<part, vars, commandVars>>
    BY <2>2, StepKeeps, ListenerStepKeeps, CommandKept
  <2>3. CASE Commands!Next /\ UNCHANGED <<part, vars, listenVars>>
    BY <2>3, StepKeeps, ListenerKept, CommandStepKeeps
  <2>4. CASE UNCHANGED AllVars
    BY <2>4, StepKeeps, ListenerKept, CommandKept DEF AllVars
  <2> QED BY <2>1, <2>2, <2>3, <2>4 DEF MCNext, ListenerStep
<1> QED BY <1>1, <1>2, PTL DEF MCSpec

(* The line, the sockets and threads of the listener, and what the command *)
(* threads share keep their types.                                         *)
THEOREM PartsTypeCorrect == MCSpec => []PartsTypeOK
<1>1. PartsInv => PartsTypeOK
  <2> SUFFICES ASSUME PartsInv PROVE PartsTypeOK
    OBVIOUS
  <2>1. TypeOK
    BY DEF PartsInv, IInv, OverrunInv, TextTyped, TextInv, RingInv, UsersInv, TypeOK
  <2> QED BY <2>1 DEF PartsInv, ListenerInv, ListenerTyped, CommandInv, CommandTyped, PartsTypeOK
<1> QED BY <1>1, PartsInvariant, PTL

(* However often the port of the manager is probed and its socket made     *)
(* anew, only a failed call costs a socket for good, and two threads.      *)
THEOREM FaultsBoundLeaks == MCSpec => []LeaksBounded
<1>1. PartsInv => LeaksBounded BY ListenerBound DEF PartsInv
<1> QED BY <1>1, PartsInvariant, PTL

(* A thread that met no other one on the vty has run its lines, whatever   *)
(* those before it have left there.                                        *)
THEOREM AloneIsComplete == MCSpec => []AloneRunsItsLines
<1>1. PartsInv => AloneRunsItsLines BY CommandsRun DEF PartsInv
<1> QED BY <1>1, PartsInvariant, PTL
=============================================================================
