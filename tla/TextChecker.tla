---------------------------- MODULE TextChecker ----------------------------
(***************************************************************************)
(* The comparison of a program's output with the answer of the test case   *)
(* (compare, which is compare_zoj, with IGNORE_ESOL defined; and           *)
(* find_next_nonspace, both in src/code/judge/judge_util.cpp).             *)
(*                                                                         *)
(* The two files are read side by side, one character of each in hand.     *)
(* The control alternates between two loops: that over the words, which    *)
(* must agree, and that over the blanks between them, which may leave the  *)
(* verdict V_AC or make it V_PE.                                           *)
(***************************************************************************)
EXTENDS Integers, SequencesExt

CONSTANTS
  Letters,     (* the characters that are no blanks                        *)
  Blanks,      (* those that are: isspace and the null character           *)
  MaxLength    (* the longest file                                         *)

Newline == "lf"
Space   == "sp"
EOF     == "EOF"

ASSUME CharsAssumption == /\ Letters \cap Blanks = {} /\ EOF \notin Letters \cup Blanks
                          /\ {Newline, Space} \cap Letters = {}
ASSUME LengthAssumption == MaxLength \in Nat

VARIABLES
  out, ans,   (* the files                                                 *)
  i, j,       (* the positions of the characters in hand, c1 and c2        *)
  pc,         (* which loop of the comparison is running                   *)
  ret         (* the verdict so far                                        *)

files == <<out, ans>>
vars  == <<files, i, j, pc, ret>>

Chars == Letters \cup Blanks
Texts == BoundedSeq(Chars, MaxLength)

(* fgetc, and again at the end of the file.                                *)
At(f, k) == IF k <= Len(f) THEN f[k] ELSE EOF
c1 == At(out, i)
c2 == At(ans, j)

IsSpaceEx(c) == c \in Blanks

TypeOK ==
  /\ out \in Seq(Chars) /\ ans \in Seq(Chars)
  /\ i \in 1 .. Len(out) + 1 /\ j \in 1 .. Len(ans) + 1
  /\ pc \in {"words", "blanks", "end"}
  /\ ret \in {"V_AC", "V_PE", "V_WA"}

-----------------------------------------------------------------------------
(* Where a loop `while c is in S read the next' ends, from position k on.  *)
FirstOutside(f, k, S) ==
  CHOOSE n \in k .. Len(f) + 1 :
    At(f, n) \notin S /\ \A m \in k .. n - 1 : At(f, m) \in S

(* Mutant: the next character is read at the end of the file too.          *)
PastAny(f, k) == k + 1

(* One character further, at a blank; the end of a file is no blank.       *)
PastBlank(f, k) == IF IsSpaceEx(At(f, k)) THEN k + 1 ELSE k

(* Before the first word the code looks for it as it does between words.   *)
Init ==
  /\ out \in Texts /\ ans \in Texts
  /\ i = 1 /\ j = 1
  /\ pc = "blanks"
  /\ ret = "V_AC"

End(verdict) == pc' = "end" /\ ret' = verdict /\ UNCHANGED <<i, j>>

-----------------------------------------------------------------------------
(* The loop over the characters of two words.                              *)

(* Mutant: the loop goes on while both characters are of a word.           *)
InBothWords == pc = "words" /\ ~IsSpaceEx(c1) /\ ~IsSpaceEx(c2)

InWord == pc = "words" /\ ~(IsSpaceEx(c1) /\ IsSpaceEx(c2))

SameCharacter ==
  /\ InWord /\ c1 = c2 /\ c1 # EOF
  /\ i' = i + 1 /\ j' = j + 1
  /\ UNCHANGED <<pc, ret>>

BothEnd == InWord /\ c1 = EOF /\ c2 = EOF /\ End(ret)

WrongCharacter == InWord /\ c1 # c2 /\ c1 # EOF /\ c2 # EOF /\ End("V_WA")

WordsEnd ==
  /\ pc = "words"
  /\ \/ IsSpaceEx(c1) /\ IsSpaceEx(c2)
     \/ c1 # c2 /\ EOF \in {c1, c2}
  /\ pc' = "blanks"
  /\ UNCHANGED <<i, j, ret>>

-----------------------------------------------------------------------------
(* find_next_nonspace.                                                     *)

InBlanks == pc = "blanks" /\ (IsSpaceEx(c1) \/ IsSpaceEx(c2))

(* At the end of one file the blanks of the other are skipped.             *)
TrailingBlanks ==
  /\ InBlanks /\ c1 # c2
  /\ \/ c2 = EOF /\ i' = FirstOutside(out, i, Blanks) /\ UNCHANGED j
     \/ c1 = EOF /\ j' = FirstOutside(ans, j, Blanks) /\ UNCHANGED i
  /\ UNCHANGED <<pc, ret>>

(* Mutant: blanks are read in pairs, the ends of lines too.                *)
BlankPairs ==
  /\ InBlanks /\ IsSpaceEx(c1) /\ IsSpaceEx(c2)
  /\ i' = PastBlank(out, i) /\ j' = PastBlank(ans, j)
  /\ UNCHANGED <<pc, ret>>

(* Blanks on both sides: before the end of a line in one file, those of    *)
(* the other are skipped; any two other blanks count as the same.          *)
BothBlank ==
  LET inLine == Blanks \ {Newline}
      k == IF c2 = Newline THEN FirstOutside(out, i, inLine) ELSE i
      l == IF At(out, k) = Newline THEN FirstOutside(ans, j, inLine) ELSE j
  IN /\ InBlanks /\ IsSpaceEx(c1) /\ IsSpaceEx(c2)
     /\ i' = PastBlank(out, k) /\ j' = PastBlank(ans, l)
     /\ UNCHANGED <<pc, ret>>

(* Mutant: a blank too many is skipped and forgotten.                      *)
ExtraForgiven ==
  /\ InBlanks /\ EOF \notin {c1, c2} /\ ~(IsSpaceEx(c1) /\ IsSpaceEx(c2))
  /\ i' = PastBlank(out, i) /\ j' = PastBlank(ans, j)
  /\ UNCHANGED <<pc, ret>>

(* A blank against a letter: one of the files has a blank too many.        *)
ExtraBlank ==
  /\ InBlanks /\ EOF \notin {c1, c2} /\ ~(IsSpaceEx(c1) /\ IsSpaceEx(c2))
  /\ ret' = "V_PE"
  /\ i' = PastBlank(out, i) /\ j' = PastBlank(ans, j)
  /\ UNCHANGED pc

(* Mutant: an output that stops short is not compared with the rest.       *)
BlanksEndEarly ==
  /\ pc = "blanks" /\ ~IsSpaceEx(c1) /\ ~IsSpaceEx(c2)
  /\ \/ EOF \in {c1, c2} /\ End(ret)
     \/ EOF \notin {c1, c2} /\ pc' = "words" /\ UNCHANGED <<i, j, ret>>

(* Back in compare_zoj; neither character is the end of a line now.        *)
BlanksEnd ==
  /\ pc = "blanks" /\ ~IsSpaceEx(c1) /\ ~IsSpaceEx(c2)
  /\ \/ c1 = EOF /\ c2 = EOF /\ End(ret)
     \/ c1 # c2 /\ EOF \in {c1, c2} /\ End("V_WA")
     \/ EOF \notin {c1, c2} /\ pc' = "words" /\ UNCHANGED <<i, j, ret>>

Next ==
  /\ \/ SameCharacter \/ BothEnd \/ WrongCharacter \/ WordsEnd
     \/ TrailingBlanks \/ BothBlank \/ ExtraBlank \/ BlanksEnd
  /\ UNCHANGED files

Spec == Init /\ [][Next]_vars /\ WF_vars(Next)

-----------------------------------------------------------------------------
(* The reference: what the verdict should be, from the files alone.        *)

(* A text with every run of blanks between its words made one space, and   *)
(* none before the first word or after the last.                           *)
Squeezed(f) ==
  LET Add(text, c) == IF ~IsSpaceEx(c) THEN Append(text, c)
                      ELSE IF text = <<>> \/ Last(text) = Space THEN text
                      ELSE Append(text, Space)
      all == FoldLeft(Add, <<>>, f)
  IN IF all # <<>> /\ Last(all) = Space THEN Front(all) ELSE all

(* A text without the blanks at the ends of its lines and the blank lines  *)
(* at its own end.                                                         *)
Trimmed(f) ==
  LET Idle(k) == \E n \in k .. Len(f) + 1 :
                   /\ At(f, n) \in {Newline, EOF}
                   /\ \A m \in k .. n - 1 : IsSpaceEx(f[m])
      Keep(k) == IF f[k] = Newline THEN \E m \in k .. Len(f) : ~IsSpaceEx(f[m]) ELSE ~Idle(k)
      kept == {k \in 1 .. Len(f) : Keep(k)}
  IN [n \in 1 .. Cardinality(kept) |->
        f[CHOOSE k \in kept : Cardinality({m \in kept : m <= k}) = n]]

OneLine(f) == \A k \in DOMAIN f : f[k] # Newline

(* An output is wrong exactly when its words are not those of the answer;  *)
(* no layout makes a right answer wrong or a wrong one right               *)
(* (compare_zoj).                                                          *)
WordsDecide ==
  pc = "end" => (ret = "V_WA" <=> Squeezed(out) # Squeezed(ans))

(* Blanks at the ends of lines and blank lines at the end of the output    *)
(* cost nothing: the test ignore_space_of_line_tailer, of every such file. *)
LineTailsIgnored ==
  pc = "end" /\ Trimmed(out) = Trimmed(ans) => ret = "V_AC"

(* Inside one line extra and missing blanks are all reported: what is      *)
(* accepted has the layout of the answer (the tests case4 and case6).      *)
BlanksCounted ==
  pc = "end" /\ ret = "V_AC" /\ OneLine(out) /\ OneLine(ans) =>
    /\ Len(Trimmed(out)) = Len(Trimmed(ans))
    /\ \A k \in DOMAIN Trimmed(out) :
         IsSpaceEx(Trimmed(out)[k]) <=> IsSpaceEx(Trimmed(ans)[k])

(* The comparison comes to an end, on every two files.                     *)
Terminates == <>(pc = "end")
=============================================================================
