------------------------- MODULE TextCheckerProofs -------------------------
(***************************************************************************)
(* Proofs about the comparison of an output with an answer, for any        *)
(* characters and texts of any length: the types, that the words of the    *)
(* two files decide whether the output is wrong, that blanks at the ends   *)
(* of lines cost nothing, and that blanks elsewhere do.                    *)
(***************************************************************************)
EXTENDS TextChecker, FiniteSetTheorems, WellFoundedInduction, SequenceTheorems, TLAPS

-----------------------------------------------------------------------------
(* Least and greatest.                                                     *)

(* A set of naturals that is not empty has a least member.                 *)
LEMMA Smallest ==
  ASSUME NEW S \in SUBSET Nat, S # {}
  PROVE  \E n \in S : \A m \in S : n <= m
<1> DEFINE Upto == {0 .. n : n \in S}
<1>1. Upto \subseteq FiniteSubsetsOf(Nat)
  <2>1. \A n \in S : IsFiniteSet(0 .. n) /\ 0 .. n \subseteq Nat
    BY FS_Interval
  <2>2. QED
    BY <2>1 DEF FiniteSubsetsOf
<1>2. Upto # {}
  OBVIOUS
<1> HIDE DEF Upto
<1>3. PICK x \in Upto : \A y \in Upto : <<y, x>> \notin StrictSubsetOrdering(Nat)
  BY <1>1, <1>2, FS_StrictSubsetOrderingWellFounded, WFMin
<1>4. PICK n \in S : x = 0 .. n
  BY DEF Upto
<1>5. ASSUME NEW m \in S, m < n PROVE FALSE
  <2>1. 0 .. m \in Upto
    BY DEF Upto
  <2>2. 0 .. m \subseteq 0 .. n /\ n \in 0 .. n /\ n \notin 0 .. m
    BY <1>5
  <2>3. <<0 .. m, 0 .. n>> \in StrictSubsetOrdering(Nat)
    BY <2>2 DEF StrictSubsetOrdering
  <2>4. QED
    BY <1>3, <1>4, <2>1, <2>3
<1>6. QED
  BY <1>5

LEMMA MaxIs ==
  ASSUME NEW S \in SUBSET Nat, S # {}, NEW n \in Nat, \A x \in S : x <= n
  PROVE  Max(S) \in S /\ \A x \in S : x <= Max(S)
<1> DEFINE below == {n - x : x \in S}
<1>1. below \in SUBSET Nat /\ below # {}
  <2>1. \A x \in S : n - x \in Nat
    OBVIOUS
  <2>2. QED
    BY <2>1
<1> HIDE DEF below
<1>2. PICK b \in below : \A c \in below : b <= c
  BY <1>1, Smallest
<1>3. PICK x \in S : b = n - x
  BY <1>2 DEF below
<1>4. \A y \in S : n - y \in below
  BY DEF below
<1>5. \A y \in S : x >= y
  BY <1>2, <1>3, <1>4
<1>6. QED
  BY <1>5 DEF Max

-----------------------------------------------------------------------------
(* Reading a text: the fold of Squeezed, unrolled.                         *)

Trim(t) == IF t # <<>> /\ Last(t) = Space THEN Front(t) ELSE t

Add(t, c) ==
  IF ~IsSpaceEx(c) THEN Append(t, c)
  ELSE IF t = <<>> \/ Last(t) = Space THEN t
  ELSE Append(t, Space)

(* What is read of the characters at a set of positions, in their order.   *)
ReadOn(f, g, s) == IF s = {} THEN <<>> ELSE Add(g[s \ {Max(s)}], f[Max(s)])
Reads(f, S, g) == g = [s \in SUBSET S |-> ReadOn(f, g, s)]

LEMMA SqueezedIs ==
  ASSUME NEW f
  PROVE  Squeezed(f) = Trim((CHOOSE g : Reads(f, DOMAIN f, g))[DOMAIN f])
BY DEF Squeezed, FoldLeft, MapThenFoldSet, Reads, ReadOn, Add, Trim

(* The function that does so exists.                                       *)
LEMMA ReadsExist ==
  ASSUME NEW f, NEW n \in Nat
  PROVE  \E g : Reads(f, 1 .. n, g)
<1> DEFINE S == 1 .. n
           Upto(k) == {s \in SUBSET S : Cardinality(s) <= k}
           Part(g, k) == g = [s \in Upto(k) |-> ReadOn(f, g, s)]
           Bad == {k \in Nat : ~ \E g : Part(g, k)}
<1>0. /\ IsFiniteSet(S) /\ Cardinality(S) = n
      /\ \A s \in SUBSET S : /\ IsFiniteSet(s) /\ Cardinality(s) \in Nat
                             /\ Cardinality(s) <= n /\ s \in SUBSET Nat
                             /\ s # {} => Max(s) \in s
  <2>1. IsFiniteSet(S) /\ Cardinality(S) = n
    BY FS_Interval
  <2>2. S \in SUBSET Nat /\ \A x \in S : x <= n
    OBVIOUS
  <2> HIDE DEF S
  <2>3. \A s \in SUBSET S : IsFiniteSet(s) /\ Cardinality(s) \in Nat /\ Cardinality(s) <= n
    BY <2>1, FS_Subset, FS_CardinalityType
  <2>4. \A s \in SUBSET S : s \in SUBSET Nat /\ (s # {} => Max(s) \in s)
    BY <2>2, MaxIs
  <2>5. QED
    BY <2>1, <2>3, <2>4
<1>1. ASSUME Bad # {} PROVE FALSE
  <2>1. PICK m \in Bad : \A k \in Bad : m <= k
    <3>1. Bad \in SUBSET Nat
      OBVIOUS
    <3> HIDE DEF Bad
    <3>2. QED
      BY <1>1, <3>1, Smallest
  <2>2. m \in Nat /\ ~ \E g : Part(g, m)
    BY <2>1
  <2>3. CASE m = 0
    <3> DEFINE g == [s \in Upto(0) |-> <<>>]
    <3>1. \A s \in Upto(0) : s = {}
      BY <1>0, FS_EmptySet
    <3>2. \A s \in Upto(0) : ReadOn(f, g, s) = <<>>
      BY <3>1 DEF ReadOn
    <3>3. g = [s \in Upto(0) |-> ReadOn(f, g, s)]
      BY <3>2
    <3>4. QED
      BY <2>2, <2>3, <3>3
  <2>4. CASE m # 0
    <3>1. m - 1 \in Nat /\ m - 1 \notin Bad
      <4> HIDE DEF Bad
      <4>1. QED
        BY <2>1, <2>2, <2>4
    <3>2. PICK h : Part(h, m - 1)
      BY <3>1
    <3> DEFINE g == [s \in Upto(m) |-> IF s \in Upto(m - 1) THEN h[s] ELSE ReadOn(f, h, s)]
    <3>3. \A s \in Upto(m) : g[s] = ReadOn(f, h, s)
      BY <3>2
    <3>4. \A s \in Upto(m) : s # {} => s \ {Max(s)} \in Upto(m - 1) /\ s \ {Max(s)} \in Upto(m)
      <4> SUFFICES ASSUME NEW s \in Upto(m), s # {}
                   PROVE  s \ {Max(s)} \in Upto(m - 1) /\ s \ {Max(s)} \in Upto(m)
        OBVIOUS
      <4> DEFINE x == Max(s)
      <4>1. x \in s
        BY <1>0
      <4> HIDE DEF x
      <4>2. Cardinality(s \ {x}) = Cardinality(s) - 1 /\ Cardinality(s) \in Nat
            /\ Cardinality(s) <= m /\ s \in SUBSET S
        BY <1>0, <4>1, FS_RemoveElement
      <4> HIDE DEF S
      <4>3. s \ {x} \in Upto(m - 1) /\ s \ {x} \in Upto(m)
        BY <2>2, <4>2
      <4>4. QED
        BY <4>3 DEF x
    <3>5. \A s \in Upto(m - 1) : s \in Upto(m) => g[s] = h[s]
      OBVIOUS
    <3>6. \A s \in Upto(m) : ReadOn(f, g, s) = ReadOn(f, h, s)
      <4> SUFFICES ASSUME NEW s \in Upto(m) PROVE ReadOn(f, g, s) = ReadOn(f, h, s)
        OBVIOUS
      <4> HIDE DEF g, Upto
      <4>1. CASE s = {}
        BY <4>1 DEF ReadOn
      <4>2. CASE s # {}
        BY <3>4, <3>5, <4>2 DEF ReadOn
      <4>3. QED
        BY <4>1, <4>2
    <3>7. DOMAIN g = Upto(m) /\ g = [s \in Upto(m) |-> g[s]]
      OBVIOUS
    <3>8. \A s \in Upto(m) : g[s] = ReadOn(f, g, s)
      <4> HIDE DEF g, Upto
      <4>1. QED
        BY <3>3, <3>6
    <3>9. Part(g, m)
      <4> HIDE DEF g, Upto
      <4>1. QED
        BY <3>7, <3>8
    <3>10. QED
      BY <2>2, <3>9
  <2>5. QED
    BY <2>3, <2>4
<1>2. Upto(n) = SUBSET S
  BY <1>0
<1>3. \E g : Part(g, n)
  BY <1>1
<1> HIDE DEF Upto
<1>4. QED
  BY <1>2, <1>3 DEF Reads

(* The text read of the first n characters of a file.                      *)
Read(f, n) == (CHOOSE g : Reads(f, 1 .. Len(f), g))[1 .. n]

LEMMA ReadIs ==
  ASSUME NEW C, NEW f \in Seq(C)
  PROVE  /\ Read(f, 0) = <<>>
         /\ \A n \in 1 .. Len(f) : Read(f, n) = Add(Read(f, n - 1), f[n])
         /\ Squeezed(f) = Trim(Read(f, Len(f)))
<1>1. Len(f) \in Nat /\ DOMAIN f = 1 .. Len(f)
  BY LenProperties
<1> DEFINE N == Len(f)
           g == CHOOSE h : Reads(f, 1 .. N, h)
<1>2. Reads(f, 1 .. N, g)
  BY <1>1, ReadsExist
<1>3. \A n : Read(f, n) = g[1 .. n]
  BY DEF Read
<1>4. Squeezed(f) = Trim(g[1 .. N])
  BY <1>1, SqueezedIs
<1> HIDE DEF N, g
<1>5. \A s \in SUBSET (1 .. N) : g[s] = ReadOn(f, g, s)
  BY <1>2 DEF Reads
<1>6. Read(f, 0) = <<>>
  <2>1. 1 .. 0 = {}
    OBVIOUS
  <2>2. QED
    BY <1>3, <1>5, <2>1 DEF ReadOn
<1>7. ASSUME NEW n \in 1 .. N PROVE Read(f, n) = Add(Read(f, n - 1), f[n])
  <2> DEFINE s == 1 .. n
  <2>1. s \in SUBSET (1 .. N) /\ s # {} /\ n \in s /\ n \in Nat /\ s \in SUBSET Nat
        /\ s \ {n} = 1 .. n - 1 /\ \A x \in s : x <= n
    <3>1. N \in Nat /\ n \in Nat /\ 1 <= n /\ n <= N
      BY <1>1 DEF N
    <3>2. s \in SUBSET (1 .. N) /\ n \in s /\ s \in SUBSET Nat /\ \A x \in s : x <= n
      BY <3>1
    <3>3. s \ {n} = 1 .. n - 1
      BY <3>1
    <3>4. QED
      BY <3>1, <3>2, <3>3
  <2> HIDE DEF s
  <2>2. Max(s) = n
    <3>1. Max(s) \in s /\ \A x \in s : x <= Max(s)
      BY <2>1, MaxIs
    <3>2. QED
      BY <2>1, <3>1
  <2>3. g[s] = Add(g[1 .. n - 1], f[n])
    BY <1>5, <2>1, <2>2 DEF ReadOn
  <2>4. QED
    BY <1>3, <2>3 DEF s
<1>8. QED
  BY <1>3, <1>4, <1>6, <1>7 DEF N

-----------------------------------------------------------------------------
(* What a text that is read looks like.                                    *)

Words == Letters \cup {Space}

(* A text after blanks: it ends with a space now, unless it is empty.      *)
Blanked(t) == IF t = <<>> \/ Last(t) = Space THEN t ELSE Append(t, Space)

LEMMA AddIs ==
  ASSUME NEW t \in Seq(Words), NEW c \in Chars
  PROVE  /\ c \in Blanks => Add(t, c) = Blanked(t)
         /\ c \notin Blanks => /\ c \in Letters /\ c # Space
                               /\ Add(t, c) = Append(t, c)
BY CharsAssumption DEF Add, Blanked, IsSpaceEx, Chars

LEMMA AppendIs ==
  ASSUME NEW t \in Seq(Words), NEW c \in Words
  PROVE  /\ Append(t, c) \in Seq(Words) /\ Len(t) \in Nat
         /\ Len(Append(t, c)) = Len(t) + 1 /\ Append(t, c) # <<>>
         /\ Last(Append(t, c)) = c /\ Append(t, c)[Len(t) + 1] = c
         /\ \A k \in 1 .. Len(t) : Append(t, c)[k] = t[k]
<1>1. /\ Append(t, c) \in Seq(Words) /\ Len(Append(t, c)) = Len(t) + 1
      /\ Append(t, c)[Len(t) + 1] = c
      /\ \A k \in 1 .. Len(t) : Append(t, c)[k] = t[k]
  BY AppendProperties
<1>2. Len(t) \in Nat
  BY LenProperties
<1>3. Append(t, c) # <<>>
  BY <1>1, <1>2, EmptySeq
<1>4. Last(Append(t, c)) = c
  BY <1>1 DEF Last
<1>5. QED
  BY <1>1, <1>2, <1>3, <1>4

(* Trimming takes away a space at the end and nothing else.                *)
LEMMA TrimIs ==
  ASSUME NEW t \in Seq(Words)
  PROVE  /\ Len(Trim(t)) \in Nat /\ Len(t) \in Nat
         /\ Len(Trim(t)) \in {Len(t), Len(t) - 1}
         /\ \A k \in 1 .. Len(Trim(t)) : Trim(t)[k] = t[k]
         /\ t # <<>> /\ t[Len(t)] # Space => Len(Trim(t)) = Len(t)
         /\ t = <<>> \/ Last(t) # Space => Trim(t) = t
<1>1. Len(t) \in Nat /\ (t # <<>> => Len(t) # 0)
  BY LenProperties, EmptySeq
<1>2. CASE t # <<>> /\ Last(t) = Space
  <2>1. \A k \in 1 .. Len(t) - 1 : t[k] \in Words
    BY <1>1, ElementOfSeq
  <2>2. /\ Len(SubSeq(t, 1, Len(t) - 1)) = Len(t) - 1
        /\ \A k \in 1 .. Len(t) - 1 : SubSeq(t, 1, Len(t) - 1)[k] = t[k]
    <3> DEFINE n == Len(t) - 1
    <3>1. n \in Nat /\ \A k \in 1 .. n : t[k] \in Words
      BY <1>1, <1>2, <2>1
    <3> HIDE DEF n
    <3>2. /\ Len(SubSeq(t, 1, n)) = IF 1 <= n THEN n - 1 + 1 ELSE 0
          /\ \A k \in 1 .. n - 1 + 1 : SubSeq(t, 1, n)[k] = t[1 + k - 1]
      BY <3>1, SubSeqProperties
    <3>3. Len(SubSeq(t, 1, n)) = n
      BY <3>1, <3>2
    <3>4. \A k \in 1 .. n : SubSeq(t, 1, n)[k] = t[k]
      <4>1. \A k \in 1 .. n : 1 + k - 1 = k
        OBVIOUS
      <4>2. n - 1 + 1 = n
        BY <3>1
      <4>3. QED
        BY <3>2, <4>1, <4>2
    <3>5. QED
      BY <3>3, <3>4 DEF n
  <2>3. Trim(t) = SubSeq(t, 1, Len(t) - 1)
    BY <1>2 DEF Trim, Front
  <2>4. QED
    BY <1>1, <1>2, <2>2, <2>3 DEF Last
<1>3. CASE ~(t # <<>> /\ Last(t) = Space)
  <2>1. Trim(t) = t
    BY <1>3 DEF Trim
  <2>2. QED
    BY <1>1, <1>3, <2>1
<1>4. QED
  BY <1>2, <1>3

LEMMA TrimAppend ==
  ASSUME NEW t \in Seq(Words)
  PROVE  Trim(Append(t, Space)) = t
<1> DEFINE a == Append(t, Space)
<1>1. Space \in Words
  BY DEF Words
<1>2. a \in Seq(Words) /\ a # <<>> /\ Last(a) = Space /\ Len(a) = Len(t) + 1 /\ Len(t) \in Nat
  BY <1>1, AppendIs
<1>3. Trim(a) = SubSeq(a, 1, Len(t))
  BY <1>2 DEF Trim, Front
<1>4. SubSeq(a, 1, Len(t)) = t
  OBVIOUS
<1>5. QED
  BY <1>3, <1>4

LEMMA BlankedIs ==
  ASSUME NEW t \in Seq(Words)
  PROVE  /\ Blanked(t) \in Seq(Words)
         /\ Blanked(t) = <<>> \/ Last(Blanked(t)) = Space
         /\ Blanked(Blanked(t)) = Blanked(t)
         /\ Trim(Blanked(t)) = Trim(t)
         /\ t = <<>> \/ Last(t) = Space => Blanked(t) = t
<1>1. CASE t = <<>> \/ Last(t) = Space
  <2>1. Blanked(t) = t
    BY <1>1 DEF Blanked
  <2>2. QED
    BY <1>1, <2>1
<1>2. CASE ~(t = <<>> \/ Last(t) = Space)
  <2>1. Blanked(t) = Append(t, Space)
    BY <1>2 DEF Blanked
  <2>2. Append(t, Space) \in Seq(Words) /\ Last(Append(t, Space)) = Space
    BY AppendIs DEF Words
  <2>3. Blanked(Append(t, Space)) = Append(t, Space)
    BY <2>2 DEF Blanked
  <2>4. Trim(Append(t, Space)) = Trim(t)
    BY <1>2, TrimAppend, TrimIs
  <2>5. QED
    BY <1>2, <2>1, <2>2, <2>3, <2>4
<1>3. QED
  BY <1>1, <1>2

(* Adding a character leaves what was read in its place.                   *)
LEMMA AddKeeps ==
  ASSUME NEW t \in Seq(Words), NEW c \in Chars
  PROVE  /\ Add(t, c) \in Seq(Words)
         /\ Len(t) \in Nat /\ Len(Add(t, c)) \in Nat /\ Len(t) <= Len(Add(t, c))
         /\ \A k \in 1 .. Len(t) : Add(t, c)[k] = t[k]
<1>0. Len(t) \in Nat
  BY LenProperties
<1>1. CASE Add(t, c) = t
  BY <1>0, <1>1
<1>2. CASE \E d \in Words : Add(t, c) = Append(t, d)
  <2>1. PICK d \in Words : Add(t, c) = Append(t, d)
    BY <1>2
  <2>2. /\ Append(t, d) \in Seq(Words) /\ Len(Append(t, d)) = Len(t) + 1
        /\ \A k \in 1 .. Len(t) : Append(t, d)[k] = t[k]
    BY AppendIs
  <2>3. QED
    BY <1>0, <2>1, <2>2
<1>3. Add(t, c) = t \/ \E d \in Words : Add(t, c) = Append(t, d)
  BY AddIs DEF Blanked, Words
<1>4. QED
  BY <1>1, <1>2, <1>3

LEMMA ReadType ==
  ASSUME NEW f \in Seq(Chars), NEW n \in 0 .. Len(f)
  PROVE  Read(f, n) \in Seq(Words) /\ Len(Read(f, n)) \in Nat
<1> DEFINE Bad == {m \in 0 .. Len(f) : Read(f, m) \notin Seq(Words)}
<1>0. Len(f) \in Nat /\ \A k \in 1 .. Len(f) : f[k] \in Chars
  BY LenProperties, ElementOfSeq
<1>1. ASSUME Bad # {} PROVE FALSE
  <2>1. Bad \in SUBSET Nat
    BY <1>0
  <2> HIDE DEF Bad
  <2>2. PICK m \in Bad : \A k \in Bad : m <= k
    BY <1>1, <2>1, Smallest
  <2>3. m \in 0 .. Len(f) /\ Read(f, m) \notin Seq(Words)
    BY <2>2 DEF Bad
  <2>4. CASE m = 0
    BY <2>3, <2>4, ReadIs, EmptySeq
  <2>5. CASE m # 0
    <3>1. m \in 1 .. Len(f) /\ m - 1 \in 0 .. Len(f) /\ m - 1 \notin Bad
      BY <1>0, <2>2, <2>3, <2>5
    <3>2. Read(f, m - 1) \in Seq(Words)
      BY <3>1 DEF Bad
    <3>3. Read(f, m) = Add(Read(f, m - 1), f[m])
      BY <3>1, ReadIs
    <3>4. QED
      BY <1>0, <2>3, <3>1, <3>2, <3>3, AddKeeps
  <2>6. QED
    BY <2>4, <2>5
<1>2. Read(f, n) \in Seq(Words)
  BY <1>1
<1>3. QED
  BY <1>2, LenProperties

(* What is read stays a beginning of what is read later.                   *)
Begins(s, t) == Len(s) <= Len(t) /\ \A k \in 1 .. Len(s) : t[k] = s[k]

LEMMA ReadKeeps ==
  ASSUME NEW f \in Seq(Chars), NEW n \in 0 .. Len(f), NEW m \in n .. Len(f)
  PROVE  Begins(Read(f, n), Read(f, m))
<1> DEFINE Bad == {k \in n .. Len(f) : ~Begins(Read(f, n), Read(f, k))}
<1>0. Len(f) \in Nat /\ n \in Nat /\ \A k \in 1 .. Len(f) : f[k] \in Chars
  BY LenProperties, ElementOfSeq
<1>1. ASSUME Bad # {} PROVE FALSE
  <2>1. Bad \in SUBSET Nat
    BY <1>0
  <2> HIDE DEF Bad
  <2>2. PICK k \in Bad : \A l \in Bad : k <= l
    BY <1>1, <2>1, Smallest
  <2>3. k \in n .. Len(f) /\ ~Begins(Read(f, n), Read(f, k))
    BY <2>2 DEF Bad
  <2>4. k # n
    <3>1. Len(Read(f, n)) \in Nat
      BY ReadType
    <3>2. Begins(Read(f, n), Read(f, n))
      BY <3>1 DEF Begins
    <3>3. QED
      BY <2>3, <3>2
  <2>5. k \in 1 .. Len(f) /\ k - 1 \in n .. Len(f) /\ k - 1 \in 0 .. Len(f) /\ k - 1 \notin Bad
    BY <1>0, <2>2, <2>3, <2>4
  <2>6. Begins(Read(f, n), Read(f, k - 1))
    BY <2>5 DEF Bad
  <2>7. /\ Read(f, n) \in Seq(Words) /\ Len(Read(f, n)) \in Nat
        /\ Read(f, k - 1) \in Seq(Words)
    BY <2>5, ReadType
  <2>8. Read(f, k) = Add(Read(f, k - 1), f[k])
    BY <2>5, ReadIs
  <2>9. /\ Len(Read(f, k - 1)) \in Nat /\ Len(Read(f, k)) \in Nat
        /\ Begins(Read(f, k - 1), Read(f, k))
    <3>1. f[k] \in Chars
      BY <1>0, <2>5
    <3>2. /\ Len(Read(f, k - 1)) \in Nat /\ Len(Add(Read(f, k - 1), f[k])) \in Nat
          /\ Begins(Read(f, k - 1), Add(Read(f, k - 1), f[k]))
      BY <2>7, <3>1, AddKeeps DEF Begins
    <3>3. QED
      BY <2>8, <3>2
  <2>10. Begins(Read(f, n), Read(f, k))
    BY <2>6, <2>7, <2>9 DEF Begins
  <2>11. QED
    BY <2>3, <2>10
<1>2. m \notin Bad
  BY <1>1
<1>3. QED
  BY <1>2

(* A run of blanks adds one space, or none.                                *)
LEMMA ReadBlanks ==
  ASSUME NEW f \in Seq(Chars), NEW n \in 0 .. Len(f), NEW m \in n .. Len(f),
         \A k \in n + 1 .. m : f[k] \in Blanks
  PROVE  Read(f, m) = IF m = n THEN Read(f, n) ELSE Blanked(Read(f, n))
<1> DEFINE After(k) == IF k = n THEN Read(f, n) ELSE Blanked(Read(f, n))
           Bad == {k \in n .. m : Read(f, k) # After(k)}
<1>0. Len(f) \in Nat /\ n \in Nat /\ m \in Nat /\ \A k \in 1 .. Len(f) : f[k] \in Chars
  BY LenProperties, ElementOfSeq
<1>1. ASSUME Bad # {} PROVE FALSE
  <2>1. Bad \in SUBSET Nat
    BY <1>0
  <2> HIDE DEF Bad
  <2>2. PICK k \in Bad : \A l \in Bad : k <= l
    BY <1>1, <2>1, Smallest
  <2>3. k \in n .. m /\ Read(f, k) # After(k)
    BY <2>2 DEF Bad
  <2>4. k # n
    BY <2>3
  <2>5. k \in 1 .. Len(f) /\ k - 1 \in n .. m /\ k - 1 \in 0 .. Len(f) /\ k - 1 \notin Bad
        /\ k \in n + 1 .. m
    BY <1>0, <2>2, <2>3, <2>4
  <2>6. Read(f, k - 1) = After(k - 1)
    BY <2>5 DEF Bad
  <2>7. Read(f, n) \in Seq(Words) /\ Read(f, k - 1) \in Seq(Words)
    BY <2>5, ReadType
  <2>8. Read(f, k) = Blanked(Read(f, k - 1))
    <3>1. f[k] \in Blanks /\ f[k] \in Chars
      BY <1>0, <2>5
    <3>2. Add(Read(f, k - 1), f[k]) = Blanked(Read(f, k - 1))
      BY <2>7, <3>1, AddIs
    <3>3. QED
      BY <2>5, <3>2, ReadIs
  <2>9. Read(f, k) = Blanked(Read(f, n))
    BY <2>6, <2>7, <2>8, BlankedIs
  <2>10. QED
    BY <2>3, <2>4, <2>9
<1>2. m \notin Bad
  BY <1>1
<1>3. QED
  BY <1>0, <1>2

-----------------------------------------------------------------------------
(* Where the squeezed texts show the character in hand.                    *)

(* A letter stands right behind what was read before it.                   *)
LEMMA LetterStays ==
  ASSUME NEW f \in Seq(Chars), NEW n \in 1 .. Len(f), f[n] \notin Blanks
  PROVE  /\ Len(Squeezed(f)) \in Nat
         /\ Len(Read(f, n - 1)) + 1 <= Len(Squeezed(f))
         /\ Squeezed(f)[Len(Read(f, n - 1)) + 1] = f[n]
<1> DEFINE N == Len(f)
           before == Read(f, n - 1)
           here == Read(f, n)
           all == Read(f, N)
           l == Len(before)
<1>1. N \in Nat /\ n \in 0 .. N /\ n - 1 \in 0 .. N /\ N \in n .. N /\ f[n] \in Chars
      /\ N \in 0 .. N
  BY LenProperties, ElementOfSeq
<1>2. before \in Seq(Words) /\ l \in Nat /\ all \in Seq(Words)
  BY <1>1, ReadType
<1>3. here = Append(before, f[n]) /\ f[n] \in Letters /\ f[n] # Space
  <2>1. here = Add(before, f[n])
    BY ReadIs
  <2>2. QED
    BY <1>1, <1>2, <2>1, AddIs
<1>4. here \in Seq(Words) /\ Len(here) = l + 1 /\ here[l + 1] = f[n]
  BY <1>2, <1>3, AppendIs DEF Words
<1>5. Begins(here, all)
  BY <1>1, ReadKeeps
<1>6. Squeezed(f) = Trim(all)
  BY ReadIs
<1> HIDE DEF before, here, all, l, N
<1>7. Len(all) \in Nat /\ l + 1 <= Len(all) /\ all[l + 1] = f[n]
  BY <1>2, <1>4, <1>5, LenProperties DEF Begins
<1>8. /\ Len(Trim(all)) \in Nat /\ Len(Trim(all)) \in {Len(all), Len(all) - 1}
      /\ \A k \in 1 .. Len(Trim(all)) : Trim(all)[k] = all[k]
      /\ all # <<>> /\ all[Len(all)] # Space => Len(Trim(all)) = Len(all)
  BY <1>2, TrimIs
<1>9. l + 1 <= Len(Trim(all))
  <2>1. CASE l + 1 = Len(all)
    <3>1. all # <<>>
      BY <1>2, <1>7, EmptySeq
    <3>2. QED
      BY <1>3, <1>7, <1>8, <2>1, <3>1
  <2>2. CASE l + 1 # Len(all)
    BY <1>2, <1>7, <1>8, <2>2
  <2>3. QED
    BY <2>1, <2>2
<1>10. l + 1 \in 1 .. Len(Trim(all))
  BY <1>2, <1>8, <1>9
<1>11. QED
  BY <1>6, <1>7, <1>8, <1>9, <1>10 DEF before, l

(* A blank after a word is a space there, or the end.                      *)
LEMMA BlankStays ==
  ASSUME NEW f \in Seq(Chars), NEW n \in 1 .. Len(f), f[n] \in Blanks,
         Read(f, n - 1) # <<>>, Last(Read(f, n - 1)) # Space
  PROVE  /\ Len(Squeezed(f)) \in Nat
         /\ \/ Len(Squeezed(f)) <= Len(Read(f, n - 1))
            \/ Squeezed(f)[Len(Read(f, n - 1)) + 1] = Space
<1> DEFINE N == Len(f)
           before == Read(f, n - 1)
           here == Read(f, n)
           all == Read(f, N)
           l == Len(before)
<1>1. N \in Nat /\ n \in 0 .. N /\ n - 1 \in 0 .. N /\ N \in n .. N /\ f[n] \in Chars
      /\ N \in 0 .. N
  BY LenProperties, ElementOfSeq
<1>2. before \in Seq(Words) /\ l \in Nat /\ all \in Seq(Words)
  BY <1>1, ReadType
<1>3. here = Append(before, Space)
  <2>1. here = Add(before, f[n])
    BY ReadIs
  <2>2. QED
    BY <1>1, <1>2, <2>1, AddIs DEF Blanked
<1>4. here \in Seq(Words) /\ Len(here) = l + 1 /\ here[l + 1] = Space
  BY <1>2, <1>3, AppendIs DEF Words
<1>5. Begins(here, all)
  BY <1>1, ReadKeeps
<1>6. Squeezed(f) = Trim(all)
  BY ReadIs
<1> HIDE DEF before, here, all, l, N
<1>7. Len(all) \in Nat /\ l + 1 <= Len(all) /\ all[l + 1] = Space
  BY <1>2, <1>4, <1>5, LenProperties DEF Begins
<1>8. /\ Len(Trim(all)) \in Nat
      /\ \A k \in 1 .. Len(Trim(all)) : Trim(all)[k] = all[k]
  BY <1>2, TrimIs
<1>9. Len(Trim(all)) <= l \/ Trim(all)[l + 1] = Space
  BY <1>2, <1>7, <1>8
<1>10. QED
  BY <1>6, <1>8, <1>9 DEF before, l

-----------------------------------------------------------------------------
(* The types.                                                              *)

Place(f, k) == k \in 1 .. Len(f) + 1

LEMMA AtIs ==
  ASSUME NEW f \in Seq(Chars), NEW k, Place(f, k)
  PROVE  /\ Len(f) \in Nat /\ k \in Nat
         /\ At(f, k) = EOF <=> k = Len(f) + 1
         /\ At(f, k) # EOF => k \in 1 .. Len(f) /\ At(f, k) = f[k] /\ f[k] \in Chars
         /\ At(f, k) \in Blanks => At(f, k) # EOF
<1>1. Len(f) \in Nat /\ \A n \in 1 .. Len(f) : f[n] \in Chars
  BY LenProperties, ElementOfSeq
<1>2. k \in Nat /\ k <= Len(f) + 1 /\ 1 <= k
  BY <1>1 DEF Place
<1>3. CASE k = Len(f) + 1
  BY <1>1, <1>3, CharsAssumption DEF At
<1>4. CASE k # Len(f) + 1
  <2>1. k \in 1 .. Len(f) /\ At(f, k) = f[k]
    BY <1>1, <1>2, <1>4 DEF At
  <2>2. f[k] \in Chars /\ EOF \notin Chars /\ Blanks \subseteq Chars
    BY <1>1, <2>1, CharsAssumption DEF Chars
  <2>3. QED
    BY <1>1, <1>2, <1>4, <2>1, <2>2
<1>5. QED
  BY <1>3, <1>4

(* A loop over blanks ends, and has read blanks only.                      *)
LEMMA FirstOutsideIs ==
  ASSUME NEW f \in Seq(Chars), NEW k, Place(f, k), NEW S \in SUBSET Blanks
  PROVE  /\ Place(f, FirstOutside(f, k, S)) /\ FirstOutside(f, k, S) \in k .. Len(f) + 1
         /\ At(f, FirstOutside(f, k, S)) \notin S
         /\ \A m \in k .. FirstOutside(f, k, S) - 1 : m \in 1 .. Len(f) /\ f[m] \in S
<1> DEFINE ends == {n \in k .. Len(f) + 1 : At(f, n) \notin S}
           Ends(n) == At(f, n) \notin S /\ \A m \in k .. n - 1 : At(f, m) \in S
<1>1. Len(f) \in Nat /\ k \in Nat /\ k \in 1 .. Len(f) + 1
  BY LenProperties DEF Place
<1>2. Len(f) + 1 \in ends
  <2>1. Place(f, Len(f) + 1)
    BY <1>1 DEF Place
  <2>2. At(f, Len(f) + 1) \notin Blanks
    BY <2>1, AtIs
  <2>3. QED
    BY <1>1, <2>2
<1>3. ends \in SUBSET Nat /\ \A n \in k .. Len(f) + 1 : At(f, n) \in S \/ n \in ends
  BY <1>1
<1>4. \A n \in ends : n \in k .. Len(f) + 1 /\ At(f, n) \notin S
  OBVIOUS
<1> HIDE DEF ends
<1>5. PICK n \in ends : \A m \in ends : n <= m
  BY <1>2, <1>3, Smallest
<1>6. \A m \in k .. n - 1 : At(f, m) \in S
  <2>1. n \in Nat /\ n <= Len(f) + 1
    BY <1>1, <1>4, <1>5
  <2> SUFFICES ASSUME NEW m \in k .. n - 1 PROVE At(f, m) \in S
    OBVIOUS
  <2>2. m \in k .. Len(f) + 1 /\ m \in Nat /\ ~(n <= m)
    BY <1>1, <2>1
  <2>3. QED
    BY <1>3, <1>5, <2>2
<1>7. \E x \in k .. Len(f) + 1 : Ends(x)
  BY <1>4, <1>5, <1>6
<1> DEFINE e == FirstOutside(f, k, S)
<1>8. e = CHOOSE x \in k .. Len(f) + 1 : Ends(x)
  BY DEF FirstOutside
<1>9. e \in k .. Len(f) + 1 /\ Ends(e)
  BY <1>7, <1>8
<1> HIDE DEF e
<1>10. Place(f, e)
  BY <1>1, <1>9 DEF Place
<1>11. ASSUME NEW m \in k .. e - 1 PROVE m \in 1 .. Len(f) /\ f[m] \in S
  <2>1. m \in 1 .. Len(f)
    BY <1>1, <1>9
  <2>2. At(f, m) = f[m]
    BY <1>1, <2>1 DEF At
  <2>3. At(f, m) \in S
    BY <1>9
  <2>4. QED
    BY <2>1, <2>2, <2>3
<1>12. QED
  BY <1>9, <1>10, <1>11 DEF e

LEMMA PastBlankIs ==
  ASSUME NEW f \in Seq(Chars), NEW k, Place(f, k)
  PROVE  /\ Place(f, PastBlank(f, k))
         /\ At(f, k) \in Blanks => PastBlank(f, k) = k + 1 /\ k \in 1 .. Len(f) /\ f[k] \in Blanks
         /\ At(f, k) \notin Blanks => PastBlank(f, k) = k
<1>1. Len(f) \in Nat /\ k \in Nat /\ 1 <= k
  BY LenProperties DEF Place
<1>2. CASE At(f, k) \in Blanks
  <2>1. k \in 1 .. Len(f) /\ f[k] \in Blanks
    BY <1>2, AtIs
  <2>2. PastBlank(f, k) = k + 1
    BY <1>2 DEF PastBlank, IsSpaceEx
  <2>3. QED
    BY <1>1, <1>2, <2>1, <2>2 DEF Place
<1>3. CASE At(f, k) \notin Blanks
  BY <1>3 DEF PastBlank, IsSpaceEx
<1>4. QED
  BY <1>2, <1>3

(* A text, read up to a place.                                             *)
LEMMA Reading ==
  ASSUME NEW f \in Seq(Chars), NEW k, Place(f, k)
  PROVE  /\ Read(f, k - 1) \in Seq(Words) /\ Len(Read(f, k - 1)) \in Nat
         /\ k = 1 => Read(f, k - 1) = <<>>
         /\ At(f, k) = EOF => Squeezed(f) = Trim(Read(f, k - 1))
         /\ At(f, k) # EOF /\ At(f, k) \notin Blanks =>
              /\ Place(f, k + 1) /\ At(f, k) \in Letters /\ At(f, k) # Space
              /\ Read(f, k) = Append(Read(f, k - 1), At(f, k))
<1>1. Len(f) \in Nat /\ k \in Nat /\ 1 <= k /\ k <= Len(f) + 1 /\ k - 1 \in 0 .. Len(f)
  BY LenProperties DEF Place
<1>2. Read(f, k - 1) \in Seq(Words) /\ Len(Read(f, k - 1)) \in Nat
  BY <1>1, ReadType
<1>3. k = 1 => Read(f, k - 1) = <<>>
  BY ReadIs
<1>4. ASSUME At(f, k) = EOF PROVE Squeezed(f) = Trim(Read(f, k - 1))
  <2>1. k - 1 = Len(f)
    BY <1>1, <1>4, AtIs
  <2>2. QED
    BY <2>1, ReadIs
<1>5. ASSUME At(f, k) # EOF, At(f, k) \notin Blanks
      PROVE  /\ Place(f, k + 1) /\ At(f, k) \in Letters /\ At(f, k) # Space
             /\ Read(f, k) = Append(Read(f, k - 1), At(f, k))
  <2>1. k \in 1 .. Len(f) /\ At(f, k) = f[k] /\ f[k] \in Chars
    BY <1>5, AtIs
  <2>2. Place(f, k + 1) /\ k + 1 - 1 = k
    BY <1>1, <2>1 DEF Place
  <2>3. Read(f, k) = Add(Read(f, k - 1), f[k])
    BY <2>1, ReadIs
  <2>4. QED
    BY <1>2, <1>5, <2>1, <2>2, <2>3, AddIs
<1>6. QED
  BY <1>2, <1>3, <1>4, <1>5

(* Blanks that are skipped make one space, or none.                        *)
LEMMA Skipped ==
  ASSUME NEW f \in Seq(Chars), NEW k, Place(f, k), NEW n, Place(f, n), k <= n,
         \A m \in k .. n - 1 : f[m] \in Blanks
  PROVE  Read(f, n - 1) = IF n = k THEN Read(f, k - 1) ELSE Blanked(Read(f, k - 1))
<1>1. Len(f) \in Nat /\ k \in Nat /\ n \in Nat /\ 1 <= k /\ n <= Len(f) + 1
  BY LenProperties DEF Place
<1>2. k - 1 \in 0 .. Len(f) /\ n - 1 \in k - 1 .. Len(f) /\ k - 1 + 1 = k
      /\ (n - 1 = k - 1 <=> n = k)
  BY <1>1
<1>3. QED
  BY <1>2, ReadBlanks

(* So do those that both files have, whichever of them were skipped for    *)
(* the end of a line.                                                      *)
LEMMA PairRead ==
  ASSUME NEW f \in Seq(Chars), NEW k, Place(f, k), At(f, k) \in Blanks,
         NEW S \in SUBSET Blanks, NEW n \in {k, FirstOutside(f, k, S)}
  PROVE  /\ Place(f, n) /\ Place(f, PastBlank(f, n))
         /\ Read(f, PastBlank(f, n) - 1) = Blanked(Read(f, k - 1))
<1>1. Len(f) \in Nat /\ k \in Nat
  BY LenProperties DEF Place
<1>2. Place(f, n) /\ n \in k .. Len(f) + 1 /\ n \in Nat /\ k <= n
      /\ \A m \in k .. n - 1 : f[m] \in Blanks
  <2>1. CASE n = k
    BY <1>1, <2>1 DEF Place
  <2>2. CASE n = FirstOutside(f, k, S)
    <3>1. Place(f, n) /\ n \in k .. Len(f) + 1 /\ \A m \in k .. n - 1 : f[m] \in Blanks
      BY <2>2, FirstOutsideIs
    <3>2. QED
      BY <1>1, <3>1
  <2>3. QED
    BY <2>1, <2>2
<1> DEFINE e == PastBlank(f, n)
<1>3. /\ Place(f, e) /\ e \in {n, n + 1} /\ (e = n + 1 => f[n] \in Blanks)
      /\ (n = k => e = n + 1)
  BY <1>2, PastBlankIs
<1> HIDE DEF e
<1>4. e # k /\ k <= e /\ \A m \in k .. e - 1 : f[m] \in Blanks
  BY <1>1, <1>2, <1>3
<1>5. QED
  BY <1>2, <1>3, <1>4, Skipped DEF e

-----------------------------------------------------------------------------
(* The invariant.  While the words are compared both texts have been read  *)
(* to the same words; between two words what they agree in is what is left *)
(* of them without the space at the end, and a blank that only one of them *)
(* has adds nothing, because a space is there already or no word has come. *)

OutRead == Read(out, i - 1)
AnsRead == Read(ans, j - 1)
Letter(c) == c # EOF /\ c \notin Blanks
AfterWord(t) == t # <<>> /\ Last(t) # Space

OpenVerdict == pc # "end" => ret # "V_WA"

InTheWord ==
  pc = "words" =>
    /\ OutRead = AnsRead
    /\ (Letter(c1) /\ Letter(c2)) \/ AfterWord(OutRead)

BetweenWords ==
  pc = "blanks" =>
    /\ Trim(OutRead) = Trim(AnsRead)
    /\ \/ EOF \in {c1, c2}
       \/ /\ OutRead = AnsRead
          /\ ~AfterWord(OutRead) \/ (c1 \in Blanks /\ c2 \in Blanks)

IInv == TypeOK /\ OpenVerdict /\ InTheWord /\ BetweenWords /\ WordsDecide

LEMMA Places ==
  ASSUME TypeOK
  PROVE  /\ out \in Seq(Chars) /\ ans \in Seq(Chars)
         /\ Place(out, i) /\ Place(ans, j)
         /\ OutRead \in Seq(Words) /\ AnsRead \in Seq(Words)
         /\ Len(OutRead) \in Nat /\ Len(AnsRead) \in Nat
<1>1. out \in Seq(Chars) /\ ans \in Seq(Chars) /\ Place(out, i) /\ Place(ans, j)
  BY DEF TypeOK, Place
<1>2. QED
  BY <1>1, Reading DEF OutRead, AnsRead

LEMMA InitInv == Init => IInv
<1> SUFFICES ASSUME Init PROVE IInv
  OBVIOUS
<1>1. out \in Seq(Chars) /\ ans \in Seq(Chars)
  <2>1. \A t \in Texts : t \in Seq(Chars)
    <3> SUFFICES ASSUME NEW t \in Texts PROVE t \in Seq(Chars)
      OBVIOUS
    <3>1. PICK m \in 0 .. MaxLength : t \in [1 .. m -> Chars]
      BY DEF Texts, BoundedSeq, SeqOf
    <3>2. m \in Nat
      BY LengthAssumption
    <3>3. QED
      BY <3>1, <3>2, SeqDef
  <2>2. QED
    BY <2>1 DEF Init
<1>2. TypeOK
  <2>1. Len(out) \in Nat /\ Len(ans) \in Nat
    BY <1>1, LenProperties
  <2>2. i \in 1 .. Len(out) + 1 /\ j \in 1 .. Len(ans) + 1
    BY <2>1 DEF Init
  <2>3. QED
    BY <1>1, <2>2 DEF Init, TypeOK
<1>3. OutRead = <<>> /\ AnsRead = <<>>
  BY <1>2, Places, Reading DEF Init, OutRead, AnsRead
<1>4. QED
  BY <1>2, <1>3 DEF Init, IInv, OpenVerdict, InTheWord, BetweenWords, WordsDecide, AfterWord

-----------------------------------------------------------------------------
(* Every step keeps it.                                                    *)

(* A step that ends the comparison with the right verdict.                 *)
LEMMA EndsRight ==
  ASSUME TypeOK, UNCHANGED files, NEW v \in {"V_AC", "V_PE", "V_WA"}, End(v),
         v = "V_WA" <=> Squeezed(out) # Squeezed(ans)
  PROVE  IInv'
<1>1. /\ out' = out /\ ans' = ans /\ i' = i /\ j' = j /\ pc' = "end" /\ ret' = v
  BY DEF End, files
<1>2. TypeOK'
  BY <1>1 DEF TypeOK
<1>3. Squeezed(out)' = Squeezed(out) /\ Squeezed(ans)' = Squeezed(ans)
  BY <1>1
<1>4. WordsDecide'
  BY <1>1, <1>3 DEF WordsDecide
<1>5. QED
  BY <1>1, <1>2, <1>4 DEF IInv, OpenVerdict, InTheWord, BetweenWords

(* A step that does not.                                                   *)
LEMMA GoesOn ==
  ASSUME TypeOK, UNCHANGED files, pc' \in {"words", "blanks"}, ret' \in {"V_AC", "V_PE"},
         Place(out, i'), Place(ans, j'), InTheWord', BetweenWords'
  PROVE  IInv'
<1>1. out' = out /\ ans' = ans
  BY DEF files
<1>2. TypeOK'
  BY <1>1 DEF TypeOK, Place
<1>3. QED
  BY <1>2 DEF IInv, OpenVerdict, WordsDecide

LEMMA OpenIs ==
  ASSUME IInv, pc # "end"
  PROVE  TypeOK /\ ret \in {"V_AC", "V_PE"}
BY DEF IInv, TypeOK, OpenVerdict

LEMMA SameCharacterInv == IInv /\ UNCHANGED files /\ SameCharacter => IInv'
<1> SUFFICES ASSUME IInv, UNCHANGED files, SameCharacter PROVE IInv'
  OBVIOUS
<1>1. /\ pc = "words" /\ Letter(c1) /\ c2 = c1
      /\ i' = i + 1 /\ j' = j + 1 /\ pc' = "words" /\ ret' = ret
      /\ out' = out /\ ans' = ans
  BY DEF SameCharacter, InWord, Letter, IsSpaceEx, files
<1>2. TypeOK /\ ret' \in {"V_AC", "V_PE"}
  BY <1>1, OpenIs
<1>3. OutRead = AnsRead /\ OutRead \in Seq(Words) /\ out \in Seq(Chars) /\ ans \in Seq(Chars)
      /\ Place(out, i) /\ Place(ans, j)
  BY <1>1, <1>2, Places DEF IInv, InTheWord
<1>4. Place(out, i + 1) /\ Read(out, i) = Append(OutRead, c1)
      /\ c1 \in Letters /\ c1 # Space
  BY <1>1, <1>3, Reading DEF Letter, c1, OutRead
<1>5. Place(ans, j + 1) /\ Read(ans, j) = Append(AnsRead, c1)
  <2>1. At(ans, j) = c1 /\ Letter(At(ans, j))
    BY <1>1 DEF c2
  <2>2. QED
    BY <1>3, <2>1, Reading DEF Letter, AnsRead
<1>6. OutRead' = Append(OutRead, c1) /\ AnsRead' = OutRead'
  <2>1. OutRead' = Read(out, i)
    <3>1. out' = out /\ i' - 1 = i
      BY <1>1, <1>3, AtIs
    <3>2. QED
      BY <3>1 DEF OutRead
  <2>2. AnsRead' = Read(ans, j)
    <3>1. ans' = ans /\ j' - 1 = j
      BY <1>1, <1>3, AtIs
    <3>2. QED
      BY <3>1 DEF AnsRead
  <2>3. QED
    BY <1>3, <1>4, <1>5, <2>1, <2>2
<1>7. AfterWord(Append(OutRead, c1))
  <2>1. c1 \in Words
    BY <1>4 DEF Words
  <2>2. QED
    BY <1>3, <1>4, <2>1, AppendIs DEF AfterWord
<1>8. InTheWord' /\ BetweenWords'
  BY <1>1, <1>6, <1>7 DEF InTheWord, BetweenWords
<1>9. QED
  BY <1>1, <1>2, <1>4, <1>5, <1>8, GoesOn

LEMMA BothEndInv == IInv /\ UNCHANGED files /\ BothEnd => IInv'
<1> SUFFICES ASSUME IInv, UNCHANGED files, BothEnd PROVE IInv'
  OBVIOUS
<1>1. pc = "words" /\ c1 = EOF /\ c2 = EOF /\ End(ret)
  BY DEF BothEnd, InWord
<1>2. TypeOK /\ ret \in {"V_AC", "V_PE"}
  BY <1>1, OpenIs
<1>3. OutRead = AnsRead
  BY <1>1 DEF IInv, InTheWord
<1>4. Squeezed(out) = Trim(OutRead) /\ Squeezed(ans) = Trim(AnsRead)
  BY <1>1, <1>2, Places, Reading DEF c1, c2, OutRead, AnsRead
<1>5. QED
  BY <1>1, <1>2, <1>3, <1>4, EndsRight

(* A letter against anything else in the same place.                       *)
LEMMA LetterDiffers ==
  ASSUME NEW f \in Seq(Chars), NEW k, Place(f, k), Letter(At(f, k)),
         NEW g \in Seq(Chars), NEW n, Place(g, n), At(g, n) # EOF, At(g, n) # At(f, k),
         Read(f, k - 1) = Read(g, n - 1),
         Letter(At(g, n)) \/ AfterWord(Read(f, k - 1))
  PROVE  Squeezed(f) # Squeezed(g)
<1> DEFINE l == Len(Read(f, k - 1))
<1>1. k \in 1 .. Len(f) /\ f[k] = At(f, k) /\ f[k] \notin Blanks
  BY AtIs DEF Letter
<1>2. n \in 1 .. Len(g) /\ g[n] = At(g, n) /\ g[n] \in Chars
  BY AtIs
<1>3. /\ Len(Squeezed(f)) \in Nat /\ l + 1 <= Len(Squeezed(f))
      /\ Squeezed(f)[l + 1] = f[k]
  BY <1>1, LetterStays
<1>4. l \in Nat /\ At(f, k) # Space
  BY Reading DEF Letter
<1>5. CASE g[n] \notin Blanks
  <2>1. Squeezed(g)[l + 1] = g[n]
    BY <1>2, <1>5, LetterStays
  <2>2. QED
    BY <1>1, <1>2, <1>3, <2>1
<1>6. CASE g[n] \in Blanks
  <2>1. AfterWord(Read(g, n - 1))
    BY <1>2, <1>6 DEF Letter
  <2>2. /\ Len(Squeezed(g)) \in Nat
        /\ Len(Squeezed(g)) <= l \/ Squeezed(g)[l + 1] = Space
    BY <1>2, <1>6, <2>1, BlankStays DEF AfterWord
  <2> HIDE DEF l
  <2>3. QED
    BY <1>1, <1>3, <1>4, <2>2
<1>7. QED
  BY <1>5, <1>6

LEMMA WrongCharacterInv == IInv /\ UNCHANGED files /\ WrongCharacter => IInv'
<1> SUFFICES ASSUME IInv, UNCHANGED files, WrongCharacter PROVE IInv'
  OBVIOUS
<1>1. /\ pc = "words" /\ c1 # c2 /\ c1 # EOF /\ c2 # EOF /\ End("V_WA")
      /\ Letter(c1) \/ Letter(c2)
  BY DEF WrongCharacter, InWord, Letter, IsSpaceEx
<1>2. TypeOK
  BY <1>1, OpenIs
<1>3. /\ out \in Seq(Chars) /\ ans \in Seq(Chars) /\ Place(out, i) /\ Place(ans, j)
      /\ OutRead = AnsRead
      /\ (Letter(c1) /\ Letter(c2)) \/ AfterWord(OutRead)
  BY <1>1, <1>2, Places DEF IInv, InTheWord
<1>4. CASE Letter(c1)
  <2>1. Letter(c2) \/ AfterWord(OutRead)
    BY <1>3
  <2>2. Squeezed(out) # Squeezed(ans)
    BY <1>1, <1>3, <1>4, <2>1, LetterDiffers DEF c1, c2, OutRead, AnsRead
  <2>3. QED
    BY <1>1, <1>2, <2>2, EndsRight
<1>5. CASE Letter(c2)
  <2>1. Letter(c1) \/ AfterWord(AnsRead)
    BY <1>3
  <2>2. Squeezed(ans) # Squeezed(out)
    BY <1>1, <1>3, <1>5, <2>1, LetterDiffers DEF c1, c2, OutRead, AnsRead
  <2>3. QED
    BY <1>1, <1>2, <2>2, EndsRight
<1>6. QED
  BY <1>1, <1>4, <1>5

LEMMA WordsEndInv == IInv /\ UNCHANGED files /\ WordsEnd => IInv'
<1> SUFFICES ASSUME IInv, UNCHANGED files, WordsEnd PROVE IInv'
  OBVIOUS
<1>1. /\ pc = "words"
      /\ (c1 \in Blanks /\ c2 \in Blanks) \/ EOF \in {c1, c2}
      /\ pc' = "blanks" /\ i' = i /\ j' = j /\ ret' = ret /\ out' = out /\ ans' = ans
  BY DEF WordsEnd, IsSpaceEx, files
<1>2. TypeOK /\ ret' \in {"V_AC", "V_PE"}
  BY <1>1, OpenIs
<1>3. OutRead = AnsRead
  BY <1>1 DEF IInv, InTheWord
<1>4. OutRead' = OutRead /\ AnsRead' = AnsRead /\ c1' = c1 /\ c2' = c2
  BY <1>1 DEF OutRead, AnsRead, c1, c2
<1>5. BetweenWords' /\ InTheWord'
  BY <1>1, <1>3, <1>4 DEF BetweenWords, InTheWord
<1>6. QED
  BY <1>1, <1>2, <1>5, Places, GoesOn

(* One file has ended; the blanks at the end of the other do not count.    *)
LEMMA TrailingBlanksInv == IInv /\ UNCHANGED files /\ TrailingBlanks => IInv'
<1> SUFFICES ASSUME IInv, UNCHANGED files, TrailingBlanks PROVE IInv'
  OBVIOUS
<1>1. /\ pc = "blanks" /\ pc' = "blanks" /\ ret' = ret /\ out' = out /\ ans' = ans
      /\ \/ c2 = EOF /\ i' = FirstOutside(out, i, Blanks) /\ j' = j
         \/ c1 = EOF /\ j' = FirstOutside(ans, j, Blanks) /\ i' = i
  BY DEF TrailingBlanks, InBlanks, files
<1>2. TypeOK /\ ret' \in {"V_AC", "V_PE"}
  BY <1>1, OpenIs
<1>3. /\ out \in Seq(Chars) /\ ans \in Seq(Chars) /\ Place(out, i) /\ Place(ans, j)
      /\ OutRead \in Seq(Words) /\ AnsRead \in Seq(Words)
  BY <1>2, Places
<1>4. Trim(OutRead) = Trim(AnsRead)
  BY <1>1 DEF IInv, BetweenWords
<1>5. ASSUME NEW f \in Seq(Chars), NEW k, Place(f, k)
      PROVE  /\ Place(f, FirstOutside(f, k, Blanks))
             /\ Trim(Read(f, FirstOutside(f, k, Blanks) - 1)) = Trim(Read(f, k - 1))
  <2> DEFINE n == FirstOutside(f, k, Blanks)
  <2>1. /\ Place(f, n) /\ n \in k .. Len(f) + 1
        /\ \A m \in k .. n - 1 : f[m] \in Blanks
    BY <1>5, FirstOutsideIs
  <2> HIDE DEF n
  <2>2. k <= n
    BY <1>5, <2>1, AtIs
  <2>3. Read(f, n - 1) = IF n = k THEN Read(f, k - 1) ELSE Blanked(Read(f, k - 1))
    BY <1>5, <2>1, <2>2, Skipped
  <2>4. Trim(Blanked(Read(f, k - 1))) = Trim(Read(f, k - 1))
    BY <1>5, Reading, BlankedIs
  <2>5. QED
    BY <2>1, <2>3, <2>4 DEF n
<1>6. CASE c2 = EOF /\ i' = FirstOutside(out, i, Blanks) /\ j' = j
  <2>1. Place(out, i') /\ Trim(Read(out, i' - 1)) = Trim(OutRead)
    BY <1>3, <1>5, <1>6 DEF OutRead
  <2>2. OutRead' = Read(out, i' - 1) /\ AnsRead' = AnsRead /\ c2' = EOF
    BY <1>1, <1>6 DEF OutRead, AnsRead, c2
  <2>3. InTheWord' /\ BetweenWords'
    BY <1>1, <1>4, <2>1, <2>2 DEF InTheWord, BetweenWords
  <2>4. QED
    BY <1>1, <1>2, <1>3, <1>6, <2>1, <2>3, GoesOn
<1>7. CASE c1 = EOF /\ j' = FirstOutside(ans, j, Blanks) /\ i' = i
  <2>1. Place(ans, j') /\ Trim(Read(ans, j' - 1)) = Trim(AnsRead)
    BY <1>3, <1>5, <1>7 DEF AnsRead
  <2>2. AnsRead' = Read(ans, j' - 1) /\ OutRead' = OutRead /\ c1' = EOF
    BY <1>1, <1>7 DEF OutRead, AnsRead, c1
  <2>3. InTheWord' /\ BetweenWords'
    BY <1>1, <1>4, <2>1, <2>2 DEF InTheWord, BetweenWords
  <2>4. QED
    BY <1>1, <1>2, <1>3, <1>7, <2>1, <2>3, GoesOn
<1>8. QED
  BY <1>1, <1>6, <1>7

(* Both texts end with a space now, or no word has come yet.               *)
LEMMA BothBlankInv == IInv /\ UNCHANGED files /\ BothBlank => IInv'
<1> SUFFICES ASSUME IInv, UNCHANGED files, BothBlank PROVE IInv'
  OBVIOUS
<1> DEFINE inLine == Blanks \ {Newline}
           k == IF c2 = Newline THEN FirstOutside(out, i, inLine) ELSE i
           l == IF At(out, k) = Newline THEN FirstOutside(ans, j, inLine) ELSE j
<1>1. /\ pc = "blanks" /\ pc' = "blanks" /\ ret' = ret /\ out' = out /\ ans' = ans
      /\ c1 \in Blanks /\ c2 \in Blanks
      /\ i' = PastBlank(out, k) /\ j' = PastBlank(ans, l)
      /\ k \in {i, FirstOutside(out, i, inLine)} /\ l \in {j, FirstOutside(ans, j, inLine)}
      /\ inLine \in SUBSET Blanks
  BY DEF BothBlank, InBlanks, IsSpaceEx, files
<1> HIDE DEF inLine, k, l
<1>2. TypeOK /\ ret' \in {"V_AC", "V_PE"}
  BY <1>1, OpenIs
<1>3. /\ out \in Seq(Chars) /\ ans \in Seq(Chars) /\ Place(out, i) /\ Place(ans, j)
      /\ OutRead \in Seq(Words)
  BY <1>2, Places
<1>4. OutRead = AnsRead
  <2>1. EOF \notin {c1, c2}
    BY <1>1, CharsAssumption
  <2>2. QED
    BY <1>1, <2>1 DEF IInv, BetweenWords
<1>5. Place(out, i') /\ Read(out, i' - 1) = Blanked(OutRead)
  BY <1>1, <1>3, PairRead DEF c1, OutRead
<1>6. Place(ans, j') /\ Read(ans, j' - 1) = Blanked(AnsRead)
  BY <1>1, <1>3, PairRead DEF c2, AnsRead
<1>7. OutRead' = Blanked(OutRead) /\ AnsRead' = OutRead'
  BY <1>1, <1>4, <1>5, <1>6 DEF OutRead, AnsRead
<1>8. ~AfterWord(Blanked(OutRead))
  BY <1>3, BlankedIs DEF AfterWord
<1>9. InTheWord' /\ BetweenWords'
  BY <1>1, <1>7, <1>8 DEF InTheWord, BetweenWords
<1>10. QED
  BY <1>1, <1>2, <1>5, <1>6, <1>9, GoesOn

(* A blank that only one file has adds nothing to its text.                *)
LEMMA ExtraBlankInv == IInv /\ UNCHANGED files /\ ExtraBlank => IInv'
<1> SUFFICES ASSUME IInv, UNCHANGED files, ExtraBlank PROVE IInv'
  OBVIOUS
<1>1. /\ pc = "blanks" /\ pc' = "blanks" /\ ret' = "V_PE" /\ out' = out /\ ans' = ans
      /\ EOF \notin {c1, c2} /\ ~(c1 \in Blanks /\ c2 \in Blanks)
      /\ i' = PastBlank(out, i) /\ j' = PastBlank(ans, j)
  BY DEF ExtraBlank, InBlanks, IsSpaceEx, files
<1>2. TypeOK
  BY <1>1, OpenIs
<1>3. /\ out \in Seq(Chars) /\ ans \in Seq(Chars) /\ Place(out, i) /\ Place(ans, j)
      /\ OutRead \in Seq(Words) /\ AnsRead \in Seq(Words)
  BY <1>2, Places
<1>4. OutRead = AnsRead /\ ~AfterWord(OutRead)
  BY <1>1 DEF IInv, BetweenWords
<1>5. Blanked(OutRead) = OutRead
  BY <1>4 DEF Blanked, AfterWord
<1>6. ASSUME NEW f \in Seq(Chars), NEW n, Place(f, n), Read(f, n - 1) = OutRead
      PROVE  Place(f, PastBlank(f, n)) /\ Read(f, PastBlank(f, n) - 1) = OutRead
  <2>1. CASE At(f, n) \in Blanks
    BY <1>5, <1>6, <2>1, PairRead
  <2>2. CASE At(f, n) \notin Blanks
    BY <1>6, <2>2, PastBlankIs
  <2>3. QED
    BY <2>1, <2>2
<1>7. Place(out, i') /\ Read(out, i' - 1) = OutRead
  BY <1>1, <1>3, <1>6 DEF OutRead
<1>8. Place(ans, j') /\ Read(ans, j' - 1) = OutRead
  BY <1>1, <1>3, <1>4, <1>6 DEF AnsRead
<1>9. OutRead' = OutRead /\ AnsRead' = OutRead
  BY <1>1, <1>7, <1>8 DEF OutRead, AnsRead
<1>10. InTheWord' /\ BetweenWords'
  BY <1>1, <1>4, <1>9 DEF InTheWord, BetweenWords
<1>11. QED
  BY <1>1, <1>2, <1>7, <1>8, <1>10, GoesOn

(* A text that goes on with a letter is longer than what was read of it.   *)
LEMMA LetterFollows ==
  ASSUME NEW f \in Seq(Chars), NEW k, Place(f, k), At(f, k) = EOF,
         NEW g \in Seq(Chars), NEW n, Place(g, n), Letter(At(g, n)),
         Trim(Read(f, k - 1)) = Trim(Read(g, n - 1))
  PROVE  Squeezed(f) # Squeezed(g)
<1>1. n \in 1 .. Len(g) /\ g[n] \notin Blanks
  BY AtIs DEF Letter
<1>2. Len(Squeezed(g)) \in Nat /\ Len(Read(g, n - 1)) + 1 <= Len(Squeezed(g))
  BY <1>1, LetterStays
<1>3. Squeezed(f) = Trim(Read(g, n - 1)) /\ Read(g, n - 1) \in Seq(Words)
  BY Reading
<1>4. /\ Len(Trim(Read(g, n - 1))) \in Nat /\ Len(Read(g, n - 1)) \in Nat
      /\ Len(Trim(Read(g, n - 1))) \in {Len(Read(g, n - 1)), Len(Read(g, n - 1)) - 1}
  BY <1>3, TrimIs
<1>5. Len(Squeezed(f)) # Len(Squeezed(g))
  BY <1>2, <1>3, <1>4
<1>6. QED
  BY <1>5

LEMMA BlanksEndInv == IInv /\ UNCHANGED files /\ BlanksEnd => IInv'
<1> SUFFICES ASSUME IInv, UNCHANGED files, BlanksEnd PROVE IInv'
  OBVIOUS
<1>1. pc = "blanks" /\ c1 \notin Blanks /\ c2 \notin Blanks
  BY DEF BlanksEnd, IsSpaceEx
<1>2. TypeOK /\ ret \in {"V_AC", "V_PE"}
  BY <1>1, OpenIs
<1>3. /\ out \in Seq(Chars) /\ ans \in Seq(Chars) /\ Place(out, i) /\ Place(ans, j)
      /\ OutRead \in Seq(Words) /\ AnsRead \in Seq(Words)
  BY <1>2, Places
<1>4. /\ Trim(OutRead) = Trim(AnsRead)
      /\ EOF \notin {c1, c2} => OutRead = AnsRead
  BY <1>1 DEF IInv, BetweenWords
<1>5. CASE c1 = EOF /\ c2 = EOF /\ End(ret)
  <2>1. Squeezed(out) = Trim(OutRead) /\ Squeezed(ans) = Trim(AnsRead)
    BY <1>3, <1>5, Reading DEF c1, c2, OutRead, AnsRead
  <2>2. QED
    BY <1>2, <1>4, <1>5, <2>1, EndsRight
<1>6. CASE c1 # c2 /\ EOF \in {c1, c2} /\ End("V_WA")
  <2>1. CASE c1 = EOF
    <3>1. Letter(c2)
      BY <1>1, <1>6, <2>1 DEF Letter
    <3>2. Squeezed(out) # Squeezed(ans)
      BY <1>3, <1>4, <2>1, <3>1, LetterFollows DEF c1, c2, OutRead, AnsRead
    <3>3. QED
      BY <1>2, <1>6, <3>2, EndsRight
  <2>2. CASE c2 = EOF
    <3>1. Letter(c1)
      BY <1>1, <1>6, <2>2 DEF Letter
    <3>2. Squeezed(ans) # Squeezed(out)
      BY <1>3, <1>4, <2>2, <3>1, LetterFollows DEF c1, c2, OutRead, AnsRead
    <3>3. QED
      BY <1>2, <1>6, <3>2, EndsRight
  <2>3. QED
    BY <1>6, <2>1, <2>2
<1>7. CASE EOF \notin {c1, c2} /\ pc' = "words" /\ UNCHANGED <<i, j, ret>>
  <2>1. /\ pc' = "words" /\ i' = i /\ j' = j /\ ret' = ret /\ out' = out /\ ans' = ans
        /\ Letter(c1) /\ Letter(c2)
    BY <1>1, <1>7 DEF files, Letter
  <2>2. OutRead' = OutRead /\ AnsRead' = AnsRead /\ c1' = c1 /\ c2' = c2
    BY <2>1 DEF OutRead, AnsRead, c1, c2
  <2>3. Letter(c1') /\ Letter(c2')
    BY <2>1, <2>2
  <2>4. InTheWord' /\ BetweenWords'
    BY <1>4, <1>7, <2>1, <2>2, <2>3 DEF InTheWord, BetweenWords
  <2>5. QED
    BY <1>2, <1>3, <2>1, <2>4, GoesOn
<1>8. QED
  BY <1>5, <1>6, <1>7 DEF BlanksEnd

(* The invariant, and what it gives.                                       *)

LEMMA StepInv == IInv /\ [Next]_vars => IInv'
<1> SUFFICES ASSUME IInv, [Next]_vars PROVE IInv'
  OBVIOUS
<1>1. CASE Next
  BY <1>1, SameCharacterInv, BothEndInv, WrongCharacterInv, WordsEndInv,
     TrailingBlanksInv, BothBlankInv, ExtraBlankInv, BlanksEndInv DEF Next
<1>2. CASE UNCHANGED vars
  <2>1. out' = out /\ ans' = ans /\ i' = i /\ j' = j /\ pc' = pc /\ ret' = ret
    BY <1>2 DEF vars, files
  <2>2. OutRead' = OutRead /\ AnsRead' = AnsRead /\ c1' = c1 /\ c2' = c2
    BY <2>1 DEF OutRead, AnsRead, c1, c2
  <2>3. TypeOK' /\ OpenVerdict'
    BY <2>1 DEF IInv, TypeOK, OpenVerdict
  <2>4. InTheWord' /\ BetweenWords'
    BY <2>1, <2>2 DEF IInv, InTheWord, BetweenWords, Letter
  <2>5. Squeezed(out)' = Squeezed(out) /\ Squeezed(ans)' = Squeezed(ans)
    BY <2>1
  <2>6. WordsDecide'
    BY <2>1, <2>5 DEF IInv, WordsDecide
  <2>7. QED
    BY <2>3, <2>4, <2>6 DEF IInv
<1>3. QED
  BY <1>1, <1>2

(* The positions of the comparison stay inside the two files, whatever     *)
(* their length (compare_zoj, find_next_nonspace).                         *)
THEOREM CheckerTypeCorrect == Spec => []TypeOK
<1>1. IInv => TypeOK
  BY DEF IInv
<1>2. QED
  BY <1>1, InitInv, StepInv, PTL DEF Spec

(* The verdict V_WA is given exactly when the words of the output are not  *)
(* those of the answer, for every two files over any alphabet: no layout   *)
(* hides a wrong word or makes a right one wrong (compare_zoj).            *)
THEOREM WordsDecideAlways == Spec => []WordsDecide
<1>1. IInv => WordsDecide
  BY DEF IInv
<1>2. QED
  BY <1>1, InitInv, StepInv, PTL DEF Spec

-----------------------------------------------------------------------------
(* The reference without the ends of lines: what Trimmed keeps, in order.  *)

Idle(f, k) ==
  \E n \in k .. Len(f) + 1 :
    /\ At(f, n) \in {Newline, EOF}
    /\ \A m \in k .. n - 1 : IsSpaceEx(f[m])
KeptAt(f) ==
  {k \in 1 .. Len(f) :
     IF f[k] = Newline THEN \E m \in k .. Len(f) : ~IsSpaceEx(f[m]) ELSE ~Idle(f, k)}
Before(f, k) == {m \in KeptAt(f) : m < k}
Index(f, k) == Cardinality(Before(f, k))

LEMMA TrimmedFun ==
  ASSUME NEW f
  PROVE  Trimmed(f) =
           [n \in 1 .. Cardinality(KeptAt(f)) |->
              f[CHOOSE k \in KeptAt(f) : Cardinality({m \in KeptAt(f) : m <= k}) = n]]
BY DEF Trimmed, KeptAt, Idle

LEMMA KeptFinite ==
  ASSUME NEW f \in Seq(Chars)
  PROVE  /\ Len(f) \in Nat /\ KeptAt(f) \subseteq 1 .. Len(f)
         /\ IsFiniteSet(KeptAt(f)) /\ Cardinality(KeptAt(f)) \in Nat
         /\ \A S \in SUBSET KeptAt(f) : /\ IsFiniteSet(S) /\ Cardinality(S) \in Nat
                                        /\ Cardinality(S) <= Cardinality(KeptAt(f))
<1>1. Len(f) \in Nat
  BY LenProperties
<1>2. KeptAt(f) \subseteq 1 .. Len(f)
  BY DEF KeptAt
<1>3. IsFiniteSet(KeptAt(f))
  <2>1. IsFiniteSet(1 .. Len(f))
    BY <1>1, FS_Interval
  <2>2. QED
    BY <1>2, <2>1, FS_Subset
<1>4. QED
  BY <1>1, <1>2, <1>3, FS_Subset, FS_CardinalityType

(* The place of a kept character is the number of those before it.         *)
LEMMA IndexStep ==
  ASSUME NEW f \in Seq(Chars), NEW k \in Nat
  PROVE  /\ Index(f, k) \in Nat /\ Index(f, k) <= Cardinality(KeptAt(f))
         /\ k \notin KeptAt(f) => Index(f, k + 1) = Index(f, k)
         /\ k \in KeptAt(f) => /\ Index(f, k + 1) = Index(f, k) + 1
                               /\ Cardinality({m \in KeptAt(f) : m <= k}) = Index(f, k) + 1
                               /\ Index(f, k) + 1 <= Cardinality(KeptAt(f))
<1>1. KeptAt(f) \in SUBSET Nat
  BY KeptFinite
<1>2. /\ Before(f, k) \in SUBSET KeptAt(f)
      /\ Before(f, k + 1) = {m \in KeptAt(f) : m <= k}
      /\ Before(f, k + 1) \in SUBSET KeptAt(f)
      /\ k \notin Before(f, k)
      /\ k \in KeptAt(f) => Before(f, k + 1) = Before(f, k) \cup {k}
      /\ k \notin KeptAt(f) => Before(f, k + 1) = Before(f, k)
  BY <1>1 DEF Before
<1>3. Index(f, k) \in Nat /\ Index(f, k) <= Cardinality(KeptAt(f)) /\ IsFiniteSet(Before(f, k))
      /\ Index(f, k + 1) <= Cardinality(KeptAt(f))
  BY <1>2, KeptFinite DEF Index
<1>4. CASE k \in KeptAt(f)
  <2>1. Cardinality(Before(f, k) \cup {k}) = Cardinality(Before(f, k)) + 1
    BY <1>2, <1>3, FS_AddElement
  <2>2. Index(f, k + 1) = Index(f, k) + 1
    BY <1>2, <1>4, <2>1 DEF Index
  <2>3. Cardinality({m \in KeptAt(f) : m <= k}) = Index(f, k) + 1
    BY <1>2, <2>2 DEF Index
  <2>4. QED
    BY <1>3, <1>4, <2>2, <2>3
<1>5. CASE k \notin KeptAt(f)
  BY <1>2, <1>3, <1>5 DEF Index
<1>6. QED
  BY <1>4, <1>5

LEMMA IndexGrows ==
  ASSUME NEW f \in Seq(Chars), NEW k \in KeptAt(f), NEW n \in KeptAt(f), k < n
  PROVE  Index(f, k) + 1 <= Index(f, n)
<1>1. k \in Nat /\ n \in Nat /\ KeptAt(f) \in SUBSET Nat
  BY KeptFinite
<1>2. {m \in KeptAt(f) : m <= k} \subseteq Before(f, n) /\ Before(f, n) \subseteq KeptAt(f)
  BY <1>1 DEF Before
<1>3. Cardinality({m \in KeptAt(f) : m <= k}) <= Cardinality(Before(f, n))
  BY <1>2, KeptFinite, FS_Subset
<1>4. QED
  BY <1>1, <1>3, IndexStep DEF Index

LEMMA TrimmedIs ==
  ASSUME NEW f \in Seq(Chars)
  PROVE  /\ DOMAIN Trimmed(f) = 1 .. Cardinality(KeptAt(f))
         /\ Len(Trimmed(f)) = Cardinality(KeptAt(f))
         /\ \A k \in KeptAt(f) : /\ Index(f, k) + 1 \in 1 .. Cardinality(KeptAt(f))
                                 /\ Trimmed(f)[Index(f, k) + 1] = f[k]
<1> DEFINE S == KeptAt(f)
           c == Cardinality(S)
           Upto(k) == {m \in S : m <= k}
           Nth(n) == CHOOSE k \in S : Cardinality(Upto(k)) = n
<1>1. Trimmed(f) = [n \in 1 .. c |-> f[Nth(n)]]
  BY TrimmedFun
<1>2. c \in Nat /\ S \in SUBSET Nat /\ S \subseteq 1 .. Len(f)
  BY KeptFinite
<1>3. \A k \in S : /\ Cardinality(Upto(k)) = Index(f, k) + 1 /\ Index(f, k) \in Nat
                   /\ Index(f, k) + 1 <= c
  BY <1>2, IndexStep
<1>4. \A k, n \in S : k < n => Index(f, k) + 1 <= Index(f, n)
  BY IndexGrows
<1> HIDE DEF Upto, S, c
<1>5. ASSUME NEW k \in S PROVE Index(f, k) + 1 \in 1 .. c /\ Nth(Index(f, k) + 1) = k
  <2>1. \A n \in S : Cardinality(Upto(n)) = Index(f, k) + 1 => n = k
    <3> SUFFICES ASSUME NEW n \in S, Cardinality(Upto(n)) = Index(f, k) + 1 PROVE n = k
      OBVIOUS
    <3>1. Index(f, n) = Index(f, k) /\ Index(f, k) \in Nat
      BY <1>3
    <3>2. ~(n < k) /\ ~(k < n)
      BY <1>4, <3>1
    <3>3. QED
      BY <1>2, <3>2
  <2>2. Nth(Index(f, k) + 1) = k
    BY <1>3, <2>1
  <2>3. QED
    BY <1>2, <1>3, <2>2
<1>6. DOMAIN Trimmed(f) = 1 .. c
  BY <1>1
<1>7. Len(Trimmed(f)) = c
  <2> DEFINE C == {f[Nth(n)] : n \in 1 .. c}
  <2>0. \A n \in 1 .. c : f[Nth(n)] \in C
    OBVIOUS
  <2> HIDE DEF C, Nth
  <2>1. Trimmed(f) \in [1 .. c -> C]
    BY <1>1, <2>0
  <2>2. Trimmed(f) \in Seq(C)
    BY <1>2, <2>1, SeqDef
  <2>3. Len(Trimmed(f)) \in Nat /\ DOMAIN Trimmed(f) = 1 .. Len(Trimmed(f))
    BY <2>2, LenProperties
  <2>4. QED
    BY <1>2, <1>6, <2>3
<1>8. QED
  BY <1>1, <1>5, <1>6, <1>7 DEF S, c

(* The next character that is kept, from a place on.                       *)
NextKept(f, k, n) == n \in KeptAt(f) /\ k <= n /\ \A m \in KeptAt(f) : k <= m => n <= m

LEMMA NothingBetween ==
  ASSUME NEW f \in Seq(Chars), NEW k \in Nat, NEW n \in Nat, k <= n,
         \A m \in KeptAt(f) : k <= m => n <= m
  PROVE  Index(f, n) = Index(f, k)
<1>1. KeptAt(f) \in SUBSET Nat
  BY KeptFinite
<1>2. Before(f, n) = Before(f, k)
  BY <1>1 DEF Before
<1>3. QED
  BY <1>2 DEF Index

LEMMA NextKeptIs ==
  ASSUME NEW f \in Seq(Chars), NEW k \in Nat
  PROVE  /\ \A n : NextKept(f, k, n) => n \in Nat /\ Index(f, n) = Index(f, k)
         /\ Index(f, k) < Cardinality(KeptAt(f)) => \E n : NextKept(f, k, n)
         /\ (\E m \in KeptAt(f) : k <= m) => \E n : NextKept(f, k, n)
<1>1. KeptAt(f) \in SUBSET Nat
  BY KeptFinite
<1>2. ASSUME NEW n, NextKept(f, k, n) PROVE n \in Nat /\ Index(f, n) = Index(f, k)
  <2>1. n \in Nat
    BY <1>1, <1>2 DEF NextKept
  <2>2. QED
    BY <1>2, <2>1, NothingBetween DEF NextKept
<1>3. ASSUME \E m \in KeptAt(f) : k <= m PROVE \E n : NextKept(f, k, n)
  <2> DEFINE later == {m \in KeptAt(f) : k <= m}
  <2>1. later \in SUBSET Nat /\ later # {}
    BY <1>1, <1>3
  <2> HIDE DEF later
  <2>2. PICK n \in later : \A m \in later : n <= m
    BY <2>1, Smallest
  <2>3. NextKept(f, k, n)
    BY <2>2 DEF later, NextKept
  <2>4. QED
    BY <2>3
<1>4. ASSUME Index(f, k) < Cardinality(KeptAt(f)) PROVE \E m \in KeptAt(f) : k <= m
  <2>1. SUFFICES ASSUME \A m \in KeptAt(f) : ~(k <= m) PROVE FALSE
    OBVIOUS
  <2>2. Before(f, k) = KeptAt(f)
    BY <1>1, <2>1 DEF Before
  <2>3. Index(f, k) = Cardinality(KeptAt(f)) /\ Cardinality(KeptAt(f)) \in Nat
    BY <2>2, KeptFinite DEF Index
  <2>4. QED
    BY <1>4, <2>3
<1>5. QED
  BY <1>2, <1>3, <1>4

(* Two files that keep the same, read to the same number of them, go on    *)
(* with the same character.                                                *)
Abreast(f, k, g, l) == Trimmed(f) = Trimmed(g) /\ Index(f, k) = Index(g, l)

LEMMA Match ==
  ASSUME NEW f \in Seq(Chars), NEW k \in Nat, NEW g \in Seq(Chars), NEW l \in Nat,
         Abreast(f, k, g, l), NEW n, NextKept(f, k, n)
  PROVE  \E p : NextKept(g, l, p) /\ g[p] = f[n]
<1>1. n \in KeptAt(f) /\ Index(f, n) = Index(f, k)
  BY NextKeptIs DEF NextKept
<1>2. Index(f, n) + 1 \in 1 .. Cardinality(KeptAt(f)) /\ Trimmed(f)[Index(f, n) + 1] = f[n]
  BY <1>1, TrimmedIs
<1>3. Cardinality(KeptAt(f)) = Cardinality(KeptAt(g))
  BY TrimmedIs DEF Abreast
<1>4. Index(g, l) < Cardinality(KeptAt(g))
  <2>1. Index(f, k) \in Nat /\ Cardinality(KeptAt(f)) \in Nat
    BY IndexStep, KeptFinite
  <2>2. QED
    BY <1>1, <1>2, <1>3, <2>1 DEF Abreast
<1>5. PICK p : NextKept(g, l, p)
  BY <1>4, NextKeptIs
<1>6. p \in KeptAt(g) /\ Index(g, p) = Index(g, l)
  BY <1>5, NextKeptIs DEF NextKept
<1>7. Trimmed(g)[Index(g, p) + 1] = g[p]
  BY <1>6, TrimmedIs
<1>8. g[p] = f[n]
  BY <1>1, <1>2, <1>6, <1>7 DEF Abreast
<1>9. QED
  BY <1>5, <1>8

(* What is kept next, from a letter, the end of a line or another blank.   *)
LEMMA LetterKept ==
  ASSUME NEW f \in Seq(Chars), NEW k, Place(f, k), Letter(At(f, k))
  PROVE  NextKept(f, k, k) /\ f[k] = At(f, k)
<1>1. k \in 1 .. Len(f) /\ f[k] = At(f, k) /\ f[k] \notin Blanks /\ k \in Nat /\ Len(f) \in Nat
      /\ f[k] # EOF
  BY AtIs DEF Letter
<1>2. ASSUME f[k] # Newline PROVE ~Idle(f, k)
  <2> SUFFICES ASSUME NEW n \in k .. Len(f) + 1, At(f, n) \in {Newline, EOF},
                      \A m \in k .. n - 1 : IsSpaceEx(f[m])
               PROVE  FALSE
    BY DEF Idle
  <2>1. CASE n = k
    BY <1>1, <1>2, <2>1
  <2>2. CASE n # k
    <3>1. k \in k .. n - 1
      BY <1>1, <2>2
    <3>2. QED
      BY <1>1, <3>1 DEF IsSpaceEx
  <2>3. QED
    BY <2>1, <2>2
<1>3. k \in KeptAt(f)
  <2>1. k \in k .. Len(f)
    BY <1>1
  <2>2. QED
    BY <1>1, <1>2, <2>1 DEF KeptAt, IsSpaceEx
<1>4. QED
  BY <1>1, <1>3 DEF NextKept

LEMMA BlankKept ==
  ASSUME NEW f \in Seq(Chars), NEW k, Place(f, k), At(f, k) \in Blanks,
         NEW p, NextKept(f, k, p)
  PROVE  /\ f[p] \in Blanks
         /\ p = k \/ (f[k] # Newline /\ f[p] = Newline)
<1>1. /\ k \in 1 .. Len(f) /\ f[k] = At(f, k) /\ f[k] \in Blanks
      /\ k \in Nat /\ Len(f) \in Nat
  BY AtIs
<1>2. p \in KeptAt(f) /\ p \in 1 .. Len(f) /\ k <= p /\ \A m \in KeptAt(f) : k <= m => p <= m
  BY KeptFinite DEF NextKept
<1>3. CASE k \in KeptAt(f)
  <2>1. p = k
    BY <1>1, <1>2, <1>3
  <2>2. QED
    BY <1>1, <2>1
<1>4. CASE k \notin KeptAt(f) /\ f[k] = Newline
  <2>1. \A m \in k .. Len(f) : f[m] \in Blanks
    BY <1>1, <1>4 DEF KeptAt, IsSpaceEx
  <2>2. f[p] # Newline
    <3>1. SUFFICES ASSUME f[p] = Newline PROVE FALSE
      OBVIOUS
    <3>2. PICK m \in p .. Len(f) : f[m] \notin Blanks
      BY <1>2, <3>1 DEF KeptAt, IsSpaceEx
    <3>3. m \in k .. Len(f)
      BY <1>1, <1>2
    <3>4. QED
      BY <2>1, <3>2, <3>3
  <2>3. Idle(f, p)
    <3>1. Len(f) + 1 \in p .. Len(f) + 1 /\ At(f, Len(f) + 1) = EOF
      BY <1>1, <1>2 DEF At
    <3>2. \A m \in p .. Len(f) + 1 - 1 : m \in k .. Len(f)
      BY <1>1, <1>2
    <3>3. QED
      BY <2>1, <3>1, <3>2 DEF Idle, IsSpaceEx
  <2>4. QED
    BY <1>2, <2>2, <2>3 DEF KeptAt
<1>5. CASE k \notin KeptAt(f) /\ f[k] # Newline
  <2>1. Idle(f, k)
    BY <1>1, <1>5 DEF KeptAt
  <2>2. PICK n \in k .. Len(f) + 1 : /\ At(f, n) \in {Newline, EOF}
                                     /\ \A m \in k .. n - 1 : f[m] \in Blanks
    BY <2>1 DEF Idle, IsSpaceEx
  <2>3. f[p] = Newline
    <3>1. SUFFICES ASSUME f[p] # Newline PROVE FALSE
      OBVIOUS
    <3>2. ~Idle(f, p)
      BY <1>2, <3>1 DEF KeptAt
    <3>3. n < p
      <4>1. SUFFICES ASSUME p <= n PROVE FALSE
        BY <1>1, <1>2
      <4>2. n \in p .. Len(f) + 1 /\ \A m \in p .. n - 1 : m \in k .. n - 1
        BY <1>1, <1>2, <4>1
      <4>3. QED
        BY <2>2, <3>2, <4>2 DEF Idle, IsSpaceEx
    <3>4. n \in 1 .. Len(f) /\ f[n] = Newline
      <4>1. n \in 1 .. Len(f)
        BY <1>1, <1>2, <3>3
      <4>2. Place(f, n)
        BY <1>1, <4>1 DEF Place
      <4>3. At(f, n) # EOF /\ At(f, n) = f[n]
        BY <1>1, <4>1, <4>2, AtIs DEF At
      <4>4. QED
        BY <2>2, <4>1, <4>3
    <3>5. n \notin KeptAt(f)
      <4>1. k <= n /\ ~(p <= n)
        BY <1>1, <1>2, <3>3
      <4>2. QED
        BY <1>2, <4>1
    <3>6. \A m \in n .. Len(f) : f[m] \in Blanks
      BY <3>4, <3>5 DEF KeptAt, IsSpaceEx
    <3>7. Len(f) + 1 \in p .. Len(f) + 1 /\ At(f, Len(f) + 1) = EOF
      BY <1>1, <1>2 DEF At
    <3>8. \A m \in p .. Len(f) + 1 - 1 : m \in n .. Len(f)
      BY <1>1, <1>2, <3>3
    <3>9. QED
      BY <3>2, <3>6, <3>7, <3>8 DEF Idle, IsSpaceEx
  <2>4. f[p] \in Blanks
    <3>1. f[p] \in Chars
      BY <1>2, ElementOfSeq
    <3>2. QED
      BY <2>3, <3>1, CharsAssumption DEF Chars
  <2>5. QED
    BY <1>5, <2>3, <2>4
<1>6. QED
  BY <1>3, <1>4, <1>5

(* Abreast is the same for both.                                           *)
LEMMA AbreastBack ==
  ASSUME NEW f, NEW k, NEW g, NEW l, Abreast(f, k, g, l)
  PROVE  Abreast(g, l, f, k)
BY DEF Abreast

(* One step past a place that both keep, or neither.                       *)
LEMMA AbreastOn ==
  ASSUME NEW f \in Seq(Chars), NEW k \in Nat, NEW g \in Seq(Chars), NEW l \in Nat,
         Abreast(f, k, g, l), k \in KeptAt(f) <=> l \in KeptAt(g)
  PROVE  Abreast(f, k + 1, g, l + 1)
<1>1. CASE k \in KeptAt(f)
  <2>1. Index(f, k + 1) = Index(f, k) + 1
    BY <1>1, IndexStep
  <2>2. Index(g, l + 1) = Index(g, l) + 1
    BY <1>1, IndexStep
  <2>3. QED
    BY <2>1, <2>2 DEF Abreast
<1>2. CASE k \notin KeptAt(f)
  <2>1. Index(f, k + 1) = Index(f, k)
    BY <1>2, IndexStep
  <2>2. Index(g, l + 1) = Index(g, l)
    BY <1>2, IndexStep
  <2>3. QED
    BY <2>1, <2>2 DEF Abreast
<1>3. QED
  BY <1>1, <1>2

(* A letter is never beside anything else.                                 *)
LEMMA LetterBeside ==
  ASSUME NEW f \in Seq(Chars), NEW k, Place(f, k), NEW g \in Seq(Chars), NEW l, Place(g, l),
         Abreast(f, k, g, l), Letter(At(f, k))
  PROVE  At(g, l) = At(f, k)
<1>1. k \in Nat /\ l \in Nat /\ Len(g) \in Nat
  BY AtIs
<1>2. NextKept(f, k, k) /\ f[k] = At(f, k)
  BY LetterKept
<1>3. PICK p : NextKept(g, l, p) /\ g[p] = f[k]
  BY <1>1, <1>2, Match
<1>4. g[p] \notin Blanks /\ p \in 1 .. Len(g) /\ l <= p
  BY <1>2, <1>3, KeptFinite DEF Letter, NextKept
<1>5. At(g, l) # EOF
  <2>1. l # Len(g) + 1
    BY <1>1, <1>4
  <2>2. QED
    BY <2>1, AtIs
<1>6. At(g, l) \notin Blanks
  BY <1>3, <1>4, BlankKept
<1>7. NextKept(g, l, l) /\ g[l] = At(g, l)
  BY <1>5, <1>6, LetterKept DEF Letter
<1>8. p = l
  BY <1>1, <1>3, <1>4, <1>7 DEF NextKept
<1>9. QED
  BY <1>2, <1>3, <1>7, <1>8

(* Where one file has ended nothing is kept of the other.                  *)
LEMMA EndBeside ==
  ASSUME NEW f \in Seq(Chars), NEW k, Place(f, k), NEW g \in Seq(Chars), NEW l, Place(g, l),
         Abreast(f, k, g, l), \A m \in KeptAt(g) : ~(l <= m)
  PROVE  \A m \in KeptAt(f) : ~(k <= m)
<1>1. k \in Nat /\ l \in Nat
  BY AtIs
<1> SUFFICES ASSUME \E m \in KeptAt(f) : k <= m PROVE FALSE
  OBVIOUS
<1>2. PICK n : NextKept(f, k, n)
  BY <1>1, NextKeptIs
<1>3. PICK p : NextKept(g, l, p)
  BY <1>1, <1>2, Match
<1>4. QED
  BY <1>3 DEF NextKept

LEMMA NothingAtEnd ==
  ASSUME NEW f \in Seq(Chars), NEW k, Place(f, k), At(f, k) = EOF
  PROVE  \A m \in KeptAt(f) : ~(k <= m)
<1>1. k = Len(f) + 1 /\ Len(f) \in Nat
  BY AtIs
<1>2. QED
  BY <1>1, KeptFinite

(* The end of a line in one file, and blanks before it in the other: they  *)
(* end the same line, or only blanks are left.                             *)
LEMMA LineEnd ==
  ASSUME NEW f \in Seq(Chars), NEW k, Place(f, k), At(f, k) \in Blanks,
         NEW g \in Seq(Chars), NEW l, Place(g, l), At(g, l) \in Blanks, At(g, l) = Newline,
         Abreast(f, k, g, l), NEW n, n = FirstOutside(f, k, Blanks \ {Newline})
  PROVE  /\ At(f, n) \in {Newline, EOF}
         /\ Abreast(f, PastBlank(f, n), g, l + 1)
<1>1. /\ Place(f, n) /\ n \in k .. Len(f) + 1 /\ At(f, n) \notin Blanks \ {Newline}
      /\ \A m \in k .. n - 1 : m \in 1 .. Len(f) /\ f[m] \in Blanks \ {Newline}
  BY FirstOutsideIs
<1>2. k \in Nat /\ l \in Nat /\ n \in Nat /\ k <= n /\ Len(f) \in Nat
  BY <1>1, AtIs
<1>3. g[l] = Newline /\ l \in 1 .. Len(g)
  BY AtIs
<1>4. \A p : NextKept(g, l, p) => p = l /\ g[p] = Newline
  BY <1>3, BlankKept
<1>5. \A m \in KeptAt(f) : k <= m => n <= m
  <2> SUFFICES ASSUME NEW x \in KeptAt(f), k <= x, ~(n <= x) PROVE FALSE
    OBVIOUS
  <2>1. PICK m : NextKept(f, k, m)
    BY <1>2, NextKeptIs
  <2>2. m <= x /\ m \in Nat /\ x \in Nat /\ k <= m
    BY <2>1, <1>2, NextKeptIs, KeptFinite DEF NextKept
  <2>3. m \in k .. n - 1
    BY <1>2, <2>2
  <2>4. f[m] # Newline
    BY <1>1, <2>3
  <2>5. PICK p : NextKept(g, l, p) /\ g[p] = f[m]
    BY <1>2, <2>1, Match
  <2>6. QED
    BY <1>4, <2>4, <2>5
<1>6. Index(f, n) = Index(f, k)
  BY <1>2, <1>5, NothingBetween
<1>7. Abreast(f, n, g, l)
  BY <1>6 DEF Abreast
<1>8. At(f, n) \in {Newline, EOF}
  <2>1. SUFFICES ASSUME At(f, n) \notin {Newline, EOF} PROVE FALSE
    OBVIOUS
  <2>2. Letter(At(f, n))
    BY <1>1, <2>1 DEF Letter
  <2>3. At(g, l) = At(f, n)
    BY <1>1, <1>7, <2>2, LetterBeside
  <2>4. QED
    BY <2>1, <2>3
<1>9. CASE At(f, n) = Newline
  <2>1. PastBlank(f, n) = n + 1 /\ f[n] = Newline
    BY <1>1, <1>9, PastBlankIs, AtIs
  <2>2. ASSUME n \in KeptAt(f) PROVE l \in KeptAt(g)
    <3>1. NextKept(f, n, n)
      BY <1>2, <2>2, KeptFinite DEF NextKept
    <3>2. PICK p : NextKept(g, l, p)
      BY <1>2, <1>7, <3>1, Match
    <3>3. QED
      BY <1>4, <3>2 DEF NextKept
  <2>3. ASSUME l \in KeptAt(g) PROVE n \in KeptAt(f)
    <3>1. NextKept(g, l, l)
      BY <1>2, <2>3, KeptFinite DEF NextKept
    <3>2. PICK p : NextKept(f, n, p)
      BY <1>2, <1>7, <3>1, Match, AbreastBack
    <3>3. p = n
      BY <1>1, <1>9, <2>1, <3>2, BlankKept
    <3>4. QED
      BY <3>2, <3>3 DEF NextKept
  <2>4. Abreast(f, n + 1, g, l + 1)
    BY <1>2, <1>7, <2>2, <2>3, AbreastOn
  <2>5. QED
    BY <1>8, <2>1, <2>4
<1>10. CASE At(f, n) = EOF
  <2>1. PastBlank(f, n) = n
    BY <1>1, <1>10, PastBlankIs, CharsAssumption
  <2>2. l \notin KeptAt(g)
    <3>1. \A m \in KeptAt(f) : ~(n <= m)
      BY <1>1, <1>10, NothingAtEnd
    <3>2. \A m \in KeptAt(g) : ~(l <= m)
      BY <1>1, <1>7, <3>1, AbreastBack, EndBeside
    <3>3. QED
      BY <1>2, <3>2
  <2>3. Index(g, l + 1) = Index(g, l)
    BY <1>2, <2>2, IndexStep
  <2>4. QED
    BY <1>7, <1>10, <2>1, <2>3 DEF Abreast
<1>11. QED
  BY <1>8, <1>9, <1>10

(* Two blanks inside their lines are both kept, or neither.                *)
LEMMA InLine ==
  ASSUME NEW f \in Seq(Chars), NEW k, Place(f, k), At(f, k) \in Blanks, At(f, k) # Newline,
         NEW g \in Seq(Chars), NEW l, Place(g, l), At(g, l) \in Blanks, At(g, l) # Newline,
         Abreast(f, k, g, l)
  PROVE  Abreast(f, k + 1, g, l + 1)
<1>1. k \in Nat /\ l \in Nat
  BY AtIs
<1>2. ASSUME NEW e \in Seq(Chars), NEW m, Place(e, m), At(e, m) \in Blanks, At(e, m) # Newline,
             NEW h \in Seq(Chars), NEW n, Place(h, n), At(h, n) \in Blanks, At(h, n) # Newline,
             Abreast(e, m, h, n), m \in KeptAt(e)
      PROVE  n \in KeptAt(h)
  <2>1. m \in Nat /\ n \in Nat /\ e[m] = At(e, m)
    BY <1>2, AtIs
  <2>2. NextKept(e, m, m)
    BY <1>2, <2>1, KeptFinite DEF NextKept
  <2>3. PICK p : NextKept(h, n, p) /\ h[p] = e[m]
    BY <1>2, <2>1, <2>2, Match
  <2>4. p = n
    BY <1>2, <2>1, <2>3, BlankKept
  <2>5. QED
    BY <2>3, <2>4 DEF NextKept
<1>3. k \in KeptAt(f) <=> l \in KeptAt(g)
  BY <1>2, AbreastBack
<1>4. QED
  BY <1>1, <1>3, AbreastOn

(* Files that keep the same stay abreast, and nothing is reported.         *)
Level == Abreast(out, i, ans, j)
TailsRight == Trimmed(out) = Trimmed(ans) => ret = "V_AC" /\ (pc # "end" => Level)

LEMMA TailsInit == Init => TailsRight
<1> SUFFICES ASSUME Init, Trimmed(out) = Trimmed(ans) PROVE ret = "V_AC" /\ Level
  BY DEF TailsRight
<1>1. out \in Seq(Chars) /\ ans \in Seq(Chars) /\ i = 1 /\ j = 1
  BY InitInv DEF IInv, TypeOK, Init
<1>2. ASSUME NEW f \in Seq(Chars) PROVE Index(f, 1) = 0
  <2>1. \A m \in KeptAt(f) : ~(m < 1)
    BY KeptFinite
  <2>2. Before(f, 1) = {}
    BY <2>1 DEF Before
  <2>3. QED
    BY <2>2, FS_EmptySet DEF Index
<1>3. Level
  BY <1>1, <1>2 DEF Level, Abreast
<1>4. QED
  BY <1>3 DEF Init

(* What it says in the middle of a comparison of such files.               *)
LEMMA LevelIs ==
  ASSUME IInv, TailsRight, pc # "end", Trimmed(out) = Trimmed(ans)
  PROVE  /\ ret = "V_AC" /\ Level /\ Abreast(out, i, ans, j) /\ Abreast(ans, j, out, i)
         /\ out \in Seq(Chars) /\ ans \in Seq(Chars)
         /\ Place(out, i) /\ Place(ans, j) /\ i \in Nat /\ j \in Nat
<1>1. ret = "V_AC" /\ Level
  BY DEF TailsRight
<1>2. /\ out \in Seq(Chars) /\ ans \in Seq(Chars)
      /\ Place(out, i) /\ Place(ans, j)
  BY Places DEF IInv
<1>3. i \in Nat /\ j \in Nat
  BY <1>2, AtIs
<1>4. Abreast(out, i, ans, j) /\ Abreast(ans, j, out, i)
  BY <1>1, AbreastBack DEF Level
<1>5. QED
  BY <1>1, <1>2, <1>3, <1>4

LEMMA TailsOn ==
  ASSUME UNCHANGED files,
         Trimmed(out) = Trimmed(ans) =>
           ret' = "V_AC" /\ (pc' # "end" => Abreast(out, i', ans, j'))
  PROVE  TailsRight'
<1>1. out' = out /\ ans' = ans
  BY DEF files
<1>2. Trimmed(out)' = Trimmed(out) /\ Trimmed(ans)' = Trimmed(ans)
  BY <1>1
<1>3. Level' <=> Abreast(out, i', ans, j')
  BY <1>1 DEF Level
<1>4. QED
  BY <1>2, <1>3 DEF TailsRight

LEMMA TailsSame == IInv /\ TailsRight /\ UNCHANGED files /\ SameCharacter => TailsRight'
<1> SUFFICES ASSUME IInv, TailsRight, UNCHANGED files, SameCharacter,
                    Trimmed(out) = Trimmed(ans)
             PROVE  ret' = "V_AC" /\ Abreast(out, i', ans, j')
  BY TailsOn
<1>1. /\ pc = "words" /\ Letter(c1) /\ c2 = c1 /\ i' = i + 1 /\ j' = j + 1 /\ ret' = ret
  BY DEF SameCharacter, InWord, Letter, IsSpaceEx
<1>2. i \in KeptAt(out) /\ j \in KeptAt(ans)
  BY <1>1, LevelIs, LetterKept DEF c1, c2, NextKept
<1>3. QED
  BY <1>1, <1>2, LevelIs, AbreastOn

LEMMA TailsWrong == IInv /\ TailsRight /\ UNCHANGED files /\ WrongCharacter => TailsRight'
<1> SUFFICES ASSUME IInv, TailsRight, UNCHANGED files, WrongCharacter,
                    Trimmed(out) = Trimmed(ans)
             PROVE  FALSE
  BY TailsOn
<1>1. pc = "words" /\ c1 # c2 /\ (Letter(c1) \/ Letter(c2))
  BY DEF WrongCharacter, InWord, Letter, IsSpaceEx
<1>2. QED
  BY <1>1, LevelIs, LetterBeside DEF c1, c2

LEMMA TailsTrailing == IInv /\ TailsRight /\ UNCHANGED files /\ TrailingBlanks => TailsRight'
<1> SUFFICES ASSUME IInv, TailsRight, UNCHANGED files, TrailingBlanks,
                    Trimmed(out) = Trimmed(ans)
             PROVE  ret' = "V_AC" /\ Abreast(out, i', ans, j')
  BY TailsOn
<1>1. /\ pc = "blanks" /\ ret' = ret
      /\ \/ c2 = EOF /\ i' = FirstOutside(out, i, Blanks) /\ j' = j
         \/ c1 = EOF /\ j' = FirstOutside(ans, j, Blanks) /\ i' = i
  BY DEF TrailingBlanks, InBlanks
<1>2. ASSUME NEW f \in Seq(Chars), NEW k, Place(f, k), NEW g \in Seq(Chars), NEW l, Place(g, l),
             Abreast(f, k, g, l), At(g, l) = EOF
      PROVE  Abreast(f, FirstOutside(f, k, Blanks), g, l)
  <2> DEFINE n == FirstOutside(f, k, Blanks)
  <2>1. Place(f, n) /\ n \in k .. Len(f) + 1
    BY <1>2, FirstOutsideIs
  <2> HIDE DEF n
  <2>2. k \in Nat /\ n \in Nat /\ k <= n
    BY <1>2, <2>1, AtIs
  <2>3. \A m \in KeptAt(f) : ~(k <= m)
    BY <1>2, NothingAtEnd, EndBeside
  <2>4. Index(f, n) = Index(f, k)
    BY <1>2, <2>2, <2>3, NothingBetween
  <2>5. QED
    BY <1>2, <2>4 DEF Abreast, n
<1>3. CASE c2 = EOF /\ i' = FirstOutside(out, i, Blanks) /\ j' = j
  <2>1. Abreast(out, FirstOutside(out, i, Blanks), ans, j)
    BY <1>1, <1>2, <1>3, LevelIs DEF c2
  <2>2. QED
    BY <1>1, <1>3, <2>1, LevelIs
<1>4. CASE c1 = EOF /\ j' = FirstOutside(ans, j, Blanks) /\ i' = i
  <2>1. Abreast(ans, FirstOutside(ans, j, Blanks), out, i)
    BY <1>1, <1>2, <1>4, LevelIs DEF c1
  <2>2. QED
    BY <1>1, <1>4, <2>1, LevelIs, AbreastBack
<1>5. QED
  BY <1>1, <1>3, <1>4

LEMMA TailsBoth == IInv /\ TailsRight /\ UNCHANGED files /\ BothBlank => TailsRight'
<1> SUFFICES ASSUME IInv, TailsRight, UNCHANGED files, BothBlank,
                    Trimmed(out) = Trimmed(ans)
             PROVE  ret' = "V_AC" /\ Abreast(out, i', ans, j')
  BY TailsOn
<1> DEFINE inLine == Blanks \ {Newline}
           k == IF c2 = Newline THEN FirstOutside(out, i, inLine) ELSE i
           l == IF At(out, k) = Newline THEN FirstOutside(ans, j, inLine) ELSE j
<1>1. /\ pc = "blanks" /\ ret' = ret /\ c1 \in Blanks /\ c2 \in Blanks
      /\ i' = PastBlank(out, k) /\ j' = PastBlank(ans, l)
  BY DEF BothBlank, InBlanks, IsSpaceEx
<1>2. /\ ret = "V_AC" /\ Abreast(out, i, ans, j) /\ Abreast(ans, j, out, i)
      /\ out \in Seq(Chars) /\ ans \in Seq(Chars)
      /\ Place(out, i) /\ Place(ans, j)
      /\ At(out, i) = c1 /\ At(ans, j) = c2
  BY <1>1, LevelIs DEF c1, c2
<1>3. PastBlank(out, i) = i + 1 /\ PastBlank(ans, j) = j + 1
  BY <1>1, <1>2, PastBlankIs
<1>4. CASE c2 = Newline
  <2>1. k = FirstOutside(out, i, inLine)
    BY <1>4
  <2> HIDE DEF k
  <2>2. At(out, k) \in {Newline, EOF} /\ Abreast(out, PastBlank(out, k), ans, j + 1)
    BY <1>1, <1>2, <1>4, <2>1, LineEnd
  <2>3. l = j
    <3>1. CASE At(out, k) = Newline
      <4> DEFINE n == FirstOutside(ans, j, inLine)
      <4>1. inLine \in SUBSET Blanks /\ c2 \notin inLine
        BY <1>4
      <4> HIDE DEF inLine
      <4>2. n \in j .. Len(ans) + 1 /\ \A m \in j .. n - 1 : ans[m] \in inLine
        BY <1>2, <4>1, FirstOutsideIs
      <4> HIDE DEF n
      <4>3. j \in Nat /\ ans[j] = c2 /\ Len(ans) \in Nat
        BY <1>1, <1>2, AtIs
      <4>4. n = j
        <5>1. SUFFICES ASSUME n # j PROVE FALSE
          OBVIOUS
        <5>2. j \in j .. n - 1
          BY <4>2, <4>3, <5>1
        <5>3. QED
          BY <4>1, <4>2, <4>3, <5>2
      <4>5. QED
        BY <3>1, <4>4 DEF n
    <3>2. CASE At(out, k) # Newline
      BY <3>2
    <3>3. QED
      BY <3>1, <3>2
  <2>4. QED
    BY <1>1, <1>2, <1>3, <2>2, <2>3
<1>5. CASE c2 # Newline /\ c1 = Newline
  <2>1. k = i /\ l = FirstOutside(ans, j, inLine)
    BY <1>2, <1>5
  <2> HIDE DEF k, l
  <2>2. Abreast(ans, PastBlank(ans, l), out, i + 1)
    BY <1>1, <1>2, <1>5, <2>1, LineEnd
  <2>3. QED
    BY <1>1, <1>2, <1>3, <2>1, <2>2, AbreastBack
<1>6. CASE c2 # Newline /\ c1 # Newline
  <2>1. k = i /\ l = j
    BY <1>2, <1>6
  <2> HIDE DEF k, l
  <2>2. Abreast(out, i + 1, ans, j + 1)
    BY <1>1, <1>2, <1>6, InLine
  <2>3. QED
    BY <1>1, <1>2, <1>3, <2>1, <2>2
<1>7. QED
  BY <1>4, <1>5, <1>6

LEMMA TailsExtra == IInv /\ TailsRight /\ UNCHANGED files /\ ExtraBlank => TailsRight'
<1> SUFFICES ASSUME IInv, TailsRight, UNCHANGED files, ExtraBlank,
                    Trimmed(out) = Trimmed(ans)
             PROVE  FALSE
  BY TailsOn
<1>1. /\ pc = "blanks" /\ c1 # c2
      /\ Letter(c1) \/ Letter(c2)
  BY DEF ExtraBlank, InBlanks, Letter, IsSpaceEx
<1>2. QED
  BY <1>1, LevelIs, LetterBeside DEF c1, c2

LEMMA TailsBlanksEnd == IInv /\ TailsRight /\ UNCHANGED files /\ BlanksEnd => TailsRight'
<1> SUFFICES ASSUME IInv, TailsRight, UNCHANGED files, BlanksEnd,
                    Trimmed(out) = Trimmed(ans)
             PROVE  ret' = "V_AC" /\ (pc' # "end" => Abreast(out, i', ans, j'))
  BY TailsOn
<1>1. pc = "blanks" /\ c1 \notin Blanks /\ c2 \notin Blanks
  BY DEF BlanksEnd, IsSpaceEx
<1>2. c1 = c2 \/ (Letter(c1) \/ Letter(c2))
  BY <1>1 DEF Letter
<1>3. c1 = c2
  BY <1>1, <1>2, LevelIs, LetterBeside DEF c1, c2
<1>4. /\ ret' = ret
      /\ pc' # "end" => i' = i /\ j' = j
  BY <1>3 DEF BlanksEnd, End
<1>5. QED
  BY <1>1, <1>4, LevelIs

LEMMA TailsStep == IInv /\ TailsRight /\ [Next]_vars => TailsRight'
<1> SUFFICES ASSUME IInv, TailsRight, [Next]_vars PROVE TailsRight'
  OBVIOUS
<1>1. CASE BothEnd /\ UNCHANGED files
  <2>1. pc = "words" /\ pc' = "end" /\ ret' = ret
    BY <1>1 DEF BothEnd, InWord, End
  <2>2. QED
    BY <1>1, <2>1, LevelIs, TailsOn
<1>2. CASE WordsEnd /\ UNCHANGED files
  <2>1. pc = "words" /\ i' = i /\ j' = j /\ ret' = ret
    BY <1>2 DEF WordsEnd
  <2>2. QED
    BY <1>2, <2>1, LevelIs, TailsOn
<1>3. CASE UNCHANGED vars
  <2>1. UNCHANGED files /\ pc' = pc /\ i' = i /\ j' = j /\ ret' = ret
    BY <1>3 DEF vars
  <2>2. QED
    BY <2>1, TailsOn DEF TailsRight, Level
<1>4. QED
  BY <1>1, <1>2, <1>3, TailsSame, TailsWrong, TailsTrailing, TailsBoth, TailsExtra,
     TailsBlanksEnd DEF Next

-----------------------------------------------------------------------------
(* Files of one line.                                                      *)

(* Two texts with blanks in the same places, up to e.                      *)
Alike(f, g, e) ==
  e <= Len(f) /\ e <= Len(g) /\ \A m \in 1 .. e : f[m] \in Blanks <=> g[m] \in Blanks

(* They have been read side by side up to e; then one of them has ended    *)
(* and only blanks of the other came.                                      *)
Joined(f, k, g, l, e) ==
  /\ e \in Nat /\ e < k /\ e < l /\ Alike(f, g, e)
  /\ \A m \in e + 1 .. k - 1 : f[m] \in Blanks
  /\ \A m \in e + 1 .. l - 1 : g[m] \in Blanks
  /\ (k = e + 1 /\ l = e + 1) \/ EOF \in {At(f, k), At(g, l)}

LEMMA JoinedBack ==
  ASSUME NEW f, NEW k, NEW g, NEW l, NEW e, Joined(f, k, g, l, e)
  PROVE  Joined(g, l, f, k, e)
BY DEF Joined, Alike

LEMMA JoinedOn ==
  ASSUME NEW f \in Seq(Chars), NEW k, Place(f, k), NEW g \in Seq(Chars), NEW l, Place(g, l),
         NEW e, Joined(f, k, g, l, e), At(f, k) # EOF, At(g, l) # EOF,
         At(f, k) \in Blanks <=> At(g, l) \in Blanks
  PROVE  Joined(f, k + 1, g, l + 1, k)
<1>1. /\ k \in 1 .. Len(f) /\ f[k] = At(f, k) /\ l \in 1 .. Len(g) /\ g[l] = At(g, l)
      /\ Len(f) \in Nat /\ Len(g) \in Nat
  BY AtIs
<1>2. e \in Nat /\ k = e + 1 /\ l = e + 1
  BY DEF Joined
<1>3. \A m \in 1 .. k : m = k \/ m \in 1 .. e
  BY <1>1, <1>2
<1>4. Alike(f, g, k)
  BY <1>1, <1>2, <1>3 DEF Joined, Alike
<1>5. \A m \in k + 1 .. k + 1 - 1 : FALSE
  BY <1>1
<1>6. QED
  BY <1>1, <1>2, <1>4, <1>5 DEF Joined

LEMMA JoinedSkip ==
  ASSUME NEW f \in Seq(Chars), NEW k, Place(f, k), NEW g \in Seq(Chars), NEW l, Place(g, l),
         NEW e, Joined(f, k, g, l, e), At(g, l) = EOF,
         NEW n, n = FirstOutside(f, k, Blanks)
  PROVE  Joined(f, n, g, l, e)
<1>1. /\ Place(f, n) /\ n \in k .. Len(f) + 1
      /\ \A m \in k .. n - 1 : f[m] \in Blanks
  BY FirstOutsideIs
<1>2. k \in Nat /\ n \in Nat /\ k <= n /\ e \in Nat /\ e < k
  BY <1>1, AtIs DEF Joined
<1>3. \A m \in e + 1 .. n - 1 : m \in e + 1 .. k - 1 \/ m \in k .. n - 1
  BY <1>2
<1>4. \A m \in e + 1 .. n - 1 : f[m] \in Blanks
  BY <1>1, <1>3 DEF Joined
<1>5. e < n
  BY <1>2
<1>6. QED
  BY <1>4, <1>5 DEF Joined

(* Of one line Trimmed keeps all up to the last letter.                    *)
LEMMA KeptOfLine ==
  ASSUME NEW f \in Seq(Chars), OneLine(f), NEW e \in Nat, e <= Len(f),
         \A m \in e + 1 .. Len(f) : f[m] \in Blanks
  PROVE  KeptAt(f) = {k \in 1 .. e : \E m \in k .. e : f[m] \notin Blanks}
<1>1. Len(f) \in Nat /\ \A k \in 1 .. Len(f) : f[k] # Newline /\ f[k] \in Chars
  BY LenProperties, ElementOfSeq DEF OneLine
<1>2. ASSUME NEW k \in 1 .. Len(f)
      PROVE  Idle(f, k) <=> \A m \in k .. Len(f) : f[m] \in Blanks
  <2>1. ASSUME Idle(f, k), NEW m \in k .. Len(f) PROVE f[m] \in Blanks
    <3>1. PICK n \in k .. Len(f) + 1 : /\ At(f, n) \in {Newline, EOF}
                                       /\ \A x \in k .. n - 1 : f[x] \in Blanks
      BY <2>1 DEF Idle, IsSpaceEx
    <3>2. n = Len(f) + 1
      <4>1. SUFFICES ASSUME n # Len(f) + 1 PROVE FALSE
        OBVIOUS
      <4>2. n \in 1 .. Len(f)
        BY <1>1, <4>1
      <4>3. At(f, n) = f[n] /\ f[n] # Newline /\ f[n] # EOF
        BY <1>1, <4>2, CharsAssumption DEF At, Chars
      <4>4. QED
        BY <3>1, <4>3
    <3>3. m \in k .. n - 1
      BY <1>1, <3>2
    <3>4. QED
      BY <3>1, <3>3
  <2>2. ASSUME \A m \in k .. Len(f) : f[m] \in Blanks PROVE Idle(f, k)
    <3>1. Len(f) + 1 \in k .. Len(f) + 1 /\ At(f, Len(f) + 1) = EOF
      BY <1>1 DEF At
    <3>2. \A m \in k .. Len(f) + 1 - 1 : m \in k .. Len(f)
      BY <1>1
    <3>3. QED
      BY <2>2, <3>1, <3>2 DEF Idle, IsSpaceEx
  <2>3. QED
    BY <2>1, <2>2
<1>3. KeptAt(f) = {k \in 1 .. Len(f) : \E m \in k .. Len(f) : f[m] \notin Blanks}
  <2>1. \A k \in 1 .. Len(f) : k \in KeptAt(f) <=> ~Idle(f, k)
    BY <1>1 DEF KeptAt
  <2>2. KeptAt(f) \subseteq 1 .. Len(f)
    BY KeptFinite
  <2>3. QED
    BY <1>2, <2>1, <2>2
<1>4. \A k, m \in 1 .. Len(f) : k <= m /\ f[m] \notin Blanks => k \in 1 .. e /\ m \in k .. e
  <2> SUFFICES ASSUME NEW k \in 1 .. Len(f), NEW m \in 1 .. Len(f), k <= m, f[m] \notin Blanks
               PROVE  k \in 1 .. e /\ m \in k .. e
    OBVIOUS
  <2>1. m \notin e + 1 .. Len(f)
    OBVIOUS
  <2>2. QED
    BY <1>1, <2>1
<1>5. \A k \in 1 .. Len(f) : \A m \in k .. Len(f) : m \in 1 .. Len(f) /\ k <= m
  BY <1>1
<1>6. \A k \in 1 .. e : k \in 1 .. Len(f) /\ \A m \in k .. e : m \in k .. Len(f)
  BY <1>1
<1>7. QED
  BY <1>3, <1>4, <1>5, <1>6

LEMMA TrimmedOfLine ==
  ASSUME NEW f \in Seq(Chars), OneLine(f), NEW e \in Nat, e <= Len(f),
         \A m \in e + 1 .. Len(f) : f[m] \in Blanks
  PROVE  /\ KeptAt(f) = 1 .. Cardinality(KeptAt(f))
         /\ \A k \in KeptAt(f) : Trimmed(f)[k] = f[k]
<1>1. KeptAt(f) = {k \in 1 .. e : \E m \in k .. e : f[m] \notin Blanks}
  BY KeptOfLine
<1>2. KeptAt(f) \in SUBSET Nat /\ KeptAt(f) \subseteq 1 .. e
  BY <1>1
<1>3. ASSUME NEW k \in KeptAt(f), NEW n \in 1 .. k PROVE n \in KeptAt(f)
  <2>1. PICK m \in k .. e : f[m] \notin Blanks
    BY <1>1
  <2>2. n \in 1 .. e /\ m \in n .. e
    BY <1>2, <2>1
  <2>3. QED
    BY <1>1, <2>1, <2>2
<1>4. KeptAt(f) = 1 .. Cardinality(KeptAt(f))
  <2>1. CASE KeptAt(f) = {}
    <3>1. Cardinality(KeptAt(f)) = 0
      BY <2>1, FS_EmptySet
    <3>2. 1 .. 0 = {}
      OBVIOUS
    <3>3. QED
      BY <2>1, <3>1, <3>2
  <2>2. CASE KeptAt(f) # {}
    <3> DEFINE x == Max(KeptAt(f))
    <3>1. \A k \in KeptAt(f) : k <= e
      BY <1>2
    <3>2. x \in KeptAt(f) /\ \A k \in KeptAt(f) : k <= x
      BY <1>2, <2>2, <3>1, MaxIs
    <3> HIDE DEF x
    <3>3. KeptAt(f) = 1 .. x
      <4>1. KeptAt(f) \subseteq 1 .. x
        BY <1>2, <3>2
      <4>2. 1 .. x \subseteq KeptAt(f)
        BY <1>3, <3>2
      <4>3. QED
        BY <4>1, <4>2
    <3>4. x \in Nat /\ Cardinality(1 .. x) = x
      <4>1. x \in Nat /\ 1 <= x
        BY <1>2, <3>2
      <4>2. Cardinality(1 .. x) = x
        BY <4>1, FS_Interval
      <4>3. QED
        BY <4>1, <4>2
    <3>5. QED
      BY <3>3, <3>4
  <2>3. QED
    BY <2>1, <2>2
<1>5. ASSUME NEW k \in KeptAt(f) PROVE Trimmed(f)[k] = f[k]
  <2>1. k \in Nat /\ 1 <= k
    BY <1>2
  <2>2. Before(f, k) = 1 .. k - 1
    <3>1. Before(f, k) \subseteq 1 .. k - 1
      BY <1>2, <2>1 DEF Before
    <3>2. \A n \in 1 .. k - 1 : n \in 1 .. k /\ n < k
      BY <2>1
    <3>3. 1 .. k - 1 \subseteq Before(f, k)
      BY <1>3, <3>2 DEF Before
    <3>4. QED
      BY <3>1, <3>3
  <2>3. Index(f, k) = k - 1
    <3>1. k - 1 \in Nat /\ Cardinality(1 .. k - 1) = k - 1
      BY <2>1, FS_Interval
    <3>2. QED
      BY <2>2, <3>1 DEF Index
  <2>4. Index(f, k) + 1 = k
    BY <2>1, <2>3
  <2>5. QED
    BY <2>4, TrimmedIs
<1>6. QED
  BY <1>4, <1>5

(* Files of one line that are alike up to their last blanks are the same   *)
(* to Trimmed, but for the letters.                                        *)
LayoutSame(f, g) ==
  /\ Len(Trimmed(f)) = Len(Trimmed(g))
  /\ \A k \in DOMAIN Trimmed(f) : IsSpaceEx(Trimmed(f)[k]) <=> IsSpaceEx(Trimmed(g)[k])

LEMMA JoinedAtEnd ==
  ASSUME NEW f \in Seq(Chars), NEW k, Place(f, k), NEW g \in Seq(Chars), NEW l, Place(g, l),
         NEW e, Joined(f, k, g, l, e), At(f, k) = EOF, At(g, l) = EOF, OneLine(f), OneLine(g)
  PROVE  LayoutSame(f, g)
<1>1. k - 1 = Len(f) /\ l - 1 = Len(g) /\ Len(f) \in Nat /\ Len(g) \in Nat
  BY AtIs
<1>2. /\ e \in Nat /\ e <= Len(f) /\ e <= Len(g)
      /\ \A m \in 1 .. e : f[m] \in Blanks <=> g[m] \in Blanks
      /\ \A m \in e + 1 .. Len(f) : f[m] \in Blanks
      /\ \A m \in e + 1 .. Len(g) : g[m] \in Blanks
  BY <1>1 DEF Joined, Alike
<1>3. /\ KeptAt(f) = {n \in 1 .. e : \E m \in n .. e : f[m] \notin Blanks}
      /\ KeptAt(g) = {n \in 1 .. e : \E m \in n .. e : g[m] \notin Blanks}
  BY <1>2, KeptOfLine
<1>4. KeptAt(f) = KeptAt(g)
  <2>1. \A n \in 1 .. e : \A m \in n .. e : m \in 1 .. e
    BY <1>2
  <2>2. QED
    BY <1>2, <1>3, <2>1
<1>5. /\ DOMAIN Trimmed(f) = KeptAt(f)
      /\ \A n \in KeptAt(f) : Trimmed(f)[n] = f[n] /\ Trimmed(g)[n] = g[n]
  BY <1>2, <1>4, TrimmedOfLine, TrimmedIs
<1>6. Len(Trimmed(f)) = Len(Trimmed(g))
  BY <1>4, TrimmedIs
<1>7. QED
  BY <1>2, <1>3, <1>5, <1>6 DEF LayoutSame, IsSpaceEx

CountRight ==
  OneLine(out) /\ OneLine(ans) /\ ret = "V_AC" =>
    /\ \E e : Joined(out, i, ans, j, e)
    /\ pc = "end" => c1 = EOF /\ c2 = EOF

LEMMA CountInit == Init => CountRight
<1> SUFFICES ASSUME Init PROVE (\E e : Joined(out, i, ans, j, e)) /\ pc # "end"
  BY DEF CountRight
<1>1. out \in Seq(Chars) /\ ans \in Seq(Chars) /\ i = 1 /\ j = 1 /\ pc = "blanks"
  BY InitInv DEF IInv, TypeOK, Init
<1>2. Len(out) \in Nat /\ Len(ans) \in Nat
  BY <1>1, LenProperties
<1>3. Alike(out, ans, 0)
  BY <1>2 DEF Alike
<1>4. Joined(out, 1, ans, 1, 0)
  BY <1>3 DEF Joined
<1>5. QED
  BY <1>1, <1>4

(* What it says of two such files in the middle of their comparison.       *)
LEMMA CountIs ==
  ASSUME IInv, CountRight, ret = "V_AC", OneLine(out), OneLine(ans)
  PROVE  /\ \E e : Joined(out, i, ans, j, e)
         /\ out \in Seq(Chars) /\ ans \in Seq(Chars)
         /\ Place(out, i) /\ Place(ans, j)
BY Places DEF IInv, CountRight

LEMMA CountOn ==
  ASSUME UNCHANGED files,
         OneLine(out) /\ OneLine(ans) /\ ret' = "V_AC" =>
           /\ \E e : Joined(out, i', ans, j', e)
           /\ pc' = "end" => At(out, i') = EOF /\ At(ans, j') = EOF
  PROVE  CountRight'
<1>1. out' = out /\ ans' = ans
  BY DEF files
<1>2. OneLine(out)' = OneLine(out) /\ OneLine(ans)' = OneLine(ans)
  BY <1>1
<1>3. c1' = At(out, i') /\ c2' = At(ans, j')
  BY <1>1 DEF c1, c2
<1>4. (\E e : Joined(out, i, ans, j, e))' <=> \E e : Joined(out, i', ans, j', e)
  BY <1>1
<1>5. QED
  BY <1>2, <1>3, <1>4 DEF CountRight

LEMMA CountSame == IInv /\ CountRight /\ UNCHANGED files /\ SameCharacter => CountRight'
<1> SUFFICES ASSUME IInv, CountRight, UNCHANGED files, SameCharacter,
                    OneLine(out), OneLine(ans), ret' = "V_AC"
             PROVE  (\E e : Joined(out, i', ans, j', e)) /\ pc' # "end"
  BY CountOn
<1>1. /\ pc' = "words" /\ Letter(c1) /\ c2 = c1 /\ i' = i + 1 /\ j' = j + 1 /\ ret = "V_AC"
  BY DEF SameCharacter, InWord, Letter, IsSpaceEx
<1>2. PICK e : Joined(out, i, ans, j, e)
  BY <1>1, CountIs
<1>3. Joined(out, i + 1, ans, j + 1, i)
  BY <1>1, <1>2, CountIs, JoinedOn DEF c1, c2, Letter
<1>4. QED
  BY <1>1, <1>3

LEMMA CountTrailing == IInv /\ CountRight /\ UNCHANGED files /\ TrailingBlanks => CountRight'
<1> SUFFICES ASSUME IInv, CountRight, UNCHANGED files, TrailingBlanks,
                    OneLine(out), OneLine(ans), ret' = "V_AC"
             PROVE  (\E e : Joined(out, i', ans, j', e)) /\ pc' # "end"
  BY CountOn
<1>1. /\ pc' = "blanks" /\ ret = "V_AC"
      /\ \/ c2 = EOF /\ i' = FirstOutside(out, i, Blanks) /\ j' = j
         \/ c1 = EOF /\ j' = FirstOutside(ans, j, Blanks) /\ i' = i
  BY DEF TrailingBlanks, InBlanks
<1>2. PICK e : Joined(out, i, ans, j, e)
  BY <1>1, CountIs
<1>3. CASE c2 = EOF /\ i' = FirstOutside(out, i, Blanks) /\ j' = j
  <2>1. Joined(out, FirstOutside(out, i, Blanks), ans, j, e)
    BY <1>1, <1>2, <1>3, CountIs, JoinedSkip DEF c2
  <2>2. QED
    BY <1>1, <1>3, <2>1
<1>4. CASE c1 = EOF /\ j' = FirstOutside(ans, j, Blanks) /\ i' = i
  <2>1. Joined(ans, j, out, i, e)
    BY <1>2, JoinedBack
  <2>2. Joined(ans, FirstOutside(ans, j, Blanks), out, i, e)
    BY <1>1, <1>4, <2>1, CountIs, JoinedSkip DEF c1
  <2>3. Joined(out, i, ans, FirstOutside(ans, j, Blanks), e)
    BY <2>2, JoinedBack
  <2>4. QED
    BY <1>1, <1>4, <2>3
<1>5. QED
  BY <1>1, <1>3, <1>4

LEMMA CountBoth == IInv /\ CountRight /\ UNCHANGED files /\ BothBlank => CountRight'
<1> SUFFICES ASSUME IInv, CountRight, UNCHANGED files, BothBlank,
                    OneLine(out), OneLine(ans), ret' = "V_AC"
             PROVE  (\E e : Joined(out, i', ans, j', e)) /\ pc' # "end"
  BY CountOn
<1> DEFINE inLine == Blanks \ {Newline}
           k == IF c2 = Newline THEN FirstOutside(out, i, inLine) ELSE i
           l == IF At(out, k) = Newline THEN FirstOutside(ans, j, inLine) ELSE j
<1>1. /\ pc' = "blanks" /\ ret = "V_AC" /\ c1 \in Blanks /\ c2 \in Blanks
      /\ i' = PastBlank(out, k) /\ j' = PastBlank(ans, l) /\ pc = "blanks"
  BY DEF BothBlank, InBlanks, IsSpaceEx
<1>2. /\ out \in Seq(Chars) /\ ans \in Seq(Chars)
      /\ Place(out, i) /\ Place(ans, j)
      /\ At(out, i) = c1 /\ At(ans, j) = c2
  BY <1>1, CountIs DEF c1, c2
<1>3. c1 # Newline /\ c2 # Newline
  <2>1. ASSUME NEW f \in Seq(Chars), NEW n, Place(f, n), At(f, n) \in Blanks, OneLine(f)
        PROVE  At(f, n) # Newline
    <3>1. n \in DOMAIN f /\ At(f, n) = f[n]
      BY <2>1, AtIs, LenProperties
    <3>2. QED
      BY <2>1, <3>1 DEF OneLine
  <2>2. QED
    BY <1>1, <1>2, <2>1
<1>4. k = i /\ l = j
  BY <1>2, <1>3
<1> HIDE DEF k, l
<1>5. i' = i + 1 /\ j' = j + 1
  BY <1>1, <1>2, <1>4, PastBlankIs
<1>6. PICK e : Joined(out, i, ans, j, e)
  BY <1>1, CountIs
<1>7. Joined(out, i + 1, ans, j + 1, i)
  BY <1>1, <1>2, <1>6, JoinedOn, CharsAssumption
<1>8. QED
  BY <1>1, <1>5, <1>7

LEMMA CountStep == IInv /\ CountRight /\ [Next]_vars => CountRight'
<1> SUFFICES ASSUME IInv, CountRight, [Next]_vars PROVE CountRight'
  OBVIOUS
<1>1. CASE BothEnd /\ UNCHANGED files
  <2>1. c1 = EOF /\ c2 = EOF /\ i' = i /\ j' = j /\ ret' = ret
    BY <1>1 DEF BothEnd, InWord, End
  <2>2. QED
    BY <1>1, <2>1, CountIs, CountOn DEF c1, c2
<1>2. CASE (WrongCharacter \/ ExtraBlank) /\ UNCHANGED files
  <2>1. ret' # "V_AC"
    BY <1>2 DEF WrongCharacter, ExtraBlank, End
  <2>2. QED
    BY <1>2, <2>1, CountOn
<1>3. CASE WordsEnd /\ UNCHANGED files
  <2>1. pc' = "blanks" /\ i' = i /\ j' = j /\ ret' = ret
    BY <1>3 DEF WordsEnd
  <2>2. QED
    BY <1>3, <2>1, CountIs, CountOn
<1>4. CASE BlanksEnd /\ UNCHANGED files
  <2>1. CASE c1 = EOF /\ c2 = EOF /\ End(ret)
    <3>1. i' = i /\ j' = j /\ ret' = ret
      BY <2>1 DEF End
    <3>2. QED
      BY <1>4, <2>1, <3>1, CountIs, CountOn DEF c1, c2
  <2>2. CASE End("V_WA")
    <3>1. ret' # "V_AC"
      BY <2>2 DEF End
    <3>2. QED
      BY <1>4, <3>1, CountOn
  <2>3. CASE pc' = "words" /\ UNCHANGED <<i, j, ret>>
    <3>1. pc' # "end" /\ i' = i /\ j' = j /\ ret' = ret
      BY <2>3
    <3>2. QED
      BY <1>4, <3>1, CountIs, CountOn
  <2>4. QED
    BY <1>4, <2>1, <2>2, <2>3 DEF BlanksEnd
<1>5. CASE UNCHANGED vars
  <2>1. UNCHANGED files /\ pc' = pc /\ i' = i /\ j' = j /\ ret' = ret
    BY <1>5 DEF vars
  <2>2. QED
    BY <2>1, CountOn DEF CountRight, c1, c2
<1>6. QED
  BY <1>1, <1>2, <1>3, <1>4, <1>5, CountSame, CountTrailing, CountBoth DEF Next

-----------------------------------------------------------------------------
(* Blanks at the ends of lines and blank lines at the end cost nothing:    *)
(* files that are the same without them are accepted, for every two files  *)
(* over any alphabet (compare_zoj, the test ignore_space_of_line_tailer).  *)
THEOREM LineTailsCostNothing == Spec => []LineTailsIgnored
<1> DEFINE TInv == IInv /\ TailsRight
<1>1. Init => TInv
  BY InitInv, TailsInit
<1>2. TInv /\ [Next]_vars => TInv'
  BY StepInv, TailsStep
<1>3. TInv => LineTailsIgnored
  BY DEF TailsRight, LineTailsIgnored
<1>4. QED
  BY <1>1, <1>2, <1>3, PTL DEF Spec

(* Inside one line every extra or missing blank is reported: an accepted   *)
(* output of one line has its blanks where the answer has them             *)
(* (find_next_nonspace, the tests case4 and case6).                        *)
THEOREM BlanksAreCounted == Spec => []BlanksCounted
<1> DEFINE CInv == IInv /\ CountRight
<1>1. Init => CInv
  BY InitInv, CountInit
<1>2. CInv /\ [Next]_vars => CInv'
  BY StepInv, CountStep
<1>3. CInv => BlanksCounted
  <2> SUFFICES ASSUME CInv, pc = "end", ret = "V_AC", OneLine(out), OneLine(ans)
               PROVE  LayoutSame(out, ans)
    BY DEF BlanksCounted, LayoutSame
  <2>1. c1 = EOF /\ c2 = EOF
    BY DEF CountRight
  <2>2. PICK e : Joined(out, i, ans, j, e)
    BY CountIs
  <2>3. QED
    BY <2>1, <2>2, CountIs, JoinedAtEnd DEF c1, c2
<1>4. QED
  BY <1>1, <1>2, <1>3, PTL DEF Spec
=============================================================================
