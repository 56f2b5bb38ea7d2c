------------------------ MODULE ContestTablesProofs ------------------------
(***************************************************************************)
(* Proofs about the tables of a contest, for any users, problems, points,  *)
(* times and bounds: the types, the counters and the standings.            *)
(***************************************************************************)
EXTENDS ContestTables, FiniteSetTheorems, WellFoundedInduction, SequenceTheorems, TLAPS

-----------------------------------------------------------------------------
(* Sums.                                                                   *)

(* A set of naturals that is not empty has a least member.                 *)
LEMMA Smallest ==
  ASSUME NEW S \in SUBSET Nat, S # {}
  PROVE  \E n \in S : \A m \in S : n <= m
<1> DEFINE Upto == {0 .. n : n \in S}
<1>1. Upto \subseteq FiniteSubsetsOf(Nat)
  <2>1. \A n \in S : IsFiniteSet(0 .. n) /\ 0 .. n \subseteq Nat
    BY FS_Interval
  <2>2. QED
    BY <2>1 DEF FiniteSubsetsOf
<1>2. Upto # {}
  OBVIOUS
<1> HIDE DEF Upto
<1>3. PICK x \in Upto : \A y \in Upto : <<y, x>> \notin StrictSubsetOrdering(Nat)
  BY <1>1, <1>2, FS_StrictSubsetOrderingWellFounded, WFMin
<1>4. PICK n \in S : x = 0 .. n
  BY DEF Upto
<1>5. ASSUME NEW m \in S, m < n PROVE FALSE
  <2>1. 0 .. m \in Upto
    BY DEF Upto
  <2>2. 0 .. m \subseteq 0 .. n /\ n \in 0 .. n /\ n \notin 0 .. m
    BY <1>5
  <2>3. <<0 .. m, 0 .. n>> \in StrictSubsetOrdering(Nat)
    BY <2>2 DEF StrictSubsetOrdering
  <2>4. QED
    BY <1>3, <1>4, <2>1, <2>3
<1>6. QED
  BY <1>5

(* A set is summed element by element, in the order of CHOOSE.             *)
Summand(f, g, s) ==
  IF s = {} THEN 0
  ELSE f[CHOOSE x \in s : TRUE] + g[s \ {CHOOSE x \in s : TRUE}]
Sums(f, S, g) == g = [s \in SUBSET S |-> Summand(f, g, s)]

LEMMA SumIs ==
  ASSUME NEW f, NEW S
  PROVE  SumFunctionOnSet(f, S) = (CHOOSE g : Sums(f, S, g))[S]
BY DEF SumFunctionOnSet, FoldFunctionOnSet, MapThenFoldSet, Sums, Summand

(* The sums over the subsets of up to n elements exist.                    *)
LEMMA SumsExist ==
  ASSUME NEW f, NEW S, IsFiniteSet(S)
  PROVE  \E g : Sums(f, S, g)
<1> DEFINE Upto(n) == {s \in SUBSET S : Cardinality(s) <= n}
           Part(g, n) == g = [s \in Upto(n) |-> Summand(f, g, s)]
           Bad == {n \in Nat : ~ \E g : Part(g, n)}
<1>0. \A s \in SUBSET S : IsFiniteSet(s) /\ Cardinality(s) \in Nat
  BY FS_Subset, FS_CardinalityType
<1>1. ASSUME Bad # {} PROVE FALSE
  <2>1. PICK m \in Bad : \A n \in Bad : m <= n
    <3>1. Bad \in SUBSET Nat
      OBVIOUS
    <3> HIDE DEF Bad
    <3>2. QED
      BY <1>1, <3>1, Smallest
  <2>2. m \in Nat /\ ~ \E g : Part(g, m)
    BY <2>1
  <2>3. CASE m = 0
    <3> DEFINE g == [s \in Upto(0) |-> 0]
    <3>1. \A s \in Upto(0) : s = {}
      BY <1>0, FS_EmptySet
    <3>2. \A s \in Upto(0) : Summand(f, g, s) = 0
      BY <3>1 DEF Summand
    <3>3. g = [s \in Upto(0) |-> Summand(f, g, s)]
      BY <3>2
    <3>4. QED
      BY <2>2, <2>3, <3>3
  <2>4. CASE m # 0
    <3>1. m - 1 \in Nat /\ m - 1 \notin Bad
      <4> HIDE DEF Bad
      <4>1. QED
        BY <2>1, <2>2, <2>4
    <3>2. PICK h : Part(h, m - 1)
      BY <3>1
    <3> DEFINE g == [s \in Upto(m) |-> IF s \in Upto(m - 1) THEN h[s] ELSE Summand(f, h, s)]
    <3>3. \A s \in Upto(m) : g[s] = Summand(f, h, s)
      BY <3>2
    <3>4. \A s \in Upto(m) : s # {} =>
            LET r == s \ {CHOOSE x \in s : TRUE} IN r \in Upto(m - 1) /\ r \in Upto(m)
      <4> SUFFICES ASSUME NEW s \in Upto(m), s # {}
                   PROVE  s \ {CHOOSE x \in s : TRUE} \in Upto(m - 1)
                          /\ s \ {CHOOSE x \in s : TRUE} \in Upto(m)
        OBVIOUS
      <4> DEFINE x == CHOOSE y \in s : TRUE
      <4>1. x \in s
        OBVIOUS
      <4> HIDE DEF x
      <4>2. Cardinality(s \ {x}) = Cardinality(s) - 1 /\ Cardinality(s) \in Nat
            /\ Cardinality(s) <= m /\ s \in SUBSET S
        BY <1>0, <4>1, FS_RemoveElement
      <4>3. s \ {x} \in Upto(m - 1) /\ s \ {x} \in Upto(m)
        BY <2>2, <4>2
      <4>4. QED
        BY <4>3 DEF x
    <3>5. \A s \in Upto(m - 1) : s \in Upto(m) => g[s] = h[s]
      OBVIOUS
    <3>6. \A s \in Upto(m) : Summand(f, g, s) = Summand(f, h, s)
      <4> SUFFICES ASSUME NEW s \in Upto(m) PROVE Summand(f, g, s) = Summand(f, h, s)
        OBVIOUS
      <4> HIDE DEF g, Upto
      <4>1. CASE s = {}
        BY <4>1 DEF Summand
      <4>2. CASE s # {}
        BY <3>4, <3>5, <4>2 DEF Summand
      <4>3. QED
        BY <4>1, <4>2
    <3>7. DOMAIN g = Upto(m) /\ g = [s \in Upto(m) |-> g[s]]
      OBVIOUS
    <3>8. \A s \in Upto(m) : g[s] = Summand(f, g, s)
      <4> HIDE DEF g, Upto
      <4>1. QED
        BY <3>3, <3>6
    <3>9. Part(g, m)
      <4> HIDE DEF g, Upto
      <4>1. QED
        BY <3>7, <3>8
    <3>10. QED
      BY <2>2, <3>9
  <2>5. QED
    BY <2>3, <2>4
<1>2. Cardinality(S) \in Nat /\ Upto(Cardinality(S)) = SUBSET S
  <2>1. \A s \in SUBSET S : Cardinality(s) <= Cardinality(S)
    BY FS_Subset
  <2>2. QED
    BY <1>0, <2>1
<1>3. \E g : Part(g, Cardinality(S))
  BY <1>1, <1>2
<1> HIDE DEF Upto
<1>4. QED
  BY <1>2, <1>3 DEF Sums

LEMMA SumType ==
  ASSUME NEW S, IsFiniteSet(S), NEW f, \A x \in S : f[x] \in Nat
  PROVE  SumFunctionOnSet(f, S) \in Nat
<1> DEFINE g == CHOOSE h : Sums(f, S, h)
           Bad == {Cardinality(s) : s \in {t \in SUBSET S : g[t] \notin Nat}}
<1>1. Sums(f, S, g)
  BY SumsExist
<1> HIDE DEF g
<1>2. \A s \in SUBSET S : g[s] = Summand(f, g, s)
  BY <1>1 DEF Sums
<1>3. \A s \in SUBSET S : IsFiniteSet(s) /\ Cardinality(s) \in Nat
  BY FS_Subset, FS_CardinalityType
<1>4. ASSUME Bad # {} PROVE FALSE
  <2>1. PICK n \in Bad : \A m \in Bad : n <= m
    <3>1. Bad \in SUBSET Nat
      BY <1>3
    <3> HIDE DEF Bad
    <3>2. QED
      BY <1>4, <3>1, Smallest
  <2>2. PICK s \in SUBSET S : g[s] \notin Nat /\ n = Cardinality(s)
    BY <2>1
  <2>3. s # {}
    BY <1>2, <2>2 DEF Summand
  <2> DEFINE x == CHOOSE y \in s : TRUE
             r == s \ {x}
  <2>4. x \in s /\ g[s] = f[x] + g[r]
    BY <1>2, <2>3 DEF Summand
  <2> HIDE DEF x
  <2>5. Cardinality(r) = Cardinality(s) - 1 /\ r \in SUBSET S
    BY <1>3, <2>4, FS_RemoveElement
  <2> HIDE DEF r
  <2>6. g[r] \in Nat
    <3>1. CASE Cardinality(r) \in Bad
      BY <1>3, <2>1, <2>2, <2>5, <3>1
    <3>2. CASE Cardinality(r) \notin Bad
      BY <2>5, <3>2
    <3>3. QED
      BY <3>1, <3>2
  <2>7. QED
    BY <2>2, <2>4, <2>6
<1>5. g[S] \in Nat
  BY <1>4
<1>6. QED
  BY <1>5, SumIs DEF g

-----------------------------------------------------------------------------
(* The rows and the types.                                                 *)

Verdicts == {V_Q, V_C, V_SK} \cup Results
RowType == [user : Users, problem : Problems, time : Dates, verdict : Verdicts]
Places == {"solution", "problem", "user", "contest", "time", "totals", "penalty",
           "contest_problem"}

(* What the steps of all the threads do to the rows: one is added, or one  *)
(* verdict changes.                                                        *)
Added(u, p, t) == rows' = Append(rows, Row(u, p, t))
Marked(i, v) == rows' = [rows EXCEPT ![i].verdict = v]

LEMMA VerdictsOrdered ==
  /\ V_Q \in Nat /\ V_C \in Nat /\ V_AC \in Nat /\ V_Q < V_AC /\ V_C < V_AC
  /\ \A v \in Verdicts : v \in Nat
BY ResultsAssumption DEF Verdicts, V_Q, V_C, V_AC, V_SK

LEMMA RowIs ==
  ASSUME rows \in Seq(RowType), NEW i \in Ids
  PROVE  /\ rows[i] \in RowType
         /\ rows[i].user \in Users /\ rows[i].problem \in Problems
         /\ rows[i].time \in Dates /\ rows[i].time \in Nat
         /\ rows[i].verdict \in Verdicts /\ rows[i].verdict \in Nat
<1>1. rows[i] \in RowType
  BY DEF Ids
<1>2. QED
  BY <1>1, TimesAssumption, VerdictsOrdered DEF RowType

LEMMA RowsAdded ==
  ASSUME rows \in Seq(RowType), NEW u \in Users, NEW p \in Problems, NEW t \in Dates,
         Added(u, p, t)
  PROVE  /\ rows' \in Seq(RowType) /\ Len(rows') = Len(rows) + 1
         /\ Ids' = Ids \cup {Len(rows) + 1} /\ Len(rows) + 1 \notin Ids
         /\ \A i \in Ids : i \in Ids' /\ rows'[i] = rows[i]
         /\ rows'[Len(rows) + 1] = Row(u, p, t)
         /\ Ids \subseteq Nat /\ \A i \in Ids : i < Len(rows) + 1
<1> DEFINE r == Row(u, p, t)
           n == Len(rows)
<1>1. r \in RowType
  BY DEF Row, RowType, Verdicts
<1> HIDE DEF r
<1>2. /\ rows' \in Seq(RowType) /\ Len(rows') = n + 1 /\ n \in Nat
      /\ \A i \in 1 .. n : rows'[i] = rows[i]
      /\ rows'[n + 1] = r
  BY <1>1, AppendProperties DEF Added, r
<1>3. Ids = 1 .. n /\ Ids' = 1 .. n + 1
  BY <1>2 DEF Ids
<1> HIDE DEF n
<1>4. Ids' = Ids \cup {n + 1} /\ n + 1 \notin Ids /\ Ids \subseteq Nat
      /\ \A i \in Ids : i < n + 1 /\ i \in Ids' /\ rows'[i] = rows[i]
  BY <1>2, <1>3
<1>5. QED
  BY <1>2, <1>4 DEF n, r

LEMMA RowsMarked ==
  ASSUME rows \in Seq(RowType), NEW i \in Ids, NEW v \in Verdicts, Marked(i, v)
  PROVE  /\ rows' \in Seq(RowType) /\ Len(rows') = Len(rows) /\ Ids' = Ids
         /\ \A k \in Ids : /\ rows'[k].user = rows[k].user
                           /\ rows'[k].problem = rows[k].problem
                           /\ rows'[k].time = rows[k].time
         /\ \A k \in Ids \ {i} : rows'[k] = rows[k]
         /\ rows'[i].verdict = v
<1> DEFINE r == [rows[i] EXCEPT !.verdict = v]
<1>1. rows[i] \in RowType
  BY DEF Ids
<1>2. /\ r \in RowType /\ r.user = rows[i].user /\ r.problem = rows[i].problem
      /\ r.time = rows[i].time /\ r.verdict = v
  BY <1>1 DEF RowType
<1>3. rows' = [rows EXCEPT ![i] = r]
  BY DEF Marked
<1> HIDE DEF r
<1>4. /\ rows' \in Seq(RowType) /\ Len(rows') = Len(rows) /\ Ids' = Ids
      /\ rows'[i] = r /\ \A k \in Ids \ {i} : rows'[k] = rows[k]
  BY <1>2, <1>3 DEF Ids
<1>5. QED
  BY <1>2, <1>4

LEMMA IdsFinite ==
  ASSUME rows \in Seq(RowType)
  PROVE  IsFiniteSet(Ids) /\ Ids \subseteq Nat
<1>1. Len(rows) \in Nat /\ Ids = 1 .. Len(rows)
  BY DEF Ids
<1>2. QED
  BY <1>1, FS_Interval

(* A count over rows is a number, and so is one of their users or          *)
(* problems.                                                               *)
LEMMA Counted ==
  ASSUME rows \in Seq(RowType), NEW ids \in SUBSET Ids
  PROVE  /\ Cardinality(ids) \in Nat
         /\ IsFiniteSet(UsersOf(ids)) /\ Cardinality(UsersOf(ids)) \in Nat
         /\ IsFiniteSet(ProblemsOf(ids)) /\ Cardinality(ProblemsOf(ids)) \in Nat
<1>1. IsFiniteSet(ids)
  BY IdsFinite, FS_Subset
<1>2. IsFiniteSet(UsersOf(ids))
  <2> DEFINE f == [i \in ids |-> rows[i].user]
  <2>1. f \in Surjection(ids, UsersOf(ids))
    BY DEF Surjection, UsersOf
  <2>2. QED
    BY <1>1, <2>1, FS_Surjection
<1>3. IsFiniteSet(ProblemsOf(ids))
  <2> DEFINE f == [i \in ids |-> rows[i].problem]
  <2>1. f \in Surjection(ids, ProblemsOf(ids))
    BY DEF Surjection, ProblemsOf
  <2>2. QED
    BY <1>1, <2>1, FS_Surjection
<1>4. QED
  BY <1>1, <1>2, <1>3, FS_CardinalityType

Counts == [accepted : Nat, submit : Nat, solved : Nat, submit_user : Nat]
Standings == [time : [Problems -> Nat], wrong : [Problems -> Nat],
              solved : Nat, score : Nat, penalty : Nat]

LEMMA CountsTyped ==
  ASSUME rows \in Seq(RowType)
  PROVE  /\ \A p : ProblemCounts(p) \in Counts
         /\ \A u : UserCounts(u) \in [submit : Nat, solved : Nat]
<1>1. ASSUME NEW p PROVE ProblemCounts(p) \in Counts
  <2>1. OfProblem(p) \in SUBSET Ids /\ With(OfProblem(p), V_AC) \in SUBSET Ids
    BY DEF OfProblem, With
  <2>2. QED
    BY <2>1, Counted DEF ProblemCounts, Counts
<1>2. ASSUME NEW u PROVE UserCounts(u) \in [submit : Nat, solved : Nat]
  <2>1. OfUser(u) \in SUBSET Ids /\ With(OfUser(u), V_AC) \in SUBSET Ids
    BY DEF OfUser, With
  <2>2. QED
    BY <2>1, Counted DEF UserCounts
<1>3. QED
  BY <1>1, <1>2

LEMMA SetTyped ==
  /\ \A old \in Counts, new \in Counts : \A failed : Set(old, new, failed) \in Counts
  /\ \A old \in [submit : Nat, solved : Nat], new \in [submit : Nat, solved : Nat] : \A failed :
       Set(old, new, failed) \in [submit : Nat, solved : Nat]
<1>1. ASSUME NEW old \in Counts, NEW new \in Counts, NEW failed
      PROVE  Set(old, new, failed) \in Counts
  <2> DEFINE r == Set(old, new, failed)
  <2>1. DOMAIN old = {"accepted", "submit", "solved", "submit_user"}
    BY DEF Counts
  <2>2. r = [c \in {"accepted", "submit", "solved", "submit_user"} |->
               IF c \in failed THEN old[c] ELSE new[c]]
    BY <2>1 DEF Set
  <2>3. r = [accepted |-> r.accepted, submit |-> r.submit, solved |-> r.solved,
             submit_user |-> r.submit_user]
    BY <2>2
  <2>4. r.accepted \in Nat /\ r.submit \in Nat /\ r.solved \in Nat /\ r.submit_user \in Nat
    BY <2>2 DEF Counts
  <2> HIDE DEF r
  <2>5. r \in Counts
    BY <2>3, <2>4 DEF Counts
  <2>6. QED
    BY <2>5 DEF r
<1>2. ASSUME NEW old \in [submit : Nat, solved : Nat], NEW new \in [submit : Nat, solved : Nat],
             NEW failed
      PROVE  Set(old, new, failed) \in [submit : Nat, solved : Nat]
  <2> DEFINE r == Set(old, new, failed)
  <2>2. r = [c \in {"submit", "solved"} |-> IF c \in failed THEN old[c] ELSE new[c]]
    BY DEF Set
  <2>3. r = [submit |-> r.submit, solved |-> r.solved]
    BY <2>2
  <2>4. r.submit \in Nat /\ r.solved \in Nat
    BY <2>2
  <2> HIDE DEF r
  <2>5. r \in [submit : Nat, solved : Nat]
    BY <2>3, <2>4
  <2>6. QED
    BY <2>5 DEF r
<1>3. QED
  BY <1>1, <1>2

-----------------------------------------------------------------------------
(* Every step keeps the types, the order of the rows and the row in hand.  *)

Jobs == [row : 0 .. MaxRows, verdict : {V_Q} \cup Results, ok : BOOLEAN,
         start : Times, end : Times, until : Times, named : BOOLEAN, running : BOOLEAN]

(* The website's clock is the order of the rows.                           *)
Ordered == \A i, j \in Ids : i < j => rows[i].time <= rows[j].time
InHand == pc # "idle" => job.row \in Ids

RowsTyped == rows \in Seq(RowType) /\ Len(rows) <= MaxRows /\ Ordered /\ InHand
TablesTyped ==
  /\ problem \in [Problems -> Counts] /\ contest \in [Problems -> Counts]
  /\ user \in [Users -> [submit : Nat, solved : Nat]]
  /\ attend \in [Users -> Standings]
RestTyped ==
  /\ job \in Jobs /\ pc \in Places \cup {"idle"} /\ faults \in 0 .. MaxFaults
  /\ counted \subseteq Pairs /\ placed \subseteq Pairs

Shape == RowsTyped /\ TablesTyped /\ RestTyped

LEMMA TimesAre == Times \subseteq Nat /\ StartTime \in Times /\ EndTime \in Times
BY TimesAssumption DEF Times

LEMMA NoJobIs == NoJob \in Jobs
BY TimesAre, BoundsAssumption DEF NoJob, Jobs

LEMMA ShapeInit == Init => Shape
<1> SUFFICES ASSUME Init PROVE Shape
  OBVIOUS
<1>1. rows \in Seq(RowType) /\ Len(rows) = 0 /\ Ids = {}
  BY DEF Init, Ids
<1>2. RowsTyped
  BY <1>1, BoundsAssumption DEF RowsTyped, Ordered, InHand, Init
<1>3. NoStanding \in Standings
  BY DEF NoStanding, Standings
<1>4. TablesTyped
  BY <1>1, <1>3, CountsTyped DEF Init, TablesTyped
<1>5. RestTyped
  BY NoJobIs, BoundsAssumption DEF Init, RestTyped
<1>6. QED
  BY <1>2, <1>4, <1>5 DEF Shape

(* The steps that write rows, and those that go on with a job.             *)
LEMMA RowsWritten ==
  ASSUME Shape, [Next]_vars
  PROVE  \/ rows' = rows
         \/ \E u \in Users, p \in Problems, t \in Dates : Submit(u, p, t) /\ Added(u, p, t)
         \/ \E i \in Ids, v \in Verdicts : Marked(i, v)
<1>1. ASSUME NEW i \in Ids, NEW v \in Results, Judge(i, v) PROVE Marked(i, V_C)
  BY <1>1 DEF Judge, Marked
<1>2. ASSUME NEW i \in Ids, Skip(i) PROVE Marked(i, V_SK)
  BY <1>2 DEF Skip, Marked
<1>3. ASSUME UpdateSolution PROVE rows' = rows \/ Marked(job.row, job.verdict)
  BY <1>3 DEF UpdateSolution, Marked
<1>4. UpdateSolution => job.row \in Ids
  BY DEF Shape, RowsTyped, InHand, UpdateSolution, Follows
<1>5. V_C \in Verdicts /\ V_SK \in Verdicts /\ job.verdict \in Verdicts
  BY DEF Shape, RestTyped, Jobs, Verdicts
<1>6. ASSUME NEW u \in Users, NEW p \in Problems, NEW t \in Dates, Submit(u, p, t)
      PROVE  Added(u, p, t)
  BY <1>6 DEF Submit, Added
<1>7. CASE UpdateProblem \/ UpdateUser \/ UpdateContest \/ AttendTime \/ AttendTotals
           \/ AttendPenalty \/ UpdateContestProblem \/ Crash \/ UNCHANGED vars
  BY <1>7 DEF UpdateProblem, UpdateUser, UpdateContest, AttendTime, AttendTotals,
              AttendPenalty, UpdateContestProblem, Crash, vars
<1>8. QED
  BY <1>1, <1>2, <1>3, <1>4, <1>5, <1>6, <1>7 DEF Next

LEMMA JobGoesOn ==
  ASSUME Shape, [Next]_vars, ~ \E i \in Ids, v \in Results : Judge(i, v)
  PROVE  pc' # "idle" => pc # "idle" /\ job'.row = job.row
<1>1. job \in Jobs
  BY DEF Shape, RestTyped
<1>2. ASSUME NEW u \in Users, NEW p \in Problems, NEW t \in Dates, Submit(u, p, t)
      PROVE  pc' = pc /\ job' = job
  BY <1>2 DEF Submit
<1>3. ASSUME NEW i \in Ids, Skip(i) PROVE pc' = pc /\ job'.row = job.row
  BY <1>1, <1>3 DEF Skip, Jobs
<1>4. CASE UpdateSolution \/ UpdateProblem \/ UpdateUser \/ AttendTotals \/ AttendPenalty
  BY <1>1, <1>4 DEF UpdateSolution, UpdateProblem, UpdateUser, AttendTotals, AttendPenalty,
                    Follows, Jobs
<1>5. CASE UpdateContest
  BY <1>1, <1>5 DEF UpdateContest, Jobs
<1>6. CASE AttendTime
  BY <1>1, <1>6 DEF AttendTime, Jobs
<1>7. CASE UpdateContestProblem \/ Crash \/ UNCHANGED vars
  BY <1>7 DEF UpdateContestProblem, Crash, vars
<1>8. QED
  BY <1>2, <1>3, <1>4, <1>5, <1>6, <1>7 DEF Next

LEMMA RowsStep == ASSUME Shape, [Next]_vars PROVE RowsTyped'
<1>1. rows \in Seq(RowType) /\ Len(rows) <= MaxRows /\ Ordered /\ InHand
  BY DEF Shape, RowsTyped
<1>2. rows' \in Seq(RowType) /\ Len(rows') <= MaxRows /\ Ordered' /\ Ids \subseteq Ids'
  <2>1. CASE rows' = rows
    BY <1>1, <2>1 DEF Ordered, Ids
  <2>2. ASSUME NEW u \in Users, NEW p \in Problems, NEW t \in Dates, Submit(u, p, t),
               Added(u, p, t)
        PROVE  rows' \in Seq(RowType) /\ Len(rows') <= MaxRows /\ Ordered' /\ Ids \subseteq Ids'
    <3> DEFINE n == Len(rows) + 1
    <3>1. /\ rows' \in Seq(RowType) /\ Len(rows') = n
          /\ Ids' = Ids \cup {n} /\ n \notin Ids
          /\ \A i \in Ids : rows'[i] = rows[i]
          /\ rows'[n] = Row(u, p, t)
          /\ Ids \subseteq Nat /\ \A i \in Ids : i < n
      BY <1>1, <2>2, RowsAdded
    <3>2. Len(rows) < MaxRows /\ Len(rows) \in Nat /\ \A i \in Ids : rows[i].time <= t
      BY <1>1, <2>2 DEF Submit
    <3>3. rows'[n].time = t
      BY <3>1 DEF Row
    <3>4. n <= MaxRows /\ n \in Nat
      BY <3>2, BoundsAssumption
    <3> HIDE DEF n
    <3>5. Ordered'
      <4> SUFFICES ASSUME NEW i \in Ids', NEW j \in Ids', i < j
                   PROVE  rows'[i].time <= rows'[j].time
        BY DEF Ordered
      <4>1. i \in Ids
        <5>1. i # n \/ i \in Ids
          <6>1. CASE i = n
            <7>1. j \in Ids \/ j = n
              BY <3>1
            <7>2. j \in Nat /\ j <= n
              BY <3>1, <3>4, <7>1
            <7>3. QED
              BY <3>4, <6>1, <7>2
          <6>2. QED
            BY <6>1
        <5>2. QED
          BY <3>1, <5>1
      <4>2. CASE j \in Ids
        BY <1>1, <3>1, <4>1, <4>2 DEF Ordered
      <4>3. CASE j = n
        BY <3>1, <3>2, <3>3, <4>1, <4>3
      <4>4. QED
        BY <3>1, <4>2, <4>3
    <3>6. QED
      BY <3>1, <3>4, <3>5
  <2>3. ASSUME NEW i \in Ids, NEW v \in Verdicts, Marked(i, v)
        PROVE  rows' \in Seq(RowType) /\ Len(rows') <= MaxRows /\ Ordered' /\ Ids \subseteq Ids'
    <3>1. /\ rows' \in Seq(RowType) /\ Len(rows') = Len(rows) /\ Ids' = Ids
          /\ \A k \in Ids : rows'[k].time = rows[k].time
      BY <1>1, <2>3, RowsMarked
    <3>2. QED
      BY <1>1, <3>1 DEF Ordered
  <2>4. QED
    BY <2>1, <2>2, <2>3, RowsWritten
<1>3. InHand'
  <2>1. ASSUME NEW i \in Ids, NEW v \in Results, Judge(i, v) PROVE job'.row = i
    BY <2>1, NoJobIs DEF Judge, Jobs
  <2>2. QED
    BY <1>1, <1>2, <2>1, JobGoesOn DEF InHand
<1>4. QED
  BY <1>2, <1>3 DEF RowsTyped

LEMMA MinIs ==
  ASSUME NEW S \in SUBSET Nat, S # {}
  PROVE  Min(S) \in S /\ \A y \in S : Min(S) <= y
<1>1. \E x \in S : \A y \in S : x <= y
  BY Smallest
<1>2. QED
  BY <1>1 DEF Min

LEMMA MinOfOne == ASSUME NEW t PROVE Min({t}) = t
BY DEF Min

(* The first acceptance between two times is the time of a row.            *)
LEMMA FirstIs ==
  ASSUME rows \in Seq(RowType), NEW u, NEW p, NEW s, NEW e
  PROVE  \/ FirstAC(u, p, s, e) = {} /\ Between(With(Of(u, p), V_AC), s, e) = {}
         \/ \E i \in Between(With(Of(u, p), V_AC), s, e) :
              /\ FirstAC(u, p, s, e) = {rows[i].time}
              /\ \A k \in Between(With(Of(u, p), V_AC), s, e) : i <= k
<1> DEFINE accepted == Between(With(Of(u, p), V_AC), s, e)
<1>1. accepted \in SUBSET Nat
  BY IdsFinite DEF Between, With, Of, OfUser, OfProblem
<1>2. FirstAC(u, p, s, e) = IF accepted = {} THEN {} ELSE {rows[Min(accepted)].time}
  BY DEF FirstAC
<1> HIDE DEF accepted
<1>3. CASE accepted = {}
  BY <1>2, <1>3 DEF accepted
<1>4. CASE accepted # {}
  <2>1. Min(accepted) \in accepted /\ \A k \in accepted : Min(accepted) <= k
    BY <1>1, <1>4, MinIs
  <2>2. QED
    BY <1>2, <1>4, <2>1 DEF accepted
<1>5. QED
  BY <1>3, <1>4

LEMMA JobIs ==
  ASSUME Shape, pc # "idle"
  PROVE  /\ job.row \in Ids /\ JobUser \in Users /\ JobProblem \in Problems
         /\ JobPair \in Pairs
<1>1. job.row \in Ids /\ rows \in Seq(RowType)
  BY DEF Shape, RowsTyped, InHand
<1>2. QED
  BY <1>1, RowIs DEF JobUser, JobProblem, JobPair, Pairs

(* The queries that may fail are few.                                      *)
LEMMA FailuresTyped ==
  ASSUME Shape, NEW S, IsFiniteSet(S), NEW failed \in SUBSET S, Goes(failed)
  PROVE  faults' \in 0 .. MaxFaults
<1>1. Cardinality(failed) \in Nat
  BY FS_Subset, FS_CardinalityType
<1>2. faults \in 0 .. MaxFaults
  BY DEF Shape, RestTyped
<1>3. QED
  BY <1>1, <1>2, BoundsAssumption DEF Goes

LEMMA QueriesFew ==
  /\ IsFiniteSet({"accepted", "submit", "solved", "submit_user"})
  /\ IsFiniteSet({"submit", "solved"}) /\ IsFiniteSet({"num", "times"})
  /\ IsFiniteSet({"first", "update"}) /\ IsFiniteSet({"score", "update"})
  /\ IsFiniteSet({"verdict"}) /\ IsFiniteSet(Problems \cup {"count", "update"})
<1>1. \A x, y : IsFiniteSet({x}) /\ IsFiniteSet({x, y})
  <2>1. \A x : IsFiniteSet({x})
    BY FS_Singleton
  <2>2. \A x, y : IsFiniteSet({x} \cup {y})
    BY <2>1, FS_AddElement
  <2>3. \A x, y : {x, y} = {x} \cup {y}
    OBVIOUS
  <2>4. QED
    BY <2>1, <2>2, <2>3
<1>2. {"accepted", "submit", "solved", "submit_user"}
        = {"accepted", "submit"} \cup {"solved", "submit_user"}
  OBVIOUS
<1>3. IsFiniteSet({"accepted", "submit", "solved", "submit_user"})
  <2>1. IsFiniteSet({"accepted", "submit"}) /\ IsFiniteSet({"solved", "submit_user"})
    BY <1>1
  <2>2. IsFiniteSet({"accepted", "submit"} \cup {"solved", "submit_user"})
    BY <2>1, FS_Union
  <2>3. QED
    BY <1>2, <2>2
<1>4. IsFiniteSet(Problems \cup {"count", "update"})
  BY <1>1, PointsAssumption, FS_Union
<1>5. QED
  BY <1>1, <1>3, <1>4

LEMMA RestStep == ASSUME Shape, [Next]_vars PROVE RestTyped'
<1>1. /\ job \in Jobs /\ pc \in Places \cup {"idle"} /\ faults \in 0 .. MaxFaults
      /\ counted \subseteq Pairs /\ placed \subseteq Pairs
  BY DEF Shape, RestTyped
<1>2. rows \in Seq(RowType) /\ Len(rows) <= MaxRows /\ Ids \subseteq 1 .. MaxRows
  BY BoundsAssumption DEF Shape, RowsTyped, Ids
<1>3. ASSUME NEW u \in Users, NEW p \in Problems, NEW t \in Dates, Submit(u, p, t)
      PROVE  RestTyped'
  BY <1>1, <1>3 DEF Submit, RestTyped, history
<1>4. ASSUME NEW i \in Ids, NEW v \in Results, Judge(i, v) PROVE RestTyped'
  <2>1. i \in 0 .. MaxRows
    BY <1>2, BoundsAssumption
  <2>2. job' \in Jobs
    BY <1>4, <2>1, NoJobIs DEF Judge, Jobs
  <2>3. QED
    BY <1>1, <1>4, <2>2 DEF Judge, RestTyped, Places, history
<1>5. ASSUME NEW i \in Ids, Skip(i) PROVE RestTyped'
  <2>1. job' \in Jobs
    BY <1>1, <1>5 DEF Skip, Jobs
  <2>2. faults' \in 0 .. MaxFaults
    BY <1>1, <1>5, BoundsAssumption DEF Skip
  <2>3. QED
    BY <1>1, <1>5, <2>1, <2>2 DEF Skip, Distrust, RestTyped
<1>6. ASSUME NEW from, NEW to \in Places, NEW S, IsFiniteSet(S), NEW failed \in SUBSET S,
             Follows(from, to, failed)
      PROVE  RestTyped'
  <2>1. faults' \in 0 .. MaxFaults
    BY <1>6, FailuresTyped DEF Follows
  <2>2. job' \in Jobs
    BY <1>1, <1>6 DEF Follows, Jobs
  <2>3. QED
    BY <1>1, <1>6, <2>1, <2>2 DEF Follows, RestTyped, history
<1>7. CASE UpdateSolution
  <2>1. PICK failed \in SUBSET {"verdict"} : Follows("solution", "problem", failed)
    BY <1>7 DEF UpdateSolution
  <2>2. "problem" \in Places
    BY DEF Places
  <2>3. QED
    BY <1>6, <2>1, <2>2, QueriesFew
<1>8. CASE UpdateProblem
  <2>1. PICK failed \in SUBSET {"accepted", "submit", "solved", "submit_user"} :
          Follows("problem", "user", failed)
    BY <1>8 DEF UpdateProblem
  <2>2. "user" \in Places
    BY DEF Places
  <2>3. QED
    BY <1>6, <2>1, <2>2, QueriesFew
<1>9. CASE UpdateUser
  <2>1. PICK failed \in SUBSET {"submit", "solved"} : Follows("user", "contest", failed)
    BY <1>9 DEF UpdateUser
  <2>2. "contest" \in Places
    BY DEF Places
  <2>3. QED
    BY <1>6, <2>1, <2>2, QueriesFew
<1>10. CASE UpdateContest
  <2>1. PICK failed \in SUBSET {"num", "times"}, s \in Times, e \in Times :
          /\ Goes(failed)
          /\ IF e > rows[job.row].time
             THEN /\ pc' = "time"
                  /\ job' = [job EXCEPT !.ok = @ /\ failed = {}, !.named = "num" \notin failed,
                                        !.running = TRUE, !.start = s, !.end = e]
             ELSE /\ pc' = "contest_problem"
                  /\ job' = [job EXCEPT !.ok = @ /\ failed = {}]
          /\ UNCHANGED history
    BY <1>10 DEF UpdateContest
  <2>2. faults' \in 0 .. MaxFaults
    BY <2>1, QueriesFew, FailuresTyped
  <2>3. job' \in Jobs /\ pc' \in Places
    BY <1>1, <2>1 DEF Jobs, Places
  <2>4. QED
    BY <1>1, <2>1, <2>2, <2>3 DEF RestTyped, history
<1>11. CASE AttendTime
  <2>1. PICK failed \in SUBSET {"first", "update"} :
          /\ pc' = "totals" /\ Goes(failed)
          /\ LET first == IF "first" \in failed THEN {}
                          ELSE FirstAC(JobUser, JobProblem, job.start, job.end)
                 until == IF first = {} THEN job.end ELSE Min(first)
             IN  job' = [job EXCEPT !.ok = @ /\ failed = {}, !.until = until]
          /\ UNCHANGED history
    BY <1>11 DEF AttendTime
  <2>2. faults' \in 0 .. MaxFaults
    BY <2>1, QueriesFew, FailuresTyped
  <2> DEFINE first == IF "first" \in failed THEN {}
                      ELSE FirstAC(JobUser, JobProblem, job.start, job.end)
             until == IF first = {} THEN job.end ELSE Min(first)
  <2>3. until \in Times
    <3>1. first = {} \/ \E i \in Ids : first = {rows[i].time}
      BY <1>2, FirstIs DEF Between, With, Of, OfUser
    <3> HIDE DEF first
    <3>2. first = {} => until \in Times
      BY <1>1 DEF Jobs
    <3>3. \A i \in Ids : first = {rows[i].time} => until \in Times
      BY <1>2, RowIs, MinOfOne DEF Times
    <3>4. QED
      BY <3>1, <3>2, <3>3
  <2>4. job' \in Jobs
    <3>1. job' = [job EXCEPT !.ok = @ /\ failed = {}, !.until = until]
      BY <2>1
    <3> HIDE DEF until
    <3>2. QED
      BY <1>1, <2>3, <3>1 DEF Jobs
  <2>5. QED
    BY <1>1, <2>1, <2>2, <2>4 DEF RestTyped, history, Places
<1>12. CASE AttendTotals
  <2>1. PICK failed \in SUBSET {"score", "update"} : Follows("totals", "penalty", failed)
    BY <1>12 DEF AttendTotals
  <2>2. "penalty" \in Places
    BY DEF Places
  <2>3. QED
    BY <1>6, <2>1, <2>2, QueriesFew
<1>13. CASE AttendPenalty
  <2>1. PICK failed \in SUBSET (Problems \cup {"count", "update"}) :
          Follows("penalty", "contest_problem", failed)
    BY <1>13 DEF AttendPenalty
  <2>2. "contest_problem" \in Places
    BY DEF Places
  <2>3. QED
    BY <1>6, <2>1, <2>2, QueriesFew
<1>14. CASE UpdateContestProblem
  <2>1. PICK failed \in SUBSET {"accepted", "submit", "solved", "submit_user"} : Goes(failed)
    BY <1>14 DEF UpdateContestProblem
  <2>2. faults' \in 0 .. MaxFaults
    BY <2>1, QueriesFew, FailuresTyped
  <2>3. JobPair \in Pairs
    BY <1>14, JobIs DEF UpdateContestProblem
  <2>4. counted' \subseteq Pairs /\ placed' \subseteq Pairs
    BY <1>1, <1>14, <2>3 DEF UpdateContestProblem, Distrust
  <2>5. job' = NoJob /\ pc' = "idle"
    BY <1>14 DEF UpdateContestProblem
  <2>6. QED
    BY <2>2, <2>4, <2>5, NoJobIs DEF RestTyped
<1>15. CASE Crash
  <2>1. faults' \in 0 .. MaxFaults
    BY <1>1, <1>15, BoundsAssumption DEF Crash
  <2>2. QED
    BY <1>1, <1>15, <2>1, NoJobIs DEF Crash, Distrust, RestTyped
<1>16. CASE UNCHANGED vars
  BY <1>1, <1>16 DEF vars, history, RestTyped
<1>17. QED
  BY <1>3, <1>4, <1>5, <1>7, <1>8, <1>9, <1>10, <1>11, <1>12, <1>13, <1>14, <1>15, <1>16 DEF Next

(* The names of a table that a step of the job writes.                     *)
LEMMA ProblemStep ==
  ASSUME Shape, [Next]_vars
  PROVE  /\ problem' \in [Problems -> Counts] /\ contest' \in [Problems -> Counts]
         /\ user' \in [Users -> [submit : Nat, solved : Nat]]
<1>1. /\ problem \in [Problems -> Counts] /\ contest \in [Problems -> Counts]
      /\ user \in [Users -> [submit : Nat, solved : Nat]]
      /\ rows \in Seq(RowType)
  BY DEF Shape, TablesTyped, RowsTyped
<1>2. CASE UpdateProblem
  <2>1. PICK failed :
          /\ problem' = [problem EXCEPT ![JobProblem] = Set(@, ProblemCounts(JobProblem), failed)]
          /\ contest' = contest /\ user' = user
    BY <1>2 DEF UpdateProblem
  <2>2. JobProblem \in Problems
    BY <1>2, JobIs DEF UpdateProblem, Follows
  <2>3. Set(problem[JobProblem], ProblemCounts(JobProblem), failed) \in Counts
    BY <1>1, <2>2, CountsTyped, SetTyped
  <2>4. QED
    BY <1>1, <2>1, <2>3
<1>3. CASE UpdateUser
  <2>1. PICK failed :
          /\ user' = [user EXCEPT ![JobUser] = Set(@, UserCounts(JobUser), failed)]
          /\ problem' = problem /\ contest' = contest
    BY <1>3 DEF UpdateUser
  <2>2. JobUser \in Users
    BY <1>3, JobIs DEF UpdateUser, Follows
  <2>3. Set(user[JobUser], UserCounts(JobUser), failed) \in [submit : Nat, solved : Nat]
    BY <1>1, <2>2, CountsTyped, SetTyped
  <2>4. QED
    BY <1>1, <2>1, <2>3
<1>4. CASE UpdateContestProblem
  <2> DEFINE counts == [ProblemCounts(JobProblem) EXCEPT !.accepted = 0, !.solved = 0]
  <2>1. PICK failed :
          /\ contest' = [contest EXCEPT ![JobProblem] = Set(@, counts, failed)]
          /\ problem' = problem /\ user' = user
    BY <1>4 DEF UpdateContestProblem
  <2>2. JobProblem \in Problems
    BY <1>4, JobIs DEF UpdateContestProblem
  <2>3. counts \in Counts
    <3>1. ProblemCounts(JobProblem) \in Counts
      BY <1>1, CountsTyped
    <3>2. QED
      BY <3>1 DEF Counts
  <2> HIDE DEF counts
  <2>4. Set(contest[JobProblem], counts, failed) \in Counts
    BY <1>1, <2>2, <2>3, SetTyped
  <2>5. QED
    BY <1>1, <2>1, <2>4
<1>5. ASSUME UNCHANGED <<problem, contest, user>>
      PROVE  /\ problem' \in [Problems -> Counts] /\ contest' \in [Problems -> Counts]
             /\ user' \in [Users -> [submit : Nat, solved : Nat]]
  BY <1>1, <1>5
<1>6. CASE \/ \E u \in Users, p \in Problems, t \in Dates : Submit(u, p, t)
           \/ \E i \in Ids, v \in Results : Judge(i, v)
           \/ \E i \in Ids : Skip(i)
           \/ Crash \/ UNCHANGED vars
  BY <1>5, <1>6 DEF Submit, Judge, Skip, Crash, tables, vars
<1>7. CASE UpdateSolution \/ UpdateContest \/ AttendTime \/ AttendTotals \/ AttendPenalty
  BY <1>5, <1>7 DEF UpdateSolution, UpdateContest, AttendTime, AttendTotals, AttendPenalty, tables
<1>8. QED
  BY <1>2, <1>3, <1>4, <1>6, <1>7 DEF Next

(* The score and the penalty are numbers.                                  *)
LEMMA ScoreTyped ==
  ASSUME rows \in Seq(RowType), NEW u, NEW s, NEW e
  PROVE  /\ Score(u, s, e) \in Nat /\ Cardinality(SolvedIn(u, s, e)) \in Nat
         /\ SolvedIn(u, s, e) \subseteq Problems
<1> DEFINE ids == Between(With(OfUser(u), V_AC), s, e)
<1>1. ids \in SUBSET Ids
  BY DEF Between, With, OfUser
<1> HIDE DEF ids
<1>2. IsFiniteSet(ProblemsOf(ids)) /\ Cardinality(ProblemsOf(ids)) \in Nat
  BY <1>1, Counted
<1>3. ProblemsOf(ids) \subseteq Problems
  BY <1>1, RowIs DEF ProblemsOf
<1>4. \A p \in ProblemsOf(ids) : Points[p] \in Nat
  BY <1>3, PointsAssumption
<1> DEFINE solved == ProblemsOf(ids)
<1> HIDE DEF solved
<1>5. IsFiniteSet(solved) /\ \A p \in solved : Points[p] \in Nat
  BY <1>2, <1>4 DEF solved
<1>6. SumFunctionOnSet(Points, solved) \in Nat
  BY <1>5, SumType
<1>7. SolvedIn(u, s, e) = solved
  BY DEF SolvedIn, ids, solved
<1>8. QED
  BY <1>2, <1>3, <1>6, <1>7 DEF Score, solved

LEMMA PenaltyTyped ==
  ASSUME NEW a \in Standings, NEW read \in SUBSET Problems
  PROVE  PenaltyOf(a, read) \in Nat
<1> DEFINE S == {q \in read : a.time[q] > 0}
           f == [p \in S |-> a.time[p] + a.wrong[p] * WrongPenalty]
<1>1. IsFiniteSet(S)
  BY PointsAssumption, FS_Subset
<1>2. \A p \in S : f[p] \in Nat
  <2> SUFFICES ASSUME NEW p \in S PROVE a.time[p] + a.wrong[p] * WrongPenalty \in Nat
    OBVIOUS
  <2>1. a.time[p] \in Nat /\ a.wrong[p] \in Nat /\ WrongPenalty \in Nat
    BY BoundsAssumption DEF Standings
  <2>2. \A m, n \in Nat : m * n \in Nat
    OBVIOUS
  <2>3. a.wrong[p] * WrongPenalty \in Nat
    BY <2>1, <2>2
  <2>4. QED
    BY <2>1, <2>3
<1>3. DOMAIN f = S
  OBVIOUS
<1>4. PenaltyOf(a, read) = SumFunctionOnSet(f, DOMAIN f)
  BY DEF PenaltyOf, SumFunction
<1> HIDE DEF f, S
<1>5. SumFunctionOnSet(f, S) \in Nat
  BY <1>1, <1>2, SumType
<1>6. QED
  BY <1>3, <1>4, <1>5

(* The columns of table attend that the steps of a job write.              *)
LEMMA AttendStep ==
  ASSUME Shape, [Next]_vars
  PROVE  attend' \in [Users -> Standings]
<1>1. attend \in [Users -> Standings] /\ job \in Jobs /\ rows \in Seq(RowType)
  BY DEF Shape, TablesTyped, RowsTyped, RestTyped
<1>2. CASE AttendTime
  <2> DEFINE u == JobUser
             p == JobProblem
  <2>1. u \in Users /\ p \in Problems
    BY <1>2, JobIs DEF AttendTime
  <2>2. PICK failed :
          LET first == IF "first" \in failed THEN {} ELSE FirstAC(u, p, job.start, job.end)
              until == IF first = {} THEN job.end ELSE Min(first)
          IN attend' = IF "update" \in failed \/ ~job.named THEN attend
                       ELSE [attend EXCEPT ![u].time[p] =
                               IF first = {} THEN 0 ELSE until - job.start]
    BY <1>2 DEF AttendTime
  <2> DEFINE first == IF "first" \in failed THEN {} ELSE FirstAC(u, p, job.start, job.end)
             until == IF first = {} THEN job.end ELSE Min(first)
             time == IF first = {} THEN 0 ELSE until - job.start
  <2>3. time \in Nat
    <3>1. \/ first = {}
          \/ \E i \in Between(With(Of(u, p), V_AC), job.start, job.end) : first = {rows[i].time}
      BY <1>1, FirstIs
    <3>2. \A i \in Between(With(Of(u, p), V_AC), job.start, job.end) :
            i \in Ids /\ job.start <= rows[i].time
      BY DEF Between, With, Of, OfUser
    <3>3. \A i \in Ids : rows[i].time \in Nat
      BY <1>1, RowIs
    <3>4. job.start \in Nat
      BY <1>1, TimesAre DEF Jobs
    <3> HIDE DEF first
    <3>5. CASE first = {}
      BY <3>5
    <3>6. ASSUME NEW i \in Ids, job.start <= rows[i].time, first = {rows[i].time}
          PROVE  time \in Nat
      <4>1. until = rows[i].time /\ first # {}
        BY <3>6, MinOfOne
      <4> HIDE DEF until
      <4>2. QED
        BY <3>3, <3>4, <3>6, <4>1
    <3> HIDE DEF time
    <3>7. QED
      BY <3>1, <3>2, <3>5, <3>6
  <2>4. attend' = attend \/ attend' = [attend EXCEPT ![u].time[p] = time]
    BY <2>2
  <2> HIDE DEF time, u, p
  <2>5. [attend[u] EXCEPT !.time[p] = time] \in Standings
    BY <1>1, <2>1, <2>3 DEF Standings
  <2>6. QED
    BY <1>1, <2>1, <2>4, <2>5
<1>3. CASE AttendTotals
  <2> DEFINE u == JobUser
             p == JobProblem
             solved == Cardinality(SolvedIn(u, job.start, job.end))
             wrong == WrongSubmits(u, p, job.start, job.until)
  <2>1. u \in Users /\ p \in Problems
    BY <1>3, JobIs DEF AttendTotals, Follows
  <2>2. PICK failed :
          LET score == IF "score" \in failed THEN 0 ELSE Score(u, job.start, job.end)
          IN attend' = IF "update" \in failed \/ ~job.named THEN attend
                       ELSE [attend EXCEPT ![u].solved = solved, ![u].score = score,
                                           ![u].wrong[p] = wrong]
    BY <1>3 DEF AttendTotals
  <2> DEFINE score == IF "score" \in failed THEN 0 ELSE Score(u, job.start, job.end)
  <2>3. solved \in Nat /\ score \in Nat
    BY <1>1, ScoreTyped
  <2>4. wrong \in Nat
    <3> DEFINE ids == {i \in Between(Of(u, p), job.start, job.until) : rows[i].verdict > V_AC}
    <3>1. ids \in SUBSET Ids
      BY DEF Between, Of, OfUser
    <3>2. wrong = Cardinality(ids)
      BY DEF WrongSubmits
    <3> HIDE DEF ids
    <3>3. QED
      BY <1>1, <3>1, <3>2, Counted
  <2>5. \/ attend' = attend
        \/ attend' = [attend EXCEPT ![u].solved = solved, ![u].score = score, ![u].wrong[p] = wrong]
    BY <2>2
  <2> HIDE DEF u, p, solved, score, wrong
  <2>6. [attend[u] EXCEPT !.solved = solved, !.score = score, !.wrong[p] = wrong] \in Standings
    BY <1>1, <2>1, <2>3, <2>4 DEF Standings
  <2>7. CASE attend' = [attend EXCEPT ![u].solved = solved, ![u].score = score,
                                      ![u].wrong[p] = wrong]
    <3>1. attend' = [attend EXCEPT ![u] = [attend[u] EXCEPT !.solved = solved, !.score = score,
                                                            !.wrong[p] = wrong]]
      BY <1>1, <2>1, <2>7 DEF Standings
    <3>2. QED
      BY <1>1, <2>1, <2>6, <3>1
  <2>8. QED
    BY <1>1, <2>5, <2>7
<1>4. CASE AttendPenalty
  <2> DEFINE u == JobUser
  <2>1. u \in Users
    BY <1>4, JobIs DEF AttendPenalty, Follows
  <2>2. PICK failed :
          LET read == IF "count" \in failed THEN {} ELSE Problems \ failed IN
          attend' = IF "update" \in failed THEN attend
                    ELSE [attend EXCEPT ![u].penalty = PenaltyOf(attend[u], read)]
    BY <1>4 DEF AttendPenalty
  <2> DEFINE read == IF "count" \in failed THEN {} ELSE Problems \ failed
             penalty == PenaltyOf(attend[u], read)
  <2>3. penalty \in Nat
    BY <1>1, <2>1, PenaltyTyped
  <2>4. attend' = attend \/ attend' = [attend EXCEPT ![u].penalty = penalty]
    BY <2>2
  <2> HIDE DEF u, penalty
  <2>5. [attend[u] EXCEPT !.penalty = penalty] \in Standings
    BY <1>1, <2>1, <2>3 DEF Standings
  <2>6. QED
    BY <1>1, <2>1, <2>4, <2>5
<1>5. CASE \/ \E u \in Users, p \in Problems, t \in Dates : Submit(u, p, t)
           \/ \E i \in Ids, v \in Results : Judge(i, v)
           \/ \E i \in Ids : Skip(i)
           \/ Crash \/ UNCHANGED vars
  BY <1>1, <1>5 DEF Submit, Judge, Skip, Crash, tables, vars
<1>6. CASE UpdateSolution \/ UpdateProblem \/ UpdateUser \/ UpdateContest \/ UpdateContestProblem
  BY <1>1, <1>6 DEF UpdateSolution, UpdateProblem, UpdateUser, UpdateContest,
                    UpdateContestProblem, tables
<1>7. QED
  BY <1>2, <1>3, <1>4, <1>5, <1>6 DEF Next

LEMMA ShapeStep == ASSUME Shape, [Next]_vars PROVE Shape'
BY RowsStep, ProblemStep, AttendStep, RestStep DEF Shape, TablesTyped

LEMMA ShapeAlways == Spec => []Shape
BY ShapeInit, ShapeStep, PTL DEF Spec

LEMMA ShapeIsTyped == Shape => TypeOK
<1> SUFFICES ASSUME Shape PROVE TypeOK
  OBVIOUS
<1>1. rows \in Seq(RowType) /\ Len(rows) <= MaxRows
  BY DEF Shape, RowsTyped
<1>2. /\ {problem, contest} \subseteq [Problems -> Counts]
      /\ user \in [Users -> [submit : Nat, solved : Nat]]
      /\ attend \in [Users -> Standings]
  BY DEF Shape, TablesTyped
<1>3. /\ job \in Jobs /\ pc \in Places \cup {"idle"} /\ faults \in 0 .. MaxFaults
      /\ counted \subseteq Pairs /\ placed \subseteq Pairs
  BY DEF Shape, RestTyped
<1>4. rows \in Seq([user : Users, problem : Problems, time : Dates,
                    verdict : {V_Q, V_C, V_SK} \cup Results])
  BY <1>1 DEF RowType, Verdicts
<1>5. QED
  BY <1>1, <1>2, <1>3, <1>4 DEF TypeOK, Counts, Standings, Jobs, Places

(* Every column of every table keeps its type: the counts and the sums     *)
(* the queries of judge_sql.cpp write are natural numbers, and a time is   *)
(* never before the start it is taken from.                                *)
THEOREM TablesTypeCorrect == Spec => []TypeOK
BY ShapeAlways, ShapeIsTyped, PTL

-----------------------------------------------------------------------------
(* The counters.  A column is right when it is what its query would give   *)
(* now; rows that wait are counted with the judging that takes them.       *)

ProblemRight(p) ==
  /\ problem[p].accepted = ProblemCounts(p).accepted
  /\ problem[p].solved = ProblemCounts(p).solved
  /\ \/ Waiting(OfProblem(p))
     \/ /\ problem[p].submit = ProblemCounts(p).submit
        /\ problem[p].submit_user = ProblemCounts(p).submit_user
ContestRight(p) ==
  \/ Waiting(OfProblem(p))
  \/ /\ contest[p].submit = ProblemCounts(p).submit
     /\ contest[p].submit_user = ProblemCounts(p).submit_user
UserRight(u) ==
  /\ user[u].solved = UserCounts(u).solved
  /\ Waiting(OfUser(u)) \/ user[u].submit = UserCounts(u).submit

(* Once a judging has written a table its columns stay right, as long as   *)
(* no query of it failed and the other pairs are counted.                  *)
AfterProblem == {"user", "contest", "time", "totals", "penalty", "contest_problem"}
AfterUser == {"contest", "time", "totals", "penalty", "contest_problem"}
ProblemCounted(p) == ProblemQuiet(p) /\ \A u \in Users : <<u, p>> \in counted
UserCounted(u) == UserQuiet(u) /\ \A p \in Problems : <<u, p>> \in counted
ProblemWritten ==
  pc \in AfterProblem /\ job.ok /\ \A u \in Users \ {JobUser} : <<u, JobProblem>> \in counted
UserWritten ==
  pc \in AfterUser /\ job.ok /\ \A p \in Problems \ {JobProblem} : <<JobUser, p>> \in counted

CountInv ==
  /\ \A p \in Problems : ProblemCounted(p) => ProblemRight(p) /\ ContestRight(p)
  /\ \A u \in Users : UserCounted(u) => UserRight(u)
  /\ ProblemWritten => ProblemRight(JobProblem)
  /\ UserWritten => UserRight(JobUser)

(* What a step may do to the rows of a problem, or of a user, for their    *)
(* columns to stay right.                                                  *)
KeepsProblem(p) ==
  /\ ProblemCounts(p).accepted' = ProblemCounts(p).accepted
  /\ ProblemCounts(p).solved' = ProblemCounts(p).solved
  /\ \/ Waiting(OfProblem(p))'
     \/ /\ ~Waiting(OfProblem(p))
        /\ ProblemCounts(p).submit' = ProblemCounts(p).submit
        /\ ProblemCounts(p).submit_user' = ProblemCounts(p).submit_user
KeepsUser(u) ==
  /\ UserCounts(u).solved' = UserCounts(u).solved
  /\ \/ Waiting(OfUser(u))'
     \/ ~Waiting(OfUser(u)) /\ UserCounts(u).submit' = UserCounts(u).submit

LEMMA KeepsProblemIf ==
  ASSUME NEW p,
         With(OfProblem(p), V_AC)' = With(OfProblem(p), V_AC),
         \A i \in Ids : rows'[i].user = rows[i].user,
         \/ Waiting(OfProblem(p))'
         \/ ~Waiting(OfProblem(p)) /\ OfProblem(p)' = OfProblem(p)
  PROVE  KeepsProblem(p)
<1> DEFINE A == With(OfProblem(p), V_AC)
<1>1. A \subseteq Ids /\ OfProblem(p) \subseteq Ids
  BY DEF With, OfProblem
<1>2. UsersOf(A)' = UsersOf(A)
  <2>1. A' = A
    OBVIOUS
  <2> HIDE DEF A
  <2>2. QED
    BY <1>1, <2>1 DEF UsersOf
<1>3. OfProblem(p)' = OfProblem(p) => UsersOf(OfProblem(p))' = UsersOf(OfProblem(p))
  BY <1>1 DEF UsersOf
<1>4. QED
  BY <1>2, <1>3 DEF KeepsProblem, ProblemCounts

LEMMA KeepsUserIf ==
  ASSUME NEW u,
         With(OfUser(u), V_AC)' = With(OfUser(u), V_AC),
         \A i \in Ids : rows'[i].problem = rows[i].problem,
         \/ Waiting(OfUser(u))'
         \/ ~Waiting(OfUser(u)) /\ OfUser(u)' = OfUser(u)
  PROVE  KeepsUser(u)
<1> DEFINE A == With(OfUser(u), V_AC)
<1>1. A \subseteq Ids /\ OfUser(u) \subseteq Ids
  BY DEF With, OfUser
<1>2. ProblemsOf(A)' = ProblemsOf(A)
  <2>1. A' = A
    OBVIOUS
  <2> HIDE DEF A
  <2>2. QED
    BY <1>1, <2>1 DEF ProblemsOf
<1>3. QED
  BY <1>2 DEF KeepsUser, UserCounts

(* A row the website adds waits: it changes no column that is right.       *)
LEMMA AddedKeeps ==
  ASSUME rows \in Seq(RowType), NEW u \in Users, NEW p \in Problems, NEW t \in Dates,
         Added(u, p, t)
  PROVE  (\A q : KeepsProblem(q)) /\ (\A v : KeepsUser(v))
<1> DEFINE n == Len(rows) + 1
<1>1. /\ Ids' = Ids \cup {n} /\ n \notin Ids
      /\ \A i \in Ids : rows'[i] = rows[i]
      /\ rows'[n].user = u /\ rows'[n].problem = p /\ rows'[n].verdict = V_Q
  <2>1. /\ Ids' = Ids \cup {n} /\ n \notin Ids
        /\ \A i \in Ids : rows'[i] = rows[i]
        /\ rows'[n] = Row(u, p, t)
    BY RowsAdded
  <2> HIDE DEF n
  <2>2. QED
    BY <2>1 DEF Row
<1> HIDE DEF n
<1>2. V_Q # V_AC
  BY DEF V_Q, V_AC
<1>3. ASSUME NEW q PROVE KeepsProblem(q)
  <2>1. With(OfProblem(q), V_AC)' = With(OfProblem(q), V_AC)
    BY <1>1, <1>2 DEF With, OfProblem
  <2>2. CASE q = p
    <3>1. n \in With(OfProblem(q), V_Q)'
      BY <1>1, <2>2 DEF With, OfProblem
    <3>2. Waiting(OfProblem(q))'
      BY <3>1 DEF Waiting
    <3>3. QED
      BY <1>1, <2>1, <3>2, KeepsProblemIf
  <2>3. CASE q # p
    <3>1. OfProblem(q)' = OfProblem(q)
      BY <1>1, <2>3 DEF OfProblem
    <3>2. With(OfProblem(q), V_Q)' = With(OfProblem(q), V_Q)
      BY <1>1, <3>1 DEF With, OfProblem
    <3>3. Waiting(OfProblem(q))' \/ ~Waiting(OfProblem(q))
      BY <3>2 DEF Waiting
    <3>4. QED
      BY <1>1, <2>1, <3>1, <3>3, KeepsProblemIf
  <2>4. QED
    BY <2>2, <2>3
<1>4. ASSUME NEW v PROVE KeepsUser(v)
  <2>1. With(OfUser(v), V_AC)' = With(OfUser(v), V_AC)
    BY <1>1, <1>2 DEF With, OfUser
  <2>2. CASE v = u
    <3>1. n \in With(OfUser(v), V_Q)'
      BY <1>1, <2>2 DEF With, OfUser
    <3>2. Waiting(OfUser(v))'
      BY <3>1 DEF Waiting
    <3>3. QED
      BY <1>1, <2>1, <3>2, KeepsUserIf
  <2>3. CASE v # u
    <3>1. OfUser(v)' = OfUser(v)
      BY <1>1, <2>3 DEF OfUser
    <3>2. With(OfUser(v), V_Q)' = With(OfUser(v), V_Q)
      BY <1>1, <3>1 DEF With, OfUser
    <3>3. Waiting(OfUser(v))' \/ ~Waiting(OfUser(v))
      BY <3>2 DEF Waiting
    <3>4. QED
      BY <1>1, <2>1, <3>1, <3>3, KeepsUserIf
  <2>4. QED
    BY <2>2, <2>3
<1>5. QED
  BY <1>3, <1>4

(* A verdict changes only the columns of its problem and its user.         *)
LEMMA MarkedKeeps ==
  ASSUME rows \in Seq(RowType), NEW k \in Ids, NEW w \in Verdicts, Marked(k, w)
  PROVE  /\ \A q : q # rows[k].problem => KeepsProblem(q)
         /\ \A v : v # rows[k].user => KeepsUser(v)
<1>1. /\ Ids' = Ids
      /\ \A i \in Ids : rows'[i].user = rows[i].user /\ rows'[i].problem = rows[i].problem
      /\ \A i \in Ids \ {k} : rows'[i] = rows[i]
  BY RowsMarked
<1>2. ASSUME NEW q, q # rows[k].problem PROVE KeepsProblem(q)
  <2>1. OfProblem(q)' = OfProblem(q) /\ k \notin OfProblem(q) /\ OfProblem(q) \subseteq Ids
    BY <1>1, <1>2 DEF OfProblem
  <2>2. \A x : With(OfProblem(q), x)' = With(OfProblem(q), x)
    BY <1>1, <2>1 DEF With
  <2>3. Waiting(OfProblem(q))' \/ ~Waiting(OfProblem(q))
    BY <2>2 DEF Waiting
  <2>4. QED
    BY <1>1, <2>1, <2>2, <2>3, KeepsProblemIf
<1>3. ASSUME NEW v, v # rows[k].user PROVE KeepsUser(v)
  <2>1. OfUser(v)' = OfUser(v) /\ k \notin OfUser(v) /\ OfUser(v) \subseteq Ids
    BY <1>1, <1>3 DEF OfUser
  <2>2. \A x : With(OfUser(v), x)' = With(OfUser(v), x)
    BY <1>1, <2>1 DEF With
  <2>3. Waiting(OfUser(v))' \/ ~Waiting(OfUser(v))
    BY <2>2 DEF Waiting
  <2>4. QED
    BY <1>1, <2>1, <2>2, <2>3, KeepsUserIf
<1>4. QED
  BY <1>2, <1>3

LEMMA SameKeeps ==
  ASSUME rows' = rows
  PROVE  (\A q : KeepsProblem(q)) /\ (\A v : KeepsUser(v))
<1>1. ASSUME NEW q PROVE KeepsProblem(q)
  <2>1. With(OfProblem(q), V_AC)' = With(OfProblem(q), V_AC) /\ OfProblem(q)' = OfProblem(q)
        /\ (Waiting(OfProblem(q))' \/ ~Waiting(OfProblem(q)))
    BY DEF With, OfProblem, Ids, Waiting
  <2>2. QED
    BY <2>1, KeepsProblemIf
<1>2. ASSUME NEW v PROVE KeepsUser(v)
  <2>1. With(OfUser(v), V_AC)' = With(OfUser(v), V_AC) /\ OfUser(v)' = OfUser(v)
        /\ (Waiting(OfUser(v))' \/ ~Waiting(OfUser(v)))
    BY DEF With, OfUser, Ids, Waiting
  <2>2. QED
    BY <2>1, KeepsUserIf
<1>3. QED
  BY <1>1, <1>2

(* A row keeps its user, its problem and its time.                         *)
LEMMA RowsStay ==
  ASSUME Shape, [Next]_vars, NEW i \in Ids
  PROVE  /\ i \in Ids' /\ rows'[i].user = rows[i].user
         /\ rows'[i].problem = rows[i].problem /\ rows'[i].time = rows[i].time
<1>1. rows \in Seq(RowType)
  BY DEF Shape, RowsTyped
<1>2. CASE rows' = rows
  BY <1>2 DEF Ids
<1>3. ASSUME NEW u \in Users, NEW p \in Problems, NEW t \in Dates, Added(u, p, t)
      PROVE  i \in Ids' /\ rows'[i] = rows[i]
  BY <1>1, <1>3, RowsAdded
<1>4. ASSUME NEW k \in Ids, NEW v \in Verdicts, Marked(k, v)
      PROVE  /\ i \in Ids' /\ rows'[i].user = rows[i].user
             /\ rows'[i].problem = rows[i].problem /\ rows'[i].time = rows[i].time
  BY <1>1, <1>4, RowsMarked
<1>5. QED
  BY <1>2, <1>3, <1>4, RowsWritten

LEMMA TypedAfter ==
  ASSUME rows' \in Seq(RowType)
  PROVE  \A i \in Ids' : rows'[i].user \in Users /\ rows'[i].problem \in Problems
<1>1. \A i \in Ids' : rows'[i] \in RowType
  BY DEF Ids
<1>2. QED
  BY <1>1 DEF RowType

LEMMA JobStays ==
  ASSUME Shape, [Next]_vars, pc # "idle", job'.row = job.row
  PROVE  JobUser' = JobUser /\ JobProblem' = JobProblem /\ rows'[job'.row].time = rows[job.row].time
<1>1. job.row \in Ids
  BY JobIs
<1>2. QED
  BY <1>1, RowsStay DEF JobUser, JobProblem

LEMMA SkippedIs ==
  ASSUME Shape, NEW k \in Ids, Skip(k)
  PROVE  /\ Marked(k, V_SK) /\ V_SK \in Verdicts /\ pc' = pc /\ UNCHANGED tables
         /\ job'.row = job.row /\ job'.running = job.running
         /\ job'.start = job.start /\ job'.end = job.end /\ job'.named = job.named
         /\ job'.until = job.until
         /\ job'.ok => job.ok /\ (pc = "idle" \/ rows[k].user # JobUser \/ rows[k].problem # JobProblem)
         /\ counted' = counted \ {<<rows[k].user, rows[k].problem>>}
         /\ placed' = placed \ {<<rows[k].user, rows[k].problem>>}
<1>1. job \in Jobs
  BY DEF Shape, RestTyped
<1>2. Marked(k, V_SK) /\ V_SK \in Verdicts /\ pc' = pc /\ UNCHANGED tables
      /\ counted' = counted \ {<<rows[k].user, rows[k].problem>>}
      /\ placed' = placed \ {<<rows[k].user, rows[k].problem>>}
  BY DEF Skip, Marked, Verdicts, Distrust
<1>3. /\ job'.row = job.row /\ job'.running = job.running
      /\ job'.start = job.start /\ job'.end = job.end /\ job'.named = job.named
      /\ job'.until = job.until
      /\ job'.ok = (job.ok /\ ~(pc # "idle" /\ k \in Of(JobUser, JobProblem)))
  BY <1>1 DEF Skip, Jobs, JobUser, JobProblem
<1>4. rows[k].user = JobUser /\ rows[k].problem = JobProblem => k \in Of(JobUser, JobProblem)
  BY DEF Of, OfUser, OfProblem
<1>5. QED
  BY <1>2, <1>3, <1>4

(* The steps of a judging after its verdict was written.                   *)
Later == \/ UpdateProblem \/ UpdateUser \/ UpdateContest \/ AttendTime \/ AttendTotals
         \/ AttendPenalty

LEMMA LaterIs ==
  ASSUME Shape, Later
  PROVE  /\ pc # "idle" /\ pc' # "idle" /\ job'.row = job.row /\ rows' = rows
         /\ counted' = counted /\ placed' = placed /\ contest' = contest
         /\ job'.ok => job.ok
<1>1. job \in Jobs
  BY DEF Shape, RestTyped
<1>2. CASE UpdateProblem \/ UpdateUser \/ AttendTotals \/ AttendPenalty
  BY <1>1, <1>2 DEF UpdateProblem, UpdateUser, AttendTotals, AttendPenalty, Follows, Jobs, history
<1>3. CASE UpdateContest
  BY <1>1, <1>3 DEF UpdateContest, Jobs, tables, history
<1>4. CASE AttendTime
  BY <1>1, <1>4 DEF AttendTime, Jobs, history
<1>5. QED
  BY <1>2, <1>3, <1>4 DEF Later

LEMMA VerdictIs ==
  ASSUME Shape, UpdateSolution
  PROVE  /\ pc = "solution" /\ pc' = "problem" /\ job'.row = job.row /\ job.row \in Ids
         /\ rows' = rows \/ (job.verdict \in Verdicts /\ Marked(job.row, job.verdict))
         /\ counted' = counted /\ placed' = placed /\ UNCHANGED tables
<1>1. job \in Jobs
  BY DEF Shape, RestTyped
<1>2. pc = "solution" /\ pc' = "problem" /\ counted' = counted /\ placed' = placed
      /\ UNCHANGED tables /\ job'.row = job.row
  BY <1>1 DEF UpdateSolution, Follows, history, Jobs
<1>3. rows' = rows \/ Marked(job.row, job.verdict)
  BY DEF UpdateSolution, Marked
<1>4. QED
  BY <1>1, <1>2, <1>3, JobIs DEF Verdicts, Jobs

LEMMA TakenIs ==
  ASSUME Shape, NEW k \in Ids, NEW v \in Results, Judge(k, v)
  PROVE  /\ pc = "idle" /\ pc' = "solution" /\ Marked(k, V_C) /\ V_C \in Verdicts
         /\ job'.row = k /\ ~job'.running /\ job'.ok /\ UNCHANGED tables
         /\ counted' = counted /\ placed' = placed
         /\ JobUser' = rows[k].user /\ JobProblem' = rows[k].problem
         /\ rows'[k].time = rows[k].time
<1>1. /\ pc = "idle" /\ pc' = "solution" /\ Marked(k, V_C) /\ V_C \in Verdicts
      /\ job'.row = k /\ ~job'.running /\ job'.ok
      /\ UNCHANGED tables /\ counted' = counted /\ placed' = placed
  BY DEF Judge, NoJob, Marked, Verdicts, history
<1>2. rows \in Seq(RowType)
  BY DEF Shape, RowsTyped
<1>3. rows'[k].user = rows[k].user /\ rows'[k].problem = rows[k].problem
      /\ rows'[k].time = rows[k].time
  BY <1>1, <1>2, RowsMarked
<1>4. QED
  BY <1>1, <1>3 DEF JobUser, JobProblem

LEMMA SubmittedIs ==
  ASSUME NEW u \in Users, NEW p \in Problems, NEW t \in Dates, Submit(u, p, t)
  PROVE  /\ Added(u, p, t) /\ pc' = pc /\ job' = job /\ UNCHANGED tables
         /\ counted' = counted /\ placed' = placed
BY DEF Submit, Added, history

LEMMA EndedIs ==
  ASSUME Shape, UpdateContestProblem \/ Crash
  PROVE  /\ pc # "idle" /\ pc' = "idle" /\ rows' = rows /\ problem' = problem /\ user' = user
         /\ attend' = attend /\ job' = NoJob
         /\ counted' \subseteq counted \cup {JobPair} /\ placed' \subseteq placed \cup {JobPair}
         /\ Crash => contest' = contest /\ JobPair \notin counted' /\ JobPair \notin placed'
<1>1. CASE UpdateContestProblem
  <2>1. /\ pc # "idle" /\ pc' = "idle" /\ rows' = rows /\ problem' = problem /\ user' = user
        /\ attend' = attend /\ job' = NoJob
    BY <1>1 DEF UpdateContestProblem
  <2>2. counted' \subseteq counted \cup {JobPair} /\ placed' \subseteq placed \cup {JobPair}
    BY <1>1 DEF UpdateContestProblem, Distrust
  <2>3. CASE Crash
    BY <2>1, <2>2, <2>3 DEF Crash, Distrust, tables
  <2>4. QED
    BY <2>1, <2>2, <2>3
<1>2. CASE Crash
  BY <1>2 DEF Crash, Distrust, tables
<1>3. QED
  BY <1>1, <1>2

LEMMA StepIs ==
  ASSUME [Next]_vars
  PROVE  \/ \E u \in Users, p \in Problems, t \in Dates : Submit(u, p, t)
         \/ \E i \in Ids, v \in Results : Judge(i, v)
         \/ \E i \in Ids : Skip(i)
         \/ UpdateSolution \/ Later \/ UpdateContestProblem \/ Crash
         \/ UNCHANGED vars
BY DEF Next, Later

(* A problem, or a user, whose counters have to be right after a step had  *)
(* to have them right before it, and the step kept them; or its judging    *)
(* ends with the step.                                                     *)
LEMMA ProblemLeft ==
  ASSUME Shape, [Next]_vars, NEW p \in Problems, ProblemCounted(p)'
  PROVE  \/ KeepsProblem(p) /\ problem'[p] = problem[p] /\ contest'[p] = contest[p]
            /\ ProblemCounted(p)
         \/ UpdateContestProblem /\ p = JobProblem
<1> DEFINE Kept == KeepsProblem(p) /\ problem'[p] = problem[p] /\ contest'[p] = contest[p]
                   /\ ProblemCounted(p)
<1>1. rows \in Seq(RowType)
  BY DEF Shape, RowsTyped
<1>2. (pc' = "idle" \/ JobProblem' # p) /\ \A u \in Users : <<u, p>> \in counted'
  BY DEF ProblemCounted, ProblemQuiet
<1>3. ASSUME NEW u \in Users, NEW q \in Problems, NEW t \in Dates, Submit(u, q, t) PROVE Kept
  <2>1. /\ Added(u, q, t) /\ pc' = pc /\ job' = job /\ UNCHANGED tables /\ counted' = counted
    BY <1>3, SubmittedIs
  <2>2. KeepsProblem(p)
    BY <1>1, <2>1, AddedKeeps
  <2>3. pc # "idle" => JobProblem' = JobProblem
    BY <2>1, JobStays
  <2>4. QED
    BY <1>2, <2>1, <2>2, <2>3 DEF tables, ProblemCounted, ProblemQuiet
<1>4. ASSUME NEW i \in Ids, NEW v \in Results, Judge(i, v) PROVE Kept
  <2>1. /\ pc = "idle" /\ pc' = "solution" /\ Marked(i, V_C) /\ V_C \in Verdicts
        /\ UNCHANGED tables /\ counted' = counted /\ JobProblem' = rows[i].problem
    BY <1>4, TakenIs
  <2>2. KeepsProblem(p)
    BY <1>1, <1>2, <2>1, MarkedKeeps
  <2>3. QED
    BY <1>2, <2>1, <2>2 DEF tables, ProblemCounted, ProblemQuiet
<1>5. ASSUME NEW i \in Ids, Skip(i) PROVE Kept
  <2>1. /\ Marked(i, V_SK) /\ V_SK \in Verdicts /\ pc' = pc /\ UNCHANGED tables
        /\ job'.row = job.row /\ counted' = counted \ {<<rows[i].user, rows[i].problem>>}
    BY <1>5, SkippedIs
  <2>2. rows[i].user \in Users
    BY <1>1, RowIs
  <2>3. p # rows[i].problem
    BY <1>2, <2>1, <2>2
  <2>4. KeepsProblem(p)
    BY <1>1, <2>1, <2>3, MarkedKeeps
  <2>5. pc # "idle" => JobProblem' = JobProblem
    BY <2>1, JobStays
  <2>6. QED
    BY <1>2, <2>1, <2>4, <2>5 DEF tables, ProblemCounted, ProblemQuiet
<1>6. CASE UpdateSolution
  <2>1. /\ pc = "solution" /\ pc' = "problem" /\ job'.row = job.row /\ job.row \in Ids
        /\ rows' = rows \/ (job.verdict \in Verdicts /\ Marked(job.row, job.verdict))
        /\ counted' = counted /\ UNCHANGED tables
    BY <1>6, VerdictIs
  <2>2. JobProblem' = JobProblem
    BY <2>1, JobStays
  <2>3. KeepsProblem(p)
    BY <1>1, <1>2, <2>1, <2>2, SameKeeps, MarkedKeeps DEF JobProblem
  <2>4. QED
    BY <1>2, <2>1, <2>2, <2>3 DEF tables, ProblemCounted, ProblemQuiet
<1>7. CASE Later
  <2>1. /\ pc # "idle" /\ pc' # "idle" /\ job'.row = job.row /\ rows' = rows
        /\ counted' = counted /\ contest' = contest
    BY <1>7, LaterIs
  <2>2. JobProblem' = JobProblem
    BY <2>1, JobStays
  <2>3. KeepsProblem(p)
    BY <2>1, SameKeeps
  <2>4. problem'[p] = problem[p]
    <3>1. problem \in [Problems -> Counts]
      BY DEF Shape, TablesTyped
    <3>2. UpdateProblem => problem'[p] = problem[p]
      BY <1>2, <2>1, <2>2, <3>1 DEF UpdateProblem
    <3>3. ~UpdateProblem => problem' = problem
      BY <1>7 DEF Later, UpdateUser, UpdateContest, AttendTime, AttendTotals, AttendPenalty, tables
    <3>4. QED
      BY <3>2, <3>3
  <2>5. QED
    BY <1>2, <2>1, <2>2, <2>3, <2>4 DEF ProblemCounted, ProblemQuiet
<1>8. CASE UpdateContestProblem /\ p # JobProblem
  <2>1. /\ pc # "idle" /\ rows' = rows /\ problem' = problem
        /\ counted' \subseteq counted \cup {JobPair}
    BY <1>8, EndedIs
  <2>2. \A u \in Users : <<u, p>> # JobPair
    BY <1>8 DEF JobPair
  <2>3. contest'[p] = contest[p]
    <3>1. contest \in [Problems -> Counts]
      BY DEF Shape, TablesTyped
    <3>2. QED
      BY <1>8, <3>1 DEF UpdateContestProblem
  <2>4. KeepsProblem(p)
    BY <2>1, SameKeeps
  <2>5. QED
    BY <1>2, <1>8, <2>1, <2>2, <2>3, <2>4 DEF ProblemCounted, ProblemQuiet
<1>9. CASE Crash
  <2>1. /\ pc # "idle" /\ rows' = rows /\ problem' = problem /\ contest' = contest
        /\ counted' \subseteq counted \cup {JobPair} /\ JobPair \notin counted'
    BY <1>9, EndedIs
  <2>2. JobUser \in Users
    BY <2>1, JobIs
  <2>3. p # JobProblem
    BY <1>2, <2>1, <2>2 DEF JobPair
  <2>4. KeepsProblem(p)
    BY <2>1, SameKeeps
  <2>5. QED
    BY <1>2, <2>1, <2>3, <2>4 DEF ProblemCounted, ProblemQuiet
<1>10. CASE UNCHANGED vars
  <2>1. rows' = rows /\ problem' = problem /\ contest' = contest /\ counted' = counted
        /\ pc' = pc /\ job' = job
    BY <1>10 DEF vars, tables, history
  <2>2. KeepsProblem(p)
    BY <2>1, SameKeeps
  <2>3. JobProblem' = JobProblem
    BY <2>1 DEF JobProblem
  <2>4. QED
    BY <1>2, <2>1, <2>2, <2>3 DEF ProblemCounted, ProblemQuiet
<1>11. QED
  BY <1>3, <1>4, <1>5, <1>6, <1>7, <1>8, <1>9, <1>10, StepIs

LEMMA UserLeft ==
  ASSUME Shape, [Next]_vars, NEW u \in Users, UserCounted(u)'
  PROVE  \/ KeepsUser(u) /\ user'[u] = user[u] /\ UserCounted(u)
         \/ UpdateContestProblem /\ u = JobUser
<1> DEFINE Kept == KeepsUser(u) /\ user'[u] = user[u] /\ UserCounted(u)
<1>1. rows \in Seq(RowType)
  BY DEF Shape, RowsTyped
<1>2. (pc' = "idle" \/ JobUser' # u) /\ \A p \in Problems : <<u, p>> \in counted'
  BY DEF UserCounted, UserQuiet
<1>3. ASSUME NEW v \in Users, NEW q \in Problems, NEW t \in Dates, Submit(v, q, t) PROVE Kept
  <2>1. /\ Added(v, q, t) /\ pc' = pc /\ job' = job /\ UNCHANGED tables /\ counted' = counted
    BY <1>3, SubmittedIs
  <2>2. KeepsUser(u)
    BY <1>1, <2>1, AddedKeeps
  <2>3. pc # "idle" => JobUser' = JobUser
    BY <2>1, JobStays
  <2>4. QED
    BY <1>2, <2>1, <2>2, <2>3 DEF tables, UserCounted, UserQuiet
<1>4. ASSUME NEW i \in Ids, NEW v \in Results, Judge(i, v) PROVE Kept
  <2>1. /\ pc = "idle" /\ pc' = "solution" /\ Marked(i, V_C) /\ V_C \in Verdicts
        /\ UNCHANGED tables /\ counted' = counted /\ JobUser' = rows[i].user
    BY <1>4, TakenIs
  <2>2. KeepsUser(u)
    BY <1>1, <1>2, <2>1, MarkedKeeps
  <2>3. QED
    BY <1>2, <2>1, <2>2 DEF tables, UserCounted, UserQuiet
<1>5. ASSUME NEW i \in Ids, Skip(i) PROVE Kept
  <2>1. /\ Marked(i, V_SK) /\ V_SK \in Verdicts /\ pc' = pc /\ UNCHANGED tables
        /\ job'.row = job.row /\ counted' = counted \ {<<rows[i].user, rows[i].problem>>}
    BY <1>5, SkippedIs
  <2>2. rows[i].problem \in Problems
    BY <1>1, RowIs
  <2>3. u # rows[i].user
    BY <1>2, <2>1, <2>2
  <2>4. KeepsUser(u)
    BY <1>1, <2>1, <2>3, MarkedKeeps
  <2>5. pc # "idle" => JobUser' = JobUser
    BY <2>1, JobStays
  <2>6. QED
    BY <1>2, <2>1, <2>4, <2>5 DEF tables, UserCounted, UserQuiet
<1>6. CASE UpdateSolution
  <2>1. /\ pc = "solution" /\ pc' = "problem" /\ job'.row = job.row /\ job.row \in Ids
        /\ rows' = rows \/ (job.verdict \in Verdicts /\ Marked(job.row, job.verdict))
        /\ counted' = counted /\ UNCHANGED tables
    BY <1>6, VerdictIs
  <2>2. JobUser' = JobUser
    BY <2>1, JobStays
  <2>3. KeepsUser(u)
    BY <1>1, <1>2, <2>1, <2>2, SameKeeps, MarkedKeeps DEF JobUser
  <2>4. QED
    BY <1>2, <2>1, <2>2, <2>3 DEF tables, UserCounted, UserQuiet
<1>7. CASE Later
  <2>1. /\ pc # "idle" /\ pc' # "idle" /\ job'.row = job.row /\ rows' = rows
        /\ counted' = counted
    BY <1>7, LaterIs
  <2>2. JobUser' = JobUser
    BY <2>1, JobStays
  <2>3. KeepsUser(u)
    BY <2>1, SameKeeps
  <2>4. user'[u] = user[u]
    <3>1. user \in [Users -> [submit : Nat, solved : Nat]]
      BY DEF Shape, TablesTyped
    <3>2. UpdateUser => user'[u] = user[u]
      BY <1>2, <2>1, <2>2, <3>1 DEF UpdateUser
    <3>3. ~UpdateUser => user' = user
      BY <1>7 DEF Later, UpdateProblem, UpdateContest, AttendTime, AttendTotals, AttendPenalty,
                  tables
    <3>4. QED
      BY <3>2, <3>3
  <2>5. QED
    BY <1>2, <2>1, <2>2, <2>3, <2>4 DEF UserCounted, UserQuiet
<1>8. CASE UpdateContestProblem /\ u # JobUser
  <2>1. /\ pc # "idle" /\ rows' = rows /\ user' = user
        /\ counted' \subseteq counted \cup {JobPair}
    BY <1>8, EndedIs
  <2>2. \A p \in Problems : <<u, p>> # JobPair
    BY <1>8 DEF JobPair
  <2>3. KeepsUser(u)
    BY <2>1, SameKeeps
  <2>4. QED
    BY <1>2, <1>8, <2>1, <2>2, <2>3 DEF UserCounted, UserQuiet
<1>9. CASE Crash
  <2>1. /\ pc # "idle" /\ rows' = rows /\ user' = user
        /\ counted' \subseteq counted \cup {JobPair} /\ JobPair \notin counted'
    BY <1>9, EndedIs
  <2>2. JobProblem \in Problems
    BY <2>1, JobIs
  <2>3. u # JobUser
    BY <1>2, <2>1, <2>2 DEF JobPair
  <2>4. KeepsUser(u)
    BY <2>1, SameKeeps
  <2>5. QED
    BY <1>2, <2>1, <2>3, <2>4 DEF UserCounted, UserQuiet
<1>10. CASE UNCHANGED vars
  <2>1. rows' = rows /\ user' = user /\ counted' = counted /\ pc' = pc /\ job' = job
    BY <1>10 DEF vars, tables, history
  <2>2. KeepsUser(u)
    BY <2>1, SameKeeps
  <2>3. JobUser' = JobUser
    BY <2>1 DEF JobUser
  <2>4. QED
    BY <1>2, <2>1, <2>2, <2>3 DEF UserCounted, UserQuiet
<1>11. QED
  BY <1>3, <1>4, <1>5, <1>6, <1>7, <1>8, <1>9, <1>10, StepIs

(* Between its own steps a judging in which nothing failed finds the rows  *)
(* of its problem and of its user as it left them.                         *)
LEMMA HandLeft ==
  ASSUME Shape, [Next]_vars, pc' \in AfterProblem, job'.ok,
         NEW me, NEW mine, me = JobUser, mine = JobProblem
  PROVE  /\ pc \in AfterProblem \cup {"problem"} /\ job.ok
         /\ JobUser' = JobUser /\ JobProblem' = JobProblem
         /\ counted' \subseteq counted
         /\ (\A u \in Users \ {JobUser} : <<u, JobProblem>> \in counted') => KeepsProblem(mine)
         /\ (\A p \in Problems \ {JobProblem} : <<JobUser, p>> \in counted') => KeepsUser(me)
         /\ pc = "problem" => UpdateProblem
         /\ pc = "user" /\ pc' # "user" => UpdateUser
         /\ ~UpdateProblem => problem' = problem
         /\ ~UpdateUser => user' = user
<1>1. rows \in Seq(RowType) /\ job \in Jobs
  BY DEF Shape, RowsTyped, RestTyped
<1>2. "idle" \notin AfterProblem /\ "solution" \notin AfterProblem /\ "problem" \notin AfterProblem
  BY DEF AfterProblem
<1>3. ASSUME NEW u \in Users, NEW q \in Problems, NEW t \in Dates, Submit(u, q, t)
      PROVE  /\ pc' = pc /\ job' = job /\ UNCHANGED tables /\ counted' = counted
             /\ KeepsProblem(mine) /\ KeepsUser(me)
  BY <1>1, <1>3, SubmittedIs, AddedKeeps
<1>4. ASSUME NEW i \in Ids, NEW v \in Results, Judge(i, v) PROVE FALSE
  BY <1>2, <1>4, TakenIs
<1>5. ASSUME NEW i \in Ids, Skip(i)
      PROVE  /\ pc' = pc /\ job'.row = job.row /\ job.ok /\ UNCHANGED tables
             /\ counted' \subseteq counted
             /\ (\A u \in Users \ {JobUser} : <<u, JobProblem>> \in counted')
                  => KeepsProblem(mine)
             /\ (\A p \in Problems \ {JobProblem} : <<JobUser, p>> \in counted')
                  => KeepsUser(me)
  <2>1. /\ Marked(i, V_SK) /\ V_SK \in Verdicts /\ pc' = pc /\ UNCHANGED tables
        /\ job'.row = job.row /\ job.ok
        /\ pc = "idle" \/ rows[i].user # JobUser \/ rows[i].problem # JobProblem
        /\ counted' = counted \ {<<rows[i].user, rows[i].problem>>}
    BY <1>5, SkippedIs
  <2>2. rows[i].user \in Users /\ rows[i].problem \in Problems /\ pc # "idle"
    BY <1>1, <1>2, <2>1, RowIs
  <2>3. ASSUME \A u \in Users \ {JobUser} : <<u, JobProblem>> \in counted'
        PROVE  KeepsProblem(mine)
    <3>1. JobProblem # rows[i].problem
      BY <2>1, <2>2, <2>3
    <3>2. QED
      BY <1>1, <2>1, <3>1, MarkedKeeps
  <2>4. ASSUME \A p \in Problems \ {JobProblem} : <<JobUser, p>> \in counted'
        PROVE  KeepsUser(me)
    <3>1. JobUser # rows[i].user
      BY <2>1, <2>2, <2>4
    <3>2. QED
      BY <1>1, <2>1, <3>1, MarkedKeeps
  <2>5. QED
    BY <2>1, <2>3, <2>4
<1>6. CASE UpdateSolution
  BY <1>2, <1>6, VerdictIs
<1>7. CASE Later
  <2>1. /\ pc # "idle" /\ job'.row = job.row /\ rows' = rows /\ counted' = counted /\ job.ok
    BY <1>7, LaterIs
  <2>2. KeepsProblem(mine) /\ KeepsUser(me)
    BY <2>1, SameKeeps
  <2>3. pc \in AfterProblem \cup {"problem"} /\ (pc = "problem" => UpdateProblem)
        /\ (pc = "user" => UpdateUser)
    BY <1>7 DEF Later, UpdateProblem, UpdateUser, UpdateContest, AttendTime, AttendTotals,
                AttendPenalty, Follows, AfterProblem
  <2>4. (~UpdateProblem => problem' = problem) /\ (~UpdateUser => user' = user)
    BY <1>7 DEF Later, UpdateProblem, UpdateUser, UpdateContest, AttendTime, AttendTotals,
                AttendPenalty, tables
  <2>5. JobUser' = JobUser /\ JobProblem' = JobProblem
    BY <2>1, JobStays
  <2>6. QED
    BY <2>1, <2>2, <2>3, <2>4, <2>5
<1>8. CASE UpdateContestProblem \/ Crash
  BY <1>2, <1>8, EndedIs
<1>9. CASE UNCHANGED vars
  <2>1. rows' = rows /\ pc' = pc /\ job' = job /\ UNCHANGED tables /\ counted' = counted
    BY <1>9 DEF vars, tables, history
  <2>2. KeepsProblem(mine) /\ KeepsUser(me)
    BY <2>1, SameKeeps
  <2>3. QED
    BY <1>2, <2>1, <2>2 DEF tables, JobUser, JobProblem
<1>10. ASSUME pc' = pc, job'.row = job.row
       PROVE  JobUser' = JobUser /\ JobProblem' = JobProblem
  BY <1>2, <1>10, JobStays
<1>11. ASSUME NEW u \in Users, NEW q \in Problems, NEW t \in Dates, Submit(u, q, t)
       PROVE  JobUser' = JobUser /\ JobProblem' = JobProblem
  BY <1>3, <1>10, <1>11
<1>12. ASSUME NEW i \in Ids, Skip(i)
       PROVE  JobUser' = JobUser /\ JobProblem' = JobProblem
  BY <1>5, <1>10, <1>12
<1>13. CASE \E u \in Users, p \in Problems, t \in Dates : Submit(u, p, t)
  BY <1>2, <1>3, <1>11, <1>13 DEF tables
<1>14. CASE \E i \in Ids : Skip(i)
  BY <1>2, <1>5, <1>12, <1>14 DEF tables
<1>15. QED
  BY <1>4, <1>6, <1>7, <1>8, <1>9, <1>13, <1>14, StepIs

(* A query that did not fail wrote what it counted.                        *)
LEMMA AllSet ==
  /\ \A old \in Counts, new \in Counts : Set(old, new, {}) = new
  /\ \A old \in [submit : Nat, solved : Nat], new \in [submit : Nat, solved : Nat] :
       Set(old, new, {}) = new
<1>1. ASSUME NEW old \in Counts, NEW new \in Counts PROVE Set(old, new, {}) = new
  <2>1. Set(old, new, {}) = [c \in DOMAIN old |-> new[c]] /\ DOMAIN old = DOMAIN new
        /\ new = [c \in DOMAIN new |-> new[c]]
    BY DEF Set, Counts
  <2>2. QED
    BY <2>1
<1>2. ASSUME NEW old \in [submit : Nat, solved : Nat], NEW new \in [submit : Nat, solved : Nat]
      PROVE  Set(old, new, {}) = new
  <2>1. Set(old, new, {}) = [c \in DOMAIN old |-> new[c]] /\ DOMAIN old = DOMAIN new
        /\ new = [c \in DOMAIN new |-> new[c]]
    BY DEF Set
  <2>2. QED
    BY <2>1
<1>3. QED
  BY <1>1, <1>2

LEMMA ProblemWrites ==
  ASSUME Shape, UpdateProblem, job'.ok
  PROVE  problem'[JobProblem] = ProblemCounts(JobProblem)
<1>1. PICK failed \in SUBSET {"accepted", "submit", "solved", "submit_user"} :
        /\ pc = "problem" /\ job' = [job EXCEPT !.ok = @ /\ failed = {}]
        /\ problem' = [problem EXCEPT ![JobProblem] = Set(@, ProblemCounts(JobProblem), failed)]
  BY DEF UpdateProblem, Follows
<1>2. /\ problem \in [Problems -> Counts] /\ JobProblem \in Problems
      /\ ProblemCounts(JobProblem) \in Counts
  BY <1>1, JobIs, CountsTyped DEF Shape, TablesTyped, RowsTyped
<1>3. failed = {}
  BY <1>1 DEF Shape, RestTyped, Jobs
<1>4. QED
  BY <1>1, <1>2, <1>3, AllSet

LEMMA UserWrites ==
  ASSUME Shape, UpdateUser, job'.ok
  PROVE  user'[JobUser] = UserCounts(JobUser)
<1>1. PICK failed \in SUBSET {"submit", "solved"} :
        /\ pc = "user" /\ job' = [job EXCEPT !.ok = @ /\ failed = {}]
        /\ user' = [user EXCEPT ![JobUser] = Set(@, UserCounts(JobUser), failed)]
  BY DEF UpdateUser, Follows
<1>2. /\ user \in [Users -> [submit : Nat, solved : Nat]] /\ JobUser \in Users
      /\ UserCounts(JobUser) \in [submit : Nat, solved : Nat]
  BY <1>1, JobIs, CountsTyped DEF Shape, TablesTyped, RowsTyped
<1>3. failed = {}
  BY <1>1 DEF Shape, RestTyped, Jobs
<1>4. QED
  BY <1>1, <1>2, <1>3, AllSet

(* The last step trusts the pair of the row only when no query failed.     *)
LEMMA LastWrites ==
  ASSUME Shape, UpdateContestProblem, JobPair \in counted'
  PROVE  /\ job.ok /\ counted \subseteq counted' /\ pc = "contest_problem"
         /\ contest'[JobProblem].submit = ProblemCounts(JobProblem).submit
         /\ contest'[JobProblem].submit_user = ProblemCounts(JobProblem).submit_user
<1> DEFINE counts == [ProblemCounts(JobProblem) EXCEPT !.accepted = 0, !.solved = 0]
<1>1. PICK failed \in SUBSET {"accepted", "submit", "solved", "submit_user"} :
        /\ pc = "contest_problem"
        /\ IF job.ok /\ failed = {}
           THEN counted' = counted \cup {JobPair} ELSE Distrust(JobPair)
        /\ contest' = [contest EXCEPT ![JobProblem] = Set(@, counts, failed)]
  BY DEF UpdateContestProblem
<1>2. job.ok /\ failed = {}
  BY <1>1 DEF Distrust
<1>3. /\ contest \in [Problems -> Counts] /\ JobProblem \in Problems
      /\ ProblemCounts(JobProblem) \in Counts
  BY <1>1, JobIs, CountsTyped DEF Shape, TablesTyped, RowsTyped
<1>4. counts \in Counts /\ counts.submit = ProblemCounts(JobProblem).submit
      /\ counts.submit_user = ProblemCounts(JobProblem).submit_user
  BY <1>3 DEF Counts
<1> HIDE DEF counts
<1>5. contest'[JobProblem] = counts
  BY <1>1, <1>2, <1>3, <1>4, AllSet
<1>6. QED
  BY <1>1, <1>2, <1>4, <1>5

LEMMA ProblemFrame ==
  ASSUME NEW p, KeepsProblem(p), problem'[p] = problem[p], contest'[p] = contest[p]
  PROVE  /\ ProblemRight(p) => ProblemRight(p)'
         /\ ContestRight(p) => ContestRight(p)'
BY DEF KeepsProblem, ProblemRight, ContestRight

LEMMA ProblemRightFrame ==
  ASSUME NEW p, KeepsProblem(p), problem'[p] = problem[p], ProblemRight(p)
  PROVE  ProblemRight(p)'
BY DEF KeepsProblem, ProblemRight

LEMMA UserFrame ==
  ASSUME NEW u, KeepsUser(u), user'[u] = user[u], UserRight(u)
  PROVE  UserRight(u)'
BY DEF KeepsUser, UserRight

LEMMA ProblemCountsSame ==
  ASSUME rows' = rows
  PROVE  /\ \A p : ProblemCounts(p)' = ProblemCounts(p)
         /\ \A u : UserCounts(u)' = UserCounts(u)
BY DEF ProblemCounts, UserCounts, With, OfProblem, OfUser, UsersOf, ProblemsOf, Ids

LEMMA CountStepProblems ==
  ASSUME Shape, CountInv, [Next]_vars, NEW p \in Problems, ProblemCounted(p)'
  PROVE  ProblemRight(p)' /\ ContestRight(p)'
<1>1. CASE KeepsProblem(p) /\ problem'[p] = problem[p] /\ contest'[p] = contest[p]
           /\ ProblemCounted(p)
  BY <1>1, ProblemFrame DEF CountInv
<1>2. CASE UpdateContestProblem /\ p = JobProblem
  <2>1. pc # "idle" /\ rows' = rows /\ problem' = problem
        /\ counted' \subseteq counted \cup {JobPair}
    BY <1>2, EndedIs
  <2>2. JobUser \in Users /\ \A u \in Users : <<u, p>> \in counted'
    BY <2>1, JobIs DEF ProblemCounted
  <2>3. /\ job.ok /\ pc = "contest_problem"
        /\ contest'[p].submit = ProblemCounts(p).submit
        /\ contest'[p].submit_user = ProblemCounts(p).submit_user
    BY <1>2, <2>2, LastWrites DEF JobPair
  <2>4. \A u \in Users \ {JobUser} : <<u, p>> \in counted
    BY <2>1, <2>2 DEF JobPair
  <2>5. ProblemRight(p)
    BY <1>2, <2>3, <2>4 DEF CountInv, ProblemWritten, AfterProblem
  <2>6. KeepsProblem(p) /\ ProblemCounts(p)' = ProblemCounts(p)
    BY <2>1, SameKeeps, ProblemCountsSame
  <2>7. ProblemRight(p)'
    BY <2>1, <2>5, <2>6, ProblemRightFrame
  <2>8. ContestRight(p)'
    BY <2>3, <2>6 DEF ContestRight
  <2>9. QED
    BY <2>7, <2>8
<1>3. QED
  BY <1>1, <1>2, ProblemLeft

LEMMA CountStepUsers ==
  ASSUME Shape, CountInv, [Next]_vars, NEW u \in Users, UserCounted(u)'
  PROVE  UserRight(u)'
<1>1. CASE KeepsUser(u) /\ user'[u] = user[u] /\ UserCounted(u)
  BY <1>1, UserFrame DEF CountInv
<1>2. CASE UpdateContestProblem /\ u = JobUser
  <2>1. pc # "idle" /\ rows' = rows /\ user' = user
        /\ counted' \subseteq counted \cup {JobPair}
    BY <1>2, EndedIs
  <2>2. JobProblem \in Problems /\ \A p \in Problems : <<u, p>> \in counted'
    BY <2>1, JobIs DEF UserCounted
  <2>3. job.ok /\ pc = "contest_problem"
    BY <1>2, <2>2, LastWrites DEF JobPair
  <2>4. \A p \in Problems \ {JobProblem} : <<u, p>> \in counted
    BY <2>1, <2>2 DEF JobPair
  <2>5. UserRight(u)
    BY <1>2, <2>3, <2>4 DEF CountInv, UserWritten, AfterUser
  <2>6. KeepsUser(u)
    BY <2>1, SameKeeps
  <2>7. QED
    BY <2>1, <2>5, <2>6, UserFrame
<1>3. QED
  BY <1>1, <1>2, UserLeft

LEMMA CountStepHand ==
  ASSUME Shape, CountInv, [Next]_vars
  PROVE  /\ ProblemWritten' => ProblemRight(JobProblem)'
         /\ UserWritten' => UserRight(JobUser)'
<1>0. PICK me, mine : me = JobUser /\ mine = JobProblem
  OBVIOUS
<1>1. ASSUME ProblemWritten' PROVE ProblemRight(JobProblem)'
  <2>1. pc' \in AfterProblem /\ job'.ok
        /\ \A u \in Users \ {JobUser'} : <<u, JobProblem'>> \in counted'
    BY <1>1 DEF ProblemWritten
  <2>2. /\ pc \in AfterProblem \cup {"problem"} /\ job.ok
        /\ JobUser' = JobUser /\ JobProblem' = JobProblem
        /\ counted' \subseteq counted
        /\ (\A u \in Users \ {JobUser} : <<u, JobProblem>> \in counted') => KeepsProblem(mine)
        /\ pc = "problem" => UpdateProblem
        /\ ~UpdateProblem => problem' = problem
    BY <1>0, <2>1, HandLeft
  <2>3. CASE UpdateProblem
    <3>1. problem'[mine] = ProblemCounts(mine)
      BY <1>0, <2>1, <2>3, ProblemWrites
    <3>2. rows' = rows
      BY <2>3 DEF UpdateProblem
    <3>3. ProblemCounts(mine)' = ProblemCounts(mine)
      BY <3>2, ProblemCountsSame
    <3>4. ProblemRight(mine)'
      BY <3>1, <3>3 DEF ProblemRight
    <3>5. QED
      BY <1>0, <2>2, <3>4
  <2>4. CASE ~UpdateProblem
    <3>1. ProblemWritten
      BY <2>1, <2>2, <2>4 DEF ProblemWritten
    <3>2. ProblemRight(mine) /\ KeepsProblem(mine) /\ problem' = problem
      BY <1>0, <2>1, <2>2, <2>4, <3>1 DEF CountInv
    <3>3. ProblemRight(mine)'
      BY <3>2, ProblemRightFrame
    <3>4. QED
      BY <1>0, <2>2, <3>3
  <2>5. QED
    BY <2>3, <2>4
<1>2. ASSUME UserWritten' PROVE UserRight(JobUser)'
  <2>1. pc' \in AfterUser /\ job'.ok
        /\ \A p \in Problems \ {JobProblem'} : <<JobUser', p>> \in counted'
    BY <1>2 DEF UserWritten
  <2>0. pc' \in AfterProblem /\ pc' # "user"
    BY <2>1 DEF AfterUser, AfterProblem
  <2>2. /\ pc \in AfterProblem \cup {"problem"} /\ job.ok
        /\ JobUser' = JobUser /\ JobProblem' = JobProblem
        /\ counted' \subseteq counted
        /\ (\A p \in Problems \ {JobProblem} : <<JobUser, p>> \in counted') => KeepsUser(me)
        /\ pc = "problem" => UpdateProblem
        /\ pc = "user" => UpdateUser
        /\ ~UpdateUser => user' = user
    BY <1>0, <2>0, <2>1, HandLeft
  <2>3. CASE UpdateUser
    <3>1. user'[me] = UserCounts(me)
      BY <1>0, <2>1, <2>3, UserWrites
    <3>2. rows' = rows
      BY <2>3 DEF UpdateUser
    <3>3. UserCounts(me)' = UserCounts(me)
      BY <3>2, ProblemCountsSame
    <3>4. UserRight(me)'
      BY <3>1, <3>3 DEF UserRight
    <3>5. QED
      BY <1>0, <2>2, <3>4
  <2>4. CASE ~UpdateUser
    <3>1. pc # "problem"
      BY <2>0, <2>2 DEF UpdateProblem, Follows
    <3>2. UserWritten
      BY <2>1, <2>2, <2>4, <3>1 DEF UserWritten, AfterUser, AfterProblem
    <3>3. UserRight(me) /\ KeepsUser(me) /\ user' = user
      BY <1>0, <2>1, <2>2, <2>4, <3>2 DEF CountInv
    <3>4. UserRight(me)'
      BY <3>3, UserFrame
    <3>5. QED
      BY <1>0, <2>2, <3>4
  <2>5. QED
    BY <2>3, <2>4
<1>3. QED
  BY <1>1, <1>2

LEMMA CountInit == Init => CountInv
<1> SUFFICES ASSUME Init PROVE CountInv
  OBVIOUS
<1>1. \A p \in Problems : problem[p] = ProblemCounts(p) /\ contest[p] = ProblemCounts(p)
  BY DEF Init
<1>2. \A u \in Users : user[u] = UserCounts(u)
  BY DEF Init
<1>3. pc = "idle"
  BY DEF Init
<1>4. QED
  BY <1>1, <1>2, <1>3 DEF CountInv, ProblemRight, ContestRight, UserRight, ProblemWritten,
                          UserWritten, AfterProblem, AfterUser

LEMMA CountStep == ASSUME Shape, CountInv, [Next]_vars PROVE CountInv'
<1>1. \A p \in Problems : ProblemCounted(p)' => ProblemRight(p)' /\ ContestRight(p)'
  BY CountStepProblems
<1>2. \A u \in Users : UserCounted(u)' => UserRight(u)'
  BY CountStepUsers
<1>3. QED
  BY <1>1, <1>2, CountStepHand DEF CountInv

LEMMA CountGives == ASSUME Shape, CountInv PROVE CountersRight
<1>1. rows \in Seq(RowType)
  BY DEF Shape, RowsTyped
<1>2. ASSUME NEW p \in Problems, ProblemQuiet(p), \A u \in Users : <<u, p>> \in counted
      PROVE  LET solvers == {u \in Users : \E i \in Of(u, p) : rows[i].verdict = V_AC}
                 triers == {u \in Users : Of(u, p) # {}}
             IN /\ problem[p].accepted
                     = Cardinality({i \in OfProblem(p) : rows[i].verdict = V_AC})
                /\ problem[p].solved = Cardinality(solvers)
                /\ Waiting(OfProblem(p))
                     \/ \A t \in {problem, contest} :
                          /\ t[p].submit = Cardinality(OfProblem(p))
                          /\ t[p].submit_user = Cardinality(triers)
  <2>1. ProblemRight(p) /\ ContestRight(p)
    BY <1>2 DEF CountInv, ProblemCounted
  <2>2. \A i \in OfProblem(p) : i \in Ids /\ rows[i].user \in Users
    BY <1>1, RowIs DEF OfProblem
  <2>3. UsersOf(With(OfProblem(p), V_AC))
          = {u \in Users : \E i \in Of(u, p) : rows[i].verdict = V_AC}
    BY <2>2 DEF UsersOf, With, Of, OfUser
  <2>4. UsersOf(OfProblem(p)) = {u \in Users : Of(u, p) # {}}
    BY <2>2 DEF UsersOf, Of, OfUser
  <2>5. With(OfProblem(p), V_AC) = {i \in OfProblem(p) : rows[i].verdict = V_AC}
    BY DEF With
  <2>6. /\ ProblemCounts(p).accepted = Cardinality({i \in OfProblem(p) : rows[i].verdict = V_AC})
        /\ ProblemCounts(p).solved
             = Cardinality({u \in Users : \E i \in Of(u, p) : rows[i].verdict = V_AC})
        /\ ProblemCounts(p).submit = Cardinality(OfProblem(p))
        /\ ProblemCounts(p).submit_user = Cardinality({u \in Users : Of(u, p) # {}})
    BY <2>3, <2>4, <2>5 DEF ProblemCounts
  <2>7. QED
    BY <2>1, <2>6 DEF ProblemRight, ContestRight
<1>3. ASSUME NEW u \in Users, UserQuiet(u), \A p \in Problems : <<u, p>> \in counted
      PROVE  LET solved == {p \in Problems : \E i \in Of(u, p) : rows[i].verdict = V_AC}
             IN /\ user[u].solved = Cardinality(solved)
                /\ Waiting(OfUser(u)) \/ user[u].submit = Cardinality(OfUser(u))
  <2>1. UserRight(u)
    BY <1>3 DEF CountInv, UserCounted
  <2>2. \A i \in OfUser(u) : i \in Ids /\ rows[i].problem \in Problems
    BY <1>1, RowIs DEF OfUser
  <2>3. ProblemsOf(With(OfUser(u), V_AC))
          = {p \in Problems : \E i \in Of(u, p) : rows[i].verdict = V_AC}
    BY <2>2 DEF ProblemsOf, With, Of, OfProblem
  <2>4. /\ UserCounts(u).solved
             = Cardinality({p \in Problems : \E i \in Of(u, p) : rows[i].verdict = V_AC})
        /\ UserCounts(u).submit = Cardinality(OfUser(u))
    BY <2>3 DEF UserCounts
  <2>5. QED
    BY <2>1, <2>4 DEF UserRight
<1>4. QED
  BY <1>2, <1>3 DEF CountersRight

(* Whatever the website adds, other threads skip, queries lose and crashes *)
(* cut off: the counters of a problem or a user whose pairs were all       *)
(* written in full are those of the rows (SQL_updateProblem,               *)
(* SQL_updateUser, SQL_updateProblem_contest).                             *)
THEOREM CountersFollowRows == Spec => []CountersRight
<1>1. Init => CountInv
  BY CountInit
<1>2. Shape /\ CountInv /\ [Next]_vars => CountInv'
  BY CountStep
<1>3. Shape /\ CountInv => CountersRight
  BY CountGives
<1>4. QED
  BY <1>1, <1>2, <1>3, ShapeAlways, PTL DEF Spec

-----------------------------------------------------------------------------
(* The standings.  The columns of a pair are right when they are what the  *)
(* queries would give now for the whole contest.                           *)

Accepted(u, p) == Between(With(Of(u, p), V_AC), StartTime, EndTime)
Failed(u, p, e) == {i \in Between(Of(u, p), StartTime, e) : rows[i].verdict > V_AC}

First(u, p) == FirstAC(u, p, StartTime, EndTime)
UntilOf(u, p) == IF First(u, p) = {} THEN EndTime ELSE Min(First(u, p))
TimeRight(u, p) ==
  attend[u].time[p] = IF First(u, p) = {} THEN 0 ELSE UntilOf(u, p) - StartTime
PairRight(u, p) ==
  TimeRight(u, p) /\ attend[u].wrong[p] = WrongSubmits(u, p, StartTime, UntilOf(u, p))
TotalsRight(u) ==
  /\ attend[u].solved = Cardinality(SolvedIn(u, StartTime, EndTime))
  /\ attend[u].score = Score(u, StartTime, EndTime)
PenaltyFollows(u) == attend[u].penalty = PenaltyOf(attend[u], Problems)

(* No judging of the user is under way, or it is of a row the contest does *)
(* not see.                                                                *)
InTime(u) == \A i \in OfUser(u) : rows[i].time # EndTime
Unseen == rows[job.row].time > EndTime /\ ~job.running
Untouched(u) == UserQuiet(u) \/ Unseen
PairPlaced(u, p) == <<u, p>> \in placed /\ (Untouched(u) \/ JobProblem # p) /\ InTime(u)
UserPlaced(u) == Untouched(u) /\ (\A p \in Problems : <<u, p>> \in placed) /\ InTime(u)

(* What a judging of a row the contest sees has written so far.            *)
TimeWritten ==
  pc = "totals" => TimeRight(JobUser, JobProblem) /\ job.until = UntilOf(JobUser, JobProblem)
TotalsWritten ==
  pc \in {"penalty", "contest_problem"} =>
    /\ PairRight(JobUser, JobProblem)
    /\ (\A p \in Problems \ {JobProblem} : <<JobUser, p>> \in placed) => TotalsRight(JobUser)
PenaltyWritten == pc = "contest_problem" => PenaltyFollows(JobUser)
TimesRead == job.start = StartTime /\ job.end = EndTime /\ job.named

HandInv ==
  /\ pc \in {"time", "totals", "penalty"} => job.running
  /\ job.running => pc \in {"time", "totals", "penalty", "contest_problem"}
  /\ pc = "contest_problem" /\ job.ok /\ ~job.running => rows[job.row].time >= EndTime
  /\ job.running /\ job.ok => TimesRead /\ TimeWritten /\ TotalsWritten /\ PenaltyWritten

PlaceInv ==
  /\ \A u \in Users, p \in Problems : PairPlaced(u, p) => PairRight(u, p)
  /\ \A u \in Users : UserPlaced(u) => TotalsRight(u) /\ PenaltyFollows(u)
  /\ HandInv

(* The rows the contest counts for a pair stay the same.                   *)
KeepsPair(u, p) ==
  /\ Accepted(u, p)' = Accepted(u, p)
  /\ \A e \in Nat : e <= EndTime => Failed(u, p, e)' = Failed(u, p, e)

LEMMA FirstByAccepted ==
  ASSUME NEW u, NEW p
  PROVE  First(u, p) = IF Accepted(u, p) = {} THEN {} ELSE {rows[Min(Accepted(u, p))].time}
BY DEF First, FirstAC, Accepted

LEMMA AcceptedIs ==
  ASSUME NEW u, NEW p
  PROVE  /\ Accepted(u, p) = {i \in Ids : /\ rows[i].user = u /\ rows[i].problem = p
                                          /\ rows[i].verdict = V_AC
                                          /\ StartTime <= rows[i].time
                                          /\ rows[i].time <= EndTime}
         /\ \A e : Failed(u, p, e) = {i \in Ids : /\ rows[i].user = u /\ rows[i].problem = p
                                                  /\ rows[i].verdict > V_AC
                                                  /\ StartTime <= rows[i].time
                                                  /\ rows[i].time <= e}
BY DEF Accepted, Failed, Between, With, Of, OfUser, OfProblem

LEMMA SolvedIs ==
  ASSUME rows \in Seq(RowType), NEW u
  PROVE  SolvedIn(u, StartTime, EndTime) = {p \in Problems : Accepted(u, p) # {}}
<1>1. \A i \in Ids : rows[i].problem \in Problems
  BY RowIs
<1>2. SolvedIn(u, StartTime, EndTime)
        = {rows[i].problem : i \in {k \in Ids : /\ rows[k].user = u /\ rows[k].verdict = V_AC
                                                /\ StartTime <= rows[k].time
                                                /\ rows[k].time <= EndTime}}
  BY DEF SolvedIn, ProblemsOf, Between, With, OfUser
<1>3. QED
  BY <1>1, <1>2, AcceptedIs

LEMMA UntilIs ==
  ASSUME rows \in Seq(RowType), NEW u, NEW p
  PROVE  /\ UntilOf(u, p) \in Nat /\ UntilOf(u, p) <= EndTime /\ StartTime <= UntilOf(u, p)
         /\ First(u, p) = {} <=> Accepted(u, p) = {}
         /\ Accepted(u, p) # {} => /\ UntilOf(u, p) = rows[Min(Accepted(u, p))].time
                                   /\ Min(Accepted(u, p)) \in Accepted(u, p)
                                   /\ \A k \in Accepted(u, p) : Min(Accepted(u, p)) <= k
<1>1. Accepted(u, p) \in SUBSET Nat
  BY AcceptedIs, IdsFinite
<1>2. CASE Accepted(u, p) = {}
  BY <1>2, FirstByAccepted, TimesAssumption DEF UntilOf
<1>3. CASE Accepted(u, p) # {}
  <2> DEFINE m == Min(Accepted(u, p))
  <2>1. m \in Accepted(u, p) /\ \A k \in Accepted(u, p) : m <= k
    BY <1>1, <1>3, MinIs
  <2>2. m \in Ids /\ StartTime <= rows[m].time /\ rows[m].time <= EndTime
    BY <2>1, AcceptedIs
  <2>3. rows[m].time \in Nat
    BY <2>2, RowIs
  <2>4. First(u, p) = {rows[m].time}
    BY <1>3, FirstByAccepted
  <2> HIDE DEF m
  <2>5. UntilOf(u, p) = rows[m].time
    BY <2>4, MinOfOne DEF UntilOf
  <2>6. QED
    BY <1>3, <2>1, <2>2, <2>3, <2>4, <2>5 DEF m
<1>4. QED
  BY <1>2, <1>3

(* A row the website adds is no acceptance and no failure.                 *)
LEMMA AddedKeepsPairs ==
  ASSUME rows \in Seq(RowType), NEW v \in Users, NEW q \in Problems, NEW t \in Dates,
         Added(v, q, t)
  PROVE  \A u, p : KeepsPair(u, p)
<1> DEFINE n == Len(rows) + 1
<1>1. /\ Ids' = Ids \cup {n} /\ n \notin Ids
      /\ \A i \in Ids : rows'[i] = rows[i]
      /\ rows'[n] = Row(v, q, t)
  BY RowsAdded
<1> HIDE DEF n
<1>2. rows'[n].verdict = V_Q /\ V_Q # V_AC /\ ~(V_Q > V_AC)
  BY <1>1 DEF Row, V_Q, V_AC
<1>3. ASSUME NEW u, NEW p PROVE KeepsPair(u, p)
  <2>1. Accepted(u, p)' = {i \in Ids' : /\ rows'[i].user = u /\ rows'[i].problem = p
                                        /\ rows'[i].verdict = V_AC
                                        /\ StartTime <= rows'[i].time
                                        /\ rows'[i].time <= EndTime}
    BY DEF Accepted, Between, With, Of, OfUser, OfProblem
  <2>3. Accepted(u, p)' = Accepted(u, p)
    BY <1>1, <1>2, <2>1, AcceptedIs
  <2>4. ASSUME NEW e PROVE Failed(u, p, e)' = Failed(u, p, e)
    <3>1. Failed(u, p, e)' = {i \in Ids' : /\ rows'[i].user = u /\ rows'[i].problem = p
                                           /\ rows'[i].verdict > V_AC
                                           /\ StartTime <= rows'[i].time
                                           /\ rows'[i].time <= e}
      BY DEF Failed, Between, With, Of, OfUser, OfProblem
    <3>2. QED
      BY <1>1, <1>2, <3>1, AcceptedIs
  <2>5. QED
    BY <2>3, <2>4 DEF KeepsPair
<1>4. QED
  BY <1>3

(* A verdict changes the pair of its row, when the contest sees the row.   *)
LEMMA MarkedKeepsPairs ==
  ASSUME rows \in Seq(RowType), NEW k \in Ids, NEW w \in Verdicts, Marked(k, w),
         NEW u, NEW p,
         rows[k].user # u \/ rows[k].problem # p \/ rows[k].time > EndTime
  PROVE  KeepsPair(u, p)
<1>1. /\ Ids' = Ids
      /\ \A i \in Ids : /\ rows'[i].user = rows[i].user /\ rows'[i].problem = rows[i].problem
                        /\ rows'[i].time = rows[i].time
      /\ \A i \in Ids \ {k} : rows'[i] = rows[i]
  BY RowsMarked
<1>2. Accepted(u, p)' = {i \in Ids' : /\ rows'[i].user = u /\ rows'[i].problem = p
                                      /\ rows'[i].verdict = V_AC
                                      /\ StartTime <= rows'[i].time
                                      /\ rows'[i].time <= EndTime}
  BY DEF Accepted, Between, With, Of, OfUser, OfProblem
<1>4. rows[k].time \in Nat /\ EndTime \in Nat
  BY RowIs, TimesAssumption
<1>5. Accepted(u, p)' = Accepted(u, p)
  <2>1. ASSUME NEW i \in Ids PROVE i \in Accepted(u, p)' <=> i \in Accepted(u, p)
    <3>1. CASE i = k
      BY <1>1, <1>2, <1>4, <3>1, AcceptedIs
    <3>2. CASE i # k
      BY <1>1, <1>2, <3>2, AcceptedIs
    <3>3. QED
      BY <3>1, <3>2
  <2>2. QED
    BY <1>1, <1>2, <2>1, AcceptedIs
<1>6. ASSUME NEW e \in Nat, e <= EndTime PROVE Failed(u, p, e)' = Failed(u, p, e)
  <2> DEFINE Fails(i) == /\ rows[i].user = u /\ rows[i].problem = p
                         /\ rows[i].verdict > V_AC
                         /\ StartTime <= rows[i].time
                         /\ rows[i].time <= e
             FailsNext(i) == /\ rows'[i].user = u /\ rows'[i].problem = p
                             /\ rows'[i].verdict > V_AC
                             /\ StartTime <= rows'[i].time
                             /\ rows'[i].time <= e
  <2>1. Failed(u, p, e) = {i \in Ids : Fails(i)} /\ Failed(u, p, e)' = {i \in Ids' : FailsNext(i)}
    BY DEF Failed, Between, With, Of, OfUser, OfProblem
  <2>2. \A i \in Ids \ {k} : FailsNext(i) <=> Fails(i)
    BY <1>1
  <2>3. ~Fails(k) /\ ~FailsNext(k)
    <3>1. rows[k].user # u \/ rows[k].problem # p \/ ~(rows[k].time <= e)
      BY <1>4, <1>6
    <3>2. QED
      BY <1>1, <3>1
  <2> HIDE DEF Fails, FailsNext
  <2>4. QED
    BY <1>1, <2>1, <2>2, <2>3
<1>7. QED
  BY <1>5, <1>6 DEF KeepsPair

LEMMA SameKeepsPairs == ASSUME rows' = rows PROVE \A u, p : KeepsPair(u, p)
BY DEF KeepsPair, Accepted, Failed, Between, With, Of, OfUser, OfProblem, Ids

(* Then the queries give what they gave.                                   *)
LEMMA QueriesSame ==
  ASSUME Shape, [Next]_vars, NEW u, NEW p, KeepsPair(u, p)
  PROVE  /\ First(u, p)' = First(u, p) /\ UntilOf(u, p)' = UntilOf(u, p)
         /\ WrongSubmits(u, p, StartTime, UntilOf(u, p))'
              = WrongSubmits(u, p, StartTime, UntilOf(u, p))
<1>1. rows \in Seq(RowType)
  BY DEF Shape, RowsTyped
<1> DEFINE A == Accepted(u, p)
           m == Min(A)
<1>2. A' = A
  BY DEF KeepsPair
<1>3. First(u, p)' = First(u, p)
  <2>1. CASE A = {}
    BY <1>2, <2>1 DEF First, FirstAC, Accepted
  <2>2. CASE A # {}
    <3>1. m \in A /\ A \subseteq Ids
      BY <1>1, <2>2, UntilIs, AcceptedIs
    <3> HIDE DEF A
    <3>2. m' = m
      BY <1>2
    <3> HIDE DEF m
    <3>3. rows'[m].time = rows[m].time
      BY <3>1, RowsStay
    <3>4. First(u, p) = {rows[m].time} /\ First(u, p)' = {rows'[m'].time}
      BY <1>2, <2>2 DEF First, FirstAC, Accepted, A, m
    <3>5. QED
      BY <3>2, <3>3, <3>4
  <2>3. QED
    BY <2>1, <2>2
<1>4. UntilOf(u, p)' = UntilOf(u, p)
  BY <1>3 DEF UntilOf
<1> DEFINE e == UntilOf(u, p)
<1>5. e \in Nat /\ e <= EndTime
  BY <1>1, UntilIs
<1>6. e' = e
  BY <1>4
<1> HIDE DEF e, A
<1>7. Failed(u, p, e)' = Failed(u, p, e)
  <2>1. Failed(u, p, e)' = {i \in Ids' : /\ rows'[i].user = u /\ rows'[i].problem = p
                                         /\ rows'[i].verdict > V_AC
                                         /\ StartTime <= rows'[i].time
                                         /\ rows'[i].time <= e'}
    BY DEF Failed, Between, With, Of, OfUser, OfProblem
  <2>2. \A x \in Nat : x <= EndTime =>
          {i \in Ids' : /\ rows'[i].user = u /\ rows'[i].problem = p
                        /\ rows'[i].verdict > V_AC
                        /\ StartTime <= rows'[i].time
                        /\ rows'[i].time <= x} = Failed(u, p, x)
    BY DEF KeepsPair, Failed, Between, With, Of, OfUser, OfProblem
  <2>3. QED
    BY <1>5, <1>6, <2>1, <2>2
<1>8. WrongSubmits(u, p, StartTime, e)' = WrongSubmits(u, p, StartTime, e)
  BY <1>7 DEF WrongSubmits, Failed
<1>9. QED
  BY <1>3, <1>4, <1>8 DEF e

LEMMA TotalsSame ==
  ASSUME Shape, [Next]_vars, NEW u, \A p \in Problems : KeepsPair(u, p)
  PROVE  /\ SolvedIn(u, StartTime, EndTime)' = SolvedIn(u, StartTime, EndTime)
         /\ Score(u, StartTime, EndTime)' = Score(u, StartTime, EndTime)
<1>1. rows \in Seq(RowType) /\ rows' \in Seq(RowType)
  BY RowsStep DEF Shape, RowsTyped
<1>2. SolvedIn(u, StartTime, EndTime) = {p \in Problems : Accepted(u, p) # {}}
  BY <1>1, SolvedIs
<1>3. SolvedIn(u, StartTime, EndTime)' = {p \in Problems : Accepted(u, p)' # {}}
  <2>1. \A i \in Ids' : rows'[i].problem \in Problems
    BY <1>1, TypedAfter
  <2>2. SolvedIn(u, StartTime, EndTime)'
          = {rows'[i].problem : i \in {k \in Ids' : /\ rows'[k].user = u /\ rows'[k].verdict = V_AC
                                                    /\ StartTime <= rows'[k].time
                                                    /\ rows'[k].time <= EndTime}}
    BY DEF SolvedIn, ProblemsOf, Between, With, OfUser
  <2>3. \A p : Accepted(u, p)' = {i \in Ids' : /\ rows'[i].user = u /\ rows'[i].problem = p
                                               /\ rows'[i].verdict = V_AC
                                               /\ StartTime <= rows'[i].time
                                               /\ rows'[i].time <= EndTime}
    BY DEF Accepted, Between, With, Of, OfUser, OfProblem
  <2>4. QED
    BY <2>1, <2>2, <2>3
<1>4. SolvedIn(u, StartTime, EndTime)' = SolvedIn(u, StartTime, EndTime)
  BY <1>2, <1>3 DEF KeepsPair
<1>5. QED
  BY <1>4 DEF Score

LEMMA PairFrame ==
  ASSUME Shape, [Next]_vars, NEW u, NEW p, KeepsPair(u, p),
         attend'[u].time[p] = attend[u].time[p]
  PROVE  /\ TimeRight(u, p) => TimeRight(u, p)'
         /\ attend'[u].wrong[p] = attend[u].wrong[p] /\ PairRight(u, p) => PairRight(u, p)'
<1>1. /\ First(u, p)' = First(u, p) /\ UntilOf(u, p)' = UntilOf(u, p)
      /\ WrongSubmits(u, p, StartTime, UntilOf(u, p))'
           = WrongSubmits(u, p, StartTime, UntilOf(u, p))
  BY QueriesSame
<1>2. TimeRight(u, p) => TimeRight(u, p)'
  BY <1>1 DEF TimeRight
<1>3. QED
  BY <1>1, <1>2 DEF PairRight

LEMMA TotalsFrame ==
  ASSUME Shape, [Next]_vars, NEW u, \A p \in Problems : KeepsPair(u, p),
         attend'[u].solved = attend[u].solved, attend'[u].score = attend[u].score,
         TotalsRight(u)
  PROVE  TotalsRight(u)'
BY TotalsSame DEF TotalsRight

LEMMA PenaltyFrame ==
  ASSUME NEW u, attend'[u] = attend[u], PenaltyFollows(u)
  PROVE  PenaltyFollows(u)'
BY DEF PenaltyFollows, PenaltyOf

LEMMA InTimeBefore == ASSUME Shape, [Next]_vars, NEW u, InTime(u)' PROVE InTime(u)
<1>1. \A i \in Ids' : rows'[i].user = u => rows'[i].time # EndTime
  BY DEF InTime, OfUser
<1>2. \A i \in Ids : rows[i].user = u => rows[i].time # EndTime
  BY <1>1, RowsStay
<1>3. QED
  BY <1>2 DEF InTime, OfUser

(* Which columns of table attend the steps of a judging touch.             *)
LEMMA AttendIs ==
  ASSUME Shape, Later
  PROVE  /\ \A u \in Users : u # JobUser => attend'[u] = attend[u]
         /\ \A u \in Users, p \in Problems : u # JobUser \/ p # JobProblem =>
              attend'[u].time[p] = attend[u].time[p] /\ attend'[u].wrong[p] = attend[u].wrong[p]
         /\ pc \notin {"time", "totals", "penalty"} => attend' = attend
         /\ job.running => job'.running
<1>1. attend \in [Users -> Standings] /\ job \in Jobs
  BY DEF Shape, TablesTyped, RestTyped
<1>2. CASE UpdateProblem \/ UpdateUser \/ UpdateContest
  BY <1>1, <1>2 DEF UpdateProblem, UpdateUser, UpdateContest, Follows, tables, Jobs
<1>3. CASE AttendTime
  <2>1. PICK x : attend' = attend \/ attend' = [attend EXCEPT ![JobUser].time[JobProblem] = x]
    BY <1>3 DEF AttendTime
  <2>2. pc = "time" /\ job'.running = job.running
    BY <1>1, <1>3 DEF AttendTime, Jobs
  <2>3. QED
    BY <1>1, <2>1, <2>2 DEF Standings
<1>4. CASE AttendTotals
  <2>1. PICK x, y, z : \/ attend' = attend
                       \/ attend' = [attend EXCEPT ![JobUser].solved = x, ![JobUser].score = y,
                                                   ![JobUser].wrong[JobProblem] = z]
    BY <1>4 DEF AttendTotals
  <2>2. pc = "totals" /\ job'.running = job.running
    BY <1>1, <1>4 DEF AttendTotals, Follows, Jobs
  <2>3. \A u \in Users : u # JobUser => attend'[u] = attend[u]
    BY <1>1, <2>1
  <2>4. \A p \in Problems : JobUser \in Users =>
          /\ attend'[JobUser].time[p] = attend[JobUser].time[p]
          /\ p # JobProblem => attend'[JobUser].wrong[p] = attend[JobUser].wrong[p]
    BY <1>1, <2>1 DEF Standings
  <2>5. QED
    BY <2>2, <2>3, <2>4
<1>5. CASE AttendPenalty
  <2>1. PICK x : attend' = attend \/ attend' = [attend EXCEPT ![JobUser].penalty = x]
    BY <1>5 DEF AttendPenalty
  <2>2. pc = "penalty" /\ job'.running = job.running
    BY <1>1, <1>5 DEF AttendPenalty, Follows, Jobs
  <2>3. QED
    BY <1>1, <2>1, <2>2 DEF Standings
<1>6. QED
  BY <1>2, <1>3, <1>4, <1>5 DEF Later

(* The last step places the pair of its row only when the whole judging    *)
(* went well.                                                              *)
LEMMA LastPlaces ==
  ASSUME Shape, UpdateContestProblem, JobPair \in placed'
  PROVE  /\ job.ok /\ pc = "contest_problem"
         /\ ~job.running => placed' = placed
<1>1. job.ok
  BY DEF UpdateContestProblem, Distrust
<1>2. QED
  BY <1>1 DEF UpdateContestProblem, Distrust

(* A step that does not change who is judged.                              *)
LEMMA FreeBefore ==
  ASSUME Shape, [Next]_vars, pc' = pc \/ (pc # "idle" /\ pc' # "idle"), job'.row = job.row,
         job.running => job'.running, NEW u
  PROVE  /\ Untouched(u)' => Untouched(u)
         /\ pc # "idle" => JobProblem' = JobProblem /\ JobUser' = JobUser
<1>1. pc # "idle" => /\ JobUser' = JobUser /\ JobProblem' = JobProblem
                     /\ rows'[job'.row].time = rows[job.row].time
  BY JobStays
<1>2. Untouched(u)' <=> \/ pc' = "idle" \/ JobUser' # u
                        \/ rows'[job'.row].time > EndTime /\ ~job'.running
  BY DEF Untouched, UserQuiet, Unseen
<1>3. Untouched(u) <=> \/ pc = "idle" \/ JobUser # u
                       \/ rows[job.row].time > EndTime /\ ~job.running
  BY DEF Untouched, UserQuiet, Unseen
<1>4. QED
  BY <1>1, <1>2, <1>3

LEMMA PairLeft ==
  ASSUME Shape, HandInv, [Next]_vars, NEW u \in Users, NEW p \in Problems, PairPlaced(u, p)'
  PROVE  \/ /\ KeepsPair(u, p) /\ PairPlaced(u, p)
            /\ attend'[u].time[p] = attend[u].time[p] /\ attend'[u].wrong[p] = attend[u].wrong[p]
         \/ UpdateContestProblem /\ JobUser = u /\ JobProblem = p /\ job.ok /\ job.running
<1> DEFINE Stays == /\ KeepsPair(u, p) /\ PairPlaced(u, p)
                    /\ attend'[u].time[p] = attend[u].time[p]
                    /\ attend'[u].wrong[p] = attend[u].wrong[p]
<1>1. rows \in Seq(RowType)
  BY DEF Shape, RowsTyped
<1>2. <<u, p>> \in placed' /\ (Untouched(u)' \/ JobProblem' # p) /\ InTime(u)
  BY InTimeBefore DEF PairPlaced
<1>3. Untouched(u)' <=> \/ pc' = "idle" \/ JobUser' # u
                        \/ rows'[job'.row].time > EndTime /\ ~job'.running
  BY DEF Untouched, UserQuiet, Unseen
<1>4. pc = "idle" => Untouched(u)
  BY DEF Untouched, UserQuiet
<1>5. ASSUME NEW v \in Users, NEW q \in Problems, NEW t \in Dates, Submit(v, q, t) PROVE Stays
  <2>1. /\ Added(v, q, t) /\ pc' = pc /\ job' = job /\ UNCHANGED tables /\ placed' = placed
    BY <1>5, SubmittedIs
  <2>2. KeepsPair(u, p)
    BY <1>1, <2>1, AddedKeepsPairs
  <2>3. (Untouched(u)' => Untouched(u)) /\ (pc # "idle" => JobProblem' = JobProblem)
    BY <2>1, FreeBefore
  <2>4. QED
    BY <1>2, <1>4, <2>1, <2>2, <2>3 DEF tables, PairPlaced
<1>6. ASSUME NEW k \in Ids, NEW v \in Results, Judge(k, v) PROVE Stays
  <2>1. /\ pc = "idle" /\ pc' = "solution" /\ Marked(k, V_C) /\ V_C \in Verdicts
        /\ job'.row = k /\ UNCHANGED tables /\ placed' = placed
        /\ JobUser' = rows[k].user /\ JobProblem' = rows[k].problem
        /\ rows'[k].time = rows[k].time
    BY <1>6, TakenIs
  <2>2. rows[k].user # u \/ rows[k].problem # p \/ rows[k].time > EndTime
    BY <1>2, <1>3, <2>1
  <2>3. KeepsPair(u, p)
    BY <1>1, <2>1, <2>2, MarkedKeepsPairs
  <2>4. QED
    BY <1>2, <1>4, <2>1, <2>3 DEF tables, PairPlaced
<1>7. ASSUME NEW k \in Ids, Skip(k) PROVE Stays
  <2>1. /\ Marked(k, V_SK) /\ V_SK \in Verdicts /\ pc' = pc /\ UNCHANGED tables
        /\ job'.row = job.row /\ job'.running = job.running
        /\ placed' = placed \ {<<rows[k].user, rows[k].problem>>}
    BY <1>7, SkippedIs
  <2>2. rows[k].user # u \/ rows[k].problem # p
    BY <1>2, <2>1
  <2>3. KeepsPair(u, p)
    BY <1>1, <2>1, <2>2, MarkedKeepsPairs
  <2>4. (Untouched(u)' => Untouched(u)) /\ (pc # "idle" => JobProblem' = JobProblem)
    BY <2>1, FreeBefore
  <2>5. QED
    BY <1>2, <1>4, <2>1, <2>3, <2>4 DEF tables, PairPlaced
<1>8. CASE UpdateSolution
  <2>1. /\ pc = "solution" /\ pc' = "problem" /\ job'.row = job.row /\ job.row \in Ids
        /\ rows' = rows \/ (job.verdict \in Verdicts /\ Marked(job.row, job.verdict))
        /\ placed' = placed /\ UNCHANGED tables
    BY <1>8, VerdictIs
  <2>2. job'.running = job.running
    BY <1>8 DEF UpdateSolution, Follows, Shape, RestTyped, Jobs
  <2>3. (Untouched(u)' => Untouched(u)) /\ JobProblem' = JobProblem /\ JobUser' = JobUser
        /\ rows'[job'.row].time = rows[job.row].time
    BY <2>1, <2>2, FreeBefore, JobStays
  <2>4. rows[job.row].user # u \/ rows[job.row].problem # p \/ rows[job.row].time > EndTime
    BY <1>2, <1>3, <2>1, <2>3 DEF JobUser, JobProblem
  <2>5. KeepsPair(u, p)
    BY <1>1, <2>1, <2>4, SameKeepsPairs, MarkedKeepsPairs
  <2>6. QED
    BY <1>2, <2>1, <2>3, <2>5 DEF tables, PairPlaced
<1>9. CASE Later
  <2>1. /\ pc # "idle" /\ pc' # "idle" /\ job'.row = job.row /\ rows' = rows /\ placed' = placed
    BY <1>9, LaterIs
  <2>2. /\ u # JobUser \/ p # JobProblem =>
             attend'[u].time[p] = attend[u].time[p] /\ attend'[u].wrong[p] = attend[u].wrong[p]
        /\ pc \notin {"time", "totals", "penalty"} => attend' = attend
        /\ job.running => job'.running
    BY <1>9, AttendIs
  <2>3. (Untouched(u)' => Untouched(u)) /\ JobProblem' = JobProblem /\ JobUser' = JobUser
    BY <2>1, <2>2, FreeBefore
  <2>4. PairPlaced(u, p)
    BY <1>2, <2>1, <2>3 DEF PairPlaced
  <2>5. u = JobUser /\ p = JobProblem => attend' = attend
    <3>1. u = JobUser /\ p = JobProblem => ~job.running
      BY <1>2, <1>3, <2>1, <2>2, <2>3
    <3>2. QED
      BY <2>2, <3>1 DEF HandInv
  <2>6. KeepsPair(u, p)
    BY <2>1, SameKeepsPairs
  <2>7. QED
    BY <2>2, <2>4, <2>5, <2>6
<1>10. CASE UpdateContestProblem \/ Crash
  <2>1. /\ pc # "idle" /\ rows' = rows /\ attend' = attend
        /\ placed' \subseteq placed \cup {JobPair}
        /\ Crash => JobPair \notin placed'
    BY <1>10, EndedIs
  <2>2. KeepsPair(u, p)
    BY <2>1, SameKeepsPairs
  <2>3. CASE <<u, p>> # JobPair
    <3>1. JobUser # u \/ JobProblem # p
      BY <2>3 DEF JobPair
    <3>2. PairPlaced(u, p)
      BY <1>2, <2>1, <2>3, <3>1 DEF PairPlaced, Untouched, UserQuiet
    <3>3. QED
      BY <2>1, <2>2, <3>2
  <2>4. CASE <<u, p>> = JobPair
    <3>1. JobUser = u /\ JobProblem = p /\ JobPair \in placed' /\ UpdateContestProblem
      BY <1>2, <1>10, <2>1, <2>4 DEF JobPair
    <3>2. job.ok /\ pc = "contest_problem" /\ (~job.running => placed' = placed)
      BY <3>1, LastPlaces
    <3>3. CASE job.running
      BY <3>1, <3>2, <3>3
    <3>4. CASE ~job.running
      <4>1. rows[job.row].time >= EndTime
        BY <3>2, <3>4 DEF HandInv
      <4>2. job.row \in OfUser(u) /\ rows[job.row].time \in Nat
        BY <1>1, <2>1, <3>1, JobIs, RowIs DEF OfUser, JobUser
      <4>3. rows[job.row].time > EndTime
        BY <1>2, <4>1, <4>2, TimesAssumption DEF InTime
      <4>4. PairPlaced(u, p)
        BY <1>2, <3>2, <3>4, <4>3 DEF PairPlaced, Untouched, Unseen
      <4>5. QED
        BY <2>1, <2>2, <4>4
    <3>5. QED
      BY <3>3, <3>4
  <2>5. QED
    BY <2>3, <2>4
<1>11. CASE UNCHANGED vars
  <2>1. rows' = rows /\ attend' = attend /\ placed' = placed /\ pc' = pc /\ job' = job
    BY <1>11 DEF vars, tables, history
  <2>2. KeepsPair(u, p)
    BY <2>1, SameKeepsPairs
  <2>3. (Untouched(u)' => Untouched(u)) /\ (pc # "idle" => JobProblem' = JobProblem)
    BY <2>1, FreeBefore
  <2>4. QED
    BY <1>2, <1>4, <2>1, <2>2, <2>3 DEF PairPlaced
<1>12. QED
  BY <1>5, <1>6, <1>7, <1>8, <1>9, <1>10, <1>11, StepIs

LEMMA StandingLeft ==
  ASSUME Shape, HandInv, [Next]_vars, NEW u \in Users, UserPlaced(u)'
  PROVE  \/ /\ \A p \in Problems : KeepsPair(u, p)
            /\ UserPlaced(u) /\ attend'[u] = attend[u]
         \/ /\ UpdateContestProblem /\ JobUser = u /\ job.ok /\ job.running
            /\ \A p \in Problems \ {JobProblem} : <<u, p>> \in placed
<1> DEFINE Stays == /\ \A p \in Problems : KeepsPair(u, p)
                    /\ UserPlaced(u) /\ attend'[u] = attend[u]
<1>1. rows \in Seq(RowType)
  BY DEF Shape, RowsTyped
<1>2. Untouched(u)' /\ (\A p \in Problems : <<u, p>> \in placed') /\ InTime(u)
  BY InTimeBefore DEF UserPlaced
<1>3. Untouched(u)' <=> \/ pc' = "idle" \/ JobUser' # u
                        \/ rows'[job'.row].time > EndTime /\ ~job'.running
  BY DEF Untouched, UserQuiet, Unseen
<1>4. pc = "idle" => Untouched(u)
  BY DEF Untouched, UserQuiet
<1>5. ASSUME NEW v \in Users, NEW q \in Problems, NEW t \in Dates, Submit(v, q, t) PROVE Stays
  <2>1. /\ Added(v, q, t) /\ pc' = pc /\ job' = job /\ UNCHANGED tables /\ placed' = placed
    BY <1>5, SubmittedIs
  <2>2. \A p \in Problems : KeepsPair(u, p)
    BY <1>1, <2>1, AddedKeepsPairs
  <2>3. Untouched(u)
    BY <1>2, <2>1, FreeBefore
  <2>4. QED
    BY <1>2, <2>1, <2>2, <2>3 DEF tables, UserPlaced
<1>6. ASSUME NEW k \in Ids, NEW v \in Results, Judge(k, v) PROVE Stays
  <2>1. /\ pc = "idle" /\ pc' = "solution" /\ Marked(k, V_C) /\ V_C \in Verdicts
        /\ job'.row = k /\ UNCHANGED tables /\ placed' = placed
        /\ JobUser' = rows[k].user /\ rows'[k].time = rows[k].time
    BY <1>6, TakenIs
  <2>2. rows[k].user # u \/ rows[k].time > EndTime
    BY <1>2, <1>3, <2>1
  <2>3. \A p \in Problems : KeepsPair(u, p)
    BY <1>1, <2>1, <2>2, MarkedKeepsPairs
  <2>4. QED
    BY <1>2, <1>4, <2>1, <2>3 DEF tables, UserPlaced
<1>7. ASSUME NEW k \in Ids, Skip(k) PROVE Stays
  <2>1. /\ Marked(k, V_SK) /\ V_SK \in Verdicts /\ pc' = pc /\ UNCHANGED tables
        /\ job'.row = job.row /\ job'.running = job.running
        /\ placed' = placed \ {<<rows[k].user, rows[k].problem>>}
    BY <1>7, SkippedIs
  <2>2. rows[k].user # u
    BY <1>1, <1>2, <2>1, RowIs
  <2>3. \A p \in Problems : KeepsPair(u, p)
    BY <1>1, <2>1, <2>2, MarkedKeepsPairs
  <2>4. Untouched(u)
    BY <1>2, <2>1, FreeBefore
  <2>5. QED
    BY <1>2, <2>1, <2>3, <2>4 DEF tables, UserPlaced
<1>8. CASE UpdateSolution
  <2>1. /\ pc = "solution" /\ pc' = "problem" /\ job'.row = job.row /\ job.row \in Ids
        /\ rows' = rows \/ (job.verdict \in Verdicts /\ Marked(job.row, job.verdict))
        /\ placed' = placed /\ UNCHANGED tables
    BY <1>8, VerdictIs
  <2>2. job'.running = job.running
    BY <1>8 DEF UpdateSolution, Follows, Shape, RestTyped, Jobs
  <2>3. Untouched(u) /\ JobUser' = JobUser /\ rows'[job'.row].time = rows[job.row].time
    BY <1>2, <2>1, <2>2, FreeBefore, JobStays
  <2>4. rows[job.row].user # u \/ rows[job.row].time > EndTime
    BY <1>2, <1>3, <2>1, <2>3 DEF JobUser
  <2>5. \A p \in Problems : KeepsPair(u, p)
    BY <1>1, <2>1, <2>4, SameKeepsPairs, MarkedKeepsPairs
  <2>6. QED
    BY <1>2, <2>1, <2>3, <2>5 DEF tables, UserPlaced
<1>9. CASE Later
  <2>1. /\ pc # "idle" /\ pc' # "idle" /\ job'.row = job.row /\ rows' = rows /\ placed' = placed
    BY <1>9, LaterIs
  <2>2. /\ u # JobUser => attend'[u] = attend[u]
        /\ pc \notin {"time", "totals", "penalty"} => attend' = attend
        /\ job.running => job'.running
    BY <1>9, AttendIs
  <2>3. Untouched(u) /\ JobUser' = JobUser
    BY <1>2, <2>1, <2>2, FreeBefore
  <2>4. u = JobUser => attend' = attend
    <3>1. u = JobUser => ~job.running
      BY <1>2, <1>3, <2>1, <2>2, <2>3
    <3>2. QED
      BY <2>2, <3>1 DEF HandInv
  <2>5. \A p \in Problems : KeepsPair(u, p)
    BY <2>1, SameKeepsPairs
  <2>6. QED
    BY <1>2, <2>1, <2>2, <2>3, <2>4, <2>5 DEF UserPlaced
<1>10. CASE UpdateContestProblem \/ Crash
  <2>1. /\ pc # "idle" /\ rows' = rows /\ attend' = attend
        /\ placed' \subseteq placed \cup {JobPair}
        /\ Crash => JobPair \notin placed'
    BY <1>10, EndedIs
  <2>2. (\A p \in Problems : KeepsPair(u, p)) /\ JobProblem \in Problems
    BY <2>1, SameKeepsPairs, JobIs
  <2>3. CASE JobUser # u
    <3>1. \A p \in Problems : <<u, p>> # JobPair
      BY <2>3 DEF JobPair
    <3>2. UserPlaced(u)
      BY <1>2, <2>1, <2>3, <3>1 DEF UserPlaced, Untouched, UserQuiet
    <3>3. QED
      BY <2>1, <2>2, <3>2
  <2>4. CASE JobUser = u
    <3>1. JobPair \in placed' /\ UpdateContestProblem
      BY <1>2, <1>10, <2>1, <2>2, <2>4 DEF JobPair
    <3>2. job.ok /\ pc = "contest_problem" /\ (~job.running => placed' = placed)
      BY <3>1, LastPlaces
    <3>3. \A p \in Problems \ {JobProblem} : <<u, p>> \in placed
      BY <1>2, <2>1 DEF JobPair
    <3>4. CASE ~job.running
      <4>1. rows[job.row].time >= EndTime
        BY <3>2, <3>4 DEF HandInv
      <4>2. job.row \in OfUser(u) /\ rows[job.row].time \in Nat
        BY <1>1, <2>1, <2>4, JobIs, RowIs DEF OfUser, JobUser
      <4>3. rows[job.row].time > EndTime
        BY <1>2, <4>1, <4>2, TimesAssumption DEF InTime
      <4>4. UserPlaced(u)
        BY <1>2, <3>2, <3>4, <4>3 DEF UserPlaced, Untouched, Unseen
      <4>5. QED
        BY <2>1, <2>2, <4>4
    <3>5. QED
      BY <2>4, <3>1, <3>2, <3>3, <3>4
  <2>5. QED
    BY <2>3, <2>4
<1>11. CASE UNCHANGED vars
  <2>1. rows' = rows /\ attend' = attend /\ placed' = placed /\ pc' = pc /\ job' = job
    BY <1>11 DEF vars, tables, history
  <2>2. \A p \in Problems : KeepsPair(u, p)
    BY <2>1, SameKeepsPairs
  <2>3. Untouched(u)
    BY <1>2, <2>1, FreeBefore
  <2>4. QED
    BY <1>2, <2>1, <2>2, <2>3 DEF UserPlaced
<1>12. QED
  BY <1>5, <1>6, <1>7, <1>8, <1>9, <1>10, <1>11, StepIs

(* Between its own steps a judging of a row the contest sees finds the     *)
(* rows of its pair as it left them.                                       *)
LEMMA StandingHandLeft ==
  ASSUME Shape, HandInv, [Next]_vars, job'.running, job'.ok,
         NEW me, NEW mine, me = JobUser, mine = JobProblem
  PROVE  /\ pc # "idle" /\ job.ok /\ JobUser' = JobUser /\ JobProblem' = JobProblem
         /\ rows'[job'.row].time = rows[job.row].time
         /\ placed' \subseteq placed /\ KeepsPair(me, mine)
         /\ (\A p \in Problems \ {JobProblem} : <<JobUser, p>> \in placed')
              => \A p \in Problems : KeepsPair(me, p)
         /\ \/ Later
            \/ /\ job.running /\ attend' = attend
               /\ job'.start = job.start /\ job'.end = job.end /\ job'.named = job.named
               /\ job'.until = job.until /\ pc' = pc
<1>1. rows \in Seq(RowType) /\ job \in Jobs
  BY DEF Shape, RowsTyped, RestTyped
<1>2. ~NoJob.running /\ (job.running => pc # "idle" /\ pc # "solution")
  BY DEF NoJob, HandInv
<1> DEFINE Same == /\ job.running /\ job.ok /\ attend' = attend /\ job'.row = job.row
                   /\ job'.start = job.start /\ job'.end = job.end /\ job'.named = job.named
                   /\ job'.until = job.until /\ pc' = pc /\ placed' \subseteq placed
           Keeps == /\ KeepsPair(me, mine)
                    /\ (\A p \in Problems \ {JobProblem} : <<JobUser, p>> \in placed')
                         => \A p \in Problems : KeepsPair(me, p)
<1>3. ASSUME NEW u \in Users, NEW q \in Problems, NEW t \in Dates, Submit(u, q, t)
      PROVE  Same /\ Keeps
  <2>1. /\ Added(u, q, t) /\ pc' = pc /\ job' = job /\ UNCHANGED tables /\ placed' = placed
    BY <1>3, SubmittedIs
  <2>2. Keeps
    BY <1>1, <2>1, AddedKeepsPairs
  <2>3. QED
    BY <2>1, <2>2 DEF tables
<1>4. ASSUME NEW k \in Ids, Skip(k) PROVE Same /\ Keeps
  <2>1. /\ Marked(k, V_SK) /\ V_SK \in Verdicts /\ pc' = pc /\ UNCHANGED tables
        /\ job'.row = job.row /\ job.running
        /\ job'.start = job.start /\ job'.end = job.end /\ job'.named = job.named
        /\ job'.until = job.until /\ job.ok
        /\ pc = "idle" \/ rows[k].user # JobUser \/ rows[k].problem # JobProblem
        /\ placed' = placed \ {<<rows[k].user, rows[k].problem>>}
    BY <1>4, SkippedIs
  <2>2. KeepsPair(me, mine)
    BY <1>1, <1>2, <2>1, MarkedKeepsPairs
  <2>3. ASSUME \A p \in Problems \ {JobProblem} : <<JobUser, p>> \in placed'
        PROVE  \A p \in Problems : KeepsPair(me, p)
    <3>1. rows[k].problem \in Problems
      BY <1>1, RowIs
    <3>2. rows[k].user # JobUser
      BY <1>2, <2>1, <2>3, <3>1
    <3>3. QED
      BY <1>1, <2>1, <3>2, MarkedKeepsPairs
  <2>4. QED
    BY <2>1, <2>2, <2>3 DEF tables
<1>5. ASSUME UNCHANGED vars PROVE Same /\ Keeps
  <2>1. rows' = rows /\ attend' = attend /\ placed' = placed /\ pc' = pc /\ job' = job
    BY <1>5 DEF vars, tables, history
  <2>2. Keeps
    BY <2>1, SameKeepsPairs
  <2>3. QED
    BY <2>1, <2>2
<1>6. ASSUME Same, Keeps
      PROVE  pc # "idle" /\ JobUser' = JobUser /\ JobProblem' = JobProblem
             /\ rows'[job'.row].time = rows[job.row].time
  BY <1>2, <1>6, JobStays
<1>7. ASSUME NEW k \in Ids, NEW v \in Results, Judge(k, v) PROVE FALSE
  BY <1>7, TakenIs
<1>8. ASSUME UpdateSolution PROVE FALSE
  <2>1. pc = "solution" /\ job'.running = job.running
    BY <1>1, <1>8 DEF UpdateSolution, Follows, Jobs
  <2>2. QED
    BY <1>2, <2>1
<1>9. ASSUME UpdateContestProblem \/ Crash PROVE FALSE
  BY <1>2, <1>9, EndedIs
<1>10. CASE Later
  <2>1. /\ pc # "idle" /\ job'.row = job.row /\ rows' = rows /\ placed' = placed /\ job.ok
    BY <1>10, LaterIs
  <2>2. Keeps
    BY <2>1, SameKeepsPairs
  <2>3. QED
    BY <1>10, <2>1, <2>2, JobStays
<1>11. CASE Same /\ Keeps
  BY <1>6, <1>11
<1> HIDE DEF Same, Keeps
<1>12. QED
  BY <1>3, <1>4, <1>5, <1>7, <1>8, <1>9, <1>10, <1>11, StepIs

(* The steps that write the standing of the user of the row.               *)
LEMMA TimeWrites ==
  ASSUME Shape, HandInv, AttendTime, job'.ok
  PROVE  TimeRight(JobUser, JobProblem)' /\ (job.until = UntilOf(JobUser, JobProblem))'
<1> DEFINE u == JobUser
           p == JobProblem
<1>1. PICK failed \in SUBSET {"first", "update"} :
        /\ pc = "time" /\ pc' = "totals" /\ rows' = rows
        /\ LET first == IF "first" \in failed THEN {} ELSE FirstAC(u, p, job.start, job.end)
               until == IF first = {} THEN job.end ELSE Min(first)
           IN /\ job' = [job EXCEPT !.ok = @ /\ failed = {}, !.until = until]
              /\ attend' = IF "update" \in failed \/ ~job.named THEN attend
                           ELSE [attend EXCEPT ![u].time[p] =
                                   IF first = {} THEN 0 ELSE until - job.start]
  BY DEF AttendTime
<1>2. job \in Jobs /\ attend \in [Users -> Standings] /\ u \in Users /\ p \in Problems
  BY <1>1, JobIs DEF Shape, RestTyped, TablesTyped
<1>3. job.ok /\ failed = {}
  BY <1>1, <1>2 DEF Jobs
<1>4. job.start = StartTime /\ job.end = EndTime /\ job.named
  BY <1>1, <1>3 DEF HandInv, TimesRead
<1>5. /\ job'.until = UntilOf(u, p) /\ job'.row = job.row
      /\ attend' = [attend EXCEPT ![u].time[p] =
                      IF First(u, p) = {} THEN 0 ELSE UntilOf(u, p) - StartTime]
  <2>1. FirstAC(u, p, job.start, job.end) = First(u, p)
    BY <1>4 DEF First
  <2>2. /\ job' = [job EXCEPT !.ok = @ /\ failed = {},
                             !.until = IF First(u, p) = {} THEN job.end ELSE Min(First(u, p))]
        /\ attend' = [attend EXCEPT ![u].time[p] =
                       IF First(u, p) = {} THEN 0
                       ELSE (IF First(u, p) = {} THEN job.end ELSE Min(First(u, p))) - job.start]
    BY <1>1, <1>3, <1>4, <2>1
  <2>3. UntilOf(u, p) = IF First(u, p) = {} THEN job.end ELSE Min(First(u, p))
    BY <1>4 DEF UntilOf
  <2>4. job'.until = UntilOf(u, p) /\ job'.row = job.row
    BY <1>2, <2>2, <2>3 DEF Jobs
  <2>5. QED
    BY <1>4, <2>2, <2>3, <2>4
<1>6. attend'[u].time[p] = IF First(u, p) = {} THEN 0 ELSE UntilOf(u, p) - StartTime
  BY <1>2, <1>5 DEF Standings
<1>7. u' = u /\ p' = p
  BY <1>1, <1>5 DEF JobUser, JobProblem
<1>8. First(u, p)' = First(u, p) /\ UntilOf(u, p)' = UntilOf(u, p)
  <2> HIDE DEF u, p
  <2>1. First(u, p)' = First(u, p)
    BY <1>1, <1>7 DEF First, FirstAC, Between, With, Of, OfUser, OfProblem, Ids
  <2>2. QED
    BY <2>1 DEF UntilOf
<1> HIDE DEF u, p
<1>9. TimeRight(u, p)'
  BY <1>6, <1>7, <1>8 DEF TimeRight
<1>10. (job.until = UntilOf(u, p))'
  BY <1>5, <1>8
<1>11. QED
  BY <1>9, <1>10 DEF u, p

LEMMA TotalsWrites ==
  ASSUME Shape, HandInv, AttendTotals, job'.ok
  PROVE  PairRight(JobUser, JobProblem)' /\ TotalsRight(JobUser)'
<1> DEFINE u == JobUser
           p == JobProblem
           score == Score(u, job.start, job.end)
           solved == Cardinality(SolvedIn(u, job.start, job.end))
           wrong == WrongSubmits(u, p, job.start, job.until)
<1>1. PICK failed \in SUBSET {"score", "update"} :
        /\ pc = "totals" /\ rows' = rows /\ job' = [job EXCEPT !.ok = @ /\ failed = {}]
        /\ attend' = IF "update" \in failed \/ ~job.named THEN attend
                     ELSE [attend EXCEPT ![u].solved = solved,
                                         ![u].score = IF "score" \in failed THEN 0 ELSE score,
                                         ![u].wrong[p] = wrong]
  BY DEF AttendTotals, Follows
<1>2. job \in Jobs /\ attend \in [Users -> Standings] /\ u \in Users /\ p \in Problems
  BY <1>1, JobIs DEF Shape, RestTyped, TablesTyped
<1>3. job.ok /\ failed = {} /\ job'.row = job.row
  BY <1>1, <1>2 DEF Jobs
<1>4. job.start = StartTime /\ job.end = EndTime /\ job.named
      /\ TimeRight(u, p) /\ job.until = UntilOf(u, p)
  BY <1>1, <1>3 DEF HandInv, TimesRead, TimeWritten
<1>5. attend' = [attend EXCEPT ![u].solved = solved, ![u].score = score, ![u].wrong[p] = wrong]
  BY <1>1, <1>3, <1>4
<1>6. u' = u /\ p' = p
  BY <1>1, <1>3 DEF JobUser, JobProblem
<1>8. /\ solved = Cardinality(SolvedIn(u, StartTime, EndTime))
      /\ score = Score(u, StartTime, EndTime)
      /\ wrong = WrongSubmits(u, p, StartTime, UntilOf(u, p))
  BY <1>4
<1> HIDE DEF u, p, solved, score, wrong
<1>9. /\ attend'[u].solved = solved /\ attend'[u].score = score /\ attend'[u].wrong[p] = wrong
      /\ attend'[u].time[p] = attend[u].time[p]
  BY <1>2, <1>5 DEF Standings
<1>11. /\ UntilOf(u, p)' = UntilOf(u, p) /\ First(u, p)' = First(u, p)
       /\ WrongSubmits(u, p, StartTime, UntilOf(u, p))'
            = WrongSubmits(u, p, StartTime, UntilOf(u, p))
       /\ SolvedIn(u, StartTime, EndTime)' = SolvedIn(u, StartTime, EndTime)
       /\ Score(u, StartTime, EndTime)' = Score(u, StartTime, EndTime)
  BY <1>1, <1>6 DEF UntilOf, First, FirstAC, WrongSubmits, SolvedIn, Score, ProblemsOf,
                    Between, With, Of, OfUser, OfProblem, Ids
<1>10. TimeRight(u, p)'
  BY <1>4, <1>6, <1>9, <1>11 DEF TimeRight
<1>12. PairRight(u, p)'
  BY <1>6, <1>8, <1>9, <1>10, <1>11 DEF PairRight
<1>13. TotalsRight(u)'
  BY <1>6, <1>8, <1>9, <1>11 DEF TotalsRight
<1>14. QED
  BY <1>12, <1>13 DEF u, p

LEMMA PenaltyWrites ==
  ASSUME Shape, AttendPenalty, job'.ok
  PROVE  /\ PenaltyFollows(JobUser)'
         /\ attend'[JobUser].solved = attend[JobUser].solved
         /\ attend'[JobUser].score = attend[JobUser].score
         /\ attend'[JobUser].time = attend[JobUser].time
         /\ attend'[JobUser].wrong = attend[JobUser].wrong
<1> DEFINE u == JobUser
<1>1. PICK failed \in SUBSET (Problems \cup {"count", "update"}) :
        /\ pc = "penalty" /\ rows' = rows /\ job' = [job EXCEPT !.ok = @ /\ failed = {}]
        /\ LET read == IF "count" \in failed THEN {} ELSE Problems \ failed IN
           attend' = IF "update" \in failed THEN attend
                     ELSE [attend EXCEPT ![u].penalty = PenaltyOf(attend[u], read)]
  BY DEF AttendPenalty, Follows
<1>2. job \in Jobs /\ attend \in [Users -> Standings] /\ u \in Users
  BY <1>1, JobIs DEF Shape, RestTyped, TablesTyped
<1>3. failed = {} /\ job'.row = job.row
  BY <1>1, <1>2 DEF Jobs
<1>4. attend' = [attend EXCEPT ![u].penalty = PenaltyOf(attend[u], Problems)]
  BY <1>1, <1>3
<1>5. u' = u
  BY <1>1, <1>3 DEF JobUser
<1> HIDE DEF u
<1>6. /\ attend'[u].penalty = PenaltyOf(attend[u], Problems)
      /\ attend'[u].solved = attend[u].solved /\ attend'[u].score = attend[u].score
      /\ attend'[u].time = attend[u].time /\ attend'[u].wrong = attend[u].wrong
  BY <1>2, <1>4 DEF Standings
<1>7. PenaltyOf(attend'[u], Problems) = PenaltyOf(attend[u], Problems)
  BY <1>6 DEF PenaltyOf
<1>8. PenaltyFollows(u)'
  BY <1>5, <1>6, <1>7 DEF PenaltyFollows
<1>9. QED
  BY <1>6, <1>8 DEF u

LEMMA HandStep == ASSUME Shape, HandInv, [Next]_vars PROVE HandInv'
<1>1. job \in Jobs /\ NoJob.running = FALSE
  BY DEF Shape, RestTyped, NoJob
<1>2. (pc' \in {"time", "totals", "penalty"} => job'.running)
      /\ (job'.running => pc' \in {"time", "totals", "penalty", "contest_problem"})
  <2>1. ASSUME NEW u \in Users, NEW q \in Problems, NEW t \in Dates, Submit(u, q, t)
        PROVE  pc' = pc /\ job' = job
    BY <2>1, SubmittedIs
  <2>2. ASSUME NEW k \in Ids, NEW v \in Results, Judge(k, v)
        PROVE  pc' = "solution" /\ ~job'.running
    BY <2>2, TakenIs
  <2>3. ASSUME NEW k \in Ids, Skip(k) PROVE pc' = pc /\ job'.running = job.running
    BY <2>3, SkippedIs
  <2>4. CASE UpdateSolution \/ UpdateProblem \/ UpdateUser \/ AttendTotals \/ AttendPenalty
    BY <1>1, <2>4 DEF HandInv, UpdateSolution, UpdateProblem, UpdateUser, AttendTotals,
                      AttendPenalty, Follows, Jobs
  <2>5. CASE UpdateContest
    BY <1>1, <2>5 DEF HandInv, UpdateContest, Jobs
  <2>6. CASE AttendTime
    BY <1>1, <2>6 DEF HandInv, AttendTime, Jobs
  <2>7. CASE UpdateContestProblem \/ Crash
    BY <1>1, <2>7, EndedIs
  <2>8. CASE UNCHANGED vars
    BY <2>8 DEF HandInv, vars
  <2>9. QED
    BY <2>1, <2>2, <2>3, <2>4, <2>5, <2>6, <2>7, <2>8 DEF Next, HandInv
<1>3. ASSUME pc' = "contest_problem", job'.ok, ~job'.running
      PROVE  rows'[job'.row].time >= EndTime
  <2>1. ASSUME pc = "contest_problem", job.ok, ~job.running, job'.row = job.row
        PROVE  rows'[job'.row].time >= EndTime
    BY <2>1, JobStays DEF HandInv
  <2>2. ASSUME NEW u \in Users, NEW q \in Problems, NEW t \in Dates, Submit(u, q, t)
        PROVE  pc' = pc /\ job' = job
    BY <2>2, SubmittedIs
  <2>3. ASSUME NEW k \in Ids, Skip(k)
        PROVE  pc' = pc /\ job'.running = job.running /\ job'.row = job.row /\ job.ok
    BY <1>3, <2>3, SkippedIs
  <2>4. CASE UpdateContest
    <3>1. PICK failed \in SUBSET {"num", "times"}, s \in Times, e \in Times :
            /\ "times" \notin failed => s = StartTime /\ e = EndTime
            /\ rows' = rows
            /\ IF e > rows[job.row].time THEN pc' = "time"
               ELSE job' = [job EXCEPT !.ok = @ /\ failed = {}]
      BY <2>4 DEF UpdateContest
    <3>2. ~(e > rows[job.row].time) /\ failed = {}
      BY <1>1, <1>3, <3>1 DEF Jobs
    <3>3. job'.row = job.row
      BY <1>1, <3>1, <3>2 DEF Jobs
    <3>4. rows[job.row].time \in Nat
      BY <2>4, JobIs, RowIs DEF UpdateContest, Shape, RowsTyped
    <3>5. QED
      BY <3>1, <3>2, <3>3, <3>4, TimesAssumption
  <2>5. CASE AttendPenalty
    BY <1>1, <1>3, <2>5 DEF AttendPenalty, Follows, HandInv, Jobs
  <2>6. CASE UpdateSolution \/ UpdateProblem \/ UpdateUser \/ AttendTotals \/ AttendTime
    BY <1>3, <2>6 DEF UpdateSolution, UpdateProblem, UpdateUser, AttendTotals, AttendTime, Follows
  <2>7. CASE UpdateContestProblem \/ Crash
    BY <1>3, <2>7, EndedIs
  <2>8. CASE UNCHANGED vars
    BY <1>3, <2>1, <2>8 DEF vars
  <2>9. \A k \in Ids, v \in Results : ~Judge(k, v)
    BY <1>3, TakenIs
  <2>10. QED
    BY <1>3, <2>1, <2>2, <2>3, <2>4, <2>5, <2>6, <2>7, <2>8, <2>9 DEF Next
<1>4. ASSUME job'.running, job'.ok
      PROVE  TimesRead' /\ TimeWritten' /\ TotalsWritten' /\ PenaltyWritten'
  <2>0. PICK me, mine : me = JobUser /\ mine = JobProblem
    OBVIOUS
  <2>1. /\ pc # "idle" /\ job.ok /\ JobUser' = JobUser /\ JobProblem' = JobProblem
        /\ placed' \subseteq placed /\ KeepsPair(me, mine)
        /\ (\A p \in Problems \ {JobProblem} : <<JobUser, p>> \in placed')
             => \A p \in Problems : KeepsPair(me, p)
        /\ \/ Later
           \/ /\ job.running /\ attend' = attend
              /\ job'.start = job.start /\ job'.end = job.end /\ job'.named = job.named
              /\ job'.until = job.until /\ pc' = pc
    BY <1>4, <2>0, StandingHandLeft
  <2>2. /\ (\A p \in Problems \ {mine} : <<me, p>> \in placed') =>
             (\A p \in Problems \ {mine} : <<me, p>> \in placed)
             /\ \A p \in Problems : KeepsPair(me, p)
        /\ me = JobUser' /\ mine = JobProblem'
    BY <2>0, <2>1
  <2>3. ASSUME TimesRead',
               pc' = "totals" => TimeRight(me, mine)' /\ job'.until = UntilOf(me, mine)',
               pc' \in {"penalty", "contest_problem"} =>
                 /\ PairRight(me, mine)'
                 /\ (\A p \in Problems \ {mine} : <<me, p>> \in placed') => TotalsRight(me)',
               pc' = "contest_problem" => PenaltyFollows(me)'
        PROVE  TimesRead' /\ TimeWritten' /\ TotalsWritten' /\ PenaltyWritten'
    <3>1. TimeWritten'
      BY <2>2, <2>3 DEF TimeWritten
    <3>2. TotalsWritten'
      BY <2>2, <2>3 DEF TotalsWritten
    <3>3. PenaltyWritten'
      BY <2>2, <2>3 DEF PenaltyWritten
    <3>4. QED
      BY <2>3, <3>1, <3>2, <3>3
  <2>4. CASE /\ job.running /\ attend' = attend
             /\ job'.start = job.start /\ job'.end = job.end /\ job'.named = job.named
             /\ job'.until = job.until /\ pc' = pc
    <3>1. TimesRead /\ TimeWritten /\ TotalsWritten /\ PenaltyWritten
      BY <2>1, <2>4 DEF HandInv
    <3>2. TimesRead'
      BY <2>4, <3>1 DEF TimesRead
    <3>3. /\ pc = "totals" => TimeRight(me, mine) /\ job.until = UntilOf(me, mine)
          /\ pc \in {"penalty", "contest_problem"} =>
               /\ PairRight(me, mine)
               /\ (\A p \in Problems \ {mine} : <<me, p>> \in placed) => TotalsRight(me)
          /\ pc = "contest_problem" => PenaltyFollows(me)
      BY <2>0, <3>1 DEF TimeWritten, TotalsWritten, PenaltyWritten
    <3>4. UntilOf(me, mine)' = UntilOf(me, mine)
      BY <2>1, QueriesSame
    <3>5. /\ TimeRight(me, mine) => TimeRight(me, mine)'
          /\ PairRight(me, mine) => PairRight(me, mine)'
      BY <2>1, <2>4, PairFrame
    <3>6. (\A p \in Problems : KeepsPair(me, p)) /\ TotalsRight(me) => TotalsRight(me)'
      BY <2>4, TotalsFrame
    <3>7. PenaltyFollows(me) => PenaltyFollows(me)'
      BY <2>4, PenaltyFrame
    <3>8. QED
      BY <2>2, <2>3, <2>4, <3>2, <3>3, <3>4, <3>5, <3>6, <3>7
  <2>5. CASE UpdateProblem \/ UpdateUser
    <3>1. ~job'.running
      BY <1>1, <2>5 DEF UpdateProblem, UpdateUser, Follows, HandInv, Jobs
    <3>2. QED
      BY <1>4, <3>1
  <2>6. CASE UpdateContest
    <3>1. PICK failed \in SUBSET {"num", "times"}, s \in Times, e \in Times :
            /\ "times" \notin failed => s = StartTime /\ e = EndTime
            /\ IF e > rows[job.row].time
               THEN /\ pc' = "time"
                    /\ job' = [job EXCEPT !.ok = @ /\ failed = {}, !.named = "num" \notin failed,
                                          !.running = TRUE, !.start = s, !.end = e]
               ELSE job' = [job EXCEPT !.ok = @ /\ failed = {}]
      BY <2>6 DEF UpdateContest
    <3>2. pc = "contest"
      BY <2>6 DEF UpdateContest
    <3>3. ~job.running
      BY <3>2 DEF HandInv
    <3>4. e > rows[job.row].time
      BY <1>1, <1>4, <3>1, <3>3 DEF Jobs
    <3>5. pc' = "time" /\ failed = {} /\ job'.start = s /\ job'.end = e
          /\ job'.named = ("num" \notin failed)
      BY <1>1, <1>4, <3>1, <3>4 DEF Jobs
    <3>6. TimesRead'
      BY <3>1, <3>5 DEF TimesRead
    <3>7. QED
      BY <3>5, <3>6 DEF TimeWritten, TotalsWritten, PenaltyWritten
  <2>7. CASE AttendTime
    <3>1. TimeRight(JobUser, JobProblem)' /\ (job.until = UntilOf(JobUser, JobProblem))'
      BY <1>4, <2>7, TimeWrites
    <3>2. /\ pc = "time" /\ pc' = "totals" /\ job'.start = job.start /\ job'.end = job.end
          /\ job'.named = job.named
      BY <1>1, <2>7 DEF AttendTime, Jobs
    <3>3. TimesRead'
      BY <2>1, <3>2 DEF HandInv, TimesRead
    <3>4. TimeWritten'
      BY <3>1 DEF TimeWritten
    <3>5. QED
      BY <3>2, <3>3, <3>4 DEF TotalsWritten, PenaltyWritten
  <2>8. CASE AttendTotals
    <3>1. PairRight(JobUser, JobProblem)' /\ TotalsRight(JobUser)'
      BY <1>4, <2>8, TotalsWrites
    <3>2. /\ pc = "totals" /\ pc' = "penalty" /\ job'.start = job.start /\ job'.end = job.end
          /\ job'.named = job.named
      BY <1>1, <2>8 DEF AttendTotals, Follows, Jobs
    <3>3. TimesRead'
      BY <2>1, <3>2 DEF HandInv, TimesRead
    <3>4. TotalsWritten'
      BY <3>1 DEF TotalsWritten
    <3>5. QED
      BY <3>2, <3>3, <3>4 DEF TimeWritten, PenaltyWritten
  <2>9. CASE AttendPenalty
    <3>1. /\ PenaltyFollows(JobUser)'
          /\ attend'[me].solved = attend[me].solved /\ attend'[me].score = attend[me].score
          /\ attend'[me].time = attend[me].time /\ attend'[me].wrong = attend[me].wrong
      BY <1>4, <2>0, <2>9, PenaltyWrites
    <3>2. /\ pc = "penalty" /\ pc' = "contest_problem" /\ job'.start = job.start
          /\ job'.end = job.end /\ job'.named = job.named
      BY <1>1, <2>9 DEF AttendPenalty, Follows, Jobs
    <3>3. TimesRead /\ TotalsWritten
      BY <2>1, <3>2 DEF HandInv
    <3>4. TimesRead'
      BY <3>2, <3>3 DEF TimesRead
    <3>5. /\ PairRight(me, mine)
          /\ (\A p \in Problems \ {mine} : <<me, p>> \in placed) => TotalsRight(me)
      BY <2>0, <3>2, <3>3 DEF TotalsWritten
    <3>6. PairRight(me, mine)'
      BY <2>1, <3>1, <3>5, PairFrame
    <3>7. (\A p \in Problems \ {mine} : <<me, p>> \in placed') => TotalsRight(me)'
      BY <2>2, <3>1, <3>5, TotalsFrame
    <3>8. PenaltyFollows(me)'
      BY <2>2, <3>1
    <3>9. QED
      BY <2>3, <3>2, <3>4, <3>6, <3>7, <3>8
  <2>10. QED
    BY <2>1, <2>4, <2>5, <2>6, <2>7, <2>8, <2>9 DEF Later
<1>5. QED
  BY <1>2, <1>3, <1>4 DEF HandInv

LEMMA PlaceStep == ASSUME Shape, PlaceInv, [Next]_vars PROVE PlaceInv'
<1>1. HandInv
  BY DEF PlaceInv
<1>2. ASSUME NEW u \in Users, NEW p \in Problems, PairPlaced(u, p)' PROVE PairRight(u, p)'
  <2>1. CASE /\ KeepsPair(u, p) /\ PairPlaced(u, p)
             /\ attend'[u].time[p] = attend[u].time[p] /\ attend'[u].wrong[p] = attend[u].wrong[p]
    BY <2>1, PairFrame DEF PlaceInv
  <2>2. CASE UpdateContestProblem /\ JobUser = u /\ JobProblem = p /\ job.ok /\ job.running
    <3>1. rows' = rows /\ attend' = attend /\ pc = "contest_problem"
      BY <2>2, EndedIs DEF UpdateContestProblem
    <3>2. PairRight(u, p)
      BY <1>1, <2>2, <3>1 DEF HandInv, TotalsWritten
    <3>3. KeepsPair(u, p)
      BY <3>1, SameKeepsPairs
    <3>4. QED
      BY <3>1, <3>2, <3>3, PairFrame
  <2>3. QED
    BY <1>1, <1>2, <2>1, <2>2, PairLeft
<1>3. ASSUME NEW u \in Users, UserPlaced(u)' PROVE TotalsRight(u)' /\ PenaltyFollows(u)'
  <2>1. CASE (\A p \in Problems : KeepsPair(u, p)) /\ UserPlaced(u) /\ attend'[u] = attend[u]
    BY <2>1, TotalsFrame, PenaltyFrame DEF PlaceInv
  <2>2. CASE /\ UpdateContestProblem /\ JobUser = u /\ job.ok /\ job.running
             /\ \A p \in Problems \ {JobProblem} : <<u, p>> \in placed
    <3>1. rows' = rows /\ attend' = attend /\ pc = "contest_problem"
      BY <2>2, EndedIs DEF UpdateContestProblem
    <3>2. TotalsRight(u) /\ PenaltyFollows(u)
      BY <1>1, <2>2, <3>1 DEF HandInv, TotalsWritten, PenaltyWritten
    <3>3. \A p \in Problems : KeepsPair(u, p)
      BY <3>1, SameKeepsPairs
    <3>4. QED
      BY <3>1, <3>2, <3>3, TotalsFrame, PenaltyFrame
  <2>3. QED
    BY <1>1, <1>3, <2>1, <2>2, StandingLeft
<1>4. HandInv'
  BY <1>1, HandStep
<1>5. QED
  BY <1>2, <1>3, <1>4 DEF PlaceInv

LEMMA SumOfNone == ASSUME NEW f PROVE SumFunctionOnSet(f, {}) = 0
<1> DEFINE g == CHOOSE h : Sums(f, {}, h)
<1>1. IsFiniteSet({})
  BY FS_EmptySet
<1>2. Sums(f, {}, g)
  BY <1>1, SumsExist
<1> HIDE DEF g
<1>3. g[{}] = 0
  BY <1>2 DEF Sums, Summand
<1>4. QED
  BY <1>3, SumIs DEF g

LEMMA PlaceInit == Init => PlaceInv
<1> SUFFICES ASSUME Init PROVE PlaceInv
  OBVIOUS
<1>1. Ids = {} /\ pc = "idle" /\ job = NoJob /\ attend = [u \in Users |-> NoStanding]
      /\ rows \in Seq(RowType)
  BY DEF Init, Ids
<1>2. Cardinality({}) = 0
  BY FS_EmptySet
<1>3. ASSUME NEW u \in Users, NEW p \in Problems PROVE PairRight(u, p)
  <2>1. Accepted(u, p) = {} /\ \A e : Failed(u, p, e) = {}
    BY <1>1, AcceptedIs
  <2>2. First(u, p) = {}
    BY <2>1, FirstByAccepted
  <2>3. WrongSubmits(u, p, StartTime, UntilOf(u, p)) = 0
    BY <1>2, <2>1 DEF WrongSubmits, Failed
  <2>4. attend[u].time[p] = 0 /\ attend[u].wrong[p] = 0
    BY <1>1 DEF NoStanding
  <2>5. QED
    BY <2>2, <2>3, <2>4 DEF PairRight, TimeRight
<1>4. ASSUME NEW u \in Users PROVE TotalsRight(u) /\ PenaltyFollows(u)
  <2>1. SolvedIn(u, StartTime, EndTime) = {}
    BY <1>1 DEF SolvedIn, ProblemsOf, Between, With, OfUser
  <2>2. Score(u, StartTime, EndTime) = 0
    BY <2>1, SumOfNone DEF Score
  <2>3. attend[u] = NoStanding
    BY <1>1
  <2>4. {q \in Problems : NoStanding.time[q] > 0} = {}
    BY DEF NoStanding
  <2> DEFINE f == [p \in {q \in Problems : NoStanding.time[q] > 0} |->
                     NoStanding.time[p] + NoStanding.wrong[p] * WrongPenalty]
  <2>5. DOMAIN f = {}
    BY <2>4
  <2>6. PenaltyOf(NoStanding, Problems) = SumFunctionOnSet(f, DOMAIN f)
    BY DEF PenaltyOf, SumFunction
  <2> HIDE DEF f
  <2>7. PenaltyOf(NoStanding, Problems) = 0
    BY <2>5, <2>6, SumOfNone
  <2>8. NoStanding.solved = 0 /\ NoStanding.score = 0 /\ NoStanding.penalty = 0
    BY DEF NoStanding
  <2>9. QED
    BY <1>2, <2>1, <2>2, <2>3, <2>7, <2>8 DEF TotalsRight, PenaltyFollows
<1>5. HandInv
  BY <1>1 DEF HandInv, NoJob
<1>6. QED
  BY <1>3, <1>4, <1>5 DEF PlaceInv

(* The row with the lowest id among the accepted ones is the earliest,     *)
(* because the clock of the website is the order of the rows.              *)
LEMMA EarliestIs ==
  ASSUME rows \in Seq(RowType), Ordered, NEW u, NEW p
  PROVE  /\ AcceptedAt(u, p) = {} <=> Accepted(u, p) = {}
         /\ Accepted(u, p) # {} => Min(AcceptedAt(u, p)) = UntilOf(u, p)
<1>1. \A i \in Ids : rows[i].time \in Nat
  BY RowIs
<1>2. StartTime \in Nat /\ EndTime \in Nat
  BY TimesAssumption
<1>3. AcceptedAt(u, p) = {t \in StartTime .. EndTime : \E i \in Accepted(u, p) : rows[i].time = t}
  <2>1. AcceptedAt(u, p)
          = {t \in StartTime .. EndTime :
               \E i \in Ids : /\ rows[i].user = u /\ rows[i].problem = p
                              /\ rows[i].verdict = V_AC /\ rows[i].time = t}
    BY DEF AcceptedAt, Of, OfUser, OfProblem
  <2>2. QED
    BY <1>1, <1>2, <2>1, AcceptedIs
<1>4. \A i \in Accepted(u, p) : i \in Ids /\ rows[i].time \in StartTime .. EndTime
  BY <1>1, <1>2, AcceptedIs
<1>5. AcceptedAt(u, p) = {} <=> Accepted(u, p) = {}
  BY <1>3, <1>4
<1>6. CASE Accepted(u, p) # {}
  <2> DEFINE m == Min(Accepted(u, p))
             S == AcceptedAt(u, p)
  <2>1. /\ m \in Accepted(u, p) /\ UntilOf(u, p) = rows[m].time
        /\ \A k \in Accepted(u, p) : m <= k
    BY <1>6, UntilIs
  <2>2. S \in SUBSET Nat /\ S # {}
    BY <1>2, <1>3, <1>5, <1>6
  <2>3. Min(S) \in S /\ \A t \in S : Min(S) <= t
    BY <2>2, MinIs
  <2> HIDE DEF m
  <2>4. rows[m].time \in S
    BY <1>3, <1>4, <2>1
  <2>5. PICK i \in Accepted(u, p) : rows[i].time = Min(S)
    BY <1>3, <2>3
  <2>6. rows[m].time <= rows[i].time
    <3>1. m <= i /\ m \in Ids /\ i \in Ids /\ m \in Nat /\ i \in Nat
      BY <1>4, <2>1, <2>5, IdsFinite
    <3>2. CASE m = i
      BY <1>1, <3>1, <3>2
    <3>3. CASE m < i
      BY <3>1, <3>3 DEF Ordered
    <3>4. QED
      BY <3>1, <3>2, <3>3
  <2>7. Min(S) \in Nat /\ rows[m].time \in Nat
    BY <2>2, <2>3, <2>4
  <2> HIDE DEF S
  <2>8. Min(S) = rows[m].time
    BY <2>3, <2>4, <2>5, <2>6, <2>7
  <2>9. QED
    BY <1>5, <2>1, <2>8 DEF S
<1>7. QED
  BY <1>5, <1>6

LEMMA StandingIs ==
  ASSUME rows \in Seq(RowType), Ordered, NEW u, attend[u] \in Standings,
         \A p \in Problems : PairRight(u, p), TotalsRight(u), PenaltyFollows(u)
  PROVE  attend[u] = Standing(u)
<1> DEFINE solved == {p \in Problems : AcceptedAt(u, p) # {}}
           until == [p \in Problems |-> IF p \in solved THEN Min(AcceptedAt(u, p)) ELSE EndTime]
           wrong == [p \in Problems |->
                       Cardinality({i \in Of(u, p) : rows[i].verdict > V_AC
                                      /\ rows[i].time \in StartTime .. until[p]})]
           a == attend[u]
<1>1. ASSUME NEW p \in Problems
      PROVE  /\ p \in solved <=> Accepted(u, p) # {}
             /\ p \in solved <=> First(u, p) # {}
             /\ until[p] = UntilOf(u, p) /\ until[p] \in Nat /\ StartTime <= until[p]
  <2>1. p \in solved <=> Accepted(u, p) # {}
    BY EarliestIs
  <2>2. p \in solved <=> First(u, p) # {}
    BY <2>1, UntilIs
  <2>3. CASE p \in solved
    BY <2>1, <2>2, <2>3, EarliestIs, UntilIs
  <2>4. CASE p \notin solved
    <3>1. UntilOf(u, p) = EndTime
      BY <2>2, <2>4 DEF UntilOf
    <3>2. until[p] = EndTime
      BY <2>4
    <3>3. QED
      BY <2>1, <2>2, <3>1, <3>2, TimesAssumption
  <2>5. QED
    BY <2>3, <2>4
<1>2. solved = SolvedIn(u, StartTime, EndTime)
  BY <1>1, SolvedIs
<1>3. ASSUME NEW p \in Problems PROVE a.wrong[p] = wrong[p]
  <2>1. a.wrong[p] = WrongSubmits(u, p, StartTime, UntilOf(u, p))
    BY DEF PairRight
  <2>2. \A i \in Of(u, p) : rows[i].time \in Nat
    BY RowIs DEF Of, OfUser
  <2>3. StartTime \in Nat /\ until[p] \in Nat /\ until[p] = UntilOf(u, p)
    BY <1>1, TimesAssumption
  <2> DEFINE e == until[p]
  <2>4. wrong[p] = Cardinality({i \in Of(u, p) : rows[i].verdict > V_AC
                                  /\ rows[i].time \in StartTime .. e})
    OBVIOUS
  <2>5. e = UntilOf(u, p) /\ e \in Nat
    BY <2>3
  <2> HIDE DEF e, wrong
  <2>6. {i \in Of(u, p) : rows[i].verdict > V_AC /\ rows[i].time \in StartTime .. e}
          = {i \in Between(Of(u, p), StartTime, e) : rows[i].verdict > V_AC}
    BY <2>2, <2>3, <2>5 DEF Between
  <2>7. QED
    BY <2>1, <2>4, <2>5, <2>6 DEF WrongSubmits
<1>4. ASSUME NEW p \in Problems
      PROVE  a.time[p] = IF p \in solved THEN until[p] - StartTime ELSE 0
  <2>1. TimeRight(u, p)
    BY DEF PairRight
  <2>2. a.time[p] = IF First(u, p) = {} THEN 0 ELSE UntilOf(u, p) - StartTime
    BY <2>1 DEF TimeRight
  <2>3. (p \in solved <=> First(u, p) # {}) /\ until[p] = UntilOf(u, p)
    BY <1>1
  <2> HIDE DEF solved, until
  <2>4. QED
    BY <2>2, <2>3
<1> DEFINE S == {q \in solved : until[q] > StartTime}
           f == [p \in S |-> until[p] - StartTime + wrong[p] * WrongPenalty]
           T == {q \in Problems : a.time[q] > 0}
           g == [p \in T |-> a.time[p] + a.wrong[p] * WrongPenalty]
           time == [p \in Problems |-> IF p \in solved THEN until[p] - StartTime ELSE 0]
<1>5. Standing(u) = [time |-> time, wrong |-> wrong, solved |-> Cardinality(solved),
                     score |-> SumFunctionOnSet(Points, solved), penalty |-> SumFunction(f)]
  BY DEF Standing
<1>6. DOMAIN wrong = Problems /\ wrong = [p \in Problems |-> wrong[p]]
  OBVIOUS
<1>7. \A p \in solved : p \in Problems
  OBVIOUS
<1>8. \A p \in Problems : until[p] \in Nat /\ StartTime <= until[p]
  BY <1>1
<1> HIDE DEF solved, until, wrong, a
<1>9. a \in Standings /\ StartTime \in Nat
  BY TimesAssumption DEF a
<1>10. S = T
  <2>1. \A q \in solved : until[q] > StartTime <=> a.time[q] > 0
    BY <1>4, <1>7, <1>8, <1>9
  <2>2. \A q \in Problems : q \notin solved => ~(a.time[q] > 0)
    BY <1>4
  <2>3. QED
    BY <1>7, <2>1, <2>2
<1>11. f = g
  <2>1. \A p \in S : p \in solved /\ p \in Problems
    BY <1>7
  <2>2. \A p \in S : f[p] = g[p]
    BY <1>3, <1>4, <1>10, <2>1
  <2>3. QED
    BY <1>10, <1>3, <1>4, <2>1
<1>12. a.penalty = SumFunction(f)
  <2>1. a.penalty = SumFunction(g)
    BY DEF PenaltyFollows, PenaltyOf, a
  <2> HIDE DEF f, g
  <2>2. QED
    BY <1>11, <2>1
<1> HIDE DEF f, g
<1>13. a.solved = Cardinality(solved) /\ a.score = SumFunctionOnSet(Points, solved)
  BY <1>2 DEF TotalsRight, Score, a
<1>14. a.time = time /\ a.wrong = wrong
  <2>1. a.time = [p \in Problems |-> a.time[p]] /\ a.wrong = [p \in Problems |-> a.wrong[p]]
    BY <1>9 DEF Standings
  <2>2. a.time = time
    BY <1>4, <2>1
  <2>3. a.wrong = wrong
    BY <1>3, <1>6, <2>1
  <2>4. QED
    BY <2>2, <2>3
<1> HIDE DEF time
<1>15. a = [time |-> a.time, wrong |-> a.wrong, solved |-> a.solved, score |-> a.score,
            penalty |-> a.penalty]
  BY <1>9 DEF Standings
<1>16. a = Standing(u)
  BY <1>5, <1>12, <1>13, <1>14, <1>15
<1>17. QED
  BY <1>16 DEF a

LEMMA PlaceGives == ASSUME Shape, PlaceInv PROVE StandingsRight
<1>1. rows \in Seq(RowType) /\ Ordered /\ attend \in [Users -> Standings]
  BY DEF Shape, RowsTyped, TablesTyped
<1>2. ASSUME NEW u \in Users, UserQuiet(u), \A p \in Problems : <<u, p>> \in placed,
             \A i \in OfUser(u) : rows[i].time # EndTime
      PROVE  attend[u] = Standing(u)
  <2>1. UserPlaced(u) /\ \A p \in Problems : PairPlaced(u, p)
    BY <1>2 DEF UserPlaced, PairPlaced, Untouched, InTime
  <2>2. TotalsRight(u) /\ PenaltyFollows(u) /\ \A p \in Problems : PairRight(u, p)
    BY <2>1 DEF PlaceInv
  <2>3. attend[u] \in Standings
    BY <1>1
  <2>4. QED
    BY <1>1, <2>2, <2>3, StandingIs
<1>3. QED
  BY <1>2 DEF StandingsRight

(* Whatever was rejudged in whatever order, and whatever failed on the     *)
(* way: the standing of a user whose problems were all judged in full      *)
(* since is the one the rules of the contest give for the rows             *)
(* (SQL_updateContest, SQL_updateAttend_contest).                          *)
THEOREM StandingsFollowRows == Spec => []StandingsRight
<1>1. Init => PlaceInv
  BY PlaceInit
<1>2. Shape /\ PlaceInv /\ [Next]_vars => PlaceInv'
  BY PlaceStep
<1>3. Shape /\ PlaceInv => StandingsRight
  BY PlaceGives
<1>4. QED
  BY <1>1, <1>2, <1>3, ShapeAlways, PTL DEF Spec
=============================================================================
