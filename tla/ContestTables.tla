--------------------------- MODULE ContestTables ---------------------------
(***************************************************************************)
(* The tables that follow from the rows of table solution: the counters of *)
(* problems, users and contest problems, and the standing of every user of *)
(* a contest (judge/judge_sql.cpp, called by judge_solution_result_to_db). *)
(*                                                                         *)
(* Nothing is counted up: after a judging each column is computed anew by  *)
(* a query.  Queries fail one by one and are not repeated; the website     *)
(* adds rows and other threads skip rows between them; the judge may crash *)
(* between them.  The statements of one function on one table are one      *)
(* step here, in which any of them may fail.  Every row is of one contest: *)
(* for a practice row SQL_updateContest returns at once.                   *)
(***************************************************************************)
EXTENDS Integers, Sequences, FiniteSets, FiniteSetsExt

CONSTANTS
  Users,
  Problems,     \* the problems of the contest
  Results,      \* the verdicts a judging may end with
  Points,       \* contest_problem.point of each
  StartTime,    \* contest.start_time
  EndTime,      \* contest.end_time
  Dates,        \* the values of submit_date
  WrongPenalty, \* 60 * 20
  MaxRows,      \* bound: rows of table solution
  MaxFaults     \* bound: failed queries, crashes and skipped rows

ASSUME ResultsAssumption == Results \subseteq 3 .. 15
ASSUME PointsAssumption == IsFiniteSet(Problems) /\ Points \in [Problems -> Nat]
ASSUME TimesAssumption ==
  /\ StartTime \in Nat /\ EndTime \in Nat /\ Dates \subseteq Nat
  /\ StartTime < EndTime
ASSUME BoundsAssumption ==
  WrongPenalty \in Nat /\ MaxRows \in Nat /\ MaxFaults \in Nat

VARIABLES
  rows,     \* table solution, in the order of solution_id
  problem,  \* accepted, submit, solved and submit_user of table problem,
  contest,  \* and of table contest_problem
  user,     \* submit and solved of table users
  attend,   \* the rows of table attend
  job,      \* the result that is being written, and the locals on the way
  pc,       \* the function that is called next
  faults,   \* faults so far
  counted,  \* history: the pairs <<user, problem>> whose counters were last
            \* written in full, and whose rows have not been touched since
  placed    \* history: the same of their columns in table attend

history == <<counted, placed>>
tables == <<problem, contest, user, attend>>
vars == <<rows, tables, job, pc, faults, history>>

(* Verdicts are the numbers of judge_def.h; their order matters.           *)
V_Q == 1
V_C == 2
V_AC == 5
V_SK == 15

Pairs == Users \X Problems
Times == Dates \cup {StartTime, EndTime}
Ids == DOMAIN rows

-----------------------------------------------------------------------------
(* The queries.                                                            *)

OfProblem(p) == {i \in Ids : rows[i].problem = p}
OfUser(u) == {i \in Ids : rows[i].user = u}
Of(u, p) == OfUser(u) \cap OfProblem(p)
With(ids, v) == {i \in ids : rows[i].verdict = v}
Between(ids, s, e) == {i \in ids : s <= rows[i].time /\ rows[i].time <= e}
UsersOf(ids) == {rows[i].user : i \in ids}
ProblemsOf(ids) == {rows[i].problem : i \in ids}

(* Mutant: the times of the contest are not asked for.                     *)
FirstACEver(u, p, s, e) ==
  LET accepted == With(Of(u, p), V_AC) IN
  IF accepted = {} THEN {} ELSE {rows[Min(accepted)].time}

(* Mutant: the row with the highest id.                                    *)
LastAC(u, p, s, e) ==
  LET accepted == Between(With(Of(u, p), V_AC), s, e) IN
  IF accepted = {} THEN {} ELSE {rows[Max(accepted)].time}

(* SQL_getFirstACTime_contest: the row with the lowest id, if any.         *)
FirstAC(u, p, s, e) ==
  LET accepted == Between(With(Of(u, p), V_AC), s, e) IN
  IF accepted = {} THEN {} ELSE {rows[Min(accepted)].time}

(* The count for %s_wrongsubmits.                                          *)
WrongSubmits(u, p, s, e) ==
  Cardinality({i \in Between(Of(u, p), s, e) : rows[i].verdict > V_AC})

(* SQL_getContestScore.                                                    *)
SolvedIn(u, s, e) == ProblemsOf(Between(With(OfUser(u), V_AC), s, e))
Score(u, s, e) == SumFunctionOnSet(Points, SolvedIn(u, s, e))

(* The loop over SQL_getContestAttend in SQL_updateAttend_contest.         *)
PenaltyOf(a, read) ==
  SumFunction([p \in {q \in read : a.time[q] > 0} |-> a.time[p] + a.wrong[p] * WrongPenalty])

-----------------------------------------------------------------------------
(* Rows come from the website; the judge takes one (again) and has its     *)
(* verdict; an enqueue while judging is disabled skips one.                *)

Row(u, p, t) == [user |-> u, problem |-> p, time |-> t, verdict |-> V_Q]

(* submit_date is the clock of the website: it follows the order of ids.   *)
Submit(u, p, t) ==
  /\ Len(rows) < MaxRows
  /\ \A i \in Ids : rows[i].time <= t
  /\ rows' = Append(rows, Row(u, p, t))
  /\ UNCHANGED <<tables, job, pc, faults, history>>

NoJob == [row |-> 0, verdict |-> V_Q, ok |-> TRUE, start |-> StartTime, end |-> EndTime,
          until |-> EndTime, named |-> TRUE, running |-> FALSE]

(* judge_compile marks the row V_C; the judging ends with verdict v.       *)
Judge(i, v) ==
  /\ pc = "idle"
  /\ rows' = [rows EXCEPT ![i].verdict = V_C]
  /\ job' = [NoJob EXCEPT !.row = i, !.verdict = v]
  /\ pc' = "solution"
  /\ UNCHANGED <<tables, faults, history>>

Distrust(pair) == counted' = counted \ {pair} /\ placed' = placed \ {pair}

(* judge_request_enqueue with judging disabled.  No table follows.         *)
Skip(i) ==
  /\ faults < MaxFaults
  /\ faults' = faults + 1
  /\ rows' = [rows EXCEPT ![i].verdict = V_SK]
  /\ Distrust(<<rows[i].user, rows[i].problem>>)
  /\ job' = [job EXCEPT !.ok = @ /\ ~(pc # "idle" /\ i \in
                                       Of(rows[job.row].user, rows[job.row].problem))]
  /\ UNCHANGED <<tables, pc>>

-----------------------------------------------------------------------------
(* judge_solution_result_to_db, one step for each function it calls.       *)

JobUser == rows[job.row].user
JobProblem == rows[job.row].problem
JobPair == <<JobUser, JobProblem>>

(* The queries of failed go wrong: they are logged and not repeated.       *)
Goes(failed) ==
  /\ faults' = faults + Cardinality(failed)
  /\ faults' <= MaxFaults

Follows(from, to, failed) ==
  /\ pc = from /\ pc' = to
  /\ Goes(failed)
  /\ job' = [job EXCEPT !.ok = @ /\ failed = {}]
  /\ UNCHANGED history

(* SQL_updateSolution.                                                     *)
UpdateSolution ==
  \E failed \in SUBSET {"verdict"} :
    /\ Follows("solution", "problem", failed)
    /\ rows' = IF failed = {} THEN [rows EXCEPT ![job.row].verdict = job.verdict] ELSE rows
    /\ UNCHANGED tables

(* Mutant: solved counts rows, not users.                                  *)
ProblemCountsRows(p) ==
  [accepted |-> Cardinality(With(OfProblem(p), V_AC)),
   submit |-> Cardinality(OfProblem(p)),
   solved |-> Cardinality(With(OfProblem(p), V_AC)),
   submit_user |-> Cardinality(UsersOf(OfProblem(p)))]

ProblemCounts(p) ==
  [accepted |-> Cardinality(With(OfProblem(p), V_AC)),
   submit |-> Cardinality(OfProblem(p)),
   solved |-> Cardinality(UsersOf(With(OfProblem(p), V_AC))),
   submit_user |-> Cardinality(UsersOf(OfProblem(p)))]

UserCounts(u) ==
  [submit |-> Cardinality(OfUser(u)),
   solved |-> Cardinality(ProblemsOf(With(OfUser(u), V_AC)))]

(* The columns outside failed are the new ones.                            *)
Set(old, new, failed) == [c \in DOMAIN old |-> IF c \in failed THEN old[c] ELSE new[c]]

(* SQL_updateProblem.                                                      *)
UpdateProblem ==
  \E failed \in SUBSET {"accepted", "submit", "solved", "submit_user"} :
    /\ Follows("problem", "user", failed)
    /\ problem' = [problem EXCEPT ![JobProblem] = Set(@, ProblemCounts(JobProblem), failed)]
    /\ UNCHANGED <<rows, contest, user, attend>>

(* SQL_updateUser.                                                         *)
UpdateUser ==
  \E failed \in SUBSET {"submit", "solved"} :
    /\ Follows("user", "contest", failed)
    /\ user' = [user EXCEPT ![JobUser] = Set(@, UserCounts(JobUser), failed)]
    /\ UNCHANGED <<rows, problem, contest, attend>>

(* SQL_updateContest: the column of the problem and the times of the       *)
(* contest.  A query that fails leaves the times what the stack held, and  *)
(* without the letter of the problem its columns have no name.             *)
UpdateContest ==
  \E failed \in SUBSET {"num", "times"} :
  \E s \in Times, e \in Times :
    /\ "times" \notin failed => s = StartTime /\ e = EndTime
    /\ pc = "contest" /\ Goes(failed)
    /\ IF e > rows[job.row].time
       THEN /\ pc' = "time"
            /\ job' = [job EXCEPT !.ok = @ /\ failed = {}, !.named = "num" \notin failed,
                                  !.running = TRUE,
                                  !.start = s, !.end = e]
       ELSE /\ pc' = "contest_problem"
            /\ job' = [job EXCEPT !.ok = @ /\ failed = {}]
    /\ UNCHANGED <<rows, tables, history>>

(* SQL_updateAttend_contest: the time of the first acceptance, which also  *)
(* ends the count of wrong submissions,                                    *)
AttendTime ==
  \E failed \in SUBSET {"first", "update"} :
    /\ pc = "time" /\ pc' = "totals"
    /\ Goes(failed)
    /\ LET first == IF "first" \in failed THEN {}
                    ELSE FirstAC(JobUser, JobProblem, job.start, job.end)
           until == IF first = {} THEN job.end ELSE Min(first)
       IN
       /\ job' = [job EXCEPT !.ok = @ /\ failed = {}, !.until = until]
       /\ attend' = IF "update" \in failed \/ ~job.named THEN attend
                    ELSE [attend EXCEPT ![JobUser].time[JobProblem] =
                            IF first = {} THEN 0 ELSE until - job.start]
    /\ UNCHANGED <<rows, problem, contest, user, history>>

(* the totals, where a failed count of the score counts as no score,       *)
AttendTotals ==
  \E failed \in SUBSET {"score", "update"} :
    /\ Follows("totals", "penalty", failed)
    /\ LET u == JobUser
           score == IF "score" \in failed THEN 0 ELSE Score(u, job.start, job.end)
           solved == Cardinality(SolvedIn(u, job.start, job.end))
           wrong == WrongSubmits(u, JobProblem, job.start, job.until)
       IN attend' = IF "update" \in failed \/ ~job.named THEN attend
                    ELSE [attend EXCEPT ![u].solved = solved, ![u].score = score,
                                        ![u].wrong[JobProblem] = wrong]
    /\ UNCHANGED <<rows, problem, contest, user>>

(* and the penalty, read back from the columns: a problem whose columns    *)
(* cannot be read adds nothing, and without the number of problems none    *)
(* does.                                                                   *)
AttendPenalty ==
  \E failed \in SUBSET (Problems \cup {"count", "update"}) :
    /\ Follows("penalty", "contest_problem", failed)
    /\ LET read == IF "count" \in failed THEN {} ELSE Problems \ failed IN
       attend' = IF "update" \in failed THEN attend
                 ELSE [attend EXCEPT ![JobUser].penalty = PenaltyOf(attend[JobUser], read)]
    /\ UNCHANGED <<rows, problem, contest, user>>

(* SQL_updateProblem_contest.  Its accepted and solved count the rows      *)
(* whose problem_id is V_AC and whose verdict is the problem: there are    *)
(* none, ids start far above the verdicts.  The result is written.         *)
UpdateContestProblem ==
  \E failed \in SUBSET {"accepted", "submit", "solved", "submit_user"} :
    /\ pc = "contest_problem" /\ pc' = "idle"
    /\ Goes(failed)
    /\ job' = NoJob
    /\ IF job.ok /\ failed = {}
       THEN /\ counted' = counted \cup {JobPair}
            /\ placed' = IF job.running THEN placed \cup {JobPair} ELSE placed
       ELSE Distrust(JobPair)
    /\ LET counts == [ProblemCounts(JobProblem) EXCEPT !.accepted = 0, !.solved = 0] IN
       contest' = [contest EXCEPT ![JobProblem] = Set(@, counts, failed)]
    /\ UNCHANGED <<rows, problem, user, attend>>

(* The judge dies; its queue and this result are gone.                     *)
Crash ==
  /\ pc # "idle" /\ faults < MaxFaults
  /\ faults' = faults + 1
  /\ pc' = "idle" /\ job' = NoJob
  /\ Distrust(JobPair)
  /\ UNCHANGED <<rows, tables>>

-----------------------------------------------------------------------------

NoStanding == [time |-> [p \in Problems |-> 0], wrong |-> [p \in Problems |-> 0],
               solved |-> 0, score |-> 0, penalty |-> 0]

Init ==
  /\ rows = <<>>
  /\ problem = [p \in Problems |-> ProblemCounts(p)]
  /\ contest = problem
  /\ user = [u \in Users |-> UserCounts(u)]
  /\ attend = [u \in Users |-> NoStanding]
  /\ job = NoJob /\ pc = "idle" /\ faults = 0
  /\ counted = Pairs /\ placed = Pairs

Next ==
  \/ \E u \in Users, p \in Problems, t \in Dates : Submit(u, p, t)
  \/ \E i \in Ids, v \in Results : Judge(i, v)
  \/ \E i \in Ids : Skip(i)
  \/ UpdateSolution \/ UpdateProblem \/ UpdateUser \/ UpdateContest
  \/ AttendTime \/ AttendTotals \/ AttendPenalty \/ UpdateContestProblem
  \/ Crash

Spec == Init /\ [][Next]_vars
-----------------------------------------------------------------------------
(* Properties.                                                             *)

TypeOK ==
  /\ rows \in Seq([user : Users, problem : Problems, time : Dates,
                   verdict : {V_Q, V_C, V_SK} \cup Results])
  /\ Len(rows) <= MaxRows
  /\ {problem, contest} \subseteq
       [Problems -> [accepted : Nat, submit : Nat, solved : Nat, submit_user : Nat]]
  /\ user \in [Users -> [submit : Nat, solved : Nat]]
  /\ attend \in [Users -> [time : [Problems -> Nat], wrong : [Problems -> Nat],
                           solved : Nat, score : Nat, penalty : Nat]]
  /\ job \in [row : 0 .. MaxRows, verdict : {V_Q} \cup Results, ok : BOOLEAN,
              start : Times, end : Times, until : Times, named : BOOLEAN, running : BOOLEAN]
  /\ pc \in {"idle", "solution", "problem", "user", "contest", "time", "totals",
             "penalty", "contest_problem"}
  /\ faults \in 0 .. MaxFaults
  /\ counted \subseteq Pairs /\ placed \subseteq Pairs

(* No result of this user, or on this problem, is being written.           *)
UserQuiet(u) == pc = "idle" \/ JobUser # u
ProblemQuiet(p) == pc = "idle" \/ JobProblem # p

(* The standing the rules of a contest give: a problem counts from its     *)
(* first acceptance in time, and costs that time and a fine for each wrong *)
(* submission until then.                                                  *)
AcceptedAt(u, p) ==
  {t \in StartTime .. EndTime : \E i \in Of(u, p) : rows[i].verdict = V_AC /\ rows[i].time = t}
Standing(u) ==
  LET solved == {p \in Problems : AcceptedAt(u, p) # {}}
      until == [p \in Problems |-> IF p \in solved THEN Min(AcceptedAt(u, p)) ELSE EndTime]
      wrong == [p \in Problems |->
                  Cardinality({i \in Of(u, p) : rows[i].verdict > V_AC
                                 /\ rows[i].time \in StartTime .. until[p]})]
  IN [time |-> [p \in Problems |-> IF p \in solved THEN until[p] - StartTime ELSE 0],
      wrong |-> wrong,
      solved |-> Cardinality(solved),
      score |-> SumFunctionOnSet(Points, solved),
      penalty |-> SumFunction([p \in {q \in solved : until[q] > StartTime} |->
                                 until[p] - StartTime + wrong[p] * WrongPenalty])]

(* The standing of a user is the one the rows give, whatever was rejudged  *)
(* in whatever order, and again after failed queries, crashes and skipped  *)
(* rows once each problem they hit has been judged in full, for a row      *)
(* submitted before the end.  It takes that no row carries the very second *)
(* the contest ends: the queries count it and SQL_updateContest does not   *)
(* ask for them.                                                           *)
StandingsRight ==
  \A u \in Users :
    /\ UserQuiet(u)
    /\ \A p \in Problems : <<u, p>> \in placed
    /\ \A i \in OfUser(u) : rows[i].time # EndTime
    => attend[u] = Standing(u)

(* The counters of a problem and of a user are those of the rows; rows     *)
(* that wait for their first judging are not in them yet.                  *)
Waiting(ids) == With(ids, V_Q) # {}
CountersRight ==
  /\ \A p \in Problems :
       ProblemQuiet(p) /\ (\A u \in Users : <<u, p>> \in counted) =>
         LET solvers == {u \in Users : \E i \in Of(u, p) : rows[i].verdict = V_AC}
             triers == {u \in Users : Of(u, p) # {}}
         IN /\ problem[p].accepted = Cardinality({i \in OfProblem(p) : rows[i].verdict = V_AC})
            /\ problem[p].solved = Cardinality(solvers)
            /\ Waiting(OfProblem(p))
                 \/ \A t \in {problem, contest} :
                      /\ t[p].submit = Cardinality(OfProblem(p))
                      /\ t[p].submit_user = Cardinality(triers)
  /\ \A u \in Users :
       UserQuiet(u) /\ (\A p \in Problems : <<u, p>> \in counted) =>
         LET solved == {p \in Problems : \E i \in Of(u, p) : rows[i].verdict = V_AC}
         IN /\ user[u].solved = Cardinality(solved)
            /\ Waiting(OfUser(u)) \/ user[u].submit = Cardinality(OfUser(u))
=============================================================================
