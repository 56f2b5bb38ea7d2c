------------------------- MODULE JudgeSuiteProofs -------------------------
(***************************************************************************)
(* Proofs about the judging of a suite, for every number of cases, limit   *)
(* and sets of times and sizes, and any number of commands and faults.     *)
(***************************************************************************)
EXTENDS JudgeSuite, TLAPS

(* The last element of an Append and the others.                           *)
LEMMA AppendFacts ==
  ASSUME NEW S, NEW s \in Seq(S), NEW e \in S
  PROVE  /\ Append(s, e) \in Seq(S) /\ Len(Append(s, e)) = Len(s) + 1
         /\ Append(s, e)[Len(s) + 1] = e
         /\ \A i \in 1 .. Len(s) : Append(s, e)[i] = s[i]
         /\ DOMAIN Append(s, e) = 1 .. Len(s) + 1 /\ DOMAIN s = 1 .. Len(s)
         /\ Len(s) \in Nat
OBVIOUS

(* The empty sequence.                                                     *)
LEMMA EmptyFacts ==
  ASSUME NEW S PROVE <<>> \in Seq(S) /\ Len(<<>>) = 0 /\ DOMAIN <<>> = {}
OBVIOUS

(* The rounding of a case's time to 10 ms gives a time.                    *)
LEMMA Rounded == \A n \in Nat : n - (n % 10) \in Nat
OBVIOUS

-----------------------------------------------------------------------------
(* Types.                                                                  *)

(* The initial states are well typed.                                      *)
LEMMA TypeInit == Init => TypeOK
<1> SUFFICES ASSUME Init PROVE TypeOK
  OBVIOUS
<1>1. caseNum \in Nat /\ caseNum \in CaseNums \cup {1}
  BY CasesAssumption DEF Init
<1>2. run \in Runs /\ files \in Files /\ time \in Usage /\ memory \in Usage
  BY DEF Init, NoRun, Runs, Statuses, Files, Outputs, Usage
<1>3. results \in Seq(Results) /\ published \in Seq(Results) /\ judged \in Seq(Judged)
  BY EmptyFacts DEF Init
<1>4. switches \in 0 .. MaxSwitches /\ faults \in 0 .. MaxFaults /\ refused \in 0 .. MaxRefused
  BY BoundsAssumption DEF Init
<1> QED
  BY <1>1, <1>2, <1>3, <1>4 DEF Init, TypeOK, CaseVerdicts, Before, InCase

(* The checks give well-typed values.                                      *)
LEMMA CheckTypes ==
  ASSUME TypeOK, NEW end \in SpjEnds \cup {"none"}, kind = "submit" /\ special => end \in SpjEnds
  PROVE  /\ MemoryCheck \in Usage /\ TimeCheck \in Usage
         /\ Verdict(end) \in CaseVerdicts
<1>1. /\ time.used \in Nat /\ time.cur \in Nat /\ memory.used \in Nat /\ memory.cur \in Nat
      /\ run.time \in Nat /\ run.mem \in Nat /\ TimeLimit \in Nat /\ MemoryLimit \in Nat
  BY LimitsAssumption DEF TypeOK, Usage, Runs
<1>2. MemoryCur \in Nat /\ Larger(memory.used, run.mem) \in Nat
  BY <1>1 DEF MemoryCur, Larger
<1>3. MemoryCheck \in Usage
  BY <1>1, <1>2 DEF MemoryCheck, Usage
<1>4. TimeUsed \in Nat
  BY <1>1 DEF TimeUsed, Larger
<1>5. TimeCheck \in Usage
  BY <1>1, <1>4 DEF TimeCheck, Usage, Smaller
<1>6. ExitCheck \in CaseVerdicts
  <2>1. verdictId \in CaseVerdicts
    BY DEF TypeOK
  <2>2. CASE run.status = "SIGKILL"
    BY <2>2, Zenon DEF ExitCheck, CaseVerdicts
  <2>3. CASE run.status = "SIGXFSZ"
    BY <2>3 DEF ExitCheck, CaseVerdicts
  <2>4. CASE run.status # "SIGKILL" /\ run.status # "SIGXFSZ"
    BY <2>1, <2>4 DEF ExitCheck, CaseVerdicts
  <2> QED
    BY <2>2, <2>3, <2>4
<1>7. Compare \in CaseVerdicts
  BY DataAssumption DEF TypeOK, Files, Outputs, Compare, CaseVerdicts
<1>8. SpecialJudge(end) \in CaseVerdicts
  BY DEF SpecialJudge, CaseVerdicts
<1>9. AnswerCheck(end) \in CaseVerdicts
  BY <1>7, <1>8 DEF AnswerCheck, CaseVerdicts, TypeOK
<1>10. Verdict(end) \in CaseVerdicts
  BY <1>6, <1>9 DEF Verdict, CaseVerdicts
<1> QED
  BY <1>3, <1>5, <1>10

(* The number of cases is a number.                                        *)
LEMMA CaseNumType == TypeOK => caseNum \in Nat /\ testcase \in Nat
BY CasesAssumption DEF TypeOK

(* The head of the loop starts a case and removes its output.              *)
LEMMA PrepareTypes ==
  ASSUME TypeOK, Prepare, pc' \in {"run", "save"}
  PROVE  /\ testcase' \in 0 .. caseNum' /\ failcase' \in 0 .. Before'
         /\ files' \in Files
<1>1. caseNum \in Nat /\ testcase \in Nat /\ testcase < caseNum /\ testcase' = testcase + 1
  BY CaseNumType DEF Prepare
<1>2. failcase' \in 0 .. testcase
  BY <1>1 DEF Prepare, TypeOK, Before, InCase
<1>3. Before' = testcase
  BY <1>1 DEF Before, InCase
<1>4. files' \in Files
  BY DEF Prepare, TypeOK, Files, Outputs
<1> QED
  BY <1>1, <1>2, <1>3, <1>4 DEF Prepare, submission

(* An update of the json result writes the list or costs a refusal.        *)
LEMMA PublishTypes ==
  ASSUME TypeOK, NEW list \in Seq(Results), Publish(list)
  PROVE  published' \in Seq(Results) /\ refused' \in 0 .. MaxRefused
BY BoundsAssumption DEF Publish, TypeOK

(* Every step keeps the types.                                             *)
LEMMA TypeStep == ASSUME TypeOK, [Next]_vars PROVE TypeOK'
<1> USE DEF submission, settings, counters, execution, usage, report
<1> USE CaseNumType DEF InCase, Before
<1> DEFINE Rest == UNCHANGED <<settings, switches>>
<1>1. CASE CaseReady /\ Rest
  <2>1. testcase' \in 0 .. caseNum' /\ failcase' \in 0 .. Before' /\ files' \in Files
    BY <1>1, PrepareTypes DEF CaseReady, InCase
  <2> QED
    BY <1>1, <2>1 DEF CaseReady, Prepare, TypeOK, CaseVerdicts
<1>2. CASE CaseLost /\ Rest
  <2>1. testcase' \in 0 .. caseNum' /\ failcase' \in 0 .. Before' /\ files' \in Files
    BY <1>2, PrepareTypes DEF CaseLost, InCase
  <2>2. Case("none", files', "none", "V_SE") \in Judged
    BY <2>1 DEF TypeOK, Case, Judged, CaseVerdicts
  <2>3. judged' \in Seq(Judged)
    BY <1>2, <2>2, AppendFacts DEF CaseLost, TypeOK
  <2>4. faults' \in 0 .. MaxFaults
    BY <1>2, BoundsAssumption DEF CaseLost, TypeOK
  <2> QED
    BY <1>2, <2>1, <2>3, <2>4 DEF CaseLost, Prepare, TypeOK, CaseVerdicts
<1>3. CASE ProgramRuns /\ Rest
  <2>1. PICK became \in {"ended", "crashed"}, t \in Times, m \in Mems, out \in Outs, err \in BOOLEAN :
          /\ Execute(became, [status |-> "SIGCHLD", time |-> t, mem |-> m], [out |-> out, err |-> err])
          /\ UNCHANGED faults
    BY <1>3 DEF ProgramRuns
  <2>2. [status |-> "SIGCHLD", time |-> t, mem |-> m] \in Runs /\ [out |-> out, err |-> err] \in Files
    BY LimitsAssumption DEF Runs, Statuses, Files, Outputs
  <2> QED
    BY <1>3, <2>1, <2>2 DEF Execute, TypeOK
<1>4. CASE ForkFails /\ Rest
  <2>1. faults' \in 0 .. MaxFaults
    BY <1>4, BoundsAssumption DEF ForkFails, TypeOK
  <2> QED
    BY <1>4, <2>1 DEF ForkFails, Execute, TypeOK
<1>5. CASE ChildFails /\ Rest
  <2>1. PICK status \in Statuses \ {"SIGCHLD"}, m \in Mems :
          Execute("none", [status |-> status, time |-> 0, mem |-> m], files)
    BY <1>5 DEF ChildFails
  <2>2. [status |-> status, time |-> 0, mem |-> m] \in Runs
    BY LimitsAssumption DEF Runs
  <2>3. faults' \in 0 .. MaxFaults
    BY <1>5, BoundsAssumption DEF ChildFails, TypeOK
  <2> QED
    BY <1>5, <2>1, <2>2, <2>3 DEF Execute, TypeOK
<1>6. CASE Check /\ Rest
  <2>1. PICK end \in (IF kind = "submit" /\ special THEN SpjEnds ELSE {"none"}) :
          /\ verdictId' = Verdict(end)
          /\ judged' = Append(judged, Case(program, files, end, Verdict(end)))
    BY <1>6 DEF Check
  <2>2. end \in SpjEnds \cup {"none"} /\ (kind = "submit" /\ special => end \in SpjEnds)
    OBVIOUS
  <2>3. MemoryCheck \in Usage /\ TimeCheck \in Usage /\ Verdict(end) \in CaseVerdicts
    BY <2>2, CheckTypes
  <2>4. Case(program, files, end, Verdict(end)) \in Judged
    BY <2>2, <2>3 DEF TypeOK, Case, Judged
  <2>5. judged' \in Seq(Judged)
    BY <2>1, <2>4, AppendFacts DEF TypeOK
  <2>6. memory' \in Usage /\ time' \in Usage
    BY <1>6, <2>3 DEF Check, TypeOK
  <2> QED
    BY <1>6, <2>1, <2>3, <2>5, <2>6 DEF Check, TypeOK
<1>7. CASE Save /\ Rest
  <2>1. Result \in Results
    <3>1. testcase \in Nat /\ time.cur \in Nat /\ memory.cur \in Nat /\ verdictId \in CaseVerdicts
      BY CaseNumType DEF TypeOK, Usage
    <3>2. time.cur - (time.cur % 10) \in Nat
      BY <3>1, Rounded
    <3> QED
      BY <3>1, <3>2 DEF Result, Results
  <2>2. Append(results, Result) \in Seq(Results)
    BY <2>1, AppendFacts DEF TypeOK
  <2>3. results' \in Seq(Results) /\ published' \in Seq(Results) /\ refused' \in 0 .. MaxRefused
    BY <1>7, <2>2, PublishTypes DEF Save, TypeOK
  <2> QED
    BY <1>7, <2>3 DEF Save, TypeOK
<1>8. CASE Advance /\ Rest
  <2>1. failcase' \in 0 .. Before'
    BY <1>8, CaseNumType DEF Advance, TypeOK, Before, InCase
  <2> QED
    BY <1>8, <2>1 DEF Advance, TypeOK
<1>9. CASE LoopEnds /\ Rest
  BY <1>9 DEF LoopEnds, TypeOK
<1>10. CASE Teardown /\ Rest
  <2>1. results' \in Seq(Results) /\ published' \in Seq(Results) /\ refused' \in 0 .. MaxRefused
    BY <1>10, EmptyFacts, PublishTypes DEF Teardown, TypeOK
  <2>2. verdictId' \in CaseVerdicts
    BY <1>10 DEF Teardown, TypeOK, CaseVerdicts
  <2> QED
    BY <1>10, <2>1, <2>2 DEF Teardown, TypeOK
<1>11. CASE Operator
  <2>1. mode' \in {"ACM", "OI"} /\ ignoreSpace' \in BOOLEAN
    BY <1>11 DEF Operator, SetMode, SetSpace, TypeOK
  <2>2. switches' \in 0 .. MaxSwitches /\ UNCHANGED suiteVars
    BY <1>11, BoundsAssumption DEF Operator, SetMode, SetSpace, Command, TypeOK
  <2> QED
    BY <2>1, <2>2 DEF suiteVars, TypeOK
<1>12. CASE UNCHANGED vars
  BY <1>12 DEF vars, suiteVars, TypeOK
<1> QED
  BY <1>1, <1>2, <1>3, <1>4, <1>5, <1>6, <1>7, <1>8, <1>9, <1>10, <1>11, <1>12
     DEF Next, Judging

(* The types hold of every reachable state.                                *)
THEOREM TypeCorrect == Spec => []TypeOK
<1>1. TypeOK /\ [Next]_vars => TypeOK'
  BY TypeStep
<1> QED
  BY TypeInit, <1>1, PTL DEF Spec

-----------------------------------------------------------------------------
(* What the actions do to the history.                                     *)

(* Only two actions write the history or the usages.                       *)
LEMMA HistoryFrame ==
  ASSUME [Next]_vars
  PROVE  /\ UNCHANGED submission
         /\ \/ CaseLost \/ Check
            \/ UNCHANGED <<judged, time, memory>>
<1> USE DEF submission, usage, execution, report, counters
<1>1. CASE Operator
  BY <1>1 DEF Operator, SetMode, SetSpace, Command, suiteVars
<1>2. CASE UNCHANGED vars
  BY <1>2 DEF vars, suiteVars
<1>3. CASE CaseReady \/ CaseLost
  BY <1>3 DEF CaseReady, CaseLost, Prepare
<1>4. CASE ProgramRuns \/ ForkFails \/ ChildFails
  BY <1>4 DEF ProgramRuns, ForkFails, ChildFails, Execute
<1>5. CASE Check \/ Save \/ Advance
  BY <1>5 DEF Check, Save, Advance
<1>6. CASE LoopEnds \/ Teardown
  BY <1>6 DEF LoopEnds, Teardown
<1> QED
  BY <1>1, <1>2, <1>3, <1>4, <1>5, <1>6 DEF Next, Judging

(* What the two of them add to the history: one case, that of testcase.    *)
LEMMA HistoryGrows ==
  ASSUME TypeOK, TypeOK', Positions, NEW c, judged' = Append(judged, c), c \in Judged,
         Len(judged) + 1 = testcase'
  PROVE  /\ Len(judged') = testcase' /\ judged'[testcase'] = c
         /\ DOMAIN judged' = 1 .. testcase' /\ DOMAIN judged = 1 .. testcase' - 1
         /\ \A i \in 1 .. testcase' - 1 : judged'[i] = judged[i]
         /\ \A i \in DOMAIN judged' : i # testcase' => i \in DOMAIN judged /\ judged'[i] = judged[i]
         /\ testcase' \in Nat
<1>1. judged \in Seq(Judged)
  BY DEF TypeOK
<1>2. Len(judged) \in Nat
  BY <1>1, AppendFacts
<1>3. testcase' = Len(judged) + 1 /\ testcase' - 1 = Len(judged) /\ testcase' \in Nat
  BY <1>2
<1> HIDE DEF TypeOK, Positions
<1>4. /\ Len(judged') = testcase' /\ judged'[testcase'] = c
      /\ DOMAIN judged' = 1 .. testcase' /\ DOMAIN judged = 1 .. testcase' - 1
      /\ \A i \in 1 .. testcase' - 1 : judged'[i] = judged[i]
  BY <1>1, <1>3, AppendFacts
<1>5. \A n \in Nat : \A i \in 1 .. n : i # n => i \in 1 .. n - 1
  OBVIOUS
<1> QED
  BY <1>3, <1>4, <1>5

(* The case that cannot be prepared fails.                                 *)
LEMMA LostCase ==
  ASSUME TypeOK, Positions, CaseLost
  PROVE  \E c \in Judged :
           /\ judged' = Append(judged, c) /\ c.verdict = "V_SE" /\ verdictId' = "V_SE"
           /\ Len(judged) + 1 = testcase' /\ pc' = "save" /\ UNCHANGED usage
<1> DEFINE c == Case("none", files', "none", "V_SE")
<1>1. files' \in Files
  BY PrepareTypes DEF CaseLost
<1>2. c \in Judged /\ c.verdict = "V_SE"
  BY <1>1 DEF TypeOK, Case, Judged, CaseVerdicts
<1>3. Len(judged) + 1 = testcase'
  BY DEF CaseLost, Prepare, Positions
<1> HIDE DEF c
<1>4. judged' = Append(judged, c)
  BY DEF CaseLost, c
<1> QED
  BY <1>2, <1>3, <1>4 DEF CaseLost, Prepare

(* The case that is checked gets the verdict of the checks.                *)
LEMMA CheckedCase ==
  ASSUME TypeOK, Positions, Check
  PROVE  \E end \in SpjEnds \cup {"none"} :
           LET c == Case(program, files, end, Verdict(end)) IN
             /\ c \in Judged /\ judged' = Append(judged, c)
             /\ verdictId' = Verdict(end) /\ c.verdict = Verdict(end)
             /\ c.run = run /\ c.files = files /\ c.program = program /\ c.lenient = ignoreSpace
             /\ Len(judged) + 1 = testcase' /\ testcase' = testcase /\ pc' = "save"
<1>1. PICK end \in (IF kind = "submit" /\ special THEN SpjEnds ELSE {"none"}) :
          /\ verdictId' = Verdict(end)
          /\ judged' = Append(judged, Case(program, files, end, Verdict(end)))
  BY DEF Check
<1>2. end \in SpjEnds \cup {"none"} /\ (kind = "submit" /\ special => end \in SpjEnds)
  OBVIOUS
<1>3. Verdict(end) \in CaseVerdicts
  BY <1>2, CheckTypes
<1>4. Case(program, files, end, Verdict(end)) \in Judged
  BY <1>2, <1>3 DEF TypeOK, Case, Judged
<1>5. Len(judged) + 1 = testcase' /\ testcase' = testcase /\ pc' = "save"
  BY CaseNumType DEF Check, Positions, counters
<1> QED
  BY <1>1, <1>2, <1>4, <1>5 DEF Case

-----------------------------------------------------------------------------
(* What the verdicts of the checks mean.                                   *)

(* The numbers the checks compare.                                         *)
LEMMA UsageTypes ==
  TypeOK => /\ time.used \in Nat /\ memory.used \in Nat /\ memory.cur \in Nat
            /\ run.time \in Nat /\ run.mem \in Nat /\ TimeLimit \in Nat /\ MemoryLimit \in Nat
BY LimitsAssumption DEF TypeOK, Usage, Runs

(* The exit check lets V_AC through only for a child that no signal ended  *)
(* and a suite inside the memory limit.                                    *)
LEMMA ExitMeans ==
  ASSUME verdictId = "V_AC"
  PROVE  /\ ExitCheck = "V_AC" => run.status \notin {"SIGKILL", "SIGXFSZ"} /\ ~MemoryOver
         /\ ExitCheck = "V_MLE" => MemoryOver
         /\ ExitCheck # "V_TLE"
<1>1. CASE run.status = "SIGKILL"
  BY <1>1 DEF ExitCheck
<1>2. CASE run.status = "SIGXFSZ"
  BY <1>2 DEF ExitCheck
<1>3. CASE run.status # "SIGKILL" /\ run.status # "SIGXFSZ"
  BY <1>3 DEF ExitCheck
<1> QED
  BY <1>1, <1>2, <1>3

(* The answer of a submission is a verdict on its output.                  *)
LEMMA AnswerMeans ==
  ASSUME TypeOK, verdictId = "V_AC", NEW end
  PROVE  AnswerCheck(end) \notin {"V_TLE", "V_MLE"}
<1>1. Compare \notin {"V_TLE", "V_MLE"}
  BY DataAssumption DEF TypeOK, Files, Outputs, Compare
<1>2. SpecialJudge(end) \notin {"V_TLE", "V_MLE"}
  BY DEF SpecialJudge
<1> QED
  BY <1>1, <1>2 DEF AnswerCheck

(* What the verdict of a case says of the limits.                          *)
LEMMA VerdictMeans ==
  ASSUME TypeOK, verdictId = "V_AC", NEW end
  PROVE  /\ Verdict(end) = "V_AC" =>
              /\ ExitCheck = "V_AC" /\ ~TimeOver /\ ~MemoryOver /\ ~files.err
              /\ AnswerCheck(end) = "V_AC"
         /\ Verdict(end) = "V_TLE" => ExitCheck # "V_RE" /\ TimeOver
         /\ Verdict(end) = "V_MLE" => MemoryOver
BY ExitMeans, AnswerMeans DEF Verdict

(* A submission's case passes only when it has earned it.                  *)
LEMMA PassingCase ==
  ASSUME TypeOK, Positions, OutputsAreFresh, pc = "check", kind = "submit", ~special,
         NEW end, Verdict(end) = "V_AC"
  PROVE  /\ program # "none" /\ run.status = "SIGCHLD"
         /\ run.time < TimeLimit /\ run.mem <= MemoryLimit
         /\ ~files.err
         /\ files.out = "V_AC" \/ (ignoreSpace /\ files.out = "V_PE")
<1>1. verdictId = "V_AC"
  BY DEF Positions
<1>2. ~TimeOver /\ ~MemoryOver /\ ~files.err /\ AnswerCheck(end) = "V_AC"
  BY <1>1, VerdictMeans
<1>3. files.out = "V_AC" \/ (ignoreSpace /\ files.out = "V_PE")
  BY <1>2 DEF AnswerCheck, Compare
<1>4. program # "none" /\ run.status = "SIGCHLD"
  BY <1>3 DEF OutputsAreFresh
<1>5. run.time < TimeLimit
  BY <1>2, UsageTypes DEF TimeOver, TimeUsed, Larger
<1>6. run.mem <= MemoryLimit
  BY <1>2, UsageTypes DEF MemoryOver, MemoryCur, Larger
<1> QED
  BY <1>2, <1>3, <1>4, <1>5, <1>6

(* The usages after a check: they do not fall, stay within the limits,     *)
(* cover a case that passes, and tell a case over its limit.               *)
LEMMA UsageAfterCheck ==
  ASSUME TypeOK, Positions, UsageKept, Check, NEW end
  PROVE  /\ time'.used <= TimeLimit /\ time.used <= time'.used
         /\ memory'.used = Smaller(memory'.cur, MemoryLimit)
         /\ memory.used <= memory'.used /\ memory.cur <= memory'.cur
         /\ Verdict(end) = "V_AC" => run.time <= time'.used /\ run.mem <= memory'.used
         /\ Verdict(end) = "V_TLE" => time'.used = TimeLimit
         /\ Verdict(end) = "V_MLE" => memory'.cur > MemoryLimit
         /\ Verdict(end) = "V_AC" => time.used < TimeLimit /\ memory.cur <= MemoryLimit
<1>1. verdictId = "V_AC" /\ memory' = MemoryCheck
      /\ time' = IF ExitCheck = "V_RE" THEN time ELSE TimeCheck
  BY DEF Check, Positions
<1>2. time.used <= TimeLimit /\ memory.used = Smaller(memory.cur, MemoryLimit)
  BY DEF UsageKept
<1>3. /\ memory'.cur = Larger(memory.cur, run.mem)
      /\ memory'.used = Smaller(memory'.cur, MemoryLimit)
      /\ memory.used <= memory'.used /\ memory.cur <= memory'.cur
      /\ MemoryOver <=> memory'.cur > MemoryLimit
  <2>1. memory'.cur = Larger(memory.cur, run.mem) /\ (MemoryOver <=> memory'.cur > MemoryLimit)
    BY <1>1 DEF MemoryCheck, MemoryCur, MemoryOver
  <2>2. memory'.used = IF MemoryOver THEN MemoryLimit
                       ELSE IF memory.cur < run.mem THEN Larger(memory.used, run.mem)
                       ELSE memory.used
    BY <1>1 DEF MemoryCheck
  <2>3. memory'.used = Smaller(memory'.cur, MemoryLimit)
    BY <1>2, <2>1, <2>2, UsageTypes DEF Larger, Smaller
  <2>4. memory.used <= memory'.used /\ memory.cur <= memory'.cur
    BY <1>2, <2>1, <2>3, UsageTypes DEF Larger, Smaller
  <2> QED
    BY <2>1, <2>3, <2>4
<1>4. /\ time'.used <= TimeLimit /\ time.used <= time'.used
      /\ ExitCheck # "V_RE" => time'.used = Smaller(TimeUsed, TimeLimit)
  BY <1>1, <1>2, UsageTypes DEF TimeCheck, TimeUsed, Larger, Smaller
<1>5. ASSUME Verdict(end) = "V_AC"
      PROVE  /\ run.time <= time'.used /\ run.mem <= memory'.used
             /\ time.used < TimeLimit /\ memory.cur <= MemoryLimit
  <2>1. ExitCheck = "V_AC" /\ ~TimeOver /\ ~MemoryOver
    BY <1>1, <1>5, VerdictMeans
  <2>2. run.time <= time'.used /\ time.used < TimeLimit
    BY <1>4, <2>1, UsageTypes DEF TimeOver, TimeUsed, Larger, Smaller
  <2>3. run.mem <= memory'.used /\ memory.cur <= MemoryLimit
    BY <1>3, <2>1, UsageTypes DEF Larger, Smaller
  <2> QED
    BY <2>2, <2>3
<1>6. ASSUME Verdict(end) = "V_TLE" PROVE time'.used = TimeLimit
  <2>1. ExitCheck # "V_RE" /\ TimeOver
    BY <1>1, <1>6, VerdictMeans
  <2> QED
    BY <1>4, <2>1, UsageTypes DEF TimeOver, TimeUsed, Larger, Smaller
<1>7. ASSUME Verdict(end) = "V_MLE" PROVE memory'.cur > MemoryLimit
  BY <1>1, <1>3, <1>7, VerdictMeans
<1> QED
  BY <1>3, <1>4, <1>5, <1>6, <1>7

-----------------------------------------------------------------------------
(* Each part of the invariant, step by step.                               *)

(* A case passes only when it has earned it.                               *)
LEMMA EarnedStep ==
  ASSUME TypeOK, TypeOK', Positions, OutputsAreFresh, PassesEarned, [Next]_vars
  PROVE  PassesEarned'
<1>1. UNCHANGED <<kind, special>>
  BY HistoryFrame DEF submission
<1>2. SUFFICES ASSUME kind = "submit", ~special, NEW i \in DOMAIN judged', Passed(i)'
               PROVE  Earned(judged'[i])
  BY <1>1 DEF PassesEarned, Passed, Earned
<1>3. \A k \in DOMAIN judged : judged[k].verdict = "V_AC" => Earned(judged[k])
  BY <1>2 DEF PassesEarned, Passed
<1>4. judged'[i].verdict = "V_AC"
  BY <1>2 DEF Passed
<1>5. CASE UNCHANGED judged
  BY <1>3, <1>4, <1>5
<1>6. CASE CaseLost
  <2>1. PICK c \in Judged : /\ judged' = Append(judged, c) /\ c.verdict = "V_SE"
                            /\ Len(judged) + 1 = testcase'
    BY <1>6, LostCase
  <2>2. /\ judged'[testcase'] = c /\ DOMAIN judged' = 1 .. testcase'
        /\ DOMAIN judged = 1 .. testcase' - 1 /\ testcase' \in Nat
        /\ \A k \in DOMAIN judged' : k # testcase' => k \in DOMAIN judged /\ judged'[k] = judged[k]
    BY <2>1, HistoryGrows
  <2>3. i # testcase'
    BY <1>4, <2>1, <2>2
  <2>4. i \in DOMAIN judged /\ judged'[i] = judged[i]
    BY <2>2, <2>3
  <2> QED
    BY <1>3, <1>4, <2>4
<1>7. CASE Check
  <2>1. PICK end \in SpjEnds \cup {"none"} :
           LET c == Case(program, files, end, Verdict(end)) IN
             /\ c \in Judged /\ judged' = Append(judged, c)
             /\ verdictId' = Verdict(end) /\ c.verdict = Verdict(end)
             /\ c.run = run /\ c.files = files /\ c.program = program /\ c.lenient = ignoreSpace
             /\ Len(judged) + 1 = testcase' /\ testcase' = testcase /\ pc' = "save"
    BY <1>7, CheckedCase
  <2> DEFINE c == Case(program, files, end, Verdict(end))
  <2>2. c \in Judged /\ judged' = Append(judged, c) /\ c.verdict = Verdict(end)
        /\ c.run = run /\ c.files = files /\ c.program = program /\ c.lenient = ignoreSpace
        /\ Len(judged) + 1 = testcase'
    BY <2>1
  <2> HIDE DEF c
  <2>3. /\ judged'[testcase'] = c /\ DOMAIN judged' = 1 .. testcase'
        /\ DOMAIN judged = 1 .. testcase' - 1 /\ testcase' \in Nat
        /\ \A k \in DOMAIN judged' : k # testcase' => k \in DOMAIN judged /\ judged'[k] = judged[k]
    BY <2>2, HistoryGrows
  <2>4. CASE i = testcase'
    <3>1. Verdict(end) = "V_AC"
      BY <1>4, <2>2, <2>3, <2>4
    <3>2. /\ program # "none" /\ run.status = "SIGCHLD"
          /\ run.time < TimeLimit /\ run.mem <= MemoryLimit
          /\ ~files.err
          /\ files.out = "V_AC" \/ (ignoreSpace /\ files.out = "V_PE")
      BY <1>2, <1>7, <3>1, PassingCase DEF Check
    <3>3. Earned(c)
      BY <2>2, <3>2 DEF Earned
    <3> QED
      BY <2>3, <2>4, <3>3
  <2>5. CASE i # testcase'
    <3>1. i \in DOMAIN judged /\ judged'[i] = judged[i]
      BY <2>3, <2>5
    <3> QED
      BY <1>3, <1>4, <3>1
  <2> QED
    BY <2>4, <2>5
<1> QED
  BY <1>5, <1>6, <1>7, HistoryFrame

(* The usages stay within the limits and cover the cases that passed; and  *)
(* after a case over a limit none passes.                                  *)
LEMMA UsageStep ==
  ASSUME TypeOK, TypeOK', Positions, UsageKept, LimitsStick, [Next]_vars
  PROVE  UsageKept' /\ LimitsStick'
<1>1. /\ time.used <= TimeLimit /\ memory.used = Smaller(memory.cur, MemoryLimit)
      /\ \A k \in DOMAIN judged :
           /\ judged[k].verdict = "V_AC" =>
                judged[k].run.time <= time.used /\ judged[k].run.mem <= memory.used
           /\ judged[k].verdict = "V_TLE" => time.used = TimeLimit
           /\ judged[k].verdict = "V_MLE" => memory.cur > MemoryLimit
  BY DEF UsageKept, Passed
<1>2. \A k, j \in DOMAIN judged :
        k < j /\ judged[k].verdict \in {"V_TLE", "V_MLE"} => judged[j].verdict # "V_AC"
  BY DEF LimitsStick, Passed
<1>3. SUFFICES
        /\ time'.used <= TimeLimit /\ memory'.used = Smaller(memory'.cur, MemoryLimit)
        /\ \A k \in DOMAIN judged' :
             /\ judged'[k].verdict = "V_AC" =>
                  judged'[k].run.time <= time'.used /\ judged'[k].run.mem <= memory'.used
             /\ judged'[k].verdict = "V_TLE" => time'.used = TimeLimit
             /\ judged'[k].verdict = "V_MLE" => memory'.cur > MemoryLimit
        /\ \A k, j \in DOMAIN judged' :
             k < j /\ judged'[k].verdict \in {"V_TLE", "V_MLE"} => judged'[j].verdict # "V_AC"
  BY DEF UsageKept, LimitsStick, Passed, Smaller
<1>4. CASE UNCHANGED <<judged, time, memory>>
  BY <1>1, <1>2, <1>4
<1>5. CASE CaseLost
  <2>1. PICK c \in Judged : /\ judged' = Append(judged, c) /\ c.verdict = "V_SE"
                            /\ Len(judged) + 1 = testcase' /\ UNCHANGED usage
    BY <1>5, LostCase
  <2>2. /\ judged'[testcase'] = c /\ DOMAIN judged' = 1 .. testcase'
        /\ DOMAIN judged = 1 .. testcase' - 1 /\ testcase' \in Nat
        /\ \A k \in DOMAIN judged' : k # testcase' => k \in DOMAIN judged /\ judged'[k] = judged[k]
    BY <2>1, HistoryGrows
  <2>3. \A k \in DOMAIN judged' :
          IF k = testcase' THEN judged'[k].verdict = "V_SE"
          ELSE k \in DOMAIN judged /\ judged'[k] = judged[k]
    BY <2>1, <2>2
  <2>4. time' = time /\ memory' = memory
    BY <2>1 DEF usage
  <2> QED
    BY <1>1, <1>2, <2>2, <2>3, <2>4
<1>6. CASE Check
  <2>1. PICK end \in SpjEnds \cup {"none"} :
           LET c == Case(program, files, end, Verdict(end)) IN
             /\ c \in Judged /\ judged' = Append(judged, c)
             /\ verdictId' = Verdict(end) /\ c.verdict = Verdict(end)
             /\ c.run = run /\ c.files = files /\ c.program = program /\ c.lenient = ignoreSpace
             /\ Len(judged) + 1 = testcase' /\ testcase' = testcase /\ pc' = "save"
    BY <1>6, CheckedCase
  <2> DEFINE c == Case(program, files, end, Verdict(end))
  <2>2. c \in Judged /\ judged' = Append(judged, c) /\ c.verdict = Verdict(end)
        /\ c.run = run /\ Len(judged) + 1 = testcase'
    BY <2>1
  <2> HIDE DEF c
  <2>3. /\ judged'[testcase'] = c /\ DOMAIN judged' = 1 .. testcase'
        /\ DOMAIN judged = 1 .. testcase' - 1 /\ testcase' \in Nat
        /\ \A k \in DOMAIN judged' : k # testcase' => k \in DOMAIN judged /\ judged'[k] = judged[k]
    BY <2>2, HistoryGrows
  <2>4. /\ time'.used <= TimeLimit /\ time.used <= time'.used
        /\ memory'.used = Smaller(memory'.cur, MemoryLimit)
        /\ memory.used <= memory'.used /\ memory.cur <= memory'.cur
        /\ Verdict(end) = "V_AC" => run.time <= time'.used /\ run.mem <= memory'.used
        /\ Verdict(end) = "V_TLE" => time'.used = TimeLimit
        /\ Verdict(end) = "V_MLE" => memory'.cur > MemoryLimit
        /\ Verdict(end) = "V_AC" => time.used < TimeLimit /\ memory.cur <= MemoryLimit
    BY <1>6, UsageAfterCheck
  <2>5. /\ time.used \in Nat /\ time'.used \in Nat /\ memory.used \in Nat /\ memory'.used \in Nat
        /\ memory.cur \in Nat /\ memory'.cur \in Nat /\ TimeLimit \in Nat /\ MemoryLimit \in Nat
    BY LimitsAssumption DEF TypeOK, Usage
  <2>6. \A k \in DOMAIN judged : judged[k].run.time \in Nat /\ judged[k].run.mem \in Nat
    <3>1. judged \in Seq(Judged)
      BY DEF TypeOK
    <3>2. \A k \in DOMAIN judged : judged[k] \in Judged
      BY <3>1
    <3> QED
      BY <3>2 DEF Judged, Runs
  <2>7. ASSUME NEW k \in DOMAIN judged'
        PROVE  /\ judged'[k].verdict = "V_AC" =>
                    judged'[k].run.time <= time'.used /\ judged'[k].run.mem <= memory'.used
               /\ judged'[k].verdict = "V_TLE" => time'.used = TimeLimit
               /\ judged'[k].verdict = "V_MLE" => memory'.cur > MemoryLimit
    <3>1. CASE k = testcase'
      BY <2>2, <2>3, <2>4, <3>1
    <3>2. CASE k # testcase'
      <4>1. k \in DOMAIN judged /\ judged'[k] = judged[k]
        BY <2>3, <3>2
      <4>2. \A a, b, d \in Nat : a <= b /\ b <= d => a <= d
        OBVIOUS
      <4>3. \A a, b, d \in Nat : a > d /\ a <= b => b > d
        OBVIOUS
      <4>4. \A a, d \in Nat : a = d => \A b \in Nat : a <= b /\ b <= d => b = d
        OBVIOUS
      <4>5. ASSUME judged[k].verdict = "V_AC"
            PROVE  judged[k].run.time <= time'.used /\ judged[k].run.mem <= memory'.used
        <5>1. judged[k].run.time <= time.used /\ judged[k].run.mem <= memory.used
          BY <1>1, <4>1, <4>5
        <5> QED
          BY <2>4, <2>5, <2>6, <4>1, <4>2, <5>1
      <4>6. judged[k].verdict = "V_TLE" => time'.used = TimeLimit
        BY <1>1, <2>4, <2>5, <4>1, <4>4
      <4>7. judged[k].verdict = "V_MLE" => memory'.cur > MemoryLimit
        BY <1>1, <2>4, <2>5, <4>1, <4>3
      <4> QED
        BY <4>1, <4>5, <4>6, <4>7
    <3> QED
      BY <3>1, <3>2
  <2>8. ASSUME NEW k \in DOMAIN judged', NEW j \in DOMAIN judged', k < j,
               judged'[k].verdict \in {"V_TLE", "V_MLE"}
        PROVE  judged'[j].verdict # "V_AC"
    <3> DEFINE n == testcase'
    <3>0. n \in Nat /\ k \in 1 .. n /\ j \in 1 .. n /\ k < j
      BY <2>3, <2>8
    <3>5. k \in 1 .. n - 1
      <4> HIDE DEF n
      <4> QED
        BY <3>0
    <3>1. k \in DOMAIN judged /\ judged'[k] = judged[k]
      BY <2>3, <3>5
    <3>2. CASE j = testcase'
      <4>1. time.used = TimeLimit \/ memory.cur > MemoryLimit
        BY <1>1, <2>8, <3>1
      <4>2. ~(time.used < TimeLimit /\ memory.cur <= MemoryLimit)
        BY <2>5, <4>1
      <4>3. Verdict(end) # "V_AC"
        BY <2>4, <4>2
      <4> QED
        BY <2>2, <2>3, <3>2, <4>3
    <3>3. CASE j # testcase'
      <4>1. j \in DOMAIN judged /\ judged'[j] = judged[j]
        BY <2>3, <3>3
      <4> QED
        BY <1>2, <2>8, <3>1, <4>1
    <3> QED
      BY <3>2, <3>3
  <2> QED
    BY <2>4, <2>7, <2>8
<1> QED
  BY <1>4, <1>5, <1>6, HistoryFrame

(* The history follows the loop.                                           *)
LEMMA PositionsStep ==
  ASSUME TypeOK, TypeOK', Positions, [Next]_vars
  PROVE  Positions'
<1> USE CaseNumType DEF Positions, InCase, submission, counters, usage, execution, report
<1>1. CASE CaseReady
  BY <1>1 DEF CaseReady, Prepare
<1>2. CASE CaseLost
  <2>1. PICK c \in Judged : /\ judged' = Append(judged, c) /\ c.verdict = "V_SE" /\ verdictId' = "V_SE"
                            /\ Len(judged) + 1 = testcase' /\ pc' = "save"
    BY <1>2, LostCase
  <2>2. Len(judged') = testcase' /\ judged'[testcase'] = c
    BY <2>1, HistoryGrows
  <2>3. testcase' > 0
    BY <1>2 DEF CaseLost, Prepare
  <2> QED
    BY <2>1, <2>2, <2>3
<1>3. CASE Check
  <2>1. PICK end \in SpjEnds \cup {"none"} :
           LET c == Case(program, files, end, Verdict(end)) IN
             /\ c \in Judged /\ judged' = Append(judged, c)
             /\ verdictId' = Verdict(end) /\ c.verdict = Verdict(end)
             /\ c.run = run /\ c.files = files /\ c.program = program /\ c.lenient = ignoreSpace
             /\ Len(judged) + 1 = testcase' /\ testcase' = testcase /\ pc' = "save"
    BY <1>3, CheckedCase
  <2> DEFINE c == Case(program, files, end, Verdict(end))
  <2>2. c \in Judged /\ judged' = Append(judged, c) /\ c.verdict = verdictId'
        /\ Len(judged) + 1 = testcase' /\ testcase' = testcase /\ pc' = "save"
    BY <2>1
  <2> HIDE DEF c
  <2>3. Len(judged') = testcase' /\ judged'[testcase'] = c
    BY <2>2, HistoryGrows
  <2>4. testcase > 0
    BY <1>3 DEF Check
  <2> QED
    BY <2>2, <2>3, <2>4
<1>4. CASE ProgramRuns \/ ForkFails \/ ChildFails
  BY <1>4 DEF ProgramRuns, ForkFails, ChildFails, Execute
<1>5. CASE Save \/ Advance
  BY <1>5 DEF Save, Advance
<1>6. CASE LoopEnds \/ Teardown
  BY <1>6 DEF LoopEnds, Teardown
<1>7. CASE Operator \/ UNCHANGED vars
  <2>1. UNCHANGED <<judged, pc, testcase, verdictId>>
    BY <1>7 DEF Operator, SetMode, SetSpace, Command, suiteVars, vars
  <2> QED
    BY <2>1
<1> QED
  BY <1>1, <1>2, <1>3, <1>4, <1>5, <1>6, <1>7 DEF Next, Judging

(* A program that was not started has left no output.                      *)
LEMMA OutputsStep ==
  ASSUME TypeOK, OutputsAreFresh, [Next]_vars
  PROVE  OutputsAreFresh'
<1> USE DEF OutputsAreFresh, submission, counters, usage, execution, report
<1>1. CASE CaseReady \/ CaseLost
  BY <1>1 DEF CaseReady, CaseLost, Prepare, TypeOK, Files
<1>2. CASE ProgramRuns
  BY <1>2 DEF ProgramRuns, Execute
<1>3. CASE ForkFails \/ ChildFails
  BY <1>3 DEF ForkFails, ChildFails, Execute
<1>4. CASE Check \/ Save \/ Advance \/ LoopEnds \/ Teardown
  BY <1>4 DEF Check, Save, Advance, LoopEnds, Teardown
<1>5. CASE Operator \/ UNCHANGED vars
  <2>1. UNCHANGED <<pc, files, program, run>>
    BY <1>5 DEF Operator, SetMode, SetSpace, Command, suiteVars, vars
  <2> QED
    BY <2>1
<1> QED
  BY <1>1, <1>2, <1>3, <1>4, <1>5 DEF Next, Judging

(* A check leaves the verdicts of the cases before as they were.           *)
LEMMA BeforeFrame ==
  ASSUME TypeOK, TypeOK', Positions, Positions', [Next]_vars, ~Advance
  PROVE  /\ Before' = Before /\ UNCHANGED failcase
         /\ \A i \in 1 .. Before : Passed(i)' <=> Passed(i)
<1> USE CaseNumType DEF InCase, Before, submission, counters, usage, execution, report
<1>1. CASE CaseReady
  BY <1>1 DEF CaseReady, Prepare, Passed
<1>2. CASE CaseLost
  <2>1. PICK c \in Judged : judged' = Append(judged, c) /\ Len(judged) + 1 = testcase' /\ pc' = "save"
    BY <1>2, LostCase
  <2>2. \A k \in 1 .. testcase' - 1 : judged'[k] = judged[k]
    BY <2>1, HistoryGrows
  <2>3. Before' = Before /\ Before = testcase' - 1 /\ UNCHANGED failcase
    BY <1>2 DEF CaseLost, Prepare
  <2> HIDE DEF Before
  <2> QED
    BY <2>2, <2>3 DEF Passed
<1>3. CASE Check
  <2>1. PICK end \in SpjEnds \cup {"none"} :
           LET c == Case(program, files, end, Verdict(end)) IN
             /\ c \in Judged /\ judged' = Append(judged, c)
             /\ verdictId' = Verdict(end) /\ c.verdict = Verdict(end)
             /\ c.run = run /\ c.files = files /\ c.program = program /\ c.lenient = ignoreSpace
             /\ Len(judged) + 1 = testcase' /\ testcase' = testcase /\ pc' = "save"
    BY <1>3, CheckedCase
  <2> DEFINE c == Case(program, files, end, Verdict(end))
  <2>2. c \in Judged /\ judged' = Append(judged, c) /\ Len(judged) + 1 = testcase'
        /\ testcase' = testcase /\ pc' = "save"
    BY <2>1
  <2> HIDE DEF c
  <2>3. \A k \in 1 .. testcase' - 1 : judged'[k] = judged[k]
    BY <2>2, HistoryGrows
  <2>4. Before' = Before /\ Before = testcase' - 1 /\ UNCHANGED failcase
    BY <1>3, <2>2 DEF Check
  <2> HIDE DEF Before
  <2> QED
    BY <2>3, <2>4 DEF Passed
<1>4. CASE ProgramRuns \/ ForkFails \/ ChildFails
  BY <1>4 DEF ProgramRuns, ForkFails, ChildFails, Execute, Passed
<1>5. CASE Save
  BY <1>5 DEF Save, Passed
<1>6. CASE LoopEnds \/ Teardown
  BY <1>6 DEF LoopEnds, Teardown, Passed
<1>7. CASE Operator \/ UNCHANGED vars
  <2>1. UNCHANGED <<judged, pc, testcase, failcase>>
    BY <1>7 DEF Operator, SetMode, SetSpace, Command, suiteVars, vars
  <2> QED
    BY <2>1 DEF Passed
<1> QED
  BY <1>1, <1>2, <1>3, <1>4, <1>5, <1>6, <1>7 DEF Next, Judging

(* A command of the operator leaves its mark, and nothing else touches the *)
(* settings.                                                               *)
LEMMA UndisturbedFrame ==
  ASSUME TypeOK, [Next]_vars, Undisturbed'
  PROVE  Undisturbed /\ mode' = mode /\ (Judging \/ UNCHANGED suiteVars)
<1>1. switches \in Nat
  BY BoundsAssumption DEF TypeOK
<1>2. ~Operator
  BY <1>1 DEF Undisturbed, Operator, SetMode, SetSpace, Command
<1> QED
  BY <1>2 DEF Next, Undisturbed, vars, settings

(* failcase tells whether the cases before passed.                         *)
LEMMA FailuresStep ==
  ASSUME TypeOK, TypeOK', Positions, Positions', FailuresSeen, [Next]_vars
  PROVE  FailuresSeen'
<1> USE DEF submission, counters, usage, execution, report
<1>1. failcase' = 0 <=> \A i \in 1 .. Before' : Passed(i)'
  <2>1. CASE ~Advance
    <3>1. Before' = Before /\ failcase' = failcase /\ \A i \in 1 .. Before : Passed(i)' <=> Passed(i)
      BY <2>1, BeforeFrame
    <3>2. failcase = 0 <=> \A i \in 1 .. Before : Passed(i)
      BY DEF FailuresSeen
    <3> QED
      BY <3>1, <3>2
  <2>2. CASE Advance
    <3>1. /\ Before = testcase - 1 /\ testcase \in Nat /\ testcase > 0
          /\ verdictId = judged[testcase].verdict /\ UNCHANGED <<testcase, judged>>
          /\ pc' \in {"loop", "teardown"}
      BY <2>2, CaseNumType DEF Advance, Before, InCase, Positions
    <3>2. Before' = testcase
      BY <3>1 DEF Before, InCase
    <3>3. failcase \in Nat /\ failcase' = IF Passed(testcase) THEN failcase ELSE failcase + 1
      BY <2>2, <3>1, CaseNumType DEF Advance, Passed, TypeOK
    <3>4. \A i \in 1 .. testcase : Passed(i)' <=> Passed(i)
      BY <3>1 DEF Passed
    <3>5. failcase = 0 <=> \A i \in 1 .. testcase - 1 : Passed(i)
      BY <3>1 DEF FailuresSeen
    <3>6. (\A i \in 1 .. testcase : Passed(i))
            <=> (\A i \in 1 .. testcase - 1 : Passed(i)) /\ Passed(testcase)
      <4> HIDE DEF Passed
      <4>1. 1 .. testcase = (1 .. testcase - 1) \cup {testcase}
        BY <3>1
      <4> QED
        BY <4>1
    <3>7. failcase' = 0 <=> (failcase = 0 /\ Passed(testcase))
      BY <3>3
    <3> QED
      BY <3>2, <3>4, <3>5, <3>6, <3>7
  <2> QED
    BY <2>1, <2>2
<1>2. pc' = "loop" /\ failcase' = 0 => verdictId' = "V_AC"
  <2>1. CASE Operator \/ UNCHANGED vars
    <3>1. UNCHANGED <<pc, failcase, verdictId>>
      BY <2>1 DEF Operator, SetMode, SetSpace, Command, suiteVars, vars
    <3> QED
      BY <3>1 DEF FailuresSeen
  <2>2. CASE Advance
    BY <2>2, CaseNumType DEF Advance, TypeOK
  <2>3. CASE CaseReady \/ CaseLost \/ ProgramRuns \/ ForkFails \/ ChildFails
    BY <2>3 DEF CaseReady, CaseLost, ProgramRuns, ForkFails, ChildFails, Execute
  <2>4. CASE Check \/ Save \/ LoopEnds \/ Teardown
    BY <2>4 DEF Check, Save, LoopEnds, Teardown
  <2> QED
    BY <2>1, <2>2, <2>3, <2>4 DEF Next, Judging
<1>3. ASSUME Undisturbed', mode' = "ACM", failcase' > 0
      PROVE  pc' \in {"teardown", "done"}
  <2>1. Undisturbed /\ mode = "ACM" /\ (Judging \/ UNCHANGED suiteVars)
    BY <1>3, UndisturbedFrame
  <2>2. failcase > 0 => pc \in {"teardown", "done"}
    BY <2>1 DEF FailuresSeen
  <2>3. CASE CaseReady \/ CaseLost
    BY <1>3, <2>2, <2>3 DEF CaseReady, CaseLost, Prepare
  <2>4. CASE ProgramRuns \/ ForkFails \/ ChildFails
    BY <1>3, <2>2, <2>4 DEF ProgramRuns, ForkFails, ChildFails, Execute
  <2>5. CASE Advance
    BY <1>3, <2>1, <2>2, <2>5 DEF Advance
  <2>6. CASE Check \/ Save
    BY <1>3, <2>2, <2>6 DEF Check, Save
  <2>7. CASE LoopEnds \/ Teardown
    BY <2>7 DEF LoopEnds, Teardown
  <2>8. CASE UNCHANGED suiteVars
    BY <1>3, <2>2, <2>8 DEF suiteVars
  <2> QED
    BY <2>1, <2>3, <2>4, <2>5, <2>6, <2>7, <2>8 DEF Judging
<1> QED
  BY <1>1, <1>2, <1>3 DEF FailuresSeen

(* How a suite that no command disturbs ends.                              *)
LEMMA EndsStep ==
  ASSUME TypeOK, TypeOK', Positions, FailuresSeen, SuiteEnds, [Next]_vars
  PROVE  SuiteEnds'
<1> USE DEF submission, counters, usage, execution, report
<1>1. SUFFICES ASSUME pc' \in {"teardown", "done"}, Undisturbed'
               PROVE  SuiteEnds'
  BY DEF SuiteEnds
<1>2. Undisturbed /\ mode' = mode /\ (Judging \/ UNCHANGED suiteVars)
  BY <1>1, UndisturbedFrame
<1>3. testcase \in Nat /\ failcase \in Nat
  BY CaseNumType DEF TypeOK
<1>4. CASE Advance
  <2>1. /\ verdictId # "V_AC" /\ failcase' = failcase + 1 /\ mode = "ACM"
        /\ pc' = "teardown" /\ UNCHANGED <<testcase, judged, verdictId, caseNum>>
    BY <1>1, <1>4 DEF Advance
  <2>2. Before = testcase - 1 /\ testcase > 0 /\ verdictId = judged[testcase].verdict
    BY <1>4 DEF Advance, Positions, Before, InCase
  <2>3. failcase = 0
    BY <1>2, <1>3, <1>4, <2>1 DEF FailuresSeen, Advance
  <2>4. \A i \in 1 .. testcase - 1 : Passed(i)
    BY <2>2, <2>3 DEF FailuresSeen
  <2> QED
    BY <1>2, <2>1, <2>2, <2>3, <2>4 DEF SuiteEnds, Passed
<1>5. CASE LoopEnds
  <2>1. /\ pc = "loop" /\ testcase = caseNum /\ pc' = "teardown"
        /\ UNCHANGED <<testcase, failcase, judged, verdictId, caseNum>>
    BY <1>5 DEF LoopEnds
  <2>2. failcase = 0 => verdictId = "V_AC"
    BY <2>1 DEF FailuresSeen
  <2>3. ~(mode = "ACM" /\ failcase > 0)
    BY <1>2, <2>1 DEF FailuresSeen
  <2> QED
    BY <1>2, <2>1, <2>2, <2>3 DEF SuiteEnds
<1>6. CASE Teardown
  <2>1. /\ pc = "teardown" /\ pc' = "done"
        /\ UNCHANGED <<testcase, failcase, judged, caseNum>>
        /\ IF mode = "OI"
           THEN verdictId' = IF failcase > 0 /\ verdictId # "V_SE" THEN "V_WA" ELSE verdictId
           ELSE verdictId' = verdictId
    BY <1>6 DEF Teardown
  <2>2. /\ failcase = 0 => testcase = caseNum /\ verdictId = "V_AC"
        /\ failcase > 0 /\ mode = "ACM" =>
             /\ verdictId = judged[testcase].verdict /\ ~Passed(testcase) /\ testcase > 0
             /\ \A i \in 1 .. testcase - 1 : Passed(i)
        /\ mode = "OI" => testcase = caseNum
    BY <1>2, <2>1 DEF SuiteEnds
  <2>3. mode \in {"ACM", "OI"}
    BY DEF TypeOK
  <2>4. CASE mode = "ACM"
    BY <1>2, <2>1, <2>2, <2>4 DEF SuiteEnds, Passed
  <2>5. CASE mode = "OI"
    BY <1>2, <1>3, <2>1, <2>2, <2>5 DEF SuiteEnds, Passed
  <2> QED
    BY <2>3, <2>4, <2>5
<1>7. CASE UNCHANGED suiteVars
  BY <1>1, <1>2, <1>7 DEF SuiteEnds, suiteVars, Passed
<1>8. ASSUME CaseReady \/ CaseLost \/ ProgramRuns \/ ForkFails \/ ChildFails \/ Check \/ Save
      PROVE  FALSE
  BY <1>1, <1>8 DEF CaseReady, CaseLost, ProgramRuns, ForkFails, ChildFails, Execute, Check, Save
<1> QED
  BY <1>2, <1>4, <1>5, <1>6, <1>7, <1>8 DEF Judging

-----------------------------------------------------------------------------
(* The theorems.                                                           *)

(* The invariant holds at the start of a suite.                            *)
LEMMA SuiteInit == Init => SuiteInv
<1> SUFFICES ASSUME Init PROVE SuiteInv
  OBVIOUS
<1>1. TypeOK
  BY TypeInit
<1>2. judged = <<>> /\ Len(judged) = 0 /\ DOMAIN judged = {} /\ testcase = 0 /\ failcase = 0
      /\ pc = "loop" /\ verdictId = "V_AC"
  BY EmptyFacts DEF Init
<1>3. Positions /\ PassesEarned /\ LimitsStick /\ SuiteEnds /\ OutputsAreFresh
  BY <1>2 DEF Positions, PassesEarned, LimitsStick, SuiteEnds, OutputsAreFresh, InCase
<1>4. FailuresSeen
  <2>1. 1 .. Before = {}
    BY <1>2 DEF Before, InCase
  <2> QED
    BY <1>2, <2>1 DEF FailuresSeen
<1>5. UsageKept
  BY <1>2, LimitsAssumption DEF UsageKept, Init, Smaller
<1> QED
  BY <1>1, <1>3, <1>4, <1>5 DEF SuiteInv

(* Every step keeps it.                                                    *)
LEMMA SuiteStep == ASSUME SuiteInv, [Next]_vars PROVE SuiteInv'
<1>1. TypeOK /\ Positions /\ OutputsAreFresh /\ PassesEarned
      /\ FailuresSeen /\ SuiteEnds /\ UsageKept /\ LimitsStick
  BY DEF SuiteInv
<1>2. TypeOK'
  BY <1>1, TypeStep
<1>3. Positions'
  BY <1>1, <1>2, PositionsStep
<1>4. OutputsAreFresh' /\ PassesEarned' /\ UsageKept' /\ LimitsStick'
  BY <1>1, <1>2, OutputsStep, EarnedStep, UsageStep
<1>5. FailuresSeen' /\ SuiteEnds'
  BY <1>1, <1>2, <1>3, FailuresStep, EndsStep
<1> QED
  BY <1>2, <1>3, <1>4, <1>5 DEF SuiteInv

(* The inductive invariant of judge_solution holds of every state, however *)
(* often the operator changes the mode.                                    *)
THEOREM SuiteInvariant == Spec => []SuiteInv
<1>1. SuiteInv /\ [Next]_vars => SuiteInv'
  BY SuiteStep
<1> QED
  BY SuiteInit, <1>1, PTL DEF Spec

(* At the end of a suite the history has a case for each test case begun.  *)
LEMMA HistoryAtEnd ==
  ASSUME SuiteInv, Finished
  PROVE  /\ Len(judged) = testcase /\ DOMAIN judged = 1 .. testcase /\ testcase \in Nat
         /\ failcase \in Nat /\ (failcase = 0 <=> \A i \in 1 .. testcase : Passed(i))
<1>1. Before = testcase
  BY DEF Finished, Before, InCase
<1>2. testcase \in Nat /\ failcase \in Nat
  BY CaseNumType DEF SuiteInv, TypeOK
<1>3. judged \in Seq(Judged) /\ Len(judged) = testcase
  BY DEF SuiteInv, TypeOK, Positions, Finished
<1> QED
  BY <1>1, <1>2, <1>3 DEF SuiteInv, FailuresSeen

(* The verdict of a suite is that of its first failing case in ACM mode,   *)
(* and in OI mode it is V_AC exactly when every case passed                *)
(* (judge_solution, judge_solution_suitecase_teardown).                    *)
THEOREM VerdictsAreRight == Spec => []VerdictOfSuite
<1>1. SuiteInv => VerdictOfSuite
  <2> SUFFICES ASSUME SuiteInv, Finished, Undisturbed
               PROVE  LET last == Len(judged)
                          failed == {i \in 1 .. last : ~Passed(i)}
                      IN  IF failed = {}
                          THEN verdictId = "V_AC" /\ last = caseNum
                          ELSE IF mode = "ACM"
                          THEN failed = {last} /\ verdictId = judged[last].verdict
                          ELSE last = caseNum /\ verdictId \in {"V_WA", "V_SE"}
    BY DEF VerdictOfSuite
  <2> DEFINE failed == {i \in 1 .. testcase : ~Passed(i)}
  <2>1. /\ Len(judged) = testcase /\ testcase \in Nat /\ failcase \in Nat
        /\ failcase = 0 <=> failed = {}
    BY HistoryAtEnd
  <2>2. /\ failcase = 0 => testcase = caseNum /\ verdictId = "V_AC"
        /\ failcase > 0 /\ mode = "ACM" =>
             /\ verdictId = judged[testcase].verdict /\ ~Passed(testcase) /\ testcase > 0
             /\ \A i \in 1 .. testcase - 1 : Passed(i)
        /\ mode = "OI" => testcase = caseNum
        /\ failcase > 0 /\ mode = "OI" => verdictId \in {"V_WA", "V_SE"}
    BY DEF SuiteInv, SuiteEnds, Finished
  <2>3. CASE failed = {}
    BY <2>1, <2>2, <2>3
  <2>4. CASE failed # {} /\ mode = "ACM"
    <3>1. /\ verdictId = judged[testcase].verdict /\ ~Passed(testcase) /\ testcase > 0
          /\ \A i \in 1 .. testcase - 1 : Passed(i)
      BY <2>1, <2>2, <2>4
    <3>2. testcase \in failed
      BY <2>1, <3>1
    <3>3. \A i \in failed : i = testcase
      BY <2>1, <3>1
    <3>4. failed = {testcase}
      BY <3>2, <3>3
    <3> QED
      BY <2>1, <2>4, <3>1, <3>4
  <2>5. CASE failed # {} /\ mode # "ACM"
    BY <2>1, <2>2, <2>5 DEF SuiteInv, TypeOK
  <2> QED
    BY <2>3, <2>4, <2>5
<1> QED
  BY SuiteInvariant, <1>1, PTL

(* A submission is accepted only for an answer, inside the limits, to      *)
(* every test case of its problem (judge_solution_check).                  *)
THEOREM AcceptedOnlyWhenEarned == Spec => []AcceptedIsEarned
<1>1. SuiteInv => AcceptedIsEarned
  <2> SUFFICES ASSUME SuiteInv, Finished, Undisturbed, kind = "submit", ~special, verdictId = "V_AC"
               PROVE  Len(judged) = caseNum /\ \A i \in 1 .. caseNum : Earned(judged[i])
    BY DEF AcceptedIsEarned
  <2>1. /\ Len(judged) = testcase /\ DOMAIN judged = 1 .. testcase /\ failcase \in Nat
        /\ failcase = 0 <=> \A i \in 1 .. testcase : Passed(i)
    BY HistoryAtEnd
  <2>2. failcase = 0 /\ testcase = caseNum
    <3>1. mode \in {"ACM", "OI"}
      BY DEF SuiteInv, TypeOK
    <3>2. /\ failcase = 0 => testcase = caseNum
          /\ failcase > 0 /\ mode = "ACM" => verdictId # "V_AC"
          /\ failcase > 0 /\ mode = "OI" => verdictId # "V_AC"
      BY DEF SuiteInv, SuiteEnds, Finished, Passed
    <3> QED
      BY <2>1, <3>1, <3>2
  <2> QED
    BY <2>1, <2>2 DEF SuiteInv, PassesEarned
<1> QED
  BY SuiteInvariant, <1>1, PTL

(* What is reported of time and memory stays within the limits and covers  *)
(* every case that passed (the memory and time checks of judge_linux.cpp). *)
THEOREM UsageIsReported == Spec => []UsageReported
<1>1. SuiteInv => UsageReported
  <2> SUFFICES ASSUME SuiteInv PROVE UsageReported
    OBVIOUS
  <2>1. memory.used = Smaller(memory.cur, MemoryLimit) /\ TypeOK
    BY DEF SuiteInv, UsageKept
  <2>2. memory.used <= MemoryLimit
    BY <2>1, UsageTypes DEF Smaller
  <2> QED
    BY <2>2 DEF SuiteInv, UsageKept, UsageReported
<1> QED
  BY SuiteInvariant, <1>1, PTL

(* After a case over a limit no case of the suite passes                   *)
(* (judge_solution_time_check compares time_used).                         *)
THEOREM LimitsAreSticky == Spec => []LimitsStick
<1>1. SuiteInv => LimitsStick
  BY DEF SuiteInv
<1> QED
  BY SuiteInvariant, <1>1, PTL

-----------------------------------------------------------------------------
(* The results of the cases.                                               *)

(* How many cases have their result saved, and a list of results that says *)
(* what the first cases were given.                                        *)
Saved == IF pc \in {"run", "check", "save"} THEN testcase - 1 ELSE testcase
Tells(s, n) ==
  /\ Len(s) = n
  /\ \A i \in 1 .. n : s[i].case = i /\ s[i].verdict = judged[i].verdict

(* What is published is the beginning of what is saved, and what it lacks  *)
(* has cost a refused update for each result - and one more once the       *)
(* update at the end has been refused too.                                 *)
Short == Saved - Len(published)
PublishedBehind ==
  /\ Tells(published, Len(published))
  /\ Short \in 0 .. refused
  /\ pc = "done" /\ Short # 0 => Short < refused

(* In OI mode the results follow the loop; in ACM mode there are none.     *)
Following ==
  IF mode = "ACM" THEN published = <<>> /\ results = <<>>
  ELSE (pc # "done" => Tells(results, Saved)) /\ PublishedBehind

ReportInv == SuiteInv /\ (Undisturbed => Following)

LEMMA ReportInit == Init => ReportInv
<1> SUFFICES ASSUME Init PROVE ReportInv
  OBVIOUS
<1>1. /\ pc = "loop" /\ testcase = 0 /\ results = <<>> /\ published = <<>>
      /\ mode \in {"ACM", "OI"} /\ refused = 0
  BY DEF Init
<1>2. Saved = 0 /\ Len(results) = 0 /\ Len(published) = 0
  BY <1>1, EmptyFacts DEF Saved
<1>3. \A i \in 1 .. 0 : FALSE
  OBVIOUS
<1>4. Tells(results, Saved) /\ Tells(published, Len(published))
  BY <1>2, <1>3 DEF Tells
<1>5. Short = 0
  BY <1>2 DEF Short
<1>6. PublishedBehind
  BY <1>1, <1>4, <1>5 DEF PublishedBehind
<1> QED
  BY <1>1, <1>4, <1>6, SuiteInit DEF ReportInv, Following

(* A step that neither saves nor ends leaves what is saved as it is: the   *)
(* history only grows beyond it.                                           *)
LEMMA SavedFrame ==
  ASSUME SuiteInv, SuiteInv', Judging, [Next]_vars, ~Save, ~Teardown
  PROVE  /\ UNCHANGED report /\ Saved' = Saved /\ pc # "done" /\ pc' # "done"
         /\ \A i \in 1 .. Saved : judged'[i] = judged[i]
<1> USE CaseNumType DEF Saved, SuiteInv, Positions, submission, counters, usage, execution
<1>1. CASE CaseReady
  BY <1>1 DEF CaseReady, Prepare
<1>2. CASE CaseLost
  <2>1. PICK c \in Judged : judged' = Append(judged, c) /\ Len(judged) + 1 = testcase' /\ pc' = "save"
    BY <1>2, LostCase
  <2>2. \A k \in 1 .. testcase' - 1 : judged'[k] = judged[k]
    BY <2>1, HistoryGrows
  <2>3. Saved' = Saved /\ Saved = testcase' - 1 /\ UNCHANGED report /\ pc = "loop" /\ pc' = "save"
    BY <1>2 DEF CaseLost, Prepare
  <2> HIDE DEF Saved
  <2> QED
    BY <2>2, <2>3
<1>3. CASE Check
  <2>1. PICK end \in SpjEnds \cup {"none"} :
           LET c == Case(program, files, end, Verdict(end)) IN
             /\ c \in Judged /\ judged' = Append(judged, c)
             /\ verdictId' = Verdict(end) /\ c.verdict = Verdict(end)
             /\ c.run = run /\ c.files = files /\ c.program = program /\ c.lenient = ignoreSpace
             /\ Len(judged) + 1 = testcase' /\ testcase' = testcase /\ pc' = "save"
    BY <1>3, CheckedCase
  <2> DEFINE c == Case(program, files, end, Verdict(end))
  <2>2. c \in Judged /\ judged' = Append(judged, c) /\ Len(judged) + 1 = testcase'
        /\ testcase' = testcase /\ pc' = "save"
    BY <2>1
  <2> HIDE DEF c
  <2>3. \A k \in 1 .. testcase' - 1 : judged'[k] = judged[k]
    BY <2>2, HistoryGrows
  <2>4. Saved' = Saved /\ Saved = testcase' - 1 /\ UNCHANGED report /\ pc = "check" /\ pc' = "save"
    BY <1>3, <2>2 DEF Check
  <2> HIDE DEF Saved
  <2> QED
    BY <2>3, <2>4
<1>4. CASE ProgramRuns \/ ForkFails \/ ChildFails
  BY <1>4 DEF ProgramRuns, ForkFails, ChildFails, Execute
<1>5. CASE Advance
  BY <1>5 DEF Advance
<1>6. CASE LoopEnds
  BY <1>6 DEF LoopEnds
<1> QED
  BY <1>1, <1>2, <1>3, <1>4, <1>5, <1>6 DEF Judging

(* The saving of a result.                                                 *)
LEMMA SaveTells ==
  ASSUME SuiteInv, SuiteInv', Save, mode = "OI", Tells(results, Saved)
  PROVE  Tells(results, Saved)'
<1> DEFINE n == testcase - 1
           r == Result
<1>1. /\ testcase \in Nat /\ testcase > 0 /\ n \in Nat /\ testcase = n + 1
      /\ verdictId = judged[testcase].verdict
  BY CaseNumType DEF SuiteInv, Positions, InCase, Save
<1>2. Saved = n /\ Saved' = n + 1
  BY <1>1 DEF Save, Saved, counters
<1>3. r \in Results /\ r.case = n + 1 /\ r.verdict = judged[n + 1].verdict
  <2>1. time.cur \in Nat /\ memory.cur \in Nat /\ verdictId \in CaseVerdicts
    BY DEF SuiteInv, TypeOK, Usage
  <2>2. time.cur - (time.cur % 10) \in Nat
    BY <2>1, Rounded
  <2> QED
    BY <1>1, <2>1, <2>2 DEF Result, Results
<1>4. results \in Seq(Results) /\ results' = Append(results, r) /\ judged' = judged
  BY DEF SuiteInv, TypeOK, Save
<1> HIDE DEF n, r
<1>5. /\ Len(results) = n
      /\ \A i \in 1 .. n : results[i].case = i /\ results[i].verdict = judged[i].verdict
  BY <1>2 DEF Tells
<1>6. /\ Len(results') = n + 1 /\ results'[n + 1] = r
      /\ \A i \in 1 .. n : results'[i] = results[i]
  BY <1>3, <1>4, <1>5, AppendFacts
<1>7. n \in Nat /\ \A i \in 1 .. n + 1 : i \in 1 .. n \/ i = n + 1
  BY <1>1 DEF n
<1>8. \A i \in 1 .. n + 1 : results'[i].case = i /\ results'[i].verdict = judged'[i].verdict
  BY <1>3, <1>4, <1>5, <1>6, <1>7
<1> QED
  BY <1>2, <1>6, <1>8 DEF Tells

(* The types of what a suite publishes.                                    *)
LEMMA PublishedTypes ==
  ASSUME TypeOK
  PROVE  Len(published) \in Nat /\ Saved \in Int /\ refused \in Nat /\ MaxRefused \in Nat
<1>1. published \in Seq(Results) /\ refused \in 0 .. MaxRefused
  BY DEF TypeOK
<1>2. testcase \in Nat
  BY CaseNumType
<1> QED
  BY <1>1, <1>2, BoundsAssumption DEF Saved

(* An update that is made brings the json result up with the list, and one *)
(* that is refused leaves it one behind at most.                           *)
LEMMA PublishKeeps ==
  ASSUME TypeOK, TypeOK', PublishedBehind, NEW list, Publish(list),
         Len(list) = Saved',
         \A i \in 1 .. Saved' : list[i].case = i /\ list[i].verdict = judged[i].verdict,
         judged' = judged, pc # "done",
         \/ Saved' = Saved /\ pc' = "done"
         \/ Saved' = Saved + 1 /\ pc' # "done"
  PROVE  PublishedBehind'
<1>1. /\ Len(published) \in Nat /\ Len(published') \in Nat
      /\ Saved \in Int /\ Saved' \in Int /\ refused \in Nat /\ refused' \in Nat
  <2>1. published' \in Seq(Results) /\ refused' \in 0 .. MaxRefused
    BY DEF TypeOK
  <2>2. Len(published) \in Nat /\ Saved \in Int /\ refused \in Nat /\ MaxRefused \in Nat
    BY PublishedTypes
  <2>3. Saved' \in Int
    BY <2>2
  <2> QED
    BY <2>1, <2>2, <2>3
<1>2. Short = Saved - Len(published) /\ Short' = Saved' - Len(published')
  BY DEF Short
<1>3. Tells(published, Len(published)) /\ Short \in 0 .. refused
  BY DEF PublishedBehind
<1>4. CASE published' = list /\ UNCHANGED refused
  <2>1. Tells(published, Saved)'
    BY <1>4 DEF Tells
  <2>2. Len(published') = Saved'
    BY <1>4
  <2>3. Tells(published, Len(published))'
    BY <2>1, <2>2 DEF Tells
  <2>4. \A m, n \in Int : m = n => n - m = 0
    OBVIOUS
  <2>5. Len(published') \in Int /\ Saved' \in Int
    BY <1>1
  <2>6. Short' = 0
    BY <1>2, <2>2, <2>4, <2>5, Zenon
  <2> QED
    BY <1>1, <2>3, <2>6 DEF PublishedBehind
<1>5. CASE refused' = refused + 1 /\ UNCHANGED published
  <2>1. Tells(published, Len(published))'
    BY <1>3, <1>5 DEF Tells
  <2>2. Short' = Short \/ (Short' = Short + 1 /\ pc' # "done")
    BY <1>1, <1>2, <1>5
  <2> QED
    BY <1>1, <1>3, <1>5, <2>1, <2>2 DEF PublishedBehind
<1> QED
  BY <1>4, <1>5 DEF Publish

LEMMA ReportStep == ASSUME ReportInv, [Next]_vars PROVE ReportInv'
<1>1. SuiteInv /\ SuiteInv' /\ TypeOK /\ TypeOK'
  BY SuiteStep DEF ReportInv, SuiteInv
<1> SUFFICES ASSUME Undisturbed' PROVE Following'
  BY <1>1 DEF ReportInv
<1>2. Undisturbed /\ mode' = mode /\ (Judging \/ UNCHANGED suiteVars)
  BY <1>1, UndisturbedFrame
<1>3. Following /\ mode \in {"ACM", "OI"}
  BY <1>1, <1>2 DEF ReportInv, TypeOK
<1>4. CASE UNCHANGED suiteVars
  BY <1>2, <1>3, <1>4
     DEF suiteVars, Following, PublishedBehind, Short, Tells, Saved, counters, report
<1>5. CASE Save
  <2>1. CASE mode = "ACM"
    BY <1>2, <1>3, <1>5, <2>1 DEF Save, Following, report
  <2>2. CASE mode = "OI"
    <3>1. /\ pc = "save" /\ pc' = "advance" /\ judged' = judged /\ testcase' = testcase
          /\ Publish(results')
      BY <1>5, <2>2 DEF Save, counters
    <3>2. Tells(results, Saved)'
      BY <1>1, <1>3, <1>5, <2>2, <3>1, SaveTells DEF Following
    <3>3. Saved' = Saved + 1
      BY <1>1, <3>1, CaseNumType DEF Saved
    <3>4. PublishedBehind
      BY <1>3, <2>2 DEF Following
    <3>5. PublishedBehind'
      BY <1>1, <3>1, <3>2, <3>3, <3>4, PublishKeeps DEF Tells
    <3> QED
      BY <1>2, <2>2, <3>2, <3>5 DEF Following
  <2> QED
    BY <1>3, <2>1, <2>2
<1>6. CASE Teardown
  <2>1. /\ pc = "teardown" /\ pc' = "done" /\ testcase' = testcase /\ judged' = judged
        /\ results' = <<>>
        /\ IF mode = "OI" THEN Publish(results) ELSE published' = published
    BY <1>6 DEF Teardown, counters
  <2>2. Saved' = Saved
    BY <2>1 DEF Saved
  <2>3. CASE mode = "ACM"
    BY <1>2, <1>3, <2>1, <2>3 DEF Following
  <2>4. CASE mode = "OI"
    <3>1. Tells(results, Saved) /\ PublishedBehind
      BY <1>3, <2>1, <2>4 DEF Following
    <3>2. PublishedBehind'
      BY <1>1, <2>1, <2>2, <2>4, <3>1, PublishKeeps DEF Tells
    <3> QED
      BY <1>2, <2>1, <2>4, <3>2 DEF Following
  <2> QED
    BY <1>3, <2>3, <2>4
<1>7. CASE Judging /\ ~Save /\ ~Teardown
  <2>1. /\ UNCHANGED report /\ Saved' = Saved /\ pc # "done" /\ pc' # "done"
        /\ \A i \in 1 .. Saved : judged'[i] = judged[i]
    BY <1>1, <1>7, SavedFrame
  <2>2. CASE mode = "ACM"
    BY <1>2, <1>3, <2>1, <2>2 DEF Following, report
  <2>3. CASE mode = "OI"
    <3>1. /\ Tells(results, Saved) /\ Tells(published, Len(published)) /\ Short \in 0 .. refused
      BY <1>3, <2>1, <2>3 DEF Following, PublishedBehind
    <3>2. Tells(results, Saved)'
      BY <2>1, <3>1 DEF Tells, report
    <3>3. Len(published) \in Nat /\ Saved \in Int /\ Len(published) <= Saved
      BY <1>1, <3>1, PublishedTypes DEF Short
    <3>4. Tells(published, Len(published))'
      BY <2>1, <3>1, <3>3 DEF Tells, report
    <3>5. Short' \in 0 .. refused'
      BY <2>1, <3>1 DEF Short, report
    <3> QED
      BY <1>2, <2>1, <2>3, <3>2, <3>4, <3>5 DEF Following, PublishedBehind
  <2> QED
    BY <1>3, <2>2, <2>3
<1> QED
  BY <1>2, <1>4, <1>5, <1>6, <1>7

(* An OI suite that no command disturbs publishes the verdicts of its      *)
(* cases, in order and from the first one on, and lacks none at the end    *)
(* unless the database refused an update for each of those it lacks and    *)
(* the last one too; an ACM suite publishes nothing                        *)
(* (judge_solution_testcase_result_to_json, SQL_updateSolutionJsonResult). *)
THEOREM ReportsAreComplete == Spec => []ReportIsComplete
<1>1. ReportInv => ReportIsComplete
  <2> SUFFICES ASSUME ReportInv, Finished, Undisturbed
               PROVE  LET told    == Len(published)
                          missing == caseNum - told
                      IN  IF mode = "ACM" THEN published = <<>>
                          ELSE /\ \A i \in 1 .. told : /\ published[i].case = i
                                                       /\ published[i].verdict = judged[i].verdict
                               /\ missing = 0 \/ missing \in 1 .. refused - 1
    BY DEF ReportIsComplete
  <2>1. Following /\ mode \in {"ACM", "OI"} /\ pc = "done" /\ TypeOK
    BY DEF ReportInv, SuiteInv, TypeOK, Finished
  <2>2. mode = "OI" => testcase = caseNum
    BY <2>1 DEF ReportInv, SuiteInv, SuiteEnds
  <2>3. Saved = testcase
    BY <2>1 DEF Saved
  <2>4. CASE mode = "ACM"
    BY <2>1, <2>4 DEF Following
  <2>5. CASE mode = "OI"
    <3>1. /\ Tells(published, Len(published)) /\ Short \in 0 .. refused
          /\ Short # 0 => Short < refused
      BY <2>1, <2>5 DEF Following, PublishedBehind
    <3>2. Short = caseNum - Len(published)
      BY <2>2, <2>3, <2>5 DEF Short
    <3>3. refused \in Nat
      BY <2>1, PublishedTypes
    <3> QED
      BY <2>5, <3>1, <3>2, <3>3 DEF Tells
  <2> QED
    BY <2>1, <2>4, <2>5
<1>2. ReportInv /\ [Next]_vars => ReportInv'
  BY ReportStep
<1> QED
  BY ReportInit, <1>1, <1>2, PTL DEF Spec
=============================================================================
