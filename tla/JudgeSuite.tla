---------------------------- MODULE JudgeSuite ----------------------------
(***************************************************************************)
(* The judging of one compiled submission against the test cases of its    *)
(* problem (judge_solution in src/code/judge/judge.cpp, with the Linux     *)
(* halves of its steps in judge_linux.cpp).                                *)
(*                                                                         *)
(* A case is run by a forked child that traces itself, sets its limits and *)
(* calls system(); the program is a grandchild.  What wait4 reports is the *)
(* child: normally the SIGCHLD stop that follows the end of the command,   *)
(* whatever way the program itself ended.                                  *)
(*                                                                         *)
(* g_judge_mode and g_judge_ignore_extra_space_enable are globals that the *)
(* commands of the operator write while the judge thread reads them.       *)
(***************************************************************************)
EXTENDS Integers, Sequences, FiniteSets

CONSTANTS
  Kinds,          (* the kinds of submissions: "submit", "test"            *)
  CaseNums,       (* how many test cases judge_get_testcases may find      *)
  TimeLimit,      (* problem.time_limit                                    *)
  MemoryLimit,    (* problem.memory_limit                                  *)
  Specials,       (* whether the problem may have a special judge          *)
  Outs,           (* what compare may find in the output of a program      *)
  Times,          (* the CPU times a run may take                          *)
  Mems,           (* the resident sizes a run may reach                    *)
  MaxSwitches,    (* bound on the mode and extra-space commands            *)
  MaxFaults,      (* bound on failed forks, failed children, lost files    *)
  MaxRefused      (* bound on the updates of json_result that are refused  *)

ASSUME KindsAssumption  == Kinds \subseteq {"submit", "test"}
ASSUME DataAssumption   == Specials \subseteq BOOLEAN /\ Outs \subseteq {"V_AC", "V_PE", "V_WA"}
ASSUME CasesAssumption  == CaseNums \subseteq 0 .. 100   (* JUDGE_MAX_CASE *)
ASSUME LimitsAssumption == /\ TimeLimit \in Nat \ {0} /\ MemoryLimit \in Nat
                           /\ Times \subseteq Nat /\ Mems \subseteq Nat
ASSUME BoundsAssumption == MaxSwitches \in Nat /\ MaxFaults \in Nat /\ MaxRefused \in Nat

VARIABLES
  mode,         (* g_judge_mode: "ACM" or "OI"                             *)
  ignoreSpace,  (* g_judge_ignore_extra_space_enable                       *)
  kind,         (* submission.mode: "submit" or "test"                     *)
  special,      (* problem.isSpecialJudge                                  *)
  caseNum,      (* the number of test cases of the suite                   *)
  pc,           (* where judge_solution is                                 *)
  testcase,     (* solution.testcase, which is also idx + 1                *)
  failcase,     (* solution.failcase                                       *)
  verdictId,    (* solution.verdictId                                      *)
  time,         (* solution.time_used and solution.time_cur                *)
  memory,       (* solution.memory_used and solution.memory_cur            *)
  run,          (* submission.status and submission.rused, of the last run *)
  files,        (* the output file and the error file of the work path     *)
  program,      (* history: what became of the program of the case         *)
  results,      (* testcases_result, the saved results of the cases        *)
  published,    (* the json result of the solution in the database         *)
  refused,      (* history: how many of its updates were refused           *)
  judged,       (* history: what each case did and was given               *)
  switches,     (* how many commands the operator has typed                *)
  faults        (* how many runs have gone wrong before the program began  *)

settings   == <<mode, ignoreSpace>>
submission == <<kind, special, caseNum>>
usage      == <<time, memory>>
report     == <<results, published, refused>>
counters   == <<testcase, failcase>>
execution  == <<run, files, program>>
suiteVars  == <<submission, pc, counters, verdictId, usage, execution,
                report, judged, faults>>
vars       == <<settings, switches, suiteVars>>

-----------------------------------------------------------------------------
(* Data.                                                                   *)

CaseVerdicts == {"V_AC", "V_WA", "V_RE", "V_TLE", "V_MLE", "V_PE", "V_OLE", "V_SE"}

(* What wait4 says of the child: "SIGCHLD", the stop after the command;    *)
(* "exited", its exit, with status 0, 3, 4 or 11; or the signal it died    *)
(* of.  SIGKILL comes from outside, SIGXFSZ from the child's own logging   *)
(* when the log has grown past the limit it has just set.                  *)
Statuses == {"SIGCHLD", "exited", "SIGXFSZ", "SIGKILL"}
Runs     == [status : Statuses, time : Nat, mem : Nat]
NoRun    == [status |-> "exited", time |-> 0, mem |-> 0]   (* zeroed memory *)

(* The output file is compared with the answer; all that matters of it is  *)
(* whether it is there and what compare finds.                             *)
Outputs == Outs \cup {"missing"}
Files   == [out : Outputs, err : BOOLEAN]

(* How a special judge ends.                                               *)
SpjEnds == {"exit 0", "exit 1", "SIGHUP"}

Usage   == [used : Nat, cur : Nat]
Results == [case : Nat, verdict : CaseVerdicts, time : Nat, mem : Nat]

(* One case in the history: what became of its program, what the checks    *)
(* had before them, and the verdict they gave.                             *)
Judged == [program : {"none", "ended", "crashed"}, run : Runs, files : Files,
           spj : SpjEnds \cup {"none"}, lenient : BOOLEAN, verdict : CaseVerdicts]

(* The cases before the one in hand, or all of them between two cases.     *)
InCase == pc \in {"run", "check", "save", "advance"}
Before == IF InCase THEN testcase - 1 ELSE testcase

TypeOK ==
  /\ mode \in {"ACM", "OI"} /\ ignoreSpace \in BOOLEAN
  /\ kind \in Kinds /\ special \in Specials /\ caseNum \in CaseNums \cup {1}
  /\ pc \in {"loop", "run", "check", "save", "advance", "teardown", "done"}
  /\ testcase \in 0 .. caseNum
  /\ failcase \in 0 .. Before
  /\ verdictId \in CaseVerdicts
  /\ time \in Usage /\ memory \in Usage
  /\ run \in Runs /\ files \in Files /\ program \in {"none", "ended", "crashed"}
  /\ results \in Seq(Results) /\ published \in Seq(Results) /\ refused \in 0 .. MaxRefused
  /\ judged \in Seq(Judged)
  /\ switches \in 0 .. MaxSwitches /\ faults \in 0 .. MaxFaults

-----------------------------------------------------------------------------
(* The checks of judge_solution_check, in the order of the code.           *)

Larger(a, b)  == IF a < b THEN b ELSE a
Smaller(a, b) == IF a < b THEN a ELSE b

(* judge_solution_memory_check: memory_cur never falls from case to case.  *)
MemoryCur   == Larger(memory.cur, run.mem)
MemoryOver  == MemoryCur > MemoryLimit

(* Mutant: a size over the limit is reported as it is.                     *)
MemoryUncut ==
  [cur |-> MemoryCur, used |-> Larger(memory.used, MemoryCur)]

(* What it leaves in memory_cur and memory_used.                           *)
MemoryCheck ==
  [cur  |-> MemoryCur,
   used |-> IF MemoryOver THEN MemoryLimit
            ELSE IF memory.cur < run.mem THEN Larger(memory.used, run.mem)
            ELSE memory.used]

(* judge_solution_exit_check: the verdict after it, over the one of the    *)
(* memory check; its kill of the child changes nothing of the submission.  *)
ExitCheck ==
  CASE run.status = "SIGKILL" -> "V_RE"
    [] run.status = "SIGXFSZ" -> "V_OLE"
    [] OTHER -> IF MemoryOver THEN "V_MLE" ELSE verdictId

(* Mutant: the limit is compared with the time of the case.                *)
TimeUsedOfCase == run.time

(* judge_solution_time_check: the limit is compared with time_used.        *)
TimeUsed  == Larger(time.used, run.time)
TimeOver  == TimeUsed >= TimeLimit
TimeCheck == [cur |-> run.time, used |-> Smaller(TimeUsed, TimeLimit)]

(* Mutant: no output is a right output, as in compare without ZOJ_COM.     *)
MissingAccepted == IF files.out = "missing" THEN "V_AC" ELSE files.out

(* compare, and judge_special_judge: what system() returns is a wait       *)
(* status, 1 for a process that SIGHUP ended and 256 for an exit(1).       *)
WaitStatus(end)   == CASE end = "exit 0" -> 0 [] end = "exit 1" -> 256 [] end = "SIGHUP" -> 1
SpecialJudge(end) == IF WaitStatus(end) = 1 THEN "V_AC" ELSE "V_WA"
Compare           == IF files.out = "missing" THEN "V_RE" ELSE files.out

AnswerCheck(end) ==
  IF kind = "test" THEN verdictId
  ELSE IF special THEN SpecialJudge(end)
  ELSE IF ignoreSpace /\ Compare = "V_PE" THEN "V_AC" ELSE Compare

(* What the checks from the time check on give.                            *)
Verdict(end) ==
  IF ExitCheck = "V_RE" THEN "V_RE"
  ELSE IF TimeOver      THEN "V_TLE"
  ELSE IF files.err     THEN "V_RE"
  ELSE IF ExitCheck # "V_AC" THEN ExitCheck
  ELSE AnswerCheck(end)

-----------------------------------------------------------------------------
Init ==
  /\ mode \in {"ACM", "OI"} /\ ignoreSpace \in BOOLEAN
  /\ kind \in Kinds /\ special \in Specials
  /\ caseNum \in (IF kind = "test" THEN {1} ELSE CaseNums)
  /\ pc = "loop" /\ testcase = 0 /\ failcase = 0 /\ verdictId = "V_AC"
  /\ time = [used |-> 0, cur |-> 0] /\ memory = [used |-> 0, cur |-> 0]
  /\ run = NoRun /\ files = [out |-> "missing", err |-> FALSE] /\ program = "none"
  /\ results = <<>> /\ published = <<>> /\ refused = 0 /\ judged = <<>>
  /\ switches = 0 /\ faults = 0

Case(became, work, end, verdict) ==
  [program |-> became, run |-> run, files |-> work, spj |-> end,
   lenient |-> ignoreSpace, verdict |-> verdict]

(* Mutant: the loop runs once too often.                                   *)
PreparePastEnd ==
  /\ pc = "loop" /\ testcase <= caseNum
  /\ testcase' = testcase + 1
  /\ files' = [files EXCEPT !.out = "missing"]
  /\ program' = "none"
  /\ UNCHANGED <<submission, failcase, usage, run, report>>

(* The head of the loop: judge_solution_testcase_prepare removes the       *)
(* output file of the case before.                                         *)
Prepare ==
  /\ pc = "loop" /\ testcase < caseNum
  /\ testcase' = testcase + 1
  /\ files' = [files EXCEPT !.out = "missing"]
  /\ program' = "none"
  /\ UNCHANGED <<submission, failcase, usage, run, report>>

CaseReady ==
  /\ Prepare
  /\ verdictId' = "V_AC"
  /\ pc' = "run"
  /\ UNCHANGED <<judged, faults>>

(* The data files of the case are gone: the operator has moved the test    *)
(* data since judge_get_testcases listed it.                               *)
CaseLost ==
  /\ Prepare
  /\ kind = "submit" /\ faults < MaxFaults
  /\ verdictId' = "V_SE"
  /\ judged' = Append(judged, Case("none", files', "none", "V_SE"))
  /\ faults' = faults + 1
  /\ pc' = "save"

(* judge_solution_run.                                                     *)
Execute(became, outcome, work) ==
  /\ pc = "run" /\ pc' = "check"
  /\ program' = became /\ run' = outcome /\ files' = work
  /\ UNCHANGED <<submission, counters, verdictId, usage, report, judged>>

(* The program ends, or a signal of its own, SIGSEGV say, ends it: the     *)
(* child sees the end of the command and stops with SIGCHLD either way.    *)
ProgramRuns ==
  \E became \in {"ended", "crashed"}, t \in Times, m \in Mems,
     out \in Outs, err \in BOOLEAN :
    /\ Execute(became, [status |-> "SIGCHLD", time |-> t, mem |-> m],
               [out |-> out, err |-> err])
    /\ UNCHANGED faults

(* fork fails: status and rused keep what the case before left there.      *)
ForkFails ==
  /\ faults < MaxFaults /\ faults' = faults + 1
  /\ Execute("none", run, files)

(* The child ends before the command does: it could not set its limits,    *)
(* or a signal ended it.                                                   *)
ChildFails ==
  /\ faults < MaxFaults /\ faults' = faults + 1
  /\ \E status \in Statuses \ {"SIGCHLD"}, m \in Mems :
       Execute("none", [status |-> status, time |-> 0, mem |-> m], files)

Check ==
  /\ pc = "check" /\ pc' = "save"
  /\ \E end \in (IF kind = "submit" /\ special THEN SpjEnds ELSE {"none"}) :
       /\ verdictId' = Verdict(end)
       /\ judged' = Append(judged, Case(program, files, end, Verdict(end)))
  /\ memory' = MemoryCheck
  /\ time' = IF ExitCheck = "V_RE" THEN time ELSE TimeCheck
  /\ UNCHANGED <<submission, counters, execution, report, faults>>

(* judge_solution_testcase_result_to_json: the whole list is written over  *)
(* the json result.  An update the server refuses is logged, no more.      *)
Publish(list) ==
  \/ published' = list /\ UNCHANGED refused
  \/ refused < MaxRefused /\ refused' = refused + 1 /\ UNCHANGED published

(* judge_solution_testcase_teardown.                                       *)
Result == [case |-> testcase, verdict |-> verdictId,
           time |-> time.cur - (time.cur % 10), mem |-> memory.cur]

Save ==
  /\ pc = "save" /\ pc' = "advance"
  /\ IF mode = "OI"
     THEN /\ results' = Append(results, Result)
          /\ Publish(results')
     ELSE UNCHANGED report
  /\ UNCHANGED <<submission, counters, verdictId, usage, execution, judged, faults>>

(* The tail of the loop body.                                              *)
Advance ==
  /\ pc = "advance"
  /\ IF verdictId = "V_AC"
     THEN pc' = "loop" /\ UNCHANGED failcase
     ELSE /\ failcase' = failcase + 1
          /\ pc' = IF mode = "ACM" THEN "teardown" ELSE "loop"
  /\ UNCHANGED <<submission, testcase, verdictId, usage, execution, report, judged, faults>>

LoopEnds ==
  /\ pc = "loop" /\ testcase = caseNum
  /\ pc' = "teardown"
  /\ UNCHANGED <<submission, counters, verdictId, usage, execution, report, judged, faults>>

(* Mutant: the verdict of the last case stands in OI mode too.             *)
TeardownLastVerdict ==
  /\ pc = "teardown" /\ pc' = "done"
  /\ IF mode = "OI" THEN Publish(results) ELSE UNCHANGED <<published, refused>>
  /\ results' = <<>>
  /\ UNCHANGED <<submission, counters, verdictId, usage, execution, judged, faults>>

(* Mutant: the results are freed before they are published.                *)
TeardownFreesFirst ==
  /\ pc = "teardown" /\ pc' = "done"
  /\ IF mode = "OI"
     THEN /\ verdictId' = IF failcase > 0 /\ verdictId # "V_SE" THEN "V_WA" ELSE verdictId
          /\ Publish(<<>>)
     ELSE UNCHANGED <<verdictId, published, refused>>
  /\ results' = <<>>
  /\ UNCHANGED <<submission, counters, usage, execution, judged, faults>>

(* judge_solution_suitecase_teardown.                                      *)
Teardown ==
  /\ pc = "teardown" /\ pc' = "done"
  /\ IF mode = "OI"
     THEN /\ verdictId' = IF failcase > 0 /\ verdictId # "V_SE" THEN "V_WA" ELSE verdictId
          /\ Publish(results)
     ELSE UNCHANGED <<verdictId, published, refused>>
  /\ results' = <<>>
  /\ UNCHANGED <<submission, counters, usage, execution, judged, faults>>

(* The commands `mode acm', `mode oi' and `ignore extra-space enable'.     *)
Command ==
  /\ switches < MaxSwitches /\ switches' = switches + 1
  /\ UNCHANGED suiteVars

SetMode(m)  == Command /\ mode' = m /\ UNCHANGED ignoreSpace
SetSpace(b) == Command /\ ignoreSpace' = b /\ UNCHANGED mode

Judging ==
  \/ CaseReady \/ CaseLost
  \/ ProgramRuns \/ ForkFails \/ ChildFails
  \/ Check \/ Save \/ Advance \/ LoopEnds \/ Teardown

Operator ==
  \/ \E m \in {"ACM", "OI"} \ {mode} : SetMode(m)
  \/ SetSpace(~ignoreSpace)

Next == (Judging /\ UNCHANGED <<settings, switches>>) \/ Operator

Spec == Init /\ [][Next]_vars
-----------------------------------------------------------------------------
(* Properties.                                                             *)

Finished == pc = "done"
Undisturbed == switches = 0
Passed(i)   == judged[i].verdict = "V_AC"

(* A case that earns its acceptance: the program ran, inside the limits,   *)
(* wrote nothing on stderr, and its output is right, up to the spaces the  *)
(* operator told the judge to ignore.                                      *)
Earned(c) ==
  /\ c.program # "none" /\ c.run.status = "SIGCHLD"
  /\ c.run.time < TimeLimit /\ c.run.mem <= MemoryLimit
  /\ ~c.files.err
  /\ c.files.out = "V_AC" \/ (c.lenient /\ c.files.out = "V_PE")

(* A submission is accepted only for an answer to every test case: no      *)
(* failed fork, killed child, missing output or verdict of another case    *)
(* ever counts as one (judge_solution, judge_solution_check).  Excepted    *)
(* are a change of mode in the middle of a suite, and a special judge,     *)
(* whose word is taken.                                                    *)
AcceptedIsEarned ==
  Finished /\ Undisturbed /\ kind = "submit" /\ ~special /\ verdictId = "V_AC"
    => /\ Len(judged) = caseNum
       /\ \A i \in 1 .. caseNum : Earned(judged[i])

(* In ACM mode the suite ends at its first failing case, whose verdict is  *)
(* the verdict of the submission; in OI mode every case is judged and      *)
(* anything but a full score is V_WA, or V_SE when the last case could not *)
(* be prepared (judge_solution, judge_solution_suitecase_teardown).        *)
VerdictOfSuite ==
  LET last == Len(judged)
      failed == {i \in 1 .. last : ~Passed(i)}
  IN Finished /\ Undisturbed =>
       IF failed = {}
       THEN verdictId = "V_AC" /\ last = caseNum
       ELSE IF mode = "ACM"
       THEN failed = {last} /\ verdictId = judged[last].verdict
       ELSE last = caseNum /\ verdictId \in {"V_WA", "V_SE"}

(* A suite in OI mode publishes what its cases were given, in order and    *)
(* from the first one on; results are missing at the end only when the     *)
(* database has refused an update for each of them and the last one too,   *)
(* for each update writes the whole list and so repairs those before it.   *)
(* A suite in ACM mode publishes none                                      *)
(* (judge_solution_testcase_result_to_json, SQL_updateSolutionJsonResult). *)
ReportIsComplete ==
  LET told    == Len(published)
      missing == caseNum - told
  IN Finished /\ Undisturbed =>
       IF mode = "ACM" THEN published = <<>>
       ELSE /\ \A i \in 1 .. told : /\ published[i].case = i
                                    /\ published[i].verdict = judged[i].verdict
            /\ missing = 0 \/ missing \in 1 .. refused - 1

(* The time and the memory reported to the database never exceed the       *)
(* limits, and fall short of no case that passed                           *)
(* (judge_solution_memory_check, judge_solution_time_check).               *)
UsageReported ==
  /\ time.used <= TimeLimit /\ memory.used <= MemoryLimit
  /\ \A i \in DOMAIN judged :
       Passed(i) => judged[i].run.time <= time.used /\ judged[i].run.mem <= memory.used

(* The limits stick: time_used and memory_cur are those of the suite, so   *)
(* after a case over a limit no case of the suite passes, however little   *)
(* it uses itself (judge_linux.cpp; judge_win.cpp compares time_cur).      *)
LimitsStick ==
  \A i, j \in DOMAIN judged :
    i < j /\ judged[i].verdict \in {"V_TLE", "V_MLE"} => ~Passed(j)

-----------------------------------------------------------------------------
(* The inductive invariant behind them.                                    *)

(* The history follows the loop, and a run starts from V_AC.               *)
Positions ==
  /\ Len(judged) = IF pc \in {"run", "check"} THEN testcase - 1 ELSE testcase
  /\ InCase => testcase > 0
  /\ pc \in {"run", "check"} => verdictId = "V_AC"
  /\ pc \in {"save", "advance"} => verdictId = judged[testcase].verdict

(* No output is that of another case: a program that was not started has   *)
(* left none, although status and rused may be those of another case.      *)
OutputsAreFresh ==
  /\ pc = "run" => files.out = "missing" /\ program = "none"
  /\ pc = "check" => IF program = "none" THEN files.out = "missing"
                     ELSE run.status = "SIGCHLD"

PassesEarned ==
  kind = "submit" /\ ~special =>
    \A i \in DOMAIN judged : Passed(i) => Earned(judged[i])

(* failcase tells whether all the cases before passed, and without a       *)
(* change of mode an ACM suite goes on only while they do.                 *)
FailuresSeen ==
  /\ failcase = 0 <=> \A i \in 1 .. Before : Passed(i)
  /\ pc = "loop" /\ failcase = 0 => verdictId = "V_AC"
  /\ Undisturbed /\ mode = "ACM" /\ failcase > 0 => pc \in {"teardown", "done"}

SuiteEnds ==
  pc \in {"teardown", "done"} /\ Undisturbed =>
    /\ failcase = 0 => testcase = caseNum /\ verdictId = "V_AC"
    /\ failcase > 0 /\ mode = "ACM" =>
         /\ verdictId = judged[testcase].verdict /\ ~Passed(testcase) /\ testcase > 0
         /\ \A i \in 1 .. testcase - 1 : Passed(i)
    /\ mode = "OI" => testcase = caseNum
    /\ failcase > 0 /\ mode = "OI" /\ pc = "done" => verdictId \in {"V_WA", "V_SE"}

(* The usages are sums over the suite, cut at the limits.                  *)
UsageKept ==
  /\ time.used <= TimeLimit
  /\ memory.used = Smaller(memory.cur, MemoryLimit)
  /\ \A i \in DOMAIN judged :
       /\ Passed(i) => judged[i].run.time <= time.used /\ judged[i].run.mem <= memory.used
       /\ judged[i].verdict = "V_TLE" => time.used = TimeLimit
       /\ judged[i].verdict = "V_MLE" => memory.cur > MemoryLimit

(* All of it together: why a suite judges as it should, step by step.      *)
SuiteInv ==
  /\ TypeOK /\ Positions /\ OutputsAreFresh /\ PassesEarned
  /\ FailuresSeen /\ SuiteEnds /\ UsageKept /\ LimitsStick

-----------------------------------------------------------------------------
(* What the documentation or a comment says and the code does not do: none *)
(* of the three holds.                                                     *)

(* README.md on the modes: the operator may switch freely between ACM and  *)
(* OI.  An accepted submission has still passed every case.                *)
AcceptedInAnyMode ==
  Finished /\ verdictId = "V_AC" => \A i \in DOMAIN judged : Passed(i)

(* The switch of judge_solution_exit_check: a program that a SIGSEGV ends  *)
(* has had a runtime error, and its case does not pass.                    *)
CrashIsRuntimeError ==
  kind = "submit" =>
    \A i \in DOMAIN judged : judged[i].program = "crashed" => ~Passed(i)

(* judge_special_judge: a special judge that returns 1 has accepted.       *)
SpecialJudgeAccepts ==
  \A i \in DOMAIN judged : judged[i].spj = "exit 1" => judged[i].verdict # "V_WA"
=============================================================================
