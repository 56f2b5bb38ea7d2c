---------------------------- MODULE JudgeQueue ----------------------------
(***************************************************************************)
(* The judge queue of JungleOS (src/code/judge/judge.cpp): the threads     *)
(* that push judge requests, the judge thread that takes the front of the  *)
(* queue, judges it and writes its verdict into the `solution' table, and  *)
(* the timer thread whose auto-detection pushes the solutions that the     *)
(* table still calls queued.                                               *)
(*                                                                         *)
(* The threads share g_judge_queue, a std::queue, and exclude each other   *)
(* from nothing: judge_sem_create is never called, so judge_sem_p and      *)
(* judge_sem_v lock no semaphore (on Linux mutex_lock moreover receives    *)
(* its mutex by value).  A push is therefore two steps, the read of the    *)
(* end of the queue and the store of the element with the new end, and     *)
(* pushes of different threads may overlap.                                *)
(***************************************************************************)
EXTENDS Integers, Sequences, FiniteSets

CONSTANTS
  Solutions,       (* the solution ids the run is about                    *)
  Virtual,         (* those of them whose problem is a virtual-judge one   *)
  Sleepers,        (* those whose program waits and uses no CPU time       *)
  Outcomes,        (* the verdicts judging a compiled solution can give    *)
  Clients,         (* the threads that run `judge solution' commands       *)
  Commands,        (* the configuration commands the operator may type     *)
  JsonKinds,       (* the kinds of json requests the clients send          *)
  DetectNum,       (* g_judge_auto_detect_num                              *)
  DetectInterval,  (* g_judge_auto_detect_interval, in timer ticks         *)
  MaxRequests,     (* bound on the requests of the clients                 *)
  MaxCrashes,      (* bound on the crashes of the process                  *)
  MaxLost          (* bound on the updates the database refuses            *)

AllCommands ==
  {"judge enable", "undo judge enable",
   "auto-detect enable", "undo auto-detect enable"}

ASSUME SolutionsAssumption == Solutions \subseteq Nat \ {0} /\ IsFiniteSet(Solutions)
ASSUME VirtualAssumption   == Virtual \subseteq Solutions
ASSUME SleepersAssumption  == Sleepers \subseteq Solutions
ASSUME OutcomesAssumption  ==
  Outcomes \subseteq {"V_AC", "V_WA", "V_RE", "V_TLE", "V_MLE", "V_PE", "V_OLE", "V_SE"}
ASSUME ClientsAssumption   == "timer" \notin Clients
ASSUME CommandsAssumption  == Commands \subseteq AllCommands
ASSUME JsonAssumption      == JsonKinds \subseteq {"submit", "test", "bad"}
ASSUME BoundsAssumption    ==
  /\ DetectNum \in Nat \ {0}
  /\ DetectInterval \in Nat \ {0}
  /\ MaxRequests \in Nat
  /\ MaxCrashes \in Nat
  /\ MaxLost \in Nat

VARIABLES
  enable,     (* g_judge_enable                                            *)
  timer,      (* g_judge_timer_enable                                      *)
  solution,   (* the verdict column of the rows of table `solution'        *)
  queue,      (* g_judge_queue                                             *)
  pushing,    (* the pushes that have read the end of the queue, not more  *)
  jpc,        (* where judge_thread_msg is                                 *)
  req,        (* its copy of the front of the queue                        *)
  verdictId,  (* submission.solution.verdictId                             *)
  tpc,        (* where judge_timer_auto_detect is                          *)
  tick,       (* its static tick, modulo the interval                      *)
  todo,       (* the scanned solutions it has still to enqueue             *)
  remote,     (* the solutions the remote judger works on                  *)
  requests,   (* how many requests the clients have made                   *)
  crashes,    (* how many times the process has crashed                    *)
  lost        (* how many updates of table `solution' the database refused *)

config     == <<enable, timer>>
judgeVars  == <<jpc, req, verdictId>>
timerVars  == <<tpc, tick, todo>>
queueVars  == <<queue, pushing>>
table      == <<solution, lost>>
bounds     == <<requests, crashes>>
vars       == <<config, table, queueVars, judgeVars, timerVars, remote, bounds>>

-----------------------------------------------------------------------------
(* Data.  A solution without a row has the verdict "none".                 *)

Settled  == Outcomes \cup {"V_AC", "V_CE", "V_SK"}
Verdicts == Settled \cup {"V_Q", "V_C"}

Producers == Clients \cup {"timer"}

(* JUDGE_REQ_MSG_S.  The vty of a request tells the auto-detected ones     *)
(* (CMD_VTY_INVALID_ID) from those of the clients; "stale" marks a cell    *)
(* that no push ever wrote.  jsonMsg is NULL for a solution id, otherwise  *)
(* a json text: a submission (whose session id is the solution id), a test *)
(* run without a row, or a text that does not parse.                       *)
Requests ==
  [solutionId : Solutions \cup {0},
   vtyId      : {"client", "CMD_VTY_INVALID_ID", "stale"},
   jsonMsg    : {"NULL", "submit", "test", "bad"}]

Submission(s, vty) == [solutionId |-> s, vtyId |-> vty, jsonMsg |-> "NULL"]
JsonRequest(json, s) ==
  [solutionId |-> IF json = "submit" THEN s ELSE 0, vtyId |-> "client", jsonMsg |-> json]
NoRequest          == Submission(0, "stale")

Pushes == [by : Producers, req : Requests, slot : Nat]

HasRow(s)    == s \in Solutions /\ solution[s] # "none"
InSubmitMode == req.jsonMsg \in {"NULL", "submit"}
Unfinished   == {s \in Solutions : solution[s] = "V_Q"}

TypeOK ==
  /\ enable \in BOOLEAN /\ timer \in BOOLEAN
  /\ solution \in [Solutions -> Verdicts \cup {"none"}]
  /\ queue \in Seq(Requests)
  /\ pushing \subseteq Pushes
  /\ jpc \in {"idle", "init", "run", "compile", "exec", "publish", "pop"}
  /\ req \in Requests
  /\ verdictId \in Settled \cup {"V_Q"}
  /\ tpc \in {"idle", "select", "enqueue"}
  /\ tick \in 0 .. DetectInterval - 1
  /\ todo \subseteq Solutions
  /\ remote \subseteq Solutions
  /\ requests \in 0 .. MaxRequests
  /\ crashes \in 0 .. MaxCrashes
  /\ lost \in 0 .. MaxLost

-----------------------------------------------------------------------------
(* The table.  An update of a row that is not there changes nothing; one   *)
(* the database refuses, in both its forms, is logged and forgotten.       *)

Write(s, v) ==
  solution' = IF HasRow(s) THEN [solution EXCEPT ![s] = v] ELSE solution

Refused == lost < MaxLost /\ lost' = lost + 1 /\ UNCHANGED solution

Update(s, v) == (Write(s, v) /\ UNCHANGED lost) \/ Refused

-----------------------------------------------------------------------------
(* std::queue::push by several threads.  PushBegin reads the end of the    *)
(* queue, PushEnd stores the element there and moves the end.  A push      *)
(* whose slot is no longer the end has been overtaken by another: it       *)
(* overwrites the cell at its slot, which the judge may have popped, and   *)
(* the end either stays (the two updates of it collide) or moves past a    *)
(* cell that nothing has written.                                          *)

InFlight(p) == \E x \in pushing : x.by = p

PushBegin(p, r) ==
  /\ ~InFlight(p)
  /\ pushing' = pushing \cup {[by |-> p, req |-> r, slot |-> Len(queue) + 1]}

PushEnd(x) ==
  /\ pushing' = pushing \ {x}
  /\ IF x.slot = Len(queue) + 1
     THEN queue' = Append(queue, x.req)
     ELSE LET stored == IF x.slot \in 1 .. Len(queue)
                        THEN [queue EXCEPT ![x.slot] = x.req]
                        ELSE queue
          IN  \/ queue' = stored
              \/ \E s \in Solutions \cup {0} :
                   queue' = Append(stored, Submission(s, "stale"))
  /\ UNCHANGED <<config, table, judgeVars, timerVars, remote, bounds>>

(* Mutant: the front is left in the queue.                                 *)
PopNothing == UNCHANGED queueVars

(* The element is popped after it has been judged, and slots are positions *)
(* from the front.                                                         *)
PopFront ==
  /\ queue' = Tail(queue)
  /\ pushing' = {[x EXCEPT !.slot = IF @ = 0 THEN 0 ELSE @ - 1] : x \in pushing}

-----------------------------------------------------------------------------
(* Requests.  The web platform inserts the row of a submission; a client   *)
(* thread runs `judge solution N' or receives a json request.              *)

Submit(s) ==
  /\ solution[s] = "none"
  /\ solution' = [solution EXCEPT ![s] = "V_Q"]
  /\ UNCHANGED <<config, lost, queueVars, judgeVars, timerVars, remote, bounds>>

(* With judging disabled the row becomes V_SK at once, whoever works on it.*)
Enqueue(p, s, vty) ==
  IF enable
  THEN PushBegin(p, Submission(s, vty)) /\ UNCHANGED table
  ELSE ~InFlight(p) /\ Update(s, "V_SK") /\ UNCHANGED pushing

JudgeSolution(c, s) ==
  /\ requests < MaxRequests
  /\ requests' = requests + 1
  /\ Enqueue(c, s, "client")
  /\ UNCHANGED <<config, queue, judgeVars, timerVars, remote, crashes>>

EnqueueTest(c, json, s) ==
  /\ requests < MaxRequests
  /\ requests' = requests + 1
  /\ IF enable THEN PushBegin(c, JsonRequest(json, s))
                ELSE ~InFlight(c) /\ UNCHANGED pushing
  /\ UNCHANGED <<config, table, queue, judgeVars, timerVars, remote, crashes>>

Command(c) ==
  /\ enable' = CASE c = "judge enable" -> TRUE
                 [] c = "undo judge enable" -> FALSE
                 [] OTHER -> enable
  /\ timer' = CASE c = "auto-detect enable" -> TRUE
                [] c = "undo auto-detect enable" -> FALSE
                [] OTHER -> timer
  /\ UNCHANGED <<table, queueVars, judgeVars, timerVars, remote, bounds>>

-----------------------------------------------------------------------------
(* The judge thread.  It copies the front of the queue, works through      *)
(* judge_request_proc, and pops the queue when that has returned.          *)

Goto(label) == jpc' = label
Verdict(v)  == verdictId' = v

(* judge_request_parse: a json request that does not parse ends here.      *)
Pick ==
  /\ jpc = "idle" /\ queue # <<>>
  /\ req' = Head(queue)
  /\ Goto(IF Head(queue).jsonMsg = "bad" THEN "pop" ELSE "init")
  /\ UNCHANGED <<config, table, queueVars, verdictId, timerVars, remote, bounds>>

(* judge_request_init: a missing row, or a query that fails, skips.        *)
RequestInit ==
  /\ jpc = "init"
  /\ \/ InSubmitMode /\ Verdict("V_SK") /\ Goto("publish")
     \/ InSubmitMode /\ HasRow(req.solutionId) /\ Verdict("V_AC") /\ Goto("run")
     \/ ~InSubmitMode /\ Verdict("V_AC") /\ Goto("run")
  /\ UNCHANGED <<config, table, queueVars, req, timerVars, remote, bounds>>

(* judge_vjudge: the remote judger takes the solution and the verdict is   *)
(* V_Q, or the local crawler gives one, or virtual judging fails.          *)
RunVirtual ==
  /\ jpc = "run" /\ req.solutionId \in Virtual
  /\ \/ Verdict("V_Q") /\ remote' = remote \cup {req.solutionId}
     \/ \E v \in Outcomes \cup {"V_CE", "V_SK"} : Verdict(v) /\ UNCHANGED remote
  /\ Goto("publish")
  /\ UNCHANGED <<config, table, queueVars, req, timerVars, bounds>>

(* judge_compile: nothing to compile, or the row says V_C meanwhile.       *)
CompileBegin ==
  /\ jpc = "run" /\ req.solutionId \notin Virtual
  /\ \/ Goto("exec") /\ UNCHANGED table
     \/ /\ Goto("compile")
        /\ IF InSubmitMode THEN Update(req.solutionId, "V_C") ELSE UNCHANGED table
  /\ UNCHANGED <<config, queueVars, req, verdictId, timerVars, remote, bounds>>

(* Mutant: a compile error returns without a result.                       *)
CompileErrorForgotten ==
  /\ jpc = "compile"
  /\ \/ Goto("exec") /\ UNCHANGED verdictId
     \/ Goto("pop") /\ Verdict("V_CE")
  /\ UNCHANGED <<config, table, queueVars, req, timerVars, remote, bounds>>

CompileEnd ==
  /\ jpc = "compile"
  /\ \/ Goto("exec") /\ UNCHANGED verdictId
     \/ Goto("publish") /\ Verdict("V_CE")
  /\ UNCHANGED <<config, table, queueVars, req, timerVars, remote, bounds>>

(* judge_solution in one step.  The program runs under RLIMIT_CPU and the  *)
(* judge waits for it in wait4: one that sleeps never comes back.          *)
RunCases ==
  /\ jpc = "exec" /\ req.solutionId \notin Sleepers
  /\ \E v \in Outcomes : Verdict(v)
  /\ Goto("publish")
  /\ UNCHANGED <<config, table, queueVars, req, timerVars, remote, bounds>>

(* judge_solution_result_to_db: test runs have no row.                     *)
ResultToDb ==
  /\ jpc = "publish"
  /\ IF InSubmitMode THEN Update(req.solutionId, verdictId) ELSE UNCHANGED table
  /\ Goto("pop")
  /\ UNCHANGED <<config, queueVars, req, verdictId, timerVars, remote, bounds>>

(* The thread's locals are dead once it has popped the queue.              *)
Pop ==
  /\ jpc = "pop"
  /\ PopFront
  /\ Goto("idle") /\ req' = NoRequest /\ Verdict("V_AC")
  /\ UNCHANGED <<config, table, timerVars, remote, bounds>>

JudgeThread ==
  \/ Pick \/ RequestInit \/ RunVirtual \/ CompileBegin \/ CompileEnd
  \/ RunCases \/ ResultToDb \/ Pop

-----------------------------------------------------------------------------
(* The timer thread: judge_timer_auto_detect once a second.                *)

(* Mutant: the tick is not wound back at the interval.                     *)
NextTickUnwound == tick + 1

NextTick == (tick + 1) % DetectInterval

TimerOff ==
  /\ tpc = "idle" /\ ~timer /\ tick # 0
  /\ tick' = 0
  /\ UNCHANGED <<config, table, queueVars, judgeVars, tpc, todo, remote, bounds>>

TimerWait ==
  /\ tpc = "idle" /\ timer /\ tick # 0
  /\ tick' = NextTick
  /\ UNCHANGED <<config, table, queueVars, judgeVars, tpc, todo, remote, bounds>>

(* Mutant: the scan does not look at the queue.                            *)
TimerDueUnchecked ==
  /\ tpc = "idle" /\ timer /\ tick = 0
  /\ tick' = NextTick
  /\ tpc' = "select"
  /\ UNCHANGED <<config, table, queueVars, judgeVars, todo, remote, bounds>>

(* With requests in the queue the tick is rolled back: no step.            *)
TimerDue ==
  /\ tpc = "idle" /\ timer /\ tick = 0
  /\ queue = <<>>
  /\ tick' = NextTick
  /\ tpc' = "select"
  /\ UNCHANGED <<config, table, queueVars, judgeVars, todo, remote, bounds>>

(* Mutant: one row less than asked for.                                    *)
ScannedShort ==
  {s \in Unfinished : Cardinality({t \in Unfinished : t < s}) < DetectNum - 1}

(* SQL_getSolutionsByVerdict(V_Q): the DetectNum lowest ids.               *)
Scanned == {s \in Unfinished : Cardinality({t \in Unfinished : t < s}) < DetectNum}

TimerSelect ==
  /\ tpc = "select"
  /\ todo' = Scanned
  /\ tpc' = "enqueue"
  /\ UNCHANGED <<config, table, queueVars, judgeVars, tick, remote, bounds>>

TimerSelectFails ==
  /\ tpc = "select"
  /\ tpc' = "idle"
  /\ UNCHANGED <<config, table, queueVars, judgeVars, tick, todo, remote, bounds>>

TimerEnqueue ==
  /\ tpc = "enqueue"
  /\ \E s \in todo :
       /\ \A t \in todo : s <= t
       /\ Enqueue("timer", s, "CMD_VTY_INVALID_ID")
       /\ todo' = todo \ {s}
  /\ UNCHANGED <<config, queue, judgeVars, tpc, tick, remote, bounds>>

TimerDone ==
  /\ tpc = "enqueue" /\ todo = {} /\ ~InFlight("timer")
  /\ tpc' = "idle"
  /\ UNCHANGED <<config, table, queueVars, judgeVars, tick, todo, remote, bounds>>

TimerThread ==
  \/ TimerOff \/ TimerWait \/ TimerDue \/ TimerSelect \/ TimerSelectFails
  \/ TimerEnqueue \/ TimerDone

-----------------------------------------------------------------------------
(* The remote judger writes its verdict into the same table, or never does.*)

RemoteAnswers(s) ==
  /\ s \in remote
  /\ remote' = remote \ {s}
  /\ \E v \in Outcomes \cup {"V_CE", "V_SK"} : Write(s, v)
  /\ UNCHANGED <<config, lost, queueVars, judgeVars, timerVars, bounds>>

RemoteForgets(s) ==
  /\ s \in remote
  /\ remote' = remote \ {s}
  /\ UNCHANGED <<config, table, queueVars, judgeVars, timerVars, bounds>>

(* The process dies and starts again with the defaults of judge_var.cpp    *)
(* and judge.cpp; the saved configuration comes back as Commands.  The     *)
(* queue was in memory, the table was not.                                 *)
CrashRestart ==
  /\ crashes < MaxCrashes
  /\ crashes' = crashes + 1
  /\ enable' = TRUE /\ timer' = FALSE
  /\ queue' = <<>> /\ pushing' = {}
  /\ Goto("idle") /\ req' = NoRequest /\ Verdict("V_AC")
  /\ tpc' = "idle" /\ tick' = 0 /\ todo' = {}
  /\ UNCHANGED <<table, remote, requests>>

Init ==
  /\ enable = TRUE /\ timer = FALSE
  /\ solution = [s \in Solutions |-> "none"]
  /\ queue = <<>> /\ pushing = {}
  /\ jpc = "idle" /\ req = NoRequest /\ verdictId = "V_AC"
  /\ tpc = "idle" /\ tick = 0 /\ todo = {}
  /\ remote = {}
  /\ requests = 0 /\ crashes = 0 /\ lost = 0

Next ==
  \/ \E s \in Solutions : Submit(s)
  \/ \E c \in Clients, s \in Solutions : JudgeSolution(c, s)
  \/ \E c \in Clients, json \in JsonKinds, s \in Solutions : EnqueueTest(c, json, s)
  \/ \E c \in Commands : Command(c)
  \/ \E x \in pushing : PushEnd(x)
  \/ JudgeThread
  \/ TimerThread
  \/ \E s \in Solutions : RemoteAnswers(s) \/ RemoteForgets(s)
  \/ CrashRestart

Spec == Init /\ [][Next]_vars

(* Both loops run for ever with a sleep between rounds, a push in flight   *)
(* is completed by its thread, and a query repeated for ever succeeds again *)
(* and again.  Nothing is assumed of the remote judger.                    *)
Fairness ==
  /\ WF_vars(JudgeThread)
  /\ WF_vars(TimerThread) /\ SF_vars(TimerSelect)
  /\ \A p \in Producers : WF_vars(\E x \in pushing : x.by = p /\ PushEnd(x))

FairSpec == Spec /\ Fairness

-----------------------------------------------------------------------------
(* Properties.                                                             *)

(* The request under judgement is still the front of the queue.            *)
FrontKept == jpc # "idle" => queue # <<>>

(* The queue never holds two detected requests for the same solution,      *)
(* nor one for a solution still to be enqueued: the timer scans            *)
(* an empty queue only, and the request under judgement stays in it.       *)
IsDetected(r) == r.vtyId = "CMD_VTY_INVALID_ID"
DetectedOnce ==
  \A i, j \in 1 .. Len(queue) :
     IsDetected(queue[i]) /\ IsDetected(queue[j]) =>
       /\ i # j => queue[i].solutionId # queue[j].solutionId
       /\ queue[i].solutionId \notin todo

(* Why DetectedOnce holds: only the timer pushes detected requests, one at *)
(* a time and while it enqueues a scan, which began with an empty queue.   *)
TimerPushes ==
  \A x \in pushing :
     /\ IsDetected(x.req) <=> x.by = "timer"
     /\ x.by = "timer" =>
          /\ tpc = "enqueue" /\ x.req.solutionId \notin todo
          /\ \A i \in 1 .. Len(queue) :
               IsDetected(queue[i]) => queue[i].solutionId # x.req.solutionId
OnePushEach == \A x, y \in pushing : x.by = y.by => x = y
ScanBegins ==
  /\ tpc # "enqueue" => todo = {}
  /\ tpc = "select" => \A i \in 1 .. Len(queue) : ~IsDetected(queue[i])

QueueInv ==
  TypeOK /\ FrontKept /\ TimerPushes /\ OnePushEach /\ ScanBegins /\ DetectedOnce

(* A row says V_C only while the judge thread works on that solution,      *)
(* except for rows it left behind: one a crash, one a refused update.      *)
UnderJudgement(s) ==
  jpc \in {"compile", "exec", "publish"} /\ InSubmitMode /\ req.solutionId = s
Orphans == {s \in Solutions : solution[s] = "V_C" /\ ~UnderJudgement(s)}
OrphansBounded == Cardinality(Orphans) <= crashes + lost

(* The auto-detection never starts a scan while a request is judged: the   *)
(* judge thread pops the queue only after judge_request_proc.              *)
NoScanWhileJudging == [][tpc = "idle" /\ tpc' = "select" => jpc = "idle"]_vars

(* The queue implements the service: one request at a time, in order, and  *)
(* one result each unless the database refuses it, whatever overlapping    *)
(* pushes do to the waiting ones.                                          *)
Target(r) == IF r.jsonMsg \in {"NULL", "submit"} THEN r.solutionId ELSE 0
TargetsOf(q) == [i \in 1 .. Len(q) |-> Target(q[i])]
StatusOf(v) ==
  CASE v = "none" -> "none" [] v = "V_Q" -> "queued" [] v = "V_C" -> "judging"
    [] OTHER -> "settled"

ServiceWaiting == TargetsOf(IF jpc = "idle" THEN queue ELSE Tail(queue))
ServiceActive  == IF jpc = "idle" THEN 0 ELSE Target(req)
ServicePhase   == IF jpc = "idle" THEN "free" ELSE IF jpc = "pop" THEN "closed" ELSE "open"
ServiceStatus  == [s \in Solutions |-> StatusOf(solution[s])]

Service == INSTANCE JudgeService WITH
  waiting <- ServiceWaiting, active <- ServiceActive, phase <- ServicePhase,
  status <- ServiceStatus

ImplementsService == Service!Spec

(* With auto-detection and judging enabled for good, every solution of a   *)
(* local problem whose judging is not finished is found and gets a verdict.*)
UnfinishedAreFound ==
  <>[](enable /\ timer) =>
    \A s \in Solutions \ Virtual : solution[s] \in {"V_Q", "V_C"} ~> solution[s] \in Settled

(* With a single client and no detection every request in the queue is     *)
(* judged: no push overlaps another, so none is overwritten.               *)
Queued(s) == \E i \in 1 .. Len(queue) : queue[i].solutionId = s
RequestsServed ==
  Cardinality(Clients) = 1 /\ [](~timer) =>
    \A s \in Solutions : Queued(s) ~> jpc = "pop" /\ req.solutionId = s

(* V_Q hands a row over to the remote judger: it is not written over the   *)
(* verdict the remote judger has meanwhile given. It does not hold: the    *)
(* request goes out before V_Q is written. No run checks it.               *)
RemoteVerdictStands ==
  [][\A s \in Solutions :
       jpc = "publish" /\ req.solutionId = s /\ verdictId = "V_Q"
         /\ s \notin remote /\ solution[s] \in Settled
       => solution'[s] # "V_Q"]_vars
=============================================================================
