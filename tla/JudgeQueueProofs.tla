------------------------- MODULE JudgeQueueProofs -------------------------
(* Theorems about the judge queue, for every value of its constants.       *)
EXTENDS JudgeQueue, SequenceTheorems, FiniteSetTheorems, TLAPS

-----------------------------------------------------------------------------
(* The types.  TypeOK is not inductive alone: popping keeps the queue a    *)
(* sequence only because the request under judgement is still its front.   *)

(* The requests a producer makes are requests of the queue.                *)
LEMMA RequestTypes ==
  /\ \A s \in Solutions \cup {0}, v \in {"client", "CMD_VTY_INVALID_ID", "stale"} :
       Submission(s, v) \in Requests
  /\ \A s \in Solutions, json \in JsonKinds : JsonRequest(json, s) \in Requests
  /\ NoRequest \in Requests
BY JsonAssumption DEF Submission, JsonRequest, NoRequest, Requests

(* Beginning a push keeps the types of the queue.                          *)
LEMMA PushBeginType ==
  ASSUME TypeOK, NEW p \in Producers, NEW r \in Requests, PushBegin(p, r)
  PROVE  pushing' \subseteq Pushes
<1>1. Len(queue) + 1 \in Nat
  BY LenProperties DEF TypeOK
<1>2. [by |-> p, req |-> r, slot |-> Len(queue) + 1] \in Pushes
  BY <1>1 DEF Pushes
<1> QED
  BY <1>2 DEF PushBegin, TypeOK

(* An update of the table keeps its types, accepted or refused.            *)
LEMMA UpdateType ==
  ASSUME TypeOK, NEW s, NEW v \in Verdicts, Update(s, v)
  PROVE  /\ solution' \in [Solutions -> Verdicts \cup {"none"}]
         /\ lost' \in 0 .. MaxLost
BY BoundsAssumption DEF TypeOK, Update, Write, Refused

(* Enqueuing keeps the types, whether judging is enabled or not.           *)
LEMMA EnqueueType ==
  ASSUME TypeOK, NEW p \in Producers, NEW s \in Solutions,
         NEW v \in {"client", "CMD_VTY_INVALID_ID"}, Enqueue(p, s, v)
  PROVE  /\ pushing' \subseteq Pushes
         /\ solution' \in [Solutions -> Verdicts \cup {"none"}]
         /\ lost' \in 0 .. MaxLost
<1>1. CASE enable
  BY <1>1, RequestTypes, PushBeginType DEF Enqueue, TypeOK, table
<1>2. CASE ~enable
  <2>1. "V_SK" \in Verdicts
    BY DEF Verdicts, Settled
  <2> QED
    BY <1>2, <2>1, UpdateType DEF Enqueue, TypeOK
<1> QED
  BY <1>1, <1>2

(* The front can be popped from a queue that is not empty.                 *)
LEMMA PopFrontType ==
  ASSUME TypeOK, queue # <<>>, PopFront
  PROVE  queue' \in Seq(Requests) /\ pushing' \subseteq Pushes
<1>1. queue' \in Seq(Requests)
  BY HeadTailProperties DEF PopFront, TypeOK
<1>2. ASSUME NEW x \in pushing
      PROVE  [x EXCEPT !.slot = IF @ = 0 THEN 0 ELSE @ - 1] \in Pushes
  BY DEF TypeOK, Pushes
<1> QED
  BY <1>1, <1>2 DEF PopFront

(* Completing a push keeps the types and never empties the queue.          *)
LEMMA PushEndType ==
  ASSUME TypeOK, NEW x \in pushing, PushEnd(x)
  PROVE  /\ queue' \in Seq(Requests)
         /\ queue # <<>> => queue' # <<>>
<1> DEFINE stored == IF x.slot \in 1 .. Len(queue)
                     THEN [queue EXCEPT ![x.slot] = x.req] ELSE queue
<1>1. x.req \in Requests /\ queue \in Seq(Requests) /\ x.slot \in Nat
  BY DEF TypeOK, Pushes
<1>2. stored \in Seq(Requests) /\ Len(stored) = Len(queue)
  BY <1>1, ExceptSeq
<1>3. CASE x.slot = Len(queue) + 1
  <2>1. queue' = Append(queue, x.req)
    BY <1>3 DEF PushEnd
  <2> QED
    BY <1>1, <2>1, AppendProperties
<1>4. CASE x.slot # Len(queue) + 1
  <2>1. \/ queue' = stored
        \/ \E s \in Solutions \cup {0} : queue' = Append(stored, Submission(s, "stale"))
    BY <1>4 DEF PushEnd
  <2> QED
    BY <1>2, <2>1, RequestTypes, AppendProperties
<1> QED
  BY <1>3, <1>4

(* Every action keeps the types and the front of the queue.                *)
LEMMA TypeStep ==
  ASSUME TypeOK, FrontKept, [Next]_vars
  PROVE  TypeOK' /\ FrontKept'
<1> USE BoundsAssumption
<1>1. ASSUME NEW s \in Solutions, Submit(s) PROVE TypeOK' /\ FrontKept'
  BY <1>1 DEF Submit, TypeOK, FrontKept, Verdicts, config, table, queueVars, judgeVars,
              timerVars, bounds
<1>2. ASSUME NEW c \in Clients, NEW s \in Solutions, JudgeSolution(c, s)
      PROVE  TypeOK' /\ FrontKept'
  <2>1. /\ pushing' \subseteq Pushes
        /\ solution' \in [Solutions -> Verdicts \cup {"none"}]
        /\ lost' \in 0 .. MaxLost
    BY <1>2, EnqueueType DEF JudgeSolution, Producers
  <2>2. requests' \in 0 .. MaxRequests
    BY <1>2 DEF JudgeSolution, TypeOK
  <2> QED
    BY <1>2, <2>1, <2>2 DEF JudgeSolution, TypeOK, FrontKept, config, table, judgeVars, timerVars
<1>3. ASSUME NEW c \in Clients, NEW json \in JsonKinds, NEW s \in Solutions,
             EnqueueTest(c, json, s)
      PROVE  TypeOK' /\ FrontKept'
  <2>1. pushing' \subseteq Pushes
    BY <1>3, RequestTypes, PushBeginType DEF EnqueueTest, Producers, TypeOK
  <2>2. requests' \in 0 .. MaxRequests
    BY <1>3 DEF EnqueueTest, TypeOK
  <2> QED
    BY <1>3, <2>1, <2>2 DEF EnqueueTest, TypeOK, FrontKept, config, table, judgeVars, timerVars
<1>4. ASSUME NEW c \in Commands, Command(c) PROVE TypeOK' /\ FrontKept'
  <2>1. enable' \in BOOLEAN /\ timer' \in BOOLEAN
    BY <1>4 DEF Command, TypeOK
  <2> QED
    BY <1>4, <2>1 DEF Command, TypeOK, FrontKept, table, queueVars, judgeVars, timerVars, bounds
<1>5. ASSUME NEW x \in pushing, PushEnd(x) PROVE TypeOK' /\ FrontKept'
  <2>1. queue' \in Seq(Requests) /\ (queue # <<>> => queue' # <<>>)
    BY <1>5, PushEndType
  <2>2. pushing' \subseteq Pushes
    BY <1>5 DEF PushEnd, TypeOK
  <2> QED
    BY <1>5, <2>1, <2>2 DEF PushEnd, TypeOK, FrontKept, config, table, judgeVars, timerVars, bounds
<1>6. ASSUME JudgeThread PROVE TypeOK' /\ FrontKept'
  <2> USE DEF TypeOK, FrontKept, Goto, Verdict, config, table, queueVars, timerVars, bounds
  <2>1. CASE Pick
    <3>1. req' \in Requests
      BY <2>1, HeadTailProperties DEF Pick
    <3> QED
      BY <2>1, <3>1 DEF Pick
  <2>2. CASE RequestInit
    BY <2>2 DEF RequestInit, Settled
  <2>3. CASE RunVirtual
    <3>1. req.solutionId \in Solutions
      BY <2>3, VirtualAssumption DEF RunVirtual
    <3>2. verdictId' \in Settled \cup {"V_Q"} /\ remote' \subseteq Solutions
      BY <2>3, <3>1 DEF RunVirtual, Settled
    <3> QED
      BY <2>3, <3>2 DEF RunVirtual
  <2>4. CASE CompileBegin
    <3>1. "V_C" \in Verdicts
      BY DEF Verdicts
    <3>2. solution' \in [Solutions -> Verdicts \cup {"none"}] /\ lost' \in 0 .. MaxLost
      BY <2>4, <3>1, UpdateType DEF CompileBegin
    <3> QED
      BY <2>4, <3>2 DEF CompileBegin
  <2>5. CASE CompileEnd
    BY <2>5 DEF CompileEnd, Settled
  <2>6. CASE RunCases
    BY <2>6 DEF RunCases, Settled
  <2>7. CASE ResultToDb
    <3>1. verdictId \in Verdicts
      BY DEF Verdicts
    <3>2. solution' \in [Solutions -> Verdicts \cup {"none"}] /\ lost' \in 0 .. MaxLost
      BY <2>7, <3>1, UpdateType DEF ResultToDb
    <3> QED
      BY <2>7, <3>2 DEF ResultToDb
  <2>8. CASE Pop
    <3>1. queue' \in Seq(Requests) /\ pushing' \subseteq Pushes
      BY <2>8, PopFrontType DEF Pop
    <3> QED
      BY <2>8, <3>1, RequestTypes DEF Pop, Settled
  <2> QED
    BY <1>6, <2>1, <2>2, <2>3, <2>4, <2>5, <2>6, <2>7, <2>8 DEF JudgeThread
<1>7. ASSUME TimerThread PROVE TypeOK' /\ FrontKept'
  <2> USE DEF TypeOK, FrontKept, config, table, queueVars, judgeVars, bounds
  <2>1. NextTick \in 0 .. DetectInterval - 1
    BY DEF NextTick
  <2>2. CASE TimerOff
    BY <2>2 DEF TimerOff
  <2>3. CASE TimerWait
    BY <2>1, <2>3 DEF TimerWait
  <2>4. CASE TimerDue
    BY <2>1, <2>4 DEF TimerDue
  <2>5. CASE TimerSelect
    BY <2>5 DEF TimerSelect, Scanned, Unfinished
  <2>6. CASE TimerSelectFails
    BY <2>6 DEF TimerSelectFails
  <2>7. CASE TimerEnqueue
    <3>1. PICK s \in todo : /\ Enqueue("timer", s, "CMD_VTY_INVALID_ID")
                           /\ todo' = todo \ {s}
      BY <2>7 DEF TimerEnqueue
    <3>2. /\ pushing' \subseteq Pushes
          /\ solution' \in [Solutions -> Verdicts \cup {"none"}]
          /\ lost' \in 0 .. MaxLost
      BY <3>1, EnqueueType DEF Producers
    <3> QED
      BY <2>7, <3>1, <3>2 DEF TimerEnqueue
  <2>8. CASE TimerDone
    BY <2>8 DEF TimerDone
  <2> QED
    BY <1>7, <2>2, <2>3, <2>4, <2>5, <2>6, <2>7, <2>8 DEF TimerThread
<1>8. ASSUME NEW s \in Solutions, RemoteAnswers(s) \/ RemoteForgets(s)
      PROVE  TypeOK' /\ FrontKept'
  BY <1>8 DEF RemoteAnswers, RemoteForgets, TypeOK, FrontKept, Write, Verdicts, Settled,
              config, table, queueVars, judgeVars, timerVars, bounds
<1>9. ASSUME CrashRestart PROVE TypeOK' /\ FrontKept'
  <2>1. crashes' \in 0 .. MaxCrashes
    BY <1>9 DEF CrashRestart, TypeOK
  <2>2. queue' = <<>>
    BY <1>9 DEF CrashRestart
  <2>3. queue' \in Seq(Requests)
    BY <2>2, EmptySeq
  <2>4. pushing' \subseteq Pushes /\ req' \in Requests
    BY <1>9, RequestTypes DEF CrashRestart
  <2>5. /\ enable' \in BOOLEAN /\ timer' \in BOOLEAN
        /\ jpc' = "idle" /\ tpc' = "idle"
        /\ verdictId' \in Settled \cup {"V_Q"}
    BY <1>9 DEF CrashRestart, Goto, Verdict, Settled
  <2>6. /\ tick' \in 0 .. DetectInterval - 1
        /\ todo' \subseteq Solutions
        /\ UNCHANGED <<solution, lost, remote, requests>>
    BY <1>9 DEF CrashRestart, table
  <2> QED
    BY <2>1, <2>3, <2>4, <2>5, <2>6 DEF TypeOK, FrontKept
<1>10. ASSUME UNCHANGED vars PROVE TypeOK' /\ FrontKept'
  BY <1>10 DEF vars, TypeOK, FrontKept, config, table, queueVars, judgeVars, timerVars, bounds
<1> QED
  BY <1>1, <1>2, <1>3, <1>4, <1>5, <1>6, <1>7, <1>8, <1>9, <1>10 DEF Next

(* The initial states are well typed.                                      *)
LEMMA TypeInit == Init => TypeOK /\ FrontKept
<1> SUFFICES ASSUME Init PROVE TypeOK /\ FrontKept
  OBVIOUS
<1>1. queue = <<>>
  BY DEF Init
<1>2. queue \in Seq(Requests)
  BY <1>1, EmptySeq
<1>3. pushing \subseteq Pushes /\ req \in Requests
  BY RequestTypes DEF Init
<1>4. /\ enable \in BOOLEAN /\ timer \in BOOLEAN
      /\ jpc = "idle" /\ tpc = "idle"
      /\ verdictId \in Settled \cup {"V_Q"}
      /\ solution \in [Solutions -> Verdicts \cup {"none"}]
  BY DEF Init, Settled
<1>5. /\ tick \in 0 .. DetectInterval - 1
      /\ todo \subseteq Solutions /\ remote \subseteq Solutions
      /\ requests \in 0 .. MaxRequests /\ crashes \in 0 .. MaxCrashes /\ lost \in 0 .. MaxLost
  BY BoundsAssumption DEF Init
<1> QED
  BY <1>2, <1>3, <1>4, <1>5 DEF TypeOK, FrontKept

(* The state of the judge has the types the code gives it, and whenever    *)
(* the judge thread is at work (judge.cpp:1203-1208, the front is popped   *)
(* last) the queue still holds a front for it to pop.                      *)
THEOREM TypeCorrect == Spec => [](TypeOK /\ FrontKept)
<1>1. Init => TypeOK /\ FrontKept
  BY TypeInit
<1>2. TypeOK /\ FrontKept /\ [Next]_vars => TypeOK' /\ FrontKept'
  BY TypeStep
<1> QED
  BY <1>1, <1>2, PTL DEF Spec

-----------------------------------------------------------------------------
(* The detected requests.                                                  *)

DetectInv == TimerPushes /\ OnePushEach /\ ScanBegins /\ DetectedOnce

(* A client's push is not a detected one and disturbs none.                *)
LEMMA ClientPushDetect ==
  ASSUME DetectInv, NEW c \in Clients, NEW r, ~IsDetected(r), PushBegin(c, r),
         UNCHANGED <<queue, tpc, todo>>
  PROVE  DetectInv'
<1> DEFINE new == [by |-> c, req |-> r, slot |-> Len(queue) + 1]
<1>1. c # "timer"
  BY ClientsAssumption
<1>2. pushing' = pushing \cup {new} /\ \A x \in pushing : x.by # c
  BY DEF PushBegin, InFlight
<1>3. new.by = c /\ new.req = r
  OBVIOUS
<1> HIDE DEF new
<1>4. OnePushEach'
  BY <1>2, <1>3 DEF DetectInv, OnePushEach
<1>5. TimerPushes'
  BY <1>1, <1>2, <1>3 DEF DetectInv, TimerPushes, IsDetected
<1>6. ScanBegins' /\ DetectedOnce'
  BY DEF DetectInv, ScanBegins, DetectedOnce, IsDetected
<1> QED
  BY <1>4, <1>5, <1>6 DEF DetectInv

(* Completing a push: whatever cell it lands in, the queue holds at most   *)
(* the detected request it held before and the one pushed.                 *)
LEMMA PushEndDetect ==
  ASSUME TypeOK, DetectInv, NEW x \in pushing, PushEnd(x)
  PROVE  DetectInv'
<1> DEFINE stored == IF x.slot \in 1 .. Len(queue)
                     THEN [queue EXCEPT ![x.slot] = x.req] ELSE queue
<1>1. queue \in Seq(Requests) /\ x.slot \in Nat /\ x.req \in Requests
  BY DEF TypeOK, Pushes
<1>2. Len(queue) \in Nat
  BY <1>1, LenProperties
<1>3. UNCHANGED <<tpc, todo>> /\ pushing' = pushing \ {x}
  BY DEF PushEnd, timerVars
<1>4. /\ stored \in Seq(Requests) /\ Len(stored) = Len(queue)
      /\ \A i \in 1 .. Len(queue) :
           stored[i] = IF i = x.slot THEN x.req ELSE queue[i]
  BY <1>1, ExceptSeq
<1>5. \/ /\ x.slot = Len(queue) + 1 /\ Len(queue') = Len(queue) + 1
         /\ \A i \in 1 .. Len(queue') :
              queue'[i] = IF i = x.slot THEN x.req ELSE queue[i]
      \/ /\ Len(queue') = Len(queue)
         /\ \A i \in 1 .. Len(queue') :
              queue'[i] = IF i = x.slot THEN x.req ELSE queue[i]
      \/ /\ x.slot # Len(queue) + 1 /\ Len(queue') = Len(queue) + 1
         /\ \A i \in 1 .. Len(queue) :
              queue'[i] = IF i = x.slot THEN x.req ELSE queue[i]
         /\ ~IsDetected(queue'[Len(queue) + 1])
  <2>1. CASE x.slot = Len(queue) + 1
    <3>1. queue' = Append(queue, x.req)
      BY <2>1 DEF PushEnd
    <3> QED
      BY <1>1, <1>2, <2>1, <3>1, AppendProperties
  <2>2. CASE x.slot # Len(queue) + 1
    <3>1. \/ queue' = stored
          \/ \E s \in Solutions \cup {0} : queue' = Append(stored, Submission(s, "stale"))
      BY <2>2 DEF PushEnd
    <3>2. CASE queue' = stored
      BY <1>4, <3>2
    <3>3. ASSUME NEW s \in Solutions \cup {0}, queue' = Append(stored, Submission(s, "stale"))
          PROVE  /\ Len(queue') = Len(queue) + 1
                 /\ \A i \in 1 .. Len(queue) : queue'[i] = stored[i]
                 /\ queue'[Len(queue) + 1] = Submission(s, "stale")
      BY <1>2, <1>4, <3>3, RequestTypes, AppendProperties
    <3>4. \A s \in Solutions \cup {0} : ~IsDetected(Submission(s, "stale"))
      BY DEF IsDetected, Submission
    <3> QED
      BY <1>4, <2>2, <3>1, <3>2, <3>3, <3>4
  <2> QED
    BY <2>1, <2>2
<1>6. \A i \in 1 .. Len(queue') : IsDetected(queue'[i]) =>
         \/ i = x.slot /\ queue'[i] = x.req
         \/ i # x.slot /\ i \in 1 .. Len(queue) /\ queue'[i] = queue[i]
  BY <1>1, <1>2, <1>5
<1> HIDE DEF stored
<1>7. OnePushEach'
  BY <1>3 DEF DetectInv, OnePushEach
<1>8. ScanBegins'
  BY <1>3, <1>6 DEF DetectInv, ScanBegins, TimerPushes
<1>9. DetectedOnce'
  <2>1. ASSUME NEW i \in 1 .. Len(queue'), NEW j \in 1 .. Len(queue'),
               IsDetected(queue'[i]), IsDetected(queue'[j]), i # j
        PROVE  queue'[i].solutionId # queue'[j].solutionId
    BY <1>6, <2>1 DEF DetectInv, TimerPushes, DetectedOnce
  <2>2. ASSUME NEW i \in 1 .. Len(queue'), IsDetected(queue'[i])
        PROVE  queue'[i].solutionId \notin todo'
    BY <1>3, <1>6, <2>2 DEF DetectInv, TimerPushes, DetectedOnce
  <2> QED
    BY <2>1, <2>2 DEF DetectedOnce, IsDetected
<1>10. TimerPushes'
  <2>1. ASSUME NEW y \in pushing', y.by = "timer"
        PROVE  x.by # "timer"
    BY <1>3, <2>1 DEF DetectInv, OnePushEach
  <2>2. ASSUME NEW y \in pushing', y.by = "timer", NEW i \in 1 .. Len(queue'),
               IsDetected(queue'[i])
        PROVE  queue'[i].solutionId # y.req.solutionId
    BY <1>3, <1>6, <2>1, <2>2 DEF DetectInv, TimerPushes
  <2> QED
    BY <1>3, <2>2 DEF DetectInv, TimerPushes, IsDetected
<1> QED
  BY <1>7, <1>8, <1>9, <1>10 DEF DetectInv

(* Popping the front keeps what is said of all the queue and all pushes.   *)
LEMMA PopDetect ==
  ASSUME TypeOK, DetectInv, queue # <<>>, PopFront, UNCHANGED <<tpc, todo>>
  PROVE  DetectInv'
<1>1. /\ Len(queue) \in Nat /\ Len(queue') = Len(queue) - 1
      /\ \A i \in 1 .. Len(queue') : queue'[i] = queue[i + 1]
  BY HeadTailProperties, LenProperties DEF TypeOK, PopFront
<1>2. \A i \in 1 .. Len(queue') : i + 1 \in 1 .. Len(queue)
  BY <1>1
<1>3. \A y \in pushing' : \E x \in pushing : y.by = x.by /\ y.req = x.req
                        /\ y = [x EXCEPT !.slot = IF @ = 0 THEN 0 ELSE @ - 1]
  BY DEF PopFront, TypeOK, Pushes
<1>4. OnePushEach'
  BY <1>3 DEF DetectInv, OnePushEach
<1>5. TimerPushes'
  BY <1>1, <1>2, <1>3 DEF DetectInv, TimerPushes, IsDetected
<1>6. ScanBegins'
  BY <1>1, <1>2 DEF DetectInv, ScanBegins, IsDetected
<1>7. DetectedOnce'
  <2>1. ASSUME NEW i \in 1 .. Len(queue'), NEW j \in 1 .. Len(queue'),
               IsDetected(queue'[i]), IsDetected(queue'[j])
        PROVE  /\ i # j => queue'[i].solutionId # queue'[j].solutionId
               /\ queue'[i].solutionId \notin todo
    <3>1. /\ i + 1 \in 1 .. Len(queue) /\ j + 1 \in 1 .. Len(queue)
          /\ i # j => i + 1 # j + 1
          /\ queue'[i] = queue[i + 1] /\ queue'[j] = queue[j + 1]
      BY <1>1, <1>2
    <3> QED
      BY <2>1, <3>1 DEF DetectInv, DetectedOnce
  <2> QED
    BY <2>1 DEF DetectedOnce, IsDetected
<1> QED
  BY <1>4, <1>5, <1>6, <1>7 DEF DetectInv

(* Every step keeps the invariant of the detected requests.                *)
LEMMA DetectStep ==
  ASSUME TypeOK, FrontKept, DetectInv, [Next]_vars
  PROVE  DetectInv'
<1>1. ASSUME UNCHANGED <<queue, pushing, tpc, todo>> PROVE DetectInv'
  BY <1>1 DEF DetectInv, TimerPushes, OnePushEach, ScanBegins, DetectedOnce, IsDetected
<1>2. ASSUME NEW s \in Solutions, Submit(s) PROVE DetectInv'
  BY <1>1, <1>2 DEF Submit, queueVars, timerVars
<1>3. ASSUME NEW c \in Clients, NEW s \in Solutions, JudgeSolution(c, s)
      PROVE  DetectInv'
  <2>1. ~IsDetected(Submission(s, "client"))
    BY DEF IsDetected, Submission
  <2>2. UNCHANGED <<queue, tpc, todo>>
    BY <1>3 DEF JudgeSolution, timerVars
  <2>3. PushBegin(c, Submission(s, "client")) \/ UNCHANGED pushing
    BY <1>3 DEF JudgeSolution, Enqueue
  <2> QED
    BY <1>1, <2>1, <2>2, <2>3, ClientPushDetect
<1>4. ASSUME NEW c \in Clients, NEW json \in JsonKinds, NEW s \in Solutions,
             EnqueueTest(c, json, s)
      PROVE  DetectInv'
  <2>1. ~IsDetected(JsonRequest(json, s))
    BY DEF IsDetected, JsonRequest
  <2>2. UNCHANGED <<queue, tpc, todo>>
    BY <1>4 DEF EnqueueTest, timerVars
  <2>3. PushBegin(c, JsonRequest(json, s)) \/ UNCHANGED pushing
    BY <1>4 DEF EnqueueTest
  <2> QED
    BY <1>1, <2>1, <2>2, <2>3, ClientPushDetect
<1>5. ASSUME NEW c \in Commands, Command(c) PROVE DetectInv'
  BY <1>1, <1>5 DEF Command, queueVars, timerVars
<1>6. ASSUME NEW x \in pushing, PushEnd(x) PROVE DetectInv'
  BY <1>6, PushEndDetect
<1>7. ASSUME JudgeThread PROVE DetectInv'
  <2>1. CASE Pop
    BY <2>1, PopDetect DEF Pop, FrontKept, timerVars
  <2>2. CASE \/ Pick \/ RequestInit \/ RunVirtual \/ CompileBegin \/ CompileEnd
             \/ RunCases \/ ResultToDb
    BY <1>1, <2>2 DEF Pick, RequestInit, RunVirtual, CompileBegin, CompileEnd, RunCases,
                      ResultToDb, queueVars, timerVars
  <2> QED
    BY <1>7, <2>1, <2>2 DEF JudgeThread
<1>8. ASSUME TimerThread PROVE DetectInv'
  <2> USE DEF TimerPushes, OnePushEach, ScanBegins, DetectedOnce, IsDetected
  <2>1. CASE TimerOff \/ TimerWait
    BY <1>1, <2>1 DEF TimerOff, TimerWait, queueVars
  <2>2. CASE TimerDue
    <3>1. queue = <<>> /\ Len(queue) = 0
      BY <2>2, EmptySeq DEF TimerDue
    <3>2. UNCHANGED <<queue, pushing, todo>> /\ tpc = "idle" /\ tpc' = "select"
      BY <2>2 DEF TimerDue, queueVars
    <3> QED
      BY <3>1, <3>2 DEF DetectInv
  <2>3. CASE TimerSelect
    BY <2>3 DEF TimerSelect, DetectInv, queueVars
  <2>4. CASE TimerSelectFails
    BY <2>4 DEF TimerSelectFails, DetectInv, queueVars
  <2>5. CASE TimerEnqueue
    <3>1. PICK s \in todo : /\ Enqueue("timer", s, "CMD_VTY_INVALID_ID")
                           /\ todo' = todo \ {s}
      BY <2>5 DEF TimerEnqueue
    <3>2. tpc = "enqueue" /\ UNCHANGED <<queue, tpc>>
      BY <2>5 DEF TimerEnqueue
    <3>3. CASE UNCHANGED pushing
      BY <3>1, <3>2, <3>3 DEF DetectInv
    <3>4. CASE PushBegin("timer", Submission(s, "CMD_VTY_INVALID_ID"))
      <4> DEFINE new == [by |-> "timer", req |-> Submission(s, "CMD_VTY_INVALID_ID"),
                         slot |-> Len(queue) + 1]
      <4>1. pushing' = pushing \cup {new} /\ \A x \in pushing : x.by # "timer"
        BY <3>4 DEF PushBegin, InFlight
      <4>2. /\ new.by = "timer" /\ new.req.solutionId = s
            /\ new.req.vtyId = "CMD_VTY_INVALID_ID"
        BY DEF Submission
      <4> HIDE DEF new
      <4>3. \A i \in 1 .. Len(queue) : IsDetected(queue[i]) => queue[i].solutionId # s
        BY DEF DetectInv
      <4> QED
        BY <3>1, <3>2, <4>1, <4>2, <4>3 DEF DetectInv
    <3> QED
      BY <3>1, <3>3, <3>4 DEF Enqueue
  <2>6. CASE TimerDone
    <3>1. \A x \in pushing : x.by # "timer"
      BY <2>6 DEF TimerDone, InFlight
    <3>2. UNCHANGED <<queue, pushing, todo>> /\ todo = {} /\ tpc' = "idle"
      BY <2>6 DEF TimerDone, queueVars
    <3> QED
      BY <3>1, <3>2 DEF DetectInv
  <2> QED
    BY <1>8, <2>1, <2>2, <2>3, <2>4, <2>5, <2>6 DEF TimerThread
<1>9. ASSUME NEW s \in Solutions, RemoteAnswers(s) \/ RemoteForgets(s) PROVE DetectInv'
  BY <1>1, <1>9 DEF RemoteAnswers, RemoteForgets, queueVars, timerVars
<1>10. ASSUME CrashRestart PROVE DetectInv'
  <2>1. /\ queue' = <<>> /\ pushing' = {} /\ todo' = {} /\ tpc' = "idle"
    BY <1>10 DEF CrashRestart
  <2>2. Len(queue') = 0
    BY <2>1, EmptySeq
  <2> QED
    BY <2>1, <2>2 DEF DetectInv, TimerPushes, OnePushEach, ScanBegins, DetectedOnce
<1>11. ASSUME UNCHANGED vars PROVE DetectInv'
  BY <1>1, <1>11 DEF vars, queueVars, timerVars
<1> QED
  BY <1>2, <1>3, <1>4, <1>5, <1>6, <1>7, <1>8, <1>9, <1>10, <1>11 DEF Next

(* The invariant of the detected requests holds initially.                 *)
LEMMA DetectInit == Init => DetectInv
<1> SUFFICES ASSUME Init PROVE DetectInv
  OBVIOUS
<1>1. /\ queue = <<>> /\ pushing = {} /\ todo = {} /\ tpc = "idle"
  BY DEF Init
<1>2. Len(queue) = 0
  BY <1>1, EmptySeq
<1> QED
  BY <1>1, <1>2 DEF DetectInv, TimerPushes, OnePushEach, ScanBegins, DetectedOnce

(* The inductive invariant of the queue.                                   *)
THEOREM QueueInvariant == Spec => []QueueInv
<1>1. Init => DetectInv
  BY DetectInit
<1>2. TypeOK /\ FrontKept /\ DetectInv /\ [Next]_vars => DetectInv'
  BY DetectStep
<1>3. TypeOK /\ FrontKept /\ DetectInv => QueueInv
  BY DEF QueueInv, DetectInv
<1> QED
  BY <1>1, <1>2, <1>3, TypeCorrect, PTL DEF Spec

(* However pushes overlap, the auto-detection (judge.cpp:1217) never has   *)
(* two requests for one solution in the queue, or one that it will repeat. *)
THEOREM DetectedAtMostOnce == Spec => []DetectedOnce
<1>1. QueueInv => DetectedOnce
  BY DEF QueueInv
<1> QED
  BY <1>1, QueueInvariant, PTL

(* A scan begins only while no request is judged, for any configuration:   *)
(* the size test of judge.cpp:1238 sees the request under judgement.       *)
THEOREM ScansOnlyWhenIdle == Spec => NoScanWhileJudging
<1>1. FrontKept /\ [Next]_vars => [tpc = "idle" /\ tpc' = "select" => jpc = "idle"]_vars
  <2> SUFFICES ASSUME FrontKept, Next, tpc = "idle", tpc' = "select"
               PROVE  jpc = "idle"
    OBVIOUS
  <2>1. CASE TimerDue
    BY <2>1 DEF TimerDue, FrontKept
  <2>2. CASE ~TimerDue
    BY <2>2 DEF Next, Submit, JudgeSolution, EnqueueTest, Command, PushEnd, JudgeThread,
         Pick, RequestInit, RunVirtual, CompileBegin, CompileEnd, RunCases, ResultToDb, Pop,
         TimerThread, TimerOff, TimerWait, TimerSelect, TimerSelectFails, TimerEnqueue,
         TimerDone, RemoteAnswers, RemoteForgets, CrashRestart, timerVars
  <2> QED
    BY <2>1, <2>2
<1> QED
  BY <1>1, TypeCorrect, PTL DEF Spec, NoScanWhileJudging

-----------------------------------------------------------------------------
(* The rows left in V_C.                                                   *)

(* Only a crash or a refused update adds an orphan, and only the solution  *)
(* under judgement.                                                        *)
LostOne ==
  \/ crashes' = crashes + 1 /\ lost' = lost
  \/ crashes' = crashes /\ lost' = lost + 1

(* A step adds at most one orphan, and only one with a loss.               *)
LEMMA OrphansStep ==
  ASSUME TypeOK, [Next]_vars
  PROVE  \/ Orphans' \subseteq Orphans
         \/ Orphans' \subseteq Orphans \cup {req.solutionId} /\ LostOne
<1> USE DEF Orphans, UnderJudgement, InSubmitMode
<1>1. ASSUME UNCHANGED <<table, jpc, req>> PROVE Orphans' \subseteq Orphans
  BY <1>1 DEF table
<1>2. ASSUME NEW s \in Solutions, NEW v, v # "V_C", Update(s, v), UNCHANGED <<jpc, req>>
      PROVE  Orphans' \subseteq Orphans
  BY <1>2 DEF Update, Write, Refused, TypeOK
<1>3. ASSUME NEW s \in Solutions, Submit(s) PROVE Orphans' \subseteq Orphans
  BY <1>3 DEF Submit, judgeVars, TypeOK
<1>4. ASSUME NEW c \in Clients, NEW s \in Solutions, JudgeSolution(c, s)
      PROVE  Orphans' \subseteq Orphans
  BY <1>1, <1>2, <1>4 DEF JudgeSolution, Enqueue, judgeVars
<1>5. ASSUME NEW c \in Clients, NEW json \in JsonKinds, NEW s \in Solutions,
             EnqueueTest(c, json, s)
      PROVE  Orphans' \subseteq Orphans
  BY <1>1, <1>5 DEF EnqueueTest, judgeVars
<1>6. ASSUME NEW c \in Commands, Command(c) PROVE Orphans' \subseteq Orphans
  BY <1>1, <1>6 DEF Command, judgeVars
<1>7. ASSUME NEW x \in pushing, PushEnd(x) PROVE Orphans' \subseteq Orphans
  BY <1>1, <1>7 DEF PushEnd, judgeVars
<1>8. ASSUME JudgeThread
      PROVE  \/ Orphans' \subseteq Orphans
             \/ Orphans' \subseteq Orphans \cup {req.solutionId} /\ LostOne
  <2> USE DEF Goto, Verdict
  <2>1. CASE Pick
    BY <2>1 DEF Pick, table
  <2>2. CASE RequestInit
    BY <2>2 DEF RequestInit, table
  <2>3. CASE RunVirtual
    BY <2>3 DEF RunVirtual, table
  <2>4. CASE CompileBegin
    BY <2>4 DEF CompileBegin, Update, Write, Refused, TypeOK, table
  <2>5. CASE CompileEnd
    BY <2>5 DEF CompileEnd, table
  <2>6. CASE RunCases
    BY <2>6 DEF RunCases, table
  <2>7. CASE ResultToDb
    <3>1. verdictId # "V_C"
      BY OutcomesAssumption DEF TypeOK, Settled
    <3>2. CASE InSubmitMode /\ Write(req.solutionId, verdictId)
      BY <2>7, <3>1, <3>2 DEF ResultToDb, Write, HasRow, TypeOK
    <3>3. CASE InSubmitMode /\ Refused
      <4>1. lost' = lost + 1 /\ UNCHANGED <<solution, crashes, req>>
        BY <2>7, <3>3 DEF ResultToDb, Refused, bounds
      <4>2. LostOne
        BY <4>1 DEF LostOne
      <4>3. Orphans' \subseteq Orphans \cup {req.solutionId}
        BY <2>7, <4>1 DEF ResultToDb
      <4> QED
        BY <4>2, <4>3
    <3>4. CASE ~InSubmitMode
      BY <2>7, <3>4 DEF ResultToDb, table
    <3> QED
      BY <2>7, <3>2, <3>3, <3>4 DEF ResultToDb, Update
  <2>8. CASE Pop
    BY <2>8 DEF Pop, table
  <2> QED
    BY <1>8, <2>1, <2>2, <2>3, <2>4, <2>5, <2>6, <2>7, <2>8 DEF JudgeThread
<1>9. ASSUME TimerThread PROVE Orphans' \subseteq Orphans
  <2>1. CASE TimerEnqueue
    <3>1. PICK s \in todo : Enqueue("timer", s, "CMD_VTY_INVALID_ID")
      BY <2>1 DEF TimerEnqueue
    <3>2. s \in Solutions
      BY DEF TypeOK
    <3> QED
      BY <1>1, <1>2, <2>1, <3>1, <3>2 DEF TimerEnqueue, Enqueue, judgeVars
  <2>2. CASE ~TimerEnqueue
    BY <1>1, <1>9, <2>2 DEF TimerThread, TimerOff, TimerWait, TimerDue, TimerSelect,
         TimerSelectFails, TimerDone, judgeVars
  <2> QED
    BY <2>1, <2>2
<1>10. ASSUME NEW s \in Solutions, RemoteAnswers(s) \/ RemoteForgets(s)
       PROVE  Orphans' \subseteq Orphans
  <2>1. \A v \in Outcomes \cup {"V_CE", "V_SK"} : v # "V_C"
    BY OutcomesAssumption
  <2> QED
    BY <1>1, <1>2, <1>10, <2>1 DEF RemoteAnswers, RemoteForgets, Update, judgeVars
<1>11. ASSUME CrashRestart
       PROVE  Orphans' \subseteq Orphans \cup {req.solutionId} /\ LostOne
  BY <1>11 DEF CrashRestart, Goto, table, LostOne
<1>12. ASSUME UNCHANGED vars PROVE Orphans' \subseteq Orphans
  BY <1>1, <1>12 DEF vars, judgeVars
<1> QED
  BY <1>3, <1>4, <1>5, <1>6, <1>7, <1>8, <1>9, <1>10, <1>11, <1>12 DEF Next

(* The counts never fall.                                                  *)
LEMMA LossesStep ==
  ASSUME TypeOK, [Next]_vars
  PROVE  /\ crashes' \in Nat /\ crashes <= crashes'
         /\ lost' \in Nat /\ lost <= lost'
<1>1. crashes \in Nat /\ lost \in Nat
  BY BoundsAssumption DEF TypeOK
<1>2. crashes' \in {crashes, crashes + 1}
  BY DEF Next, Submit, JudgeSolution, EnqueueTest, Command, PushEnd, JudgeThread, Pick,
       RequestInit, RunVirtual, CompileBegin, CompileEnd, RunCases, ResultToDb, Pop,
       TimerThread, TimerOff, TimerWait, TimerDue, TimerSelect, TimerSelectFails,
       TimerEnqueue, TimerDone, RemoteAnswers, RemoteForgets, CrashRestart, bounds, vars
<1>3. lost' \in {lost, lost + 1}
  BY DEF Next, Submit, JudgeSolution, EnqueueTest, Command, PushEnd, JudgeThread, Pick,
       RequestInit, RunVirtual, CompileBegin, CompileEnd, RunCases, ResultToDb, Pop,
       TimerThread, TimerOff, TimerWait, TimerDue, TimerSelect, TimerSelectFails,
       TimerEnqueue, TimerDone, RemoteAnswers, RemoteForgets, CrashRestart,
       Enqueue, Update, Refused, table, vars
<1> QED
  BY <1>1, <1>2, <1>3

(* Every step keeps the bound on the orphans.                              *)
LEMMA OrphansBoundedStep ==
  ASSUME TypeOK, OrphansBounded, [Next]_vars
  PROVE  OrphansBounded'
<1>1. IsFiniteSet(Orphans) /\ Cardinality(Orphans) \in Nat
  BY SolutionsAssumption, FS_Subset, FS_CardinalityType DEF Orphans
<1>2. /\ crashes \in Nat /\ crashes' \in Nat /\ crashes <= crashes'
      /\ lost \in Nat /\ lost' \in Nat /\ lost <= lost'
  BY BoundsAssumption, LossesStep DEF TypeOK
<1>3. CASE Orphans' \subseteq Orphans
  <2>1. Cardinality(Orphans') \in Nat /\ Cardinality(Orphans') <= Cardinality(Orphans)
    BY <1>1, <1>3, FS_Subset, FS_CardinalityType
  <2>2. \A n, m, a, b, c, d \in Nat :
          m <= n /\ n <= a + b /\ a <= c /\ b <= d => m <= c + d
    OBVIOUS
  <2> QED
    BY <1>1, <1>2, <2>1, <2>2 DEF OrphansBounded
<1>4. CASE Orphans' \subseteq Orphans \cup {req.solutionId} /\ LostOne
  <2>1. /\ IsFiniteSet(Orphans \cup {req.solutionId})
        /\ Cardinality(Orphans \cup {req.solutionId}) \in Nat
        /\ Cardinality(Orphans \cup {req.solutionId}) <= Cardinality(Orphans) + 1
    BY <1>1, FS_AddElement, FS_CardinalityType
  <2>2. /\ Cardinality(Orphans') \in Nat
        /\ Cardinality(Orphans') <= Cardinality(Orphans \cup {req.solutionId})
    BY <1>4, <2>1, FS_Subset, FS_CardinalityType
  <2>3. Cardinality(Orphans') <= Cardinality(Orphans) + 1
    BY <1>1, <2>1, <2>2
  <2>4. \/ crashes' = crashes + 1 /\ lost' = lost
        \/ crashes' = crashes /\ lost' = lost + 1
    BY <1>4 DEF LostOne
  <2>5. \A n, m, a, b, c, d \in Nat :
          m <= n + 1 /\ n <= a + b /\ ((c = a + 1 /\ d = b) \/ (c = a /\ d = b + 1))
          => m <= c + d
    OBVIOUS
  <2> QED
    BY <1>1, <1>2, <2>2, <2>3, <2>4, <2>5 DEF OrphansBounded
<1> QED
  BY <1>3, <1>4, OrphansStep

(* A run of the process leaves at most one row in V_C when it dies, the    *)
(* one whose V_C judge_compile (judge.cpp:679) has written, and each update *)
(* the database refuses at most one; no other step of any thread adds one. *)
THEOREM OrphansAreLosses == Spec => []OrphansBounded
<1>1. Init => OrphansBounded
  <2> SUFFICES ASSUME Init PROVE OrphansBounded
    OBVIOUS
  <2>1. Orphans = {} /\ crashes + lost = 0
    BY DEF Init, Orphans
  <2> QED
    BY <2>1, FS_EmptySet DEF OrphansBounded
<1>2. TypeOK /\ OrphansBounded /\ [Next]_vars => OrphansBounded'
  BY OrphansBoundedStep
<1> QED
  BY <1>1, <1>2, TypeCorrect, PTL DEF Spec

-----------------------------------------------------------------------------
(* The refinement: the queue implements the judge service; every step of   *)
(* every thread is a step of JudgeService, or changes nothing it promises. *)

-----------------------------------------------------------------------------
(* The targets of a queue.                                                 *)

(* The target of a request is a solution or 0.                             *)
LEMMA TargetType == \A r \in Requests : Target(r) \in Solutions \cup {0}
BY DEF Target, Requests

(* The targets of a queue are a sequence of its length.                    *)
LEMMA TargetsType ==
  ASSUME NEW q \in Seq(Requests)
  PROVE  /\ TargetsOf(q) \in Seq(Solutions \cup {0})
         /\ Len(TargetsOf(q)) = Len(q)
         /\ \A i \in 1 .. Len(q) : TargetsOf(q)[i] = Target(q[i])
<1>1. Len(q) \in Nat
  BY LenProperties
<1>2. \A i \in 1 .. Len(q) : Target(q[i]) \in Solutions \cup {0}
  BY TargetType, ElementOfSeq
<1>3. TargetsOf(q) \in [1 .. Len(q) -> Solutions \cup {0}]
  BY <1>2 DEF TargetsOf
<1>4. TargetsOf(q) \in Seq(Solutions \cup {0})
  BY <1>1, <1>3, SeqDef
<1>5. DOMAIN TargetsOf(q) = 1 .. Len(q)
  BY DEF TargetsOf
<1>6. Len(TargetsOf(q)) = Len(q)
  BY <1>1, <1>4, <1>5, LenProperties
<1> QED
  BY <1>4, <1>6 DEF TargetsOf

(* The targets of the tail are the tail of the targets.                    *)
LEMMA TargetsTail ==
  ASSUME NEW q \in Seq(Requests), q # <<>>
  PROVE  /\ TargetsOf(q) # <<>>
         /\ Head(TargetsOf(q)) = Target(Head(q))
         /\ Tail(TargetsOf(q)) = TargetsOf(Tail(q))
<1>1. Len(q) \in Nat \ {0} /\ Tail(q) \in Seq(Requests) /\ Len(Tail(q)) = Len(q) - 1
      /\ \A i \in 1 .. Len(Tail(q)) : Tail(q)[i] = q[i + 1]
  BY HeadTailProperties, EmptySeq, LenProperties
<1>2. TargetsOf(q) # <<>>
  BY <1>1, TargetsType, EmptySeq
<1>3. /\ Tail(TargetsOf(q)) \in Seq(Solutions \cup {0})
      /\ Len(Tail(TargetsOf(q))) = Len(q) - 1
      /\ \A i \in 1 .. Len(q) - 1 : Tail(TargetsOf(q))[i] = TargetsOf(q)[i + 1]
  BY <1>1, <1>2, TargetsType, HeadTailProperties
<1>4. \A i \in 1 .. Len(q) - 1 : i + 1 \in 1 .. Len(q)
  BY <1>1
<1>5. \A i \in 1 .. Len(q) - 1 : Tail(TargetsOf(q))[i] = TargetsOf(Tail(q))[i]
  BY <1>1, <1>3, <1>4, TargetsType
<1>6. Tail(TargetsOf(q)) = TargetsOf(Tail(q))
  <2>1. /\ TargetsOf(Tail(q)) \in Seq(Solutions \cup {0})
        /\ Len(TargetsOf(Tail(q))) = Len(q) - 1
    BY <1>1, TargetsType
  <2>2. Len(Tail(TargetsOf(q))) = Len(TargetsOf(Tail(q)))
    BY <1>3, <2>1
  <2>3. \A i \in 1 .. Len(Tail(TargetsOf(q))) : Tail(TargetsOf(q))[i] = TargetsOf(Tail(q))[i]
    BY <1>3, <1>5
  <2> QED
    BY <1>3, <2>1, <2>2, <2>3, SeqEqual, Zenon
<1>7. Head(TargetsOf(q)) = TargetsOf(q)[1] /\ Head(q) = q[1] /\ 1 \in 1 .. Len(q)
  BY <1>1, <1>2, TargetsType, HeadTailProperties
<1> QED
  BY <1>2, <1>6, <1>7, TargetsType

(* The targets of a longer queue are the longer targets.                   *)
LEMMA TargetsAppend ==
  ASSUME NEW q \in Seq(Requests), NEW r \in Requests
  PROVE  TargetsOf(Append(q, r)) = Append(TargetsOf(q), Target(r))
<1>1. /\ Append(q, r) \in Seq(Requests) /\ Len(Append(q, r)) = Len(q) + 1
      /\ \A i \in 1 .. Len(q) : Append(q, r)[i] = q[i]
      /\ Append(q, r)[Len(q) + 1] = r
      /\ Len(q) \in Nat
  BY AppendProperties, LenProperties
<1>2. /\ Append(TargetsOf(q), Target(r)) \in Seq(Solutions \cup {0})
      /\ Len(Append(TargetsOf(q), Target(r))) = Len(q) + 1
      /\ \A i \in 1 .. Len(q) : Append(TargetsOf(q), Target(r))[i] = TargetsOf(q)[i]
      /\ Append(TargetsOf(q), Target(r))[Len(q) + 1] = Target(r)
  BY TargetsType, TargetType, AppendProperties
<1>3. /\ TargetsOf(Append(q, r)) \in Seq(Solutions \cup {0})
      /\ Len(TargetsOf(Append(q, r))) = Len(q) + 1
      /\ \A i \in 1 .. Len(q) + 1 : TargetsOf(Append(q, r))[i] = Target(Append(q, r)[i])
  BY <1>1, TargetsType
<1>4. ASSUME NEW i \in 1 .. Len(q) + 1
      PROVE  TargetsOf(Append(q, r))[i] = Append(TargetsOf(q), Target(r))[i]
  <2>1. CASE i = Len(q) + 1
    BY <1>1, <1>2, <1>3, <2>1
  <2>2. CASE i \in 1 .. Len(q)
    <3>1. TargetsOf(Append(q, r))[i] = Target(q[i])
      BY <1>1, <1>3, <2>2
    <3>2. TargetsOf(q)[i] = Target(q[i])
      BY <2>2, TargetsType
    <3>3. Append(TargetsOf(q), Target(r))[i] = TargetsOf(q)[i]
      BY <1>2, <2>2
    <3> QED
      BY <3>1, <3>2, <3>3
  <2>3. Len(q) \in Nat
    BY <1>1
  <2>4. i = Len(q) + 1 \/ i \in 1 .. Len(q)
    BY <2>3
  <2> QED
    BY <2>1, <2>2, <2>4
<1>5. Len(TargetsOf(Append(q, r))) = Len(Append(TargetsOf(q), Target(r)))
  BY <1>2, <1>3
<1>6. \A i \in 1 .. Len(TargetsOf(Append(q, r))) :
         TargetsOf(Append(q, r))[i] = Append(TargetsOf(q), Target(r))[i]
  BY <1>3, <1>4
<1> QED
  BY <1>2, <1>3, <1>5, <1>6, SeqEqual, Zenon

(* Overwriting a cell overwrites its target.                               *)
LEMMA TargetsExcept ==
  ASSUME NEW q \in Seq(Requests), NEW r \in Requests, NEW k \in 1 .. Len(q)
  PROVE  TargetsOf([q EXCEPT ![k] = r]) = [TargetsOf(q) EXCEPT ![k] = Target(r)]
<1> DEFINE p == [q EXCEPT ![k] = r]
<1>1. p \in Seq(Requests) /\ Len(p) = Len(q)
      /\ \A i \in 1 .. Len(q) : p[i] = IF i = k THEN r ELSE q[i]
  BY ExceptSeq
<1> HIDE DEF p
<1>2. TargetsOf(q) \in [1 .. Len(q) -> Solutions \cup {0}]
  BY TargetsType, LenProperties
<1>3. /\ TargetsOf(p) = [i \in 1 .. Len(q) |-> Target(p[i])]
      /\ TargetsOf(q) = [i \in 1 .. Len(q) |-> Target(q[i])]
  BY <1>1 DEF TargetsOf
<1>4. TargetsOf(p) = [TargetsOf(q) EXCEPT ![k] = Target(r)]
  BY <1>1, <1>2, <1>3
<1> QED
  BY <1>4 DEF p

(* The tail of a sequence with one cell stored.                            *)
LEMMA TailExcept ==
  ASSUME NEW q \in Seq(Requests), NEW r \in Requests, NEW k \in 1 .. Len(q), q # <<>>
  PROVE  Tail([q EXCEPT ![k] = r]) = IF k = 1 THEN Tail(q) ELSE [Tail(q) EXCEPT ![k - 1] = r]
<1> DEFINE p == [q EXCEPT ![k] = r]
<1>1. p \in Seq(Requests) /\ Len(p) = Len(q) /\ Len(q) \in Nat \ {0}
      /\ \A i \in 1 .. Len(q) : p[i] = IF i = k THEN r ELSE q[i]
  BY ExceptSeq, EmptySeq, LenProperties
<1> HIDE DEF p
<1>2. p # <<>>
  BY <1>1, EmptySeq
<1>3. /\ Tail(p) \in Seq(Requests) /\ Len(Tail(p)) = Len(q) - 1
      /\ \A i \in 1 .. Len(q) - 1 : Tail(p)[i] = p[i + 1]
  BY <1>1, <1>2, HeadTailProperties
<1>4. /\ Tail(q) \in Seq(Requests) /\ Len(Tail(q)) = Len(q) - 1
      /\ \A i \in 1 .. Len(q) - 1 : Tail(q)[i] = q[i + 1]
  BY HeadTailProperties
<1>5. \A i \in 1 .. Len(q) - 1 : i + 1 \in 1 .. Len(q)
  BY <1>1
<1>6. CASE k = 1
  <2>1. \A i \in 1 .. Len(q) - 1 : i + 1 # 1
    BY <1>1
  <2>2. \A i \in 1 .. Len(q) - 1 : Tail(p)[i] = Tail(q)[i]
    BY <1>1, <1>3, <1>4, <1>5, <1>6, <2>1
  <2>3. Tail(p) = Tail(q)
    BY <1>3, <1>4, <2>2, SeqEqual
  <2> QED
    BY <1>6, <2>3 DEF p
<1>7. CASE k # 1
  <2>1. PICK t \in Seq(Requests) : t = Tail(q)
    BY <1>4
  <2>2. PICK l \in 1 .. Len(t) : l = k - 1
    BY <1>1, <1>4, <1>7, <2>1
  <2> DEFINE u == [t EXCEPT ![l] = r]
  <2>3. /\ u \in Seq(Requests) /\ Len(u) = Len(t)
        /\ \A i \in 1 .. Len(t) : u[i] = IF i = l THEN r ELSE t[i]
    BY ExceptSeq
  <2>4. Len(t) = Len(q) - 1
    BY <1>4, <2>1
  <2>5. \A i \in 1 .. Len(q) - 1 : i = l <=> i + 1 = k
    BY <1>1, <2>2
  <2> HIDE DEF u
  <2>6. \A i \in 1 .. Len(q) - 1 : Tail(p)[i] = u[i]
    BY <1>1, <1>3, <1>4, <1>5, <2>1, <2>3, <2>4, <2>5
  <2>7. Tail(p) = u
    BY <1>3, <2>3, <2>4, <2>6, SeqEqual
  <2> QED
    BY <1>7, <2>1, <2>2, <2>7 DEF p, u
<1> QED
  BY <1>6, <1>7

-----------------------------------------------------------------------------
(* The steps.                                                              *)

(* What the mapping makes of a thread that is at work.                     *)
LEMMA MappedRow ==
  ASSUME TypeOK, NEW s
  PROVE  Service!HasRow(s) <=> HasRow(s)
BY DEF Service!HasRow, HasRow, ServiceStatus, StatusOf, TypeOK

(* A step that leaves the queue and the place of the judge thread alone is *)
(* mapped to one that leaves waiting, active and phase alone.              *)
LEMMA MappedUnchanged ==
  ASSUME UNCHANGED <<queue, jpc, req>>
  PROVE  UNCHANGED <<ServiceWaiting, ServiceActive, ServicePhase>>
BY DEF ServiceWaiting, ServiceActive, ServicePhase, TargetsOf, Target

(* Writing a row writes its status.                                        *)
LEMMA MappedWrite ==
  ASSUME TypeOK, NEW s, NEW v, Write(s, v), HasRow(s)
  PROVE  ServiceStatus' = [ServiceStatus EXCEPT ![s] = StatusOf(v)]
BY DEF TypeOK, Write, HasRow, ServiceStatus

(* An unchanged table has unchanged statuses.                              *)
LEMMA MappedStatus ==
  ASSUME UNCHANGED solution
  PROVE  UNCHANGED ServiceStatus
BY DEF ServiceStatus

(* An update that settles a row from outside of the service.               *)
LEMMA OutsideStep ==
  ASSUME TypeOK, NEW s \in Solutions, NEW v \in Verdicts \ {"V_Q", "V_C"}, Update(s, v),
         UNCHANGED <<queue, jpc, req>>
  PROVE  [Service!Next]_Service!svars
<1>1. UNCHANGED <<ServiceWaiting, ServiceActive, ServicePhase>>
  BY MappedUnchanged
<1>2. CASE Write(s, v) /\ UNCHANGED lost /\ HasRow(s)
  <2>1. StatusOf(v) = "settled"
    BY OutcomesAssumption DEF StatusOf, Verdicts, Settled
  <2>2. Service!SettleOutside(s)
    BY <1>1, <1>2, <2>1, MappedWrite, MappedRow DEF Service!SettleOutside
  <2> QED
    BY <2>2 DEF Service!Next
<1>3. CASE Write(s, v) /\ UNCHANGED lost /\ ~HasRow(s)
  <2>1. UNCHANGED ServiceStatus
    BY <1>3, MappedStatus DEF Write
  <2> QED
    BY <1>1, <1>3, <2>1 DEF Service!svars
<1>4. CASE Refused
  <2>1. Service!Refuse
    BY <1>1, <1>4, MappedStatus DEF Refused, Service!Refuse
  <2> QED
    BY <2>1 DEF Service!Next
<1> QED
  BY <1>2, <1>3, <1>4 DEF Update

(* A push that begins, from whatever thread, or an unchanged table.        *)
LEMMA EnqueueStep ==
  ASSUME TypeOK, NEW p, NEW s \in Solutions, NEW v, Enqueue(p, s, v),
         UNCHANGED <<queue, jpc, req>>
  PROVE  [Service!Next]_Service!svars
<1>1. UNCHANGED <<ServiceWaiting, ServiceActive, ServicePhase>>
  BY MappedUnchanged
<1>2. CASE UNCHANGED table
  BY <1>1, <1>2, MappedStatus DEF table, Service!svars
<1>3. CASE Update(s, "V_SK")
  <2>1. "V_SK" \in Verdicts \ {"V_Q", "V_C"}
    BY DEF Verdicts, Settled
  <2> QED
    BY <1>3, <2>1, OutsideStep
<1> QED
  BY <1>2, <1>3 DEF Enqueue

(* A push that ends: an arrival, or a collision among the waiting ones.    *)
LEMMA PushEndStep ==
  ASSUME TypeOK, FrontKept, NEW x \in pushing, PushEnd(x)
  PROVE  Service!Next
<1> DEFINE stored == IF x.slot \in 1 .. Len(queue)
                     THEN [queue EXCEPT ![x.slot] = x.req] ELSE queue
           t == Target(x.req)
<1>1. queue \in Seq(Requests) /\ x.slot \in Nat /\ x.req \in Requests
  BY DEF TypeOK, Pushes
<1>2. Len(queue) \in Nat
  BY <1>1, LenProperties
<1>3. UNCHANGED <<solution, lost, jpc, req>>
  BY DEF PushEnd, table, judgeVars
<1>4. UNCHANGED <<ServiceActive, ServicePhase, ServiceStatus, lost>>
  BY <1>3, MappedStatus DEF ServiceActive, ServicePhase, Target
<1>5. t \in Solutions \cup {0}
  BY <1>1, TargetType
<1>6. CASE x.slot = Len(queue) + 1
  <2>1. queue' = Append(queue, x.req)
    BY <1>6 DEF PushEnd
  <2>2. CASE jpc = "idle"
    <3>1. ServiceWaiting' = Append(ServiceWaiting, t)
      BY <1>1, <1>3, <2>1, <2>2, TargetsAppend DEF ServiceWaiting, TargetsOf, Target
    <3> QED
      BY <1>4, <1>5, <3>1 DEF Service!Next, Service!Arrive, Service!Targets
  <2>3. CASE jpc # "idle"
    <3>1. queue # <<>>
      BY <2>3 DEF FrontKept
    <3>2. Tail(queue) \in Seq(Requests) /\ Tail(queue') = Append(Tail(queue), x.req)
      BY <1>1, <2>1, <3>1, HeadTailProperties, HeadTailAppend
    <3>3. ServiceWaiting' = Append(ServiceWaiting, t)
      BY <1>1, <1>3, <2>3, <3>2, TargetsAppend DEF ServiceWaiting, TargetsOf, Target
    <3> QED
      BY <1>4, <1>5, <3>3 DEF Service!Next, Service!Arrive, Service!Targets
  <2> QED
    BY <2>2, <2>3
<1>7. CASE x.slot # Len(queue) + 1
  <2> DEFINE left == IF jpc = "idle" THEN queue ELSE Tail(queue)
             kept == IF jpc = "idle" THEN stored ELSE Tail(stored)
  <2>1. jpc # "idle" => queue # <<>>
    BY DEF FrontKept
  <2>2. stored \in Seq(Requests) /\ (queue # <<>> => stored # <<>>)
    BY <1>1, ExceptSeq, EmptySeq
  <2>3. left \in Seq(Requests) /\ kept \in Seq(Requests)
    BY <1>1, <2>1, <2>2, HeadTailProperties
  <2>4. \/ kept = left
        \/ \E i \in 1 .. Len(left) : kept = [left EXCEPT ![i] = x.req]
    <3>1. CASE x.slot \notin 1 .. Len(queue)
      BY <3>1
    <3>2. CASE x.slot \in 1 .. Len(queue) /\ jpc = "idle"
      BY <3>2
    <3>3. CASE x.slot \in 1 .. Len(queue) /\ jpc # "idle"
      <4>1. kept = IF x.slot = 1 THEN Tail(queue)
                   ELSE [Tail(queue) EXCEPT ![x.slot - 1] = x.req]
        BY <1>1, <2>1, <3>3, TailExcept
      <4>2. x.slot # 1 => x.slot - 1 \in 1 .. Len(Tail(queue))
        BY <1>1, <1>2, <2>1, <3>3, HeadTailProperties
      <4> QED
        BY <3>3, <4>1, <4>2
    <3> QED
      BY <3>1, <3>2, <3>3
  <2>5. ServiceWaiting = TargetsOf(left)
    BY DEF ServiceWaiting
  <2>6. TargetsOf(kept) \in {ServiceWaiting} \cup
          {[ServiceWaiting EXCEPT ![i] = t] : i \in DOMAIN ServiceWaiting}
    <3>1. DOMAIN ServiceWaiting = 1 .. Len(left)
      BY <2>5 DEF TargetsOf
    <3>2. ASSUME NEW i \in 1 .. Len(left), kept = [left EXCEPT ![i] = x.req]
          PROVE  TargetsOf(kept) = [ServiceWaiting EXCEPT ![i] = t]
      <4> HIDE DEF left, kept
      <4> QED
        BY <1>1, <2>3, <2>5, <3>2, TargetsExcept
    <3> QED
      BY <2>4, <2>5, <3>1, <3>2
  <2>7. \/ ServiceWaiting' = TargetsOf(kept)
        \/ \E u \in Solutions \cup {0} : ServiceWaiting' = Append(TargetsOf(kept), u)
    <3>1. CASE queue' = stored
      BY <1>3, <3>1 DEF ServiceWaiting, TargetsOf, Target
    <3>2. ASSUME NEW s \in Solutions \cup {0}, queue' = Append(stored, Submission(s, "stale"))
          PROVE  ServiceWaiting' = Append(TargetsOf(kept), Target(Submission(s, "stale")))
      <4>1. Submission(s, "stale") \in Requests
        BY RequestTypes
      <4>2. (IF jpc = "idle" THEN queue' ELSE Tail(queue')) = Append(kept, Submission(s, "stale"))
        BY <2>1, <2>2, <3>2, <4>1, HeadTailAppend
      <4>3. ServiceWaiting' = TargetsOf(Append(kept, Submission(s, "stale")))
        BY <1>3, <4>2 DEF ServiceWaiting, TargetsOf, Target
      <4> QED
        BY <2>3, <4>1, <4>3, TargetsAppend
    <3>3. \A s \in Solutions \cup {0} : Target(Submission(s, "stale")) \in Solutions \cup {0}
      BY RequestTypes, TargetType
    <3>4. \/ queue' = stored
          \/ \E s \in Solutions \cup {0} : queue' = Append(stored, Submission(s, "stale"))
      BY <1>7 DEF PushEnd
    <3> QED
      BY <3>1, <3>2, <3>3, <3>4
  <2>8. Service!Collide(t)
    BY <1>4, <2>6, <2>7 DEF Service!Collide, Service!Targets
  <2> QED
    BY <1>5, <2>8 DEF Service!Next, Service!Targets
<1> QED
  BY <1>6, <1>7

(* The steps of the judge thread.                                          *)
LEMMA PickStep ==
  ASSUME TypeOK, Pick
  PROVE  Service!Next
<1>1. queue \in Seq(Requests) /\ queue # <<>> /\ jpc = "idle" /\ UNCHANGED queue
  BY DEF TypeOK, Pick, queueVars
<1>2. Head(queue) \in Requests
  BY <1>1, HeadTailProperties
<1>3. jpc' \in {"init", "pop"} /\ (jpc' = "pop" => Target(Head(queue)) = 0)
  BY DEF Pick, Goto, Target
<1>4. ServiceWaiting # <<>> /\ ServiceWaiting' = Tail(ServiceWaiting)
  <2>1. ServiceWaiting = TargetsOf(queue)
    BY <1>1 DEF ServiceWaiting
  <2>2. ServiceWaiting' = TargetsOf(Tail(queue))
    BY <1>1, <1>3 DEF ServiceWaiting, TargetsOf, Target
  <2> QED
    BY <1>1, <2>1, <2>2, TargetsTail
<1>5. Head(ServiceWaiting) = Target(Head(queue))
  BY <1>1, TargetsTail DEF ServiceWaiting
<1>6. ServiceActive' = Target(Head(queue))
  BY <1>3 DEF Pick, ServiceActive, Target
<1>7. /\ ServicePhase = "free"
      /\ ServicePhase' = "open" \/ (ServicePhase' = "closed" /\ Head(ServiceWaiting) = 0)
  BY <1>1, <1>3, <1>5 DEF ServicePhase
<1>8. UNCHANGED <<ServiceStatus, lost>>
  BY MappedStatus DEF Pick, table
<1> QED
  BY <1>4, <1>5, <1>6, <1>7, <1>8 DEF Service!Next, Service!Start

(* Between the pick and the result the service is open.                    *)
LEMMA AtWork ==
  ASSUME jpc \in {"init", "run", "compile", "exec", "publish"},
         jpc' \in {"run", "compile", "exec", "publish", "pop"},
         UNCHANGED <<queue, req>>
  PROVE  /\ UNCHANGED <<ServiceWaiting, ServiceActive>>
         /\ ServicePhase = "open" /\ ServiceActive = Target(req)
         /\ ServicePhase' = IF jpc' = "pop" THEN "closed" ELSE "open"
BY DEF ServiceWaiting, ServiceActive, ServicePhase, TargetsOf, Target

(* A step of the judge thread that writes no row changes no promise.       *)
LEMMA WorkStep ==
  ASSUME TypeOK, RequestInit \/ RunVirtual \/ CompileEnd \/ RunCases
  PROVE  UNCHANGED Service!svars
<1>1. /\ jpc \in {"init", "run", "compile", "exec"}
      /\ jpc' \in {"run", "exec", "publish"}
      /\ UNCHANGED <<queue, req, solution, lost>>
  BY DEF RequestInit, RunVirtual, CompileEnd, RunCases, Goto, queueVars, table
<1> QED
  BY <1>1, AtWork, MappedStatus DEF Service!svars, ServicePhase

(* The mark of the compilation is a Mark, or is refused.                   *)
LEMMA CompileBeginStep ==
  ASSUME TypeOK, CompileBegin
  PROVE  [Service!Next]_Service!svars
<1>1. /\ jpc = "run" /\ jpc' \in {"exec", "compile"} /\ UNCHANGED <<queue, req>>
  BY DEF CompileBegin, Goto, queueVars
<1>2. /\ UNCHANGED <<ServiceWaiting, ServiceActive, ServicePhase>>
      /\ ServicePhase = "open" /\ ServiceActive = Target(req)
  BY <1>1, AtWork
<1>3. CASE UNCHANGED table
  BY <1>2, <1>3, MappedStatus DEF table, Service!svars
<1>4. CASE InSubmitMode /\ Update(req.solutionId, "V_C")
  <2>1. ServiceActive = req.solutionId
    BY <1>2, <1>4 DEF Target, InSubmitMode
  <2>2. CASE Refused
    <3>1. Service!Refuse
      BY <1>2, <2>2, MappedStatus DEF Refused, Service!Refuse
    <3> QED
      BY <3>1 DEF Service!Next
  <2>3. CASE Write(req.solutionId, "V_C") /\ UNCHANGED lost /\ HasRow(req.solutionId)
    <3>1. StatusOf("V_C") = "judging"
      BY DEF StatusOf
    <3>2. Service!Mark
      BY <1>2, <2>1, <2>3, <3>1, MappedWrite, MappedRow DEF Service!Mark
    <3> QED
      BY <3>2 DEF Service!Next
  <2>4. CASE Write(req.solutionId, "V_C") /\ UNCHANGED lost /\ ~HasRow(req.solutionId)
    <3>1. UNCHANGED ServiceStatus
      BY <2>4, MappedStatus DEF Write
    <3> QED
      BY <1>2, <2>4, <3>1 DEF Service!svars
  <2> QED
    BY <1>4, <2>2, <2>3, <2>4 DEF Update
<1> QED
  BY <1>3, <1>4 DEF CompileBegin

(* Writing the verdict is a Result, or is refused.                         *)
LEMMA ResultStep ==
  ASSUME TypeOK, ResultToDb
  PROVE  Service!Next
<1>1. /\ jpc = "publish" /\ jpc' = "pop" /\ UNCHANGED <<queue, req>>
  BY DEF ResultToDb, Goto, queueVars
<1>2. /\ UNCHANGED <<ServiceWaiting, ServiceActive>>
      /\ ServicePhase = "open" /\ ServicePhase' = "closed" /\ ServiceActive = Target(req)
  BY <1>1, AtWork
<1>3. CASE ~InSubmitMode
  <2>1. UNCHANGED <<ServiceStatus, lost>>
    BY <1>3, MappedStatus DEF ResultToDb, table
  <2>2. ~HasRow(ServiceActive)
    BY <1>2, <1>3, SolutionsAssumption DEF InSubmitMode, Target, HasRow
  <2>3. Service!Result
    BY <1>2, <2>1, <2>2, MappedRow DEF Service!Result
  <2> QED
    BY <2>3 DEF Service!Next
<1>4. CASE InSubmitMode
  <2>1. ServiceActive = req.solutionId
    BY <1>2, <1>4 DEF Target, InSubmitMode
  <2>2. CASE Refused
    <3>1. Service!Refuse
      BY <1>2, <2>2, MappedStatus DEF Refused, Service!Refuse
    <3> QED
      BY <3>1 DEF Service!Next
  <2>3. CASE Write(req.solutionId, verdictId) /\ UNCHANGED lost /\ HasRow(req.solutionId)
    <3>1. StatusOf(verdictId) \in {"queued", "settled"}
      <4>1. verdictId # "none" /\ verdictId # "V_C"
        BY OutcomesAssumption DEF TypeOK, Settled
      <4> QED
        BY <4>1 DEF StatusOf
    <3>2. Service!Result
      BY <1>2, <2>1, <2>3, <3>1, MappedWrite, MappedRow DEF Service!Result
    <3> QED
      BY <3>2 DEF Service!Next
  <2>4. CASE Write(req.solutionId, verdictId) /\ UNCHANGED lost /\ ~HasRow(req.solutionId)
    <3>1. UNCHANGED ServiceStatus
      BY <2>4, MappedStatus DEF Write
    <3>2. Service!Result
      BY <1>2, <2>1, <2>4, <3>1, MappedRow DEF Service!Result
    <3> QED
      BY <3>2 DEF Service!Next
  <2> QED
    BY <1>4, <2>2, <2>3, <2>4 DEF ResultToDb, Update
<1> QED
  BY <1>3, <1>4

(* Popping the judged request is a Finish.                                 *)
LEMMA PopStep ==
  ASSUME TypeOK, Pop
  PROVE  Service!Next
<1>1. jpc = "pop" /\ jpc' = "idle" /\ queue' = Tail(queue)
  BY DEF Pop, Goto, PopFront
<1>2. UNCHANGED ServiceWaiting
  BY <1>1 DEF ServiceWaiting, TargetsOf, Target
<1>3. ServicePhase = "closed" /\ ServicePhase' = "free" /\ ServiceActive' = 0
  BY <1>1 DEF ServicePhase, ServiceActive
<1>4. UNCHANGED <<ServiceStatus, lost>>
  BY MappedStatus DEF Pop, table
<1> QED
  BY <1>2, <1>3, <1>4 DEF Service!Next, Service!Finish

(* A crash and restart is a Crash.                                         *)
LEMMA CrashStep ==
  ASSUME CrashRestart
  PROVE  Service!Next
<1>1. jpc' = "idle" /\ queue' = <<>> /\ UNCHANGED table
  BY DEF CrashRestart, Goto
<1>2. TargetsOf(<<>>) = <<>>
  <2>1. <<>> \in Seq(Requests) /\ Len(<<>>) = 0
    BY EmptySeq
  <2>2. TargetsOf(<<>>) \in Seq(Solutions \cup {0}) /\ Len(TargetsOf(<<>>)) = 0
    BY <2>1, TargetsType
  <2> QED
    BY <2>2, EmptySeq
<1>3. ServiceWaiting' = <<>>
  BY <1>1, <1>2 DEF ServiceWaiting, TargetsOf, Target
<1>4. ServiceActive' = 0 /\ ServicePhase' = "free"
  BY <1>1 DEF ServiceActive, ServicePhase
<1>5. UNCHANGED <<ServiceStatus, lost>>
  BY <1>1, MappedStatus DEF table
<1> QED
  BY <1>3, <1>4, <1>5 DEF Service!Next, Service!Crash

(* Every step of the queue is a step of the service or a stutter.          *)
LEMMA ServiceStep ==
  ASSUME TypeOK, FrontKept, [Next]_vars
  PROVE  [Service!Next]_Service!svars
<1>1. ASSUME UNCHANGED <<queue, jpc, req, solution, lost>> PROVE UNCHANGED Service!svars
  BY <1>1, MappedUnchanged, MappedStatus DEF Service!svars
<1>2. ASSUME NEW s \in Solutions, Submit(s) PROVE Service!Next
  <2>1. UNCHANGED <<ServiceWaiting, ServiceActive, ServicePhase, lost>>
    BY <1>2, MappedUnchanged DEF Submit, queueVars, judgeVars
  <2>2. ServiceStatus[s] = "none"
    BY <1>2 DEF Submit, ServiceStatus, StatusOf
  <2>3. ServiceStatus' = [ServiceStatus EXCEPT ![s] = StatusOf("V_Q")]
    BY <1>2 DEF Submit, ServiceStatus, TypeOK
  <2>4. StatusOf("V_Q") = "queued"
    BY DEF StatusOf
  <2> QED
    BY <2>1, <2>2, <2>3, <2>4 DEF Service!Next, Service!Submit
<1>3. ASSUME NEW c \in Clients, NEW s \in Solutions, JudgeSolution(c, s)
      PROVE  [Service!Next]_Service!svars
  BY <1>3, EnqueueStep DEF JudgeSolution, judgeVars
<1>4. ASSUME NEW c \in Clients, NEW json \in JsonKinds, NEW s \in Solutions,
             EnqueueTest(c, json, s)
      PROVE  [Service!Next]_Service!svars
  BY <1>1, <1>4 DEF EnqueueTest, judgeVars, table
<1>5. ASSUME NEW c \in Commands, Command(c) PROVE [Service!Next]_Service!svars
  BY <1>1, <1>5 DEF Command, queueVars, judgeVars, table
<1>6. ASSUME NEW x \in pushing, PushEnd(x) PROVE Service!Next
  BY <1>6, PushEndStep
<1>7. ASSUME JudgeThread PROVE [Service!Next]_Service!svars
  BY <1>7, PickStep, WorkStep, CompileBeginStep, ResultStep, PopStep DEF JudgeThread
<1>8. ASSUME TimerThread PROVE [Service!Next]_Service!svars
  <2>1. CASE TimerEnqueue
    <3>1. PICK s \in todo : Enqueue("timer", s, "CMD_VTY_INVALID_ID")
      BY <2>1 DEF TimerEnqueue
    <3>2. s \in Solutions
      BY DEF TypeOK
    <3> QED
      BY <2>1, <3>1, <3>2, EnqueueStep DEF TimerEnqueue, judgeVars
  <2>2. CASE ~TimerEnqueue
    BY <1>1, <1>8, <2>2 DEF TimerThread, TimerOff, TimerWait, TimerDue, TimerSelect,
         TimerSelectFails, TimerDone, queueVars, judgeVars, table
  <2> QED
    BY <2>1, <2>2
<1>9. ASSUME NEW s \in Solutions, RemoteAnswers(s) PROVE [Service!Next]_Service!svars
  <2>1. PICK v \in Outcomes \cup {"V_CE", "V_SK"} : Write(s, v)
    BY <1>9 DEF RemoteAnswers
  <2>2. v \in Verdicts \ {"V_Q", "V_C"}
    BY OutcomesAssumption DEF Verdicts, Settled
  <2>3. Update(s, v) /\ UNCHANGED <<queue, jpc, req>>
    BY <1>9, <2>1 DEF RemoteAnswers, Update, queueVars, judgeVars
  <2> QED
    BY <2>2, <2>3, OutsideStep
<1>10. ASSUME NEW s \in Solutions, RemoteForgets(s) PROVE [Service!Next]_Service!svars
  BY <1>1, <1>10 DEF RemoteForgets, queueVars, judgeVars, table
<1>11. ASSUME CrashRestart PROVE Service!Next
  BY <1>11, CrashStep
<1>12. ASSUME UNCHANGED vars PROVE [Service!Next]_Service!svars
  BY <1>1, <1>12 DEF vars, queueVars, judgeVars, table
<1> QED
  BY <1>2, <1>3, <1>4, <1>5, <1>6, <1>7, <1>8, <1>9, <1>10, <1>11, <1>12 DEF Next

(* The initial states of the queue are initial states of the service.      *)
LEMMA ServiceInit == Init => Service!Init
<1> SUFFICES ASSUME Init PROVE Service!Init
  OBVIOUS
<1>1. jpc = "idle" /\ queue = <<>> /\ lost = 0 /\ solution = [s \in Solutions |-> "none"]
  BY DEF Init
<1>2. TargetsOf(<<>>) = <<>>
  <2>1. <<>> \in Seq(Requests) /\ Len(<<>>) = 0
    BY EmptySeq
  <2>2. TargetsOf(<<>>) \in Seq(Solutions \cup {0}) /\ Len(TargetsOf(<<>>)) = 0
    BY <2>1, TargetsType
  <2> QED
    BY <2>2, EmptySeq
<1>3. StatusOf("none") = "none"
  BY DEF StatusOf
<1>4. ServiceStatus = [s \in Solutions |-> "none"]
  BY <1>1, <1>3 DEF ServiceStatus
<1>5. ServiceWaiting = <<>> /\ ServiceActive = 0 /\ ServicePhase = "free"
  BY <1>1, <1>2 DEF ServiceWaiting, ServiceActive, ServicePhase
<1> QED
  BY <1>1, <1>4, <1>5 DEF Service!Init

(* The queue, its judge thread, its timer and all that pushes into it      *)
(* implement the service of JudgeService, for any number of solutions and  *)
(* clients: no interleaving of judge.cpp:1153-1267 touches the request in  *)
(* service, skips it, serves two at once or gives it a second result.      *)
THEOREM Refinement == Spec => ImplementsService
<1>1. Init => Service!Init
  BY ServiceInit
<1>2. TypeOK /\ FrontKept /\ [Next]_vars => [Service!Next]_Service!svars
  BY ServiceStep
<1> QED
  BY <1>1, <1>2, TypeCorrect, PTL DEF Spec, ImplementsService, Service!Spec
=============================================================================
