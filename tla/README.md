# A TLA+ verification of JungleOS

JungleOS is the kernel of an online judge: one process that takes submissions
from a MySQL table, compiles and runs them against test data, and writes the
verdicts back; around it stand a command line on vtys, a telnet and an ftp
server, a socket for requests of the web platform, AAA users, an event list and
a neighbour protocol. This directory holds TLA+ modules of its parts, the TLC
runs that check them on small instances, and proofs that TLAPS checks for every
value of the constants. Paths below are relative to `src/code`.

## Inventory

| part | state | operations | what makes it hard |
|---|---|---|---|
| **judge queue** (`judge/judge.cpp`) | `g_judge_queue`, the enable switches, the `verdict` column of table `solution`, the tick of the timer | push by clients, json listener and timer; the judge thread: front, judge, write, pop; auto-detection | four kinds of threads and no lock: `judge_sem_create` is never called, and on Linux `mutex_lock` gets its mutex by value (`util/linux.cpp:64`) |
| **judging of a submission** (`judge/judge.cpp`, `judge_linux.cpp`) | `JUDGE_SUBMISSION_S`: verdict, failcase, time, memory, results; the work files | prepare, fork and wait4, memory/exit/time/stderr/answer checks, save, report | state carried from case to case, failed forks and children, globals that commands change meanwhile, what wait4 can see of a grandchild |
| **text comparison** (`judge/judge_util.cpp`) | two files, one character of each | the word loop and `find_next_nonspace` | ends of files, ends of lines and blanks in every combination |
| **judge database** (`judge/judge_sql.cpp`, `judge_elo.cpp`) | counters of problems, users and contest problems; standings of a contest; ratings | queries after each verdict that compute every column anew | queries in a row of which any may fail, rows rejudged in any order, locals that keep initial values when a query fails, a shared query buffer and one function outside the semaphore |
| virtual judges (`judge/judge_hdu.cpp`, `_guet`, `_leetcode`) | a remote judger or a crawled site | hand over, poll | the answer races the write of V_Q |
| judge commands (`judge/judge_cmd.cpp`) | the switches and paths | one handler per command | change while the judge thread reads |
| **telnet and vty pool** (`telnet/*`, `cli/cli_vty*.cpp`) | 32 slots: used, socket, state, user name, last access | accept, authenticate, go, offline, aging, kick, disable | session threads, aging, kicks and the listener free and reuse the same slots |
| AAA and events (`aaa/*`, `event/event_pub.cpp`) | 16 users, a list of callbacks per event | add, delete, password, service types; register, notify | deletion races authentication; order of callbacks |
| **ftp server** (`ftp/*`) | listen socket, users and their sockets, one table of descriptors for all threads | enable, disable, port, source; sessions; the ftp commands | listeners that outlive their socket, a socket handed over by address, descriptors that two sessions share and close by number |
| **system manager** (`sysmng/sysmng.cpp`) | listen socket, CFM vty | probe the port and replace the socket; accept, parse, run a command or enqueue json; recover the configuration | a new listener beside the old one after every failed probe; packets share one vty, its buffer and its view |
| **command line** (`cli/*`) | line buffer and cursor, views, history ring, command tree, saved configuration | keys, completion, match, run, history, save, recover | lengths counted beside a C string, wrap of the ring, a vty freed while its command is recorded |
| **neighbour discovery** (`ndp/ndp.cpp`) | neighbour list, sockets and switches of client and server | enable, disable, move; receive; send and age every second | a thread that waits on a closed socket keeps it and its port; the list has no lock |
| debug centre, main, utilities, hook | switches per vty, start-up order | print, start | little state |

Parts in bold have a module of their own.

The parts meet as follows. A client thread (telnet session, console, sysmng
accept thread) runs a command; `judge solution N` ends in
`judge_request_enqueue`, a json packet in `judge_request_enqueue_test`. The
timer thread enqueues what the table still calls V_Q. The judge thread takes the
front, calls `judge_request_proc`, which goes through the database, the compiler
and `judge_solution`; `judge_solution` calls the comparison for each case. A
deleted AAA user notifies telnet and ftp through the event list. The web platform
and the remote judger share nothing with the process but the database.

What makes the parts correct: the queue serves requests one at a time, loses none
but to a crash or a collision of pushes, and leaves no row unfinished; a suite
accepts only answers to all its cases, and reports what it judged; the comparison
decides by the words and counts the blanks; a vty slot belongs to one session; a
kicked user is gone; the counters and standings of a contest are those of its
solutions, whatever was rejudged; what is enabled listens, and no connection is left
without a thread; live neighbours are listed and dead ones forgotten; the line that
is run is the line that is shown, and the ring of lines is the log of what was run.
`PROJECT.json` lists the hazards at their lines, with the properties that watch
them.

## Modules

| module | models | state ↔ code | actions ↔ code |
|---|---|---|---|
| `JudgeQueue` | the threads around `g_judge_queue` | `queue`; `pushing` (pushes that have read the end of the queue); `solution` (table column); `jpc`, `req`, `verdictId` (judge thread); `tpc`, `tick`, `todo` (timer); `remote` | `JudgeSolution`, `EnqueueTest`, `Enqueue`, `PushBegin/End`, `Pick` .. `Pop` (one per step of `judge_request_proc` that another thread can see), `Timer*`, `Remote*`, `CrashRestart` |
| `JudgeService` | what a submitter may count on: requests in order, one at a time, one result each | `waiting`, `active`, `phase`, `status`, `lost` | abstract |
| `JudgeSuite` | `judge_solution` | the fields of `JUDGE_SUBMISSION_S` that outlive a step, the two globals, the results list, the published json and how many of its updates were `refused` | `Prepare`, `Execute` (`ProgramRuns`, `ForkFails`, `ChildFails`), `Check`, `Save`, `Advance`, `Teardown`, and the operator's `SetMode`, `SetSpace` |
| `TextChecker` | `compare_zoj`, `find_next_nonspace` | two files, the characters in hand, the verdict | one action per branch of the two loops |
| `TelnetVty` | the telnet listener, its session threads, the vty pool, the AAA users behind telnet | `vty` (`g_telnet_vty`: used, socket, state, user name, age of the last access); `peer`, `closed` (connections); `lpc`, `taken` (listener); `tpc`, `at`, `sock` (session threads); `aging` (timer); `mode`, `account`, `cmd`, `next`, `victim` (commands) | `Accept`, `Reject`, `HandOff`; `Start` .. `Leave` (one per step of `TELNET_SessionThread` between two looks at its vty); `AgeLook`, `AgeOffline`; `AddUser`, `DelUser`, the service types, `SetMode`, and the loops that take vtys offline for them |
| `ContestTables` | the queries of `judge_solution_result_to_db` | `rows` (table solution); `problem`, `contest`, `user`, `attend` (the columns that follow from it); `job`, `pc` (the result being written, the locals on the way, the function called next) | `Submit`, `Skip`, `Judge`, `UpdateSolution` .. `UpdateContestProblem` (one per function and table, in which any statement may fail), `Crash` |
| `Ndp` | clients and server of neighbour discovery | `sock`, `open`, `bound`, `port`, `peer`, `enabled`; `list`; `lpc`, `on`, `from` (listener threads); `loop` (timer); `cmd`, `again`, `mine` (the command of each vty); `net` | `Enable`, `SwitchOn`, `Socket`, `SocketFails`, `Bind`, `BindFails`, `Undo`, `Thread`, `Hello`; `Disable`, `SwitchOff`, `Close`, `Reset`; `SetPort`, `Move`, `Reopen`; `Check`, `Receive`, `Search`, `Update`, `AppendNew`; `Tick`; `Lose` |
| `FtpServer` | the ftp listeners, sessions and descriptors | `table` (descriptor to file); `enabled`, `sock`, `port`, `cmd`, `old`; `lpc`, `on`, `sClient` (listeners); `spc`, `lSockCtrl`, `reads`, `lSockPasv`, `waits` (sessions); `pend`, `gone` (clients) | `Enable`, `Open`, `OpenFails`, `Thread`, `Disable`, `Move`; `Look`, `Accept`, `AcceptFails`; `Start` .. `Close` (steps of a session, with QUIT, PASV, and LIST and STOR, which wait for their data connection) |
| `PacketListener` | the port of the system manager | `sListen`, `kind`, `queue`, `runing`; `lpc`, `on` (listener threads); `timer` | one action per call of the probe and of `SYSMNG_InitSocket`, `Begin` .. `Leave` of a listener, `Connect` |
| `NorthCommands` | commands that run without a user, on the CFM vty | `buffer`, `view`; `lines`, `at`, `word`, `seen`, `saved` of each thread | the steps of `cmd_pub_run` and `cmd_run`, for the recovery of the configuration and for each packet |
| `CommandLine` | the keys of `cmd_fsm` and the history of one vty | `szBuffer`, `ulUsedLen`, `ulCurrentPos`; `pszHistory`, `ulhNum`, `ulhpos`; `used`, `quitting`; `overrun` | one action per key, for tab `Complete`, `TabAgain`, `TabOnLongWord`; `EnterQuit`, `RecordQuit`; `Offline`, `Connect` |
| `CommandLog` | what a user may count on: the lines run last, in order, and the arrows that walk through them | `log`, `back`, `line` | abstract |
| `MC*` | the modules TLC starts from | | |
| `*Proofs` | the theorems about the module of that name; `JudgeQueueProofs` holds the refinement of `JudgeService` too, `SystemManagerProofs` those of `PacketListener`, `NorthCommands` and `CommandLine` | | |

How the modules compose: `JudgeQueue` has `judge_solution` as the one step
`RunCases`, whose verdicts are what `JudgeSuite` can end with; `JudgeSuite` has
the comparison as the value `files.out`, what `TextChecker` ends with.
`JudgeQueue` instantiates `JudgeService` with a refinement mapping: the target of
each queued request (0 for one that writes no row), the front as the request in
service while the judge thread is not idle, and table verdicts as statuses.
`CommandLine` instantiates `CommandLog`: the log is read from the ring, from the
cell that is overwritten next or from its start (`LogOf`), the place of the arrows is
the distance between the two indices (`StepsBack`), the line is what the keys show.
`MCSystemManager` puts `PacketListener`, `NorthCommands` and `CommandLine` side by
side: they share nothing the models keep, so `part` says which of them a behaviour is
about. `ContestTables` begins where `RunCases` of `JudgeQueue` has a verdict; its `Skip`
is the enqueueing with judging disabled there.

Choices of the models that a reader of the code will ask about:

- *Pushes.* `std::queue::push` reads the end and then stores and moves it; pushes
  of two threads overlap as any data race may: a push that has been overtaken
  overwrites the cell at its old slot, and the end moves or not, past a cell
  that may hold any number. Memory corruption beyond that is not modelled.
- *Slots are positions from the front*, so popping shifts those of the pushes in
  flight; slot 0 is a cell that has been popped.
- *The table.* A row exists once the web platform has inserted it. An update of a
  missing row does nothing; the database may refuse `MaxLost` updates, in both
  forms `SQL_updateSolution` tries.
- *Virtual judges* are three outcomes: handed to the remote judger (V_Q), crawled
  locally (a verdict), failed (V_SK).
- *The run of a program.* `judge_solution_run` forks a child that traces itself
  and calls `system()`; the program is its grandchild. The child stops with
  SIGCHLD when the command has ended, however the program ended, and that is
  what `wait4` reports, with the resources of the children it has waited for.
  `status` and `rused` keep the values of the case before when `fork` fails.
- *A vty and its connection.* A session thread knows its vty and reads its socket
  anew for every character, so the model keeps `at` (the vty) and `sock` (the
  socket of the `recv` in progress) apart. `vty_offline` is one step. A `recv`
  that waits while another thread closes its socket may still get data, or fail;
  descriptors are not reused. Which credentials a client types is left open:
  a login may fail at any time, and succeeds for any user the mode accepts.
- *Commands* come from any vty, one at a time; the loops they run over the vtys are
  steps of their own. The loop index of `vty_offile_all` is never set: it begins
  at any vty or past the last, which are the outcomes that differ. The aging loop
  is a look at any vty and then its end, in any order; time is three ages of a
  vty (fresh, past two minutes, past two days).
- *The saved configuration* has set mode and accounts before the first connection.
- *Sockets that are closed while a thread waits.* `close()` wakes neither `recvfrom`
  nor `accept` nor `recv`: the thread keeps the file, and with it the port, until
  something arrives. In `Ndp`, `FtpServer` and `PacketListener` a thread that looked at
  the switch before therefore lives on beside the one of the next enabling. A socket
  of `Ndp` is the number of the enabling that made it. Listening sockets with
  `SO_REUSEADDR` still exclude each other on one port; UDP sockets do anyway.
- *Descriptors of the ftp server* are numbers in one table, the lowest free one is
  given out, and `close` works by number: a session may close what another thread
  has been given since. `cut` records the listening sockets that were closed that way. The
  listener hands the address of its variable to the thread it starts, which reads it
  later (`overtaken` records those that found another value). Authentication may go
  either way; file commands open and close what they need within one step.
- *The packet listener* is probed with a connection of its own; the backlog fills
  when nobody accepts. When `bind` fails the socket listens all the same, on a port
  the system chooses. Accepted sockets are not counted: the
  code never closes them, and in the end the process runs out of descriptors.
- *Neighbours.* One step of the timer sends and ages; the listener's search and its
  write are separate steps, because timer and commands free entries between them. Nothing
  excludes the commands of different vtys from each other: each has its own place in its
  command (`cmd`), the switch and the socket are looked at and written when the code
  does, and disabling sleeps between the two. An echo may fail to be sent, by `ioctl` or by `sendto`, and one
  to 255.255.255.255 always does: `setsockopt` (`ndp.cpp:519`) gives the size of a `bool` for
  an `int`, which Linux refuses, so the socket may not broadcast. A socket without a port gets one from the
  first `sendto`.
- *Transfers.* LIST and STOR of a session in passive mode wait in `accept` on the number it
  got by PASV, whatever that number means by then; nothing limits the wait. It ends with a
  data connection, or fails, and the number is closed.
- *Tables.* The statements of one function on one table are one step, in which any
  subset may fail; nothing repeats a failed query. All rows are of one contest.
- *Keys* are one step each, but for a command that frees its own vty: `cmd_handle_enter`
  adds it to the history afterwards, when the vty may have its next user. `Words` are
  the completions the tab key may find. A typed character is taken while `ulUsedLen` is below
  the size of the buffer, so that a line may fill it and lose its NUL; a completion is
  appended with no look at the size, and the last word of the line is copied to
  `tabbingString`, of `ElemSize` cells, with none either. A key that does one of these sets `overrun`,
  and the behaviour is followed no further: what it writes over is another field of the vty. A line
  of `NorthCommands` is one word and stands for the command of that name.
- *Histories.* `judged` and `program` of `JudgeSuite`, `counted` and `placed` of
  `ContestTables`, `own`, `overtaken` and `cut` of `FtpServer`, `alone`, `ran` and `given` of
  `NorthCommands`, `stale` and `overrun` of `CommandLine`, `refused` of `JudgeSuite`, `cut` of `Ndp` record what happened for the properties; no
  action depends on them, but for `overrun`, after which `CommandLine` takes no step.

## Runs

| run | instance | checks |
|---|---|---|
| `queue_safety` | 2 solutions, 2 clients, 2 requests, 1 refused update | types, `DetectedOnce`, `NoScanWhileJudging`, `ImplementsService` |
| `queue_crash` | 2 solutions, 2 crashes, 1 refused update, judging switched off (a restart switches it on) | `OrphansBounded` |
| `queue_live` | 2 solutions, one of them virtual, 1 client, 2 requests, fairness | `UnfinishedAreFound`, `RequestsServed` |
| `suite` | 0 to 2 cases, both kinds, special judges, 1 fault, 1 command in the middle, 2 refused updates | types, `AcceptedIsEarned`, `VerdictOfSuite`, `ReportIsComplete`, `UsageReported`, `LimitsStick` |
| `checker` | all pairs of files up to length 4 over two letters, space, newline | `WordsDecide`, `LineTailsIgnored`, `BlanksCounted`, `Terminates` |
| `telnet` | 1 vty, 2 connections, 1 user, modes none and aaa, 1 command, fairness | types, `NoVtyLost`, `StaleOnlyByLogin`, `PoolDrains` |
| `ndp` | 1 client, 1 server, each enabled twice, 2 vtys, 2 ports, age 2, 1 failed call; in parts (below); fairness | types, `HasListener`, `EntryPerThread`, `AliveListed`, `StaleGone` |
| `ftp` | 2 connections, 4 descriptors, 3 listening sockets, 1 PASV | types, `Listens`, `ConnectionsServed` |
| `ftp_live` | 2 connections, 4 descriptors, 1 listening socket, 1 failed call, fairness | `SessionsEnd` |
| `tables` | 3 rows of 1 user and 2 problems, in time, at the very end and late; 1 failed query, crash or skip | types, `StandingsRight`, `CountersRight` |
| `manager` | listener: 4 sockets, 5 threads, backlog 2, 2 faults; commands: the configuration and 2 packets, 2 at a time; line: 4 cells, 3 for a noted word, a ring of 2, a letter and a blank; fairness | types of the three, `LeaksBounded`, `ListenerRecovers`, `AloneRunsItsLines`, `ShownIsRun`, `ImplementsLog` |

One run ends in a violation, of what a comment of the code says: `telnet_other`, in
which a session whose vty was freed and given to another connection goes on, and
reads that connection's socket.

Eleven more disagreements of code and documentation are in `PROJECT.json`, "findings",
each with the line it quotes. Some have a property stated in a module that no run
checks, or checks without a crash; adding it to the configuration shows the counterexample:

| property | what happens |
|---|---|
| `UnfinishedAreFound` of `JudgeQueue`, with `MaxCrashes` 1 in `JudgeQueueLive.cfg` | a crash while compiling leaves V_C, for which no scan looks (`OrphansBounded` counts them) |
| `RemoteVerdictStands` of `JudgeQueue`, with `Virtual = {1}` in `JudgeQueueSafety.cfg` | the remote judger's verdict is overwritten with V_Q |
| `AcceptedInAnyMode` of `JudgeSuite` | a mode changed in the middle of a suite turns a failed suite into V_AC |
| `CrashIsRuntimeError` of `JudgeSuite` | a program ended by SIGSEGV is accepted for its output |
| `SpecialJudgeAccepts` of `JudgeSuite` | a special judge's exit code 1 is read as a wait status |
| `StoresWhenEnabled` of `FtpServer`, in `FtpServerLive.cfg` | a file is stored after the server was disabled |

The others are in the actions themselves: `UpdateContestProblem` (swapped arguments set
accepted and solved of a contest problem to 0), `RecordQuit` (the history of one user
reaches the next), `BindFails` after `Close` (a server that is moved may be left
disabled, its old port held by a thread), `SendEcho` (a client that keeps the broadcast
address it starts with never reaches a server), `Complete` (a completion takes the line out of its buffer).

**Bounds.** `MaxRequests`, `MaxCrashes`, `MaxLost`, `MaxRefused`, `MaxSwitches`, `MaxFaults` cap
the histories. Two solutions and two or three requests are enough for an overlap
of any two producers, a queue of length three, a duplicate
and an order between rows; in `queue_safety` three pushes (two
clients and the timer) are in flight at once. One crash loses everything in memory, the second is
there for what the first left in the table. Two cases are enough for a state
that is carried from one case to the next; `Times` and `Mems` hold the values
on both sides of the limit. Files of length
four hold a word, a blank, a word and an end, or three blanks of any kinds.
One vty and two connections are the smallest pool that is reused under a thread
that still works on it, and that rejects a connection; one command deletes the
user, takes its service or changes the mode while both threads run. What two
vtys add (the loops over them, the first free one) the proofs cover for every
size. Two enablings of a process in `Ndp` leave one old thread beside the new one, on the
port that the old one holds or on another; age 2 distinguishes an entry that is refreshed from
one that is about to go. `MCNdp` divides the run into parts. In the part of a process the
commands of its two vtys overlap as they like, while the other process, which is never enabled,
plays no role: sockets and switches of a process depend on nothing of another. In
"echoes" both are enabled and exchange datagrams, with one vty each and no failed call; the client is enabled
once, with the server for its peer, and a server that was enabled again stays so. Three listening sockets of the ftp server are two moves; four descriptors
run out with two connections and a passive socket, and are reused after every
close. Three rows are an acceptance before and after a wrong submission of one
problem, or a second problem that must not move; one fault
anywhere in the nine functions is followed by every rejudging. Two refused updates of the
results are one that loses a case and one that loses the last, which leaves `published` behind. Two faults of the
packet listener overlap; `MaxSockets` and `MaxThreads` are above what `LeaksBounded`
allows, so they cut nothing off. A ring of two wraps at the third line, and four
cells hold a word, a blank and a word, with the limits of the buffer and of a noted word within reach. The
proofs below carry no such bound.

**Fairness.** `judge_thread_msg` and `judge_thread_timer` are endless loops with a
sleep (weak fairness of their steps), and a thread in the middle of a push
completes it. `SQL_getSolutionsByVerdict` may fail, but not for ever when it is
repeated (strong fairness of `TimerSelect`). Nothing is assumed of clients, the
operator, the remote judger or the programs under test; `Sleepers` are programs
that wait without using CPU time, which hold the judge thread in `wait4` for
ever, and the liveness runs have none. `UnfinishedAreFound` is asked only of
histories in which judging and auto-detection stay enabled from some point on,
and of local problems. In `TelnetVty` the listener hands over what it has taken and a session thread takes
its next step unless it waits for a client that is silent (`Waits`); nothing is
assumed of clients, time, the timer or the operator. `PoolDrains` is asked of
histories in which every client has gone at some point. In `Ndp` timers and the server's
threads take their steps; a process goes on with some command that has begun (a command ends after
a few steps, so none waits for ever); `sendto` does not fail for ever where it can succeed (strong
fairness of `TickSendingAll`, a tick whose sends all go out); the network loses what it likes but not
everything that is sent again and again (strong fairness of `Receive`), and keeps
nothing for ever. In `FtpServer` threads and commands take their steps and what a
client sent before it left has an end (strong fairness of `RecvEnd`: two sessions may
read one connection); nothing is assumed of clients, or of the data connection for which
LIST and STOR wait, and `SessionsEnd` excepts the sessions that do. In `PacketListener` the timer and each listener are loops. `RequestsServed` needs a single client and no timer:
with two producers a push may be overwritten.

`CHECK_DEADLOCK FALSE` stands where the bounds on requests or the end of a suite
stop the system by construction; the runs of this list without it never stop.

## Theorems

All for every value of the constants that the named assumptions allow (finite set
of positive solution ids, `"timer"` no client, positive limits and intervals, finitely
many problems with a score each, an alphabet whose letters are not its blanks). Every
invariant, action property and refinement a passing run checks is the statement of a theorem.

*Queue.* `TypeOK` is not inductive: `Pop` takes the tail of the queue, which has
one only because the request under judgement is still the front; `TypeCorrect`
proves `TypeOK /\ FrontKept`. `QueueInvariant` adds `TimerPushes` (only the timer
pushes detected requests, while it enqueues a scan, and none that is already in
the queue), `OnePushEach` and `ScanBegins` (a scan begins with no detected request
in the queue); together they give `DetectedAtMostOnce`. `ScansOnlyWhenIdle` is
the same argument for one step: the timer starts on an empty queue only, and
`FrontKept` says that the queue of a busy judge is not empty. `OrphansAreLosses`
counts: every step either adds no orphan or is the crash or the refused update
that it is charged to.

*Refinement.* `Refinement` of `JudgeQueueProofs` proves `Spec => ImplementsService`:
lemmas on the targets of a tail, an append and an overwritten cell; one lemma per
action that shows the step of the service it is, or a stutter; `FrontKept` makes
the tail of the mapping well defined.

*Suite.* `SuiteInvariant` proves the conjunction `SuiteInv`: the history follows
the loop (`Positions`), no output is that of another case (`OutputsAreFresh`, which
is what makes a failed fork harmless), acceptances are earned (`PassesEarned`),
failcase is 0 exactly while all cases have passed (`FailuresSeen`), the shape of
the end (`SuiteEnds`), and the usages (`UsageKept`). From it follow
`VerdictsAreRight`, `AcceptedOnlyWhenEarned`, `UsageIsReported` and
`LimitsAreSticky`. `ReportsAreComplete` adds `Following`: in OI mode the results list
is one entry for each case behind the loop, until `Teardown` publishes it; what `published`
lacks in the end it lacks because updates were refused, as many as it lacks and the last.

*Text comparison.* `WordsDecideAlways` says that the verdict V_WA is given exactly when
the squeezed texts differ, for every two files over every alphabet. `Squeezed` is a fold;
`ReadIs` unrolls it (the function behind the fold exists by a least counterexample, since
no proof by induction is available), so that `Read(f, n)`, what has been read of `n`
characters, grows character by character (`ReadKeeps`) and a run of blanks adds one space or
none (`ReadBlanks`). The invariant `IInv` ties the loops to it: within words both files have
been read to the same text; between words to the same text up to a space at its end, and as long as
neither file has ended a blank that one of them has too many adds nothing to either text.
`LetterStays` and `BlankStays` turn a difference of the characters in hand into one of the squeezed texts.
`LineTailsCostNothing` needs the other reference, `Trimmed`, which numbers the characters it keeps
by their count (`TrimmedIs`): two files that keep the same stay `Abreast`, with the same number
kept before the characters in hand, so the next one kept is the same in both (`Match`); a letter is
therefore never beside anything else (`LetterBeside`), and ends of lines meet (`LineEnd`).
For `BlanksAreCounted` two files of one line are read side by side until one of them has only
blanks left (`Joined`), and what is kept of one line is all of it up to the last letter (`TrimmedOfLine`).

*Vty pool.* `PoolInvariant` proves `PoolInv`: types, `HandedOver` (the connection in
the listener's hands has no thread yet, so handing it over takes no vty from
another thread), `VictimIsNext` (the loop of a notification stands at the vty it
takes offline, which keeps its index in range) and `NoVtyLost` itself.
`NothingLost` follows. `StaleUsers` goes through every action once: the loop of a
notification leaves a vty behind only when it does not hold the user, so a user
without the telnet service that is online came by a login, by a vty marked online
after it was freed, or by a change of mode.

*Neighbour discovery.* `NdpHasListener` rests on `Secured(p)`: a process that is enabled
hears, or some command `SeesTo` it (it is about to make a socket, to undo the enabling, or it
works on the current socket, binds it and starts its thread), or its socket was closed or dropped by a
command that had turned the switch off and slept (`cut`). No order among commands is assumed: the proof
goes through the steps of one while any other may be anywhere. `Numbered(p)` says that sockets are
numbered once and that there is room for those the commands under way will make. Old threads, failed
binds and a port in use leave it alone, because a thread only ever touches its own entry. `NdpTypeCorrect` and
`NdpEntryPerThread` add the lists: `Paid(p)` counts, for each address, its entries and the
threads that are about to append it (each has looked and found none), and there are never more of both
than sockets were made. The aging is written as a selection of positions (`Kept`), so
that no step of it is recursive.

*Contest tables.* `TablesTypeCorrect` proves `Shape`, the types and the order of the rows
(the website's clock follows their ids). `CountersFollowRows` adds `CountInv`: which columns
are right in the middle of a job (`ProblemWritten`, `UserWritten`), and that a step which leaves
the rows of a problem or user alone (`KeepsProblem`, `KeepsUser`), or only adds one that is not
judged, keeps its columns right. `StandingsFollowRows` adds `PlaceInv`: time and wrong submissions of
each pair once it is placed, the totals and the fine of a user once all pairs are, and how far the
present job has come (`HandInv`). That the fine adds up needs sums over finite sets (`SumIs`,
`SumsExist`); that the earliest acceptance is the one with the least id needs the order of the rows.

*Ftp server.* `FtpTypeCorrect` proves `TypeOK` together with `Room` (listening sockets are
made only below the bound, and a command that will make one has found room).
`FtpListens` adds `Ready`, what the command in progress has done so far, and follows the
descriptor `sock` until a session closes it by its number, which puts the socket in
`cut`. `FtpConnectionsServed` proves `Kept(c)` for one connection at a time: where the
descriptor of a connection is before and after its thread reads `sClient`, and that a thread
that has read in time has the right one.

*System manager.* `PartsInvariant` proves the inductive invariants of the three parts side by side.
`ListenerInv` is `Shape` (one socket has the port; one that is left behind has a thread that
waits on it; a backlog fills only at the port) with two counts, `SocketsPaid` and `ThreadsPaid`: each socket besides the
listener's own, and each thread beyond it, is charged to a fault, including the ones that the probe under
way is about to leave; `FaultsBoundLeaks` follows. `CommandInv` says of a thread that has met no other
how far it has come in its own lines, whatever the buffer and the view were (`AloneInv`), and of the others only their types;
`AloneIsComplete` follows. `PartsTypeCorrect` is the types of all three.

*Command line.* `LineInvariant` is the conjunction of `TextInv` (the buffer ends in a NUL
unless a key has overrun, `OverrunInv`, and unless it is stale the first NUL is where the keys count the end), `RingInv` (the ring is
filled from its start, or full, and its lines fit the buffer) and the types of the rest. That a string has an end at all needs the least element of a set of naturals.
`LineTypeCorrect` and `WhatIsShownIsRun` follow. `LineRefinement` proves `Spec => ImplementsLog`:
storing at `ulhNum` and moving it is recording (`AddIsRecord`, `LastOfLog`,
`AddHistoryRecords`), a walk of an index round the ring is a walk through the log
(`RecallIsWalk`), and one lemma for each kind of key (`StepImplements`).

`LineTypeCorrect` says that only a typed character that fills the line and the two keys of tab leave
the buffer: what a key does within it is proved, what tab writes behind it is the finding above.

*Only model-checked*: the liveness properties (`UnfinishedAreFound`,
`RequestsServed`, `Terminates`, `PoolDrains`, `AliveListed`, `StaleGone`, `SessionsEnd`,
`ListenerRecovers`), which TLAPS does not reach.

## Plan

Done, in this order: `JudgeQueue` with `JudgeService`, `JudgeSuite`, `TextChecker`,
`TelnetVty`; then `Ndp`, `FtpServer`, `ContestTables`, `PacketListener`, `NorthCommands`,
`CommandLine` with `CommandLog`; and their proofs. What would come next:

1. `EventList` (callbacks registered and notified in order of priority) and with it the
   ftp directories and services of AAA users.
2. The matching of partial keywords and its parameters, and the saved configuration
   against what recovers it.
3. `Elo` as a pure function on integers scaled as the table stores them.
4. Proofs: what the liveness properties rest on and TLAPS can state, the measure that
   no step of a loop increases and some step decreases (the comparison, the scan, the aging).

## Not modelled

The Win32 build (`judge/judge_win.cpp`, `hook/*`, `util/win32.cpp`); HTTP crawling
(`judge_hdu`, `judge_guet`, `judge_leetcode`, `judge_recent`) beyond its outcome;
the Elo ratings (floating-point arithmetic); the compiler process, paths, logs and formatting;
Ctrl-W, `display history`, the matching of parameters and the building and saving of the
configuration; what the ftp commands do to files and directories, and the ftp client;
the debug centre, which only chooses what is printed; enabling, disabling and changing the
port of the telnet server (`thread_create` returns 0 on success, and
`TELNET_ServerDisable` cancels the thread of that number, which nothing defines)
and a `thread_create` that fails; vendored code (`thirdpart32/`), which is most of the
repository's lines. What is left out of a part that is modelled is said in its note in
`PROJECT.json`.
