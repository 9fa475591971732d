---------------------------- MODULE TestScheduler ----------------------------
(***************************************************************************)
(* create_test: the TestScheduler of src/cime/CIME/test_scheduler.py.  A   *)
(* producer (the main thread) scans the tests and starts a thread for the  *)
(* next phase of each test that may proceed; a consumer thread runs the    *)
(* phase, records its result in the shared dictionary self._tests and, for *)
(* some phases, in the TestStatus file of the test.                        *)
(*                                                                         *)
(* The producer scans one test per step: whatever it reads of the test     *)
(* itself is stable during the step, because the test has no thread, and   *)
(* it reads the state of one other test (the first of the build group) and *)
(* the build cost once.  A consumer takes one step per access to shared    *)
(* state.  The commands it runs (create_newcase, case.setup, case.build,   *)
(* case.submit) are one step each, with the effect they have on the        *)
(* TestStatus file, which no other process of the session touches meanwhile*)
(***************************************************************************)
EXTENDS TestPhases, TestStatus, FiniteSets

CONSTANTS
    NoBatch,             \* run the tests here instead of submitting them
    SerializeSharedlib,  \* config.serialize_sharedlib_builds
    ParallelJobs,        \* self._parallel_jobs
    ProcPool,            \* self._proc_pool
    BuildCost,           \* the initial self._model_build_cost
    TotalPes,            \* TotalPes[t]: processors of the run of t
    BuildOnly,           \* the tests that are only built (the option B of a test name)
    MayFail,             \* << t, p >>: phase p of test t may fail
    MayFailSilently      \* ... before the command wrote its TestStatus file

N == Cardinality(Tests)

ASSUME SchedulerAssumption ==
    /\ IsFiniteSet(Tests) /\ Tests = 1..N
    /\ NoBatch \in BOOLEAN /\ SerializeSharedlib \in BOOLEAN
    /\ ParallelJobs \in Nat \ {0} /\ ProcPool \in Nat \ {0} /\ BuildCost \in Nat \ {0}
    /\ TotalPes \in [Tests -> Nat]
    /\ BuildOnly \subseteq Tests
    /\ MayFail \subseteq Tests \X (CREATE_NEWCASE..RUN)
    /\ MayFailSilently \subseteq MayFail

VARIABLES
    phase, status,   \* self._tests: name -> (phase, status)
    file,            \* the TestStatus file of each test
    exeroot,         \* the first tests whose build group has an exeroot
    cost,            \* self._model_build_cost
    avail,           \* self._procs_avail
    inFlight,        \* the keys of threads_in_flight
    entry,           \* threads_in_flight[t]: [procs, phase]
    thread,          \* where the consumer of a test is
    success,         \* success, in a consumer that has run its phase
    producer,        \* where the producer is: scan, wait, join, done or aborted
    next,            \* the test it scans next
    workToDo,        \* work_to_do
    launched,        \* num_threads_launched_this_iteration > 0
    reaping          \* finished_tests, in _wait_for_something_to_finish

tests     == << phase, status >>
consumers == << thread, success >>
scanning  == << next, workToDo, launched >>
pool      == << avail, inFlight, entry >>
vars == << phase, status, file, exeroot, cost, avail, inFlight, entry, thread, success,
           producer, next, workToDo, launched, reaping >>

Progress == INSTANCE TestProgress

NoEntry == [procs |-> 0, phase |-> INIT]
NoRun == LastPhase # RUN

\* The name of a scheduler phase in the TestStatus file.
FileName == << "INIT", "CREATE_NEWCASE", "XML", "SETUP", "SHAREDLIB_BUILD",
               "MODEL_BUILD", "RUN" >>

SetIn(ts, p, s) == SetStatus(ts, p, s, "")

\* The file of a test whose core phases up to p have passed: the next is pending.
PassedFile(p) ==
    LET n      == IF p = RUN THEN 7 ELSE p - 1
        opened == IF n \in 1..6 THEN {CorePhases[n + 1]} ELSE {}
    IN  [st    |-> [q \in Phases |-> IF q \in {CorePhases[i] : i \in 1..n} THEN "PASS"
                                     ELSE IF q \in opened THEN "PEND" ELSE NoStatus],
         cm    |-> [q \in Phases |-> ""],
         order |-> SubSeq(CorePhases, 1, n + Cardinality(opened))]

\* A use_existing session starts where the files say; nobody knows the exeroots.
Init ==
    /\ Progress!Init
    /\ file = [t \in Tests |-> PassedFile(phase[t])]
    /\ exeroot = {} /\ cost = BuildCost
    /\ avail = ProcPool /\ inFlight = {} /\ entry = [t \in Tests |-> NoEntry]
    /\ thread = [t \in Tests |-> "none"] /\ success = [t \in Tests |-> FALSE]
    /\ producer = "scan" /\ next = 1 /\ workToDo = FALSE /\ launched = FALSE /\ reaping = {}

-----------------------------------------------------------------------------
(* The producer *)

\* Mutants of ProcsNeeded: builds are never serialized; members do not wait.
ProcsNeededParallel(t, p) ==
    IF p \in GroupPhases /\ ~IsFirst(t)
      THEN IF Progress!Eligible(t, p) THEN 1 ELSE 0
    ELSE IF p = RUN /\ NoBatch THEN TotalPes[t]
    ELSE IF p = MODEL_BUILD THEN cost ELSE 1

ProcsNeededEager(t, p) ==
    IF p = RUN /\ NoBatch THEN TotalPes[t]
    ELSE IF p = MODEL_BUILD /\ IsFirst(t) THEN cost ELSE 1

\* _get_procs_needed: 0 stands for None, a phase that cannot run now.
ProcsNeeded(t, p) ==
    IF p \in GroupPhases /\ ~IsFirst(t)
      THEN IF Progress!Eligible(t, p) THEN 1 ELSE 0
    ELSE IF p = RUN /\ NoBatch THEN TotalPes[t]
    ELSE IF p = SHAREDLIB_BUILD
      THEN IF SerializeSharedlib /\ \E u \in inFlight : entry[u].phase = SHAREDLIB_BUILD
           THEN 0 ELSE 1
    ELSE IF p = MODEL_BUILD THEN cost
    ELSE 1

\* The expects of _update_test_status.
UpdateLegal(t, p, s) ==
    IF phase[t] = p THEN status[t] = "PEND" /\ s # "PEND"
    ELSE status[t] = "PASS" /\ s = "PEND" /\ phase[t] = p - 1

NextTest == next' = next + 1

\* Nothing to start for this test: it is finished, it has a thread, its phase
\* is not eligible, or the processors it needs are in use.
Skip(t) ==
    /\ \/ ~Progress!WorkRemains(t)
       \/ /\ Cardinality(inFlight) # ParallelJobs
          /\ \/ t \in inFlight
             \/ status[t] # "PEND" /\ ProcsNeeded(t, phase[t] + 1) = 0
             \/ status[t] # "PEND" /\ ProcsNeeded(t, phase[t] + 1) \in (avail + 1)..ProcPool
    /\ workToDo' = (workToDo \/ Progress!WorkRemains(t))
    /\ NextTest
    /\ UNCHANGED << tests, file, exeroot, cost, pool, consumers, producer, launched, reaping >>

\* No worker is free: leave the loop over the tests.
Full(t) ==
    /\ Progress!WorkRemains(t) /\ Cardinality(inFlight) = ParallelJobs
    /\ workToDo' = TRUE /\ next' = N + 1
    /\ UNCHANGED << tests, file, exeroot, cost, pool, consumers, producer, launched, reaping >>

\* Mutants of MayScan: no limit on the workers; a test may get a second thread.
MayScanUnlimited(t) == Progress!WorkRemains(t) /\ t \notin inFlight
MayScanTwice(t) == Progress!WorkRemains(t) /\ Cardinality(inFlight) # ParallelJobs

MayScan(t) == /\ Progress!WorkRemains(t) /\ Cardinality(inFlight) # ParallelJobs
              /\ t \notin inFlight

\* Start a consumer for the next phase of the test.
Launch(t) ==
    LET p == phase[t] + 1
        procs == ProcsNeeded(t, p)
    IN  /\ MayScan(t) /\ status[t] # "PEND"
        /\ procs # 0 /\ procs <= ProcPool /\ procs <= avail
        /\ UpdateLegal(t, p, "PEND")
        /\ avail' = avail - procs
        /\ phase' = [phase EXCEPT ![t] = p] /\ status' = [status EXCEPT ![t] = "PEND"]
        /\ inFlight' = inFlight \cup {t}
        /\ entry' = [entry EXCEPT ![t] = [procs |-> procs, phase |-> p]]
        /\ thread' = [thread EXCEPT ![t] = "run"]
        /\ workToDo' = TRUE /\ launched' = TRUE /\ NextTest
        /\ UNCHANGED << file, exeroot, cost, success, producer, reaping >>

\* The run needs more than the whole pool: it fails without being run.
InstantFail(t) ==
    /\ MayScan(t) /\ status[t] # "PEND"
    /\ phase[t] + 1 = RUN /\ ProcsNeeded(t, RUN) > ProcPool
    /\ MaySet(file[t].st, "SUBMIT")
    /\ UpdateLegal(t, RUN, "PEND")
    /\ \E ts \in {SetIn(file[t], "SUBMIT", "PASS")} :
          file' = [file EXCEPT ![t] = SetIn(ts, "RUN", "FAIL")]
    /\ phase' = [phase EXCEPT ![t] = RUN] /\ status' = [status EXCEPT ![t] = "FAIL"]
    /\ workToDo' = TRUE /\ launched' = TRUE /\ NextTest
    /\ UNCHANGED << exeroot, cost, pool, consumers, producer, reaping >>

\* An expect() fails: the exception ends create_test.
Abort(t) ==
    /\ MayScan(t)
    /\ \/ status[t] = "PEND"
       \/ ProcsNeeded(t, phase[t] + 1) > ProcPool /\ phase[t] + 1 # RUN
       \/ ProcsNeeded(t, phase[t] + 1) > ProcPool /\ ~MaySet(file[t].st, "SUBMIT")
       \/ ProcsNeeded(t, phase[t] + 1) # 0 /\ ~UpdateLegal(t, phase[t] + 1, "PEND")
    /\ producer' = "aborted"
    /\ UNCHANGED << tests, file, exeroot, cost, pool, consumers, scanning, reaping >>

Scan ==
    /\ producer = "scan" /\ next <= N
    /\ \/ Skip(next) \/ Full(next) \/ Launch(next) \/ InstantFail(next) \/ Abort(next)

\* Mutants of EndScan: stops when nothing was started, never waits, restarts one off.
EndScanEarly ==
    /\ producer = "scan" /\ next > N
    /\ producer' = IF launched THEN "scan" ELSE "join"
    /\ next' = 1 /\ workToDo' = FALSE /\ launched' = FALSE
    /\ UNCHANGED << tests, file, exeroot, cost, pool, consumers, reaping >>

EndScanBusy ==
    /\ producer = "scan" /\ next > N
    /\ producer' = IF ~workToDo THEN "join" ELSE "scan"
    /\ next' = 1 /\ workToDo' = FALSE /\ launched' = FALSE
    /\ UNCHANGED << tests, file, exeroot, cost, pool, consumers, reaping >>

EndScanOneOff ==
    /\ producer = "scan" /\ next > N
    /\ producer' = IF ~workToDo THEN "join" ELSE IF launched THEN "scan" ELSE "wait"
    /\ next' = 0 /\ workToDo' = FALSE /\ launched' = FALSE
    /\ UNCHANGED << tests, file, exeroot, cost, pool, consumers, reaping >>

\* The loop over the tests ended: stop, wait, or scan again.
EndScan ==
    /\ producer = "scan" /\ next > N
    /\ producer' = IF ~workToDo THEN "join" ELSE IF launched THEN "scan" ELSE "wait"
    /\ next' = 1 /\ workToDo' = FALSE /\ launched' = FALSE
    /\ UNCHANGED << tests, file, exeroot, cost, pool, consumers, reaping >>

Over == {"dead", "crashed"}
Finished == {t \in inFlight : thread[t] \in Over}

\* _wait_for_something_to_finish polls until a thread is over and notes every
\* thread that is; nothing in flight means polling for ever.
Wait ==
    /\ producer = "wait" /\ Finished # {}
    /\ producer' = "reap" /\ reaping' = Finished
    /\ UNCHANGED << tests, file, exeroot, cost, pool, consumers, scanning >>

\* Mutant: the processors are not given back.
ReapLeaky(t) ==
    /\ producer = "reap" /\ t \in reaping
    /\ inFlight' = inFlight \ {t} /\ entry' = [entry EXCEPT ![t] = NoEntry]
    /\ thread' = [thread EXCEPT ![t] = "none"]
    /\ reaping' = reaping \ {t}
    /\ producer' = IF reaping' = {} THEN "scan" ELSE "reap"
    /\ UNCHANGED << tests, file, exeroot, cost, success, scanning, avail >>

\* Take a noted thread out of threads_in_flight.
Reap(t) ==
    /\ producer = "reap" /\ t \in reaping
    /\ avail' = avail + entry[t].procs
    /\ inFlight' = inFlight \ {t} /\ entry' = [entry EXCEPT ![t] = NoEntry]
    /\ thread' = [thread EXCEPT ![t] = "none"]
    /\ reaping' = reaping \ {t}
    /\ producer' = IF reaping' = {} THEN "scan" ELSE "reap"
    /\ UNCHANGED << tests, file, exeroot, cost, success, scanning >>

\* All work was started: join the threads.
Join ==
    /\ producer = "join" /\ Finished = inFlight
    /\ producer' = "done"
    /\ UNCHANGED << tests, file, exeroot, cost, pool, consumers, scanning, reaping >>

Produce == Scan \/ EndScan \/ Wait \/ (\E t \in Tests : Reap(t)) \/ Join

-----------------------------------------------------------------------------
(* The consumers: first the phase methods, one per phase *)

Fails(t) == << t, phase[t] >> \in MayFail
FailsSilently(t) == << t, phase[t] >> \in MayFailSilently

Ends(t, ok) ==
    /\ success' = [success EXCEPT ![t] = ok]
    /\ thread' = [thread EXCEPT ![t] = "record"]

CreateNewcase(t) ==
    /\ phase[t] = CREATE_NEWCASE
    /\ Ends(t, TRUE) \/ (Fails(t) /\ Ends(t, FALSE))
    /\ UNCHANGED << file, exeroot, cost >>

\* The first test of a group publishes its EXEROOT, the others take it over.
\* The build cost is scaled back to the pool.  A failure happens before all
\* that, or in the flush of the case after it.
ExerootExpected(t) == IF IsFirst(t) THEN t \notin exeroot ELSE Leader[t] \in exeroot

Xml(t) ==
    /\ phase[t] = XML
    /\ \/ /\ ExerootExpected(t)
          /\ exeroot' = IF IsFirst(t) THEN exeroot \cup {t} ELSE exeroot
          /\ cost' = IF cost > ProcPool THEN ProcPool ELSE cost
          /\ Ends(t, TRUE) \/ (Fails(t) /\ Ends(t, FALSE))
       \/ /\ ~ExerootExpected(t) \/ Fails(t)
          /\ Ends(t, FALSE)
          /\ UNCHANGED << exeroot, cost >>
    /\ UNCHANGED file

\* case.setup, case.build: the command writes its own phase.
Command(t, ok, ts) == Ends(t, ok) /\ file' = [file EXCEPT ![t] = ts]

Setup(t) ==
    /\ phase[t] = SETUP
    /\ \/ Command(t, TRUE, SetIn(file[t], "SETUP", "PASS"))
       \/ Fails(t) /\ Command(t, FALSE, SetIn(file[t], "SETUP", "FAIL"))
       \/ FailsSilently(t) /\ Command(t, FALSE, file[t])
    /\ UNCHANGED << exeroot, cost >>

\* _sharedlib_build_phase, _model_build_phase of the first test of a group
BuildFirst(t) ==
    /\ phase[t] \in BuildPhases /\ IsFirst(t)
    /\ \/ Command(t, TRUE, SetIn(file[t], FileName[phase[t]], "PASS"))
       \/ Fails(t) /\ Command(t, FALSE, SetIn(file[t], FileName[phase[t]], "FAIL"))
       \/ FailsSilently(t) /\ Command(t, FALSE, file[t])
    /\ UNCHANGED << exeroot, cost >>

\* Mutant: the build of the first test is not looked at.
BuildMemberBlind(t) ==
    /\ phase[t] \in BuildPhases /\ ~IsFirst(t)
    /\ Ends(t, TRUE)
    /\ UNCHANGED << file, exeroot, cost >>

\* ... of the others: nothing to build; post_build may fail.
BuildMember(t) ==
    /\ phase[t] \in BuildPhases /\ ~IsFirst(t)
    /\ \/ Progress!StatusOf(Leader[t], phase[t]) = "PASS" /\ Ends(t, TRUE)
       \/ Progress!StatusOf(Leader[t], phase[t]) # "PASS" /\ Ends(t, FALSE)
       \/ phase[t] = MODEL_BUILD /\ Fails(t) /\ Ends(t, FALSE)
    /\ UNCHANGED << file, exeroot, cost >>

\* case.submit assumes that the submission passes, and takes that back.
Submitted(ts) == IF ts.st["SUBMIT"] = "PASS" THEN ts ELSE SetIn(ts, "SUBMIT", "PASS")

\* Without a batch system the run is part of case.submit, which succeeds
\* whatever the result of the run; a build-only test is not submitted at all.
Run(t) ==
    /\ phase[t] = RUN
    /\ \E ts \in {Submitted(file[t])} :
          \/ t \in BuildOnly /\ Command(t, TRUE, SetIn(ts, "RUN", "PASS"))
          \/ /\ t \notin BuildOnly
             /\ \/ ~NoBatch /\ Command(t, TRUE, ts)
                \/ NoBatch /\ \E s \in {"PASS", "FAIL"} : Command(t, TRUE, SetIn(ts, "RUN", s))
                \/ Fails(t) /\ Command(t, FALSE, SetIn(ts, "SUBMIT", "FAIL"))
                \/ FailsSilently(t) /\ \E f \in {file[t], ts} : Command(t, FALSE, f)
    /\ UNCHANGED << exeroot, cost >>

RunPhase(t) ==
    /\ thread[t] = "run"
    /\ \/ CreateNewcase(t) \/ Xml(t) \/ Setup(t) \/ BuildFirst(t) \/ BuildMember(t) \/ Run(t)
    /\ UNCHANGED << tests, pool, producer, scanning, reaping >>

-----------------------------------------------------------------------------
(* _consumer, after the phase method *)

\* A successful submission leaves the RUN phase pending.
Result(t) == IF ~success[t] THEN "FAIL"
             ELSE IF phase[t] = RUN /\ ~NoBatch THEN "PEND" ELSE "PASS"

\* Mutant: the result of the XML phase is not written.
WritesFileNew(t) == phase[t] = CREATE_NEWCASE \/ (~IsFirst(t) /\ phase[t] \in BuildPhases)

\* The phases whose line in the file the scheduler writes.
WritesFile(t) ==
    phase[t] \in {CREATE_NEWCASE, XML} \/ (~IsFirst(t) /\ phase[t] \in BuildPhases)

SubmitsAtOnce(t) == success[t] /\ ~NoRun /\ ~NoBatch /\ phase[t] = MODEL_BUILD

AfterFile(t) == IF SubmitsAtOnce(t) THEN "submit" ELSE "dead"

Record(t) ==
    /\ thread[t] = "record"
    /\ IF Result(t) # "PEND" /\ ~UpdateLegal(t, phase[t], Result(t))
       THEN /\ thread' = [thread EXCEPT ![t] = "crashed"]
            /\ UNCHANGED status
       ELSE /\ thread' = [thread EXCEPT ![t] = IF WritesFile(t) THEN "file" ELSE AfterFile(t)]
            /\ status' = [status EXCEPT ![t] = Result(t)]
    /\ UNCHANGED << phase, file, exeroot, cost, pool, success, producer, scanning, reaping >>

\* _update_test_status_file; its exception ends the thread.
UpdateFile(t) ==
    LET c == FileName[phase[t]]
    IN  /\ thread[t] = "file"
        /\ IF MaySet(file[t].st, c)
           THEN /\ file' = [file EXCEPT ![t] = SetIn(@, c, Result(t))]
                /\ thread' = [thread EXCEPT ![t] = AfterFile(t)]
           ELSE /\ thread' = [thread EXCEPT ![t] = "crashed"]
                /\ UNCHANGED file
        /\ UNCHANGED << tests, exeroot, cost, pool, success, producer, scanning, reaping >>

\* With a batch system a built test is submitted by the thread that built it.
SubmitNow(t) ==
    /\ thread[t] = "submit"
    /\ IF UpdateLegal(t, RUN, "PEND")
       THEN /\ phase' = [phase EXCEPT ![t] = RUN] /\ status' = [status EXCEPT ![t] = "PEND"]
            /\ thread' = [thread EXCEPT ![t] = "run"]
       ELSE /\ thread' = [thread EXCEPT ![t] = "crashed"]
            /\ UNCHANGED tests
    /\ UNCHANGED << file, exeroot, cost, pool, success, producer, scanning, reaping >>

Consume(t) == RunPhase(t) \/ Record(t) \/ UpdateFile(t) \/ SubmitNow(t)

-----------------------------------------------------------------------------
\* create_test is over when its producer is.
Terminating == producer \in {"done", "aborted"} /\ UNCHANGED vars

Next == Produce \/ (\E t \in Tests : Consume(t)) \/ Terminating

\* The threads are scheduled by the operating system, and the commands they run
\* end (a build or a submission that never returns hangs create_test too).
Fairness == WF_vars(Produce) /\ \A t \in Tests : WF_vars(Consume(t))

Spec == Init /\ [][Next]_vars /\ Fairness

-----------------------------------------------------------------------------
(* Properties *)

TestsOK == /\ phase \in [Tests -> INIT..LastPhase]
           /\ status \in [Tests -> {"PASS", "PEND", "FAIL"}]
SharedOK == DOMAIN file = Tests /\ exeroot \subseteq Tests /\ cost \in Nat \ {0}
PoolOK == /\ avail \in Nat
          /\ inFlight \subseteq Tests /\ reaping \subseteq inFlight
          /\ entry \in [Tests -> [procs : Nat, phase : INIT..LastPhase]]
ConsumersOK ==
    /\ thread \in [Tests -> {"none", "run", "record", "file", "submit", "dead", "crashed"}]
    /\ success \in [Tests -> BOOLEAN]
ProducerOK == /\ producer \in {"scan", "wait", "reap", "join", "done", "aborted"}
              /\ next \in 1..(N + 1)
              /\ workToDo \in BOOLEAN /\ launched \in BOOLEAN

TypeOK == TestsOK /\ SharedOK /\ PoolOK /\ ConsumersOK /\ ProducerOK

\* The processors that the threads in flight hold, one slot each.
Slots == UNION {{t} \X (1..entry[t].procs) : t \in inFlight}

\* The processors in use and the free ones are always the whole pool, whatever
\* the threads do: nothing is leaked by a phase that fails and nothing is given
\* back twice (_producer_indv_test_launch, _wait_for_something_to_finish).
ProcsConserved == avail + Cardinality(Slots) = ProcPool

\* No more than parallel_jobs consumers are alive at any time.
ParallelLimit == Cardinality({t \in Tests : thread[t] \notin Over \cup {"none"}}) <= ParallelJobs

\* With serialize_sharedlib_builds no two first tests build their shared
\* libraries at the same time (the libraries share one directory).
OneSharedlibBuild ==
    SerializeSharedlib =>
        \A t, u \in Tests :
            t # u /\ IsFirst(t) /\ IsFirst(u)
                => ~(/\ thread[t] = "run" /\ phase[t] = SHAREDLIB_BUILD
                     /\ thread[u] = "run" /\ phase[u] = SHAREDLIB_BUILD)

\* Threads are started within the two limits on what runs at the same time,
\* however threads end between two looks of the producer.
LimitsKept == ParallelLimit /\ OneSharedlibBuild

\* "By the end of this constructor, this program should never hard abort"
\* (test_scheduler.py:486): none of the expects of the producer and of the
\* consumers can fail, in any interleaving.
NeverHardAborts == producer # "aborted" /\ \A t \in Tests : thread[t] # "crashed"

\* "No free resources, wait for something in flight to finish"
\* (test_scheduler.py:1378): the producer only waits when something is in flight.
WaitsForSomething == producer = "wait" => inFlight # {}

\* When create_test stops scheduling every test has failed or has had all its phases.
AllTestsFinished ==
    producer = "done" => \A t \in Tests : ~Progress!WorkRemains(t)

\* The value of run_tests, "True if all tests passed" (test_scheduler.py:1444),
\* without --wait; throughput, memory and namelists have no lines here.
Verdict(t) ==
    Overall(file[t], [waitForRun |-> ~NoRun, checkTput |-> FALSE, checkMem |-> FALSE,
                      ignoreNl |-> FALSE, ignoreDiffs |-> FALSE, ignoreMemleak |-> FALSE,
                      noRun |-> NoRun])[1]

RunTestsReturns ==
    \A t \in Tests : Verdict(t) = "PASS" \/ (Verdict(t) = "PEND" /\ ~NoBatch)
                                         \/ (Verdict(t) = "PEND" /\ NoRun)

\* A test that failed in the memory of the scheduler is never hidden by the
\* TestStatus files, from which run_tests takes its result.
FailuresReported ==
    producer = "done" /\ RunTestsReturns => \A t \in Tests : status[t] # "FAIL"

\* What TestProgress promises.
ProgressSpec == Progress!Spec
MembersUseFinishedBuild == Progress!MembersUseFinishedBuild

\* create_test ends.
Termination == <>(producer = "done")

=============================================================================
