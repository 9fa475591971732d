------------------------------ MODULE TestCaseRun ------------------------------
(***************************************************************************)
(* The run of one system test on a batch machine, after it was built: three *)
(* kinds of programs share its TestStatus file without a lock.             *)
(*    case.submit   (case/case_submit.py) queues the job of the test, once  *)
(*                  by create_test and again for every resubmission         *)
(*    case.test     the job: SystemTestsCommon.run                          *)
(*                  (SystemTests/system_tests_common.py)                    *)
(*    wait_for_test (wait_for_tests.py) polls the file for a verdict        *)
(* Every access is a TestStatus object: it reads the file when it is made   *)
(* and rewrites the whole file from its memory when a with block ends, by   *)
(* truncating it and writing it (test_status.py, flush).  The object of a   *)
(* job is made once and lives as long as the job.                           *)
(***************************************************************************)
EXTENDS TestStatus

\* The tests and machines to consider: records of
\*   jobs       RESUBMIT + 1, the submissions the test needs
\*   inJob      a run resubmits the test itself (not DOUT_S, as PET), else st_archive does
\*   baseline   the baseline phases of the test: GENERATE, BASELINE or both
\*   compares   the comparisons the test makes of its own runs, in turn
\*   standalone is_comp_standalone: the case has one active component
\*   may        what may go wrong: "refuse" (the batch system refuses a job),
\*              "break" (case.submit fails after it queued the job), "kill" (a job
\*              is killed without a signal it can handle), "stop" (wait_for_tests
\*              is stopped by a signal or its timeout)
CONSTANT Tests

ASSUME CaseRunAssumption ==
    \A t \in Tests :
        /\ t.jobs \in Nat \ {0} /\ t.baseline \subseteq {"GENERATE", "BASELINE"}
        /\ t.compares \in Seq(ComparePhases)
        /\ {t.inJob, t.standalone} \subseteq BOOLEAN
        /\ t.may \subseteq {"refuse", "break", "kill", "stop"}

VARIABLES
    test,      \* the test and its machine
    file,      \* the TestStatus file; a truncated file has no phases
    submit,    \* submit[k]: where the k-th case.submit is
    submitMem, \* its TestStatus object
    job,       \* job[k]: where the k-th job is
    jobMem,    \* its TestStatus object
    todo,      \* what it has still to do
    outcome,   \* outcome[k]: whether its run passed, "" while that is open
    stopped,   \* SIGNAL_RECEIVED of wait_for_tests
    verdict    \* what wait_for_test put on the queue of results

submitVars == << submit, submitMem >>
jobVars    == << job, jobMem, todo, outcome >>
waitVars   == << stopped, verdict >>
vars == << test, file, submitVars, jobVars, waitVars >>

Jobs       == test.jobs
InJob      == test.inJob
Baseline   == test.baseline
Standalone == test.standalone
May(what)  == what \in test.may

K == 1..Jobs
SetIn(ts, p, s) == SetStatus(ts, p, s, "")
NoVerdict == [status |-> NoStatus, named |-> FALSE]

\* The build of the test passed, so that its submission is pending.
Built ==
    [st    |-> [p \in Phases |-> IF p = "SUBMIT" THEN "PEND"
                                 ELSE IF p \in Core \ {"RUN"} THEN "PASS" ELSE NoStatus],
     cm    |-> [p \in Phases |-> ""],
     order |-> SubSeq(CorePhases, 1, 6)]

\* The set_status calls of one with block.
SetAll(ts, ps, s) ==
    LET after[i \in 0..Len(ps)] == IF i = 0 THEN ts ELSE SetIn(after[i - 1], ps[i], s)
    IN  after[Len(ps)]

Init ==
    /\ test \in Tests
    /\ file = Built
    /\ submit = [k \in K |-> IF k = 1 THEN "start" ELSE "none"]
    /\ submitMem = [k \in K |-> EmptyStatus]
    /\ job = [k \in K |-> "none"] /\ jobMem = [k \in K |-> EmptyStatus]
    /\ todo = [k \in K |-> << >>] /\ outcome = [k \in K |-> ""]
    /\ stopped = FALSE /\ verdict = NoVerdict

-----------------------------------------------------------------------------
(* case.submit *)

\* Mutant: the submission is recorded when it has been made.
SubmitReadLate(k) ==
    /\ submit[k] = "start"
    /\ submit' = [submit EXCEPT ![k] = "queue"]
    /\ UNCHANGED << file, submitMem, jobVars, waitVars >>

\* The submission is assumed to pass, before it is made.
SubmitRead(k) ==
    /\ submit[k] = "start"
    /\ submitMem' = [submitMem EXCEPT ![k] =
                        IF file.st["SUBMIT"] = "PASS" THEN file ELSE SetIn(file, "SUBMIT", "PASS")]
    /\ submit' = [submit EXCEPT ![k] = IF submitMem'[k].order = << >> THEN "queue" ELSE "flush"]
    /\ UNCHANGED << file, jobVars, waitVars >>

\* The end of a with block, in two steps.
After(pc) == IF pc = "write" THEN "queue" ELSE "failed"

SubmitFlush(k) ==
    /\ \/ submit[k] = "flush"     /\ submit' = [submit EXCEPT ![k] = "write"]
       \/ submit[k] = "flushFail" /\ submit' = [submit EXCEPT ![k] = "writeFail"]
    /\ file' = EmptyStatus
    /\ UNCHANGED << submitMem, jobVars, waitVars >>

SubmitWrite(k) ==
    /\ submit[k] \in {"write", "writeFail"}
    /\ file' = submitMem[k]
    /\ submit' = [submit EXCEPT ![k] = After(@)]
    /\ UNCHANGED << submitMem, jobVars, waitVars >>

\* submit_jobs: the job is refused, or queued; then the command may still fail.
Queue(k) ==
    /\ submit[k] = "queue"
    /\ \/ /\ May("refuse")
          /\ submit' = [submit EXCEPT ![k] = "error"]
          /\ UNCHANGED job
       \/ /\ \/ submit' = [submit EXCEPT ![k] = "done"]
             \/ May("break") /\ submit' = [submit EXCEPT ![k] = "error"]
          /\ job' = [job EXCEPT ![k] = "queued"]
    /\ UNCHANGED << file, submitMem, jobMem, todo, outcome, waitVars >>

\* Mutant: the exception is only passed on.
SubmitErrorUnmarked(k) ==
    /\ submit[k] = "error"
    /\ submit' = [submit EXCEPT ![k] = "failed"]
    /\ UNCHANGED << file, submitMem, jobVars, waitVars >>

\* The exception handler: "make sure to mark the test as failed".
SubmitError(k) ==
    /\ submit[k] = "error"
    /\ submitMem' = [submitMem EXCEPT ![k] = SetIn(file, "SUBMIT", "FAIL")]
    /\ submit' = [submit EXCEPT ![k] = "flushFail"]
    /\ UNCHANGED << file, jobVars, waitVars >>

Submit(k) == SubmitRead(k) \/ SubmitFlush(k) \/ SubmitWrite(k) \/ Queue(k) \/ SubmitError(k)

-----------------------------------------------------------------------------
(* case.test *)

\* A with block that sets some phases to one status, and the other steps of a job.
Set(ps, s)   == [act |-> "set", phases |-> ps, to |-> s]
Act(a)       == [act |-> a, phases |-> << >>, to |-> {}]
Judge(p)     == [act |-> "judge", phases |-> << p >>, to |-> {}]
Compare(s)   == [i \in DOMAIN test.compares |-> Set(<< test.compares[i] >>, s)]
If(c, steps) == IF c THEN steps ELSE << >>

Final(k) == k = Jobs
AnyResult == {"PASS", "FAIL"}

\* The baseline operations of the last submission, and what the others write instead.
Generate == "GENERATE" \in Baseline
Against  == "BASELINE" \in Baseline
BaselineOps ==
    If(Generate, << Set(<< "GENERATE" >>, AnyResult) >>)
        \o If(Against, << Set(<< "BASELINE" >>, AnyResult) >>
                          \o If(~Standalone, << Judge("MEMCOMP"), Judge("TPUTCOMP") >>))

\* Mutant: the submissions before the last write nothing instead.
BaselineSkipped == << >>

BaselinePending ==
    If(Generate, << Set(<< "GENERATE" >>, {"PEND"}) >>)
        \o If(Against, << Set(<< "BASELINE", "MEMCOMP", "TPUTCOMP" >>, {"PEND"}) >>)

\* Mutant: the result of the run is written as soon as it is known.
ScriptRunFirst(k) ==
    << Set(<< "RUN" >>, {"PEND"}) >>
        \o If(k = 1, Compare({"PEND"}))
        \o << Act("model"), Set(<< "RUN" >>, {"PASS"}) >>
        \o If(InJob /\ ~Final(k), << Act("resubmit") >>)
        \o (IF Final(k) THEN Compare(AnyResult) \o BaselineOps ELSE BaselinePending)
        \o << Set(<< "MEMLEAK" >>, AnyResult), Set(<< "SHORT_TERM_ARCHIVER" >>, AnyResult) >>

\* What run() does between its first and its last status of the run, block by
\* block.  A comparison within the test is pending from the first submission on,
\* the baseline phases until the last one.
Work(k) ==
    If(k = 1, Compare({"PEND"}))
        \o << Act("model") >>
        \o If(InJob /\ ~Final(k), << Act("resubmit") >>)
        \o (IF Final(k) THEN Compare(AnyResult) \o BaselineOps ELSE BaselinePending)
        \o << Set(<< "MEMLEAK" >>, AnyResult), Set(<< "SHORT_TERM_ARCHIVER" >>, AnyResult) >>

Script(k) == << Set(<< "RUN" >>, {"PEND"}) >> \o Work(k) \o << Set(<< "RUN" >>, {"PASS"}) >>

GoOn(k) == todo' = [todo EXCEPT ![k] = Tail(@)]

\* The job starts; if its constructor throws, case_test records a failed run.
Start(k) ==
    /\ job[k] = "queued"
    /\ \/ /\ jobMem' = [jobMem EXCEPT ![k] = file]
          /\ todo' = [todo EXCEPT ![k] = Script(k)] /\ job' = [job EXCEPT ![k] = "run"]
          /\ UNCHANGED outcome
       \/ /\ jobMem' = [jobMem EXCEPT ![k] =
                          IF MaySet(file.st, "RUN") THEN SetIn(file, "RUN", "FAIL") ELSE file]
          /\ todo' = [todo EXCEPT ![k] = << >>]
          /\ job' = [job EXCEPT ![k] = IF jobMem'[k].order = << >> THEN "over" ELSE "flush"]
          /\ outcome' = [outcome EXCEPT ![k] = "FAIL"]
    /\ UNCHANGED << file, submitVars, waitVars >>

\* The next with block of the run.  The exception of set_status, and that of the
\* one in the finally clause, leave the memory as it is; the blocks still flush it.
SetNext(k) ==
    /\ job[k] = "run" /\ todo[k] # << >> /\ Head(todo[k]).act = "set"
    /\ LET ps == Head(todo[k]).phases
       IN  IF MaySet(jobMem[k].st, Head(ps))
           THEN /\ \E s \in Head(todo[k]).to :
                      /\ jobMem' = [jobMem EXCEPT ![k] = SetAll(@, ps, s)]
                      /\ outcome' = [outcome EXCEPT ![k] =
                                        IF ps = << "RUN" >> /\ s # "PEND" THEN s ELSE @]
                /\ GoOn(k)
           ELSE /\ outcome' = [outcome EXCEPT ![k] = "FAIL"]
                /\ todo' = [todo EXCEPT ![k] = << >>]
                /\ UNCHANGED jobMem
    /\ job' = [job EXCEPT ![k] = "flush"]
    /\ UNCHANGED << file, submitVars, waitVars >>

\* _compare_memory and _compare_throughput: there is nothing to compare with, or
\* the value is within its tolerance, or not, or they throw.  A phase that has a
\* status already, be it a pending one, does not become PASS.
JudgeNext(k) ==
    /\ job[k] = "run" /\ todo[k] # << >> /\ Head(todo[k]).act = "judge"
    /\ LET p == Head(todo[k]).phases[1]
       IN  \/ UNCHANGED jobMem
          \/ /\ jobMem[k].st[p] = NoStatus
             /\ jobMem' = [jobMem EXCEPT ![k] = SetIn(@, p, "PASS")]
          \/ jobMem' = [jobMem EXCEPT ![k] = SetIn(@, p, "FAIL")]
    /\ GoOn(k) /\ job' = [job EXCEPT ![k] = "flush"]
    /\ UNCHANGED << file, submitVars, outcome, waitVars >>

JobFlush(k) ==
    /\ job[k] = "flush"
    /\ file' = EmptyStatus /\ job' = [job EXCEPT ![k] = "write"]
    /\ UNCHANGED << submitVars, jobMem, todo, outcome, waitVars >>

JobWrite(k) ==
    /\ job[k] = "write"
    /\ file' = jobMem[k] /\ job' = [job EXCEPT ![k] = IF todo[k] = << >> THEN "over" ELSE "run"]
    /\ UNCHANGED << submitVars, jobMem, todo, outcome, waitVars >>

\* Mutant: the status of a run that fails is not written.
RunModelUnmarked(k) ==
    /\ job[k] = "run" /\ todo[k] # << >> /\ Head(todo[k]).act = "model"
    /\ \/ GoOn(k) /\ UNCHANGED job
       \/ todo' = [todo EXCEPT ![k] = << >>] /\ job' = [job EXCEPT ![k] = "over"]
    /\ UNCHANGED << file, submitVars, jobMem, outcome, waitVars >>

\* The model completes, or it fails or a signal ends it: then RUN is all that is left.
RunModel(k) ==
    /\ job[k] = "run" /\ todo[k] # << >> /\ Head(todo[k]).act = "model"
    /\ GoOn(k) \/ todo' = [todo EXCEPT ![k] = << Set(<< "RUN" >>, {"FAIL"}) >>]
    /\ UNCHANGED << file, submitVars, job, jobMem, outcome, waitVars >>

\* _resubmit_check calls case.submit within the job and waits for it; if it
\* throws the run fails.
Resubmit(k) ==
    /\ job[k] = "run" /\ todo[k] # << >> /\ Head(todo[k]).act = "resubmit"
    /\ \/ /\ submit[k + 1] = "none"
          /\ submit' = [submit EXCEPT ![k + 1] = "start"] /\ UNCHANGED todo
       \/ submit[k + 1] = "done" /\ GoOn(k) /\ UNCHANGED submit
       \/ /\ submit[k + 1] = "failed"
          /\ todo' = [todo EXCEPT ![k] = << Set(<< "RUN" >>, {"FAIL"}) >>] /\ UNCHANGED submit
    /\ UNCHANGED << file, submitMem, job, jobMem, outcome, waitVars >>

\* The case.st_archive job depends on the test job and resubmits it.
Archive(k) ==
    /\ ~InJob /\ ~Final(k) /\ job[k] = "over" /\ outcome[k] = "PASS" /\ submit[k + 1] = "none"
    /\ submit' = [submit EXCEPT ![k + 1] = "start"]
    /\ UNCHANGED << file, submitMem, jobVars, waitVars >>

Job(k) == \/ Start(k) \/ SetNext(k) \/ JudgeNext(k) \/ JobFlush(k) \/ JobWrite(k)
          \/ RunModel(k) \/ Resubmit(k) \/ Archive(k)

Kill(k) ==
    /\ May("kill") /\ job[k] \in {"run", "flush", "write"}
    /\ job' = [job EXCEPT ![k] = "killed"]
    /\ UNCHANGED << file, submitVars, jobMem, todo, outcome, waitVars >>

-----------------------------------------------------------------------------
(* wait_for_tests *)

\* wait_for_run, and the failures of throughput and memory comparisons are ignored.
WaitOptions == [waitForRun |-> TRUE, checkTput |-> FALSE, checkMem |-> FALSE,
                ignoreNl |-> FALSE, ignoreDiffs |-> FALSE, ignoreMemleak |-> FALSE,
                noRun |-> FALSE]

Stop == /\ May("stop") /\ ~stopped /\ verdict = NoVerdict /\ stopped' = TRUE
        /\ UNCHANGED << file, submitVars, jobVars, verdict >>

\* The loop of wait_for_test ends; the name of the test is read from the file.
Report ==
    /\ verdict = NoVerdict
    /\ Overall(file, WaitOptions)[1] # "PEND" \/ stopped
    /\ verdict' = [status |-> Overall(file, WaitOptions)[1], named |-> file.order # << >>]
    /\ UNCHANGED << file, submitVars, jobVars, stopped >>

-----------------------------------------------------------------------------
Idle(k) == submit[k] \in {"none", "done", "failed"} /\ job[k] \in {"none", "over", "killed"}
More(k) == ~InJob /\ ~Final(k) /\ job[k] = "over" /\ outcome[k] = "PASS" /\ submit[k + 1] = "none"
Over == \A k \in K : Idle(k) /\ ~More(k)

Terminating == Over /\ UNCHANGED vars

Next == /\ (\E k \in K : Submit(k) \/ Job(k) \/ Kill(k)) \/ Stop \/ Report \/ Terminating
        /\ UNCHANGED test

Spec == Init /\ [][Next]_vars

-----------------------------------------------------------------------------
(* Properties *)

TypeOK ==
    /\ test \in Tests
    /\ IsStatus(file) /\ \A k \in K : IsStatus(submitMem[k]) /\ IsStatus(jobMem[k])
    /\ submit \in [K -> {"none", "start", "flush", "write", "queue", "error", "flushFail",
                         "writeFail", "done", "failed"}]
    /\ job \in [K -> {"none", "queued", "run", "flush", "write", "over", "killed"}]
    /\ outcome \in [K -> AnyResult \cup {""}]

\* "Writing the run status should be the very last thing due to wait_for_tests"
\* (system_tests_common.py:586): when a test is reported as passed, its last
\* submission has run, has passed and writes nothing any more.
PassMeansRan ==
    verdict.status = "PASS" /\ ~stopped => job[Jobs] = "over" /\ outcome[Jobs] = "PASS"

\* The next job is submitted when this one has ended: no two of them write the
\* file at a time.
InOrder == ~InJob

\* Whatever is reported without being stopped is what the file says at the end.
VerdictIsFinal ==
    InOrder /\ verdict # NoVerdict /\ ~stopped /\ Over => verdict.status = Overall(file, WaitOptions)[1]

\* No update of the file is lost: when nothing is left to run, the RUN phase of a
\* test whose submissions were accepted is the result of its last job.
ResultsKept ==
    InOrder /\ Over /\ (\A k \in K : submit[k] # "failed" /\ job[k] # "killed")
        => \E k \in K : /\ job[k] = "over" /\ \A l \in K : l > k => job[l] = "none"
                        /\ file.st["RUN"] = outcome[k]

\* "If something failed in the batch system, make sure to mark the test as failed"
\* (case_submit.py:295).
FailedSubmitMarked ==
    InOrder /\ Over /\ (\E k \in K : submit[k] = "failed") => Overall(file, WaitOptions)[1] = "FAIL"

\* The result that wait_for_tests gets has the name of the test ("Failed to get
\* test name for test_path", wait_for_tests.py:738).
ReportHasName == verdict # NoVerdict /\ ~stopped => verdict.named

\* A run that nobody kills is never waited for in vain: once nothing is left to
\* happen, the loop of wait_for_test ends at its next look at the file.
AnswerAtEnd ==
    InOrder /\ Over /\ (\A k \in K : job[k] # "killed") => Overall(file, WaitOptions)[1] # "PEND"

\* A refused submission is a failed test, and what is reported names its test.
ReportInv == TypeOK /\ ReportHasName /\ FailedSubmitMarked

=============================================================================
