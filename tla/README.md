# A TLA+ verification project for CIME

This directory specifies the Python package CIME (`src/cime/CIME`): how a case is set up, built,
submitted, run, resubmitted and archived, how tests of it are scheduled, run and judged, and the
algorithms that compute what a case's files hold.  The rest of the repository is configuration data,
numerical Fortran and vendored code.  CIME looks like a sequential scripting layer, but its state is
shared: threads in `create_test`, component builds in threads, several programs that rewrite one
`TestStatus` or `env_*.xml` file without a lock, batch jobs that submit each other, an archiver that a
wallclock limit may kill, cases that download the same files.  That is where tests do not reach and
where this project looks.

Contents: 1 inventory, 2 modules, 3 runs, 4 bounds, 5 fairness, 6 proofs, 7 findings and observations,
8 what is only model-checked or not modelled, 9 plan.

## 1. Inventory

For every component its state, its operations, what is hard and what makes it correct.
`PROJECT.json` lists the same components with their sources and the hazards line by line.

**TestStatus** (`test_status.py`).  One file per test: phase -> (status, comment).  `set_status` checks the
previous core phase, removes later phases when a core phase is repeated, opens the next;
`get_overall_test_status` scans twice with seven options.  Correct when no result survives the build
or run it rests on, and the overall status ranks the lines in one fixed order (which is not quite the one its
docstring gives, section 7).

**TestScheduler** (`test_scheduler.py`).  Phase and status of each test, the pool of processors, the
threads in flight, exeroots of build groups.  A producer polls, consumers run one phase each.  Hard:
shared state, limits, members of a group that read each other, resumed sessions.  Correct when the pool
is conserved, limits hold, builds are finished before reuse, nothing is lost and the session ends.

**SystemTestsCommon, test jobs, wait_for_tests** (`SystemTests/*.py`, `case_test.py`,
`wait_for_tests.py`).  A job holds a `TestStatus` object older than the file; exceptions and signals
anywhere; two submissions of one test; a waiter that polls.  Correct when the answer is final, complete
and always given.

**Tests of several runs** (`system_tests_compare_two.py`, `restart_tests.py`, `ers.py`, `erio.py`,
`eri.py`, `irt.py`, `err.py`, `erp.py`, `dae.py`).  A second case, the sign that setup is done, `IS_FIRST_RUN`,
RESUBMIT, a first job that submits the second and goes on beside it; values that a leg leaves in `env_run.xml` for the next; restart dates.  Correct when what is
compared are runs of the same attempt, at the same model time, the one restarted inside the other.

**Case build and locked files** (`build.py`, `case_setup.py`, `locked_files.py`).  BUILD_COMPLETE,
BUILD_STATUS, the locked copies, scripts, libraries.  Commands in any order while a build runs and a job
waits.  Correct when no job runs an executable that does not correspond to the case.

**case.submit, case.run, resubmission** (`case_submit.py`, `case_run.py`, `env_batch.py`,
`env_workflow.py`).  RESUBMIT, CONTINUE_RUN, job ids and dependencies.  Correct when sequences are neither
lost nor run twice, one at a time.

**Short-term archiver** (`case_st_archive.py`).  Restart sets, pointers and history files of the run
directory and the archive; one pointer file per component or several.  Killed between any two files.  Correct when the run can go on and no history is lost.

**Input data** (`check_input_data.py`, `Servers/wget.py`).  Shared files, servers in turn, one directory
through `.tmp` and a rename; some files lie elsewhere or have no hash.  Correct when "no files missing" is true,
which the code does not quite achieve (section 7), and the check ends.

**XML files of a case** (`case.py`, `generic_xml.py`, `entry_id.py`, `env_base.py`).  A cache per program,
shared by its Case objects; a check of the time before a write.  Correct when no program overwrites what
another wrote and nothing set is dropped.

**Algorithms**: processor layout (`env_mach_pes.py`, `aprun.py`, `pes.py`), queue and wallclock time
(`env_batch.py`), defaults and compsets (`entry_id.py`, `component.py`, `case.py`), values, references and locks
(`env_base.py`, `entry_id.py`), grids (`grids.py`), machines and their environment (`machines.py`,
`env_mach_specific.py`), test names, suites and options (`get_tests.py`, `create_test.py`), baselines
(`hist_utils.py`, `bless_test_results.py`), namelists (`namelist.py`, `nmlgen.py`, `compare_namelists.py`),
guards (`paramgen.py`), user mods, clones and ensembles (`user_mod_support.py`, `case_clone.py`), layouts of
test runs (`SystemTests/*.py`), dates in file names (`date.py`).  No concurrency, but orders, lists of different length, zero and ties.

How they interact: `create_test` drives a test through CREATE_NEWCASE, XML, SETUP, SHAREDLIB_BUILD,
MODEL_BUILD and RUN by calling `create_newcase`, `case.setup`, `case.build` and `case.submit`, which write the
XML files and the lines of `TestStatus` the scheduler does not write itself; `case.submit` queues `case.run`
or `case.test` and `case.st_archive`, which check the locks again, run the model, resubmit, and rewrite
`TestStatus`; `wait_for_tests` polls that.

## 2. Modules

| Module | What it is | Code |
| --- | --- | --- |
| `TestStatus`, `TestStatusHistory` | the operators on a status file; every history of updates | `test_status.py` and its callers |
| `TestPhases`, `TestProgress`, `TestScheduler` | the parameters of a session; what it promises (abstract); producer, consumers, pool and files | `test_scheduler.py` |
| `TestCaseRun` | submissions, jobs and a waiter on one file | `case_submit.py`, `system_tests_common.py`, `case_test.py`, `wait_for_tests.py` |
| `CompareTwo` | setup, build and the two runs of a comparison test | `system_tests_compare_two.py`, `case_clone.py` |
| `RestartDates`, `RestartTests` | restart intervals and dates; the legs of restart tests | `system_tests_common.py`, `SystemTests/*.py` |
| `CaseBuild` | setup, edits, build, clean, submit, start of the job | `build.py`, `case_setup.py`, `locked_files.py`, `case_submit.py`, `case_run.py` |
| `RunChain`, `CaseChain` | what a chain of runs promises (abstract); its jobs | `env_batch.py`, `env_workflow.py`, `case_submit.py`, `case_run.py`, `case_st_archive.py` |
| `StArchive` | the archiver, file by file | `case_st_archive.py`, `archive_base.py` |
| `InputData` | check and download | `check_input_data.py`, `Servers/wget.py` |
| `CaseXml` | cache, with blocks and writes | `generic_xml.py`, `case.py` |
| `PeLayout` | tasks, threads and nodes of a case, and of the two runs of the tests that change them | `env_mach_pes.py`, `aprun.py`; `SystemTests/*.py` |
| `CaseClone` | user mods directories, clones and ensembles | `user_mod_support.py`, `case_clone.py`, `create_clone.py` |
| `Baselines` | comparing, generating and blessing baselines; the date in a file name | `hist_utils.py`, `bless_test_results.py`, `date.py` |
| `Namelists` | merging and comparing namelists, what goes into a generated one, guards of ParamGen | `namelist.py`, `nmlgen.py`, `compare_namelists.py`, `simple_compare.py`, `paramgen.py` |
| `CaseDefaults`, `BatchQueue`, `CaseValues`, `TestNames`, `Grids`, `MachineEnv` | the other algorithms, as operators | see section 1 |
| `CaseLaws` | what the algorithms promise of the answer to a question `q` | |
| `*Proofs` | theorems of the module they extend | |
| `MC*` | small instances; `MCCaseFiles` runs `CaseXml` or asks one question of `CaseLaws` | |

**TestStatus.**  The dictionary is a record: `st` (phase -> status), `cm` (the comments CIME reads back) and
`order` (of the lines, on which the second scan depends).  `MaySet` is the expect of `set_status`,
`Invalidated` the deletion of later phases, `Opened` the automatic PEND, `ScanPhase` one turn of the scan, `Precedence`
the order in which the two passes rank the lines, said without loops.

**TestScheduler.**  `phase`, `status` are `self._tests`, `file` the TestStatus files, `avail`, `inFlight`,
`entry` the pool and `threads_in_flight`, `thread`, `success` the program counter and local of `_consumer`,
`producer`, `next`, `workToDo`, `launched`, `reaping` those of `_producer`.  The producer looks at one test
per step (`Skip`, `Full`, `Launch`, `InstantFail`, `Abort`), `EndScan` decides to scan again, wait or
join.  A consumer runs its phase (`RunPhase`), then `Record`, `UpdateFile` and `SubmitNow`: one step per
access to shared state.  A failing expect ends the thread (`crashed`) or the session (`aborted`).

**TestCaseRun.**  `submit[k]`, `job[k]` are the program counters of the k-th submission and job,
`submitMem`, `jobMem` their TestStatus objects.  A write is two steps, `...Flush` (truncated) and `...Write`.
`Script(k)` is what `run()` does in order.  Every exception path ends in the write of RUN FAIL, as the
`finally` of `run()` does.  `Stop` and `Report` are `wait_for_test`.

**CompareTwo.**  `caseroot2` is the directory whose existence means "setup done"; `first`, `resubmit` are
IS_FIRST_RUN and RESUBMIT.  A test has one job (`kind` "single"), or two of which the first submits the second
("job") or the archiver does ("archive").  In the second kind `case_run` submits before the first job has looked for its
coupler log and saved its output: `Resubmission` queues the second job, and what is left of the first goes on beside it
as `tail` (`TailSaves`, `TailEnds`, `TailKilled`).  `JobLoads` reads `TestStatus` into the memory `mem` of the job,
which every later write rewrites the file from.  `UserSubmit` gives the case its initial test values, as `case.submit` does.
`out` and `compared` record from which attempt each output is, `cut` the attempts whose first job had not saved in time.

**RestartTests.**  A test is a sequence of legs; each sets `env`, runs the model on `dir` and records
itself in `runs`; `leg` is the one to come.  The restart pointer is computed with Python's dates (`RestartDates`), the restart the
model writes has the date of its own calendar.

**CaseBuild.**  `env` are the XML files, `locked` their copies, `lib` and `exe` what the objects were compiled
with.  A build is `BuildStart`, one `BuildThread` per component, `BuildFails` or `BuildLinks`, `PostBuild`,
with commands, edits and the job between them; `BuildSkipped` is the build of a tree that cannot be written.  A job
checks (`RunCheck`) and later starts the model (`RunStart`), and anything may happen in between.  `unchecked` records
the changes that the locks cannot see, `late` those that come after the check.

**CaseChain.**  A job has the dependencies `get_job_deps` gave it, its own copy `mem` of `env_run.xml` with
its version (the timestamp check), and goes through model, post, archiving, resubmitting.  `ActiveFrom` is
the refinement mapping to `RunChain`.

**StArchive.**  A file is its name (component, date, kind) and a history file the last day it holds.  `job` is
where the archiver is in its loops: the dates `left`, the component `i`, and what it does of them (`at`: pointer
files, restart files, history files).  The archiver runs alone, so that what it does to one component is one step;
`RestartCut` and `HistoryCut` are the same steps killed half way, after the restart file but with only some of the
history files it lists, or with some of the history files put away, so that a kill falls between any two files.
`Many` are components with several pointer files, which the archiver moves (`PointersMoved`).  `newest` is the directory
that `ls_sorted_by_mtime` lists last, `spoiled` the dates whose histories such a kill left behind.

**InputData.**  Each case is a process over its lists: look, ask a server, write, verify; wget creates the
file before its content comes, a directory goes through `.tmp`.  `Outside` are files that are neither in DIN_LOC_ROOT
nor in RUNDIR, for which the code only warns, `RunFiles` those in RUNDIR, whose download makes a pass forget what was
missing before them (`Forgets`; the forgotten files join `cut`), `Hashed` those with a hash in a server's checksum
file; a case may find no checksum file at all (`hashes` is empty), and a file without a hash is accepted as it is.

**CaseXml.**  `cache` is the file cache of a program, `tree` the parsed trees its objects share, `pc` a write in
two steps (`WriteBegins` truncates, `WriteEnds`), `Stamp` the new time in the cache.

## 3. Runs

TLC finishes each in less than five minutes.  Deadlock is checked where the system must not stop; the other
models stop when all submissions, builds, edits or questions allowed are used up.

| Run | Instance | What it shows |
| --- | --- | --- |
| `test_status_history` | all core phases, NLCOMP, one COMPARE, BASELINE with DIFF and ERROR | no file keeps a result that nothing justifies (`CorePrefix`, `NoStaleResults`); the two-pass scan ranks the lines as `Precedence` does (`OverallByPrecedence`) |
| `batch` | a group of two and a build-only test, 2 workers, 3 processors, every phase may fail | the pool and the limits hold, no failure is hidden, no expect fails, threads implement `TestProgress` |
| `resumed` | a group of two, every combination of starting phases, fairness | no expect fails, nothing is left undone, the session ends |
| `test_case_run` | a test that resubmits itself within its job, and one whose jobs follow each other, with baselines, refusals, kills and a stopped waiter | PASS means that all ran; verdicts are final; no result is lost; an answer in the end |
| `compare_two` | one job, or two that the first or the archiver submits; three builds and submissions, failures, kills, cancelled jobs | setup once and whole; one attempt is compared, and PASS only after it, but where the first job had not saved its output in time (`cut`) |
| `restart_tests` | every kind of restart test over lengths, dates, calendars, drivers; killed in any leg | each leg finds its restart and is compared with the run that wrote it |
| `restart_date` (violation) | a restart on the last of February of a leap year | finding of section 7 |
| `case_build` | two components, settings and queues, three edits, a tree that may not be writable | a stale executable runs only after edits the locks cannot see or that come between the job's check and the start of the model; BUILD_COMPLETE is backed; no job passes its check during a build |
| `case_chain` | RESUBMIT up to 2, two edits, one retry, a batch system | sequences conserved, jobs alone, archive after success, the chain ends; implements `RunChain` |
| `st_archive` | three runs of two days, history files of three, two kills | the run continues, no history is lost, saved sets are usable, but for histories a kill left behind (`spoiled`) |
| `input_data` | two processes, a file with a hash, one elsewhere, one in RUNDIR and a reference case, two servers, one kill | when a check succeeds the files are there, but one elsewhere, raced or cut; what was compared with its hash stays right; the check ends |
| `case_files` | two programs with two objects each on one file; or one of the questions to the algorithms | no lost update, no dropped value; all laws of `CaseLaws` |

A grouped invariant (`BuildInv`, `ChainInv`, `ArchiveInv`, `InputInv`, `SetupInv`, `RestartInv`, `ReportInv`, `FilesInv`
and the laws `JobHolds`, `ConfigurationHolds`, `SelectionHolds`, `BaselinesHold`, `NamelistsHold`) is a
conjunction of named parts, each with its own comment.  Every part was broken by a mutation of its own,
listed in `PROJECT.json`: a plausible bug in one definition (a dropped guard, an off-by-one, a missing reset,
a swapped order) with which TLC finds the property violated.

## 4. Bounds, and why they are enough

- `batch`, `resumed`: two or three tests.  A test interacts with the first test of its group and with the
  pool; three give a group, a bystander, and tests that wait.  Workers and processors are fewer than tests.
- `test_case_run`: two jobs are the first, the last and the transition; a middle one does what the first does.
- `compare_two`: three submissions: one that fails, one that finds its leftovers, one after that; as many builds.
  Each attempt has at most two jobs, which the code does not exceed, and any job may fail, be killed or be cancelled.
- `restart_tests`: two submissions; lengths with odd, even, shortest and too short cases; dates over a year's
  end and over a leap day where the correction is due; both calendars, both drivers.
- `case_build`: three edits make A -> B -> A possible with a third setting in between; one edit per file kind.
- `case_chain`: RESUBMIT 2 has a first, a middle and a last sequence.
- `st_archive`: history files of three days and runs of two are open at the end of the first and second
  run and closed at that of the third; two kills fall into model and archiver, or twice in one.
- `input_data`: a conflict needs two cases and one path; the second server answers for the first; a file with a hash, one
  elsewhere and one in RUNDIR are the kinds the code tells apart (with one in RUNDIR the two processes belong to one
  case).  `MCInit` starts without the file in RUNDIR and the reference case, which the first server lacks, and lets only the
  second have a wrong file; what is on disk of the hashed file and what the servers have of it is open.
- `case_files`: two programs conflict; two objects of one share a tree; three sets and four writes are
  a change, an outside change and a change on the stale tree.  The questions are lists of up to three or four
  elements with every combination of the attributes that an algorithm tells apart.  Includes of user mods
  directories are acyclic (a cycle recurses for ever in the code); tests start from PSTRID 1, apart from NINST.

Symmetry is declared only in runs without liveness properties, on sets of interchangeable model values.
No CONSTRAINT is used; bounds are guards and named `Max...`.

## 5. Fairness

`TestScheduler`: weak fairness of the producer and of every consumer.  Threads are scheduled by the operating
system, `_wait_for_something_to_finish` polls, and a consumer's only long step is a subprocess, which is taken
to end.  `Termination` needs the first test of a group to get through SETUP and a pool that holds one
build; both are necessary (section 7).

`CaseChain` (`ChainEnds`): weak fairness of each job that can go on (the batch system starts a job whose
dependencies are met, the model and the archiver end).  The user is not fair.  `InputData` (`CheckEnds`): a case that is not killed goes on, a download ends; kills are not fair.
The other specifications assume none; `AnswerAtEnd` is the safety form of liveness: in every state in which
nothing is left to happen, the waiter would end at its next look.

## 6. Proofs

Checked by TLAPS for every value of the constants that meets the named ASSUMEs (TLC evaluates them in the
runs).

| Theorem | Statement | Inductive invariant |
| --- | --- | --- |
| `CorePrefixHolds`, `NoStaleResultsHolds` | `TestStatusHistory` keeps `CorePrefix`, `NoStaleResults` | `FileInv`: types, core prefix, results only under passed phases |
| `PrecedenceKept`, `OverallByPrecedenceHolds` | the loops of `get_overall_test_status` compute `Precedence`: for every consistent file; after every history of `TestStatusHistory` | what the loop has found after i phases, by induction over them; `HistoryTypeHolds` |
| `TypeHolds`, `ReportHasNameHolds` | `TestCaseRun` keeps `TypeOK`, `ReportHasName` | `TypeInv`: what a job has left to do is what is left of its script |
| `PassMeansRanHolds` | it keeps `PassMeansRan`, jobs and submissions overlapping, if each test `LeavesMark` | `PassInv`: nothing in the file or in a memory about to be written could be reported as passed, but after the last job |
| `ResultsKeptHolds` | it keeps `ResultsKept` | `OrderInv`: the last submission begun says what the file and the memories are |
| `FailedSubmitMarkedHolds`, `ReportHolds`, `AnswerAtEndHolds` | it keeps `FailedSubmitMarked`, all of `ReportInv`, `AnswerAtEnd`, if no test resubmitted by `st_archive` may "break" | the same, with `NeverBroken` |
| `VerdictIsFinalHolds` | it keeps `VerdictIsFinal`, under both hypotheses | the same |
| `TypeCorrect`, `LimitsKeptHolds` | of `TestScheduler` | `SchedulerInv` |
| `ProcsConservedHolds` | free processors and those in use make up the pool | `PoolInv`: the slots in use are finitely many, one for each processor taken |
| `AllTestsFinishedHolds` | when the producer has ended, every test has failed or has had all its phases | `ScanInv`: what a scan that found no work has seen stays so |
| `FailuresReportedHolds` | a failed test reads as failed when the session has ended, under `Heard` | `MarkInv`: what the status file says of the phase in the memory of the session, at each step of the thread; `DoneInv` |
| `NeverHardAbortsHolds` | no expect of the producer or of a consumer fails, under `Fits` | `CostInv`: after the XML phase, the cost of a build is clamped to the pool |
| `Implements` | `TestScheduler!Spec => ProgressSpec` | every action is a step of `TestProgress` or leaves it alone |
| `FinishedBuild` | `TestProgress` keeps `MembersUseFinishedBuild` | `ProgressInv`: a member passes a phase only after the first test |
| `MembersWait` | `TestScheduler` keeps `MembersUseFinishedBuild` | the two theorems above, composed |
| `SetupHolds` | `CompareTwo` keeps `SetupInv` if no kill falls into the setup | `SetupSoFar`: where the process is in the setup and what it has made; `SetupWhole` |
| `OneAttemptCompared`, `PassAfterComparison` | `CompareTwo` keeps `ComparesOneAttempt`, `PassIsComplete`, wherever processes fail or are killed; both leave out the attempts in `cut` | `JobsSoFar`, `OutputsSoFar`, `StatusSoFar`: which run is next by RESUBMIT and IS_FIRST_RUN, from which attempt the outputs are, and what a job has in memory; `Saved`: the second job has the output of the first, or that one is still to save it, or the attempt is cut |
| `LegsInvHolds` | `RestartTests` keeps its inductive invariant, under `Restartable` | `LegsInv`: before each leg of each kind of test, the runs made and the restart that waits for it (`ErsPlace`, `ErioPlace`, `EriPlace`, `PairedPlace`, `DaePlace`) |
| `FindsItsRestartHolds`, `RestartInvHolds` | it keeps `FindsItsRestart`, `RestartInv`, for any lengths, intervals, dates and number of submissions, under `Restartable` | the same |
| `DatesAgreeHolds`, `CalmIsRestartable` | the restart date computed with Python's dates and `_leap_year_correction` is the model's when no leap day lies before it (`Calm`), so `Restartable` holds for tests that fit and are calm | none: the number of a day is that of a year of 365 days plus its leap days (`NumberOfDay`), so a date has the same name in both calendars (`SameDay`) |
| `FilesHold`, `NothingDroppedHolds` | `CaseXml` keeps `FilesInv` and satisfies `NothingDropped` | `Modes`, `Held`, `Agrees`, `OneObject`: which objects hold a tree, that unsaved values are those of a dirty holder, that a tree with the time of the file has its text |
| `BuildHolds`, `StaleBuildNeverRuns`, `NoCheckDuringBuildHolds` | `CaseBuild` keeps `BuildInv`, `StaleBuildDetected` and satisfies `NoCheckDuringBuild` (nothing is said of a build begun between the check and the start of the model) | `Scripted`, `Building`, `OptsAgree`, `CheckedAgree`: what an executable built after the check can differ in |
| `RunAlone`, `ArchiveSuccess`, `ChainIsImplemented` | `CaseChain` keeps `JobsRunAlone`, `ArchiveOnlySuccess` and implements `RunChain` (`ChainImplemented`), in batch without `--allow-fail` | `InTurn`, `Waits`, `LastSequence`, `AfterRun`, `Copies`, `Continued`, `Running` |
| `Conservation`, `ChainHolds` | it keeps `SequencesConserved`, `StopsWhenUsedUp`, and all of `ChainInv` | the same with `CountInv`: what RESUBMIT still owes, by where each job stands |
| `InputIsSafe`, `SuccessMeansThere` | `InputData` keeps `InputInv` (the directory of the reference case is never half there and has one writer; what was compared with its hash stays right) and `InputIsThere` (but for files outside, raced or cut), wherever cases are killed | `IInv`: `Types`, `Partial`, `Directory`, and of each case `Place`, `Found`, `Verified` |
| `TypesHold` | `StArchive` keeps `TypeOK`, for any options | `Types` |
| `Continuable`, `HistoryKept`, `ArchiveUsable` | it keeps `RunContinuable`, `NoHistoryLost`, `ArchiveInv`, for archivings of all dates that move files, of components with one pointer file each (`Plain`); in `ArchiveInv` a set is whole but for dates in `cut` and the histories of those in `spoiled` | `Pointers`, `Restarts`, `Histories`, `Moved`, `Ascending`, `SetsUsable`, `Turn`, `Archiving` |

Why the strengthenings are needed.  None of the scheduler's properties is inductive: `SchedulerInv` adds what
the code relies on without saying it (a test has a thread exactly when it is in `threads_in_flight`; a member
that succeeded in a build saw the first test pass it; dead threads still count).  `StaleBuildDetected` is
about the moment a job starts; what makes it true is `OptsAgree`: objects agree with the locked file, or, as long as
there is no lock, with the case, unless BUILD_STATUS asks for a clean or an edit went unseen.
`CompleteIsBacked` needs `Building`: a build takes BUILD_COMPLETE away until it is done.  In `CaseXml`, that
there is always an unused tree (`Unused`) is a pigeonhole argument over the objects of a program, from the
cardinality theorems of the library.  `JobsRunAlone` says that two jobs do not overlap; what makes it true is
that each job depends on the one before it or finds nothing before it left to end (`Waits`), and that only the
last sequence resubmits (`LastSequence`).  That every run starts where the simulation stands needs
`Continued`: once something is simulated, CONTINUE_RUN is set before another run may start.  Without a batch
system `ArchiveOnlySuccess` is false (section 7), hence the assumptions `Batch` and `~AllowFail`.

`ProcsConserved` is a sum over the tests in flight.  It is stated as the size of a set, one slot for each
processor of each test (`Slots`), so that a launch adds a set of fresh slots and a reap removes one, and the
cardinality theorems of the library take the place of an induction over sums.
The memory of the session and the file are updated in different steps by different
parties (the command, the thread, `case.submit`), hence `MarkInv`: a failure is either in the file or the thread is still to
write it.  `Heard` says that a command which dies has told its failure, or that the session ends with RUN without
a batch system: in any other session a PEND left behind passes for a run that is queued or not wanted (section 7).
`Fits` says that the cost of a build fits the pool or that every test starts before XML, whose thread clamps it; a session
resumed after XML with a smaller pool ends at the expect.  `Conservation` is not
inductive by itself: while a job ends, RESUBMIT is read, decremented and written in different steps, and
between them the copy of the job (`mem`), the file and the queue disagree.  `CountInv` says for each place of the program by how much.
In `InputData` the list of files a case has found (`Found`) grows in one pass and shrinks in the next; that
"success" covers all of them needs that what is not on the list of missing files is on disk, or outside, or spoilt by
another case (`raced`, `cut`), and `Directory` needs that a name with `.tmp` has one owner at a time.

In `TestCaseRun` two objects that are older than the file may each overwrite it, so that no invariant can say
what the file is; `PassInv` says instead what no file and no memory ever is (`Clear`: RUN passed, no core phase
failed, nothing pending) before the last job has ended.  A run is pending until its last block; after that, between two
submissions, only a pending result keeps the waiter waiting: `JobSafe` follows that mark through the script of a job.
Where the jobs of a test follow one another (`InOrder`), `OrderInv` says exactly what the file is at every step of
the one submission or job that is under way; that the last job leaves nothing pending needs that whatever it
marks has a block of its own to come (`Owes`), and that the verdict is pending throughout needs that the first
result line is a pending one (`FirstPend`), since the second scan stops at the first decisive line.  The hypotheses are
what section 7 observes: without `LeavesMark` (a test of several submissions that has no baseline phases and
no comparison pending between two of them) a test is PASS between its submissions, and after a "break" the job,
which read the file before, rewrites it without the failure.

The three properties of `StArchive` hold each other up.  That the run directory can be continued from after a restore
needs that the restored set is the one the pointer files name (`Ascending`: every saved date is at most every date
still in the run directory, and the last modified is the greatest) and that it is whole (`SetsUsable`).  A set is
whole at the end of its turn because `Turn` says what each component before the cursor has contributed, and because a
component whose restart is gone from the run directory had moved it before an earlier archiver was killed
(`Moved`).  A history file may be put away because no restart file left in the run directory but that of the last
date lists it (`Restarts`, `Archiving`: `keep` has what the last date lists).  The first and last of a set of dates
exist by the well-founded order of the numbers, which needs no induction scheme.  `Plain` is the default of
`case.st_archive` and of the workflow, for components of one instance; with `--last-date` or `copy_only` two of the
properties are false, and with several pointer files `RunContinuable` is (section 7).

In `CompareTwo` two jobs of one attempt may be at work at once, the second and the `tail` of the first, and each
rewrites the whole `TestStatus` from its memory.  That a PASS is complete needs that the tail only ever writes a pending
comparison (`TailEnds`), and that the second job ends with the comparison it has made (`StatusSoFar`).  That what is
compared is of one attempt needs `Saved`, and that no new attempt begins while anything of the last is queued or at work
(`Idle`, `JobsSoFar`).

In `RestartTests` a leg finds its restart because an earlier leg of this submission left it in the directory the leg
reads, under the name or as the last of the pointer files, and because nothing of an earlier submission is taken for
it: a restart of the same time is replaced, and in the directory of the first case all restarts lie at multiples of one
interval, so that the oldest and the middle one are those of the last run (`AtMultiples`).  The proof is about
arithmetic: the ceiling of half of the coupling intervals plus one leaves one restart strictly inside the run, a third leaves
two (`Half`), restarts of different times have different dates, and in the calendar of Python the computed date
is the model's but for years.  The cycles of a DAE tile its length.  `Restartable` is the rest: the lengths fit
(`Fits`: an interval given in `shell_commands` leaves the restarts looked for; an ERIO has at most two types of PIO; a DAE
at least two cycles), and where the driver names the restart, in a calendar without leap years or with `nyears`, the
date computed is the model's (`DatesAgree`).  The finding of section 7 is a test for which it is not.
`DatesAgreeHolds` tells how far it reaches: the dates can differ only if a leap day lies between the start and the
restart (or the start is a day its month does not have without leap days).  That matters only in a calendar
without leap years and for `nyears`; with any other unit in the calendar of Python the two agree always.  The
correction is thus in doubt exactly in the runs it was written for; there `restart_tests` checks dates on which it
is right, and `restart_date` finds one on which it is wrong.

Only model-checked: liveness (`Termination`, `ChainEnds`, `CheckEnds`), which is out of the prover's reach with
ENABLED; and the laws of the algorithms, most of which are recursive.  Induction over data is out of the prover's reach.

## 7. Findings and observations

The violation run `restart_date`: an ERP of 7 days from 2000-02-25 with the NO_LEAP calendar names the
restart of 2000-02-29, and the model writes one of 2000-03-01.  `_leap_year_correction`
(`system_tests_common.py:301`) adds the leap day only when the restart computed with Python falls after
February, against the comment at 282.  The correction is also wrong for a start after February of a leap year
with a restart in a later year.

Restrictions of passing runs and what TLC finds without them:

- `OverallByPrecedence` ranks the lines as the loops do, and not as the docstring of `get_overall_test_status` says:
  "Preference is given to PEND since we don't want to stop waiting for a test that hasn't finished" (`test_status.py:510`).
  A COMPARE that failed, or a BASELINE with a DIFF, before a pending line makes a test FAIL or DIFF (482).  With "core
  phases passed and a line pending => PEND" as an invariant of `test_status_history` TLC shows such a file.
- `Termination` (`resumed`): when the first test of a group fails before its build, the other members are never
  eligible, nothing is in flight, and the producer polls for ever (`test_scheduler.py:1378`).
- `FailuresReported` (`batch` with `NoBatch`, `LastPhase` MODEL_BUILD, `MayFailSilently = MayFail`): a
  command that dies before it wrote its line leaves PEND, which the result of a `--no-run` session accepts.  The run
  `batch` does not have such commands, so that its property says nothing of them.
- `FailedSubmitMarked` (`test_case_run`, a test `InTurn` that may "break"): `case.submit` throws after the job
  was queued; the job, which read the file before, rewrites it without the failure.  `ReportInv`
  checks such a failure only for a test that resubmits itself within its job.
- `ComparesOneAttempt`, `PassIsComplete` without `cut`: the first job of a PET test queues the second and then fails,
  is killed, or is slow, before it has saved its output; the second compares with the output of an earlier attempt, and as it
  writes last the test passes (`system_tests_common.py:758-764`).
- `RestSetsUsable` without `spoiled`: an archiver is killed after it has moved a restart file of an interim set and
  before it has copied the history files that restart lists (`case_st_archive.py:692`, 696).  The next archiver finds no
  restart file of that component, so that the set never gets its histories.
- `NoLostUpdate` (`case_files`): the check of the time and the write are two system calls, and the time put
  into the cache is read after the write; another program in between is overwritten or believed read.  The run
  checks it for writes nobody interrupts (`whole`).  The check is per file, not per object: two overlapping
  Case objects of one program and an outside change let the stale tree overwrite it (excluded by `alone`).
- `BuildsWhatIsSetUp` (`compare_two` with `MayKill = {"setup"}`): a killed setup leaves the directory that
  stands for "done".
- `ChainInv` with DOUT_S edited while jobs are queued: `case.run` and the archiver both resubmit, or neither does.
- `StaleBuildDetected` without `unchecked`: an edit during a build, over objects of an unfinished build, by hand
  before `case.setup --reset` or before a clean of one component or the cache is seen by no lock; with an EXEROOT that
  cannot be written `case.build` declares whatever is there complete, without any check (`build.py:1120`).
- A job looks at the locks and at BUILD_COMPLETE (`case_run.py:45`) well before it starts the model (179).  A
  `case.build` or a clean begun in between is not noticed: the model starts while its executable is replaced, or without
  one.  `NoCheckDuringBuild` is about the check; `StaleBuildDetected` says what the window may change: the settings only
  if they are edited in it.
- `InputIsThere` without `raced` and `cut`: `wget -nc` fails on a file another case creates and the file of the
  other is removed; a file half written by another case, or left by a kill, is taken for whole.  Downloaded files, and
  files without a hash, are not verified; `OldFilesVerified` is about the others only.
- `InputIsThere` without `Outside`: a missing file outside DIN_LOC_ROOT and RUNDIR fails the check without download
  (`check_input_data.py:529`) but is only a warning when a server is asked (519-526), and the check succeeds.  Without the
  forgotten files in `cut`: for a file in RUNDIR the result of its download replaces what was missing before it (518).
- `BlessesOnlyRun` for a test whose GENERATE failed: `is_hist_bless_needed` looks for other failed phases with `is`
  (`bless_test_results.py:604`), which never holds of a status parsed from a file, so a test whose own comparison failed
  too is blessed, against the comments at 595-597 and 609-611.
- `RunContinuable`, `RestSetsUsable` with `Many = {"ocn"}`: with interim sets saved, several files that match a pointer
  pattern are taken for those of the date at hand and moved into its set (`case_st_archive.py:230-238`), although they name
  the last date.  The run directory then has no pointer files, and the run cannot go on.  `RunContinuable` without `torn`:
  the model is killed while it writes a restart set.

What was met while the code was read and is modelled as the code has it:

- *TestStatus and scheduler.*  With `--no-run` a namelist difference of a fully built test is PASS
  (`test_status.py:439`, against 590).  A session resumed after XML with a small pool ends at an expect commented
  as impossible (`test_scheduler.py:1299`).  The exeroot of a group exists only in memory (982).  A test with
  RESUBMIT and no baseline phases is PASS between its submissions.
- *Build.*  SMP_VALUE is never exported, so the check of threads at `build.py:678` never fires.  A component
  thread that raises is not in the list of failures; the missing library is noticed at the link.
  `case.submit` may regenerate the script with another layout before its check of the locks fails.
- *Archiver.*  Without interim sets the directories of the removed ones stay, empty
  (`running-a-case.rst:492`).  `copy_only` followed by moving makes an older directory the most recently
  modified one.  With `--last-date` the open history file that the latest set needs is moved
  (`case_st_archive.py:386`, against 379).  Without a batch system the archiver runs after a
  failed run, since the loop of `submit_jobs` swallows exceptions (`config_workflow.xml:22`).
- *Input data.*  Downloaded files are not verified with `--chksum` (`check_input_data.py:267`); success on a
  later server overwrites an earlier failure; a leftover `.tmp` directory stays.
- *Restart tests.*  ERIO with three or more types never resets STOP_N; ERR with REST_N in `shell_commands` ends later
  than case 1, and its pointer lacks "_0001" with several instances; nyears counts a decade (and cancels out).
- *XML files.*  A file of size 0, seen while another program writes it, is taken for a new one.  A nested
  `with` makes the outer object read-only.  A flush of several files is not atomic, and an exception in a
  `with` still flushes half of a change.
- *Layout and queues.*  Ten tasks, four to a node, ask for 3 nodes of 3 tasks; a forced queue that does not fit
  falls back to the default silently.  Setting STOP_N_ATM sets STOP_N; "$CASE" is replaced inside
  "$CASEROOT"; a cycle within a file ends in RecursionError.  `Component` resets its count of matches per attribute,
  so that "most matches" is never computed.  Whether a tie of layouts is an error depends on the order.
- *Test selection.*  `get_build_groups` takes sharing for transitive; `skip_tests` is not handed to inherited
  suites; a cyclic "inherit" recurses for ever; the wallclock time of `single_submit` compares a string with seconds.
- *Clones and user mods.*  `keepexe=False` is passed to a parameter that is compared with `None`, so a clone refuses
  user mods with source mods without `--keepexe` too (`user_mod_support.py:59`, `case_clone.py:196`), and a mods
  directory whose own name contains "src" counts as source mods.  A clone of the same name and output root, in another
  directory, shares bld and run with its original; with `--keepexe` and an absolute RUNDIR it shares the run
  directory.  Names of an ensemble outgrow their digits (case9, case10, case111).
- *Layouts of tests.*  NCK with ROOTPE of at most 1 needs twice the job's tasks in run two (against the comment at
  `nck.py:43`), ESP gets twice the tasks for one instance.  SEQ counts threads in TOTALPES and keeps PSTRID, so that run
  two may ask for more than the job has.  A serial layout of `pes.py` resets `pes_pstrid` by the keys of EXCL_STRIDE.
- *Dates.*  `_datetime_str_mpas` writes hh:mm:ss with colons, of which `get_file_date` reads hh as the seconds
  (`case_st_archive.py:91`, `date.py:44`).  A case name that contains a year and a month gives its date to a monthly file.
- *Baselines.*  With `create_bless_log` the comments of a comparison end in a line of the bless log (`hist_utils.py:592`),
  by which a comparison that passed is not recognised: its synopsis is "ERROR Could not interpret CPRNC output" (834).
  `bless_history` removes the performance baselines; a
  memory baseline of 0 passes, a throughput baseline of 0 divides by zero; old files are removed before the
  error that there are none to generate.
- *Namelists.*  `findDiff` passes a key that is a substring of one it skips.  Only a single name is excused by
  "runid" or "logfile": the items of a list are compared (`compare_namelists.py:443`).
- *Grids, machines, ParamGen.*  Levels are added to "null" too; modules are loaded without the job, variables with
  it; a "source" entry writes only its word into the shell file; guards that expand to the same text collapse.

## 8. What is abstracted or not modelled

- Texts, formats, logs, directives and wording.  A regular expression is the set it matches.
- Commands run by a phase are their outcome and their update of files.  make, wget, cprnc, the batch system and
  the model are external; they are modelled from how CIME uses them and marked so in `PROJECT.json`.
- In `TestCaseRun` reading a file is one step, writing two; one waiter looks at one test.
- `compare_n` repeats `compare_two` with other rules for a failed setup; PRE, LDSTA and NODEFAIL
  differ in what they set, and the statistics tests (pgn, mvk, tsc) in what they compute, not in the protocol.
- ftp, gridftp and svn servers; the servers of CLM_USRDAT_NAME (`check_input_data.py:199`); nemo and log files of the archiver; archiving by date as a run of its own.
- create_newcase, XML text and its converters, the scanner of
  namelist text, stream files and YAML, queries and configuration tools, `get_timing`, `cs.status`, jenkins: formatting or parsing without
  shared state.  Date arithmetic apart from `RestartDates` and `Baselines`, the Fortran library and the C tools: sequential numerical code.
- `_completed_tests` is incremented without a lock; it is only printed.

Each component's status and reason are in `PROJECT.json`.

## 9. Plan

1. Proofs: the date in a file name (`Baselines`).
2. An abstract "a case as its user sees it" that `CaseBuild` and `CaseChain` implement together.
3. `compare_n`, archiving by date, svn and ftp as further servers, log files in `StArchive`.
4. Multi-file flush of `CaseXml`.
