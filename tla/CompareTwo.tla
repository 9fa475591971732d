------------------------------ MODULE CompareTwo ------------------------------
(***************************************************************************)
(* Tests that run the model twice and compare the results                  *)
(* (SystemTestsCompareTwo, create_clone).  Case 1 is the test's own case,  *)
(* case 2 a clone of it in a directory below it; that directory stands for *)
(* "the setup is done".  On a batch system a multi-submit test runs case 1 *)
(* in one job and case 2 in another, RESUBMIT and IS_FIRST_RUN tell which: *)
(* the first job submits the second as soon as its model has run and goes  *)
(* on beside it (PET), or the archiver after the first does (ERR).         *)
(***************************************************************************)
EXTENDS Naturals, Sequences

CONSTANTS
  MaxSubmits, \* bound on the submissions by the user
  MaxBuilds,  \* bound on the builds
  MayKill     \* where a process may be killed: a subset of {"setup", "run"}

ASSUME MayKillAssumption == MayKill \subseteq {"setup", "run"}
ASSUME BoundsAssumption == MaxSubmits \in Nat /\ MaxBuilds \in Nat

VARIABLES
  kind,      \* "single": one job does all; who submits the second: "job", "archive"
  pc,        \* what the process at work does, "idle" when there is none
  caseroot2, \* the directory of case 2: "absent", "cloned" or "set" (set up)
  setups,    \* times case 1 was set up
  built,     \* the executable of both has been built
  builds,    \* builds started
  failures,  \* history: setups that ended in an exception
  resubmit,  \* RESUBMIT of case 1
  first,     \* IS_FIRST_RUN of case 1
  queued,    \* what is in the batch system: "none", "test" or "archive"
  submits,   \* submissions by the user
  attempt,   \* history: runs of the test begun
  file,      \* TestStatus: RUN and the COMPARE line
  mem,       \* what the job at work has of it in memory
  tail,      \* the first job beside the second: "none", "saving" or "ending"
  out,       \* history: the attempts the saved outputs of case 1 and 2 are from
  compared,  \* history: the attempts of the outputs compared last
  cut        \* history: attempts whose first job had not saved its output when
             \* it ended, or when the comparison was made

buildVars == <<caseroot2, setups, built, builds, failures>>
histories == <<out, compared, cut>>
runVars   == <<resubmit, first, queued, submits, attempt, file, mem, tail, histories>>
vars      == <<kind, pc, buildVars, runVars>>

Statuses == {"none", "PEND", "PASS", "FAIL"}
Nothing  == [run |-> "none", comp |-> "none"]

\* RESUBMIT in env_test.xml, set_initial_test_values
Initial == IF kind = "single" THEN 0 ELSE 1

Init ==
  /\ kind \in {"single", "job", "archive"} /\ pc = "idle"
  /\ caseroot2 = "absent" /\ setups = 0 /\ built = FALSE /\ builds = 0 /\ failures = 0
  /\ resubmit = Initial /\ first = TRUE /\ queued = "none"
  /\ submits = 0 /\ attempt = 0 /\ file = Nothing /\ mem = Nothing /\ tail = "none"
  /\ out = <<0, 0>> /\ compared = <<0, 0>> /\ cut = {}

Goto(next) == pc' = next /\ UNCHANGED kind

\* Nothing of the test is queued or at work
Idle == pc = "idle" /\ queued = "none" /\ tail = "none"

(***************************************************************************)
(* Build phase                                                             *)
(***************************************************************************)
\* "Use the existence of the case2 directory to signal whether we have done
\* the necessary test setup for this test".  A phase begun again resets the
\* case and drops the lines of the later ones
BuildStart ==
  /\ Idle /\ builds < MaxBuilds
  /\ builds' = builds + 1
  /\ resubmit' = IF first /\ builds > 0 THEN Initial ELSE resubmit
  /\ file' = Nothing
  /\ Goto(IF caseroot2 = "absent" THEN "clone" ELSE "build")
  /\ UNCHANGED <<caseroot2, setups, built, failures, first, queued, submits, attempt,
                 mem, tail, histories>>

\* create_clone refuses a directory that exists
Clone ==
  /\ pc = "clone" /\ caseroot2 = "absent"
  /\ caseroot2' = "cloned" /\ Goto("setup1")
  /\ UNCHANGED <<setups, built, builds, failures, runVars>>

SetupCase1 ==
  /\ pc = "setup1" /\ setups' = setups + 1 /\ Goto("setup2")
  /\ UNCHANGED <<caseroot2, built, builds, failures, runVars>>

SetupCase2 ==
  /\ pc = "setup2" /\ caseroot2' = "set" /\ Goto("build")
  /\ UNCHANGED <<setups, built, builds, failures, runVars>>

\* Mutant: the handler leaves the directory of case 2.
CleanedNever == UNCHANGED caseroot2
\* The exception handler removes case 2
Cleaned == caseroot2' = "absent"

\* An exception while cloning or setting up; a failing setup of case 1 may
\* already have changed it
SetupFails ==
  /\ pc \in {"clone", "setup1", "setup2"}
  /\ setups' \in IF pc = "setup1" THEN {setups, setups + 1} ELSE {setups}
  /\ Cleaned /\ failures' = failures + 1 /\ Goto("idle")
  /\ UNCHANGED <<built, builds, runVars>>

\* Mutant: a build that fails takes case 2 away as well.
BuildEndsCleaned(ok) ==
  /\ pc = "build" /\ built' = ok /\ Goto("idle")
  /\ IF ok THEN UNCHANGED caseroot2 ELSE Cleaned
  /\ UNCHANGED <<setups, builds, failures, runVars>>
\* Case 1 is built, case 2 shares its executable or is built after it
BuildEnds(ok) ==
  /\ pc = "build" /\ built' = ok /\ Goto("idle")
  /\ UNCHANGED <<caseroot2, setups, builds, failures, runVars>>

(***************************************************************************)
(* Submission by the user                                                  *)
(***************************************************************************)
\* SUBMIT passes, unless it has already: RUN is opened, or kept as it is
Opened == IF file.run = "none" THEN [file EXCEPT !.run = "PEND"] ELSE file

\* case.submit gives the case its initial test values and sets IS_FIRST_RUN
UserSubmit ==
  /\ Idle /\ built /\ submits < MaxSubmits
  /\ resubmit' = Initial /\ first' = TRUE /\ queued' = "test" /\ submits' = submits + 1
  /\ file' = Opened /\ Goto("idle")
  /\ UNCHANGED <<buildVars, attempt, mem, tail, histories>>

\* An exception before the job is queued fails SUBMIT, which drops the lines of
\* RUN and COMPARE; a kill does not
UserRefused ==
  /\ Idle /\ built /\ submits < MaxSubmits
  /\ resubmit' = Initial /\ (first' = TRUE \/ first' = first) /\ submits' = submits + 1
  /\ file' \in {Nothing, Opened} /\ Goto("idle")
  /\ UNCHANGED <<buildVars, queued, attempt, mem, tail, histories>>

(***************************************************************************)
(* The test's job                                                          *)
(***************************************************************************)
\* set_status: a RUN that is not pending drops the comparison
SetRun(status, run) == [run |-> run, comp |-> IF status.run = "PEND" THEN status.comp ELSE "none"]

\* The job writes all of TestStatus as it has it in memory
Writes(status) == mem' = status /\ file' = status

\* The job of case.test starts and reads TestStatus
JobLoads ==
  /\ pc = "idle" /\ queued = "test"
  /\ queued' = "none" /\ mem' = file /\ Goto("load")
  /\ UNCHANGED <<buildVars, resubmit, first, submits, attempt, file, tail, histories>>

\* _resetup_case: after a run that ended, and when RESUBMIT was used up by one
\* that did not
StartsOver == first /\ (mem.run # "PEND" \/ (kind # "single" /\ resubmit = 0))

\* Mutant: the test of RESUBMIT is off by one.
FirstPhaseAtZero(left) == left = 0
FirstPhase(left) == left = 1

\* Mutant: the comparison is not marked as pending.
MarkedNever(phase, status) == status
\* "Add a PENDing compare phase so that we'll notice if the second part of
\* compare two doesn't run"
Marked(phase, status) == IF phase = "run1" THEN [status EXCEPT !.comp = "PEND"] ELSE status

\* Starting over gives RESUBMIT its initial value; RUN gets pending
JobStart ==
  LET left  == IF StartsOver THEN Initial ELSE resubmit
      phase == IF kind = "single" \/ FirstPhase(left) THEN "run1" ELSE "run2"
  IN  /\ pc = "load"
      /\ resubmit' = left /\ Writes(Marked(phase, SetRun(mem, "PEND")))
      /\ attempt' = IF first THEN attempt + 1 ELSE attempt
      /\ Goto(phase)
      /\ UNCHANGED <<buildVars, first, queued, submits, tail, histories>>

\* Mutant: the test of RESUBMIT is off by one.
ResubmitsAtZero == resubmit >= 0
Resubmits == resubmit > 0

\* _resubmit_check, when no archiver does it
JobResubmits == pc = "run1" /\ kind # "archive" /\ Resubmits

\* The model of case 1 has run: case_run submits the second job, and the first
\* goes on beside it
Resubmission ==
  /\ JobResubmits
  /\ resubmit' = resubmit - 1 /\ first' = FALSE /\ queued' = "test"
  /\ tail' = "saving" /\ Goto("idle")
  /\ UNCHANGED <<buildVars, submits, attempt, file, mem, histories>>

\* The coupler log is there and the output of case 1 is saved
RunCase1 ==
  /\ pc = "run1" /\ ~JobResubmits
  /\ out' = [out EXCEPT ![1] = attempt]
  /\ Goto(IF kind = "single" THEN "run2" ELSE "end")
  /\ UNCHANGED <<buildVars, resubmit, first, queued, submits, attempt, file, mem, tail,
                 compared, cut>>

RunCase2 ==
  /\ pc = "run2"
  /\ out' = [out EXCEPT ![2] = attempt] /\ Goto("compare")
  /\ UNCHANGED <<buildVars, resubmit, first, queued, submits, attempt, file, mem, tail,
                 compared, cut>>

Cut == IF tail = "saving" THEN cut \cup {attempt} ELSE cut

\* _component_compare_test from case 1
Compare(verdict) ==
  /\ pc = "compare" /\ (verdict = "PASS" => out[1] # 0)
  /\ Writes([mem EXCEPT !.comp = verdict]) /\ compared' = out /\ cut' = Cut
  /\ Goto("end")
  /\ UNCHANGED <<buildVars, resubmit, first, queued, submits, attempt, tail, out>>

\* RUN passes as the last thing; with an archiver the batch system starts it now
JobEnds ==
  /\ pc = "end"
  /\ Writes(SetRun(mem, "PASS")) /\ Goto("idle")
  /\ queued' = IF kind = "archive" THEN "archive" ELSE queued
  /\ UNCHANGED <<buildVars, resubmit, first, submits, attempt, tail, histories>>

\* The submission of the next job may have changed RESUBMIT and IS_FIRST_RUN
\* when it goes wrong
Interrupted(submitting) ==
  IF submitting THEN resubmit' = resubmit - 1 /\ first' = FALSE
  ELSE UNCHANGED <<resubmit, first>>

\* An exception, from the model or from the submission of the next job
JobFails(submitting) ==
  /\ pc \in {"load", "run1", "run2", "compare", "end"} /\ (submitting => JobResubmits)
  /\ Interrupted(submitting) /\ Writes(SetRun(mem, "FAIL")) /\ Goto("idle")
  /\ UNCHANGED <<buildVars, queued, submits, attempt, tail, histories>>

\* The first job, which has submitted the second, saves the output of case 1
TailSaves ==
  /\ tail = "saving" /\ tail' = "ending" /\ out' = [out EXCEPT ![1] = attempt]
  /\ UNCHANGED <<kind, pc, buildVars, resubmit, first, queued, submits, attempt, file, mem,
                 compared, cut>>

\* and writes RUN, with the pending comparison it has in memory; or it fails on
\* the coupler log or while it saves
TailEnds(run) ==
  /\ tail = "ending" \/ (tail = "saving" /\ run = "FAIL")
  /\ tail' = "none" /\ cut' = Cut /\ file' = [run |-> run, comp |-> "PEND"]
  /\ UNCHANGED <<kind, pc, buildVars, resubmit, first, queued, submits, attempt, mem, out,
                 compared>>

(***************************************************************************)
(* case.st_archive, which submits the second job                           *)
(***************************************************************************)
ArchiveEnds ==
  /\ pc = "idle" /\ queued = "archive"
  /\ IF Resubmits THEN queued' = "test" ELSE queued' = "none"
  /\ Interrupted(Resubmits) /\ Goto("idle")
  /\ UNCHANGED <<buildVars, submits, attempt, file, mem, tail, histories>>

\* Its submission fails, and SUBMIT with it
ArchiveFails(submitting) ==
  /\ pc = "idle" /\ queued = "archive" /\ Resubmits
  /\ queued' = "none" /\ Interrupted(submitting) /\ file' = Nothing /\ Goto("idle")
  /\ UNCHANGED <<buildVars, submits, attempt, mem, tail, histories>>

(***************************************************************************)
(* Kills                                                                   *)
(***************************************************************************)
Killed(submitting) ==
  /\ \/ "setup" \in MayKill /\ pc \in {"clone", "setup1", "setup2", "build"}
     \/ "run" \in MayKill /\ pc \in {"load", "run1", "run2", "compare", "end"}
  /\ submitting => JobResubmits
  /\ Interrupted(submitting) /\ Goto("idle")
  /\ UNCHANGED <<buildVars, queued, submits, attempt, file, mem, tail, histories>>

TailKilled ==
  /\ "run" \in MayKill /\ tail # "none"
  /\ tail' = "none" /\ cut' = Cut
  /\ UNCHANGED <<kind, pc, buildVars, resubmit, first, queued, submits, attempt, file, mem,
                 out, compared>>

\* A job is taken from the queue, or an archiver is killed
Cancelled ==
  /\ "run" \in MayKill /\ pc = "idle" /\ queued # "none" /\ queued' = "none"
  /\ Goto("idle")
  /\ UNCHANGED <<buildVars, resubmit, first, submits, attempt, file, mem, tail, histories>>

Next ==
  \/ BuildStart \/ Clone \/ SetupCase1 \/ SetupCase2 \/ SetupFails
  \/ \E ok \in BOOLEAN : BuildEnds(ok)
  \/ UserSubmit \/ UserRefused \/ JobLoads \/ JobStart
  \/ Resubmission \/ RunCase1 \/ RunCase2 \/ JobEnds
  \/ \E verdict \in {"PASS", "FAIL"} : Compare(verdict) \/ TailEnds(verdict)
  \/ \E submitting \in BOOLEAN :
       JobFails(submitting) \/ ArchiveFails(submitting) \/ Killed(submitting)
  \/ TailSaves \/ ArchiveEnds \/ TailKilled \/ Cancelled

Spec == Init /\ [][Next]_vars

--------------------------------------------------------------------------------
\* The type of every variable
TypeOK ==
  /\ kind \in {"single", "job", "archive"} /\ built \in BOOLEAN /\ first \in BOOLEAN
  /\ pc \in {"idle", "clone", "setup1", "setup2", "build",
             "load", "run1", "run2", "compare", "end"}
  /\ caseroot2 \in {"absent", "cloned", "set"} /\ queued \in {"none", "test", "archive"}
  /\ builds \in 0..MaxBuilds /\ setups \in 0..builds /\ failures \in 0..builds
  /\ resubmit \in {0, 1} /\ submits \in 0..MaxSubmits /\ attempt \in 0..submits
  /\ file \in [run : Statuses, comp : Statuses] /\ mem \in [run : Statuses, comp : Statuses]
  /\ tail \in {"none", "saving", "ending"} /\ cut \subseteq 0..attempt
  /\ out \in (0..attempt) \X (0..attempt) /\ compared \in (0..attempt) \X (0..attempt)

\* "the next re-build of the test would think, "okay, setup is done, I can move
\* on to the build", which would be wrong" (_setup_cases_if_not_yet_done): what
\* is built has been set up, after any failure of a setup or of a build
BuildsWhatIsSetUp == pc = "build" => setups > 0 /\ caseroot2 = "set"

\* Case 1 is set up once, however often the test is built, and again only
\* after a setup that failed: otherwise user_nl files get additions twice
SetUpOnce == setups <= 1 + failures

\* A comparison does not set the output of one attempt against that of another,
\* over failed, killed and cancelled jobs: the use of IS_FIRST_RUN and RESUBMIT
\* in run_phase and case.submit.  Except where the first job did not get to
\* save its output, having submitted the second before
ComparesOneAttempt == compared[1] = compared[2] \/ compared[2] \in cut

\* When the phases pass, the comparison was made, on the outputs of the last
\* attempt: a second part that never ran is noticed.  The same exception
PassIsComplete ==
  file.run = "PASS" /\ file.comp \notin {"PEND", "FAIL"} =>
    /\ file.comp = "PASS" /\ compared[2] = attempt
    /\ compared[1] = attempt \/ attempt \in cut

\* The two cases are set up once and whole before they are built
SetupInv == TypeOK /\ BuildsWhatIsSetUp /\ SetUpOnce
=============================================================================
