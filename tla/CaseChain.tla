------------------------------- MODULE CaseChain -------------------------------
(***************************************************************************)
(* The jobs of a case and their resubmission (case_submit.py, env_batch.py,*)
(* case_run.py, case_st_archive.py).  A submission puts case.run and, when *)
(* DOUT_S asks for it, case.st_archive into the batch system, with their   *)
(* dependencies; the last of them submits the next sequence while RESUBMIT *)
(* lasts, or all sequences go in at once (--resubmit-immediate).           *)
(*                                                                         *)
(* RESUBMIT, CONTINUE_RUN and DOUT_S live in env_run.xml.  Every process   *)
(* works on the copy it read; a write fails when the file has changed      *)
(* since (validate_timestamp), and the user may change RESUBMIT at any     *)
(* time.  DOUT_S stays as it was when the jobs went to the batch system.   *)
(***************************************************************************)
EXTENDS Naturals, Sequences, FiniteSets

CONSTANTS
  Batch,        \* TRUE: a batch system, FALSE: --no-batch, jobs run in line
  AllowFail,    \* case.submit --allow-fail
  MaxResubmit,  \* bound on the values of RESUBMIT
  Retries,      \* spare nodes: failures of the model that are retried
  MaxEdits,     \* bound on the user's edits
  None

ASSUME NumbersAssumption == MaxResubmit \in Nat /\ Retries \in Nat /\ MaxEdits \in Nat

VARIABLES
  file,      \* env_run.xml: resubmit, cont (CONTINUE_RUN), douts, and its version
  jobs,      \* the submitted jobs, in order of submission
  sub,       \* version of env_run.xml read by a case.submit --resubmit-immediate
             \* that still has to write RESUBMIT = 0, or None
  reached,   \* segments simulated, the restart files of the last in the run directory
  edits,     \* how many edits so far
  granted,   \* history: the sequences asked for by the user
  raised     \* history: a case.submit ended in an exception

vars == <<file, jobs, sub, reached, edits, granted, raised>>

Files  == [resubmit : 0..MaxResubmit, cont : BOOLEAN, douts : BOOLEAN, version : Nat]
Active == {"model", "post", "archiving", "resubmitting"}
Ended  == {"done", "failed"}

\* None is no value of the program
ASSUME NoneAssumption == None \notin Files \cup Nat

Init ==
  /\ file \in [resubmit : 0..MaxResubmit, cont : {FALSE}, douts : BOOLEAN, version : {0}]
  /\ jobs = <<>> /\ sub = None /\ reached = 0 /\ edits = 0
  /\ granted = file.resubmit + 1 /\ raised = FALSE

(***************************************************************************)
(* EnvBatch.submit_jobs                                                    *)
(***************************************************************************)
\* Mutant: the dependency on the sequence before is off by one.
DepsNext(first, base) ==
  (IF first THEN {} ELSE {base + 1}) \cup (IF base > Len(jobs) THEN {base + 1} ELSE {})
\* get_job_deps: the archive waits for its run, and every job of a later
\* sequence also for the last job of the one before
Deps(first, base) ==
  (IF first THEN {} ELSE {base + 1}) \cup (IF base > Len(jobs) THEN {base} ELSE {})

\* n sequences after the last of the jobs present; width is 2 with an archive
\* job
Sequenced(n, width, immediate) ==
  [i \in 1..(n * width) |->
     LET base  == Len(jobs) + ((i - 1) \div width) * width
         first == (i - 1) % width = 0
     IN  [kind |-> IF first THEN "run" ELSE "archive", deps |-> Deps(first, base),
          setCont |-> immediate, resub |-> ~immediate,
          pc |-> "queued", mem |-> None, from |-> 0, tries |-> Retries]]

Submitted(mem, n, immediate) == Sequenced(n, IF mem.douts THEN 2 ELSE 1, immediate)

\* case.submit by the user; with --resubmit-immediate the value 0 of RESUBMIT
\* is written when the process ends, after the jobs went to the batch system
UserSubmit(immediate) ==
  /\ jobs = <<>>
  /\ jobs' = Submitted(file, IF immediate THEN file.resubmit + 1 ELSE 1, immediate)
  /\ sub' = IF immediate /\ file.resubmit > 0 THEN file.version ELSE None
  /\ UNCHANGED <<file, reached, edits, granted, raised>>

\* GenericXML.write: only over the version that was read
Write(mem, new) ==
  /\ mem.version = file.version
  /\ file' = [new EXCEPT !.version = file.version + 1]

UserSubmitEnds ==
  /\ sub # None
  /\ sub' = None
  /\ IF sub = file.version
     THEN Write(file, [file EXCEPT !.resubmit = 0]) /\ UNCHANGED raised
     ELSE raised' = TRUE /\ UNCHANGED file
  /\ UNCHANGED <<jobs, reached, edits, granted>>

\* xmlchange RESUBMIT by the user, at any time
UserEdit(value) ==
  /\ jobs # <<>> /\ edits < MaxEdits /\ file.resubmit # value
  /\ edits' = edits + 1
  /\ file' = [file EXCEPT !.resubmit = value, !.version = @ + 1]
  /\ granted' = granted + value - file.resubmit
  /\ UNCHANGED <<jobs, sub, reached, raised>>

(***************************************************************************)
(* The jobs                                                                *)
(***************************************************************************)
Move(j, pc) == jobs' = [jobs EXCEPT ![j].pc = pc]

\* Mutant: the dependencies of the jobs are not passed to the batch system.
ReadyAnyTime(j) == TRUE
\* In batch a job waits for its dependencies; with --no-batch the loop of
\* submit_jobs runs one job after the other and swallows their exceptions
Ready(j) ==
  IF Batch
  THEN \A d \in jobs[j].deps : jobs[d].pc = "done" \/ (AllowFail /\ jobs[d].pc = "failed")
  ELSE \A i \in 1..(j - 1) : jobs[i].pc \in Ended

\* The model starts from the restart files when CONTINUE_RUN says so
Origin(mem) == IF mem.cont THEN reached ELSE 0

\* The job loads the case; case.run goes on to run the model
Start(j) ==
  /\ jobs[j].pc = "queued" /\ Ready(j)
  /\ jobs' = [jobs EXCEPT ![j].mem = file,
                          ![j].pc = IF jobs[j].kind = "run" THEN "model" ELSE "archiving",
                          ![j].from = IF jobs[j].kind = "run" THEN Origin(file) ELSE 0]
  /\ UNCHANGED <<file, sub, reached, edits, granted, raised>>

\* The model ends well; the XML files are read again for what the user changed
ModelEnds(j) ==
  /\ jobs[j].pc = "model"
  /\ jobs[j].mem.cont => reached > 0
  /\ reached' = jobs[j].from + 1
  /\ jobs' = [jobs EXCEPT ![j].pc = "post", ![j].mem = file]
  /\ UNCHANGED <<file, sub, edits, granted, raised>>

\* The log shows a failed node (CONTINUE_RUN is set) or one of the errors to
\* be retried (it is not): the model runs again
ModelRetried(j, node) ==
  /\ jobs[j].pc = "model" /\ jobs[j].tries > 0
  /\ LET new == [file EXCEPT !.cont = TRUE]
     IN  /\ IF file.cont \/ ~node THEN UNCHANGED file ELSE Write(file, new)
         /\ jobs' = [jobs EXCEPT ![j].mem = file', ![j].from = Origin(file'),
                                 ![j].tries = @ - 1]
  /\ UNCHANGED <<sub, reached, edits, granted, raised>>

\* The model fails, the archiver raises, or the batch system kills the job
JobFails(j) ==
  /\ jobs[j].pc \in Active
  /\ Move(j, "failed")
  /\ raised' = (raised \/ jobs[j].pc = "resubmitting")
  /\ UNCHANGED <<file, sub, reached, edits, granted>>

\* Mutant: CONTINUE_RUN is not set.
ResubmitValuesFromStart(mem) == [mem EXCEPT !.resubmit = @ - 1]
\* Mutant: RESUBMIT is left as it is.
ResubmitValuesKept(mem) == [mem EXCEPT !.cont = TRUE]
\* _submit(resubmit=True)
ResubmitValues(mem) == [mem EXCEPT !.resubmit = @ - 1, !.cont = TRUE]

\* Mutant: the test of RESUBMIT is off by one.
RunResubmitsAtZero(job) == job.resub /\ ~job.mem.douts /\ job.mem.resubmit >= 0
\* Mutant: case.run resubmits whether or not an archiver follows.
RunResubmitsToo(job) == job.resub /\ job.mem.resubmit > 0
\* Mutant: the last sequence is not resubmitted.
RunResubmitsButLast(job) == job.resub /\ ~job.mem.douts /\ job.mem.resubmit > 1
\* _resubmit_check leaves the resubmission to the archiver under DOUT_S
RunResubmits(job) == job.resub /\ ~job.mem.douts /\ job.mem.resubmit > 0

\* The end of case.run: CONTINUE_RUN after an immediate submission, or the
\* next sequence
RunPosts(j) ==
  LET mem   == jobs[j].mem
      again == RunResubmits(jobs[j])
      new   == IF again THEN ResubmitValues(mem)
               ELSE IF jobs[j].setCont THEN [mem EXCEPT !.cont = TRUE] ELSE mem
  IN  /\ jobs[j].pc = "post"
      /\ \/ new = mem /\ Move(j, "done") /\ UNCHANGED <<file, raised>>
         \/ /\ new # mem /\ Write(mem, new) /\ UNCHANGED raised
            /\ Move(j, IF again THEN "resubmitting" ELSE "done")
         \/ /\ new # mem /\ mem.version # file.version
            /\ Move(j, "failed") /\ UNCHANGED <<file, raised>>
      /\ UNCHANGED <<sub, reached, edits, granted>>

\* case_st_archive: RESUBMIT is the one read when the job started
Archive(j) ==
  LET mem   == jobs[j].mem
      again == (jobs[j].resub \/ ~Batch) /\ mem.resubmit > 0
  IN  /\ jobs[j].pc = "archiving"
      /\ \/ ~again /\ Move(j, "done") /\ UNCHANGED file
         \/ again /\ Write(mem, ResubmitValues(mem)) /\ Move(j, "resubmitting")
         \/ again /\ mem.version # file.version /\ Move(j, "failed") /\ UNCHANGED file
      /\ UNCHANGED <<sub, reached, edits, granted, raised>>

\* RESUBMIT is written by now: the next sequence goes to the batch system
Resubmit(j) ==
  /\ jobs[j].pc = "resubmitting"
  /\ jobs' = [jobs EXCEPT ![j].pc = "done"] \o Submitted(jobs[j].mem, 1, FALSE)
  /\ UNCHANGED <<file, sub, reached, edits, granted, raised>>

JobStep(j) ==
  \/ Start(j) \/ ModelEnds(j) \/ (\E node \in BOOLEAN : ModelRetried(j, node))
  \/ JobFails(j) \/ RunPosts(j) \/ Archive(j) \/ Resubmit(j)

Next ==
  \/ \E immediate \in BOOLEAN : UserSubmit(immediate)
  \/ UserSubmitEnds
  \/ \E value \in 0..MaxResubmit : UserEdit(value)
  \/ \E j \in DOMAIN jobs : JobStep(j)

Jobs == 1..(2 * (MaxResubmit + 1) * (MaxEdits + 1))

\* The batch system starts what may start, and no process hangs
Fairness == \A j \in Jobs : WF_vars(j \in DOMAIN jobs /\ JobStep(j))

Spec == Init /\ [][Next]_vars /\ Fairness

--------------------------------------------------------------------------------
Runs     == {j \in DOMAIN jobs : jobs[j].kind = "run"}
Archives == DOMAIN jobs \ Runs
In(pc)   == {j \in DOMAIN jobs : jobs[j].pc = pc}

\* The type of every variable
TypeOK ==
  /\ file \in Files /\ sub \in Nat \cup {None} /\ raised \in BOOLEAN
  /\ reached \in Nat /\ edits \in 0..MaxEdits /\ granted \in Nat
  /\ DOMAIN jobs \subseteq Jobs
  /\ \A j \in DOMAIN jobs :
       /\ jobs[j].kind \in {"run", "archive"} /\ jobs[j].deps \subseteq 1..(j - 1)
       /\ jobs[j].pc \in {"queued"} \cup Active \cup Ended
       /\ jobs[j].mem \in Files \cup {None} /\ jobs[j].tries \in 0..Retries

\* No sequence is lost or run twice: what was submitted, is being resubmitted
\* and is left in RESUBMIT adds up to what the user asked for, across failures,
\* retries and edits during the runs (set_value RESUBMIT in _submit, read_xml
\* in case_run, validate_timestamp), unless a submission itself raised
SequencesConserved ==
  ~raised /\ sub = None /\ jobs # <<>> =>
    Cardinality(Runs) + Cardinality(In("resubmitting")) + file.resubmit = granted

\* The jobs of a case never work at the same time: no two runs in one run
\* directory, no archiver moving files of a running model (get_job_deps and
\* the division of the resubmission between case.run and case.st_archive)
JobsRunAlone == Cardinality({j \in DOMAIN jobs : jobs[j].pc \in Active}) <= 1

\* "one or more job names in the workflow that must complete successfully
\* before this step" (config_workflow.xml:22): only the output of a run that
\* ended well is archived, and only it is continued
ArchiveOnlySuccess ==
  \A j \in Archives : jobs[j].pc \in Active \cup {"done"} => jobs[j - 1].pc = "done"

\* When every job has ended well the simulation is as long as the sequences
\* submitted, and a chain that resubmits itself has used RESUBMIT up, unless
\* the user raised it after the last job had read it
StopsWhenUsedUp ==
  jobs # <<>> /\ sub = None /\ DOMAIN jobs = In("done") =>
    /\ reached = Cardinality(Runs)
    /\ jobs[Len(jobs)].resub =>
         file.resubmit = 0 \/ file.version > jobs[Len(jobs)].mem.version

\* A submitted chain comes to its end or to a failure that is recorded
ChainEnds == jobs # <<>> ~> \/ In("failed") # {} \/ raised
                           \/ DOMAIN jobs = In("done")

\* The jobs implement the chain of runs: one at a time, each from where the
\* simulation stands, whether resubmitted by case.run, by the archiver or all
\* at once, with CONTINUE_RUN set by the one or the other
ActiveFrom == IF In("model") = {} THEN None ELSE jobs[CHOOSE j \in In("model") : TRUE].from
Chain == INSTANCE RunChain WITH active <- ActiveFrom, Idle <- None
ChainImplemented == Chain!Spec

\* The jobs of a chain take turns, follow success only, and neither lose a
\* sequence nor add one
ChainInv ==
  TypeOK /\ SequencesConserved /\ JobsRunAlone /\ ArchiveOnlySuccess /\ StopsWhenUsedUp
=============================================================================
