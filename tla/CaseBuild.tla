------------------------------- MODULE CaseBuild -------------------------------
(***************************************************************************)
(* The life of a case before the model runs: case.setup, xmlchange,        *)
(* case.build, its cleaning, case.submit and the checks at the start of    *)
(* the job (case_setup.py, build.py, locked_files.py, case_submit.py,      *)
(* case_run.py).  The files of the case are shared by the commands the     *)
(* user types, by a build that takes its time, by a job in the queue and   *)
(* by one that has passed its checks and has yet to start the model.       *)
(*                                                                         *)
(* Objects are made by make, outside CIME: it compiles what is missing and *)
(* never notices that the settings changed ("A manual clean of your obj    *)
(* directories is required", build.py:700).                                *)
(***************************************************************************)
EXTENDS Naturals, FiniteSets

CONSTANTS
  Comps,         \* the components, each built by a thread of its own
  Opts,          \* the compile-time settings held by env_build.xml
  Queues,        \* the batch settings held by env_batch.xml
  Outcomes,      \* how a build thread may end: "ok", "failed", "died"
  MaxEdits,      \* bound on the edits of the settings
  SmpExported,   \* does anything export SMP_VALUE to the environment?
  ReadOnly,      \* may EXEROOT be a directory the user cannot write to?
  None

ASSUME OutcomesAssumption == Outcomes \subseteq {"ok", "failed", "died"}
ASSUME NumbersAssumption == MaxEdits \in Nat /\ SmpExported \in BOOLEAN /\ ReadOnly \in BOOLEAN
ASSUME CompsAssumption == Comps # {}

VARIABLES
  env,        \* the env_*.xml files: opts, threaded (env_build), pes, batch
  complete,   \* BUILD_COMPLETE   (env_build.xml)
  status,     \* BUILD_STATUS     (env_build.xml)
  smpBuild,   \* SMP_BUILD        (env_build.xml), None for "0"
  locked,     \* LockedFiles/: the copies of env_build, env_mach_pes, env_batch
  script,     \* the batch script of the case, or None
  lib,        \* per component: the settings its library was compiled with, or None
  exe,        \* the settings of the libraries the executable was linked from, or None
  build,      \* the running case.build, or None
  job,        \* the submitted job, or None
  edits,      \* how many edits so far
  unchecked   \* history: "opts" if compile-time settings changed since the last
              \* clean build tree when the locks could not notice, "tree" if
              \* BUILD_COMPLETE is that of a tree nobody may write to

vars == <<env, complete, status, smpBuild, locked, script, lib, exe, build,
          job, edits, unchecked>>

Files == {"build", "pes", "batch"}
Content(f) ==
  CASE f = "build" -> [opts |-> env.opts, threaded |-> env.threaded, status |-> status]
    [] f = "pes"   -> env.pes
    [] f = "batch" -> env.batch

Scripts == [pes : BOOLEAN, batch : Queues]
Envs    == [opts : Opts, threaded : BOOLEAN, pes : BOOLEAN, batch : Queues]

\* The locked copies, a running build and a submitted job: what its checks saw
\* (late: the settings changed since), and what it ran
BuildLocks == [opts : Opts, threaded : BOOLEAN, status : {0}]
Seen       == Envs \X BOOLEAN \X {0, 1}
Builds     == [todo : SUBSET Comps, list : SUBSET Comps, bad : SUBSET Comps, opts : Opts,
               smp : BOOLEAN, seen : Seen \cup {None}]
Checks     == [opts : Opts, late : BOOLEAN]
Runs       == [exe : SUBSET Opts, excused : BOOLEAN]
Jobs       == [script : Scripts \cup {None}, queue : Queues \cup {None},
               checked : Checks \cup {None}, ran : Runs \cup {None}]

\* None is no value of the program
ASSUME NoneAssumption ==
  /\ None \notin BOOLEAN \cup Queues \cup Opts /\ \A o \in SUBSET Opts : o # None
  /\ None \notin Scripts /\ None \notin BuildLocks /\ None \notin Seen
  /\ None \notin Builds /\ None \notin Checks /\ None \notin Runs /\ None \notin Jobs

Init ==
  /\ env \in {e \in Envs : ~e.threaded /\ ~e.pes}
  /\ complete = FALSE /\ status = 0 /\ smpBuild = None
  /\ locked = [build |-> None, pes |-> None, batch |-> None]
  /\ script = None
  /\ lib = [c \in Comps |-> None] /\ exe = None
  /\ build = None /\ job = None /\ edits = 0 /\ unchecked = {}

(***************************************************************************)
(* check_lockedfiles: the locked files whose content is no longer that of  *)
(* the case.  BUILD_COMPLETE is dropped from the difference, BUILD_STATUS  *)
(* is not: once set, it keeps env_build.xml different.                     *)
(***************************************************************************)
Diffs(files) == {f \in files : locked[f] # None /\ locked[f] # Content(f)}

\* check_diff: a changed env_build.xml asks for a clean build
CheckDiff(buildChanged) ==
  /\ complete' = (complete /\ ~buildChanged)
  /\ status'   = IF buildChanged THEN 1 ELSE status

\* A loud check raises at the first difference it meets, in directory order
LoudCheck(files) == \E f \in Diffs(files) : CheckDiff(f = "build")

\* make_all_batch_files
MakeScript == [pes |-> env.pes, batch |-> env.batch]

\* An edit of the compile-time settings that the lock of env_build.xml cannot
\* reveal: a build is running, or objects exist that no complete build has locked
Unseen(new) ==
  IF /\ new.opts # env.opts
     /\ build # None \/ (locked.build = None /\ \E c \in Comps : lib[c] # None)
  THEN {"opts"} ELSE {}

\* A job that has passed its checks and not started the model
Underway == job # None /\ job.checked # None /\ job.ran = None

\* The settings change under such a job
JobAfter(new) ==
  IF Underway /\ new.opts # env.opts THEN [job EXCEPT !.checked.late = TRUE] ELSE job

(***************************************************************************)
(* The user's commands                                                     *)
(***************************************************************************)
Edited == {e \in Envs : /\ e.threaded = env.threaded
                        /\ Cardinality({k \in {"opts", "pes", "batch"} : e[k] # env[k]}) = 1}

\* Editing the files with an editor: nothing is checked
HandEdit ==
  /\ edits < MaxEdits /\ edits' = edits + 1
  /\ env' \in Edited
  /\ unchecked' = unchecked \cup Unseen(env') /\ job' = JobAfter(env')
  /\ UNCHANGED <<complete, status, smpBuild, locked, script, lib, exe, build>>

\* xmlchange: the new value, then a quiet check of all the locked files
XmlChange ==
  /\ edits < MaxEdits /\ edits' = edits + 1
  /\ env' \in Edited
  /\ CheckDiff(/\ locked.build # None
               /\ locked.build # [opts |-> env'.opts, threaded |-> env.threaded,
                                  status |-> status])
  /\ unchecked' = unchecked \cup Unseen(env') /\ job' = JobAfter(env')
  /\ UNCHANGED <<smpBuild, locked, script, lib, exe, build>>

\* Mutant: a reset keeps BUILD_COMPLETE.
AfterResetKept(reset) == complete
AfterReset(reset) == complete /\ ~reset

\* case.setup [--reset]: with a batch script on disk only BUILD_THREADED is
\* refreshed; otherwise env_build and env_batch are unlocked and set up anew.
\* It may raise after the unlocking (GPU checks), before any script is made.
Setup(reset, fails) ==
  LET kept == IF reset THEN None ELSE script
  IN  /\ build = None
      /\ fails => kept = None
      /\ complete' = AfterReset(reset)
      /\ env' = [env EXCEPT !.threaded = env.pes]
      /\ script' = IF kept # None THEN kept ELSE IF fails THEN None ELSE MakeScript
      /\ locked' = IF kept # None THEN locked
                   ELSE [build |-> None,
                         pes   |-> IF fails THEN locked.pes ELSE env.pes,
                         batch |-> IF fails THEN None ELSE env.batch]
      /\ unchecked' = unchecked \cup
           (IF kept = None /\ locked.build # None /\ status = 0 /\ locked.build.opts # env.opts
            THEN {"opts"} ELSE {})
      /\ UNCHANGED <<status, smpBuild, lib, exe, build, job, edits>>

\* case.setup --clean removes the scripts and leaves the locks
SetupClean ==
  /\ build = None
  /\ script' = None /\ complete' = FALSE
  /\ UNCHANGED <<env, status, smpBuild, locked, lib, exe, build, job, edits, unchecked>>

\* case.build --clean-all, or --clean of some components: both unlock
\* env_build.xml and clear BUILD_STATUS
Clean(cleaned) ==
  /\ build = None
  /\ lib' = [c \in Comps |-> IF c \in cleaned THEN None ELSE lib[c]]
  /\ exe' = IF cleaned = Comps THEN None ELSE exe
  /\ locked' = [locked EXCEPT !.build = None]
  /\ status' = 0 /\ complete' = FALSE /\ smpBuild' = None
  /\ unchecked' =
       IF cleaned = Comps THEN {}
       ELSE IF status # 0 \/ (locked.build # None /\ locked.build.opts # env.opts)
       THEN unchecked \cup {"opts"} ELSE unchecked
  /\ UNCHANGED <<env, script, build, job, edits>>

\* case.build --clean-cache: the objects and BUILD_STATUS stay
CleanCache ==
  /\ build = None /\ \E c \in Comps : lib[c] # None
  /\ locked' = [locked EXCEPT !.build = None] /\ complete' = FALSE
  /\ unchecked' = IF locked.build # None /\ locked.build.opts # env.opts
                  THEN unchecked \cup {"opts"} ELSE unchecked
  /\ UNCHANGED <<env, status, smpBuild, script, lib, exe, build, job, edits>>

(***************************************************************************)
(* case.build                                                              *)
(***************************************************************************)
\* _case_build_impl up to _build_checks: refused without a batch script, when
\* env_build or env_mach_pes differ from their locked copies, when the thread
\* settings are known to have changed, or while BUILD_STATUS asks for a clean
BuildRefused ==
  /\ build = None /\ script # None
  /\ LoudCheck({"build", "pes"})
  /\ UNCHANGED <<env, smpBuild, locked, script, lib, exe, build, job, edits, unchecked>>

\* Mutant: BUILD_STATUS is not looked at.
CleanEnoughAlways == TRUE
CleanEnough == status = 0

\* Mutant: BUILD_COMPLETE of the last build stays until this one is done.
UnsetCompleteLater == UNCHANGED complete
UnsetComplete == complete' = FALSE

BuildStart(list) ==
  /\ build = None /\ script # None
  /\ Diffs({"build", "pes"}) = {}
  /\ smpBuild \in {None, env.pes}
  /\ CleanEnough
  /\ UnsetComplete
  /\ build' = [todo |-> IF list = {} THEN Comps ELSE list, list |-> list, bad |-> {},
               opts |-> env.opts, smp |-> env.pes, seen |-> None]
  /\ UNCHANGED <<env, status, smpBuild, locked, script, lib, exe, job, edits, unchecked>>

\* Mutant: the copy is locked before BUILD_STATUS is reset.
LockedBuildEarly == Content("build")
LockedBuild == [Content("build") EXCEPT !.status = 0]

\* EXEROOT cannot be written to: nothing is checked and nothing compiled, and
\* post_build declares the tree that is there complete
BuildSkipped ==
  /\ ReadOnly /\ build = None
  /\ complete' = TRUE /\ status' = 0
  /\ smpBuild' = IF SmpExported THEN env.pes ELSE smpBuild
  /\ locked' = [locked EXCEPT !.build = LockedBuild]
  /\ unchecked' = {"opts", "tree"}
  /\ UNCHANGED <<env, script, lib, exe, build, job, edits>>

\* _build_model_thread: a failed buildlib is reported in thread_bad_results,
\* an exception raised in the thread ends it without a report
BuildThread(c, outcome) ==
  /\ build # None /\ c \in build.todo
  /\ lib' = IF outcome = "ok" /\ lib[c] = None
            THEN [lib EXCEPT ![c] = build.opts] ELSE lib
  /\ build' = [build EXCEPT !.todo = @ \ {c},
                            !.bad  = IF outcome = "failed" THEN @ \cup {c} ELSE @]
  /\ UNCHANGED <<env, complete, status, smpBuild, locked, script, exe, job, edits, unchecked>>

\* The join of _build_model: a reported failure, or a library the link misses
BuildFails ==
  /\ build # None /\ build.todo = {} /\ build.seen = None
  /\ build.bad # {} \/ build.list # {} \/ \E c \in Comps : lib[c] = None
  /\ build' = None
  /\ UNCHANGED <<env, complete, status, smpBuild, locked, script, lib, exe, job, edits, unchecked>>

\* The executable is linked, then the XML files are read again
BuildLinks ==
  /\ build # None /\ build.todo = {} /\ build.seen = None
  /\ build.bad = {} /\ build.list = {} /\ \A c \in Comps : lib[c] # None
  /\ exe' = {lib[c] : c \in Comps}
  /\ build' = [build EXCEPT !.seen = <<env, complete, status>>]
  /\ UNCHANGED <<env, complete, status, smpBuild, locked, script, lib, job, edits, unchecked>>

\* post_build: the file must still be the one read (validate_timestamp)
PostBuild ==
  /\ build # None /\ build.seen # None
  /\ build' = None
  /\ IF build.seen = <<env, complete, status>>
     THEN /\ complete' = TRUE /\ status' = 0
          /\ smpBuild' = IF SmpExported THEN build.smp ELSE smpBuild
          /\ locked' = [locked EXCEPT !.build = LockedBuild]
          /\ unchecked' = unchecked \ {"tree"}
     ELSE UNCHANGED <<complete, status, smpBuild, locked, unchecked>>
  /\ UNCHANGED <<env, script, lib, exe, job, edits>>

(***************************************************************************)
(* case.submit and the start of the job                                    *)
(***************************************************************************)
\* Mutant: the scripts are those of case.setup.
SubmittedScriptOld == script
SubmittedScript == IF Diffs({"batch"}) # {} THEN MakeScript ELSE script

\* _submit: a changed env_batch.xml regenerates the scripts and is locked
\* again; then check_case looks at the other locks and at BUILD_COMPLETE
Submit ==
  LET diffs == Diffs({"build", "pes"})
  IN  /\ build = None /\ job = None
      /\ script' = SubmittedScript
      /\ locked' = [locked EXCEPT !.batch = env.batch]
      /\ \/ /\ diffs # {} /\ LoudCheck({"build", "pes"}) /\ job' = None
         \/ /\ diffs = {} /\ UNCHANGED <<complete, status>>
            /\ job' = IF complete /\ SubmittedScript # None
                      THEN [script |-> SubmittedScript, queue |-> env.batch,
                            checked |-> None, ran |-> None]
                      ELSE None
      /\ UNCHANGED <<env, smpBuild, lib, exe, build, edits, unchecked>>

\* _pre_run_check of the job, whenever the batch system starts it
RunRefused ==
  /\ job # None /\ job.checked = None
  /\ \/ LoudCheck(Files)
     \/ Diffs(Files) = {} /\ ~complete /\ UNCHANGED <<complete, status>>
  /\ job' = None
  /\ UNCHANGED <<env, smpBuild, locked, script, lib, exe, build, edits, unchecked>>

RunCheck ==
  /\ job # None /\ job.checked = None
  /\ Diffs(Files) = {} /\ complete
  /\ job' = [script |-> None, queue |-> None,
             checked |-> [opts |-> env.opts, late |-> FALSE], ran |-> None]
  /\ UNCHANGED <<env, complete, status, smpBuild, locked, script, lib, exe, build, edits, unchecked>>

\* After the environment, the namelists and the provenance: mpirun starts the
\* executable that is there then
RunStart ==
  /\ Underway /\ exe # None
  /\ job' = [job EXCEPT !.ran = [exe |-> exe,
                                 excused |-> "opts" \in unchecked \/ job.checked.late]]
  /\ UNCHANGED <<env, complete, status, smpBuild, locked, script, lib, exe, build, edits, unchecked>>

\* The model ends, or the job ends before it starts it
RunEnd ==
  /\ job # None /\ job.checked # None
  /\ job' = None
  /\ UNCHANGED <<env, complete, status, smpBuild, locked, script, lib, exe, build, edits, unchecked>>

Next ==
  \/ HandEdit \/ XmlChange
  \/ \E reset, fails \in BOOLEAN : Setup(reset, fails)
  \/ SetupClean
  \/ \E cleaned \in {Comps} \cup {{c} : c \in Comps} : Clean(cleaned)
  \/ CleanCache \/ BuildSkipped \/ BuildRefused
  \/ \E list \in {{}} \cup {{c} : c \in Comps} : BuildStart(list)
  \/ \E c \in Comps, o \in Outcomes : BuildThread(c, o)
  \/ BuildFails \/ BuildLinks \/ PostBuild
  \/ Submit \/ RunRefused \/ RunCheck \/ RunStart \/ RunEnd

Spec == Init /\ [][Next]_vars

--------------------------------------------------------------------------------
\* The type of every variable
TypeOK ==
  /\ env \in Envs /\ edits \in 0..MaxEdits /\ complete \in BOOLEAN /\ status \in {0, 1}
  /\ smpBuild \in BOOLEAN \cup {None}
  /\ locked \in [build : BuildLocks \cup {None}, pes : BOOLEAN \cup {None}, batch : Queues \cup {None}]
  /\ script \in Scripts \cup {None} /\ lib \in [Comps -> Opts \cup {None}]
  /\ exe \in {None} \cup SUBSET Opts /\ build \in Builds \cup {None} /\ job \in Jobs \cup {None}
  /\ job # None /\ job.checked = None => job.script \in Scripts /\ job.queue \in Queues
  /\ unchecked \subseteq {"opts", "tree"}

\* The model never runs an executable with objects of other compile-time
\* settings than those its job has checked, whatever is built and cleaned before
\* the check or between it and the start of the model, unless the settings were
\* changed in between or at a moment the locks cannot see: during a build, over
\* objects of an unfinished build, by hand before case.setup --reset or a clean
\* of one component or of the cache, or with a build tree that cannot be written
\* (locked_files.py, _build_checks, _pre_run_check and _run_model_impl together)
StaleBuildDetected ==
  job # None /\ job.ran # None /\ ~job.ran.excused => job.ran.exe = {job.checked.opts}

\* BUILD_COMPLETE stands for an executable with all its libraries, a locked
\* env_build.xml and a batch script, whatever setup, clean, partial or failed
\* build or refused check came in between, but for a tree that cannot be written
CompleteIsBacked ==
  complete /\ "tree" \notin unchecked =>
    /\ exe # None /\ \A c \in Comps : lib[c] # None
    /\ locked.build # None /\ script # None

\* A queued job carries the batch settings of the moment it was submitted,
\* though scripts are made by case.setup and settings changed afterwards
JobScriptFresh == job # None /\ job.checked = None => job.script.batch = job.queue

\* No job passes its checks while case.build is at work: a model that starts
\* during a build was checked before that build began (_pre_run_check, where
\* _build_checks has taken BUILD_COMPLETE away)
NoCheckDuringBuild ==
  [][job # None /\ job.checked = None /\ job' # None /\ job'.checked # None => build = None]_vars

\* BUILD_COMPLETE and the script of a job are never left from an earlier state
\* of the case, which keeps its types
BuildInv == TypeOK /\ CompleteIsBacked /\ JobScriptFresh
=============================================================================
