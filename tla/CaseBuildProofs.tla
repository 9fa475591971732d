--------------------------- MODULE CaseBuildProofs ---------------------------
(***************************************************************************)
(* What the locks and BUILD_COMPLETE guarantee, for any components,        *)
(* settings and edits.                                                     *)
(***************************************************************************)
EXTENDS CaseBuild, TLAPS

(***************************************************************************)
(* The inductive invariant                                                 *)
(***************************************************************************)
\* The script of a case has the locked batch settings
Scripted == script # None => locked.batch # None /\ script.batch = locked.batch

\* A build takes BUILD_COMPLETE away until it is done
Building ==
  build # None =>
    /\ ~complete /\ script # None
    /\ build.seen # None => exe # None /\ \A c \in Comps : lib[c] # None

\* The objects have the settings of the locked file, without one those of the
\* case, unless BUILD_STATUS asks for a clean
OptsAgree ==
  "opts" \notin unchecked =>
    /\ locked.build # None => \A c \in Comps : lib[c] # None => lib[c] = locked.build.opts
    /\ locked.build = None /\ status = 0 => \A c \in Comps : lib[c] # None => lib[c] = env.opts
    /\ complete => exe = {locked.build.opts}
    /\ build # None =>
         /\ build.opts = env.opts /\ \A c \in Comps : lib[c] # None => lib[c] = env.opts
         /\ locked.build # None => locked.build.opts = env.opts
         /\ build.seen # None => exe = {env.opts}

\* Only an executable of the settings a job has seen can take the place of the
\* one it was checked with
CheckedAgree ==
  /\ "tree" \in unchecked => "opts" \in unchecked
  /\ Underway /\ ~job.checked.late =>
       /\ job.checked.opts = env.opts
       /\ exe # None /\ "opts" \notin unchecked => exe = {env.opts}

IInv == TypeOK /\ CompleteIsBacked /\ JobScriptFresh /\ Scripted /\ Building /\ OptsAgree
          /\ CheckedAgree /\ StaleBuildDetected

LEMMA InitIInv == ASSUME Init PROVE IInv
<1>1. TypeOK
  <2>1. env \in Envs /\ edits \in 0..MaxEdits
    BY NumbersAssumption DEF Init, Envs
  <2>2. complete \in BOOLEAN /\ status \in {0, 1}
    BY NumbersAssumption, NoneAssumption DEF Init, Envs
  <2>3. smpBuild \in BOOLEAN \cup {None}
    BY DEF Init
  <2>4. locked \in [build : BuildLocks \cup {None}, pes : BOOLEAN \cup {None}, batch : Queues \cup {None}]
    BY DEF Init
  <2>5. script \in Scripts \cup {None} /\ lib \in [Comps -> Opts \cup {None}]
    BY DEF Init
  <2>6. exe \in {None} \cup SUBSET Opts /\ unchecked \subseteq {"opts", "tree"}
    BY DEF Init
  <2>7. build \in Builds \cup {None}
    BY DEF Init
  <2>8. job \in Jobs \cup {None}
    BY DEF Init
  <2>9. job # None /\ job.checked = None => job.script \in Scripts /\ job.queue \in Queues
    BY DEF Init
  <2> QED BY <2>1, <2>2, <2>3, <2>4, <2>5, <2>6, <2>7, <2>8, <2>9 DEF TypeOK
<1>2. /\ CompleteIsBacked /\ JobScriptFresh /\ Scripted /\ Building
      /\ OptsAgree /\ CheckedAgree /\ StaleBuildDetected
  BY DEF Init, CompleteIsBacked, JobScriptFresh, Scripted, Building, OptsAgree,
       CheckedAgree, Underway, StaleBuildDetected
<1> QED BY <1>1, <1>2 DEF IInv

\* An edit leaves the job as it is, but for what it knows of its settings
LEMMA JobAfterEdit ==
  ASSUME TypeOK, NEW new \in Envs, job' = JobAfter(new)
  PROVE  /\ job' \in Jobs \cup {None} /\ (job' = None <=> job = None)
         /\ job # None => /\ job'.script = job.script /\ job'.queue = job.queue /\ job'.ran = job.ran
                          /\ job'.checked = None <=> job.checked = None
         /\ job # None /\ job.ran # None => job' = job
         /\ Underway => /\ job'.checked.opts = job.checked.opts
                        /\ ~job'.checked.late => ~job.checked.late /\ new.opts = env.opts
<1>1. CASE Underway /\ new.opts # env.opts
  <2>1. job \in Jobs /\ job.checked \in Checks
    BY <1>1 DEF TypeOK, Underway, Jobs
  <2>2. job' = [job EXCEPT !.checked.late = TRUE]
    BY <1>1 DEF JobAfter
  <2>3. /\ job' \in Jobs /\ job'.checked \in Checks /\ job'.checked.opts = job.checked.opts
        /\ job'.checked.late = TRUE
        /\ job'.script = job.script /\ job'.queue = job.queue /\ job'.ran = job.ran
    BY <2>1, <2>2 DEF Jobs, Checks
  <2> QED BY <1>1, <2>1, <2>3, NoneAssumption DEF Underway
<1>2. CASE ~(Underway /\ new.opts # env.opts)
  BY <1>2 DEF JobAfter, TypeOK, Underway
<1> QED BY <1>1, <1>2

LEMMA HandEditKeeps == ASSUME IInv, HandEdit PROVE IInv'
<1>0. /\ env' \in Envs
      /\ job' \in Jobs \cup {None} /\ (job' = None <=> job = None)
      /\ job # None => /\ job'.script = job.script /\ job'.queue = job.queue /\ job'.ran = job.ran
                       /\ job'.checked = None <=> job.checked = None
      /\ job # None /\ job.ran # None => job' = job
      /\ Underway => /\ job'.checked.opts = job.checked.opts
                     /\ ~job'.checked.late => ~job.checked.late /\ env'.opts = env.opts
  <2>1. env' \in Envs /\ job' = JobAfter(env') /\ TypeOK
    BY DEF IInv, HandEdit, Edited
  <2> QED BY <2>1, JobAfterEdit
<1>1. TypeOK'
  <2>1. (env \in Envs /\ edits \in 0..MaxEdits)'
    BY NumbersAssumption DEF IInv, TypeOK, HandEdit, Edited, Envs
  <2>2. (complete \in BOOLEAN /\ status \in {0, 1})'
    BY DEF IInv, TypeOK, HandEdit
  <2>3. (smpBuild \in BOOLEAN \cup {None})'
    BY DEF IInv, TypeOK, HandEdit
  <2>4. (locked \in [build : BuildLocks \cup {None}, pes : BOOLEAN \cup {None}, batch : Queues \cup {None}])'
    BY DEF IInv, TypeOK, HandEdit
  <2>5. (script \in Scripts \cup {None} /\ lib \in [Comps -> Opts \cup {None}])'
    BY DEF IInv, TypeOK, HandEdit
  <2>6. (exe \in {None} \cup SUBSET Opts /\ unchecked \subseteq {"opts", "tree"})'
    BY NoneAssumption, NumbersAssumption DEF IInv, TypeOK, HandEdit, Edited, Unseen, Envs,
         Scripts, BuildLocks, Seen, Builds, Checks, Runs, Jobs, CompleteIsBacked
  <2>7. (build \in Builds \cup {None})'
    BY DEF IInv, TypeOK, HandEdit
  <2>8. (job \in Jobs \cup {None})'
    BY <1>0
  <2>9. (job # None /\ job.checked = None => job.script \in Scripts /\ job.queue \in Queues)'
    BY <1>0 DEF IInv, TypeOK
  <2> QED BY <2>1, <2>2, <2>3, <2>4, <2>5, <2>6, <2>7, <2>8, <2>9 DEF TypeOK
<1>2. CompleteIsBacked'
  BY DEF IInv, CompleteIsBacked, HandEdit
<1>3. JobScriptFresh'
  BY <1>0 DEF IInv, JobScriptFresh
<1>4. Scripted'
  BY DEF IInv, Scripted, HandEdit
<1>5. Building'
  BY DEF IInv, Building, HandEdit
<1>6. OptsAgree'
  BY DEF IInv, OptsAgree, HandEdit, Unseen
<1>7. StaleBuildDetected'
  BY <1>0 DEF IInv, StaleBuildDetected
<1>8. CheckedAgree'
  BY <1>0 DEF IInv, CheckedAgree, Underway, Unseen, HandEdit
<1> QED BY <1>1, <1>2, <1>3, <1>4, <1>5, <1>6, <1>7, <1>8 DEF IInv

LEMMA XmlChangeKeeps == ASSUME IInv, XmlChange PROVE IInv'
<1>0. /\ env' \in Envs
      /\ job' \in Jobs \cup {None} /\ (job' = None <=> job = None)
      /\ job # None => /\ job'.script = job.script /\ job'.queue = job.queue /\ job'.ran = job.ran
                       /\ job'.checked = None <=> job.checked = None
      /\ job # None /\ job.ran # None => job' = job
      /\ Underway => /\ job'.checked.opts = job.checked.opts
                     /\ ~job'.checked.late => ~job.checked.late /\ env'.opts = env.opts
  <2>1. env' \in Envs /\ job' = JobAfter(env') /\ TypeOK
    BY DEF IInv, XmlChange, Edited
  <2> QED BY <2>1, JobAfterEdit
<1>1. TypeOK'
  <2>1. (env \in Envs /\ edits \in 0..MaxEdits)'
    BY NumbersAssumption DEF IInv, TypeOK, XmlChange, Edited, Envs
  <2>2. (complete \in BOOLEAN /\ status \in {0, 1})'
    BY DEF IInv, TypeOK, XmlChange, CheckDiff
  <2>3. (smpBuild \in BOOLEAN \cup {None})'
    BY DEF IInv, TypeOK, XmlChange
  <2>4. (locked \in [build : BuildLocks \cup {None}, pes : BOOLEAN \cup {None}, batch : Queues \cup {None}])'
    BY DEF IInv, TypeOK, XmlChange
  <2>5. (script \in Scripts \cup {None} /\ lib \in [Comps -> Opts \cup {None}])'
    BY DEF IInv, TypeOK, XmlChange
  <2>6. (exe \in {None} \cup SUBSET Opts /\ unchecked \subseteq {"opts", "tree"})'
    BY NoneAssumption, NumbersAssumption DEF IInv, TypeOK, XmlChange, Edited, Unseen,
         CheckDiff, Envs, Scripts, BuildLocks, Seen, Builds, Checks, Runs, Jobs,
         CompleteIsBacked
  <2>7. (build \in Builds \cup {None})'
    BY DEF IInv, TypeOK, XmlChange
  <2>8. (job \in Jobs \cup {None})'
    BY <1>0
  <2>9. (job # None /\ job.checked = None => job.script \in Scripts /\ job.queue \in Queues)'
    BY <1>0 DEF IInv, TypeOK
  <2> QED BY <2>1, <2>2, <2>3, <2>4, <2>5, <2>6, <2>7, <2>8, <2>9 DEF TypeOK
<1>2. CompleteIsBacked'
  BY DEF IInv, TypeOK, CompleteIsBacked, XmlChange, CheckDiff
<1>3. JobScriptFresh'
  BY <1>0 DEF IInv, JobScriptFresh
<1>4. Scripted'
  BY DEF IInv, Scripted, XmlChange
<1>5. Building'
  BY DEF IInv, TypeOK, Building, XmlChange, CheckDiff
<1>6. OptsAgree'
  BY DEF IInv, TypeOK, OptsAgree, XmlChange, Unseen, CheckDiff
<1>7. StaleBuildDetected'
  BY <1>0 DEF IInv, StaleBuildDetected
<1>8. CheckedAgree'
  BY <1>0 DEF IInv, CheckedAgree, Underway, Unseen, XmlChange
<1> QED BY <1>1, <1>2, <1>3, <1>4, <1>5, <1>6, <1>7, <1>8 DEF IInv

LEMMA SetupKeeps == ASSUME IInv, NEW reset \in BOOLEAN, NEW fails \in BOOLEAN, Setup(reset, fails) PROVE IInv'
<1>1. TypeOK'
  BY DEF IInv, TypeOK, Setup, AfterReset, MakeScript, Envs, Scripts
<1>2. CompleteIsBacked'
  BY NoneAssumption, NumbersAssumption DEF IInv, TypeOK, CompleteIsBacked, Setup,
       AfterReset, MakeScript, Envs, Scripts, BuildLocks, Seen, Builds, Checks, Runs,
       Jobs, Building
<1>3. JobScriptFresh'
  BY DEF IInv, JobScriptFresh, Setup
<1>4. Scripted'
  BY NoneAssumption DEF IInv, TypeOK, Scripted, Setup, MakeScript, Envs
<1>5. Building'
  BY DEF IInv, Building, Setup
<1>6. OptsAgree'
  <2> SUFFICES ASSUME "opts" \notin unchecked' PROVE OptsAgree'
    BY DEF OptsAgree
  <2>1. /\ build' = None /\ lib' = lib /\ exe' = exe /\ status' = status /\ env'.opts = env.opts
        /\ "opts" \notin unchecked /\ "tree" \notin unchecked
    BY DEF IInv, TypeOK, Envs, Setup, CheckedAgree
  <2>2. complete' => complete /\ locked'.build = locked.build
    BY <2>1 DEF IInv, TypeOK, Setup, AfterReset, CompleteIsBacked
  <2>3. \/ locked'.build = locked.build
        \/ /\ locked'.build = None
           /\ locked.build # None /\ status = 0 => locked.build.opts = env.opts
    BY DEF IInv, TypeOK, Setup
  <2> QED BY <2>1, <2>2, <2>3 DEF IInv, OptsAgree
<1>7. StaleBuildDetected'
  BY DEF IInv, StaleBuildDetected, Setup
<1>8. CheckedAgree'
  BY DEF IInv, TypeOK, CheckedAgree, Underway, Setup
<1> QED BY <1>1, <1>2, <1>3, <1>4, <1>5, <1>6, <1>7, <1>8 DEF IInv

LEMMA SetupCleanKeeps == ASSUME IInv, SetupClean PROVE IInv'
<1>1. TypeOK'
  <2>1. (env \in Envs /\ edits \in 0..MaxEdits)'
    BY DEF IInv, TypeOK, SetupClean
  <2>2. (complete \in BOOLEAN /\ status \in {0, 1})'
    BY NoneAssumption, NumbersAssumption DEF IInv, TypeOK, SetupClean, Envs, Scripts,
         BuildLocks, Seen, Builds, Checks, Runs, Jobs, CompleteIsBacked
  <2>3. (smpBuild \in BOOLEAN \cup {None})'
    BY DEF IInv, TypeOK, SetupClean
  <2>4. (locked \in [build : BuildLocks \cup {None}, pes : BOOLEAN \cup {None}, batch : Queues \cup {None}])'
    BY DEF IInv, TypeOK, SetupClean
  <2>5. (script \in Scripts \cup {None} /\ lib \in [Comps -> Opts \cup {None}])'
    BY DEF IInv, TypeOK, SetupClean
  <2>6. (exe \in {None} \cup SUBSET Opts /\ unchecked \subseteq {"opts", "tree"})'
    BY DEF IInv, TypeOK, SetupClean
  <2>7. (build \in Builds \cup {None})'
    BY DEF IInv, SetupClean
  <2>8. (job \in Jobs \cup {None})'
    BY DEF IInv, TypeOK, SetupClean
  <2>9. (job # None /\ job.checked = None => job.script \in Scripts /\ job.queue \in Queues)'
    BY DEF IInv, TypeOK, SetupClean
  <2> QED BY <2>1, <2>2, <2>3, <2>4, <2>5, <2>6, <2>7, <2>8, <2>9 DEF TypeOK
<1>2. CompleteIsBacked'
  BY DEF IInv, CompleteIsBacked, SetupClean
<1>3. JobScriptFresh'
  BY DEF IInv, JobScriptFresh, SetupClean
<1>4. Scripted'
  BY DEF IInv, Scripted, SetupClean
<1>5. Building'
  BY DEF IInv, Building, SetupClean
<1>6. OptsAgree'
  BY DEF IInv, OptsAgree, SetupClean
<1>7. StaleBuildDetected'
  BY DEF IInv, StaleBuildDetected, SetupClean
<1>8. CheckedAgree'
  BY DEF IInv, TypeOK, CheckedAgree, Underway, SetupClean
<1> QED BY <1>1, <1>2, <1>3, <1>4, <1>5, <1>6, <1>7, <1>8 DEF IInv

LEMMA CleanKeeps == ASSUME IInv, NEW cleaned \in SUBSET Comps, Clean(cleaned) PROVE IInv'
<1>1. TypeOK'
  <2>1. /\ lib' \in [Comps -> Opts \cup {None}] /\ exe' \in {None} \cup SUBSET Opts
        /\ locked' \in [build : BuildLocks \cup {None}, pes : BOOLEAN \cup {None}, batch : Queues \cup {None}]
    BY DEF IInv, TypeOK, Clean
  <2>2. status' \in {0, 1} /\ complete' \in BOOLEAN /\ smpBuild' \in BOOLEAN \cup {None}
    BY DEF Clean
  <2>3. unchecked' \subseteq {"opts", "tree"}
    BY DEF IInv, TypeOK, Clean
  <2> QED BY <2>1, <2>2, <2>3 DEF IInv, TypeOK, Clean
<1>2. CompleteIsBacked'
  BY DEF IInv, CompleteIsBacked, Clean
<1>3. JobScriptFresh'
  BY DEF IInv, JobScriptFresh, Clean
<1>4. Scripted'
  BY DEF IInv, Scripted, Clean
<1>5. Building'
  BY DEF IInv, Building, Clean
<1>6. OptsAgree'
  BY DEF IInv, OptsAgree, Clean
<1>7. StaleBuildDetected'
  BY DEF IInv, StaleBuildDetected, Clean
<1>8. CheckedAgree'
  BY DEF IInv, TypeOK, CheckedAgree, Underway, Clean
<1> QED BY <1>1, <1>2, <1>3, <1>4, <1>5, <1>6, <1>7, <1>8 DEF IInv

LEMMA CleanCacheKeeps == ASSUME IInv, CleanCache PROVE IInv'
<1>1. TypeOK'
  BY DEF IInv, TypeOK, CleanCache
<1>2. CompleteIsBacked'
  BY DEF IInv, CompleteIsBacked, CleanCache
<1>3. JobScriptFresh'
  BY DEF IInv, JobScriptFresh, CleanCache
<1>4. Scripted'
  BY DEF IInv, TypeOK, Scripted, CleanCache
<1>5. Building'
  BY DEF IInv, Building, CleanCache
<1>6. OptsAgree'
  BY DEF IInv, TypeOK, OptsAgree, CleanCache
<1>7. StaleBuildDetected'
  BY DEF IInv, StaleBuildDetected, CleanCache
<1>8. CheckedAgree'
  BY DEF IInv, CheckedAgree, Underway, CleanCache
<1> QED BY <1>1, <1>2, <1>3, <1>4, <1>5, <1>6, <1>7, <1>8 DEF IInv

LEMMA BuildSkippedKeeps == ASSUME IInv, BuildSkipped PROVE IInv'
<1>1. TypeOK'
  BY DEF IInv, TypeOK, BuildSkipped, LockedBuild, Content, Envs, BuildLocks
<1>2. CompleteIsBacked'
  BY DEF CompleteIsBacked, BuildSkipped
<1>3. JobScriptFresh'
  BY DEF IInv, JobScriptFresh, BuildSkipped
<1>4. Scripted'
  BY DEF IInv, TypeOK, Scripted, BuildSkipped
<1>5. Building'
  BY DEF IInv, Building, BuildSkipped
<1>6. OptsAgree'
  BY DEF OptsAgree, BuildSkipped
<1>7. StaleBuildDetected'
  BY DEF IInv, StaleBuildDetected, BuildSkipped
<1>8. CheckedAgree'
  BY DEF IInv, CheckedAgree, Underway, BuildSkipped
<1> QED BY <1>1, <1>2, <1>3, <1>4, <1>5, <1>6, <1>7, <1>8 DEF IInv

LEMMA BuildRefusedKeeps == ASSUME IInv, BuildRefused PROVE IInv'
<1>1. TypeOK'
  BY DEF IInv, TypeOK, BuildRefused, LoudCheck, CheckDiff
<1>2. CompleteIsBacked'
  BY DEF IInv, TypeOK, CompleteIsBacked, BuildRefused, LoudCheck, CheckDiff
<1>3. JobScriptFresh'
  BY DEF IInv, JobScriptFresh, BuildRefused
<1>4. Scripted'
  BY DEF IInv, Scripted, BuildRefused
<1>5. Building'
  BY DEF IInv, Building, BuildRefused
<1>6. OptsAgree'
  BY DEF IInv, TypeOK, OptsAgree, BuildRefused, LoudCheck, CheckDiff
<1>7. StaleBuildDetected'
  BY DEF IInv, StaleBuildDetected, BuildRefused
<1>8. CheckedAgree'
  BY DEF IInv, TypeOK, CheckedAgree, Underway, BuildRefused
<1> QED BY <1>1, <1>2, <1>3, <1>4, <1>5, <1>6, <1>7, <1>8 DEF IInv

LEMMA BuildStartKeeps == ASSUME IInv, NEW list \in SUBSET Comps, BuildStart(list) PROVE IInv'
<1>1. TypeOK'
  <2>1. (env \in Envs /\ edits \in 0..MaxEdits)'
    BY DEF IInv, TypeOK, BuildStart
  <2>2. (complete \in BOOLEAN /\ status \in {0, 1})'
    BY NoneAssumption, NumbersAssumption DEF IInv, TypeOK, BuildStart, Diffs, Content,
         CleanEnough, UnsetComplete, Envs, Scripts, BuildLocks, Seen, Builds,
         Checks, Runs, Jobs, CompleteIsBacked
  <2>3. (smpBuild \in BOOLEAN \cup {None})'
    BY DEF IInv, TypeOK, BuildStart
  <2>4. (locked \in [build : BuildLocks \cup {None}, pes : BOOLEAN \cup {None}, batch : Queues \cup {None}])'
    BY DEF IInv, TypeOK, BuildStart
  <2>5. (script \in Scripts \cup {None} /\ lib \in [Comps -> Opts \cup {None}])'
    BY DEF IInv, TypeOK, BuildStart
  <2>6. (exe \in {None} \cup SUBSET Opts /\ unchecked \subseteq {"opts", "tree"})'
    BY DEF IInv, TypeOK, BuildStart
  <2>7. (build \in Builds \cup {None})'
    BY DEF IInv, TypeOK, BuildStart, Envs, Builds
  <2>8. (job \in Jobs \cup {None})'
    BY DEF IInv, TypeOK, BuildStart
  <2>9. (job # None /\ job.checked = None => job.script \in Scripts /\ job.queue \in Queues)'
    BY DEF IInv, TypeOK, BuildStart
  <2> QED BY <2>1, <2>2, <2>3, <2>4, <2>5, <2>6, <2>7, <2>8, <2>9 DEF TypeOK
<1>2. CompleteIsBacked'
  BY DEF IInv, CompleteIsBacked, BuildStart, UnsetComplete
<1>3. JobScriptFresh'
  BY DEF IInv, JobScriptFresh, BuildStart
<1>4. Scripted'
  BY DEF IInv, Scripted, BuildStart
<1>5. Building'
  BY DEF IInv, Building, BuildStart, UnsetComplete
<1>6. OptsAgree'
  BY DEF IInv, OptsAgree, BuildStart, Diffs, Content, CleanEnough, UnsetComplete
<1>7. StaleBuildDetected'
  BY DEF IInv, StaleBuildDetected, BuildStart
<1>8. CheckedAgree'
  BY DEF IInv, TypeOK, CheckedAgree, Underway, BuildStart
<1> QED BY <1>1, <1>2, <1>3, <1>4, <1>5, <1>6, <1>7, <1>8 DEF IInv

LEMMA BuildThreadKeeps == ASSUME IInv, NEW c \in Comps, NEW outcome \in Outcomes, BuildThread(c, outcome) PROVE IInv'
<1>1. TypeOK'
  <2>1. (env \in Envs /\ edits \in 0..MaxEdits)'
    BY DEF IInv, TypeOK, BuildThread
  <2>2. (complete \in BOOLEAN /\ status \in {0, 1})'
    BY DEF IInv, TypeOK, BuildThread
  <2>3. (smpBuild \in BOOLEAN \cup {None})'
    BY DEF IInv, TypeOK, BuildThread
  <2>4. (locked \in [build : BuildLocks \cup {None}, pes : BOOLEAN \cup {None}, batch : Queues \cup {None}])'
    BY DEF IInv, TypeOK, BuildThread
  <2>5. (script \in Scripts \cup {None} /\ lib \in [Comps -> Opts \cup {None}])'
    BY DEF IInv, TypeOK, BuildThread, Scripts, Builds
  <2>6. (exe \in {None} \cup SUBSET Opts /\ unchecked \subseteq {"opts", "tree"})'
    BY DEF IInv, TypeOK, BuildThread
  <2>7. (build \in Builds \cup {None})'
    BY NoneAssumption, NumbersAssumption DEF IInv, TypeOK, BuildThread, Envs, Scripts,
         BuildLocks, Seen, Builds, Checks, Runs, Jobs, CompleteIsBacked
  <2>8. (job \in Jobs \cup {None})'
    BY DEF IInv, TypeOK, BuildThread
  <2>9. (job # None /\ job.checked = None => job.script \in Scripts /\ job.queue \in Queues)'
    BY DEF IInv, TypeOK, BuildThread
  <2> QED BY <2>1, <2>2, <2>3, <2>4, <2>5, <2>6, <2>7, <2>8, <2>9 DEF TypeOK
<1>2. CompleteIsBacked'
  BY DEF IInv, CompleteIsBacked, BuildThread
<1>3. JobScriptFresh'
  BY DEF IInv, JobScriptFresh, BuildThread
<1>4. Scripted'
  BY DEF IInv, Scripted, BuildThread
<1>5. Building'
  BY DEF IInv, Building, BuildThread
<1>6. OptsAgree'
  BY DEF IInv, OptsAgree, BuildThread
<1>7. StaleBuildDetected'
  BY DEF IInv, StaleBuildDetected, BuildThread
<1>8. CheckedAgree'
  BY DEF IInv, TypeOK, CheckedAgree, Underway, BuildThread
<1> QED BY <1>1, <1>2, <1>3, <1>4, <1>5, <1>6, <1>7, <1>8 DEF IInv

LEMMA BuildFailsKeeps == ASSUME IInv, BuildFails PROVE IInv'
<1>1. TypeOK'
  BY DEF IInv, TypeOK, BuildFails
<1>2. CompleteIsBacked'
  BY DEF IInv, CompleteIsBacked, BuildFails
<1>3. JobScriptFresh'
  BY DEF IInv, JobScriptFresh, BuildFails
<1>4. Scripted'
  BY DEF IInv, Scripted, BuildFails
<1>5. Building'
  BY DEF IInv, Building, BuildFails
<1>6. OptsAgree'
  BY DEF IInv, OptsAgree, BuildFails
<1>7. StaleBuildDetected'
  BY DEF IInv, StaleBuildDetected, BuildFails
<1>8. CheckedAgree'
  BY DEF IInv, TypeOK, CheckedAgree, Underway, BuildFails
<1> QED BY <1>1, <1>2, <1>3, <1>4, <1>5, <1>6, <1>7, <1>8 DEF IInv

LEMMA BuildLinksKeeps == ASSUME IInv, BuildLinks PROVE IInv'
<1>1. TypeOK'
  BY DEF IInv, TypeOK, BuildLinks, Seen, Builds
<1>2. CompleteIsBacked'
  BY DEF IInv, CompleteIsBacked, BuildLinks, Building
<1>3. JobScriptFresh'
  BY DEF IInv, JobScriptFresh, BuildLinks
<1>4. Scripted'
  BY DEF IInv, Scripted, BuildLinks
<1>5. Building'
  BY NoneAssumption DEF IInv, TypeOK, Building, BuildLinks
<1>6. "opts" \notin unchecked => exe' = {env.opts} /\ OptsAgree'
  <2> SUFFICES ASSUME "opts" \notin unchecked PROVE exe' = {env.opts} /\ OptsAgree'
    OBVIOUS
  <2>1. /\ build # None /\ ~complete
        /\ build.opts = env.opts /\ \A c \in Comps : lib[c] # None /\ lib[c] = env.opts
        /\ locked.build # None => locked.build.opts = env.opts
    BY DEF IInv, Building, OptsAgree, BuildLinks
  <2>3. exe' = {lib[c] : c \in Comps}
    BY DEF BuildLinks
  <2>4. {lib[c] : c \in Comps} = {env.opts}
    BY <2>1, CompsAssumption
  <2>5. build'.opts = build.opts
    BY DEF IInv, BuildLinks
  <2> QED BY <2>1, <2>3, <2>4, <2>5 DEF IInv, OptsAgree, BuildLinks
<1>7. StaleBuildDetected'
  BY DEF IInv, StaleBuildDetected, BuildLinks
<1>8. CheckedAgree'
  BY <1>6 DEF IInv, CheckedAgree, Underway, BuildLinks
<1>9. OptsAgree'
  BY <1>6 DEF OptsAgree, BuildLinks
<1> QED BY <1>1, <1>2, <1>3, <1>4, <1>5, <1>7, <1>8, <1>9 DEF IInv

LEMMA PostBuildKeeps == ASSUME IInv, PostBuild PROVE IInv'
<1>1. TypeOK'
  <2>1. (env \in Envs /\ edits \in 0..MaxEdits)'
    BY DEF IInv, TypeOK, PostBuild
  <2>2. (complete \in BOOLEAN /\ status \in {0, 1})'
    BY NoneAssumption, NumbersAssumption DEF IInv, TypeOK, PostBuild, LockedBuild,
         Content, Envs, Scripts, BuildLocks, Seen, Builds, Checks, Runs, Jobs,
         CompleteIsBacked
  <2>3. (smpBuild \in BOOLEAN \cup {None})'
    BY DEF IInv, TypeOK, PostBuild, Builds
  <2>4. (locked \in [build : BuildLocks \cup {None}, pes : BOOLEAN \cup {None}, batch : Queues \cup {None}])'
    BY DEF IInv, TypeOK, PostBuild, LockedBuild, Content, Envs, BuildLocks
  <2>5. (script \in Scripts \cup {None} /\ lib \in [Comps -> Opts \cup {None}])'
    BY DEF IInv, TypeOK, PostBuild
  <2>6. (exe \in {None} \cup SUBSET Opts /\ unchecked \subseteq {"opts", "tree"})'
    BY DEF IInv, TypeOK, PostBuild
  <2>7. (build \in Builds \cup {None})'
    BY DEF IInv, PostBuild
  <2>8. (job \in Jobs \cup {None})'
    BY DEF IInv, TypeOK, PostBuild
  <2>9. (job # None /\ job.checked = None => job.script \in Scripts /\ job.queue \in Queues)'
    BY DEF IInv, TypeOK, PostBuild
  <2> QED BY <2>1, <2>2, <2>3, <2>4, <2>5, <2>6, <2>7, <2>8, <2>9 DEF TypeOK
<1>2. CompleteIsBacked'
  <2>1. exe' = exe /\ lib' = lib /\ script' = script
    BY DEF PostBuild
  <2>2. script # None /\ exe # None /\ (\A c \in Comps : lib[c] # None) /\ ~complete
    BY DEF IInv, Building, PostBuild
  <2>3. LockedBuild # None
    BY NoneAssumption DEF IInv, TypeOK, Envs, LockedBuild, Content, BuildLocks
  <2>4. complete' => locked'.build # None
    BY <2>2, <2>3 DEF PostBuild, IInv, TypeOK
  <2> QED BY <2>1, <2>2, <2>4 DEF CompleteIsBacked
<1>3. JobScriptFresh'
  BY DEF IInv, JobScriptFresh, PostBuild
<1>4. Scripted'
  BY DEF IInv, TypeOK, Scripted, PostBuild
<1>5. Building'
  BY DEF IInv, Building, PostBuild
<1>6. OptsAgree'
  BY DEF IInv, TypeOK, OptsAgree, PostBuild, LockedBuild, Content
<1>7. StaleBuildDetected'
  BY DEF IInv, StaleBuildDetected, PostBuild
<1>8. CheckedAgree'
  BY DEF IInv, TypeOK, CheckedAgree, Underway, PostBuild
<1> QED BY <1>1, <1>2, <1>3, <1>4, <1>5, <1>6, <1>7, <1>8 DEF IInv

LEMMA SubmitKeeps == ASSUME IInv, Submit PROVE IInv'
<1>1. TypeOK'
  <2>1. (env \in Envs /\ edits \in 0..MaxEdits)'
    BY DEF IInv, TypeOK, Submit
  <2>2. (complete \in BOOLEAN /\ status \in {0, 1})'
    BY NoneAssumption, NumbersAssumption DEF IInv, TypeOK, Submit, SubmittedScript,
         MakeScript, Diffs, Content, LoudCheck, CheckDiff, Envs, Scripts,
         BuildLocks, Seen, Builds, Checks, Runs, Jobs, CompleteIsBacked
  <2>3. (smpBuild \in BOOLEAN \cup {None})'
    BY DEF IInv, TypeOK, Submit
  <2>4. (locked \in [build : BuildLocks \cup {None}, pes : BOOLEAN \cup {None}, batch : Queues \cup {None}])'
    BY DEF IInv, TypeOK, Submit, Envs, BuildLocks
  <2>5. (script \in Scripts \cup {None} /\ lib \in [Comps -> Opts \cup {None}])'
    BY DEF IInv, TypeOK, Submit, SubmittedScript, MakeScript, Envs, Scripts
  <2>6. (exe \in {None} \cup SUBSET Opts /\ unchecked \subseteq {"opts", "tree"})'
    BY DEF IInv, TypeOK, Submit
  <2>7. (build \in Builds \cup {None})'
    BY DEF IInv, Submit
  <2>8. (job \in Jobs \cup {None})'
    BY DEF IInv, TypeOK, Submit, SubmittedScript, MakeScript, Envs, Scripts, Jobs
  <2>9. (job # None /\ job.checked = None => job.script \in Scripts /\ job.queue \in Queues)'
    BY DEF IInv, TypeOK, Submit, SubmittedScript, MakeScript, Envs, Scripts,
         CompleteIsBacked
  <2> QED BY <2>1, <2>2, <2>3, <2>4, <2>5, <2>6, <2>7, <2>8, <2>9 DEF TypeOK
<1>2. CompleteIsBacked'
  <2>1. complete' => complete
    BY DEF Submit, LoudCheck, CheckDiff
  <2>2. MakeScript # None
    BY NoneAssumption DEF IInv, TypeOK, Envs, MakeScript, Scripts
  <2>3. script # None => script' # None
    BY <2>2 DEF Submit, SubmittedScript
  <2>4. locked'.build = locked.build /\ lib' = lib /\ exe' = exe
    BY DEF IInv, Submit
  <2> QED BY <2>1, <2>3, <2>4 DEF IInv, CompleteIsBacked, Submit
<1>3. JobScriptFresh'
  BY DEF IInv, JobScriptFresh, Submit, SubmittedScript, MakeScript, Diffs, Content,
       Scripted, CompleteIsBacked
<1>4. Scripted'
  BY NoneAssumption DEF IInv, TypeOK, Scripted, Submit, SubmittedScript, MakeScript,
       Diffs, Content, Envs
<1>5. Building'
  BY DEF IInv, Building, Submit
<1>6. OptsAgree'
  BY DEF IInv, TypeOK, OptsAgree, Submit, LoudCheck, CheckDiff
<1>7. StaleBuildDetected'
  BY DEF IInv, StaleBuildDetected, Submit
<1>8. CheckedAgree'
  BY DEF IInv, TypeOK, CheckedAgree, Underway, Submit
<1> QED BY <1>1, <1>2, <1>3, <1>4, <1>5, <1>6, <1>7, <1>8 DEF IInv

LEMMA RunRefusedKeeps == ASSUME IInv, RunRefused PROVE IInv'
<1>1. TypeOK'
  <2>1. (env \in Envs /\ edits \in 0..MaxEdits)'
    BY DEF IInv, TypeOK, RunRefused
  <2>2. (complete \in BOOLEAN /\ status \in {0, 1})'
    BY NoneAssumption, NumbersAssumption DEF IInv, TypeOK, RunRefused, LoudCheck,
         CheckDiff, Envs, Scripts, BuildLocks, Seen, Builds, Checks, Runs, Jobs,
         CompleteIsBacked
  <2>3. (smpBuild \in BOOLEAN \cup {None})'
    BY DEF IInv, TypeOK, RunRefused
  <2>4. (locked \in [build : BuildLocks \cup {None}, pes : BOOLEAN \cup {None}, batch : Queues \cup {None}])'
    BY DEF IInv, TypeOK, RunRefused
  <2>5. (script \in Scripts \cup {None} /\ lib \in [Comps -> Opts \cup {None}])'
    BY DEF IInv, TypeOK, RunRefused
  <2>6. (exe \in {None} \cup SUBSET Opts /\ unchecked \subseteq {"opts", "tree"})'
    BY DEF IInv, TypeOK, RunRefused
  <2>7. (build \in Builds \cup {None})'
    BY DEF IInv, TypeOK, RunRefused
  <2>8. (job \in Jobs \cup {None})'
    BY DEF IInv, RunRefused
  <2>9. (job # None /\ job.checked = None => job.script \in Scripts /\ job.queue \in Queues)'
    BY DEF IInv, RunRefused
  <2> QED BY <2>1, <2>2, <2>3, <2>4, <2>5, <2>6, <2>7, <2>8, <2>9 DEF TypeOK
<1>2. CompleteIsBacked'
  BY NoneAssumption, NumbersAssumption DEF IInv, TypeOK, CompleteIsBacked, RunRefused,
       LoudCheck, CheckDiff, Envs, Scripts, BuildLocks, Seen, Builds, Checks, Runs,
       Jobs, Building
<1>3. JobScriptFresh'
  BY DEF IInv, JobScriptFresh, RunRefused
<1>4. Scripted'
  BY DEF IInv, Scripted, RunRefused
<1>5. Building'
  BY DEF IInv, TypeOK, Building, RunRefused, LoudCheck, CheckDiff
<1>6. OptsAgree'
  BY DEF IInv, TypeOK, OptsAgree, RunRefused, LoudCheck, CheckDiff
<1>7. StaleBuildDetected'
  BY DEF IInv, StaleBuildDetected, RunRefused
<1>8. CheckedAgree'
  BY DEF IInv, TypeOK, CheckedAgree, Underway, RunRefused
<1> QED BY <1>1, <1>2, <1>3, <1>4, <1>5, <1>6, <1>7, <1>8 DEF IInv

LEMMA RunCheckKeeps == ASSUME IInv, RunCheck PROVE IInv'
<1>0. job' \in Jobs /\ job' # None /\ job'.checked # None
  <2> DEFINE seen == [opts |-> env.opts, late |-> FALSE]
  <2>1. seen \in Checks
    BY DEF IInv, TypeOK, Envs, Checks
  <2>2. job' = [script |-> None, queue |-> None, checked |-> seen, ran |-> None]
    BY DEF RunCheck
  <2> HIDE DEF seen
  <2>3. job' \in Jobs /\ job'.checked = seen
    BY <2>1, <2>2 DEF Jobs
  <2> QED BY <2>1, <2>3, NoneAssumption
<1>1. TypeOK'
  BY <1>0 DEF IInv, TypeOK, RunCheck
<1>2. CompleteIsBacked'
  BY DEF IInv, CompleteIsBacked, RunCheck
<1>3. JobScriptFresh'
  BY <1>0 DEF JobScriptFresh
<1>4. Scripted'
  BY DEF IInv, Scripted, RunCheck
<1>5. Building'
  BY DEF IInv, Building, RunCheck
<1>6. OptsAgree'
  BY DEF IInv, OptsAgree, RunCheck
<1>7. StaleBuildDetected'
  BY DEF IInv, StaleBuildDetected, RunCheck
<1>8. CheckedAgree'
  BY DEF IInv, TypeOK, CheckedAgree, Underway, RunCheck, Diffs, Content, Files, OptsAgree,
       CompleteIsBacked
<1> QED BY <1>1, <1>2, <1>3, <1>4, <1>5, <1>6, <1>7, <1>8 DEF IInv

LEMMA RunStartKeeps == ASSUME IInv, RunStart PROVE IInv'
<1>0. /\ job' \in Jobs /\ job'.checked = job.checked /\ job'.script = job.script
      /\ job'.ran.exe = exe
      /\ ~job'.ran.excused => "opts" \notin unchecked /\ ~job.checked.late
  <2> DEFINE run == [exe |-> exe, excused |-> "opts" \in unchecked \/ job.checked.late]
  <2>1. job \in Jobs /\ job.checked \in Checks
    BY DEF IInv, TypeOK, RunStart, Underway, Jobs
  <2>2. run \in Runs
    BY <2>1 DEF IInv, TypeOK, RunStart, Checks, Runs
  <2>3. job' = [job EXCEPT !.ran = run]
    BY DEF RunStart
  <2> HIDE DEF run
  <2>4. job' \in Jobs /\ job'.checked = job.checked /\ job'.script = job.script /\ job'.ran = run
    BY <2>1, <2>2, <2>3 DEF Jobs
  <2>5. run.exe = exe /\ (~run.excused => "opts" \notin unchecked /\ ~job.checked.late)
    BY <2>1 DEF run
  <2> QED BY <2>4, <2>5
<1>1. TypeOK'
  BY <1>0, NoneAssumption DEF IInv, TypeOK, RunStart, Underway
<1>2. CompleteIsBacked'
  BY DEF IInv, CompleteIsBacked, RunStart
<1>3. JobScriptFresh'
  BY <1>0, NoneAssumption DEF JobScriptFresh, RunStart, Underway
<1>4. Scripted'
  BY DEF IInv, Scripted, RunStart
<1>5. Building'
  BY DEF IInv, Building, RunStart
<1>6. OptsAgree'
  BY DEF IInv, OptsAgree, RunStart
<1>7. StaleBuildDetected'
  BY <1>0 DEF IInv, StaleBuildDetected, RunStart, CheckedAgree
<1>8. CheckedAgree'
  BY <1>0, NoneAssumption DEF IInv, CheckedAgree, Underway, RunStart
<1> QED BY <1>1, <1>2, <1>3, <1>4, <1>5, <1>6, <1>7, <1>8 DEF IInv

LEMMA RunEndKeeps == ASSUME IInv, RunEnd PROVE IInv'
<1>1. TypeOK'
  BY DEF IInv, TypeOK, RunEnd
<1>2. CompleteIsBacked'
  BY DEF IInv, CompleteIsBacked, RunEnd
<1>3. JobScriptFresh'
  BY DEF IInv, JobScriptFresh, RunEnd
<1>4. Scripted'
  BY DEF IInv, Scripted, RunEnd
<1>5. Building'
  BY DEF IInv, Building, RunEnd
<1>6. OptsAgree'
  BY DEF IInv, OptsAgree, RunEnd
<1>7. StaleBuildDetected'
  BY DEF IInv, StaleBuildDetected, RunEnd
<1>8. CheckedAgree'
  BY DEF IInv, TypeOK, CheckedAgree, Underway, RunEnd
<1> QED BY <1>1, <1>2, <1>3, <1>4, <1>5, <1>6, <1>7, <1>8 DEF IInv

LEMMA NextKeeps == ASSUME IInv, [Next]_vars PROVE IInv'
<1>1. CASE UNCHANGED vars
  BY <1>1 DEF vars, IInv, TypeOK, CompleteIsBacked, JobScriptFresh, Scripted, Building,
       OptsAgree, CheckedAgree, Underway, StaleBuildDetected
<1> QED BY <1>1, HandEditKeeps, XmlChangeKeeps, SetupKeeps, SetupCleanKeeps, CleanKeeps,
     CleanCacheKeeps, BuildSkippedKeeps, RunCheckKeeps, BuildRefusedKeeps, BuildStartKeeps, BuildThreadKeeps, BuildFailsKeeps,
     BuildLinksKeeps, PostBuildKeeps, SubmitKeeps, RunRefusedKeeps, RunStartKeeps,
     RunEndKeeps DEF Next

\* Nothing of an earlier state of the case is taken for complete or submitted
\* (case_setup, clean, post_build, _submit)
THEOREM BuildHolds == Spec => []BuildInv
<1>1. Init => IInv
  BY InitIInv
<1>2. IInv /\ [Next]_vars => IInv'
  BY NextKeeps
<1>3. IInv => BuildInv
  BY DEF IInv, BuildInv
<1> QED BY <1>1, <1>2, <1>3, PTL DEF Spec

\* A job runs an executable of the settings it has checked, unless they changed
\* between the check and the start of the model or where no lock can see it
THEOREM StaleBuildNeverRuns == Spec => []StaleBuildDetected
<1>1. Init => IInv
  BY InitIInv
<1>2. IInv /\ [Next]_vars => IInv'
  BY NextKeeps
<1>3. IInv => StaleBuildDetected
  BY DEF IInv
<1> QED BY <1>1, <1>2, <1>3, PTL DEF Spec

\* No job passes its checks while a build is running (_pre_run_check sees that
\* case.build has unset BUILD_COMPLETE)
THEOREM NoCheckDuringBuildHolds == Spec => NoCheckDuringBuild
<1>1. Init => IInv
  BY InitIInv
<1>2. IInv /\ [Next]_vars => IInv'
  BY NextKeeps
<1> DEFINE Passes == job # None /\ job.checked = None /\ job' # None /\ job'.checked # None
<1>3. ASSUME IInv, [Next]_vars, Passes PROVE build = None
  <2>1. ASSUME RunCheck PROVE build = None
    BY <1>3, <2>1 DEF IInv, Building, RunCheck
  <2>2. /\ ~SetupClean /\ ~CleanCache /\ ~BuildSkipped /\ ~BuildRefused
        /\ ~BuildFails /\ ~BuildLinks /\ ~PostBuild
    BY <1>3 DEF SetupClean, CleanCache, BuildSkipped, BuildRefused, BuildFails, BuildLinks,
         PostBuild
  <2>3. /\ \A reset, fails \in BOOLEAN : ~Setup(reset, fails)
        /\ \A cleaned \in {Comps} \cup {{c} : c \in Comps} : ~Clean(cleaned)
        /\ \A list \in {{}} \cup {{c} : c \in Comps} : ~BuildStart(list)
        /\ \A c \in Comps, o \in Outcomes : ~BuildThread(c, o)
    BY <1>3 DEF Setup, Clean, BuildStart, BuildThread
  <2>4. ~Submit /\ ~RunRefused /\ ~RunStart /\ ~RunEnd
    BY <1>3 DEF Submit, RunRefused, RunStart, RunEnd, Underway
  <2>5. ~HandEdit /\ ~XmlChange
    BY <1>3 DEF HandEdit, XmlChange, JobAfter, Underway
  <2>6. ~UNCHANGED vars
    BY <1>3 DEF vars
  <2> QED BY <1>3, <2>1, <2>2, <2>3, <2>4, <2>5, <2>6 DEF Next
<1>4. IInv /\ [Next]_vars => [Passes => build = None]_vars
  BY <1>3
<1> QED BY <1>1, <1>2, <1>4, PTL DEF Spec, NoCheckDuringBuild
===============================================================================
