--------------------------- MODULE SystemTestProofs ---------------------------
(***************************************************************************)
(* What the system tests of two or more runs promise, for any number of    *)
(* builds and submissions: first a test of two cases (CompareTwo), then    *)
(* the tests that stop and restart the model (RestartTests).               *)
(***************************************************************************)
EXTENDS CompareTwo, RestartTests, FiniteSetTheorems, WellFoundedInduction, TLAPS

(***************************************************************************)
(* The inductive invariant of a test of two cases.  How far the setup is   *)
(* follows from pc and from the directory of case 2; which attempt an      *)
(* output is from follows from where the job and the tail of the first job *)
(* are; what TestStatus may say follows from what the job has in memory.   *)
(***************************************************************************)
SetupSoFar ==
  /\ pc = "clone" => caseroot2 = "absent"
  /\ pc \in {"setup1", "setup2"} => caseroot2 = "cloned"
  /\ pc \in {"clone", "setup1", "setup2"} => failures < builds
  /\ pc \in {"clone", "setup1"} => setups < builds

\* Without a kill the setup has ended, in one way or the other, before
\* anything else begins
SetupWhole ==
  /\ pc \notin {"setup1", "setup2"} => caseroot2 # "cloned"
  /\ pc = "build" => caseroot2 = "set"
  /\ IF caseroot2 = "set" \/ pc = "setup2"
     THEN setups > 0 /\ setups <= failures + 1 ELSE setups <= failures

\* The second job of an attempt has the output of the first, or is to have it,
\* or the attempt counts as cut
Saved == out[1] = attempt \/ tail = "saving" \/ attempt \in cut

JobsSoFar ==
  /\ queued # "none" => pc = "idle"
  /\ tail # "none" => kind = "job" /\ ~first /\ pc \notin {"clone", "setup1", "setup2", "build"}
  /\ kind = "single" => first
  /\ queued # "none" \/ pc \in {"load", "run1", "run2", "compare", "end"}
       => resubmit = IF first THEN Initial ELSE 0
  /\ (queued = "test" \/ pc = "load") /\ first => attempt < submits
  /\ queued = "archive" => kind = "archive"
  /\ pc = "run1" => first

OutputsSoFar ==
  /\ tail = "ending" => out[1] = attempt
  /\ (queued = "test" \/ pc \in {"load", "run2", "compare", "end"}) /\ ~first => Saved
  /\ queued = "archive" /\ first => out[1] = attempt
  /\ pc \in {"run2", "compare"} /\ first => kind = "single" /\ out[1] = attempt
  /\ pc = "end" /\ first => kind # "job" /\ out[1] = attempt
  /\ pc = "compare" => out[2] = attempt

StatusSoFar ==
  /\ pc \in {"run1", "run2", "compare", "end"} => mem.run = "PEND"
  /\ pc = "run1" \/ (pc = "end" /\ first /\ kind = "archive") => mem.comp = "PEND"
  /\ pc = "end" /\ ~(first /\ kind = "archive") =>
       /\ mem.comp \in {"PASS", "FAIL"} /\ compared[2] = attempt
       /\ compared[1] = attempt \/ attempt \in cut

Labels ==
  /\ kind \in {"single", "job", "archive"} /\ built \in BOOLEAN /\ first \in BOOLEAN
  /\ pc \in {"idle", "clone", "setup1", "setup2", "build",
             "load", "run1", "run2", "compare", "end"}
  /\ caseroot2 \in {"absent", "cloned", "set"} /\ queued \in {"none", "test", "archive"}
  /\ file \in [run : Statuses, comp : Statuses] /\ mem \in [run : Statuses, comp : Statuses]
  /\ tail \in {"none", "saving", "ending"}
Counters ==
  /\ builds \in 0..MaxBuilds /\ setups \in 0..builds /\ failures \in 0..builds
  /\ resubmit \in {0, 1} /\ submits \in 0..MaxSubmits /\ attempt \in 0..submits
Outputs ==
  /\ out \in (0..attempt) \X (0..attempt) /\ compared \in (0..attempt) \X (0..attempt)
  /\ cut \subseteq 0..attempt

IInv == Labels /\ Counters /\ Outputs /\ SetupSoFar /\ JobsSoFar /\ OutputsSoFar /\ StatusSoFar

\* The invariants of a test of two cases hold at the start.
LEMMA InitIInv ==
  ASSUME Init PROVE IInv /\ SetupWhole /\ ComparesOneAttempt /\ PassIsComplete
<1>1. Labels
  BY DEF Init, Labels, Statuses, Nothing
<1>2. Counters
  BY BoundsAssumption DEF Init, Counters, Initial
<1>3. Outputs
  BY DEF Init, Outputs
<1>4. SetupSoFar /\ SetupWhole
  BY DEF Init, SetupSoFar, SetupWhole
<1>5. JobsSoFar
  BY DEF Init, JobsSoFar
<1>6. OutputsSoFar /\ StatusSoFar
  BY DEF Init, OutputsSoFar, StatusSoFar
<1>7. ComparesOneAttempt /\ PassIsComplete
  BY DEF Init, ComparesOneAttempt, PassIsComplete, Nothing
<1> QED BY <1>1, <1>2, <1>3, <1>4, <1>5, <1>6, <1>7 DEF IInv

\* Every step keeps the types, the stages of the setup, the job that is next, the
\* origin of the outputs and what the job knows of TestStatus
LEMMA NextIInv ==
  ASSUME IInv, [Next]_vars PROVE IInv'
<1>1. CASE BuildStart
  <2>1. Labels'
    BY <1>1, BoundsAssumption DEF IInv, Labels, Statuses, BuildStart, Idle, Nothing,
         Initial, Goto, buildVars, runVars, histories
  <2>2. (Counters /\ Outputs /\ SetupSoFar)'
    BY <1>1, BoundsAssumption DEF IInv, Labels, Counters, Outputs, SetupSoFar, JobsSoFar,
         BuildStart, Idle, Nothing, Initial, Goto, buildVars, runVars, histories
  <2>3. JobsSoFar'
    BY <1>1, BoundsAssumption DEF IInv, Labels, Counters, JobsSoFar, BuildStart, Idle,
         Nothing, Initial, Goto, buildVars, runVars, histories
  <2>4. (OutputsSoFar /\ StatusSoFar)'
    BY <1>1, BoundsAssumption DEF IInv, Labels, Counters, Outputs, JobsSoFar,
         OutputsSoFar, Saved, StatusSoFar, BuildStart, Idle, Nothing, Initial, Goto,
         buildVars, runVars, histories
  <2> QED BY <2>1, <2>2, <2>3, <2>4 DEF IInv
<1>2. CASE Clone
  <2>1. Labels'
    BY <1>2, BoundsAssumption DEF IInv, Labels, Statuses, Clone, Goto, buildVars, runVars,
         histories
  <2>2. (Counters /\ Outputs /\ SetupSoFar)'
    BY <1>2, BoundsAssumption DEF IInv, Labels, Counters, Outputs, SetupSoFar, JobsSoFar,
         Clone, Goto, buildVars, runVars, histories
  <2>3. JobsSoFar'
    BY <1>2, BoundsAssumption DEF IInv, Labels, Counters, JobsSoFar, Clone, Initial, Goto,
         buildVars, runVars, histories
  <2>4. (OutputsSoFar /\ StatusSoFar)'
    BY <1>2, BoundsAssumption DEF IInv, Labels, Counters, Outputs, JobsSoFar,
         OutputsSoFar, Saved, StatusSoFar, Clone, Goto, buildVars, runVars, histories
  <2> QED BY <2>1, <2>2, <2>3, <2>4 DEF IInv
<1>3. CASE SetupCase1
  <2>1. Labels'
    BY <1>3, BoundsAssumption DEF IInv, Labels, Statuses, SetupCase1, Goto, buildVars,
         runVars, histories
  <2>2. (Counters /\ Outputs /\ SetupSoFar)'
    BY <1>3, BoundsAssumption DEF IInv, Labels, Counters, Outputs, SetupSoFar, JobsSoFar,
         SetupCase1, Goto, buildVars, runVars, histories
  <2>3. JobsSoFar'
    BY <1>3, BoundsAssumption DEF IInv, Labels, Counters, JobsSoFar, SetupCase1, Initial,
         Goto, buildVars, runVars, histories
  <2>4. (OutputsSoFar /\ StatusSoFar)'
    BY <1>3, BoundsAssumption DEF IInv, Labels, Counters, Outputs, JobsSoFar,
         OutputsSoFar, Saved, StatusSoFar, SetupCase1, Goto, buildVars, runVars, histories
  <2> QED BY <2>1, <2>2, <2>3, <2>4 DEF IInv
<1>4. CASE SetupCase2
  <2>1. Labels'
    BY <1>4, BoundsAssumption DEF IInv, Labels, Statuses, SetupCase2, Goto, buildVars,
         runVars, histories
  <2>2. (Counters /\ Outputs /\ SetupSoFar)'
    BY <1>4, BoundsAssumption DEF IInv, Labels, Counters, Outputs, SetupSoFar, JobsSoFar,
         SetupCase2, Goto, buildVars, runVars, histories
  <2>3. JobsSoFar'
    BY <1>4, BoundsAssumption DEF IInv, Labels, Counters, JobsSoFar, SetupCase2, Initial,
         Goto, buildVars, runVars, histories
  <2>4. (OutputsSoFar /\ StatusSoFar)'
    BY <1>4, BoundsAssumption DEF IInv, Labels, Counters, Outputs, JobsSoFar,
         OutputsSoFar, Saved, StatusSoFar, SetupCase2, Goto, buildVars, runVars, histories
  <2> QED BY <2>1, <2>2, <2>3, <2>4 DEF IInv
<1>5. CASE SetupFails
  <2>1. Labels'
    BY <1>5, BoundsAssumption DEF IInv, Labels, Statuses, SetupFails, Cleaned, Goto,
         buildVars, runVars, histories
  <2>2. (Counters /\ Outputs /\ SetupSoFar)'
    BY <1>5, BoundsAssumption DEF IInv, Labels, Counters, Outputs, SetupSoFar, JobsSoFar,
         SetupFails, Cleaned, Goto, buildVars, runVars, histories
  <2>3. JobsSoFar'
    BY <1>5, BoundsAssumption DEF IInv, Labels, Counters, JobsSoFar, SetupFails, Cleaned,
         Initial, Goto, buildVars, runVars, histories
  <2>4. (OutputsSoFar /\ StatusSoFar)'
    BY <1>5, BoundsAssumption DEF IInv, Labels, Counters, Outputs, JobsSoFar,
         OutputsSoFar, Saved, StatusSoFar, SetupFails, Cleaned, Goto, buildVars, runVars,
         histories
  <2> QED BY <2>1, <2>2, <2>3, <2>4 DEF IInv
<1>6. ASSUME NEW ok \in BOOLEAN, BuildEnds(ok) PROVE IInv'
  <2>1. Labels'
    BY <1>6, BoundsAssumption DEF IInv, Labels, Statuses, BuildEnds, Goto, buildVars,
         runVars, histories
  <2>2. (Counters /\ Outputs /\ SetupSoFar)'
    BY <1>6, BoundsAssumption DEF IInv, Labels, Counters, Outputs, SetupSoFar, JobsSoFar,
         BuildEnds, Goto, buildVars, runVars, histories
  <2>3. JobsSoFar'
    BY <1>6, BoundsAssumption DEF IInv, Labels, Counters, JobsSoFar, BuildEnds, Initial,
         Goto, buildVars, runVars, histories
  <2>4. (OutputsSoFar /\ StatusSoFar)'
    BY <1>6, BoundsAssumption DEF IInv, Labels, Counters, Outputs, JobsSoFar,
         OutputsSoFar, Saved, StatusSoFar, BuildEnds, Goto, buildVars, runVars, histories
  <2> QED BY <2>1, <2>2, <2>3, <2>4 DEF IInv
<1>7. CASE UserSubmit
  <2>1. Labels'
    BY <1>7, BoundsAssumption DEF IInv, Labels, Statuses, UserSubmit, Idle, Opened,
         Initial, Goto, buildVars, runVars, histories
  <2>2. (Counters /\ Outputs /\ SetupSoFar)'
    BY <1>7, BoundsAssumption DEF IInv, Labels, Counters, Outputs, SetupSoFar, JobsSoFar,
         UserSubmit, Idle, Opened, Initial, Goto, buildVars, runVars, histories
  <2>3. JobsSoFar'
    BY <1>7, BoundsAssumption DEF IInv, Labels, Counters, JobsSoFar, UserSubmit, Idle,
         Opened, Initial, Goto, buildVars, runVars, histories
  <2>4. (OutputsSoFar /\ StatusSoFar)'
    BY <1>7, BoundsAssumption DEF IInv, Labels, Counters, Outputs, JobsSoFar,
         OutputsSoFar, Saved, StatusSoFar, UserSubmit, Idle, Opened, Initial, Goto,
         buildVars, runVars, histories
  <2> QED BY <2>1, <2>2, <2>3, <2>4 DEF IInv
<1>8. CASE UserRefused
  <2>1. Labels'
    <3>1. first' \in BOOLEAN
      BY <1>8, Zenon DEF IInv, Labels, UserRefused, Idle, Opened, Nothing, Goto, buildVars,
           runVars, histories
    <3> QED
      BY <1>8, <3>1, SMT DEF IInv, Labels, Statuses, UserRefused, Idle, Opened, Nothing,
           Goto, buildVars, runVars, histories
  <2>2. (Counters /\ Outputs /\ SetupSoFar)'
    BY <1>8, BoundsAssumption DEF IInv, Labels, Counters, Outputs, SetupSoFar, JobsSoFar,
         UserRefused, Idle, Opened, Nothing, Initial, Goto, buildVars, runVars, histories
  <2>3. JobsSoFar'
    BY <1>8, BoundsAssumption DEF IInv, Labels, Counters, JobsSoFar, UserRefused, Idle,
         Opened, Nothing, Initial, Goto, buildVars, runVars, histories
  <2>4. (OutputsSoFar /\ StatusSoFar)'
    BY <1>8, BoundsAssumption DEF IInv, Labels, Counters, Outputs, JobsSoFar,
         OutputsSoFar, Saved, StatusSoFar, UserRefused, Idle, Opened, Nothing, Initial,
         Goto, buildVars, runVars, histories
  <2> QED BY <2>1, <2>2, <2>3, <2>4 DEF IInv
<1>9. CASE JobLoads
  <2>1. Labels'
    BY <1>9, BoundsAssumption DEF IInv, Labels, Statuses, JobLoads, Goto, buildVars,
         runVars, histories
  <2>2. (Counters /\ Outputs /\ SetupSoFar)'
    BY <1>9, BoundsAssumption DEF IInv, Labels, Counters, Outputs, SetupSoFar, JobsSoFar,
         JobLoads, Goto, buildVars, runVars, histories
  <2>3. JobsSoFar'
    BY <1>9, BoundsAssumption DEF IInv, Labels, Counters, JobsSoFar, JobLoads, Initial,
         Goto, buildVars, runVars, histories
  <2>4. (OutputsSoFar /\ StatusSoFar)'
    BY <1>9, BoundsAssumption DEF IInv, Labels, Counters, Outputs, JobsSoFar,
         OutputsSoFar, Saved, StatusSoFar, JobLoads, Goto, buildVars, runVars, histories
  <2> QED BY <2>1, <2>2, <2>3, <2>4 DEF IInv
<1>10. CASE JobStart
  <2>1. Labels'
    BY <1>10, BoundsAssumption DEF IInv, Labels, Statuses, JobStart, StartsOver,
         FirstPhase, Marked, SetRun, Writes, Initial, Goto, buildVars, runVars, histories
  <2>2. (Counters /\ Outputs /\ SetupSoFar)'
    BY <1>10, BoundsAssumption DEF IInv, Labels, Counters, Outputs, SetupSoFar, JobsSoFar,
         JobStart, StartsOver, FirstPhase, Marked, SetRun, Writes, Initial, Goto,
         buildVars, runVars, histories
  <2>3. JobsSoFar'
    BY <1>10, BoundsAssumption DEF IInv, Labels, Counters, JobsSoFar, JobStart,
         StartsOver, FirstPhase, Marked, SetRun, Writes, Initial, Goto, buildVars,
         runVars, histories
  <2>4. (OutputsSoFar /\ StatusSoFar)'
    BY <1>10, BoundsAssumption DEF IInv, Labels, Counters, Outputs, JobsSoFar,
         OutputsSoFar, Saved, StatusSoFar, JobStart, StartsOver, FirstPhase, Marked,
         SetRun, Writes, Initial, Goto, buildVars, runVars, histories
  <2> QED BY <2>1, <2>2, <2>3, <2>4 DEF IInv
<1>11. CASE Resubmission
  <2>1. Labels'
    <3>1. first' \in BOOLEAN
      BY <1>11, Zenon DEF IInv, Labels, Resubmission, JobResubmits, Resubmits, Goto,
           buildVars, runVars, histories
    <3> QED
      BY <1>11, <3>1, SMT DEF IInv, Labels, Statuses, Resubmission, JobResubmits, Resubmits,
           Goto, buildVars, runVars, histories
  <2>2. (Counters /\ Outputs /\ SetupSoFar)'
    BY <1>11, BoundsAssumption DEF IInv, Labels, Counters, Outputs, SetupSoFar, JobsSoFar,
         Resubmission, JobResubmits, Resubmits, Initial, Goto, buildVars, runVars,
         histories
  <2>3. JobsSoFar'
    BY <1>11, BoundsAssumption DEF IInv, Labels, Counters, JobsSoFar, Resubmission,
         JobResubmits, Resubmits, Initial, Goto, buildVars, runVars, histories
  <2>4. (OutputsSoFar /\ StatusSoFar)'
    BY <1>11, BoundsAssumption DEF IInv, Labels, Counters, Outputs, JobsSoFar,
         OutputsSoFar, Saved, StatusSoFar, Resubmission, JobResubmits, Resubmits, Initial,
         Goto, buildVars, runVars, histories
  <2> QED BY <2>1, <2>2, <2>3, <2>4 DEF IInv
<1>12. CASE RunCase1
  <2>1. Labels'
    BY <1>12, BoundsAssumption DEF IInv, Labels, Statuses, RunCase1, JobResubmits,
         Resubmits, Initial, Goto, buildVars, runVars, histories
  <2>2. (Counters /\ Outputs /\ SetupSoFar)'
    BY <1>12, BoundsAssumption DEF IInv, Labels, Counters, Outputs, SetupSoFar, JobsSoFar,
         RunCase1, JobResubmits, Resubmits, Initial, Goto, buildVars, runVars, histories
  <2>3. JobsSoFar'
    BY <1>12, BoundsAssumption DEF IInv, Labels, Counters, JobsSoFar, RunCase1,
         JobResubmits, Resubmits, Initial, Goto, buildVars, runVars, histories
  <2>4. (OutputsSoFar /\ StatusSoFar)'
    BY <1>12, BoundsAssumption DEF IInv, Labels, Counters, Outputs, JobsSoFar,
         OutputsSoFar, Saved, StatusSoFar, RunCase1, JobResubmits, Resubmits, Initial,
         Goto, buildVars, runVars, histories
  <2> QED BY <2>1, <2>2, <2>3, <2>4 DEF IInv
<1>13. CASE RunCase2
  <2>1. Labels'
    BY <1>13, BoundsAssumption DEF IInv, Labels, Statuses, RunCase2, Goto, buildVars,
         runVars, histories
  <2>2. (Counters /\ Outputs /\ SetupSoFar)'
    BY <1>13, BoundsAssumption DEF IInv, Labels, Counters, Outputs, SetupSoFar, JobsSoFar,
         RunCase2, Goto, buildVars, runVars, histories
  <2>3. JobsSoFar'
    BY <1>13, BoundsAssumption DEF IInv, Labels, Counters, JobsSoFar, RunCase2, Initial,
         Goto, buildVars, runVars, histories
  <2>4. (OutputsSoFar /\ StatusSoFar)'
    BY <1>13, BoundsAssumption DEF IInv, Labels, Counters, Outputs, JobsSoFar,
         OutputsSoFar, Saved, StatusSoFar, RunCase2, Goto, buildVars, runVars, histories
  <2> QED BY <2>1, <2>2, <2>3, <2>4 DEF IInv
<1>14. CASE JobEnds
  <2>1. Labels'
    BY <1>14, BoundsAssumption DEF IInv, Labels, Statuses, JobEnds, SetRun, Writes, Goto,
         buildVars, runVars, histories
  <2>2. (Counters /\ Outputs /\ SetupSoFar)'
    BY <1>14, BoundsAssumption DEF IInv, Labels, Counters, Outputs, SetupSoFar, JobsSoFar,
         JobEnds, SetRun, Writes, Goto, buildVars, runVars, histories
  <2>3. JobsSoFar'
    BY <1>14, BoundsAssumption DEF IInv, Labels, Counters, JobsSoFar, JobEnds, SetRun,
         Writes, Initial, Goto, buildVars, runVars, histories
  <2>4. (OutputsSoFar /\ StatusSoFar)'
    BY <1>14, BoundsAssumption DEF IInv, Labels, Counters, Outputs, JobsSoFar,
         OutputsSoFar, Saved, StatusSoFar, JobEnds, SetRun, Writes, Goto, buildVars,
         runVars, histories
  <2> QED BY <2>1, <2>2, <2>3, <2>4 DEF IInv
<1>15. ASSUME NEW verdict \in {"PASS", "FAIL"}, Compare(verdict) PROVE IInv'
  <2>1. Labels'
    BY <1>15, BoundsAssumption DEF IInv, Labels, Statuses, Compare, Writes, Cut, Goto,
         buildVars, runVars, histories
  <2>2. (Counters /\ Outputs /\ SetupSoFar)'
    BY <1>15, BoundsAssumption DEF IInv, Labels, Counters, Outputs, SetupSoFar, JobsSoFar,
         Compare, Writes, Cut, Goto, buildVars, runVars, histories
  <2>3. JobsSoFar'
    BY <1>15, BoundsAssumption DEF IInv, Labels, Counters, JobsSoFar, Compare, Writes,
         Cut, Initial, Goto, buildVars, runVars, histories
  <2>4. (OutputsSoFar /\ StatusSoFar)'
    BY <1>15, BoundsAssumption DEF IInv, Labels, Counters, Outputs, JobsSoFar,
         OutputsSoFar, Saved, StatusSoFar, Compare, Writes, Cut, Goto, buildVars, runVars,
         histories
  <2> QED BY <2>1, <2>2, <2>3, <2>4 DEF IInv
<1>16. ASSUME NEW verdict \in {"PASS", "FAIL"}, TailEnds(verdict) PROVE IInv'
  <2>1. Labels'
    BY <1>16, BoundsAssumption DEF IInv, Labels, Statuses, TailEnds, Cut, Goto, buildVars,
         runVars, histories
  <2>2. (Counters /\ Outputs /\ SetupSoFar)'
    BY <1>16, BoundsAssumption DEF IInv, Labels, Counters, Outputs, SetupSoFar, JobsSoFar,
         TailEnds, Cut, Goto, buildVars, runVars, histories
  <2>3. JobsSoFar'
    BY <1>16, BoundsAssumption DEF IInv, Labels, Counters, JobsSoFar, TailEnds, Cut,
         Initial, Goto, buildVars, runVars, histories
  <2>4. (OutputsSoFar /\ StatusSoFar)'
    BY <1>16, BoundsAssumption DEF IInv, Labels, Counters, Outputs, JobsSoFar,
         OutputsSoFar, Saved, StatusSoFar, TailEnds, Cut, Goto, buildVars, runVars,
         histories
  <2> QED BY <2>1, <2>2, <2>3, <2>4 DEF IInv
<1>17. ASSUME NEW submitting \in BOOLEAN, JobFails(submitting) PROVE IInv'
  <2>1. Labels'
    <3>1. first' \in BOOLEAN
      BY <1>17, Zenon DEF IInv, Labels, JobFails, Interrupted, JobResubmits, Resubmits,
           SetRun, Writes, Goto, buildVars, runVars, histories
    <3> QED
      BY <1>17, <3>1, SMT DEF IInv, Labels, Statuses, JobFails, JobResubmits, Resubmits,
           SetRun, Writes, Goto, buildVars, runVars, histories
  <2>2. (Counters /\ Outputs /\ SetupSoFar)'
    BY <1>17, BoundsAssumption DEF IInv, Labels, Counters, Outputs, SetupSoFar, JobsSoFar,
         JobFails, Interrupted, JobResubmits, Resubmits, SetRun, Writes, Initial, Goto,
         buildVars, runVars, histories
  <2>3. JobsSoFar'
    BY <1>17, BoundsAssumption DEF IInv, Labels, Counters, JobsSoFar, JobFails,
         Interrupted, JobResubmits, Resubmits, SetRun, Writes, Initial, Goto, buildVars,
         runVars, histories
  <2>4. (OutputsSoFar /\ StatusSoFar)'
    BY <1>17, BoundsAssumption DEF IInv, Labels, Counters, Outputs, JobsSoFar,
         OutputsSoFar, Saved, StatusSoFar, JobFails, Interrupted, JobResubmits, Resubmits,
         SetRun, Writes, Initial, Goto, buildVars, runVars, histories
  <2> QED BY <2>1, <2>2, <2>3, <2>4 DEF IInv
<1>18. ASSUME NEW submitting \in BOOLEAN, ArchiveFails(submitting) PROVE IInv'
  <2>1. Labels'
    <3>1. first' \in BOOLEAN
      BY <1>18, Zenon DEF IInv, Labels, ArchiveFails, Interrupted, Resubmits, Nothing, Goto,
           buildVars, runVars, histories
    <3> QED
      BY <1>18, <3>1, SMT DEF IInv, Labels, Statuses, ArchiveFails, Resubmits, Nothing,
           Goto, buildVars, runVars, histories
  <2>2. (Counters /\ Outputs /\ SetupSoFar)'
    BY <1>18, BoundsAssumption DEF IInv, Labels, Counters, Outputs, SetupSoFar, JobsSoFar,
         ArchiveFails, Interrupted, Resubmits, Nothing, Initial, Goto, buildVars, runVars,
         histories
  <2>3. JobsSoFar'
    BY <1>18, BoundsAssumption DEF IInv, Labels, Counters, JobsSoFar, ArchiveFails,
         Interrupted, Resubmits, Nothing, Initial, Goto, buildVars, runVars, histories
  <2>4. (OutputsSoFar /\ StatusSoFar)'
    BY <1>18, BoundsAssumption DEF IInv, Labels, Counters, Outputs, JobsSoFar,
         OutputsSoFar, Saved, StatusSoFar, ArchiveFails, Interrupted, Resubmits, Nothing,
         Initial, Goto, buildVars, runVars, histories
  <2> QED BY <2>1, <2>2, <2>3, <2>4 DEF IInv
<1>19. ASSUME NEW submitting \in BOOLEAN, Killed(submitting) PROVE IInv'
  <2>1. Labels'
    <3>1. first' \in BOOLEAN
      BY <1>19, Zenon DEF IInv, Labels, Killed, Interrupted, JobResubmits, Resubmits, Goto,
           buildVars, runVars, histories
    <3> QED
      BY <1>19, <3>1, SMT DEF IInv, Labels, Statuses, Killed, JobResubmits, Resubmits, Goto,
           buildVars, runVars, histories
  <2>2. (Counters /\ Outputs /\ SetupSoFar)'
    BY <1>19, BoundsAssumption DEF IInv, Labels, Counters, Outputs, SetupSoFar, JobsSoFar,
         Killed, Interrupted, JobResubmits, Resubmits, Initial, Goto, buildVars, runVars,
         histories
  <2>3. JobsSoFar'
    BY <1>19, BoundsAssumption DEF IInv, Labels, Counters, JobsSoFar, Killed, Interrupted,
         JobResubmits, Resubmits, Initial, Goto, buildVars, runVars, histories
  <2>4. (OutputsSoFar /\ StatusSoFar)'
    BY <1>19, BoundsAssumption DEF IInv, Labels, Counters, Outputs, JobsSoFar,
         OutputsSoFar, Saved, StatusSoFar, Killed, Interrupted, JobResubmits, Resubmits,
         Initial, Goto, buildVars, runVars, histories
  <2> QED BY <2>1, <2>2, <2>3, <2>4 DEF IInv
<1>20. CASE TailSaves
  <2>1. Labels'
    BY <1>20, BoundsAssumption DEF IInv, Labels, Statuses, TailSaves, Goto, buildVars,
         runVars, histories
  <2>2. (Counters /\ Outputs /\ SetupSoFar)'
    BY <1>20, BoundsAssumption DEF IInv, Labels, Counters, Outputs, SetupSoFar, JobsSoFar,
         TailSaves, Goto, buildVars, runVars, histories
  <2>3. JobsSoFar'
    BY <1>20, BoundsAssumption DEF IInv, Labels, Counters, JobsSoFar, TailSaves, Initial,
         Goto, buildVars, runVars, histories
  <2>4. (OutputsSoFar /\ StatusSoFar)'
    BY <1>20, BoundsAssumption DEF IInv, Labels, Counters, Outputs, JobsSoFar,
         OutputsSoFar, Saved, StatusSoFar, TailSaves, Goto, buildVars, runVars, histories
  <2> QED BY <2>1, <2>2, <2>3, <2>4 DEF IInv
<1>21. CASE ArchiveEnds
  <2>1. Labels'
    <3>1. first' \in BOOLEAN
      BY <1>21, Zenon DEF IInv, Labels, ArchiveEnds, Interrupted, Resubmits, Goto,
           buildVars, runVars, histories
    <3> QED
      BY <1>21, <3>1, SMT DEF IInv, Labels, Statuses, ArchiveEnds, Resubmits, Goto,
           buildVars, runVars, histories
  <2>2. (Counters /\ Outputs /\ SetupSoFar)'
    BY <1>21, BoundsAssumption DEF IInv, Labels, Counters, Outputs, SetupSoFar, JobsSoFar,
         ArchiveEnds, Interrupted, Resubmits, Initial, Goto, buildVars, runVars, histories
  <2>3. JobsSoFar'
    BY <1>21, BoundsAssumption DEF IInv, Labels, Counters, JobsSoFar, ArchiveEnds,
         Interrupted, Resubmits, Initial, Goto, buildVars, runVars, histories
  <2>4. (OutputsSoFar /\ StatusSoFar)'
    BY <1>21, BoundsAssumption DEF IInv, Labels, Counters, Outputs, JobsSoFar,
         OutputsSoFar, Saved, StatusSoFar, ArchiveEnds, Interrupted, Resubmits, Initial,
         Goto, buildVars, runVars, histories
  <2> QED BY <2>1, <2>2, <2>3, <2>4 DEF IInv
<1>22. CASE TailKilled
  <2>1. Labels'
    BY <1>22, BoundsAssumption DEF IInv, Labels, Statuses, TailKilled, Cut, Goto,
         buildVars, runVars, histories
  <2>2. (Counters /\ Outputs /\ SetupSoFar)'
    BY <1>22, BoundsAssumption DEF IInv, Labels, Counters, Outputs, SetupSoFar, JobsSoFar,
         TailKilled, Cut, Goto, buildVars, runVars, histories
  <2>3. JobsSoFar'
    BY <1>22, BoundsAssumption DEF IInv, Labels, Counters, JobsSoFar, TailKilled, Cut,
         Initial, Goto, buildVars, runVars, histories
  <2>4. (OutputsSoFar /\ StatusSoFar)'
    BY <1>22, BoundsAssumption DEF IInv, Labels, Counters, Outputs, JobsSoFar,
         OutputsSoFar, Saved, StatusSoFar, TailKilled, Cut, Goto, buildVars, runVars,
         histories
  <2> QED BY <2>1, <2>2, <2>3, <2>4 DEF IInv
<1>23. CASE Cancelled
  <2>1. Labels'
    BY <1>23, BoundsAssumption DEF IInv, Labels, Statuses, Cancelled, Goto, buildVars,
         runVars, histories
  <2>2. (Counters /\ Outputs /\ SetupSoFar)'
    BY <1>23, BoundsAssumption DEF IInv, Labels, Counters, Outputs, SetupSoFar, JobsSoFar,
         Cancelled, Goto, buildVars, runVars, histories
  <2>3. JobsSoFar'
    BY <1>23, BoundsAssumption DEF IInv, Labels, Counters, JobsSoFar, Cancelled, Initial,
         Goto, buildVars, runVars, histories
  <2>4. (OutputsSoFar /\ StatusSoFar)'
    BY <1>23, BoundsAssumption DEF IInv, Labels, Counters, Outputs, JobsSoFar,
         OutputsSoFar, Saved, StatusSoFar, Cancelled, Goto, buildVars, runVars, histories
  <2> QED BY <2>1, <2>2, <2>3, <2>4 DEF IInv
<1>24. CASE UNCHANGED vars
  <2>1. Labels'
    BY <1>24 DEF IInv, Labels, Statuses, vars, buildVars, runVars, histories
  <2>2. (Counters /\ Outputs /\ SetupSoFar)'
    BY <1>24 DEF IInv, Labels, Counters, Outputs, SetupSoFar, JobsSoFar, vars, buildVars,
         runVars, histories
  <2>3. JobsSoFar'
    BY <1>24 DEF IInv, Labels, Counters, JobsSoFar, Initial, vars, buildVars, runVars,
         histories
  <2>4. (OutputsSoFar /\ StatusSoFar)'
    BY <1>24 DEF IInv, Labels, Counters, Outputs, JobsSoFar, OutputsSoFar, Saved,
         StatusSoFar, vars, buildVars, runVars, histories
  <2> QED BY <2>1, <2>2, <2>3, <2>4 DEF IInv
<1> QED BY <1>1, <1>2, <1>3, <1>4, <1>5, <1>6, <1>7, <1>8, <1>9, <1>10, <1>11, <1>12,
     <1>13, <1>14, <1>15, <1>16, <1>17, <1>18, <1>19, <1>20, <1>21, <1>22, <1>23,
     <1>24 DEF Next

\* Without a kill during a setup, what is built has been set up once
LEMMA NextSetup ==
  ASSUME "setup" \notin MayKill, IInv, SetupWhole, [Next]_vars PROVE SetupWhole'
<1>1. CASE BuildStart
  BY <1>1, BoundsAssumption DEF IInv, Labels, Counters, SetupSoFar, SetupWhole,
       BuildStart, Idle, Nothing, Initial, Goto, buildVars, runVars, histories
<1>2. CASE Clone
  BY <1>2, BoundsAssumption DEF IInv, Labels, Counters, SetupSoFar, SetupWhole, Clone,
       Goto, buildVars, runVars, histories
<1>3. CASE SetupCase1
  BY <1>3, BoundsAssumption DEF IInv, Labels, Counters, SetupSoFar, SetupWhole,
       SetupCase1, Goto, buildVars, runVars, histories
<1>4. CASE SetupCase2
  BY <1>4, BoundsAssumption DEF IInv, Labels, Counters, SetupSoFar, SetupWhole,
       SetupCase2, Goto, buildVars, runVars, histories
<1>5. CASE SetupFails
  BY <1>5, BoundsAssumption DEF IInv, Labels, Counters, SetupSoFar, SetupWhole,
       SetupFails, Cleaned, Goto, buildVars, runVars, histories
<1>6. ASSUME NEW ok \in BOOLEAN, BuildEnds(ok) PROVE SetupWhole'
  BY <1>6, BoundsAssumption DEF IInv, Labels, Counters, SetupSoFar, SetupWhole,
       BuildEnds, Goto, buildVars, runVars, histories
<1>7. CASE UserSubmit
  BY <1>7, BoundsAssumption DEF IInv, Labels, Counters, SetupSoFar, SetupWhole,
       UserSubmit, Idle, Opened, Initial, Goto, buildVars, runVars, histories
<1>8. CASE UserRefused
  BY <1>8, BoundsAssumption DEF IInv, Labels, Counters, SetupSoFar, SetupWhole,
       UserRefused, Idle, Opened, Nothing, Initial, Goto, buildVars, runVars, histories
<1>9. CASE JobLoads
  BY <1>9, BoundsAssumption DEF IInv, Labels, Counters, SetupSoFar, SetupWhole,
       JobLoads, Goto, buildVars, runVars, histories
<1>10. CASE JobStart
  BY <1>10, BoundsAssumption DEF IInv, Labels, Counters, SetupSoFar, SetupWhole,
       JobStart, Goto, buildVars, runVars, histories
<1>11. CASE Resubmission
  <2>1. pc = "run1" /\ pc' = "idle" /\ UNCHANGED buildVars
    BY <1>11 DEF Resubmission, JobResubmits, Goto
  <2> QED BY <2>1 DEF SetupWhole, buildVars
<1>12. CASE RunCase1
  BY <1>12, BoundsAssumption DEF IInv, Labels, Counters, SetupSoFar, SetupWhole,
       RunCase1, Goto, buildVars, runVars, histories
<1>13. CASE RunCase2
  BY <1>13, BoundsAssumption DEF IInv, Labels, Counters, SetupSoFar, SetupWhole,
       RunCase2, Goto, buildVars, runVars, histories
<1>14. CASE JobEnds
  BY <1>14, BoundsAssumption DEF IInv, Labels, Counters, SetupSoFar, SetupWhole,
       JobEnds, Goto, buildVars, runVars, histories
<1>15. ASSUME NEW verdict \in {"PASS", "FAIL"}, Compare(verdict) PROVE SetupWhole'
  BY <1>15, BoundsAssumption DEF IInv, Labels, Counters, SetupSoFar, SetupWhole,
       Compare, Goto, buildVars, runVars, histories
<1>16. ASSUME NEW verdict \in {"PASS", "FAIL"}, TailEnds(verdict) PROVE SetupWhole'
  BY <1>16, BoundsAssumption DEF IInv, Labels, Counters, SetupSoFar, SetupWhole,
       TailEnds, Goto, buildVars, runVars, histories
<1>17. ASSUME NEW submitting \in BOOLEAN, JobFails(submitting) PROVE SetupWhole'
  BY <1>17, BoundsAssumption DEF IInv, Labels, Counters, SetupSoFar, SetupWhole,
       JobFails, Goto, buildVars, runVars, histories
<1>18. ASSUME NEW submitting \in BOOLEAN, ArchiveFails(submitting) PROVE SetupWhole'
  BY <1>18, BoundsAssumption DEF IInv, Labels, Counters, SetupSoFar, SetupWhole,
       ArchiveFails, Goto, buildVars, runVars, histories
<1>19. ASSUME NEW submitting \in BOOLEAN, Killed(submitting) PROVE SetupWhole'
  BY <1>19, BoundsAssumption DEF IInv, Labels, Counters, SetupSoFar, SetupWhole, Killed,
       Goto, buildVars, runVars, histories
<1>20. CASE TailSaves
  BY <1>20, BoundsAssumption DEF IInv, Labels, Counters, SetupSoFar, SetupWhole,
       TailSaves, Goto, buildVars, runVars, histories
<1>21. CASE ArchiveEnds
  BY <1>21, BoundsAssumption DEF IInv, Labels, Counters, SetupSoFar, SetupWhole,
       ArchiveEnds, Goto, buildVars, runVars, histories
<1>22. CASE TailKilled
  BY <1>22, BoundsAssumption DEF IInv, Labels, Counters, SetupSoFar, SetupWhole,
       TailKilled, Goto, buildVars, runVars, histories
<1>23. CASE Cancelled
  BY <1>23, BoundsAssumption DEF IInv, Labels, Counters, SetupSoFar, SetupWhole,
       Cancelled, Goto, buildVars, runVars, histories
<1>24. CASE UNCHANGED vars
  BY <1>24 DEF IInv, Labels, Counters, SetupSoFar, SetupWhole, vars, buildVars, runVars
<1> QED BY <1>1, <1>2, <1>3, <1>4, <1>5, <1>6, <1>7, <1>8, <1>9, <1>10, <1>11, <1>12,
     <1>13, <1>14, <1>15, <1>16, <1>17, <1>18, <1>19, <1>20, <1>21, <1>22, <1>23,
     <1>24 DEF Next

\* Every step keeps both promises about the comparison
LEMMA NextCompares ==
  ASSUME IInv, ComparesOneAttempt, PassIsComplete, [Next]_vars
  PROVE  (ComparesOneAttempt /\ PassIsComplete)'
<1>1. CASE BuildStart
  <2>1. ComparesOneAttempt'
    BY <1>1, BoundsAssumption DEF IInv, Labels, Outputs, JobsSoFar, OutputsSoFar, Saved,
         ComparesOneAttempt, BuildStart, Idle, Nothing, Initial, Goto, buildVars, runVars,
         histories
  <2>2. PassIsComplete'
    BY <1>1, BoundsAssumption DEF IInv, Labels, Outputs, JobsSoFar, OutputsSoFar, Saved,
         StatusSoFar, Statuses, PassIsComplete, BuildStart, Idle, Nothing, Initial, Goto,
         buildVars, runVars, histories
  <2> QED BY <2>1, <2>2
<1>2. CASE Clone
  <2>1. ComparesOneAttempt'
    BY <1>2, BoundsAssumption DEF IInv, Labels, Outputs, JobsSoFar, OutputsSoFar, Saved,
         ComparesOneAttempt, Clone, Goto, buildVars, runVars, histories
  <2>2. PassIsComplete'
    BY <1>2, BoundsAssumption DEF IInv, Labels, Outputs, JobsSoFar, OutputsSoFar, Saved,
         StatusSoFar, Statuses, PassIsComplete, Clone, Goto, buildVars, runVars, histories
  <2> QED BY <2>1, <2>2
<1>3. CASE SetupCase1
  <2>1. ComparesOneAttempt'
    BY <1>3, BoundsAssumption DEF IInv, Labels, Outputs, JobsSoFar, OutputsSoFar, Saved,
         ComparesOneAttempt, SetupCase1, Goto, buildVars, runVars, histories
  <2>2. PassIsComplete'
    BY <1>3, BoundsAssumption DEF IInv, Labels, Outputs, JobsSoFar, OutputsSoFar, Saved,
         StatusSoFar, Statuses, PassIsComplete, SetupCase1, Goto, buildVars, runVars,
         histories
  <2> QED BY <2>1, <2>2
<1>4. CASE SetupCase2
  <2>1. ComparesOneAttempt'
    BY <1>4, BoundsAssumption DEF IInv, Labels, Outputs, JobsSoFar, OutputsSoFar, Saved,
         ComparesOneAttempt, SetupCase2, Goto, buildVars, runVars, histories
  <2>2. PassIsComplete'
    BY <1>4, BoundsAssumption DEF IInv, Labels, Outputs, JobsSoFar, OutputsSoFar, Saved,
         StatusSoFar, Statuses, PassIsComplete, SetupCase2, Goto, buildVars, runVars,
         histories
  <2> QED BY <2>1, <2>2
<1>5. CASE SetupFails
  <2>1. ComparesOneAttempt'
    BY <1>5, BoundsAssumption DEF IInv, Labels, Outputs, JobsSoFar, OutputsSoFar, Saved,
         ComparesOneAttempt, SetupFails, Cleaned, Goto, buildVars, runVars, histories
  <2>2. PassIsComplete'
    BY <1>5, BoundsAssumption DEF IInv, Labels, Outputs, JobsSoFar, OutputsSoFar, Saved,
         StatusSoFar, Statuses, PassIsComplete, SetupFails, Cleaned, Goto, buildVars,
         runVars, histories
  <2> QED BY <2>1, <2>2
<1>6. ASSUME NEW ok \in BOOLEAN, BuildEnds(ok) PROVE (ComparesOneAttempt /\ PassIsComplete)'
  <2>1. ComparesOneAttempt'
    BY <1>6, BoundsAssumption DEF IInv, Labels, Outputs, JobsSoFar, OutputsSoFar, Saved,
         ComparesOneAttempt, BuildEnds, Goto, buildVars, runVars, histories
  <2>2. PassIsComplete'
    BY <1>6, BoundsAssumption DEF IInv, Labels, Outputs, JobsSoFar, OutputsSoFar, Saved,
         StatusSoFar, Statuses, PassIsComplete, BuildEnds, Goto, buildVars, runVars,
         histories
  <2> QED BY <2>1, <2>2
<1>7. CASE UserSubmit
  <2>1. ComparesOneAttempt'
    BY <1>7, BoundsAssumption DEF IInv, Labels, Outputs, JobsSoFar, OutputsSoFar, Saved,
         ComparesOneAttempt, UserSubmit, Idle, Opened, Initial, Goto, buildVars, runVars,
         histories
  <2>2. PassIsComplete'
    BY <1>7, BoundsAssumption DEF IInv, Labels, Outputs, JobsSoFar, OutputsSoFar, Saved,
         StatusSoFar, Statuses, PassIsComplete, UserSubmit, Idle, Opened, Initial, Goto,
         buildVars, runVars, histories
  <2> QED BY <2>1, <2>2
<1>8. CASE UserRefused
  <2>1. ComparesOneAttempt'
    BY <1>8, BoundsAssumption DEF IInv, Labels, Outputs, JobsSoFar, OutputsSoFar, Saved,
         ComparesOneAttempt, UserRefused, Idle, Opened, Nothing, Initial, Goto, buildVars,
         runVars, histories
  <2>2. PassIsComplete'
    BY <1>8, BoundsAssumption DEF IInv, Labels, Outputs, JobsSoFar, OutputsSoFar, Saved,
         StatusSoFar, Statuses, PassIsComplete, UserRefused, Idle, Opened, Nothing,
         Initial, Goto, buildVars, runVars, histories
  <2> QED BY <2>1, <2>2
<1>9. CASE JobLoads
  <2>1. ComparesOneAttempt'
    BY <1>9, BoundsAssumption DEF IInv, Labels, Outputs, JobsSoFar, OutputsSoFar, Saved,
         ComparesOneAttempt, JobLoads, Goto, buildVars, runVars, histories
  <2>2. PassIsComplete'
    BY <1>9, BoundsAssumption DEF IInv, Labels, Outputs, JobsSoFar, OutputsSoFar, Saved,
         StatusSoFar, Statuses, PassIsComplete, JobLoads, Goto, buildVars, runVars,
         histories
  <2> QED BY <2>1, <2>2
<1>10. CASE JobStart
  <2>1. ComparesOneAttempt'
    BY <1>10, BoundsAssumption DEF IInv, Labels, Outputs, JobsSoFar, OutputsSoFar, Saved,
         ComparesOneAttempt, JobStart, StartsOver, FirstPhase, Marked, SetRun, Writes,
         Initial, Goto, buildVars, runVars, histories
  <2>2. PassIsComplete'
    BY <1>10, BoundsAssumption DEF IInv, Labels, Outputs, JobsSoFar, OutputsSoFar, Saved,
         StatusSoFar, Statuses, PassIsComplete, JobStart, StartsOver, FirstPhase, Marked,
         SetRun, Writes, Initial, Goto, buildVars, runVars, histories
  <2> QED BY <2>1, <2>2
<1>11. CASE Resubmission
  <2>1. ComparesOneAttempt'
    BY <1>11, BoundsAssumption DEF IInv, Labels, Outputs, JobsSoFar, OutputsSoFar, Saved,
         ComparesOneAttempt, Resubmission, JobResubmits, Resubmits, Initial, Goto,
         buildVars, runVars, histories
  <2>2. PassIsComplete'
    BY <1>11, BoundsAssumption DEF IInv, Labels, Outputs, JobsSoFar, OutputsSoFar, Saved,
         StatusSoFar, Statuses, PassIsComplete, Resubmission, JobResubmits, Resubmits,
         Initial, Goto, buildVars, runVars, histories
  <2> QED BY <2>1, <2>2
<1>12. CASE RunCase1
  <2>1. ComparesOneAttempt'
    BY <1>12, BoundsAssumption DEF IInv, Labels, Outputs, JobsSoFar, OutputsSoFar, Saved,
         ComparesOneAttempt, RunCase1, JobResubmits, Resubmits, Initial, Goto, buildVars,
         runVars, histories
  <2>2. PassIsComplete'
    BY <1>12, BoundsAssumption DEF IInv, Labels, Outputs, JobsSoFar, OutputsSoFar, Saved,
         StatusSoFar, Statuses, PassIsComplete, RunCase1, JobResubmits, Resubmits,
         Initial, Goto, buildVars, runVars, histories
  <2> QED BY <2>1, <2>2
<1>13. CASE RunCase2
  <2>1. ComparesOneAttempt'
    BY <1>13, BoundsAssumption DEF IInv, Labels, Outputs, JobsSoFar, OutputsSoFar, Saved,
         ComparesOneAttempt, RunCase2, Goto, buildVars, runVars, histories
  <2>2. PassIsComplete'
    BY <1>13, BoundsAssumption DEF IInv, Labels, Outputs, JobsSoFar, OutputsSoFar, Saved,
         StatusSoFar, Statuses, PassIsComplete, RunCase2, Goto, buildVars, runVars,
         histories
  <2> QED BY <2>1, <2>2
<1>14. CASE JobEnds
  <2>1. ComparesOneAttempt'
    BY <1>14, BoundsAssumption DEF IInv, Labels, Outputs, JobsSoFar, OutputsSoFar, Saved,
         ComparesOneAttempt, JobEnds, SetRun, Writes, Goto, buildVars, runVars, histories
  <2>2. PassIsComplete'
    BY <1>14, BoundsAssumption DEF IInv, Labels, Outputs, JobsSoFar, OutputsSoFar, Saved,
         StatusSoFar, Statuses, PassIsComplete, JobEnds, SetRun, Writes, Goto, buildVars,
         runVars, histories
  <2> QED BY <2>1, <2>2
<1>15. ASSUME NEW verdict \in {"PASS", "FAIL"}, Compare(verdict) PROVE (ComparesOneAttempt /\ PassIsComplete)'
  <2>1. ComparesOneAttempt'
    BY <1>15, BoundsAssumption DEF IInv, Labels, Outputs, JobsSoFar, OutputsSoFar, Saved,
         ComparesOneAttempt, Compare, Writes, Cut, Goto, buildVars, runVars, histories
  <2>2. PassIsComplete'
    BY <1>15, BoundsAssumption DEF IInv, Labels, Outputs, JobsSoFar, OutputsSoFar, Saved,
         StatusSoFar, Statuses, PassIsComplete, Compare, Writes, Cut, Goto, buildVars,
         runVars, histories
  <2> QED BY <2>1, <2>2
<1>16. ASSUME NEW verdict \in {"PASS", "FAIL"}, TailEnds(verdict) PROVE (ComparesOneAttempt /\ PassIsComplete)'
  <2>1. ComparesOneAttempt'
    BY <1>16, BoundsAssumption DEF IInv, Labels, Outputs, JobsSoFar, OutputsSoFar, Saved,
         ComparesOneAttempt, TailEnds, Cut, Goto, buildVars, runVars, histories
  <2>2. PassIsComplete'
    BY <1>16, BoundsAssumption DEF IInv, Labels, Outputs, JobsSoFar, OutputsSoFar, Saved,
         StatusSoFar, Statuses, PassIsComplete, TailEnds, Cut, Goto, buildVars, runVars,
         histories
  <2> QED BY <2>1, <2>2
<1>17. ASSUME NEW submitting \in BOOLEAN, JobFails(submitting) PROVE (ComparesOneAttempt /\ PassIsComplete)'
  <2>1. ComparesOneAttempt'
    BY <1>17, BoundsAssumption DEF IInv, Labels, Outputs, JobsSoFar, OutputsSoFar, Saved,
         ComparesOneAttempt, JobFails, Interrupted, JobResubmits, Resubmits, SetRun,
         Writes, Initial, Goto, buildVars, runVars, histories
  <2>2. PassIsComplete'
    BY <1>17, BoundsAssumption DEF IInv, Labels, Outputs, JobsSoFar, OutputsSoFar, Saved,
         StatusSoFar, Statuses, PassIsComplete, JobFails, Interrupted, JobResubmits,
         Resubmits, SetRun, Writes, Initial, Goto, buildVars, runVars, histories
  <2> QED BY <2>1, <2>2
<1>18. ASSUME NEW submitting \in BOOLEAN, ArchiveFails(submitting) PROVE (ComparesOneAttempt /\ PassIsComplete)'
  <2>1. ComparesOneAttempt'
    BY <1>18, BoundsAssumption DEF IInv, Labels, Outputs, JobsSoFar, OutputsSoFar, Saved,
         ComparesOneAttempt, ArchiveFails, Interrupted, Resubmits, Nothing, Initial, Goto,
         buildVars, runVars, histories
  <2>2. PassIsComplete'
    BY <1>18, BoundsAssumption DEF IInv, Labels, Outputs, JobsSoFar, OutputsSoFar, Saved,
         StatusSoFar, Statuses, PassIsComplete, ArchiveFails, Interrupted, Resubmits,
         Nothing, Initial, Goto, buildVars, runVars, histories
  <2> QED BY <2>1, <2>2
<1>19. ASSUME NEW submitting \in BOOLEAN, Killed(submitting) PROVE (ComparesOneAttempt /\ PassIsComplete)'
  <2>1. ComparesOneAttempt'
    BY <1>19, BoundsAssumption DEF IInv, Labels, Outputs, JobsSoFar, OutputsSoFar, Saved,
         ComparesOneAttempt, Killed, Interrupted, JobResubmits, Resubmits, Initial, Goto,
         buildVars, runVars, histories
  <2>2. PassIsComplete'
    BY <1>19, BoundsAssumption DEF IInv, Labels, Outputs, JobsSoFar, OutputsSoFar, Saved,
         StatusSoFar, Statuses, PassIsComplete, Killed, Interrupted, JobResubmits,
         Resubmits, Initial, Goto, buildVars, runVars, histories
  <2> QED BY <2>1, <2>2
<1>20. CASE TailSaves
  <2>1. ComparesOneAttempt'
    BY <1>20, BoundsAssumption DEF IInv, Labels, Outputs, JobsSoFar, OutputsSoFar, Saved,
         ComparesOneAttempt, TailSaves, Goto, buildVars, runVars, histories
  <2>2. PassIsComplete'
    BY <1>20, BoundsAssumption DEF IInv, Labels, Outputs, JobsSoFar, OutputsSoFar, Saved,
         StatusSoFar, Statuses, PassIsComplete, TailSaves, Goto, buildVars, runVars,
         histories
  <2> QED BY <2>1, <2>2
<1>21. CASE ArchiveEnds
  <2>1. ComparesOneAttempt'
    BY <1>21, BoundsAssumption DEF IInv, Labels, Outputs, JobsSoFar, OutputsSoFar, Saved,
         ComparesOneAttempt, ArchiveEnds, Interrupted, Resubmits, Initial, Goto,
         buildVars, runVars, histories
  <2>2. PassIsComplete'
    BY <1>21, BoundsAssumption DEF IInv, Labels, Outputs, JobsSoFar, OutputsSoFar, Saved,
         StatusSoFar, Statuses, PassIsComplete, ArchiveEnds, Interrupted, Resubmits,
         Initial, Goto, buildVars, runVars, histories
  <2> QED BY <2>1, <2>2
<1>22. CASE TailKilled
  <2>1. ComparesOneAttempt'
    BY <1>22, BoundsAssumption DEF IInv, Labels, Outputs, JobsSoFar, OutputsSoFar, Saved,
         ComparesOneAttempt, TailKilled, Cut, Goto, buildVars, runVars, histories
  <2>2. PassIsComplete'
    BY <1>22, BoundsAssumption DEF IInv, Labels, Outputs, JobsSoFar, OutputsSoFar, Saved,
         StatusSoFar, Statuses, PassIsComplete, TailKilled, Cut, Goto, buildVars, runVars,
         histories
  <2> QED BY <2>1, <2>2
<1>23. CASE Cancelled
  <2>1. ComparesOneAttempt'
    BY <1>23, BoundsAssumption DEF IInv, Labels, Outputs, JobsSoFar, OutputsSoFar, Saved,
         ComparesOneAttempt, Cancelled, Goto, buildVars, runVars, histories
  <2>2. PassIsComplete'
    BY <1>23, BoundsAssumption DEF IInv, Labels, Outputs, JobsSoFar, OutputsSoFar, Saved,
         StatusSoFar, Statuses, PassIsComplete, Cancelled, Goto, buildVars, runVars,
         histories
  <2> QED BY <2>1, <2>2
<1>24. CASE UNCHANGED vars
  BY <1>24 DEF ComparesOneAttempt, PassIsComplete, vars, buildVars, runVars, histories
<1> QED BY <1>1, <1>2, <1>3, <1>4, <1>5, <1>6, <1>7, <1>8, <1>9, <1>10, <1>11, <1>12,
     <1>13, <1>14, <1>15, <1>16, <1>17, <1>18, <1>19, <1>20, <1>21, <1>22, <1>23,
     <1>24 DEF Next

\* Nothing kills a setup: the cases are set up once and whole before they are
\* built, and what is built was set up (_setup_cases_if_not_yet_done)
THEOREM SetupHolds ==
  ASSUME "setup" \notin MayKill PROVE Spec => []SetupInv
<1>1. Init => IInv /\ SetupWhole
  BY InitIInv
<1>2. IInv /\ SetupWhole /\ [Next]_vars => (IInv /\ SetupWhole)'
  BY NextIInv, NextSetup
<1>3. IInv /\ SetupWhole => SetupInv
  BY DEF IInv, Labels, Counters, Outputs, SetupInv, SetupSoFar, SetupWhole, TypeOK,
       BuildsWhatIsSetUp, SetUpOnce
<1> QED BY <1>1, <1>2, <1>3, PTL DEF Spec

\* Wherever processes are killed and jobs cancelled, a comparison is of the
\* outputs of one attempt (run_phase, case.submit), but in an attempt whose
\* first job submitted the second and then did not save in time
THEOREM OneAttemptCompared == Spec => []ComparesOneAttempt
<1>1. Init => IInv /\ ComparesOneAttempt /\ PassIsComplete
  BY InitIInv
<1>2. IInv /\ ComparesOneAttempt /\ PassIsComplete /\ [Next]_vars
        => (IInv /\ ComparesOneAttempt /\ PassIsComplete)'
  BY NextIInv, NextCompares
<1> QED BY <1>1, <1>2, PTL DEF Spec

\* And a test that passes has compared the outputs of its last attempt, with
\* the same exception
THEOREM PassAfterComparison == Spec => []PassIsComplete
<1>1. Init => IInv /\ ComparesOneAttempt /\ PassIsComplete
  BY InitIInv
<1>2. IInv /\ ComparesOneAttempt /\ PassIsComplete /\ [Next]_vars
        => (IInv /\ ComparesOneAttempt /\ PassIsComplete)'
  BY NextIInv, NextCompares
<1> QED BY <1>1, <1>2, PTL DEF Spec

-----------------------------------------------------------------------------
-----------------------------------------------------------------------------
(* Dates *)

\* Some numbers have a first one.
LEMMA LeastOfSome ==
  ASSUME NEW S \in SUBSET Nat, S # {}
  PROVE  \E x \in S : \A y \in S : x <= y
<1> DEFINE R == {p \in Nat \X Nat : p[1] < p[2]}
<1>1. IsWellFoundedOn(R, Nat)
  BY NatLessThanWellFounded DEF OpToRel
<1> HIDE DEF R
<1>2. PICK x \in S : \A y \in S : ~(<<y, x>> \in R)
  BY <1>1, WFMin
<1>3. ASSUME NEW y \in S PROVE x <= y
  <2>1. ~(<<y, x>> \in R) /\ <<y, x>> \in Nat \X Nat
    BY <1>2
  <2>2. ~(y < x)
    BY <2>1 DEF R
  <2> QED BY <2>2
<1> QED BY <1>3

\* The days up to the n-th have a latest one.
LEMMA LatestOfSome ==
  ASSUME NEW cal, NEW n \in Int, NEW S, S # {},
         \A x \in S : DayNumber(cal, x) \in Int /\ DayNumber(cal, x) <= n
  PROVE  Latest(cal, S) \in S
<1> DEFINE T == {n - DayNumber(cal, x) : x \in S}
<1>1. T \in SUBSET Nat /\ T # {}
  <2>1. \A x \in S : n - DayNumber(cal, x) \in Nat
    OBVIOUS
  <2> QED BY <2>1
<1>2. PICK m \in T : \A y \in T : m <= y
  BY <1>1, LeastOfSome
<1>3. PICK x \in S : m = n - DayNumber(cal, x)
  BY <1>2
<1>4. \A o \in S : DayNumber(cal, o) <= DayNumber(cal, x)
  <2> TAKE o \in S
  <2>1. n - DayNumber(cal, o) \in T
    OBVIOUS
  <2>2. n - DayNumber(cal, x) <= n - DayNumber(cal, o)
    BY <1>2, <1>3, <2>1
  <2> QED BY <2>2
<1> QED BY <1>3, <1>4 DEF Latest

Dates == [y : Int, m : 1..12, d : Int]

\* Days of the same month are numbered one after the other.
LEMMA NumbersInMonth ==
  ASSUME NEW cal, NEW x \in Dates
  PROVE  /\ DayNumber(cal, x) \in Int
         /\ \A k \in Int : DayNumber(cal, [x EXCEPT !.d = k]) = DayNumber(cal, x) + k - x.d
<1>1. Before[x.m] \in Int
  BY DEF Before, Dates
<1>2. x.y \in Int /\ x.m \in 1..12 /\ x.d \in Int
  BY DEF Dates
<1> DEFINE a == 365 * (x.y - 1)
           b == (x.y - 1) \div 4 - (x.y - 1) \div 100 + (x.y - 1) \div 400
           l == IF x.m > 2 /\ Leap(x.y) THEN 1 ELSE 0
<1>3. a \in Int /\ b \in Int /\ l \in Int
  BY <1>2
<1>4. DayNumber(cal, x) = IF cal = "NO_LEAP" THEN a + Before[x.m] + x.d
                                             ELSE a + b + Before[x.m] + x.d + l
  BY <1>1, <1>2 DEF DayNumber
<1>5. ASSUME NEW k \in Int
      PROVE  DayNumber(cal, [x EXCEPT !.d = k])
               = IF cal = "NO_LEAP" THEN a + Before[x.m] + k
                                    ELSE a + b + Before[x.m] + k + l
  <2> DEFINE z == [x EXCEPT !.d = k]
  <2>1. z.y = x.y /\ z.m = x.m /\ z.d = k
    BY DEF Dates
  <2> HIDE DEF z
  <2>2. DayNumber(cal, z) = IF cal = "NO_LEAP" THEN a + Before[x.m] + k
                                               ELSE a + b + Before[x.m] + k + l
    BY <1>1, <1>2, <2>1 DEF DayNumber
  <2> QED BY <2>2 DEF z
<1> HIDE DEF a, b, l
<1> QED BY <1>1, <1>2, <1>3, <1>4, <1>5

\* The year of a day begins on the first of January, no later than the day.
LEMMA YearOfDay ==
  ASSUME NEW cal, NEW n \in Nat
  PROVE  /\ YearOf(cal, n) \in Dates
         /\ YearOf(cal, n).m = 1 /\ YearOf(cal, n).d = 1
         /\ DayNumber(cal, YearOf(cal, n)) <= n
<1> DEFINE Y(k) == [y |-> k, m |-> 1, d |-> 1]
           lo == (n - 1) \div 366
           hi == (n + 365) \div 365
           S == {o \in {Y(k) : k \in lo..hi} : DayNumber(cal, o) <= n}
<1>1. lo \in Int /\ hi \in Int /\ lo <= hi /\ 366 * lo <= n - 1 /\ -1 <= lo
  OBVIOUS
<1>2. \A k \in Int : /\ Y(k) \in Dates /\ DayNumber(cal, Y(k)) \in Int
                     /\ Y(k).m = 1 /\ Y(k).d = 1
  BY NumbersInMonth DEF Dates
<1>3. DayNumber(cal, Y(lo)) <= n
  <2>1. Before[1] = 0
    BY DEF Before
  <2>2. DayNumber(cal, Y(lo)) = IF cal = "NO_LEAP" THEN 365 * (lo - 1) + 0 + 1
          ELSE 365 * (lo - 1) + (lo - 1) \div 4 - (lo - 1) \div 100 + (lo - 1) \div 400 + 0 + 1 + 0
    BY <2>1 DEF DayNumber
  <2> HIDE DEF lo
  <2>3. 365 * (lo - 1) + 1 <= n
    BY <1>1
  <2>4. ASSUME NEW p \in Int, -2 <= p PROVE p \div 4 - p \div 100 + p \div 400 <= p + 1
    <3>1. CASE p >= 0
      <4>1. p \div 4 <= p /\ p \div 400 <= p \div 100
        BY <3>1
      <4> QED BY <4>1
    <3>2. CASE p = -1 \/ p = -2
      BY <3>2
    <3> QED BY <2>4, <3>1, <3>2
  <2>5. (lo - 1) \div 4 - (lo - 1) \div 100 + (lo - 1) \div 400 <= lo
    BY <1>1, <2>4
  <2>6. 365 * (lo - 1) + (lo - 1) \div 4 - (lo - 1) \div 100 + (lo - 1) \div 400 + 1 <= n
    BY <1>1, <2>5
  <2> QED BY <2>2, <2>3, <2>6, <1>1
<1>4. S # {}
  BY <1>1, <1>3
<1>5. \A x \in S : DayNumber(cal, x) \in Int /\ DayNumber(cal, x) <= n
  BY <1>2
<1>6. YearOf(cal, n) = Latest(cal, S)
  BY DEF YearOf
<1> HIDE DEF S
<1>7. YearOf(cal, n) \in S
  BY <1>4, <1>5, <1>6, LatestOfSome
<1> QED BY <1>2, <1>7 DEF S

\* So does its month.
LEMMA MonthOfDay ==
  ASSUME NEW cal, NEW n \in Nat
  PROVE  MonthOf(cal, n) \in Dates /\ MonthOf(cal, n).d = 1
<1> DEFINE f == YearOf(cal, n)
           M == {[f EXCEPT !.m = k] : k \in 1..12}
           S == {o \in M : DayNumber(cal, o) <= n}
<1>1. f \in Dates /\ f.m = 1 /\ f.d = 1 /\ DayNumber(cal, f) <= n
  BY YearOfDay
<1> HIDE DEF f
<1>2. f = [f EXCEPT !.m = 1]
  BY <1>1 DEF Dates
<1>3. f \in S
  BY <1>1, <1>2
<1>4. \A x \in M : x \in Dates /\ x.d = 1
  BY <1>1 DEF Dates
<1>5. \A x \in S : DayNumber(cal, x) \in Int /\ DayNumber(cal, x) <= n
  BY <1>4, NumbersInMonth
<1>6. MonthOf(cal, n) = Latest(cal, S)
  BY DEF MonthOf, f
<1>7. MonthOf(cal, n) \in S
  BY <1>3, <1>5, <1>6, LatestOfSome
<1> QED BY <1>4, <1>7

\* The date of a number has that number.
LEMMA NumberOfDate ==
  ASSUME NEW cal, NEW n \in Nat
  PROVE  DateOf(cal, n) \in Dates /\ DayNumber(cal, DateOf(cal, n)) = n
<1> DEFINE f == MonthOf(cal, n)
<1>1. f \in Dates /\ f.d = 1
  BY MonthOfDay
<1>2. DateOf(cal, n) = [f EXCEPT !.d = n - DayNumber(cal, f) + 1]
  BY DEF DateOf
<1> HIDE DEF f
<1>3. DayNumber(cal, f) \in Int
  BY <1>1, NumbersInMonth
<1>4. n - DayNumber(cal, f) + 1 \in Int
  BY <1>3
<1>5. DayNumber(cal, DateOf(cal, n)) = DayNumber(cal, f) + (n - DayNumber(cal, f) + 1) - f.d
  BY <1>1, <1>2, <1>4, NumbersInMonth
<1>6. DayNumber(cal, DateOf(cal, n)) = n
  BY <1>1, <1>3, <1>5
<1> QED BY <1>1, <1>2, <1>4, <1>6 DEF Dates

Clock == 0 .. (Secs.day - 1)
Times == [date : Dates, tod : Clock]

\* A clock shows the seconds of a day.
LEMMA ClockSeconds == \A s : s \in Clock <=> s \in Nat /\ s < 86400
  BY SMT DEF Clock, Secs

\* Seconds, and back to the time.
Moment(cal, x)  == DayNumber(cal, x.date) * 86400 + x.tod
TimeAt(cal, m) == [date |-> DateOf(cal, m \div 86400), tod |-> m % 86400]

\* The seconds of a unit of the stop option
Unit(t) == IF t.option = "nyears" THEN 31536000 ELSE Factor(t)

\* A quotient of a number that is no smaller is positive.
LEMMA DivPositive ==
  ASSUME NEW a \in Nat, NEW b \in 1..a
  PROVE  a \div b \in Nat /\ a \div b >= 1
<1>1. a \div b \in Int /\ a = b * (a \div b) + (a % b) /\ a % b \in 0..(b - 1)
  BY SMT
<1> DEFINE q == a \div b
<1>2. q \in Int /\ b * q > a - b
  BY <1>1, SMT
<1>3. a >= b
  BY SMT
<1>4. b * q > 0
  BY <1>2, <1>3, SMT
<1> HIDE DEF q
<1>5. q > 0
  BY <1>2, <1>4, SMT
<1> QED BY <1>2, <1>5, SMT DEF q

\* The seconds of a unit and of a coupling period are positive.
LEMMA PositiveSeconds ==
  ASSUME NEW t \in Tests
  PROVE  /\ Factor(t) \in Nat \ {0} /\ CouplingSecs(t) \in Nat \ {0}
         /\ Unit(t) \in Nat \ {0}
<1>1. Secs[t.base] \in Nat
  BY TestAssumption, SMT DEF Secs
<1>2. t.most \in 1..Secs[t.base] /\ t.least \in 1..Secs[t.base]
  BY TestAssumption, SMT
<1>3. /\ Secs[t.base] \div t.most \in Nat /\ Secs[t.base] \div t.most >= 1
      /\ Secs[t.base] \div t.least \in Nat /\ Secs[t.base] \div t.least >= 1
  BY <1>1, <1>2, DivPositive, SMT
<1>4. Factor(t) \in Nat \ {0}
  <2>1. t.option \in {"nsteps", "nminutes", "nhours", "ndays", "nyears"}
    BY TestAssumption, SMT
  <2> QED BY <1>3, <2>1, SMT DEF Factor, Timestep
<1>5. CouplingSecs(t) \in Nat \ {0}
  BY <1>3, SMT DEF CouplingSecs
<1> QED BY <1>4, <1>5, SMT DEF Unit

\* n units are n times the seconds of one.
LEMMA SpanSeconds ==
  ASSUME NEW t \in Tests, NEW n \in Nat
  PROVE  /\ Span(t, n)[1] \in Nat /\ Span(t, n)[2] \in Clock
         /\ Span(t, n)[1] * 86400 + Span(t, n)[2] = n * Unit(t)
         /\ n * Unit(t) \in Nat
<1>1. Factor(t) \in Nat \ {0} /\ Unit(t) \in Nat \ {0}
  BY PositiveSeconds, SMT
<1>2. n * Unit(t) \in Nat /\ n * Factor(t) \in Nat
  BY <1>1, SMT
<1>3. CASE t.option = "ndays"
  <2>1. Span(t, n) = <<n, 0>>
    BY <1>3, SMT DEF Span
  <2>2. Unit(t) = 86400
    BY <1>3, SMT DEF Unit, Factor
  <2>3. 0 \in Clock
    BY ClockSeconds, SMT
  <2> QED BY <1>2, <2>1, <2>2, <2>3, SMT
<1>4. CASE t.option = "nyears"
  <2>1. Span(t, n) = <<365 * n, 0>>
    BY <1>4, SMT DEF Span
  <2>2. Unit(t) = 31536000
    BY <1>4, SMT DEF Unit
  <2>3. 0 \in Clock
    BY ClockSeconds, SMT
  <2> QED BY <1>2, <2>1, <2>2, <2>3, SMT
<1>5. CASE t.option \notin {"ndays", "nyears"}
  <2> DEFINE s == n * Factor(t)
  <2>1. Span(t, n) = <<s \div 86400, s % 86400>>
    BY <1>5, SMT DEF Span
  <2>2. Unit(t) = Factor(t)
    BY <1>5, SMT DEF Unit
  <2> HIDE DEF s
  <2>3. s \in Nat => /\ s \div 86400 \in Nat /\ s % 86400 \in Clock
                    /\ (s \div 86400) * 86400 + (s % 86400) = s
    BY ClockSeconds, SMT
  <2> QED BY <1>2, <2>1, <2>2, <2>3, SMT DEF s
<1> QED BY <1>3, <1>4, <1>5, SMT

\* The parts of a start
LEMMA StartTimeParts ==
  ASSUME NEW o \in StartTimes
  PROVE  /\ o \in Times
         /\ o.date \in Dates /\ o.date.y \in Nat \ {0} /\ o.date.m \in 1..12 /\ o.date.d \in 1..31
         /\ o.tod \in Clock
<1> DEFINE D == [y : Nat \ {0}, m : 1..12, d : 1..31]
<1>1. \A x \in D : x \in Dates /\ x.y \in Nat \ {0} /\ x.m \in 1..12 /\ x.d \in 1..31
  BY SMT DEF Dates
<1> HIDE DEF D
<1>2. o \in [date : D, tod : Clock]
  BY DEF StartTimes, Clock, D
<1>3. o.date \in D /\ o.tod \in Clock
  BY <1>2, SMT
<1>4. o \in [date : Dates, tod : Clock]
  BY <1>1, <1>2, SMT
<1> QED BY <1>1, <1>3, <1>4 DEF Times

\* A start is a time after the beginning of the calendar.
LEMMA StartMoments ==
  ASSUME NEW cal, NEW o \in StartTimes
  PROVE  o \in Times /\ Moment(cal, o) \in Nat
<1> DEFINE p == o.date.y - 1
<1>1. o \in Times /\ p \in Nat /\ o.date.m \in 1..12 /\ o.date.d \in 1..31 /\ o.tod \in Nat
  BY StartTimeParts, ClockSeconds, SMT
<1>2. Before[o.date.m] \in Nat
  BY <1>1, SMT DEF Before
<1>3. 365 * p + p \div 4 - p \div 100 + p \div 400 \in Nat
  <2> HIDE DEF p
  <2>1. p \div 4 >= p \div 100 /\ p \div 400 >= 0 /\ p \div 4 \in Nat /\ p \div 100 \in Nat /\ p \div 400 \in Nat
    BY <1>1, SMT
  <2> QED BY <1>1, <2>1, SMT
<1>4. DayNumber(cal, o.date) \in Nat
  <2> DEFINE l == IF o.date.m > 2 /\ Leap(o.date.y) THEN 1 ELSE 0
  <2>1. DayNumber(cal, o.date) =
          IF cal = "NO_LEAP" THEN 365 * p + Before[o.date.m] + o.date.d
          ELSE (365 * p + p \div 4 - p \div 100 + p \div 400) + Before[o.date.m] + o.date.d + l
    BY <1>1, <1>2, SMT DEF DayNumber
  <2>2. l \in Nat
    BY SMT
  <2>3. 365 * p + Before[o.date.m] + o.date.d \in Nat
    BY <1>1, <1>2, SMT
  <2> DEFINE c == 365 * p + p \div 4 - p \div 100 + p \div 400
  <2>4. c \in Nat
    BY <1>3
  <2> HIDE DEF p, l, c
  <2>5. c + Before[o.date.m] + o.date.d + l \in Nat
    BY <1>1, <1>2, <2>2, <2>4, SMT
  <2> QED BY <2>1, <2>3, <2>5, SMT DEF c
<1> QED BY <1>1, <1>4, SMT DEF Moment

\* A time is determined by its seconds.
LEMMA TimeOfMoment ==
  ASSUME NEW cal, NEW m \in Nat
  PROVE  TimeAt(cal, m) \in Times /\ Moment(cal, TimeAt(cal, m)) = m
<1>1. m \div 86400 \in Nat /\ m % 86400 \in Clock /\ (m \div 86400) * 86400 + (m % 86400) = m
  BY ClockSeconds, SMT
<1>2. /\ DateOf(cal, m \div 86400) \in Dates
      /\ DayNumber(cal, DateOf(cal, m \div 86400)) = m \div 86400
  BY <1>1, NumberOfDate, SMT
<1>3. /\ TimeAt(cal, m).date = DateOf(cal, m \div 86400) /\ TimeAt(cal, m).tod = m % 86400
      /\ TimeAt(cal, m) = [date |-> DateOf(cal, m \div 86400), tod |-> m % 86400]
  BY SMT DEF TimeAt
<1>4. Moment(cal, TimeAt(cal, m)) = m
  BY <1>1, <1>2, <1>3, SMT DEF Moment
<1>5. TimeAt(cal, m) \in Times
  BY <1>1, <1>2, <1>3, SMT DEF Times
<1> QED BY <1>4, <1>5, SMT

\* n units later is that many seconds later.
LEMMA AfterIsLater ==
  ASSUME NEW cal, NEW t \in Tests, NEW n \in Nat, NEW o \in Times, Moment(cal, o) \in Nat
  PROVE  After(cal, t, o, n) = TimeAt(cal, Moment(cal, o) + n * Unit(t))
<1> DEFINE d == DayNumber(cal, o.date)
           a == Span(t, n)[1]
           b == Span(t, n)[2]
           u == n * Unit(t)
           secs == o.tod + b
<1>1. d \in Int /\ o.tod \in Clock
  BY NumbersInMonth, SMT DEF Times
<1>2. a \in Nat /\ b \in Clock /\ u \in Nat /\ a * 86400 + b = u
  BY SpanSeconds, SMT
<1>3. Moment(cal, o) = d * 86400 + o.tod
  BY SMT DEF Moment
<1>4. After(cal, t, o, n) = [date |-> DateOf(cal, d + (a + secs \div 86400)), tod |-> secs % 86400]
  BY SMT DEF After, AddDays
<1>5. TimeAt(cal, Moment(cal, o) + u)
        = [date |-> DateOf(cal, (Moment(cal, o) + u) \div 86400), tod |-> (Moment(cal, o) + u) % 86400]
  BY SMT DEF TimeAt
<1> HIDE DEF d, a, b, u
<1>6. Moment(cal, o) + u = (d + a) * 86400 + secs
  BY <1>1, <1>2, <1>3, ClockSeconds, SMT
<1>7. ASSUME NEW x \in Int, NEW s \in Nat
      PROVE  /\ (x * 86400 + s) \div 86400 = x + s \div 86400
             /\ (x * 86400 + s) % 86400 = s % 86400
  BY SMT
<1>8. secs \in Nat /\ d + a \in Int
  BY <1>1, <1>2, ClockSeconds, SMT
<1>9. /\ (Moment(cal, o) + u) \div 86400 = d + (a + secs \div 86400)
      /\ (Moment(cal, o) + u) % 86400 = secs % 86400
  <2>1. /\ (Moment(cal, o) + u) \div 86400 = (d + a) + secs \div 86400
        /\ (Moment(cal, o) + u) % 86400 = secs % 86400
    BY <1>6, <1>7, <1>8, SMT
  <2> QED BY <2>1, <1>1, <1>2, <1>8, SMT
<1>10. TimeAt(cal, Moment(cal, o) + u) = After(cal, t, o, n)
  BY <1>4, <1>5, <1>9, SMT
<1> QED BY <1>10, SMT DEF u

\* Restarts at different units have different times.
LEMMA TimesDiffer ==
  ASSUME NEW t \in Tests, NEW o \in StartTimes, NEW m \in Nat, NEW n \in Nat,
         ModelTime(t, o, m) = ModelTime(t, o, n)
  PROVE  m = n
<1>1. CASE t.option = "nyears" /\ t.cal # "NO_LEAP"
  <2>1. ModelTime(t, o, m) = [o EXCEPT !.date.y = @ + m] /\ ModelTime(t, o, n) = [o EXCEPT !.date.y = @ + n]
    BY <1>1, SMT DEF ModelTime
  <2>2. o.date.y \in Nat /\ o.date \in Dates /\ o \in Times
    BY StartTimeParts, SMT
  <2>3. \A k \in Nat : [o EXCEPT !.date.y = @ + k].date.y = o.date.y + k
    <3> SUFFICES ASSUME NEW k \in Nat PROVE [o EXCEPT !.date.y = @ + k].date.y = o.date.y + k
      OBVIOUS
    <3> DEFINE z == [o.date EXCEPT !.y = o.date.y + k]
    <3>1. z.y = o.date.y + k
      BY <2>2, SMT DEF Dates
    <3> HIDE DEF z
    <3>2. [o EXCEPT !.date = z].date = z
      BY <2>2, SMT DEF Times
    <3> QED BY <3>1, <3>2 DEF z
  <2>4. ModelTime(t, o, m).date.y = o.date.y + m /\ ModelTime(t, o, n).date.y = o.date.y + n
    BY <2>1, <2>3, Zenon
  <2> QED BY <2>2, <2>4, SMT
<1>2. CASE ~(t.option = "nyears" /\ t.cal # "NO_LEAP")
  <2> DEFINE M == Moment(t.cal, o)
  <2>1. o \in Times /\ M \in Nat
    BY StartMoments, SMT
  <2>2. m * Unit(t) \in Nat /\ n * Unit(t) \in Nat /\ Unit(t) \in Nat \ {0}
    BY SpanSeconds, PositiveSeconds, SMT
  <2>3. /\ ModelTime(t, o, m) = TimeAt(t.cal, M + m * Unit(t))
        /\ ModelTime(t, o, n) = TimeAt(t.cal, M + n * Unit(t))
    BY <1>2, <2>1, AfterIsLater, SMT DEF ModelTime
  <2> HIDE DEF M
  <2>4. M + m * Unit(t) \in Nat /\ M + n * Unit(t) \in Nat
    BY <2>1, <2>2, SMT
  <2>5. M + m * Unit(t) = M + n * Unit(t)
    <3>1. \A x \in Nat : Moment(t.cal, TimeAt(t.cal, x)) = x
      BY TimeOfMoment
    <3>2. TimeAt(t.cal, M + m * Unit(t)) = TimeAt(t.cal, M + n * Unit(t))
      BY <2>3
    <3> DEFINE a == M + m * Unit(t)
               b == M + n * Unit(t)
    <3>3. a \in Nat /\ b \in Nat /\ TimeAt(t.cal, a) = TimeAt(t.cal, b)
      BY <2>4, <3>2
    <3> HIDE DEF a, b
    <3>4. a = b
      BY <3>1, <3>3
    <3> QED BY <3>4 DEF a, b
  <2>6. m * Unit(t) = n * Unit(t)
    BY <2>1, <2>2, <2>5, SMT
  <2> QED BY <2>2, <2>6, SMT
<1> QED BY <1>1, <1>2, SMT

\* In the calendar of Python's dates, and but for years, the time computed for
\* a restart is that of the model.
LEMMA GregorianNames ==
  ASSUME NEW t \in Tests, t.cal # "NO_LEAP", t.option # "nyears",
         NEW o \in StartTimes, NEW m \in Nat, NEW n \in Nat
  PROVE  /\ RestTime(t, o, n) = ModelTime(t, o, n)
         /\ RestTime(t, ModelTime(t, o, m), n) = ModelTime(t, o, m + n)
<1>1. t.cal = "GREGORIAN"
  BY TestAssumption, SMT
<1>2. \A x \in Nat : ModelTime(t, o, x) = After("GREGORIAN", t, o, x)
  BY <1>1, SMT DEF ModelTime
<1>3. \A x, y : RestTime(t, x, y) = After("GREGORIAN", t, x, y)
  BY <1>1, SMT DEF RestTime
<1> DEFINE M == Moment("GREGORIAN", o)
           a == m * Unit(t)
           b == n * Unit(t)
<1>4. o \in Times /\ M \in Nat
  BY StartMoments, SMT
<1>5. a \in Nat /\ b \in Nat /\ Unit(t) \in Nat
  BY SpanSeconds, PositiveSeconds, SMT
<1>6. a + b = (m + n) * Unit(t)
  BY <1>5, SMT
<1>7. After("GREGORIAN", t, o, m) = TimeAt("GREGORIAN", M + a)
  BY <1>4, AfterIsLater, SMT
<1>8. m + n \in Nat
  BY SMT
<1>9. After("GREGORIAN", t, o, m + n) = TimeAt("GREGORIAN", M + (a + b))
  BY <1>4, <1>6, <1>8, AfterIsLater, SMT
<1> HIDE DEF M, a
<1>10. /\ TimeAt("GREGORIAN", M + a) \in Times
       /\ Moment("GREGORIAN", TimeAt("GREGORIAN", M + a)) = M + a /\ M + a \in Nat
  BY <1>4, <1>5, TimeOfMoment, SMT
<1>11. After("GREGORIAN", t, TimeAt("GREGORIAN", M + a), n) = TimeAt("GREGORIAN", (M + a) + b)
  BY <1>10, AfterIsLater, SMT
<1> HIDE DEF b
<1>12. (M + a) + b = M + (a + b)
  BY <1>4, <1>5, SMT
<1> QED BY <1>2, <1>3, <1>7, <1>8, <1>9, <1>11, <1>12, SMT

-----------------------------------------------------------------------------
(* Leap days *)

\* The leap years up to year p
Leaps(p) == p \div 4 - p \div 100 + p \div 400

\* No leap day lies between the days o and e of the calendar without leap years.
NoLeapDay(o, e) ==
  \A y \in o.y .. e.y : Leap(y) => y = e.y /\ (e.m <= 2 \/ (o.m > 2 /\ o.y = e.y))

\* A leap year adds a leap day, and no other year does.
LEMMA LeapsStep ==
  ASSUME NEW y \in Nat \ {0}
  PROVE  Leaps(y) = Leaps(y - 1) + (IF Leap(y) THEN 1 ELSE 0)
<1>1. /\ y \div 4 = (y - 1) \div 4 + (IF y % 4 = 0 THEN 1 ELSE 0)
      /\ y \div 100 = (y - 1) \div 100 + (IF y % 100 = 0 THEN 1 ELSE 0)
      /\ y \div 400 = (y - 1) \div 400 + (IF y % 400 = 0 THEN 1 ELSE 0)
  BY SMT
<1>2. (y % 400 = 0 => y % 100 = 0) /\ (y % 100 = 0 => y % 4 = 0)
  BY SMT
<1>3. /\ y \div 4 \in Int /\ y \div 100 \in Int /\ y \div 400 \in Int
      /\ (y - 1) \div 4 \in Int /\ (y - 1) \div 100 \in Int /\ (y - 1) \div 400 \in Int
  BY SMT
<1> DEFINE a == y \div 4
           b == y \div 100
           c == y \div 400
           k == (y - 1) \div 4
           l == (y - 1) \div 100
           m == (y - 1) \div 400
<1>4. Leap(y) <=> (y % 4 = 0 /\ (y % 100 # 0 \/ y % 400 = 0))
  BY DEF Leap
<1>5. Leaps(y) = a - b + c /\ Leaps(y - 1) = k - l + m
  BY DEF Leaps
<1> HIDE DEF a, b, c, k, l, m
<1> QED BY <1>1, <1>2, <1>3, <1>4, <1>5, SMT DEF a, b, c, k, l, m

\* The years are numbered in their order.
LEMMA LeapsGrow ==
  ASSUME NEW p \in Nat, NEW q \in Nat, p <= q
  PROVE  /\ Leaps(p) \in 0..p /\ Leaps(q) \in 0..q
         /\ 365 * p + Leaps(p) <= 365 * q + Leaps(q) /\ (p < q => 365 * p + Leaps(p) + 364 <= 365 * q + Leaps(q))
<1>1. ASSUME NEW n \in Nat
      PROVE  /\ n \div 4 \in Nat /\ n \div 100 \in Nat /\ n \div 400 \in Nat
             /\ n \div 100 <= n \div 4 /\ n \div 4 <= n /\ n \div 400 <= n \div 100
  BY SMT
<1>2. p \div 4 <= q \div 4 /\ p \div 400 <= q \div 400 /\ q \div 100 - p \div 100 <= q - p
  BY SMT
<1> DEFINE a == p \div 4
           b == p \div 100
           c == p \div 400
           k == q \div 4
           l == q \div 100
           m == q \div 400
<1>3. /\ a \in Nat /\ b \in Nat /\ c \in Nat /\ b <= a /\ a <= p /\ c <= b
      /\ k \in Nat /\ l \in Nat /\ m \in Nat /\ l <= k /\ k <= q /\ m <= l
      /\ a <= k /\ c <= m /\ l - b <= q - p
  BY <1>1, <1>2
<1>4. Leaps(p) = a - b + c /\ Leaps(q) = k - l + m
  BY DEF Leaps
<1> HIDE DEF a, b, c, k, l, m
<1>5. Leaps(p) \in 0..p /\ Leaps(q) \in 0..q
  BY <1>3, <1>4, SMT
<1>6. Leaps(q) - Leaps(p) >= 0 - (q - p)
  BY <1>3, <1>4, SMT
<1> QED BY <1>5, <1>6, SMT

\* Years without a leap day add none.
LEMMA LeapsStay ==
  ASSUME NEW a \in Nat \ {0}, NEW b \in Nat, a <= b, \A y \in a .. (b - 1) : ~Leap(y)
  PROVE  Leaps(b - 1) = Leaps(a - 1)
<1> DEFINE S == {y \in a .. b : Leaps(y - 1) # Leaps(a - 1)}
<1>1. CASE S = {}
  <2>1. b \in a .. b
    OBVIOUS
  <2>2. ~(Leaps(b - 1) # Leaps(a - 1))
    BY <1>1, <2>1
  <2> QED BY <2>2
<1>2. CASE S # {}
  <2>1. S \in SUBSET Nat
    OBVIOUS
  <2>2. PICK x \in S : \A y \in S : x <= y
    BY <1>2, <2>1, LeastOfSome
  <2>3. x \in a .. b /\ x # a /\ Leaps(x - 1) # Leaps(a - 1)
    BY <2>2
  <2>4. x - 1 \in a .. b /\ x - 1 \notin S
    BY <2>2, <2>3
  <2>5. Leaps(x - 1 - 1) = Leaps(a - 1)
    BY <2>4
  <2>6. ~Leap(x - 1) /\ x - 1 \in Nat \ {0}
    BY <2>3
  <2>7. Leaps(x - 1) = Leaps(x - 1 - 1) + 0
    BY <2>6, LeapsStep
  <2>8. Leaps(x - 1 - 1) \in Int
    BY <2>6, LeapsGrow
  <2> QED BY <2>3, <2>5, <2>7, <2>8
<1> QED BY <1>1, <1>2

\* The first day of month m of year k
First(k, m) == [y |-> k, m |-> m, d |-> 1]

\* The leap days a calendar has had up to month m of year k
LeapDays(cal, k, m) ==
  IF cal = "NO_LEAP" THEN 0 ELSE Leaps(k - 1) + (IF m > 2 /\ Leap(k) THEN 1 ELSE 0)

\* The number of a day is that of a year of 365 days with the leap days before it.
LEMMA NumberOfDay ==
  ASSUME NEW cal, NEW k \in Nat \ {0}, NEW m \in 1..12, NEW d \in Int
  PROVE  /\ DayNumber(cal, [y |-> k, m |-> m, d |-> d]) = 365 * (k - 1) + Before[m] + d + LeapDays(cal, k, m)
         /\ LeapDays(cal, k, m) \in Nat /\ Before[m] \in 0..334
<1>1. Before[m] \in 0..334
  BY DEF Before
<1>2. Leaps(k - 1) \in Nat
  BY LeapsGrow
<1> DEFINE x == [y |-> k, m |-> m, d |-> d]
           l == IF m > 2 /\ Leap(k) THEN 1 ELSE 0
<1>3. x.y = k /\ x.m = m /\ x.d = d
  OBVIOUS
<1> HIDE DEF x
<1>4. l \in Nat
  OBVIOUS
<1>5. DayNumber(cal, x) = IF cal = "NO_LEAP" THEN 365 * (k - 1) + Before[m] + d
         ELSE 365 * (k - 1) + (k - 1) \div 4 - (k - 1) \div 100 + (k - 1) \div 400 + Before[m] + d + l
  BY <1>3 DEF DayNumber
<1>6. LeapDays(cal, k, m) = IF cal = "NO_LEAP" THEN 0 ELSE Leaps(k - 1) + l
  BY DEF LeapDays
<1> DEFINE a == (k - 1) \div 4
           b == (k - 1) \div 100
           c == (k - 1) \div 400
<1>7. a \in Int /\ b \in Int /\ c \in Int /\ Leaps(k - 1) = a - b + c
  BY DEF Leaps
<1> HIDE DEF a, b, c, l
<1>8. DayNumber(cal, x) = 365 * (k - 1) + Before[m] + d + LeapDays(cal, k, m)
  BY <1>1, <1>2, <1>4, <1>5, <1>6, <1>7 DEF a, b, c
<1>9. LeapDays(cal, k, m) \in Nat
  BY <1>2, <1>4, <1>6
<1> QED BY <1>1, <1>8, <1>9 DEF x

\* The number of the first of a month, and the order of these numbers
LEMMA NumberOfFirst ==
  ASSUME NEW cal, NEW k \in Nat \ {0}, NEW m \in 1..12
  PROVE  /\ First(k, m) \in Dates
         /\ DayNumber(cal, First(k, m)) = 365 * (k - 1) + Before[m] + 1 + LeapDays(cal, k, m)
         /\ LeapDays(cal, k, m) \in Nat /\ Before[m] \in 0..334
<1>1. First(k, m) \in Dates
  BY DEF First, Dates
<1>2. /\ DayNumber(cal, [y |-> k, m |-> m, d |-> 1]) = 365 * (k - 1) + Before[m] + 1 + LeapDays(cal, k, m)
      /\ LeapDays(cal, k, m) \in Nat /\ Before[m] \in 0..334
  <2>1. 1 \in Int
    OBVIOUS
  <2> QED BY <2>1, NumberOfDay, Zenon
<1>3. First(k, m) = [y |-> k, m |-> m, d |-> 1]
  BY DEF First
<1> QED BY <1>1, <1>2, <1>3, Zenon

\* The number of the first of a month is an integer.
LEMMA FirstIsInt ==
  ASSUME NEW cal, NEW k \in Nat \ {0}, NEW m \in 1..12
  PROVE  DayNumber(cal, First(k, m)) \in Int
<1> DEFINE u == Before[m]
           a == LeapDays(cal, k, m)
<1>1. DayNumber(cal, First(k, m)) = 365 * (k - 1) + u + 1 + a /\ u \in 0..334 /\ a \in Nat
  BY NumberOfFirst
<1> HIDE DEF u, a
<1> QED BY <1>1

LEMMA MonthsAscend ==
  ASSUME NEW cal, NEW k \in Nat \ {0}, NEW m \in 1..12, NEW later \in 1..12, m < later
  PROVE  DayNumber(cal, First(k, m)) < DayNumber(cal, First(k, later))
<1>1. Before[m] < Before[later]
  BY DEF Before
<1>2. LeapDays(cal, k, m) <= LeapDays(cal, k, later)
  <2>1. Leaps(k - 1) \in Int
    BY LeapsGrow
  <2> QED BY <2>1 DEF LeapDays
<1> DEFINE x == DayNumber(cal, First(k, m))
           z == DayNumber(cal, First(k, later))
           a == LeapDays(cal, k, m)
           b == LeapDays(cal, k, later)
           u == Before[m]
           v == Before[later]
<1>3. x = 365 * (k - 1) + u + 1 + a /\ u \in 0..334 /\ a \in Nat
  BY NumberOfFirst
<1>4. z = 365 * (k - 1) + v + 1 + b /\ v \in 0..334 /\ b \in Nat
  BY NumberOfFirst
<1>5. u < v /\ a <= b
  BY <1>1, <1>2
<1> HIDE DEF x, z, a, b, u, v
<1>6. x < z
  BY <1>3, <1>4, <1>5
<1> QED BY <1>6 DEF x, z

LEMMA YearsAscend ==
  ASSUME NEW cal, NEW k \in Nat \ {0}, NEW l \in Nat \ {0}, k < l
  PROVE  DayNumber(cal, First(k, 1)) < DayNumber(cal, First(l, 1))
<1>1. 365 * (k - 1) + Leaps(k - 1) + 364 <= 365 * (l - 1) + Leaps(l - 1) /\ Leaps(k - 1) \in Int /\ Leaps(l - 1) \in Int
  <2> DEFINE p == k - 1
             q == l - 1
  <2>1. p \in Nat /\ q \in Nat /\ p < q /\ p <= q
    OBVIOUS
  <2> HIDE DEF p, q
  <2>2. Leaps(p) \in 0..p /\ Leaps(q) \in 0..q /\ 365 * p + Leaps(p) + 364 <= 365 * q + Leaps(q)
    BY <2>1, LeapsGrow
  <2> QED BY <2>1, <2>2 DEF p, q
<1>2. /\ LeapDays(cal, k, 1) = IF cal = "NO_LEAP" THEN 0 ELSE Leaps(k - 1)
      /\ LeapDays(cal, l, 1) = IF cal = "NO_LEAP" THEN 0 ELSE Leaps(l - 1)
  BY <1>1 DEF LeapDays
<1>3. Before[1] = 0
  BY DEF Before
<1> DEFINE x == DayNumber(cal, First(k, 1))
           z == DayNumber(cal, First(l, 1))
           a == LeapDays(cal, k, 1)
           b == LeapDays(cal, l, 1)
<1>4. x = 365 * (k - 1) + 0 + 1 + a /\ a \in Nat
  BY <1>3, NumberOfFirst
<1>5. z = 365 * (l - 1) + 0 + 1 + b /\ b \in Nat
  BY <1>3, NumberOfFirst
<1>6. a = (IF cal = "NO_LEAP" THEN 0 ELSE Leaps(k - 1)) /\ b = (IF cal = "NO_LEAP" THEN 0 ELSE Leaps(l - 1))
  BY <1>2
<1> HIDE DEF x, z, a, b
<1>7. x < z
  BY <1>1, <1>4, <1>5, <1>6
<1> QED BY <1>7 DEF x, z

\* The latest of some days is the one that is later than the others.
LEMMA LatestIs ==
  ASSUME NEW cal, NEW S, NEW x \in S, \A o \in S : DayNumber(cal, o) \in Int,
         \A o \in S : o # x => DayNumber(cal, o) < DayNumber(cal, x)
  PROVE  Latest(cal, S) = x
<1>1. \A o \in S : DayNumber(cal, o) <= DayNumber(cal, x)
  OBVIOUS
<1>2. ASSUME NEW z \in S, \A o \in S : DayNumber(cal, o) <= DayNumber(cal, z) PROVE z = x
  <2>1. DayNumber(cal, x) <= DayNumber(cal, z) /\ DayNumber(cal, x) \in Int /\ DayNumber(cal, z) \in Int
    BY <1>2
  <2>2. ~(DayNumber(cal, z) < DayNumber(cal, x))
    BY <2>1
  <2> QED BY <2>2
<1> QED BY <1>1, <1>2 DEF Latest

\* The year of a day is the one whose January begins before it, the last one.
LEMMA YearFound ==
  ASSUME NEW cal, NEW n \in Nat, NEW k \in Nat \ {0},
         DayNumber(cal, First(k, 1)) <= n, n < DayNumber(cal, First(k + 1, 1))
  PROVE  YearOf(cal, n) = First(k, 1)
<1> DEFINE lo == (n - 1) \div 366
           hi == (n + 365) \div 365
           S == {o \in {[y |-> l, m |-> 1, d |-> 1] : l \in lo .. hi} : DayNumber(cal, o) <= n}
           a == LeapDays(cal, k, 1)
           b == LeapDays(cal, k + 1, 1)
<1>1. Before[1] = 0
  BY DEF Before
<1>2. DayNumber(cal, First(k, 1)) = 365 * (k - 1) + 0 + 1 + a /\ a \in Nat
  BY <1>1, NumberOfFirst
<1>3. DayNumber(cal, First(k + 1, 1)) = 365 * k + 0 + 1 + b /\ b \in 0 .. k
  <2> DEFINE q == k + 1
  <2>1. q \in Nat \ {0} /\ q - 1 = k
    OBVIOUS
  <2> HIDE DEF q
  <2>2. DayNumber(cal, First(q, 1)) = 365 * (q - 1) + 0 + 1 + LeapDays(cal, q, 1)
    BY <1>1, <2>1, NumberOfFirst
  <2>3. Leaps(k) \in 0 .. k
    BY LeapsGrow
  <2>4. LeapDays(cal, q, 1) \in 0 .. k
    BY <2>1, <2>3 DEF LeapDays
  <2> QED BY <2>1, <2>2, <2>4 DEF q
<1> HIDE DEF a, b
<1>4. /\ n \in Nat /\ n >= 1 /\ 365 * (k - 1) + 1 <= n /\ n < 366 * k + 1
  BY <1>2, <1>3
<1>5. k \in lo .. hi /\ lo \in Nat /\ hi \in Int
  BY <1>4
<1> HIDE DEF lo, hi
<1>6. First(k, 1) \in S
  BY <1>5 DEF First
<1>7. \A l \in Nat \ {0} : DayNumber(cal, First(l, 1)) \in Int
  BY NumberOfFirst
<1>8. DayNumber(cal, First(0, 1)) \in Int /\ DayNumber(cal, First(0, 1)) <= 0
  <2>1. DayNumber(cal, First(0, 1)) = IF cal = "NO_LEAP" THEN 365 * (0 - 1) + 0 + 1
          ELSE 365 * (0 - 1) + (0 - 1) \div 4 - (0 - 1) \div 100 + (0 - 1) \div 400 + 0 + 1 + 0
    BY <1>1 DEF DayNumber, First
  <2>2. \A p \in Int : p = 0 - 1 => /\ p \div 4 \in Int /\ p \div 100 \in Int /\ p \div 400 \in Int
                                   /\ p \div 4 - p \div 100 + p \div 400 <= 0
    OBVIOUS
  <2> DEFINE p == 0 - 1
  <2>3. p \in Int /\ p = 0 - 1
    OBVIOUS
  <2> HIDE DEF p
  <2>4. /\ p \div 4 \in Int /\ p \div 100 \in Int /\ p \div 400 \in Int
        /\ p \div 4 - p \div 100 + p \div 400 <= 0
    BY <2>2, <2>3
  <2>5. DayNumber(cal, First(0, 1)) = IF cal = "NO_LEAP" THEN 365 * p + 1
          ELSE 365 * p + (p \div 4 - p \div 100 + p \div 400) + 1
    BY <2>1, <2>3, <2>4 DEF p
  <2> QED BY <2>3, <2>4, <2>5
<1>9. ASSUME NEW o \in S
      PROVE DayNumber(cal, o) \in Int /\ (o # First(k, 1) => DayNumber(cal, o) < DayNumber(cal, First(k, 1)))
  <2>1. PICK l \in lo .. hi : o = First(l, 1)
    BY DEF First
  <2>2. l \in Nat /\ DayNumber(cal, o) <= n
    BY <1>5, <2>1
  <2>3. CASE l = 0
    BY <1>2, <1>8, <2>1, <2>3
  <2>4. CASE l # 0 /\ l < k
    BY <1>7, <2>1, <2>2, <2>4, YearsAscend
  <2>5. CASE l # 0 /\ l = k
    BY <1>7, <2>1, <2>5
  <2>6. CASE l # 0 /\ l > k
    <3> DEFINE q == k + 1
    <3>1. q \in Nat \ {0} /\ (l = q \/ q < l)
      BY <2>2, <2>6
    <3> HIDE DEF q
    <3>2. DayNumber(cal, First(q, 1)) \in Int /\ DayNumber(cal, First(l, 1)) \in Int
      BY <1>7, <2>2, <2>6, <3>1
    <3>3. DayNumber(cal, First(q, 1)) <= DayNumber(cal, First(l, 1))
      BY <2>2, <2>6, <3>1, <3>2, YearsAscend
    <3>4. n < DayNumber(cal, First(q, 1))
      BY DEF q
    <3> QED BY <2>1, <2>2, <3>2, <3>3, <3>4
  <2> QED BY <2>2, <2>3, <2>4, <2>5, <2>6
<1>10. YearOf(cal, n) = Latest(cal, S)
  BY DEF YearOf, lo, hi
<1> HIDE DEF S
<1> QED BY <1>6, <1>9, <1>10, LatestIs

\* The month of a day is the last one of its year that begins before it.
LEMMA MonthFound ==
  ASSUME NEW cal, NEW n \in Nat, NEW k \in Nat \ {0}, NEW m \in 1..12,
         YearOf(cal, n) = First(k, 1), DayNumber(cal, First(k, m)) <= n,
         \A later \in 1..12 : m < later => n < DayNumber(cal, First(k, later))
  PROVE  MonthOf(cal, n) = First(k, m)
<1> DEFINE S == {o \in {[YearOf(cal, n) EXCEPT !.m = later] : later \in 1..12} : DayNumber(cal, o) <= n}
<1>1. \A later : [YearOf(cal, n) EXCEPT !.m = later] = First(k, later)
  <2>1. \A later : [[y |-> k, m |-> 1, d |-> 1] EXCEPT !.m = later] = [y |-> k, m |-> later, d |-> 1]
    OBVIOUS
  <2> QED BY <2>1 DEF First
<1>2. \A later \in 1..12 : DayNumber(cal, First(k, later)) \in Int
  BY FirstIsInt
<1>3. First(k, m) \in S
  BY <1>1
<1>4. ASSUME NEW o \in S
      PROVE DayNumber(cal, o) \in Int /\ (o # First(k, m) => DayNumber(cal, o) < DayNumber(cal, First(k, m)))
  <2>1. PICK later \in 1..12 : o = First(k, later)
    BY <1>1
  <2>2. DayNumber(cal, o) <= n
    OBVIOUS
  <2>3. ~(m < later)
    BY <1>2, <2>1, <2>2
  <2>4. CASE later < m
    BY <1>2, <2>1, <2>4, MonthsAscend
  <2>5. CASE later = m
    BY <1>2, <2>1, <2>5
  <2> QED BY <2>3, <2>4, <2>5
<1>5. MonthOf(cal, n) = Latest(cal, S)
  BY DEF MonthOf
<1> HIDE DEF S
<1> QED BY <1>3, <1>4, <1>5, LatestIs

\* A day of month m of year k that is before the next month is the date of its number.
LEMMA DateFound ==
  ASSUME NEW cal, NEW n \in Nat, NEW k \in Nat \ {0}, NEW m \in 1..12,
         DayNumber(cal, First(k, m)) <= n, n < DayNumber(cal, First(k + 1, 1)),
         \A later \in 1..12 : m < later => n < DayNumber(cal, First(k, later))
  PROVE  DateOf(cal, n) = [y |-> k, m |-> m, d |-> n - DayNumber(cal, First(k, m)) + 1]
<1>1. DayNumber(cal, First(k, 1)) <= DayNumber(cal, First(k, m))
  <2>1. 1 \in 1..12 /\ \A later \in 1..12 : DayNumber(cal, First(k, later)) \in Int
    BY FirstIsInt
  <2>2. CASE m = 1
    BY <2>1, <2>2
  <2>3. CASE 1 < m
    BY <2>1, <2>3, MonthsAscend
  <2> QED BY <2>2, <2>3
<1>2. DayNumber(cal, First(k, 1)) \in Int /\ DayNumber(cal, First(k, m)) \in Int
  <2>1. 1 \in 1..12 /\ \A later \in 1..12 : DayNumber(cal, First(k, later)) \in Int
    BY FirstIsInt
  <2> QED BY <2>1
<1>3. YearOf(cal, n) = First(k, 1)
  <2>1. DayNumber(cal, First(k, 1)) <= n
    BY <1>1, <1>2
  <2> QED BY <2>1, YearFound
<1>4. MonthOf(cal, n) = First(k, m)
  BY <1>3, MonthFound
<1> QED BY <1>4 DEF DateOf, First

\* A year without a leap day has 365 days.
LEMMA NoLeapNumber ==
  ASSUME NEW k \in Nat, NEW m \in 1..12
  PROVE  DayNumber("NO_LEAP", First(k, m)) = 365 * (k - 1) + Before[m] + 1 /\ Before[m] \in 0..334
<1>1. Before[m] \in 0..334
  BY DEF Before
<1>2. First(k, m).y = k /\ First(k, m).m = m /\ First(k, m).d = 1
  BY DEF First
<1> QED BY <1>1, <1>2 DEF DayNumber

\* Where a number lies in the calendar without leap years
LEMMA NoLeapParts ==
  ASSUME NEW n \in Nat \ {0}
  PROVE  LET e == DateOf("NO_LEAP", n)
         IN /\ e.y \in Nat \ {0} /\ e.m \in 1..12 /\ e.d \in Nat \ {0}
            /\ e = [y |-> e.y, m |-> e.m, d |-> e.d]
            /\ n = 365 * (e.y - 1) + Before[e.m] + e.d
            /\ n <= 365 * e.y
            /\ \A later \in 1..12 : e.m < later => n < 365 * (e.y - 1) + Before[later] + 1
<1> DEFINE k == (n - 1) \div 365 + 1
           r == n - 365 * (k - 1)
           T == {m \in 1..12 : r < Before[m] + 1}
<1>1. k \in Nat \ {0} /\ r \in 1..365 /\ n = 365 * (k - 1) + r
  OBVIOUS
<1> HIDE DEF k, r
<1>2. \A m \in 1..12 : Before[m] \in 0..334
  BY DEF Before
<1>3. Before[1] = 0
  BY DEF Before
<1>4. \E m \in 1..12 : Before[m] + 1 <= r /\ \A later \in 1..12 : m < later => r < Before[later] + 1
  <2>1. CASE T = {}
    <3>1. Before[12] + 1 <= r
      BY <1>1, <1>2, <2>1
    <3> QED BY <3>1
  <2>2. CASE T # {}
    <3>1. T \in SUBSET Nat
      OBVIOUS
    <3>2. PICK x \in T : \A y \in T : x <= y
      BY <2>2, <3>1, LeastOfSome
    <3>3. x \in 1..12 /\ x # 1
      BY <1>1, <1>3, <3>2
    <3> DEFINE w == x - 1
    <3>4. w \in 1..12 /\ w \notin T /\ \A later \in 1..12 : w < later => x <= later
      BY <3>2, <3>3
    <3> HIDE DEF w
    <3>5. Before[w] + 1 <= r
      <4>1. ~(r < Before[w] + 1) /\ Before[w] \in 0..334
        BY <1>2, <3>4
      <4> QED BY <1>1, <4>1
    <3>6. ASSUME NEW later \in 1..12, w < later PROVE r < Before[later] + 1
      <4>1. x <= later
        BY <3>4, <3>6
      <4>2. Before[x] <= Before[later]
        BY <3>3, <4>1 DEF Before
      <4>3. r < Before[x] + 1 /\ Before[x] \in 0..334 /\ Before[later] \in 0..334
        BY <1>2, <3>2, <3>3
      <4> DEFINE u == Before[x]
                 v == Before[later]
      <4>4. u \in Int /\ v \in Int /\ u <= v /\ r < u + 1
        BY <4>2, <4>3
      <4> HIDE DEF u, v
      <4>5. r < v + 1
        BY <1>1, <4>4
      <4> QED BY <4>5 DEF v
    <3> QED BY <3>4, <3>5, <3>6
  <2> QED BY <2>1, <2>2
<1>5. PICK m \in 1..12 : Before[m] + 1 <= r /\ \A later \in 1..12 : m < later => r < Before[later] + 1
  BY <1>4
<1>6. \A later \in 1..12 : DayNumber("NO_LEAP", First(k, later)) = 365 * (k - 1) + Before[later] + 1
  BY <1>1, NoLeapNumber
<1>7. DayNumber("NO_LEAP", First(k + 1, 1)) = 365 * k + 1
  <2> DEFINE q == k + 1
  <2>1. q \in Nat /\ q - 1 = k /\ 1 \in 1..12
    BY <1>1
  <2> HIDE DEF q
  <2>2. DayNumber("NO_LEAP", First(q, 1)) = 365 * (q - 1) + Before[1] + 1
    BY <2>1, NoLeapNumber
  <2> QED BY <1>1, <1>3, <2>1, <2>2 DEF q
<1> DEFINE b == Before[m]
           d == r - b
           x == DayNumber("NO_LEAP", First(k, m))
<1>8. b \in 0..334 /\ b + 1 <= r /\ x = 365 * (k - 1) + b + 1
  BY <1>2, <1>5, <1>6, Zenon
<1>9. \A later \in 1..12 : m < later => n < DayNumber("NO_LEAP", First(k, later)) /\ n < 365 * (k - 1) + Before[later] + 1
  <2> TAKE later \in 1..12
  <2> HAVE m < later
  <2> DEFINE u == Before[later]
  <2>1. r < u + 1 /\ u \in 0..334 /\ DayNumber("NO_LEAP", First(k, later)) = 365 * (k - 1) + u + 1
    BY <1>2, <1>5, <1>6, Zenon
  <2> HIDE DEF u
  <2>2. n < 365 * (k - 1) + u + 1
    BY <1>1, <2>1
  <2> QED BY <2>1, <2>2 DEF u
<1> HIDE DEF b, x
<1>10. d \in Nat \ {0} /\ n - x + 1 = d /\ x <= n /\ n = 365 * (k - 1) + b + d /\ n <= 365 * k
  BY <1>1, <1>8
<1>11. n < DayNumber("NO_LEAP", First(k + 1, 1))
  BY <1>1, <1>7
<1>12. DateOf("NO_LEAP", n) = [y |-> k, m |-> m, d |-> n - x + 1]
  BY <1>1, <1>9, <1>10, <1>11, DateFound DEF x
<1>13. DateOf("NO_LEAP", n) = [y |-> k, m |-> m, d |-> d]
  BY <1>10, <1>12
<1> HIDE DEF d
<1> DEFINE e == DateOf("NO_LEAP", n)
<1>14. e.y = k /\ e.m = m /\ e.d = d
  BY <1>13
<1>15. e = [y |-> e.y, m |-> e.m, d |-> e.d]
  BY <1>13, <1>14
<1>16. n = 365 * (k - 1) + Before[m] + d /\ n <= 365 * k /\ d \in Nat \ {0}
  BY <1>10 DEF b
<1> HIDE DEF e
<1> QED BY <1>1, <1>9, <1>14, <1>15, <1>16 DEF e

\* A day with its leap days is, in the other calendar, the day without them.
LEMMA SameDay ==
  ASSUME NEW o \in Dates, o.y \in Nat \ {0}, o.d \in Nat \ {0}, NEW n \in Nat, NEW e,
         e = DateOf("NO_LEAP", DayNumber("NO_LEAP", o) + n), NoLeapDay(o, e)
  PROVE  /\ DateOf("GREGORIAN", DayNumber("GREGORIAN", o) + n) = e
         /\ DayNumber("GREGORIAN", o) + n \in Nat
         /\ e.y \in Nat \ {0} /\ e.m \in 1..12 /\ e.d \in Nat \ {0} /\ e \in Dates /\ o.y <= e.y
<1> DEFINE k == e.y
           m == e.m
           d == e.d
           a == o.y
           b == Before[o.m]
           c == LeapDays("GREGORIAN", a, o.m)
           x == DayNumber("NO_LEAP", o) + n
           z == DayNumber("GREGORIAN", o) + n
<1>1. /\ o = [y |-> a, m |-> o.m, d |-> o.d] /\ a \in Nat \ {0} /\ o.m \in 1..12
      /\ o.d \in Nat \ {0} /\ o.d \in Int
  BY DEF Dates
<1>2. /\ DayNumber("NO_LEAP", o) = 365 * (a - 1) + b + o.d
      /\ DayNumber("GREGORIAN", o) = 365 * (a - 1) + b + o.d + c /\ c \in Nat /\ b \in 0..334
  <2> DEFINE r == [y |-> a, m |-> o.m, d |-> o.d]
             l == LeapDays("NO_LEAP", a, o.m)
  <2>1. /\ DayNumber("NO_LEAP", r) = 365 * (a - 1) + Before[o.m] + o.d + l
        /\ DayNumber("GREGORIAN", r) = 365 * (a - 1) + Before[o.m] + o.d + LeapDays("GREGORIAN", a, o.m)
        /\ LeapDays("GREGORIAN", a, o.m) \in Nat /\ Before[o.m] \in 0..334
    BY <1>1, NumberOfDay
  <2>2. l = 0
    BY DEF LeapDays
  <2> HIDE DEF r, l
  <2>3. /\ DayNumber("NO_LEAP", o) = 365 * (a - 1) + b + o.d + l
        /\ DayNumber("GREGORIAN", o) = 365 * (a - 1) + b + o.d + c /\ c \in Nat /\ b \in 0..334
    BY <1>1, <2>1, Zenon DEF r
  <2> HIDE DEF b, c
  <2> QED BY <1>1, <2>2, <2>3
<1> HIDE DEF b, c
<1>4. x = 365 * (a - 1) + b + o.d + n /\ z = x + c /\ x \in Nat \ {0} /\ z \in Nat
  <2> DEFINE u == DayNumber("NO_LEAP", o)
             w == DayNumber("GREGORIAN", o)
  <2>1. u = 365 * (a - 1) + b + o.d /\ w = 365 * (a - 1) + b + o.d + c
    BY <1>2
  <2> HIDE DEF u, w
  <2> DEFINE s == 365 * (a - 1) + b + o.d
  <2>2. s \in Nat \ {0} /\ u = s /\ w = s + c
    BY <1>1, <1>2, <2>1
  <2> HIDE DEF s
  <2>3. u + n = s + n /\ w + n = (u + n) + c /\ u + n \in Nat \ {0} /\ w + n \in Nat
    BY <1>2, <2>2
  <2> QED BY <2>3 DEF u, w, s
<1> HIDE DEF x, z
<1>5. /\ k \in Nat \ {0} /\ m \in 1..12 /\ d \in Nat \ {0} /\ e = [y |-> k, m |-> m, d |-> d]
      /\ x = 365 * (k - 1) + Before[m] + d /\ x <= 365 * k
      /\ \A later \in 1..12 : m < later => x < 365 * (k - 1) + Before[later] + 1
  <2>1. e = DateOf("NO_LEAP", x)
    BY DEF x
  <2> QED BY <1>4, <2>1, NoLeapParts
<1>6. e \in Dates
  BY <1>5 DEF Dates
<1> HIDE DEF k, m, d, a
<1>7. a <= k
  BY <1>1, <1>2, <1>4, <1>5
<1>8. a = k => o.m <= m
  <2>1. x >= 365 * (a - 1) + b + 1
    BY <1>1, <1>2, <1>4
  <2>2. ASSUME a = k, m < o.m PROVE FALSE
    <3>1. x < 365 * (k - 1) + b + 1
      BY <1>1, <1>5, <2>2 DEF b
    <3> QED BY <1>1, <1>2, <1>4, <2>1, <2>2, <3>1
  <2> QED BY <1>1, <1>5, <2>2
<1>9. \A y \in a .. k : Leap(y) => y = k /\ (m <= 2 \/ (o.m > 2 /\ a = k))
  BY DEF NoLeapDay, a, k, m
<1>10. Leaps(k - 1) = Leaps(a - 1) /\ Leaps(k - 1) \in Nat
  <2>1. \A y \in a .. (k - 1) : ~Leap(y)
    BY <1>1, <1>5, <1>9
  <2>2. Leaps(k - 1) = Leaps(a - 1)
    BY <1>1, <1>5, <1>7, <2>1, LeapsStay
  <2> DEFINE p == k - 1
  <2>3. p \in Nat
    BY <1>5
  <2> HIDE DEF p
  <2>4. Leaps(p) \in 0..p
    BY <2>3, LeapsGrow
  <2> QED BY <2>2, <2>3, <2>4 DEF p
<1>11. LeapDays("GREGORIAN", k, m) = c
  <2>1. LeapDays("GREGORIAN", k, m) = Leaps(k - 1) + (IF m > 2 /\ Leap(k) THEN 1 ELSE 0)
    BY DEF LeapDays
  <2>2. c = Leaps(a - 1) + (IF o.m > 2 /\ Leap(a) THEN 1 ELSE 0)
    BY DEF LeapDays, c
  <2>3. m > 2 /\ Leap(k) <=> o.m > 2 /\ Leap(a)
    <3>1. a \in a .. k /\ k \in a .. k
      BY <1>1, <1>5, <1>7
    <3>2. Leap(a) => a = k
      BY <1>9, <3>1
    <3>3. Leap(k) => m <= 2 \/ (o.m > 2 /\ a = k)
      BY <1>9, <3>1
    <3> QED BY <1>1, <1>5, <1>8, <3>2, <3>3
  <2> QED BY <1>10, <2>1, <2>2, <2>3
<1>12. \A later \in 1..12 : m < later => c <= LeapDays("GREGORIAN", k, later)
  <2> TAKE later \in 1..12
  <2> HAVE m < later
  <2>1. LeapDays("GREGORIAN", k, later) = Leaps(k - 1) + (IF later > 2 /\ Leap(k) THEN 1 ELSE 0)
    BY DEF LeapDays
  <2>2. c = Leaps(k - 1) + (IF m > 2 /\ Leap(k) THEN 1 ELSE 0)
    BY <1>11 DEF LeapDays
  <2> QED BY <1>5, <1>10, <2>1, <2>2
<1> DEFINE q == k + 1
<1>13. q \in Nat \ {0} /\ q - 1 = k
  BY <1>5
<1> HIDE DEF q
<1>14. c <= LeapDays("GREGORIAN", q, 1)
  <2>1. Leaps(k) = Leaps(k - 1) + (IF Leap(k) THEN 1 ELSE 0)
    BY <1>5, LeapsStep
  <2>2. LeapDays("GREGORIAN", q, 1) = Leaps(k) + 0
    BY <1>13 DEF LeapDays
  <2>3. c = Leaps(k - 1) + (IF m > 2 /\ Leap(k) THEN 1 ELSE 0)
    BY <1>11 DEF LeapDays
  <2> QED BY <1>10, <2>1, <2>2, <2>3
<1>15. DayNumber("GREGORIAN", First(k, m)) = 365 * (k - 1) + Before[m] + 1 + c /\ Before[m] \in 0..334
  BY <1>5, <1>11, NumberOfFirst
<1>16. DayNumber("GREGORIAN", First(k, m)) <= z /\ z - DayNumber("GREGORIAN", First(k, m)) + 1 = d
  <2> DEFINE v == Before[m]
             w == DayNumber("GREGORIAN", First(k, m))
  <2>1. w = 365 * (k - 1) + v + 1 + c /\ v \in 0..334 /\ x = 365 * (k - 1) + v + d
    BY <1>5, <1>15
  <2> HIDE DEF v, w
  <2>2. w <= z /\ z - w + 1 = d
    BY <1>2, <1>4, <1>5, <2>1
  <2> QED BY <2>2 DEF w
<1>17. \A later \in 1..12 : m < later => z < DayNumber("GREGORIAN", First(k, later))
  <2> TAKE later \in 1..12
  <2> HAVE m < later
  <2> DEFINE v == Before[later]
             w == DayNumber("GREGORIAN", First(k, later))
             l == LeapDays("GREGORIAN", k, later)
  <2>1. w = 365 * (k - 1) + v + 1 + l /\ v \in 0..334 /\ l \in Nat
    BY <1>5, NumberOfFirst
  <2>2. c <= l /\ x < 365 * (k - 1) + v + 1
    BY <1>5, <1>12
  <2> HIDE DEF v, w, l
  <2>3. z < w
    BY <1>2, <1>4, <1>5, <2>1, <2>2
  <2> QED BY <2>3 DEF w
<1>18. z < DayNumber("GREGORIAN", First(k + 1, 1))
  <2> DEFINE w == DayNumber("GREGORIAN", First(q, 1))
             l == LeapDays("GREGORIAN", q, 1)
             v == Before[1]
  <2>1. 1 \in 1..12
    OBVIOUS
  <2>2. w = 365 * (q - 1) + v + 1 + l /\ v \in 0..334 /\ l \in Nat
    BY <1>13, <2>1, NumberOfFirst
  <2>3. c <= l
    BY <1>14
  <2> HIDE DEF v, w, l
  <2>4. z < w
    BY <1>2, <1>4, <1>5, <1>13, <2>2, <2>3
  <2> QED BY <2>4 DEF w, q
<1>19. DateOf("GREGORIAN", z) = e
  <2>1. DateOf("GREGORIAN", z) = [y |-> k, m |-> m, d |-> z - DayNumber("GREGORIAN", First(k, m)) + 1]
    BY <1>4, <1>5, <1>16, <1>17, <1>18, DateFound
  <2> QED BY <1>5, <1>16, <2>1
<1> QED BY <1>4, <1>5, <1>6, <1>7, <1>19 DEF z, k, m, d, a

\* In the calendar without leap years the date computed with Python's dates and the
\* correction is the model's, when no leap day lies between.
LEMMA NoLeapNames ==
  ASSUME NEW t \in Tests, t.cal = "NO_LEAP", NEW o \in Times,
         o.date.y \in Nat \ {0}, o.date.d \in Nat \ {0}, NEW n \in Nat,
         NoLeapDay(o.date, ModelTime(t, o, n).date)
  PROVE  RestTime(t, o, n) = ModelTime(t, o, n)
<1> DEFINE secs == o.tod + Span(t, n)[2]
           k == Span(t, n)[1] + secs \div 86400
           e == DateOf("NO_LEAP", DayNumber("NO_LEAP", o.date) + k)
<1>1. o.date \in Dates /\ o.tod \in Clock
  BY SMT DEF Times
<1>2. k \in Nat
  <2>1. Span(t, n)[1] \in Nat /\ Span(t, n)[2] \in Nat /\ o.tod \in Nat
    BY <1>1, SpanSeconds, ClockSeconds, SMT
  <2>2. secs \in Nat
    BY <2>1, SMT
  <2> HIDE DEF secs
  <2> QED BY <2>1, <2>2, SMT
<1>3. /\ After("NO_LEAP", t, o, n)
           = [date |-> DateOf("NO_LEAP", DayNumber("NO_LEAP", o.date) + k), tod |-> secs % 86400]
      /\ After("GREGORIAN", t, o, n)
           = [date |-> DateOf("GREGORIAN", DayNumber("GREGORIAN", o.date) + k), tod |-> secs % 86400]
  BY SMT DEF After, AddDays
<1>4. ModelTime(t, o, n) = [date |-> e, tod |-> secs % 86400]
  BY <1>3, SMT DEF ModelTime
<1> HIDE DEF secs, k
<1>5. NoLeapDay(o.date, e)
  BY <1>4, SMT
<1>6. /\ DateOf("GREGORIAN", DayNumber("GREGORIAN", o.date) + k) = e
      /\ DayNumber("GREGORIAN", o.date) + k \in Nat
      /\ e.y \in Nat \ {0} /\ e.m \in 1..12 /\ o.date.y <= e.y
  BY <1>1, <1>2, <1>5, SameDay
<1>7. LeapYearCorrection(o.date, e) = 0
  <2>1. \A y \in o.date.y .. e.y : Leap(y) => y = e.y /\ (e.m <= 2 \/ (o.date.m > 2 /\ o.date.y = e.y))
    BY <1>5 DEF NoLeapDay
  <2> HIDE DEF e
  <2>2. {y \in o.date.y .. (e.y - 1) : Leap(y)} = {}
    BY <1>6, <2>1, SMT
  <2>3. e.y \in o.date.y .. e.y
    BY <1>6, SMT
  <2>4. ~(e.m > 2 /\ (o.date.m <= 2 \/ e.y > o.date.y) /\ Leap(e.y))
    <3>1. o.date.m \in 1..12
      BY <1>1, SMT DEF Dates
    <3> QED BY <1>6, <2>1, <2>3, <3>1, SMT
  <2>5. Cardinality({y \in o.date.y .. (e.y - 1) : Leap(y)}) = 0
    BY <2>2, FS_EmptySet, Zenon
  <2>6. LeapYearCorrection(o.date, e)
          = 0 + (IF e.m > 2 /\ (o.date.m <= 2 \/ e.y > o.date.y) /\ Leap(e.y) THEN 1 ELSE 0)
    BY <2>5, Zenon DEF LeapYearCorrection
  <2> QED BY <2>4, <2>6, SMT
<1>8. AddDays("GREGORIAN", e, 0) = e
  <2> DEFINE z == DayNumber("GREGORIAN", o.date) + k
  <2>1. z \in Nat /\ DateOf("GREGORIAN", z) = e
    BY <1>6
  <2> HIDE DEF z, e
  <2>2. DayNumber("GREGORIAN", e) = z
    BY <2>1, NumberOfDate
  <2>3. DayNumber("GREGORIAN", e) + 0 = z
    BY <2>1, <2>2, SMT
  <2> QED BY <2>1, <2>3 DEF AddDays
<1> HIDE DEF e
<1>9. RestTime(t, o, n) = [After("GREGORIAN", t, o, n)
        EXCEPT !.date = AddDays("GREGORIAN", @, LeapYearCorrection(o.date, @))]
  BY Zenon DEF RestTime
<1>10. After("GREGORIAN", t, o, n) = [date |-> e, tod |-> secs % 86400]
  <2> DEFINE x == DateOf("GREGORIAN", DayNumber("GREGORIAN", o.date) + k)
  <2>1. x = e
    BY <1>6 DEF e
  <2>2. After("GREGORIAN", t, o, n) = [date |-> x, tod |-> secs % 86400]
    BY <1>3
  <2> HIDE DEF x
  <2> QED BY <2>1, <2>2
<1>11. RestTime(t, o, n) = [[date |-> e, tod |-> secs % 86400] EXCEPT !.date = e]
  BY <1>7, <1>8, <1>9, <1>10, SMT
<1> QED BY <1>4, <1>11, SMT DEF e

\* The days of a month
Days == <<31, 28, 31, 30, 31, 30, 31, 31, 30, 31, 30, 31>>

\* A day of the calendar without leap years is the date of its number.
LEMMA NoLeapDate ==
  ASSUME NEW k \in Nat \ {0}, NEW m \in 1..12, NEW d \in 1 .. Days[m], NEW n,
         n = 365 * (k - 1) + Before[m] + d
  PROVE  n \in Nat /\ DateOf("NO_LEAP", n) = [y |-> k, m |-> m, d |-> d]
<1> DEFINE b == Before[m]
           x == DayNumber("NO_LEAP", First(k, m))
<1>1. b \in 0..334 /\ Days[m] \in 28..31 /\ b + Days[m] <= 365
  BY DEF Before, Days
<1>2. \A later \in 1..12 : m < later => b + Days[m] <= Before[later] /\ Before[later] \in 0..334
  BY DEF Before, Days
<1>3. d \in Nat \ {0} /\ d <= Days[m]
  BY <1>1
<1>4. x = 365 * (k - 1) + b + 1
  BY NoLeapNumber
<1>5. n = 365 * (k - 1) + b + d
  OBVIOUS
<1>6. ASSUME NEW later \in 1..12, m < later PROVE n < DayNumber("NO_LEAP", First(k, later))
  <2> DEFINE u == Before[later]
             w == DayNumber("NO_LEAP", First(k, later))
  <2>1. w = 365 * (k - 1) + u + 1
    BY NoLeapNumber
  <2>2. b + Days[m] <= u /\ u \in 0..334
    BY <1>2, <1>6
  <2> HIDE DEF b, u, w
  <2>3. n < w
    BY <1>1, <1>3, <1>5, <2>1, <2>2
  <2> QED BY <2>3 DEF w
<1> DEFINE q == k + 1
<1>7. n < DayNumber("NO_LEAP", First(q, 1))
  <2> DEFINE w == DayNumber("NO_LEAP", First(q, 1))
  <2>1. q \in Nat /\ q - 1 = k /\ 1 \in 1..12
    OBVIOUS
  <2>2. Before[1] = 0
    BY DEF Before
  <2> HIDE DEF q
  <2>3. w = 365 * (q - 1) + Before[1] + 1
    BY <2>1, NoLeapNumber
  <2> HIDE DEF b, w
  <2>4. n < w
    BY <1>1, <1>3, <1>5, <2>1, <2>2, <2>3
  <2> QED BY <2>4 DEF w
<1> HIDE DEF b, x
<1>8. n \in Nat /\ x <= n /\ n - x + 1 = d
  BY <1>1, <1>3, <1>4, <1>5
<1>9. DateOf("NO_LEAP", n) = [y |-> k, m |-> m, d |-> n - x + 1]
  BY <1>6, <1>7, <1>8, DateFound DEF x
<1> QED BY <1>8, <1>9

\* Years later, without a leap day between, Python's date is the same day of the year.
LEMMA GregorianYears ==
  ASSUME NEW t \in Tests, t.cal # "NO_LEAP", t.option = "nyears", NEW o \in Times,
         o.date.y \in Nat \ {0}, o.date.d \in 1 .. Days[o.date.m], NEW n \in Nat,
         NoLeapDay(o.date, ModelTime(t, o, n).date)
  PROVE  RestTime(t, o, n) = ModelTime(t, o, n)
<1> DEFINE x == o.date
           y == x.y + n
           e == [y |-> y, m |-> x.m, d |-> x.d]
<1>1. x \in Dates /\ o.tod \in Clock /\ o = [date |-> x, tod |-> o.tod]
  BY SMT DEF Times
<1>2. x = [y |-> x.y, m |-> x.m, d |-> x.d] /\ x.m \in 1..12
  BY <1>1, SMT DEF Dates
<1>3. o.tod \in Nat /\ o.tod < 86400
  BY <1>1, ClockSeconds, SMT
<1>4. ModelTime(t, o, n) = [date |-> e, tod |-> o.tod]
  <2>1. ModelTime(t, o, n) = [o EXCEPT !.date.y = @ + n]
    BY DEF ModelTime
  <2> HIDE DEF x
  <2>2. [o EXCEPT !.date.y = @ + n] = [o EXCEPT !.date = [o.date EXCEPT !.y = o.date.y + n]]
    BY Zenon
  <2>3. [x EXCEPT !.y = x.y + n] = e
    BY <1>2, SMT
  <2>4. [o EXCEPT !.date = e] = [date |-> e, tod |-> o.tod]
    <3> HIDE DEF e
    <3> QED BY <1>1, SMT
  <2> QED BY <2>1, <2>2, <2>3, <2>4, Zenon DEF x
<1>5. NoLeapDay(x, e)
  BY <1>4, SMT
<1>6. Days[x.m] \in 28..31
  BY <1>2 DEF Days
<1>7. x.d \in Nat \ {0} /\ x.d \in 1 .. Days[x.m] /\ x.d \in Int
  BY <1>6, SMT
<1>8. x.y \in Nat \ {0} /\ y \in Nat \ {0}
  BY SMT
<1>9. DateOf("NO_LEAP", DayNumber("NO_LEAP", x) + 365 * n) = e
  <2> DEFINE u == DayNumber("NO_LEAP", x)
             w == 365 * (y - 1) + Before[x.m] + x.d
  <2>1. DateOf("NO_LEAP", w) = e
    <3> DEFINE m == x.m
               d == x.d
    <3>1. y \in Nat \ {0} /\ m \in 1..12 /\ d \in 1 .. Days[m]
      BY <1>2, <1>7, <1>8
    <3>2. w = 365 * (y - 1) + Before[m] + d /\ e = [y |-> y, m |-> m, d |-> d]
      OBVIOUS
    <3> HIDE DEF y, e, w, m, d
    <3>3. DateOf("NO_LEAP", w) = [y |-> y, m |-> m, d |-> d]
      BY <3>1, <3>2, NoLeapDate
    <3> QED BY <3>2, <3>3
  <2>2. u = 365 * (x.y - 1) + Before[x.m] + x.d
    BY SMT DEF DayNumber
  <2>3. Before[x.m] \in 0..334
    BY <1>2 DEF Before
  <2>4. w = u + 365 * n
    <3> DEFINE a == x.y
               b == Before[x.m]
               d == x.d
    <3>1. u = 365 * (a - 1) + b + d /\ w = 365 * ((a + n) - 1) + b + d
      BY <2>2
    <3>2. a \in Nat /\ b \in Int /\ d \in Int
      BY <1>7, <1>8, <2>3, SMT
    <3> HIDE DEF a, b, d, u, w
    <3> QED BY <3>1, <3>2
  <2> HIDE DEF u, w
  <2> QED BY <2>1, <2>4 DEF u
<1>10. DateOf("GREGORIAN", DayNumber("GREGORIAN", x) + 365 * n) = e
  <2> DEFINE k == 365 * n
  <2>1. k \in Nat
    BY SMT
  <2>2. e = DateOf("NO_LEAP", DayNumber("NO_LEAP", x) + k)
    BY <1>9
  <2> HIDE DEF k, e, x
  <2>3. DateOf("GREGORIAN", DayNumber("GREGORIAN", x) + k) = e
    BY <1>1, <1>5, <1>7, <1>8, <2>1, <2>2, SameDay
  <2> QED BY <2>3 DEF k
<1>11. RestTime(t, o, n) = [date |-> DateOf("GREGORIAN", DayNumber("GREGORIAN", x) + 365 * n), tod |-> o.tod]
  <2>1. Span(t, n) = <<365 * n, 0>>
    BY SMT DEF Span
  <2>2. (o.tod + 0) \div 86400 = 0 /\ (o.tod + 0) % 86400 = o.tod
    BY <1>3, SMT
  <2>3. 365 * n + 0 = 365 * n
    BY SMT
  <2>4. After("GREGORIAN", t, o, n)
          = [date |-> AddDays("GREGORIAN", x, Span(t, n)[1] + (o.tod + Span(t, n)[2]) \div 86400),
             tod |-> (o.tod + Span(t, n)[2]) % 86400]
    BY DEF After
  <2>5. After("GREGORIAN", t, o, n) = [date |-> AddDays("GREGORIAN", x, 365 * n), tod |-> o.tod]
    <3>1. Span(t, n)[1] = 365 * n /\ Span(t, n)[2] = 0
      BY <2>1, SMT
    <3>2. Span(t, n)[1] + (o.tod + Span(t, n)[2]) \div 86400 = 365 * n /\ (o.tod + Span(t, n)[2]) % 86400 = o.tod
      BY <1>3, <3>1, <2>2, <2>3, SMT
    <3> DEFINE p == Span(t, n)[1] + (o.tod + Span(t, n)[2]) \div 86400
               q == (o.tod + Span(t, n)[2]) % 86400
    <3>3. p = 365 * n /\ q = o.tod /\ After("GREGORIAN", t, o, n) = [date |-> AddDays("GREGORIAN", x, p), tod |-> q]
      BY <2>4, <3>2
    <3> HIDE DEF p, q, x
    <3> QED BY <3>3
  <2>6. RestTime(t, o, n) = After("GREGORIAN", t, o, n)
    BY DEF RestTime
  <2> QED BY <2>5, <2>6 DEF AddDays
<1> QED BY <1>4, <1>10, <1>11, Zenon

\* The time of the model n units and then m units later is that n + m units later,
\* in the calendar without leap years ...
LEMMA NoLeapLater ==
  ASSUME NEW t \in Tests, t.cal = "NO_LEAP", NEW o \in StartTimes,
         NEW n \in Nat
  PROVE  /\ ModelTime(t, o, n) \in Times
         /\ ModelTime(t, o, n).date.y \in Nat \ {0} /\ ModelTime(t, o, n).date.d \in Nat \ {0}
         /\ \A m \in Nat : ModelTime(t, ModelTime(t, o, n), m) = ModelTime(t, o, n + m)
<1> SUFFICES ASSUME NEW m \in Nat
             PROVE  /\ ModelTime(t, o, n) \in Times
         /\ ModelTime(t, o, n).date.y \in Nat \ {0} /\ ModelTime(t, o, n).date.d \in Nat \ {0}
                    /\ ModelTime(t, ModelTime(t, o, n), m) = ModelTime(t, o, n + m)
  <2>1. 0 \in Nat
    OBVIOUS
  <2> QED BY <2>1, Zenon
<1> DEFINE M == Moment("NO_LEAP", o)
           a == n * Unit(t)
           b == m * Unit(t)
           z == TimeAt("NO_LEAP", M + a)
<1>1. \A x, k : ModelTime(t, x, k) = After("NO_LEAP", t, x, k)
  BY SMT DEF ModelTime
<1>2. o \in Times /\ M \in Nat /\ M >= 86400
  <2> DEFINE x == DayNumber("NO_LEAP", o.date)
  <2>1. o \in Times /\ M \in Nat
    BY StartMoments
  <2>2. /\ o.date.y \in Nat \ {0} /\ o.date.m \in 1..12 /\ o.date.d \in 1..31 /\ o.tod \in Nat
    BY StartTimeParts, ClockSeconds, SMT
  <2>3. Before[o.date.m] \in 0..334
    BY <2>2 DEF Before
  <2>4. x = 365 * (o.date.y - 1) + Before[o.date.m] + o.date.d
    BY SMT DEF DayNumber
  <2>5. x \in Nat /\ x >= 1
    <3> DEFINE c == o.date.y
               d == o.date.d
               e == Before[o.date.m]
    <3>1. c \in Nat \ {0} /\ d \in 1..31 /\ e \in 0..334 /\ x = 365 * (c - 1) + e + d
      BY <2>2, <2>3, <2>4
    <3> HIDE DEF c, d, e, x
    <3> QED BY <3>1, SMT
  <2>6. M = x * 86400 + o.tod
    BY SMT DEF Moment
  <2> HIDE DEF x, M
  <2>7. M >= 86400
    BY <2>2, <2>5, <2>6, SMT
  <2> QED BY <2>1, <2>7
<1>3. a \in Nat /\ b \in Nat /\ Unit(t) \in Nat
  BY SpanSeconds, PositiveSeconds, SMT
<1>4. a + b = (n + m) * Unit(t) /\ n + m \in Nat
  BY <1>3, SMT
<1>5. ModelTime(t, o, n) = z
  BY <1>1, <1>2, AfterIsLater, SMT
<1>6. ModelTime(t, o, n + m) = TimeAt("NO_LEAP", M + (a + b))
  BY <1>1, <1>2, <1>4, AfterIsLater, SMT
<1> HIDE DEF M, a
<1>7. M + a \in Nat /\ z \in Times /\ Moment("NO_LEAP", z) = M + a
  BY <1>2, <1>3, TimeOfMoment, SMT
<1>8. z.date.y \in Nat \ {0} /\ z.date.d \in Nat \ {0}
  <2> DEFINE x == (M + a) \div 86400
  <2>1. M + a >= 86400 /\ M + a \in Nat
    BY <1>2, <1>3, SMT
  <2>2. x \in Nat \ {0}
    BY <2>1, SMT
  <2>3. z.date = DateOf("NO_LEAP", x)
    BY SMT DEF TimeAt
  <2> HIDE DEF x, z
  <2> QED BY <2>2, <2>3, NoLeapParts
<1> HIDE DEF z
<1>9. ModelTime(t, z, m) = TimeAt("NO_LEAP", (M + a) + b)
  <2>1. Moment("NO_LEAP", z) + m * Unit(t) = (M + a) + b
    BY <1>7
  <2> HIDE DEF b
  <2>2. After("NO_LEAP", t, z, m) = TimeAt("NO_LEAP", Moment("NO_LEAP", z) + m * Unit(t))
    BY <1>7, AfterIsLater
  <2> QED BY <1>1, <2>1, <2>2
<1> HIDE DEF b
<1>10. (M + a) + b = M + (a + b)
  BY <1>2, <1>3, SMT
<1> QED BY <1>5, <1>6, <1>7, <1>8, <1>9, <1>10

\* ... and for years in the other calendar.
LEMMA YearsLater ==
  ASSUME NEW t \in Tests, t.cal # "NO_LEAP", t.option = "nyears", NEW o \in Times, o.date.y \in Nat \ {0},
         NEW n \in Nat
  PROVE  /\ ModelTime(t, o, n) \in Times /\ ModelTime(t, o, n).date.y \in Nat \ {0}
         /\ ModelTime(t, o, n).date.m = o.date.m /\ ModelTime(t, o, n).date.d = o.date.d
         /\ \A m \in Nat : ModelTime(t, ModelTime(t, o, n), m) = ModelTime(t, o, n + m)
<1> SUFFICES ASSUME NEW m \in Nat
             PROVE  /\ ModelTime(t, o, n) \in Times /\ ModelTime(t, o, n).date.y \in Nat \ {0}
         /\ ModelTime(t, o, n).date.m = o.date.m /\ ModelTime(t, o, n).date.d = o.date.d
                    /\ ModelTime(t, ModelTime(t, o, n), m) = ModelTime(t, o, n + m)
  <2>1. 0 \in Nat
    OBVIOUS
  <2> QED BY <2>1, Zenon
<1> DEFINE x == o.date
           D(k) == [y |-> x.y + k, m |-> x.m, d |-> x.d]
           T(k) == [date |-> D(k), tod |-> o.tod]
<1>1. x \in Dates /\ o.tod \in Clock /\ o = [date |-> x, tod |-> o.tod]
  BY SMT DEF Times
<1>2. x = [y |-> x.y, m |-> x.m, d |-> x.d] /\ x.m \in 1..12 /\ x.d \in Int
  BY <1>1, SMT DEF Dates
<1>3. \A q, k : ModelTime(t, q, k) = [q EXCEPT !.date = [q.date EXCEPT !.y = q.date.y + k]]
  BY Zenon DEF ModelTime
<1>4. \A k \in Nat : ModelTime(t, o, k) = T(k)
  <2> TAKE k \in Nat
  <2>1. [x EXCEPT !.y = x.y + k] = D(k)
    BY <1>2, SMT
  <2> HIDE DEF D
  <2>2. [o EXCEPT !.date = D(k)] = [date |-> D(k), tod |-> o.tod]
    BY <1>1, SMT
  <2>3. ModelTime(t, o, k) = [o EXCEPT !.date = [x EXCEPT !.y = x.y + k]]
    BY <1>3
  <2> QED BY <2>1, <2>2, <2>3, Zenon
<1>5. \A k \in Nat : D(k) \in Dates /\ D(k).y = x.y + k /\ D(k).m = x.m /\ D(k).d = x.d /\ D(k).y \in Nat \ {0}
  BY <1>2, SMT DEF Dates
<1>6. ModelTime(t, T(n), m) = T(n + m)
  <2>1. ModelTime(t, T(n), m) = [T(n) EXCEPT !.date = [T(n).date EXCEPT !.y = T(n).date.y + m]]
    BY <1>3
  <2>2. [D(n) EXCEPT !.y = D(n).y + m] = D(n + m)
    <3>1. (x.y + n) + m = x.y + (n + m)
      BY SMT
    <3> QED BY <3>1, SMT
  <2> HIDE DEF D
  <2>3. T(n).date = D(n)
    BY SMT
  <2>4. [T(n) EXCEPT !.date = D(n + m)] = T(n + m)
    BY SMT
  <2> QED BY <2>1, <2>2, <2>3, <2>4, Zenon
<1>7. T(n) \in Times
  BY <1>1, <1>5, SMT DEF Times
<1>8. T(n).date = D(n)
  BY SMT
<1>9. n + m \in Nat
  BY SMT
<1>10. ModelTime(t, o, n) = T(n)
  BY <1>4
<1> HIDE DEF D, T
<1> QED BY <1>4, <1>5, <1>6, <1>7, <1>8, <1>9, <1>10

-----------------------------------------------------------------------------
(* Intervals *)

\* A common factor may be taken from both sides.
LEMMA Cancel ==
  ASSUME NEW a \in Int, NEW b \in Int, NEW p \in Nat \ {0}, a * p < b * p
  PROVE  a < b
<1>1. CASE a >= b
  <2>1. (a - b) * p >= 0
    BY <1>1
  <2>2. (a - b) * p = a * p - b * p
    OBVIOUS
  <2> QED BY <2>1, <2>2
<1> QED BY <1>1

\* x coupling intervals, rounded up to units of p
LEMMA Ceiling ==
  ASSUME NEW x \in Nat, NEW p \in Nat \ {0}
  PROVE  /\ (x + p - 1) \div p \in Nat
         /\ x <= ((x + p - 1) \div p) * p /\ ((x + p - 1) \div p) * p < x + p
<1> DEFINE a == x + p - 1
           c == a \div p
<1>1. a \in Nat
  OBVIOUS
<1> HIDE DEF a
<1>2. c \in Nat /\ a = c * p + (a % p) /\ a % p \in 0..(p - 1)
  BY <1>1
<1> HIDE DEF c
<1>3. x <= c * p /\ c * p < x + p
  <2>1. c * p \in Int /\ a % p \in Int
    BY <1>2
  <2> QED BY <1>2, <2>1 DEF a
<1> QED BY <1>2, <1>3 DEF c, a

\* The largest number of whole intervals
LEMMA Floor ==
  ASSUME NEW x \in Nat, NEW p \in Nat \ {0}
  PROVE  /\ x \div p \in Nat /\ (x \div p) * p <= x /\ x < (x \div p) * p + p
         /\ x = (x \div p) * p + (x % p)
<1> DEFINE c == x \div p
<1>1. c \in Nat /\ x = c * p + (x % p) /\ x % p \in 0..(p - 1)
  OBVIOUS
<1> HIDE DEF c
<1>2. c * p \in Int /\ x % p \in Int
  BY <1>1
<1> QED BY <1>1, <1>2 DEF c

\* An interval of k couplings, in units, and the couplings of a run
LEMMA CouplingsOf ==
  ASSUME NEW t \in Tests, NEW stop \in Nat
  PROVE  \E p \in Nat \ {0}, q \in Nat \ {0} :
           /\ Intervals(t, stop) \in Nat
           /\ Intervals(t, stop) * q <= stop * p /\ stop * p < Intervals(t, stop) * q + q
           /\ \A n \in Nat : /\ InUnits(t, n) \in Nat
                             /\ n * q <= InUnits(t, n) * p /\ InUnits(t, n) * p < n * q + p
<1> DEFINE F == Factor(t)
           C == CouplingSecs(t)
<1>1. F \in Nat \ {0} /\ C \in Nat \ {0}
  BY PositiveSeconds
<1>2. CASE F % C = 0
  <2> DEFINE p == F \div C
  <2>1. p \in Nat \ {0}
    <3>1. p \in Nat /\ p * C \in Int /\ F = p * C + (F % C)
      BY <1>1, Floor
    <3>2. F = p * C
      BY <1>2, <3>1
    <3> HIDE DEF p, F, C
    <3> QED BY <1>1, <3>1, <3>2
  <2>2. Intervals(t, stop) = stop * p
    BY <1>2 DEF Intervals
  <2>3. \A n \in Nat : InUnits(t, n) = (n + p - 1) \div p
    BY <1>2 DEF InUnits
  <2> HIDE DEF p
  <2>4. \A n \in Nat : /\ InUnits(t, n) \in Nat
                       /\ n <= InUnits(t, n) * p /\ InUnits(t, n) * p < n + p
    BY <2>1, <2>3, Ceiling
  <2>5. Intervals(t, stop) \in Nat
    BY <2>1, <2>2
  <2>6. \A n \in Nat : n * 1 = n
    OBVIOUS
  <2>7. /\ Intervals(t, stop) * 1 <= stop * p /\ stop * p < Intervals(t, stop) * 1 + 1
        /\ \A n \in Nat : /\ InUnits(t, n) \in Nat
                          /\ n * 1 <= InUnits(t, n) * p /\ InUnits(t, n) * p < n * 1 + p
    BY <2>2, <2>4, <2>5, <2>6
  <2> WITNESS p \in Nat \ {0}, 1 \in Nat \ {0}
  <2> QED BY <2>5, <2>7
<1>3. CASE F % C # 0
  <2>1. Intervals(t, stop) = (stop * F) \div C
    BY <1>3 DEF Intervals
  <2>2. \A n \in Nat : InUnits(t, n) = (n * C + F - 1) \div F
    BY <1>3 DEF InUnits
  <2> HIDE DEF F, C
  <2>3. stop * F \in Nat /\ \A n \in Nat : n * C \in Nat
    BY <1>1
  <2>4. /\ Intervals(t, stop) \in Nat
        /\ Intervals(t, stop) * C <= stop * F /\ stop * F < Intervals(t, stop) * C + C
    BY <1>1, <2>1, <2>3, Floor
  <2>5. \A n \in Nat : /\ InUnits(t, n) \in Nat
                       /\ n * C <= InUnits(t, n) * F /\ InUnits(t, n) * F < n * C + F
    BY <1>1, <2>2, <2>3, Ceiling
  <2> QED BY <1>1, <2>4, <2>5
<1> QED BY <1>2, <1>3

\* Half of the couplings and one more are more than half of the run, so that
\* only one restart is written ...
LEMMA OneInTheMiddle ==
  ASSUME NEW t \in Tests, NEW stop \in Nat, t.rest = 0, t.kind # "IRT"
  PROVE  RestartInterval(t, stop) \in Nat /\ 2 * RestartInterval(t, stop) > stop
<1> DEFINE N == Intervals(t, stop)
           x == N \div 2 + 1
           R == RestartInterval(t, stop)
<1>1. PICK p \in Nat \ {0}, q \in Nat \ {0} :
        /\ N \in Nat /\ N * q <= stop * p /\ stop * p < N * q + q
        /\ \A n \in Nat : /\ InUnits(t, n) \in Nat
                          /\ n * q <= InUnits(t, n) * p /\ InUnits(t, n) * p < n * q + p
  BY CouplingsOf
<1>2. R = InUnits(t, x)
  BY DEF RestartInterval
<1> HIDE DEF N, R
<1>3. x \in Nat /\ 2 * x >= N + 1
  BY <1>1
<1> HIDE DEF x
<1>4. R \in Nat /\ x * q <= R * p
  BY <1>1, <1>2, <1>3
<1>5. (2 * x) * q >= (N + 1) * q
  <2>1. (2 * x - (N + 1)) * q >= 0
    BY <1>1, <1>3
  <2> QED BY <1>1, <1>3, <2>1
<1>6. stop * p < (2 * R) * p
  <2>1. (N + 1) * q = N * q + q /\ (2 * x) * q = 2 * (x * q) /\ (2 * R) * p = 2 * (R * p)
    BY <1>1, <1>3, <1>4
  <2> DEFINE a == N * q
             b == x * q
             c == R * p
             d == stop * p
  <2>2. a \in Int /\ b \in Int /\ c \in Int /\ d \in Int /\ q \in Int
    BY <1>1, <1>3, <1>4
  <2>3. 2 * b >= a + q /\ d < a + q /\ b <= c
    BY <1>1, <1>4, <1>5, <2>1
  <2> HIDE DEF a, b, c, d
  <2>4. d < 2 * c
    BY <2>2, <2>3
  <2> QED BY <2>1, <2>4 DEF c, d
<1>7. stop < 2 * R
  BY <1>4, <1>6, Cancel
<1> QED BY <1>4, <1>7 DEF R

\* ... and a third of them leaves room for two.
LEMMA TwoInTheMiddle ==
  ASSUME NEW t \in Tests, NEW stop \in Nat, t.rest = 0, t.kind = "IRT", stop >= 3
  PROVE  RestartInterval(t, stop) \in Nat /\ 2 * RestartInterval(t, stop) <= stop
<1> DEFINE N == Intervals(t, stop)
           x == N \div 3
           R == RestartInterval(t, stop)
<1>1. PICK p \in Nat \ {0}, q \in Nat \ {0} :
        /\ N \in Nat /\ N * q <= stop * p /\ stop * p < N * q + q
        /\ \A n \in Nat : /\ InUnits(t, n) \in Nat
                          /\ n * q <= InUnits(t, n) * p /\ InUnits(t, n) * p < n * q + p
  BY CouplingsOf
<1>2. R = InUnits(t, x)
  BY DEF RestartInterval
<1> HIDE DEF N, R
<1>3. x \in Nat /\ 3 * x <= N
  BY <1>1
<1> HIDE DEF x
<1>4. R \in Nat /\ R * p < x * q + p
  BY <1>1, <1>2, <1>3
<1>5. (3 * x) * q <= N * q
  <2>1. (N - 3 * x) * q >= 0
    BY <1>1, <1>3
  <2> QED BY <1>1, <1>3, <2>1
<1>6. (3 * (R - 1)) * p < stop * p
  <2>1. (3 * x) * q = 3 * (x * q) /\ (3 * (R - 1)) * p = 3 * (R * p) - 3 * p
    BY <1>1, <1>3, <1>4
  <2> DEFINE a == N * q
             b == x * q
             c == R * p
             d == stop * p
  <2>2. a \in Int /\ b \in Int /\ c \in Int /\ d \in Int /\ p \in Int
    BY <1>1, <1>3, <1>4
  <2>3. 3 * b <= a /\ a <= d /\ c < b + p
    BY <1>1, <1>4, <1>5, <2>1
  <2> HIDE DEF a, b, c, d
  <2>4. 3 * c - 3 * p < d
    BY <2>2, <2>3
  <2> QED BY <2>1, <2>4 DEF c, d
<1>7. 3 * (R - 1) < stop
  BY <1>4, <1>6, Cancel
<1>8. 2 * R <= stop
  BY <1>4, <1>7
<1> QED BY <1>4, <1>8 DEF R

\* An interval is a number of units.
LEMMA IntervalNat ==
  ASSUME NEW t \in Tests, NEW stop \in Nat
  PROVE  RestartInterval(t, stop) \in Nat
<1>1. t.rest \in Nat
  BY TestAssumption
<1>2. Intervals(t, stop) \in Nat /\ \A n \in Nat : InUnits(t, n) \in Nat
  BY CouplingsOf
<1>3. Intervals(t, stop) \div 3 \in Nat /\ Intervals(t, stop) \div 2 + 1 \in Nat
  BY <1>2
<1> QED BY <1>1, <1>2, <1>3 DEF RestartInterval

-----------------------------------------------------------------------------
(* The inductive invariant *)

Half(t) == RestartInterval(t, t.stop)
ErioHalf(t) == t.stop \div 2 + 1
LengthOne(t) == t.stop \div 6
LengthTwo(t) == t.stop - LengthOne(t)
RestTwo(t) == RestartInterval(t, LengthTwo(t))
LengthThree(t) == LengthTwo(t) - RestTwo(t)
RestThree(t) == RestartInterval(t, LengthThree(t))
Later(t) == [t.start EXCEPT !.date.y = @ + 4]
Length(t) == IF t.kind = "ERI" THEN LengthTwo(t) ELSE t.stop
PartLength(t) == t.stop \div t.parts

\* The restart that the run of test t with this name writes at a time
Mark(t, k, name, o, at) == [by |-> name, at |-> at, try |-> k, time |-> ModelTime(t, o, at)]

\* How often q fits into a run
Steps(len, q) == {l \in 1 .. len : l * q <= len}

\* The directory d has the restart n, where the driver looks for it
HoldsIn(t, d, n) == IF t.named THEN {r \in d.files : r.time = n.time} = {n} ELSE d.last = n

Ran(name, at, to) == \E a \in runs : a.name = name /\ a.from.at = at /\ a.to = to
Names == {r.name : r \in runs}

Ref1 == <<"ref1", 0, 0>>
Hybrid == <<"hybrid", 0, 0>>
Branch == <<"branch", 0, 0>>
Full == <<"full", 1, 0>>
Full2 == <<"full", 2, 0>>
Again == <<"restart", 1, 2>>
Cycle(k) == <<"da", k, 0>>

DirFits(d) == d = [files |-> d.files, last |-> d.last] /\ (d.last = None \/ d.last \in d.files)
EnvFits(t, e) ==
  /\ e = [stop |-> e.stop, rest |-> e.rest, cont |-> e.cont, pointer |-> e.pointer]
  /\ e.stop \in 1..t.stop /\ e.rest \in 0..t.stop /\ e.cont \in BOOLEAN

Shapes ==
  /\ test \in Tests /\ tries \in 0..MaxTries
  /\ env = [c \in 1..3 |-> env[c]] /\ \A c \in 1..3 : EnvFits(test, env[c])
  /\ dir = [c \in 1..3 |-> dir[c]] /\ \A c \in 1..3 : DirFits(dir[c])

Waiting == {"idle", "ended", "failed", "short"}
Paired == {"IRT", "ERR", "ERP"}
LegsOf(t) ==
  CASE t.kind \in {"ERS", "ERIO"} -> {"first", "second"}
    [] t.kind = "ERI" -> {"first", "hybrid", "branch", "second"}
    [] t.kind = "DAE" -> {"setup", "first", "reset", "second"}
    [] OTHER -> {"setup", "first", "second"}

OneEach == \A a, b \in runs : a.name = b.name => a = b

Compared(p) == \E a, b \in runs :
  /\ a.name = p[1] /\ b.name = p[2] /\ a.to = Length(test) /\ b.to = Length(test)
  /\ a.from.at < b.from.at /\ b.from.at < Length(test)
  /\ b.from.try = tries /\ (b.from.by = p[1] \/ test.kind = "DAE")

Common == Shapes /\ leg \in Waiting \cup LegsOf(test) /\ OneEach /\ \A p \in pairs : Compared(p)

\* The second leg of an ERS
ErsPlace == test.kind = "ERS" =>
  /\ leg = "first" => Names = {} /\ env[1].stop = test.stop
  /\ leg = "second" =>
       /\ Names = {Base} /\ LongEnough(test, test.stop)
       /\ env[1].stop = test.stop /\ env[1].rest = Half(test)
       /\ Ran(Base, 0, test.stop) /\ HoldsIn(test, dir[1], Mark(test, tries, Base, test.start, Half(test)))

ErioPlace == test.kind = "ERIO" =>
  /\ leg = "first" => \/ Names = {} /\ i = 1 /\ env[1].stop = test.stop
                      \/ Names = {Full, Again} /\ i = 2 /\ test.parts = 2
  /\ leg = "second" =>
       /\ Names = {Full} /\ i = 1 /\ j = 2 /\ test.parts = 2 /\ test.stop > 2
       /\ Ran(Full, 0, test.stop)
       /\ LET n == Mark(test, tries, Full, test.start, ErioHalf(test))
          IN HoldsIn(test, dir[1], n) /\ (test.named => env[1].pointer = n.time)

EriLong(t) ==
  /\ LongEnough(t, LengthTwo(t)) /\ LongEnough(t, LengthThree(t))
  /\ ~(LengthThree(t) - RestThree(t) < 1) /\ ~(LengthOne(t) < 1)

EriPlace == test.kind = "ERI" =>
  /\ leg = "first" => Names = {}
  /\ leg = "hybrid" =>
       /\ Names = {Ref1} /\ EriLong(test)
       /\ dir[3].last = Mark(test, tries, Ref1, test.start, LengthOne(test))
  /\ leg = "branch" =>
       /\ Names = {Ref1, Hybrid} /\ EriLong(test) /\ Ran(Hybrid, 0, LengthTwo(test))
       /\ dir[2].last = Mark(test, tries, Hybrid, Later(test), RestTwo(test))
  /\ leg = "second" =>
       /\ Names = {Ref1, Hybrid, Branch} /\ EriLong(test) /\ Ran(Branch, RestTwo(test), LengthTwo(test))
       /\ HoldsIn(test, dir[1], Mark(test, tries, Branch, Later(test), RestTwo(test) + RestThree(test)))
       /\ arch = {Mark(test, tries, Hybrid, Later(test), RestTwo(test))}

Multiples(t) == Steps(t.stop, Half(t))
AllOf(t, k) == {Mark(t, k, Base, t.start, l * Half(t)) : l \in Multiples(t)}

AtMultiples(files) ==
  \A r \in files : \E l \in Multiples(test) : r.time = ModelTime(test, test.start, l * Half(test))

\* The tests of two cases, after their setup
PairedReady ==
  /\ test.stop >= 3 /\ LongEnough(test, test.stop)
  /\ env[1].stop = test.stop /\ env[1].rest = Half(test)
  /\ env[2].stop = test.stop - Half(test) /\ env[2].rest = 0
  /\ (test.named /\ test.kind # "ERR") => env[2].pointer = ModelTime(test, test.start, Half(test))
  /\ AtMultiples(dir[1].files)

PairedPlace == test.kind \in Paired =>
  /\ leg = "setup" => dir[1].files = {} /\ env[1].stop = test.stop
  /\ leg \notin {"setup", "short"} => PairedReady
  /\ leg = "first" => Names = {}
  /\ leg = "second" =>
       /\ Names = {Base} /\ Ran(Base, 0, test.stop)
       /\ dir[1].files = AllOf(test, tries) /\ dir[1].last = Newest(dir[1].files)

DaeReady ==
  /\ test.stop = PartLength(test) * test.parts
  /\ env[1].stop = test.stop /\ env[2].stop = PartLength(test) /\ env[2].rest = PartLength(test)

DaePlace == test.kind = "DAE" =>
  /\ leg = "setup" => env[1].stop = test.stop
  /\ leg \notin {"setup", "short"} => DaeReady
  /\ leg = "first" => Names = {} /\ j = 1
  /\ leg = "reset" => Names = {Base} /\ j = 1 /\ Ran(Base, 0, test.stop)
  /\ leg = "second" =>
       /\ j \in 1..test.parts /\ Ran(Base, 0, test.stop)
       /\ Names = {Base} \cup {Cycle(k) : k \in 1 .. (j - 1)}
       /\ j = 1 => ~env[2].cont
       /\ j > 1 => LET n == Mark(test, tries, Cycle(j - 1), test.start, (j - 1) * PartLength(test))
                   IN HoldsIn(test, dir[2], n) /\ (test.named => env[2].pointer = n.time)

\* DAE and the tests of two cases begin with the setup; every leg has what it needs
LegsInv == Common /\ ErsPlace /\ ErioPlace /\ EriPlace /\ PairedPlace /\ DaePlace

-----------------------------------------------------------------------------
(* Restarts and directories *)

IsRun(name) == name # <<"none", 0, 0>>
From(n) == n # None /\ n.at \in Nat

\* A mark is a restart, of the time it is for.
LEMMA MarkParts ==
  ASSUME NEW t, NEW k, NEW name, NEW o, NEW at
  PROVE  LET n == Mark(t, k, name, o, at)
         IN /\ n.by = name /\ n.at = at /\ n.try = k /\ n.time = ModelTime(t, o, at)
            /\ (IsRun(name) => n # None)
<1> DEFINE n == Mark(t, k, name, o, at)
<1>1. n.by = name /\ n.at = at /\ n.try = k /\ n.time = ModelTime(t, o, at)
  BY DEF Mark
<1>2. None.by = <<"none", 0, 0>>
  BY DEF None, Origin
<1> QED BY <1>1, <1>2 DEF IsRun

\* Nothing is written when REST_N is 0, or later than the end.
LEMMA WrittenNone ==
  ASSUME NEW name, NEW o, NEW a, NEW b
  PROVE  Written(name, o, a, b, 0) = {}
BY DEF Written

Marks(name, o, a, q, L) == {Mark(test, tries, name, o, a + l * q) : l \in L}

\* What is written is a mark at a multiple of the interval.
LEMMA WrittenMarks ==
  ASSUME NEW name, NEW o, NEW a \in Nat, NEW len \in Nat, NEW q \in Nat \ {0}
  PROVE  Written(name, o, a, a + len, q)
           = Marks(name, o, a, q, Steps(len, q))
<1>1. (a + len) - a = len /\ q # 0
  OBVIOUS
<1>2. Written(name, o, a, a + len, q)
        = {[by |-> name, at |-> a + k * q, try |-> tries, time |-> ModelTime(test, o, a + k * q)]
             : k \in {l \in 1 .. len : l * q <= len}}
  BY <1>1 DEF Written
<1> QED BY <1>2 DEF Mark, Marks, Steps

\* Only one, when the interval is more than half of the run.
LEMMA OneMultiple ==
  ASSUME NEW len \in Nat, NEW q \in Nat \ {0}, q <= len, 2 * q > len
  PROVE  Steps(len, q) = {1}
<1>1. 1 \in 1 .. len /\ 1 * q <= len
  OBVIOUS
<1>2. ASSUME NEW l \in 1 .. len, l * q <= len PROVE l = 1
  <2>1. l * q < 2 * q /\ l \in Int
    BY <1>2
  <2>2. l < 2
    BY <2>1, Cancel
  <2> QED BY <2>2
<1> QED BY <1>1, <1>2 DEF Steps

\* An interval of more than half of the run leaves one restart.
LEMMA WrittenOne ==
  ASSUME NEW name, NEW o, NEW a \in Nat, NEW len \in Nat, NEW q \in Nat \ {0}, q <= len, 2 * q > len
  PROVE  Written(name, o, a, a + len, q) = {Mark(test, tries, name, o, a + q)}
<1>1. Written(name, o, a, a + len, q) = Marks(name, o, a, q, Steps(len, q))
  BY WrittenMarks
<1>2. Steps(len, q) = {1}
  BY OneMultiple
<1>3. a + 1 * q = a + q
  OBVIOUS
<1> QED BY <1>1, <1>2, <1>3 DEF Marks

\* So it does in a run from the start.
LEMMA WrittenOneFirst ==
  ASSUME NEW name, NEW o, NEW len \in Nat, NEW q \in Nat \ {0}, q <= len, 2 * q > len
  PROVE  Written(name, o, 0, len, q) = {Mark(test, tries, name, o, q)}
<1> DEFINE a == 0
<1>0. a \in Nat
  OBVIOUS
<1>1. a + len = len /\ a + q = q
  OBVIOUS
<1> HIDE DEF a
<1>2. Written(name, o, a, a + len, q) = {Mark(test, tries, name, o, a + q)}
  BY <1>0, WrittenOne
<1>3. Written(name, o, a, len, q) = {Mark(test, tries, name, o, q)}
  BY <1>1, <1>2
<1> QED BY <1>3 DEF a

\* The newest of one restart is that one.
LEMMA NewestOne ==
  ASSUME NEW r, r.at \in Int
  PROVE  Newest({r}) = r /\ Oldest({r}) = r
BY DEF Newest, Oldest

\* A restart that is put into a directory is found there, whatever was there.
LEMMA PutOne ==
  ASSUME NEW t, NEW d, NEW n, n.at \in Int
  PROVE  /\ HoldsIn(t, Put(d, {n}), n) /\ Put(d, {n}).last = n
         /\ DirFits(Put(d, {n}))
<1> DEFINE f == {r \in d.files : \A x \in {n} : x.time # r.time} \cup {n}
<1>1. Put(d, {n}) = [files |-> f, last |-> n]
  BY NewestOne DEF Put
<1>2. Put(d, {n}).files = f /\ Put(d, {n}).last = n
  BY <1>1
<1>3. {r \in f : r.time = n.time} = {n}
  OBVIOUS
<1>4. HoldsIn(t, Put(d, {n}), n)
  BY <1>2, <1>3 DEF HoldsIn
<1> HIDE DEF f
<1>5. DirFits(Put(d, {n}))
  <2>1. n \in f
    BY DEF f
  <2> QED BY <1>1, <1>2, <2>1 DEF DirFits
<1> QED BY <1>2, <1>4, <1>5

\* A directory nothing is put into keeps what it has.
LEMMA PutNone ==
  ASSUME NEW d, DirFits(d)
  PROVE  Put(d, {}) = d
<1>1. {r \in d.files : \A x \in {} : x.time # r.time} \cup {} = d.files
  OBVIOUS
<1> QED BY <1>1 DEF Put, DirFits

\* The last of the restarts a run has written.
LEMMA NewestWritten ==
  ASSUME NEW name, NEW o, NEW a \in Nat, NEW len \in Nat, NEW q \in Nat \ {0},
         Written(name, o, a, a + len, q) # {}
  PROVE  Newest(Written(name, o, a, a + len, q)) \in Written(name, o, a, a + len, q)
<1> DEFINE K == Steps(len, q)
           S == Written(name, o, a, a + len, q)
           T == {len - l : l \in K}
<1>0. S = Marks(name, o, a, q, K) /\ S # {}
  BY WrittenMarks
<1> HIDE DEF S
<1>1. S = {Mark(test, tries, name, o, a + l * q) : l \in K}
  BY <1>0 DEF Marks
<1>2. T \in SUBSET Nat /\ T # {}
  <2>1. \A l \in K : len - l \in Nat
    BY DEF Steps
  <2>2. K # {}
    BY <1>0, <1>1
  <2> QED BY <2>1, <2>2
<1>3. PICK m \in T : \A y \in T : m <= y
  BY <1>2, LeastOfSome
<1>4. PICK k \in K : m = len - k
  BY <1>3
<1>5. \A l \in K : l <= k
  <2> TAKE l \in K
  <2>1. len - l \in T
    OBVIOUS
  <2>2. len - k <= len - l
    BY <1>3, <1>4, <2>1
  <2>3. l \in 1 .. len /\ k \in 1 .. len
    BY DEF Steps
  <2> QED BY <2>2, <2>3
<1> DEFINE r == Mark(test, tries, name, o, a + k * q)
<1>6. r \in S /\ \A x \in S : x.at <= r.at
  <2>1. r \in S
    BY <1>1
  <2> SUFFICES ASSUME NEW x \in S PROVE x.at <= r.at
    BY <2>1
  <2>2. PICK l \in K : x = Mark(test, tries, name, o, a + l * q)
    BY <1>1
  <2>3. x.at = a + l * q /\ r.at = a + k * q
    BY <2>2, MarkParts
  <2>4. l * q <= k * q
    <3>0. k \in Nat /\ l \in Nat /\ l <= k
      BY <1>5 DEF Steps
    <3>1. (k - l) * q >= 0
      BY <3>0
    <3>2. (k - l) * q = k * q - l * q
      BY <3>0
    <3>3. k * q \in Int /\ l * q \in Int
      BY <3>0
    <3> QED BY <3>1, <3>2, <3>3
  <2>5. k * q \in Int /\ l * q \in Int
    BY DEF Steps
  <2> QED BY <2>3, <2>4, <2>5
<1> QED BY <1>6 DEF Newest, S

\* Whatever a run writes, the pointer files name a restart that is there.
LEMMA PutWritten ==
  ASSUME NEW d, DirFits(d), NEW name, NEW o, NEW a \in Nat, NEW len \in Nat, NEW q \in Nat
  PROVE  DirFits(Put(d, Written(name, o, a, a + len, q)))
<1> DEFINE S == Written(name, o, a, a + len, q)
<1>1. CASE S = {}
  BY <1>1, PutNone
<1>2. CASE S # {}
  <2>1. q # 0
    BY <1>2, WrittenNone
  <2>2. Newest(S) \in S
    BY <1>2, <2>1, NewestWritten
  <2> HIDE DEF S
  <2>3. Put(d, S) = [files |-> {r \in d.files : \A x \in S : x.time # r.time} \cup S, last |-> Newest(S)]
    BY <1>2 DEF Put
  <2> DEFINE f == {r \in d.files : \A x \in S : x.time # r.time} \cup S
  <2>4. Newest(S) \in f
    BY <2>2
  <2> HIDE DEF f
  <2>5. DirFits([files |-> f, last |-> Newest(S)])
    BY <2>4 DEF DirFits
  <2> QED BY <2>3, <2>5 DEF f, S
<1> QED BY <1>1, <1>2

\* The first restart of a run is found in its directory: by its name, or as the
\* last one if there is no other.
LEMMA FirstIsHeld ==
  ASSUME test \in Tests, NEW d, NEW name, NEW o \in StartTimes,
         NEW a \in Nat, NEW len \in Nat, NEW q \in Nat \ {0}, q <= len,
         test.named \/ 2 * q > len
  PROVE  HoldsIn(test, Put(d, Written(name, o, a, a + len, q)), Mark(test, tries, name, o, a + q))
<1> DEFINE S == Written(name, o, a, a + len, q)
           n == Mark(test, tries, name, o, a + q)
<1>1. CASE 2 * q > len
  <2>1. S = {n}
    BY <1>1, WrittenOne
  <2>2. n.at \in Int
    BY MarkParts
  <2> HIDE DEF S, n
  <2>3. HoldsIn(test, Put(d, S), n)
    BY <2>1, <2>2, PutOne
  <2> QED BY <2>3 DEF S, n
<1>2. CASE test.named
  <2> DEFINE K == Steps(len, q)
             f == {r \in d.files : \A x \in S : x.time # r.time} \cup S
  <2>0. S = Marks(name, o, a, q, K)
    BY WrittenMarks
  <2> HIDE DEF S
  <2>1. S = {Mark(test, tries, name, o, a + l * q) : l \in K}
    BY <2>0 DEF Marks
  <2>2. n \in S
    <3>1. 1 \in K /\ a + 1 * q = a + q
      BY DEF Steps
    <3> QED BY <2>1, <3>1
  <2>3. ASSUME NEW r \in S, r.time = n.time PROVE r = n
    <3>1. PICK l \in K : r = Mark(test, tries, name, o, a + l * q)
      BY <2>1
    <3>2. a + l * q \in Nat /\ a + q \in Nat
      BY DEF Steps
    <3>3. ModelTime(test, o, a + l * q) = ModelTime(test, o, a + q)
      BY <2>3, <3>1, MarkParts
    <3>4. a + l * q = a + q
      BY <3>2, <3>3, TimesDiffer
    <3> QED BY <3>1, <3>4
  <2> HIDE DEF S, n, K
  <2>4. Put(d, S).files = f
    BY DEF Put
  <2>5. {r \in f : r.time = n.time} = {n}
    BY <2>2, <2>3
  <2>6. HoldsIn(test, Put(d, S), n)
    BY <1>2, <2>4, <2>5 DEF HoldsIn
  <2> QED BY <2>6 DEF S, n
<1> QED BY <1>1, <1>2

\* A leg reads the restart it looks for.
LEMMA ReadsIt ==
  ASSUME NEW d, NEW e, NEW n, HoldsIn(test, d, n), n # None, test.named => e.pointer = n.time
  PROVE  Read(d, e) = {n}
BY DEF HoldsIn, Read

-----------------------------------------------------------------------------
(* A run *)

\* A leg that begins from the restart n is killed, or runs to its end.
CutShort(name, c, e, d, n, o) ==
  /\ leg' = "failed" /\ env' = [env EXCEPT ![c] = e]
  /\ \E len \in 0 .. e.stop : dir' = [dir EXCEPT ![c] = Put(d, Written(name, o, n.at, n.at + len, e.rest))]

Whole(name, c, e, d, n, o, next) ==
  /\ leg' = next
  /\ [name |-> name, from |-> n, to |-> n.at + e.stop] \in runs'
  /\ LET after == Put(d, Written(name, o, n.at, n.at + e.stop, e.rest))
     IN dir' = [dir EXCEPT ![c] = after] /\ env' = [env EXCEPT ![c] = Repoint(e, after)]

\* Either way the run is remembered, and what a whole one is compared with.
Added(name, e, n, added) == \E to \in Nat :
  /\ runs' = runs \cup {[name |-> name, from |-> n, to |-> to]}
  /\ pairs' = pairs \/ (to = n.at + e.stop /\ pairs' = pairs \cup added)

\* A run begins from the one restart it is given.
LEMMA RunsFrom ==
  ASSUME NEW name, NEW c, NEW e, NEW d, NEW n, NEW o, NEW next, NEW added,
         n.at \in Nat, e.stop \in Nat,
         Run(name, c, e, d, {n}, o, next, added)
  PROVE  /\ CutShort(name, c, e, d, n, o) \/ Whole(name, c, e, d, n, o, next)
         /\ Added(name, e, n, added)
<1>1. PICK to \in n.at .. (n.at + e.stop) :
        /\ dir' = [dir EXCEPT ![c] = Put(d, Written(name, o, n.at, to, e.rest))]
        /\ env' = [env EXCEPT ![c] = IF to = n.at + e.stop
                                     THEN Repoint(e, Put(d, Written(name, o, n.at, to, e.rest))) ELSE e]
        /\ leg' = (IF to = n.at + e.stop THEN next ELSE "failed")
        /\ runs' = runs \cup {[name |-> name, from |-> n, to |-> to]}
        /\ pairs' = IF to = n.at + e.stop THEN pairs \cup added ELSE pairs
  BY Zenon DEF Run
<1>2. to \in n.at .. (n.at + e.stop) /\ to \in Nat
  BY <1>1
<1>3. CASE to = n.at + e.stop
  <2>1. Whole(name, c, e, d, n, o, next)
    BY <1>1, <1>2, <1>3, Zenon DEF Whole
  <2> QED BY <1>1, <1>2, <1>3, <2>1 DEF Added
<1>4. CASE to # n.at + e.stop
  <2> DEFINE len == to - n.at
  <2>1. len \in 0 .. e.stop /\ to = n.at + len
    BY <1>2
  <2> HIDE DEF len
  <2>2. dir' = [dir EXCEPT ![c] = Put(d, Written(name, o, n.at, n.at + len, e.rest))]
    BY <1>1, <1>2, <2>1
  <2>3. leg' = "failed" /\ env' = [env EXCEPT ![c] = e] /\ pairs' = pairs
    BY <1>1, <1>2, <1>4
  <2>4. CutShort(name, c, e, d, n, o)
    BY <2>1, <2>2, <2>3, Zenon DEF CutShort
  <2> QED BY <1>1, <1>2, <2>3, <2>4 DEF Added
<1> QED BY <1>3, <1>4

\* Values of env_run.xml keep their types when the pointer is set.
LEMMA RepointFits ==
  ASSUME NEW t, NEW e, EnvFits(t, e), NEW d
  PROVE  /\ EnvFits(t, Repoint(e, d))
         /\ Repoint(e, d).stop = e.stop /\ Repoint(e, d).rest = e.rest /\ Repoint(e, d).cont = e.cont
         /\ (d.last # None => Repoint(e, d).pointer = d.last.time)
<1>1. \A p : LET z == [e EXCEPT !.pointer = p]
             IN EnvFits(t, z) /\ z.stop = e.stop /\ z.rest = e.rest /\ z.cont = e.cont /\ z.pointer = p
  BY DEF EnvFits
<1> QED BY <1>1 DEF Repoint

\* What the new pair of runs compares
Justified(name, e, n, added) ==
  \/ added = {}
  \/ \E p : /\ added = {<<p, name>>} /\ n.at + e.stop = Length(test) /\ n.at < Length(test)
            /\ n.try = tries /\ (n.by = p \/ test.kind = "DAE")
            /\ \E a \in runs : a.name = p /\ a.to = Length(test) /\ a.from.at < n.at

\* A run that was made stays among the runs.
LEMMA RanKept ==
  ASSUME NEW name, NEW x, NEW y, runs \subseteq runs', Ran(name, x, y)
  PROVE  Ran(name, x, y)'
BY DEF Ran

\* A run that begins from a restart keeps the names unique and the pairs justified.
LEMMA RunKeeps ==
  ASSUME Common, test' = test, tries' = tries,
         NEW name, NEW c \in 1..3, NEW e, NEW d, NEW n, NEW o, NEW next, NEW added,
         EnvFits(test, e), DirFits(d), From(n), name \notin Names,
         next \in Waiting \cup LegsOf(test), Justified(name, e, n, added),
         Run(name, c, e, d, {n}, o, next, added)
  PROVE  /\ Common' /\ Names' = Names \cup {name} /\ runs \subseteq runs'
         /\ CutShort(name, c, e, d, n, o) \/ Whole(name, c, e, d, n, o, next)
<1>1. n.at \in Nat /\ e.stop \in Nat /\ e.rest \in Nat /\ test \in Tests
  <2>1. test.stop \in Nat
    BY TestAssumption DEF Common, Shapes
  <2> QED BY <2>1 DEF From, EnvFits, Common, Shapes
<1>2. CutShort(name, c, e, d, n, o) \/ Whole(name, c, e, d, n, o, next)
  BY <1>1, RunsFrom
<1>3. PICK to \in Nat : /\ runs' = runs \cup {[name |-> name, from |-> n, to |-> to]}
                        /\ pairs' = pairs \/ (to = n.at + e.stop /\ pairs' = pairs \cup added)
  <2>1. Added(name, e, n, added)
    BY <1>1, RunsFrom
  <2> QED BY <2>1 DEF Added
<1> DEFINE b == [name |-> name, from |-> n, to |-> to]
<1>4. b.name = name /\ b.from = n /\ b.to = to /\ runs' = runs \cup {b} /\ b \in runs'
  BY <1>3
<1> HIDE DEF b
<1>5. Names' = Names \cup {name} /\ runs \subseteq runs'
  BY <1>4 DEF Names
<1>6. OneEach'
  <2>1. \A a \in runs : a.name # name
    BY DEF Names
  <2> QED BY <1>4, <2>1 DEF OneEach, Common
<1>7. Shapes'
  <2>1. DirFits(d) /\ \A len \in 0 .. e.stop : DirFits(Put(d, Written(name, o, n.at, n.at + len, e.rest)))
    <3>1. \A len \in 0 .. e.stop : len \in Nat
      BY <1>1
    <3> QED BY <1>1, <3>1, PutWritten
  <2>2. PICK x, y : env' = [env EXCEPT ![c] = x] /\ dir' = [dir EXCEPT ![c] = y] /\ EnvFits(test, x) /\ DirFits(y)
    <3>1. CASE CutShort(name, c, e, d, n, o)
      BY <2>1, <3>1 DEF CutShort
    <3>2. CASE Whole(name, c, e, d, n, o, next)
      <4> DEFINE z == Put(d, Written(name, o, n.at, n.at + e.stop, e.rest))
      <4>1. DirFits(z)
        <5>1. e.stop \in 0 .. e.stop
          BY <1>1
        <5> QED BY <2>1, <5>1
      <4>2. dir' = [dir EXCEPT ![c] = z] /\ env' = [env EXCEPT ![c] = Repoint(e, z)]
        BY <3>2 DEF Whole
      <4>3. EnvFits(test, Repoint(e, z))
        BY RepointFits
      <4> HIDE DEF z
      <4> QED BY <4>1, <4>2, <4>3
    <3> QED BY <1>2, <3>1, <3>2
  <2>3. /\ test \in Tests /\ tries \in 0..MaxTries
        /\ env = [k \in 1..3 |-> env[k]] /\ \A k \in 1..3 : EnvFits(test, env[k])
        /\ dir = [k \in 1..3 |-> dir[k]] /\ \A k \in 1..3 : DirFits(dir[k])
    BY DEF Common, Shapes
  <2>4. /\ env' = [k \in 1..3 |-> env'[k]] /\ dir' = [k \in 1..3 |-> dir'[k]]
        /\ \A k \in 1..3 : env'[k] = IF k = c THEN x ELSE env[k]
        /\ \A k \in 1..3 : dir'[k] = IF k = c THEN y ELSE dir[k]
    BY <2>2, <2>3
  <2>5. \A k \in 1..3 : EnvFits(test', env'[k]) /\ DirFits(dir'[k])
    BY <2>2, <2>3, <2>4
  <2> QED BY <2>3, <2>4, <2>5 DEF Shapes
<1>8. \A p \in pairs' : Compared(p)'
  <2>1. ASSUME NEW p, Compared(p) PROVE Compared(p)'
    BY <1>5, <2>1 DEF Compared
  <2>2. CASE pairs' = pairs
    BY <2>1, <2>2 DEF Common
  <2>3. CASE to = n.at + e.stop /\ pairs' = pairs \cup added
    <3>1. CASE added = {}
      BY <2>1, <2>3, <3>1 DEF Common
    <3>2. ASSUME NEW p, added = {<<p, name>>}, n.at + e.stop = Length(test), n.at < Length(test),
                 n.try = tries, n.by = p \/ test.kind = "DAE",
                 \E a \in runs : a.name = p /\ a.to = Length(test) /\ a.from.at < n.at
          PROVE  \A z \in pairs' : Compared(z)'
      <4>1. PICK a \in runs : a.name = p /\ a.to = Length(test) /\ a.from.at < n.at
        BY <3>2
      <4>2. Compared(<<p, name>>)'
        <5>1. a \in runs' /\ b \in runs' /\ b.to = Length(test)
          BY <1>4, <2>3, <3>2
        <5>2. <<p, name>>[1] = p /\ <<p, name>>[2] = name
          OBVIOUS
        <5> QED BY <1>4, <3>2, <4>1, <5>1, <5>2 DEF Compared
      <4> QED BY <2>1, <2>3, <3>2, <4>2 DEF Common
    <3> QED BY <3>1, <3>2 DEF Justified
  <2> QED BY <1>3, <2>2, <2>3
<1>9. leg' \in (Waiting \cup LegsOf(test))'
  <2>1. leg' \in {next, "failed"}
    BY <1>2 DEF CutShort, Whole
  <2> QED BY <2>1 DEF Waiting, LegsOf
<1> QED BY <1>2, <1>5, <1>6, <1>7, <1>8, <1>9 DEF Common

\* What has changed when a run has been killed, or is over
LEMMA CutShortParts ==
  ASSUME Shapes, NEW name, NEW c \in 1..3, NEW e, NEW d, NEW n, NEW o, CutShort(name, c, e, d, n, o)
  PROVE  /\ leg' = "failed" /\ env'[c] = e
         /\ \A k \in (1..3) \ {c} : env'[k] = env[k] /\ dir'[k] = dir[k]
         /\ \E len \in 0 .. e.stop : dir'[c] = Put(d, Written(name, o, n.at, n.at + len, e.rest))
BY DEF Shapes, CutShort

\* What a run that came to its end has left.
LEMMA WholeParts ==
  ASSUME Shapes, NEW name, NEW c \in 1..3, NEW e, EnvFits(test, e), NEW d, NEW n, NEW o, NEW next,
         Whole(name, c, e, d, n, o, next)
  PROVE  /\ leg' = next
         /\ Ran(name, n.at, n.at + e.stop)'
         /\ dir'[c] = Put(d, Written(name, o, n.at, n.at + e.stop, e.rest))
         /\ env'[c].stop = e.stop /\ env'[c].rest = e.rest /\ env'[c].cont = e.cont
         /\ (dir'[c].last # None => env'[c].pointer = dir'[c].last.time)
         /\ \A k \in (1..3) \ {c} : env'[k] = env[k] /\ dir'[k] = dir[k]
<1> DEFINE z == Put(d, Written(name, o, n.at, n.at + e.stop, e.rest))
           b == [name |-> name, from |-> n, to |-> n.at + e.stop]
<1>1. leg' = next /\ b \in runs' /\ dir' = [dir EXCEPT ![c] = z] /\ env' = [env EXCEPT ![c] = Repoint(e, z)]
  BY DEF Whole
<1>2. Ran(name, n.at, n.at + e.stop)'
  <2>1. b.name = name /\ b.from = n /\ b.to = n.at + e.stop
    OBVIOUS
  <2> HIDE DEF b
  <2> QED BY <1>1, <2>1 DEF Ran
<1> HIDE DEF z, b
<1>3. dir'[c] = z /\ env'[c] = Repoint(e, z)
  BY <1>1 DEF Shapes
<1>4. \A k \in (1..3) \ {c} : env'[k] = env[k] /\ dir'[k] = dir[k]
  BY <1>1 DEF Shapes
<1>5. /\ Repoint(e, z).stop = e.stop /\ Repoint(e, z).rest = e.rest /\ Repoint(e, z).cont = e.cont
      /\ (z.last # None => Repoint(e, z).pointer = z.last.time)
  BY RepointFits
<1> QED BY <1>1, <1>2, <1>3, <1>4, <1>5 DEF z

-----------------------------------------------------------------------------
(* Tests *)

\* The lengths fit, and python's dates name the restarts.
Restartable == \A t \in Tests :
  /\ Fits(t)
  /\ (t.named /\ (t.cal = "NO_LEAP" \/ t.option = "nyears")) => DatesAgree(t)

\* No leap day lies between the start of a run and the restart whose date is computed.
Calm(t) ==
  LET o   == Later(t)
      mid == ModelTime(t, o, RestTwo(t))
  IN /\ t.start.date.d <= Days[t.start.date.m]
     /\ t.kind \in {"ERS", "IRT", "ERP"} => NoLeapDay(t.start.date, ModelTime(t, t.start, Half(t)).date)
     /\ t.kind = "ERI" =>
          /\ NoLeapDay(o.date, mid.date)
          /\ NoLeapDay(mid.date, ModelTime(t, o, RestTwo(t) + RestThree(t)).date)

\* The date _set_restart_interval computes for a restart is the model's unless a leap
\* day lies between: only there can the finding about _leap_year_correction bite.
THEOREM DatesAgreeHolds ==
  ASSUME NEW t \in Tests, t.kind = "ERI" => LengthThree(t) \in Nat,
         (t.cal = "NO_LEAP" \/ t.option = "nyears") => Calm(t)
  PROVE  DatesAgree(t)
<1> DEFINE s == t.start
           o == Later(t)
           h == Half(t)
           a == RestTwo(t)
           b == RestThree(t)
           p == ModelTime(t, o, a)
<1>1. DatesAgree(t) <=>
        /\ t.kind \in {"ERS", "IRT", "ERP"} => RestTime(t, s, h) = ModelTime(t, s, h)
        /\ t.kind = "ERI" => RestTime(t, o, a) = p /\ RestTime(t, p, b) = ModelTime(t, o, a + b)
  BY DEF DatesAgree, Half, LengthOne, LengthTwo, RestTwo, LengthThree, RestThree, Later
<1>2. s \in StartTimes /\ o \in StartTimes /\ o.date.m = s.date.m /\ o.date.d = s.date.d
  <2>1. s \in StartTimes
    BY TestAssumption
  <2>2. s.date \in [y : Nat \ {0}, m : 1..12, d : 1..31] /\ s = [date |-> s.date, tod |-> s.tod]
    BY <2>1, SMT DEF StartTimes
  <2> DEFINE z == [s.date EXCEPT !.y = s.date.y + 4]
  <2>3. z \in [y : Nat \ {0}, m : 1..12, d : 1..31] /\ z.m = s.date.m /\ z.d = s.date.d
    BY <2>2, SMT
  <2> HIDE DEF z, s
  <2>4. [s EXCEPT !.date = z] = [date |-> z, tod |-> s.tod]
    BY <2>2, SMT
  <2>5. o = [s EXCEPT !.date = z]
    BY DEF z, Later, s
  <2>6. o = [date |-> z, tod |-> s.tod]
    BY <2>4, <2>5, Zenon
  <2>7. s.tod \in 0 .. (Secs.day - 1)
    BY <2>1, Zenon DEF StartTimes
  <2> HIDE DEF o
  <2>8. o.date = z
    BY <2>6, SMT
  <2>9. o \in StartTimes
    BY <2>3, <2>6, <2>7, SMT DEF StartTimes
  <2> QED BY <2>1, <2>3, <2>8, <2>9
<1>3. \A x \in StartTimes : x \in Times /\ x.date.y \in Nat \ {0} /\ x.date.m \in 1..12 /\ x.date.d \in 1..31
  BY StartTimeParts, Zenon
<1>4. h \in Nat /\ a \in Nat /\ (t.kind = "ERI" => b \in Nat)
  <2>1. t.stop \in Nat
    BY TestAssumption
  <2>2. LengthTwo(t) \in Nat
    BY <2>1 DEF LengthTwo, LengthOne
  <2> QED BY <2>1, <2>2, IntervalNat DEF Half, RestTwo, RestThree
<1>5. t.cal = "NO_LEAP" \/ t.option = "nyears" =>
        /\ s.date.d <= Days[s.date.m]
        /\ t.kind \in {"ERS", "IRT", "ERP"} => NoLeapDay(s.date, ModelTime(t, s, h).date)
        /\ t.kind = "ERI" => NoLeapDay(o.date, p.date) /\ NoLeapDay(p.date, ModelTime(t, o, a + b).date)
  BY DEF Calm
<1>6. CASE t.cal = "NO_LEAP"
  <2>1. t.kind \in {"ERS", "IRT", "ERP"} => RestTime(t, s, h) = ModelTime(t, s, h)
    BY <1>2, <1>3, <1>4, <1>5, <1>6, NoLeapNames DEF Half
  <2>2. ASSUME t.kind = "ERI" PROVE RestTime(t, o, a) = p /\ RestTime(t, p, b) = ModelTime(t, o, a + b)
    <3>1. p \in Times /\ p.date.y \in Nat \ {0} /\ p.date.d \in Nat \ {0} /\ ModelTime(t, p, b) = ModelTime(t, o, a + b)
      <4> HIDE DEF s, o, a, b
      <4>2. t \in Tests /\ t.cal = "NO_LEAP" /\ o \in StartTimes /\ a \in Nat /\ b \in Nat
        BY <1>2, <1>4, <1>6, <2>2
      <4>3. p \in Times
        BY <4>2, NoLeapLater, Zenon
      <4>4. p.date.y \in Nat \ {0}
        BY <4>2, NoLeapLater, Zenon
      <4>6. p.date.d \in Nat \ {0}
        BY <4>2, NoLeapLater, Zenon
      <4>5. ModelTime(t, p, b) = ModelTime(t, o, a + b)
        BY <4>2, NoLeapLater, SMT
      <4> QED BY <4>3, <4>4, <4>5, <4>6
    <3>2. RestTime(t, o, a) = p
      BY <1>2, <1>3, <1>4, <1>5, <1>6, <2>2, NoLeapNames
    <3>3. NoLeapDay(p.date, ModelTime(t, p, b).date)
      BY <1>5, <1>6, <2>2, <3>1
    <3> HIDE DEF p
    <3>4. RestTime(t, p, b) = ModelTime(t, p, b)
      BY <1>4, <1>6, <2>2, <3>1, <3>3, NoLeapNames
    <3> QED BY <3>1, <3>2, <3>4
  <2> QED BY <1>1, <2>1, <2>2
<1>7. CASE t.cal # "NO_LEAP" /\ t.option = "nyears"
  <2>1. s.date.d \in 1 .. Days[s.date.m] /\ o.date.d \in 1 .. Days[o.date.m]
    <3>1. Days[s.date.m] \in Int
      BY <1>2, <1>3 DEF Days
    <3> QED BY <1>2, <1>3, <1>5, <1>7, <3>1
  <2>2. t.kind \in {"ERS", "IRT", "ERP"} => RestTime(t, s, h) = ModelTime(t, s, h)
    BY <1>2, <1>3, <1>4, <1>5, <1>7, <2>1, GregorianYears
  <2>3. ASSUME t.kind = "ERI" PROVE RestTime(t, o, a) = p /\ RestTime(t, p, b) = ModelTime(t, o, a + b)
    <3>1. /\ p \in Times /\ p.date.y \in Nat \ {0} /\ p.date.m = o.date.m /\ p.date.d = o.date.d
          /\ ModelTime(t, p, b) = ModelTime(t, o, a + b)
      <4> HIDE DEF s, o, a, b
      <4>2. /\ t \in Tests /\ t.cal # "NO_LEAP" /\ t.option = "nyears" /\ o \in Times /\ o.date.y \in Nat \ {0}
            /\ a \in Nat /\ b \in Nat
        BY <1>2, <1>3, <1>4, <1>7, <2>3
      <4>3. p \in Times
        BY <4>2, YearsLater, Zenon
      <4>4. p.date.y \in Nat \ {0}
        BY <4>2, YearsLater, Zenon
      <4>6. p.date.m = o.date.m
        BY <4>2, YearsLater, Zenon
      <4>7. p.date.d = o.date.d
        BY <4>2, YearsLater, Zenon
      <4>5. ModelTime(t, p, b) = ModelTime(t, o, a + b)
        BY <4>2, YearsLater, SMT
      <4> QED BY <4>3, <4>4, <4>5, <4>6, <4>7
    <3>2. RestTime(t, o, a) = p
      BY <1>2, <1>3, <1>4, <1>5, <1>7, <2>1, <2>3, GregorianYears
    <3>3. NoLeapDay(p.date, ModelTime(t, p, b).date)
      BY <1>5, <1>7, <2>3, <3>1
    <3>4. p.date.d \in 1 .. Days[p.date.m]
      BY <2>1, <3>1
    <3> HIDE DEF p
    <3>5. RestTime(t, p, b) = ModelTime(t, p, b)
      BY <1>4, <1>7, <2>3, <3>1, <3>3, <3>4, GregorianYears
    <3> QED BY <3>1, <3>2, <3>5
  <2> QED BY <1>1, <2>2, <2>3
<1>8. CASE t.cal # "NO_LEAP" /\ t.option # "nyears"
  <2>1. RestTime(t, s, h) = ModelTime(t, s, h)
    BY <1>2, <1>4, <1>8, GregorianNames
  <2>2. t.kind = "ERI" => RestTime(t, p, b) = ModelTime(t, o, a + b)
    BY <1>2, <1>4, <1>8, GregorianNames
  <2>3. RestTime(t, o, a) = p
    BY <1>2, <1>4, <1>8, GregorianNames
  <2> QED BY <1>1, <2>1, <2>2, <2>3
<1> QED BY <1>6, <1>7, <1>8

\* So the tests of which the theorems on restarts speak are those whose lengths fit
\* and, where the driver names the restart, whose restarts no leap day precedes.
THEOREM CalmIsRestartable ==
  ASSUME \A t \in Tests : Fits(t),
         \A t \in Tests :
           t.named /\ (t.cal = "NO_LEAP" \/ t.option = "nyears") =>
             Calm(t) /\ (t.kind = "ERI" => LengthThree(t) \in Nat)
  PROVE  Restartable
<1> SUFFICES ASSUME NEW t \in Tests, t.named, t.cal = "NO_LEAP" \/ t.option = "nyears"
             PROVE  DatesAgree(t)
  BY DEF Restartable
<1>1. Calm(t) /\ (t.kind = "ERI" => LengthThree(t) \in Nat)
  OBVIOUS
<1> QED BY <1>1, DatesAgreeHolds

\* The parts of a test
LEMMA TestParts ==
  ASSUME NEW t \in Tests
  PROVE  /\ t.kind \in {"ERS", "ERIO", "ERI", "IRT", "ERR", "ERP", "DAE"}
         /\ t.stop \in Nat \ {0} /\ t.rest \in Nat /\ t.parts \in Nat \ {0}
         /\ t.start \in StartTimes /\ Later(t) \in StartTimes
<1>1. t.start \in StartTimes
  BY TestAssumption
<1>2. Later(t) \in StartTimes
  <2> DEFINE D == [y : Nat \ {0}, m : 1..12, d : 1..31]
             o == t.start
  <2>1. o \in [date : D, tod : Clock]
    BY <1>1 DEF StartTimes, Clock
  <2>2. Later(t) = [o EXCEPT !.date.y = @ + 4]
    BY DEF Later
  <2> HIDE DEF o, D
  <2> DEFINE z == [o.date EXCEPT !.y = o.date.y + 4]
  <2>3. o.date \in D
    BY <2>1
  <2>4. z \in D
    BY <2>3 DEF D
  <2>5. [o EXCEPT !.date.y = @ + 4] = [o EXCEPT !.date = z]
    OBVIOUS
  <2> HIDE DEF z
  <2>6. [o EXCEPT !.date = z] \in [date : D, tod : Clock]
    BY <2>1, <2>4
  <2> QED BY <2>2, <2>5, <2>6 DEF StartTimes, Clock, D
<1> QED BY <1>1, <1>2, TestAssumption

\* Where the restart of a test lies.
LEMMA HalfFits ==
  ASSUME NEW t \in Tests, Fits(t), LongEnough(t, t.stop), t.kind \in {"ERS", "IRT", "ERR", "ERP"}
  PROVE  /\ Half(t) \in Nat \ {0} /\ Half(t) < t.stop
         /\ t.kind # "IRT" => t.named \/ 2 * Half(t) > t.stop
         /\ t.kind \in {"ERR", "ERP"} => 2 * Half(t) > t.stop
         /\ t.kind = "IRT" /\ t.stop >= 3 => 2 * Half(t) <= t.stop
<1>1. Half(t) > 0 /\ Half(t) < t.stop /\ t.stop \in Nat /\ t.rest \in Nat
  BY TestParts DEF LongEnough, Half
<1>2. CASE t.rest # 0
  <2>1. Half(t) = t.rest
    BY <1>2 DEF Half, RestartInterval
  <2> QED BY <1>1, <1>2, <2>1 DEF Fits
<1>3. CASE t.rest = 0 /\ t.kind # "IRT"
  <2>1. Half(t) \in Nat /\ 2 * Half(t) > t.stop
    BY <1>1, <1>3, OneInTheMiddle DEF Half
  <2> QED BY <1>1, <1>3, <2>1
<1>4. CASE t.rest = 0 /\ t.kind = "IRT"
  <2>1. t.stop >= 3 => Half(t) \in Nat /\ 2 * Half(t) <= t.stop
    BY <1>1, <1>4, TwoInTheMiddle DEF Half
  <2>2. Half(t) \in Nat
    BY <1>1, <1>4, IntervalNat DEF Half
  <2> QED BY <1>1, <1>4, <2>1, <2>2
<1> QED BY <1>2, <1>3, <1>4

\* The pointer that is computed names the restart that is written.
LEMMA NamesTheRestart ==
  ASSUME Restartable, NEW t \in Tests, t.named
  PROVE  /\ t.kind \in {"ERS", "IRT", "ERP"} /\ Half(t) \in Nat =>
              RestTime(t, t.start, Half(t)) = ModelTime(t, t.start, Half(t))
         /\ t.kind = "ERI" /\ RestTwo(t) \in Nat /\ RestThree(t) \in Nat =>
              /\ RestTime(t, Later(t), RestTwo(t)) = ModelTime(t, Later(t), RestTwo(t))
              /\ RestTime(t, ModelTime(t, Later(t), RestTwo(t)), RestThree(t))
                   = ModelTime(t, Later(t), RestTwo(t) + RestThree(t))
<1>1. CASE t.cal = "NO_LEAP" \/ t.option = "nyears"
  <2>1. DatesAgree(t)
    BY <1>1 DEF Restartable
  <2> QED
    BY <2>1 DEF DatesAgree, Half, RestTwo, RestThree, LengthOne, LengthTwo, LengthThree,
         Later
<1>2. CASE ~(t.cal = "NO_LEAP" \/ t.option = "nyears")
  <2>1. t.start \in StartTimes /\ Later(t) \in StartTimes
    BY TestParts
  <2> QED BY <1>2, <2>1, GregorianNames
<1> QED BY <1>1, <1>2

\* What a leg sets.
LEMMA SetsFits ==
  ASSUME NEW t, NEW e, NEW s \in 1..t.stop, NEW r \in 0..t.stop, NEW c \in BOOLEAN
  PROVE  EnvFits(t, Sets(e, s, r, c))
<1> DEFINE p == e.pointer
           z == [stop |-> s, rest |-> r, cont |-> c, pointer |-> p]
<1>1. Sets(e, s, r, c) = z
  BY Zenon DEF Sets
<1> HIDE DEF p
<1>2. z.stop = s /\ z.rest = r /\ z.pointer = p
  OBVIOUS
<1>3. z.cont = c
  BY Zenon
<1>4. z = [stop |-> z.stop, rest |-> z.rest, cont |-> z.cont, pointer |-> z.pointer]
  BY <1>2, <1>3, Zenon
<1> HIDE DEF z
<1>5. EnvFits(t, z)
  BY <1>2, <1>3, <1>4 DEF EnvFits
<1> QED BY <1>1, <1>5, Zenon DEF p

\* The values of env_run.xml
LEMMA EnvParts ==
  ASSUME NEW t, NEW e, EnvFits(t, e)
  PROVE  e.stop \in 1..t.stop /\ e.rest \in 0..t.stop /\ e.cont \in BOOLEAN
BY Zenon DEF EnvFits

\* A run from the start begins at 0.
LEMMA StartFrom == From(Start) /\ Start.at = 0
<1>1. Start.by # None.by /\ Start.at = 0
  BY DEF Start, None, Origin
<1> QED BY <1>1 DEF From

-----------------------------------------------------------------------------
(* Steps *)

\* A test is of one kind.
LEMMA OnlyErs ==
  ASSUME Common', test' = test, test.kind = "ERS", ErsPlace' PROVE LegsInv'
BY DEF LegsInv, ErioPlace, EriPlace, PairedPlace, DaePlace, Paired
LEMMA OnlyErio ==
  ASSUME Common', test' = test, test.kind = "ERIO", ErioPlace' PROVE LegsInv'
BY DEF LegsInv, ErsPlace, EriPlace, PairedPlace, DaePlace, Paired
LEMMA OnlyEri ==
  ASSUME Common', test' = test, test.kind = "ERI", EriPlace' PROVE LegsInv'
BY DEF LegsInv, ErsPlace, ErioPlace, PairedPlace, DaePlace, Paired
LEMMA OnlyPaired ==
  ASSUME Common', test' = test, test.kind \in Paired, PairedPlace' PROVE LegsInv'
BY DEF LegsInv, ErsPlace, ErioPlace, EriPlace, DaePlace, Paired
LEMMA OnlyDae ==
  ASSUME Common', test' = test, test.kind = "DAE", DaePlace' PROVE LegsInv'
BY DEF LegsInv, ErsPlace, ErioPlace, EriPlace, PairedPlace, Paired

\* Nothing is left to do for a test that is too short.
LEMMA ShortKeeps ==
  ASSUME Common, test' = test, tries' = tries, TooShort
  PROVE  LegsInv'
<1>1. leg' = "short" /\ UNCHANGED <<env, dir, arch, runs, pairs, test, tries>>
  BY DEF TooShort
<1>2. Common'
  BY <1>1 DEF Common, Shapes, OneEach, Compared, Waiting
<1> QED BY <1>1, <1>2 DEF LegsInv, ErsPlace, ErioPlace, EriPlace, PairedPlace, DaePlace

\* The steps of an ERS
LEMMA ErsFirstKeeps ==
  ASSUME Restartable, LegsInv, ErsFirst PROVE LegsInv'
<1> DEFINE e == Sets(env[1], env[1].stop, Half(test), env[1].cont)
<1>1. /\ leg = "first" /\ test.kind = "ERS" /\ test' = test /\ tries' = tries
      /\ Common /\ Shapes /\ test \in Tests /\ Fits(test) /\ test.stop \in Nat \ {0}
      /\ Names = {} /\ env[1].stop = test.stop /\ EnvFits(test, env[1]) /\ DirFits(dir[1])
      /\ test.start \in StartTimes
  BY TestParts DEF ErsFirst, At, LegsInv, Common, Shapes, ErsPlace, Restartable
<1>2. CASE ~LongEnough(test, test.stop)
  <2>1. TooShort
    BY <1>1, <1>2 DEF ErsFirst
  <2> QED BY <1>1, <2>1, ShortKeeps
<1>3. CASE LongEnough(test, test.stop)
  <2>1. Run(Base, 1, e, dir[1], {Start}, test.start, "second", {})
    BY <1>1, <1>3, Zenon DEF ErsFirst, Half
  <2>2. /\ Half(test) \in Nat \ {0} /\ Half(test) < test.stop
        /\ test.named \/ 2 * Half(test) > test.stop
    BY <1>1, <1>3, HalfFits
  <2>3. EnvFits(test, e) /\ e.stop = test.stop /\ e.rest = Half(test)
    <3>1. env[1].stop \in 1..test.stop /\ env[1].cont \in BOOLEAN
      BY <1>1, EnvParts, Zenon
    <3>2. Half(test) \in 0..test.stop
      BY <1>1, <2>2
    <3>3. EnvFits(test, e)
      BY <3>1, <3>2, SetsFits, Zenon
    <3>4. e.stop = env[1].stop /\ e.rest = Half(test)
      BY Zenon DEF Sets
    <3> QED BY <1>1, <3>3, <3>4, Zenon
  <2> HIDE DEF e
  <2>4. /\ Common' /\ Names' = Names \cup {Base}
        /\ CutShort(Base, 1, e, dir[1], Start, test.start) \/ Whole(Base, 1, e, dir[1], Start, test.start, "second")
    <3>1. "second" \in Waiting \cup LegsOf(test)
      BY <1>1 DEF LegsOf
    <3>2. Justified(Base, e, Start, {}) /\ Base \notin Names
      BY <1>1 DEF Justified
    <3>3. 1 \in 1..3
      OBVIOUS
    <3> QED BY <1>1, <2>1, <2>3, <3>1, <3>2, <3>3, StartFrom, RunKeeps
  <2>5. CASE CutShort(Base, 1, e, dir[1], Start, test.start)
    <3>1. leg' = "failed"
      BY <2>5 DEF CutShort
    <3>2. ErsPlace'
      BY <3>1 DEF ErsPlace
    <3> QED BY <1>1, <2>4, <3>2, OnlyErs
  <2>6. CASE Whole(Base, 1, e, dir[1], Start, test.start, "second")
    <3>1. /\ leg' = "second" /\ Ran(Base, 0, 0 + test.stop)'
          /\ dir'[1] = Put(dir[1], Written(Base, test.start, 0, 0 + test.stop, Half(test)))
          /\ env'[1].stop = test.stop /\ env'[1].rest = Half(test)
      BY <1>1, <2>3, <2>6, StartFrom, WholeParts
    <3>2. HoldsIn(test, dir'[1], Mark(test, tries, Base, test.start, 0 + Half(test)))
      BY <1>1, <2>2, <3>1, FirstIsHeld
    <3>3. 0 + test.stop = test.stop /\ 0 + Half(test) = Half(test)
      BY <1>1, <2>2
    <3>4. ErsPlace'
      BY <1>1, <1>3, <2>4, <3>1, <3>2, <3>3 DEF ErsPlace
    <3> QED BY <1>1, <2>4, <3>4, OnlyErs
  <2> QED BY <2>4, <2>5, <2>6
<1> QED BY <1>2, <1>3

\* After its last leg, or a killed one, a test has only its pairs to show.
LEMMA OverKeeps ==
  ASSUME Common', test' = test, test.kind \in {"ERS", "ERIO", "ERI"}, leg' \in {"failed", "ended"}
  PROVE  LegsInv'
BY DEF LegsInv, ErsPlace, ErioPlace, EriPlace, PairedPlace, DaePlace, Paired

\* The second leg of an ERS finds the restart of the first.
LEMMA ErsSecondKeeps ==
  ASSUME Restartable, LegsInv, ErsSecond PROVE LegsInv'
<1> DEFINE n == Mark(test, tries, Base, test.start, Half(test))
           e == [stop |-> test.stop - Half(test), rest |-> 0, cont |-> TRUE,
                 pointer |-> RestTime(test, test.start, Half(test))]
<1>1. /\ leg = "second" /\ test.kind = "ERS" /\ test' = test /\ tries' = tries
      /\ Common /\ Shapes /\ test \in Tests /\ Fits(test) /\ test.stop \in Nat \ {0}
      /\ Names = {Base} /\ LongEnough(test, test.stop)
      /\ env[1].stop = test.stop /\ env[1].rest = Half(test)
      /\ Ran(Base, 0, test.stop) /\ HoldsIn(test, dir[1], n) /\ DirFits(dir[1])
  BY TestParts DEF ErsSecond, At, LegsInv, Common, Shapes, ErsPlace, Restartable
<1>2. Half(test) \in Nat \ {0} /\ Half(test) < test.stop
  BY <1>1, HalfFits
<1>3. /\ n.by = Base /\ n.at = Half(test) /\ n.try = tries
      /\ n.time = ModelTime(test, test.start, Half(test)) /\ n # None
  BY MarkParts DEF IsRun, Base
<1>4. EnvFits(test, e) /\ e.stop = test.stop - Half(test) /\ e.pointer = RestTime(test, test.start, Half(test))
  BY <1>1, <1>2 DEF EnvFits
<1>5. test.named => e.pointer = n.time
  BY <1>1, <1>2, <1>3, <1>4, NamesTheRestart
<1>6. Run(Rest, 1, e, dir[1], Read(dir[1], e), test.start, "ended", {<<Base, Rest>>})
  BY <1>1 DEF ErsSecond
<1> HIDE DEF n, e
<1>7. Read(dir[1], e) = {n}
  BY <1>1, <1>3, <1>5, ReadsIt
<1>8. Justified(Rest, e, n, {<<Base, Rest>>})
  <2>1. n.at + e.stop = Length(test) /\ n.at < Length(test) /\ n.try = tries /\ n.by = Base
    BY <1>1, <1>2, <1>3, <1>4 DEF Length
  <2>2. \E a \in runs : a.name = Base /\ a.to = Length(test) /\ a.from.at < n.at
    BY <1>1, <1>2, <1>3 DEF Ran, Length
  <2> QED BY <2>1, <2>2 DEF Justified
<1>9. /\ Common'
      /\ CutShort(Rest, 1, e, dir[1], n, test.start) \/ Whole(Rest, 1, e, dir[1], n, test.start, "ended")
  <2>1. From(n)
    BY <1>2, <1>3 DEF From
  <2>2. Rest \notin Names
    BY <1>1 DEF Base, Rest
  <2>3. 1 \in 1..3 /\ "ended" \in Waiting \cup LegsOf(test)
    BY DEF Waiting
  <2>4. Run(Rest, 1, e, dir[1], {n}, test.start, "ended", {<<Base, Rest>>})
    BY <1>6, <1>7
  <2> QED BY <1>1, <1>4, <1>8, <2>1, <2>2, <2>3, <2>4, RunKeeps
<1>10. leg' \in {"failed", "ended"}
  BY <1>9 DEF CutShort, Whole
<1> QED BY <1>1, <1>9, <1>10, OverKeeps

\* A whole run with one type of PIO leaves its restart.
LEMMA ErioFullKeeps ==
  ASSUME Restartable, LegsInv, ErioFull PROVE LegsInv'
<1> DEFINE e == Sets(env[1], env[1].stop, ErioHalf(test), FALSE)
           name == <<"full", i, 0>>
           next == IF i = test.parts THEN "ended" ELSE "second"
<1>1. /\ leg = "first" /\ test.kind = "ERIO" /\ test' = test /\ tries' = tries /\ i' = i
      /\ Common /\ Shapes /\ test \in Tests /\ Fits(test) /\ test.stop \in Nat \ {0} /\ test.parts \in 1..2
      /\ EnvFits(test, env[1]) /\ DirFits(dir[1]) /\ test.start \in StartTimes
  BY TestParts DEF ErioFull, At, LegsInv, Common, Shapes, Restartable, Fits
<1>2. \/ Names = {} /\ i = 1 /\ env[1].stop = test.stop
      \/ Names = {Full, Again} /\ i = 2 /\ test.parts = 2
  BY <1>1 DEF LegsInv, ErioPlace
<1>3. CASE test.stop <= 2
  <2>1. TooShort
    BY <1>3 DEF ErioFull
  <2> QED BY <1>1, <2>1, ShortKeeps
<1>4. CASE test.stop > 2
  <2>1. Run(name, 1, e, dir[1], {Start}, test.start, next, {}) /\ j' = i + 1
    <3>1. ~(test.stop <= 2)
      BY <1>1, <1>4
    <3> QED BY <3>1, Zenon DEF ErioFull, ErioRest, ErioHalf
  <2>2. ErioHalf(test) \in Nat \ {0} /\ ErioHalf(test) < test.stop /\ 2 * ErioHalf(test) > test.stop
    BY <1>1, <1>4 DEF ErioHalf
  <2>3. EnvFits(test, e) /\ e.stop = env[1].stop /\ e.rest = ErioHalf(test)
    <3>1. env[1].stop \in 1..test.stop
      BY <1>1, EnvParts, Zenon
    <3>2. ErioHalf(test) \in 0..test.stop /\ FALSE \in BOOLEAN
      BY <1>1, <2>2
    <3>3. EnvFits(test, e)
      BY <3>1, <3>2, SetsFits, Zenon
    <3> QED BY <3>3, Zenon DEF Sets
  <2>4. name \notin Names /\ next \in Waiting \cup LegsOf(test)
    BY <1>1, <1>2 DEF Full, Again, Waiting, LegsOf
  <2>5. /\ Common' /\ Names' = Names \cup {name}
        /\ CutShort(name, 1, e, dir[1], Start, test.start) \/ Whole(name, 1, e, dir[1], Start, test.start, next)
    <3> HIDE DEF e, name, next
    <3>1. Justified(name, e, Start, {}) /\ 1 \in 1..3
      BY DEF Justified
    <3> QED BY <1>1, <2>1, <2>3, <2>4, <3>1, StartFrom, RunKeeps
  <2>6. CASE leg' \in {"failed", "ended"}
    BY <1>1, <2>5, <2>6, OverKeeps
  <2>7. CASE leg' \notin {"failed", "ended"}
    <3>1. Whole(name, 1, e, dir[1], Start, test.start, next) /\ i # test.parts
      BY <2>5, <2>7 DEF CutShort, Whole
    <3>2. i = 1 /\ test.parts = 2 /\ name = Full /\ next = "second" /\ Names = {} /\ env[1].stop = test.stop
      BY <1>1, <1>2, <3>1 DEF Full
    <3> HIDE DEF e, name, next
    <3> DEFINE n == Mark(test, tries, Full, test.start, ErioHalf(test))
               d == Put(dir[1], Written(Full, test.start, 0, 0 + test.stop, ErioHalf(test)))
    <3>3. /\ leg' = "second" /\ Ran(Full, 0, 0 + test.stop)'
          /\ dir'[1] = d /\ (dir'[1].last # None => env'[1].pointer = dir'[1].last.time)
      BY <1>1, <2>3, <3>1, <3>2, StartFrom, WholeParts
    <3>4. 0 + test.stop = test.stop /\ 0 + ErioHalf(test) = ErioHalf(test)
      BY <1>1, <2>2
    <3>5. Written(Full, test.start, 0, 0 + test.stop, ErioHalf(test)) = {n}
      <4>1. Written(Full, test.start, 0, test.stop, ErioHalf(test)) = {n}
        BY <1>1, <2>2, WrittenOneFirst
      <4> QED BY <3>4, <4>1
    <3>6. n.at \in Int /\ n # None
      BY <2>2, MarkParts DEF IsRun, Full
    <3>7. HoldsIn(test, d, n) /\ d.last = n
      BY <3>5, <3>6, PutOne
    <3> HIDE DEF n, d
    <3>8. HoldsIn(test, dir'[1], n) /\ env'[1].pointer = n.time
      BY <3>3, <3>6, <3>7
    <3>9. ErioPlace'
      BY <1>1, <1>4, <2>1, <2>5, <3>2, <3>3, <3>4, <3>8 DEF ErioPlace, n
    <3> QED BY <1>1, <2>5, <3>9, OnlyErio
  <2> QED BY <2>6, <2>7
<1> QED BY <1>1, <1>3, <1>4

\* The run with the next type of PIO continues it.
LEMMA ErioRestartKeeps ==
  ASSUME Restartable, LegsInv, ErioRestart PROVE LegsInv'
<1> DEFINE n == Mark(test, tries, Full, test.start, ErioHalf(test))
           e == Sets(env[1], test.stop - ErioHalf(test), 0, TRUE)
<1>1. /\ leg = "second" /\ test.kind = "ERIO" /\ test' = test /\ tries' = tries
      /\ Common /\ Shapes /\ test \in Tests /\ test.stop \in Nat \ {0}
      /\ EnvFits(test, env[1]) /\ DirFits(dir[1])
      /\ Names = {Full} /\ i = 1 /\ j = 2 /\ test.parts = 2 /\ test.stop > 2
      /\ Ran(Full, 0, test.stop) /\ HoldsIn(test, dir[1], n) /\ (test.named => env[1].pointer = n.time)
  BY TestParts DEF ErioRestart, At, LegsInv, Common, Shapes, ErioPlace
<1>2. ErioHalf(test) \in Nat \ {0} /\ ErioHalf(test) < test.stop
  BY <1>1 DEF ErioHalf
<1>3. n.by = Full /\ n.at = ErioHalf(test) /\ n.try = tries /\ n # None
  BY MarkParts DEF IsRun, Full
<1>4. EnvFits(test, e) /\ e.stop = test.stop - ErioHalf(test) /\ e.pointer = env[1].pointer
  <2>1. test.stop - ErioHalf(test) \in 1..test.stop /\ 0 \in 0..test.stop /\ TRUE \in BOOLEAN
    BY <1>1, <1>2
  <2>2. EnvFits(test, e)
    BY <2>1, SetsFits, Zenon
  <2> QED BY <2>2, Zenon DEF Sets
<1>5. /\ Run(Again, 1, e, dir[1], Read(dir[1], e), test.start, "first", {<<Full, Again>>})
      /\ i' = 2
  <2>1. ~(j < test.parts) /\ i + 1 = 2
    BY <1>1
  <2>2. /\ Run(<<"restart", i, j>>, 1, e, dir[1], Read(dir[1], e), test.start, "first",
               {<<<<"full", i, 0>>, <<"restart", i, j>>>>})
        /\ i' = i + 1
    BY <2>1 DEF ErioRestart, ErioRest, ErioHalf
  <2>3. <<"restart", i, j>> = Again /\ <<"full", i, 0>> = Full
    BY <1>1, Zenon DEF Again, Full
  <2> QED BY <2>1, <2>2, <2>3, Zenon
<1> HIDE DEF n, e
<1>6. Read(dir[1], e) = {n}
  BY <1>1, <1>3, <1>4, ReadsIt
<1>7. Justified(Again, e, n, {<<Full, Again>>})
  <2>1. n.at + e.stop = Length(test) /\ n.at < Length(test) /\ n.try = tries /\ n.by = Full
    BY <1>1, <1>2, <1>3, <1>4 DEF Length
  <2>2. \E a \in runs : a.name = Full /\ a.to = Length(test) /\ a.from.at < n.at
    BY <1>1, <1>2, <1>3 DEF Ran, Length
  <2> QED BY <2>1, <2>2 DEF Justified
<1>8. /\ Common' /\ Names' = Names \cup {Again}
      /\ CutShort(Again, 1, e, dir[1], n, test.start) \/ Whole(Again, 1, e, dir[1], n, test.start, "first")
  <2>1. From(n)
    BY <1>2, <1>3 DEF From
  <2>2. Again \notin Names
    BY <1>1 DEF Full, Again
  <2>3. 1 \in 1..3 /\ "first" \in Waiting \cup LegsOf(test)
    BY <1>1 DEF LegsOf
  <2>4. Run(Again, 1, e, dir[1], {n}, test.start, "first", {<<Full, Again>>})
    BY <1>5, <1>6
  <2> QED BY <1>1, <1>4, <1>7, <2>1, <2>2, <2>3, <2>4, RunKeeps
<1>9. leg' \in {"failed", "first"}
  BY <1>8 DEF CutShort, Whole
<1>10. CASE leg' = "failed"
  BY <1>1, <1>8, <1>10, OverKeeps
<1>11. CASE leg' = "first"
  <2>1. ErioPlace'
    BY <1>1, <1>5, <1>8, <1>11 DEF ErioPlace
  <2> QED BY <1>1, <1>8, <2>1, OnlyErio
<1> QED BY <1>9, <1>10, <1>11

-----------------------------------------------------------------------------
(* The legs of an ERI *)

\* The lengths of the legs
LEMMA EriNames ==
  /\ Stop1 = LengthOne(test) /\ Stop2 = LengthTwo(test) /\ Stop3 = LengthThree(test)
  /\ Rest2 = RestTwo(test) /\ Rest3 = RestThree(test) /\ Start2 = Later(test)
BY DEF Stop1, Stop2, Stop3, Rest2, Rest3, Start2,
       LengthOne, LengthTwo, LengthThree, RestTwo, RestThree, Later

\* A run that is long enough has one restart, in its second half.
LEMMA OneRestart ==
  ASSUME NEW t \in Tests, NEW stop \in Nat, t.rest = 0, t.kind # "IRT", LongEnough(t, stop)
  PROVE  LET q == RestartInterval(t, stop)
         IN q \in Nat \ {0} /\ q < stop /\ 2 * q > stop
<1>1. RestartInterval(t, stop) > 0 /\ RestartInterval(t, stop) < stop /\ Intervals(t, stop) > 0
  BY DEF LongEnough
<1>2. RestartInterval(t, stop) \in Nat /\ 2 * RestartInterval(t, stop) > stop
  BY <1>1, OneInTheMiddle
<1> QED BY <1>1, <1>2

\* Each leg of an ERI is within the one before it.
LEMMA EriLengths ==
  ASSUME NEW t \in Tests, Fits(t), t.kind = "ERI", EriLong(t)
  PROVE  /\ LengthOne(t) \in Nat \ {0} /\ LengthTwo(t) \in Nat \ {0} /\ LengthThree(t) \in Nat \ {0}
         /\ RestTwo(t) \in Nat \ {0} /\ RestThree(t) \in Nat \ {0}
         /\ LengthOne(t) <= t.stop /\ LengthTwo(t) <= t.stop
         /\ RestTwo(t) + LengthThree(t) = LengthTwo(t) /\ RestTwo(t) < LengthTwo(t)
         /\ RestThree(t) < LengthThree(t)
         /\ 2 * RestTwo(t) > LengthTwo(t) /\ 2 * RestThree(t) > LengthThree(t)
<1>1. t.rest = 0 /\ t.stop \in Nat \ {0}
  BY TestParts DEF Fits
<1>2. LengthOne(t) \in Nat /\ LengthOne(t) < t.stop
  BY <1>1 DEF LengthOne
<1>3. LengthOne(t) # 0
  BY <1>2 DEF EriLong
<1>4. LengthTwo(t) \in Nat \ {0} /\ LengthTwo(t) <= t.stop
  BY <1>1, <1>2 DEF LengthTwo
<1>5. RestTwo(t) \in Nat \ {0} /\ RestTwo(t) < LengthTwo(t) /\ 2 * RestTwo(t) > LengthTwo(t)
  BY <1>1, <1>4, OneRestart DEF EriLong, RestTwo
<1>6. LengthThree(t) \in Nat \ {0} /\ RestTwo(t) + LengthThree(t) = LengthTwo(t)
  BY <1>4, <1>5 DEF LengthThree
<1>7. RestThree(t) \in Nat \ {0} /\ RestThree(t) < LengthThree(t) /\ 2 * RestThree(t) > LengthThree(t)
  BY <1>1, <1>6, OneRestart DEF EriLong, RestThree
<1> QED BY <1>1, <1>2, <1>3, <1>4, <1>5, <1>6, <1>7

\* The startup run leaves a restart at its end.
LEMMA EriRef1Keeps ==
  ASSUME Restartable, LegsInv, EriRef1 PROVE LegsInv'
<1> DEFINE e == Sets(env[3], LengthOne(test), LengthOne(test), FALSE)
           n == Mark(test, tries, Ref1, test.start, LengthOne(test))
<1>1. /\ leg = "first" /\ test.kind = "ERI" /\ test' = test /\ tries' = tries
      /\ Common /\ Shapes /\ test \in Tests /\ Fits(test) /\ test.stop \in Nat \ {0}
      /\ Names = {} /\ DirFits(dir[3])
  BY TestParts DEF EriRef1, At, LegsInv, Common, Shapes, EriPlace, Restartable
<1>2. CASE ~EriLong(test)
  <2>1. TooShort
    BY <1>2, EriNames DEF EriRef1, EriLong
  <2> QED BY <1>1, <2>1, ShortKeeps
<1>3. CASE EriLong(test)
  <2>1. Run(Ref1, 3, e, dir[3], {Start}, test.start, "hybrid", {})
    BY <1>3, EriNames, Zenon DEF EriRef1, EriLong, Ref1
  <2>2. LengthOne(test) \in Nat \ {0} /\ LengthOne(test) <= test.stop
    BY <1>1, <1>3, EriLengths
  <2>3. EnvFits(test, e) /\ e.stop = LengthOne(test) /\ e.rest = LengthOne(test)
    <3>1. LengthOne(test) \in 1..test.stop /\ LengthOne(test) \in 0..test.stop /\ FALSE \in BOOLEAN
      BY <1>1, <2>2
    <3>2. EnvFits(test, e)
      BY <3>1, SetsFits, Zenon
    <3> QED BY <3>2, Zenon DEF Sets
  <2> HIDE DEF e
  <2>4. /\ Common' /\ Names' = Names \cup {Ref1}
        /\ CutShort(Ref1, 3, e, dir[3], Start, test.start) \/ Whole(Ref1, 3, e, dir[3], Start, test.start, "hybrid")
    <3>1. "hybrid" \in Waiting \cup LegsOf(test)
      BY <1>1 DEF LegsOf
    <3>2. Justified(Ref1, e, Start, {}) /\ Ref1 \notin Names /\ 3 \in 1..3
      BY <1>1 DEF Justified
    <3> QED BY <1>1, <2>1, <2>3, <3>1, <3>2, StartFrom, RunKeeps
  <2>5. CASE CutShort(Ref1, 3, e, dir[3], Start, test.start)
    <3>1. leg' = "failed"
      BY <2>5 DEF CutShort
    <3> QED BY <1>1, <2>4, <3>1, OverKeeps
  <2>6. CASE Whole(Ref1, 3, e, dir[3], Start, test.start, "hybrid")
    <3>1. /\ leg' = "hybrid"
          /\ dir'[3] = Put(dir[3], Written(Ref1, test.start, 0, 0 + LengthOne(test), LengthOne(test)))
      BY <1>1, <2>3, <2>6, StartFrom, WholeParts
    <3>2. 0 + LengthOne(test) = LengthOne(test) /\ 2 * LengthOne(test) > LengthOne(test)
      BY <2>2
    <3>3. Written(Ref1, test.start, 0, LengthOne(test), LengthOne(test)) = {n}
      BY <2>2, <3>2, WrittenOneFirst
    <3>4. n.at \in Int
      BY <2>2, MarkParts
    <3> HIDE DEF n
    <3>5. dir'[3].last = n
      <4>1. HoldsIn(test, Put(dir[3], {n}), n) /\ Put(dir[3], {n}).last = n
        BY <3>4, PutOne
      <4> QED BY <3>1, <3>2, <3>3, <4>1
    <3>6. EriPlace'
      BY <1>1, <1>3, <2>4, <3>1, <3>5 DEF EriPlace, n
    <3> QED BY <1>1, <2>4, <3>6, OnlyEri
  <2> QED BY <2>4, <2>5, <2>6
<1> QED BY <1>2, <1>3

\* The hybrid run begins from it and leaves its own.
LEMMA EriHybridKeeps ==
  ASSUME Restartable, LegsInv, EriHybrid PROVE LegsInv'
<1> DEFINE e == Sets(env[2], LengthTwo(test), RestTwo(test), FALSE)
           m == Mark(test, tries, Ref1, test.start, LengthOne(test))
           h == [m EXCEPT !.at = 0]
           o == Later(test)
           n == Mark(test, tries, Hybrid, o, RestTwo(test))
<1>1. /\ leg = "hybrid" /\ test.kind = "ERI" /\ test' = test /\ tries' = tries
      /\ Common /\ Shapes /\ test \in Tests /\ Fits(test) /\ test.stop \in Nat \ {0}
      /\ Names = {Ref1} /\ EriLong(test) /\ DirFits(dir[2]) /\ dir[3].last = m
  BY TestParts DEF EriHybrid, At, LegsInv, Common, Shapes, EriPlace, Restartable
<1>2. /\ RestTwo(test) \in Nat \ {0} /\ LengthTwo(test) \in Nat \ {0} /\ LengthTwo(test) <= test.stop
      /\ RestTwo(test) < LengthTwo(test) /\ 2 * RestTwo(test) > LengthTwo(test)
  BY <1>1, EriLengths
<1>3. m # None /\ h.at = 0 /\ h # None
  <2>1. m # None /\ m.by = Ref1 /\ None.by = <<"none", 0, 0>>
    BY MarkParts DEF IsRun, Ref1, None, Origin
  <2>2. h.by = Ref1 /\ h.at = 0
    BY DEF Mark
  <2>3. Ref1 # <<"none", 0, 0>>
    BY DEF Ref1
  <2> HIDE DEF m, h
  <2> QED BY <2>1, <2>2, <2>3
<1>4. Archived(3) = {m}
  BY <1>1, <1>3 DEF Archived
<1>5. Run(Hybrid, 2, e, dir[2], {h}, o, "branch", {})
  <2>1. Run(Hybrid, 2, e, dir[2], {[r EXCEPT !.at = 0] : r \in Archived(3)}, o, "branch", {})
    BY EriNames, Zenon DEF EriHybrid, Hybrid
  <2> HIDE DEF m, e, o
  <2>2. {[r EXCEPT !.at = 0] : r \in {m}} = {h}
    OBVIOUS
  <2> HIDE DEF h
  <2> QED BY <1>4, <2>1, <2>2
<1>6. EnvFits(test, e) /\ e.stop = LengthTwo(test) /\ e.rest = RestTwo(test)
  <2>1. LengthTwo(test) \in 1..test.stop /\ RestTwo(test) \in 0..test.stop /\ FALSE \in BOOLEAN
    BY <1>1, <1>2
  <2>2. EnvFits(test, e)
    BY <2>1, SetsFits, Zenon
  <2> QED BY <2>2, Zenon DEF Sets
<1> HIDE DEF e, h, m
<1>7. /\ Common' /\ Names' = Names \cup {Hybrid}
      /\ CutShort(Hybrid, 2, e, dir[2], h, o) \/ Whole(Hybrid, 2, e, dir[2], h, o, "branch")
  <2>1. "branch" \in Waiting \cup LegsOf(test)
    BY <1>1 DEF LegsOf
  <2>2. Justified(Hybrid, e, h, {}) /\ Hybrid \notin Names /\ 2 \in 1..3 /\ From(h)
    BY <1>1, <1>3 DEF Justified, From, Hybrid, Ref1
  <2> HIDE DEF o
  <2> QED BY <1>1, <1>5, <1>6, <2>1, <2>2, RunKeeps
<1>8. CASE CutShort(Hybrid, 2, e, dir[2], h, o)
  <2>1. leg' = "failed"
    BY <1>8 DEF CutShort
  <2> QED BY <1>1, <1>7, <2>1, OverKeeps
<1>9. CASE Whole(Hybrid, 2, e, dir[2], h, o, "branch")
  <2> HIDE DEF o
  <2>1. /\ leg' = "branch" /\ Ran(Hybrid, 0, 0 + LengthTwo(test))'
        /\ dir'[2] = Put(dir[2], Written(Hybrid, o, 0, 0 + LengthTwo(test), RestTwo(test)))
    BY <1>1, <1>3, <1>6, <1>9, WholeParts
  <2>2. 0 + LengthTwo(test) = LengthTwo(test)
    BY <1>2
  <2>3. Written(Hybrid, o, 0, LengthTwo(test), RestTwo(test)) = {n}
    BY <1>2, WrittenOneFirst
  <2>4. n.at \in Int
    BY <1>2, MarkParts
  <2> HIDE DEF n
  <2>5. dir'[2].last = n
    <3>1. HoldsIn(test, Put(dir[2], {n}), n) /\ Put(dir[2], {n}).last = n
      BY <2>4, PutOne
    <3> QED BY <2>1, <2>2, <2>3, <3>1
  <2>6. Names' = {Ref1, Hybrid}
    BY <1>1, <1>7
  <2>7. EriPlace'
    BY <1>1, <2>1, <2>2, <2>5, <2>6 DEF EriPlace, n, o
  <2> QED BY <1>1, <1>7, <2>7, OnlyEri
<1> QED BY <1>7, <1>8, <1>9

\* The branch begins from the restart of the hybrid run ...
LEMMA EriBranchKeeps ==
  ASSUME Restartable, LegsInv, EriBranch PROVE LegsInv'
<1> DEFINE o == Later(test)
           m == Mark(test, tries, Hybrid, o, RestTwo(test))
           n == Mark(test, tries, Branch, o, RestTwo(test) + RestThree(test))
           p == RestTime(test, o, RestTwo(test))
           e == [stop |-> LengthThree(test), rest |-> RestThree(test), cont |-> FALSE, pointer |-> p]
           d == Put(dir[1], {m})
<1>1. /\ leg = "branch" /\ test.kind = "ERI" /\ test' = test /\ tries' = tries
      /\ Common /\ Shapes /\ test \in Tests /\ Fits(test) /\ test.stop \in Nat \ {0}
      /\ Names = {Ref1, Hybrid} /\ EriLong(test) /\ Ran(Hybrid, 0, LengthTwo(test))
      /\ dir[2].last = m /\ o \in StartTimes
  BY TestParts DEF EriBranch, At, LegsInv, Common, Shapes, EriPlace, Restartable
<1>2. /\ RestTwo(test) \in Nat \ {0} /\ LengthTwo(test) \in Nat \ {0} /\ LengthTwo(test) <= test.stop
      /\ RestThree(test) \in Nat \ {0} /\ LengthThree(test) \in Nat \ {0}
      /\ RestTwo(test) + LengthThree(test) = LengthTwo(test) /\ RestTwo(test) < LengthTwo(test)
      /\ RestThree(test) < LengthThree(test) /\ 2 * RestThree(test) > LengthThree(test)
  BY <1>1, EriLengths
<1>3. /\ m.by = Hybrid /\ m.at = RestTwo(test) /\ m.try = tries
      /\ m.time = ModelTime(test, o, RestTwo(test)) /\ m # None
  BY MarkParts DEF IsRun, Hybrid
<1>4. Archived(2) = {m} /\ arch' = {m}
  BY <1>1, <1>3 DEF Archived, EriBranch
<1>5. Run(Branch, 1, e, d, Read(d, e), o, "second", {<<Hybrid, Branch>>})
  <2>1. LET x == Put(dir[1], Archived(2))
        IN Run(Branch, 1, e, x, Read(x, e), o, "second", {<<Hybrid, Branch>>})
    BY EriNames, Zenon DEF EriBranch, Hybrid, Branch
  <2> HIDE DEF e, o, m
  <2> QED BY <1>4, <2>1
<1>6. EnvFits(test, e) /\ e.stop = LengthThree(test) /\ e.rest = RestThree(test) /\ e.pointer = p
  <2> HIDE DEF p, o
  <2>1. LengthThree(test) \in 1..test.stop /\ RestThree(test) \in 0..test.stop
    BY <1>1, <1>2
  <2> QED BY <2>1 DEF EnvFits
<1>7. test.named => e.pointer = m.time
  BY <1>1, <1>2, <1>3, <1>6, NamesTheRestart
<1> HIDE DEF m, e, o, p
<1>8. HoldsIn(test, d, m) /\ DirFits(d)
  BY <1>2, <1>3, PutOne
<1> HIDE DEF d
<1>9. Read(d, e) = {m}
  BY <1>3, <1>7, <1>8, ReadsIt
<1>10. Justified(Branch, e, m, {<<Hybrid, Branch>>})
  <2>1. m.at + e.stop = Length(test) /\ m.at < Length(test) /\ m.try = tries /\ m.by = Hybrid
    BY <1>1, <1>2, <1>3, <1>6 DEF Length
  <2>2. \E a \in runs : a.name = Hybrid /\ a.to = Length(test) /\ a.from.at < m.at
    BY <1>1, <1>2, <1>3 DEF Ran, Length
  <2> QED BY <2>1, <2>2 DEF Justified
<1>11. /\ Common' /\ Names' = Names \cup {Branch}
       /\ CutShort(Branch, 1, e, d, m, o) \/ Whole(Branch, 1, e, d, m, o, "second")
  <2>1. "second" \in Waiting \cup LegsOf(test)
    BY <1>1 DEF LegsOf
  <2>2. Branch \notin Names /\ 1 \in 1..3 /\ From(m)
    BY <1>1, <1>2, <1>3 DEF From, Hybrid, Ref1, Branch
  <2>3. Run(Branch, 1, e, d, {m}, o, "second", {<<Hybrid, Branch>>})
    BY <1>5, <1>9
  <2> QED BY <1>1, <1>6, <1>8, <1>10, <2>1, <2>2, <2>3, RunKeeps
<1>12. CASE CutShort(Branch, 1, e, d, m, o)
  <2>1. leg' = "failed"
    BY <1>12 DEF CutShort
  <2> QED BY <1>1, <1>11, <2>1, OverKeeps
<1>13. CASE Whole(Branch, 1, e, d, m, o, "second")
  <2>1. /\ leg' = "second" /\ Ran(Branch, RestTwo(test), RestTwo(test) + LengthThree(test))'
        /\ dir'[1] = Put(d, Written(Branch, o, RestTwo(test), RestTwo(test) + LengthThree(test), RestThree(test)))
    BY <1>1, <1>3, <1>6, <1>13, WholeParts
  <2>2. HoldsIn(test, dir'[1], n)
    <3>1. /\ RestTwo(test) \in Nat /\ LengthThree(test) \in Nat /\ RestThree(test) \in Nat \ {0}
          /\ RestThree(test) <= LengthThree(test) /\ 2 * RestThree(test) > LengthThree(test)
          /\ o \in StartTimes /\ test \in Tests
      BY <1>1, <1>2
    <3>2. HoldsIn(test, Put(d, Written(Branch, o, RestTwo(test), RestTwo(test) + LengthThree(test), RestThree(test))),
                  Mark(test, tries, Branch, o, RestTwo(test) + RestThree(test)))
      BY <3>1, FirstIsHeld
    <3> QED BY <2>1, <3>2
  <2>3. Names' = {Ref1, Hybrid, Branch}
    BY <1>1, <1>11
  <2>4. Ran(Branch, RestTwo(test), LengthTwo(test))'
    BY <1>1, <1>2, <2>1
  <2> HIDE DEF n
  <2>5. EriPlace'
    BY <1>1, <1>4, <2>1, <2>2, <2>3, <2>4 DEF EriPlace, n, m, o
  <2> QED BY <1>1, <1>11, <2>5, OnlyEri
<1> QED BY <1>11, <1>12, <1>13

\* ... and its continuation from that of the branch.
LEMMA EriRestKeeps ==
  ASSUME Restartable, LegsInv, EriRest PROVE LegsInv'
<1> DEFINE o == Later(test)
           m == Mark(test, tries, Hybrid, o, RestTwo(test))
           n == Mark(test, tries, Branch, o, RestTwo(test) + RestThree(test))
           p == RestTime(test, m.time, RestThree(test))
           e == [stop |-> LengthThree(test) - RestThree(test), rest |-> 0, cont |-> TRUE, pointer |-> p]
<1>1. /\ leg = "second" /\ test.kind = "ERI" /\ test' = test /\ tries' = tries
      /\ Common /\ Shapes /\ test \in Tests /\ Fits(test) /\ test.stop \in Nat \ {0}
      /\ Names = {Ref1, Hybrid, Branch} /\ EriLong(test) /\ Ran(Branch, RestTwo(test), LengthTwo(test))
      /\ HoldsIn(test, dir[1], n) /\ arch = {m} /\ DirFits(dir[1])
  BY TestParts DEF EriRest, At, LegsInv, Common, Shapes, EriPlace, Restartable
<1>2. /\ RestTwo(test) \in Nat \ {0} /\ LengthTwo(test) \in Nat \ {0} /\ LengthTwo(test) <= test.stop
      /\ RestThree(test) \in Nat \ {0} /\ LengthThree(test) \in Nat \ {0}
      /\ RestTwo(test) + LengthThree(test) = LengthTwo(test) /\ RestTwo(test) < LengthTwo(test)
      /\ RestThree(test) < LengthThree(test)
  BY <1>1, EriLengths
<1>3. m.at \in Int /\ m.time = ModelTime(test, o, RestTwo(test))
  BY <1>2, MarkParts
<1>4. /\ n.by = Branch /\ n.at = RestTwo(test) + RestThree(test) /\ n.try = tries
      /\ n.time = ModelTime(test, o, RestTwo(test) + RestThree(test)) /\ n # None
  BY MarkParts DEF IsRun, Branch
<1>5. Run(Rest, 1, e, dir[1], Read(dir[1], e), o, "ended", {<<Branch, Rest>>})
  <2>1. LET x == [stop |-> LengthThree(test) - RestThree(test), rest |-> 0, cont |-> TRUE,
                  pointer |-> RestTime(test, Newest(arch).time, RestThree(test))]
        IN Run(Rest, 1, x, dir[1], Read(dir[1], x), o, "ended", {<<Branch, Rest>>})
    BY EriNames, Zenon DEF EriRest, Branch
  <2>2. Newest(arch) = m
    <3> HIDE DEF m
    <3> QED BY <1>1, <1>3, NewestOne
  <2> HIDE DEF o, m
  <2> QED BY <2>1, <2>2, Zenon
<1>6. EnvFits(test, e) /\ e.stop = LengthThree(test) - RestThree(test) /\ e.pointer = p
  <2> HIDE DEF p, o
  <2>1. LengthThree(test) - RestThree(test) \in 1..test.stop /\ 0 \in 0..test.stop
    BY <1>1, <1>2
  <2> QED BY <2>1 DEF EnvFits
<1>7. test.named => e.pointer = n.time
  BY <1>1, <1>2, <1>3, <1>4, <1>6, NamesTheRestart
<1> HIDE DEF m, n, e, o, p
<1>8. Read(dir[1], e) = {n}
  BY <1>1, <1>4, <1>7, ReadsIt
<1>9. Justified(Rest, e, n, {<<Branch, Rest>>})
  <2>1. n.at + e.stop = Length(test) /\ n.at < Length(test) /\ n.try = tries /\ n.by = Branch
    BY <1>1, <1>2, <1>4, <1>6 DEF Length
  <2>2. \E a \in runs : a.name = Branch /\ a.to = Length(test) /\ a.from.at < n.at
    BY <1>1, <1>2, <1>4 DEF Ran, Length
  <2> QED BY <2>1, <2>2 DEF Justified
<1>10. /\ Common'
       /\ CutShort(Rest, 1, e, dir[1], n, o) \/ Whole(Rest, 1, e, dir[1], n, o, "ended")
  <2>1. From(n)
    BY <1>2, <1>4 DEF From
  <2>2. Rest \notin Names
    BY <1>1 DEF Ref1, Hybrid, Branch, Rest
  <2>3. 1 \in 1..3 /\ "ended" \in Waiting \cup LegsOf(test)
    BY DEF Waiting
  <2>4. Run(Rest, 1, e, dir[1], {n}, o, "ended", {<<Branch, Rest>>})
    BY <1>5, <1>8
  <2> QED BY <1>1, <1>6, <1>9, <2>1, <2>2, <2>3, <2>4, RunKeeps
<1>11. leg' \in {"failed", "ended"}
  BY <1>10 DEF CutShort, Whole
<1> QED BY <1>1, <1>10, <1>11, OverKeeps

-----------------------------------------------------------------------------
(* The tests of two cases *)

\* Values of env_run.xml are set, and no run is made.
LEMMA EnvKeeps ==
  ASSUME Common, UNCHANGED <<test, tries, dir, runs, pairs>>,
         env' = [k \in 1..3 |-> env'[k]], \A k \in 1..3 : EnvFits(test, env'[k]),
         leg' \in Waiting \cup LegsOf(test)
  PROVE  Common'
<1>1. Shapes'
  BY DEF Common, Shapes
<1>2. OneEach' /\ \A p \in pairs' : Compared(p)'
  BY DEF Common, OneEach, Compared
<1> QED BY <1>1, <1>2 DEF Common

BothSet(f, x, y) == [f EXCEPT ![1] = x, ![2] = y]

\* A value for the first and for the second case leaves the third.
LEMMA TwoPlaces ==
  ASSUME NEW f, NEW x, NEW y, f = [k \in 1..3 |-> f[k]]
  PROVE  LET g == BothSet(f, x, y)
         IN g = [k \in 1..3 |-> g[k]] /\ g[1] = x /\ g[2] = y /\ g[3] = f[3]
<1> DEFINE g == BothSet(f, x, y)
<1>1. DOMAIN f = 1..3
  OBVIOUS
<1>2. \A k \in 1..3 : g[k] = IF k = 2 THEN y ELSE IF k = 1 THEN x ELSE f[k]
  BY <1>1 DEF BothSet
<1>3. g = [k \in 1..3 |-> g[k]]
  BY <1>1 DEF BothSet
<1>4. 1 \in 1..3 /\ 2 \in 1..3 /\ 3 \in 1..3
  OBVIOUS
<1>5. g[1] = x /\ g[2] = y /\ g[3] = f[3]
  BY <1>2, <1>4
<1> QED BY <1>3, <1>5

\* The setup gives each case its length.
LEMMA SetupCasesKeeps ==
  ASSUME Restartable, LegsInv, SetupCases PROVE LegsInv'
<1> DEFINE x == Sets(env[1], env[1].stop, Half(test), env[1].cont)
           p == RestTime(test, test.start, Half(test))
           y == [stop |-> test.stop - Half(test), rest |-> 0, cont |-> TRUE, pointer |-> p]
<1>1. /\ leg = "setup" /\ test.kind \in Paired /\ test' = test /\ tries' = tries
      /\ Common /\ Shapes /\ test \in Tests /\ Fits(test) /\ test.stop \in Nat \ {0}
      /\ dir[1].files = {} /\ env[1].stop = test.stop /\ EnvFits(test, env[1])
  BY TestParts DEF SetupCases, At, LegsInv, Common, Shapes, PairedPlace, Restartable,
       Paired
<1>2. CASE test.stop < 3 \/ ~LongEnough(test, test.stop)
  <2>1. TooShort
    BY <1>2 DEF SetupCases
  <2> QED BY <1>1, <2>1, ShortKeeps
<1>3. CASE ~(test.stop < 3 \/ ~LongEnough(test, test.stop))
  <2>1. /\ env' = [env EXCEPT ![1] = x, ![2] = y]
        /\ leg' = "idle" /\ UNCHANGED <<dir, arch, runs, pairs>>
    BY <1>3, Zenon DEF SetupCases, Half
  <2>2. test.stop >= 3 /\ LongEnough(test, test.stop)
    BY <1>1, <1>3
  <2>3. Half(test) \in Nat \ {0} /\ Half(test) < test.stop
    BY <1>1, <2>2, HalfFits DEF Paired
  <2>4. EnvFits(test, x) /\ x.stop = env[1].stop /\ x.rest = Half(test)
    <3>1. env[1].stop \in 1..test.stop /\ env[1].cont \in BOOLEAN
      BY <1>1, EnvParts, Zenon
    <3>2. Half(test) \in 0..test.stop
      BY <1>1, <2>3
    <3>3. EnvFits(test, x)
      BY <3>1, <3>2, SetsFits, Zenon
    <3> QED BY <3>3, Zenon DEF Sets
  <2>5. EnvFits(test, y) /\ y.stop = test.stop - Half(test) /\ y.rest = 0 /\ y.pointer = p
    <3> HIDE DEF p
    <3>1. test.stop - Half(test) \in 1..test.stop /\ 0 \in 0..test.stop
      BY <1>1, <2>3
    <3> QED BY <3>1 DEF EnvFits
  <2>6. test.named /\ test.kind # "ERR" => p = ModelTime(test, test.start, Half(test))
    BY <1>1, <2>3, NamesTheRestart DEF Paired
  <2> HIDE DEF x, y, p
  <2>7. /\ env'[1] = x /\ env'[2] = y /\ env'[3] = env[3]
        /\ env' = [k \in 1..3 |-> env'[k]]
    <3>1. env = [k \in 1..3 |-> env[k]]
      BY <1>1 DEF Shapes
    <3>2. env' = BothSet(env, x, y)
      BY <2>1 DEF BothSet
    <3> QED BY <3>1, <3>2, TwoPlaces
  <2>8. Common'
    <3>1. \A k \in 1..3 : EnvFits(test, env'[k])
      <4>1. EnvFits(test, env[3])
        BY <1>1 DEF Shapes
      <4> QED BY <2>4, <2>5, <2>7, <4>1
    <3>2. leg' \in Waiting \cup LegsOf(test)
      BY <2>1 DEF Waiting
    <3> QED BY <1>1, <2>1, <2>7, <3>1, <3>2, EnvKeeps
  <2>9. PairedPlace'
    BY <1>1, <2>1, <2>2, <2>4, <2>5, <2>6, <2>7 DEF PairedPlace, PairedReady, AtMultiples
  <2> QED BY <1>1, <2>8, <2>9, OnlyPaired
<1> QED BY <1>2, <1>3

\* What is written from the start
LEMMA WrittenFirst ==
  ASSUME NEW name, NEW o, NEW len \in Nat, NEW q \in Nat \ {0}
  PROVE  Written(name, o, 0, len, q) = Marks(name, o, 0, q, Steps(len, q))
<1> DEFINE a == 0
<1>1. a \in Nat
  OBVIOUS
<1> HIDE DEF a
<1>2. Written(name, o, a, a + len, q) = Marks(name, o, a, q, Steps(len, q))
  BY <1>1, WrittenMarks
<1>3. Written(name, o, 0, 0 + len, q) = Marks(name, o, 0, q, Steps(len, q))
  BY <1>2 DEF a
<1>4. 0 + len = len
  OBVIOUS
<1> QED BY <1>3, <1>4

\* What the first case has written, and an earlier try left, lies at multiples of the interval.
LEMMA CaseOneFiles ==
  ASSUME test \in Tests, test.stop \in Nat, Half(test) \in Nat \ {0}, Half(test) <= test.stop,
         NEW d, AtMultiples(d.files),
         NEW len \in 0 .. test.stop
  PROVE  LET z == Put(d, Written(Base, test.start, 0, len, Half(test)))
         IN /\ AtMultiples(z.files)
            /\ len = test.stop => z.files = AllOf(test, tries) /\ z.last = Newest(z.files)
<1> DEFINE q == Half(test)
<1>0. len \in Nat /\ q \in Nat \ {0} /\ q <= test.stop
  OBVIOUS
<1> HIDE DEF q
<1> DEFINE S == Marks(Base, test.start, 0, q, Steps(len, q))
           z == Put(d, Written(Base, test.start, 0, len, q))
           old == {r \in d.files : \A n \in S : n.time # r.time}
<1>1. z.files = old \cup S /\ (S # {} => z.last = Newest(S))
  <2>1. Written(Base, test.start, 0, len, q) = S
    BY <1>0, WrittenFirst
  <2>2. z = Put(d, S)
    BY <2>1
  <2> HIDE DEF z, S
  <2> QED BY <2>2 DEF Put
<1>2. S = {Mark(test, tries, Base, test.start, l * q) : l \in Steps(len, q)}
  <2>1. \A l \in Steps(len, q) : 0 + l * q = l * q
    BY <1>0 DEF Steps
  <2> QED BY <2>1 DEF Marks
<1>3. \A l : Mark(test, tries, Base, test.start, l * q).time = ModelTime(test, test.start, l * q)
  BY MarkParts
<1>4. Steps(len, q) \subseteq Multiples(test)
  BY <1>0 DEF Steps, Multiples, q
<1> HIDE DEF S, z
<1>5. \A r \in z.files : \E l \in Multiples(test) : r.time = ModelTime(test, test.start, l * q)
  <2>1. \A r \in d.files : \E l \in Multiples(test) : r.time = ModelTime(test, test.start, l * q)
    BY DEF q, AtMultiples
  <2>2. old \subseteq d.files
    OBVIOUS
  <2> HIDE DEF old
  <2> QED BY <1>1, <1>2, <1>3, <1>4, <2>1, <2>2
<1>6. ASSUME len = test.stop PROVE z.files = AllOf(test, tries) /\ z.last = Newest(z.files)
  <2>1. S = AllOf(test, tries)
    BY <1>2, <1>6 DEF AllOf, Multiples, q
  <2>2. ASSUME NEW r \in d.files PROVE \E n \in S : n.time = r.time
    <3>1. PICK l \in Multiples(test) : r.time = ModelTime(test, test.start, l * q)
      BY DEF q, AtMultiples
    <3>2. Mark(test, tries, Base, test.start, l * q) \in S
      BY <1>2, <1>6, <3>1 DEF Multiples, q
    <3> QED BY <1>3, <3>1, <3>2
  <2>3. old = {}
    BY <2>2
  <2>4. S # {}
    <3>1. 1 \in Steps(len, q)
      BY <1>0, <1>6 DEF Steps
    <3> QED BY <1>2, <3>1
  <2> QED BY <1>1, <2>1, <2>3, <2>4
<1> QED BY <1>5, <1>6 DEF z, q, AtMultiples

\* A set with two members has at least two.
LEMMA TwoMembers ==
  ASSUME NEW S, IsFiniteSet(S), NEW x \in S, NEW y \in S, x # y
  PROVE  ~(Cardinality(S) < 2)
<1>1. IsFiniteSet({x}) /\ Cardinality({x}) = 1
  BY FS_Singleton
<1>2. {x, y} = {x} \cup {y} /\ y \notin {x} /\ {x, y} \subseteq S
  OBVIOUS
<1>3. Cardinality({x, y}) = 2
  BY <1>1, <1>2, FS_AddElement
<1>4. Cardinality({x, y}) <= Cardinality(S) /\ Cardinality(S) \in Nat
  BY <1>2, FS_Subset, FS_CardinalityType
<1> QED BY <1>3, <1>4

\* Of several restarts the first one is the oldest.
LEMMA OldestOfAll ==
  ASSUME NEW t, NEW k, t.stop \in Nat, Half(t) \in Nat \ {0}, 2 * Half(t) <= t.stop
  PROVE  /\ ~(Cardinality(AllOf(t, k)) < 2)
         /\ Oldest(AllOf(t, k)) = Mark(t, k, Base, t.start, Half(t))
<1> DEFINE q == Half(t)
           len == t.stop
           f(l) == Mark(t, k, Base, t.start, l * q)
           K == Steps(len, q)
           S == AllOf(t, k)
<1>1. S = {f(l) : l \in K}
  BY DEF AllOf, Multiples
<1>2. q \in Nat \ {0} /\ len \in Nat /\ 2 * q <= len
  OBVIOUS
<1>3. \A l : f(l).at = l * q
  BY MarkParts
<1> HIDE DEF f, q, len, S
<1>4. 1 \in K /\ 2 \in K
  <2>1. 2 <= len /\ 1 * q <= len
    BY <1>2
  <2> QED BY <1>2, <2>1 DEF Steps
<1>5. IsFiniteSet(K)
  <2>1. 1 \in Int /\ len \in Int
    BY <1>2
  <2>2. IsFiniteSet(1 .. len)
    BY <2>1, FS_Interval
  <2>3. K \in SUBSET (1 .. len)
    BY DEF Steps
  <2> HIDE DEF K
  <2> QED BY <2>2, <2>3, FS_Subset
<1>6. IsFiniteSet(S)
  <2> DEFINE g == [l \in K |-> f(l)]
  <2>1. g \in Surjection(K, S)
    BY <1>1 DEF Surjection
  <2> HIDE DEF g, K
  <2> QED BY <1>5, <2>1, FS_Surjection
<1>7. f(1) \in S /\ f(2) \in S /\ f(1) # f(2)
  <2>1. f(1).at = 1 * q /\ f(2).at = 2 * q /\ 1 * q # 2 * q
    BY <1>2, <1>3
  <2> QED BY <1>1, <1>4, <2>1
<1>8. ~(Cardinality(S) < 2)
  BY <1>6, <1>7, TwoMembers
<1>9. Oldest(S) = f(1)
  <2>1. \A x \in S : f(1).at <= x.at
    <3> TAKE x \in S
    <3>1. PICK l \in K : x = f(l)
      BY <1>1
    <3>2. l \in Nat /\ 1 <= l
      BY <1>2 DEF Steps
    <3>3. (l - 1) * q >= 0 /\ (l - 1) * q = l * q - 1 * q /\ l * q \in Int /\ 1 * q \in Int
      BY <1>2, <3>2
    <3> QED BY <1>3, <3>1, <3>3
  <2>2. ASSUME NEW x \in S, \A y \in S : x.at <= y.at PROVE x = f(1)
    <3>1. PICK l \in K : x = f(l)
      BY <1>1
    <3>2. x.at <= f(1).at
      BY <1>7, <2>2
    <3>3. l \in Nat /\ 1 <= l
      BY <1>2 DEF Steps
    <3>4. l * q <= 1 * q
      BY <1>3, <3>1, <3>2
    <3>5. l * q < 2 * q
      BY <1>2, <3>3, <3>4
    <3>6. l < 2
      BY <1>2, <3>3, <3>5, Cancel
    <3>7. l = 1
      BY <3>3, <3>6
    <3> QED BY <3>1, <3>7
  <2> QED BY <1>7, <2>1, <2>2 DEF Oldest
<1>10. f(1) = Mark(t, k, Base, t.start, q)
  <2>1. 1 * q = q
    BY <1>2
  <2> QED BY <2>1 DEF f
<1> QED BY <1>8, <1>9, <1>10 DEF S, q

\* What the second case gets is the restart in the middle.
LEMMA RestoredOne ==
  ASSUME test \in Tests, Fits(test), LongEnough(test, test.stop), test.stop >= 3, test.kind \in Paired,
         dir[1].files = AllOf(test, tries), dir[1].last = Newest(dir[1].files)
  PROVE  Restored = {Mark(test, tries, Base, test.start, Half(test))}
<1> DEFINE n == Mark(test, tries, Base, test.start, Half(test))
           S == AllOf(test, tries)
<1>1. /\ test.stop \in Nat /\ Half(test) \in Nat \ {0} /\ Half(test) < test.stop
      /\ test.kind = "IRT" => 2 * Half(test) <= test.stop
      /\ test.kind # "IRT" => 2 * Half(test) > test.stop
  BY TestParts, HalfFits DEF Paired
<1>2. CASE test.kind = "IRT"
  <2>1. ~(Cardinality(S) < 2) /\ Oldest(S) = n
    BY <1>1, <1>2, OldestOfAll
  <2> HIDE DEF S, n
  <2>2. dir[1].files = S
    BY DEF S
  <2> QED BY <1>2, <2>1, <2>2 DEF Restored, n
<1>3. CASE test.kind # "IRT"
  <2>1. S = {n}
    <3>1. Multiples(test) = {1}
      BY <1>1, <1>3, OneMultiple DEF Multiples
    <3>2. 1 * Half(test) = Half(test)
      BY <1>1
    <3> QED BY <3>1, <3>2 DEF AllOf
  <2>2. n # None /\ n.at \in Int
    BY <1>1, MarkParts DEF IsRun, Base
  <2> HIDE DEF S, n
  <2>3. dir[1].files = {n} /\ dir[1].last = n
    BY <2>1, <2>2, NewestOne DEF S
  <2>4. CASE test.kind = "ERR"
    <3>1. Cardinality({n}) = 1 /\ Cardinality({}) = 0
      BY FS_Singleton, FS_EmptySet
    <3>2. {q \in {n} : q.at < n.at} = {}
      BY <2>2
    <3>3. Cardinality({q \in {n} : q.at < n.at}) = Cardinality({n}) \div 2
      BY <3>1, <3>2
    <3>4. Restored = {r \in {n} : Cardinality({q \in {n} : q.at < r.at}) = Cardinality({n}) \div 2}
      BY <2>3, <2>4, Zenon DEF Restored
    <3> QED BY <3>3, <3>4 DEF n
  <2>5. CASE test.kind # "ERR"
    <3>1. Restored = Archived(1)
      BY <1>3, <2>5 DEF Restored
    <3> QED BY <2>2, <2>3, <3>1 DEF Archived, n
  <2> QED BY <2>4, <2>5
<1> QED BY <1>2, <1>3

\* The first case leaves its restarts.
LEMMA CaseOneKeeps ==
  ASSUME Restartable, LegsInv, CaseOne, test.kind \in Paired PROVE LegsInv'
<1> DEFINE e == env[1]
           q == Half(test)
<1>1. /\ leg = "first" /\ test.kind # "DAE" /\ test' = test /\ tries' = tries
      /\ Common /\ Shapes /\ test \in Tests /\ Fits(test) /\ test.stop \in Nat \ {0}
      /\ PairedReady /\ Names = {} /\ EnvFits(test, e) /\ DirFits(dir[1])
  BY TestParts DEF CaseOne, At, LegsInv, Common, Shapes, PairedPlace, Restartable, Paired
<1>2. /\ test.stop >= 3 /\ LongEnough(test, test.stop) /\ e.stop = test.stop /\ e.rest = q
      /\ AtMultiples(dir[1].files)
  BY <1>1 DEF PairedReady
<1>3. q \in Nat \ {0} /\ q < test.stop
  BY <1>1, <1>2, HalfFits DEF Paired
<1>4. Run(Base, 1, e, dir[1], {Start}, test.start, "second", {})
  BY <1>1, Zenon DEF CaseOne
<1> HIDE DEF e
<1>5. /\ Common' /\ Names' = Names \cup {Base}
      /\ CutShort(Base, 1, e, dir[1], Start, test.start) \/ Whole(Base, 1, e, dir[1], Start, test.start, "second")
  <2>1. "second" \in Waiting \cup LegsOf(test)
    BY <1>1 DEF LegsOf, Paired
  <2>2. Justified(Base, e, Start, {}) /\ Base \notin Names /\ 1 \in 1..3
    BY <1>1 DEF Justified
  <2> QED BY <1>1, <1>4, <2>1, <2>2, StartFrom, RunKeeps
<1>6. \A len \in 0 .. test.stop :
        LET z == Put(dir[1], Written(Base, test.start, 0, len, q))
        IN AtMultiples(z.files) /\ (len = test.stop => z.files = AllOf(test, tries) /\ z.last = Newest(z.files))
  <2> TAKE len \in 0 .. test.stop
  <2>1. test.stop \in Nat /\ Half(test) \in Nat \ {0} /\ Half(test) <= test.stop
    BY <1>1, <1>3
  <2>2. AtMultiples(dir[1].files) /\ test \in Tests
    BY <1>1, <1>2
  <2> QED BY <2>1, <2>2, CaseOneFiles
<1>7. \A files : AtMultiples(files) => AtMultiples(files)'
  BY <1>1 DEF AtMultiples
<1>8. CASE CutShort(Base, 1, e, dir[1], Start, test.start)
  <2>1. leg' = "failed" /\ env'[1] = e /\ env'[2] = env[2]
    BY <1>1, <1>8, CutShortParts
  <2>2. PICK len \in 0 .. test.stop : dir'[1] = Put(dir[1], Written(Base, test.start, 0, 0 + len, q))
    BY <1>1, <1>2, <1>8, StartFrom, CutShortParts
  <2>3. 0 + len = len
    OBVIOUS
  <2>4. AtMultiples(dir'[1].files)
    BY <1>6, <2>2, <2>3
  <2>5. PairedReady'
    BY <1>1, <1>2, <2>1, <2>4 DEF PairedReady, AtMultiples
  <2>6. PairedPlace'
    BY <2>1, <2>5 DEF PairedPlace
  <2> QED BY <1>1, <1>5, <2>6, OnlyPaired
<1>9. CASE Whole(Base, 1, e, dir[1], Start, test.start, "second")
  <2>1. /\ leg' = "second" /\ Ran(Base, 0, 0 + test.stop)'
        /\ dir'[1] = Put(dir[1], Written(Base, test.start, 0, 0 + test.stop, q))
        /\ env'[1].stop = e.stop /\ env'[1].rest = e.rest /\ env'[2] = env[2]
    BY <1>1, <1>2, <1>9, StartFrom, WholeParts
  <2>2. 0 + test.stop = test.stop /\ test.stop \in 0 .. test.stop
    BY <1>1
  <2>3. /\ AtMultiples(dir'[1].files)
        /\ dir'[1].files = AllOf(test, tries) /\ dir'[1].last = Newest(dir'[1].files)
    BY <1>6, <2>1, <2>2
  <2>4. PairedReady'
    BY <1>1, <1>2, <2>1, <2>3 DEF PairedReady, AtMultiples
  <2>5. PairedPlace'
    BY <1>1, <1>5, <2>1, <2>2, <2>3, <2>4 DEF PairedPlace
  <2> QED BY <1>1, <1>5, <2>5, OnlyPaired
<1> QED BY <1>5, <1>8, <1>9

\* The second case begins from the one that is restored.
LEMMA CaseTwoKeeps ==
  ASSUME Restartable, LegsInv, CaseTwo PROVE LegsInv'
<1> DEFINE n == Mark(test, tries, Base, test.start, Half(test))
           d == Put(dir[2], {n})
           e == IF test.kind = "ERR" THEN Repoint(env[2], d) ELSE env[2]
<1>1. /\ leg = "second" /\ test.kind \in Paired /\ test' = test /\ tries' = tries
      /\ Common /\ Shapes /\ test \in Tests /\ Fits(test) /\ test.stop \in Nat \ {0}
      /\ PairedReady /\ Names = {Base} /\ Ran(Base, 0, test.stop)
      /\ dir[1].files = AllOf(test, tries) /\ dir[1].last = Newest(dir[1].files)
      /\ EnvFits(test, env[2])
  BY TestParts DEF CaseTwo, At, LegsInv, Common, Shapes, PairedPlace, Restartable, Paired
<1>2. /\ test.stop >= 3 /\ LongEnough(test, test.stop) /\ AtMultiples(dir[1].files)
      /\ env[1].stop = test.stop /\ env[1].rest = Half(test)
      /\ env[2].stop = test.stop - Half(test) /\ env[2].rest = 0
      /\ (test.named /\ test.kind # "ERR") => env[2].pointer = ModelTime(test, test.start, Half(test))
  BY <1>1 DEF PairedReady
<1>3. Half(test) \in Nat \ {0} /\ Half(test) < test.stop
  BY <1>1, <1>2, HalfFits DEF Paired
<1>4. /\ n.by = Base /\ n.at = Half(test) /\ n.try = tries
      /\ n.time = ModelTime(test, test.start, Half(test)) /\ n # None
  BY MarkParts DEF IsRun, Base
<1>5. Restored = {n}
  BY <1>1, <1>2, RestoredOne
<1>6. Run(Rest, 2, e, d, Read(d, e), test.start, "ended", {<<Base, Rest>>})
  BY <1>5, Zenon DEF CaseTwo
<1> HIDE DEF n
<1>7. HoldsIn(test, d, n) /\ d.last = n /\ DirFits(d)
  BY <1>3, <1>4, PutOne
<1> HIDE DEF d
<1>8. /\ EnvFits(test, e) /\ e.stop = test.stop - Half(test) /\ e.rest = 0
      /\ test.named => e.pointer = n.time
  <2>1. CASE test.kind = "ERR"
    <3>1. e = Repoint(env[2], d)
      BY <2>1
    <3>2. EnvFits(test, Repoint(env[2], d)) /\ Repoint(env[2], d).stop = env[2].stop
          /\ Repoint(env[2], d).rest = env[2].rest /\ Repoint(env[2], d).pointer = n.time
      <4>1. EnvFits(test, env[2]) /\ d.last # None /\ d.last.time = n.time
        BY <1>1, <1>4, <1>7
      <4>2. EnvFits(test, Repoint(env[2], d))
        BY <4>1, RepointFits, Zenon
      <4>3. Repoint(env[2], d) = [env[2] EXCEPT !.pointer = d.last.time]
        BY <4>1 DEF Repoint
      <4>4. env[2] = [stop |-> env[2].stop, rest |-> env[2].rest, cont |-> env[2].cont, pointer |-> env[2].pointer]
        BY <4>1, Zenon DEF EnvFits
      <4>5. /\ Repoint(env[2], d).stop = env[2].stop /\ Repoint(env[2], d).rest = env[2].rest
            /\ Repoint(env[2], d).pointer = d.last.time
        <5> DEFINE x == env[2]
        <5> HIDE DEF x
        <5>1. x = [stop |-> x.stop, rest |-> x.rest, cont |-> x.cont, pointer |-> x.pointer]
          BY <4>4 DEF x
        <5>2. Repoint(x, d) = [x EXCEPT !.pointer = d.last.time]
          BY <4>3 DEF x
        <5>3. Repoint(x, d).stop = x.stop /\ Repoint(x, d).rest = x.rest /\ Repoint(x, d).pointer = d.last.time
          BY <5>1, <5>2
        <5> QED BY <5>3 DEF x
      <4> QED BY <4>1, <4>2, <4>5
    <3> QED BY <1>2, <3>1, <3>2
  <2>2. CASE test.kind # "ERR"
    <3>1. e = env[2]
      BY <2>2
    <3> QED BY <1>1, <1>2, <1>4, <2>2, <3>1
  <2> QED BY <2>1, <2>2
<1> HIDE DEF e
<1>9. Read(d, e) = {n}
  BY <1>4, <1>7, <1>8, ReadsIt
<1>10. Justified(Rest, e, n, {<<Base, Rest>>})
  <2>1. Length(test) = test.stop
    BY <1>1 DEF Length, Paired
  <2>2. n.at + e.stop = Length(test) /\ n.at < Length(test) /\ n.try = tries /\ n.by = Base
    BY <1>1, <1>3, <1>4, <1>8, <2>1
  <2>3. \E a \in runs : a.name = Base /\ a.to = Length(test) /\ a.from.at < n.at
    BY <1>1, <1>3, <1>4, <2>1 DEF Ran
  <2> QED BY <2>2, <2>3 DEF Justified
<1>11. /\ Common'
       /\ CutShort(Rest, 2, e, d, n, test.start) \/ Whole(Rest, 2, e, d, n, test.start, "ended")
  <2>1. From(n) /\ 2 \in 1..3
    BY <1>3, <1>4 DEF From
  <2>2. Rest \notin Names
    BY <1>1 DEF Base, Rest
  <2>3. "ended" \in Waiting \cup LegsOf(test)
    BY DEF Waiting
  <2>4. Run(Rest, 2, e, d, {n}, test.start, "ended", {<<Base, Rest>>})
    BY <1>6, <1>9
  <2> QED BY <1>1, <1>7, <1>8, <1>10, <2>1, <2>2, <2>3, <2>4, RunKeeps
<1>12. /\ leg' \in {"failed", "ended"} /\ env'[1] = env[1] /\ dir'[1] = dir[1]
       /\ env'[2].stop = e.stop /\ env'[2].rest = e.rest
       /\ test.named => env'[2].pointer = n.time
  <2>1. CASE CutShort(Rest, 2, e, d, n, test.start)
    <3>1. leg' = "failed" /\ env'[2] = e /\ env'[1] = env[1] /\ dir'[1] = dir[1]
      BY <1>1, <2>1, CutShortParts
    <3> QED BY <1>8, <3>1
  <2>2. CASE Whole(Rest, 2, e, d, n, test.start, "ended")
    <3>1. /\ leg' = "ended" /\ env'[1] = env[1] /\ dir'[1] = dir[1]
          /\ env'[2].stop = e.stop /\ env'[2].rest = e.rest
          /\ dir'[2] = Put(d, Written(Rest, test.start, n.at, n.at + e.stop, e.rest))
          /\ (dir'[2].last # None => env'[2].pointer = dir'[2].last.time)
      BY <1>1, <1>8, <2>2, WholeParts
    <3>2. dir'[2] = d
      BY <1>7, <1>8, <3>1, WrittenNone, PutNone
    <3> QED BY <1>4, <1>7, <3>1, <3>2
  <2> QED BY <1>11, <2>1, <2>2
<1>13. PairedReady'
  BY <1>1, <1>2, <1>4, <1>8, <1>12 DEF PairedReady, AtMultiples
<1>14. PairedPlace'
  BY <1>12, <1>13 DEF PairedPlace
<1> QED BY <1>1, <1>11, <1>14, OnlyPaired

-----------------------------------------------------------------------------
(* The cycles of a DAE *)

\* The cycles have the same positive length.
LEMMA DaeLengths ==
  ASSUME NEW t \in Tests, Fits(t), t.kind = "DAE"
  PROVE  /\ t.stop \in Nat \ {0} /\ t.parts \in Nat /\ t.parts >= 2 /\ PartLength(t) \in Nat
         /\ (t.stop % t.parts) = 0 => t.stop = PartLength(t) * t.parts
<1>1. t.stop \in Nat \ {0} /\ t.parts \in Nat /\ t.parts >= 2
  BY TestParts DEF Fits
<1> DEFINE s == t.stop
           p == t.parts
<1>2. s \in Nat /\ p \in Nat \ {0}
  BY <1>1
<1> HIDE DEF s, p
<1>3. s \div p \in Nat /\ ((s % p) = 0 => s = (s \div p) * p)
  BY <1>2
<1> QED BY <1>1, <1>3 DEF s, p, PartLength

\* The cycles of the length q tile the run.
LEMMA Tiles ==
  ASSUME NEW len \in Nat \ {0}, NEW p \in Nat, NEW q \in Nat, len = q * p, NEW k \in 1 .. p
  PROVE  /\ q \in Nat \ {0} /\ q <= len /\ k * q \in Nat /\ (k - 1) * q \in Nat
         /\ (k - 1) * q + q = k * q /\ (k > 1 => (k - 1) * q # 0)
         /\ k = p => k * q = len
<1>1. q # 0
  OBVIOUS
<1>2. k * q \in Nat /\ (k - 1) * q \in Nat /\ (k - 1) * q + q = k * q
  OBVIOUS
<1>3. q <= len
  <2>1. (p - 1) * q >= 0
    OBVIOUS
  <2>2. (p - 1) * q = q * p - q
    OBVIOUS
  <2> QED BY <2>1, <2>2
<1>4. k > 1 => (k - 1) * q # 0
  BY <1>1
<1>5. k = p => k * q = len
  OBVIOUS
<1> QED BY <1>1, <1>2, <1>3, <1>4, <1>5

OneSet(f, c, x) == [f EXCEPT ![c] = x]

\* A value for one case leaves the others.
LEMMA OnePlace ==
  ASSUME NEW f, NEW c \in 1..3, NEW x, f = [k \in 1..3 |-> f[k]]
  PROVE  LET g == OneSet(f, c, x)
         IN /\ g = [k \in 1..3 |-> g[k]]
            /\ g[1] = IF c = 1 THEN x ELSE f[1]
            /\ g[2] = IF c = 2 THEN x ELSE f[2]
            /\ g[3] = IF c = 3 THEN x ELSE f[3]
<1> DEFINE g == OneSet(f, c, x)
<1>1. DOMAIN f = 1..3
  OBVIOUS
<1>2. \A k \in 1..3 : g[k] = IF k = c THEN x ELSE f[k]
  BY <1>1 DEF OneSet
<1>3. g = [k \in 1..3 |-> g[k]]
  BY <1>1 DEF OneSet
<1>4. 1 \in 1..3 /\ 2 \in 1..3 /\ 3 \in 1..3
  OBVIOUS
<1>5. /\ g[1] = IF c = 1 THEN x ELSE f[1]
      /\ g[2] = IF c = 2 THEN x ELSE f[2]
      /\ g[3] = IF c = 3 THEN x ELSE f[3]
  BY <1>2, <1>4
<1> QED BY <1>3, <1>5

\* The setup divides the length by the cycles.
LEMMA SetupDaeKeeps ==
  ASSUME Restartable, LegsInv, SetupDae PROVE LegsInv'
<1> DEFINE q == PartLength(test)
           x == Sets(env[2], q, q, env[2].cont)
<1>1. /\ leg = "setup" /\ test.kind = "DAE" /\ test' = test /\ tries' = tries
      /\ Common /\ Shapes /\ test \in Tests /\ Fits(test)
      /\ env[1].stop = test.stop /\ EnvFits(test, env[2])
  BY DEF SetupDae, At, LegsInv, Common, Shapes, DaePlace, Restartable
<1>2. CASE (test.stop % test.parts) # 0
  <2>1. TooShort
    BY <1>2 DEF SetupDae
  <2> QED BY <1>1, <2>1, ShortKeeps
<1>3. CASE (test.stop % test.parts) = 0
  <2>1. env' = [env EXCEPT ![2] = x] /\ leg' = "idle" /\ UNCHANGED <<dir, arch, runs, pairs>>
    BY <1>3, Zenon DEF SetupDae, PartLength
  <2>2. /\ test.stop \in Nat \ {0} /\ test.parts \in Nat /\ test.parts >= 2 /\ q \in Nat
        /\ test.stop = q * test.parts
    BY <1>1, <1>3, DaeLengths
  <2> HIDE DEF q
  <2>3. q \in Nat \ {0} /\ q <= test.stop
    <3>1. 1 \in 1 .. test.parts
      BY <2>2
    <3> QED BY <2>2, <3>1, Tiles
  <2>4. EnvFits(test, x) /\ x.stop = q /\ x.rest = q
    <3>1. q \in 1..test.stop /\ q \in 0..test.stop
      BY <2>2, <2>3
    <3>2. env[2].cont \in BOOLEAN
      BY <1>1, EnvParts, Zenon
    <3>3. EnvFits(test, x)
      BY <3>1, <3>2, SetsFits, Zenon
    <3> QED BY <3>3, Zenon DEF Sets
  <2> HIDE DEF x
  <2>5. /\ env'[1] = env[1] /\ env'[2] = x /\ env'[3] = env[3]
        /\ env' = [k \in 1..3 |-> env'[k]]
    <3>1. env = [k \in 1..3 |-> env[k]]
      BY <1>1 DEF Shapes
    <3>2. env' = OneSet(env, 2, x) /\ 2 \in 1..3
      BY <2>1 DEF OneSet
    <3> QED BY <3>1, <3>2, OnePlace
  <2>6. Common'
    <3>1. \A k \in 1..3 : EnvFits(test, env'[k])
      <4>1. EnvFits(test, env[1]) /\ EnvFits(test, env[3])
        BY <1>1 DEF Shapes
      <4> QED BY <2>4, <2>5, <4>1
    <3>2. leg' \in Waiting \cup LegsOf(test)
      BY <2>1 DEF Waiting
    <3> QED BY <1>1, <2>1, <2>5, <3>1, <3>2, EnvKeeps
  <2>7. DaePlace'
    BY <1>1, <2>1, <2>2, <2>4, <2>5 DEF DaePlace, DaeReady, q
  <2> QED BY <1>1, <2>6, <2>7, OnlyDae
<1> QED BY <1>2, <1>3

\* The first case of a DAE runs the whole length.
LEMMA CaseOneDaeKeeps ==
  ASSUME Restartable, LegsInv, CaseOne, test.kind = "DAE" PROVE LegsInv'
<1> DEFINE e == env[1]
<1>1. /\ leg = "first" /\ test' = test /\ tries' = tries /\ j' = j
      /\ Common /\ Shapes /\ test \in Tests /\ Fits(test) /\ test.stop \in Nat \ {0}
      /\ DaeReady /\ Names = {} /\ j = 1 /\ EnvFits(test, e) /\ DirFits(dir[1])
  BY TestParts DEF CaseOne, At, LegsInv, Common, Shapes, DaePlace, Restartable
<1>2. e.stop = test.stop
  BY <1>1 DEF DaeReady
<1>3. Run(Base, 1, e, dir[1], {Start}, test.start, "reset", {})
  BY Zenon DEF CaseOne
<1> HIDE DEF e
<1>4. /\ Common' /\ Names' = Names \cup {Base}
      /\ CutShort(Base, 1, e, dir[1], Start, test.start) \/ Whole(Base, 1, e, dir[1], Start, test.start, "reset")
  <2>1. "reset" \in Waiting \cup LegsOf(test)
    BY <1>1 DEF LegsOf
  <2>2. Justified(Base, e, Start, {}) /\ Base \notin Names /\ 1 \in 1..3
    BY <1>1 DEF Justified
  <2> QED BY <1>1, <1>3, <2>1, <2>2, StartFrom, RunKeeps
<1>5. CASE CutShort(Base, 1, e, dir[1], Start, test.start)
  <2>1. leg' = "failed" /\ env'[1] = e /\ env'[2] = env[2]
    BY <1>1, <1>5, CutShortParts
  <2>2. DaePlace'
    BY <1>1, <1>2, <2>1 DEF DaePlace, DaeReady
  <2> QED BY <1>1, <1>4, <2>2, OnlyDae
<1>6. CASE Whole(Base, 1, e, dir[1], Start, test.start, "reset")
  <2>1. /\ leg' = "reset" /\ Ran(Base, 0, 0 + test.stop)'
        /\ env'[1].stop = e.stop /\ env'[2] = env[2]
    BY <1>1, <1>2, <1>6, StartFrom, WholeParts
  <2>2. 0 + test.stop = test.stop
    BY <1>1
  <2>3. DaePlace'
    BY <1>1, <1>2, <1>4, <2>1, <2>2 DEF DaePlace, DaeReady
  <2> QED BY <1>1, <1>4, <2>3, OnlyDae
<1> QED BY <1>4, <1>5, <1>6

\* The second case starts over.
LEMMA ResetDaeKeeps ==
  ASSUME Restartable, LegsInv, ResetDae PROVE LegsInv'
<1> DEFINE x == Sets(env[2], env[2].stop, env[2].rest, FALSE)
<1>1. /\ leg = "reset" /\ test.kind = "DAE" /\ test' = test /\ tries' = tries /\ j' = j
      /\ Common /\ Shapes /\ test \in Tests /\ Fits(test)
      /\ DaeReady /\ Names = {Base} /\ j = 1 /\ Ran(Base, 0, test.stop) /\ EnvFits(test, env[2])
      /\ leg' = "second" /\ env' = [env EXCEPT ![2] = x] /\ UNCHANGED <<dir, runs, pairs>>
  <2>1. env' = [env EXCEPT ![2] = x]
    BY Zenon DEF ResetDae
  <2>2. /\ leg = "reset" /\ test.kind = "DAE" /\ test' = test /\ tries' = tries /\ j' = j
        /\ leg' = "second" /\ UNCHANGED <<dir, runs, pairs>>
    BY DEF ResetDae, At
  <2>3. /\ Common /\ Shapes /\ test \in Tests /\ Fits(test)
        /\ DaeReady /\ Names = {Base} /\ j = 1 /\ Ran(Base, 0, test.stop) /\ EnvFits(test, env[2])
    BY <2>2 DEF LegsInv, Common, Shapes, DaePlace, Restartable
  <2> QED BY <2>1, <2>2, <2>3
<1>2. /\ test.parts \in Nat /\ test.parts >= 2
  BY <1>1, DaeLengths
<1>3. EnvFits(test, x)
  <2>1. env[2].stop \in 1..test.stop /\ env[2].rest \in 0..test.stop /\ FALSE \in BOOLEAN
    BY <1>1, EnvParts, Zenon
  <2> QED BY <2>1, SetsFits, Zenon
<1>4. x.stop = env[2].stop /\ x.rest = env[2].rest
  BY Zenon DEF Sets
<1>5. ~x.cont
  BY Zenon DEF Sets
<1> HIDE DEF x
<1>6. /\ env'[1] = env[1] /\ env'[2] = x /\ env'[3] = env[3]
      /\ env' = [k \in 1..3 |-> env'[k]]
  <2>1. env = [k \in 1..3 |-> env[k]]
    BY <1>1 DEF Shapes
  <2>2. env' = OneSet(env, 2, x) /\ 2 \in 1..3
    BY <1>1 DEF OneSet
  <2> QED BY <2>1, <2>2, OnePlace
<1>7. Common'
  <2>1. \A k \in 1..3 : EnvFits(test, env'[k])
    <3>1. EnvFits(test, env[1]) /\ EnvFits(test, env[3])
      BY <1>1 DEF Shapes
    <3> QED BY <1>3, <1>6, <3>1
  <2>2. leg' \in Waiting \cup LegsOf(test)
    BY <1>1 DEF LegsOf
  <2> QED BY <1>1, <1>6, <2>1, <2>2, EnvKeeps
<1>8. DaeReady'
  BY <1>1, <1>4, <1>6 DEF DaeReady
<1>9. DaePlace'
  <2>1. Names' = {Base} \cup {Cycle(k) : k \in 1 .. (1 - 1)}
    BY <1>1 DEF Names
  <2>2. Ran(Base, 0, test.stop)'
    BY <1>1 DEF Ran
  <2>3. 1 \in 1 .. test.parts
    BY <1>2
  <2>4. ~env'[2].cont
    BY <1>5, <1>6, Zenon
  <2> QED BY <1>1, <1>8, <2>1, <2>2, <2>3, <2>4 DEF DaePlace
<1> QED BY <1>1, <1>7, <1>9, OnlyDae

\* A cycle continues the one before it.
LEMMA DaeCycleKeeps ==
  ASSUME Restartable, LegsInv, DaeCycle PROVE LegsInv'
<1> DEFINE q == PartLength(test)
           e == Sets(env[2], env[2].stop, env[2].rest, env[2].cont \/ j > 1)
           name == Cycle(j)
           next == IF j = test.parts THEN "ended" ELSE "second"
           added == IF j = test.parts THEN {<<Base, name>>} ELSE {}
           n == Mark(test, tries, Cycle(j - 1), test.start, (j - 1) * q)
<1>1. /\ leg = "second" /\ test.kind = "DAE" /\ test' = test /\ tries' = tries
      /\ Common /\ Shapes /\ test \in Tests /\ Fits(test) /\ EnvFits(test, env[2]) /\ DirFits(dir[2])
      /\ DaeReady /\ j \in 1 .. test.parts /\ Ran(Base, 0, test.stop)
      /\ Names = {Base} \cup {Cycle(k) : k \in 1 .. (j - 1)}
  BY DEF DaeCycle, At, LegsInv, Common, Shapes, DaePlace, Restartable
<1>2. /\ j = 1 => ~env[2].cont
      /\ j > 1 => HoldsIn(test, dir[2], n) /\ (test.named => env[2].pointer = n.time)
  BY <1>1 DEF LegsInv, DaePlace
<1>3. /\ test.stop \in Nat \ {0} /\ test.parts \in Nat /\ test.parts >= 2 /\ q \in Nat
      /\ test.stop = q * test.parts /\ env[1].stop = test.stop /\ env[2].stop = q /\ env[2].rest = q
  BY <1>1, DaeLengths DEF DaeReady
<1>4. /\ q \in Nat \ {0} /\ q <= test.stop /\ j * q \in Nat /\ (j - 1) * q \in Nat
      /\ (j - 1) * q + q = j * q /\ (j > 1 => (j - 1) * q # 0)
      /\ j = test.parts => j * q = test.stop
  <2> HIDE DEF q
  <2> QED BY <1>1, <1>3, Tiles
<1>5. EnvFits(test, e)
  <2>1. env[2].stop \in 1..test.stop /\ env[2].rest \in 0..test.stop /\ (env[2].cont \/ j > 1) \in BOOLEAN
    BY <1>1, EnvParts, Zenon
  <2> QED BY <2>1, SetsFits, Zenon
<1>6. e.stop = q /\ e.rest = q /\ e.pointer = env[2].pointer
  <2>1. e.stop = env[2].stop /\ e.rest = env[2].rest /\ e.pointer = env[2].pointer
    BY Zenon DEF Sets
  <2> QED BY <1>3, <2>1
<1>7. e.cont <=> (env[2].cont \/ j > 1)
  BY Zenon DEF Sets
<1>8. /\ Run(name, 2, e, dir[2], IF e.cont THEN Read(dir[2], e) ELSE {Start}, test.start, next, added)
      /\ j' = j + 1
  BY Zenon DEF DaeCycle, Cycle
<1> HIDE DEF e, n
<1>9. PICK m : /\ Run(name, 2, e, dir[2], {m}, test.start, next, added)
               /\ From(m) /\ m.at = (j - 1) * q /\ (j > 1 => m.try = tries)
  <2>1. CASE j = 1
    <3>1. ~e.cont
      <4>1. ~(j > 1)
        BY <2>1
      <4> QED BY <1>2, <1>7, <2>1, <4>1, Zenon
    <3>2. Run(name, 2, e, dir[2], {Start}, test.start, next, added)
      BY <1>8, <3>1, Zenon
    <3>3. From(Start) /\ Start.at = (j - 1) * q /\ ~(j > 1)
      BY <1>3, <2>1, StartFrom
    <3> QED BY <3>2, <3>3
  <2>2. CASE j > 1
    <3>1. e.cont
      BY <1>7, <2>2, Zenon
    <3>2. n.at = (j - 1) * q /\ n.try = tries /\ n # None
      BY MarkParts DEF n, IsRun, Cycle
    <3>3. Read(dir[2], e) = {n}
      BY <1>2, <1>6, <2>2, <3>2, ReadsIt
    <3>4. Run(name, 2, e, dir[2], {n}, test.start, next, added)
      BY <1>8, <3>1, <3>3, Zenon
    <3>5. From(n)
      BY <1>4, <3>2 DEF From
    <3> QED BY <3>2, <3>4, <3>5
  <2>3. j = 1 \/ j > 1
    BY <1>1, <1>3
  <2> HIDE DEF q, name, next, added
  <2> QED BY <2>1, <2>2, <2>3, Zenon
<1>10. name \notin Names
  <2>1. \A k \in 1 .. (j - 1) : k # j
    BY <1>1
  <2>2. \A k \in 1 .. (j - 1) : Cycle(k) # Cycle(j)
    BY <2>1 DEF Cycle
  <2>3. Cycle(j) # Base
    BY DEF Cycle, Base
  <2> QED BY <1>1, <2>2, <2>3
<1>11. Justified(name, e, m, added)
  <2>1. CASE j # test.parts
    BY <2>1 DEF Justified
  <2>2. CASE j = test.parts
    <3>1. Length(test) = test.stop
      BY <1>1 DEF Length
    <3>2. m.at + e.stop = Length(test) /\ m.at < Length(test) /\ m.try = tries /\ m.at > 0
      BY <1>1, <1>3, <1>4, <1>6, <1>9, <2>2, <3>1
    <3>3. \E a \in runs : a.name = Base /\ a.to = Length(test) /\ a.from.at < m.at
      BY <1>1, <3>1, <3>2 DEF Ran
    <3>4. added = {<<Base, name>>}
      BY <2>2
    <3> QED BY <1>1, <3>2, <3>3, <3>4 DEF Justified
  <2> QED BY <2>1, <2>2
<1>12. next \in Waiting \cup LegsOf(test)
  BY <1>1 DEF Waiting, LegsOf
<1>13. 2 \in 1..3
  OBVIOUS
<1> DEFINE o == test.start
           w == Mark(test, tries, name, o, j * q)
<1> HIDE DEF name, next, added, w
<1>14. /\ Common' /\ Names' = Names \cup {name} /\ runs \subseteq runs'
       /\ CutShort(name, 2, e, dir[2], m, o) \/ Whole(name, 2, e, dir[2], m, o, next)
  BY <1>1, <1>5, <1>9, <1>10, <1>11, <1>12, <1>13, RunKeeps
<1>15. CASE CutShort(name, 2, e, dir[2], m, o)
  <2>1. leg' = "failed" /\ env'[1] = env[1] /\ env'[2] = e
    BY <1>1, <1>13, <1>15, CutShortParts
  <2>2. DaeReady'
    BY <1>1, <1>3, <1>6, <2>1 DEF DaeReady
  <2>3. DaePlace'
    BY <2>1, <2>2 DEF DaePlace
  <2> QED BY <1>1, <1>14, <2>3, OnlyDae
<1>16. CASE Whole(name, 2, e, dir[2], m, o, next)
  <2>1. /\ leg' = next /\ env'[1] = env[1] /\ env'[2].stop = e.stop /\ env'[2].rest = e.rest
        /\ dir'[2] = Put(dir[2], Written(name, o, m.at, m.at + e.stop, e.rest))
        /\ (dir'[2].last # None => env'[2].pointer = dir'[2].last.time)
    BY <1>1, <1>5, <1>13, <1>16, WholeParts
  <2>2. DaeReady'
    BY <1>1, <1>3, <1>6, <2>1 DEF DaeReady
  <2>3. CASE j = test.parts
    <3>1. leg' = "ended"
      BY <2>1, <2>3 DEF next
    <3>2. DaePlace'
      BY <2>2, <3>1 DEF DaePlace
    <3> QED BY <1>1, <1>14, <3>2, OnlyDae
  <2>4. CASE j # test.parts
    <3>1. leg' = "second" /\ j' \in 1 .. test.parts /\ j' = j + 1 /\ j' > 1 /\ j' - 1 = j
      BY <1>1, <1>3, <1>8, <2>1, <2>4 DEF next
    <3>2. Written(name, o, m.at, m.at + e.stop, e.rest) = {w}
      <4> DEFINE a == m.at
      <4>1. a \in Nat /\ a + q = j * q
        BY <1>4, <1>9
      <4> HIDE DEF a, q
      <4>2. Written(name, o, a, a + q, q) = {Mark(test, tries, name, o, a + q)}
        <5>1. q <= q /\ 2 * q > q /\ q \in Nat
          BY <1>4
        <5> QED BY <1>4, <4>1, <5>1, WrittenOne
      <4> QED BY <1>6, <4>1, <4>2 DEF a, w
    <3>3. w.at \in Int /\ w # None
      BY <1>4, MarkParts DEF w, name, Cycle, IsRun
    <3>4. HoldsIn(test, dir'[2], w) /\ dir'[2].last = w
      <4>1. HoldsIn(test, Put(dir[2], {w}), w) /\ Put(dir[2], {w}).last = w
        BY <3>3, PutOne
      <4> QED BY <2>1, <3>2, <4>1
    <3>5. env'[2].pointer = w.time
      BY <2>1, <3>3, <3>4
    <3>6. Names' = {Base} \cup {Cycle(k) : k \in 1 .. (j' - 1)}
      <4>1. 1 .. (j' - 1) = (1 .. (j - 1)) \cup {j}
        BY <1>1, <3>1
      <4>2. {Cycle(k) : k \in 1 .. (j' - 1)} = {Cycle(k) : k \in 1 .. (j - 1)} \cup {Cycle(j)}
        BY <4>1
      <4> QED BY <1>1, <1>14, <4>2 DEF name
    <3>7. Ran(Base, 0, test.stop)'
      BY <1>1, <1>14 DEF Ran
    <3>8. w = Mark(test, tries, Cycle(j' - 1), test.start, (j' - 1) * q)
      BY <3>1 DEF w, name
    <3>9. DaePlace'
      <4>1. /\ HoldsIn(test, dir'[2], Mark(test, tries, Cycle(j' - 1), test.start, (j' - 1) * q))
            /\ test.named => env'[2].pointer = Mark(test, tries, Cycle(j' - 1), test.start, (j' - 1) * q).time
        BY <3>4, <3>5, <3>8
      <4>2. j' # 1
        BY <3>1
      <4> QED BY <1>1, <2>2, <3>1, <3>6, <3>7, <4>1, <4>2 DEF DaePlace
    <3> QED BY <1>1, <1>14, <3>9, OnlyDae
  <2> QED BY <2>3, <2>4
<1> QED BY <1>14, <1>15, <1>16

-----------------------------------------------------------------------------
(* Submission *)

\* A submission begins again, over whatever the last one left.
LEMMA SubmitKeeps ==
  ASSUME Restartable, LegsInv, Submit PROVE LegsInv'
<1> DEFINE x == Sets(env[1], test.stop, env[1].rest, env[1].cont /\ test.kind = "ERI")
<1>1. env' = [env EXCEPT ![1] = x]
  BY Zenon DEF Submit
<1>2. /\ leg \in {"idle", "failed", "ended"} /\ tries < MaxTries /\ tries' = tries + 1 /\ leg' = "first"
      /\ i' = 1 /\ j' = 1 /\ runs' = {} /\ pairs' = {} /\ UNCHANGED <<test, dir, arch>>
  BY DEF Submit
<1>3. Common /\ Shapes /\ test \in Tests /\ EnvFits(test, env[1]) /\ test.stop \in Nat \ {0}
  BY TestParts DEF LegsInv, Common, Shapes
<1>4. EnvFits(test, x)
  <2>1. env[1].rest \in 0..test.stop /\ (env[1].cont /\ test.kind = "ERI") \in BOOLEAN
    BY <1>3, EnvParts, Zenon
  <2>2. test.stop \in 1..test.stop
    BY <1>3
  <2> QED BY <2>1, <2>2, SetsFits, Zenon
<1>5. x.stop = test.stop /\ x.rest = env[1].rest
  BY Zenon DEF Sets
<1> HIDE DEF x
<1>6. /\ env'[1] = x /\ env'[2] = env[2] /\ env'[3] = env[3]
      /\ env' = [k \in 1..3 |-> env'[k]]
  <2>1. env = [k \in 1..3 |-> env[k]]
    BY <1>3 DEF Shapes
  <2>2. env' = OneSet(env, 1, x) /\ 1 \in 1..3
    BY <1>1 DEF OneSet
  <2> QED BY <2>1, <2>2, OnePlace
<1>7. Common'
  <2>1. \A k \in 1..3 : EnvFits(test, env'[k])
    <3>1. EnvFits(test, env[2]) /\ EnvFits(test, env[3])
      BY <1>3 DEF Shapes
    <3> QED BY <1>4, <1>6, <3>1
  <2>2. leg' \in (Waiting \cup LegsOf(test))'
    <3>1. test.kind \in {"ERS", "ERIO", "ERI", "IRT", "ERR", "ERP", "DAE"}
      BY <1>3, TestParts
    <3> QED BY <1>2, <3>1 DEF LegsOf
  <2>3. tries' \in 0..MaxTries
    BY <1>2, <1>3, MaxTriesAssumption DEF Shapes
  <2>4. Shapes'
    BY <1>2, <1>3, <1>6, <2>1, <2>3 DEF Shapes
  <2> QED BY <1>2, <2>2, <2>4 DEF Common, OneEach
<1>8. Names' = {}
  BY <1>2 DEF Names
<1>9. ErsPlace' /\ ErioPlace' /\ EriPlace'
  BY <1>2, <1>5, <1>6, <1>8 DEF ErsPlace, ErioPlace, EriPlace
<1>10. PairedPlace'
  <2>1. test.kind \in Paired => PairedReady'
    BY <1>2, <1>5, <1>6 DEF LegsInv, PairedPlace, PairedReady, AtMultiples
  <2> QED BY <1>2, <1>8, <2>1 DEF PairedPlace
<1>11. DaePlace'
  <2>1. test.kind = "DAE" => DaeReady'
    BY <1>2, <1>5, <1>6 DEF LegsInv, DaePlace, DaeReady
  <2> QED BY <1>2, <1>8, <2>1 DEF DaePlace
<1> QED BY <1>7, <1>9, <1>10, <1>11 DEF LegsInv

\* At the start no run has been made, and the first case has the length of the test.
LEMMA InitKeeps == RestartInit => LegsInv
<1> SUFFICES ASSUME RestartInit PROVE LegsInv
  OBVIOUS
<1> DEFINE e == [stop |-> test.stop, rest |-> test.stop, cont |-> FALSE, pointer |-> None.time]
           d == [files |-> {}, last |-> None]
<1>1. /\ test \in Tests /\ i = 1 /\ j = 1 /\ tries = 0
      /\ leg = (IF test.kind \in {"IRT", "ERR", "ERP", "DAE"} THEN "setup" ELSE "idle")
      /\ runs = {} /\ pairs = {}
  BY DEF RestartInit
<1>2. env = [c \in 1..3 |-> e] /\ dir = [c \in 1..3 |-> d]
  BY Zenon DEF RestartInit
<1>3. test.stop \in Nat \ {0} /\ test.kind \in {"ERS", "ERIO", "ERI", "IRT", "ERR", "ERP", "DAE"}
  BY <1>1, TestParts
<1>4. EnvFits(test, e) /\ e.stop = test.stop
  <2> DEFINE p == None.time
  <2> HIDE DEF p
  <2>1. EnvFits(test, [stop |-> test.stop, rest |-> test.stop, cont |-> FALSE, pointer |-> p])
    BY <1>3 DEF EnvFits
  <2> QED BY <2>1 DEF p
<1>5. DirFits(d) /\ d.files = {}
  <2> HIDE DEF d
  <2>1. d = [files |-> {}, last |-> None]
    BY DEF d
  <2> QED BY <2>1 DEF DirFits
<1> HIDE DEF e, d
<1>6. /\ \A c \in 1..3 : env[c] = e /\ dir[c] = d
      /\ env = [c \in 1..3 |-> env[c]] /\ dir = [c \in 1..3 |-> dir[c]]
  BY <1>2
<1>7. env[1].stop = test.stop /\ dir[1].files = {}
  <2>1. 1 \in 1..3
    OBVIOUS
  <2> QED BY <1>4, <1>5, <1>6, <2>1
<1>8. Shapes
  BY <1>1, <1>4, <1>5, <1>6, MaxTriesAssumption DEF Shapes
<1>9. leg \in Waiting \cup LegsOf(test)
  BY <1>1, <1>3 DEF Waiting, LegsOf
<1>10. Common
  BY <1>1, <1>8, <1>9 DEF Common, OneEach
<1>11. ErsPlace /\ ErioPlace /\ EriPlace
  BY <1>1 DEF ErsPlace, ErioPlace, EriPlace
<1>12. PairedPlace /\ DaePlace
  BY <1>1, <1>7 DEF PairedPlace, DaePlace, Paired
<1> QED BY <1>10, <1>11, <1>12 DEF LegsInv

\* Every step keeps the invariant.
LEMMA StepKeeps ==
  ASSUME Restartable, LegsInv, [RestartNext]_legVars PROVE LegsInv'
<1>1. CASE UNCHANGED legVars
  <2>1. UNCHANGED <<test, leg, i, j, env, dir, arch, runs, pairs, tries>>
    BY <1>1 DEF legVars
  <2>2. Common'
    BY <2>1 DEF LegsInv, Common, Shapes, OneEach, Compared
  <2>3. Names' = Names /\ \A name, x, y : Ran(name, x, y)' = Ran(name, x, y)
    BY <2>1 DEF Names, Ran
  <2>4. ErsPlace' /\ ErioPlace' /\ EriPlace'
    BY <2>1, <2>3 DEF LegsInv, ErsPlace, ErioPlace, EriPlace
  <2>5. PairedReady' = PairedReady /\ DaeReady' = DaeReady
    BY <2>1 DEF PairedReady, DaeReady, AtMultiples
  <2>6. PairedPlace' /\ DaePlace'
    BY <2>1, <2>3, <2>5 DEF LegsInv, PairedPlace, DaePlace
  <2> QED BY <2>2, <2>4, <2>6 DEF LegsInv
<1>2. CASE CaseOne
  <2>1. test.kind \in Paired \/ test.kind = "DAE"
    BY <1>2 DEF CaseOne, At, Paired
  <2> QED BY <1>2, <2>1, CaseOneKeeps, CaseOneDaeKeeps
<1> QED
  BY <1>1, <1>2, SubmitKeeps, ErsFirstKeeps, ErsSecondKeeps, ErioFullKeeps,
       ErioRestartKeeps,
     EriRef1Keeps, EriHybridKeeps, EriBranchKeeps, EriRestKeeps,
     SetupCasesKeeps, SetupDaeKeeps, ResetDaeKeeps, CaseTwoKeeps, DaeCycleKeeps
  DEF RestartNext

-----------------------------------------------------------------------------
(* Results *)

\* A test that is in its place has not lost a restart.
LEMMA FoundInPlace ==
  ASSUME LegsInv PROVE FindsItsRestart
BY DEF LegsInv, Common, Waiting, LegsOf, FindsItsRestart

\* The runs of a submission have different names.
LEMMA RunNamed ==
  ASSUME OneEach, NEW a \in runs, NEW name, a.name = name PROVE RunOf(name) = a
BY DEF OneEach, RunOf

\* The comparisons that are justified end together and begin in the reference.
LEMMA InvInPlace ==
  ASSUME LegsInv PROVE RestartInv
<1>1. Common /\ Shapes /\ test \in Tests /\ OneEach
  BY DEF LegsInv, Common, Shapes
<1>2. LegTypes
  <2>1. leg \in {"setup", "idle", "first", "hybrid", "branch", "reset", "second", "ended", "failed", "short", "lost"}
    BY <1>1 DEF Common, Waiting, LegsOf
  <2>2. \A c \in 1..3 : env[c].stop \in 1..test.stop /\ env[c].rest \in 0..test.stop /\ env[c].cont \in BOOLEAN
    <3> TAKE c \in 1..3
    <3>1. EnvFits(test, env[c])
      BY <1>1 DEF Shapes
    <3> QED BY <3>1, EnvParts, Zenon
  <2>3. \A c \in 1..3 : dir[c].last = None \/ dir[c].last \in dir[c].files
    BY <1>1 DEF Shapes, DirFits
  <2>4. tries \in 0..MaxTries
    BY <1>1 DEF Shapes
  <2> QED BY <1>1, <2>1, <2>2, <2>3, <2>4, Zenon DEF LegTypes
<1>3. ASSUME NEW p \in pairs
      PROVE  /\ RunOf(p[1]).to = RunOf(p[2]).to
             /\ RunOf(p[1]).to = IF test.kind = "ERI" THEN Stop2 ELSE test.stop
             /\ RunOf(p[1]).from.at < RunOf(p[2]).from.at /\ RunOf(p[2]).from.at < RunOf(p[1]).to
             /\ RunOf(p[2]).from.try = tries /\ (RunOf(p[2]).from.by = p[1] \/ test.kind = "DAE")
  <2>1. PICK a \in runs, b \in runs :
          /\ a.name = p[1] /\ b.name = p[2] /\ a.to = Length(test) /\ b.to = Length(test)
          /\ a.from.at < b.from.at /\ b.from.at < Length(test)
          /\ b.from.try = tries /\ (b.from.by = p[1] \/ test.kind = "DAE")
    BY <1>1 DEF Common, Compared
  <2>2. RunOf(p[1]) = a /\ RunOf(p[2]) = b
    BY <1>1, <2>1, RunNamed
  <2>3. Length(test) = IF test.kind = "ERI" THEN Stop2 ELSE test.stop
    BY EriNames DEF Length
  <2> QED BY <2>1, <2>2, <2>3
<1>4. EndTogether /\ FromReference
  BY <1>3 DEF EndTogether, FromReference
<1> QED BY <1>2, <1>4 DEF RestartInv

\* Whatever test is run, killed and submitted again: before each leg of
\* SystemTests/*.py the restart this leg begins from is where the leg looks for
\* it, and the runs compared so far belong together.
THEOREM LegsInvHolds ==
  ASSUME Restartable PROVE RestartSpec => []LegsInv
<1>1. RestartInit => LegsInv
  BY InitKeeps
<1>2. LegsInv /\ [RestartNext]_legVars => LegsInv'
  BY StepKeeps
<1> QED BY <1>1, <1>2, PTL DEF RestartSpec

\* No leg begins without its restart: for every length of the tests and any
\* number of submissions, the restart a leg of ers.py, erio.py, eri.py, irt.py,
\* err.py, erp.py or dae.py names is the one an earlier leg has written.
THEOREM FindsItsRestartHolds ==
  ASSUME Restartable PROVE RestartSpec => []FindsItsRestart
<1>1. LegsInv => FindsItsRestart
  BY FoundInPlace
<1> QED BY <1>1, LegsInvHolds, PTL

\* The runs compared end at the same time, that of the length the test was
\* created with, and the later one begins within the other, from a restart the
\* other wrote in this submission: no value of env_run.xml and no file that a
\* killed submission leaves gets into a comparison.
THEOREM RestartInvHolds ==
  ASSUME Restartable PROVE RestartSpec => []RestartInv
<1>1. LegsInv => RestartInv
  BY InvInPlace
<1> QED BY <1>1, LegsInvHolds, PTL
=============================================================================
