---------------------------- MODULE CaseChainProofs ----------------------------
(***************************************************************************)
(* The jobs of a case implement the chain of runs and add up to what the   *)
(* user asked for, for any RESUBMIT, any number of edits and of retries,   *)
(* with a batch system that starts a job after the success of those it     *)
(* depends on.  IInv is about the order of the jobs and what each has      *)
(* read; CountInv, on top of it, counts sequences, segments and grants.    *)
(***************************************************************************)
EXTENDS CaseChain, SequenceTheorems, FiniteSetTheorems, TLAPS

JobRecords == [kind : {"run", "archive"}, deps : SUBSET Nat, setCont : BOOLEAN, resub : BOOLEAN,
               pc : {"queued"} \cup Active \cup Ended, mem : Files \cup {None}, from : Nat, tries : Nat]

Types == file \in Files /\ sub \in Nat \cup {None} /\ reached \in Nat /\ jobs \in Seq(JobRecords)

(***************************************************************************)
(* The inductive invariant                                                 *)
(***************************************************************************)
Done(j) == \A i \in 1..(j - 1) : jobs[i].pc = "done"

\* A job that is past the queue has only successful jobs before it
InTurn == \A j \in DOMAIN jobs : jobs[j].pc # "queued" => Done(j)

\* A job waits for the one before it, or nothing before it is left to end
Waits == \A j \in DOMAIN jobs : j > 1 => j - 1 \in jobs[j].deps \/ Done(j)

\* The jobs that resubmit are the last sequence, and an archiver is there
\* exactly under DOUT_S
LastSequence ==
  \A j \in DOMAIN jobs : jobs[j].resub /\ jobs[j].pc # "done" =>
    \/ j = Len(jobs)
    \/ j + 1 = Len(jobs) /\ jobs[j].kind = "run" /\ jobs[j + 1].kind = "archive" /\ file.douts

\* An archiver follows the run of its sequence
AfterRun ==
  \A j \in DOMAIN jobs : jobs[j].kind = "archive" =>
    j > 1 /\ jobs[j - 1].kind = "run" /\ jobs[j - 1].resub = jobs[j].resub

\* What a job has read of env_run.xml is the file as it was: CONTINUE_RUN and
\* DOUT_S are never taken back
Copy(mem) ==
  /\ mem.douts = file.douts /\ (mem.cont => file.cont) /\ mem.version <= file.version
  /\ mem.version = file.version => mem = file
Copies ==
  \A j \in DOMAIN jobs :
    /\ jobs[j].setCont = ~jobs[j].resub
    /\ jobs[j].pc # "queued" => jobs[j].mem # None
    /\ jobs[j].mem # None => Copy(jobs[j].mem)

\* Once something has been simulated no run may start before CONTINUE_RUN is set
Continued ==
  reached = 0 \/ file.cont \/
    \A j \in DOMAIN jobs : jobs[j].kind = "run" /\ jobs[j].pc = "queued" => ~Done(j)

\* What a job that is past the queue has done by then
Running ==
  \A j \in DOMAIN jobs :
    /\ jobs[j].pc = "model" => jobs[j].from = reached /\ (file.cont \/ reached = 0)
    /\ jobs[j].pc \in {"model", "post"} => jobs[j].kind = "run"
    /\ jobs[j].pc = "archiving" => jobs[j].kind = "archive"
    /\ jobs[j].pc = "resubmitting" => file.cont /\ j = Len(jobs)
    /\ jobs[j].kind = "run" /\ jobs[j].setCont /\ jobs[j].pc = "done" => file.cont

IInv == /\ Types /\ InTurn /\ Waits /\ LastSequence /\ AfterRun /\ Copies /\ Continued /\ Running
        /\ jobs = <<>> => reached = 0

LEMMA InitIInv == ASSUME Init PROVE IInv
<1>1. Types
  <2>1. file \in Files
    <3> PICK f \in [resubmit : 0..MaxResubmit, cont : {FALSE}, douts : BOOLEAN, version : {0}] : file = f
      BY DEF Init
    <3> f.cont \in {FALSE}
      OBVIOUS
    <3> f.cont \in BOOLEAN
      BY Zenon
    <3> f.version \in Nat /\ f.douts \in BOOLEAN /\ f.resubmit \in 0..MaxResubmit
      OBVIOUS
    <3> f = [resubmit |-> f.resubmit, cont |-> f.cont, douts |-> f.douts, version |-> f.version]
      OBVIOUS
    <3> QED BY DEF Files
  <2>2. jobs \in Seq(JobRecords) /\ sub \in Nat \cup {None} /\ reached \in Nat
    BY DEF Init
  <2> QED BY <2>1, <2>2 DEF Types
<1>2. jobs = <<>> /\ reached = 0
  BY DEF Init
<1>3. DOMAIN jobs = {}
  BY <1>2
<1> QED BY <1>1, <1>2, <1>3 DEF IInv, InTurn, Waits, LastSequence, AfterRun, Copies,
     Continued, Running

(***************************************************************************)
(* Steps of one job                                                        *)
(***************************************************************************)
\* Only job j changes, and not what it was submitted with
Only(j) ==
  /\ Len(jobs') = Len(jobs) /\ DOMAIN jobs' = DOMAIN jobs /\ DOMAIN jobs = 1..Len(jobs)
  /\ \A k \in DOMAIN jobs : k # j => jobs'[k] = jobs[k]
  /\ jobs'[j].kind = jobs[j].kind /\ jobs'[j].deps = jobs[j].deps
  /\ jobs'[j].setCont = jobs[j].setCont /\ jobs'[j].resub = jobs[j].resub

\* The file is the same, or a later version in which nothing is taken back
Grows ==
  /\ file'.douts = file.douts /\ (file.cont => file'.cont)
  /\ file'.version >= file.version /\ (file'.version = file.version => file' = file)

LEMMA OneJob ==
  ASSUME jobs \in Seq(JobRecords), NEW j \in DOMAIN jobs, NEW new \in JobRecords,
         jobs' = [jobs EXCEPT ![j] = new],
         new.kind = jobs[j].kind, new.deps = jobs[j].deps, new.setCont = jobs[j].setCont,
         new.resub = jobs[j].resub
  PROVE  Only(j) /\ jobs' \in Seq(JobRecords) /\ jobs' # <<>> /\ jobs'[j] = new
<1>1. DOMAIN jobs = 1..Len(jobs) /\ Len(jobs) \in Nat
  OBVIOUS
<1>2. jobs' \in Seq(JobRecords) /\ Len(jobs') = Len(jobs) /\ DOMAIN jobs' = DOMAIN jobs
  OBVIOUS
<1>3. jobs'[j] = new /\ \A k \in DOMAIN jobs : k # j => jobs'[k] = jobs[k]
  OBVIOUS
<1>4. jobs' # <<>>
  BY <1>1, <1>2
<1> QED BY <1>1, <1>2, <1>3, <1>4 DEF Only

RunningAt(j) ==
  /\ jobs[j].pc = "model" => jobs[j].from = reached /\ (file.cont \/ reached = 0)
  /\ jobs[j].pc \in {"model", "post"} => jobs[j].kind = "run"
  /\ jobs[j].pc = "archiving" => jobs[j].kind = "archive"
  /\ jobs[j].pc = "resubmitting" => file.cont /\ j = Len(jobs)
  /\ jobs[j].kind = "run" /\ jobs[j].setCont /\ jobs[j].pc = "done" => file.cont

\* No run of the simulation may start too early after job j
Follows(j) ==
  jobs[j].pc = "done" =>
    file.cont \/ reached = 0 \/ \A k \in DOMAIN jobs : k > j => jobs[k].kind = "archive"

\* The jobs before one that works have succeeded, those after it are queued
LEMMA OthersRest ==
  ASSUME IInv, NEW j \in DOMAIN jobs, Done(j), jobs[j].pc # "done"
  PROVE  /\ \A k \in DOMAIN jobs : k < j => jobs[k].pc = "done"
         /\ \A k \in DOMAIN jobs : k > j => jobs[k].pc = "queued"
  BY DEF IInv, Types, InTurn, Done

\* What holds of all the jobs after a step of one of them, from what holds of
\* that one
LEMMA StepKeeps ==
  ASSUME IInv, NEW j \in DOMAIN jobs, Only(j), Types', Grows, jobs' # <<>>,
         Done(j), jobs[j].pc # "done", jobs'[j].pc # "queued",
         jobs'[j].mem # None, Copy(jobs[j].mem)', RunningAt(j)', Follows(j)'
  PROVE  IInv'
<1>0. DOMAIN jobs = 1..Len(jobs) /\ Len(jobs) \in Nat
  BY DEF IInv, Types
<1>1. /\ \A k \in DOMAIN jobs : k < j => jobs'[k] = jobs[k] /\ jobs[k].pc = "done"
      /\ \A k \in DOMAIN jobs : k > j => jobs'[k] = jobs[k] /\ jobs[k].pc = "queued"
  BY <1>0, OthersRest DEF Only
<1>2. DOMAIN jobs' = DOMAIN jobs /\ Len(jobs') = Len(jobs)
  BY DEF Only
<1>3. InTurn'
  BY <1>0, <1>1, <1>2 DEF InTurn, Done
<1>4. Waits'
  <2> SUFFICES ASSUME NEW k \in DOMAIN jobs, k > 1, k - 1 \notin jobs'[k].deps
               PROVE  \A i \in 1..(k - 1) : jobs'[i].pc = "done"
    BY <1>2 DEF Waits, Done
  <2>1. Done(k)
    BY DEF IInv, Waits, Only
  <2> QED BY <1>0, <1>1, <2>1 DEF Done
<1>5. LastSequence'
  <2> SUFFICES ASSUME NEW k \in DOMAIN jobs, jobs'[k].resub, jobs'[k].pc # "done"
               PROVE  \/ k = Len(jobs)
                      \/ k + 1 = Len(jobs) /\ jobs'[k].kind = "run" /\ jobs'[k + 1].kind = "archive" /\ file.douts
    BY <1>2 DEF LastSequence, Grows
  <2>1. jobs[k].resub /\ jobs[k].pc # "done"
    BY DEF Only
  <2>2. k + 1 = Len(jobs) => k + 1 \in DOMAIN jobs /\ jobs'[k + 1].kind = jobs[k + 1].kind
    BY <1>0 DEF Only
  <2>3. jobs'[k].kind = jobs[k].kind
    BY DEF Only
  <2> QED BY <2>1, <2>2, <2>3 DEF IInv, LastSequence
<1>6. AfterRun'
  <2> SUFFICES ASSUME NEW k \in DOMAIN jobs, jobs'[k].kind = "archive"
               PROVE  k > 1 /\ jobs'[k - 1].kind = "run" /\ jobs'[k - 1].resub = jobs'[k].resub
    BY <1>2 DEF AfterRun
  <2>1. jobs[k].kind = "archive" /\ jobs[k].resub = jobs'[k].resub
    BY DEF Only
  <2>2. k > 1 /\ jobs[k - 1].kind = "run" /\ jobs[k - 1].resub = jobs[k].resub
    BY <2>1 DEF IInv, AfterRun
  <2>3. k - 1 \in DOMAIN jobs
    BY <1>0, <2>2
  <2> QED BY <2>1, <2>2, <2>3 DEF Only
<1>7. ASSUME NEW k \in DOMAIN jobs, k # j, jobs[k].mem # None PROVE Copy(jobs[k].mem)'
  <2>1. jobs'[k] = jobs[k] /\ Copy(jobs[k].mem)
    BY <1>7 DEF IInv, Copies, Only
  <2>2. jobs[k].mem \in Files
    <3>1. jobs[k] \in JobRecords
      BY DEF IInv, Types
    <3> QED BY <1>7, <3>1 DEF JobRecords
  <2>3. jobs[k].mem.version \in Nat /\ file.version \in Nat /\ file'.version \in Nat
    BY <2>2 DEF IInv, Types, Files
  <2> QED BY <2>1, <2>3 DEF Copy, Grows
<1>8. Copies'
  <2> SUFFICES ASSUME NEW k \in DOMAIN jobs
               PROVE  /\ jobs'[k].setCont = ~jobs'[k].resub
                      /\ jobs'[k].pc # "queued" => jobs'[k].mem # None
                      /\ jobs'[k].mem # None => Copy(jobs[k].mem)'
    BY <1>2 DEF Copies
  <2>1. jobs'[k].setCont = jobs[k].setCont /\ jobs'[k].resub = jobs[k].resub
    BY DEF Only
  <2>2. jobs'[k].setCont = ~jobs'[k].resub
    BY <2>1 DEF IInv, Copies
  <2>3. jobs'[k].pc # "queued" => jobs'[k].mem # None
    BY DEF IInv, Copies, Only
  <2>4. jobs'[k].mem # None => Copy(jobs[k].mem)'
    BY <1>7 DEF Only
  <2> QED BY <2>2, <2>3, <2>4
<1>9. Continued'
  <2>1. CASE jobs'[j].pc = "done"
    BY <1>0, <1>1, <1>2, <2>1 DEF Follows, Continued
  <2>2. CASE jobs'[j].pc # "done"
    <3> SUFFICES ASSUME NEW k \in DOMAIN jobs, jobs'[k].pc = "queued"
                 PROVE  \E i \in 1..(k - 1) : jobs'[i].pc # "done"
      BY <1>2 DEF Continued, Done
    <3>1. k > j
      BY <1>0, <1>1
    <3> QED BY <1>0, <2>2, <3>1
  <2> QED BY <2>1, <2>2
<1>10. Running'
  <2> SUFFICES ASSUME NEW k \in DOMAIN jobs PROVE RunningAt(k)'
    BY <1>2 DEF Running, RunningAt
  <2>1. CASE k = j
    BY <2>1
  <2>2. CASE k # j
    <3>1. jobs'[k] = jobs[k] /\ jobs[k].pc \in {"done", "queued"}
      BY <1>0, <1>1, <2>2
    <3> QED BY <3>1 DEF IInv, Running, RunningAt, Grows
  <2> QED BY <2>1, <2>2
<1> QED BY <1>3, <1>4, <1>5, <1>6, <1>8, <1>9, <1>10 DEF IInv

LEMMA StartKeeps ==
  ASSUME IInv, Batch, ~AllowFail, NEW j \in DOMAIN jobs, Start(j)
  PROVE  IInv' /\ Only(j) /\ Done(j) /\ Grows
<1>0. jobs[j] \in JobRecords /\ file \in Files /\ jobs \in Seq(JobRecords) /\ reached \in Nat
  BY DEF IInv, Types
<1> DEFINE new == [jobs[j] EXCEPT !.mem = file,
                                  !.pc = IF jobs[j].kind = "run" THEN "model" ELSE "archiving",
                                  !.from = IF jobs[j].kind = "run" THEN Origin(file) ELSE 0]
<1>1. /\ new \in JobRecords
      /\ new.kind = jobs[j].kind /\ new.deps = jobs[j].deps /\ new.setCont = jobs[j].setCont
      /\ new.resub = jobs[j].resub /\ new.mem = file
      /\ new.pc = IF jobs[j].kind = "run" THEN "model" ELSE "archiving"
      /\ new.from = IF jobs[j].kind = "run" THEN Origin(file) ELSE 0
  BY <1>0 DEF Active, Origin, JobRecords
<1>2. jobs' = [jobs EXCEPT ![j] = new]
  BY <1>0 DEF Start, JobRecords
<1> HIDE DEF new
<1>3. Only(j) /\ jobs' \in Seq(JobRecords) /\ jobs' # <<>> /\ jobs'[j] = new
  BY <1>0, <1>1, <1>2, OneJob
<1>4. Done(j)
  <2>1. CASE j = 1
    BY <2>1 DEF Done
  <2>2. CASE j > 1 /\ ~Done(j)
    <3>1. j - 1 \in jobs[j].deps /\ j - 1 \in DOMAIN jobs
      BY <1>0, <2>2 DEF IInv, Waits
    <3>2. jobs[j - 1].pc = "done"
      BY <3>1 DEF Start, Ready
    <3>3. Done(j - 1)
      BY <3>1, <3>2 DEF IInv, InTurn
    <3> QED BY <1>0, <3>2, <3>3 DEF Done
  <2> QED BY <1>0, <2>1, <2>2
<1>5. Types' /\ Grows
  BY <1>0, <1>3 DEF IInv, Types, Start, Grows, Files
<1>6. jobs'[j].mem # None /\ Copy(jobs[j].mem)'
  BY <1>0, <1>1, <1>3, NoneAssumption DEF Copy, Files, Start
<1>7. jobs[j].pc # "done" /\ jobs'[j].pc # "queued" /\ Follows(j)'
  BY <1>1, <1>3 DEF Start, Follows
<1>8. RunningAt(j)'
  <2>1. jobs[j].kind = "run" => reached = 0 \/ file.cont
    BY <1>4 DEF IInv, Continued, Start
  <2>2. jobs'[j].kind = jobs[j].kind /\ jobs[j].kind \in {"run", "archive"}
    BY <1>0, <1>3 DEF Only, JobRecords
  <2>3. reached' = reached /\ file' = file
    BY DEF Start
  <2> QED BY <1>1, <1>3, <2>1, <2>2, <2>3 DEF RunningAt, Origin
<1> QED BY <1>3, <1>4, <1>5, <1>6, <1>7, <1>8, StepKeeps

\* A job past the queue has a copy of the file and successful jobs before it
LEMMA Working ==
  ASSUME IInv, NEW j \in DOMAIN jobs, jobs[j].pc # "queued"
  PROVE  /\ jobs[j] \in JobRecords /\ jobs \in Seq(JobRecords) /\ Done(j)
         /\ jobs[j].mem \in Files /\ jobs[j].mem # None /\ Copy(jobs[j].mem)
         /\ file \in Files /\ reached \in Nat
<1>1. jobs[j] \in JobRecords /\ jobs \in Seq(JobRecords) /\ file \in Files /\ reached \in Nat
  BY DEF IInv, Types
<1>2. Done(j)
  BY DEF IInv, InTurn
<1>3. jobs[j].mem # None /\ Copy(jobs[j].mem)
  BY DEF IInv, Copies
<1>4. jobs[j].mem \in Files
  BY <1>1, <1>3 DEF JobRecords
<1> QED BY <1>1, <1>2, <1>3, <1>4

LEMMA Moved ==
  ASSUME IInv, NEW j \in DOMAIN jobs, NEW to \in Active \cup Ended, Move(j, to)
  PROVE  /\ Only(j) /\ jobs' \in Seq(JobRecords) /\ jobs' # <<>>
         /\ jobs'[j].pc = to /\ jobs'[j].mem = jobs[j].mem /\ jobs'[j].from = jobs[j].from
<1>0. jobs[j] \in JobRecords /\ jobs \in Seq(JobRecords)
  BY DEF IInv, Types
<1> DEFINE new == [jobs[j] EXCEPT !.pc = to]
<1>1. /\ new \in JobRecords
      /\ new.kind = jobs[j].kind /\ new.deps = jobs[j].deps /\ new.setCont = jobs[j].setCont
      /\ new.resub = jobs[j].resub /\ new.mem = jobs[j].mem /\ new.pc = to /\ new.from = jobs[j].from
  BY <1>0 DEF JobRecords
<1>2. jobs' = [jobs EXCEPT ![j] = new]
  BY <1>0 DEF Move, JobRecords
<1> HIDE DEF new
<1>3. Only(j) /\ jobs' \in Seq(JobRecords) /\ jobs' # <<>> /\ jobs'[j] = new
  BY <1>0, <1>1, <1>2, OneJob
<1> QED BY <1>1, <1>3

\* A write that passes the check of the version is a write over what was read
LEMMA Written ==
  ASSUME IInv, NEW mem \in Files, Copy(mem), NEW new \in Files, Write(mem, new),
         new.douts = mem.douts, mem.cont => new.cont
  PROVE  /\ mem = file /\ file' \in Files /\ Grows /\ (new.cont => file'.cont)
         /\ file'.douts = mem.douts /\ (mem.cont => file'.cont) /\ mem.version < file'.version
         /\ file'.resubmit = new.resubmit
<1>1. mem = file
  BY DEF Write, Copy
<1>2. file' = [new EXCEPT !.version = file.version + 1]
  BY DEF Write
<1>3. file \in Files /\ file.version \in Nat
  BY DEF IInv, Types, Files
<1>4. file' \in Files /\ file'.version = file.version + 1 /\ file'.douts = new.douts
  BY <1>2, <1>3 DEF Files
<1>5. file'.cont = new.cont /\ file'.resubmit = new.resubmit
  BY <1>2 DEF Files
<1>6. Grows
  BY <1>1, <1>3, <1>4, <1>5 DEF Grows
<1> QED BY <1>1, <1>3, <1>4, <1>5, <1>6

LEMMA ModelEndsKeeps ==
  ASSUME IInv, NEW j \in DOMAIN jobs, ModelEnds(j) PROVE IInv' /\ Only(j) /\ Done(j) /\ Grows
<1>0. /\ jobs[j] \in JobRecords /\ jobs \in Seq(JobRecords) /\ Done(j) /\ file \in Files
      /\ jobs[j].pc = "model"
  BY Working DEF ModelEnds
<1> DEFINE new == [jobs[j] EXCEPT !.pc = "post", !.mem = file]
<1>1. /\ new \in JobRecords
      /\ new.kind = jobs[j].kind /\ new.deps = jobs[j].deps /\ new.setCont = jobs[j].setCont
      /\ new.resub = jobs[j].resub /\ new.mem = file /\ new.pc = "post"
  BY <1>0 DEF Active, JobRecords
<1>2. jobs' = [jobs EXCEPT ![j] = new]
  BY <1>0 DEF ModelEnds, JobRecords
<1> HIDE DEF new
<1>3. Only(j) /\ jobs' \in Seq(JobRecords) /\ jobs' # <<>> /\ jobs'[j] = new
  BY <1>0, <1>1, <1>2, OneJob
<1>4. reached' \in Nat
  BY <1>0 DEF ModelEnds, JobRecords
<1>5. Types' /\ Grows
  BY <1>0, <1>3, <1>4 DEF IInv, Types, ModelEnds, Grows, Files
<1>6. jobs'[j].mem # None /\ Copy(jobs[j].mem)'
  BY <1>0, <1>1, <1>3, NoneAssumption DEF Copy, Files, ModelEnds
<1>7. Follows(j)' /\ RunningAt(j)'
  BY <1>0, <1>1, <1>3 DEF Follows, RunningAt, IInv, Running, Only
<1> QED BY <1>0, <1>1, <1>3, <1>5, <1>6, <1>7, StepKeeps

LEMMA ModelRetriedKeeps ==
  ASSUME IInv, NEW j \in DOMAIN jobs, NEW node \in BOOLEAN, ModelRetried(j, node)
  PROVE  /\ IInv' /\ Only(j) /\ Done(j) /\ Grows
         /\ jobs'[j].pc = "model" /\ jobs'[j].from = jobs[j].from
<1>0. /\ jobs[j] \in JobRecords /\ jobs \in Seq(JobRecords) /\ Done(j) /\ file \in Files
      /\ jobs[j].pc = "model" /\ jobs[j].kind = "run" /\ reached \in Nat
      /\ jobs[j].from = reached /\ (file.cont \/ reached = 0)
  BY Working DEF ModelRetried, IInv, Running
<1>1. file' \in Files /\ Grows
  <2>1. CASE UNCHANGED file
    BY <1>0, <2>1 DEF Grows, Files
  <2>2. CASE Write(file, [file EXCEPT !.cont = TRUE])
    <3>1. [file EXCEPT !.cont = TRUE] \in Files
      BY <1>0 DEF Files
    <3>2. [file EXCEPT !.cont = TRUE].douts = file.douts /\ [file EXCEPT !.cont = TRUE].cont
      BY <1>0 DEF Files
    <3>3. Copy(file)
      BY <1>0 DEF Copy, Files
    <3> QED BY <1>0, <2>2, <3>1, <3>2, <3>3, Written
  <2> QED BY <2>1, <2>2 DEF ModelRetried
<1>2. Origin(file') = reached
  BY <1>0, <1>1 DEF Origin, Grows
<1> DEFINE left == jobs[j].tries - 1
<1>3. left \in Nat
  BY <1>0 DEF ModelRetried, JobRecords
<1> DEFINE new == [jobs[j] EXCEPT !.mem = file', !.from = Origin(file'), !.tries = left]
<1>4. /\ new \in JobRecords
      /\ new.kind = jobs[j].kind /\ new.deps = jobs[j].deps /\ new.setCont = jobs[j].setCont
      /\ new.resub = jobs[j].resub /\ new.mem = file' /\ new.pc = "model" /\ new.from = reached
  <2> HIDE DEF left
  <2> QED BY <1>0, <1>1, <1>2, <1>3 DEF JobRecords
<1>5. jobs' = [jobs EXCEPT ![j] = new]
  <2>1. jobs' = [jobs EXCEPT ![j].mem = file', ![j].from = Origin(file'), ![j].tries = @ - 1]
    BY DEF ModelRetried
  <2> QED BY <1>0, <2>1 DEF JobRecords
<1> HIDE DEF new
<1>6. Only(j) /\ jobs' \in Seq(JobRecords) /\ jobs' # <<>> /\ jobs'[j] = new
  BY <1>0, <1>4, <1>5, OneJob
<1>7. Types' /\ reached' = reached
  BY <1>1, <1>6 DEF IInv, Types, ModelRetried
<1>8. jobs'[j].mem # None /\ Copy(jobs[j].mem)'
  BY <1>1, <1>4, <1>6, NoneAssumption DEF Copy, Files
<1>9. Follows(j)' /\ RunningAt(j)'
  BY <1>0, <1>1, <1>4, <1>6, <1>7 DEF Follows, RunningAt, Only, Grows
<1> QED BY <1>0, <1>1, <1>4, <1>6, <1>7, <1>8, <1>9, StepKeeps

LEMMA JobFailsKeeps ==
  ASSUME IInv, NEW j \in DOMAIN jobs, JobFails(j) PROVE IInv' /\ Only(j) /\ Done(j) /\ Grows
<1>0. jobs[j].pc \in Active
  BY DEF JobFails
<1>1. Done(j) /\ jobs[j].mem \in Files /\ jobs[j].mem # None /\ Copy(jobs[j].mem)
  BY <1>0, Working DEF Active
<1>2. /\ Only(j) /\ jobs' \in Seq(JobRecords) /\ jobs' # <<>>
      /\ jobs'[j].pc = "failed" /\ jobs'[j].mem = jobs[j].mem
  BY Moved DEF JobFails, Ended
<1>3. Types' /\ Grows
  BY <1>2 DEF IInv, Types, JobFails, Grows, Files
<1>4. Copy(jobs[j].mem)'
  BY <1>1, <1>2 DEF Copy, JobFails
<1>5. Follows(j)' /\ RunningAt(j)'
  BY <1>2 DEF Follows, RunningAt
<1> QED BY <1>0, <1>1, <1>2, <1>3, <1>4, <1>5, StepKeeps DEF Active

\* Nothing but an archiver comes after a job that may resubmit
LEMMA LastToResubmit ==
  ASSUME IInv, NEW j \in DOMAIN jobs, jobs[j].resub, jobs[j].pc # "done"
  PROVE  /\ \A k \in DOMAIN jobs : k > j => jobs[k].kind = "archive"
         /\ jobs[j].kind = "archive" \/ ~file.douts => j = Len(jobs)
<1>1. DOMAIN jobs = 1..Len(jobs) /\ Len(jobs) \in Nat
  BY DEF IInv, Types
<1>2. \/ j = Len(jobs)
      \/ j + 1 = Len(jobs) /\ jobs[j].kind = "run" /\ jobs[j + 1].kind = "archive" /\ file.douts
  BY DEF IInv, LastSequence
<1>3. \A k \in DOMAIN jobs : k > j => j + 1 = Len(jobs) /\ k = j + 1
  BY <1>1, <1>2
<1> QED BY <1>2, <1>3

LEMMA ResubmitValuesFile ==
  ASSUME NEW mem \in Files, mem.resubmit > 0
  PROVE  /\ ResubmitValues(mem) \in Files /\ ResubmitValues(mem).cont
         /\ ResubmitValues(mem).douts = mem.douts /\ ResubmitValues(mem).resubmit = mem.resubmit - 1
<1>1. mem.resubmit - 1 \in 0..MaxResubmit
  BY NumbersAssumption DEF Files
<1>2. ResubmitValues(mem).cont /\ ResubmitValues(mem).douts = mem.douts
  BY DEF ResubmitValues, Files
<1>3. /\ ResubmitValues(mem).resubmit = mem.resubmit - 1
      /\ ResubmitValues(mem).version = mem.version
  BY DEF ResubmitValues, Files
<1>5. mem.douts \in BOOLEAN /\ mem.version \in Nat
  BY DEF Files
<1>6. ResubmitValues(mem) \in Files
  BY <1>1, <1>5 DEF ResubmitValues, Files
<1> QED BY <1>2, <1>3, <1>6

LEMMA RunPostsKeeps ==
  ASSUME IInv, NEW j \in DOMAIN jobs, RunPosts(j) PROVE IInv' /\ Only(j) /\ Done(j) /\ Grows
<1> DEFINE mem == jobs[j].mem
           again == RunResubmits(jobs[j])
           new == IF again THEN ResubmitValues(mem)
                  ELSE IF jobs[j].setCont THEN [mem EXCEPT !.cont = TRUE] ELSE mem
<1>0. /\ jobs[j] \in JobRecords /\ jobs \in Seq(JobRecords) /\ Done(j) /\ file \in Files
      /\ mem \in Files /\ mem # None /\ Copy(mem) /\ jobs[j].pc = "post"
  BY Working DEF RunPosts
<1>1. jobs[j].kind = "run" /\ jobs[j].setCont = ~jobs[j].resub
  BY <1>0 DEF IInv, Running, Copies
<1>2. again => mem.resubmit > 0 /\ jobs[j].resub /\ ~mem.douts
  BY DEF RunResubmits
<1>3. new \in Files /\ new.douts = mem.douts /\ (again \/ jobs[j].setCont \/ mem.cont => new.cont)
  <2>1. CASE again
    BY <1>0, <1>2, <2>1, ResubmitValuesFile
  <2>2. CASE ~again /\ jobs[j].setCont
    BY <1>0, <2>2 DEF Files
  <2>3. CASE ~again /\ ~jobs[j].setCont
    BY <1>0, <2>3
  <2> QED BY <2>1, <2>2, <2>3
<1>4. \E to \in Active \cup Ended :
        /\ Move(j, to) /\ UNCHANGED <<sub, reached>>
        /\ UNCHANGED file \/ Write(mem, new)
        /\ to = "done" => ~again /\ (new = mem \/ Write(mem, new))
        /\ to = "resubmitting" => again /\ Write(mem, new)
        /\ to \in {"done", "failed", "resubmitting"}
  <2>0. "done" \in Active \cup Ended /\ "failed" \in Active \cup Ended /\ "resubmitting" \in Active \cup Ended
    BY DEF Active, Ended
  <2>1. UNCHANGED <<sub, reached>>
    BY DEF RunPosts
  <2>2. new = mem => ~again
    BY <1>0, <1>2, ResubmitValuesFile DEF Files
  <2> HIDE DEF mem, again, new
  <2>3. CASE new = mem /\ Move(j, "done") /\ UNCHANGED file
    BY <2>0, <2>1, <2>2, <2>3
  <2>4. CASE Write(mem, new) /\ again /\ Move(j, "resubmitting")
    BY <2>0, <2>1, <2>4
  <2>5. CASE Write(mem, new) /\ ~again /\ Move(j, "done")
    BY <2>0, <2>1, <2>5
  <2>6. CASE Move(j, "failed") /\ UNCHANGED file
    BY <2>0, <2>1, <2>6
  <2>7. \/ new = mem /\ Move(j, "done") /\ UNCHANGED file
        \/ Write(mem, new) /\ Move(j, IF again THEN "resubmitting" ELSE "done")
        \/ Move(j, "failed") /\ UNCHANGED file
    BY DEF RunPosts, mem, again, new
  <2> QED BY <2>3, <2>4, <2>5, <2>6, <2>7
<1> HIDE DEF mem, again, new
<1>a. PICK to \in Active \cup Ended :
        /\ Move(j, to) /\ UNCHANGED <<sub, reached>>
        /\ UNCHANGED file \/ Write(mem, new)
        /\ to = "done" => ~again /\ (new = mem \/ Write(mem, new))
        /\ to = "resubmitting" => again /\ Write(mem, new)
        /\ to \in {"done", "failed", "resubmitting"}
  BY <1>4
<1>5. /\ Only(j) /\ jobs' \in Seq(JobRecords) /\ jobs' # <<>>
      /\ jobs'[j].pc = to /\ jobs'[j].mem = mem
  BY <1>a, Moved DEF mem
<1>6. file' \in Files /\ Grows /\ Copy(mem)' /\ (Write(mem, new) => (new.cont => file'.cont))
  <2>0. mem' = mem
    BY <1>5 DEF mem
  <2>1. CASE UNCHANGED file /\ ~Write(mem, new)
    <3>1. file' \in Files /\ Grows
      BY <1>0, <2>1 DEF Grows, Files
    <3>2. Copy(mem)'
      BY <1>0, <2>0, <2>1 DEF Copy
    <3> QED BY <2>1, <3>1, <3>2
  <2>2. CASE Write(mem, new)
    <3>1. /\ mem = file /\ file' \in Files /\ Grows /\ (new.cont => file'.cont)
          /\ file'.douts = mem.douts /\ (mem.cont => file'.cont) /\ mem.version < file'.version
      BY <1>0, <1>3, <2>2, Written
    <3>2. mem.version \in Nat /\ file'.version \in Nat /\ mem' = mem
      BY <1>0, <1>5, <3>1 DEF Files, mem
    <3> QED BY <3>1, <3>2 DEF Copy
  <2> QED BY <1>a, <2>1, <2>2
<1>7. Types'
  BY <1>a, <1>5, <1>6 DEF IInv, Types
<1>8. to = "done" /\ jobs[j].setCont => file'.cont
  BY <1>0, <1>3, <1>a, <1>6 DEF Copy, Grows
<1>9. Follows(j)'
  <2>1. CASE jobs[j].setCont
    BY <1>5, <1>8, <2>1 DEF Follows
  <2>2. CASE jobs[j].resub
    BY <1>0, <1>5, <2>2, LastToResubmit DEF Follows, Only
  <2> QED BY <1>0, <1>1, <2>1, <2>2 DEF JobRecords
<1>10. RunningAt(j)'
  <2>1. to = "resubmitting" => file'.cont /\ j = Len(jobs')
    BY <1>0, <1>2, <1>3, <1>a, <1>5, <1>6, LastToResubmit DEF Copy, Only
  <2> QED BY <1>5, <1>a, <1>8, <2>1 DEF RunningAt, Only
<1>11. Copy(jobs[j].mem)'
  BY <1>5, <1>6 DEF mem
<1> QED BY <1>0, <1>a, <1>5, <1>6, <1>7, <1>9, <1>10, <1>11, StepKeeps

\* The write of the next sequence is over the file as it was read
LEMMA NextWritten ==
  ASSUME IInv, NEW j \in DOMAIN jobs, jobs[j].mem \in Files, Copy(jobs[j].mem), jobs[j].mem.resubmit > 0,
         Write(jobs[j].mem, ResubmitValues(jobs[j].mem)), jobs'[j].mem = jobs[j].mem
  PROVE  file' \in Files /\ Grows /\ file'.cont /\ Copy(jobs[j].mem)'
<1>1. /\ ResubmitValues(jobs[j].mem) \in Files /\ ResubmitValues(jobs[j].mem).cont
      /\ ResubmitValues(jobs[j].mem).douts = jobs[j].mem.douts
  BY ResubmitValuesFile
<1>2. /\ file' \in Files /\ Grows /\ file'.cont
      /\ file'.douts = jobs[j].mem.douts /\ jobs[j].mem.version < file'.version
  BY <1>1, Written
<1>3. jobs[j].mem.version \in Nat /\ file'.version \in Nat
  BY <1>2 DEF Files
<1> QED BY <1>2, <1>3 DEF Copy

LEMMA ArchiveKeeps ==
  ASSUME IInv, Batch, NEW j \in DOMAIN jobs, Archive(j)
  PROVE  IInv' /\ Only(j) /\ Done(j) /\ Grows
<1>0. /\ jobs[j] \in JobRecords /\ jobs \in Seq(JobRecords) /\ Done(j) /\ file \in Files
      /\ jobs[j].mem \in Files /\ jobs[j].mem # None /\ Copy(jobs[j].mem) /\ jobs[j].pc = "archiving"
  BY Working DEF Archive
<1>1. jobs[j].kind = "archive" /\ jobs[j].setCont = ~jobs[j].resub
  BY <1>0 DEF IInv, Running, Copies
<1>2. UNCHANGED <<sub, reached>>
  BY DEF Archive
<1>3. ASSUME NEW to \in Active \cup Ended, Move(j, to)
      PROVE  /\ Only(j) /\ jobs' \in Seq(JobRecords) /\ jobs' # <<>>
             /\ jobs'[j].pc = to /\ jobs'[j].mem = jobs[j].mem
  BY <1>3, Moved
<1>4. ASSUME UNCHANGED file, NEW to \in {"done", "failed"}, Move(j, to)
      PROVE  IInv' /\ Only(j) /\ Grows
  <2>1. /\ Only(j) /\ jobs' \in Seq(JobRecords) /\ jobs' # <<>>
        /\ jobs'[j].pc = to /\ jobs'[j].mem = jobs[j].mem
    BY <1>3, <1>4 DEF Ended
  <2>2. Types' /\ Grows
    BY <1>0, <1>2, <1>4, <2>1 DEF IInv, Types, Grows, Files
  <2>3. Copy(jobs[j].mem)'
    BY <1>0, <1>4, <2>1 DEF Copy
  <2>4. file.cont \/ \A k \in DOMAIN jobs : k > j => jobs[k].kind = "archive"
    <3>1. CASE jobs[j].resub
      BY <1>0, <3>1, LastToResubmit
    <3>2. CASE ~jobs[j].resub
      <4>1. j > 1 /\ j - 1 \in DOMAIN jobs /\ jobs[j - 1].kind = "run" /\ ~jobs[j - 1].resub
        BY <1>0, <1>1, <3>2 DEF IInv, AfterRun
      <4>2. jobs[j - 1].setCont /\ jobs[j - 1].pc = "done"
        <5>1. jobs[j - 1].setCont = ~jobs[j - 1].resub
          BY <4>1 DEF IInv, Copies
        <5>2. j - 1 \in 1..(j - 1)
          BY <1>0, <4>1
        <5>3. jobs[j - 1].pc = "done"
          BY <1>0, <5>2 DEF Done
        <5> QED BY <4>1, <5>1, <5>3, Zenon
      <4> QED BY <4>1, <4>2 DEF IInv, Running
    <3> QED BY <3>1, <3>2
  <2>5. Follows(j)'
    BY <1>4, <2>1, <2>4 DEF Follows, Only
  <2>6. RunningAt(j)'
    BY <1>1, <2>1 DEF RunningAt, Only
  <2> QED BY <1>0, <2>1, <2>2, <2>3, <2>5, <2>6, StepKeeps
<1>5. ASSUME jobs[j].resub, jobs[j].mem.resubmit > 0, Move(j, "resubmitting"),
             Write(jobs[j].mem, ResubmitValues(jobs[j].mem))
      PROVE  IInv' /\ Only(j) /\ Grows
  <2>1. /\ Only(j) /\ jobs' \in Seq(JobRecords) /\ jobs' # <<>>
        /\ jobs'[j].pc = "resubmitting" /\ jobs'[j].mem = jobs[j].mem
    BY <1>3, <1>5 DEF Active
  <2>2. file' \in Files /\ Grows /\ file'.cont /\ Copy(jobs[j].mem)'
    BY <1>0, <1>5, <2>1, NextWritten
  <2>3. Types'
    BY <1>2, <2>1, <2>2 DEF IInv, Types
  <2>4. j = Len(jobs')
    BY <1>0, <1>1, <1>5, <2>1, LastToResubmit DEF Only
  <2>5. Follows(j)' /\ RunningAt(j)'
    BY <2>1, <2>2, <2>4 DEF Follows, RunningAt
  <2> QED BY <1>0, <2>1, <2>2, <2>3, <2>5, StepKeeps
<1>6. \/ UNCHANGED file /\ (Move(j, "done") \/ Move(j, "failed"))
      \/ /\ jobs[j].resub /\ jobs[j].mem.resubmit > 0 /\ Move(j, "resubmitting")
         /\ Write(jobs[j].mem, ResubmitValues(jobs[j].mem))
  BY DEF Archive
<1> QED BY <1>0, <1>4, <1>5, <1>6

(***************************************************************************)
(* What is submitted                                                       *)
(***************************************************************************)
\* n sequences of width jobs, each job after the one before it
AsSubmitted(new, n, width, immediate) ==
  /\ new \in Seq(JobRecords) /\ Len(new) = n * width
  /\ \A i \in 1..(n * width) :
       /\ new[i].pc = "queued" /\ new[i].mem = None /\ new[i].tries = Retries
       /\ new[i].setCont = immediate /\ new[i].resub = ~immediate
       /\ new[i].deps \subseteq 1..(Len(jobs) + i - 1)
       /\ i > 1 => Len(jobs) + i - 1 \in new[i].deps
       /\ new[i].kind = IF (i - 1) % width = 0 THEN "run" ELSE "archive"
       /\ new[i].kind = "archive" => i > 1 /\ new[i - 1].kind = "run"
       /\ i = 1 => new[i].kind = "run"
       /\ width = 2 /\ i = 2 => new[i].kind = "archive"

LEMMA Submissions ==
  ASSUME jobs \in Seq(JobRecords), NEW n \in Nat \ {0}, NEW width \in {1, 2}, NEW immediate \in BOOLEAN
  PROVE  AsSubmitted(Sequenced(n, width, immediate), n, width, immediate)
<1> DEFINE new == Sequenced(n, width, immediate)
           base(i) == Len(jobs) + ((i - 1) \div width) * width
           first(i) == (i - 1) % width = 0
<1>1. n * width \in Nat /\ Len(jobs) \in Nat
  OBVIOUS
<1>2. ASSUME NEW i \in 1..(n * width)
      PROVE  /\ base(i) \in Nat /\ first(i) \in BOOLEAN
             /\ first(i) => base(i) = Len(jobs) + i - 1
             /\ ~first(i) => base(i) = Len(jobs) + i - 2 /\ i > 1 /\ first(i - 1)
             /\ i = 1 => first(i)
             /\ width = 2 /\ i = 2 => ~first(i)
  <2>1. i - 1 \in Nat /\ i - 2 \in Int
    BY <1>1
  <2>2. CASE width = 1
    BY <1>1, <2>1, <2>2
  <2>3. CASE width = 2
    BY <1>1, <2>1, <2>3
  <2> QED BY <2>2, <2>3
<1> HIDE DEF base, first
<1>3. ASSUME NEW i \in 1..(n * width)
      PROVE  /\ Deps(first(i), base(i)) \in SUBSET Nat
             /\ Deps(first(i), base(i)) \subseteq 1..(Len(jobs) + i - 1)
             /\ i > 1 => Len(jobs) + i - 1 \in Deps(first(i), base(i))
  BY <1>1, <1>2, <1>3 DEF Deps
<1>4. new = [i \in 1..(n * width) |->
               [kind |-> IF first(i) THEN "run" ELSE "archive", deps |-> Deps(first(i), base(i)),
                setCont |-> immediate, resub |-> ~immediate,
                pc |-> "queued", mem |-> None, from |-> 0, tries |-> Retries]]
  BY DEF Sequenced, first, base
<1> HIDE DEF new
<1>5. ASSUME NEW i \in 1..(n * width)
      PROVE  /\ new[i].kind = IF first(i) THEN "run" ELSE "archive"
             /\ new[i].deps = Deps(first(i), base(i))
             /\ new[i].setCont = immediate /\ new[i].resub = ~immediate
             /\ new[i].pc = "queued" /\ new[i].mem = None /\ new[i].tries = Retries
             /\ new[i] \in JobRecords
  <2>1. new[i] = [kind |-> IF first(i) THEN "run" ELSE "archive", deps |-> Deps(first(i), base(i)),
                  setCont |-> immediate, resub |-> ~immediate,
                  pc |-> "queued", mem |-> None, from |-> 0, tries |-> Retries]
    BY <1>4
  <2>2. (~immediate) \in BOOLEAN
    OBVIOUS
  <2>3. (IF first(i) THEN "run" ELSE "archive") \in {"run", "archive"}
    BY Zenon
  <2> QED BY <1>3, <2>1, <2>2, <2>3, NumbersAssumption DEF JobRecords
<1>6. new \in Seq(JobRecords) /\ Len(new) = n * width
  BY <1>1, <1>4, <1>5
<1>7. ASSUME NEW i \in 1..(n * width), new[i].kind = "archive"
      PROVE  i > 1 /\ new[i - 1].kind = "run"
  <2>1. ~first(i)
    BY <1>5, <1>7
  <2>2. i > 1 /\ first(i - 1) /\ i - 1 \in 1..(n * width)
    BY <1>1, <1>2, <2>1
  <2> QED BY <1>5, <2>2
<1>8. ASSUME NEW i \in 1..(n * width)
      PROVE  (i = 1 => new[i].kind = "run") /\ (width = 2 /\ i = 2 => new[i].kind = "archive")
  BY <1>2, <1>5
<1>9. ASSUME NEW i \in 1..(n * width)
      PROVE  new[i].kind = IF (i - 1) % width = 0 THEN "run" ELSE "archive"
  BY <1>5 DEF first
<1> QED BY <1>3, <1>5, <1>6, <1>7, <1>8, <1>9 DEF AsSubmitted, new

Width(mem) == IF mem.douts THEN 2 ELSE 1

\* The jobs after a resubmission: those present, all of them done, then one
\* sequence
Resubmitted(new, j) ==
  /\ jobs' \in Seq(JobRecords) /\ Len(jobs') = Len(jobs) + Width(jobs[j].mem)
  /\ DOMAIN jobs' = 1..(Len(jobs) + Width(jobs[j].mem)) /\ Len(jobs) \in Nat
  /\ \A k \in 1..Len(jobs) :
       /\ jobs'[k].pc = "done" /\ jobs'[k].kind = jobs[k].kind /\ jobs'[k].resub = jobs[k].resub
       /\ jobs'[k].setCont = jobs[k].setCont /\ jobs'[k].mem = jobs[k].mem
       /\ jobs'[k].deps = jobs[k].deps /\ jobs'[k].tries = jobs[k].tries
  /\ \A k \in DOMAIN jobs' : k > Len(jobs) =>
       k - Len(jobs) \in 1..Width(jobs[j].mem) /\ jobs'[k] = new[k - Len(jobs)]
  /\ \A i \in 1..Width(jobs[j].mem) : jobs'[Len(jobs) + i] = new[i]
  /\ AsSubmitted(new, 1, Width(jobs[j].mem), FALSE)

LEMMA ResubmitShape ==
  ASSUME IInv, NEW j \in DOMAIN jobs, Resubmit(j)
  PROVE  \E new : Resubmitted(new, j)
<1>0. /\ jobs[j] \in JobRecords /\ jobs \in Seq(JobRecords) /\ Done(j) /\ file \in Files
      /\ jobs[j].mem \in Files /\ Copy(jobs[j].mem) /\ jobs[j].pc = "resubmitting"
  BY Working DEF Resubmit
<1>1. j = Len(jobs)
  BY <1>0 DEF IInv, Running
<1> DEFINE last == [jobs[j] EXCEPT !.pc = "done"]
           ended == [jobs EXCEPT ![j] = last]
           width == Width(jobs[j].mem)
           new == Sequenced(1, width, FALSE)
<1>a. /\ last \in JobRecords
      /\ last.pc = "done" /\ last.kind = jobs[j].kind /\ last.resub = jobs[j].resub
      /\ last.setCont = jobs[j].setCont /\ last.mem = jobs[j].mem
      /\ last.deps = jobs[j].deps /\ last.tries = jobs[j].tries
  BY <1>0 DEF JobRecords, Ended
<1>2. [jobs EXCEPT ![j].pc = "done"] = ended
  BY <1>0
<1> HIDE DEF last
<1>3. ended \in Seq(JobRecords) /\ Len(ended) = Len(jobs) /\ Len(jobs) \in Nat /\ DOMAIN jobs = 1..Len(jobs)
  BY <1>0, <1>a
<1>4. \A k \in 1..Len(jobs) :
        /\ ended[k].pc = "done" /\ ended[k].kind = jobs[k].kind /\ ended[k].resub = jobs[k].resub
        /\ ended[k].setCont = jobs[k].setCont /\ ended[k].mem = jobs[k].mem
        /\ ended[k].deps = jobs[k].deps /\ ended[k].tries = jobs[k].tries
  <2> SUFFICES ASSUME NEW k \in 1..Len(jobs)
               PROVE  /\ ended[k].pc = "done" /\ ended[k].kind = jobs[k].kind /\ ended[k].resub = jobs[k].resub
                      /\ ended[k].setCont = jobs[k].setCont /\ ended[k].mem = jobs[k].mem
                      /\ ended[k].deps = jobs[k].deps /\ ended[k].tries = jobs[k].tries
    OBVIOUS
  <2>1. CASE k = j
    BY <1>3, <1>a, <2>1
  <2>2. CASE k # j
    <3>1. ended[k] = jobs[k] /\ jobs[k].pc = "done"
      BY <1>0, <1>1, <1>3, <2>2 DEF Done
    <3> QED BY <3>1
  <2> QED BY <2>1, <2>2
<1>5. width \in {1, 2} /\ width \in Nat
  BY DEF Width
<1> HIDE DEF width, ended
<1>6. new \in Seq(JobRecords) /\ Len(new) = width /\ AsSubmitted(new, 1, width, FALSE)
  <2>1. 1 * width = width /\ 1 \in Nat \ {0}
    BY <1>5
  <2>2. AsSubmitted(new, 1, width, FALSE)
    BY <1>0, <1>5, <2>1, Submissions
  <2> QED BY <2>1, <2>2 DEF AsSubmitted
<1>7. jobs' = ended \o new
  BY <1>2 DEF Resubmit, Submitted, new, width, Width
<1> HIDE DEF new
<1>8. /\ jobs' \in Seq(JobRecords) /\ Len(jobs') = Len(jobs) + width
      /\ DOMAIN jobs' = 1..(Len(jobs) + width)
      /\ \A k \in 1..Len(jobs) : jobs'[k] = ended[k]
      /\ \A i \in 1..width : jobs'[Len(jobs) + i] = new[i]
  <2> DEFINE L == Len(jobs)
  <2>1. ended \in Seq(JobRecords) /\ new \in Seq(JobRecords) /\ Len(ended) = L /\ Len(new) = width
    BY <1>3, <1>6
  <2>2. L \in Nat /\ width \in Nat
    BY <1>3, <1>5
  <2> HIDE DEF L
  <2>3. /\ ended \o new \in Seq(JobRecords) /\ Len(ended \o new) = Len(ended) + Len(new)
        /\ \A i \in 1..(Len(ended) + Len(new)) :
             (ended \o new)[i] = IF i <= Len(ended) THEN ended[i] ELSE new[i - Len(ended)]
    BY <2>1, ConcatProperties
  <2>4. \A i \in 1..(L + width) : jobs'[i] = IF i <= L THEN ended[i] ELSE new[i - L]
    BY <1>7, <2>1, <2>3
  <2>5. ASSUME NEW i \in 1..width PROVE jobs'[L + i] = new[i]
    <3> DEFINE k == L + i
    <3>1. k \in 1..(L + width) /\ ~(k <= L) /\ k - L = i
      BY <2>2
    <3> HIDE DEF k
    <3>2. jobs'[k] = new[k - L]
      BY <2>4, <3>1
    <3>3. jobs'[k] = new[i]
      BY <3>1, <3>2
    <3> QED BY <3>3 DEF k
  <2>6. \A k \in 1..L : jobs'[k] = ended[k]
    BY <2>2, <2>4
  <2>7. jobs' \in Seq(JobRecords) /\ Len(jobs') = L + width
    BY <1>7, <2>1, <2>3
  <2> QED BY <2>2, <2>5, <2>6, <2>7 DEF L
<1>9. \A k \in DOMAIN jobs' : k > Len(jobs) => k - Len(jobs) \in 1..width /\ jobs'[k] = new[k - Len(jobs)]
  <2> SUFFICES ASSUME NEW k \in DOMAIN jobs', k > Len(jobs)
               PROVE  k - Len(jobs) \in 1..width /\ jobs'[k] = new[k - Len(jobs)]
    OBVIOUS
  <2> DEFINE L == Len(jobs)
  <2>0. k \in 1..(L + width) /\ L \in Nat /\ width \in Nat /\ k > L
    BY <1>3, <1>5, <1>8
  <2> HIDE DEF L
  <2>1. k - L \in 1..width /\ L + (k - L) = k
    BY <2>0
  <2> USE DEF L
  <2> QED BY <1>8, <2>1
<1>10. /\ jobs' \in Seq(JobRecords) /\ Len(jobs') = Len(jobs) + Width(jobs[j].mem)
       /\ DOMAIN jobs' = 1..(Len(jobs) + Width(jobs[j].mem)) /\ Len(jobs) \in Nat
       /\ \A i \in 1..Width(jobs[j].mem) : jobs'[Len(jobs) + i] = new[i]
       /\ AsSubmitted(new, 1, Width(jobs[j].mem), FALSE)
  BY <1>3, <1>6, <1>8 DEF width
<1>11. \A k \in 1..Len(jobs) :
         /\ jobs'[k].pc = "done" /\ jobs'[k].kind = jobs[k].kind /\ jobs'[k].resub = jobs[k].resub
         /\ jobs'[k].setCont = jobs[k].setCont /\ jobs'[k].mem = jobs[k].mem
         /\ jobs'[k].deps = jobs[k].deps /\ jobs'[k].tries = jobs[k].tries
  BY <1>4, <1>8
<1>12. \A k \in DOMAIN jobs' : k > Len(jobs) =>
         k - Len(jobs) \in 1..Width(jobs[j].mem) /\ jobs'[k] = new[k - Len(jobs)]
  BY <1>9 DEF width
<1>13. Resubmitted(new, j)
  BY <1>10, <1>11, <1>12 DEF Resubmitted
<1> QED BY <1>13

LEMMA ResubmitKeeps ==
  ASSUME IInv, NEW j \in DOMAIN jobs, Resubmit(j)
  PROVE  /\ IInv' /\ UNCHANGED reached
         /\ \A k \in DOMAIN jobs : jobs[k].pc # "model"
         /\ \A k \in DOMAIN jobs' : jobs'[k].pc # "model"
<1>0. /\ jobs[j] \in JobRecords /\ jobs \in Seq(JobRecords) /\ Done(j) /\ file \in Files
      /\ jobs[j].mem \in Files /\ Copy(jobs[j].mem) /\ jobs[j].pc = "resubmitting"
  BY Working DEF Resubmit
<1>1. file.cont /\ j = Len(jobs)
  BY <1>0 DEF IInv, Running
<1>2. UNCHANGED <<file, sub, reached>>
  BY DEF Resubmit
<1> DEFINE width == Width(jobs[j].mem)
<1>3. Len(jobs) \in Nat /\ DOMAIN jobs = 1..Len(jobs)
  BY <1>0
<1>4. PICK new : Resubmitted(new, j)
  BY ResubmitShape
<1>5. width \in {1, 2} /\ (width = 2 => file.douts) /\ width \in Nat
  BY <1>0 DEF Copy, Width
<1>6. \A i \in 1..width :
        /\ new[i].pc = "queued" /\ new[i].mem = None /\ ~new[i].setCont /\ new[i].resub
        /\ i > 1 => Len(jobs) + i - 1 \in new[i].deps
        /\ new[i].kind = "archive" => i > 1 /\ new[i - 1].kind = "run"
        /\ i = 1 => new[i].kind = "run"
        /\ width = 2 /\ i = 2 => new[i].kind = "archive"
  <2>1. 1 * width = width
    BY <1>5
  <2>2. AsSubmitted(new, 1, width, FALSE)
    BY <1>4 DEF Resubmitted
  <2> QED BY <2>1, <2>2 DEF AsSubmitted
<1>8. /\ jobs' \in Seq(JobRecords) /\ Len(jobs') = Len(jobs) + width
      /\ DOMAIN jobs' = 1..(Len(jobs) + width)
      /\ \A k \in 1..Len(jobs) :
           /\ jobs'[k].pc = "done" /\ jobs'[k].kind = jobs[k].kind /\ jobs'[k].resub = jobs[k].resub
           /\ jobs'[k].setCont = jobs[k].setCont /\ jobs'[k].mem = jobs[k].mem
      /\ \A i \in 1..width : jobs'[Len(jobs) + i] = new[i]
  BY <1>4 DEF Resubmitted
<1>9. \A k \in DOMAIN jobs' : k > Len(jobs) => k - Len(jobs) \in 1..width /\ jobs'[k] = new[k - Len(jobs)]
  BY <1>4 DEF Resubmitted
<1> HIDE DEF width
<1>10. \A k \in DOMAIN jobs' : k \in 1..Len(jobs) \/ k > Len(jobs)
  BY <1>3, <1>8
<1>11. Types' /\ jobs' # <<>>
  BY <1>2, <1>3, <1>5, <1>8 DEF IInv, Types
<1>12. \A k \in 1..Len(jobs) : jobs'[k].pc = "done"
  BY <1>8
<1>13. \A k \in DOMAIN jobs' : jobs'[k].pc # "queued" => k \in 1..Len(jobs)
  BY <1>6, <1>9, <1>10
<1>14. InTurn'
  BY <1>3, <1>12, <1>13 DEF InTurn, Done
<1>15. Waits'
  <2> SUFFICES ASSUME NEW k \in DOMAIN jobs', k > 1
               PROVE  k - 1 \in jobs'[k].deps \/ \A i \in 1..(k - 1) : jobs'[i].pc = "done"
    BY DEF Waits, Done
  <2>1. CASE k \in 1..Len(jobs) \/ k = Len(jobs) + 1
    BY <1>3, <1>12, <2>1
  <2>2. CASE k > Len(jobs) + 1
    <3> DEFINE i == k - Len(jobs)
    <3>1. i \in 1..width /\ jobs'[k] = new[i] /\ i > 1 /\ Len(jobs) + i - 1 = k - 1
      BY <1>3, <1>5, <1>8, <1>9, <2>2
    <3> HIDE DEF i
    <3>2. Len(jobs) + i - 1 \in new[i].deps
      BY <1>6, <3>1
    <3> QED BY <3>1, <3>2
  <2>3. k \in 1..(Len(jobs) + width)
    BY <1>8
  <2>4. k \in 1..Len(jobs) \/ k = Len(jobs) + 1 \/ k > Len(jobs) + 1
    BY <1>3, <1>5, <2>3
  <2> QED BY <2>1, <2>2, <2>4
<1>16. LastSequence'
  <2> SUFFICES ASSUME NEW k \in DOMAIN jobs', jobs'[k].pc # "done"
               PROVE  \/ k = Len(jobs')
                      \/ k + 1 = Len(jobs') /\ jobs'[k].kind = "run" /\ jobs'[k + 1].kind = "archive" /\ file'.douts
    BY DEF LastSequence
  <2>1. k > Len(jobs)
    BY <1>10, <1>12
  <2>2. CASE k # Len(jobs')
    <3>1. width = 2 /\ k = Len(jobs) + 1
      BY <1>3, <1>5, <1>8, <2>1, <2>2
    <3>2. jobs'[Len(jobs) + 1] = new[1] /\ jobs'[Len(jobs) + 2] = new[2]
      BY <1>8, <3>1
    <3> QED BY <1>2, <1>3, <1>5, <1>6, <1>8, <3>1, <3>2
  <2> QED BY <2>2
<1>17. AfterRun'
  <2> SUFFICES ASSUME NEW k \in DOMAIN jobs', jobs'[k].kind = "archive"
               PROVE  k > 1 /\ jobs'[k - 1].kind = "run" /\ jobs'[k - 1].resub = jobs'[k].resub
    BY DEF AfterRun
  <2>1. CASE k \in 1..Len(jobs)
    <3>1. k > 1 /\ jobs[k - 1].kind = "run" /\ jobs[k - 1].resub = jobs[k].resub
      BY <1>3, <1>8, <2>1 DEF IInv, AfterRun
    <3>2. k - 1 \in 1..Len(jobs)
      BY <1>3, <2>1, <3>1
    <3> QED BY <1>8, <2>1, <3>1, <3>2
  <2>2. CASE k > Len(jobs)
    <3>1. k - Len(jobs) > 1 /\ new[k - Len(jobs) - 1].kind = "run" /\ new[k - Len(jobs)].resub
      BY <1>6, <1>9, <2>2
    <3>2. k - 1 \in DOMAIN jobs' /\ k - 1 > Len(jobs) /\ (k - 1) - Len(jobs) = k - Len(jobs) - 1
      BY <1>3, <1>8, <3>1
    <3>3. jobs'[k - 1] = new[k - Len(jobs) - 1] /\ new[k - Len(jobs) - 1].resub
      BY <1>6, <1>9, <3>2
    <3>4. jobs'[k].resub
      BY <1>9, <2>2, <3>1
    <3>5. k > 1
      BY <1>3, <1>5, <1>8, <3>1
    <3>6. jobs'[k - 1].resub = jobs'[k].resub
      <4>1. jobs'[k - 1] \in JobRecords /\ jobs'[k] \in JobRecords
        BY <1>8, <3>2
      <4> QED BY <3>3, <3>4, <4>1 DEF JobRecords
    <3> QED BY <3>1, <3>3, <3>5, <3>6
  <2> QED BY <1>10, <2>1, <2>2
<1>18. Copies'
  <2> SUFFICES ASSUME NEW k \in DOMAIN jobs'
               PROVE  /\ jobs'[k].setCont = ~jobs'[k].resub
                      /\ jobs'[k].pc # "queued" => jobs'[k].mem # None
                      /\ jobs'[k].mem # None => Copy(jobs[k].mem)'
    BY DEF Copies
  <2>1. CASE k \in 1..Len(jobs)
    <3>1. /\ jobs'[k].setCont = jobs[k].setCont /\ jobs'[k].resub = jobs[k].resub
          /\ jobs'[k].mem = jobs[k].mem
      BY <1>8, <2>1
    <3>2. jobs[k].setCont = ~jobs[k].resub
      BY <1>3, <2>1 DEF IInv, Copies
    <3>3. jobs[k].mem # None /\ Copy(jobs[k].mem)
      <4>1. k < j \/ k = j
        BY <1>1, <1>3, <2>1
      <4>2. jobs[k].pc # "queued"
        BY <1>0, <1>1, <1>3, <2>1, <4>1 DEF Done
      <4> QED BY <1>3, <2>1, <4>2 DEF IInv, Copies
    <3>4. Copy(jobs[k].mem)'
      BY <1>2, <3>1, <3>3 DEF Copy
    <3> QED BY <3>1, <3>2, <3>3, <3>4
  <2>2. CASE k > Len(jobs)
    <3>1. ~jobs'[k].setCont /\ jobs'[k].resub /\ jobs'[k].pc = "queued" /\ jobs'[k].mem = None
      BY <1>6, <1>9, <2>2
    <3>2. jobs'[k] \in JobRecords
      BY <1>8
    <3>3. jobs'[k].setCont = ~jobs'[k].resub
      BY <3>1, <3>2 DEF JobRecords
    <3> QED BY <3>1, <3>3
  <2> QED BY <1>10, <2>1, <2>2
<1>19. Continued'
  BY <1>1, <1>2 DEF Continued
<1>20. \A k \in DOMAIN jobs' : jobs'[k].pc \in {"done", "queued"}
  BY <1>6, <1>9, <1>10, <1>12
<1>21. Running'
  BY <1>1, <1>2, <1>20 DEF Running
<1>22. \A k \in DOMAIN jobs : jobs[k].pc # "model"
  BY <1>0, <1>1, <1>3 DEF Done
<1> QED BY <1>2, <1>11, <1>14, <1>15, <1>16, <1>17, <1>18, <1>19, <1>20, <1>21, <1>22 DEF
     IInv

LEMMA UserSubmitKeeps ==
  ASSUME IInv, NEW immediate \in BOOLEAN, UserSubmit(immediate)
  PROVE  /\ IInv' /\ UNCHANGED reached
         /\ \A k \in DOMAIN jobs : jobs[k].pc # "model"
         /\ \A k \in DOMAIN jobs' : jobs'[k].pc # "model"
<1>0. /\ jobs = <<>> /\ reached = 0 /\ jobs \in Seq(JobRecords) /\ file \in Files
      /\ Len(jobs) = 0 /\ DOMAIN jobs = {} /\ UNCHANGED <<file, reached>>
  BY DEF UserSubmit, IInv, Types
<1> DEFINE width == IF file.douts THEN 2 ELSE 1
           n == IF immediate THEN file.resubmit + 1 ELSE 1
           new == Sequenced(n, width, immediate)
<1>1. width \in {1, 2} /\ width \in Nat /\ (width = 2 => file.douts)
  OBVIOUS
<1>2. n \in Nat \ {0} /\ n \in Nat /\ (~immediate => n = 1)
  BY <1>0, NumbersAssumption DEF Files
<1>3. jobs' = new
  BY DEF UserSubmit, Submitted, new, width, n
<1> HIDE DEF width, n
<1>4. AsSubmitted(new, n, width, immediate)
  BY <1>0, <1>1, <1>2, Submissions
<1> HIDE DEF new
<1> DEFINE total == n * width
<1>5. total \in Nat /\ total > 0 /\ (~immediate => total = width)
  <2>1. CASE width = 1
    BY <1>2, <2>1
  <2>2. CASE width = 2
    BY <1>2, <2>2
  <2> QED BY <1>1, <2>1, <2>2
<1> HIDE DEF total
<1>6. /\ jobs' \in Seq(JobRecords) /\ Len(jobs') = total /\ DOMAIN jobs' = 1..total
      /\ \A i \in 1..total :
           /\ jobs'[i].pc = "queued" /\ jobs'[i].mem = None
           /\ jobs'[i].setCont = immediate /\ jobs'[i].resub = ~immediate
           /\ i > 1 => i - 1 \in jobs'[i].deps
           /\ jobs'[i].kind = "archive" => i > 1 /\ jobs'[i - 1].kind = "run"
           /\ i = 1 => jobs'[i].kind = "run"
           /\ width = 2 /\ i = 2 => jobs'[i].kind = "archive"
  <2>1. jobs' \in Seq(JobRecords) /\ Len(jobs') = total /\ DOMAIN jobs' = 1..total
    BY <1>3, <1>4 DEF AsSubmitted, total
  <2>2. ASSUME NEW i \in 1..total
        PROVE  /\ jobs'[i].pc = "queued" /\ jobs'[i].mem = None
               /\ jobs'[i].setCont = immediate /\ jobs'[i].resub = ~immediate
               /\ i > 1 => Len(jobs) + i - 1 \in jobs'[i].deps
               /\ jobs'[i].kind = "archive" => i > 1 /\ jobs'[i - 1].kind = "run"
               /\ i = 1 => jobs'[i].kind = "run"
               /\ width = 2 /\ i = 2 => jobs'[i].kind = "archive"
    BY <1>3, <1>4, <2>2 DEF AsSubmitted, total
  <2>3. ASSUME NEW i \in 1..total PROVE Len(jobs) + i - 1 = i - 1
    BY <1>0
  <2> QED BY <2>1, <2>2, <2>3
<1>7. Types' /\ jobs' # <<>>
  <2>1. sub' \in Nat \cup {None}
    BY <1>0 DEF UserSubmit, Files
  <2> QED BY <1>0, <1>5, <1>6, <2>1 DEF Types
<1>8. InTurn' /\ Continued' /\ Running'
  BY <1>0, <1>6 DEF InTurn, Continued, Running
<1>9. Waits'
  BY <1>6 DEF Waits
<1>10. LastSequence'
  <2> SUFFICES ASSUME NEW k \in DOMAIN jobs', jobs'[k].resub
               PROVE  \/ k = Len(jobs')
                      \/ k + 1 = Len(jobs') /\ jobs'[k].kind = "run" /\ jobs'[k + 1].kind = "archive" /\ file'.douts
    BY DEF LastSequence
  <2>1. jobs'[k].resub = ~immediate
    BY <1>6
  <2>2. total = width
    BY <1>5, <2>1
  <2>3. CASE width = 1
    BY <1>6, <2>2, <2>3
  <2>4. CASE width = 2
    BY <1>0, <1>1, <1>6, <2>2, <2>4
  <2> QED BY <1>1, <2>3, <2>4
<1>11. AfterRun'
  <2> SUFFICES ASSUME NEW k \in DOMAIN jobs', jobs'[k].kind = "archive"
               PROVE  k > 1 /\ jobs'[k - 1].kind = "run" /\ jobs'[k - 1].resub = jobs'[k].resub
    BY DEF AfterRun
  <2>1. k > 1 /\ jobs'[k - 1].kind = "run" /\ jobs'[k].resub = ~immediate
    BY <1>6
  <2>2. k - 1 \in 1..total
    BY <1>5, <1>6, <2>1
  <2>3. jobs'[k - 1].resub = ~immediate
    BY <1>6, <2>2
  <2>4. jobs'[k - 1].resub = jobs'[k].resub
    BY <2>1, <2>3, Zenon
  <2> QED BY <2>1, <2>4
<1>12. Copies'
  <2> SUFFICES ASSUME NEW k \in DOMAIN jobs'
               PROVE  /\ jobs'[k].setCont = ~jobs'[k].resub
                      /\ jobs'[k].pc = "queued" /\ jobs'[k].mem = None
    BY DEF Copies
  <2>1. jobs'[k].setCont = immediate /\ jobs'[k].resub = ~immediate /\ jobs'[k].pc = "queued" /\ jobs'[k].mem = None
    BY <1>6
  <2>2. jobs'[k].setCont = ~jobs'[k].resub
    BY <2>1
  <2> QED BY <2>1, <2>2
<1>13. \A k \in DOMAIN jobs' : jobs'[k].pc # "model"
  BY <1>6
<1> QED BY <1>0, <1>7, <1>8, <1>9, <1>10, <1>11, <1>12, <1>13 DEF IInv

\* Changes of env_run.xml alone
LEMMA FileGrows ==
  ASSUME IInv, UNCHANGED <<jobs, reached>>, Types', Grows PROVE IInv'
<1>1. jobs' = jobs /\ reached' = reached /\ (file.cont => file'.cont) /\ file'.douts = file.douts
  BY DEF Grows
<1>2. InTurn' /\ Waits' /\ LastSequence' /\ AfterRun' /\ Continued' /\ Running'
  BY <1>1 DEF IInv, InTurn, Waits, LastSequence, AfterRun, Continued, Running, Done
<1>3. ASSUME NEW k \in DOMAIN jobs, jobs[k].mem # None PROVE Copy(jobs[k].mem)'
  <2>1. Copy(jobs[k].mem)
    BY <1>3 DEF IInv, Copies
  <2>2. jobs[k].mem \in Files
    <3>1. jobs[k] \in JobRecords
      BY DEF IInv, Types
    <3> QED BY <1>3, <3>1 DEF JobRecords
  <2>3. jobs[k].mem.version \in Nat /\ file.version \in Nat /\ file'.version \in Nat
    BY <2>2 DEF IInv, Types, Files
  <2> QED BY <1>1, <2>1, <2>3 DEF Copy, Grows
<1>4. Copies'
  BY <1>1, <1>3 DEF IInv, Copies
<1> QED BY <1>1, <1>2, <1>4 DEF IInv

LEMMA UserSubmitEndsKeeps ==
  ASSUME IInv, UserSubmitEnds PROVE IInv' /\ UNCHANGED <<jobs, reached>> /\ Grows
<1>0. file \in Files /\ UNCHANGED <<jobs, reached>> /\ sub' = None
  BY DEF IInv, Types, UserSubmitEnds
<1>1. file' \in Files /\ Grows
  <2>1. CASE UNCHANGED file
    BY <1>0, <2>1 DEF Grows, Files
  <2>2. CASE Write(file, [file EXCEPT !.resubmit = 0])
    <3> DEFINE new == [file EXCEPT !.resubmit = 0]
    <3>1. new \in Files /\ new.douts = file.douts /\ (file.cont => new.cont)
      BY <1>0, NumbersAssumption DEF Files
    <3>2. Copy(file)
      BY <1>0 DEF Copy, Files
    <3>3. Write(file, new)
      BY <2>2
    <3> HIDE DEF new
    <3> QED BY <1>0, <3>1, <3>2, <3>3, Written
  <2> QED BY <2>1, <2>2 DEF UserSubmitEnds
<1>2. Types'
  BY <1>0, <1>1 DEF IInv, Types
<1> QED BY <1>0, <1>1, <1>2, FileGrows

LEMMA UserEditKeeps ==
  ASSUME IInv, NEW value \in 0..MaxResubmit, UserEdit(value)
  PROVE  /\ IInv' /\ UNCHANGED <<jobs, reached>> /\ Grows
         /\ file'.version > file.version /\ file'.resubmit = value
<1>0. /\ file \in Files /\ UNCHANGED <<jobs, reached, sub>>
      /\ file' = [file EXCEPT !.resubmit = value, !.version = @ + 1]
  BY DEF IInv, Types, UserEdit
<1> DEFINE next == file.version + 1
<1>1. next \in Nat /\ next > file.version
  BY <1>0 DEF Files
<1>2. file' = [file EXCEPT !.resubmit = value, !.version = next]
  BY <1>0
<1> HIDE DEF next
<1>3. file' \in Files
  BY <1>0, <1>1, <1>2 DEF Files
<1>4. /\ file'.version = next /\ file'.cont = file.cont /\ file'.douts = file.douts
      /\ file'.resubmit = value
  BY <1>0, <1>2 DEF Files
<1>5. Grows
  BY <1>0, <1>1, <1>4 DEF Grows, Files
<1>6. Types'
  BY <1>0, <1>3 DEF IInv, Types
<1> QED BY <1>0, <1>1, <1>4, <1>5, <1>6, FileGrows

LEMMA JobStepKeeps ==
  ASSUME Batch, ~AllowFail, IInv, NEW j \in DOMAIN jobs, JobStep(j) PROVE IInv'
  BY StartKeeps, ModelEndsKeeps, ModelRetriedKeeps, JobFailsKeeps, RunPostsKeeps,
       ArchiveKeeps, ResubmitKeeps
     DEF JobStep

LEMMA NextKeeps == ASSUME Batch, ~AllowFail, IInv, [Next]_vars PROVE IInv'
<1>1. CASE UNCHANGED vars
  BY <1>1 DEF vars, IInv, Types, InTurn, Waits, LastSequence, AfterRun, Copies, Copy,
       Continued, Running, Done
<1>2. CASE Next
  BY <1>2, UserSubmitKeeps, UserSubmitEndsKeeps, UserEditKeeps, JobStepKeeps DEF Next
<1> QED BY <1>1, <1>2

(***************************************************************************)
(* How many sequences there are, beside what is still to be asked for      *)
(***************************************************************************)
Accounted == Cardinality(Runs) + Cardinality(In("resubmitting")) + file.resubmit

\* All sequences went to the batch system at once: no job resubmits
AtOnce == \A j \in DOMAIN jobs : ~jobs[j].resub

\* The user's edits raise what is granted by MaxResubmit each at most
Bounded ==
  /\ granted \in Nat /\ edits \in 0..MaxEdits /\ raised \in BOOLEAN
  /\ granted <= (MaxResubmit + 1) * (edits + 1) /\ file.resubmit <= granted

\* Between a submission of all sequences and the reset of RESUBMIT the jobs
\* and the file both stand for what is granted
Balance ==
  /\ jobs = <<>> => granted = file.resubmit + 1 /\ sub = None /\ ~raised
  /\ jobs # <<>> /\ sub = None /\ ~raised => Accounted = granted
  /\ sub # None =>
       /\ ~raised /\ AtOnce /\ sub <= file.version /\ granted = file.resubmit + 1
       /\ sub = file.version => Cardinality(Runs) = granted
  /\ sub # None \/ raised =>
       Accounted <= granted \/ (AtOnce /\ Cardinality(Runs) <= MaxResubmit + 1)

Details ==
  \A j \in DOMAIN jobs :
    /\ jobs[j].pc = "resubmitting" => jobs[j].resub
    /\ jobs[j].deps \subseteq 1..(j - 1) /\ jobs[j].tries <= Retries

\* The last job is an archiver under DOUT_S, and ends the chain only when it
\* read that nothing is left
LastOne ==
  jobs # <<>> =>
    /\ jobs[Len(jobs)].kind = "archive" <=> file.douts
    /\ jobs[Len(jobs)].resub /\ jobs[Len(jobs)].pc = "done" => jobs[Len(jobs)].mem.resubmit = 0

\* The segments simulated are the runs whose model has ended
HasRun(job) == job.kind = "run" /\ job.pc \in {"post", "resubmitting", "done"}
HaveRun == {j \in DOMAIN jobs : HasRun(jobs[j])}
Simulated == In("failed") = {} => reached = Cardinality(HaveRun)

CountInv ==
  Bounded /\ Balance /\ Details /\ LastOne /\ Simulated /\ Len(jobs) <= 2 * Cardinality(Runs)

LEMMA InitCounts == ASSUME Init PROVE CountInv
<1>1. jobs = <<>> /\ sub = None /\ reached = 0 /\ edits = 0 /\ raised = FALSE
  BY DEF Init
<1>2. file.resubmit \in 0..MaxResubmit /\ granted = file.resubmit + 1
  BY DEF Init
<1>3. DOMAIN jobs = {} /\ Len(jobs) = 0
  BY <1>1
<1>4. Runs = {} /\ HaveRun = {}
  BY <1>3 DEF Runs, HaveRun
<1>5. Cardinality(Runs) = 0 /\ Cardinality(HaveRun) = 0
  BY <1>4, FS_EmptySet
<1>6. Bounded
  <2>1. raised \in BOOLEAN
    BY <1>1
  <2>2. (MaxResubmit + 1) * (edits + 1) = MaxResubmit + 1
    BY <1>1, NumbersAssumption
  <2> QED BY <1>1, <1>2, <2>1, <2>2, NumbersAssumption DEF Bounded
<1> QED BY <1>1, <1>2, <1>3, <1>5, <1>6 DEF CountInv, Balance, Details, LastOne, Simulated

\* The sets of jobs that are counted are finite
LEMMA Countable ==
  ASSUME jobs \in Seq(JobRecords)
  PROVE  /\ IsFiniteSet(Runs) /\ Cardinality(Runs) \in Nat
         /\ IsFiniteSet(HaveRun) /\ Cardinality(HaveRun) \in Nat
         /\ \A pc : Cardinality(In(pc)) \in Nat
<1>1. DOMAIN jobs = 1..Len(jobs) /\ Len(jobs) \in Nat
  OBVIOUS
<1>2. IsFiniteSet(DOMAIN jobs)
  BY <1>1, FS_Interval
<1>3. /\ Runs \subseteq DOMAIN jobs /\ HaveRun \subseteq DOMAIN jobs
      /\ \A pc : In(pc) \subseteq DOMAIN jobs
  BY DEF Runs, HaveRun, In
<1>4. /\ IsFiniteSet(Runs) /\ IsFiniteSet(HaveRun)
      /\ \A pc : IsFiniteSet(In(pc))
  BY <1>2, <1>3, FS_Subset
<1> QED BY <1>4, FS_CardinalityType

\* Only the job at work can be resubmitting
LEMMA OneResubmits ==
  ASSUME IInv, NEW j \in DOMAIN jobs, Only(j), Done(j), jobs[j].pc # "done"
  PROVE  /\ Cardinality(In("resubmitting")) = IF jobs[j].pc = "resubmitting" THEN 1 ELSE 0
         /\ Cardinality(In("resubmitting")') = IF jobs'[j].pc = "resubmitting" THEN 1 ELSE 0
<1>1. DOMAIN jobs = 1..Len(jobs) /\ Len(jobs) \in Nat /\ DOMAIN jobs' = DOMAIN jobs
  BY DEF IInv, Types, Only
<1>2. \A k \in DOMAIN jobs : k # j => jobs[k].pc # "resubmitting" /\ jobs'[k] = jobs[k]
  <2> SUFFICES ASSUME NEW k \in DOMAIN jobs, k # j
               PROVE  jobs[k].pc # "resubmitting" /\ jobs'[k] = jobs[k]
    OBVIOUS
  <2>1. k < j \/ k > j
    BY <1>1
  <2> QED BY <2>1, OthersRest DEF Only
<1>3. In("resubmitting") = IF jobs[j].pc = "resubmitting" THEN {j} ELSE {}
  BY <1>2 DEF In
<1>4. In("resubmitting")' = IF jobs'[j].pc = "resubmitting" THEN {j} ELSE {}
  BY <1>1, <1>2 DEF In
<1> QED BY <1>3, <1>4, FS_EmptySet, FS_Singleton

\* What a step of job j that submits nothing may do to the counts: RESUBMIT
\* goes down by one as the job starts to resubmit, a segment is simulated as
\* its model ends, and a failure ends the chain
Effect(j) ==
  /\ Only(j) /\ Done(j) /\ Grows /\ jobs[j].pc \notin {"done", "failed"}
  /\ UNCHANGED <<sub, edits, granted>> /\ jobs'[j].tries <= jobs[j].tries
  /\ \/ /\ jobs[j].pc # "resubmitting" /\ jobs'[j].pc # "resubmitting"
        /\ file'.resubmit = file.resubmit /\ raised' = raised
     \/ /\ jobs[j].pc # "resubmitting" /\ jobs'[j].pc = "resubmitting" /\ jobs[j].resub
        /\ file'.resubmit = file.resubmit - 1 /\ raised' = raised
     \/ /\ jobs[j].pc = "resubmitting" /\ jobs'[j].pc = "failed"
        /\ file'.resubmit = file.resubmit /\ raised' = TRUE
  /\ \/ jobs'[j].pc = "failed"
     \/ ~HasRun(jobs[j]) /\ HasRun(jobs'[j]) /\ reached' = reached + 1
     \/ (HasRun(jobs'[j]) <=> HasRun(jobs[j])) /\ reached' = reached
  /\ jobs'[j].pc = "done" /\ jobs[j].resub /\ j = Len(jobs) => jobs'[j].mem.resubmit = 0

LEMMA EffectCounts ==
  ASSUME IInv, IInv', CountInv, NEW j \in DOMAIN jobs, Effect(j) PROVE CountInv'
<1>0. /\ jobs \in Seq(JobRecords) /\ jobs' \in Seq(JobRecords) /\ jobs # <<>> /\ jobs' # <<>>
      /\ Len(jobs') = Len(jobs) /\ DOMAIN jobs' = DOMAIN jobs /\ file \in Files /\ file' \in Files
      /\ sub \in Nat \cup {None} /\ reached \in Nat /\ sub' = sub /\ edits' = edits /\ granted' = granted
      /\ DOMAIN jobs = 1..Len(jobs) /\ Len(jobs) \in Nat
  BY DEF IInv, Types, Effect, Only
<1>1. /\ file.resubmit \in Nat /\ file'.resubmit \in Nat /\ file.version \in Nat /\ file'.version \in Nat
  BY <1>0, NumbersAssumption DEF Files
<1>2. Runs' = Runs /\ Cardinality(Runs) \in Nat
  BY <1>0, Countable DEF Runs, Effect, Only
<1>3. /\ Cardinality(In("resubmitting")) = IF jobs[j].pc = "resubmitting" THEN 1 ELSE 0
      /\ Cardinality(In("resubmitting")') = IF jobs'[j].pc = "resubmitting" THEN 1 ELSE 0
  BY OneResubmits DEF Effect
<1>4. AtOnce' = AtOnce /\ (AtOnce => ~jobs[j].resub)
  <2>1. \A k \in DOMAIN jobs : jobs'[k].resub = jobs[k].resub
    BY DEF Effect, Only
  <2> QED BY <1>0, <2>1 DEF AtOnce
<1>5. Bounded'
  <2>1. raised' \in BOOLEAN
    <3>1. raised' = raised \/ raised' = TRUE
      BY DEF Effect
    <3> QED BY <3>1 DEF CountInv, Bounded
  <2>2. file'.resubmit <= file.resubmit
    BY <1>1 DEF Effect
  <2>3. granted \in Nat /\ file'.resubmit <= granted
    BY <1>1, <2>2 DEF CountInv, Bounded
  <2> QED BY <1>0, <2>1, <2>3 DEF CountInv, Bounded
<1>6. Balance'
  <2>1. sub # None => sub \in Nat
    BY <1>0
  <2>2. sub # None /\ sub = file'.version => sub = file.version
    BY <1>1, <2>1 DEF CountInv, Balance, Effect, Grows
  <2>3. sub # None => sub <= file'.version
    BY <1>1, <2>1 DEF CountInv, Balance, Effect, Grows
  <2>4. CASE jobs[j].pc # "resubmitting" /\ jobs'[j].pc # "resubmitting"
    <3>1. file'.resubmit = file.resubmit /\ raised' = raised
      BY <2>4 DEF Effect
    <3>2. Accounted' = Accounted
      BY <1>2, <1>3, <2>4, <3>1 DEF Accounted
    <3> QED BY <1>0, <1>2, <1>4, <2>2, <2>3, <3>1, <3>2 DEF CountInv, Balance
  <2>5. CASE jobs[j].pc # "resubmitting" /\ jobs'[j].pc = "resubmitting"
    <3>1. file'.resubmit = file.resubmit - 1 /\ raised' = raised /\ jobs[j].resub
      BY <2>5 DEF Effect
    <3>2. Accounted' = Accounted
      BY <1>1, <1>2, <1>3, <2>5, <3>1 DEF Accounted
    <3> QED BY <1>0, <1>2, <1>4, <3>1, <3>2 DEF CountInv, Balance
  <2>6. CASE jobs[j].pc = "resubmitting"
    <3>1. file'.resubmit = file.resubmit /\ raised' = TRUE /\ jobs'[j].pc = "failed"
      BY <2>6 DEF Effect
    <3>2. Accounted' + 1 = Accounted /\ Accounted \in Nat /\ Accounted' \in Nat /\ granted \in Nat
      <4>1. Cardinality(In("resubmitting")) = 1 /\ Cardinality(In("resubmitting")') = 0
        BY <1>3, <2>6, <3>1
      <4>2. Accounted = Cardinality(Runs) + 1 + file.resubmit
        BY <4>1 DEF Accounted
      <4>3. Accounted' = Cardinality(Runs) + 0 + file.resubmit
        BY <1>2, <3>1, <4>1 DEF Accounted
      <4>4. granted \in Nat
        BY DEF CountInv, Bounded
      <4> QED BY <1>1, <1>2, <4>2, <4>3, <4>4
    <3>3. ~AtOnce
      BY <1>4, <2>6 DEF CountInv, Details
    <3> QED BY <1>0, <3>1, <3>2, <3>3 DEF CountInv, Balance
  <2> QED BY <2>4, <2>5, <2>6
<1>7. Details'
  <2> SUFFICES ASSUME NEW k \in DOMAIN jobs
               PROVE  /\ jobs'[k].pc = "resubmitting" => jobs'[k].resub
                      /\ jobs'[k].deps \subseteq 1..(k - 1) /\ jobs'[k].tries <= Retries
    BY <1>0 DEF Details
  <2>1. CASE k # j
    BY <2>1 DEF CountInv, Details, Effect, Only
  <2>2. CASE k = j
    <3>1. jobs[j].tries \in Nat /\ jobs'[j].tries \in Nat
      <4>1. jobs[j] \in JobRecords /\ jobs'[j] \in JobRecords
        BY <1>0
      <4> QED BY <4>1 DEF JobRecords
    <3>2. jobs'[j].resub = jobs[j].resub /\ jobs'[j].deps = jobs[j].deps
      BY DEF Effect, Only
    <3>3. jobs'[j].tries <= Retries
      BY <3>1, NumbersAssumption DEF CountInv, Details, Effect
    <3>4. jobs'[j].pc = "resubmitting" => jobs[j].resub
      BY DEF Effect
    <3> QED BY <2>2, <3>2, <3>3, <3>4 DEF CountInv, Details
  <2> QED BY <2>1, <2>2
<1>8. LastOne'
  <2> DEFINE l == Len(jobs)
  <2>1. l \in DOMAIN jobs /\ jobs'[l].kind = jobs[l].kind /\ jobs'[l].resub = jobs[l].resub
    BY <1>0 DEF Effect, Only
  <2>2. jobs'[l].resub /\ jobs'[l].pc = "done" => jobs'[l].mem.resubmit = 0
    <3>1. CASE j = l
      BY <2>1, <3>1 DEF Effect
    <3>2. CASE j # l
      BY <1>0, <2>1, <3>2 DEF Effect, Only, CountInv, LastOne
    <3> QED BY <3>1, <3>2
  <2>3. file'.douts = file.douts
    BY DEF Effect, Grows
  <2> QED BY <1>0, <2>1, <2>2, <2>3 DEF CountInv, LastOne
<1>9. Simulated'
  <2> SUFFICES ASSUME In("failed")' = {} PROVE reached' = Cardinality(HaveRun')
    BY DEF Simulated
  <2>1. jobs'[j].pc # "failed"
    BY <1>0 DEF In
  <2>2. In("failed") = {}
    BY <1>0 DEF In, Effect, Only
  <2>3. reached = Cardinality(HaveRun)
    BY <2>2 DEF CountInv, Simulated
  <2>4. CASE ~HasRun(jobs[j]) /\ HasRun(jobs'[j]) /\ reached' = reached + 1
    <3>1. HaveRun' = HaveRun \cup {j} /\ j \notin HaveRun
      BY <1>0, <2>4 DEF HaveRun, Effect, Only
    <3> QED BY <1>0, <2>3, <2>4, <3>1, Countable, FS_AddElement
  <2>5. CASE (HasRun(jobs'[j]) <=> HasRun(jobs[j])) /\ reached' = reached
    <3>1. HaveRun' = HaveRun
      BY <1>0, <2>5 DEF HaveRun, Effect, Only
    <3> QED BY <2>3, <2>5, <3>1
  <2> QED BY <2>1, <2>4, <2>5 DEF Effect
<1>10. Len(jobs') <= 2 * Cardinality(Runs')
  BY <1>0, <1>2 DEF CountInv
<1> QED BY <1>5, <1>6, <1>7, <1>8, <1>9, <1>10 DEF CountInv

LEMMA StartEffect ==
  ASSUME IInv, Batch, ~AllowFail, NEW j \in DOMAIN jobs, Start(j) PROVE IInv' /\ Effect(j)
<1>0. /\ IInv' /\ Only(j) /\ Done(j) /\ Grows /\ jobs[j].pc = "queued"
      /\ UNCHANGED <<file, sub, reached, edits, granted, raised>>
  <2>1. jobs[j].pc = "queued" /\ UNCHANGED <<file, sub, reached, edits, granted, raised>>
    BY DEF Start
  <2>2. IInv' /\ Only(j) /\ Done(j) /\ Grows
    BY StartKeeps
  <2> QED BY <2>1, <2>2
<1>1. jobs[j] \in JobRecords
  BY DEF IInv, Types
<1>2. jobs'[j].pc \in {"model", "archiving"} /\ jobs'[j].tries = jobs[j].tries
  BY <1>1 DEF Start, JobRecords, IInv, Types
<1>3. ~HasRun(jobs[j]) /\ ~HasRun(jobs'[j])
  BY <1>0, <1>2 DEF HasRun
<1>4. jobs'[j].tries <= jobs[j].tries
  BY <1>1, <1>2 DEF JobRecords
<1> QED BY <1>0, <1>2, <1>3, <1>4 DEF Effect

LEMMA ModelEndsEffect ==
  ASSUME IInv, NEW j \in DOMAIN jobs, ModelEnds(j) PROVE IInv' /\ Effect(j)
<1>0. /\ IInv' /\ Only(j) /\ Done(j) /\ Grows /\ jobs[j].pc = "model"
      /\ UNCHANGED <<file, sub, edits, granted, raised>>
  <2>1. jobs[j].pc = "model" /\ UNCHANGED <<file, sub, edits, granted, raised>>
    BY DEF ModelEnds
  <2>2. IInv' /\ Only(j) /\ Done(j) /\ Grows
    BY ModelEndsKeeps
  <2> QED BY <2>1, <2>2
<1>1. jobs[j] \in JobRecords /\ jobs[j].kind = "run" /\ jobs[j].from = reached
  BY <1>0 DEF IInv, Types, Running
<1>2. jobs'[j].pc = "post" /\ jobs'[j].tries = jobs[j].tries
  BY <1>1 DEF ModelEnds, JobRecords, IInv, Types
<1>3. ~HasRun(jobs[j]) /\ HasRun(jobs'[j]) /\ reached' = reached + 1
  BY <1>0, <1>1, <1>2 DEF HasRun, Only, ModelEnds
<1>4. jobs'[j].tries <= jobs[j].tries
  BY <1>1, <1>2 DEF JobRecords
<1> QED BY <1>0, <1>2, <1>3, <1>4 DEF Effect

LEMMA ModelRetriedEffect ==
  ASSUME IInv, NEW j \in DOMAIN jobs, NEW node \in BOOLEAN, ModelRetried(j, node)
  PROVE  IInv' /\ Effect(j)
<1>0. /\ IInv' /\ Only(j) /\ Done(j) /\ Grows /\ jobs[j].pc = "model" /\ jobs'[j].pc = "model"
      /\ UNCHANGED <<sub, reached, edits, granted, raised>>
  <2>1. jobs[j].pc = "model" /\ UNCHANGED <<sub, reached, edits, granted, raised>>
    BY DEF ModelRetried
  <2>2. IInv' /\ Only(j) /\ Done(j) /\ Grows /\ jobs'[j].pc = "model"
    BY ModelRetriedKeeps
  <2> QED BY <2>1, <2>2
<1>1. jobs[j] \in JobRecords /\ file \in Files
  BY DEF IInv, Types
<1>2. jobs'[j].tries <= jobs[j].tries
  <2> DEFINE left == jobs[j].tries - 1
  <2>1. left <= jobs[j].tries
    BY <1>1 DEF JobRecords
  <2>2. jobs' = [jobs EXCEPT ![j].mem = file', ![j].from = Origin(file'), ![j].tries = left]
    BY DEF ModelRetried
  <2> HIDE DEF left
  <2>3. jobs'[j].tries = left
    BY <1>1, <2>2 DEF JobRecords, IInv, Types
  <2> QED BY <2>1, <2>3
<1>3. ~HasRun(jobs[j]) /\ ~HasRun(jobs'[j])
  BY <1>0 DEF HasRun
<1>4. file'.resubmit = file.resubmit
  <2> DEFINE new == [file EXCEPT !.cont = TRUE]
  <2>1. new \in Files /\ new.resubmit = file.resubmit /\ new.douts = file.douts /\ new.cont
    BY <1>1 DEF Files
  <2>2. Copy(file)
    BY <1>1 DEF Copy, Files
  <2>3. UNCHANGED file \/ Write(file, new)
    BY DEF ModelRetried
  <2> HIDE DEF new
  <2>4. Write(file, new) => file'.resubmit = new.resubmit
    BY <1>1, <2>1, <2>2, Written
  <2> QED BY <2>1, <2>3, <2>4
<1> QED BY <1>0, <1>2, <1>3, <1>4 DEF Effect

\* The number of tries left of a job that only moves on
LEMMA MovedTries ==
  ASSUME IInv, NEW j \in DOMAIN jobs, NEW to, Move(j, to)
  PROVE  jobs'[j].pc = to /\ jobs'[j].mem = jobs[j].mem /\ jobs'[j].tries <= jobs[j].tries
<1>1. jobs[j] \in JobRecords /\ jobs \in Seq(JobRecords)
  BY DEF IInv, Types
<1>2. /\ jobs'[j].pc = to /\ jobs'[j].mem = jobs[j].mem
      /\ jobs'[j].tries = jobs[j].tries
  BY <1>1 DEF Move, JobRecords
<1> QED BY <1>1, <1>2 DEF JobRecords

LEMMA JobFailsEffect ==
  ASSUME IInv, CountInv, NEW j \in DOMAIN jobs, JobFails(j) PROVE IInv' /\ Effect(j)
<1>0. /\ IInv' /\ Only(j) /\ Done(j) /\ Grows /\ jobs[j].pc \in Active
      /\ UNCHANGED <<file, sub, reached, edits, granted>>
      /\ raised' = (raised \/ jobs[j].pc = "resubmitting")
  BY JobFailsKeeps DEF JobFails
<1>1. jobs'[j].pc = "failed" /\ jobs'[j].tries <= jobs[j].tries
  BY MovedTries DEF JobFails
<1>2. CASE jobs[j].pc = "resubmitting"
  BY <1>0, <1>1, <1>2 DEF Effect
<1>3. CASE jobs[j].pc # "resubmitting"
  <2>1. raised \in BOOLEAN
    BY DEF CountInv, Bounded
  <2>2. raised' = raised
    BY <1>0, <1>3, <2>1, Zenon
  <2> QED BY <1>0, <1>1, <1>3, <2>2 DEF Effect, Active
<1> QED BY <1>2, <1>3

LEMMA RunPostsEffect ==
  ASSUME IInv, CountInv, NEW j \in DOMAIN jobs, RunPosts(j) PROVE IInv' /\ Effect(j)
<1> DEFINE mem == jobs[j].mem
           again == RunResubmits(jobs[j])
           new == IF again THEN ResubmitValues(mem)
                  ELSE IF jobs[j].setCont THEN [mem EXCEPT !.cont = TRUE] ELSE mem
<1>0. /\ IInv' /\ Only(j) /\ Done(j) /\ Grows
      /\ jobs[j].pc = "post" /\ UNCHANGED <<sub, reached, edits, granted>>
  <2>1. jobs[j].pc = "post" /\ UNCHANGED <<sub, reached, edits, granted>>
    BY DEF RunPosts
  <2>2. IInv' /\ Only(j) /\ Done(j) /\ Grows
    BY RunPostsKeeps
  <2> QED BY <2>1, <2>2
<1>1. mem \in Files /\ Copy(mem) /\ file \in Files /\ jobs[j] \in JobRecords /\ jobs[j].kind = "run"
  BY <1>0, Working DEF IInv, Running
<1>2. again => mem.resubmit > 0 /\ jobs[j].resub
  BY DEF RunResubmits
<1>3. /\ new \in Files /\ new.douts = mem.douts /\ (mem.cont => new.cont)
      /\ new.resubmit = IF again THEN mem.resubmit - 1 ELSE mem.resubmit
  <2>1. CASE again
    BY <1>1, <1>2, <2>1, ResubmitValuesFile
  <2>2. CASE ~again /\ jobs[j].setCont
    BY <1>1, <2>2 DEF Files
  <2>3. CASE ~again /\ ~jobs[j].setCont
    BY <1>1, <2>3
  <2> QED BY <2>1, <2>2, <2>3
<1>4. again => new # mem
  <2>1. mem.resubmit \in Nat
    BY <1>1, NumbersAssumption DEF Files
  <2> HIDE DEF new, mem, again
  <2> QED BY <1>3, <2>1
<1>5. \/ new = mem /\ Move(j, "done") /\ UNCHANGED <<file, raised>>
      \/ Write(mem, new) /\ UNCHANGED raised /\ Move(j, IF again THEN "resubmitting" ELSE "done")
      \/ Move(j, "failed") /\ UNCHANGED <<file, raised>>
  BY DEF RunPosts
\* the last job is a run only where no archiver follows
<1>6. ~again /\ jobs[j].resub /\ j = Len(jobs) => mem.resubmit = 0
  <2> SUFFICES ASSUME ~again, jobs[j].resub, j = Len(jobs) PROVE mem.resubmit = 0
    OBVIOUS
  <2>1. ~file.douts
    <3>1. jobs # <<>>
      BY <1>1 DEF IInv, Types
    <3> QED BY <1>1, <3>1 DEF CountInv, LastOne
  <2>2. ~mem.douts
    BY <1>1, <2>1 DEF Copy
  <2>3. ~(mem.resubmit > 0)
    BY <2>2 DEF RunResubmits
  <2>4. mem.resubmit \in Nat
    BY <1>1, NumbersAssumption DEF Files
  <2> HIDE DEF mem
  <2> QED BY <2>3, <2>4
<1> HIDE DEF mem, again, new
<1>7. ASSUME NEW to, Move(j, to)
      PROVE  jobs'[j].pc = to /\ jobs'[j].mem = mem /\ jobs'[j].tries <= jobs[j].tries
  BY <1>7, MovedTries DEF mem
<1>8. Write(mem, new) => file'.resubmit = new.resubmit /\ mem = file
  <2> SUFFICES ASSUME Write(mem, new) PROVE file'.resubmit = new.resubmit /\ mem = file
    OBVIOUS
  <2> QED BY <1>1, <1>3, Written
<1>9. HasRun(jobs[j])
  BY <1>0, <1>1 DEF HasRun
<1>10. CASE new = mem /\ Move(j, "done") /\ UNCHANGED <<file, raised>>
  <2>1. ~again /\ jobs'[j].pc = "done" /\ jobs'[j].mem = mem /\ jobs'[j].tries <= jobs[j].tries
    BY <1>4, <1>7, <1>10
  <2>2. HasRun(jobs'[j])
    BY <1>0, <1>1, <2>1 DEF HasRun, Only
  <2> QED BY <1>0, <1>6, <1>9, <1>10, <2>1, <2>2 DEF Effect
<1>11. CASE Write(mem, new) /\ UNCHANGED raised /\ Move(j, IF again THEN "resubmitting" ELSE "done")
  <2>1. /\ jobs'[j].pc = IF again THEN "resubmitting" ELSE "done"
        /\ jobs'[j].mem = mem /\ jobs'[j].tries <= jobs[j].tries
    BY <1>7, <1>11
  <2>2. HasRun(jobs'[j])
    BY <1>0, <1>1, <2>1 DEF HasRun, Only
  <2>3. file'.resubmit = IF again THEN file.resubmit - 1 ELSE file.resubmit
    BY <1>3, <1>8, <1>11
  <2>4. CASE again
    BY <1>0, <1>2, <1>9, <1>11, <2>1, <2>2, <2>3, <2>4 DEF Effect
  <2>5. CASE ~again
    BY <1>0, <1>6, <1>9, <1>11, <2>1, <2>2, <2>3, <2>5 DEF Effect
  <2> QED BY <2>4, <2>5
<1>12. CASE Move(j, "failed") /\ UNCHANGED <<file, raised>>
  <2>1. jobs'[j].pc = "failed" /\ jobs'[j].tries <= jobs[j].tries
    BY <1>7, <1>12
  <2> QED BY <1>0, <1>12, <2>1 DEF Effect
<1> QED BY <1>0, <1>5, <1>10, <1>11, <1>12

LEMMA ArchiveEffect ==
  ASSUME IInv, Batch, NEW j \in DOMAIN jobs, Archive(j) PROVE IInv' /\ Effect(j)
<1>0. /\ IInv' /\ Only(j) /\ Done(j) /\ Grows
      /\ jobs[j].pc = "archiving" /\ UNCHANGED <<sub, reached, edits, granted, raised>>
  <2>1. jobs[j].pc = "archiving" /\ UNCHANGED <<sub, reached, edits, granted, raised>>
    BY DEF Archive
  <2>2. IInv' /\ Only(j) /\ Done(j) /\ Grows
    BY ArchiveKeeps
  <2> QED BY <2>1, <2>2
<1>1. /\ jobs[j].mem \in Files /\ Copy(jobs[j].mem) /\ file \in Files
      /\ jobs[j].kind = "archive"
  BY <1>0, Working DEF IInv, Running
<1>2. jobs[j].mem.resubmit \in Nat
  BY <1>1, NumbersAssumption DEF Files
<1>3. ASSUME NEW to, Move(j, to)
      PROVE  /\ jobs'[j].pc = to /\ jobs'[j].mem = jobs[j].mem /\ jobs'[j].tries <= jobs[j].tries
             /\ ~HasRun(jobs[j]) /\ ~HasRun(jobs'[j])
  <2>1. jobs'[j].pc = to /\ jobs'[j].mem = jobs[j].mem /\ jobs'[j].tries <= jobs[j].tries
    BY <1>3, MovedTries
  <2>2. jobs'[j].kind = "archive"
    BY <1>0, <1>1 DEF Only
  <2> QED BY <1>1, <2>1, <2>2 DEF HasRun
<1>4. \/ ~(jobs[j].resub /\ jobs[j].mem.resubmit > 0) /\ Move(j, "done") /\ UNCHANGED file
      \/ Move(j, "failed") /\ UNCHANGED file
      \/ /\ jobs[j].resub /\ jobs[j].mem.resubmit > 0 /\ Move(j, "resubmitting")
         /\ Write(jobs[j].mem, ResubmitValues(jobs[j].mem))
  BY DEF Archive
<1>5. CASE ~(jobs[j].resub /\ jobs[j].mem.resubmit > 0) /\ Move(j, "done") /\ UNCHANGED file
  BY <1>0, <1>2, <1>3, <1>5 DEF Effect
<1>6. CASE Move(j, "failed") /\ UNCHANGED file
  BY <1>0, <1>3, <1>6 DEF Effect
<1>7. CASE /\ jobs[j].resub /\ jobs[j].mem.resubmit > 0 /\ Move(j, "resubmitting")
           /\ Write(jobs[j].mem, ResubmitValues(jobs[j].mem))
  <2>1. /\ ResubmitValues(jobs[j].mem) \in Files /\ ResubmitValues(jobs[j].mem).cont
        /\ ResubmitValues(jobs[j].mem).douts = jobs[j].mem.douts
        /\ ResubmitValues(jobs[j].mem).resubmit = jobs[j].mem.resubmit - 1
    BY <1>1, <1>7, ResubmitValuesFile
  <2>2. file'.resubmit = file.resubmit - 1
    BY <1>1, <1>7, <2>1, Written
  <2> QED BY <1>0, <1>3, <1>7, <2>2 DEF Effect
<1> QED BY <1>4, <1>5, <1>6, <1>7, <1>0

LEMMA ResubmitCounts ==
  ASSUME IInv, CountInv, NEW j \in DOMAIN jobs, Resubmit(j) PROVE CountInv'
<1>0. /\ jobs[j] \in JobRecords /\ jobs \in Seq(JobRecords) /\ Done(j) /\ file \in Files
      /\ jobs[j].mem \in Files /\ Copy(jobs[j].mem)
  BY Working DEF Resubmit
<1>1. /\ jobs[j].pc = "resubmitting"
      /\ UNCHANGED <<file, sub, reached, edits, granted, raised>>
  BY DEF Resubmit
<1>2. /\ j = Len(jobs) /\ Len(jobs) \in Nat /\ DOMAIN jobs = 1..Len(jobs) /\ jobs # <<>>
      /\ jobs[j].resub /\ ~AtOnce /\ file.resubmit \in Nat
  BY <1>0, <1>1, NumbersAssumption DEF IInv, Running, CountInv, Details, AtOnce, Files
<1>3. PICK new : Resubmitted(new, j)
  BY ResubmitShape
<1> DEFINE L == Len(jobs)
           width == Width(jobs[j].mem)
<1>4. L \in Nat /\ width \in {1, 2} /\ (width = 2 <=> file.douts)
  BY <1>0, <1>2 DEF Width, Copy, Files
<1>5. /\ jobs' \in Seq(JobRecords) /\ Len(jobs') = L + width /\ DOMAIN jobs' = 1..(L + width)
      /\ \A k \in 1..L :
           /\ jobs'[k].pc = "done" /\ jobs'[k].kind = jobs[k].kind
           /\ jobs'[k].deps = jobs[k].deps /\ jobs'[k].tries = jobs[k].tries
      /\ \A k \in DOMAIN jobs' : k > L => k - L \in 1..width /\ jobs'[k] = new[k - L]
      /\ AsSubmitted(new, 1, width, FALSE)
  BY <1>3 DEF Resubmitted
<1>6. \A i \in 1..width :
        /\ new[i].pc = "queued" /\ new[i].tries = Retries
        /\ new[i].deps \subseteq 1..(L + i - 1)
        /\ new[i].kind = IF i = 1 THEN "run" ELSE "archive"
  <2>1. 1 * width = width
    BY <1>4
  <2>2. \A i \in 1..width : ((i - 1) % width = 0) <=> i = 1
    <3>1. CASE width = 1
      BY <3>1
    <3>2. CASE width = 2
      BY <3>2
    <3> QED BY <1>4, <3>1, <3>2
  <2> QED BY <1>5, <2>1, <2>2 DEF AsSubmitted
<1>7. \A k \in DOMAIN jobs : k # j => jobs[k].pc = "done"
  BY <1>0, <1>2 DEF Done
<1> HIDE DEF width
<1>8. jobs' # <<>> /\ L + 1 \in DOMAIN jobs' /\ L + width \in DOMAIN jobs'
  BY <1>4, <1>5
<1>9. \A k \in DOMAIN jobs' : k \in 1..L \/ k = L + 1 \/ (k = L + 2 /\ width = 2)
  BY <1>4, <1>5
<1>a. /\ L + 1 > L /\ L + 2 > L /\ (L + 1) - L = 1 /\ (L + 2) - L = 2 /\ L + 1 \notin 1..L
      /\ L + 2 \notin 1..L
  BY <1>4
<1>10. /\ jobs'[L + 1] = new[1] /\ jobs'[L + 1].kind = "run" /\ jobs'[L + 1].pc = "queued"
       /\ width = 2 => /\ jobs'[L + 2] = new[2] /\ jobs'[L + 2].kind = "archive"
                       /\ jobs'[L + 2].pc = "queued"
  <2> HIDE DEF L
  <2>1. width = 2 => L + 2 \in DOMAIN jobs'
    BY <1>4, <1>5
  <2>2. 1 \in 1..width /\ (width = 2 => 2 \in 1..width)
    BY <1>4
  <2>3. jobs'[L + 1] = new[1] /\ (width = 2 => jobs'[L + 2] = new[2])
    BY <1>5, <1>8, <1>a, <2>1
  <2> QED BY <1>6, <2>2, <2>3
<1>11. Runs' = Runs \cup {L + 1} /\ L + 1 \notin Runs
  <2> HIDE DEF L
  <2>1. Runs = {k \in 1..L : jobs[k].kind = "run"}
    BY <1>2 DEF Runs, L
  <2>2. ASSUME NEW k \in DOMAIN jobs', jobs'[k].kind = "run" PROVE k \in Runs \cup {L + 1}
    BY <1>5, <1>9, <1>10, <2>1, <2>2
  <2>3. ASSUME NEW k \in Runs PROVE k \in DOMAIN jobs' /\ jobs'[k].kind = "run"
    <3>1. k \in 1..L /\ jobs[k].kind = "run"
      BY <2>1, <2>3
    <3>2. k \in 1..(L + width)
      BY <1>4, <3>1
    <3> QED BY <1>5, <3>1, <3>2
  <2>4. Runs' = {k \in DOMAIN jobs' : jobs'[k].kind = "run"}
    BY DEF Runs
  <2> QED BY <1>8, <1>10, <1>a, <2>1, <2>2, <2>3, <2>4
<1>12. Cardinality(Runs') = Cardinality(Runs) + 1 /\ Cardinality(Runs) \in Nat
  BY <1>0, <1>11, Countable, FS_AddElement
<1>13. Cardinality(In("resubmitting")) = 1
  <2>1. In("resubmitting") = {j}
    BY <1>1, <1>7 DEF In
  <2> QED BY <2>1, FS_Singleton
<1>14. Cardinality(In("resubmitting")') = 0
  <2>1. In("resubmitting")' = {}
    BY <1>5, <1>9, <1>10 DEF In
  <2> QED BY <2>1, FS_EmptySet
<1>15. Accounted' = Accounted
  <2>1. Accounted = Cardinality(Runs) + 1 + file.resubmit
    BY <1>13 DEF Accounted
  <2>2. Accounted' = (Cardinality(Runs) + 1) + 0 + file.resubmit
    BY <1>1, <1>12, <1>14 DEF Accounted
  <2> QED BY <1>2, <1>12, <2>1, <2>2
<1>16. Bounded'
  BY <1>1 DEF CountInv, Bounded
<1>17. Balance'
  BY <1>1, <1>2, <1>8, <1>15 DEF CountInv, Balance
<1>18. Details'
  <2> SUFFICES ASSUME NEW k \in DOMAIN jobs'
               PROVE  /\ jobs'[k].pc = "resubmitting" => jobs'[k].resub
                      /\ jobs'[k].deps \subseteq 1..(k - 1) /\ jobs'[k].tries <= Retries
    BY DEF Details
  <2>1. CASE k \in 1..L
    BY <1>2, <1>5, <2>1 DEF CountInv, Details
  <2>2. CASE k > L
    <3> HIDE DEF L
    <3> DEFINE i == k - L
    <3>1. i \in 1..width /\ jobs'[k] = new[i] /\ L + i - 1 = k - 1
      BY <1>4, <1>5, <2>2
    <3> HIDE DEF i
    <3> QED BY <1>6, <3>1, NumbersAssumption
  <2> QED BY <1>2, <1>5, <2>1, <2>2
<1>19. LastOne'
  <2> HIDE DEF L
  <2>1. jobs'[L + width].pc = "queued" /\ (jobs'[L + width].kind = "archive" <=> width = 2)
    BY <1>4, <1>10
  <2>2. Len(jobs') = L + width /\ (width = 2 <=> file.douts) /\ file' = file
    BY <1>1, <1>4, <1>5
  <2> QED BY <2>1, <2>2 DEF LastOne
<1>20. Simulated'
  <2>1. In("failed") = {}
    BY <1>1, <1>7 DEF In
  <2>2. reached = Cardinality(HaveRun)
    BY <2>1 DEF CountInv, Simulated
  <2>3. \A k \in 1..L : HasRun(jobs'[k]) <=> HasRun(jobs[k])
    BY <1>1, <1>2, <1>5, <1>7 DEF HasRun
  <2>4. \A k \in DOMAIN jobs' : k \notin 1..L => ~HasRun(jobs'[k])
    BY <1>9, <1>10 DEF HasRun
  <2>5. 1..L \subseteq DOMAIN jobs' /\ DOMAIN jobs = 1..L
    BY <1>2, <1>4, <1>5
  <2>6. HaveRun' = HaveRun
    BY <2>3, <2>4, <2>5 DEF HaveRun
  <2> QED BY <1>1, <2>2, <2>6 DEF Simulated
<1>21. Len(jobs') <= 2 * Cardinality(Runs')
  <2>1. L <= 2 * Cardinality(Runs)
    BY DEF CountInv
  <2> HIDE DEF L
  <2> QED BY <1>4, <1>5, <1>12, <2>1
<1> QED BY <1>16, <1>17, <1>18, <1>19, <1>20, <1>21 DEF CountInv

LEMMA UserSubmitEndsCounts ==
  ASSUME IInv, CountInv, UserSubmitEnds PROVE CountInv'
<1>0. /\ UNCHANGED <<jobs, reached, edits, granted>> /\ sub' = None /\ sub # None
      /\ jobs \in Seq(JobRecords) /\ file \in Files
  BY DEF UserSubmitEnds, IInv, Types
<1>1. /\ ~raised /\ AtOnce /\ sub <= file.version /\ granted = file.resubmit + 1 /\ jobs # <<>>
      /\ sub = file.version => Cardinality(Runs) = granted
      /\ Accounted <= granted \/ (AtOnce /\ Cardinality(Runs) <= MaxResubmit + 1)
  BY <1>0 DEF CountInv, Balance
<1>2. Runs' = Runs /\ HaveRun' = HaveRun /\ \A pc : In(pc)' = In(pc)
  BY <1>0 DEF Runs, HaveRun, In
<1>3. Cardinality(In("resubmitting")) = 0
  <2>1. In("resubmitting") = {}
    BY <1>1 DEF CountInv, Details, AtOnce, In
  <2> QED BY <2>1, FS_EmptySet
<1>4. AtOnce'
  BY <1>0, <1>1 DEF AtOnce
<1>5. Grows
  BY UserSubmitEndsKeeps
<1>6. Details' /\ LastOne' /\ Simulated' /\ Len(jobs') <= 2 * Cardinality(Runs')
  BY <1>0, <1>2, <1>5 DEF CountInv, Details, LastOne, Simulated, Grows
<1>7. granted \in Nat /\ edits \in 0..MaxEdits /\ granted <= (MaxResubmit + 1) * (edits + 1)
  BY DEF CountInv, Bounded
<1>8. CASE sub = file.version
  <2>1. Write(file, [file EXCEPT !.resubmit = 0]) /\ raised' = raised
    BY <1>8 DEF UserSubmitEnds
  <2>2. file'.resubmit = 0
    <3> DEFINE new == [file EXCEPT !.resubmit = 0]
    <3>1. new \in Files /\ new.resubmit = 0 /\ new.douts = file.douts /\ (file.cont => new.cont)
      BY <1>0, NumbersAssumption DEF Files
    <3>2. Copy(file) /\ Write(file, new)
      BY <1>0, <2>1 DEF Copy, Files
    <3> HIDE DEF new
    <3> QED BY <1>0, <3>1, <3>2, Written
  <2>3. Accounted' = granted
    <3>1. Accounted' = Cardinality(Runs) + 0 + 0
      BY <1>2, <1>3, <2>2 DEF Accounted
    <3> QED BY <1>1, <1>7, <1>8, <3>1
  <2>4. Bounded'
    <3>1. raised' \in BOOLEAN
      BY <2>1 DEF CountInv, Bounded
    <3> QED BY <1>0, <1>7, <2>2, <3>1 DEF Bounded
  <2>5. Balance'
    BY <1>0, <1>1, <2>1, <2>3 DEF Balance
  <2> QED BY <1>6, <2>4, <2>5 DEF CountInv
<1>9. CASE sub # file.version
  <2>1. raised' = TRUE /\ file' = file
    BY <1>9 DEF UserSubmitEnds
  <2>2. Accounted' = Accounted
    BY <1>2, <2>1 DEF Accounted
  <2>3. Bounded'
    <3>1. file.resubmit <= granted
      BY DEF CountInv, Bounded
    <3> QED BY <1>0, <1>7, <2>1, <3>1 DEF Bounded
  <2>4. Balance'
    BY <1>0, <1>1, <1>2, <1>4, <2>1, <2>2 DEF Balance
  <2> QED BY <1>6, <2>3, <2>4 DEF CountInv
<1> QED BY <1>8, <1>9

LEMMA UserEditCounts ==
  ASSUME IInv, CountInv, NEW value \in 0..MaxResubmit, UserEdit(value) PROVE CountInv'
<1>0. /\ UNCHANGED <<jobs, reached, sub, raised>> /\ edits' = edits + 1 /\ edits < MaxEdits
      /\ granted' = granted + value - file.resubmit /\ jobs # <<>>
  BY DEF UserEdit
<1>1. Grows /\ file'.version > file.version /\ file'.resubmit = value
  BY UserEditKeeps
<1>2. /\ jobs \in Seq(JobRecords) /\ file \in Files /\ file' \in Files /\ sub \in Nat \cup {None}
  BY UserEditKeeps DEF IInv, Types
<1>3. /\ file.resubmit \in Nat /\ file.resubmit <= MaxResubmit
      /\ file.version \in Nat /\ file'.version \in Nat /\ value \in Nat /\ value <= MaxResubmit
      /\ MaxResubmit \in Nat /\ MaxEdits \in Nat
  BY <1>2, NumbersAssumption DEF Files
<1>4. edits \in 0..MaxEdits /\ granted <= (MaxResubmit + 1) * (edits + 1)
  BY DEF CountInv, Bounded
<1>a. granted \in Nat /\ file.resubmit <= granted
  BY DEF CountInv, Bounded
<1> DEFINE left == file.resubmit
<1>b. /\ left \in Nat /\ left <= MaxResubmit /\ left <= granted
      /\ granted' = granted + value - left
  BY <1>0, <1>3, <1>a
<1> HIDE DEF left
<1>c. granted' \in Nat /\ value <= granted' /\ granted' <= granted + MaxResubmit
  BY <1>3, <1>a, <1>b
<1>5. /\ Runs' = Runs /\ HaveRun' = HaveRun /\ (AtOnce' <=> AtOnce)
      /\ \A pc : In(pc)' = In(pc)
  BY <1>0 DEF Runs, HaveRun, In, AtOnce
<1>6. Cardinality(Runs) \in Nat /\ Cardinality(In("resubmitting")) \in Nat
  BY <1>2, Countable
<1>7. Accounted' = Accounted + value - file.resubmit /\ Accounted \in Nat
  <2> DEFINE runs == Cardinality(Runs)
             next == Cardinality(In("resubmitting"))
  <2>1. Accounted = runs + next + file.resubmit
    BY DEF Accounted
  <2>2. Accounted' = runs + next + value
    BY <1>1, <1>5 DEF Accounted
  <2> HIDE DEF runs, next
  <2> QED BY <1>3, <1>6, <2>1, <2>2 DEF runs, next
<1>8. Details' /\ LastOne' /\ Simulated' /\ Len(jobs') <= 2 * Cardinality(Runs')
  BY <1>0, <1>1, <1>5 DEF CountInv, Details, LastOne, Simulated, Grows
<1>9. Bounded'
  <2>1. granted' \in Nat /\ file'.resubmit <= granted' /\ granted' <= granted + MaxResubmit
    BY <1>1, <1>c
  <2>2. edits' \in 0..MaxEdits /\ edits' = edits + 1 /\ edits \in Nat
    BY <1>0, <1>3, <1>4
  <2>3. (MaxResubmit + 1) * (edits' + 1) = (MaxResubmit + 1) * (edits + 1) + (MaxResubmit + 1)
    BY <1>3, <2>2
  <2> DEFINE before == (MaxResubmit + 1) * (edits + 1)
  <2>4. before \in Nat /\ granted <= before
    BY <1>3, <1>4, <2>2
  <2>5. granted' <= before + (MaxResubmit + 1)
    <3> HIDE DEF before
    <3> QED BY <1>3, <1>a, <2>1, <2>4
  <2>6. raised' \in BOOLEAN
    BY <1>0 DEF CountInv, Bounded
  <2> QED BY <2>1, <2>2, <2>3, <2>5, <2>6 DEF Bounded
<1>10. Balance'
  <2>1. sub # None => sub \in Nat
    BY <1>2
  <2>2. sub # None => sub # file'.version /\ sub <= file'.version
    BY <1>1, <1>3, <2>1 DEF CountInv, Balance
  <2>3. sub # None => granted' = file'.resubmit + 1
    <3>1. sub # None => granted = left + 1
      BY DEF CountInv, Balance, left
    <3> QED BY <1>1, <1>3, <1>b, <3>1
  <2>4. Accounted = granted => Accounted' = granted'
    BY <1>0, <1>7
  <2>5. Accounted <= granted => Accounted' <= granted'
    <3>1. Accounted' = Accounted + value - left
      BY <1>7 DEF left
    <3> QED BY <1>3, <1>7, <1>a, <1>b, <3>1
  <2> QED BY <1>0, <1>5, <2>2, <2>3, <2>4, <2>5 DEF CountInv, Balance
<1> QED BY <1>8, <1>9, <1>10 DEF CountInv

\* n sequences hold n runs
LEMMA RunsOfSequences ==
  ASSUME NEW n \in Nat \ {0}, NEW width \in {1, 2}, NEW S,
         S = {i \in 1..(n * width) : (i - 1) % width = 0}
  PROVE  Cardinality(S) = n
<1> DEFINE at == [k \in 1..n |-> (k - 1) * width + 1]
<1>1. CASE width = 1
  <2>1. S = 1..n
    BY <1>1
  <2>2. Cardinality(1..n) = n
    BY FS_Interval
  <2> QED BY <2>1, <2>2
<1>2. CASE width = 2
  <2>0. n \in Nat /\ n * width = 2 * n
    BY <1>2
  <2>1. at = [k \in 1..n |-> 2 * k - 1]
    BY <1>2
  <2> HIDE DEF at
  <2>2. at \in [1..n -> S]
    <3> SUFFICES ASSUME NEW k \in 1..n PROVE 2 * k - 1 \in S
      BY <2>1
    <3>1. 2 * k - 1 \in 1..(n * width) /\ (2 * k - 1) - 1 = 2 * (k - 1)
      BY <2>0
    <3>2. ((2 * k - 1) - 1) % 2 = 0
      BY <3>1
    <3> QED BY <1>2, <3>1, <3>2
  <2>3. \A i, k \in 1..n : at[i] = at[k] => i = k
    BY <2>1
  <2>4. \A s \in S : \E k \in 1..n : at[k] = s
    <3> SUFFICES ASSUME NEW s \in S PROVE \E k \in 1..n : at[k] = s
      OBVIOUS
    <3>1. s \in 1..(2 * n) /\ (s - 1) % 2 = 0
      BY <1>2, <2>0
    <3>2. s = 2 * ((s - 1) \div 2) + 1
      BY <3>1
    <3> DEFINE k == (s - 1) \div 2 + 1
    <3>3. k \in 1..n /\ 2 * k - 1 = s
      BY <2>0, <3>1, <3>2
    <3> QED BY <2>1, <3>3
  <2>5. at \in Bijection(1..n, S)
    <3>1. at \in Injection(1..n, S)
      BY <2>2, <2>3 DEF Injection, IsInjective
    <3>2. at \in Surjection(1..n, S)
      BY <2>2, <2>4 DEF Surjection
    <3> QED BY <3>1, <3>2 DEF Bijection
  <2>6. ExistsBijection(1..n, S)
    BY <2>5 DEF ExistsBijection
  <2>7. IsFiniteSet(1..n) /\ Cardinality(1..n) = n
    BY <2>0, FS_Interval
  <2> QED BY <2>6, <2>7, FS_Bijection
<1> QED BY <1>1, <1>2

LEMMA UserSubmitCounts ==
  ASSUME IInv, CountInv, NEW immediate \in BOOLEAN, UserSubmit(immediate) PROVE CountInv'
<1>0. /\ jobs = <<>> /\ reached = 0 /\ jobs \in Seq(JobRecords) /\ file \in Files /\ Len(jobs) = 0
      /\ UNCHANGED <<file, reached, edits, granted, raised>>
      /\ sub' = IF immediate /\ file.resubmit > 0 THEN file.version ELSE None
  <2>1. /\ jobs = <<>> /\ UNCHANGED <<file, reached, edits, granted, raised>>
        /\ sub' = IF immediate /\ file.resubmit > 0 THEN file.version ELSE None
    BY DEF UserSubmit
  <2> QED BY <2>1 DEF IInv, Types
<1> DEFINE width == IF file.douts THEN 2 ELSE 1
           n == IF immediate THEN file.resubmit + 1 ELSE 1
           new == Sequenced(n, width, immediate)
           total == n * width
<1>1. /\ width \in {1, 2} /\ width \in Nat /\ (file.douts <=> width = 2)
      /\ file.resubmit \in Nat /\ file.resubmit <= MaxResubmit /\ file.version \in Nat
  BY <1>0, NumbersAssumption DEF Files
<1>2. n \in Nat \ {0} /\ n \in Nat /\ n <= MaxResubmit + 1
  BY <1>1, NumbersAssumption
<1>3. jobs' = new
  BY DEF UserSubmit, Submitted, new, width, n
<1>n. (immediate => n = file.resubmit + 1) /\ (~immediate \/ file.resubmit = 0 => n = 1)
  BY <1>1
<1> HIDE DEF width, n
<1>4. AsSubmitted(new, n, width, immediate)
  BY <1>0, <1>1, <1>2, Submissions
<1> HIDE DEF new
<1>5. total \in Nat /\ total > 0 /\ total <= 2 * n /\ (width = 2 => total = 2 * n) /\ (width = 1 => total = n)
  <2>1. CASE width = 1
    BY <1>2, <2>1
  <2>2. CASE width = 2
    BY <1>2, <2>2
  <2> QED BY <1>1, <2>1, <2>2
<1>6. /\ jobs' \in Seq(JobRecords) /\ Len(jobs') = total /\ DOMAIN jobs' = 1..total /\ jobs' # <<>>
      /\ \A i \in 1..total :
           /\ jobs'[i].pc = "queued" /\ jobs'[i].tries = Retries
           /\ jobs'[i].resub = ~immediate /\ jobs'[i].deps \subseteq 1..(Len(jobs) + i - 1)
           /\ jobs'[i].kind = IF (i - 1) % width = 0 THEN "run" ELSE "archive"
  <2>1. jobs' \in Seq(JobRecords) /\ Len(jobs') = total
    BY <1>3, <1>4 DEF AsSubmitted
  <2>2. DOMAIN jobs' = 1..total /\ jobs' # <<>>
    <3> HIDE DEF total
    <3> QED BY <1>5, <2>1
  <2>3. \A i \in 1..total :
           /\ jobs'[i].pc = "queued" /\ jobs'[i].tries = Retries
           /\ jobs'[i].resub = ~immediate /\ jobs'[i].deps \subseteq 1..(Len(jobs) + i - 1)
           /\ jobs'[i].kind = IF (i - 1) % width = 0 THEN "run" ELSE "archive"
    BY <1>3, <1>4 DEF AsSubmitted
  <2> QED BY <2>1, <2>2, <2>3
<1>7. Cardinality(Runs') = n
  <2>1. Runs' = {i \in 1..(n * width) : (i - 1) % width = 0}
    BY <1>6 DEF Runs
  <2> QED BY <1>1, <1>2, <2>1, RunsOfSequences
<1>8. HaveRun' = {} /\ In("resubmitting")' = {}
  <2> HIDE DEF total
  <2> QED BY <1>6 DEF HaveRun, HasRun, In
<1>9. Cardinality(HaveRun') = 0 /\ Cardinality(In("resubmitting")') = 0
  BY <1>8, FS_EmptySet
<1>10. Accounted' = n + file.resubmit
  <2>1. Accounted' = n + 0 + file.resubmit
    BY <1>0, <1>7, <1>9 DEF Accounted
  <2> QED BY <1>1, <1>2, <2>1
<1>11. granted = file.resubmit + 1 /\ ~raised
  BY <1>0 DEF CountInv, Balance
<1>12. Balance'
  <2>1. CASE immediate /\ file.resubmit > 0
    <3>1. sub' = file.version /\ n = granted
      BY <1>0, <1>n, <1>11, <2>1
    <3>2. AtOnce'
      <4> HIDE DEF total
      <4> QED BY <1>6, <2>1 DEF AtOnce
    <3>3. sub' # None
      BY <1>1, <3>1, NoneAssumption
    <3> QED BY <1>0, <1>1, <1>2, <1>6, <1>7, <1>11, <3>1, <3>2, <3>3 DEF Balance
  <2>2. CASE ~(immediate /\ file.resubmit > 0)
    <3>1. sub' = None /\ n = 1
      BY <1>0, <1>1, <1>n, <2>2
    <3>2. Accounted' = granted'
      BY <1>0, <1>1, <1>10, <1>11, <3>1
    <3> QED BY <1>0, <1>6, <1>11, <3>1, <3>2 DEF Balance
  <2> QED BY <2>1, <2>2
<1>13. Bounded'
  BY <1>0 DEF CountInv, Bounded
<1>14. Details'
  <2> HIDE DEF total
  <2> SUFFICES ASSUME NEW k \in 1..total
               PROVE  /\ jobs'[k].pc # "resubmitting"
                      /\ jobs'[k].deps \subseteq 1..(k - 1) /\ jobs'[k].tries <= Retries
    BY <1>6 DEF Details
  <2>1. Len(jobs) + k - 1 = k - 1
    BY <1>0, <1>5
  <2> QED BY <1>6, <2>1, NumbersAssumption
<1>15. LastOne'
  <2>1. total \in 1..total
    BY <1>5
  <2>2. (total - 1) % width = 0 <=> width = 1
    <3>1. CASE width = 1
      BY <1>5, <3>1
    <3>2. CASE width = 2
      <4>1. total - 1 = 2 * (n - 1) + 1
        BY <1>2, <1>5, <3>2
      <4>2. (2 * (n - 1) + 1) % 2 = 1
        BY <1>2
      <4> QED BY <3>2, <4>1, <4>2
    <3> QED BY <1>1, <3>1, <3>2
  <2> HIDE DEF total
  <2>3. jobs'[total].pc = "queued" /\ (jobs'[total].kind = "archive" <=> width = 2)
    BY <1>1, <1>6, <2>1, <2>2
  <2> QED BY <1>0, <1>1, <1>6, <2>3 DEF LastOne
<1>16. Simulated'
  BY <1>0, <1>9 DEF Simulated
<1>17. Len(jobs') <= 2 * Cardinality(Runs')
  BY <1>5, <1>6, <1>7
<1> QED BY <1>12, <1>13, <1>14, <1>15, <1>16, <1>17 DEF CountInv

LEMMA NextCounts == ASSUME Batch, ~AllowFail, IInv, CountInv, [Next]_vars PROVE CountInv'
<1>1. CASE UNCHANGED vars
  <2>1. UNCHANGED <<file, jobs, sub, reached, edits, granted, raised>>
    BY <1>1 DEF vars
  <2>2. Runs' = Runs /\ HaveRun' = HaveRun /\ (AtOnce' <=> AtOnce) /\ \A pc : In(pc)' = In(pc)
    BY <2>1 DEF Runs, HaveRun, In, AtOnce
  <2>3. Accounted' = Accounted
    BY <2>1, <2>2 DEF Accounted
  <2> QED BY <2>1, <2>2, <2>3 DEF CountInv, Bounded, Balance, Details, LastOne, Simulated
<1>2. ASSUME NEW j \in DOMAIN jobs, JobStep(j) PROVE CountInv'
  <2>1. CASE Resubmit(j)
    BY <2>1, ResubmitCounts
  <2>2. CASE ~Resubmit(j)
    <3>1. IInv' /\ Effect(j)
      BY <1>2, <2>2, StartEffect, ModelEndsEffect, ModelRetriedEffect, JobFailsEffect,
         RunPostsEffect, ArchiveEffect
         DEF JobStep
    <3> QED BY <3>1, EffectCounts
  <2> QED BY <2>1, <2>2
<1>3. CASE Next
  BY <1>2, <1>3, UserSubmitCounts, UserSubmitEndsCounts, UserEditCounts DEF Next
<1> QED BY <1>1, <1>3

\* Every bound and every sum of ChainInv, from the two invariants
LEMMA IInvCounts == ASSUME IInv, CountInv PROVE TypeOK /\ SequencesConserved /\ StopsWhenUsedUp
<1>0. /\ jobs \in Seq(JobRecords) /\ DOMAIN jobs = 1..Len(jobs) /\ Len(jobs) \in Nat
      /\ Cardinality(Runs) \in Nat /\ Cardinality(In("resubmitting")) \in Nat
      /\ file \in Files /\ file.resubmit \in Nat
      /\ MaxResubmit \in Nat /\ MaxEdits \in Nat /\ Retries \in Nat
  <2>1. jobs \in Seq(JobRecords) /\ file \in Files
    BY DEF IInv, Types
  <2> QED BY <2>1, Countable, NumbersAssumption DEF Files
<1>1. TypeOK
  <2> DEFINE most == (MaxResubmit + 1) * (MaxEdits + 1)
  <2>1. most \in Nat /\ 2 * (MaxResubmit + 1) * (MaxEdits + 1) = 2 * most
    BY <1>0
  <2>2. granted \in Nat /\ edits \in 0..MaxEdits /\ granted <= most /\ MaxResubmit + 1 <= most
    <3>1. granted \in Nat /\ edits \in 0..MaxEdits /\ granted <= (MaxResubmit + 1) * (edits + 1)
      BY DEF CountInv, Bounded
    <3>2. edits \in Nat /\ edits + 1 <= MaxEdits + 1
      BY <1>0, <3>1
    <3>3. (MaxResubmit + 1) * (edits + 1) <= most /\ (MaxResubmit + 1) * (edits + 1) \in Nat
      BY <1>0, <3>2
    <3>4. MaxResubmit + 1 <= most
      BY <1>0
    <3>5. granted <= most
      <4> DEFINE bound == (MaxResubmit + 1) * (edits + 1)
      <4>1. bound \in Nat /\ granted <= bound /\ bound <= most
        BY <3>1, <3>3
      <4> HIDE DEF bound, most
      <4> QED BY <2>1, <3>1, <4>1
    <3> QED BY <3>1, <3>4, <3>5
  <2> HIDE DEF most
  <2>3. Cardinality(Runs) <= granted \/ Cardinality(Runs) <= MaxResubmit + 1 \/ jobs = <<>>
    <3>1. Accounted <= granted => Cardinality(Runs) <= granted
      <4>1. Cardinality(Runs) <= Accounted /\ Accounted \in Nat
        BY <1>0 DEF Accounted
      <4> QED BY <1>0, <2>2, <4>1
    <3>2. jobs = <<>> \/ Accounted = granted \/ Accounted <= granted \/ Cardinality(Runs) <= MaxResubmit + 1
      BY DEF CountInv, Balance
    <3> QED BY <2>2, <3>1, <3>2
  <2>4. Len(jobs) <= 2 * most
    <3>1. CASE jobs = <<>>
      BY <2>1, <3>1
    <3>2. CASE jobs # <<>>
      <4>1. Cardinality(Runs) <= most
        BY <1>0, <2>1, <2>2, <2>3, <3>2
      <4>2. Len(jobs) <= 2 * Cardinality(Runs)
        BY DEF CountInv
      <4> QED BY <1>0, <2>1, <4>1, <4>2
    <3> QED BY <3>1, <3>2
  <2>5. DOMAIN jobs \subseteq Jobs
    BY <1>0, <2>1, <2>4 DEF Jobs
  <2>6. ASSUME NEW j \in DOMAIN jobs
        PROVE  /\ jobs[j].kind \in {"run", "archive"} /\ jobs[j].deps \subseteq 1..(j - 1)
               /\ jobs[j].pc \in {"queued"} \cup Active \cup Ended
               /\ jobs[j].mem \in Files \cup {None} /\ jobs[j].tries \in 0..Retries
    <3>1. jobs[j] \in JobRecords
      BY <1>0
    <3>2. jobs[j].tries \in Nat /\ jobs[j].tries <= Retries /\ jobs[j].deps \subseteq 1..(j - 1)
      BY <3>1 DEF CountInv, Details, JobRecords
    <3>3. jobs[j].tries \in 0..Retries
      BY <1>0, <3>2
    <3> QED BY <3>1, <3>2, <3>3 DEF JobRecords
  <2>7. raised \in BOOLEAN
    BY DEF CountInv, Bounded
  <2> QED BY <1>0, <2>2, <2>5, <2>6, <2>7 DEF TypeOK, IInv, Types
<1>2. SequencesConserved
  BY DEF CountInv, Balance, SequencesConserved, Accounted
<1>3. StopsWhenUsedUp
  <2> SUFFICES ASSUME jobs # <<>>, DOMAIN jobs = In("done")
               PROVE  /\ reached = Cardinality(Runs)
                      /\ jobs[Len(jobs)].resub =>
                           file.resubmit = 0 \/ file.version > jobs[Len(jobs)].mem.version
    BY DEF StopsWhenUsedUp
  <2>1. \A j \in DOMAIN jobs : jobs[j].pc = "done"
    BY DEF In
  <2>2. In("failed") = {} /\ HaveRun = Runs
    BY <2>1 DEF In, HaveRun, HasRun, Runs
  <2>3. reached = Cardinality(Runs)
    BY <2>2 DEF CountInv, Simulated
  <2>4. Len(jobs) \in DOMAIN jobs
    BY <1>0
  <2>5. ASSUME jobs[Len(jobs)].resub
        PROVE  file.resubmit = 0 \/ file.version > jobs[Len(jobs)].mem.version
    <3> DEFINE last == jobs[Len(jobs)]
    <3>1. last.pc = "done" /\ last.mem.resubmit = 0
      BY <2>1, <2>4, <2>5 DEF CountInv, LastOne
    <3>2. Copy(last.mem) /\ last.mem \in Files
      BY <2>4, <3>1, Working
    <3>3. last.mem.version \in Nat /\ file.version \in Nat /\ last.mem.version <= file.version
      BY <1>0, <3>2 DEF Files, Copy
    <3>4. last.mem.version = file.version => file.resubmit = 0
      BY <3>1, <3>2 DEF Copy
    <3> HIDE DEF last
    <3>5. file.resubmit = 0 \/ file.version > last.mem.version
      BY <3>3, <3>4
    <3> QED BY <3>5 DEF last
  <2> QED BY <2>3, <2>5
<1> QED BY <1>1, <1>2, <1>3

(***************************************************************************)
(* The refinement: what the chain of runs sees of the jobs                 *)
(***************************************************************************)
FromOf(js) ==
  LET models == {k \in DOMAIN js : js[k].pc = "model"}
  IN  IF models = {} THEN None ELSE js[CHOOSE k \in models : TRUE].from

\* At most one job is running the model, so that ActiveFrom is its origin
LEMMA OneModel ==
  ASSUME NEW js, NEW j \in DOMAIN js, \A k \in DOMAIN js : k # j => js[k].pc # "model"
  PROVE  FromOf(js) = IF js[j].pc = "model" THEN js[j].from ELSE None
<1>1. CASE js[j].pc = "model"
  <2>1. {k \in DOMAIN js : js[k].pc = "model"} = {j}
    BY <1>1
  <2> QED BY <1>1, <2>1 DEF FromOf
<1>2. CASE js[j].pc # "model"
  <2>1. {k \in DOMAIN js : js[k].pc = "model"} = {}
    BY <1>2
  <2> QED BY <1>2, <2>1 DEF FromOf
<1> QED BY <1>1, <1>2

LEMMA NoModel == ASSUME NEW js, \A k \in DOMAIN js : js[k].pc # "model" PROVE FromOf(js) = None
<1>1. {k \in DOMAIN js : js[k].pc = "model"} = {}
  OBVIOUS
<1> QED BY <1>1 DEF FromOf

LEMMA Seen == ActiveFrom = FromOf(jobs) /\ ActiveFrom' = FromOf(jobs')
  BY DEF ActiveFrom, FromOf, In

\* A step of a job in turn changes the origin of that job only
LEMMA Turn ==
  ASSUME IInv, NEW j \in DOMAIN jobs, Only(j), Done(j), jobs[j].pc # "done"
  PROVE  /\ ActiveFrom = IF jobs[j].pc = "model" THEN jobs[j].from ELSE None
         /\ ActiveFrom' = IF jobs'[j].pc = "model" THEN jobs'[j].from ELSE None
<1>1. \A k \in DOMAIN jobs : k # j => jobs[k].pc # "model"
  <2> SUFFICES ASSUME NEW k \in DOMAIN jobs, k # j PROVE jobs[k].pc # "model"
    OBVIOUS
  <2>1. k < j \/ k > j
    BY DEF IInv, Types
  <2> QED BY <2>1, OthersRest
<1>2. \A k \in DOMAIN jobs' : k # j => jobs'[k].pc # "model"
  BY <1>1 DEF Only
<1>3. j \in DOMAIN jobs'
  BY DEF Only
<1>4. FromOf(jobs) = IF jobs[j].pc = "model" THEN jobs[j].from ELSE None
  BY <1>1, OneModel
<1>5. FromOf(jobs') = IF jobs'[j].pc = "model" THEN jobs'[j].from ELSE None
  BY <1>2, <1>3, OneModel
<1> QED BY <1>4, <1>5, Seen

LEMMA JobStepRefines ==
  ASSUME Batch, ~AllowFail, IInv, NEW j \in DOMAIN jobs, JobStep(j)
  PROVE  Chain!Next \/ UNCHANGED Chain!chainVars
<1> USE DEF Chain!Next, Chain!Begin, Chain!Finish, Chain!Fail, Chain!chainVars
<1>0. jobs[j] \in JobRecords /\ reached \in Nat /\ (jobs[j].pc = "model" => jobs[j].from # None /\ jobs[j].from = reached)
  <2>1. jobs[j] \in JobRecords /\ reached \in Nat
    BY DEF IInv, Types
  <2>2. reached # None
    BY <2>1, NoneAssumption
  <2> QED BY <2>1, <2>2 DEF IInv, Running
<1>1. ASSUME Start(j) PROVE Chain!Next \/ UNCHANGED Chain!chainVars
  <2>0. jobs[j].pc = "queued" /\ reached' = reached
    BY <1>1 DEF Start
  <2>1. IInv' /\ Only(j) /\ Done(j) /\ jobs[j].pc = "queued" /\ reached' = reached
    BY <1>1, <2>0, StartKeeps
  <2>2. /\ ActiveFrom = None
        /\ ActiveFrom' = IF jobs'[j].pc = "model" THEN jobs'[j].from ELSE None
    BY <2>1, Turn
  <2>3. jobs'[j].pc = "model" => jobs'[j].from = reached
    BY <2>1 DEF IInv, Running, Only
  <2> QED BY <2>1, <2>2, <2>3
<1>2. ASSUME ModelEnds(j) PROVE Chain!Next \/ UNCHANGED Chain!chainVars
  <2>1. /\ IInv' /\ Only(j) /\ Done(j) /\ jobs[j].pc = "model"
        /\ reached' = jobs[j].from + 1
    <3>1. jobs[j].pc = "model" /\ reached' = jobs[j].from + 1
      BY <1>2 DEF ModelEnds
    <3> QED BY <1>2, <3>1, ModelEndsKeeps
  <2>2. jobs'[j].pc = "post"
    BY <1>0, <1>2 DEF ModelEnds, IInv, Types, JobRecords
  <2>3. ActiveFrom = jobs[j].from /\ ActiveFrom' = None
    BY <2>1, <2>2, Turn
  <2> QED BY <1>0, <2>1, <2>3
<1>3. ASSUME NEW node \in BOOLEAN, ModelRetried(j, node)
      PROVE  Chain!Next \/ UNCHANGED Chain!chainVars
  <2>1. /\ Only(j) /\ Done(j) /\ jobs'[j].pc = "model" /\ jobs'[j].from = jobs[j].from
        /\ jobs[j].pc = "model" /\ reached' = reached
    <3>1. jobs[j].pc = "model" /\ reached' = reached
      BY <1>3 DEF ModelRetried
    <3> QED BY <1>3, <3>1, ModelRetriedKeeps
  <2>2. ActiveFrom' = ActiveFrom
    BY <2>1, Turn
  <2> QED BY <2>1, <2>2
<1>4. ASSUME JobFails(j) PROVE Chain!Next \/ UNCHANGED Chain!chainVars
  <2>1. Only(j) /\ Done(j) /\ jobs[j].pc # "done" /\ reached' = reached
    BY <1>4, JobFailsKeeps DEF JobFails, Active
  <2>2. jobs'[j].pc = "failed"
    BY <1>4, Moved DEF JobFails, Ended
  <2>3. ActiveFrom' = None /\ ActiveFrom = IF jobs[j].pc = "model" THEN jobs[j].from ELSE None
    BY <2>1, <2>2, Turn
  <2> QED BY <1>0, <2>1, <2>3
<1>5. ASSUME NEW to \in {"done", "failed", "resubmitting"}, Move(j, to), Only(j), Done(j),
             jobs[j].pc \in {"post", "archiving"}, UNCHANGED reached
      PROVE  Chain!Next \/ UNCHANGED Chain!chainVars
  <2>1. jobs'[j].pc = to
    BY <1>5, Moved DEF Active, Ended
  <2>2. ActiveFrom = None /\ ActiveFrom' = None
    BY <1>5, <2>1, Turn
  <2> QED BY <1>5, <2>2
<1>6. ASSUME RunPosts(j) PROVE Chain!Next \/ UNCHANGED Chain!chainVars
  <2>1. Only(j) /\ Done(j)
    BY <1>6, RunPostsKeeps
  <2>2. /\ jobs[j].pc \in {"post", "archiving"} /\ UNCHANGED reached
        /\ Move(j, "done") \/ Move(j, "failed") \/ Move(j, "resubmitting")
    BY <1>6 DEF RunPosts
  <2> QED BY <1>5, <2>1, <2>2
<1>7. ASSUME Archive(j) PROVE Chain!Next \/ UNCHANGED Chain!chainVars
  <2>1. Only(j) /\ Done(j)
    BY <1>7, ArchiveKeeps
  <2>2. /\ jobs[j].pc \in {"post", "archiving"} /\ UNCHANGED reached
        /\ Move(j, "done") \/ Move(j, "failed") \/ Move(j, "resubmitting")
    BY <1>7 DEF Archive
  <2> QED BY <1>5, <2>1, <2>2
<1>8. ASSUME Resubmit(j) PROVE Chain!Next \/ UNCHANGED Chain!chainVars
  BY <1>8, ResubmitKeeps, NoModel, Seen
<1> QED BY <1>1, <1>2, <1>3, <1>4, <1>6, <1>7, <1>8 DEF JobStep

LEMMA NextRefines ==
  ASSUME Batch, ~AllowFail, IInv, [Next]_vars PROVE [Chain!Next]_(Chain!chainVars)
<1>1. ASSUME UNCHANGED <<jobs, reached>> PROVE UNCHANGED Chain!chainVars
  BY <1>1, Seen DEF Chain!chainVars
<1>2. ASSUME NEW immediate \in BOOLEAN, UserSubmit(immediate) PROVE UNCHANGED Chain!chainVars
  BY <1>2, UserSubmitKeeps, NoModel, Seen DEF Chain!chainVars
<1>3. CASE UNCHANGED vars
  BY <1>1, <1>3 DEF vars
<1>4. CASE UserSubmitEnds
  BY <1>1, <1>4, UserSubmitEndsKeeps
<1>5. ASSUME NEW value \in 0..MaxResubmit, UserEdit(value) PROVE UNCHANGED Chain!chainVars
  BY <1>1, <1>5, UserEditKeeps
<1> QED BY <1>2, <1>3, <1>4, <1>5, JobStepRefines DEF Next

LEMMA InitRefines == ASSUME Init PROVE Chain!Init
<1>1. jobs = <<>> /\ reached = 0
  BY DEF Init
<1>2. DOMAIN jobs = {}
  BY <1>1
<1>3. FromOf(jobs) = None
  BY <1>2, NoModel
<1> QED BY <1>1, <1>3, Seen DEF Chain!Init

LEMMA IInvAloneAndInOrder == ASSUME IInv PROVE JobsRunAlone /\ ArchiveOnlySuccess
<1>0. DOMAIN jobs = 1..Len(jobs) /\ Len(jobs) \in Nat
  BY DEF IInv, Types
<1>1. ASSUME NEW i \in DOMAIN jobs, NEW k \in DOMAIN jobs, i < k, jobs[k].pc \in Active
      PROVE  jobs[i].pc \notin Active
  <2>1. Done(k)
    BY <1>1 DEF IInv, InTurn, Active
  <2>2. i \in 1..(k - 1)
    BY <1>0, <1>1
  <2> QED BY <2>1, <2>2 DEF Done, Active
<1> DEFINE active == {j \in DOMAIN jobs : jobs[j].pc \in Active}
<1>2. \A i, k \in active : i = k
  BY <1>0, <1>1
<1>3. Cardinality(active) <= 1
  <2>1. CASE active = {}
    BY <2>1, FS_EmptySet
  <2>2. CASE active # {}
    <3>1. PICK j : active = {j}
      BY <1>2, <2>2
    <3> HIDE DEF active
    <3> QED BY <3>1, FS_Singleton
  <2> QED BY <2>1, <2>2
<1>4. ArchiveOnlySuccess
  <2> SUFFICES ASSUME NEW j \in DOMAIN jobs, jobs[j].kind # "run", jobs[j].pc \in Active \cup {"done"}
               PROVE  jobs[j - 1].pc = "done"
    BY DEF ArchiveOnlySuccess, Archives, Runs
  <2>1. jobs[j].kind = "archive"
    <3>1. jobs[j] \in JobRecords
      BY DEF IInv, Types
    <3> QED BY <3>1 DEF JobRecords
  <2>2. j > 1 /\ Done(j)
    BY <2>1 DEF IInv, AfterRun, InTurn, Active
  <2>3. j - 1 \in 1..(j - 1)
    BY <1>0, <2>2
  <2> QED BY <2>2, <2>3 DEF Done
<1> QED BY <1>3, <1>4 DEF JobsRunAlone

LEMMA Invariance == ASSUME Batch, ~AllowFail PROVE Spec => []IInv
<1>1. Init => IInv
  BY InitIInv
<1>2. IInv /\ [Next]_vars => IInv'
  BY NextKeeps
<1> QED BY <1>1, <1>2, PTL DEF Spec

\* The jobs of a case never work at the same time, whatever RESUBMIT is, however
\* they were submitted and whatever fails: get_job_deps, the division of the
\* resubmission between case.run and case.st_archive, _resubmit_check
THEOREM RunAlone == ASSUME Batch, ~AllowFail PROVE Spec => []JobsRunAlone
<1>1. IInv => JobsRunAlone
  BY IInvAloneAndInOrder
<1> QED BY <1>1, Invariance, PTL

\* Only the output of a run that ended well is archived
THEOREM ArchiveSuccess == ASSUME Batch, ~AllowFail PROVE Spec => []ArchiveOnlySuccess
<1>1. IInv => ArchiveOnlySuccess
  BY IInvAloneAndInOrder
<1> QED BY <1>1, Invariance, PTL

LEMMA CountInvariance == ASSUME Batch, ~AllowFail PROVE Spec => []CountInv
<1>1. Init => CountInv
  BY InitCounts
<1>2. IInv /\ CountInv /\ [Next]_vars => CountInv'
  BY NextCounts
<1> QED BY <1>1, <1>2, Invariance, PTL DEF Spec

\* No sequence is lost or run twice, and a chain that has used RESUBMIT up has
\* simulated what was asked for, whatever the user's edits, the retries of the
\* model and the failures: set_value("RESUBMIT") in _submit, read_xml in
\* case_run, validate_timestamp
THEOREM Conservation ==
  ASSUME Batch, ~AllowFail PROVE Spec => [](SequencesConserved /\ StopsWhenUsedUp)
<1>1. IInv /\ CountInv => SequencesConserved /\ StopsWhenUsedUp
  BY IInvCounts
<1> QED BY <1>1, Invariance, CountInvariance, PTL

\* The jobs of a chain take turns, follow success only, neither lose a sequence
\* nor add one, and are never more than twice what can be asked for
THEOREM ChainHolds == ASSUME Batch, ~AllowFail PROVE Spec => []ChainInv
<1>1. IInv /\ CountInv => ChainInv
  BY IInvCounts, IInvAloneAndInOrder DEF ChainInv
<1> QED BY <1>1, Invariance, CountInvariance, PTL

\* The jobs implement the chain of runs: every run starts where the simulation
\* stands, CONTINUE_RUN being set by the retry, the resubmission or the end of
\* the first run of an immediate submission before anything else may start
THEOREM ChainIsImplemented == ASSUME Batch, ~AllowFail PROVE Spec => ChainImplemented
<1>1. Init => Chain!Init
  BY InitRefines
<1>2. IInv /\ [Next]_vars => [Chain!Next]_(Chain!chainVars)
  BY NextRefines
<1> QED BY <1>1, <1>2, Invariance, PTL DEF Spec, ChainImplemented, Chain!Spec
===============================================================================
