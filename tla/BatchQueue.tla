------------------------------ MODULE BatchQueue ------------------------------
(***************************************************************************)
(* What a job asks of the batch system: its tasks, nodes and memory        *)
(* (EnvWorkflow.get_job_specs, EnvBatch.get_job_overrides), its queue and  *)
(* its wallclock time (EnvBatch.set_job_defaults).  0 stands for a number  *)
(* that is not given, "none" for a name.                                   *)
(***************************************************************************)
EXTENDS Integers, Sequences, FiniteSetsExt, SequencesExt

(***************************************************************************)
(* Tasks and memory                                                        *)
(***************************************************************************)
CeilOf(a, b) == (a + b - 1) \div b

\* get_job_specs: a job with its own tasks and tasks per node; the tasks per
\* node are then spread evenly, rounded down
JobSpecs(job) ==
  IF job.tasks > 0 /\ job.per_node > 0
  THEN LET nodes == CeilOf(job.tasks, job.per_node)
       IN [tasks |-> job.tasks, nodes |-> nodes, per_node |-> job.tasks \div nodes]
  ELSE [tasks |-> job.tasks, nodes |-> 0, per_node |-> job.per_node]

SmallJobMemory(total, M) == Min({total * M.mem_per_task, M.mem})

\* get_job_overrides, mem_per_node: a tenth of the node by task, then by share
JobMemory(total, M) ==
  IF M.mem_per_task > 0 /\ total <= M.tasks
  THEN IF 10 * total > M.tasks THEN (total * M.mem) \div M.tasks ELSE SmallJobMemory(total, M)
  ELSE M.mem

\* The tasks get_job_overrides counts, and the tasks of a node it then allows
JobTotal(job, case) ==
  IF job.tasks > 0 THEN job.tasks * (IF job.threads > 0 THEN job.threads ELSE 1) ELSE case.totalpes
NodeTasks(job, case, M) == Min({JobTotal(job, case), M.tasks})

(***************************************************************************)
(* Queues, in the order of the file                                        *)
(***************************************************************************)
\* get_all_queues: those of a name, the default one (the last that says so) first
AllQueues(queues, name) ==
  LET named == SelectSeq(queues, LAMBDA qu : name = "none" \/ qu.name = name)
      flagged == {i \in DOMAIN named : named[i].default}
  IN IF flagged = {} THEN named
     ELSE LET d == Max(flagged) IN <<named[d]>> \o RemoveAt(named, d)

\* get_default_queue: the one that says so, or the only one
DefaultQueue(queues) ==
  LET flagged == SelectSeq(queues, LAMBDA qu : qu.default)
  IN IF Len(flagged) = 1 THEN flagged ELSE IF Len(queues) = 1 THEN queues ELSE <<>>

Within(n, low, high) == (low = 0 \/ n >= low) /\ (high = 0 \/ n <= high)

\* queue_meets_spec: a queue for one job takes that job whatever it asks
MeetsSpec(qu, job, walltime) ==
  IF qu.jobname # "none" THEN qu.jobname = job.name
  ELSE /\ Within(job.nodes, qu.nodemin, qu.nodemax) /\ Within(job.tasks, qu.jobmin, qu.jobmax)
       /\ walltime > 0 /\ qu.max > 0 /\ qu.strict => walltime <= qu.max

\* select_best_queue: the first that meets the specification
BestQueue(queues, job, name, walltime) ==
  LET fit == SelectSeq(AllQueues(queues, name), LAMBDA qu : MeetsSpec(qu, job, walltime))
  IN IF fit = <<>> THEN <<>> ELSE <<Head(fit)>>

(***************************************************************************)
(* set_job_defaults; job has the tasks and nodes of the job, the wallclock *)
(* time and the queue the user asked for and whether the case is a test    *)
(***************************************************************************)
\* Mutant: a test keeps the time no queue takes.
TimeKept(job, qu) == job.walltime

\* The time of a job for which no queue had the time it asked for
TimeInQueue(job, qu) == IF job.test THEN qu.max ELSE job.walltime

\* The queue, the time asked of it, and whether nothing fitted
Place(queues, job) ==
  LET timed == BestQueue(queues, job, job.queue, job.walltime)
      other == IF job.walltime > 0 THEN BestQueue(queues, job, job.queue, 0) ELSE <<>>
      fallback == DefaultQueue(queues)
  IN IF timed # <<>> THEN [queue |-> timed, time |-> job.walltime, fell |-> FALSE]
     ELSE IF other # <<>> THEN [queue |-> other, time |-> TimeInQueue(job, other[1]), fell |-> FALSE]
     ELSE [queue |-> fallback, time |-> IF fallback = <<>> THEN 0 ELSE fallback[1].max, fell |-> TRUE]

\* A job without a time gets that of its queue, and 20 minutes as a last resort
HardTime == 20
Walltime(queues, job) ==
  LET p == Place(queues, job)
      qu == p.queue[1]
      order == SelectSeq(<<p.time, qu.def, qu.max, DefaultQueue(queues)[1].max, HardTime>>, LAMBDA t : t > 0)
  IN order[1]
=============================================================================
