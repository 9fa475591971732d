------------------------------- MODULE PeLayout -------------------------------
(***************************************************************************)
(* The processor layout of a case: how many tasks, nodes and threads the   *)
(* values of env_mach_pes.xml ask for (EnvMachPes, the derived attributes  *)
(* of Case, aprun.py).  A layout L gives each component ntasks, nthrds,    *)
(* rootpe and pstrid and the options of the driver; a machine M gives the  *)
(* sizes of its nodes.  Then the layouts of the two runs of a test.        *)
(***************************************************************************)
EXTENDS Integers, Sequences, FiniteSets, FiniteSetsExt

CeilDiv(a, b) == (a + b - 1) \div b

Comps(L) == DOMAIN L.ntasks

OnGpus(M) == M.ngpus > 0

\* NTASKS and ROOTPE below 0 count nodes
InTasks(M, n) ==
  IF n >= 0 THEN n ELSE IF OnGpus(M) THEN -n * M.cputasks_gpu ELSE -n * M.mpitasks

NTasks(L, M, c)  == InTasks(M, L.ntasks[c])
RootPe(L, M, c)  == InTasks(M, L.rootpe[c])

MaxThreads(L) == Max({1} \cup {L.nthrds[c] : c \in Comps(L)})

\* The tasks of component c as the driver numbers them (without its threads)
PesOf(L, M, c) == {RootPe(L, M, c) + i * L.pstrid[c] : i \in 0 .. (NTasks(L, M, c) - 1)}

\* The first pe after component c; only a driver that knows threads counts them
LastPe(L, M, c) ==
  LET threads == IF L.ninst > 0 /\ L.esmf THEN L.nthrds[c] ELSE 1
  IN RootPe(L, M, c) + threads * ((NTasks(L, M, c) - 1) * L.pstrid[c] + 1)

\* Mutant: the root pe is not counted.
LastPeFromZero(L, M, c) == LastPe(L, M, c) - RootPe(L, M, c)

EndOf(L, M, c) == LastPe(L, M, c)

AsyncTasks(L) == IF L.ninst > 0 /\ L.async /\ L.stride > 0 THEN L.iotasks ELSE 0

\* get_total_tasks: ninst is 0 where the driver has one NINST per component
TotalTasks(L, M) ==
  LET instances == IF L.ninst > 0 THEN L.ninst ELSE Max({1} \cup {L.ninsts[c] : c \in Comps(L) \ {"CPL"}})
      one == Max({0} \cup {EndOf(L, M, c) : c \in Comps(L)}) + AsyncTasks(L)
  IN IF L.multi THEN one * instances ELSE one

\* get_tasks_per_node
TasksPerNode(L, M, total, threads) ==
  LET gpu == IF M.oversubscribe THEN M.cputasks_gpu ELSE M.ngpus
      n == IF L.nuopc /\ L.esmf THEN IF OnGpus(M) THEN gpu ELSE M.mpitasks
           ELSE IF OnGpus(M) THEN Min({gpu, total})
           ELSE Min({M.tasks \div threads, M.mpitasks, total})
  IN Max({n, 1})

\* get_total_nodes
Nodes(L, M, total, threads) ==
  CeilDiv(total, TasksPerNode(L, M, total, IF L.nuopc /\ L.esmf THEN 1 ELSE threads))

NodesFor(L, M, total, threads) == Nodes(L, M, total, threads)

\* get_spare_nodes: a tenth, at least one and at most ten
SpareNodes(L, nodes) ==
  IF L.forced_spare # -999 THEN L.forced_spare
  ELSE IF L.spare THEN Min({10, Max({1, CeilDiv(nodes, 10)})}) ELSE 0

(***************************************************************************)
(* Case.initialize_derived_attributes                                      *)
(***************************************************************************)
NodeMpi(M) == IF OnGpus(M) THEN M.cputasks_gpu ELSE M.mpitasks

SmtFactor(M) == Max({1, M.tasks \div NodeMpi(M)})

Derived(L, M) ==
  LET total == TotalTasks(L, M)
      threads == MaxThreads(L)
      tpn == TasksPerNode(L, M, total, threads)
      nodes == NodesFor(L, M, total, threads)
  IN [total |-> total, threads |-> threads, per_node |-> tpn, nodes |-> nodes,
      spare |-> SpareNodes(L, nodes), numa |-> CeilDiv(tpn, 2),
      per_core |-> IF tpn * threads <= NodeMpi(M) THEN 1 ELSE SmtFactor(M),
      binding |-> Max({1, (SmtFactor(M) * NodeMpi(M)) \div tpn})]

(***************************************************************************)
(* aprun.py: one group of tasks per run of pes with the same threads       *)
(***************************************************************************)
\* Mutant: the last task of a strided component is left out of count.
AprunShort(L, M) == Max({RootPe(L, M, c) + NTasks(L, M, c) : c \in Comps(L)})

AprunTotal(L, M) ==
  Max({0} \cup {RootPe(L, M, c) + (NTasks(L, M, c) - 1) * L.pstrid[c] + 1 : c \in Comps(L)})
    + (IF ~L.async THEN 0 ELSE IF L.pio_numtasks > 0 THEN L.pio_numtasks ELSE M.mpitasks)

ThreadsAt(L, M, s) == Max({1} \cup {L.nthrds[c] : c \in {d \in Comps(L) : s \in PesOf(L, M, d)}})

\* The pes at which a group starts
GroupStarts(L, M) ==
  {s \in 0 .. (AprunTotal(L, M) - 1) :
     s = 0 \/ ThreadsAt(L, M, s) # ThreadsAt(L, M, s - 1)}

GroupTasks(L, M, s) ==
  Min({AprunTotal(L, M)} \cup {t \in GroupStarts(L, M) : t > s}) - s

GroupPerNode(L, M, s) ==
  Min({GroupTasks(L, M, s), M.mpitasks, Max({1, M.tasks}) \div ThreadsAt(L, M, s)})

\* int(max_tasks_per_node / thread_count) is 0 and then divides
AprunFails(L, M) == \E s \in GroupStarts(L, M) : GroupPerNode(L, M, s) = 0

Aprun(L, M) ==
  LET groups == GroupStarts(L, M)
      nodes(s) == CeilDiv(GroupTasks(L, M, s), GroupPerNode(L, M, s))
  IN [nodes |-> MapThenSumSet(nodes, groups), total |-> AprunTotal(L, M),
      per_node |-> Min({M.mpitasks} \cup {GroupPerNode(L, M, s) : s \in groups}),
      threads |-> Max({ThreadsAt(L, M, s) : s \in groups})]

(***************************************************************************)
(* The processors of the two runs of a test: what _common_setup,           *)
(* _case_one_setup and _case_two_setup of the tests that change the layout *)
(* do to the layout L of the case they are given, with the order of its    *)
(* components.  The job of the test is made for case one and runs both.    *)
(***************************************************************************)
\* The values get_value gives: those below 0 in tasks
InTaskCounts(L, M) ==
  [L EXCEPT !.ntasks = [c \in Comps(L) |-> NTasks(L, M, c)], !.rootpe = [c \in Comps(L) |-> RootPe(L, M, c)]]

Halved(n) == IF n > 1 THEN n \div 2 ELSE n

\* f with g in place of it on the components in S
On(S, f, g) == [c \in DOMAIN f |-> IF c \in S THEN g[c] ELSE f[c]]
All(L, n) == [c \in Comps(L) |-> n]
Half(f) == [c \in DOMAIN f |-> Halved(f[c])]
Twice(f) == [c \in DOMAIN f |-> 2 * f[c]]

(***************************************************************************)
(* NCK: one instance, then two, each with the same tasks                   *)
(***************************************************************************)
NckComps(L) == Comps(L) \ {"CPL"}
Moved(L) == {c \in NckComps(L) : L.rootpe[c] > 1}

NckCommon(L) ==
  [L EXCEPT !.ntasks = On(NckComps(L), @, Half(@)),
            !.rootpe = On(Moved(L), @, [c \in Comps(L) |-> @[c] + L.ntasks[c] \div 2])]

NckOne(L) == [L EXCEPT !.ninsts = On(NckComps(L), @, All(L, 1))]

\* Mutant: the components stay where they were.
NckTwoInPlace(L) ==
  [L EXCEPT !.ninsts = On(NckComps(L) \ {"ESP"}, All(L, 1), All(L, 2)), !.ntasks = On(NckComps(L), @, Twice(@))]

NckTwo(L) ==
  [L EXCEPT !.ninsts = On(NckComps(L), @, On({"ESP"}, All(L, 2), All(L, 1))),
            !.ntasks = On(NckComps(L), @, Twice(@)),
            !.rootpe = On(Moved(L), @, [c \in Comps(L) |-> @[c] - L.ntasks[c]])]

(***************************************************************************)
(* NCR: two instances, every component in tasks of its own, then one       *)
(***************************************************************************)
NcrComps(L) == Comps(L) \ {"CPL", "ESP"}

NcrCommon(L) == [L EXCEPT !.ntasks = On(NcrComps(L), @, Half(@))]

\* Mutant: a component starts after half of the one before it.
NcrRootHalf(L, i) ==
  MapThenSumSet(LAMBDA j : L.ntasks[L.order[j]], {j \in 1 .. (i - 1) : L.order[j] \in NcrComps(L)})

\* The tasks of the components before the i-th
NcrRoot(L, i) ==
  MapThenSumSet(LAMBDA j : 2 * L.ntasks[L.order[j]], {j \in 1 .. (i - 1) : L.order[j] \in NcrComps(L)})

NcrOne(L) ==
  LET root == [c \in Comps(L) |-> NcrRoot(L, CHOOSE i \in DOMAIN L.order : L.order[i] = c)]
  IN [L EXCEPT !.ninsts = On(NcrComps(L), @, All(L, 2)), !.rootpe = On(NcrComps(L), @, root),
               !.ntasks = On(NcrComps(L), @, Twice(@))]

NcrTwo(L) ==
  [L EXCEPT !.ninsts = On(NcrComps(L), @, All(L, 1)), !.rootpe = On(NcrComps(L), @, All(L, 0))]

(***************************************************************************)
(* PEM, ERP: half the tasks of case one, ERP half its threads too          *)
(***************************************************************************)
HalfTasks(one, L) ==
  LET many == {c \in Comps(L) : one.ntasks[c] > 1}
  IN [L EXCEPT !.ntasks = On(many, @, Half(one.ntasks)),
               !.rootpe = On(many, @, [c \in Comps(L) |-> one.rootpe[c] \div 2])]

PemTwo(one, L) == HalfTasks(one, L)

ErpTwo(one, L) ==
  [HalfTasks(one, L) EXCEPT !.nthrds = On({c \in Comps(L) : one.nthrds[c] > 1}, @, Half(one.nthrds))]

(***************************************************************************)
(* PET: threads, then none; PEA: one task, with MPI and without            *)
(***************************************************************************)
PetOne(L) == [L EXCEPT !.nthrds = On({c \in Comps(L) : @[c] <= 1}, @, All(L, 2))]
PetTwo(L) == [L EXCEPT !.nthrds = All(L, 1)]

PeaCommon(L) == [L EXCEPT !.ntasks = All(L, 1), !.nthrds = All(L, 1), !.rootpe = All(L, 0)]

(***************************************************************************)
(* SEQ: all at task 0 if they were not, or else each in tasks of its own   *)
(***************************************************************************)
\* TOTALPES, which case_setup writes; M.cost are the tasks of a node that are
\* paid for
TotalPes(L, M) ==
  LET total == TotalTasks(L, M) - AsyncTasks(L)
      threads == MaxThreads(L)
      smt == Max({1, M.tasks \div M.cost})
  IN AsyncTasks(L) + IF threads > 1 /\ TotalTasks(L, M) * threads > M.cost
                     THEN Max({total, (total * threads) \div smt})
                     ELSE total * threads

\* Mutant: the first component shares the tasks of the coupler.
SeqRootFromZero(L, i, n) == n * Cardinality({j \in 1 .. (i - 1) : L.order[j] # "CPL"})

\* The coupler has the first n tasks
SeqRoot(L, i, n) == n * Cardinality({j \in 1 .. i : L.order[j] # "CPL"})

SeqTwo(L, M) ==
  LET n == Max({1, TotalPes(L, M) \div Len(L.order)})
      root == [c \in Comps(L) |-> SeqRoot(L, CHOOSE i \in DOMAIN L.order : L.order[i] = c, n)]
  IN IF \E c \in Comps(L) : L.rootpe[c] # 0 THEN [L EXCEPT !.rootpe = All(L, 0)]
     ELSE [L EXCEPT !.ntasks = All(L, n), !.rootpe = On(Comps(L) \ {"CPL"}, @, root)]

(***************************************************************************)
(* MCC: a driver for each of three instances, then one                     *)
(***************************************************************************)
Instances(L, n) ==
  IF L.ninst > 0 THEN [L EXCEPT !.ninst = n] ELSE [L EXCEPT !.ninsts = On(Comps(L) \ {"CPL"}, @, All(L, n))]

MccOne(L) == [Instances(L, 3) EXCEPT !.multi = TRUE]
MccTwo(L) == Instances(L, 1)

(***************************************************************************)
(* The layouts of case one and case two                                    *)
(***************************************************************************)
CaseOne(test, L, M) ==
  LET given == InTaskCounts(L, M)
  IN CASE test = "NCK" -> NckOne(NckCommon(given))
       [] test = "NCR" -> NcrOne(NcrCommon(given))
       [] test = "PET" -> PetOne(given)
       [] test = "PEA" -> PeaCommon(given)
       [] test = "MCC" -> MccOne(given)
       [] OTHER -> given

CaseTwo(test, L, M) ==
  LET given == InTaskCounts(L, M)
      one == CaseOne(test, L, M)
  IN CASE test = "NCK" -> NckTwo(NckCommon(given))
       [] test = "NCR" -> NcrTwo(NcrCommon(given))
       [] test = "PEM" -> PemTwo(one, given)
       [] test = "ERP" -> ErpTwo(one, given)
       [] test = "PET" -> PetTwo(given)
       [] test = "PEA" -> PeaCommon(given)
       [] test = "SEQ" -> SeqTwo(given, M)
       [] test = "MCC" -> MccTwo(given)
       [] OTHER -> given
=============================================================================
