------------------------------ MODULE TestNames ------------------------------
(***************************************************************************)
(* Which tests a session of create_test runs: full test names (utils.py),  *)
(* suites, groups that share a build and recommended times (get_tests.py), *)
(* the lists of tests in XML (testlist.py, test_utils.py), and the options *)
(* of the command line (create_test.py).  "" and 0 stand for None, "*" for *)
(* the star of a machine or compiler that is left open.                    *)
(***************************************************************************)
EXTENDS Integers, Sequences, FiniteSets, SequencesExt

(***************************************************************************)
(* Full names (parse_test_name, get_full_test_name).  The fields of a name *)
(* are given from left to right; test is the TESTCASE with its options.    *)
(***************************************************************************)
Fields == <<"grid", "compset", "machine", "compiler">>

Open(value) == value \in {"", "*"}
Given(name, f) == ~Open(name[f])

IsFull(name) == \A i \in DOMAIN Fields : Given(name, Fields[i])

\* Mutant: what the session says outweighs the name.
NeverClashes(name, args, f) == FALSE

\* A field the session contradicts.  The compiler of a name is never compared,
\* nor is a field that reads like it.
Clashes(name, args, f) ==
  Given(name, f) /\ args[f] # "" /\ name[f] # name["compiler"] /\ args[f] # name[f]

\* The full name, or <<>> when it cannot be made
FullName(name, args) ==
  LET names == {Fields[i] : i \in DOMAIN Fields}
      missing == \E f \in names : Open(name[f]) /\ args[f] = ""
      mods == name.mods # "" /\ args.mods # "" /\ name.mods # args.mods
  IN IF missing \/ mods \/ \E f \in names : Clashes(name, args, f) THEN <<>>
     ELSE <<[f \in DOMAIN name |->
               IF f \in names THEN IF Open(name[f]) THEN args[f] ELSE name[f]
               ELSE IF f = "mods" /\ name.mods = "" THEN args.mods ELSE name[f]]>>

(***************************************************************************)
(* Suites: a function from names to records [inherit, time, share, perf,   *)
(* tests].  No suite inherits itself.                                      *)
(***************************************************************************)
\* get_test_suite with skip_inherit: the tests the suite itself lists
OwnTests(suites, s, arch) ==
  FoldLeft(LAMBDA all, t : all \o FullName(t, arch), <<>>, suites[s].tests)

AppendNew(tests, new) == FoldLeft(LAMBDA all, t : IF t \in Range(all) THEN all ELSE Append(all, t), tests, new)

\* get_test_suite, to a depth of as many suites as there are
SuiteTests(suites, s, arch) ==
  LET tests[n \in 0 .. Cardinality(DOMAIN suites), u \in DOMAIN suites] ==
        IF n = 0 THEN <<>>
        ELSE FoldLeft(LAMBDA all, i : AppendNew(all, tests[n - 1, i]), OwnTests(suites, u, arch), suites[u].inherit)
  IN tests[Cardinality(DOMAIN suites), s]

ArchOf(test) == [grid |-> "", compset |-> "", machine |-> test.machine, compiler |-> test.compiler, mods |-> ""]
SuiteHasTest(suites, s, test) == test \in Range(OwnTests(suites, s, ArchOf(test)))

ShareSuites(suites, test) == {s \in DOMAIN suites : suites[s].share /\ SuiteHasTest(suites, s, test)}

\* Mutant: a test joins every group that shares a suite with it.
JoinsEach(groups, mine) == {i \in DOMAIN groups : groups[i].suites \cap mine # {}}

\* The first group that shares a suite with the test
Joins(groups, mine) ==
  LET fit == {i \in DOMAIN groups : groups[i].suites \cap mine # {}}
  IN {i \in fit : \A j \in fit : i <= j}

\* get_build_groups
BuildGroups(suites, tests) ==
  LET Place(groups, t) ==
        LET mine == ShareSuites(suites, t)
        IN IF Joins(groups, mine) = {} THEN Append(groups, [tests |-> <<t>>, suites |-> mine])
           ELSE [i \in DOMAIN groups |->
                   IF i \in Joins(groups, mine)
                   THEN [tests |-> Append(groups[i].tests, t), suites |-> groups[i].suites \cup mine]
                   ELSE groups[i]]
  IN FoldLeft(Place, <<>>, tests)

\* is_perf_test; PFS tests are performance tests
IsPerfTest(suites, test) ==
  test.test = "PFS" \/ \E s \in DOMAIN suites : suites[s].perf /\ SuiteHasTest(suites, s, test)

\* get_recommended_test_time: the shortest time of a suite that lists the test
RecommendedTime(suites, test) ==
  LET times == {suites[s].time : s \in {u \in DOMAIN suites : suites[u].time > 0 /\ SuiteHasTest(suites, u, test)}}
  IN IF times = {} THEN 0 ELSE CHOOSE t \in times : \A u \in times : t <= u

NoTime == 99999999
KeyTime(suites, test) == IF RecommendedTime(suites, test) = 0 THEN NoTime ELSE RecommendedTime(suites, test)

(***************************************************************************)
(* The arguments of create_test: [not, suite, name], a suite or a name,    *)
(* maybe with ^ in front                                                   *)
(***************************************************************************)
\* infer_arch_from_tests: the machine and compilers the names give
InferArch(args) ==
  LET names == SelectSeq(args, LAMBDA a : a.suite = "")
      machines == {n.name.machine : n \in Range(names)} \ {"", "*"}
      compilers == FoldLeft(LAMBDA all, n : IF Open(n.name.compiler) THEN all ELSE AppendNew(all, <<n.name.compiler>>),
                            <<>>, names)
  IN [failed |-> Cardinality(machines) > 1, machines |-> machines, compilers |-> compilers]

Meant(suites, a, arch) ==
  IF a.suite # "" THEN Range(SuiteTests(suites, a.suite, arch)) ELSE Range(FullName(a.name, arch))

\* Mutant: ^ takes away what was asked for before it.
InOrder(suites, args, arch) ==
  FoldLeft(LAMBDA all, a : IF a.not THEN all \ Meant(suites, a, arch) ELSE all \cup Meant(suites, a, arch), {}, args)

\* get_full_test_names: the arguments with ^ are put off to the end
Selected(suites, args, arch) ==
  LET asked == FoldLeft(LAMBDA all, a : IF a.not THEN all ELSE all \cup Meant(suites, a, arch), {}, args)
  IN FoldLeft(LAMBDA all, a : IF a.not THEN all \ Meant(suites, a, arch) ELSE all, asked, args)

SelectionFails(suites, args, arch) ==
  \E a \in Range(args) : IF a.suite # "" THEN a.suite \notin DOMAIN suites ELSE FullName(a.name, arch) = <<>>

(***************************************************************************)
(* Lists of tests in XML (Testlist.get_tests, get_tests_from_xml).  A test *)
(* has options for all machines and a sequence of machines, each with      *)
(* options of its own, which win.                                          *)
(***************************************************************************)
XmlTests(list, machine, category, compiler) ==
  LET Wanted(m) == /\ machine \in {"", m.machine} /\ category \in {"", m.category}
                   /\ compiler \in {"", m.compiler}
      Options(t, m) == [o \in DOMAIN t.options \cup DOMAIN m.options |->
                          IF o \in DOMAIN m.options THEN m.options[o] ELSE t.options[o]]
      Test(t, m) == [name |-> t.name, machine |-> m.machine, compiler |-> m.compiler, options |-> Options(t, m)]
      Of(t) == LET ms == SelectSeq(t.machines, Wanted) IN [i \in DOMAIN ms |-> Test(t, ms[i])]
  IN FlattenSeq([i \in DOMAIN list |-> Of(list[i])])

\* The full names, on the machine and with the compiler of the session if it
\* gives one; the driver, if given, replaces the one in the name
XmlNames(list, machine, category, compiler, session) ==
  LET Arch(x) == [grid |-> "", compset |-> "", mods |-> "",
                  machine |-> IF session.machine = "" THEN x.machine ELSE session.machine,
                  compiler |-> IF session.compiler = "" THEN x.compiler ELSE session.compiler]
      Driven(n) == IF session.driver = "" THEN n ELSE [n EXCEPT !.driver = session.driver]
      tests == XmlTests(list, machine, category, compiler)
  IN [i \in DOMAIN tests |-> [k \in DOMAIN FullName(tests[i].name, Arch(tests[i])) |->
                                Driven(FullName(tests[i].name, Arch(tests[i]))[k])]]

(***************************************************************************)
(* Options (parse_command_line); o is a record of the options given        *)
(***************************************************************************)
OptionsClash(o) ==
  \/ IF o.cesm THEN o.generate # "" /\ o.generate = o.compare
     ELSE (o.compare # "" /\ o.generate # "") \/ (o.baseline_name # "" /\ o.compare = "" /\ o.generate = "")
  \/ o.namelists_only /\ o.generate = "" /\ o.compare = ""
  \/ o.use_existing /\ o.test_id = ""
  \/ o.force_rebuild /\ ~(o.use_existing /\ o.test_id # "")
  \/ o.namelists_only /\ o.no_setup
  \/ o.non_local /\ ~(o.no_build \/ o.no_setup \/ o.namelists_only)
  \/ o.single_submit /\ (o.no_run \/ o.no_build \/ o.no_setup \/ o.namelists_only)

\* Mutant: to compare namelists only, nothing else changes.
NoBuildGiven(o) == o.no_setup

ImpliesNoBuild(o) == o.no_setup \/ o.namelists_only \/ o.single_submit

\* The options in force
Effective(o) ==
  LET no_build == o.no_build \/ ImpliesNoBuild(o)
  IN [o EXCEPT !.wait = @ \/ o.retry > 0, !.no_build = no_build,
        !.no_run = @ \/ no_build \/ o.no_setup, !.no_batch = @ \/ o.namelists_only \/ o.single_submit]

\* A session that submits itself: the job runs the tests in place and does
\* everything the first pass left out
InTheJob(o) == [o EXCEPT !.single_submit = FALSE, !.no_batch = TRUE, !.use_existing = TRUE]

\* _main_func: up to 1 + retry rounds; later ones use the cases of the first and
\* may overwrite the baselines
Rounds(o, results) ==
  LET stop == {i \in DOMAIN results : i = o.retry + 1 \/ results[i]}
      last == CHOOSE i \in stop : \A j \in stop : i <= j
  IN [n \in 1 .. last |-> [use_existing |-> o.use_existing \/ n > 1,
                           overwrite |-> o.allow_baseline_overwrite \/ n > 1, passed |-> results[n]]]
=============================================================================
