----------------------------- MODULE MCCaseFiles -----------------------------
(***************************************************************************)
(* The programs of a case on its files (CaseXml), or one question to the   *)
(* algorithms that compute what is in them (CaseLaws).                     *)
(***************************************************************************)
EXTENDS CaseXml, CaseLaws, TLC

Symmetry == Permutations(Procs) \cup Permutations(Objs) \cup Permutations(Ids)

\* Nothing happens to the files while a question is asked
MCInit == Init /\ IF whole /\ alone THEN q = NoQuestion \/ Question ELSE q = NoQuestion
MCNext == q = NoQuestion /\ Next /\ UNCHANGED q
MCSpec == MCInit /\ [][MCNext]_<<vars, q>>

UpTo(S, n) == UNION {[1 .. k -> S] : k \in 0 .. n}
Orderings(S) == {s \in UpTo(S, Cardinality(S)) : Cardinality(Range(s)) = Len(s)}

(***************************************************************************)
(* Processors: counted in tasks and in nodes, apart and overlapping, with  *)
(* threads and strides; a node smaller than its threads' product, and one  *)
(* with GPUs                                                               *)
(***************************************************************************)
Layout(n1, t1, r1, s1, n2, t2, r2, opt) ==
  [ntasks |-> [ATM |-> n1, CPL |-> n2], nthrds |-> [ATM |-> t1, CPL |-> t2],
   rootpe |-> [ATM |-> r1, CPL |-> r2], pstrid |-> [ATM |-> s1, CPL |-> 1],
   ninsts |-> [ATM |-> 2, CPL |-> 1], ninst |-> opt.ninst, esmf |-> opt.esmf, nuopc |-> opt.ninst > 0,
   multi |-> opt.multi, async |-> opt.async, stride |-> 1, iotasks |-> 3, pio_numtasks |-> 3,
   forced_spare |-> -999, spare |-> TRUE]
LayoutOptions == {[ninst |-> 0, esmf |-> FALSE, multi |-> FALSE, async |-> FALSE],
                  [ninst |-> 0, esmf |-> FALSE, multi |-> TRUE, async |-> FALSE],
                  [ninst |-> 2, esmf |-> TRUE, multi |-> TRUE, async |-> FALSE],
                  [ninst |-> 1, esmf |-> FALSE, multi |-> FALSE, async |-> TRUE]}
Machine(tasks, mpitasks, ngpus) ==
  [tasks |-> tasks, mpitasks |-> mpitasks, ngpus |-> ngpus, cputasks_gpu |-> 2, oversubscribe |-> FALSE]
MCLayouts ==
  {[kind |-> "layout", L |-> Layout(n1, t1, r1, s1, n2, t2, r2, opt), M |-> M] :
     n1 \in {1, 3, 5, -1}, t1 \in {1, 2}, r1 \in {0, 2, -1}, s1 \in {1, 3}, n2 \in {2, -2}, t2 \in {1, 3}, r2 \in {0, 4},
     opt \in LayoutOptions, M \in {Machine(4, 4, 0), Machine(8, 3, 0), Machine(4, 4, 2)}}

(***************************************************************************)
(* Defaults                                                                *)
(***************************************************************************)
Attr(name, matches) == [name |-> name, matches |-> matches]
AttrLists == {<<>>, <<Attr("grid", {"T31"})>>, <<Attr("mach", {"m1", "m2"})>>,
              <<Attr("grid", {"T31", "f09"}), Attr("mach", {"m1"})>>, <<Attr("mach", {"m2"}), Attr("grid", {"f09"})>>}
Cases == {[grid |-> g, mach |-> m] : g \in {"T31", "f09"}, m \in {"m1", "m2"}}
           \cup {[grid |-> g] : g \in {"T31", "f09"}} \cup {[x \in {} |-> ""]}
MCEntries ==
  {[kind |-> "entry", A |-> A,
    entry |-> [values |-> [i \in DOMAIN attrs |-> [attrs |-> attrs[i], text |-> i]], default |-> <<0>>,
               modifier |-> mod, match |-> match]] :
     A \in Cases, attrs \in UpTo(AttrLists, 3), mod \in {"none", "additive", "merge"}, match \in {"first", "last"}}

PesKinds == {{"any"}, {"T31"}} \X {{"any"}, {"m1"}} \X {{"any"}, {"B", "C"}}
PesOf(g, m, c, i) == [grid |-> g, mach |-> m, compset |-> c, pesize |-> {"any"}, pes |-> [k \in {<<"ntasks", "ATM">>} |-> i]]
MCPesFiles ==
  {[kind |-> "pes", nodes |-> [i \in DOMAIN ks |-> PesOf(ks[i][1], ks[i][2], ks[i][3], i)], spec |-> spec, overrides |-> over] :
     ks \in UpTo(PesKinds, 3),
     spec \in {[grid |-> "T31", mach |-> m, compset |-> c, pesize |-> "M", mpilib |-> "mpich"] :
                 m \in {"m1", "m2"}, c \in {"B", "X"}},
     over \in {<<>>, <<PesOf({"T31"}, {"any"}, {"any"}, 9)>>}}

Element(class, name, tagged) == [class |-> class, name |-> name, tagged |-> tagged]
MCCompsets ==
  {[kind |-> "compset", classes |-> <<"atm", "lnd", "ocn">>, elems |-> s] :
     s \in {t \in Orderings({Element("scn", "2000", TRUE), Element("atm", "DATM", TRUE), Element("lnd", "CLM", TRUE),
                             Element("extra", "BGC", FALSE), Element("ocn", "POP", TRUE)}) :
              \E i \in DOMAIN t : t[i].class = "scn"}
            \cup {<<Element("scn", "2000", FALSE)>> \o t :
                    t \in Orderings({Element("atm", "DATM", FALSE), Element("ocn", "POP", FALSE), Element("extra", "TEST", FALSE)})}}

(***************************************************************************)
(* Queues and jobs: no limits, limits, strict times, a queue for one job   *)
(***************************************************************************)
Queue(name, default, strict, max, nodemax, jobname) ==
  [name |-> name, default |-> default, strict |-> strict, max |-> max, def |-> 0, nodemin |-> 0, nodemax |-> nodemax,
   jobmin |-> 0, jobmax |-> 0, jobname |-> jobname]
QueueKinds == {Queue("long", d, s, 12, n, "none") : d, s \in BOOLEAN, n \in {0, 4}}
                \cup {Queue("short", FALSE, s, 2, n, "none") : s \in BOOLEAN, n \in {0, 1}}
                \cup {Queue("share", FALSE, TRUE, 0, 1, "case.st_archive")}
MCJobs ==
  {[kind |-> "job", queues |-> qs, M |-> [mem |-> 64, mem_per_task |-> 5, tasks |-> 40],
    job |-> [name |-> nm, nodes |-> n, tasks |-> n * 4, walltime |-> w, queue |-> qu, test |-> t]] :
     qs \in UpTo(QueueKinds, 2) \ {<<>>}, nm \in {"case.run", "case.st_archive"}, n \in {1, 8}, w \in {0, 1, 6, 24},
     qu \in {"none", "short"}, t \in BOOLEAN}

(***************************************************************************)
(* Values: five variables in two files that refer to each other            *)
(***************************************************************************)
Lit(x) == [ref |-> FALSE, x |-> <<x>>, comp |-> ""]
Ref(n) == [ref |-> TRUE, x |-> <<n>>, comp |-> ""]
Plain(text) == [per |-> FALSE, text |-> text, valid |-> {}]
VarTexts == {<<Lit("x")>>} \cup {<<Ref(n)>> : n \in {"A", "B", "C", "D", "E"}}
MCVariables ==
  {[kind |-> "variable", name |-> <<"A">>,
    files |-> <<[comps |-> <<"ATM">>, entries |-> (<<"A">> :> Plain(a)) @@ (<<"B">> :> Plain(b)) @@ (<<"E">> :> Plain(<<Lit("e")>>))],
                [comps |-> <<"ATM">>, entries |-> (<<"C">> :> Plain(c)) @@ (<<"D">> :> Plain(d))]>>] :
     a \in {<<Ref("B")>>, <<Ref("C")>>, <<Ref("E"), Lit("/"), Ref("D")>>, <<Ref("Z")>>}, b, c, d \in VarTexts}

SettingFile(stop, atm, ocn) ==
  [comps |-> <<"ATM", "OCN">>,
   entries |-> (<<"STOP_N">> :> Plain(<<Lit(stop)>>))
                 @@ (<<"NTASKS">> :> [per |-> TRUE, valid |-> {}, text |-> [ATM |-> <<Lit(atm)>>, OCN |-> <<Lit(ocn)>>]])]
MCValueSettings ==
  {[kind |-> "setting", file |-> SettingFile(s, a, o), name |-> n, text |-> <<Lit(t)>>] :
     s, a, o, t \in {"1", "2"}, n \in {<<"STOP_N">>, <<"NTASKS">>, <<"NTASKS", "ATM">>, <<"NTASKS", "OCN">>, <<"STOP_N", "ATM">>}}

(***************************************************************************)
(* Tests                                                                   *)
(***************************************************************************)
TestName(test, grid, machine, compiler) ==
  [test |-> test, mods |-> "", grid |-> grid, compset |-> "A", machine |-> machine, compiler |-> compiler]
Session(grid, machine, compiler) ==
  [grid |-> grid, compset |-> "", machine |-> machine, compiler |-> compiler, mods |-> ""]
MCFullNames ==
  {[kind |-> "name", name |-> TestName("SMS", g, m, c), args |-> Session(h, n, d)] :
     g, h \in {"", "f09"}, m \in {"", "*", "m1", "m2", "gnu"}, n \in {"", "m1", "m2"},
     c \in {"", "*", "gnu", "intel"}, d \in {"", "gnu", "intel"}}

Tests == {TestName(t, "f09", "m1", "gnu") : t \in {"SMS", "ERS", "ERP"}}
Suite(tests, share, inherit) ==
  [tests |-> tests, share |-> share, inherit |-> inherit, time |-> 0, perf |-> FALSE]
MCSuites ==
  {[kind |-> "suites", tests |-> order, suites |-> [s1 |-> Suite(a, TRUE, <<>>), s2 |-> Suite(b, TRUE, <<>>), s3 |-> Suite(c, share, <<>>)]] :
     order \in {o \in Orderings(Tests) : Len(o) = 3}, a, b, c \in {SetToSeq(x) : x \in SUBSET Tests}, share \in BOOLEAN}

Argument(not, suite, name) == [not |-> not, suite |-> suite, name |-> name]
SomeTest == TestName("SMS", "f09", "m1", "gnu")
ArgumentKinds ==
  {Argument(n, s, SomeTest) : n \in BOOLEAN, s \in {"s1", "s2"}}
    \cup {Argument(n, "", TestName(t, "f09", "", "")) : n \in BOOLEAN, t \in {"SMS", "ERS"}}
MCArguments ==
  {[kind |-> "arguments", args |-> args, arch |-> Session("", "m1", "gnu"),
    suites |-> [s1 |-> Suite(<<TestName("SMS", "f09", "", "")>>, TRUE, i), s2 |-> Suite(b, TRUE, <<>>)]] :
     args \in UpTo(ArgumentKinds, 3), i \in {<<>>, <<"s2">>},
     b \in {<<TestName("ERS", "f09", "", "")>>, <<TestName("ERP", "f09", "", ""), SomeTest>>}}

MCCommandLines ==
  {[kind |-> "options",
    o |-> [cesm |-> c, generate |-> g, compare |-> p, baseline_name |-> "", namelists_only |-> n, use_existing |-> u,
           test_id |-> IF u THEN "t" ELSE "", force_rebuild |-> FALSE, no_setup |-> s, no_build |-> b, no_run |-> r,
           no_batch |-> FALSE, non_local |-> l, single_submit |-> i, retry |-> y, wait |-> w,
           allow_baseline_overwrite |-> FALSE]] :
     c, n, u, s, b, r, l, i, w \in BOOLEAN, g, p \in {"", "b1"}, y \in {0, 1}}

(***************************************************************************)
(* Baselines: two models, one of them left out, two dates of one stream    *)
(***************************************************************************)
Hist(model, stream, date) == [model |-> model, inst |-> 0, stream |-> stream, date |-> date, kind |-> "hist"]
Contents == {[T |-> 1], [T |-> 2], [T |-> 1, U |-> 1]}
HistNames == {Hist("cam", 0, 1), Hist("cam", 0, 2), Hist("cam", 1, 1), Hist("cpl", 0, 1)}
HistDirs(names) == UNION {[d -> Contents] : d \in SUBSET names}
Base(exists, hists) ==
  [exists |-> exists, log |-> TRUE, hists |-> hists, docs |-> [f \in {} |-> 0], user_nl |-> [f \in {} |-> 0], tput |-> <<>>, mem |-> <<>>]
HistTest(hists, excluded, log) ==
  [bless_log |-> log, models |-> <<"cam", "cpl">>, excluded |-> excluded, hists |-> hists, all_hist |-> FALSE, no_hist |-> FALSE, build_only |-> FALSE]
MCBaselineDirs ==
  {[kind |-> "baseline", T |-> HistTest(h, x, l), base |-> Base(e, b)] :
     h \in HistDirs(HistNames \ {Hist("cam", 0, 1)}), b \in HistDirs(HistNames \ {Hist("cam", 1, 1)}),
     x \in {{}, {"cpl"}}, l \in BOOLEAN, e \in {TRUE}}

Phases == <<"CREATE_NEWCASE", "XML", "SETUP", "SHAREDLIB_BUILD", "MODEL_BUILD", "SUBMIT">>
Extra == {"COMPARE_base_rest", "BASELINE", "GENERATE", "MEMLEAK"}
Shown(st) == [p \in Range(Phases) \cup Extra \cup {"RUN", "NLCOMP", "TPUTCOMP", "MEMCOMP", "SHORT_TERM_ARCHIVER"} |->
                IF p \in DOMAIN st THEN st[p] ELSE IF p \in Range(Phases) THEN "PASS" ELSE "NONE"]
MCStatuses ==
  {[kind |-> "status",
    ts |-> [st |-> Shown(st @@ ("RUN" :> r)), cm |-> [p \in DOMAIN Shown(st) |-> ""],
            order |-> Phases \o <<"RUN">> \o SetToSeq({p \in Extra : st[p] # "NONE"})]] :
     r \in {"PEND", "PASS", "FAIL"}, st \in [Extra -> {"NONE", "PASS", "FAIL"}]}

(***************************************************************************)
(* Namelists                                                               *)
(***************************************************************************)
Values == UpTo({"", "1", "2"}, 2) \ {<<>>}
NameLists == {[g \in {} |-> <<>>]} \cup {[g1 |-> [v |-> x]] : x \in Values} \cup {[g1 |-> [w |-> x]] : x \in Values}
               \cup {[g1 |-> [v |-> x], g2 |-> [w |-> <<"3">>]] : x \in Values}
MCMerges == {[kind |-> "merge", nl |-> a, other |-> b] : a, b \in NameLists}

Path(base, dir) == [base |-> base, dir |-> dir, run |-> "r"]
Strings == {Path("f1", "d1"), Path("f2", "d1"), Path("f1", "d2")}
NlValues == {[type |-> "str", items |-> <<s>>] : s \in Strings} \cup {[type |-> "list", items |-> s] : s \in [1 .. 2 -> Strings]}
              \cup {[type |-> "dict", items |-> [k |-> s]] : s \in Strings}
Parsed == {[g \in {} |-> <<>>]} \cup {[g1 |-> [fname |-> x]] : x \in NlValues} \cup {[g1 |-> [mapname |-> x]] : x \in NlValues}
            \cup {[g1 |-> [runid |-> x]] : x \in NlValues}
            \cup {[g1 |-> [fname |-> x, runid |-> x], g2 |-> [mapname |-> x]] : x \in NlValues}
Setting(text, names_case) == [text |-> text, names_case |-> names_case]
RunConfigs == {[s \in {} |-> <<>>]}
                \cup {[s1 |-> [runid |-> Setting(t, n)]] : t \in {"1", "2"}, n \in BOOLEAN}
                \cup {[s1 |-> [username |-> Setting(t, FALSE)]] : t \in {"1", "2"}}
                \cup {[s1 |-> [runid |-> Setting("1", FALSE), j |-> Setting(t, FALSE)]] : t \in {"1", "2"}}
DocLines == UpTo({Path("", ""), Path("f1", "d1"), Path("f2", "d1"), Path("f1", "d2")}, 3)

\* Files of namelists: a value on one line or, with commas, on two
Line(kind, name, value, goes) == [kind |-> kind, name |-> name, value |-> value, goes |-> goes]
OneName(s) == [type |-> "str", items |-> <<s>>]
SetLines(v) ==
  {<<Line("set", v, OneName(Path("f1", "d1")), FALSE)>>,
   <<Line("set", v, [type |-> "list", items |-> <<Path("f1", "d1")>>], TRUE), Line("more", "", OneName(Path("f2", "d1")), FALSE)>>,
   <<Line("set", v, [type |-> "dict", items |-> [k |-> Path("f1", "d1")]], TRUE),
     Line("more", "", [type |-> "dict", items |-> [j |-> Path("f2", "d1")]], FALSE)>>}
GroupLines(g) ==
  {<<Line("open", g, OneName(Path(g, "")), FALSE)>> \o body \o <<Line("close", "", OneName(Path("", "")), FALSE)>> :
     body \in {<<>>} \cup SetLines("fname") \cup {a \o b : a \in SetLines("fname"), b \in SetLines("runid")}}
MapLine == <<Line("rc", "mapname", OneName(Path("f1", "d1")), FALSE)>>
FileLines == {m \o g \o h : m \in {<<>>, MapLine}, g \in GroupLines("g1"), h \in {<<>>} \cup GroupLines("g2") \cup {MapLine}}
FilesRead == {f \in FileLines : Cardinality({i \in DOMAIN f : f[i].kind = "rc"}) < 2}

MCComparisons ==
  {[kind |-> "comparison", gold |-> a, comp |-> b] : a, b \in Parsed}
    \cup {[kind |-> "runconfig", run1 |-> a, run2 |-> b] : a, b \in RunConfigs}
    \cup {[kind |-> "documents", gold |-> a, comp |-> b] : a, b \in DocLines}
    \cup {[kind |-> "lines", lines |-> f] : f \in FilesRead}

Definition(size, default, path, valid) ==
  [group |-> "g1", size |-> size, default |-> default, valid |-> valid, path |-> path, locked |-> FALSE, per_stream |-> FALSE]
Infiles == {[v \in {} |-> <<>>]} \cup {[v |-> x] : x \in UpTo({"", "a", "b"}, 2) \ {<<>>}} \cup {[w |-> <<"UNSET">>]}
MCUserFiles ==
  {[kind |-> "user", D |-> [v |-> Definition(2, d, t[1], t[2]), w |-> Definition(1, <<"1">>, "", {})], infiles |-> f] :
     d \in {<<"0">>, <<"0", "9">>, <<>>}, t \in {<<"", {}>>, <<"abs", {}>>, <<"", {"0", "a", "b"}>>, <<"", {"a", "9"}>>}, f \in UpTo(Infiles, 2)}

(***************************************************************************)
(* Grids: two ice sheets, an ocean on the grid of the atmosphere or not    *)
(***************************************************************************)
GridMap(c1, g1, c2, g2, from, to, value) ==
  [comp1 |-> c1, grid1 |-> [name |-> g1, lev |-> 0], comp2 |-> c2, grid2 |-> [name |-> g2, lev |-> 0],
   name |-> <<from, to, "S">>, value |-> value]
MapFiles ==
  {GridMap("lnd", "f09", "glc", "ais", "lnd", "glc", "m1"), GridMap("lnd", "f09", "glc", "gris", "lnd", "glc", "m2"),
   GridMap("lnd", "f09", "glc", "gris", "glc", "lnd", "m3"), GridMap("atm", "f09", "ocn", "gx1", "atm", "ocn", "m4"),
   GridMap("atm", "f09", "ocn", "gx1", "ocn", "atm", "idmap")}
AllCompsets == {"B", "T"}
Required(c1, c2) == [name |-> <<c1, c2, "S">>, comp1 |-> c1, comp2 |-> c2, compset |-> AllCompsets, not_compset |-> {}]
Model(ocean, glc, land) ==
  [alias |-> "a", compset |-> AllCompsets, not_compset |-> {}, mask |-> <<>>,
   grids |-> [atm |-> <<[name |-> "f09", lev |-> 0]>>, lnd |-> <<[name |-> land, lev |-> 0]>>,
              ocnice |-> <<[name |-> ocean, lev |-> 0]>>, glc |-> [i \in DOMAIN glc |-> [name |-> glc[i], lev |-> 0]]]]
None == <<[name |-> "null", lev |-> 0]>>
Usual == <<[name |-> "default", lev |-> 0]>>
MeshOf(mesh) == [nx |-> 2, ny |-> 2, pts |-> <<>>, files |-> <<>>, mesh |-> mesh]
MCGridFiles ==
  {[kind |-> "grid", alias |-> "a", compset |-> c, lev |-> l,
    F |-> [models |-> <<Model(o, g, n)>>, maps |-> SetToSeq(maps),
           required |-> <<Required("lnd", "glc"), Required("glc", "lnd"), Required("atm", "ocn"), Required("ocn", "atm")>>,
           domains |-> [f09 |-> MeshOf("f09.nc"), gx1 |-> MeshOf("gx1.nc"), ais |-> MeshOf("ais.nc"), gris |-> MeshOf("gris.nc")],
           defaults |-> <<[comp |-> "glc", compset |-> {"T"}, grids |-> None], [comp |-> "glc", compset |-> {"B"}, grids |-> Usual],
                          [comp |-> "lnd", compset |-> AllCompsets, grids |-> Usual], [comp |-> "atm", compset |-> AllCompsets, grids |-> Usual],
                          [comp |-> "ocnice", compset |-> AllCompsets, grids |-> Usual]>>]] :
     c \in AllCompsets, l \in {0, 30}, o \in {"f09", "gx1"}, g \in {<<"ais">>, <<"gris">>, <<"ais", "gris">>, <<"gris", "ais">>},
     n \in {"f09", "null"}, maps \in SUBSET MapFiles}

(***************************************************************************)
(* Environments                                                            *)
(***************************************************************************)
Child(name, value, attrs) == [name |-> name, value |-> value, attrs |-> attrs]
Group(attrs, children) == [attrs |-> attrs, children |-> children]
For(name, not, matches) == [name |-> name, not |-> not, matches |-> matches]
Modules == {Child("load", <<"intel">>, <<>>), Child("load", <<"netcdf">>, <<For("DEBUG", FALSE, {"TRUE"})>>),
            Child("swap", <<"intel", "gnu">>, <<For("COMPILER", TRUE, {"intel"})>>), Child("swap", <<"old", "new">>, <<>>),
            Child("unload", <<"netcdf">>, <<For("queue", FALSE, {"short"})>>), Child("purge", <<>>, <<>>)}
EnvVars == {Child("NETCDF", <<"/usr">>, <<>>), Child("NETCDF", <<>>, <<For("queue", FALSE, {"short"})>>),
            Child("OMP", <<"4">>, <<For("COMPILER", FALSE, {"gnu"})>>)}
MCEnvironments ==
  {[kind |-> "environment", spec |-> [kind |-> k, modules |-> <<Group(<<>>, m)>>, envs |-> <<Group(<<>>, e)>>],
    case |-> [values |-> [COMPILER |-> c, DEBUG |-> "TRUE"], queue |-> [x \in {"case.run"} |-> u]]] :
     k \in {"module", "generic"}, m \in UpTo(Modules, 2), e \in UpTo(EnvVars, 2), c \in {"gnu"}, u \in {"short", "long"}}
  \cup
  {[kind |-> "environment", spec |-> [kind |-> "module", modules |-> <<Group(<<>>, m)>>, envs |-> <<Group(<<>>, e)>>],
    case |-> [values |-> [COMPILER |-> c, DEBUG |-> "TRUE"], queue |-> [x \in {"case.run"} |-> u]]] :
     m \in [1 .. 3 -> Modules], e \in UpTo(EnvVars, 1), c \in {"gnu"}, u \in {"short", "long"}}

MpiAttrs == {[mpilib |-> m] : m \in {"default", "mpich", "mpi-serial"}} \cup {[compiler |-> "gnu", mpilib |-> m] : m \in {"default", "mpich"}}
              \cup {[compiler |-> "gnu"], [x \in {} |-> ""]}
MCMpirunNodes ==
  {[kind |-> "mpirun", nodes |-> [i \in DOMAIN as |-> [attrs |-> as[i], executable |-> <<"exe1", "exe2", "exe3">>[i]]],
    asked |-> [compiler |-> c, mpilib |-> m, queue |-> "short"]] :
     as \in UpTo(MpiAttrs, 3), c \in {"gnu", "intel"}, m \in {"mpich", "openmpi", "mpi-serial"}}

GuardedValues == {[attrs |-> a, text |-> t] : a \in {<<>>, <<"OCN", "g1">>, <<"TEST", "on">>, <<"TEST", "off">>}, t \in {"1", "2"}}
MCParameters ==
  {[kind |-> "parameter", values |-> vs, match |-> m, env |-> [OCN |-> o, TEST |-> t]] :
     vs \in {s \in UpTo(GuardedValues, 3) : \A i, j \in DOMAIN s : s[i].attrs = s[j].attrs => i = j}, m \in {"first", "last"},
     o \in {"g1", "g2"}, t \in {"on", "off"}}

(***************************************************************************)
(* Clones: mods directories that include each other without a cycle, one   *)
(* of them perhaps not there; an original with directories by name or by   *)
(* path; an ensemble whose numbers outgrow their digits                    *)
(***************************************************************************)
Cloning == INSTANCE CaseClone
Mods(d, include, src) ==
  [include |-> include, user_nl |-> [f \in {"user_nl_atm"} |-> <<d>>], src_dir |-> src,
   src |-> IF src THEN (<<"atm", "a.F90">> :> d) ELSE <<>>, commands |-> <<<<"STOP_N", d>>>>, xmlchange |-> <<>>]
ModDirs(i1, i2) == [d \in {"d1", "d2", "d3"} |-> Mods(d, CASE d = "d1" -> i1 [] d = "d2" -> i2 [] d = "d3" -> <<>>, TRUE)]
Plainly(text) == [text |-> text, digits |-> <<>>]
Original(exeroot, rundir) ==
  [name |-> Plainly("case"), user |-> "u1", output_root |-> <<"scratch", "u1">>, exeroot |-> exeroot, rundir |-> rundir,
   build_complete |-> TRUE, continue_run |-> TRUE, resubmit |-> 2, project |-> "p", tools |-> ("check_case" :> "own"),
   locked |-> {"env_case.xml", "env_build.xml"}, dirs |-> {"SourceMods"}, user_nl |-> [f \in {"user_nl_atm"} |-> <<>>],
   src |-> (<<"atm", "b.F90">> :> "mine"), src_link |-> FALSE, src_dirs |-> Cloning!SourceModDirs({"atm", "slnd"}, FALSE),
   settings |-> ("STOP_N" :> "5") @@ ("DEBUG" :> "FALSE"), commands |-> <<>>, failed |-> FALSE]
ByName(part) == <<"CASE", part>>
Given(root, part) == <<<<root>>, <<"dir">>, part>>
MCUserMods ==
  {[kind |-> "mods", D |-> ModDirs(i1, i2), classes |-> <<"atm", "ocn">>, mods |-> mods, primary |-> p, given |-> g,
    case |-> Original(ByName("bld"), ByName("run"))] :
     i1 \in {o \in Orderings({"d2", "d3", "gone"}) : Len(o) <= 2}, i2 \in {<<>>, <<"d3">>},
     mods \in UNION {[S -> {"d1", "d2"}] : S \in SUBSET {"atm", "ocn"}}, p \in {"atm", "drv"}, g \in UpTo({"d1", "d3"}, 1)}

World(user) == [exists |-> {Plainly("case"), Plainly("old")}, user |-> user, not_writable |-> {<<"scratch", "u3">>}, build |-> {"DEBUG"},
                tools |-> {"check_case", "xmlchange"}]
CloneArgs(root, output, keep, exe, run, mods) ==
  [root |-> root, name |-> root, valid_name |-> TRUE, output_root |-> output, keepexe |-> keep, exeroot |-> exe, rundir |-> run,
   project |-> "", mods |-> mods]
CloneMods == [d |-> [Mods("d", <<>>, TRUE) EXCEPT !.commands = <<>>], b |-> [Mods("b", <<>>, FALSE) EXCEPT !.commands = <<<<"DEBUG", "TRUE">>>>],
              s |-> Mods("s", <<>>, FALSE)]
MCClones ==
  {[kind |-> "clone", D |-> CloneMods, w |-> World(u), case |-> Original(e, r), args |-> CloneArgs(n, o, k, x, y, m)] :
     u \in {"u1", "u2", "u3"}, e \in {ByName("bld"), Given("a", "bld")}, r \in {ByName("run"), Given("a", "run")},
     n \in {Plainly("old"), Plainly("new")}, o \in {<<>>, <<"work", "u1">>}, k \in BOOLEAN, x \in {<<>>, Given("x", "bld")},
     y \in {<<>>, Given("x", "run")}, m \in {<<>>, <<"d">>, <<"b">>, <<"s">>}}

MCEnsembles ==
  {[kind |-> "ensemble", D |-> CloneMods, w |-> [World("u1") EXCEPT !.exists = @ \cup gone], case |-> Original(e, ByName("run")),
    args |-> CloneArgs(Plainly(""), <<>>, k, <<>>, <<>>, <<>>), path |-> [text |-> "member", digits |-> d], size |-> n] :
     e \in {ByName("bld"), Given("a", "bld")}, k \in BOOLEAN, n \in 1 .. 4, gone \in {{}, {[text |-> "member", digits |-> <<1, 0>>]}},
     d \in {<<>>, <<8>>, <<0, 8>>, <<9, 8>>, <<0, 0, 1>>}}

(***************************************************************************)
(* Layouts asked for, and the layouts of the two runs of a test            *)
(***************************************************************************)
SizePes(size, n) ==
  [PesOf({"any"}, {"any"}, {"any"}, 0) EXCEPT !.pesize = size,
     !.pes = (<<"ntasks", "ATM">> :> n) @@ (<<"nthrds", "ATM">> :> n + 1) @@ (<<"rootpe", "ATM">> :> n + 2) @@ (<<"ntasks", "OCN">> :> -n)]
MCPesAsked ==
  {[kind |-> "pes_asked", p |-> [tasks |-> n, threads |-> t, size |-> s], classes |-> {"ATM", "OCN", "CPL"}, nodes |-> nodes,
    spec |-> [grid |-> "T31", mach |-> "m1", compset |-> "B", pesize |-> "M", mpilib |-> lib]] :
     n \in {0, 4}, t \in {0, 3}, s \in {"none", "M", "L"}, lib \in {"mpich", "mpi-serial"},
     nodes \in {<<>>, <<SizePes({"any"}, 2)>>, <<SizePes({"any"}, 2), SizePes({"L"}, 8)>>, <<SizePes({"M"}, 2), SizePes({"L"}, 8)>>,
                <<SizePes({"M"}, 2), SizePes({"M"}, 8)>>}}

TestLayout(n1, r1, n2, r2, t) ==
  [ntasks |-> [ATM |-> n1, OCN |-> n2, CPL |-> 2, ESP |-> 1], nthrds |-> [ATM |-> t, OCN |-> 1, CPL |-> 1, ESP |-> 1],
   rootpe |-> [ATM |-> r1, OCN |-> r2, CPL |-> 0, ESP |-> 0], pstrid |-> [c \in {"ATM", "OCN", "CPL", "ESP"} |-> 1],
   ninsts |-> [c \in {"ATM", "OCN", "CPL", "ESP"} |-> 1], order |-> <<"CPL", "ATM", "OCN", "ESP">>, ninst |-> 0, esmf |-> FALSE,
   nuopc |-> FALSE, multi |-> FALSE, async |-> FALSE, stride |-> 1, iotasks |-> 3, pio_numtasks |-> 3, forced_spare |-> -999, spare |-> TRUE]
MCTestRuns ==
  {[kind |-> "runs", test |-> t, L |-> TestLayout(n1, r1, n2, r2, h), M |-> M] :
     t \in {"NCK", "NCR", "PEM", "ERP", "PET", "PEA", "SEQ", "MCC", "REP"}, n1 \in {1, 3, 8, -2}, r1 \in {0, 1, 5, -1}, n2 \in {1, 4},
     r2 \in {0, 3}, h \in {1, 3}, M \in {m @@ [cost |-> 4] : m \in {Machine(4, 4, 0), Machine(8, 3, 0)}}}

(***************************************************************************)
(* File names: a case name with a year, a month, a date or a time in it    *)
(***************************************************************************)
Num(sep, n, digits) == [sep |-> sep, n |-> n, digits |-> digits]
DatedNames == {<<>>, <<Num("ne", 4, 1), Num("oQU", 240, 3)>>, <<Num("b.", 1850, 4)>>, <<Num("b.", 1850, 4), Num("-", 2000, 4)>>,
               <<Num("b.", 2000, 4), Num("-", 5, 1)>>, <<Num("b.", 2000, 4), Num("-", 5, 1), Num("-", 30, 2)>>,
               <<Num("b.", 2000, 4), Num("-", 5, 2), Num("-", 30, 2), Num("_", 999, 5)>>}
FileDay(y, m, d, s) == [year |-> y, month |-> m, day |-> d, second |-> s]
MCFileNames ==
  {[kind |-> "file", before |-> b, date |-> x, other |-> y] :
     b \in DatedNames, x \in {FileDay(a, m, d, s) : a \in {1, 1850, 12000}, m \in {1, 12}, d \in {3, 28}, s \in {0, 435, 86399}},
     y \in {FileDay(1, 12, 3, 0), FileDay(1850, 1, 28, 435), FileDay(1850, 12, 3, 36000), FileDay(12000, 1, 3, 7200)}}
=============================================================================
