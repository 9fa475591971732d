------------------------------- MODULE CaseLaws -------------------------------
(***************************************************************************)
(* What the algorithms on a case's configuration promise.  q is a question *)
(* put to one of them: its kind and its inputs, taken from the sets of     *)
(* questions the constants give, or NoQuestion.  A law holds of the        *)
(* answer to every question of its kind.                                   *)
(***************************************************************************)
EXTENDS Integers, Sequences, FiniteSets, SequencesExt, Functions

CONSTANTS Layouts, Entries, PesFiles, Compsets, Jobs, Variables, ValueSettings, FullNames, Suites,
          Arguments, CommandLines, BaselineDirs, StatusFiles, Merges, Comparisons, UserFiles,
          GridFiles, Environments, MpirunNodes, Parameters, PesAsked, TestRuns, UserMods, Clones, Ensembles,
          FileNames

VARIABLE q

LOCAL Pe == INSTANCE PeLayout
LOCAL CD == INSTANCE CaseDefaults
LOCAL BQ == INSTANCE BatchQueue
LOCAL CV == INSTANCE CaseValues
LOCAL TN == INSTANCE TestNames
LOCAL BL == INSTANCE Baselines
LOCAL GR == INSTANCE Grids
LOCAL ME == INSTANCE MachineEnv
LOCAL CC == INSTANCE CaseClone

\* Paths of input files: those that are not one of these texts
IsPath(text) == text \notin {"", "UNSET", "null", "idmap"}
BelowRoot(text) == "DIN_LOC_ROOT/" \o text
LOCAL NL == INSTANCE Namelists WITH InRoot <- BelowRoot, IsFile <- IsPath

NoQuestion == [kind |-> "none"]

Question ==
  \/ q \in Layouts      \/ q \in Entries     \/ q \in PesFiles  \/ q \in Compsets  \/ q \in Jobs
  \/ q \in Variables    \/ q \in ValueSettings \/ q \in FullNames \/ q \in Suites    \/ q \in Arguments
  \/ q \in CommandLines \/ q \in BaselineDirs \/ q \in StatusFiles \/ q \in Merges    \/ q \in Comparisons
  \/ q \in UserFiles    \/ q \in GridFiles   \/ q \in Environments \/ q \in MpirunNodes
  \/ q \in Parameters  \/ q \in PesAsked    \/ q \in TestRuns   \/ q \in UserMods  \/ q \in Clones
  \/ q \in Ensembles   \/ q \in FileNames

(***************************************************************************)
(* Processors                                                              *)
(***************************************************************************)
\* Every task of every component has a processor among the tasks the case asks
\* for, the nodes are enough for the tasks, and a node is not given more
\* threads than it has processors (get_total_tasks, get_tasks_per_node,
\* get_total_nodes read together).
LayoutFits ==
  q.kind = "layout" =>
    LET D == Pe!Derived(q.L, q.M)
    IN /\ \A c \in Pe!Comps(q.L) : Pe!PesOf(q.L, q.M, c) \subseteq 0 .. (D.total - 1)
       /\ D.nodes * D.per_node >= D.total
       /\ ~Pe!OnGpus(q.M) /\ ~q.L.esmf /\ D.threads <= q.M.tasks => D.per_node * D.threads <= q.M.tasks

\* aprun starts as many tasks as the case asks for, in groups that end where
\* the next one starts, and no group has more threads on a node than it has
\* processors: aprun.py counts the layout a second time, in its own way.
AprunAgrees ==
  q.kind = "layout" /\ q.L.ninst = 0 /\ ~q.L.multi /\ ~q.L.async =>
    LET starts == Pe!GroupStarts(q.L, q.M)
        tasks == [s \in starts |-> Pe!GroupTasks(q.L, q.M, s)]
    IN /\ Pe!Aprun(q.L, q.M).total = Pe!TotalTasks(q.L, q.M)
       /\ \A s \in starts : s + tasks[s] \in starts \cup {Pe!TotalTasks(q.L, q.M)}
       /\ ~Pe!AprunFails(q.L, q.M) =>
            \A s \in starts : Pe!GroupPerNode(q.L, q.M, s) * Pe!ThreadsAt(q.L, q.M, s) <= q.M.tasks

\* The second run of a test fits in the job that is made for the first, but for
\* NCK, and for SEQ with threads or fewer tasks than components; where NCK moves
\* a component it ends where it did, NCK and NCR give an instance the same tasks
\* in both runs, and the components of NCR's first run, and of one of SEQ's, do
\* not wait for one another.
RunsFit ==
  q.kind = "runs" =>
    LET given == Pe!InTaskCounts(q.L, q.M)
        one == Pe!CaseOne(q.test, q.L, q.M)
        two == Pe!CaseTwo(q.test, q.L, q.M)
        a == Pe!Derived(one, q.M)
        b == Pe!Derived(two, q.M)
        Apart(L, S) == \A c, d \in S : c # d => Pe!PesOf(L, q.M, c) \cap Pe!PesOf(L, q.M, d) = {}
        models == Pe!Comps(q.L) \ {"CPL", "ESP"}
        Share(L, c) == L.ntasks[c] \div L.ninsts[c]
        enough == Pe!MaxThreads(q.L) = 1 /\ a.total >= Len(q.L.order)
    IN /\ q.test # "NCK" /\ (q.test = "SEQ" => enough) => b.total <= a.total /\ b.nodes <= a.nodes
       /\ q.test = "NCK" => \A c \in Pe!Moved(given) : Pe!EndOf(one, q.M, c) = Pe!EndOf(two, q.M, c)
       /\ q.test \in {"NCK", "NCR"} => \A c \in models : Share(one, c) = Share(two, c) /\ Share(one, c) > 0
       /\ q.test = "NCR" => Apart(one, models)
       /\ q.test = "SEQ" => Apart(two, Pe!Comps(q.L)) \/ \A c \in Pe!Comps(q.L) : two.rootpe[c] = 0

(***************************************************************************)
(* Defaults of a new case                                                  *)
(***************************************************************************)
\* No value a new case gets was written for another case: the element it comes
\* from contradicts nothing that is known of the case, in either of the two
\* ways of matching (EntryID and Component), and no element of EntryID that
\* fits says more.
ValueFits ==
  q.kind = "entry" =>
    LET Right(v) == \A i \in DOMAIN v.attrs : ~CD!Contradicts(q.A, v.attrs[i])
        From(t) == SelectSeq(q.entry.values, LAMBDA v : v.text = t)[1]
        chosen == CD!ValueMatch(q.entry, q.A)
    IN /\ \A t \in Range(CD!ComponentMatch(q.entry, q.A)) \ Range(q.entry.default) : Right(From(t))
       /\ chosen # <<>> =>
            /\ DOMAIN q.A # {} => Right(From(chosen[1]))
            /\ \A v \in Range(q.entry.values) :
                 DOMAIN q.A # {} /\ CD!Fits(q.A, v) => Len(v.attrs) <= Len(From(chosen[1]).attrs)

\* A case that gets a layout gets the only best one of those that fit it, with
\* the overrides that fit; two best ones are an error and not the first of the
\* file.
OneBestLayout ==
  q.kind = "pes" =>
    LET fit == {i \in DOMAIN q.nodes : CD!PesFits(q.nodes[i], q.spec)}
        answer == CD!PesChoice(q.nodes, q.overrides, q.spec)
        Best(i) == \A j \in fit \ {i} : CD!Points(q.nodes[j]) < CD!Points(q.nodes[i])
    IN /\ ~answer.failed /\ fit # {} =>
            \E i \in fit : Best(i) /\ answer.pes =
              CD!Over(q.nodes[i].pes, CD!Overrides(q.overrides, q.spec))
       /\ answer.failed => \E i, j \in fit : i # j /\ CD!Points(q.nodes[i]) = CD!Points(q.nodes[j])

\* Every number of the layout a case is made with is what the user asked for, or
\* what the file has for the size that was asked for, or the default; a root pe
\* of the file is kept only with the tasks and threads of the file.
PesMeant ==
  q.kind = "pes_asked" =>
    LET answer == CD!MachPes(q.p, q.nodes, <<>>, q.spec, q.classes)
        file == CD!PesChoice(q.nodes, <<>>, [q.spec EXCEPT !.pesize = IF q.p.tasks > 0 THEN "M" ELSE q.p.size])
        Meant(t, c) == IF <<t, c>> \in DOMAIN file.pes THEN file.pes[<<t, c>>] ELSE CD!PesDefault[t]
        Asked(given, t, c) == IF given > 0 THEN given ELSE Meant(t, c)
    IN ~answer.failed =>
         \A c \in q.classes :
           /\ answer.pes[<<"ntasks", c>>] = Asked(q.p.tasks, "ntasks", c)
           /\ answer.pes[<<"nthrds", c>>] = Asked(q.p.threads, "nthrds", c)
           /\ answer.pes[<<"rootpe", c>>] = IF q.p.tasks + q.p.threads > 0 THEN 0 ELSE Meant("rootpe", c)

\* The full name of a compset does not depend on the order in which its tagged
\* elements are written, has one model of every class and is its own full name.
CompsetIsNormal ==
  q.kind = "compset" =>
    LET full == CD!FullCompset(q.elems, q.classes)
        Reordered(p) == [i \in DOMAIN q.elems |-> q.elems[p[i]]]
        orders == {p \in [DOMAIN q.elems -> DOMAIN q.elems] : Range(p) = DOMAIN q.elems}
        tagged == \A i \in DOMAIN q.elems : q.elems[i].tagged \/ q.elems[i].class = "extra"
    IN /\ CD!FullCompset(full, q.classes) = full
       /\ full[1].class = "scn" /\ \A i \in DOMAIN q.classes : full[i + 1].class = q.classes[i]
       /\ tagged => \A p \in orders : CD!FullCompset(Reordered(p), q.classes) = full

(***************************************************************************)
(* Clones and user mods                                                    *)
(***************************************************************************)
\* What a mods directory sets is not changed by a directory that it includes,
\* however they include each other; a later directory of the list wins over an
\* earlier one, the primary component over the others and the user over both.
ModsInOrder ==
  q.kind = "mods" =>
    LET paths == CC!AllUserMods(q.classes, q.mods, q.primary, q.given)
        done == CC!ApplyAll(q.D, paths, "none", q.case)
        Applied(d) == CC!ApplyUserMods(q.D, d, "none", q.case)
        Lines(d) == Applied(d).user_nl["user_nl_atm"]
        wins == Last(paths)
    IN /\ \A d \in DOMAIN q.D : ~Applied(d).failed =>
            /\ \A i, j \in DOMAIN Lines(d) :
                 i < j => Lines(d)[i] # Lines(d)[j] /\ Lines(d)[j] \notin Range(q.D[Lines(d)[i]].include)
            /\ \A i \in DOMAIN Lines(d) : Range(q.D[Lines(d)[i]].include) \subseteq Range(Lines(d))
       /\ paths # <<>> /\ ~done.failed =>
            done.settings["STOP_N"] = wins /\ done.src[<<"atm", "a.F90">>] = wins /\ Last(done.user_nl["user_nl_atm"]) = wins
       /\ q.given = <<>> /\ q.primary \in DOMAIN q.mods => wins = q.mods[q.primary]

\* A clone with another name or output root builds and runs in directories of
\* its own, unless it is to keep the executable: then it has the executable,
\* the source mods and the settings of the build of the original.
CloneApart ==
  q.kind = "clone" =>
    \A c \in {CC!CreateClone(q.D, q.w, q.case, q.args)} :
      LET Exe(x) == CC!Resolve(x, x.exeroot)
          Run(x) == CC!Resolve(x, x.rundir)
          another == c.case.name # q.case.name \/ c.case.output_root # q.case.output_root
      IN ~c.failed =>
           /\ c.case.build_complete <=> q.args.keepexe
           /\ ~q.args.keepexe /\ another =>
                /\ q.args.exeroot # Exe(q.case) => Exe(c.case) # Exe(q.case)
                /\ q.args.rundir # Run(q.case) => Run(c.case) # Run(q.case)
           /\ q.args.keepexe => Exe(c.case) = Exe(q.case) /\ c.case.src = q.case.src
                               /\ CC!BuildOf(c.case, q.w.build) = CC!BuildOf(q.case, q.w.build)
           /\ \A t \in q.w.tools : t \in DOMAIN q.case.tools => c.case.tools[t] = q.case.tools[t]

\* The members of an ensemble are different cases that run apart, and build
\* apart unless they keep the executable; their numbers follow each other as
\* long as they have the digits of the first one; the ensemble ends at a case
\* that is there already.
EnsembleApart ==
  q.kind = "ensemble" /\ ~CC!NoStart(q.path, q.size) =>
    \A names \in {CC!Members(q.path, q.size)} :
    \A e \in {CC!Ensemble(q.D, q.w, q.case, q.args, names)} :
      LET first == CC!StartOf(q.path)
          wide == first + q.size <= 10 ^ Len(q.path.digits)
      IN /\ Cardinality(Range(names)) = q.size
         /\ q.size > 1 /\ wide =>
              \A i \in DOMAIN names : Len(names[i].digits) = Len(q.path.digits) /\ CC!StartOf(names[i]) = first + i - 1
         /\ e.failed <=> Range(names) \cap q.w.exists # {}
         /\ \A i \in DOMAIN e.made : \A x \in {q.case} \cup {e.made[j] : j \in 1 .. (i - 1)} :
              /\ ~q.args.keepexe => CC!Resolve(e.made[i], e.made[i].exeroot) # CC!Resolve(x, x.exeroot)
              /\ CC!Resolve(e.made[i], e.made[i].rundir) # CC!Resolve(x, x.rundir)

(***************************************************************************)
(* Jobs                                                                    *)
(***************************************************************************)
\* The queue a test's job is given takes that job with the time that is asked
\* of it, though no queue had the time the test wanted; the default queue is
\* taken when it takes the job; a job asks for some time, and for no more
\* memory than a node has.
QueueTakesJob ==
  q.kind = "job" =>
    LET p == BQ!Place(q.queues, q.job)
        default == BQ!DefaultQueue(q.queues)
    IN /\ ~p.fell /\ q.job.test => BQ!MeetsSpec(p.queue[1], q.job, p.time)
       /\ (q.job.queue = "none" /\ default # <<>>) => (BQ!MeetsSpec(default[1], q.job, q.job.walltime) => p.queue = default)
       /\ p.queue # <<>> /\ default # <<>> => BQ!Walltime(q.queues, q.job) > 0
       /\ BQ!JobMemory(q.job.tasks, q.M) <= q.M.mem

(***************************************************************************)
(* Values                                                                  *)
(***************************************************************************)
\* The value of a variable is its text with every reference replaced, through
\* as many files as it takes, and an error if it refers to itself or to
\* something that is not there: whatever the order of the files.
ValuesResolved ==
  q.kind = "variable" =>
    LET defs == q.files[1].entries @@ q.files[2].entries
        Of(a) == IF a.ref /\ a.x \in DOMAIN defs THEN defs[a.x].text ELSE <<a>>
        Replaced(text) == FlattenSeq([i \in DOMAIN text |-> Of(text[i])])
        meaning[n \in 0 .. Cardinality(DOMAIN defs)] ==
          IF n = 0 THEN defs[q.name].text ELSE Replaced(meaning[n - 1])
        end == meaning[Cardinality(DOMAIN defs)]
    IN \A answer \in {CV!GetValue(q.files, q.name, "")} :
       /\ answer.failed <=> CV!HasRefs(end)
       /\ ~answer.failed => answer.text = end

\* The comparison with the locked copy (compare_xml) names exactly the values
\* that a setting changed, those of single components too, and a setting for
\* one component leaves the others alone.
ChangesSeen ==
  q.kind = "setting" =>
    LET new == CV!SetIn(q.file, q.name, q.text)
        k == CV!CompVar(q.file, q.name)
        Plain(n) == ~q.file.entries[n].per
        keys == {<<n, c>> \in (DOMAIN q.file.entries) \X ({""} \cup Range(q.file.comps)) : Plain(n) <=> c = ""}
        Value(f, x) == IF x[2] = "" THEN f.entries[x[1]].text ELSE f.entries[x[1]].text[x[2]]
        changed == {x \in keys : Value(new, x) # Value(q.file, x)}
    IN /\ CV!Differences(new, q.file) = {IF x[2] = "" THEN x[1] ELSE Append(x[1], x[2]) : x \in changed}
       /\ \A x \in changed : x[1] = k.name /\ (k.comp # "" => x[2] \in {"", k.comp})
       /\ CV!GetIn(new, q.name, "") \in {<<>>, <<q.text>>}

(***************************************************************************)
(* Tests                                                                   *)
(***************************************************************************)
\* A full name keeps every field the short one gives, is on the machine of the
\* session, and is its own full name: a session does not run a test that was
\* written for another machine.
FullNamesAgree ==
  q.kind = "name" =>
    LET full == TN!FullName(q.name, q.args)
    IN full # <<>> =>
         /\ TN!IsFull(full[1]) /\ TN!FullName(full[1], q.args) = full
         /\ \A f \in Range(TN!Fields) : TN!Given(q.name, f) => full[1][f] = q.name[f]
         /\ q.args["machine"] \notin {"", q.name["compiler"]} /\ q.name["machine"] # q.name["compiler"] =>
              full[1]["machine"] = q.args["machine"]

\* Every test is in one build group, and two tests of a group are linked by a
\* chain of tests of the group of which each two neighbours share a suite.
\* Sharing is taken to be transitive (get_build_groups): the two may have no
\* suite in common.
GroupsShareBuild ==
  q.kind = "suites" =>
    LET groups == TN!BuildGroups(q.suites, q.tests)
        Linked(t, u) == TN!ShareSuites(q.suites, t) \cap TN!ShareSuites(q.suites, u) # {}
        Chain(set) == \A part \in (SUBSET set) \ {{}, set} : \E t \in part, u \in set \ part : Linked(t, u)
    IN /\ \A t \in Range(q.tests) : Cardinality({i \in DOMAIN groups : t \in Range(groups[i].tests)}) = 1
       /\ \A i \in DOMAIN groups : Chain(Range(groups[i].tests))

\* The tests of a session are those an argument asks for and no argument with ^
\* names, in whatever order the arguments stand.
NegationWins ==
  q.kind = "arguments" =>
    LET Named(not) == UNION {TN!Meant(q.suites, a, q.arch) : a \in {b \in Range(q.args) : b.not = not}}
    IN TN!Selected(q.suites, q.args, q.arch) = Named(FALSE) \ Named(TRUE)

\* Options that are accepted fit together: nothing is run that was not built,
\* nothing built that was not set up, and the job of a session that submits
\* itself does the building and running the session left out.
OptionsImply ==
  q.kind = "options" /\ ~TN!OptionsClash(q.o) =>
    LET e == TN!Effective(q.o)
        job == TN!Effective(TN!InTheJob(q.o))
    IN /\ (e.no_setup \/ e.namelists_only) => e.no_build
       /\ e.no_build => e.no_run
       /\ e.retry > 0 => e.wait
       /\ q.o.single_submit => e.no_build /\ e.no_batch /\ ~job.no_build /\ ~job.no_run /\ job.no_batch

(***************************************************************************)
(* Baselines                                                               *)
(***************************************************************************)
\* A comparison with a baseline passes if and only if, for each model that
\* tests compare, the newest files of the test are those of the baseline with
\* the same fields and values; what the comment of the phase then says is DIFF
\* if and only if a value differs or the baseline has a file more, and nothing
\* if and only if the comparison passes and no line of a bless log follows it.
BaselineVerdict ==
  q.kind = "baseline" =>
    LET compared == Range(q.T.models) \ q.T.excluded
        Newest(dir) == UNION {BL!Latest(dir, m) : m \in compared}
        both == Newest(q.T.hists) \cap Newest(q.base.hists)
        Same(n) == q.T.hists[n] = q.base.hists[n]
        Differs(n) == \E f \in DOMAIN q.T.hists[n] \cap DOMAIN q.base.hists[n] :
                        q.T.hists[n][f] # q.base.hists[n][f]
    IN \A result \in {BL!CompareBaseline(q.T, q.base)} : q.base.exists =>
         /\ result.success <=> /\ Newest(q.T.hists) = Newest(q.base.hists) /\ both # {}
                               /\ \A n \in both : Same(n)
         /\ BL!Synopsis(result) = "DIFF" <=>
              Newest(q.base.hists) \ both # {} \/ \E n \in both : Differs(n)
         /\ BL!Synopsis(result) = "" <=> result.success /\ ~(q.T.bless_log /\ q.base.log)

\* A test passes against the baseline it has generated, whatever an older
\* baseline of the same name left there, unless the generation failed or no
\* file of the test is compared.
GeneratedCompares ==
  q.kind = "baseline" /\ ~BL!GenerateFails(q.T) =>
    LET base == BL!Generate(q.T, q.base)
    IN \/ BL!CompareBaseline(q.T, base).success
       \/ \A n \in DOMAIN base.hists : n.model \in q.T.excluded

\* The history of the test q.ts, with one of two sets of options of the command
Blessed ==
  \E all \in BOOLEAN :
    BL!Blesses(q.ts, [namelists_only |-> FALSE, hist_only |-> ~all, tput |-> FALSE, mem |-> FALSE,
                      no_skip_pass |-> all], FALSE).hist

\* The history of a test becomes the baseline only after its run passed, and
\* not when its own comparison of two runs failed while the generation did not.
\* When both failed it does, though the generation was not all that failed
\* (is_hist_bless_needed): a status read from a file never "is" the constant.
BlessesOnlyRun ==
  q.kind = "status" /\ Blessed =>
    /\ q.ts.st["RUN"] = "PASS"
    /\ q.ts.st["GENERATE"] # "FAIL" => q.ts.st["COMPARE_base_rest"] # "FAIL"

(***************************************************************************)
(* Dates of files                                                          *)
(***************************************************************************)
\* The date of a file is the one its name was given, whatever shorter dates are
\* in the name of its case; of a name with hours, minutes and seconds between
\* colons the day is right and the order never wrong.
DatesRead ==
  q.kind = "file" =>
    LET Days(d) == (d.year * 12 + d.month) * 31 + d.day
        Mpas(d) == BL!FileDate(BL!DatetimeStrMpas("rst.", d))[1]
        timed == {i \in DOMAIN q.before : \E f \in {1, 2} : BL!FitsAt(q.before, i, BL!Formats[f])}
    IN /\ timed = {} => BL!FileDate(q.before \o BL!DatetimeStr(".cam.r.", q.date)) = <<q.date>>
       /\ BL!Before(q.date, q.other) <=>
            Days(q.date) < Days(q.other) \/ (Days(q.date) = Days(q.other) /\ q.date.second < q.other.second)
       /\ Days(Mpas(q.date)) = Days(q.date)
       /\ BL!Before(Mpas(q.date), Mpas(q.other)) => BL!Before(q.date, q.other)

(***************************************************************************)
(* Namelists                                                               *)
(***************************************************************************)
\* A merge keeps every value of the namelist that wins and the values of the
\* other where the winner has none, does so once and for all, and gives the
\* same values whichever of the two is merged into the other.
MergeKeeps ==
  q.kind = "merge" =>
    LET n == NL!MergeNl(q.nl, q.other, TRUE)
        Values(nl, g, v) == IF v \in DOMAIN NL!Vars(nl, g) THEN nl[g][v] ELSE <<>>
        At(s, i) == IF i \in DOMAIN s THEN s[i] ELSE ""
        names == UNION {{<<g, v>> : v \in DOMAIN q.nl[g]} : g \in DOMAIN q.nl}
                 \cup UNION {{<<g, v>> : v \in DOMAIN q.other[g]} : g \in DOMAIN q.other}
        Winner(x, i) == At(Values(q.other, x[1], x[2]), i)
        Loser(x, i) == At(Values(q.nl, x[1], x[2]), i)
    IN /\ \A x \in names : \A i \in DOMAIN Values(n, x[1], x[2]) :
            Values(n, x[1], x[2])[i] = IF Winner(x, i) # "" THEN Winner(x, i) ELSE Loser(x, i)
       /\ \A x \in names : Len(Values(n, x[1], x[2])) >= Len(Values(q.nl, x[1], x[2]))
       /\ NL!MergeNl(n, q.other, TRUE) = n
       /\ n = NL!MergeNl(q.other, q.nl, FALSE)

\* The comparison of two namelists does not depend on which of them is the
\* baseline, and finds nothing if and only if they set the same variables to the
\* same lists of files: names without directories, a map's with them, and any
\* single name for "runid".  Two run configurations match if and only if they
\* have the same keys with the same texts, but for a user's name and for texts
\* that both name the case; two documents if their lines are the same, but for
\* comments, in whichever of two ways their lines were paired.
NamelistsCompare ==
  /\ q.kind = "comparison" =>
       LET Told(v, x) ==
             <<x.type, [i \in DOMAIN x.items |->
                          IF v = "mapname" THEN x.items[i]
                          ELSE IF v = "runid" /\ x.type = "str" THEN "" ELSE x.items[i].base]>>
           TextsOf(nl) == [g \in DOMAIN nl |-> [v \in DOMAIN nl[g] |-> Told(v, nl[g][v])]]
       IN /\ NL!DiffGroups(q.gold, q.comp) = NL!DiffGroups(q.comp, q.gold)
          /\ NL!DiffGroups(q.gold, q.comp) = {} <=> TextsOf(q.gold) = TextsOf(q.comp)
  /\ q.kind = "runconfig" =>
       LET Keys(r) == UNION {{<<s, k>> : k \in DOMAIN r[s]} : s \in DOMAIN r}
           Excused(k) == k[2] = "username" \/ (q.run1[k[1]][k[2]].names_case /\ q.run2[k[1]][k[2]].names_case)
       IN NL!RunconfigsMatch(q.run1, q.run2) <=>
            /\ DOMAIN q.run1 = DOMAIN q.run2 /\ Keys(q.run1) = Keys(q.run2)
            /\ \A k \in Keys(q.run1) : q.run1[k[1]][k[2]].text = q.run2[k[1]][k[2]].text \/ Excused(k)
  /\ q.kind = "documents" =>
       LET Names(lines) == [i \in DOMAIN NL!Content(lines) |-> NL!Content(lines)[i].base]
       IN NL!DocsMatch(q.gold, q.comp) <=> Names(q.gold) = Names(q.comp)

\* A namelist file that has lost one of its lines is not taken for the whole
\* file: reading it fails or its comparison finds something, but for the line
\* that closes the last group.
LostLineSeen ==
  q.kind = "lines" =>
    LET closing == {i \in DOMAIN q.lines : q.lines[i].kind = "close" /\ \A j \in i .. Len(q.lines) : q.lines[j].kind # "open"}
    IN /\ NL!ReadFile(q.lines).ok
       /\ \A i \in DOMAIN q.lines \ closing :
            LET result == NL!CompareFiles(q.lines, RemoveAt(q.lines, i)) IN result.failed \/ ~result.same

\* What a user_nl file sets is in the namelist at its place, unless an earlier
\* file sets it; where no file sets anything the namelist has the default; a
\* namelist that is written holds no value the definition forbids, though the
\* default may be one; and every file it names is listed for the download, once
\* however often it is written.
UserWins ==
  q.kind = "user" /\ ~NL!InitFails(q.D, q.infiles, {}) =>
    LET nl == NL!InitDefaults(q.D, q.infiles, {})
        written == NL!WriteOutput(q.D, nl, <<>>)
        Value(v) == nl[q.D[v].group][v]
        Sets(k, v, i) == v \in DOMAIN q.infiles[k] /\ i \in DOMAIN q.infiles[k][v] /\ q.infiles[k][v][i] # ""
        by(v, i) == {k \in DOMAIN q.infiles : Sets(k, v, i)}
        First(set) == CHOOSE k \in set : \A j \in set : k <= j
        default(v, i) == IF i \in DOMAIN q.D[v].default THEN q.D[v].default[i] ELSE ""
        Wanted(v, i) == IF by(v, i) = {} THEN default(v, i) ELSE q.infiles[First(by(v, i))][v][i]
        Placed(v, t) == IF q.D[v].path = "abs" /\ IsPath(t) THEN BelowRoot(t) ELSE t
        Forbidden(v) == IF q.D[v].valid = {} THEN {} ELSE Range(Value(v)) \ (q.D[v].valid \cup {""})
        files(v) == IF q.D[v].path = "abs" THEN {<<v, t>> : t \in {x \in Range(Value(v)) : IsPath(x)}} ELSE {}
    IN /\ \A v \in DOMAIN q.D : \A i \in 1 .. q.D[v].size :
            i \in DOMAIN Value(v) \/ Wanted(v, i) # "" =>
              i \in DOMAIN Value(v) /\ Value(v)[i] = Placed(v, Wanted(v, i))
       /\ written.failed <=> \E v \in DOMAIN q.D : Forbidden(v) # {}
       /\ ~written.failed =>
            /\ Range(written.list) = UNION {files(v) : v \in DOMAIN q.D}
            /\ NL!WriteOutput(q.D, nl, written.list).list = written.list

(***************************************************************************)
(* Machine, grids and parameters                                           *)
(***************************************************************************)
\* A list of maps that is accepted has the map of every pair of grids at the
\* place of that pair, and with nuopc the identity stands between two grids
\* only where the ocean's is the atmosphere's.
MapsInOrder ==
  q.kind = "grid" =>
    LET Pair(n) == IF <<n[1], n[2]>> \in Range(GR!CompPairs) THEN <<n[1], n[2]>> ELSE <<n[2], n[1]>>
        Map(n, p) == GR!PairMaps(q.F.maps, Pair(n)[1], p[1], Pair(n)[2], p[2])
    IN \A info \in {GR!GridInfo(q.F, q.alias, q.compset, q.lev, 0, "nuopc")} : ~info.failed =>
         \A n \in DOMAIN info.maps :
           /\ \/ info.maps[n] \in {<<"idmap">>, <<"unset">>}
              \/ \A k \in DOMAIN info.maps[n] : info.maps[n][k] = Map(n, GR!GridPairs(info.grids, Pair(n))[k])[n]
           /\ info.maps[n] = <<"idmap">> =>
                info.grids[n[1]] = info.grids[n[2]] \/ (n[1] = "ocn" /\ info.grids["ocn"] = info.grids["atm"])

\* A component that the defaults of the compset leave without a grid has none
\* and no domain, whatever the model grid says.
NoGridStays ==
  q.kind = "grid" =>
    \A info \in {GR!GridInfo(q.F, q.alias, q.compset, q.lev, 0, "nuopc")} :
      ~info.failed =>
         \A c \in {"lnd", "ocn", "glc"} :
           GR!Default(q.F.defaults, IF c = "ocn" THEN "ocnice" ELSE c, q.compset) = GR!Null =>
             info.grids[c] = GR!Null /\ <<c, "DOMAIN_MESH">> \notin DOMAIN info.domains

\* A user who sources .env_mach_specific.sh has the modules and variables the
\* programs of the case load for the same job, when no file is sourced on the
\* way and no module asks for the queue; and joining module commands changes
\* nothing.
ShellAgrees ==
  q.kind = "environment" =>
    LET job == "case.run"
        modules == ME!Actions(q.spec.modules, q.case, "none")
        env == [modules |-> <<"old">>, vars |-> [HOME |-> "home", NETCDF |-> "old"]]
    IN /\ ME!Actions(q.spec.modules, q.case, job) = modules =>
            ME!ShellReads(env, ME!ShellFile(q.spec, q.case, job)) = ME!LoadEnv(q.spec, env, q.case, job, <<>>)
       /\ ME!LoadModules(env, modules) = ME!LoadGeneric(env, modules)

\* The model is started with a command whose attributes the case does not
\* contradict; an entry for its own MPI library comes before one for any
\* library, however much more the other says; and a serial case never gets a
\* command that is for any library.
MpirunFits ==
  q.kind = "mpirun" =>
    LET exe == ME!Mpirun(q.nodes, q.asked)
        Node(i) == q.nodes[i]
        by == {i \in DOMAIN q.nodes : Node(i).executable = exe}
        own == {i \in DOMAIN q.nodes : /\ ME!AllMatch(Node(i), q.asked)
                                       /\ "mpilib" \in DOMAIN Node(i).attrs
                                       /\ Node(i).attrs["mpilib"] = q.asked["mpilib"]}
        Named(i) == "mpilib" \notin DOMAIN Node(i).attrs \/ Node(i).attrs["mpilib"] = q.asked["mpilib"]
    IN /\ \A i \in by : ME!AllMatch(Node(i), q.asked)
       /\ own # {} => \A i \in by : Named(i)
       /\ q.asked["mpilib"] = "mpi-serial" => \A i \in by : Named(i)

\* The value of a parameter is the one whose guard holds, the last or the
\* first of them as the program asks, and the one for else only when no other
\* holds; no guard is left in the result.  Guards that read the same once their
\* variables have values are one key of a dictionary, and are left out here.
GuardsReduced ==
  q.kind = "parameter" =>
    LET holds == SelectSeq(q.values, LAMBDA v : v.attrs # <<>> /\ q.env[v.attrs[1]] = v.attrs[2])
        others == SelectSeq(q.values, LAMBDA v : v.attrs = <<>>)
        pick == IF holds # <<>> THEN IF q.match = "first" THEN <<holds[1]>> ELSE <<Last(holds)>> ELSE others
        entry == [id |-> "DT", group |-> "MOM", values |-> q.values]
        tree == NL!Reduce(NL!FromXml(<<entry>>), q.env, q.match)
        value == tree.items[1].tree.items[1].tree.items[1].tree
    IN ~NL!ElseTwice(q.values) =>
         value = IF pick = <<>> THEN NL!Nothing ELSE NL!Text(pick[1].text)

\* A job has the processors, the queue, the environment and the command that
\* fit its case, and that of a test those for both of its runs
JobHolds == LayoutFits /\ AprunAgrees /\ RunsFit /\ QueueTakesJob /\ ShellAgrees /\ MpirunFits

\* A case has the defaults, the compset, the layout and the grids meant for it,
\* values that other values and settings do not disturb, and mods that win as
\* their order says; a clone is a case of its own
ConfigurationHolds ==
  /\ ValueFits /\ OneBestLayout /\ PesMeant /\ CompsetIsNormal /\ MapsInOrder /\ NoGridStays
  /\ ValuesResolved /\ ChangesSeen /\ ModsInOrder /\ CloneApart /\ EnsembleApart

\* A session runs the tests its arguments ask for, in the groups and phases
\* they allow
SelectionHolds == FullNamesAgree /\ GroupsShareBuild /\ NegationWins /\ OptionsImply

\* A baseline is compared, replaced and blessed as its verdict says, and the
\* date of a file is the one in its name
BaselinesHold == DatesRead /\ BaselineVerdict /\ GeneratedCompares /\ BlessesOnlyRun

\* Namelists and parameters have the values their users and definitions give
NamelistsHold == MergeKeeps /\ NamelistsCompare /\ LostLineSeen /\ UserWins /\ GuardsReduced
=============================================================================
