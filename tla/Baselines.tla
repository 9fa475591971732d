------------------------------- MODULE Baselines -------------------------------
(***************************************************************************)
(* Baselines of a test: history files, namelists and performance, their    *)
(* comparison, generation and blessing (hist_utils.py, archive_base.py,    *)
(* case_cmpgen_namelists.py, performance.py, bless_test_results.py,        *)
(* compare_test_results.py), and the dates of files (date.py,              *)
(* case_st_archive.py).  A history file's name is a record [model,         *)
(* inst, stream, date, kind]; inst is 0 for a file without an instance,    *)
(* kind tells "initial" and files that are not netcdf from the rest.  A    *)
(* directory is a function from names to contents, a content one from      *)
(* fields to values.  A test T has its models in order and those of them   *)
(* that tests leave out.  T.bless_log is the option create_bless_log, the  *)
(* log of a baseline tells whether the file it keeps has lines.            *)
(***************************************************************************)
EXTENDS Integers, Sequences, FiniteSets, SequencesExt

LOCAL Status == INSTANCE TestStatus WITH ComparePhases <- {"COMPARE_base_rest"}

Bare(f) == [x \in {} |-> f]
NoDir == [exists |-> FALSE, log |-> FALSE, hists |-> Bare(0), docs |-> Bare(0), user_nl |-> Bare(0), tput |-> <<>>, mem |-> <<>>]

(***************************************************************************)
(* Which files (get_all_hist_files, get_latest_hist_files)                 *)
(***************************************************************************)
HistsOf(dir, model) == {n \in DOMAIN dir : n.model = model}

SameStream(n, k) == n.model = k.model /\ n.inst = k.inst /\ n.stream = k.stream

Latest(dir, model) ==
  {n \in HistsOf(dir, model) : \A k \in HistsOf(dir, model) : SameStream(n, k) => k.date <= n.date}

\* The files of a directory are sorted by name
Sooner(n, k) == <<n.inst, n.stream, n.date>> # <<k.inst, k.stream, k.date>> /\
  \/ n.inst < k.inst
  \/ n.inst = k.inst /\ (n.stream < k.stream \/ (n.stream = k.stream /\ n.date <= k.date))

LatestInOrder(dir, model) == SetToSortSeq(Latest(dir, model), Sooner)

(***************************************************************************)
(* Comparison (_hists_match, cprnc, _compare_hists)                        *)
(***************************************************************************)
Single(n) == [n EXCEPT !.inst = 0]
Multi(hists) == [i \in DOMAIN SelectSeq(hists, LAMBDA n : n.inst # 0) |->
                   Single(SelectSeq(hists, LAMBDA n : n.inst # 0)[i])]

\* The files of one directory that stand for an instance of a file in the
\* other, when one run has instances and the other has not.  The code counts
\* them among all the files of the directory.
Instances(many, one) ==
  IF Multi(many) # Multi(one) /\ Range(Multi(many)) = Range(one)
  THEN [i \in DOMAIN Multi(many) |-> <<many[i], Multi(many)[i]>>] ELSE <<>>

Pairs(h1, h2) ==
  LET same == SelectSeq(h1, LAMBDA n : n \in Range(h2))
      swapped == Instances(h2, h1)
  IN [i \in DOMAIN same |-> <<same[i], same[i]>>] \o Instances(h1, h2)
     \o [i \in DOMAIN swapped |-> <<swapped[i][2], swapped[i][1]>>]

Unpaired(hists, pairs, side) ==
  {n \in Range(hists) : n.kind # "initial" /\ \A i \in DOMAIN pairs : pairs[i][side] # n}

\* The program cprnc compares the fields two files share
Cprnc(a, b) ==
  CASE "unreadable" \in DOMAIN a \cup DOMAIN b -> "OPEN"
    [] \E f \in DOMAIN a \cap DOMAIN b : a[f] # b[f] -> "DIFF"
    [] DOMAIN a # DOMAIN b -> "FIELDLIST"
    [] OTHER -> "SAME"

\* One pair after the other: a file that cannot be opened ends everything
ComparePair(found, a, b) ==
  LET verdict == Cprnc(a, b)
  IN CASE found.stop \/ verdict = "SAME" -> found
       [] verdict = "OPEN" -> [found EXCEPT !.stop = TRUE, !.remarks = @ \cup {"OPEN"}]
       [] OTHER -> [found EXCEPT !.remarks = @ \cup {verdict}]

\* Mutant: only what the test wrote is looked for.
CompareOneSided(found, dir1, dir2, model) ==
  LET h1 == LatestInOrder(dir1, model)  pairs == Pairs(h1, LatestInOrder(dir2, model))
      netcdf == SelectSeq(pairs, LAMBDA p : p[1].kind # "text")
      start == [found EXCEPT !.compared = @ + Len(pairs),
                  !.remarks = @ \cup (IF Unpaired(h1, pairs, 1) # {} THEN {"NO_COMPARE"} ELSE {})]
  IN FoldLeft(LAMBDA f, p : ComparePair(f, dir1[p[1]], dir2[p[2]]), start, netcdf)

CompareModel(found, dir1, dir2, model) ==
  LET h1 == LatestInOrder(dir1, model)  h2 == LatestInOrder(dir2, model)
      pairs == Pairs(h1, h2)
      netcdf == SelectSeq(pairs, LAMBDA p : p[1].kind # "text")
      start == [found EXCEPT !.compared = @ + Len(pairs),
                  !.remarks = @ \cup (IF Unpaired(h1, pairs, 1) # {} THEN {"NO_COMPARE"} ELSE {})
                                \cup (IF Unpaired(h2, pairs, 2) # {} THEN {"NO_ORIGINAL"} ELSE {})]
  IN IF found.stop THEN found
     ELSE FoldLeft(LAMBDA f, p : ComparePair(f, dir1[p[1]], dir2[p[2]]), start, netcdf)

CompareHists(T, dir1, dir2) ==
  LET models == SelectSeq(T.models, LAMBDA x : x \notin T.excluded)
      start == [stop |-> FALSE, remarks |-> {}, compared |-> 0]
      end == FoldLeft(LAMBDA f, x : CompareModel(f, dir1, dir2, x), start, models)
      nothing == end.compared = 0 /\ ~end.stop /\ ~T.no_hist
  IN [success |-> end.remarks = {} /\ ~nothing,
      remarks |-> end.remarks \cup (IF nothing THEN {"NOTHING"} ELSE {})]

\* compare_baseline; with create_bless_log the last line of the log follows the
\* verdict in the comments
CompareBaseline(T, base) ==
  LET result == CompareHists(T, T.hists, base.hists)
  IN IF ~base.exists THEN [success |-> FALSE, remarks |-> {"NO_BASELINE"}, blessed |-> FALSE]
     ELSE [success |-> result.success, remarks |-> result.remarks, blessed |-> T.bless_log /\ base.log]

\* get_ts_synopsis: what the comment of the phase says.  It knows a comparison
\* that passed by the end of the comments, so that after the line of the bless
\* log such a one "Could not interpret" either
Synopsis(result) ==
  LET r == result.remarks
  IN CASE r \cap {"NO_BASELINE"} # {} -> "BFAIL"
       [] result.success /\ ~result.blessed -> ""
       [] r \cap {"DIFF", "NO_ORIGINAL"} # {} -> "DIFF"
       [] {"FIELDLIST", "NO_COMPARE"} \subseteq r -> "MULTIPLE"
       [] "FIELDLIST" \in r -> "FIELDLIST"
       [] "NO_COMPARE" \in r -> "BFAIL"
       [] OTHER -> "ERROR"

(***************************************************************************)
(* Generation (_generate_baseline_impl, copy_histfiles)                    *)
(***************************************************************************)
\* The files of all models; those tests leave out are generated too
ToGenerate(T) ==
  UNION {IF T.all_hist THEN HistsOf(T.hists, x) ELSE Latest(T.hists, x) : x \in Range(T.models)}

\* Mutant: the files of an older baseline stay.
GenerateOver(T, base) ==
  [base EXCEPT !.exists = TRUE, !.log = @ \/ T.bless_log,
     !.hists = [n \in DOMAIN base.hists \cup ToGenerate(T) |->
                  IF n \in ToGenerate(T) THEN T.hists[n] ELSE base.hists[n]]]

\* Everything goes but CaseDocs, user_nl files, the bless log and TestStatus: the
\* performance baselines go too.  The log gets a line
Generate(T, base) ==
  [base EXCEPT !.exists = TRUE, !.log = @ \/ T.bless_log, !.tput = <<>>, !.mem = <<>>,
     !.hists = [n \in ToGenerate(T) |-> T.hists[n]]]

\* The error comes after the old files have gone
GenerateFails(T) == ToGenerate(T) = {} /\ ~T.no_hist /\ ~T.build_only

\* copy_histfiles: the newest files of one run of the test, kept under a suffix.
\* A file of an earlier copy stays unless it is written again.
Stash(T, hists, stash) ==
  LET new == {n \in UNION {Latest(hists, x) : x \in Range(T.models) \ T.excluded} : n.kind # "text"}
  IN [n \in DOMAIN stash \cup new |-> IF n \in new THEN hists[n] ELSE stash[n]]

(***************************************************************************)
(* Namelists (_do_full_nl_comp, _do_full_nl_gen): docs are functions from  *)
(* names of files to contents                                              *)
(***************************************************************************)
CompareDocs(T, base) ==
  \A f \in DOMAIN T.docs \ T.notes : f \in DOMAIN base.docs /\ base.docs[f] = T.docs[f]

GenerateDocs(T, base) == [base EXCEPT !.exists = TRUE, !.docs = T.docs, !.user_nl = T.user_nl]

\* case_cmpgen_namelists: the status of NLCOMP and the baseline afterwards.  What
\* differs is still generated.
CmpGen(T, compare, generate, base, gen) ==
  [nlcomp |-> IF ~compare /\ ~generate THEN "NONE" ELSE IF compare /\ ~CompareDocs(T, base) THEN "FAIL" ELSE "PASS",
   base |-> IF generate THEN GenerateDocs(T, gen) ELSE gen]

(***************************************************************************)
(* Performance (performance.py, system_tests_common.py); 0 is no value     *)
(***************************************************************************)
\* _parse_baseline: the last line that was appended
BaseValue(lines) == IF lines = <<>> THEN 0 ELSE Last(lines)

\* A value is appended when the log has one
Recorded(lines, now) == IF now = 0 THEN lines ELSE Append(lines, now)

\* perf_write_baseline
WritePerf(base, T, throughput, memory) ==
  [base EXCEPT !.tput = IF throughput THEN Recorded(@, T.tput) ELSE @,
               !.mem = IF memory THEN Recorded(@, T.mem) ELSE @]

\* Throughput may shrink and memory grow by a share of the baseline
SlowerBy(base, now, percent) == (base - now) * 100 < percent * base
LargerBy(base, now, percent) == (now - base) * 100 < percent * base

\* "UNKNOWN" leaves the phase alone.  Memory without a baseline is taken to be
\* the same.
CompareTput(lines, now, percent) ==
  IF now = 0 THEN "ERROR" ELSE IF BaseValue(lines) = 0 THEN "UNKNOWN"
  ELSE IF SlowerBy(BaseValue(lines), now, percent) THEN "BELOW" ELSE "ABOVE"
CompareMem(lines, now, percent) ==
  IF now = 0 THEN "UNKNOWN"
  ELSE IF BaseValue(lines) = 0 THEN IF percent > 0 THEN "BELOW" ELSE "ABOVE"
  ELSE IF LargerBy(BaseValue(lines), now, percent) THEN "BELOW" ELSE "ABOVE"

\* _compare_memory, _compare_throughput: a phase that has passed does not pass twice
PerfPhase(status, answer) ==
  CASE answer = "UNKNOWN" -> status
    [] answer = "BELOW" /\ status = "NONE" -> "PASS"
    [] OTHER -> "FAIL"

(***************************************************************************)
(* Blessing (bless_test_results.py)                                        *)
(***************************************************************************)
\* The query for the overall result; o has the options of the command
BlessQuery(o) ==
  [waitForRun |-> FALSE, checkTput |-> o.tput, checkMem |-> o.mem, ignoreNl |-> TRUE,
   ignoreDiffs |-> o.tput \/ o.mem, ignoreMemleak |-> TRUE, noRun |-> FALSE]

Everything(o) == ~(o.namelists_only \/ o.hist_only \/ o.tput \/ o.mem)

\* Mutant: only the diffs of the history files count.
HistUnchecked(ts, o) == ts.st["BASELINE"] # "PASS"

\* is_hist_bless_needed.  Whether something else than GENERATE failed is asked
\* with "is", and no status that is read from a file is the constant, so that the
\* failures of the other phases are not seen.
HistNeeded(ts, o) ==
  /\ ts.st["RUN"] = "PASS"
  /\ IF Status!Overall(ts, BlessQuery(o))[1] = "FAIL" THEN ts.st["GENERATE"] = "FAIL"
     ELSE o.no_skip_pass \/ ts.st["BASELINE"] # "PASS"

\* What is blessed
Blesses(ts, o, build_only) ==
  [namelists |-> (o.namelists_only \/ Everything(o)) /\ (o.no_skip_pass \/ ts.st["NLCOMP"] # "PASS"),
   hist |-> ~build_only /\ (o.hist_only \/ Everything(o)) /\ HistNeeded(ts, o),
   tput |-> ~build_only /\ o.tput /\ ts.st["TPUTCOMP"] # "PASS",
   mem  |-> ~build_only /\ o.mem /\ ts.st["MEMCOMP"] # "PASS"]

\* bless_history with the user's consent
BlessHistory(T, base) == IF CompareBaseline(T, base).success THEN base ELSE Generate(T, base)

BlessPerf(T, base, o) ==
  WritePerf(base, T, o.tput /\ CompareTput(base.tput, T.tput, T.percent) # "BELOW",
                     o.mem /\ CompareMem(base.mem, T.mem, T.percent) # "BELOW")

(***************************************************************************)
(* compare_test_results; a test is [ts, T, build_only, base]               *)
(***************************************************************************)
CompareResult(t, o) ==
  [namelists |-> IF o.hist_only THEN "NONE"
                 ELSE IF t.ts.st["SETUP"] = "NONE" THEN "SKIP"
                 ELSE IF CompareDocs(t.T, t.base) THEN "PASS" ELSE "FAIL",
   hist |-> IF o.namelists_only \/ t.build_only THEN "NONE"
            ELSE IF t.ts.st["RUN"] # "PASS" THEN "SKIP"
            ELSE IF CompareBaseline(t.T, t.base).success THEN "PASS" ELSE "FAIL"]

AllPassOrSkip(tests, o) ==
  \A t \in tests : "FAIL" \notin {CompareResult(t, o).namelists, CompareResult(t, o).hist}

(***************************************************************************)
(* The dates of files, by which the histories and restarts of a run are    *)
(* told apart: the order of dates (class date, which keeps a time of day   *)
(* in seconds), the date in the name of a file (get_file_date) and the     *)
(* names the archiver makes of a date.  Here a name is a sequence of its   *)
(* numbers, each with the text before it, its value and its digits.        *)
(***************************************************************************)
HmsToSecond(h, m, s) == h * 3600 + m * 60 + s
SecondToHms(s) == [hour |-> s \div 3600, minute |-> (s % 3600) \div 60, second |-> s % 60]

Date(y, m, d, s) == [year |-> y, month |-> m, day |-> d, second |-> s]
AllDates == [year : Nat, month : Nat, day : Nat, second : Nat]

\* Mutant: the months are compared whatever the years are.
MonthsFirst(a, b) ==
  \/ a.month < b.month
  \/ a.month = b.month /\ a.day < b.day
  \/ a.month = b.month /\ a.day = b.day /\ a.second < b.second

\* __lt__
Before(a, b) ==
  \/ a.year < b.year
  \/ a.year = b.year /\ a.month < b.month
  \/ a.year = b.year /\ a.month = b.month /\ a.day < b.day
  \/ a.year = b.year /\ a.month = b.month /\ a.day = b.day /\ a.second < b.second

\* __eq__, __le__
Same(a, b) == a.year = b.year /\ a.month = b.month /\ a.day = b.day /\ a.second = b.second
NotAfter(a, b) == Before(a, b) \/ Same(a, b)

(***************************************************************************)
(* get_file_date                                                           *)
(***************************************************************************)
\* The texts between the numbers, and the digits of the last number that count
Format(seps, last) == [seps |-> seps, last |-> last]

\* Mutant: the formats from the least specific to the most.
FormatsBackwards == <<Format(<<{"-", "."}>>, 2), Format(<<{"-"}, {"-"}>>, 2),
                      Format(<<{"-"}, {"-"}, {"-", "_"}>>, 5), Format(<<{"-"}, {"-"}, {"_"}, {"."}, {"."}>>, 2)>>

Formats == <<Format(<<{"-"}, {"-"}, {"_"}, {"."}, {"."}>>, 2), Format(<<{"-"}, {"-"}, {"-", "_"}>>, 5),
             Format(<<{"-"}, {"-"}>>, 2), Format(<<{"-", "."}>>, 2)>>

\* The numbers from i on are a date: a year of four digits or more, the others
\* of one or two, the last as many as it has
FitsAt(name, i, f) ==
  /\ i + Len(f.seps) <= Len(name) /\ name[i].digits >= 4
  /\ \A k \in DOMAIN f.seps : name[i + k].sep \in f.seps[k] /\ (k < Len(f.seps) => name[i + k].digits <= 2)

\* The first digits of a number
Leading(number, digits) ==
  IF number.digits <= digits THEN number.n ELSE number.n \div (10 ^ (number.digits - digits))

DateAt(name, i, f) ==
  LET k == Len(f.seps)
      At(j) == IF j = k THEN Leading(name[i + k], f.last) ELSE name[i + j].n
  IN Date(At(0), At(1), IF k >= 2 THEN At(2) ELSE 1,
          CASE k = 3 -> At(3) [] k = 5 -> HmsToSecond(At(3), At(4), At(5)) [] OTHER -> 0)

\* The first place of the first format that fits anywhere, or no date
FileDate(name) ==
  LET places(f) == {i \in DOMAIN name : FitsAt(name, i, f)}
      found == {k \in DOMAIN Formats : places(Formats[k]) # {}}
      f == Formats[Min(found)]
  IN IF found = {} THEN <<>> ELSE <<DateAt(name, Min(places(f)), f)>>

(***************************************************************************)
(* _datetime_str and _datetime_str_mpas: numbers with as many digits, or   *)
(* more for a long year                                                    *)
(***************************************************************************)
Digits(n, width) == CHOOSE k \in width .. 9 : n < 10 ^ k /\ (k = width \/ n >= 10 ^ (k - 1))
Written(sep, n, width) == [sep |-> sep, n |-> n, digits |-> Digits(n, width)]

DatetimeStr(text, d) ==
  <<Written(text, d.year, 4), Written("-", d.month, 2), Written("-", d.day, 2), Written("-", d.second, 5)>>

DatetimeStrMpas(text, d) ==
  LET t == SecondToHms(d.second)
  IN <<Written(text, d.year, 4), Written("-", d.month, 2), Written("-", d.day, 2),
       Written("_", t.hour, 2), Written(":", t.minute, 2), Written(":", t.second, 2)>>
=============================================================================
