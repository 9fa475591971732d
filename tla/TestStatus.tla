------------------------------ MODULE TestStatus ------------------------------
(***************************************************************************)
(* The phase algebra of a CIME system test: what the TestStatus class of   *)
(* src/cime/CIME/test_status.py computes on the phases of one test.  Only  *)
(* pure operators live here; the modules that share a TestStatus file      *)
(* between programs build their actions from them.                         *)
(*                                                                         *)
(* The dictionary {phase -> (status, comment)} is a record of three parts: *)
(*    st     phase -> status, NoStatus for a phase the file does not name  *)
(*    cm     phase -> comment, of which only the words read back by CIME   *)
(*           are kept (a "time=..." comment is the empty comment)          *)
(*    order  the named phases in insertion order (the order of the lines)  *)
(***************************************************************************)
EXTENDS Naturals, Sequences, SequencesExt

CONSTANT ComparePhases     \* the COMPARE_<what> phases this test can have

CorePhases == << "CREATE_NEWCASE", "XML", "SETUP", "SHAREDLIB_BUILD",
                 "MODEL_BUILD", "SUBMIT", "RUN" >>

\* COMPARE stands for every COMPARE_<what> phase.
AllPhases == << "CREATE_NEWCASE", "XML", "SETUP", "NLCOMP", "SHAREDLIB_BUILD",
                "MODEL_BUILD", "SUBMIT", "RUN", "COMPARE", "BASELINE", "TPUTCOMP",
                "MEMCOMP", "MEMLEAK", "SHORT_TERM_ARCHIVER", "GENERATE" >>

ASSUME CompareAssumption ==
    \A i \in DOMAIN AllPhases : AllPhases[i] \notin ComparePhases

Core     == {CorePhases[i] : i \in DOMAIN CorePhases}
Phases   == ({AllPhases[i] : i \in DOMAIN AllPhases} \ {"COMPARE"}) \cup ComparePhases
Statuses == {"PEND", "PASS", "FAIL"}
NoStatus == "NONE"
Comments == {"", "RERUN", "DIFF", "ERROR", "BFAIL"}

AllIndex == [p \in Phases |-> CHOOSE i \in DOMAIN AllPhases :
                AllPhases[i] = IF p \in ComparePhases THEN "COMPARE" ELSE p]

CoreIndex == [p \in Core |-> CHOOSE i \in DOMAIN CorePhases : CorePhases[i] = p]
PrevCore  == [p \in Core \ {"CREATE_NEWCASE"} |-> CorePhases[CoreIndex[p] - 1]]
NextCore  == [p \in Core \ {"RUN"} |-> CorePhases[CoreIndex[p] + 1]]

EmptyStatus == [st    |-> [p \in Phases |-> NoStatus],
                cm    |-> [p \in Phases |-> ""],
                order |-> << >>]

-----------------------------------------------------------------------------
(* set_status *)

\* Mutants: the expect() dropped; only core phases invalidated.
MaySetAlways(st, p) == TRUE

InvalidatedCore(st, p) ==
    {q \in Core : p \in Core /\ st[p] \in {"PASS", "FAIL"} /\ CoreIndex[q] > CoreIndex[p]}

\* The expect() of set_status: a core phase whose predecessor is recorded can
\* only be touched when that predecessor passed.
MaySet(st, p) ==
    p \in Core \ {"CREATE_NEWCASE"} /\ st[PrevCore[p]] # NoStatus
        => st[PrevCore[p]] = "PASS"

\* Setting a core phase that already finished deletes every later phase.
Invalidated(st, p) ==
    IF p \in Core /\ st[p] \in {"PASS", "FAIL"}
    THEN {q \in Phases : AllIndex[q] > AllIndex[p]}
    ELSE {}

\* A passed core phase makes the next core phase pending.
Opened(p, s) == IF s = "PASS" /\ p \in Core \ {"RUN"} THEN {NextCore[p]} ELSE {}

SetPhase(st, p, s) ==
    [q \in Phases |-> IF q = p THEN s
                      ELSE IF q \in Opened(p, s) THEN "PEND"
                      ELSE IF q \in Invalidated(st, p) THEN NoStatus
                      ELSE st[q]]

\* A sequence after the members of a set are deleted.
Without(seq, gone) ==
    LET kept[i \in 0..Len(seq)] ==
            IF i = 0 THEN << >>
            ELSE IF seq[i] \in gone THEN kept[i - 1]
            ELSE Append(kept[i - 1], seq[i])
    IN  kept[Len(seq)]

\* A phase that has a line keeps its place, another one comes last.
AddLine(seq, p) == IF \E i \in DOMAIN seq : seq[i] = p THEN seq ELSE Append(seq, p)

\* Mutant: the phase that becomes pending gets no line of its own.
SetStatusUnlisted(ts, p, s, c) ==
    [st    |-> SetPhase(ts.st, p, s),
     cm    |-> [ts.cm EXCEPT ![p] = c],
     order |-> AddLine(Without(ts.order, Invalidated(ts.st, p)), p)]

SetStatus(ts, p, s, c) ==
    LET gone  == Invalidated(ts.st, p)
        lines == AddLine(Without(ts.order, gone), p)
    IN  [st    |-> SetPhase(ts.st, p, s),
         cm    |-> [q \in Phases |-> IF q = p THEN c
                                     ELSE IF q \in gone \cup Opened(p, s) THEN ""
                                     ELSE ts.cm[q]],
         order |-> IF Opened(p, s) = {} THEN lines ELSE AddLine(lines, NextCore[p])]

\* current_is: the last line of the file is phase p with status s.
CurrentIs(ts, p, s) ==
    ts.order # << >> /\ Last(ts.order) = p /\ ts.st[p] = s

-----------------------------------------------------------------------------
(* get_overall_test_status *)

\* The options of the query.
Options == [waitForRun : BOOLEAN, checkTput : BOOLEAN, checkMem : BOOLEAN,
            ignoreNl : BOOLEAN, ignoreDiffs : BOOLEAN, ignoreMemleak : BOOLEAN,
            noRun : BOOLEAN]

Excused(p, o) ==
    \/ p = "TPUTCOMP" /\ ~o.checkTput
    \/ p = "MEMCOMP"  /\ ~o.checkMem
    \/ p = "NLCOMP"   /\ o.ignoreNl
    \/ p = "BASELINE" /\ o.ignoreDiffs
    \/ p = "MEMLEAK"  /\ o.ignoreMemleak

DiffPhases == {"BASELINE", "TPUTCOMP", "MEMCOMP"}

\* The verdict of a failed comparison: only a bare ERROR is a failure.
DiffVerdict(c) == IF c = "ERROR" THEN "FAIL" ELSE "DIFF"

Soft(rv) == rv \in {"PASS", "NLFAIL"}

\* Mutant: a DIFF trumps a FAIL.
FailedDiffWins(acc, p, c) ==
    [acc EXCEPT !.rv   = IF p \in DiffPhases THEN DiffVerdict(c)
                         ELSE IF p = "NLCOMP" THEN IF @ = "PASS" THEN "NLFAIL" ELSE @
                         ELSE "FAIL",
                !.by   = IF p = "NLCOMP" THEN @ ELSE p,
                !.done = p \in Core]

\* What a failed phase that nothing excuses does to the verdict so far.
Failed(acc, p, c) ==
    CASE p = "NLCOMP"       -> [acc EXCEPT !.rv = IF @ = "PASS" THEN "NLFAIL" ELSE @]
      [] p \in DiffPhases   -> IF Soft(acc.rv)
                               THEN [acc EXCEPT !.rv = DiffVerdict(c), !.by = p]
                               ELSE acc
      [] p \in Core         -> [acc EXCEPT !.rv = "FAIL", !.by = p, !.done = TRUE]
      [] p \notin Core \cup DiffPhases \cup {"NLCOMP"} ->
                               [acc EXCEPT !.rv = "FAIL", !.by = p]

\* One turn of the loop of _get_overall_status_based_on_phases, for a phase the
\* file names; done is the break or the return that ends the loop.
ScanPhase(ts, o, acc, p) ==
    LET s == ts.st[p]
        a == [acc EXCEPT !.by  = IF p \in Core /\ Soft(acc.rv) /\ s # "PEND" THEN p ELSE @,
                         !.ran = @ \/ p = "RUN"]
    IN  IF o.noRun /\ p \in {"SUBMIT", "RUN"} THEN [a EXCEPT !.done = TRUE]
        ELSE IF s = "PEND" /\ Soft(a.rv) /\ ~o.noRun
             THEN [a EXCEPT !.rv = "PEND", !.by = p, !.done = TRUE]
        ELSE IF s = "FAIL" /\ ~Excused(p, o) THEN Failed(a, p, ts.cm[p])
        ELSE a

\* One phase of the loop: it goes on with the next one when the file does not
\* name this one.
Turn(ts, o, acc, p) ==
    IF acc.done \/ ts.st[p] = NoStatus THEN acc ELSE ScanPhase(ts, o, acc, p)

NotScanned == [rv |-> "PASS", by |-> NoStatus, ran |-> FALSE, done |-> FALSE]

Scanned(ts, o, phases) ==
    LET after[i \in 0..Len(phases)] ==
            IF i = 0 THEN NotScanned ELSE Turn(ts, o, after[i - 1], phases[i])
    IN  after[Len(phases)]

\* Mutant: a RUN phase that is not in the file is not waited for.
OverallWithoutRun(ts, o, phases) ==
    LET end == Scanned(ts, o, phases) IN << end.rv, end.by >>

OverallOfPhases(ts, o, phases) ==
    LET end == Scanned(ts, o, phases)
    IN  IF Soft(end.rv) /\ ~end.ran /\ o.waitForRun
        THEN << "PEND", "RUN" >>
        ELSE << end.rv, end.by >>

\* The lines that are not of core phases.
Results(ts) == Without(ts.order, Core)

\* Core phases take priority; the others are scanned in the order of the file.
Overall(ts, o) ==
    LET core == OverallOfPhases(ts, o, CorePhases)
    IN  IF core[1] # "PASS" THEN core
        ELSE OverallOfPhases(ts, o, CorePhases \o Results(ts))

-----------------------------------------------------------------------------
(* What a TestStatus file is, and what its overall status is to be *)

IsStatus(ts) ==
    /\ ts.st \in [Phases -> Statuses \cup {NoStatus}]
    /\ ts.cm \in [Phases -> Comments]
    /\ ts.order \in Seq(Phases)
    /\ \A p \in Phases : ts.st[p] # NoStatus <=> \E i \in DOMAIN ts.order : ts.order[i] = p

\* What decides the overall status, without the loops, for a query about tests
\* that are run: "Core phases take priority", and the first that has not passed
\* decides; then RUN must be there if it is waited for; then the first decisive
\* result line, except that "a DIFF does not trump a FAIL"; namelist differences
\* have the lowest precedence.  A pending line counts only when no failed one
\* comes before it, although "preference is given to PEND" (test_status.py:510).
Decisive(ts, o, p) ==
    ts.st[p] = "PEND" \/ (ts.st[p] = "FAIL" /\ p # "NLCOMP" /\ ~Excused(p, o))

Precedence(ts, o) ==
    LET bad   == {p \in Core : ts.st[p] \in {"PEND", "FAIL"}}
        lines == Results(ts)
        dec   == {i \in DOMAIN lines : Decisive(ts, o, lines[i])}
        first == lines[CHOOSE i \in dec : \A j \in dec : i <= j]
        hard  == \E i \in dec : lines[i] \notin DiffPhases /\ ts.st[lines[i]] = "FAIL"
    IN  IF bad # {} THEN ts.st[CHOOSE p \in bad : \A q \in bad : CoreIndex[p] <= CoreIndex[q]]
        ELSE IF o.waitForRun /\ ts.st["RUN"] = NoStatus THEN "PEND"
        ELSE IF dec = {}
             THEN IF ts.st["NLCOMP"] = "FAIL" /\ ~o.ignoreNl THEN "NLFAIL" ELSE "PASS"
        ELSE IF ts.st[first] = "PEND" THEN "PEND"
        ELSE IF hard THEN "FAIL"
        ELSE DiffVerdict(ts.cm[first])

=============================================================================
