-------------------------- MODULE TestStatusHistory --------------------------
(***************************************************************************)
(* Every history of set_status calls that CIME's own programs can make on  *)
(* one TestStatus file, one program at a time (TestCaseRun adds programs   *)
(* that overlap).  The call sites fix what a program may touch next:       *)
(* create_test and the case.* tools never skip a core phase, namelists are *)
(* compared after a passed SETUP, and the result phases are only set from  *)
(* SystemTestsCommon.run, after it set RUN.                                *)
(***************************************************************************)
EXTENDS TestStatus

CONSTANT CalledPhases     \* the phases the programs of this history set
CONSTANT FailComments     \* the comments of a failed baseline comparison

CONSTANT Queries          \* the options get_overall_test_status is asked with

ASSUME HistoryAssumption ==
    CalledPhases \subseteq Phases /\ FailComments \subseteq Comments /\ Queries \subseteq Options

VARIABLE ts               \* the contents of the TestStatus file

historyVars == << ts >>

\* wait_for_test waits for RUN exactly when tests are run; its queries without
\* throughput, memory and memory leaks, which have no phase in small instances
WaitQueries == {o \in Options : /\ o.waitForRun = ~o.noRun
                                /\ ~o.checkTput /\ ~o.checkMem /\ ~o.ignoreMemleak}

ResultPhases == Phases \ (Core \cup {"NLCOMP"})

InTurn(p) ==
    \/ p = "CREATE_NEWCASE"
    \/ p \in Core \ {"CREATE_NEWCASE"} /\ ts.st[PrevCore[p]] # NoStatus
    \/ p = "NLCOMP" /\ ts.st["SETUP"] = "PASS"
    \/ p \in ResultPhases /\ ts.st["RUN"] # NoStatus

HistoryInit == ts = EmptyStatus

\* case.cmpgen_namelists only passes or fails its phase.
Allowed(p, s, c) ==
    /\ p = "NLCOMP" => s # "PEND"
    /\ c \in IF p \in DiffPhases /\ s = "FAIL" THEN FailComments ELSE {""}

Call(p, s, c) ==
    /\ InTurn(p)
    /\ Allowed(p, s, c)
    /\ MaySet(ts.st, p)
    /\ ts' = SetStatus(ts, p, s, c)

HistoryNext == \E p \in CalledPhases, s \in Statuses, c \in Comments : Call(p, s, c)

HistorySpec == HistoryInit /\ [][HistoryNext]_historyVars

-----------------------------------------------------------------------------
HistoryTypeOK == IsStatus(ts)

\* "Incomplete tests are always left in a PEND state" (test_status.py:19-21): the
\* core phases a file names are an initial segment of the core phases, all of
\* them passed except possibly the last.
CorePrefix ==
    \A p \in Core \ {"CREATE_NEWCASE"} :
        /\ ts.st[p] # NoStatus => ts.st[PrevCore[p]] = "PASS"
        /\ ts.st[PrevCore[p]] = "PASS" => ts.st[p] # NoStatus

\* "If the user repeats a core state, that invalidates all subsequent state"
\* (test_status.py:22-25): while a core phase before RUN has not passed, no
\* result of a later phase, of whatever kind, is still in the file.
NoStaleResults ==
    \A p \in Core \ {"RUN"}, q \in Phases :
        ts.st[p] # "PASS" /\ AllIndex[q] > AllIndex[p] => ts.st[q] = NoStatus

\* Whenever the run phase matters, the two passes of loops of
\* get_overall_test_status, with their early exits and excuses, rank the lines
\* of the file as Precedence does.
OverallByPrecedence ==
    \A o \in Queries : ~o.noRun => Overall(ts, o)[1] = Precedence(ts, o)

=============================================================================
