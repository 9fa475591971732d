------------------------------ MODULE TestPhases ------------------------------
(***************************************************************************)
(* The parameters of a create_test session: the tests, their build groups  *)
(* and the phases they are to be taken through (the constructor of         *)
(* TestScheduler, src/cime/CIME/test_scheduler.py).                        *)
(***************************************************************************)
EXTENDS Integers

\* The phases of TestScheduler.PHASES, by position.
INIT == 1
CREATE_NEWCASE == 2
XML == 3
SETUP == 4
SHAREDLIB_BUILD == 5
MODEL_BUILD == 6
RUN == 7

CONSTANTS
    Tests,       \* the positions of the tests in self._tests
    Leader,      \* Leader[t]: the first test of the build group of t
    LastPhase,   \* self._phases is PHASES up to here (no_setup, no_build, no_run)
    Starts       \* the phases the tests may already have passed (use_existing)

\* no_setup implies no_build implies no_run, so what is removed from PHASES is
\* always a suffix; the constructor only accepts phases that were not removed.
\* An existing member was built with its leader's build.
ASSUME TestsAssumption ==
    /\ Leader \in [Tests -> Tests]
    /\ \A t \in Tests : Leader[Leader[t]] = Leader[t]
    /\ LastPhase \in {XML, SETUP, MODEL_BUILD, RUN}
    /\ Starts \subseteq [Tests -> INIT..LastPhase]
    /\ \A s \in Starts, t \in Tests : \A p \in {SHAREDLIB_BUILD, MODEL_BUILD} :
           s[t] >= p => s[Leader[t]] >= p

IsFirst(t) == Leader[t] = t

\* The phases in which a test depends on the first test of its group.
GroupPhases == {XML, SHAREDLIB_BUILD, MODEL_BUILD}
BuildPhases == {SHAREDLIB_BUILD, MODEL_BUILD}

=============================================================================
