----------------------------- MODULE TestProgress -----------------------------
(***************************************************************************)
(* What create_test promises about the tests it drives, without threads,   *)
(* processors or files: every test walks the phases one by one, a phase    *)
(* is left only when it passed, and the tests of a build group reuse the   *)
(* build of the first test of the group.  TestScheduler implements it.     *)
(***************************************************************************)
EXTENDS TestPhases

VARIABLES
    phase,       \* self._tests[t][0]
    status       \* self._tests[t][1]

progress == << phase, status >>

\* _get_test_status(t, p): later phases are assumed PEND, older ones PASS.
StatusOf(t, p) == IF p = phase[t] THEN status[t]
                  ELSE IF p > phase[t] THEN "PEND" ELSE "PASS"

WorkRemains(t) == status[t] # "FAIL" /\ phase[t] # LastPhase

\* A member waits while the first test of its group has that phase pending.
Eligible(t, p) ==
    ~IsFirst(t) /\ p \in GroupPhases => StatusOf(Leader[t], p) # "PEND"

-----------------------------------------------------------------------------
Init == /\ phase \in Starts
        /\ status = [t \in Tests |-> "PASS"]

\* The next phase of a test starts.
Begin(t) ==
    /\ status[t] = "PASS" /\ phase[t] # LastPhase
    /\ Eligible(t, phase[t] + 1)
    /\ phase'  = [phase EXCEPT ![t] = @ + 1]
    /\ status' = [status EXCEPT ![t] = "PEND"]

\* The phase of a test ends; a member of a group only passes the build phases
\* when the first test of the group did.
Finish(t) ==
    /\ status[t] = "PEND"
    /\ \E s \in {"PASS", "FAIL"} :
          /\ s = "PASS" /\ ~IsFirst(t) /\ phase[t] \in BuildPhases
                => StatusOf(Leader[t], phase[t]) = "PASS"
          /\ status' = [status EXCEPT ![t] = s]
    /\ phase' = phase

\* A run that needs more processors than there are fails at once.
GiveUp(t) ==
    /\ status[t] = "PASS" /\ phase[t] = RUN - 1 /\ LastPhase = RUN
    /\ phase'  = [phase EXCEPT ![t] = RUN]
    /\ status' = [status EXCEPT ![t] = "FAIL"]

Next == \E t \in Tests : Begin(t) \/ Finish(t) \/ GiveUp(t)

Spec == Init /\ [][Next]_progress

-----------------------------------------------------------------------------
TypeOK == /\ phase \in [Tests -> INIT..LastPhase]
          /\ status \in [Tests -> {"PASS", "PEND", "FAIL"}]

Passed(t, p) == phase[t] > p \/ (phase[t] = p /\ status[t] = "PASS")

\* A shared executable is finished before it is used: no test gets past a build
\* phase that the first test of its group has not passed (_sharedlib_build_phase,
\* _model_build_phase).
MembersUseFinishedBuild ==
    \A t \in Tests, p \in BuildPhases :
        Passed(t, p) => Passed(Leader[t], p)

=============================================================================
