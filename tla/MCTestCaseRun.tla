---------------------------- MODULE MCTestCaseRun ----------------------------
(***************************************************************************)
(* A test of two submissions, which either overlap or follow each other.   *)
(***************************************************************************)
EXTENDS TestCaseRun

Overlapping == [jobs |-> 2, inJob |-> TRUE, baseline |-> {},
                compares |-> << "COMPARE_base_rest" >>, standalone |-> FALSE,
                may |-> {"refuse", "break"}]
InTurn == [jobs |-> 2, inJob |-> FALSE, baseline |-> {"GENERATE", "BASELINE"},
           compares |-> << >>, standalone |-> FALSE, may |-> {"refuse", "kill", "stop"}]

TwoTests == {Overlapping, InTurn}

\* The file from which a run starts is what the phases of the build leave.
ASSUME BuiltInTurn == Built = SetAll(EmptyStatus, SubSeq(CorePhases, 1, 5), "PASS")

=============================================================================
