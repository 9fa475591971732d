--------------------------- MODULE MCTestScheduler ---------------------------
(***************************************************************************)
(* Small create_test sessions: two or three tests, alone or in one build   *)
(* group, with too few workers and processors for all of them.             *)
(***************************************************************************)
EXTENDS TestScheduler

Alone    == [t \in Tests |-> t]
OneGroup == [t \in Tests |-> 1]
\* The last test alone, the others in one group.
TwoGroups == [t \in Tests |-> IF t = N THEN t ELSE 1]

New == {[t \in Tests |-> INIT]}
\* Members of a group were built with the build of its first test.
ExistingGroup == {s \in [Tests -> INIT..LastPhase] :
                     \A t \in Tests, p \in BuildPhases : s[t] >= p => s[Leader[t]] >= p}

\* Test t needs t processors.
Pes == [t \in Tests |-> t]

Anything == Tests \X (CREATE_NEWCASE..RUN)

\* Everything, but the first test of a group is created and set up: otherwise the
\* group never ends (see WaitsForSomething).
LaterPhases == {x \in Anything : x[1] = 1 => x[2] \notin {CREATE_NEWCASE, XML, SETUP}}
=============================================================================
