------------------------------ MODULE MCInputData ------------------------------
(* A file in DIN_LOC_ROOT, one elsewhere, one in RUNDIR, and the reference case. *)
EXTENDS InputData

MCFiles == <<"file", "other", "run">>

\* The file in RUNDIR and the reference case are missing.  The first server lacks
\* the reference case, and the second may have a wrong file
MCInit ==
  /\ Init /\ disk["run"] = "absent" /\ disk["refdir"] = "absent"
  /\ server[1]["run"] = "whole" /\ server[1]["refdir"] = "absent" /\ server[1]["file"] # "bad"
  /\ server[2]["run"] = "whole" /\ server[2]["refdir"] = "whole" /\ server[2]["file"] # "whole"
MCSpec == MCInit /\ [][Next]_vars /\ \A c \in Cases : WF_vars(CaseStep(c))
=============================================================================
