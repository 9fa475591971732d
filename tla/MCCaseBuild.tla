----------------------------- MODULE MCCaseBuild -----------------------------
(* CaseBuild on a small case.  Components, settings and queues are            *)
(* interchangeable: no action or property orders or names them.               *)
EXTENDS CaseBuild, TLC

Symmetry == Permutations(Comps) \cup Permutations(Opts) \cup Permutations(Queues)
=============================================================================
