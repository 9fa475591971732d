------------------------------- MODULE RunChain -------------------------------
(***************************************************************************)
(* What a chain of resubmitted runs promises about the simulation, whoever *)
(* submits, archives or edits the case: one run at a time, and each run    *)
(* starts where the simulation stands.  Time is counted in segments of     *)
(* STOP_N.                                                                 *)
(***************************************************************************)
EXTENDS Naturals

CONSTANT Idle
VARIABLES reached,   \* segments simulated so far
          active     \* the segment from which the model is running, or Idle

chainVars == <<reached, active>>

Init == reached = 0 /\ active = Idle

Begin  == active = Idle /\ active' = reached /\ UNCHANGED reached
Finish == active # Idle /\ reached' = active + 1 /\ active' = Idle
Fail   == active # Idle /\ active' = Idle /\ UNCHANGED reached

Next == Begin \/ Finish \/ Fail

Spec == Init /\ [][Next]_chainVars
=============================================================================
