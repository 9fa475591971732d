------------------------------ MODULE MCStArchive ------------------------------
(* Two components, one of them the coupler. *)
EXTENDS StArchive

MCOrder == <<"ocn", "cpl">>
=============================================================================
