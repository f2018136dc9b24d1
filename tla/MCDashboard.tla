---------------------------- MODULE MCDashboard ----------------------------
(***************************************************************************)
(* Two jobs of one of the two owners whose key the page may hold.          *)
(***************************************************************************)
EXTENDS Dashboard

BothAnns == <<"ann", "ann">>
=============================================================================
