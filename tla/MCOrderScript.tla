--------------------------- MODULE MCOrderScript ---------------------------
(***************************************************************************)
(* The order script as it stands; the runs give its constants.             *)
(***************************************************************************)
EXTENDS OrderScript
=============================================================================
