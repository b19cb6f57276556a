-------------------------------- MODULE MCPage --------------------------------
(* The TLC instance of Page. *)
EXTENDS Page, TLC
=============================================================================
