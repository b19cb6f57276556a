--------------------------- MODULE MCRuntimeCache ---------------------------
(* The TLC instance of RuntimeCache. *)
EXTENDS RuntimeCache
=============================================================================
