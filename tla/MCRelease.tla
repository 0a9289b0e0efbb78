----------------------------- MODULE MCRelease ------------------------------
(* Small instances of Release for TLC. *)
EXTENDS Release, TLC
CONSTANTS none, d1, d2, d3
=============================================================================
