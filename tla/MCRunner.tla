------------------------------ MODULE MCRunner ------------------------------
(***************************************************************************)
(* Runner for TLC.  The configurations give the bounds; see README.md.     *)
(***************************************************************************)
EXTENDS Runner
=============================================================================
