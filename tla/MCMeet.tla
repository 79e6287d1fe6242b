------------------------------- MODULE MCMeet -------------------------------
(***************************************************************************)
(* Meet for TLC: a click is repeated after two polls and a knock after     *)
(* three, so that a join timeout of four sees both.                        *)
(***************************************************************************)
EXTENDS Meet
=============================================================================
