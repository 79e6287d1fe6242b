----------------------------- MODULE MCRecorder -----------------------------
(***************************************************************************)
(* Recorder for TLC: a join timeout of two polls, a grace of two and a     *)
(* maximum of five, so that people can leave and come back in between.     *)
(***************************************************************************)
EXTENDS Recorder
=============================================================================
