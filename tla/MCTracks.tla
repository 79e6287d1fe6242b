------------------------------ MODULE MCTracks ------------------------------
(***************************************************************************)
(* Tracks for TLC: three recorders of two participants, one of whom may    *)
(* leave and come back, over three polls and the flush, with one reload    *)
(* and one lost answer.                                                    *)
(***************************************************************************)
EXTENDS Tracks
=============================================================================
