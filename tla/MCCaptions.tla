----------------------------- MODULE MCCaptions -----------------------------
(***************************************************************************)
(* Captions for TLC: three turns in two elements, so that an element is    *)
(* dropped, reused or started afresh while another is on screen, and one   *)
(* poll that cannot read the page.                                         *)
(***************************************************************************)
EXTENDS Captions
=============================================================================
