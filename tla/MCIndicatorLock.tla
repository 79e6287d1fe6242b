--------------------------- MODULE MCIndicatorLock ---------------------------
(***************************************************************************)
(* IndicatorLock for TLC: three goroutines, two messages, and as many heap *)
(* objects as the callers can keep reachable at once.                      *)
(***************************************************************************)
EXTENDS IndicatorLock
=============================================================================
