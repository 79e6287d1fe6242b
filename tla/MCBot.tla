------------------------------- MODULE MCBot -------------------------------
(***************************************************************************)
(* Bot for TLC: three things people do, two queues and two failing calls,  *)
(* enough for a queue that expires half read and an answer that is lost on *)
(* each side of it.                                                        *)
(***************************************************************************)
EXTENDS Bot
=============================================================================
