----------------------------- MODULE MCJobQueue ----------------------------
(***************************************************************************)
(* Two publishers and a few jobs.                                          *)
(***************************************************************************)
EXTENDS JobQueue, TLC

CONSTANTS p1, p2
=============================================================================
