----------------------------- MODULE MCJobQueue -----------------------------
(***************************************************************************)
(* A small instance of JobQueue for TLC.                                   *)
(***************************************************************************)
EXTENDS JobQueue

CONSTANT j1

AnyFault == {"crash", "dbError", "liveExpiry"}
=============================================================================
