-------------------------- MODULE MCOfficeOperation --------------------------
(***************************************************************************)
(* A small instance of OfficeOperation for TLC.                            *)
(***************************************************************************)
EXTENDS OfficeOperation

CONSTANTS d1, d2

\* One email and one calendar event.
EmailAndCalendar == [d \in Draft |-> IF d = d1 THEN "email" ELSE "calendar"]

CommitFaults == {"crash", "dbError", "unknownCommit"}
=============================================================================
