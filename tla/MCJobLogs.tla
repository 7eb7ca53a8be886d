----------------------------- MODULE MCJobLogs -----------------------------
(***************************************************************************)
(* Small instances of JobLogs for TLC.                                     *)
(***************************************************************************)
EXTENDS JobLogs

CONSTANTS r1, r2
=============================================================================
