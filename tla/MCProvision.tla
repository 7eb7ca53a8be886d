----------------------------- MODULE MCProvision ----------------------------
(***************************************************************************)
(* Small instances of Provision for TLC.                                   *)
(***************************************************************************)
EXTENDS Provision

CONSTANTS d1, p1, p2, p3
=============================================================================
