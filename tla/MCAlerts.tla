------------------------------ MODULE MCAlerts ------------------------------
(***************************************************************************)
(* A small instance of Alerts for TLC: one node, one device and its owner, *)
(* and the rules of MCNotify.                                              *)
(***************************************************************************)
EXTENDS Alerts, MCNotify

CONSTANTS n1, alice
=============================================================================
