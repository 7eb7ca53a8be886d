----------------------------- MODULE MCDispatch -----------------------------
(***************************************************************************)
(* Small instances of Dispatch for TLC.                                    *)
(***************************************************************************)
EXTENDS Dispatch, TLC

CONSTANTS j1, j2, n1, n2, d1, d2

TwoJobs == {j1, j2}
OneJob  == {j1}

\* Each job asks for one device.
OneEach == [j \in Jobs |-> 1]

\* The node always reports all its devices.
FullInventory == {Devices}

\* A collector that fails makes the node report none.
FlakyInventory == {{}, Devices}

AllWalltimed == Jobs

JobSymmetry == Permutations(Jobs)
NoWalltime == {}
=============================================================================
