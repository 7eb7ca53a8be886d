----------------------------- MODULE Allocation -----------------------------
(***************************************************************************)
(* What Skipper's control plane promises about devices: a job is queued,   *)
(* is granted a set of devices of one node that no other holder has, and   *)
(* gives them back once.  A job that has given its devices back, or that   *)
(* left the queue without any, never holds devices again.                  *)
(*                                                                         *)
(* Dispatch (the job table, the scheduler's pass, the agents and their     *)
(* executors) is shown to implement this specification.                    *)
(***************************************************************************)
EXTENDS Naturals

CONSTANTS Jobs, Nodes, Devices

VARIABLES phase,    \* phase[j]: absent, queued, holding or done
          grant     \* grant[j]: the devices of nodes given to job j so far

allocVars == <<phase, grant>>

Phases == {"absent", "queued", "holding", "done"}

Units == Nodes \X Devices

AllocTypeOK == /\ phase \in [Jobs -> Phases]
               /\ grant \in [Jobs -> SUBSET Units]

Holders == {j \in Jobs : phase[j] = "holding"}

AllocInit == /\ phase = [j \in Jobs |-> "absent"]
             /\ grant = [j \in Jobs |-> {}]

Arrive(j) == /\ phase[j] = "absent"
             /\ phase' = [phase EXCEPT ![j] = "queued"]
             /\ UNCHANGED grant

\* The devices come from a single node and from no other holder.
Grant(j, n, D) == /\ phase[j] = "queued"
                  /\ \A k \in Holders : ({n} \X D) \cap grant[k] = {}
                  /\ phase' = [phase EXCEPT ![j] = "holding"]
                  /\ grant' = [grant EXCEPT ![j] = {n} \X D]

Release(j) == /\ phase[j] = "holding"
              /\ phase' = [phase EXCEPT ![j] = "done"]
              /\ UNCHANGED grant

Withdraw(j) == /\ phase[j] = "queued"
               /\ phase' = [phase EXCEPT ![j] = "done"]
               /\ UNCHANGED grant

AllocNext == \E j \in Jobs : \/ Arrive(j)
                             \/ \E n \in Nodes, D \in SUBSET Devices : Grant(j, n, D)
                             \/ Release(j)
                             \/ Withdraw(j)

AllocSpec == AllocInit /\ [][AllocNext]_allocVars

\* No device of a node is held by two jobs.
Exclusive == \A j, k \in Holders : j # k => grant[j] \cap grant[k] = {}
=============================================================================
