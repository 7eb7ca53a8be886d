------------------------------- MODULE Alerts -------------------------------
(***************************************************************************)
(* What raises events in the control plane, and the engine that turns them *)
(* into notifications: the reaper with the diagnoser, the detector, and    *)
(* Engine.Emit.  They share nothing but the calls of Emit; each is watched *)
(* while nothing happens to the others, so that their states add up        *)
(* instead of multiplying.                                                 *)
(***************************************************************************)
EXTENDS NodeHealth, Detector, Notify

VARIABLE watched    \* the part to which things happen; it never changes

alertVars == <<watched, healthVars, detVars, notifyVars>>

AlertInit ==
    /\ watched \in {"reaper", "detector", "engine"}
    /\ HealthInit /\ DetInit /\ NotifyInit

Reaping == watched = "reaper" /\ UNCHANGED <<watched, detVars, notifyVars>>

Scanning == watched = "detector" /\ UNCHANGED <<watched, healthVars, notifyVars>>

Emitting == watched = "engine" /\ UNCHANGED <<watched, healthVars, detVars>>

AlertNext ==
    \/ Reaping /\ HealthNext
    \/ Scanning /\ DetNext
    \/ Emitting /\ NotifyNext

\* The detector's ticker keeps ticking and agents keep reporting.
AlertSpec ==
    /\ AlertInit /\ [][AlertNext]_alertVars
    /\ WF_detVars(Scanning /\ ScanStep) /\ WF_detVars(Scanning /\ ReportMetrics)
=============================================================================
