---------------------------- MODULE ControlPlane ----------------------------
(***************************************************************************)
(* The control plane with everybody who calls it: Lifecycle composed with  *)
(* the agent and the viewers of Reporting and the users of Desk.  When the *)
(* process goes away, so does what they have inside it.                    *)
(***************************************************************************)
EXTENDS Reporting, Desk

planeVars == <<lifeVars, reportVars, deskVars>>

PlaneInit == LifeInit /\ ReportInit /\ DeskInit

GrpcBusy == ReportingBusy \/ DeskBusy

Begins == Start /\ UNCHANGED <<reportVars, deskVars>>

Stopping == StopStep /\ UNCHANGED <<reportVars, deskVars>>

GoesAway == (Drained(GrpcBusy) \/ Killed \/ TickerPanics) /\ ReportingGone /\ DeskGone

Reports == ReportNext /\ UNCHANGED <<lifeVars, deskVars>>

Works == DeskNext /\ UNCHANGED <<lifeVars, reportVars>>

PlaneNext == Begins \/ Stopping \/ GoesAway \/ Reports \/ Works

\* Goroutines go on, Shutdown has its time limit and GracefulStop returns when
\* the calls have; the agent's loops and timers run.  Nothing is assumed of
\* operators, users and jobs.
PlaneFairness ==
    /\ WF_planeVars((ScrapesStopped \/ ConsoleStopped) /\ UNCHANGED <<reportVars, deskVars>>)
    /\ WF_planeVars(Drained(GrpcBusy) /\ ReportingGone /\ DeskGone)
    /\ WF_planeVars(AgentStep /\ UNCHANGED <<lifeVars, deskVars>>)
    /\ WF_planeVars(HandlerStep /\ UNCHANGED <<lifeVars, deskVars>>)
    /\ WF_planeVars(ViewEnds /\ UNCHANGED <<lifeVars, deskVars>>)
    /\ WF_planeVars(SubmitStep /\ UNCHANGED <<lifeVars, reportVars>>)
    /\ WF_planeVars(FollowEnds /\ UNCHANGED <<lifeVars, reportVars>>)

PlaneSpec == PlaneInit /\ [][PlaneNext]_planeVars /\ PlaneFairness

PlaneTypeOK == LifeTypeOK /\ ReportTypeOK /\ DeskTypeOK

-----------------------------------------------------------------------------
(* Properties *)

\* A stop that was asked for comes to its end, unless skctl follows the log of
\* a job whose end is not in the table: while calls are drained none can bring
\* it (Run, GracefulStop, GetJobLogs).
StopCompletes ==
    phase \in {"scrapes", "console", "draining"}
        ~> phase = "down"
           \/ (follower.pc = "following" /\ follower.door = "grpc" /\ result # "ended")

\* Agents and users go on calling while a stop closes one door after the other;
\* once the last call of gRPC is out none comes in again before the process has
\* ended, over whatever door and in whatever state of a call, a handler whose
\* caller has gone included (Run, GracefulStop).
NobodyJoinsTheDrain == [][phase = "draining" /\ ~GrpcBusy => ~GrpcBusy']_planeVars
=============================================================================
