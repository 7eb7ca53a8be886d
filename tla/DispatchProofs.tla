--------------------------- MODULE DispatchProofs ---------------------------
(***************************************************************************)
(* Theorems about Dispatch for every set of jobs, nodes and devices and    *)
(* for every number of faults.                                             *)
(***************************************************************************)
EXTENDS Dispatch, TLAPS

\* Setting fields of an executor's entry keeps it an entry.
LEMMA RunningType ==
    /\ NotRunning \in Runnings
    /\ \A r \in Runnings, p \in ExecPcs : [r EXCEPT !.pc = p] \in Runnings
    /\ \A r \in Runnings, p \in Procs : [r EXCEPT !.proc = p] \in Runnings
    /\ \A r \in Runnings : [r EXCEPT !.timedOut = TRUE] \in Runnings
    /\ \A r \in Runnings, c \in BOOLEAN : [r EXCEPT !.killReason = "cancel", !.ctxDone = c] \in Runnings
    /\ \A p \in ExecPcs, t \in Terminal : [NotRunning EXCEPT !.pc = p, !.result = t] \in Runnings
<1>1. NotRunning \in Runnings
  BY DEF NotRunning, Runnings, ExecPcs, Procs
<1>2. ASSUME NEW r \in Runnings, NEW p \in ExecPcs PROVE [r EXCEPT !.pc = p] \in Runnings
  BY DEF Runnings
<1>3. ASSUME NEW r \in Runnings, NEW p \in Procs PROVE [r EXCEPT !.proc = p] \in Runnings
  BY DEF Runnings
<1>4. ASSUME NEW r \in Runnings PROVE [r EXCEPT !.timedOut = TRUE] \in Runnings
  BY DEF Runnings
<1>5. ASSUME NEW r \in Runnings, NEW c \in BOOLEAN
      PROVE  [r EXCEPT !.killReason = "cancel", !.ctxDone = c] \in Runnings
  BY DEF Runnings
<1>6. ASSUME NEW p \in ExecPcs, NEW t \in Terminal
      PROVE  [NotRunning EXCEPT !.pc = p, !.result = t] \in Runnings
  BY DEF Runnings, NotRunning, Procs
<1>7. QED BY <1>1, <1>2, <1>3, <1>4, <1>5, <1>6

\* An executor that is about to report an end has classified it.  Without this
\* the state FinishJob writes is not known to be one.
Reported == \A j \in Jobs : exec[j].pc = "exited" => exec[j].result \in Terminal

TypeInv == TypeOK /\ Reported

\* The entry of a job is written with a classified outcome or leaves "exited".
LEMMA ReportedStep == TypeOK /\ Reported /\ [Next]_vars => Reported'
<1> SUFFICES ASSUME TypeOK, Reported, [Next]_vars PROVE Reported'
  OBVIOUS
<1> USE DEF TypeOK, Reported
<1>1. CASE UNCHANGED exec
  BY <1>1
<1>2. ASSUME NEW j \in Jobs, NEW p \in ExecPcs \ {"exited"},
             exec' = [exec EXCEPT ![j].pc = p]
      PROVE  Reported'
  BY <1>2 DEF Runnings
<1>3. ASSUME NEW n \in Nodes, PollStep(n) PROVE Reported'
  <2>1. CASE PollAssigned(n) \/ PollCancelling(n) \/ PollDone(n)
    BY <1>1, <2>1 DEF PollAssigned, PollCancelling, PollDone
  <2>2. ASSUME NEW j \in Jobs, StartJob(n, j) PROVE Reported'
    BY <2>2 DEF StartJob, NotRunning
  <2>3. ASSUME NEW j \in Jobs, CancelOnAgent(n, j) PROVE Reported'
    <3>1. CASE CancelMatters(j)
      <4>1. PICK seen \in SeesCancelFunc(j) :
               exec' = [exec EXCEPT ![j].killReason = "cancel", ![j].ctxDone = @ \/ seen]
        BY <2>3, <3>1 DEF CancelOnAgent
      <4>2. \A k \in Jobs : exec'[k].pc = exec[k].pc /\ exec'[k].result = exec[k].result
        BY <4>1 DEF Runnings
      <4>3. QED BY <4>2
    <3>2. CASE ~CancelMatters(j)
      BY <1>1, <2>3, <3>2 DEF CancelOnAgent
    <3>3. QED BY <3>1, <3>2
  <2>4. QED BY <1>3, <2>1, <2>2, <2>3 DEF PollStep
<1>4. ASSUME NEW j \in Jobs, RunStep(j) PROVE Reported'
  <2>1. CASE SetCancelFunc(j) \/ EmitJobEvent(j) \/ ReportRunning(j) \/ ReportTerminal(j)
    BY <1>2, <2>1 DEF SetCancelFunc, EmitJobEvent, ReportRunning, ReportTerminal, ExecPcs
  <2>2. CASE Launch(j)
    <3>1. exec' = [exec EXCEPT ![j] = [exec[j] EXCEPT !.pc = "launched", !.proc = "alive"]]
      BY <2>2 DEF Launch
    <3>2. [exec[j] EXCEPT !.pc = "launched", !.proc = "alive"].pc = "launched"
      BY DEF Runnings
    <3>3. QED BY <3>1, <3>2
  <2>3. CASE LaunchFails(j)
    BY <2>3 DEF LaunchFails, NotRunning, Terminal
  <2>4. CASE WaitReturns(j)
    BY <2>4 DEF WaitReturns, NotRunning, Classify, Terminal
  <2>5. CASE RunReturns(j)
    BY <2>5 DEF RunReturns, NotRunning
  <2>6. QED BY <1>4, <2>1, <2>2, <2>3, <2>4, <2>5 DEF RunStep
<1>5. ASSUME NEW j \in Jobs, ProcStep(j) PROVE Reported'
  <2>1. CASE ProcExits(j) \/ KillGroup(j)
    <3>1. PICK how \in {"ok", "err"} : exec' = [exec EXCEPT ![j].proc = how]
      BY <2>1 DEF ProcExits, KillGroup
    <3>2. \A k \in Jobs : exec'[k].pc = exec[k].pc /\ exec'[k].result = exec[k].result
      BY <3>1 DEF Runnings
    <3>3. QED BY <3>2
  <2>2. CASE WalltimeExpires(j)
    <3>1. \A k \in Jobs : exec'[k].pc = exec[k].pc /\ exec'[k].result = exec[k].result
      BY <2>2 DEF WalltimeExpires, Runnings
    <3>2. QED BY <3>1
  <2>3. QED BY <1>5, <2>1, <2>2 DEF ProcStep
<1>6. CASE FaultStep
  <2>1. ASSUME NEW n \in Nodes, AgentCrash(n) PROVE Reported'
    BY <2>1 DEF AgentCrash, NotRunning
  <2>2. CASE ServerRestart
    <3>1. \A k \in Jobs : exec'[k].pc = "exited" => exec'[k] = exec[k]
      BY <2>2 DEF ServerRestart, Runnings
    <3>2. QED BY <3>1
  <2>3. QED BY <1>1, <1>6, <2>1, <2>2 DEF FaultStep, PollFails, OrphanExits
<1>7. CASE PassStep
  BY <1>1, <1>7 DEF PassStep, ReadNodes, ReadActive, ReadPendingAndPlan, PassAborts, AssignJob, agentVars
<1>8. ASSUME NEW j \in Jobs, ClientStep(j) PROVE Reported'
  BY <1>1, <1>8 DEF ClientStep, SubmitJob, CancelJob, agentVars
<1>9. ASSUME NEW n \in Nodes, NodeStep(n) PROVE Reported'
  BY <1>1, <1>9 DEF NodeStep, AgentStart, Heartbeat, MarkStaleDown, agentVars
<1>10. CASE UNCHANGED vars
  BY <1>1, <1>10 DEF vars, agentVars
<1>11. QED BY <1>3, <1>4, <1>5, <1>6, <1>7, <1>8, <1>9, <1>10 DEF Next

\* Every step leaves all variables of Dispatch in their types.
LEMMA TypeStep == TypeOK /\ Reported /\ [Next]_vars => TypeOK'
<1> SUFFICES ASSUME TypeOK, Reported, [Next]_vars PROVE TypeOK'
  OBVIOUS
<1> USE ConstantsAssumption DEF TypeOK
<1>1. ASSUME NEW j \in Jobs, ClientStep(j) PROVE TypeOK'
  BY <1>1 DEF ClientStep, SubmitJob, CancelJob, States, Active, Terminal, schedVars, agentVars, faultVars
<1>2. ASSUME NEW n \in Nodes, NodeStep(n) PROVE TypeOK'
  BY <1>2 DEF NodeStep, AgentStart, Heartbeat, MarkStaleDown, schedVars, agentVars, faultVars
<1>3. CASE PassStep
  <2>1. CASE ReadNodes
    BY <2>1 DEF ReadNodes, storeVars, agentVars, faultVars
  <2>2. CASE ReadActive
    BY <2>2 DEF ReadActive, storeVars, agentVars, faultVars
  <2>3. CASE ReadPendingAndPlan
    BY <2>3 DEF ReadPendingAndPlan, PlanOutcomes, DropView, storeVars, agentVars, faultVars
  <2>4. CASE PassAborts
    BY <2>4 DEF PassAborts, DropView, storeVars, agentVars, faultVars
  <2>5. ASSUME NEW d \in decisions, AssignJob(d) PROVE TypeOK'
    <3>1. /\ d.job \in Jobs
          /\ [node |-> d.node, devs |-> d.devs] \in Placements
      BY <2>5 DEF Decisions, Placements
    <3>2. state' \in [Jobs -> States] /\ alloc' \in [Jobs -> Placements]
      BY <2>5, <3>1 DEF AssignJob, States, Active
    <3>3. QED BY <2>5, <3>2 DEF AssignJob, agentVars, faultVars
  <2>6. QED BY <1>3, <2>1, <2>2, <2>3, <2>4, <2>5 DEF PassStep
<1>4. ASSUME NEW n \in Nodes, PollStep(n) PROVE TypeOK'
  <2>1. CASE PollAssigned(n)
    BY <2>1 DEF PollAssigned, ListJobsByNodeState, storeVars, schedVars, faultVars
  <2>2. CASE PollCancelling(n)
    BY <2>2 DEF PollCancelling, ListJobsByNodeState, storeVars, schedVars, faultVars
  <2>3. CASE PollDone(n)
    BY <2>3 DEF PollDone, storeVars, schedVars, faultVars
  <2>4. ASSUME NEW j \in Jobs, StartJob(n, j) PROVE TypeOK'
    <3>1. [NotRunning EXCEPT !.pc = "entered"] \in Runnings
      BY RunningType DEF ExecPcs
    <3>2. QED BY <2>4, <3>1 DEF StartJob, storeVars, schedVars, faultVars
  <2>5. ASSUME NEW j \in Jobs, CancelOnAgent(n, j) PROVE TypeOK'
    <3>1. ASSUME NEW seen \in SeesCancelFunc(j)
          PROVE  [exec EXCEPT ![j].killReason = "cancel", ![j].ctxDone = @ \/ seen]
                    \in [Jobs -> Runnings]
      <4>1. (exec[j].ctxDone \/ seen) \in BOOLEAN
        OBVIOUS
      <4>2. [exec[j] EXCEPT !.killReason = "cancel", !.ctxDone = exec[j].ctxDone \/ seen] \in Runnings
        BY <4>1, RunningType
      <4>3. QED BY <4>2
    <3>2. exec' \in [Jobs -> Runnings]
      <4>1. CASE CancelMatters(j)
        <5>1. PICK seen \in SeesCancelFunc(j) :
                 exec' = [exec EXCEPT ![j].killReason = "cancel", ![j].ctxDone = @ \/ seen]
          BY <2>5, <4>1 DEF CancelOnAgent
        <5>2. QED BY ONLY <3>1, <5>1
      <4>2. CASE ~CancelMatters(j)
        BY <2>5, <4>2 DEF CancelOnAgent
      <4>3. QED BY <4>1, <4>2
    <3>3. QED BY <2>5, <3>2 DEF CancelOnAgent, storeVars, schedVars, faultVars
  <2>6. QED BY <1>4, <2>1, <2>2, <2>3, <2>4, <2>5 DEF PollStep
<1>5. ASSUME NEW j \in Jobs, RunStep(j) PROVE TypeOK'
  <2> USE DEF storeVars, schedVars, faultVars
  <2>1. CASE SetCancelFunc(j)
    BY <2>1, RunningType DEF SetCancelFunc, ExecPcs
  <2>2. CASE Launch(j)
    BY <2>2, RunningType DEF Launch, ExecPcs, Procs
  <2>3. CASE LaunchFails(j)
    BY <2>3, RunningType DEF LaunchFails, Terminal, ExecPcs
  <2>4. CASE ReportRunning(j)
    <3>1. exec' \in [Jobs -> Runnings]
      BY <2>4, RunningType DEF ReportRunning, ExecPcs
    <3>2. state' \in [Jobs -> States]
      BY <2>4 DEF ReportRunning, MarkJobRunning, States, Active
    <3>3. lost' \in 0..MaxLost
      BY <2>4 DEF ReportRunning
    <3>4. QED BY <2>4, <3>1, <3>2, <3>3 DEF ReportRunning
  <2>5. CASE WaitReturns(j)
    <3>1. (\A b \in BOOLEAN : Classify(exec[j], b) \in Terminal) /\ "exited" \in ExecPcs
      BY DEF Classify, Terminal, ExecPcs
    <3>2. PICK b \in BOOLEAN :
             exec' = [exec EXCEPT ![j] = [NotRunning EXCEPT !.pc = "exited",
                                             !.result = Classify(exec[j], b)]]
      BY <2>5 DEF WaitReturns
    <3>3. exec' \in [Jobs -> Runnings]
      BY <3>1, <3>2, RunningType
    <3>4. QED BY <2>5, <3>3 DEF WaitReturns
  <2>6. CASE ReportTerminal(j)
    <3>1. exec' \in [Jobs -> Runnings]
      <4>1. ASSUME NEW p \in ExecPcs PROVE [exec EXCEPT ![j].pc = p] \in [Jobs -> Runnings]
        BY RunningType
      <4>2. (IF exec[j].result = "CANCELLED" THEN "done" ELSE "finishing") \in ExecPcs
            /\ "done" \in ExecPcs
        BY DEF ExecPcs
      <4>3. QED BY <2>6, <4>1, <4>2 DEF ReportTerminal
    <3>2. state' \in [Jobs -> States]
      BY <2>6 DEF Reported, ReportTerminal, FinishJob, States, Terminal
    <3>3. lost' \in 0..MaxLost
      BY <2>6 DEF ReportTerminal
    <3>4. QED BY <2>6, <3>1, <3>2, <3>3 DEF ReportTerminal
  <2>7. CASE EmitJobEvent(j)
    <3>1. exec' \in [Jobs -> Runnings]
      BY <2>7, RunningType DEF EmitJobEvent, ExecPcs
    <3>2. events' \in [Jobs -> SUBSET EventTypes]
      BY <2>7 DEF EmitJobEvent, EventType, EventTypes
    <3>3. lost' \in 0..MaxLost /\ unsaid' \in SUBSET Jobs
      BY <2>7 DEF EmitJobEvent
    <3>4. QED BY <2>7, <3>1, <3>2, <3>3 DEF EmitJobEvent
  <2>8. CASE RunReturns(j)
    BY <2>8, RunningType DEF RunReturns
  <2>9. QED BY <1>5, <2>1, <2>2, <2>3, <2>4, <2>5, <2>6, <2>7, <2>8 DEF RunStep
<1>6. ASSUME NEW j \in Jobs, ProcStep(j) PROVE TypeOK'
  <2>1. exec' \in [Jobs -> Runnings]
    <3>1. ASSUME NEW p \in Procs PROVE [exec EXCEPT ![j].proc = p] \in [Jobs -> Runnings]
      BY RunningType
    <3>2. [exec EXCEPT ![j].timedOut = TRUE] \in [Jobs -> Runnings]
      BY RunningType
    <3>3. "ok" \in Procs /\ "err" \in Procs
      BY DEF Procs
    <3>4. CASE ProcExits(j) \/ KillGroup(j)
      <4>1. PICK how \in {"ok", "err"} : exec' = [exec EXCEPT ![j].proc = how]
        BY <3>4 DEF ProcExits, KillGroup
      <4>2. QED BY <3>1, <3>3, <4>1
    <3>5. CASE WalltimeExpires(j)
      BY <3>2, <3>5 DEF WalltimeExpires
    <3>6. QED BY <1>6, <3>4, <3>5 DEF ProcStep
  <2>2. QED
    BY <1>6, <2>1 DEF ProcStep, ProcExits, WalltimeExpires, KillGroup, storeVars, schedVars, faultVars
<1>7. CASE FaultStep
  <2>1. ASSUME NEW n \in Nodes, PollFails(n) PROVE TypeOK'
    BY <2>1 DEF PollFails, storeVars, schedVars
  <2>2. ASSUME NEW n \in Nodes, AgentCrash(n) PROVE TypeOK'
    <3>1. exec' \in [Jobs -> Runnings]
      BY <2>2, RunningType DEF AgentCrash
    <3>2. events' \in [Jobs -> SUBSET EventTypes]
      BY <2>2 DEF AgentCrash, EventType, EventTypes
    <3>3. unsaid' \in SUBSET Jobs
      BY <2>2 DEF AgentCrash
    <3>4. QED BY <2>2, <3>1, <3>2, <3>3 DEF AgentCrash, schedVars
  <2>3. ASSUME NEW j \in Jobs, OrphanExits(j) PROVE TypeOK'
    BY <2>3 DEF OrphanExits, storeVars, schedVars, faultVars
  <2>4. CASE ServerRestart
    <3>1. exec' \in [Jobs -> Runnings]
      BY <2>4, RunningType DEF ServerRestart, ExecPcs
    <3>2. unsaid' \in SUBSET Jobs
      BY <2>4 DEF ServerRestart
    <3>3. QED BY <2>4, <3>1, <3>2 DEF ServerRestart, DropView, storeVars
  <2>5. QED BY <1>7, <2>1, <2>2, <2>3, <2>4 DEF FaultStep
<1>8. CASE UNCHANGED vars
  BY <1>8 DEF vars, storeVars, schedVars, agentVars, faultVars
<1>9. QED BY <1>1, <1>2, <1>3, <1>4, <1>5, <1>6, <1>7, <1>8 DEF Next

\* The empty tables and the idle agents of the start have their types.
LEMMA TypeInit == Init => TypeOK /\ Reported
<1> SUFFICES ASSUME Init PROVE TypeOK /\ Reported
  OBVIOUS
<1>1. [node |-> NoNode, devs |-> {}] \in Placements
  BY DEF Placements
<1>2. TypeOK
  <2>1. exec \in [Jobs -> Runnings]
    BY RunningType DEF Init
  <2>2. state \in [Jobs -> States] /\ alloc \in [Jobs -> Placements]
    BY <1>1 DEF Init, States
  <2>3. lost \in 0..MaxLost /\ crashes \in 0..MaxCrashes /\ restarts \in 0..MaxRestarts
    BY ConstantsAssumption DEF Init
  <2>4. QED BY <2>1, <2>2, <2>3 DEF Init, TypeOK
<1>3. Reported
  BY DEF Init, Reported, NotRunning
<1>4. QED BY <1>2, <1>3

\* Type correctness: in every behaviour all tables, the scheduler's pass, the
\* polls and the executors' entries keep their types; in particular every
\* state column written by a report is a job state.
THEOREM TypeCorrect == Spec => []TypeOK
<1>1. Init => TypeInv
  BY TypeInit DEF TypeInv
<1>2. TypeInv /\ [Next]_vars => TypeInv'
  BY TypeStep, ReportedStep DEF TypeInv
<1>3. TypeInv => TypeOK
  BY DEF TypeInv
<1>4. QED BY <1>1, <1>2, <1>3, PTL DEF Spec

-----------------------------------------------------------------------------
(* No device is held twice *)

\* Once the pass has read the active jobs, no active job holds a device of the
\* view: only the pass itself makes jobs active.
ViewIsFree ==
    schedPc = "active" =>
        \A j \in Jobs : state[j] \in Active =>
            \A n \in Nodes : alloc[j].node = n => alloc[j].devs \cap freeDevs[n] = {}

\* The decisions not written yet take nothing from an active job or from each
\* other.
DecisionsAreFree ==
    /\ \A d \in decisions : \A j \in Jobs :
          state[j] \in Active /\ alloc[j].node = d.node => alloc[j].devs \cap d.devs = {}
    /\ \A d, e \in decisions : d # e =>
          d.job # e.job /\ (d.node = e.node => d.devs \cap e.devs = {})

\* The decisions exist only between Plan and the last write.
DecisionsInPass == schedPc # "assign" => decisions = {}

ExclusiveInv == /\ TypeOK
                /\ ViewIsFree
                /\ DecisionsAreFree
                /\ DecisionsInPass
                /\ DeviceExclusive

\* A step that makes no job active, keeps the placements and neither refreshes
\* the view nor adds a decision preserves the invariant.
LEMMA QuietStep ==
    ASSUME ExclusiveInv, TypeOK',
           alloc' = alloc,
           \A j \in Jobs : state'[j] \in Active => state[j] \in Active,
           schedPc' = "active" => schedPc = "active" /\ freeDevs' = freeDevs,
           decisions' \subseteq decisions,
           schedPc' # "assign" => decisions' = {}
    PROVE  ExclusiveInv'
<1> USE DEF ExclusiveInv
<1>1. ViewIsFree'
  BY DEF ViewIsFree
<1>2. DecisionsAreFree'
  BY DEF DecisionsAreFree
<1>3. DecisionsInPass'
  BY DEF DecisionsInPass
<1>4. DeviceExclusive'
  BY DEF DeviceExclusive
<1>5. QED BY <1>1, <1>2, <1>3, <1>4

\* A job becomes active in AssignJob only.
LEMMA ExclusiveStep == ExclusiveInv /\ Reported /\ TypeOK' /\ [Next]_vars => ExclusiveInv'
<1> SUFFICES ASSUME ExclusiveInv, Reported, TypeOK', [Next]_vars PROVE ExclusiveInv'
  OBVIOUS
<1>t. TypeOK
  BY DEF ExclusiveInv
<1>p. schedPc # "assign" => decisions = {}
  BY DEF ExclusiveInv, DecisionsInPass
<1>q. ASSUME UNCHANGED <<state, alloc, schedPc, freeDevs, decisions>> PROVE ExclusiveInv'
  BY <1>q, <1>p, QuietStep
<1>1. ASSUME NEW j \in Jobs, ClientStep(j) PROVE ExclusiveInv'
  <2>1. \A k \in Jobs : state'[k] \in Active => state[k] \in Active
    BY <1>1, <1>t DEF ClientStep, SubmitJob, CancelJob, TypeOK, Active
  <2>2. alloc' = alloc /\ UNCHANGED schedVars
    BY <1>1 DEF ClientStep, SubmitJob, CancelJob
  <2>3. QED BY <2>1, <2>2, <1>p, QuietStep DEF schedVars
<1>2. ASSUME NEW n \in Nodes, NodeStep(n) PROVE ExclusiveInv'
  BY <1>2, <1>q DEF NodeStep, AgentStart, Heartbeat, MarkStaleDown, schedVars
<1>3. CASE PassStep
  <2>1. CASE ReadNodes
    BY <2>1, <1>p, QuietStep DEF ReadNodes, storeVars
  <2>2. CASE ReadActive
    <3>1. /\ UNCHANGED <<state, alloc, decisions>> /\ decisions = {}
          /\ schedPc' = "active"
      BY <2>2, <1>p DEF ReadActive, storeVars
    <3>2. ViewIsFree'
      <4>1. SUFFICES ASSUME NEW j \in Jobs, state[j] \in Active, NEW n \in Nodes, alloc[j].node = n
                     PROVE  alloc[j].devs \cap freeDevs'[n] = {}
        BY <3>1 DEF ViewIsFree
      <4>2. \A d \in freeDevs'[n] : d \notin alloc[j].devs
        BY <2>2, <4>1 DEF ReadActive, ListActiveJobs, OnNode
      <4>3. QED BY <4>2
    <3>3. QED BY <3>1, <3>2 DEF ExclusiveInv, DecisionsAreFree, DecisionsInPass, DeviceExclusive
  <2>3. CASE ReadPendingAndPlan
    <3>1. PICK P \in PlanOutcomes({j \in Jobs : state[j] = "PENDING"}) :
             /\ decisions' = P
             /\ schedPc' = IF P = {} THEN "idle" ELSE "assign"
      BY <2>3 DEF ReadPendingAndPlan
    <3>2. /\ UNCHANGED <<state, alloc>> /\ schedPc = "active"
      BY <2>3 DEF ReadPendingAndPlan, storeVars
    <3>3. \A d \in P : d.node \in Nodes /\ d.devs \subseteq freeDevs[d.node]
      BY DEF PlanOutcomes, Decisions
    <3>4. \A d, e \in P : d # e => d.job # e.job /\ (d.node = e.node => d.devs \cap e.devs = {})
      BY DEF PlanOutcomes
    <3>5. \A d \in P : \A j \in Jobs :
             state[j] \in Active /\ alloc[j].node = d.node => alloc[j].devs \cap d.devs = {}
      BY <3>2, <3>3 DEF ExclusiveInv, ViewIsFree
    <3>6. DecisionsAreFree'
      BY <3>1, <3>2, <3>4, <3>5 DEF DecisionsAreFree
    <3>7. QED BY <3>1, <3>2, <3>6
                 DEF ExclusiveInv, ViewIsFree, DecisionsInPass, DeviceExclusive
  <2>4. CASE PassAborts
    BY <2>4, <1>p, QuietStep DEF PassAborts, storeVars
  <2>5. ASSUME NEW d \in decisions, AssignJob(d) PROVE ExclusiveInv'
    <3>1. /\ decisions' = decisions \ {d}
          /\ schedPc' = IF decisions = {d} THEN "idle" ELSE "assign"
      BY <2>5 DEF AssignJob
    <3>2. CASE state[d.job] # "PENDING"
      <4>1. UNCHANGED <<state, alloc>>
        BY <2>5, <3>2 DEF AssignJob
      <4>2. QED BY <3>1, <4>1, QuietStep
    <3>3. CASE state[d.job] = "PENDING"
      <4>1. d.job \in Jobs
        BY <1>t DEF TypeOK, Decisions
      <4>2. /\ state' = [state EXCEPT ![d.job] = "ASSIGNED"]
            /\ alloc' = [alloc EXCEPT ![d.job] = [node |-> d.node, devs |-> d.devs]]
        BY <2>5, <3>3 DEF AssignJob
      <4>3. /\ \A k \in Jobs \ {d.job} : state'[k] = state[k] /\ alloc'[k] = alloc[k]
            /\ alloc'[d.job].node = d.node /\ alloc'[d.job].devs = d.devs
        BY <4>1, <4>2, <1>t DEF TypeOK
      <4>4. DeviceExclusive'
        <5>1. \A k \in Jobs \ {d.job} :
                 state[k] \in Active /\ alloc[k].node = d.node => alloc[k].devs \cap d.devs = {}
          BY DEF ExclusiveInv, DecisionsAreFree
        <5>2. QED BY <4>3, <5>1 DEF ExclusiveInv, DeviceExclusive
      <4>5. DecisionsAreFree'
        <5>1. ASSUME NEW e \in decisions', NEW k \in Jobs, state'[k] \in Active, alloc'[k].node = e.node
              PROVE  alloc'[k].devs \cap e.devs = {}
          <6>1. CASE k = d.job
            <7>1. e \in decisions /\ e # d /\ d.node = e.node
              BY <3>1, <4>3, <5>1, <6>1
            <7>2. d.devs \cap e.devs = {}
              BY <7>1 DEF ExclusiveInv, DecisionsAreFree
            <7>3. QED BY <4>3, <6>1, <7>2
          <6>2. CASE k # d.job
            BY <3>1, <4>3, <5>1, <6>2 DEF ExclusiveInv, DecisionsAreFree
          <6>3. QED BY <6>1, <6>2
        <5>2. \A e, f \in decisions' : e # f =>
                 e.job # f.job /\ (e.node = f.node => e.devs \cap f.devs = {})
          BY <3>1 DEF ExclusiveInv, DecisionsAreFree
        <5>3. QED BY <5>1, <5>2 DEF DecisionsAreFree
      <4>6. ViewIsFree' /\ DecisionsInPass'
        BY <3>1 DEF ViewIsFree, DecisionsInPass
      <4>7. QED BY <4>4, <4>5, <4>6 DEF ExclusiveInv
    <3>4. QED BY <3>2, <3>3
  <2>6. QED BY <1>3, <2>1, <2>2, <2>3, <2>4, <2>5 DEF PassStep
<1>4. ASSUME NEW n \in Nodes, PollStep(n) PROVE ExclusiveInv'
  BY <1>4, <1>q DEF PollStep, PollAssigned, PollCancelling, PollDone, StartJob, CancelOnAgent,
                    storeVars, schedVars
<1>5. ASSUME NEW j \in Jobs, RunStep(j) PROVE ExclusiveInv'
  <2>1. alloc' = alloc /\ UNCHANGED schedVars
    BY <1>5 DEF RunStep, SetCancelFunc, Launch, LaunchFails, ReportRunning, WaitReturns,
                ReportTerminal, EmitJobEvent, RunReturns, storeVars
  <2>2. \A k \in Jobs : state'[k] \in Active => state[k] \in Active
    <3>1. CASE ReportRunning(j)
      BY <3>1, <1>t DEF ReportRunning, MarkJobRunning, TypeOK, Active
    <3>2. CASE ReportTerminal(j)
      <4>1. exec[j].result \in Terminal
        BY <3>2 DEF Reported, ReportTerminal
      <4>2. QED BY <3>2, <4>1, <1>t DEF ReportTerminal, FinishJob, TypeOK, Active, Terminal
    <3>3. CASE UNCHANGED state
      BY <3>3
    <3>4. QED BY <1>5, <3>1, <3>2, <3>3 DEF RunStep, SetCancelFunc, Launch, LaunchFails,
                WaitReturns, EmitJobEvent, RunReturns, storeVars
  <2>3. QED BY <2>1, <2>2, <1>p, QuietStep DEF schedVars
<1>6. ASSUME NEW j \in Jobs, ProcStep(j) PROVE ExclusiveInv'
  BY <1>6, <1>q DEF ProcStep, ProcExits, WalltimeExpires, KillGroup, storeVars, schedVars
<1>7. CASE FaultStep
  <2>1. CASE ServerRestart
    BY <2>1, QuietStep DEF ServerRestart, storeVars
  <2>2. QED BY <1>7, <1>q, <2>1 DEF FaultStep, PollFails, AgentCrash, OrphanExits, storeVars, schedVars
<1>8. CASE UNCHANGED vars
  BY <1>8, <1>q DEF vars, storeVars, schedVars
<1>9. QED BY <1>1, <1>2, <1>3, <1>4, <1>5, <1>6, <1>7, <1>8 DEF Next

\* At the start no job is active and no pass is under way.
LEMMA ExclusiveInit == Init => TypeInv /\ ExclusiveInv
  BY TypeInit DEF TypeInv, Init, ExclusiveInv, ViewIsFree, DecisionsAreFree, DecisionsInPass,
                  DeviceExclusive, Active

\* No two ASSIGNED or RUNNING jobs of a node hold the same device, for any
\* number of jobs, nodes and devices and whatever cancellations, reports,
\* crashes and restarts come between the reads and the writes of a pass.
THEOREM DevicesAreExclusive == Spec => []DeviceExclusive
<1>1. Init => TypeInv /\ ExclusiveInv
  BY ExclusiveInit
<1>2. TypeInv /\ ExclusiveInv /\ [Next]_vars => (TypeInv /\ ExclusiveInv)'
  BY TypeStep, ReportedStep, ExclusiveStep DEF TypeInv
<1>3. ExclusiveInv => DeviceExclusive
  BY DEF ExclusiveInv
<1>4. QED BY <1>1, <1>2, <1>3, PTL DEF Spec

-----------------------------------------------------------------------------
(* The job table implements the allocation of devices *)

\* A job no agent has been told of is in no answer to a poll and not executed.
OnlyAssignedRun ==
    \A j \in Jobs : state[j] \in {"NONE", "PENDING"} =>
        exec[j].pc = "none" /\ \A n \in Nodes : j \notin pollRun[n]

\* Products over one node are disjoint when the nodes or the devices are.
LEMMA DisjointUnits ==
    ASSUME NEW n, NEW m, NEW D, NEW E, n = m => D \cap E = {}
    PROVE  ({n} \X D) \cap ({m} \X E) = {}
<1>1. ASSUME NEW u \in {n} \X D, u \in {m} \X E PROVE FALSE
  <2>1. u[1] = n /\ u[2] \in D /\ u[1] = m /\ u[2] \in E
    BY <1>1
  <2>2. QED BY <2>1
<1>2. QED BY <1>1

\* A placement without devices grants nothing.
LEMMA NoUnits == ASSUME NEW n PROVE {n} \X {} = {}
<1>1. ASSUME NEW u \in {n} \X {} PROVE FALSE
  <2>1. u[2] \in {}
    BY <1>1
  <2>2. QED BY <2>1
<1>2. QED BY <1>1

Unassigned == {"NONE", "PENDING"}

\* A step preserves OnlyAssignedRun if no job becomes unassigned and no
\* unassigned job gets to an agent.
LEMMA NothingReachesAgents ==
    ASSUME OnlyAssignedRun,
           \A j \in Jobs : state'[j] \in Unassigned =>
              /\ state[j] \in Unassigned
              /\ exec[j].pc = "none" => exec'[j].pc = "none"
              /\ \A n \in Nodes : j \in pollRun'[n] => j \in pollRun[n]
    PROVE  OnlyAssignedRun'
  BY DEF OnlyAssignedRun, Unassigned

\* Only a job that was assigned reaches an answer to a poll or an executor.
LEMMA OnlyAssignedStep == TypeInv /\ OnlyAssignedRun /\ [Next]_vars => OnlyAssignedRun'
<1> SUFFICES ASSUME TypeInv, OnlyAssignedRun, [Next]_vars PROVE OnlyAssignedRun'
  OBVIOUS
<1>t. TypeOK /\ Reported
  BY DEF TypeInv
<1>q. ASSUME UNCHANGED <<state, exec, pollRun>> PROVE OnlyAssignedRun'
  BY <1>q DEF OnlyAssignedRun
<1>1. ASSUME NEW j \in Jobs, ClientStep(j) PROVE OnlyAssignedRun'
  BY <1>1, <1>t, NothingReachesAgents
     DEF ClientStep, SubmitJob, CancelJob, TypeOK, Unassigned, Active, agentVars
<1>2. ASSUME NEW n \in Nodes, NodeStep(n) PROVE OnlyAssignedRun'
  BY <1>2, <1>q DEF NodeStep, AgentStart, Heartbeat, MarkStaleDown, agentVars
<1>3. CASE PassStep
  <2>1. ASSUME NEW d \in decisions, AssignJob(d) PROVE OnlyAssignedRun'
    <3>1. d.job \in Jobs
      BY <1>t DEF TypeOK, Decisions
    <3>2. \A k \in Jobs : state'[k] \in Unassigned => state[k] \in Unassigned
      BY <2>1, <3>1, <1>t DEF AssignJob, TypeOK, Unassigned
    <3>3. QED BY <2>1, <3>2, NothingReachesAgents DEF AssignJob, agentVars
  <2>2. QED BY <1>3, <1>q, <2>1 DEF PassStep, ReadNodes, ReadActive, ReadPendingAndPlan, PassAborts,
                                    storeVars, agentVars
<1>4. ASSUME NEW n \in Nodes, PollStep(n) PROVE OnlyAssignedRun'
  <2>1. CASE PollAssigned(n)
    BY <2>1, <1>t, NothingReachesAgents
       DEF PollAssigned, ListJobsByNodeState, TypeOK, Unassigned, storeVars
  <2>2. CASE PollCancelling(n) \/ PollDone(n)
    BY <2>2, <1>q DEF PollCancelling, PollDone, storeVars
  <2>3. ASSUME NEW j \in Jobs, StartJob(n, j) PROVE OnlyAssignedRun'
    <3>1. state[j] \notin Unassigned
      BY <2>3 DEF StartJob, OnlyAssignedRun, Unassigned
    <3>2. \A k \in Jobs \ {j} : exec'[k] = exec[k]
      BY <2>3, <1>t DEF StartJob, TypeOK
    <3>3. \A k \in Jobs, m \in Nodes : k \in pollRun'[m] => k \in pollRun[m]
      BY <2>3, <1>t DEF StartJob, TypeOK
    <3>4. state' = state
      BY <2>3 DEF StartJob, storeVars
    <3>5. QED BY <3>1, <3>2, <3>3, <3>4, NothingReachesAgents
  <2>4. ASSUME NEW j \in Jobs, CancelOnAgent(n, j) PROVE OnlyAssignedRun'
    <3>1. UNCHANGED <<state, pollRun>>
      BY <2>4 DEF CancelOnAgent, storeVars
    <3>2. CASE CancelMatters(j)
      <4>1. exec[j].pc # "none" /\ \A k \in Jobs \ {j} : exec'[k] = exec[k]
        BY <2>4, <3>2, <1>t DEF CancelOnAgent, CancelMatters, TypeOK
      <4>2. QED BY <3>1, <4>1 DEF OnlyAssignedRun
    <3>3. CASE ~CancelMatters(j)
      BY <2>4, <3>1, <3>3, <1>q DEF CancelOnAgent
    <3>4. QED BY <3>2, <3>3
  <2>5. QED BY <1>4, <2>1, <2>2, <2>3, <2>4 DEF PollStep
<1>5. ASSUME NEW j \in Jobs, RunStep(j) PROVE OnlyAssignedRun'
  <2>1. exec[j].pc # "none" /\ pollRun' = pollRun
    BY <1>5 DEF RunStep, SetCancelFunc, Launch, LaunchFails, ReportRunning, WaitReturns,
                ReportTerminal, EmitJobEvent, RunReturns
  <2>2. state[j] \notin Unassigned
    BY <2>1 DEF OnlyAssignedRun, Unassigned
  <2>3. \A k \in Jobs \ {j} : exec'[k] = exec[k] /\ state'[k] = state[k]
    BY <1>5, <1>t DEF RunStep, SetCancelFunc, Launch, LaunchFails, ReportRunning, WaitReturns,
                ReportTerminal, EmitJobEvent, RunReturns, MarkJobRunning, FinishJob, TypeOK, storeVars
  <2>4. state'[j] \notin Unassigned
    <3>1. CASE ReportRunning(j)
      BY <3>1, <2>2, <1>t DEF ReportRunning, MarkJobRunning, TypeOK, Unassigned
    <3>2. CASE ReportTerminal(j)
      <4>1. exec[j].result \in Terminal
        BY <3>2, <1>t DEF Reported, ReportTerminal
      <4>2. QED BY <3>2, <4>1, <2>2, <1>t DEF ReportTerminal, FinishJob, TypeOK, Unassigned, Terminal
    <3>3. CASE UNCHANGED state
      BY <2>2, <3>3
    <3>4. QED BY <1>5, <3>1, <3>2, <3>3 DEF RunStep, SetCancelFunc, Launch, LaunchFails,
                WaitReturns, EmitJobEvent, RunReturns, storeVars
  <2>5. QED BY <2>1, <2>3, <2>4, NothingReachesAgents
<1>6. ASSUME NEW j \in Jobs, ProcStep(j) PROVE OnlyAssignedRun'
  <2>1. UNCHANGED <<state, pollRun>>
    BY <1>6 DEF ProcStep, ProcExits, WalltimeExpires, KillGroup, storeVars
  <2>2. \A k \in Jobs : exec'[k].pc = exec[k].pc
    <3>1. CASE ProcExits(j) \/ KillGroup(j)
      <4>1. PICK how \in {"ok", "err"} : exec' = [exec EXCEPT ![j].proc = how]
        BY <3>1 DEF ProcExits, KillGroup
      <4>2. QED BY <4>1, <1>t DEF TypeOK, Runnings
    <3>2. CASE WalltimeExpires(j)
      BY <3>2, <1>t DEF WalltimeExpires, TypeOK, Runnings
    <3>3. QED BY <1>6, <3>1, <3>2 DEF ProcStep
  <2>3. QED BY <2>1, <2>2 DEF OnlyAssignedRun
<1>7. CASE FaultStep
  <2>1. ASSUME NEW n \in Nodes, PollFails(n) PROVE OnlyAssignedRun'
    BY <2>1, <1>t, NothingReachesAgents DEF PollFails, TypeOK, storeVars
  <2>2. ASSUME NEW n \in Nodes, AgentCrash(n) PROVE OnlyAssignedRun'
    BY <2>2, <1>t, NothingReachesAgents DEF AgentCrash, NotRunning, TypeOK
  <2>3. CASE ServerRestart
    BY <2>3, <1>t, NothingReachesAgents DEF ServerRestart, TypeOK, storeVars
  <2>4. ASSUME NEW j \in Jobs, OrphanExits(j) PROVE OnlyAssignedRun'
    BY <2>4, <1>q DEF OrphanExits, storeVars
  <2>5. QED BY <1>7, <2>1, <2>2, <2>3, <2>4 DEF FaultStep
<1>8. CASE UNCHANGED vars
  BY <1>8, <1>q DEF vars, storeVars, agentVars
<1>9. QED BY <1>1, <1>2, <1>3, <1>4, <1>5, <1>6, <1>7, <1>8 DEF Next

\* A step that keeps placements and moves no job to another phase is a stutter.
LEMMA SamePhases ==
    ASSUME alloc' = alloc, \A j \in Jobs : PhaseOf(state'[j]) = PhaseOf(state[j])
    PROVE  UNCHANGED Ledger!allocVars
  BY DEF Ledger!allocVars

\* A step that moves one job to another phase and keeps the placements.
LEMMA OnePhase ==
    ASSUME NEW j \in Jobs, TypeOK, alloc' = alloc, NEW s \in States,
           state' = [state EXCEPT ![j] = s]
    PROVE  /\ [k \in Jobs |-> PhaseOf(state[k])]'
                = [[k \in Jobs |-> PhaseOf(state[k])] EXCEPT ![j] = PhaseOf(s)]
           /\ UNCHANGED [k \in Jobs |-> {alloc[k].node} \X alloc[k].devs]
  BY DEF TypeOK

\* Every step of Dispatch is a step of the allocation or none.
LEMMA RefinementStep ==
    TypeInv /\ ExclusiveInv /\ OnlyAssignedRun /\ [Next]_vars
        => [Ledger!AllocNext]_(Ledger!allocVars)
<1> SUFFICES ASSUME TypeInv, ExclusiveInv, OnlyAssignedRun, [Next]_vars
             PROVE  [Ledger!AllocNext]_(Ledger!allocVars)
  OBVIOUS
<1>t. TypeOK /\ Reported
  BY DEF TypeInv
<1>q. ASSUME UNCHANGED <<state, alloc>> PROVE UNCHANGED Ledger!allocVars
  BY <1>q, SamePhases
<1>1. ASSUME NEW j \in Jobs, ClientStep(j) PROVE Ledger!AllocNext
  <2>1. CASE SubmitJob(j)
    <3>1. Ledger!Arrive(j)
      BY <2>1, <1>t, OnePhase DEF SubmitJob, Ledger!Arrive, PhaseOf, States, Active
    <3>2. QED BY <3>1 DEF Ledger!AllocNext
  <2>2. CASE CancelJob(j) /\ state[j] = "PENDING"
    <3>1. state' = [state EXCEPT ![j] = "CANCELLED"] /\ alloc' = alloc
      BY <2>2 DEF CancelJob, Active
    <3>2. "CANCELLED" \in States /\ PhaseOf("CANCELLED") = "done" /\ PhaseOf(state[j]) = "queued"
      BY <2>2 DEF PhaseOf, States, Active, Terminal
    <3>3. Ledger!Withdraw(j)
      BY <3>1, <3>2, <1>t, OnePhase DEF Ledger!Withdraw
    <3>4. QED BY <3>3 DEF Ledger!AllocNext
  <2>3. CASE CancelJob(j) /\ state[j] \in Active
    <3>1. Ledger!Release(j)
      BY <2>3, <1>t, OnePhase DEF CancelJob, Ledger!Release, PhaseOf, States, Active
    <3>2. QED BY <3>1 DEF Ledger!AllocNext
  <2>4. QED BY <1>1, <2>1, <2>2, <2>3 DEF ClientStep, CancelJob
<1>2. ASSUME NEW n \in Nodes, NodeStep(n) PROVE UNCHANGED Ledger!allocVars
  BY <1>2, <1>q DEF NodeStep, AgentStart, Heartbeat, MarkStaleDown
<1>3. ASSUME PassStep PROVE [Ledger!AllocNext]_(Ledger!allocVars)
  <2>1. ASSUME NEW d \in decisions, AssignJob(d), state[d.job] = "PENDING" PROVE Ledger!AllocNext
    <3>1. d.job \in Jobs /\ d.node \in Nodes /\ d.devs \in SUBSET Devices
      BY <1>t DEF TypeOK, Decisions
    <3>2. /\ state' = [state EXCEPT ![d.job] = "ASSIGNED"]
          /\ alloc' = [alloc EXCEPT ![d.job] = [node |-> d.node, devs |-> d.devs]]
      BY <2>1 DEF AssignJob
    <3>3. ASSUME NEW k \in Jobs, PhaseOf(state[k]) = "holding"
          PROVE  ({d.node} \X d.devs) \cap ({alloc[k].node} \X alloc[k].devs) = {}
      <4>1. state[k] \in Active
        BY <3>3, <1>t DEF PhaseOf, TypeOK, Active
      <4>2. d.node = alloc[k].node => d.devs \cap alloc[k].devs = {}
        BY <4>1 DEF ExclusiveInv, DecisionsAreFree
      <4>3. QED BY <4>2, DisjointUnits
    <3>4. [k \in Jobs |-> PhaseOf(state[k])]'
             = [[k \in Jobs |-> PhaseOf(state[k])] EXCEPT ![d.job] = "holding"]
      BY <3>1, <3>2, <1>t DEF PhaseOf, Active, TypeOK
    <3>5. [k \in Jobs |-> {alloc[k].node} \X alloc[k].devs]'
             = [[k \in Jobs |-> {alloc[k].node} \X alloc[k].devs] EXCEPT ![d.job] = {d.node} \X d.devs]
      BY <3>1, <3>2, <1>t DEF TypeOK
    <3>6. PhaseOf(state[d.job]) = "queued"
      BY <2>1 DEF PhaseOf
    <3>7. Ledger!Grant(d.job, d.node, d.devs)
      BY <3>1, <3>3, <3>4, <3>5, <3>6 DEF Ledger!Grant, Ledger!Holders
    <3>8. QED BY <3>1, <3>7 DEF Ledger!AllocNext
  <2>2. ASSUME NEW d \in decisions, AssignJob(d), state[d.job] # "PENDING"
        PROVE  UNCHANGED Ledger!allocVars
    BY <2>2, <1>q DEF AssignJob
  <2>3. CASE ReadNodes \/ ReadActive \/ ReadPendingAndPlan \/ PassAborts
    BY <2>3, <1>q DEF ReadNodes, ReadActive, ReadPendingAndPlan, PassAborts, storeVars
  <2>4. QED BY <1>3, <2>1, <2>2, <2>3 DEF PassStep
<1>4. ASSUME NEW n \in Nodes, PollStep(n) PROVE UNCHANGED Ledger!allocVars
  BY <1>4, <1>q DEF PollStep, PollAssigned, PollCancelling, PollDone, StartJob, CancelOnAgent, storeVars
<1>5. ASSUME NEW j \in Jobs, RunStep(j) PROVE [Ledger!AllocNext]_(Ledger!allocVars)
  <2>1. CASE ReportRunning(j)
    <3>1. alloc' = alloc /\ \A k \in Jobs : PhaseOf(state'[k]) = PhaseOf(state[k])
      BY <2>1, <1>t DEF ReportRunning, MarkJobRunning, PhaseOf, Active, TypeOK
    <3>2. QED BY <3>1, SamePhases
  <2>2. CASE ReportTerminal(j)
    <3>1. exec[j].result \in Terminal /\ exec[j].pc # "none" /\ alloc' = alloc
      BY <2>2, <1>t DEF ReportTerminal, Reported
    <3>2. state[j] \notin {"NONE", "PENDING"}
      BY <3>1 DEF OnlyAssignedRun
    <3>3. CASE UNCHANGED state
      BY <3>1, <3>3, <1>q
    <3>4. CASE FinishJob(j, exec[j].result) /\ state[j] \in Active
      <4>1. PhaseOf(exec[j].result) = "done" /\ exec[j].result \in States /\ PhaseOf(state[j]) = "holding"
        BY <3>1, <3>4 DEF PhaseOf, Terminal, Active, States
      <4>2. Ledger!Release(j)
        BY <3>1, <3>4, <4>1, <1>t, OnePhase DEF FinishJob, Ledger!Release
      <4>3. QED BY <4>2 DEF Ledger!AllocNext
    <3>5. CASE FinishJob(j, exec[j].result) /\ state[j] \notin Active
      <4>1. \A k \in Jobs : PhaseOf(state'[k]) = PhaseOf(state[k])
        BY <3>1, <3>2, <3>5, <1>t DEF FinishJob, PhaseOf, Terminal, Active, TypeOK
      <4>2. QED BY <3>1, <4>1, SamePhases
    <3>6. QED BY <2>2, <3>3, <3>4, <3>5 DEF ReportTerminal
  <2>3. CASE SetCancelFunc(j) \/ Launch(j) \/ LaunchFails(j) \/ WaitReturns(j)
             \/ EmitJobEvent(j) \/ RunReturns(j)
    BY <2>3, <1>q DEF SetCancelFunc, Launch, LaunchFails, WaitReturns, EmitJobEvent, RunReturns, storeVars
  <2>4. QED BY <1>5, <2>1, <2>2, <2>3 DEF RunStep
<1>6. ASSUME NEW j \in Jobs, ProcStep(j) PROVE UNCHANGED Ledger!allocVars
  BY <1>6, <1>q DEF ProcStep, ProcExits, WalltimeExpires, KillGroup, storeVars
<1>7. ASSUME FaultStep PROVE UNCHANGED Ledger!allocVars
  BY <1>7, <1>q DEF FaultStep, PollFails, AgentCrash, OrphanExits, ServerRestart, storeVars
<1>8. CASE UNCHANGED vars
  BY <1>8, <1>q DEF vars, storeVars
<1>9. QED BY <1>1, <1>2, <1>3, <1>4, <1>5, <1>6, <1>7, <1>8 DEF Next

\* The job table implements the allocation of devices (module Allocation): a
\* device is granted only when no ASSIGNED or RUNNING job has it, and a job
\* that gave its devices back, by ending or by being cancelled, never gets
\* devices again, whatever reports, decisions and answers are still under way.
THEOREM TableRefinesAllocation == Spec => AllocationRefined
<1>1. Init => TypeInv /\ ExclusiveInv /\ OnlyAssignedRun
  <2>1. Init => OnlyAssignedRun
    <3> SUFFICES ASSUME Init, NEW j \in Jobs
                 PROVE  exec[j].pc = "none" /\ \A n \in Nodes : j \notin pollRun[n]
      BY DEF OnlyAssignedRun
    <3>1. exec[j] = NotRunning /\ \A n \in Nodes : pollRun[n] = {}
      BY DEF Init
    <3>2. NotRunning.pc = "none"
      BY DEF NotRunning
    <3>3. QED BY <3>1, <3>2
  <2>2. QED BY ExclusiveInit, <2>1
<1>2. TypeInv /\ ExclusiveInv /\ OnlyAssignedRun /\ [Next]_vars
         => (TypeInv /\ ExclusiveInv /\ OnlyAssignedRun)'
  BY TypeStep, ReportedStep, ExclusiveStep, OnlyAssignedStep DEF TypeInv
<1>3. Init => Ledger!AllocInit
  <2> SUFFICES ASSUME Init PROVE Ledger!AllocInit
    OBVIOUS
  <2>1. [j \in Jobs |-> PhaseOf(state[j])] = [j \in Jobs |-> "absent"]
    BY DEF Init, PhaseOf
  <2>2. \A j \in Jobs : {alloc[j].node} \X alloc[j].devs = {}
    BY NoUnits DEF Init
  <2>3. QED BY <2>1, <2>2 DEF Ledger!AllocInit
<1>4. QED BY <1>1, <1>2, <1>3, RefinementStep, PTL DEF Spec, AllocationRefined, Ledger!AllocSpec

-----------------------------------------------------------------------------
(* What a step can do to one job *)

\* The row, its events and what the executor knows of the outcome stay.
SameRow(k)  == state'[k] = state[k] /\ events'[k] = events[k]
SameMind(k) == exec'[k].killReason = exec[k].killReason /\ exec'[k].result = exec[k].result
Stays(k)    == SameRow(k) /\ SameMind(k) /\ exec'[k].pc = exec[k].pc

\* The moves of the table, by a client or the scheduler.
RowMoves == {<<"NONE", "PENDING">>, <<"PENDING", "CANCELLED">>, <<"PENDING", "ASSIGNED">>,
             <<"ASSIGNED", "CANCELLING">>, <<"RUNNING", "CANCELLING">>}

\* Each disjunct is what one kind of step does to the job it is about.
JobMove(k) ==
    \/ Stays(k)
    \/ /\ <<state[k], state'[k]>> \in RowMoves
       /\ exec'[k] = exec[k] /\ events'[k] = events[k]
    \/ /\ SameRow(k) /\ exec[k].pc = "none" /\ (\E n \in Nodes : k \in pollRun[n])
       /\ exec'[k].pc = "entered" /\ exec'[k].killReason = "" /\ exec'[k].result = ""
    \/ /\ SameRow(k) /\ exec'[k].pc = exec[k].pc /\ exec'[k].result = exec[k].result
       /\ exec'[k].killReason = "cancel" /\ pollRun' = pollRun
       /\ \E n \in Nodes : k \in pollCancel[n] /\ pollRun[n] = {}
    \/ /\ SameRow(k) /\ SameMind(k)
       /\ <<exec[k].pc, exec'[k].pc>> \in {<<"entered", "ready">>, <<"ready", "launched">>}
    \/ /\ exec[k].pc = "launched" /\ exec'[k].pc = "waiting"
       /\ SameMind(k) /\ events'[k] = events[k]
       /\ state'[k] = state[k] \/ (state[k] = "ASSIGNED" /\ state'[k] = "RUNNING")
    \/ /\ SameRow(k) /\ exec[k].pc \in {"ready", "waiting"} /\ exec'[k].pc = "exited"
       /\ exec'[k].killReason = ""
       /\ exec'[k].result \in Terminal
       /\ exec'[k].result = "CANCELLED" => exec[k].killReason = "cancel"
    \/ /\ exec[k].pc = "exited" /\ state'[k] = exec[k].result /\ events'[k] = events[k]
       /\ SameMind(k)
       /\ exec'[k].pc = IF exec[k].result = "CANCELLED" THEN "done" ELSE "finishing"
    \/ /\ exec[k].pc = "exited" /\ exec'[k].pc = "done" /\ SameRow(k) /\ SameMind(k) /\ lost' > 0
    \/ /\ exec[k].pc = "finishing" /\ exec'[k].pc = "done" /\ SameMind(k)
       /\ state'[k] = state[k] /\ events'[k] = events[k] \cup {EventType(exec[k].result)}
    \/ /\ exec[k].pc = "finishing" /\ exec'[k].pc = "done" /\ SameMind(k)
       /\ SameRow(k) /\ k \in unsaid'
    \/ /\ exec[k].pc = "done" /\ SameRow(k) /\ exec'[k].pc = "none"
       /\ exec'[k].killReason = "" /\ exec'[k].result = ""
    \/ /\ crashes' > 0 /\ state'[k] = state[k] /\ events[k] \subseteq events'[k]
       /\ exec[k].pc = "finishing" => EventType(exec[k].result) \in events'[k] \/ k \in unsaid'
       /\ exec'[k].pc = "none" /\ exec'[k].killReason = "" /\ exec'[k].result = ""

\* A poll's answer gains the jobs of its node that the table shows so, a
\* placement is written for a PENDING job only, and faults are not undone.
PollMove(k) ==
    /\ \A n \in Nodes : k \in pollRun'[n] /\ k \notin pollRun[n]
          => state[k] = "ASSIGNED" /\ alloc[k].node = n
    /\ \A n \in Nodes : k \in pollCancel'[n] /\ k \notin pollCancel[n]
          => state[k] = "CANCELLING" /\ alloc[k].node = n
    /\ alloc'[k] # alloc[k] => state[k] = "PENDING"
    /\ lost' = 0 => lost = 0
    /\ crashes' = 0 => crashes = 0
    /\ unsaid \subseteq unsaid'

\* Where the goroutine of an entry is and what it knows of the outcome.
Entry(q, p, why, t) == q.pc = p /\ q.killReason = why /\ q.result = t

\* The entry of an executor that has just been made or given up.
LEMMA FreshEntry ==
    /\ Entry(NotRunning, "none", "", "")
    /\ \A p : Entry([NotRunning EXCEPT !.pc = p], p, "", "")
  BY DEF NotRunning, Entry

\* Setting one field of an entry leaves the others.
LEMMA EntryFields ==
    ASSUME NEW r \in Runnings
    PROVE  /\ \A p : Entry([r EXCEPT !.pc = p], p, r.killReason, r.result)
           /\ \A x : Entry([r EXCEPT !.proc = x], r.pc, r.killReason, r.result)
           /\ Entry([r EXCEPT !.timedOut = TRUE], r.pc, r.killReason, r.result)
  BY DEF Runnings, Entry

\* A job that a step is not about stays.
LEMMA OthersStay ==
    ASSUME TypeOK, NEW k \in Jobs, state'[k] = state[k], events'[k] = events[k], exec'[k] = exec[k]
    PROVE  JobMove(k)
  BY DEF JobMove, Stays, SameRow, SameMind

\* A step of the goroutine of j: the other jobs stay, and j moves.
LEMMA RunMoves ==
    ASSUME TypeInv, NEW j \in Jobs, RunStep(j), NEW k \in Jobs
    PROVE  JobMove(k)
<1>t. TypeOK /\ Reported /\ exec[j] \in Runnings
  BY DEF TypeInv, TypeOK
<1>1. CASE k # j
  <2>1. state'[k] = state[k] /\ events'[k] = events[k] /\ exec'[k] = exec[k]
    BY <1>1, <1>t DEF RunStep, SetCancelFunc, Launch, LaunchFails, ReportRunning, WaitReturns,
          ReportTerminal, EmitJobEvent, RunReturns, MarkJobRunning, FinishJob, TypeOK, storeVars
  <2>2. QED BY <1>t, <2>1, OthersStay
<1>2. CASE k = j
  <2>1. CASE SetCancelFunc(j)
    <3>1. exec'[j] = [exec[j] EXCEPT !.pc = "ready"]
      BY <1>t, <2>1 DEF SetCancelFunc, TypeOK
    <3>2. Entry(exec'[j], "ready", exec[j].killReason, exec[j].result)
      BY <1>t, <3>1, EntryFields
    <3>3. QED BY <1>2, <2>1, <3>2 DEF SetCancelFunc, storeVars, JobMove, SameRow, SameMind, Entry
  <2>2. CASE Launch(j)
    <3>1. exec'[j] = [exec[j] EXCEPT !.pc = "launched", !.proc = "alive"]
      BY <1>t, <2>2 DEF Launch, TypeOK
    <3>2. Entry(exec'[j], "launched", exec[j].killReason, exec[j].result)
      BY <1>t, <3>1 DEF Runnings, Entry
    <3>3. QED BY <1>2, <2>2, <3>2 DEF Launch, storeVars, JobMove, SameRow, SameMind, Entry
  <2>3. CASE LaunchFails(j)
    <3>1. exec'[j] = [NotRunning EXCEPT !.pc = "exited", !.result = "FAILED"]
      BY <1>t, <2>3 DEF LaunchFails, TypeOK
    <3>2. Entry(exec'[j], "exited", "", "FAILED")
      BY <3>1 DEF NotRunning, Entry
    <3>3. QED BY <1>2, <2>3, <3>2 DEF LaunchFails, storeVars, JobMove, SameRow, Terminal, Entry
  <2>4. CASE ReportRunning(j)
    <3>1. exec'[j] = [exec[j] EXCEPT !.pc = "waiting"]
      BY <1>t, <2>4 DEF ReportRunning, TypeOK
    <3>2. state'[j] = state[j] \/ (state[j] = "ASSIGNED" /\ state'[j] = "RUNNING")
      BY <1>t, <2>4 DEF ReportRunning, MarkJobRunning, TypeOK
    <3>3. Entry(exec'[j], "waiting", exec[j].killReason, exec[j].result)
      BY <1>t, <3>1, EntryFields
    <3>4. QED BY <1>2, <2>4, <3>2, <3>3 DEF ReportRunning, JobMove, SameMind, Entry
  <2>5. CASE WaitReturns(j)
    <3>1. PICK b \in BOOLEAN :
             exec'[j] = [NotRunning EXCEPT !.pc = "exited", !.result = Classify(exec[j], b)]
      BY <1>t, <2>5 DEF WaitReturns, TypeOK
    <3>2. Entry(exec'[j], "exited", "", Classify(exec[j], b))
      BY <3>1 DEF NotRunning, Entry
    <3>3. /\ Classify(exec[j], b) \in Terminal
          /\ Classify(exec[j], b) = "CANCELLED" => exec[j].killReason = "cancel"
      BY DEF Classify, Terminal
    <3>4. QED BY <1>2, <2>5, <3>2, <3>3 DEF WaitReturns, storeVars, JobMove, SameRow, Entry
  <2>6. CASE ReportTerminal(j)
    <3>1. CASE FinishJob(j, exec[j].result)
              /\ exec' = [exec EXCEPT ![j].pc =
                            IF exec[j].result = "CANCELLED" THEN "done" ELSE "finishing"]
      <4>1. exec'[j] = [exec[j] EXCEPT !.pc = IF exec[j].result = "CANCELLED" THEN "done" ELSE "finishing"]
            /\ state'[j] = exec[j].result
        BY <1>t, <3>1 DEF TypeOK, FinishJob
      <4>2. Entry(exec'[j], IF exec[j].result = "CANCELLED" THEN "done" ELSE "finishing",
                  exec[j].killReason, exec[j].result)
        BY <1>t, <4>1 DEF Runnings, Entry
      <4>3. QED BY <1>2, <2>6, <4>1, <4>2 DEF ReportTerminal, JobMove, SameMind, Entry
    <3>2. CASE lost' = lost + 1 /\ exec' = [exec EXCEPT ![j].pc = "done"] /\ UNCHANGED state
      <4>1. exec'[j] = [exec[j] EXCEPT !.pc = "done"] /\ lost' > 0
        BY <1>t, <3>2, ConstantsAssumption DEF TypeOK
      <4>2. Entry(exec'[j], "done", exec[j].killReason, exec[j].result)
        BY <1>t, <4>1, EntryFields
      <4>3. QED BY <1>2, <2>6, <3>2, <4>1, <4>2 DEF ReportTerminal, JobMove, SameMind, SameRow, Entry
    <3>3. QED BY <2>6, <3>1, <3>2 DEF ReportTerminal
  <2>7. CASE EmitJobEvent(j)
    <3>1. /\ exec'[j] = [exec[j] EXCEPT !.pc = "done"]
          /\ \/ events'[j] = events[j] \cup {EventType(exec[j].result)}
             \/ events'[j] = events[j] /\ j \in unsaid'
      BY <1>t, <2>7 DEF EmitJobEvent, TypeOK
    <3>2. Entry(exec'[j], "done", exec[j].killReason, exec[j].result)
      BY <1>t, <3>1, EntryFields
    <3>3. QED BY <1>2, <2>7, <3>1, <3>2 DEF EmitJobEvent, JobMove, SameRow, SameMind, Entry
  <2>8. CASE RunReturns(j)
    <3>1. exec'[j] = NotRunning
      BY <1>t, <2>8 DEF RunReturns, TypeOK
    <3>2. Entry(exec'[j], "none", "", "")
      BY <3>1, FreshEntry
    <3>3. QED BY <1>2, <2>8, <3>2 DEF RunReturns, storeVars, JobMove, SameRow, Entry
  <2>9. QED BY <2>1, <2>2, <2>3, <2>4, <2>5, <2>6, <2>7, <2>8 DEF RunStep
<1>3. QED BY <1>1, <1>2

\* Every step does one of these things to each job.
LEMMA JobMoves ==
    ASSUME TypeInv, [Next]_vars, NEW k \in Jobs
    PROVE  JobMove(k)
<1>t. TypeOK /\ Reported /\ exec[k] \in Runnings
  BY DEF TypeInv, TypeOK
<1>q. ASSUME UNCHANGED <<state, events, exec>> PROVE JobMove(k)
  BY <1>q, <1>t, OthersStay
<1>1. ASSUME NEW j \in Jobs, ClientStep(j) PROVE JobMove(k)
  <2>1. UNCHANGED <<events, exec>>
    BY <1>1 DEF ClientStep, SubmitJob, CancelJob, agentVars
  <2>2. state'[k] = state[k] \/ <<state[k], state'[k]>> \in RowMoves
    BY <1>1, <1>t DEF ClientStep, SubmitJob, CancelJob, RowMoves, Active, TypeOK
  <2>3. QED BY <1>t, <2>1, <2>2, OthersStay DEF JobMove
<1>2. ASSUME NEW n \in Nodes, NodeStep(n) PROVE JobMove(k)
  BY <1>2, <1>q DEF NodeStep, AgentStart, Heartbeat, MarkStaleDown, agentVars
<1>3. CASE PassStep
  <2>1. ASSUME NEW d \in decisions, AssignJob(d) PROVE JobMove(k)
    <3>1. d.job \in Jobs
      BY <1>t DEF TypeOK, Decisions
    <3>2. state'[k] = state[k] \/ <<state[k], state'[k]>> \in RowMoves
      BY <2>1, <3>1, <1>t DEF AssignJob, RowMoves, TypeOK
    <3>3. UNCHANGED <<events, exec>>
      BY <2>1 DEF AssignJob, agentVars
    <3>4. QED BY <1>t, <3>2, <3>3, OthersStay DEF JobMove
  <2>2. QED BY <1>3, <1>q, <2>1 DEF PassStep, ReadNodes, ReadActive, ReadPendingAndPlan, PassAborts,
                                    storeVars, agentVars
<1>4. ASSUME NEW n \in Nodes, PollStep(n) PROVE JobMove(k)
  <2>1. CASE PollAssigned(n) \/ PollCancelling(n) \/ PollDone(n)
    BY <2>1, <1>q DEF PollAssigned, PollCancelling, PollDone, storeVars
  <2>2. ASSUME NEW j \in Jobs, StartJob(n, j) PROVE JobMove(k)
    <3>1. UNCHANGED <<state, events>> /\ j \in pollRun[n]
      BY <2>2 DEF StartJob, storeVars
    <3>2. CASE exec[j].pc = "none" /\ k = j
      <4>1. exec'[k] = [NotRunning EXCEPT !.pc = "entered"]
        BY <2>2, <3>2, <1>t DEF StartJob, TypeOK
      <4>2. Entry(exec'[k], "entered", "", "")
        BY <4>1, FreshEntry
      <4>3. QED BY <3>1, <3>2, <4>2 DEF JobMove, SameRow, Entry
    <3>3. CASE ~(exec[j].pc = "none" /\ k = j)
      BY <2>2, <3>1, <3>3, <1>t, OthersStay DEF StartJob, TypeOK
    <3>4. QED BY <3>2, <3>3
  <2>3. ASSUME NEW j \in Jobs, CancelOnAgent(n, j) PROVE JobMove(k)
    <3>1. UNCHANGED <<state, events, pollRun>> /\ j \in pollCancel[n] /\ pollRun[n] = {}
      BY <2>3 DEF CancelOnAgent, storeVars
    <3>2. CASE CancelMatters(j) /\ k = j
      <4>1. PICK seen \in SeesCancelFunc(j) :
               exec' = [exec EXCEPT ![j].killReason = "cancel", ![j].ctxDone = @ \/ seen]
        BY <2>3, <3>2 DEF CancelOnAgent
      <4>2. exec'[k] = [exec[k] EXCEPT !.killReason = "cancel", !.ctxDone = exec[k].ctxDone \/ seen]
        BY <3>2, <4>1, <1>t DEF TypeOK
      <4>3. Entry(exec'[k], exec[k].pc, "cancel", exec[k].result)
        BY <1>t, <4>2 DEF Runnings, Entry
      <4>4. QED BY <3>1, <3>2, <4>3 DEF JobMove, SameRow, Entry
    <3>3. CASE ~(CancelMatters(j) /\ k = j)
      <4>1. exec'[k] = exec[k]
        BY <2>3, <3>3, <1>t DEF CancelOnAgent, TypeOK
      <4>2. QED BY <1>t, <3>1, <4>1, OthersStay
    <3>4. QED BY <3>2, <3>3
  <2>4. QED BY <1>4, <2>1, <2>2, <2>3 DEF PollStep
<1>5. ASSUME NEW j \in Jobs, RunStep(j) PROVE JobMove(k)
  BY <1>5, RunMoves
<1>6. ASSUME NEW j \in Jobs, ProcStep(j) PROVE JobMove(k)
  <2>1. UNCHANGED <<state, events>>
    BY <1>6 DEF ProcStep, ProcExits, WalltimeExpires, KillGroup, storeVars
  <2>2. CASE k # j
    BY <1>6, <1>t, <2>1, <2>2, OthersStay DEF ProcStep, ProcExits, WalltimeExpires, KillGroup, TypeOK
  <2>3. CASE k = j
    <3>1. \/ \E how \in {"ok", "err"} : exec'[k] = [exec[k] EXCEPT !.proc = how]
          \/ exec'[k] = [exec[k] EXCEPT !.timedOut = TRUE]
      BY <1>6, <1>t, <2>3 DEF ProcStep, ProcExits, WalltimeExpires, KillGroup, TypeOK
    <3>2. Entry(exec'[k], exec[k].pc, exec[k].killReason, exec[k].result)
      BY <1>t, <3>1, EntryFields
    <3>3. QED BY <2>1, <3>2 DEF JobMove, Stays, SameRow, SameMind, Entry
  <2>4. QED BY <2>2, <2>3
<1>7. CASE FaultStep
  <2>1. ASSUME NEW n \in Nodes, AgentCrash(n) PROVE JobMove(k)
    <3>1. state' = state /\ crashes' > 0
      BY <2>1, <1>t, ConstantsAssumption DEF AgentCrash, TypeOK
    <3>2. CASE OnNode(k, n)
      <4>1. exec'[k] = NotRunning
        BY <2>1, <3>2 DEF AgentCrash
      <4>2. Entry(exec'[k], "none", "", "")
        BY <4>1, FreshEntry
      <4>3. /\ events[k] \subseteq events'[k]
            /\ exec[k].pc = "finishing" => EventType(exec[k].result) \in events'[k] \/ k \in unsaid'
        BY <2>1, <3>2, <1>t DEF AgentCrash, TypeOK
      <4>4. QED BY <3>1, <4>2, <4>3 DEF JobMove, Entry
    <3>3. CASE ~OnNode(k, n)
      <4>1. exec'[k] = exec[k] /\ events'[k] = events[k]
        BY <2>1, <3>3 DEF AgentCrash
      <4>2. QED BY <1>t, <3>1, <4>1, OthersStay
    <3>4. QED BY <3>2, <3>3
  <2>2. CASE ServerRestart
    <3>1. UNCHANGED <<state, events>>
      BY <2>2 DEF ServerRestart, storeVars
    <3>2. CASE exec[k].pc = "finishing"
      <4>1. exec'[k] = [exec[k] EXCEPT !.pc = "done"] /\ k \in unsaid'
        BY <2>2, <3>2 DEF ServerRestart
      <4>2. Entry(exec'[k], "done", exec[k].killReason, exec[k].result)
        BY <1>t, <4>1, EntryFields
      <4>3. QED BY <3>1, <3>2, <4>1, <4>2 DEF JobMove, SameRow, SameMind, Entry
    <3>3. CASE exec[k].pc # "finishing"
      <4>1. exec'[k] = exec[k]
        BY <2>2, <3>3 DEF ServerRestart
      <4>2. QED BY <1>t, <3>1, <4>1, OthersStay
    <3>4. QED BY <3>2, <3>3
  <2>3. QED BY <1>7, <1>q, <2>1, <2>2 DEF FaultStep, PollFails, OrphanExits, storeVars
<1>8. CASE UNCHANGED vars
  BY <1>8, <1>q DEF vars, storeVars, agentVars
<1>9. QED BY <1>1, <1>2, <1>3, <1>4, <1>5, <1>6, <1>7, <1>8 DEF Next

\* Every step treats the answers, the placements and the fault counts so.
LEMMA PollMoves ==
    ASSUME TypeInv, [Next]_vars, NEW k \in Jobs
    PROVE  PollMove(k)
<1>t. TypeOK
  BY DEF TypeInv
<1>q. ASSUME /\ \A n \in Nodes : pollRun'[n] \subseteq pollRun[n] /\ pollCancel'[n] \subseteq pollCancel[n]
             /\ alloc'[k] = alloc[k]
             /\ lost' >= lost /\ crashes' >= crashes /\ unsaid \subseteq unsaid'
      PROVE  PollMove(k)
  BY <1>q, <1>t, ConstantsAssumption DEF PollMove, TypeOK
<1>r. lost >= lost /\ crashes >= crashes /\ lost + 1 >= lost /\ crashes + 1 >= crashes
  BY <1>t, ConstantsAssumption DEF TypeOK
<1>1. ASSUME NEW j \in Jobs, ClientStep(j) PROVE PollMove(k)
  BY <1>1, <1>q, <1>r DEF ClientStep, SubmitJob, CancelJob, agentVars, faultVars
<1>2. ASSUME NEW n \in Nodes, NodeStep(n) PROVE PollMove(k)
  BY <1>2, <1>q, <1>r DEF NodeStep, AgentStart, Heartbeat, MarkStaleDown, agentVars, faultVars
<1>3. CASE PassStep
  <2>1. ASSUME NEW d \in decisions, AssignJob(d) PROVE PollMove(k)
    <3>1. alloc'[k] # alloc[k] => state[k] = "PENDING"
      BY <2>1, <1>t DEF AssignJob, TypeOK, Decisions
    <3>2. QED BY <2>1, <3>1 DEF AssignJob, agentVars, faultVars, PollMove
  <2>2. QED BY <1>3, <1>q, <1>r, <2>1 DEF PassStep, ReadNodes, ReadActive, ReadPendingAndPlan, PassAborts,
                                          storeVars, agentVars, faultVars
<1>4. ASSUME NEW n \in Nodes, PollStep(n) PROVE PollMove(k)
  <2>1. CASE PollAssigned(n)
    <3>1. \A m \in Nodes : k \in pollRun'[m] /\ k \notin pollRun[m]
              => state[k] = "ASSIGNED" /\ alloc[k].node = m
      BY <2>1, <1>t DEF PollAssigned, ListJobsByNodeState, OnNode, TypeOK
    <3>2. QED BY <2>1, <3>1 DEF PollAssigned, storeVars, faultVars, PollMove
  <2>2. CASE PollCancelling(n)
    <3>1. \A m \in Nodes : k \in pollCancel'[m] /\ k \notin pollCancel[m]
              => state[k] = "CANCELLING" /\ alloc[k].node = m
      BY <2>2, <1>t DEF PollCancelling, ListJobsByNodeState, OnNode, TypeOK
    <3>2. QED BY <2>2, <3>1 DEF PollCancelling, storeVars, faultVars, PollMove
  <2>3. CASE PollDone(n)
    BY <2>3, <1>q, <1>r DEF PollDone, storeVars, faultVars
  <2>4. ASSUME NEW j \in Jobs, StartJob(n, j) PROVE PollMove(k)
    <3>1. \A m \in Nodes : pollRun'[m] \subseteq pollRun[m]
      BY <2>4, <1>t DEF StartJob, TypeOK
    <3>2. QED BY <2>4, <3>1, <1>q, <1>r DEF StartJob, storeVars, faultVars
  <2>5. ASSUME NEW j \in Jobs, CancelOnAgent(n, j) PROVE PollMove(k)
    <3>1. \A m \in Nodes : pollCancel'[m] \subseteq pollCancel[m]
      BY <2>5, <1>t DEF CancelOnAgent, TypeOK
    <3>2. QED BY <2>5, <3>1, <1>q, <1>r DEF CancelOnAgent, storeVars, faultVars
  <2>6. QED BY <1>4, <2>1, <2>2, <2>3, <2>4, <2>5 DEF PollStep
<1>5. ASSUME NEW j \in Jobs, RunStep(j) PROVE PollMove(k)
  BY <1>5, <1>q, <1>r DEF RunStep, SetCancelFunc, Launch, LaunchFails, ReportRunning, WaitReturns,
          ReportTerminal, EmitJobEvent, RunReturns, storeVars, faultVars
<1>6. ASSUME NEW j \in Jobs, ProcStep(j) PROVE PollMove(k)
  BY <1>6, <1>q, <1>r DEF ProcStep, ProcExits, WalltimeExpires, KillGroup, storeVars, faultVars
<1>7. CASE FaultStep
  <2>1. ASSUME NEW n \in Nodes, PollFails(n) PROVE PollMove(k)
    <3>1. \A m \in Nodes : pollRun'[m] \subseteq pollRun[m]
      BY <2>1, <1>t DEF PollFails, TypeOK
    <3>2. QED BY <2>1, <3>1, <1>q, <1>r DEF PollFails, storeVars
  <2>2. ASSUME NEW n \in Nodes, AgentCrash(n) PROVE PollMove(k)
    <3>1. \A m \in Nodes : pollRun'[m] \subseteq pollRun[m] /\ pollCancel'[m] \subseteq pollCancel[m]
      BY <2>2, <1>t DEF AgentCrash, TypeOK
    <3>2. QED BY <2>2, <3>1, <1>q, <1>r DEF AgentCrash
  <2>3. CASE ServerRestart
    <3>1. \A m \in Nodes : pollRun'[m] \subseteq pollRun[m]
      BY <2>3, <1>t DEF ServerRestart, TypeOK
    <3>2. QED BY <2>3, <3>1, <1>q, <1>r DEF ServerRestart, storeVars
  <2>4. ASSUME NEW j \in Jobs, OrphanExits(j) PROVE PollMove(k)
    BY <2>4, <1>q, <1>r DEF OrphanExits, storeVars, faultVars
  <2>5. QED BY <1>7, <2>1, <2>2, <2>3, <2>4 DEF FaultStep
<1>8. CASE UNCHANGED vars
  BY <1>8, <1>q, <1>r DEF vars, storeVars, agentVars, faultVars
<1>9. QED BY <1>1, <1>2, <1>3, <1>4, <1>5, <1>6, <1>7, <1>8 DEF Next

-----------------------------------------------------------------------------
(* The outcome of a job *)

\* In the state before any job there is nothing to know about one.
LEMMA NothingYet ==
    ASSUME Init, NEW j \in Jobs
    PROVE  /\ state[j] = "NONE" /\ Entry(exec[j], "none", "", "")
           /\ \A n \in Nodes : pollRun[n] = {} /\ pollCancel[n] = {}
<1>1. state[j] = "NONE" /\ exec[j] = NotRunning /\ \A n \in Nodes : pollRun[n] = {} /\ pollCancel[n] = {}
  BY DEF Init
<1>2. QED BY <1>1, FreshEntry

\* For every number of jobs and nodes: while no call was lost and no agent died
\* a RUNNING row has a goroutine that will report its end, since only the report
\* of a launched process makes a row RUNNING and only the report of its end, or
\* a cancellation, takes it out (ReportRunning, ReportTerminal, CancelJob).
THEOREM RunningHasItsGoroutine == Spec => []RunningIsWatched
<1>1. Init => RunningIsWatched
  BY NothingYet DEF RunningIsWatched
<1>2. ASSUME TypeInv, RunningIsWatched, [Next]_vars PROVE RunningIsWatched'
  <2> SUFFICES ASSUME lost' = 0, crashes' = 0, NEW k \in Jobs, state'[k] = "RUNNING"
               PROVE  exec'[k].pc \in {"waiting", "exited"}
    BY DEF RunningIsWatched
  <2>1. lost = 0 /\ crashes = 0
    BY <1>2, PollMoves DEF PollMove
  <2>2. state[k] = "RUNNING" => exec[k].pc \in {"waiting", "exited"}
    BY <1>2, <2>1 DEF RunningIsWatched
  <2>3. exec[k].pc = "exited" => exec[k].result # "RUNNING"
    BY <1>2 DEF TypeInv, Reported, Terminal
  <2>4. JobMove(k)
    BY <1>2, JobMoves
  <2>5. ~(lost' > 0) /\ ~(crashes' > 0)
    OBVIOUS
  <2>6. QED BY <2>2, <2>3, <2>4, <2>5 DEF JobMove, Stays, SameRow, SameMind, RowMoves
<1>3. Init => TypeInv
  BY TypeInit DEF TypeInv
<1>4. TypeInv /\ [Next]_vars => TypeInv'
  BY TypeStep, ReportedStep DEF TypeInv
<1>5. QED BY <1>1, <1>2, <1>3, <1>4, PTL DEF Spec

\* While the handler of a terminal report is between FinishJob and its event,
\* the row shows the outcome the event will be about: nothing else writes it.
FinishingIsWritten ==
    \A j \in Jobs : exec[j].pc = "finishing"
        => state[j] = exec[j].result /\ state[j] \in Terminal \ {"CANCELLED"}

\* For every number of jobs, nodes and faults: the row of a job that ended by
\* itself has the event of its last outcome as soon as the handler returned,
\* although the two are written by two statements (FinishJob, then emitJobEvent in
\* UpdateJobStatus), unless that very handler was broken off between them or its
\* second half failed.
THEOREM EveryEndHasItsEvent == Spec => []EndIsAnnounced
<1>1. Init => FinishingIsWritten /\ EndIsAnnounced
  BY NothingYet DEF FinishingIsWritten, EndIsAnnounced, Entry, Terminal
<1>2. ASSUME TypeInv, FinishingIsWritten, [Next]_vars PROVE FinishingIsWritten'
  <2> SUFFICES ASSUME NEW k \in Jobs, exec'[k].pc = "finishing"
               PROVE  state'[k] = exec'[k].result /\ state'[k] \in Terminal \ {"CANCELLED"}
    BY DEF FinishingIsWritten
  <2>1. exec[k].pc = "finishing" => state[k] = exec[k].result /\ state[k] \in Terminal \ {"CANCELLED"}
    BY <1>2 DEF FinishingIsWritten
  <2>2. exec[k].pc = "exited" => exec[k].result \in Terminal
    BY <1>2 DEF TypeInv, Reported
  <2>3. JobMove(k)
    BY <1>2, JobMoves
  <2>4. QED BY <2>1, <2>2, <2>3 DEF JobMove, Stays, SameRow, SameMind, RowMoves, Terminal
<1>3. ASSUME TypeInv, FinishingIsWritten, EndIsAnnounced, [Next]_vars PROVE EndIsAnnounced'
  <2> SUFFICES ASSUME NEW k \in Jobs, k \notin unsaid',
                      state'[k] \in Terminal \ {"CANCELLED"}, exec'[k].pc # "finishing"
               PROVE  EventType(state'[k]) \in events'[k]
    BY DEF EndIsAnnounced, EventType
  <2>1. k \notin unsaid
    BY <1>3, PollMoves DEF PollMove
  <2>2. state[k] \in Terminal \ {"CANCELLED"} /\ exec[k].pc # "finishing" => EventType(state[k]) \in events[k]
    BY <1>3, <2>1 DEF EndIsAnnounced, EventType
  <2>3. exec[k].pc = "finishing" => state[k] = exec[k].result
    BY <1>3 DEF FinishingIsWritten
  <2>4. JobMove(k)
    BY <1>3, JobMoves
  <2>5. QED BY <2>2, <2>3, <2>4 DEF JobMove, Stays, SameRow, SameMind, RowMoves, Terminal
<1>4. Init => TypeInv
  BY TypeInit DEF TypeInv
<1>5. TypeInv /\ [Next]_vars => TypeInv'
  BY TypeStep, ReportedStep DEF TypeInv
<1>6. QED BY <1>1, <1>2, <1>3, <1>4, <1>5, PTL DEF Spec

-----------------------------------------------------------------------------
(* Cancellation *)

\* What the executor of j has been told, or has concluded, of a cancellation.
ToldToStop(j) == exec[j].killReason = "cancel" \/ exec[j].result = "CANCELLED"

\* An answer holds jobs placed on the node it was given to, so no two answers
\* hold the same job.
PollsOfNode ==
    \A j \in Jobs, n \in Nodes : j \in pollRun[n] \cup pollCancel[n] => alloc[j].node = n

\* A cancellation that is under way to an executor, or arrived there, was
\* written first, and its row is not given back to the scheduler or to a poll.
CancelKnown ==
    \A j \in Jobs : ToldToStop(j) \/ (\E n \in Nodes : j \in pollCancel[n])
        => state[j] \in {"CANCELLING"} \cup Terminal

\* No answer that is still being worked through starts such a job once more:
\* the starts of an answer come before its cancellations.
NoRestart == \A j \in Jobs : ToldToStop(j) => \A n \in Nodes : j \notin pollRun[n]

\* Only an entry whose process was launched and not yet waited for has one alive.
Unlaunched == \A j \in Jobs : exec[j].pc \notin {"launched", "waiting"} => exec[j].proc # "alive"

\* The entry and the answers of a cancelled job, as CancelledIsDropped has them.
DroppedEntry ==
    \A j \in Jobs : state[j] = "CANCELLED" =>
        exec[j].pc \in {"none", "done"} /\ \A n \in Nodes : j \notin pollRun[n]

CancelInv == OnlyAssignedRun /\ PollsOfNode /\ CancelKnown /\ NoRestart /\ DroppedEntry

\* A step keeps what is known of the cancellation of each job.
LEMMA CancelStep == TypeInv /\ CancelInv /\ [Next]_vars => CancelInv'
<1> SUFFICES ASSUME TypeInv, CancelInv, [Next]_vars PROVE CancelInv'
  OBVIOUS
<1>1. ASSUME NEW k \in Jobs PROVE JobMove(k) /\ PollMove(k)
  BY JobMoves, PollMoves
<1>2. ASSUME NEW k \in Jobs PROVE exec[k].pc = "exited" => exec[k].result \in Terminal
  BY DEF TypeInv, Reported
<1>3. OnlyAssignedRun'
  BY OnlyAssignedStep DEF CancelInv, TypeInv
<1>4. CancelKnown'
  <2> SUFFICES ASSUME NEW k \in Jobs, ToldToStop(k)' \/ \E n \in Nodes : k \in pollCancel'[n]
               PROVE  state'[k] \in {"CANCELLING"} \cup Terminal
    BY DEF CancelKnown
  <2>1. ToldToStop(k) \/ (\E n \in Nodes : k \in pollCancel[n]) => state[k] \in {"CANCELLING"} \cup Terminal
    BY DEF CancelInv, CancelKnown
  <2>2. state[k] \in {"CANCELLING"} \cup Terminal => state'[k] \in {"CANCELLING"} \cup Terminal
    BY <1>1, <1>2 DEF JobMove, Stays, SameRow, RowMoves, Terminal
  <2>3. CASE \E n \in Nodes : k \in pollCancel'[n]
    BY <1>1, <2>1, <2>2, <2>3 DEF PollMove
  <2>4. CASE ToldToStop(k)'
    <3>1. ToldToStop(k) \/ \E n \in Nodes : k \in pollCancel[n]
      BY <1>1, <2>4 DEF ToldToStop, JobMove, Stays, SameMind
    <3>2. QED BY <2>1, <2>2, <3>1
  <2>5. QED BY <2>3, <2>4
<1>5. PollsOfNode'
  <2> SUFFICES ASSUME NEW k \in Jobs, NEW n \in Nodes, k \in pollRun'[n] \cup pollCancel'[n]
               PROVE  alloc'[k].node = n
    BY DEF PollsOfNode
  <2>1. k \in pollRun[n] \cup pollCancel[n] => alloc[k].node = n /\ state[k] # "PENDING"
    BY DEF CancelInv, PollsOfNode, OnlyAssignedRun, CancelKnown, Terminal
  <2>2. QED BY <1>1, <2>1 DEF PollMove
<1>6. NoRestart'
  <2> SUFFICES ASSUME NEW k \in Jobs, ToldToStop(k)', NEW m \in Nodes, k \in pollRun'[m]
               PROVE  FALSE
    BY DEF NoRestart
  <2>1. CASE ToldToStop(k)
    <3>1. k \notin pollRun[m] /\ state[k] # "ASSIGNED"
      BY <2>1 DEF CancelInv, NoRestart, CancelKnown, Terminal
    <3>2. QED BY <1>1, <3>1 DEF PollMove
  <2>2. CASE ~ToldToStop(k)
    <3>1. pollRun' = pollRun /\ \E n \in Nodes : k \in pollCancel[n] /\ pollRun[n] = {}
      BY <1>1, <2>2 DEF ToldToStop, JobMove, Stays, SameMind
    <3>2. QED BY <3>1 DEF CancelInv, PollsOfNode
  <2>3. QED BY <2>1, <2>2
<1>7. DroppedEntry'
  <2> SUFFICES ASSUME NEW k \in Jobs, state'[k] = "CANCELLED"
               PROVE  exec'[k].pc \in {"none", "done"} /\ \A n \in Nodes : k \notin pollRun'[n]
    BY DEF DroppedEntry
  <2>1. CASE state[k] = "CANCELLED"
    <3>1. exec[k].pc \in {"none", "done"} /\ \A n \in Nodes : k \notin pollRun[n]
      BY <2>1 DEF CancelInv, DroppedEntry
    <3>2. \A n \in Nodes : k \notin pollRun'[n]
      BY <1>1, <2>1, <3>1 DEF PollMove
    <3>3. exec'[k].pc \in {"none", "done"}
      BY <1>1, <2>1, <3>1 DEF JobMove, Stays, SameRow, RowMoves
    <3>4. QED BY <3>2, <3>3
  <2>2. CASE state[k] = "PENDING" /\ exec'[k] = exec[k]
    <3>1. exec[k].pc = "none" /\ \A n \in Nodes : k \notin pollRun[n]
      BY <2>2 DEF CancelInv, OnlyAssignedRun
    <3>2. QED BY <1>1, <2>2, <3>1 DEF PollMove
  <2>3. CASE exec[k].pc = "exited" /\ exec[k].result = "CANCELLED" /\ exec'[k].pc = "done"
    <3>1. \A n \in Nodes : k \notin pollRun[n] /\ state[k] # "ASSIGNED"
      BY <2>3 DEF CancelInv, NoRestart, CancelKnown, ToldToStop, Terminal
    <3>2. QED BY <1>1, <2>3, <3>1 DEF PollMove
  <2>4. QED BY <1>1, <2>1, <2>2, <2>3 DEF JobMove, Stays, SameRow, RowMoves
<1>8. QED BY <1>3, <1>4, <1>5, <1>6, <1>7 DEF CancelInv

\* A process is launched with its entry in "launched" and is over when Wait
\* returns: no other step of the entry leaves those two with a process alive.
LEMMA UnlaunchedStep == TypeOK /\ Unlaunched /\ [Next]_vars => Unlaunched'
<1> SUFFICES ASSUME TypeOK, Unlaunched, [Next]_vars, NEW k \in Jobs,
                    exec'[k].pc \notin {"launched", "waiting"}
             PROVE  exec'[k].proc # "alive"
  BY DEF Unlaunched
<1>t. exec \in [Jobs -> Runnings] /\ exec[k] \in Runnings
  BY DEF TypeOK
<1>u. exec[k].pc \notin {"launched", "waiting"} => exec[k].proc # "alive"
  BY DEF Unlaunched
<1>1. CASE exec'[k] = exec[k]
  BY <1>1, <1>u
<1>f. ASSUME NEW p, exec[k].pc \notin {"launched", "waiting"}, exec'[k] = [exec[k] EXCEPT !.pc = p]
      PROVE  exec'[k].proc # "alive"
  BY <1>f, <1>t, <1>u DEF Runnings
<1>n. ASSUME NEW p, NEW t, exec'[k] = [NotRunning EXCEPT !.pc = p, !.result = t]
      PROVE  exec'[k].proc # "alive"
  BY <1>n DEF NotRunning
<1>2. ASSUME NEW n \in Nodes, PollStep(n) PROVE exec'[k].proc # "alive"
  <2>1. CASE PollAssigned(n) \/ PollCancelling(n) \/ PollDone(n)
    BY <1>1, <2>1 DEF PollAssigned, PollCancelling, PollDone
  <2>2. ASSUME NEW j \in Jobs, StartJob(n, j) PROVE exec'[k].proc # "alive"
    <3>1. exec'[k] = exec[k] \/ exec'[k] = [NotRunning EXCEPT !.pc = "entered"]
      BY <2>2, <1>t DEF StartJob
    <3>2. [NotRunning EXCEPT !.pc = "entered"].proc = "none"
      BY DEF NotRunning
    <3>3. QED BY <1>1, <3>1, <3>2
  <2>3. ASSUME NEW j \in Jobs, CancelOnAgent(n, j) PROVE exec'[k].proc # "alive"
    <3>1. CASE CancelMatters(j)
      <4>1. PICK seen \in SeesCancelFunc(j) :
               exec' = [exec EXCEPT ![j].killReason = "cancel", ![j].ctxDone = @ \/ seen]
        BY <2>3, <3>1 DEF CancelOnAgent
      <4>2. exec'[k].pc = exec[k].pc /\ exec'[k].proc = exec[k].proc
        BY <4>1, <1>t DEF Runnings
      <4>3. QED BY <4>2, <1>u
    <3>2. CASE ~CancelMatters(j)
      BY <1>1, <2>3, <3>2 DEF CancelOnAgent
    <3>3. QED BY <3>1, <3>2
  <2>4. QED BY <1>2, <2>1, <2>2, <2>3 DEF PollStep
<1>3. ASSUME NEW j \in Jobs, RunStep(j) PROVE exec'[k].proc # "alive"
  <2>1. CASE k # j
    BY <1>1, <1>3, <1>t, <2>1 DEF RunStep, SetCancelFunc, Launch, LaunchFails, ReportRunning,
          WaitReturns, ReportTerminal, EmitJobEvent, RunReturns
  <2>2. CASE k = j
    <3>1. CASE SetCancelFunc(j) \/ ReportTerminal(j) \/ EmitJobEvent(j)
      <4>1. /\ exec[k].pc \notin {"launched", "waiting"}
            /\ \E p \in {"ready", "done", "finishing"} : exec'[k] = [exec[k] EXCEPT !.pc = p]
        BY <2>2, <3>1, <1>t DEF SetCancelFunc, ReportTerminal, EmitJobEvent
      <4>2. QED BY <4>1, <1>f
    <3>2. CASE Launch(j)
      <4>1. exec'[k] = [exec[k] EXCEPT !.pc = "launched", !.proc = "alive"]
        BY <2>2, <3>2, <1>t DEF Launch
      <4>2. exec'[k].pc = "launched"
        BY <4>1, <1>t DEF Runnings
      <4>3. QED BY <4>2
    <3>3. CASE ReportRunning(j)
      <4>1. exec'[k] = [exec[k] EXCEPT !.pc = "waiting"]
        BY <2>2, <3>3, <1>t DEF ReportRunning
      <4>2. exec'[k].pc = "waiting"
        BY <4>1, <1>t DEF Runnings
      <4>3. QED BY <4>2
    <3>4. CASE LaunchFails(j)
      <4>1. exec'[k] = [NotRunning EXCEPT !.pc = "exited", !.result = "FAILED"]
        BY <2>2, <3>4, <1>t DEF LaunchFails
      <4>2. QED BY <4>1, <1>n
    <3>5. CASE WaitReturns(j)
      <4>1. PICK b \in BOOLEAN :
               exec'[k] = [NotRunning EXCEPT !.pc = "exited", !.result = Classify(exec[j], b)]
        BY <2>2, <3>5, <1>t DEF WaitReturns
      <4>2. QED BY <4>1, <1>n
    <3>6. CASE RunReturns(j)
      BY <2>2, <3>6, <1>t DEF RunReturns, NotRunning
    <3>7. QED BY <1>3, <3>1, <3>2, <3>3, <3>4, <3>5, <3>6 DEF RunStep
  <2>3. QED BY <2>1, <2>2
<1>4. ASSUME NEW j \in Jobs, ProcStep(j) PROVE exec'[k].proc # "alive"
  <2>1. \/ exec'[k] = exec[k]
        \/ \E how \in {"ok", "err"} : exec'[k] = [exec[k] EXCEPT !.proc = how]
        \/ exec'[k] = [exec[k] EXCEPT !.timedOut = TRUE]
    BY <1>4, <1>t DEF ProcStep, ProcExits, WalltimeExpires, KillGroup
  <2>2. CASE exec'[k] = [exec[k] EXCEPT !.timedOut = TRUE]
    <3>1. exec'[k].pc = exec[k].pc /\ exec'[k].proc = exec[k].proc
      BY <2>2, <1>t DEF Runnings
    <3>2. QED BY <3>1, <1>u
  <2>3. ASSUME NEW how \in {"ok", "err"}, exec'[k] = [exec[k] EXCEPT !.proc = how]
        PROVE  exec'[k].proc # "alive"
    BY <2>3, <1>t DEF Runnings
  <2>4. QED BY <1>1, <2>1, <2>2, <2>3
<1>5. CASE FaultStep
  <2>1. ASSUME NEW n \in Nodes, AgentCrash(n) PROVE exec'[k].proc # "alive"
    <3>1. exec'[k] = exec[k] \/ exec'[k] = NotRunning
      BY <2>1 DEF AgentCrash
    <3>2. NotRunning.proc = "none"
      BY DEF NotRunning
    <3>3. CASE exec'[k] = NotRunning
      BY <3>2, <3>3
    <3>4. QED BY <1>1, <3>1, <3>3
  <2>2. CASE ServerRestart
    <3>1. \/ exec'[k] = exec[k]
          \/ exec[k].pc = "finishing" /\ exec'[k] = [exec[k] EXCEPT !.pc = "done"]
      BY <2>2 DEF ServerRestart
    <3>2. QED BY <1>1, <1>f, <3>1
  <2>3. QED BY <1>1, <1>5, <2>1, <2>2 DEF FaultStep, PollFails, OrphanExits
<1>6. CASE PassStep
  BY <1>1, <1>6 DEF PassStep, ReadNodes, ReadActive, ReadPendingAndPlan, PassAborts, AssignJob, agentVars
<1>7. ASSUME NEW j \in Jobs, ClientStep(j) PROVE exec'[k].proc # "alive"
  BY <1>1, <1>7 DEF ClientStep, SubmitJob, CancelJob, agentVars
<1>8. ASSUME NEW n \in Nodes, NodeStep(n) PROVE exec'[k].proc # "alive"
  BY <1>1, <1>8 DEF NodeStep, AgentStart, Heartbeat, MarkStaleDown, agentVars
<1>9. CASE UNCHANGED vars
  BY <1>1, <1>9 DEF vars, agentVars
<1>10. QED BY <1>2, <1>3, <1>4, <1>5, <1>6, <1>7, <1>8, <1>9 DEF Next

\* For every number of jobs, nodes and faults: no agent runs a CANCELLED job or
\* holds an answer that would start it, because an answer's starts come before
\* its cancellations, an answer concerns one node only, and a row that is being
\* cancelled is never ASSIGNED again (CancelJob, pollLoop, executor.cancel).  What
\* a crashed agent left running is no agent's any more, and is not spoken of.
THEOREM CancelledStaysDropped == Spec => []CancelledIsDropped
<1>1. Init => TypeInv /\ CancelInv /\ Unlaunched
  <2> SUFFICES ASSUME Init PROVE CancelInv /\ Unlaunched
    BY TypeInit DEF TypeInv
  <2>1. CancelInv
    BY NothingYet DEF CancelInv, OnlyAssignedRun, PollsOfNode, CancelKnown, NoRestart,
                      DroppedEntry, ToldToStop, Entry
  <2>2. Unlaunched
    BY DEF Init, NotRunning, Unlaunched
  <2>3. QED BY <2>1, <2>2
<1>2. TypeInv /\ CancelInv /\ Unlaunched /\ [Next]_vars => (TypeInv /\ CancelInv /\ Unlaunched)'
  BY TypeStep, ReportedStep, CancelStep, UnlaunchedStep DEF TypeInv
<1>3. CancelInv /\ Unlaunched => CancelledIsDropped
  BY DEF CancelInv, DroppedEntry, Unlaunched, CancelledIsDropped
<1>4. QED BY <1>1, <1>2, <1>3, PTL DEF Spec

=============================================================================
