------------------------------ MODULE Dispatch ------------------------------
(***************************************************************************)
(* The job path of Skipper: the job table (internal/store), the scheduler  *)
(* pass that assigns pending jobs to nodes (internal/scheduler), the       *)
(* agents' poll loop and the executor that runs each job as a process and  *)
(* reports its states (internal/agent), and the handlers of the control    *)
(* plane those calls reach (internal/server).                              *)
(*                                                                         *)
(* Every statement of the single SQLite connection is one atomic step;     *)
(* everything that reads twice, or reads and later writes, is split:       *)
(* the scheduler pass reads nodes, then active jobs, then pending jobs,    *)
(* and then writes one assignment at a time; a poll reads the ASSIGNED     *)
(* jobs and then the CANCELLING ones, and the agent acts on that answer    *)
(* item by item while the jobs it started run in goroutines of their own.  *)
(*                                                                         *)
(* Of the resources of a node only the devices are kept.  The Plan         *)
(* function is its contract PlanOutcomes, which the module Plan shows the  *)
(* algorithm meets.                                                        *)
(***************************************************************************)
EXTENDS Integers, FiniteSets

CONSTANTS Jobs,         \* job ids
          Nodes,        \* node ids; one agent serves each
          Devices,      \* (kind, index) keys of a node's devices
          NoNode,       \* the empty node_id of a job that was never assigned
          Inventories,  \* device lists a node can report (a failed collector reports none)
          ReqGPUs,      \* devices a job asks for
          Walltimed,    \* jobs submitted with a positive walltime
          MaxLost,      \* bound: calls of agents, or statements of their events, that fail
          MaxCrashes,   \* bound: agent crashes
          MaxRestarts   \* bound: restarts of the control plane

ASSUME ConstantsAssumption ==
    /\ NoNode \notin Nodes
    /\ Inventories \subseteq SUBSET Devices
    /\ ReqGPUs \in [Jobs -> Nat]
    /\ Walltimed \subseteq Jobs
    /\ MaxLost \in Nat /\ MaxCrashes \in Nat /\ MaxRestarts \in Nat

VARIABLES
    \* tables of the store
    state,      \* state[j]: the job's state column; NONE before it is submitted
    alloc,      \* alloc[j]: its node_id and devices_json columns
    up,         \* nodes in state UP
    inv,        \* inv[n]: the device list of node n
    events,     \* events[j]: types of the job events recorded for j
    \* the scheduler's pass
    schedPc,    \* how far the pass is
    freeDevs,   \* freeDevs[n]: the free view of node n; read from nodes, then less the active jobs
    freeUp,     \* the nodes of that view
    decisions,  \* decisions not written yet
    \* agents
    agentUp,    \* nodes whose agent is registered and running
    poll,       \* poll[n]: how far the agent's poll is
    pollRun,    \* pollRun[n]: assignments of the answer not started yet
    pollCancel, \* pollCancel[n]: cancellations of the answer not delivered yet
    exec,       \* exec[j]: the executor's runningJob entry and goroutine for j
    orphans,    \* jobs with a process left behind by a crashed agent
    \* faults so far
    lost, crashes, restarts,
    unsaid      \* history: jobs with an end whose event was not recorded

storeVars == <<state, alloc, up, inv, events>>
schedVars == <<schedPc, freeDevs, freeUp, decisions>>
agentVars == <<agentUp, poll, pollRun, pollCancel, exec, orphans>>
faultVars == <<lost, crashes, restarts, unsaid>>
vars == <<storeVars, schedVars, agentVars, faultVars>>

-----------------------------------------------------------------------------
(* Types *)

Terminal == {"COMPLETED", "FAILED", "CANCELLED", "TIMEOUT"}
Active   == {"ASSIGNED", "RUNNING"}       \* the states ListActiveJobs selects
States   == {"NONE", "PENDING", "CANCELLING"} \cup Active \cup Terminal

Placements == [node : Nodes \cup {NoNode}, devs : SUBSET Devices]
Decisions  == [job : Jobs, node : Nodes, devs : SUBSET Devices]

EventTypes == {"job.completed", "job.failed"}

\* Where the goroutine executor.run is:
\*   none       the job is not in the running map
\*   entered    in the map, rj.cancel still nil
\*   ready      rj.cancel set, process not started
\*   launched   process started, RUNNING not reported yet
\*   waiting    walltime timer and context watcher armed, cmd.Wait
\*   exited     outcome classified, not reported yet
\*   finishing  FinishJob committed, emitJobEvent still to run
\*   done       report returned, entry still in the map
ExecPcs == {"none", "entered", "ready", "launched", "waiting", "exited", "finishing", "done"}
Procs   == {"none", "alive", "ok", "err"}

Runnings == [pc : ExecPcs, killReason : {"", "cancel"}, ctxDone : BOOLEAN,
             timedOut : BOOLEAN, proc : Procs, result : Terminal \cup {""}]

NotRunning == [pc |-> "none", killReason |-> "", ctxDone |-> FALSE,
               timedOut |-> FALSE, proc |-> "none", result |-> ""]

TypeOK ==
    /\ state \in [Jobs -> States]
    /\ alloc \in [Jobs -> Placements]
    /\ up \in SUBSET Nodes
    /\ inv \in [Nodes -> SUBSET Devices]
    /\ events \in [Jobs -> SUBSET EventTypes]
    /\ schedPc \in {"idle", "nodes", "active", "assign"}
    /\ freeDevs \in [Nodes -> SUBSET Devices]
    /\ freeUp \in SUBSET Nodes
    /\ decisions \in SUBSET Decisions
    /\ agentUp \in SUBSET Nodes
    /\ poll \in [Nodes -> {"idle", "reading", "reply"}]
    /\ pollRun \in [Nodes -> SUBSET Jobs]
    /\ pollCancel \in [Nodes -> SUBSET Jobs]
    /\ exec \in [Jobs -> Runnings]
    /\ orphans \in SUBSET Jobs
    /\ lost \in 0..MaxLost /\ crashes \in 0..MaxCrashes /\ restarts \in 0..MaxRestarts
    /\ unsaid \in SUBSET Jobs

Init ==
    /\ state = [j \in Jobs |-> "NONE"]
    /\ alloc = [j \in Jobs |-> [node |-> NoNode, devs |-> {}]]
    /\ up = {}
    /\ inv = [n \in Nodes |-> {}]
    /\ events = [j \in Jobs |-> {}]
    /\ schedPc = "idle"
    /\ freeDevs = [n \in Nodes |-> {}]
    /\ freeUp = {}
    /\ decisions = {}
    /\ agentUp = {}
    /\ poll = [n \in Nodes |-> "idle"]
    /\ pollRun = [n \in Nodes |-> {}]
    /\ pollCancel = [n \in Nodes |-> {}]
    /\ exec = [j \in Jobs |-> NotRunning]
    /\ orphans = {}
    /\ lost = 0 /\ crashes = 0 /\ restarts = 0
    /\ unsaid = {}

-----------------------------------------------------------------------------
(* The clients' calls *)

SubmitJob(j) ==
    /\ state[j] = "NONE"
    /\ state' = [state EXCEPT ![j] = "PENDING"]
    /\ UNCHANGED <<alloc, up, inv, events, schedVars, agentVars, faultVars>>

\* One transaction: a queued job is cancelled at once, an assigned or running
\* one is marked for its agent, any other is left as it is.
CancelJob(j) ==
    /\ \/ /\ state[j] = "PENDING"
          /\ state' = [state EXCEPT ![j] = "CANCELLED"]
       \/ /\ state[j] \in Active
          /\ state' = [state EXCEPT ![j] = "CANCELLING"]
    /\ UNCHANGED <<alloc, up, inv, events, schedVars, agentVars, faultVars>>

-----------------------------------------------------------------------------
(* The node table as the scheduler sees it *)

\* An agent process comes up and registers; the row of its name keeps its id.
AgentStart(n) ==
    /\ n \notin agentUp
    /\ agentUp' = agentUp \cup {n}
    /\ up' = up \cup {n}
    /\ \E D \in Inventories : inv' = [inv EXCEPT ![n] = D]
    /\ UNCHANGED <<state, alloc, events, schedVars, poll, pollRun, pollCancel,
                   exec, orphans, faultVars>>

Heartbeat(n) ==
    /\ n \in agentUp
    /\ up' = up \cup {n}
    /\ \E D \in Inventories : inv' = [inv EXCEPT ![n] = D]
    /\ UNCHANGED <<state, alloc, events, schedVars, agentVars, faultVars>>

\* The reaper marks a node whose heartbeats did not arrive in time.
MarkStaleDown(n) ==
    /\ n \in up
    /\ up' = up \ {n}
    /\ UNCHANGED <<state, alloc, inv, events, schedVars, agentVars, faultVars>>

-----------------------------------------------------------------------------
(* The scheduler's pass *)

\* Mutant: an assigned job counts only once it runs.
ListActiveJobs_onlyRunning == {j \in Jobs : state[j] = "RUNNING"}

ListActiveJobs == {j \in Jobs : state[j] \in Active}

OnNode(j, n) == alloc[j].node = n

\* The view is local to the pass and dead once Plan has returned.
DropView == freeDevs' = [n \in Nodes |-> {}] /\ freeUp' = {}

ReadNodes ==
    /\ schedPc = "idle"
    /\ schedPc' = "nodes"
    /\ freeUp' = up
    /\ freeDevs' = inv
    /\ UNCHANGED <<decisions, storeVars, agentVars, faultVars>>

\* buildFree: a device key that any active job of the node has is not free.
ReadActive ==
    /\ schedPc = "nodes"
    /\ schedPc' = "active"
    /\ freeDevs' = [n \in Nodes |->
          {d \in freeDevs[n] : \A j \in ListActiveJobs : OnNode(j, n) => d \notin alloc[j].devs}]
    /\ UNCHANGED <<freeUp, decisions, storeVars, agentVars, faultVars>>

\* What Plan promises of its result for this view and these pending jobs: at
\* most one decision for a job, on an UP node of the view, with as many free
\* devices as the job asks for, and no device handed out twice.
PlanOutcomes(pending) ==
    {P \in SUBSET {d \in Decisions : /\ d.job \in pending
                                     /\ d.node \in freeUp
                                     /\ d.devs \subseteq freeDevs[d.node]
                                     /\ Cardinality(d.devs) = ReqGPUs[d.job]} :
        \A d, e \in P : d # e => /\ d.job # e.job
                                 /\ d.node = e.node => d.devs \cap e.devs = {}}

ReadPendingAndPlan ==
    /\ schedPc = "active"
    /\ \E P \in PlanOutcomes({j \in Jobs : state[j] = "PENDING"}) :
          /\ decisions' = P
          /\ schedPc' = IF P = {} THEN "idle" ELSE "assign"
    /\ DropView
    /\ UNCHANGED <<storeVars, agentVars, faultVars>>

\* A read of the pass fails: the pass is given up until the next tick.
PassAborts ==
    /\ schedPc \in {"nodes", "active"}
    /\ schedPc' = "idle"
    /\ DropView
    /\ UNCHANGED <<decisions, storeVars, agentVars, faultVars>>

\* The row is written only if the job is still PENDING; else the decision is
\* dropped and the pass goes on with the next one.
AssignJob(d) ==
    /\ schedPc = "assign"
    /\ d \in decisions
    /\ decisions' = decisions \ {d}
    /\ schedPc' = IF decisions = {d} THEN "idle" ELSE "assign"
    /\ IF state[d.job] = "PENDING"
          THEN /\ state' = [state EXCEPT ![d.job] = "ASSIGNED"]
               /\ alloc' = [alloc EXCEPT ![d.job] = [node |-> d.node, devs |-> d.devs]]
          ELSE UNCHANGED <<state, alloc>>
    /\ UNCHANGED <<freeDevs, freeUp, up, inv, events, agentVars, faultVars>>

-----------------------------------------------------------------------------
(* The agent's poll loop *)

ListJobsByNodeState(n, s) == {j \in Jobs : OnNode(j, n) /\ state[j] = s}

PollAssigned(n) ==
    /\ n \in agentUp
    /\ poll[n] = "idle"
    /\ poll' = [poll EXCEPT ![n] = "reading"]
    /\ pollRun' = [pollRun EXCEPT ![n] = ListJobsByNodeState(n, "ASSIGNED")]
    /\ UNCHANGED <<agentUp, pollCancel, exec, orphans, storeVars, schedVars, faultVars>>

PollCancelling(n) ==
    /\ poll[n] = "reading"
    /\ poll' = [poll EXCEPT ![n] = "reply"]
    /\ pollCancel' = [pollCancel EXCEPT ![n] = ListJobsByNodeState(n, "CANCELLING")]
    /\ UNCHANGED <<agentUp, pollRun, exec, orphans, storeVars, schedVars, faultVars>>

\* The call fails: the agent waits for the next tick.
PollFails(n) ==
    /\ poll[n] = "reading"
    /\ lost < MaxLost
    /\ lost' = lost + 1
    /\ poll' = [poll EXCEPT ![n] = "idle"]
    /\ pollRun' = [pollRun EXCEPT ![n] = {}]
    /\ UNCHANGED <<agentUp, pollCancel, exec, orphans, storeVars, schedVars, crashes, restarts,
                   unsaid>>

\* executor.start: a job that is in the running map is ignored.
StartJob(n, j) ==
    /\ poll[n] = "reply"
    /\ j \in pollRun[n]
    /\ pollRun' = [pollRun EXCEPT ![n] = @ \ {j}]
    /\ exec' = IF exec[j].pc = "none"
                  THEN [exec EXCEPT ![j] = [NotRunning EXCEPT !.pc = "entered"]]
                  ELSE exec
    /\ UNCHANGED <<agentUp, poll, pollCancel, orphans, storeVars, schedVars, faultVars>>

\* What the unsynchronised read of rj.cancel can see: nil before the goroutine
\* wrote it, either value right after, the function once the process started.
SeesCancelFunc(j) ==
    IF exec[j].pc = "entered" THEN {FALSE}
    ELSE IF exec[j].pc = "ready" THEN BOOLEAN ELSE {TRUE}

\* The entry's kill reason and context are read until the outcome is classified.
CancelMatters(j) == exec[j].pc \in {"entered", "ready", "launched", "waiting"}

\* Mutant: cancellations are delivered before the starts of the same answer.
CancelOnAgent_beforeStarts(n, j) ==
    /\ poll[n] = "reply"
    /\ j \in pollCancel[n]
    /\ pollCancel' = [pollCancel EXCEPT ![n] = @ \ {j}]
    /\ \/ /\ CancelMatters(j)
          /\ \E seen \in SeesCancelFunc(j) :
                exec' = [exec EXCEPT ![j].killReason = "cancel", ![j].ctxDone = @ \/ seen]
       \/ ~CancelMatters(j) /\ UNCHANGED exec
    /\ UNCHANGED <<agentUp, poll, pollRun, orphans, storeVars, schedVars, faultVars>>

\* Mutant: a job that has its kill reason already is not cancelled again.
CancelOnAgent_once(n, j) ==
    /\ poll[n] = "reply"
    /\ pollRun[n] = {}
    /\ j \in pollCancel[n]
    /\ pollCancel' = [pollCancel EXCEPT ![n] = @ \ {j}]
    /\ \/ /\ CancelMatters(j) /\ exec[j].killReason = ""
          /\ \E seen \in SeesCancelFunc(j) :
                exec' = [exec EXCEPT ![j].killReason = "cancel", ![j].ctxDone = @ \/ seen]
       \/ ~(CancelMatters(j) /\ exec[j].killReason = "") /\ UNCHANGED exec
    /\ UNCHANGED <<agentUp, poll, pollRun, orphans, storeVars, schedVars, faultVars>>

\* executor.cancel, after every start of the same answer; a job that is not in
\* the map is ignored.
CancelOnAgent(n, j) ==
    /\ poll[n] = "reply"
    /\ pollRun[n] = {}
    /\ j \in pollCancel[n]
    /\ pollCancel' = [pollCancel EXCEPT ![n] = @ \ {j}]
    /\ \/ /\ CancelMatters(j)
          /\ \E seen \in SeesCancelFunc(j) :
                exec' = [exec EXCEPT ![j].killReason = "cancel", ![j].ctxDone = @ \/ seen]
       \/ ~CancelMatters(j) /\ UNCHANGED exec
    /\ UNCHANGED <<agentUp, poll, pollRun, orphans, storeVars, schedVars, faultVars>>

PollDone(n) ==
    /\ poll[n] = "reply"
    /\ pollRun[n] = {} /\ pollCancel[n] = {}
    /\ poll' = [poll EXCEPT ![n] = "idle"]
    /\ UNCHANGED <<agentUp, pollRun, pollCancel, exec, orphans, storeVars, schedVars, faultVars>>

-----------------------------------------------------------------------------
(* The goroutine executor.run of job j *)

SetCancelFunc(j) ==
    /\ exec[j].pc = "entered"
    /\ exec' = [exec EXCEPT ![j].pc = "ready"]
    /\ UNCHANGED <<agentUp, poll, pollRun, pollCancel, orphans, storeVars, schedVars, faultVars>>

Launch(j) ==
    /\ exec[j].pc = "ready"
    /\ exec' = [exec EXCEPT ![j].pc = "launched", ![j].proc = "alive"]
    /\ UNCHANGED <<agentUp, poll, pollRun, pollCancel, orphans, storeVars, schedVars, faultVars>>

\* Mutant: the failure is reported without a state.
LaunchFails_noState(j) ==
    /\ exec[j].pc = "ready"
    /\ exec' = [exec EXCEPT ![j] = [NotRunning EXCEPT !.pc = "exited"]]
    /\ UNCHANGED <<agentUp, poll, pollRun, pollCancel, orphans, storeVars, schedVars, faultVars>>

\* The working directory, the pipe or the process cannot be created.
LaunchFails(j) ==
    /\ exec[j].pc = "ready"
    /\ exec' = [exec EXCEPT ![j] = [NotRunning EXCEPT !.pc = "exited", !.result = "FAILED"]]
    /\ UNCHANGED <<agentUp, poll, pollRun, pollCancel, orphans, storeVars, schedVars, faultVars>>

\* Mutant: any row becomes RUNNING.
MarkJobRunning_unguarded(j) == state' = [state EXCEPT ![j] = "RUNNING"]

\* MarkJobRunning: only an ASSIGNED row becomes RUNNING.
MarkJobRunning(j) ==
    state' = IF state[j] = "ASSIGNED" THEN [state EXCEPT ![j] = "RUNNING"] ELSE state

\* The executor reports RUNNING and, when the call returns, arms the timer and
\* the context watcher.  A failed call is logged and not repeated.
ReportRunning(j) ==
    /\ exec[j].pc = "launched"
    /\ exec' = [exec EXCEPT ![j].pc = "waiting"]
    /\ \/ MarkJobRunning(j) /\ UNCHANGED lost
       \/ lost < MaxLost /\ lost' = lost + 1 /\ UNCHANGED state
    /\ UNCHANGED <<alloc, up, inv, events, agentUp, poll, pollRun, pollCancel, orphans,
                   schedVars, crashes, restarts, unsaid>>

\* The process ends by itself.
ProcExits(j) ==
    /\ exec[j].proc = "alive"
    /\ \E how \in {"ok", "err"} : exec' = [exec EXCEPT ![j].proc = how]
    /\ UNCHANGED <<agentUp, poll, pollRun, pollCancel, orphans, storeVars, schedVars, faultVars>>

\* The walltime timer; it stays armed until run returns.
WalltimeExpires(j) ==
    /\ j \in Walltimed
    /\ exec[j].pc = "waiting"
    /\ exec' = [exec EXCEPT ![j].timedOut = TRUE]
    /\ UNCHANGED <<agentUp, poll, pollRun, pollCancel, orphans, storeVars, schedVars, faultVars>>

\* Mutant: the timer sets its flag and kills nothing.
KillGroup_onCancelOnly(j) ==
    /\ exec[j].pc = "waiting"
    /\ exec[j].ctxDone
    /\ exec[j].proc = "alive"
    /\ \E how \in {"ok", "err"} : exec' = [exec EXCEPT ![j].proc = how]
    /\ UNCHANGED <<agentUp, poll, pollRun, pollCancel, orphans, storeVars, schedVars, faultVars>>

\* SIGTERM and, after the grace period, SIGKILL end the process group.
KillGroup(j) ==
    /\ exec[j].pc = "waiting"
    /\ exec[j].ctxDone \/ exec[j].timedOut
    /\ exec[j].proc = "alive"
    /\ \E how \in {"ok", "err"} : exec' = [exec EXCEPT ![j].proc = how]
    /\ UNCHANGED <<agentUp, poll, pollRun, pollCancel, orphans, storeVars, schedVars, faultVars>>

\* An error of Wait that is not an exit status comes before everything else.
Classify(r, waitBroken) == IF waitBroken THEN "FAILED"
                           ELSE IF r.killReason = "cancel" THEN "CANCELLED"
                           ELSE IF r.timedOut THEN "TIMEOUT"
                           ELSE IF r.proc = "ok" THEN "COMPLETED" ELSE "FAILED"

\* Mutant: a job that ran out of time returns without a report.
WaitReturns_silentTimeout(j) ==
    /\ exec[j].pc = "waiting"
    /\ exec[j].proc \in {"ok", "err"}
    /\ exec' = [exec EXCEPT ![j] = [NotRunning EXCEPT
                   !.pc = IF exec[j].timedOut THEN "done" ELSE "exited",
                   !.result = Classify(exec[j], FALSE)]]
    /\ UNCHANGED <<agentUp, poll, pollRun, pollCancel, orphans, storeVars, schedVars, faultVars>>

\* cmd.Wait has returned.
WaitReturns(j) ==
    /\ exec[j].pc = "waiting"
    /\ exec[j].proc \in {"ok", "err"}
    /\ \E waitBroken \in BOOLEAN :
          exec' = [exec EXCEPT ![j] = [NotRunning EXCEPT !.pc = "exited",
                                          !.result = Classify(exec[j], waitBroken)]]
    /\ UNCHANGED <<agentUp, poll, pollRun, pollCancel, orphans, storeVars, schedVars, faultVars>>

\* FinishJob: the row is overwritten whatever its state is.
FinishJob(j, s) == state' = [state EXCEPT ![j] = s]

\* UpdateJobStatus with a terminal state: FinishJob, and the event afterwards,
\* which a CANCELLED job does not have.  A failed call is not repeated.
ReportTerminal(j) ==
    /\ exec[j].pc = "exited"
    /\ \/ /\ FinishJob(j, exec[j].result)
          /\ exec' = [exec EXCEPT ![j].pc =
                         IF exec[j].result = "CANCELLED" THEN "done" ELSE "finishing"]
          /\ UNCHANGED lost
       \/ /\ lost < MaxLost /\ lost' = lost + 1
          /\ exec' = [exec EXCEPT ![j].pc = "done"]
          /\ UNCHANGED state
    /\ UNCHANGED <<alloc, up, inv, events, agentUp, poll, pollRun, pollCancel, orphans,
                   schedVars, crashes, restarts, unsaid>>

EventType(s) == IF s = "COMPLETED" THEN "job.completed" ELSE "job.failed"

\* Mutant: a timeout has no event.
EmitJobEvent_noTimeout(j) ==
    /\ exec[j].pc = "finishing"
    /\ exec' = [exec EXCEPT ![j].pc = "done"]
    /\ \/ /\ events' = IF exec[j].result = "TIMEOUT" THEN events
                        ELSE [events EXCEPT ![j] = @ \cup {EventType(exec[j].result)}]
          /\ UNCHANGED <<lost, unsaid>>
       \/ /\ lost < MaxLost /\ lost' = lost + 1
          /\ unsaid' = unsaid \cup {j}
          /\ UNCHANGED events
    /\ UNCHANGED <<state, alloc, up, inv, agentUp, poll, pollRun, pollCancel, orphans,
                   schedVars, crashes, restarts>>

\* The job is read again and its event stored.  When the read or the insert
\* fails there is no event, and the report is answered all the same.
EmitJobEvent(j) ==
    /\ exec[j].pc = "finishing"
    /\ exec' = [exec EXCEPT ![j].pc = "done"]
    /\ \/ /\ events' = [events EXCEPT ![j] = @ \cup {EventType(exec[j].result)}]
          /\ UNCHANGED <<lost, unsaid>>
       \/ /\ lost < MaxLost /\ lost' = lost + 1
          /\ unsaid' = unsaid \cup {j}
          /\ UNCHANGED events
    /\ UNCHANGED <<state, alloc, up, inv, agentUp, poll, pollRun, pollCancel, orphans,
                   schedVars, crashes, restarts>>

\* Mutant: the entry is deleted on the path of a successful job only.
RunReturns_onSuccess(j) ==
    /\ exec[j].pc = "done"
    /\ exec[j].result = "COMPLETED"
    /\ exec' = [exec EXCEPT ![j] = NotRunning]
    /\ UNCHANGED <<agentUp, poll, pollRun, pollCancel, orphans, storeVars, schedVars, faultVars>>

\* The deferred delete of the map entry.
RunReturns(j) ==
    /\ exec[j].pc = "done"
    /\ exec' = [exec EXCEPT ![j] = NotRunning]
    /\ UNCHANGED <<agentUp, poll, pollRun, pollCancel, orphans, storeVars, schedVars, faultVars>>

-----------------------------------------------------------------------------
(* Faults *)

\* The agent dies: its map and goroutines are gone, the processes, which are
\* in groups of their own, stay.  A status call the server is working on is
\* broken off, so the event of a finished job may or may not be recorded.
AgentCrash(n) ==
    /\ n \in agentUp
    /\ crashes < MaxCrashes
    /\ crashes' = crashes + 1
    /\ agentUp' = agentUp \ {n}
    /\ poll' = [poll EXCEPT ![n] = "idle"]
    /\ pollRun' = [pollRun EXCEPT ![n] = {}]
    /\ pollCancel' = [pollCancel EXCEPT ![n] = {}]
    /\ orphans' = orphans \cup {j \in Jobs : OnNode(j, n) /\ exec[j].proc = "alive"}
    /\ exec' = [j \in Jobs |-> IF OnNode(j, n) THEN NotRunning ELSE exec[j]]
    /\ \E E \in SUBSET {j \in Jobs : OnNode(j, n) /\ exec[j].pc = "finishing"} :
          /\ events' = [j \in Jobs |-> IF j \in E THEN events[j] \cup {EventType(exec[j].result)}
                                       ELSE events[j]]
          /\ unsaid' = unsaid \cup ({j \in Jobs : OnNode(j, n) /\ exec[j].pc = "finishing"} \ E)
    /\ UNCHANGED <<state, alloc, up, inv, schedVars, lost, restarts>>

OrphanExits(j) ==
    /\ j \in orphans
    /\ orphans' = orphans \ {j}
    /\ UNCHANGED <<agentUp, poll, pollRun, pollCancel, exec, storeVars, schedVars, faultVars>>

\* The control plane restarts: the tables stay; a pass, a poll being answered
\* and a status call between FinishJob and its event are broken off.
ServerRestart ==
    /\ restarts < MaxRestarts
    /\ restarts' = restarts + 1
    /\ schedPc' = "idle"
    /\ decisions' = {}
    /\ poll' = [n \in Nodes |-> IF poll[n] = "reading" THEN "idle" ELSE poll[n]]
    /\ pollRun' = [n \in Nodes |-> IF poll[n] = "reading" THEN {} ELSE pollRun[n]]
    /\ exec' = [j \in Jobs |-> IF exec[j].pc = "finishing"
                                  THEN [exec[j] EXCEPT !.pc = "done"] ELSE exec[j]]
    /\ unsaid' = unsaid \cup {j \in Jobs : exec[j].pc = "finishing"}
    /\ DropView
    /\ UNCHANGED <<storeVars, agentUp, pollCancel, orphans, lost, crashes>>

-----------------------------------------------------------------------------

ClientStep(j) == SubmitJob(j) \/ CancelJob(j)

NodeStep(n) == AgentStart(n) \/ Heartbeat(n) \/ MarkStaleDown(n)

PassStep == \/ ReadNodes \/ ReadActive \/ ReadPendingAndPlan \/ PassAborts
            \/ \E d \in decisions : AssignJob(d)

PollStep(n) == \/ PollAssigned(n) \/ PollCancelling(n) \/ PollDone(n)
               \/ \E j \in Jobs : StartJob(n, j) \/ CancelOnAgent(n, j)

RunStep(j) == \/ SetCancelFunc(j) \/ Launch(j) \/ LaunchFails(j) \/ ReportRunning(j)
              \/ WaitReturns(j) \/ ReportTerminal(j) \/ EmitJobEvent(j) \/ RunReturns(j)

ProcStep(j) == ProcExits(j) \/ WalltimeExpires(j) \/ KillGroup(j)

FaultStep == \/ \E n \in Nodes : PollFails(n) \/ AgentCrash(n)
             \/ \E j \in Jobs : OrphanExits(j)
             \/ ServerRestart

Next == \/ \E j \in Jobs : ClientStep(j) \/ RunStep(j) \/ ProcStep(j)
        \/ \E n \in Nodes : NodeStep(n) \/ PollStep(n)
        \/ PassStep
        \/ FaultStep

Spec == Init /\ [][Next]_vars

\* The ticker of every running agent keeps polling and a goroutine that can
\* step does; a signalled process dies (SIGKILL); a node without a live agent
\* is reaped.  Nothing is assumed of clients, of the processes' own exit, of
\* heartbeats, of the scheduler, or of agents coming back after a crash.  That
\* the walltime timer fires is a premise of the properties that need it.
Fairness ==
    /\ \A n \in Nodes : WF_vars(PollStep(n)) /\ WF_vars(n \notin agentUp /\ MarkStaleDown(n))
    /\ \A j \in Jobs : WF_vars(RunStep(j)) /\ WF_vars(KillGroup(j))

FairSpec == Spec /\ Fairness

-----------------------------------------------------------------------------
(* Safety *)

\* No two ASSIGNED or RUNNING jobs of a node hold the same device, although the
\* scheduler works from three separate reads and writes its decisions later
\* (scheduler.pass, Plan, AssignJob).
DeviceExclusive ==
    \A j, k \in Jobs :
        /\ j # k
        /\ state[j] \in Active /\ state[k] \in Active
        /\ alloc[j].node = alloc[k].node
        => alloc[j].devs \cap alloc[k].devs = {}

\* While no call was lost and no agent died, a job the table shows as RUNNING
\* is watched by a goroutine that will still report its end (executor.run).
RunningIsWatched ==
    lost = 0 /\ crashes = 0 =>
        \A j \in Jobs : state[j] = "RUNNING" => exec[j].pc \in {"waiting", "exited"}

\* No agent works on a job shown as CANCELLED, or is about to: neither a
\* decision, an answer to a poll nor a goroutine from before the cancellation
\* brings it back (CancelJob, pollLoop, executor.start and cancel).  The only
\* processes it can have are orphans: those a crashed agent left behind, which
\* nobody watches or kills.
CancelledIsDropped ==
    \A j \in Jobs : state[j] = "CANCELLED" =>
        /\ exec[j].pc \in {"none", "done"} /\ exec[j].proc # "alive"
        /\ \A n \in Nodes : j \notin pollRun[n]

\* A job that ended other than by cancellation has the event of its last outcome
\* once the handler that wrote the row is through, also when it ran and ended
\* twice.  What can leave an end without its event is that the handler is broken
\* off after the write, by a crash or a restart, or that a statement of the event
\* fails (UpdateJobStatus, emitJobEvent).
EndIsAnnounced ==
    \A j \in Jobs \ unsaid :
        state[j] \in Terminal \ {"CANCELLED"} /\ exec[j].pc # "finishing"
            => (IF state[j] = "COMPLETED" THEN "job.completed" ELSE "job.failed") \in events[j]

-----------------------------------------------------------------------------
(* Refinement: the table's rows as an allocation of devices *)

PhaseOf(s) == IF s = "NONE" THEN "absent"
              ELSE IF s = "PENDING" THEN "queued"
              ELSE IF s \in Active THEN "holding" ELSE "done"

Ledger == INSTANCE Allocation WITH
              phase <- [j \in Jobs |-> PhaseOf(state[j])],
              grant <- [j \in Jobs |-> {alloc[j].node} \X alloc[j].devs]

\* The job table implements the allocation of devices: devices are granted from
\* those nobody holds and released once, and neither a late RUNNING report nor
\* a stale decision gives a job devices again (AssignJob, MarkJobRunning,
\* CancelJob, FinishJob).
AllocationRefined == Ledger!AllocSpec

-----------------------------------------------------------------------------
(* Liveness *)

\* The runtime fires the walltime timer of a job that keeps running (time.AfterFunc).
TimerFires(j) == WF_vars(WalltimeExpires(j))

\* A job with a walltime that is assigned to a live agent leaves ASSIGNED, even
\* when the calls that report it fail a bounded number of times
\* (PollAssignments, executor.start, the deferred delete of executor.run).
AssignedIsPickedUp ==
    \A j \in Walltimed : TimerFires(j) => \A n \in Nodes :
        (state[j] = "ASSIGNED" /\ OnNode(j, n) /\ n \in agentUp)
            ~> (state[j] # "ASSIGNED" \/ n \notin agentUp)

\* A running job that has a walltime ends, as long as no call is lost and no
\* agent dies; a restart of the control plane does not prevent it
\* (executor.run, the walltime timer, killGroup, UpdateJobStatus).
RunningEnds ==
    \A j \in Walltimed : TimerFires(j) =>
        (state[j] = "RUNNING" ~> (state[j] \in Terminal \/ lost > 0 \/ crashes > 0))

\* The cancellation of a job its executor knows takes effect, although the first
\* attempt may find no cancel function and the control plane may restart, as
\* long as no call is lost and no agent dies (executor.cancel, pollLoop).
CancelTakesEffect ==
    \A j \in Jobs : (state[j] = "CANCELLING" /\ exec[j].pc # "none")
                       ~> (state[j] \in Terminal \/ lost > 0 \/ crashes > 0)

-----------------------------------------------------------------------------
(* What the documentation says and the code does not do *)

\* Every cancellation ends (docs/SCHEDULER.md: RUNNING --> CANCELLED).
CancellingEnds == \A j \in Jobs : state[j] = "CANCELLING" ~> state[j] \in Terminal

\* Live processes of different jobs do not see the same device: a job sees
\* only the devices it was given (executor.buildEnv) and the scheduler counts
\* what occupies resources (store.ListActiveJobs).
LiveProcessesIsolated ==
    \A j, k \in Jobs :
        /\ j # k
        /\ exec[j].proc = "alive" /\ exec[k].proc = "alive"
        /\ alloc[j].node = alloc[k].node
        => alloc[j].devs \cap alloc[k].devs = {}
=============================================================================
