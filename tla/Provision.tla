----------------------------- MODULE Provision ------------------------------
(***************************************************************************)
(* One node that is reached over SSH: the tunnel with its reverse          *)
(* listener, the goroutine that distributes and launches the agent once    *)
(* the tunnel is ready, and the diagnoses of a silent node, which may      *)
(* provision it again.  Both provision through transport.Provision, each   *)
(* over an SSH connection of its own.                                      *)
(*                                                                         *)
(* There is no clock: backoffs, keepalives and cooldowns are the time      *)
(* until the next step.                                                    *)
(***************************************************************************)
EXTENDS Integers, FiniteSets

CONSTANTS Boot,         \* the goroutine of provisionWhenReady
          Diags,        \* the goroutines of diagnoser.run
          Pids,         \* bound: process ids of agents on the node
          NoPid,        \* no process, or one that is no agent
          AutoRestart,  \* auto_restart of the node
          MaxDeaths,    \* bound: deaths of agents
          MaxOutages,   \* bound: times sshd becomes unreachable
          MaxCuts,      \* bound: tunnels that are cut
          MaxFailures,  \* bound: sessions that fail for other reasons
          MaxRestarts   \* bound: restarts of the control plane

ASSUME ProvisionAssumption ==
    /\ Boot \notin Diags /\ NoPid \notin Pids
    /\ AutoRestart \in BOOLEAN
    /\ MaxDeaths \in Nat /\ MaxOutages \in Nat /\ MaxCuts \in Nat
    /\ MaxFailures \in Nat /\ MaxRestarts \in Nat

Provisioners == {Boot} \cup Diags

VARIABLES
    procFS,    \* whether the node has a /proc to scan, which never changes
    sshd,      \* whether the node's sshd can be dialled
    tunnel,    \* SSHTunnel.Run: "dead" while a cut is not noticed
    listener,  \* who holds the reverse listener's port on the node
    ready,     \* whether the channel of Ready is closed
    pc,        \* where each provisioner is
    agents,    \* the agent processes that run on the node
    pidFile,   \* the process id in the pid file
    hb,        \* the node's heartbeat as the reaper sees it
    verdict,   \* verdict[d]: the conclusion of d's diagnosis
    deaths, outages, cuts, failures, restarts

tunnelVars == <<tunnel, listener, ready>>
nodeVars   == <<agents, pidFile>>
provBounds == <<deaths, outages, cuts, failures, restarts>>
provVars   == <<procFS, sshd, tunnelVars, pc, nodeVars, hb, verdict, provBounds>>

Verdicts == {"none", "ssh-down", "agent-killed", "unknown", "running"}

Sending == {"dial", "upload", "writing", "launch"}

\* Only the boot goroutine waits, retries and comes to an end.
ProvTypeOK ==
    /\ procFS \in BOOLEAN /\ sshd \in BOOLEAN
    /\ tunnel \in {"idle", "dialed", "serving", "dead"}
    /\ listener \in {"none", "current", "stale"}
    /\ ready \in BOOLEAN
    /\ pc \in [Provisioners -> Sending \cup {"waiting", "backoff", "done", "off", "diagnose", "probe"}]
    /\ pc[Boot] \in Sending \cup {"waiting", "backoff", "done"}
    /\ \A d \in Diags : pc[d] \in Sending \cup {"off", "diagnose", "probe"}
    /\ agents \in SUBSET Pids
    /\ pidFile \in Pids \cup {NoPid}
    /\ hb \in {"none", "fresh", "silent"}
    /\ verdict \in [Diags -> Verdicts]
    /\ deaths \in 0..MaxDeaths /\ outages \in 0..MaxOutages /\ cuts \in 0..MaxCuts
    /\ failures \in 0..MaxFailures /\ restarts \in 0..MaxRestarts

Started == [p \in Provisioners |-> IF p = Boot THEN "waiting" ELSE "off"]

ProvInit ==
    /\ procFS \in BOOLEAN
    /\ sshd = TRUE
    /\ tunnel = "idle" /\ listener = "none" /\ ready = FALSE
    /\ pc = Started
    /\ agents = {} /\ pidFile = NoPid
    /\ hb = "none"
    /\ verdict = [d \in Diags |-> "none"]
    /\ deaths = 0 /\ outages = 0 /\ cuts = 0 /\ failures = 0 /\ restarts = 0

SessionFails == failures < MaxFailures /\ failures' = failures + 1

-----------------------------------------------------------------------------
(* The tunnel *)

\* serveOnce dials; a dial that fails leaves Run where it is.
TunnelDial ==
    /\ tunnel = "idle" /\ sshd
    /\ tunnel' = "dialed"
    /\ UNCHANGED <<procFS, sshd, listener, ready, pc, nodeVars, hb, verdict, provBounds>>

\* The listener is there: ready is closed, once, and the tunnel serves.
TunnelListen ==
    /\ tunnel = "dialed" /\ listener = "none"
    /\ tunnel' = "serving" /\ listener' = "current" /\ ready' = TRUE
    /\ UNCHANGED <<procFS, sshd, pc, nodeVars, hb, verdict, provBounds>>

\* The port is taken by the listener of an earlier connection: Run retries.
TunnelListenRefused ==
    /\ tunnel = "dialed" /\ listener = "stale"
    /\ tunnel' = "idle"
    /\ UNCHANGED <<procFS, sshd, listener, ready, pc, nodeVars, hb, verdict, provBounds>>

\* Mutant: the keepalive's goroutine ends and leaves the connection open.
Keepalive_leavesOpen ==
    /\ tunnel = "dead"
    /\ UNCHANGED provVars

\* A keepalive fails and closes the connection, so that Accept returns.
Keepalive ==
    /\ tunnel = "dead"
    /\ tunnel' = "idle"
    /\ UNCHANGED <<procFS, sshd, listener, ready, pc, nodeVars, hb, verdict, provBounds>>

\* The connection is cut; sshd still holds the port until it notices.
TunnelCut ==
    /\ tunnel = "serving" /\ cuts < MaxCuts
    /\ cuts' = cuts + 1
    /\ tunnel' = "dead" /\ listener' = "stale"
    /\ UNCHANGED <<procFS, sshd, ready, pc, nodeVars, hb, verdict, deaths, outages, failures, restarts>>

SshdFreesPort ==
    /\ listener = "stale"
    /\ listener' = "none"
    /\ UNCHANGED <<procFS, sshd, tunnel, ready, pc, nodeVars, hb, verdict, provBounds>>

SshdGone ==
    /\ sshd /\ outages < MaxOutages
    /\ outages' = outages + 1
    /\ sshd' = FALSE
    /\ UNCHANGED <<procFS, tunnelVars, pc, nodeVars, hb, verdict, deaths, cuts, failures, restarts>>

SshdBack ==
    /\ ~sshd
    /\ sshd' = TRUE
    /\ UNCHANGED <<procFS, tunnelVars, pc, nodeVars, hb, verdict, provBounds>>

-----------------------------------------------------------------------------
(* Provision *)

\* Mutant: the boot goroutine tries once.
Failed_bootGivesUp(p) == IF p = Boot THEN "done" ELSE "off"

\* What follows an error: another try after a backoff, or only a log line.
Failed(p) == IF p = Boot THEN "backoff" ELSE "off"

Succeeded(p) == IF p = Boot THEN "done" ELSE "off"

BootReady ==
    /\ pc[Boot] = "waiting" /\ ready
    /\ pc' = [pc EXCEPT ![Boot] = "dial"]
    /\ UNCHANGED <<procFS, sshd, tunnelVars, nodeVars, hb, verdict, provBounds>>

BootRetry ==
    /\ pc[Boot] = "backoff"
    /\ pc' = [pc EXCEPT ![Boot] = "dial"]
    /\ UNCHANGED <<procFS, sshd, tunnelVars, nodeVars, hb, verdict, provBounds>>

ProvisionDial(p) ==
    /\ pc[p] = "dial"
    /\ pc' = [pc EXCEPT ![p] = IF sshd THEN "upload" ELSE Failed(p)]
    /\ UNCHANGED <<procFS, sshd, tunnelVars, nodeVars, hb, verdict, provBounds>>

\* The remote scp opens the binary for writing, which a process that runs it
\* forbids; its error is the answer to the control line.
UploadBegin(p) ==
    /\ pc[p] = "upload" /\ agents = {}
    /\ pc' = [pc EXCEPT ![p] = "writing"]
    /\ UNCHANGED <<procFS, sshd, tunnelVars, nodeVars, hb, verdict, provBounds>>

\* Mutant: an answer of the remote scp is not read for its error.
UploadRefused_ignored(p) ==
    /\ pc[p] = "upload" /\ agents # {}
    /\ pc' = [pc EXCEPT ![p] = "launch"]
    /\ UNCHANGED <<procFS, sshd, tunnelVars, nodeVars, hb, verdict, provBounds>>

UploadRefused(p) ==
    /\ pc[p] = "upload" /\ agents # {}
    /\ pc' = [pc EXCEPT ![p] = Failed(p)]
    /\ UNCHANGED <<procFS, sshd, tunnelVars, nodeVars, hb, verdict, provBounds>>

UploadEnd(p) ==
    /\ pc[p] = "writing"
    /\ pc' = [pc EXCEPT ![p] = "launch"]
    /\ UNCHANGED <<procFS, sshd, tunnelVars, nodeVars, hb, verdict, provBounds>>

\* The transfer breaks off or takes longer than scpTimeout, or the session for
\* the launch cannot be opened.
ProvisionFails(p) ==
    /\ pc[p] \in {"writing", "launch"}
    /\ SessionFails
    /\ pc' = [pc EXCEPT ![p] = Failed(p)]
    /\ UNCHANGED <<procFS, sshd, tunnelVars, nodeVars, hb, verdict, deaths, outages, cuts, restarts>>

\* launchCommand puts the agent in the background and writes its process id;
\* the binary does not execute while another upload has it open, which the
\* command does not report.
LaunchOnNode(p) ==
    IF \E q \in Provisioners \ {p} : pc[q] = "writing"
    THEN pidFile' = NoPid /\ UNCHANGED agents
    ELSE \E pid \in Pids \ agents : pidFile' = pid /\ agents' = agents \cup {pid}

Launch(p) ==
    /\ pc[p] = "launch"
    /\ LaunchOnNode(p)
    /\ pc' = [pc EXCEPT ![p] = Succeeded(p)]
    /\ UNCHANGED <<procFS, sshd, tunnelVars, hb, verdict, provBounds>>

\* The command runs and the answer is lost.
LaunchLost(p) ==
    /\ pc[p] = "launch"
    /\ SessionFails
    /\ LaunchOnNode(p)
    /\ pc' = [pc EXCEPT ![p] = Failed(p)]
    /\ UNCHANGED <<procFS, sshd, tunnelVars, hb, verdict, deaths, outages, cuts, restarts>>

-----------------------------------------------------------------------------
(* Diagnosis *)

\* diagnoser.check: the node is in the table and has been silent long enough.
Trigger(d) ==
    /\ pc[d] = "off" /\ hb = "silent"
    /\ pc' = [pc EXCEPT ![d] = "diagnose"]
    /\ verdict' = [verdict EXCEPT ![d] = "none"]
    /\ UNCHANGED <<procFS, sshd, tunnelVars, nodeVars, hb, provBounds>>

\* aliveCommand: kill -0 on the pid file, then any command line of /proc that
\* contains the agent's path.  The shell that runs the command is a process of
\* the node as well, and the command, with the path in it, is its argument.
ScanFinds == agents \cup {"aliveCommand"}
AgentAlive == pidFile \in agents \/ (procFS /\ ScanFinds # {})

\* Mutant: a dead process is taken for some other cause.
Classify_blind(dialed, asked, alive) ==
    CASE ~dialed -> "ssh-down"
      [] dialed /\ ~asked -> "unknown"
      [] OTHER -> "running"

\* classify; "unknown" and "running" are the two cases of DiagOther.
Classify(dialed, asked, alive) ==
    CASE ~dialed -> "ssh-down"
      [] dialed /\ ~asked -> "unknown"
      [] dialed /\ asked /\ ~alive -> "agent-killed"
      [] OTHER -> "running"

\* diagnoser.run after Diagnose: the event, and a new agent where it was killed.
Conclude(d, v) ==
    /\ verdict' = [verdict EXCEPT ![d] = v]
    /\ pc' = [pc EXCEPT ![d] = IF v = "agent-killed" /\ AutoRestart THEN "dial" ELSE "off"]

DiagnoseDial(d) ==
    /\ pc[d] = "diagnose"
    /\ IF sshd
       THEN pc' = [pc EXCEPT ![d] = "probe"] /\ UNCHANGED verdict
       ELSE Conclude(d, Classify(FALSE, FALSE, FALSE))
    /\ UNCHANGED <<procFS, sshd, tunnelVars, nodeVars, hb, provBounds>>

Probe(d) ==
    /\ pc[d] = "probe"
    /\ Conclude(d, Classify(TRUE, TRUE, AgentAlive))
    /\ UNCHANGED <<procFS, sshd, tunnelVars, nodeVars, hb, provBounds>>

ProbeFails(d) ==
    /\ pc[d] = "probe"
    /\ SessionFails
    /\ Conclude(d, Classify(TRUE, FALSE, FALSE))
    /\ UNCHANGED <<procFS, sshd, tunnelVars, nodeVars, hb, deaths, outages, cuts, restarts>>

-----------------------------------------------------------------------------
(* The node and the control plane *)

\* Agents reach the control plane through the tunnel only.
Reachable == agents # {} /\ tunnel = "serving" /\ listener = "current"

AgentReports ==
    /\ Reachable
    /\ hb' = "fresh"
    /\ UNCHANGED <<procFS, sshd, tunnelVars, pc, nodeVars, verdict, provBounds>>

\* No report for after_down.
NodeGoesSilent ==
    /\ hb = "fresh" /\ ~Reachable
    /\ hb' = "silent"
    /\ UNCHANGED <<procFS, sshd, tunnelVars, pc, nodeVars, verdict, provBounds>>

AgentKilled ==
    /\ deaths < MaxDeaths
    /\ deaths' = deaths + 1
    /\ \E pid \in agents : agents' = agents \ {pid}
    /\ UNCHANGED <<procFS, sshd, tunnelVars, pc, pidFile, hb, verdict, outages, cuts, failures, restarts>>

\* Goroutines and connections are gone; the node table and the node stay.
ControlPlaneRestarts ==
    /\ restarts < MaxRestarts
    /\ restarts' = restarts + 1
    /\ tunnel' = "idle" /\ ready' = FALSE
    /\ listener' = IF listener = "current" THEN "stale" ELSE listener
    /\ pc' = Started
    /\ UNCHANGED <<procFS, sshd, nodeVars, hb, verdict, deaths, outages, cuts, failures>>

TunnelStep == TunnelDial \/ TunnelListen \/ TunnelListenRefused \/ Keepalive

ProvisionStep(p) ==
    \/ ProvisionDial(p) \/ UploadBegin(p) \/ UploadRefused(p) \/ UploadEnd(p)
    \/ ProvisionFails(p) \/ Launch(p) \/ LaunchLost(p)

BootStep == BootReady \/ BootRetry \/ ProvisionStep(Boot)

DiagStep(d) == Trigger(d) \/ DiagnoseDial(d) \/ Probe(d) \/ ProbeFails(d) \/ ProvisionStep(d)

NodeStep == AgentReports \/ NodeGoesSilent \/ AgentKilled

FaultStep == TunnelCut \/ SshdGone \/ ControlPlaneRestarts

ProvNext ==
    \/ TunnelStep \/ BootStep \/ (\E d \in Diags : DiagStep(d))
    \/ NodeStep \/ FaultStep \/ SshdFreesPort \/ SshdBack

ProvSpec == ProvInit /\ [][ProvNext]_provVars

\* The goroutines run, an sshd comes back and gives up a dead connection's port,
\* and an agent that can report does.
FairProvSpec ==
    /\ ProvSpec
    /\ WF_provVars(TunnelStep) /\ WF_provVars(BootStep)
    /\ \A d \in Diags : WF_provVars(DiagStep(d))
    /\ WF_provVars(SshdFreesPort) /\ WF_provVars(SshdBack)
    /\ WF_provVars(AgentReports) /\ WF_provVars(NodeGoesSilent)

-----------------------------------------------------------------------------
(* Properties *)

\* A node with a /proc never runs two agents under its name: retries, lost
\* answers to a launch and restarts of the control plane start no second one,
\* because the upload comes first and fails on a running binary (Provision,
\* provisionWhenReady).  Without a /proc a diagnosis and the boot goroutine can
\* both have uploaded before either launches.
AtMostOneAgent == procFS => Cardinality(agents) <= 1

\* Until it has launched an agent the boot goroutine brings a node without one
\* to have one, whatever fails on the way (provisionWhenReady, Provision).
BootServes == (agents = {} /\ pc[Boot] # "done") ~> agents # {}

\* A tunnel that is cut, by the network, by sshd or with the control plane, is
\* there again in the end, although its port may be taken for a while
\* (Run, serveOnce, keepalive).
TunnelRecovers == <>[](tunnel = "serving" /\ listener = "current")

\* Where the scan of /proc does not hide it, the death of an agent is seen and
\* it gets a successor, whatever fails on the way (Diagnose, diagnoser.run).
DeathIsRepaired == (~procFS /\ agents = {} /\ hb = "silent") ~> agents # {}

-----------------------------------------------------------------------------
(* What the docs say and the code does not do *)

\* A node of auto_restart whose agent was killed gets a new one
\* (docs/TRANSPORT.md, 4.1).
KilledIsRestarted == (agents = {} /\ hb = "silent") ~> agents # {}
=============================================================================
