-------------------------- MODULE ProvisionProofs ---------------------------
(***************************************************************************)
(* Theorems about Provision, for any number of diagnoses at a time, of     *)
(* processes, and of failures and restarts.                                *)
(***************************************************************************)
EXTENDS Provision, FiniteSetTheorems, TLAPS

\* Where a diagnosis that provisions nothing can be.
Diagnosing == {"off", "diagnose", "probe"}

\* On a node with a /proc no diagnosis concludes that the agent was killed, so
\* that only the boot goroutine uploads and launches.
OnlyBootProvisions ==
    procFS => \A d \in Diags : pc[d] \in Diagnosing /\ verdict[d] # "agent-killed"

\* Past the upload the binary is not running.
UploadedIsNotRunning ==
    procFS /\ pc[Boot] \in {"writing", "launch"} => agents = {}

\* One agent at most, as the steps of the proof use it.
OneAgent == procFS => agents = {} \/ \E pid \in Pids : agents = {pid}

ProvInv == ProvTypeOK /\ OnlyBootProvisions /\ UploadedIsNotRunning /\ OneAgent

\* A control plane starts with the boot goroutine waiting and no diagnosis.
LEMMA StartedIs ==
    /\ Started \in [Provisioners -> Sending \cup {"waiting", "backoff", "done", "off", "diagnose", "probe"}]
    /\ Started[Boot] = "waiting"
    /\ \A d \in Diags : Started[d] = "off"
  BY ProvisionAssumption DEF Started, Provisioners

\* At the start the node has no agent and nothing is under way.
LEMMA ProvInvInit == ProvInit => ProvInv
<1>1. SUFFICES ASSUME ProvInit PROVE ProvInv
  OBVIOUS
<1>2. ProvTypeOK
  <2>1. verdict \in [Diags -> Verdicts]
    BY <1>1 DEF ProvInit, Verdicts
  <2>2. /\ deaths \in 0..MaxDeaths /\ outages \in 0..MaxOutages /\ cuts \in 0..MaxCuts
        /\ failures \in 0..MaxFailures /\ restarts \in 0..MaxRestarts
    BY <1>1, ProvisionAssumption DEF ProvInit
  <2>3. procFS \in BOOLEAN /\ sshd \in BOOLEAN /\ ready \in BOOLEAN /\ pc = Started
    BY <1>1 DEF ProvInit
  <2>4. QED BY <1>1, <2>1, <2>2, <2>3, StartedIs DEF ProvInit, ProvTypeOK
<1>3. OnlyBootProvisions /\ UploadedIsNotRunning /\ OneAgent
  BY <1>1, ProvisionAssumption
  DEF ProvInit, OnlyBootProvisions, UploadedIsNotRunning, OneAgent, Started, Provisioners,
      Diagnosing
<1>4. QED BY <1>2, <1>3 DEF ProvInv

\* The shell that scans /proc finds itself: the probe never misses an agent.
LEMMA ScanNeverMisses ==
    ASSUME procFS = TRUE PROVE Classify(TRUE, TRUE, AgentAlive) = "running"
<1>1. AgentAlive = TRUE
  BY DEF AgentAlive, ScanFinds
<1>2. QED BY <1>1 DEF Classify

\* A step that moves no provisioner and starts no agent keeps the invariant.
LEMMA ProvisionersAlone ==
    ASSUME ProvInv, ProvTypeOK', procFS' = procFS, pc' = pc, verdict' = verdict,
           agents' = agents \/ \E pid \in agents : agents' = agents \ {pid}
    PROVE  ProvInv'
  BY DEF ProvInv, OnlyBootProvisions, UploadedIsNotRunning, OneAgent

\* Every step keeps the types.
LEMMA ProvTypeStep == ProvTypeOK /\ [ProvNext]_provVars => ProvTypeOK'
<1>1. SUFFICES ASSUME ProvTypeOK, [ProvNext]_provVars PROVE ProvTypeOK'
  OBVIOUS
<1> USE <1>1, ProvisionAssumption
<1>2. CASE TunnelStep
  BY <1>2 DEF TunnelStep, TunnelDial, TunnelListen, TunnelListenRefused, Keepalive,
              ProvTypeOK, nodeVars, provBounds
<1>3. ASSUME NEW p \in Provisioners, ProvisionStep(p) PROVE ProvTypeOK'
  <2>1. /\ Failed(p) \in {"backoff", "off"} /\ (Failed(p) = "backoff" <=> p = Boot)
        /\ Succeeded(p) \in {"done", "off"} /\ (Succeeded(p) = "done" <=> p = Boot)
    BY DEF Failed, Succeeded
  <2>2. \E v \in {"upload", "writing", "launch", Failed(p), Succeeded(p)} : pc' = [pc EXCEPT ![p] = v]
    BY <1>3 DEF ProvisionStep, ProvisionDial, UploadBegin, UploadRefused, UploadEnd,
                ProvisionFails, Launch, LaunchLost
  <2>3. /\ pc' \in [Provisioners -> Sending \cup {"waiting", "backoff", "done", "off", "diagnose", "probe"}]
        /\ pc'[Boot] \in Sending \cup {"waiting", "backoff", "done"}
        /\ \A d \in Diags : pc'[d] \in Sending \cup {"off", "diagnose", "probe"}
    BY <2>1, <2>2 DEF ProvTypeOK, Provisioners, Sending
  <2>4. agents' \in SUBSET Pids /\ pidFile' \in Pids \cup {NoPid}
    BY <1>3 DEF ProvisionStep, ProvisionDial, UploadBegin, UploadRefused, UploadEnd,
                ProvisionFails, Launch, LaunchLost, LaunchOnNode, nodeVars, ProvTypeOK
  <2>5. failures' \in 0..MaxFailures
    BY <1>3 DEF ProvisionStep, ProvisionDial, UploadBegin, UploadRefused, UploadEnd,
                ProvisionFails, Launch, LaunchLost, SessionFails, provBounds, ProvTypeOK
  <2>6. UNCHANGED <<procFS, sshd, tunnelVars, hb, verdict, deaths, outages, cuts, restarts>>
    BY <1>3 DEF ProvisionStep, ProvisionDial, UploadBegin, UploadRefused, UploadEnd,
                ProvisionFails, Launch, LaunchLost, provBounds
  <2>7. QED BY <2>3, <2>4, <2>5, <2>6 DEF ProvTypeOK, tunnelVars
<1>4. CASE BootReady \/ BootRetry
  BY <1>4 DEF BootReady, BootRetry, ProvTypeOK, Provisioners, Sending, tunnelVars, nodeVars,
              provBounds
<1>5. ASSUME NEW d \in Diags, Trigger(d) \/ DiagnoseDial(d) \/ Probe(d) \/ ProbeFails(d)
      PROVE  ProvTypeOK'
  <2>1. \A x, y, z \in BOOLEAN : Classify(x, y, z) \in Verdicts
    BY DEF Classify, Verdicts
  <2>2. AgentAlive \in BOOLEAN
    BY DEF AgentAlive, ProvTypeOK
  <2>3. \E v \in Verdicts : verdict' = [verdict EXCEPT ![d] = v] \/ verdict' = verdict
    BY <1>5, <2>1, <2>2 DEF Trigger, DiagnoseDial, Probe, ProbeFails, Conclude, Verdicts
  <2>4. \E v \in {"diagnose", "probe", "dial", "off"} : pc' = [pc EXCEPT ![d] = v]
    BY <1>5 DEF Trigger, DiagnoseDial, Probe, ProbeFails, Conclude
  <2>5. failures' \in 0..MaxFailures
    <3>1. failures' = failures \/ SessionFails
      BY <1>5 DEF Trigger, DiagnoseDial, Probe, ProbeFails, provBounds
    <3>2. QED BY <3>1 DEF SessionFails, ProvTypeOK
  <2>6. UNCHANGED <<procFS, sshd, tunnelVars, nodeVars, hb, deaths, outages, cuts, restarts>>
    BY <1>5 DEF Trigger, DiagnoseDial, Probe, ProbeFails, provBounds
  <2>7. verdict' \in [Diags -> Verdicts]
    BY <2>3 DEF ProvTypeOK
  <2>8. /\ pc' \in [Provisioners -> Sending \cup {"waiting", "backoff", "done", "off", "diagnose", "probe"}]
        /\ pc'[Boot] \in Sending \cup {"waiting", "backoff", "done"}
        /\ \A x \in Diags : pc'[x] \in Sending \cup {"off", "diagnose", "probe"}
    BY <2>4 DEF ProvTypeOK, Provisioners, Sending
  <2>9. QED BY <2>5, <2>6, <2>7, <2>8 DEF ProvTypeOK, tunnelVars, nodeVars
<1>6. CASE NodeStep
  BY <1>6 DEF NodeStep, AgentReports, NodeGoesSilent, AgentKilled, ProvTypeOK, tunnelVars,
              nodeVars, provBounds
<1>7. CASE FaultStep \/ SshdFreesPort \/ SshdBack
  <2>1. CASE TunnelCut
    BY <2>1 DEF TunnelCut, ProvTypeOK, nodeVars
  <2>2. CASE SshdGone
    <3>1. sshd' \in BOOLEAN /\ UNCHANGED <<procFS, tunnelVars, pc, nodeVars, hb, verdict, deaths,
                                           cuts, failures, restarts>>
      BY <2>2 DEF SshdGone
    <3>2. outages' \in 0..MaxOutages
      BY <2>2 DEF SshdGone, ProvTypeOK
    <3>3. QED BY <3>1, <3>2 DEF ProvTypeOK, nodeVars, tunnelVars
  <2>3. CASE ControlPlaneRestarts
    <3>1. /\ tunnel' = "idle" /\ ready' \in BOOLEAN /\ pc' = Started
          /\ UNCHANGED <<procFS, sshd, nodeVars, hb, verdict, deaths, outages, cuts, failures>>
      BY <2>3 DEF ControlPlaneRestarts
    <3>2. restarts' \in 0..MaxRestarts /\ listener' \in {"none", "current", "stale"}
      BY <2>3 DEF ControlPlaneRestarts, ProvTypeOK
    <3>3. QED BY <3>1, <3>2, StartedIs DEF ProvTypeOK, nodeVars
  <2>4. CASE SshdFreesPort \/ SshdBack
    BY <2>4 DEF SshdFreesPort, SshdBack, ProvTypeOK, nodeVars, tunnelVars, provBounds
  <2>5. QED BY <1>7, <2>1, <2>2, <2>3, <2>4 DEF FaultStep
<1>8. CASE UNCHANGED provVars
  BY <1>8 DEF provVars, tunnelVars, nodeVars, provBounds, ProvTypeOK
<1>9. QED BY <1>2, <1>3, <1>4, <1>5, <1>6, <1>7, <1>8
          DEF ProvNext, BootStep, DiagStep, Provisioners

\* Every step keeps the invariant.
LEMMA ProvInvStep == ProvInv /\ [ProvNext]_provVars => ProvInv'
<1>1. SUFFICES ASSUME ProvInv, [ProvNext]_provVars PROVE ProvInv'
  OBVIOUS
<1>2. ProvTypeOK /\ ProvTypeOK'
  BY <1>1, ProvTypeStep DEF ProvInv
<1>3. OnlyBootProvisions /\ UploadedIsNotRunning /\ OneAgent
  BY <1>1 DEF ProvInv
<1>4. CASE TunnelStep \/ NodeStep \/ TunnelCut \/ SshdGone \/ SshdFreesPort \/ SshdBack
            \/ UNCHANGED provVars
  <2>1. /\ procFS' = procFS /\ pc' = pc /\ verdict' = verdict
        /\ agents' = agents \/ \E pid \in agents : agents' = agents \ {pid}
    BY <1>4 DEF TunnelStep, TunnelDial, TunnelListen, TunnelListenRefused, Keepalive, NodeStep,
                AgentReports, NodeGoesSilent, AgentKilled, TunnelCut, SshdGone, SshdFreesPort,
                SshdBack, provVars, nodeVars
  <2>2. QED BY <1>1, <1>2, <2>1, ProvisionersAlone
<1>5. CASE BootReady \/ BootRetry
  <2>1. pc' = [pc EXCEPT ![Boot] = "dial"] /\ UNCHANGED <<procFS, agents, verdict>>
    BY <1>5 DEF BootReady, BootRetry, nodeVars
  <2>2. QED BY <1>2, <1>3, <2>1, ProvisionAssumption
            DEF ProvInv, ProvTypeOK, OnlyBootProvisions, UploadedIsNotRunning, OneAgent,
                Provisioners
<1>6. ASSUME NEW p \in Provisioners, ProvisionStep(p) PROVE ProvInv'
  <2>1. procFS' = procFS /\ verdict' = verdict
    BY <1>6 DEF ProvisionStep, ProvisionDial, UploadBegin, UploadRefused, UploadEnd,
                ProvisionFails, Launch, LaunchLost
  <2>2. SUFFICES ASSUME procFS
                 PROVE  /\ \A d \in Diags : pc'[d] \in Diagnosing
                        /\ pc'[Boot] \in {"writing", "launch"} => agents' = {}
                        /\ agents' = {} \/ \E pid \in Pids : agents' = {pid}
    BY <1>2, <1>3, <2>1 DEF ProvInv, OnlyBootProvisions, UploadedIsNotRunning, OneAgent
  <2>3. p = Boot
    <3>1. pc[p] \in {"dial", "upload", "writing", "launch"}
      BY <1>6 DEF ProvisionStep, ProvisionDial, UploadBegin, UploadRefused, UploadEnd,
                  ProvisionFails, Launch, LaunchLost
    <3>2. QED BY <1>3, <2>2, <3>1 DEF OnlyBootProvisions, Provisioners, Diagnosing
  <2>4. \A d \in Diags : pc'[d] = pc[d]
    BY <1>2, <1>6, <2>3, ProvisionAssumption
    DEF ProvisionStep, ProvisionDial, UploadBegin, UploadRefused, UploadEnd, ProvisionFails,
        Launch, LaunchLost, ProvTypeOK, Provisioners
  <2>5. Failed(Boot) = "backoff" /\ Succeeded(Boot) = "done"
    BY DEF Failed, Succeeded
  <2>6. CASE ProvisionDial(p) \/ UploadBegin(p) \/ UploadRefused(p) \/ UploadEnd(p) \/ ProvisionFails(p)
    <3>1. agents' = agents
      BY <2>6 DEF ProvisionDial, UploadBegin, UploadRefused, UploadEnd, ProvisionFails, nodeVars
    <3>2. pc'[Boot] \in {"writing", "launch"} => agents = {}
      BY <1>2, <1>3, <2>2, <2>3, <2>5, <2>6
      DEF ProvisionDial, UploadBegin, UploadRefused, UploadEnd, ProvisionFails, ProvTypeOK,
          Provisioners, UploadedIsNotRunning
    <3>3. QED BY <1>3, <2>2, <2>4, <3>1, <3>2 DEF OnlyBootProvisions, OneAgent
  <2>7. CASE Launch(p) \/ LaunchLost(p)
    <3>1. agents = {}
      BY <1>3, <2>2, <2>3, <2>7 DEF Launch, LaunchLost, UploadedIsNotRunning
    <3>2. agents' = {} \/ \E pid \in Pids : agents' = {pid}
      BY <2>7, <3>1 DEF Launch, LaunchLost, LaunchOnNode
    <3>3. pc'[Boot] \notin {"writing", "launch"}
      BY <1>2, <2>3, <2>5, <2>7 DEF Launch, LaunchLost, ProvTypeOK, Provisioners
    <3>4. QED BY <1>3, <2>2, <2>4, <3>2, <3>3 DEF OnlyBootProvisions
  <2>8. QED BY <1>6, <2>6, <2>7 DEF ProvisionStep
<1>7. ASSUME NEW d \in Diags, Trigger(d) \/ DiagnoseDial(d) \/ Probe(d) \/ ProbeFails(d)
      PROVE  ProvInv'
  <2>1. procFS' = procFS /\ agents' = agents
    BY <1>7 DEF Trigger, DiagnoseDial, Probe, ProbeFails, nodeVars
  <2>2. d \in Provisioners /\ Boot # d /\ pc'[Boot] = pc[Boot]
    BY <1>2, <1>7, ProvisionAssumption
    DEF Provisioners, ProvTypeOK, Trigger, DiagnoseDial, Probe, ProbeFails, Conclude
  <2>3. ASSUME procFS = TRUE, NEW x \in Diags PROVE pc'[x] \in Diagnosing /\ verdict'[x] # "agent-killed"
    <3>1. CASE Trigger(d)
      BY <1>2, <1>3, <2>3, <3>1
      DEF Trigger, OnlyBootProvisions, ProvTypeOK, Provisioners, Diagnosing
    <3>2. CASE DiagnoseDial(d) /\ sshd
      BY <1>2, <1>3, <2>3, <3>2
      DEF DiagnoseDial, OnlyBootProvisions, ProvTypeOK, Provisioners, Diagnosing
    <3>3. ASSUME \E v \in {"ssh-down", "unknown", "running"} : Conclude(d, v)
          PROVE  pc'[x] \in Diagnosing /\ verdict'[x] # "agent-killed"
      BY <1>2, <1>3, <2>3, <3>3
      DEF Conclude, OnlyBootProvisions, ProvTypeOK, Provisioners, Diagnosing
    <3>4. Classify(FALSE, FALSE, FALSE) = "ssh-down" /\ Classify(TRUE, FALSE, FALSE) = "unknown"
      BY DEF Classify
    <3>5. CASE DiagnoseDial(d) /\ ~sshd
      BY <3>3, <3>4, <3>5 DEF DiagnoseDial
    <3>6. CASE Probe(d)
      BY <2>3, <3>3, <3>6, ScanNeverMisses DEF Probe
    <3>7. CASE ProbeFails(d)
      BY <3>3, <3>4, <3>7 DEF ProbeFails
    <3>8. QED BY <1>7, <3>1, <3>2, <3>5, <3>6, <3>7
  <2>4. procFS \in BOOLEAN
    BY <1>2 DEF ProvTypeOK
  <2>5. OnlyBootProvisions'
    BY <2>1, <2>3, <2>4 DEF OnlyBootProvisions
  <2>6. QED BY <1>2, <1>3, <2>1, <2>2, <2>5 DEF ProvInv, UploadedIsNotRunning, OneAgent
<1>8. CASE ControlPlaneRestarts
  BY <1>2, <1>3, <1>8, ProvisionAssumption
  DEF ControlPlaneRestarts, nodeVars, Started, ProvInv, OnlyBootProvisions, UploadedIsNotRunning,
      OneAgent, Provisioners, Diagnosing
<1>9. QED BY <1>1, <1>4, <1>5, <1>6, <1>7, <1>8
          DEF ProvNext, BootStep, DiagStep, FaultStep, Provisioners

\* The invariant holds in every state.
LEMMA ProvInvHolds == ProvSpec => []ProvInv
  BY ProvInvInit, ProvInvStep, PTL DEF ProvSpec

\* A node with a /proc never runs two agents, however many provisioners, lost
\* answers, broken uploads and restarts there are (Provision, provisionWhenReady).
THEOREM NoSecondAgent == ProvSpec => []AtMostOneAgent
<1>1. ProvInv => AtMostOneAgent
  <2>1. SUFFICES ASSUME ProvInv, procFS PROVE Cardinality(agents) <= 1
    BY DEF AtMostOneAgent
  <2>2. CASE agents = {}
    BY <2>2, FS_EmptySet
  <2>3. ASSUME NEW pid \in Pids, agents = {pid} PROVE Cardinality(agents) <= 1
    BY <2>3, FS_Singleton
  <2>4. QED BY <2>1, <2>2, <2>3 DEF ProvInv, OneAgent
<1>2. QED BY <1>1, ProvInvHolds, PTL

\* What keeps it so is also what hides deaths: where there is a /proc, no
\* diagnosis ever concludes that an agent was killed, dead or not, and none
\* ever provisions (aliveCommand, classify, diagnoser.run).
THEOREM ScanHidesDeaths == ProvSpec => []OnlyBootProvisions
<1>1. ProvInv => OnlyBootProvisions
  BY DEF ProvInv
<1>2. QED BY <1>1, ProvInvHolds, PTL
=============================================================================
