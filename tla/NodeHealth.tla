----------------------------- MODULE NodeHealth -----------------------------
(***************************************************************************)
(* The node table over time: agents register and report, the reaper of     *)
(* the control plane announces and marks nodes whose reports stay away,    *)
(* and the diagnoser decides for which of them a diagnosis is started.     *)
(*                                                                         *)
(* Time is in ticks, TicksPerSecond to a second.  The table keeps the last *)
(* heartbeat in whole seconds, and the statement that marks nodes compares *)
(* whole seconds, while the reaper's own comparison is exact.              *)
(***************************************************************************)
EXTENDS Integers

CONSTANTS Nodes,
          SSHNodes,         \* the nodes of the configuration's ssh_nodes
          TicksPerSecond,
          Timeout,          \* heartbeat.timeout, in seconds
          ReapInterval,     \* heartbeat.reap_interval, in ticks
          ReportInterval,   \* collectors.interval of the agents, in ticks
          AfterDown,        \* diagnostics.after_down, in ticks
          Cooldown,         \* diagnostics.cooldown, in ticks
          PassTime,         \* ticks a round of the reaper takes at most
          MaxTime,          \* bound: ticks
          MaxLost,          \* bound: reports that fail
          MaxDeaths,        \* bound: deaths of agents
          MaxAborts,        \* bound: rounds of the reaper that a failed read or write ends
          MaxRestarts,      \* bound: restarts of the control plane
          Never             \* no time

ASSUME HealthAssumption ==
    /\ SSHNodes \subseteq Nodes
    /\ TicksPerSecond \in 1..MaxTime /\ Timeout \in Nat /\ ReportInterval \in Nat \ {0}
    /\ ReapInterval \in Nat \ {0} /\ AfterDown \in Nat /\ Cooldown \in Nat /\ PassTime \in Nat
    /\ MaxTime \in Nat /\ MaxLost \in Nat /\ MaxDeaths \in Nat
    /\ MaxAborts \in Nat /\ MaxRestarts \in Nat
    /\ Never \notin Int

VARIABLES
    now,
    agent,      \* agent[n]: whether the agent of n runs
    due,        \* due[n]: when a running agent reports at the latest
    nodeState,  \* nodeState[n]: the state column; NONE without a row
    hb,         \* hb[n]: the last_heartbeat column, in seconds
    reaper,     \* where the reaper's round is
    at,         \* when the round began
    seen,       \* seen[n]: the heartbeat the round read, Never if the row did not exist
    seenUp,     \* the nodes it read as UP
    nextRound,  \* when the next round begins at the latest
    lastRun,    \* lastRun[n]: when the diagnoser last started a diagnosis
    told,       \* history: nodes with a node.down event since their last report
    diagnosed,  \* history: diagnosed[n]: the heartbeat of the outage last diagnosed
    lost, deaths, aborts, restarts

healthVars == <<now, agent, due, nodeState, hb, reaper, at, seen, seenUp, nextRound, lastRun,
                told, diagnosed, lost, deaths, aborts, restarts>>

tableVars  == <<nodeState, hb>>
roundVars  == <<reaper, at, seen, seenUp, nextRound>>
boundVars  == <<lost, deaths, aborts, restarts>>

Seconds(t) == t \div TicksPerSecond
TicksOf(s) == s * TicksPerSecond

\* The heartbeat column is in seconds and what a round keeps of it too.
HealthTypeOK ==
    /\ now \in 0..MaxTime
    /\ agent \in [Nodes -> BOOLEAN]
    /\ due \in [Nodes -> 0..MaxTime + ReportInterval]
    /\ nodeState \in [Nodes -> {"NONE", "UP", "DOWN"}]
    /\ hb \in [Nodes -> 0..Seconds(MaxTime)]
    /\ reaper \in {"idle", "emit", "mark", "check"}
    /\ at \in 0..MaxTime
    /\ seen \in [Nodes -> 0..Seconds(MaxTime) \cup {Never}]
    /\ seenUp \in SUBSET Nodes
    /\ nextRound \in 0..MaxTime + ReapInterval
    /\ lastRun \in [Nodes -> 0..MaxTime \cup {Never}]
    /\ told \in SUBSET Nodes
    /\ diagnosed \in [Nodes -> 0..Seconds(MaxTime) \cup {Never}]
    /\ lost \in 0..MaxLost /\ deaths \in 0..MaxDeaths
    /\ aborts \in 0..MaxAborts /\ restarts \in 0..MaxRestarts

\* The table is empty and nothing runs but the control plane.  The clock is
\* past second 0, which the code takes for no heartbeat at all.
HealthInit ==
    /\ now = TicksPerSecond
    /\ agent = [n \in Nodes |-> FALSE]
    /\ due = [n \in Nodes |-> 0]
    /\ nodeState = [n \in Nodes |-> "NONE"]
    /\ hb = [n \in Nodes |-> 0]
    /\ reaper = "idle" /\ at = 0
    /\ seen = [n \in Nodes |-> Never] /\ seenUp = {}
    /\ nextRound = now + ReapInterval
    /\ lastRun = [n \in Nodes |-> Never]
    /\ told = {}
    /\ diagnosed = [n \in Nodes |-> Never]
    /\ lost = 0 /\ deaths = 0 /\ aborts = 0 /\ restarts = 0

-----------------------------------------------------------------------------
(* Agents *)

\* RegisterNode: the row of the name is made, or overwritten, as UP.
Register(n) ==
    /\ ~agent[n]
    /\ agent' = [agent EXCEPT ![n] = TRUE]
    /\ due' = [due EXCEPT ![n] = now]
    /\ nodeState' = [nodeState EXCEPT ![n] = "UP"]
    /\ hb' = [hb EXCEPT ![n] = Seconds(now)]
    /\ told' = told \ {n}
    /\ UNCHANGED <<now, roundVars, lastRun, diagnosed, boundVars>>

\* Mutant: only registration writes the heartbeat.
Report_noTime(n) ==
    /\ agent[n]
    /\ due' = [due EXCEPT ![n] = now + ReportInterval]
    /\ nodeState' = [nodeState EXCEPT ![n] = "UP"]
    /\ told' = told \ {n}
    /\ UNCHANGED <<now, agent, hb, roundVars, lastRun, diagnosed, boundVars>>

\* ReportMetrics: the heartbeat is refreshed and the node is UP.
Report(n) ==
    /\ agent[n]
    /\ due' = [due EXCEPT ![n] = now + ReportInterval]
    /\ nodeState' = [nodeState EXCEPT ![n] = "UP"]
    /\ hb' = [hb EXCEPT ![n] = Seconds(now)]
    /\ told' = told \ {n}
    /\ UNCHANGED <<now, agent, roundVars, lastRun, diagnosed, boundVars>>

\* The report fails and is not repeated before the next one is due.
ReportLost(n) ==
    /\ agent[n]
    /\ lost < MaxLost
    /\ lost' = lost + 1
    /\ due' = [due EXCEPT ![n] = now + ReportInterval]
    /\ UNCHANGED <<now, agent, tableVars, roundVars, lastRun, told, diagnosed,
                   deaths, aborts, restarts>>

AgentDies(n) ==
    /\ agent[n]
    /\ deaths < MaxDeaths
    /\ deaths' = deaths + 1
    /\ agent' = [agent EXCEPT ![n] = FALSE]
    /\ UNCHANGED <<now, due, tableVars, roundVars, lastRun, told, diagnosed,
                   lost, aborts, restarts>>

-----------------------------------------------------------------------------
(* The reaper *)

BeginRound ==
    /\ reaper = "idle"
    /\ reaper' = "emit"
    /\ at' = now
    /\ nextRound' = now + ReapInterval
    /\ seen' = [n \in Nodes |-> IF nodeState[n] = "NONE" THEN Never ELSE hb[n]]
    /\ seenUp' = {n \in Nodes : nodeState[n] = "UP"}
    /\ UNCHANGED <<now, agent, due, tableVars, lastRun, told, diagnosed, boundVars>>

\* ListNodes or MarkStaleDown fails: the rest of the round is left out.
RoundAborts ==
    /\ reaper \in {"emit", "mark"}
    /\ aborts < MaxAborts
    /\ aborts' = aborts + 1
    /\ reaper' = "idle"
    /\ UNCHANGED <<now, agent, due, tableVars, at, seen, seenUp, nextRound, lastRun, told,
                   diagnosed, lost, deaths, restarts>>

\* The heartbeat the round read is there and before the cutoff.
Overdue(n) == n \in seenUp /\ seen[n] > 0 /\ TicksOf(seen[n]) < at - TicksOf(Timeout)

\* A node.down event for every UP node whose heartbeat is overdue.
EmitNodeDownEvents ==
    /\ reaper = "emit"
    /\ reaper' = "mark"
    /\ told' = told \cup {n \in Nodes : Overdue(n) /\ hb[n] = seen[n]}
    /\ UNCHANGED <<now, agent, due, tableVars, at, seen, seenUp, nextRound, lastRun, diagnosed,
                   boundVars>>

\* Mutant: the cutoff is taken anew for the statement.
MarkStaleDown_freshCutoff ==
    /\ reaper = "mark"
    /\ reaper' = "check"
    /\ nodeState' = [n \in Nodes |-> IF nodeState[n] = "UP" /\ hb[n] < Seconds(now - TicksOf(Timeout))
                                     THEN "DOWN" ELSE nodeState[n]]
    /\ UNCHANGED <<now, agent, due, hb, at, seen, seenUp, nextRound, lastRun, told, diagnosed,
                   boundVars>>

\* Mutant: a node has twice the time.
MarkStaleDown_double ==
    /\ reaper = "mark"
    /\ reaper' = "check"
    /\ nodeState' = [n \in Nodes |-> IF nodeState[n] = "UP" /\ hb[n] < Seconds(at - 2 * TicksOf(Timeout))
                                     THEN "DOWN" ELSE nodeState[n]]
    /\ UNCHANGED <<now, agent, due, hb, at, seen, seenUp, nextRound, lastRun, told, diagnosed,
                   boundVars>>

\* One statement: the rows as they are now, the cutoff of the round, in seconds.
MarkStaleDown ==
    /\ reaper = "mark"
    /\ reaper' = "check"
    /\ nodeState' = [n \in Nodes |-> IF nodeState[n] = "UP" /\ hb[n] < Seconds(at - TicksOf(Timeout))
                                     THEN "DOWN" ELSE nodeState[n]]
    /\ UNCHANGED <<now, agent, due, hb, at, seen, seenUp, nextRound, lastRun, told, diagnosed,
                   boundVars>>

-----------------------------------------------------------------------------
(* The diagnoser's check, at the end of a round *)

DownFor(n) == at - TicksOf(seen[n])

\* Nodes it looks at, nodes whose heartbeat is fresh, and nodes that are due.
Managed  == {n \in SSHNodes : seen[n] # Never /\ seen[n] # 0}
Fresh    == {n \in Managed : DownFor(n) < AfterDown}
Cooled(n) == lastRun[n] = Never \/ at - lastRun[n] >= Cooldown
Triggered == {n \in Managed \ Fresh : Cooled(n)}

\* Mutant: a node that reports again keeps its cooldown.
Check_keepsCooldown ==
    /\ reaper = "check"
    /\ reaper' = "idle"
    /\ lastRun' = [n \in Nodes |-> IF n \in Triggered THEN at ELSE lastRun[n]]
    /\ diagnosed' = [n \in Nodes |-> IF n \in Triggered THEN seen[n] ELSE diagnosed[n]]
    /\ UNCHANGED <<now, agent, due, tableVars, at, seen, seenUp, nextRound, told, boundVars>>

\* The cooldown of a fresh node is cleared; a diagnosis starts for the others
\* that have cooled down.
Check ==
    /\ reaper = "check"
    /\ reaper' = "idle"
    /\ lastRun' = [n \in Nodes |-> IF n \in Fresh THEN Never
                                   ELSE IF n \in Triggered THEN at ELSE lastRun[n]]
    /\ diagnosed' = [n \in Nodes |-> IF n \in Triggered THEN seen[n] ELSE diagnosed[n]]
    /\ UNCHANGED <<now, agent, due, tableVars, at, seen, seenUp, nextRound, told, boundVars>>

-----------------------------------------------------------------------------

\* The table stays; the round and the diagnoser's memory are gone.
Restart ==
    /\ restarts < MaxRestarts
    /\ restarts' = restarts + 1
    /\ reaper' = "idle"
    /\ nextRound' = now + ReapInterval
    /\ lastRun' = [n \in Nodes |-> Never]
    /\ UNCHANGED <<now, agent, due, tableVars, at, seen, seenUp, told, diagnosed,
                   lost, deaths, aborts>>

\* The tickers keep their intervals and a round keeps within PassTime.
Tick ==
    /\ now < MaxTime
    /\ \A n \in Nodes : agent[n] => now < due[n]
    /\ IF reaper = "idle" THEN now < nextRound ELSE now < at + PassTime
    /\ now' = now + 1
    /\ UNCHANGED <<agent, due, tableVars, roundVars, lastRun, told, diagnosed, boundVars>>

AgentStep(n) == Register(n) \/ Report(n) \/ ReportLost(n) \/ AgentDies(n)

RoundStep == BeginRound \/ RoundAborts \/ EmitNodeDownEvents \/ MarkStaleDown \/ Check

HealthNext == (\E n \in Nodes : AgentStep(n)) \/ RoundStep \/ Restart \/ Tick

HealthSpec == HealthInit /\ [][HealthNext]_healthVars

-----------------------------------------------------------------------------
(* Properties *)

\* A node is marked DOWN only after a node.down event for this silence, although
\* events go by the rows the round read and the mark by the rows as they are
\* then (reapLoop, emitNodeDownEvents, MarkStaleDown).
DownIsAnnounced == \A n \in Nodes : nodeState[n] = "DOWN" => n \in told

\* A node whose reports all arrive in time is never announced or marked: a
\* round does not take the rounding to seconds for silence (Heartbeat, reapLoop).
HealthyStaysUp ==
    lost = 0 /\ deaths = 0 =>
        \A n \in Nodes : nodeState[n] # "DOWN" /\ n \notin told

\* Silence is noticed in time: an UP node reported within the timeout, the
\* second that rounding costs and one round (reapLoop, MarkStaleDown).
SilenceIsNoticed ==
    aborts = 0 /\ restarts = 0 =>
        \A n \in Nodes : nodeState[n] = "UP"
            => now <= TicksOf(hb[n] + Timeout + 1) + ReapInterval + 2 * PassTime

\* Every check leaves every node that has been silent for long enough with a
\* diagnosis of this very silence: a cooldown from an earlier one does not
\* outlive the reports in between (diagnoser.check).
SilenceIsDiagnosed ==
    [][reaper = "check" /\ reaper' = "idle" /\ aborts' = 0 /\ restarts' = restarts =>
          \A n \in Managed : DownFor(n) >= AfterDown => diagnosed'[n] = seen[n]]_healthVars
=============================================================================
