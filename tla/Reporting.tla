----------------------------- MODULE Reporting ------------------------------
(***************************************************************************)
(* The resources of one node on their way to those who look at them: the   *)
(* agent registers and reports snapshots, the control plane writes the     *)
(* node's row (in the database, for the scheduler) and its last snapshot   *)
(* (in memory, for the views) one after the other, and a viewer reads the  *)
(* two one after the other: the lists of skctl, the console, a scrape.     *)
(***************************************************************************)
EXTENDS Lifecycle, Collectors, FiniteSets

CONSTANTS Collections,   \* bound: the sets of tools that may answer at a time
          MaxStamp,      \* bound: snapshots that are told apart by their time
          MaxAgents,     \* bound: starts of the agent
          MaxFaults,     \* bound: statements that fail
          MaxBreaks,     \* bound: connections that break and agents that stop
          MaxLosses,     \* bound: times the database is replaced by an empty one
          None           \* no row, no snapshot, no id

ASSUME ReportingAssumption ==
    /\ Collections \subseteq SUBSET Tools
    /\ MaxStamp \in Nat /\ MaxAgents \in Nat /\ MaxFaults \in Nat /\ MaxBreaks \in Nat
    /\ MaxLosses \in Nat

VARIABLES
    row,       \* the node's row: [id, inv], and of which collection it is
    snaps,     \* snaps[id]: the snapshot metrics.Store holds
    agent,     \* where the agent is, the id it uses, what its tools said
    handlers,  \* the calls of ReportMetrics the control plane works on
    viewer,    \* where the viewer is and what it has read
    stamp,     \* time of the last collection
    acked,     \* history: time of the last report that was answered with ok
    agents, faults, breaks, losses

reportVars == <<row, snaps, agent, handlers, viewer, stamp, acked,
                agents, faults, breaks, losses>>

boundVars  == <<agents, faults, breaks, losses>>

Ids == 1..MaxLosses + 1

\* The snapshots that can be taken and the rows that can be written.
Snapshots == {CollectAll(works, ts) : works \in Collections, ts \in 0..MaxStamp}

NodeRows == {r \in [id : Ids, inv : {Inventory(snap) : snap \in Snapshots},
                     works : Collections, ts : 0..MaxStamp] :
                r.inv = Inventory(CollectAll(r.works, r.ts))}

ASSUME NoneAssumption == None \notin NodeRows \cup Snapshots

\* The agent at rest has nothing in its hands.
Agent(pc, id) == [pc |-> pc, id |-> id, works |-> None]

ReportTypeOK ==
    /\ row = None \/ (row.id \in Ids /\ row.works \in Collections /\ row.ts \in 0..MaxStamp)
    /\ \A id \in Ids : snaps[id] = None \/ snaps[id].ts \in 1..MaxStamp
    /\ agent.pc \in {"off", "register", "report", "waiting", "resting"}
    /\ agent.id \in Ids \cup {None} /\ agent.works \in Collections \cup {None}
    /\ \A h \in handlers : h.id \in Ids /\ h.step \in {"heartbeat", "put"} /\ h.mine \in BOOLEAN
    /\ viewer = None \/ (viewer.door \in {"grpc", "web", "scrape"} /\ viewer.id \in Ids)
    /\ stamp \in 0..MaxStamp /\ acked \in 0..stamp
    /\ agents \in 0..MaxAgents /\ faults \in 0..MaxFaults /\ breaks \in 0..MaxBreaks
    /\ losses \in 0..MaxLosses

ReportInit ==
    /\ row = None
    /\ snaps = [id \in Ids |-> None]
    /\ agent = Agent("off", None)
    /\ handlers = {}
    /\ viewer = None
    /\ stamp = 0 /\ acked = 0
    /\ agents = 0 /\ faults = 0 /\ breaks = 0 /\ losses = 0

Fault == faults < MaxFaults /\ faults' = faults + 1

Break == breaks < MaxBreaks /\ breaks' = breaks + 1

-----------------------------------------------------------------------------
(* Registration *)

\* The agent dials the address it was told, and the control plane serves there.
Reaches == "grpc" \in doors /\ ServerAddr(scene.agent) = cfg.text.grpc

\* A loop of the agent whose interval is not positive panics as soon as the
\* agent has registered.
Ticks == \A k \in DOMAIN DefaultAgent.every : LoadAgent(scene.agent).every[k] > 0

\* register begins with a collection.
AgentStarts ==
    /\ "agent" \in scene.cast /\ scene.agent.file.readable
    /\ agent.pc = "off" /\ agents < MaxAgents
    /\ agents' = agents + 1
    /\ \E works \in Collections : agent' = [pc |-> "register", id |-> None, works |-> works]
    /\ UNCHANGED <<row, snaps, handlers, viewer, stamp, acked, faults, breaks, losses>>

\* INSERT ... ON CONFLICT(name): a row keeps its id, a new one gets a new id.
\* Time 0 stands for what a registration brought.
Upsert(works) ==
    row' = [id    |-> IF row = None THEN losses + 1 ELSE row.id,
            inv   |-> ResourcesFromSnapshot(CollectAll(works, 0)),
            works |-> works, ts |-> 0]

\* Mutant: a re-registration does not change the id the reports use.
RegisterNode_keepsId ==
    /\ agent.pc = "register" /\ Reaches
    /\ Upsert(agent.works)
    /\ agent' = IF Ticks THEN Agent("report", IF agent.id = None THEN row'.id ELSE agent.id)
                ELSE Agent("off", None)
    /\ UNCHANGED <<snaps, handlers, viewer, stamp, acked, boundVars>>

\* The row is written and the agent has its id; a re-registration is followed by
\* the ticker, which takes no step of its own here.
RegisterNode ==
    /\ agent.pc = "register" /\ Reaches
    /\ Upsert(agent.works)
    /\ agent' = IF Ticks THEN Agent("report", row'.id) ELSE Agent("off", None)
    /\ UNCHANGED <<snaps, handlers, viewer, stamp, acked, boundVars>>

\* The call fails, before or after the row was written, and is tried again.
RegisterFails ==
    /\ agent.pc = "register" /\ Reaches
    /\ Fault
    /\ Upsert(agent.works) \/ UNCHANGED row
    /\ UNCHANGED <<snaps, agent, handlers, viewer, stamp, acked, agents, breaks, losses>>

-----------------------------------------------------------------------------
(* Reports *)

Later == IF stamp < MaxStamp THEN stamp + 1 ELSE stamp

\* A collection and the call; a call that is refused is not repeated.
Report ==
    /\ agent.pc = "report"
    /\ stamp' = Later
    /\ \E works \in Collections :
          IF Reaches
          THEN /\ agent' = Agent("waiting", agent.id)
               /\ handlers' = handlers \cup
                     {[id |-> agent.id, works |-> works, snap |-> CollectAll(works, stamp'),
                       step |-> "heartbeat", mine |-> TRUE]}
          ELSE agent' = Agent("resting", agent.id) /\ UNCHANGED handlers
    /\ UNCHANGED <<row, snaps, viewer, acked, boundVars>>

\* The ticker of the report loop.
Rest ==
    /\ agent.pc = "resting"
    /\ agent' = [agent EXCEPT !.pc = "report"]
    /\ UNCHANGED <<row, snaps, handlers, viewer, stamp, acked, boundVars>>

Known(h) == row # None /\ row.id = h.id

\* Mutant: the answer does not wait for the snapshot to be kept.
Heartbeat_acks(h) ==
    /\ h.step = "heartbeat" /\ Known(h)
    /\ row' = [row EXCEPT !.inv = Inventory(h.snap), !.works = h.works, !.ts = h.snap.ts]
    /\ handlers' = (handlers \ {h}) \cup {[h EXCEPT !.step = "put", !.mine = FALSE]}
    /\ IF h.mine THEN agent' = Agent("resting", agent.id) /\ acked' = h.snap.ts
       ELSE UNCHANGED <<agent, acked>>
    /\ UNCHANGED <<snaps, viewer, stamp, boundVars>>

\* UPDATE node ... WHERE id: the inventory is the snapshot's.
Heartbeat(h) ==
    /\ h.step = "heartbeat" /\ Known(h)
    /\ row' = [row EXCEPT !.inv = Inventory(h.snap), !.works = h.works, !.ts = h.snap.ts]
    /\ handlers' = (handlers \ {h}) \cup {[h EXCEPT !.step = "put"]}
    /\ UNCHANGED <<snaps, agent, viewer, stamp, acked, boundVars>>

\* No row has this id: the answer asks to register again.
ShouldReregister(h) ==
    /\ h.step = "heartbeat" /\ ~Known(h)
    /\ handlers' = handlers \ {h}
    /\ IF h.mine THEN \E works \in Collections :
                         agent' = [agent EXCEPT !.pc = "register", !.works = works]
       ELSE UNCHANGED agent
    /\ UNCHANGED <<row, snaps, viewer, stamp, acked, boundVars>>

\* The statement fails, of itself or because the caller has gone.
HeartbeatFails(h) ==
    /\ h.step = "heartbeat"
    /\ IF h.mine THEN Fault /\ agent' = [agent EXCEPT !.pc = "resting"]
       ELSE UNCHANGED <<agent, faults>>
    /\ handlers' = handlers \ {h}
    /\ UNCHANGED <<row, snaps, viewer, stamp, acked, agents, breaks, losses>>

\* The snapshot takes the place of the last one, and the answer is ok.
Put(h) ==
    /\ h.step = "put"
    /\ snaps' = [snaps EXCEPT ![h.id] = h.snap]
    /\ handlers' = handlers \ {h}
    /\ IF h.mine THEN agent' = [agent EXCEPT !.pc = "resting"] /\ acked' = h.snap.ts
       ELSE UNCHANGED <<agent, acked>>
    /\ UNCHANGED <<row, viewer, stamp, boundVars>>

Orphaned == {[h EXCEPT !.mine = FALSE] : h \in handlers}

\* The connection breaks: the agent has an error, the handler goes on.
CallBreaks ==
    /\ agent.pc = "waiting"
    /\ Break
    /\ handlers' = Orphaned
    /\ agent' = [agent EXCEPT !.pc = "resting"]
    /\ UNCHANGED <<row, snaps, viewer, stamp, acked, agents, faults, losses>>

\* The agent is stopped or killed.
AgentStops ==
    /\ agent.pc # "off"
    /\ Break
    /\ handlers' = Orphaned
    /\ agent' = Agent("off", None)
    /\ UNCHANGED <<row, snaps, viewer, stamp, acked, agents, faults, losses>>

-----------------------------------------------------------------------------
(* Views *)

\* ListNodes of skctl, of the console or of a scrape.  The row is shown as it
\* was read; its id leads to the snapshot.
View ==
    /\ "viewer" \in scene.cast
    /\ viewer = None /\ row # None
    /\ \E door \in doors : viewer' = [door |-> door, id |-> row.id, owed |-> acked]
    /\ UNCHANGED <<row, snaps, agent, handlers, stamp, acked, boundVars>>

\* metrics.Get, and the answer.
ViewEnds ==
    /\ viewer # None
    /\ viewer' = None
    /\ UNCHANGED <<row, snaps, agent, handlers, stamp, acked, boundVars>>

DevicesIn(snap) == IF snap = None THEN <<>> ELSE snap.devs

\* nodeDevices: the snapshot's devices, the row's if there are none.
nodeDevices(r, snap) == IF DevicesIn(snap) # <<>> THEN DevicesIn(snap) ELSE r.inv.devs

OfKind(devs, kind) == {i \in DOMAIN devs : devs[i].kind = kind}

countDevices(devs) == [gpu |-> Cardinality(OfKind(devs, "gpu")), npu |-> Cardinality(OfKind(devs, "npu"))]

\* The label values of one metric of each family of promCollector.Collect.
Series(snap) ==
    IF snap = None THEN [disks |-> <<>>, devs |-> <<>>]
    ELSE [disks |-> [i \in 1..Len(snap.disks) |-> snap.disks[i].mount],
          devs  |-> [i \in 1..Len(snap.devs) |-> <<snap.devs[i].kind, snap.devs[i].vendor, snap.devs[i].index,
                                             snap.devs[i].uuid, snap.devs[i].name>>]]

\* The numbers of devices the views show: skctl nodes from the row, top, gpu
\* and npu from the snapshot, the console from the merged list.
Shown(r, snap) ==
    {countDevices(r.inv.devs), countDevices(DevicesIn(snap)), countDevices(nodeDevices(r, snap))}

-----------------------------------------------------------------------------
(* The process goes away, and the database with it at times *)

\* What is in memory is gone, and the calls are cut.
ReportingGone ==
    /\ snaps' = [id \in Ids |-> None]
    /\ handlers' = {}
    /\ acked' = 0
    /\ agent' = IF agent.pc = "waiting" THEN [agent EXCEPT !.pc = "resting"] ELSE agent
    /\ viewer' = None
    /\ UNCHANGED <<row, stamp, boundVars>>

\* The next start finds an empty database.
StoreLost ==
    /\ phase = "down" /\ row # None
    /\ losses < MaxLosses
    /\ losses' = losses + 1
    /\ row' = None
    /\ UNCHANGED <<snaps, agent, handlers, viewer, stamp, acked, agents, faults, breaks>>

AgentStep  == RegisterNode \/ Report \/ Rest
HandlerStep == \E h \in handlers : Heartbeat(h) \/ ShouldReregister(h) \/ Put(h)
AgentFault == \/ RegisterFails \/ CallBreaks \/ AgentStops
              \/ \E h \in handlers : HeartbeatFails(h)

ReportNext == AgentStarts \/ AgentStep \/ HandlerStep \/ AgentFault \/ View \/ ViewEnds \/ StoreLost

\* Whether a call of gRPC is inside.
ReportingBusy == handlers # {} \/ (viewer # None /\ viewer.door = "grpc")

-----------------------------------------------------------------------------
(* Properties *)

\* What is compared of a list of devices.
Seen(devs) ==
    [i \in 1..Len(devs) |-> [kind |-> devs[i].kind, index |-> devs[i].index, total |-> devs[i].total]]

\* The scheduler sees exactly the accelerators of the tools that answered, once
\* each, with the index the tool gives it and the right memory, whichever of a
\* registration and a report wrote the row (parseNvidiaCSV, parseNpuSmi,
\* nodeFromSnapshot, Heartbeat).
SchedulerSeesHardware ==
    row # None =>
        /\ Seen(row.inv.devs) = Hardware(row.works)
        /\ row.inv.mem = IF "mem" \in row.works THEN MemTotal ELSE 0

\* Once a report was answered every row and every snapshot that is read is that
\* report's or a later one's, and between reports skctl nodes, top, gpu, npu and
\* the console show the same devices, although row and snapshot are written, and
\* read, one after the other (ReportMetrics, ListMetrics, nodeToJSON,
\* nodeDevices, promCollector.Collect).  A connection that broke may leave a
\* handler behind that writes late.
AckedIsShown ==
    breaks = 0 =>
        /\ row # None => row.ts >= acked
        /\ viewer # None /\ viewer.owed > 0 =>
              snaps[viewer.id] # None /\ snaps[viewer.id].ts >= viewer.owed
        /\ handlers = {} /\ row # None =>
              (row.ts > 0 /\ snaps[row.id] # None => Cardinality(Shown(row, snaps[row.id])) = 1)

\* Two entries of npu-smi have the index of the device: it is a chip of an NPU
\* that has several.
SharesItsIndex(dev) ==
    /\ dev.kind = "npu"
    /\ \E k, l \in 1..Len(Npus) : k # l /\ Npus[k].index = dev.index /\ Npus[l].index = dev.index

\* Two series with the same labels make the whole scrape fail, for every node.
\* Nothing but the chips of one NPU, which parseNpuSmi gives one index and no
\* uuid, can do that: bind mounts do not, nor a GPU and an NPU of one index
\* (promCollector.Collect, diskCollector).
OnlyChipsCollide ==
    \A id \in Ids :
        /\ IsInjective(Series(snaps[id]).disks)
        /\ \A i, j \in DOMAIN Series(snaps[id]).devs :
              i # j /\ Series(snaps[id]).devs[i] = Series(snaps[id]).devs[j]
                  => SharesItsIndex(snaps[id].devs[i])

\* When control plane and agent stay up, the agent ends up registered under the
\* id of the row and its reports arrive, also when the database was lost and
\* wherever the operator has set the address (Run, register, nodeRef, LoadAgent).
ReportsGetThrough ==
    <>[](phase = "up" /\ agent.pc # "off")
        => <>[](row # None /\ agent.id = row.id /\ snaps[row.id] # None)
=============================================================================
