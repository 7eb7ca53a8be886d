------------------------------ MODULE Timeline ------------------------------
(***************************************************************************)
(* Plan over time: jobs arrive, every pass places what Plan decides, the   *)
(* agents start and end jobs, nodes go down and come back.  A running job  *)
(* ends at the latest when its walltime is over.  The clock moves only     *)
(* when the pass of this tick has nothing left to place, so that what is   *)
(* checked is Plan and not the length of the scheduler's interval.         *)
(*                                                                         *)
(* The walltime of a job counts from its start.  An agent starts an        *)
(* assigned job at most MaxLatency ticks after the pass that placed it.    *)
(***************************************************************************)
EXTENDS Plan

CONSTANTS NumJobs,      \* bound: jobs that can be submitted
          JobSpecs,     \* what a job can ask for
          Cluster,      \* the nodes, with their full resources
          Policies,     \* scheduling policies
          MaxTime,      \* bound: ticks
          MaxLatency,   \* ticks between an assignment and its start
          MaxFlips,     \* bound: changes of the nodes' state
          None          \* no promise

ASSUME TimelineAssumption ==
    /\ NumJobs \in Nat
    /\ JobSpecs \subseteq [priority : Int, partition : STRING, cpus : Nat, mem : Nat,
                           gpus : Nat, gpuType : STRING, walltime : Nat]
    /\ IsFiniteSet(Cluster)
    /\ Cluster \subseteq [id : Nat, up : BOOLEAN, partition : STRING, cpus : Nat, mem : Nat,
                          devices : SUBSET [key : Nat, name : SUBSET STRING]]
    /\ \A m, n \in Cluster : m.id = n.id => m = n
    /\ \A n \in Cluster : /\ IsFiniteSet(n.devices)
                          /\ \A d, e \in n.devices : d.key = e.key => d = e
    /\ Policies \subseteq [backfill : BOOLEAN, ageWeight : Nat]
    /\ MaxTime \in Nat /\ MaxLatency \in Nat /\ MaxFlips \in Nat

VARIABLES now,
          policy,
          spec,      \* spec[j]: what job j asks for
          st,        \* st[j]: absent, PENDING, ASSIGNED, RUNNING or ended
          times,     \* times[j]: when it was submitted, assigned and started
          place,     \* place[j]: the node and devices it was given
          upIds,     \* ids of the nodes that are UP
          flips,     \* changes of the nodes' state so far
          promise    \* promise[j]: history: the start that the first pass to hold j back could
                     \* foresee, and the slack that the jobs put in front of j since may cost

tvars == <<now, policy, spec, st, times, place, upIds, flips, promise>>

JobIds == 1..NumJobs

-----------------------------------------------------------------------------
(* The rows the pass reads *)

Row(j) == [id |-> j, priority |-> spec[j].priority, partition |-> spec[j].partition,
           cpus |-> spec[j].cpus, mem |-> spec[j].mem, gpus |-> spec[j].gpus,
           gpuType |-> spec[j].gpuType, walltime |-> spec[j].walltime,
           submit |-> times[j].submit, assigned |-> times[j].assigned, start |-> times[j].start,
           node |-> place[j].node, devs |-> place[j].devs]

Rows(states) == {Row(j) : j \in {k \in JobIds : st[k] \in states}}
ActiveRows   == Rows({"ASSIGNED", "RUNNING"})
PendingRows  == Rows({"PENDING"})

ListNodes == {[n EXCEPT !.up = n.id \in upIds] : n \in Cluster}

Planned == PlanDecisions(now, ListNodes, ActiveRows, PendingRows, policy)

\* The rows as they will be once the decisions D are written.
PlacedRows(D) == {[Row(d.job) EXCEPT !.node = d.node, !.devs = d.devs, !.assigned = now] : d \in D}

-----------------------------------------------------------------------------
(* What a correct plan is judged by, independent of how Plan computes it *)

\* When a job that occupies resources will be gone at the latest.
EndOf(o) == IF o.walltime = 0 THEN now + Forever
            ELSE (IF o.start = NotStarted THEN o.assigned + MaxLatency ELSE o.start) + o.walltime

\* Whether job b could run on node n beside the jobs occ.
RoomBeside(b, n, occ) ==
    LET here == {o \in occ : o.node = n.id}
        held == DevsOf(here)
    IN  /\ b.partition \in {"", n.partition}
        /\ b.cpus + CpusOf(here) <= n.cpus
        /\ b.mem + MemOf(here) <= n.mem
        /\ b.gpus <= Cardinality({d \in n.devices :
                                     d.key \notin held /\ (b.gpuType = "" \/ b.gpuType \in d.name)})

UpNodes == {n \in ListNodes : n.up}

\* The earliest time at which job b could start.
EarliestStart(b, occ) ==
    Min({t \in {now} \cup {EndOf(o) : o \in occ} :
            \E n \in UpNodes : RoomBeside(b, n, {o \in occ : EndOf(o) > t})})

EverRuns(b) == \E n \in UpNodes : RoomBeside(b, n, {})

\* Priority, age and then arrival.
Ahead(a, b) ==
    LET pa == a.priority + policy.ageWeight * (now - a.submit)
        pb == b.priority + policy.ageWeight * (now - b.submit)
    IN  pa > pb \/ (pa = pb /\ (a.submit < b.submit \/ (a.submit = b.submit /\ a.id < b.id)))

LeftOut(D) == {b \in PendingRows : \A d \in D : d.job # b.id}

\* The job a plan with the decisions D has to protect: the first of those left
\* out that could run at all.
HeldBack(D) == {b \in LeftOut(D) :
                  EverRuns(b) /\ \A c \in LeftOut(D) : c # b /\ EverRuns(c) => Ahead(b, c)}

-----------------------------------------------------------------------------

NoTimes == [submit |-> 0, assigned |-> 0, start |-> NotStarted]
Nowhere == [node |-> 0, devs |-> {}]

TimelineInit ==
    /\ now = 0
    /\ policy \in Policies
    /\ spec \in [JobIds -> JobSpecs]
    /\ st = [j \in JobIds |-> "absent"]
    /\ times = [j \in JobIds |-> NoTimes]
    /\ place = [j \in JobIds |-> Nowhere]
    /\ upIds = {n.id : n \in Cluster}
    /\ flips = 0
    /\ promise = [j \in JobIds |-> None]

\* A job arrives; what was foreseen for jobs it overtakes no longer counts.
Submit(j) ==
    /\ st[j] = "absent"
    /\ \A k \in JobIds : k < j => st[k] # "absent"
    /\ st' = [st EXCEPT ![j] = "PENDING"]
    /\ times' = [times EXCEPT ![j].submit = now]
    /\ promise' = [k \in JobIds |->
                     IF st[k] = "PENDING" /\ Ahead([Row(j) EXCEPT !.submit = now], Row(k))
                     THEN None ELSE promise[k]]
    /\ UNCHANGED <<now, policy, spec, place, upIds, flips>>

\* The decisions of D for jobs that come before b.
AheadOf(D, b) == {d \in D : Ahead(Row(d.job), b)}

\* What one pass may cost job b by placing jobs that come after it: their
\* walltimes start when the agents start them.
Cost(D, b) == IF D \subseteq AheadOf(D, b) THEN 0 ELSE MaxLatency

\* A pass: every decision is written.
Pass ==
    LET D == Planned
    IN  /\ st' = [j \in JobIds |-> IF \E d \in D : d.job = j THEN "ASSIGNED" ELSE st[j]]
        /\ times' = [j \in JobIds |-> IF \E d \in D : d.job = j
                                       THEN [times[j] EXCEPT !.assigned = now] ELSE times[j]]
        /\ place' = [j \in JobIds |-> IF \E d \in D : d.job = j
                                       THEN LET d == CHOOSE e \in D : e.job = j
                                            IN  [node |-> d.node, devs |-> d.devs]
                                       ELSE place[j]]
        /\ promise' = [j \in JobIds |->
                         IF \E d \in D : d.job = j THEN None
                         ELSE IF promise[j] # None
                              THEN [promise[j] EXCEPT !.slack = @ + Cost(D, Row(j))]
                         ELSE IF policy.backfill /\ Row(j) \in HeldBack(D)
                              THEN [at    |-> EarliestStart(Row(j), ActiveRows \cup
                                                                PlacedRows(AheadOf(D, Row(j)))),
                                    slack |-> Cost(D, Row(j))]
                         ELSE None]
        /\ UNCHANGED <<now, policy, spec, upIds, flips>>

Start(j) ==
    /\ st[j] = "ASSIGNED"
    /\ st' = [st EXCEPT ![j] = "RUNNING"]
    /\ times' = [times EXCEPT ![j].start = now]
    /\ UNCHANGED <<now, policy, spec, place, upIds, flips, promise>>

\* The job ends; its row is not read again.
End(j) ==
    /\ st[j] = "RUNNING"
    /\ st' = [st EXCEPT ![j] = "ended"]
    /\ times' = [times EXCEPT ![j] = NoTimes]
    /\ place' = [place EXCEPT ![j] = Nowhere]
    /\ UNCHANGED <<now, policy, spec, upIds, flips, promise>>

\* A node is reaped or comes back; nothing foreseen before counts any more.
NodeFlips(n) ==
    /\ flips < MaxFlips
    /\ flips' = flips + 1
    /\ upIds' = IF n.id \in upIds THEN upIds \ {n.id} ELSE upIds \cup {n.id}
    /\ promise' = [j \in JobIds |-> None]
    /\ UNCHANGED <<now, policy, spec, st, times, place>>

Tick ==
    /\ now < MaxTime
    /\ Planned = {}
    /\ \A b \in HeldBack({}) : policy.backfill => promise[b.id] # None
    /\ \A j \in JobIds : st[j] = "ASSIGNED" => now < times[j].assigned + MaxLatency
    /\ \A j \in JobIds : st[j] = "RUNNING" /\ spec[j].walltime > 0
                            => now < times[j].start + spec[j].walltime
    /\ now' = now + 1
    /\ UNCHANGED <<policy, spec, st, times, place, upIds, flips, promise>>

TimelineNext == \/ \E j \in JobIds : Submit(j) \/ Start(j) \/ End(j)
                \/ Pass \/ Tick
                \/ \E n \in Cluster : NodeFlips(n)

TimelineSpec == TimelineInit /\ [][TimelineNext]_tvars

-----------------------------------------------------------------------------
(* Properties *)

\* What the pass in Dispatch relies on (PlanOutcomes there): a plan has at most
\* one decision for a job, on a node that is UP and in the job's partition,
\* with as many devices as asked for, all of the wanted type, held by no active
\* job and not given to two jobs (Plan, selectFit, pickDevices).
PlanIsSound ==
    LET D == Planned IN
    /\ \A d \in D : \E b \in PendingRows, n \in UpNodes :
          /\ b.id = d.job /\ n.id = d.node
          /\ b.partition \in {"", n.partition}
          /\ Cardinality(d.devs) = b.gpus
          /\ \A k \in d.devs : \E dev \in n.devices :
                dev.key = k /\ (b.gpuType = "" \/ b.gpuType \in dev.name)
          /\ \A o \in ActiveRows : o.node = n.id => o.devs \cap d.devs = {}
    /\ \A d, e \in D : d # e => /\ d.job # e.job
                                /\ d.node = e.node => d.devs \cap e.devs = {}

\* The active jobs of a node never need more CPUs or memory than it has, however
\* arrivals, ends and passes follow each other (buildFree, consume).
NoOvercommit ==
    \A n \in Cluster :
        LET here == {o \in ActiveRows : o.node = n.id}
        IN  CpusOf(here) <= n.cpus /\ MemOf(here) <= n.mem

\* A job is left out only if it has no room, or behind a job that could not be
\* placed and, with backfill, has a reservation (Plan).
LeftOutForCause ==
    LET D == Planned
        occ == ActiveRows \cup PlacedRows(D)
    IN  \A b \in LeftOut(D) :
            (\E n \in UpNodes : RoomBeside(b, n, occ))
                => policy.backfill /\ \E c \in HeldBack(D) : c # b /\ Ahead(c, b)

\* Jobs that ask for the same are placed in the order of priority, age and
\* arrival (effPriority, the sort in Plan).
LikeJobsInOrder ==
    \A d \in Planned : \A b \in LeftOut(Planned) :
        LET a == Row(d.job)
            Demand(r) == [r EXCEPT !.id = 0, !.priority = 0, !.submit = 0]
        IN  Demand(a) = Demand(b) => Ahead(a, b)

\* What a plan puts in front of the job with the reservation moves its earliest
\* start by no more than the time an agent may take to start a job, which
\* backfillAllowed does not count (Plan, reservationTime, backfillAllowed).
BackfillIsBounded ==
    LET D == Planned IN
    policy.backfill => \A b \in HeldBack(D) :
        LET early == EarliestStart(b, ActiveRows \cup PlacedRows(AheadOf(D, b)))
            late  == EarliestStart(b, ActiveRows \cup PlacedRows(D))
        IN  early <= late /\ late <= early + MaxLatency

\* Over many passes: the first job that was held back starts no later than the
\* first of these passes could foresee, plus the agents' latency for every pass
\* that put jobs in front of it, unless jobs ahead of it arrive or nodes change
\* (Plan, reservationTime, backfillAllowed).
ReservationSlides ==
    \A j \in JobIds : st[j] = "PENDING" /\ promise[j] # None
        => now <= promise[j].at + promise[j].slack

\* The claim of the code's own comment, that backfill never delays the job with
\* the reservation: it starts no later than the first pass that held it back
\* could foresee (Plan, reservationTime, backfillAllowed).
ReservationKept ==
    \A j \in JobIds : st[j] = "PENDING" /\ promise[j] # None => now <= promise[j].at
=============================================================================
