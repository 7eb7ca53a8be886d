-------------------------------- MODULE Plan --------------------------------
(***************************************************************************)
(* scheduler.Plan: which pending jobs are placed where, as a function of   *)
(* the time, the nodes, the active jobs, the pending jobs and the policy.  *)
(*                                                                         *)
(* Times are whole ticks.  A node is a record [id, up, partition, cpus,    *)
(* mem, devices]; ids are numbers in the order of the nodes' names and     *)
(* devices is a set of [key, name], the keys being numbers in the order of *)
(* the node's list.  The name of a device is the set of gpu_type strings   *)
(* it contains, so that the case-insensitive substring test is membership. *)
(* A job is a record [id, priority, submit, partition,                     *)
(* cpus, mem, gpus, gpuType, walltime, start, node, devs]; a start of      *)
(* NotStarted is the zero time, a walltime of 0 is unbounded.              *)
(***************************************************************************)
EXTENDS Integers, Sequences, FiniteSets, SequencesExt, FiniteSetsExt

CONSTANTS Forever,     \* ticks in the hundred years of an unbounded job
          NotStarted   \* the zero start time

ASSUME PlanAssumption == Forever \in Nat /\ NotStarted \notin Nat

-----------------------------------------------------------------------------
(* The free view of the nodes *)

\* subU32, subU64: what is left of a when b is taken away, never below zero.
subU(a, b) == IF b > a THEN 0 ELSE a - b

matchName(name, gpuType) == gpuType = "" \/ gpuType \in name

OnNodeOf(jobs, n) == {j \in jobs : j.node = n.id}

\* What jobs need together.
CpusOf(jobs) == MapThenSumSet(LAMBDA j : j.cpus, jobs)
MemOf(jobs)  == MapThenSumSet(LAMBDA j : j.mem, jobs)
DevsOf(jobs) == UNION {j.devs : j \in jobs}

\* removeFreeDevices: the devices whose key is not in use.
removeFreeDevices(devices, used) == {d \in devices : d.key \notin used}

\* Mutant: the view of a node ignores which devices its jobs hold.
freeNode_allDevices(n, active) ==
    LET here == OnNodeOf(active, n)
    IN  [n EXCEPT !.cpus = subU(@, CpusOf(here)), !.mem = subU(@, MemOf(here))]

\* A node less what its active jobs occupy.
freeNode(n, active) ==
    LET here == OnNodeOf(active, n)
    IN  [n EXCEPT !.cpus    = subU(@, CpusOf(here)),
                  !.mem     = subU(@, MemOf(here)),
                  !.devices = removeFreeDevices(@, DevsOf(here))]

buildFree(nodes, active) == [n \in {m \in nodes : m.up} |-> freeNode(n, active)]

\* Mutant: a job just placed leaves the CPUs and the memory as they are.
consume_devicesOnly(fn, job, keys) == [fn EXCEPT !.devices = removeFreeDevices(@, keys)]

\* consume: the same, for a job just placed on the node.
consume(fn, job, keys) == [fn EXCEPT !.cpus    = subU(@, job.cpus),
                                     !.mem     = subU(@, job.mem),
                                     !.devices = removeFreeDevices(@, keys)]

-----------------------------------------------------------------------------
(* Placing one job *)

Matching(devices, gpuType) == {d \in devices : matchName(d.name, gpuType)}

PartitionOK(job, n) == job.partition \in {"", n.partition}

\* Mutant: a job that needs all the CPUs that are left does not fit.
HasRoom_strict(n, job) == /\ PartitionOK(job, n)
                          /\ n.cpus > job.cpus
                          /\ n.mem >= job.mem
                          /\ Cardinality(Matching(n.devices, job.gpuType)) >= job.gpus

\* Whether a node with these resources can hold the job.
HasRoom(n, job) == /\ PartitionOK(job, n)
                   /\ n.cpus >= job.cpus
                   /\ n.mem >= job.mem
                   /\ Cardinality(Matching(n.devices, job.gpuType)) >= job.gpus

\* pickDevices: the first n devices of the wanted type, in list order.
pickDevices(devices, n, gpuType) ==
    LET keys == {d.key : d \in Matching(devices, gpuType)}
    IN  {k \in keys : Cardinality({l \in keys : l < k}) < n}

\* Mutant: the last CPU of a node is never given away.
Fitting_spareCPU(job, frees) == {n \in DOMAIN frees : HasRoom(frees[n], job) /\ frees[n].cpus > job.cpus}

\* selectFit: the nodes that take the job; the first by name is used.
Fitting(job, frees) == {n \in DOMAIN frees : HasRoom(frees[n], job)}

selectFit(job, frees) ==
    CHOOSE n \in Fitting(job, frees) : \A other \in Fitting(job, frees) : n.id <= other.id

-----------------------------------------------------------------------------
(* Reservation of the first job that does not fit *)

\* estEnd: when an active job is expected to end.
estEnd(now, j) ==
    IF j.walltime <= 0 THEN now + Forever
    ELSE Max({now, (IF j.start = NotStarted THEN now ELSE j.start) + j.walltime})

\* How many devices of the wanted type a job of node n holds; a device the node
\* no longer lists has the empty name, which only a job without a type accepts.
countJobMatching(j, n, gpuType) ==
    Cardinality({k \in j.devs : \/ gpuType = ""
                                \/ \E d \in n.devices : d.key = k /\ matchName(d.name, gpuType)})

\* nodeReservationTime: now, or the first expected end after which the node has
\* room, when the jobs are taken off in the order they end.
nodeReservationTime(now, blocked, n, active) ==
    LET here    == OnNodeOf(active, n)
        gone(t) == {j \in here : estEnd(now, j) <= t}
        cpusAt(S)  == subU(n.cpus, CpusOf(here)) + CpusOf(S)
        memAt(S)   == subU(n.mem, MemOf(here)) + MemOf(S)
        matchAt(S) == Cardinality(Matching(n.devices, blocked.gpuType))
                        - MapThenSumSet(LAMBDA j : countJobMatching(j, n, blocked.gpuType), here \ S)
        fits(S) == cpusAt(S) >= blocked.cpus /\ memAt(S) >= blocked.mem /\ matchAt(S) >= blocked.gpus
    IN  IF fits({}) THEN now
        ELSE Min({estEnd(now, j) : j \in {k \in here : fits(gone(estEnd(now, k)))}})

\* The nodes that can hold the job when they are empty.
Eligible(blocked, nodes) == {n \in nodes : n.up /\ HasRoom(n, blocked)}

\* reservationTime: the earliest over those nodes.
reservationTime(now, blocked, nodes, active) ==
    Min({nodeReservationTime(now, blocked, n, active) : n \in Eligible(blocked, nodes)})

\* Mutant: an unbounded job may be put in front of the reservation.
backfillAllowed_unbounded(now, job, resTime) == now + job.walltime <= resTime

\* backfillAllowed: the job ends before the reservation.
backfillAllowed(now, job, resTime) == job.walltime > 0 /\ now + job.walltime <= resTime

-----------------------------------------------------------------------------
(* The plan *)

\* effPriority: the priority and what it gained by waiting.
effPriority(j, now, ageWeight) == j.priority + ageWeight * Max({0, now - j.submit})

\* Mutant: age is not counted.
Before_noAging(a, b, now, ageWeight) ==
    \/ a.priority > b.priority
    \/ a.priority = b.priority /\ (a.submit < b.submit \/ (a.submit = b.submit /\ a.id < b.id))

\* The order of the pending jobs.
Before(a, b, now, ageWeight) ==
    LET pa == effPriority(a, now, ageWeight)
        pb == effPriority(b, now, ageWeight)
    IN  \/ pa > pb
        \/ pa = pb /\ (a.submit < b.submit \/ (a.submit = b.submit /\ a.id < b.id))

\* One job of the loop: place it, skip it for the reservation, or reserve.
PlanJob(acc, job, now, nodes, active, policy) ==
    IF Fitting(job, acc.frees) # {}
    THEN IF policy.backfill /\ acc.haveRes /\ ~backfillAllowed(now, job, acc.resTime)
         THEN acc
         ELSE LET n    == selectFit(job, acc.frees)
                  keys == pickDevices(acc.frees[n].devices, job.gpus, job.gpuType)
              IN  [acc EXCEPT !.decisions = @ \cup {[job |-> job.id, node |-> n.id, devs |-> keys]},
                              !.frees[n] = consume(@, job, keys)]
    ELSE IF policy.backfill /\ ~acc.haveRes /\ Eligible(job, nodes) # {}
         THEN [acc EXCEPT !.haveRes = TRUE,
                          !.resTime = reservationTime(now, job, nodes, active)]
         ELSE acc

\* The sorted jobs: job i has i - 1 before it.
InOrder(jobs, now, ageWeight) ==
    [i \in 1..Cardinality(jobs) |->
        CHOOSE j \in jobs : Cardinality({k \in jobs : Before(k, j, now, ageWeight)}) = i - 1]

PlanDecisions(now, nodes, active, pending, policy) ==
    FoldLeft(LAMBDA acc, job : PlanJob(acc, job, now, nodes, active, policy),
             [decisions |-> {}, frees |-> buildFree(nodes, active), haveRes |-> FALSE, resTime |-> now],
             InOrder(pending, now, policy.ageWeight)).decisions
=============================================================================
