# Skipper in TLA+

Skipper is a small cluster manager: a control plane with a SQLite store, a
scheduler, a web console and an event engine; agents on the nodes that report
metrics, poll for jobs and run them as processes; SSH tunnels for nodes that
offer nothing but SSH. This directory models its core in TLA+, checks it with
TLC on small instances and proves the results that matter most with TLAPS.

`tlc -config MCDispatch_faults.cfg MCDispatch` runs one check,
`tlapm DispatchProofs.tla` checks the proofs. `PROJECT.json` lists every run
with its properties, a mutant for each property, the source lines behind each
definition, the findings and the hazards.

## 1. The system

| Component | State | Operations | Talks to |
| --- | --- | --- | --- |
| Job table (`store/sqlite_jobs.go`) | one row per job: state, node, devices, times | create, assign, mark running, finish, cancel, list | scheduler, both services, detector |
| Node table (`store/sqlite.go`) | one row per node: state, devices, last heartbeat in seconds | register, heartbeat, mark stale DOWN, list | agents, reaper, scheduler |
| Scheduler (`scheduler/`) | none between passes | a pass: read nodes, active and pending jobs, `Plan`, assign one by one | both tables |
| Agent (`agent/agent.go`) | node id | register with backoff, report, poll | control plane over gRPC |
| Executor (`agent/executor.go`) | map of running jobs, a goroutine, a timer, a watcher and a log pump per job | start, cancel, run, kill, report | the job's process; control plane |
| Job logs (`server/joblog.go`, readers) | one file per job | append, follow | executor, clients, console |
| Reaper (`server/server.go`) | the ticker | a round: read nodes, announce, mark, hand over to the diagnoser | node table, events |
| Diagnoser (`server/diagnose.go`) | time of the last diagnosis per node | check, run | SSH, events, provisioning |
| SSH tunnel and provisioning (`transport/`) | one connection and listener per node; pid file and binary on the node | dial, listen, keep alive, upload, launch, probe | the node's sshd |
| Event engine (`notify/engine.go`, `rule.go`) | cooldown per rule and key | emit, match, allow, deliver | notifiers, event tables |
| Collectors (`collector/`) | none | collect, parse the output of nvidia-smi and npu-smi | the agent |
| Metrics store and views (`metrics/store.go`, `server/clustersvc.go`, `webserver.go`, `prometheus.go`) | the last snapshot of each node, in memory | put, get, list, scrape | agents, skctl, browser, Prometheus |
| Process and configuration (`server/server.go`, `config/`, `cmd/`) | listeners, loops | load, start, stop | operator |
| Users' side (`cmd/skctl`, the console) | none | submit, follow a log, view | both services |
| Detector (`notify/detector.go`) | disks over the threshold, idle devices since when | scan | metrics store, tables, engine |

What is hard in it:

* *Reads that are old when they are used.* A pass plans on three separate reads;
  an agent acts on the answer to a poll item by item; a round of the reaper
  announces what it read and marks what it finds.
* *Several actors on one row.* Client, scheduler, agent and reaper write the
  job and node tables; a job that is being cancelled is in two lists at once.
* *One-shot calls.* Reports of a job's end, appends to its log and deliveries of
  notifications are made once.
* *Crashes.* Executor, cooldowns, diagnoser and detector keep their state in
  memory; the tables, the processes on the nodes and the remote listener live on.
* *Stopping.* Three doors close one after the other and the last waits for all
  calls inside, some of which wait for callers that are shut out.
* *Time.* Walltimes, reservations, heartbeats in whole seconds, cooldowns.

What makes it correct, and where it is stated:

* no device is held by two jobs, and the table only ever grants what is free
  (`DeviceExclusive`, `AllocationRefined`);
* a RUNNING row has a live executor behind it, no agent works on a CANCELLED
  one, an ended one has its event (`RunningIsWatched`, `CancelledIsDropped`,
  `EndIsAnnounced`);
* jobs are picked up, end, and can be cancelled (`AssignedIsPickedUp`,
  `RunningEnds`, `CancelTakesEffect`);
* a plan is sound, complete and in order, and backfill delays the job with the
  reservation by no more than agents take to start jobs (`PlanIsSound` ...
  `BackfillIsBounded`, `ReservationSlides`);
* lines of a log are stored once and in order, and the log is complete when the
  end is reported, up to what handlers of failed calls still write
  (`LinesOnceInOrder`, `EndedLogIsSealed`, `TailIsDelivered`);
* the scheduler sees the hardware there is, the views agree and are not older
  than the last report that was answered, a scrape fails for nothing but chips
  under one NPU index (`SchedulerSeesHardware`, `AckedIsShown`,
  `OnlyChipsCollide`);
* answers to submissions are true and jobs run with what was asked for, as far
  as the numbers fit (`AnswersAreTrue`, `RunsAsAsked`);
* nobody joins the calls a stop drains, a stop comes to its end, and an agent
  gets its reports through in the end (`NobodyJoinsTheDrain`, `StopCompletes`,
  `ReportsGetThrough`);
* silence of a node is noticed, announced and diagnosed in time, and only then
  (`DownIsAnnounced` ... `SilenceIsDiagnosed`);
* a node runs one agent, gets one, and its tunnel comes back (`AtMostOneAgent`,
  `BootServes`, `TunnelRecovers`, `DeathIsRepaired`);
* notifications are throttled per key, and by nothing else (`OncePerCooldown`,
  `NobodyIsLeftOut`); the last word about a disk is right (`DiskIsTold`), and a
  device called idle is (`IdleIsSteady`).

## 2. The modules

| Module | Models | State and actions |
| --- | --- | --- |
| `Allocation` | what the job table promises about devices | phase of a job and the units it holds; arrive, grant, release, withdraw |
| `Dispatch` | the path of a job through store, scheduler pass, poll and executor | `state`, `alloc`, `up`, `inv`, `events` are the tables; `schedPc`, `freeDevs`, `freeUp`, `decisions` the pass; `poll`, `pollRun`, `pollCancel`, `exec` the agents. Every SQL statement is one step; everything that reads twice, or reads and later writes, is split |
| `Plan` | `scheduler/plan.go` as functions | free view, device selection, order with aging, reservation, backfill; nodes, jobs and devices are sets whose elements carry their place in the list (`id`, `key`) |
| `Timeline` | whole passes over a clock | jobs arrive, are placed by `Plan`, start up to `MaxLatency` later, end; nodes go down and come back |
| `JobLogs` | a job's output from its pipe to the readers | the processes that hold the pipe, the pump with its chunk, the file, handlers of appends whose caller has gone (`stray`) and the lines they wrote (`late`), the end of `run`, readers with or without follow |
| `NodeHealth` | agents' reports, the reaper's rounds, the diagnoser's check | a clock in fractions of a second; a round is four steps |
| `Provision` | one SSH node | tunnel, remote listener, provisioners at their steps, agents and pid file on the node |
| `Notify` | `Engine.Emit` by several goroutines | the call each is in, the cooldown map, the event table with its list, the deliveries |
| `Detector` | the scan of one node with a disk and a device | the world, the latest snapshot, the detector's memory, the events |
| `Alerts` | the three parts that raise or send events, side by side | `NodeHealth`, `Detector` and `Notify`; a rigid `watched` picks the one to which things happen |
| `Collectors` | `collector/` and the conversions to an inventory, as functions | the output of the vendors' tools is given, the parsers are folds over its lines |
| `Lifecycle` | configuration, start, panics, kill and stop of the control plane | `phase`, `doors`; a rigid `scene` holds the configuration and who takes part |
| `Reporting` | one node's row and snapshot, from the agent to the views | `row`, `snaps`, the agent, handlers of `ReportMetrics` at their step, a viewer between its two reads |
| `Desk` | submissions and followers, by skctl and the console | the client with its answer, calls at their step, rows, the follower |
| `ControlPlane` | `Lifecycle` composed with `Reporting` and `Desk` | a process that goes away takes calls and snapshots with it; a stop waits for the calls of gRPC |
| `DispatchProofs`, `JobLogsProofs`, `NodeHealthProofs`, `ProvisionProofs`, `NotifyProofs`, `DetectorProofs`, `ControlPlaneProofs`, `TimelineProofs` | theorems about the module of that name and those it is made of (`ControlPlaneProofs`: also `Desk`, `Reporting`, `Collectors`; `TimelineProofs`: also `Plan`) | |

`Dispatch` implements `Allocation` (`AllocationRefined`, with `PhaseOf` and
`Ledger` as the refinement mapping). It uses a plan only through its contract
`PlanOutcomes`; `PlanIsSound` shows that the algorithm in `Plan` keeps that
contract. `NodeHealth` decides when a diagnosis starts, `Provision` what it does.

A *mutant* is a definition such as `MarkStaleDown_double` that changes one
operation as a plausible mistake would; in its place the property named in
`PROJECT.json` fails. Mutants are used by no run.

`TypeOK` of `Dispatch` is checked and proved. The type predicates of the other
modules (`LogTypeOK` and so on) say what their variables range over, for the
reader and as the first conjunct of invariants to be proved; no run lists them.

## 3. The runs

Passing runs:

| Run | Instance | Shows |
| --- | --- | --- |
| `contention` | 2 jobs, 1 node, 1 device, 1 restart of the control plane, symmetric jobs | no device held twice, the table implements `Allocation` |
| `faults` | 1 job with walltime, 1 failing call or statement, 1 agent crash, 1 restart, inventory that may vanish | running rows are watched, no agent works on a cancelled job, ends have their events; if its timer fires an ASSIGNED job is picked up and a RUNNING one ends; a cancelled job that the executor knows ends in any case |
| `plan` | 3 jobs of mixed demands and walltimes, 2 unequal nodes, backfill with aging and neither, 1 change of a node, jobs start up to 1 time unit late | plans are sound, do not overcommit, leave nothing out without cause, keep the order; backfill moves the reservation by at most the latency, per plan and per pass |
| `logs` | 3 lines, 2 failing appends whose handlers may write at any later time, a follower and a plain reader, a background child that may hold the pipe for ever | lines once, and in order but for such handlers; only the tail missing while no call fails; nothing else is added after the end, the tail is delivered; followers return, the end is reported |
| `alerts` | reaper: 1 node, 16 ticks of half a second, 2 lost reports, 1 death, 1 broken round, 1 restart; detector: 5 time units, 3 changes of disk or use, 1 job, the node DOWN once, 1 restart; engine: 2 goroutines, 3 events, 2 rules with cooldowns, 1 failure of a delivery or an insert, 1 restart | silence is announced before it is marked, noticed and diagnosed in time, healthy nodes stay UP; idle means idle at every scan for the whole duration, the last event about the disk is right; once per cooldown, every other event is tried, also when it could not be stored |
| `provision` | with and without `/proc`; 2 deaths, 1 outage, 1 cut, 1 failing session, 1 restart | with `/proc` one agent; boot delivers one, the tunnel comes back; without `/proc` a killed agent is launched again |
| `plane` | 7 scenes; 2 starts, 1 kill, 2 starts of the agent, 1 failing statement, 1 broken connection, 1 lost database, a node with two chips under one NPU index, collections with and without a working npu-smi; 2 submissions out of 9 kinds, 1 failing insert | the inventory is right, views agree, nothing but such chips collides in a scrape, answers are true, jobs run as asked; nobody joins a drain, a stop ends; reports get through |

The bounds are small because each hazard needs few actors: two jobs for one
device, one job against its own late messages, one node against one round, two
goroutines for one key. One fault of each kind (two where a retry may fail as
well) reaches every handler's error path; coverage shows that every action and
every disjunct fires. Counters of faults are the only thing that keeps the
state spaces finite, apart from clocks, which are long enough for two outages
and for an idle period before and after a restart or a use (`alerts`), or a
reservation to be due and missed (`plan`; `delayed` misses one on the same
instance). In `alerts` reaper, detector and engine take turns at being watched,
since they share nothing but calls of `Emit`. In
`plane` the agent with its viewer, the users, and the odd configurations each
have their scene: they only meet in the process, and in separate scenes their
states add up instead of multiplying. The times of snapshots saturate at
`MaxStamp`, so that agents report for ever; two collections, one with and one
without npu-smi, tell an old inventory from a new one. A second is 4 ns, int64
ends at 127, uint64 at 255, and 32 bits hold 16 values: walltimes and
sizes below 0, in range and at or beyond a limit, and a count and a priority
that need more than 32 bits, are among the 9 submissions. Deadlock is checked in
`Dispatch`, where agents poll for ever; elsewhere jobs end and clocks stop at their bound.

Fairness. `Dispatch`: polls repeat, each goroutine of `run` goes on, a kill
takes effect (SIGKILL follows SIGTERM after 5 s), and the
reaper marks a node whose agent is gone. Nothing is assumed of the job's
process, of clients or of faults; that an armed walltime timer fires is a
premise of the two properties that need it (`TimerFires`), so that
`CancelTakesEffect` also holds for a job that would run for ever. `JobLogs`: the pump, `run` and a reader's loop
go on; writers may hold the pipe for ever, and a handler left behind may never
write. `Provision`: the goroutines go on, sshd returns and frees the port of a
dead connection, an agent that can report does. Dialling and uploads have a
timeout and retries a backoff, but a command in a session (`runCommand`,
`provision.go:82`) and the answer to a keepalive (`ssh.go:147`) have none: that
they fail rather than hang for ever is left to TCP and assumed by the fairness.
`Alerts`: the detector's ticker ticks, agents report; nothing is assumed of the
reaper, whose rounds are bounded by its clock, nor of the engine. In
`undelivered` a call of `Emit` goes on until it returns, so that the violation
is not a call that stopped. `ControlPlane`: handlers and the
agent's loops go on, `Shutdown` returns after three seconds at the latest,
`GracefulStop` when the calls have ended; nothing is assumed of operators, users
and jobs. All of it is weak fairness.

Runs that end in a violation state what a comment or a doc says and the code
does not do:

| Run | Says | What happens |
| --- | --- | --- |
| `stuck` | a cancelled job ends | cancelled between assignment and poll, a job stays CANCELLING for ever |
| `isolation` | live processes share no device | a CANCELLING job's device is granted while its process runs |
| `delayed` | backfill never delays the job with the reservation | the walltime of a backfilled job counts from its start on the node, which is up to a poll later than the pass thinks |
| `undelivered` | failed deliveries are retried and none is lost | a failed delivery is stored as failed and never tried again |
| `killed` | a killed agent is launched again | the `/proc` scan finds the command that scans, so every agent counts as alive |

Other behaviours a reader of the docs may not expect; the models have them, and
the properties above are stated around them:

* `FinishJob` has no condition on the state: an old answer to a poll can start a
  job again after its end, and the second end overwrites the first.
* RUNNING jobs of a node that never comes back stay RUNNING and keep their
  devices (`docs/TRANSPORT.md:206` speaks of requeueing or failing them).
* An agent that crashes leaves the processes of its jobs behind (`Setpgid`,
  `executor.go:106`), and nobody watches or kills them: when such a job is
  started again and cancelled, the first process runs on under a CANCELLED row.
  `CancelledIsDropped` is about agents, not about such orphans.
* When the handler of an end is broken off after `FinishJob`, or the read or the
  insert of the event fails (`agentjobs.go:74`, `engine.go:57`), the job has ended
  and has no event; the report is answered as if it had. `EndIsAnnounced` leaves
  these ends out (`unsaid`).
* A job that starts some time after its assignment ends that much later than
  `backfillAllowed` counts on, in every pass that backfills: the reserved job
  slides by up to a latency for each of them (`ReservationSlides`).
* `AppendLogs` ignores its context: when the call fails for the agent, its handler
  may still write, behind later lines or after the end was reported, and a
  follower that has returned misses it.
* A follower that finds no log file, and then the job ended, returns with
  nothing; what is in the pipe when `Wait` returns is lost.
* `emitNodeDownEvents` compares exact times and `MarkStaleDown` whole seconds: a
  round may announce a node and leave it UP until the next.
* Without `/proc` the boot goroutine and a diagnosis can provision together and
  launch two agents.
* A failed delivery keeps its cooldown, so that the events that follow are not
  tried either.
* Every scan of a device that stays idle stores another event; only the
  notifications are throttled.
* A restart between disk.full and disk.recovered loses the second.
* A stop of the control plane hangs while `skctl logs -f` follows a job that has
  not ended: `GracefulStop` waits for the stream, the stream for the job's end,
  and the agent's report of it is refused. `signal.NotifyContext` has caught
  the signal and catches the next ones too; only a kill or the user helps.
  `StopCompletes` is stated around it.
* An interval of zero in a configuration file panics, on the server at once and on
  the agent after it has registered.
* A vendor's tool that fails once empties the node's devices for the scheduler
  until the next report (`Inventory`).
* When a connection breaks, the handler left behind may write an older snapshot
  over a newer one; `AckedIsShown` excludes broken connections.
* A walltime below a second is stored as 0, no limit. skctl accepts negative
  sizes and walltimes: a negative size is stored as 0 or refused, depending on
  the machine's conversion (a conversion that goes through int64 has the high bit
  set, and `database/sql` refuses that).
* skctl cuts counts and priority to 32 bits: `--cpus 4294967297` is stored as 1,
  `--gpus 4294967296` as 0, without a word. The console refuses such numbers.
* npu-smi lists the chips of one NPU under the same index, and `parseNpuSmi` keeps
  the index and no uuid: the scheduler sees several devices of one index, their
  series have equal labels and the whole scrape fails, for every node.
* After skctl's deadline the job may or may not exist; submitting again may make
  two.
* `skctl queue` prints the first 8 characters of a job's id; `cancel` and `logs`
  want all 16.
* The owner told of an idle device may have held it for less than the duration.

## 4. The proofs

TLAPS proves, for every value of the constants that satisfies the modules'
assumptions, and therefore without the bounds of the runs:

* `TypeCorrect` (`Spec => []TypeOK`). `TypeOK` alone is not inductive: what
  `FinishJob` writes is the outcome in the executor's entry, so `TypeInv` adds
  `Reported`: an executor about to report an end has classified it.
* `DevicesAreExclusive` (`Spec => []DeviceExclusive`). The table alone says
  nothing about a pass that is under way. `ExclusiveInv` adds that the devices
  the pass still counts as free are held by no active job that existed when it
  read (`ViewIsFree`), that its decisions are free and disjoint
  (`DecisionsAreFree`) and that there are none outside a pass
  (`DecisionsInPass`). The argument: only the pass makes jobs active, everything
  else only frees devices, so a view that was right stays right. `QuietStep`
  covers all steps that leave pass and active jobs alone.
* `TableRefinesAllocation` (`Spec => AllocationRefined`). From `ExclusiveInv`
  and `OnlyAssignedRun` (what agents, polls and executors know of was assigned
  once, so that no late report touches a job that never was): each step maps to
  a step of `Allocation` or to a stutter; `SamePhases` and `OnePhase` reduce
  that to the one job a step writes.
* `RunningHasItsGoroutine`, `EveryEndHasItsEvent` and `CancelledStaysDropped`
  (`RunningIsWatched`, `EndIsAnnounced`, `CancelledIsDropped`). The lemmas
  `JobMoves` and `PollMoves` sum up once what any step does to one job and to
  the answers of polls; the three proofs only look at those moves.
  `RunningIsWatched` is inductive with `TypeInv`. `EndIsAnnounced` needs
  `FinishingIsWritten`: between `FinishJob` and the event nobody else writes the
  row, unless the end counts as unsaid. `CancelledIsDropped` needs `CancelInv`: an answer holds jobs of its own node
  only (`PollsOfNode`), a cancellation on its way was written before it left and
  its row is never ASSIGNED again (`CancelKnown`), and an executor that was told
  to stop is in no list of starts (`NoRestart`, where the order of starts and
  cancellations within an answer is used).
* `EndSealsLog`, `TailDelivered` and `LogIsInOrder`. `LogInv` says that a run that
  has come to its report has seen the pump finish (`Sealed`) and that a reader in
  its last drain has seen the end (`FinalAfterEnd`); after the end the file grows
  by chunks of handlers left behind only (`GrowsLate`), so that drain reaches the
  last line that is not theirs. For the order of lines, `LineInv`: what the file,
  the chunk and the pipe hold are apart and rise (`InTransit`, `Ordered`), up to
  late lines; so do the chunks of handlers left behind, which share no line with
  the rest (`StrayOrdered`); and there are no gaps while no append failed
  (`Complete`).
* `DownWasAnnounced`, `HealthyIsLeftAlone`, `SilenceIsBounded` and
  `LongSilenceIsDiagnosed`, about `NodeHealth`. What a round marks was among what
  it read (`StaleWasRead`); a row is as fresh as the last report that arrived
  (`Prompt`); rounds follow each other in a reap interval and ask for every
  node that is late (`Rhythm`, `Asked`); the diagnoser's memory is of the current
  outage (`MemoryIsCurrent`). The comparisons in whole seconds against times in
  ticks are in five lemmas of their own. Two have hypotheses on the
  configuration, which the code does not check and its defaults satisfy with
  ease: the timeout is at least a report interval and a second (30 s against
  10 s), and `after_down` at least a reap interval, or the length of a round,
  and a second (60 s against 10 s).
* `NoSecondAgent` and `ScanHidesDeaths`, about `Provision`. With `/proc` every
  diagnosis takes the agent for alive, so only the boot goroutine provisions
  (`OnlyBootProvisions`), and it launches only what it could upload, which a
  running binary prevents (`UploadedIsNotRunning`). The second theorem is the
  general form of what the run `killed` shows.
* `OneNoticePerCooldown` and `EveryRuleServed`, about `Notify`. The map holds a
  pass of every rule and key that is not older than the last one (`PassIsStamped`)
  and passes of a key are a cooldown apart (`PassesAreSpaced`); what a call has
  left behind is tried or throttled (`StampIsTried`, `BehindIsPassed`,
  `HandledIsPassed`); a try may fail, and `undelivered` shows that it then stays
  so. The map is keyed by the rule's name, and the code does
  not check that names differ: the first theorem assumes that rules of one name
  have one cooldown, the second that names are distinct, as those of
  `DefaultRules` are. `NotifyAssumption` asks for at least one rule: `New` takes
  `DefaultRules` for an empty list.
* `IdleOnlyWhenSteady` and `DiskMemoryIsTrue`, about `Detector`. The time an idle
  device is remembered from is not before the last scan that saw it in use
  (`IdleIsFresh`); the memory of a full disk is the last event about it.
* `TheyAreToldTheTruth` and `TheyGetWhatTheyAskedFor`, about `Desk` inside the
  composed `ControlPlane`. `SubmitInv`: a try has one call, which knows whether its
  row is there (`CallsAreTrue`), and the client waits for the call of its last
  try (`OwnCall`). The conversions are lemmas of their own, for any width of
  int64 and uint64 and any length of a second: `TimerFacts` (truncation,
  multiplication and wrap give no longer timer), `SizeFacts` (what is out of
  range is refused or 0), `Int32Facts` (what fits 32 bits is kept).
* `DrainTakesNobodyIn`, about the stop of `ControlPlane`: a drain is not prolonged by
  newcomers because every door is closed first (`ClosedFirst`).

* `ReportsAreInOrder`, `WhatWasAckedIsShown`, `TheSchedulerSeesHardware` and
  `NothingElseCollides`, about `Reporting` and `Collectors` inside `ControlPlane`.
  `ReportInv`: while no connection broke there is one handler at a time
  (`OneCall`), a handler between its two writes has changed the row and not the
  snapshot (`HalfApplied`), what was acknowledged is in the snapshot
  (`AckedIsKept`), nothing is from the future, and between reports row and
  snapshot are of one report (`RowMatchesSnap`). The parsers of nvidia-smi,
  npu-smi, the memory table and the disks are loops: for each, an invariant of
  the loop after k lines (`Lists`, `Mounts`) shows what it returns for any
  number of cards and chips, whether or not chips share an index, and the
  theorems read it off. Of nvidia-smi distinct indices are assumed.
* `TimelineTypes`, `PlansAreSound` and `LikeJobsKeepTheirOrder`, about `Plan`
  inside `Timeline`. A plan is a *trace* of turns (`Trace`): every pending job in
  order, and each turn places the job, skips it for the reservation or blocks
  (`Places`, `Skips`, `Blocks`). `SoundAcc` after each turn: the views are parts
  of the nodes without devices of active jobs, decisions are disjoint. `Shrinks`:
  views only shrink, so a job like one that was left out finds no room either.
* `NodesAreNotOvercommitted` and `NothingIsLeftOutWithoutCause`. `Accounts`: what
  a view has left and what its jobs need add up to what the node has, where sums
  over sets are shown to follow the elements (`CpusOfFacts`, `MemOfFacts`). So a
  plan never overdraws a node, and room beside all jobs is room in the last view.
* `ActiveJobsAreApart` and `BackfillDelaysLittle`.
  `WorldInv`: no device is held twice, active jobs hold devices of their node, none
  waits longer for its start than the latency or runs longer than its walltime.
  From it, `Reserved`: `reservationTime` is not after any time by which
  enough jobs of some node have ended, although it counts free devices
  and devices given back separately. Jobs put in front of the reserved one end
  before that time, plus the latency that `backfillAllowed` does not know of. So
  for any `MaxLatency` a plan moves the earliest start of the job held back by no
  more than `MaxLatency`.
* `ReservationsSlideLittle`, the same over any number of passes, for any
  `MaxLatency`. `KeptInv`: a job with a promise is the first that could run, and
  when the promise with its slack is due there is room for it beside the jobs
  that will not have ended (`Kept`). Arrivals that overtake it void the promise,
  starts and ends only give room, a pass puts in front of it only what ends in
  time or a latency later, which it adds to the slack, and the clock does not
  pass a promise, since by `LeftOutForCause` a first job with room is placed.
  Hypothesis: `MaxTime < Forever`, the clock stays below the hundred years an
  unbounded job is taken to run.

Loops and sums are proved by induction without a predicate as parameter: the set
of the counterexamples is a set of naturals and has a least element (`LeastNat`,
from the well-foundedness of `<`), and a step leads from the one before to a
contradiction. Finite sets are counted down by their cardinality in the same way.

Only model-checked: every liveness property, since fairness and `ENABLED` are out
of the prover's reach. Every invariant of the passing runs is also a theorem.

## 5. What is left out

* CPUs and memory are in `Plan` and `Timeline` only; `Dispatch` keeps devices.
* Integers are unbounded in `Plan`, with the clamping at zero of `subU32` and
  `subU64`; the widths of walltimes, sizes, counts and priorities are in `Desk`. The rounding of
  `d.Seconds()` for durations of many years is left out.
* That `database/sql` refuses unsigned integers with the high bit set is taken
  from that package (`Storable`).
* Process ids: a kill reaches the job's own process (`Dispatch`); the pid file of
  `Provision` names agents only, not a process that got the id later.
* Errors of the store that the code only logs: failing inserts of
  notifications, a failing `AssignJob` (the decision is dropped, as when the job
  is no longer pending).
* In `NodeHealth` a round reads the nodes at the instant of its cutoff; the
  DRAIN state is never written by the code and left out.
* In `Provision` the scp protocol is an upload that is refused, breaks off or
  succeeds; a process that runs the binary makes it fail (the kernel's
  ETXTBSY). Keys, host keys and copied bytes are left out.
* In `Collectors` the readings that only pass through (utilization, temperature,
  power, load) are left out. nvidia-smi numbers its cards differently; chips of an
  NPU may share an index. `Dispatch`, `Plan` and `Timeline` take the devices of a
  node to be distinct, so what the scheduler does with chips of one index is not
  covered.
* In `Reporting` there is one node; names, partitions and labels are left out.
  Views before the first registration are empty. A lost database (`StoreLost`)
  empties the node's row; the job rows of the same file are in `Desk`, which has
  its own scene, so that nobody asks for them after the loss.
* In `Timeline` the capacities of a node do not change, so that `subU32` and
  `subU64` never clamp there.
* The tables of `skctl` and the JSON of the console are modelled by the devices
  they count; `queue`, `events` and `notifications` print what one query
  returned, newest first up to a limit; these lists are left out.
* The built-in rules (`DefaultRules`) are data; `Rules` stands for any.
* The browser's part of the console, static files and generated protobuf code,
  which is more than a third of the lines under `src/`.

## 6. Plan

Done: inventory, `Dispatch` with its abstraction, `Plan` with `Timeline`,
`JobLogs`, `NodeHealth`, `Provision`, `Notify`, `Detector`, `Alerts`, and `ControlPlane`
with `Lifecycle`, `Collectors`, `Reporting` and `Desk`; theorems about all of
them.

Next, in this order:

1. Model the executor's walltime and kill timers on a clock, so that a stop in
   time can be stated.
2. Model two agents of one name in `Dispatch`, the consequence of provisioning
   twice.
3. Let the capacities of nodes change in `Timeline`, so that the clamp of `subU32`
   and `subU64` acts, and give chips of one NPU one index there.
