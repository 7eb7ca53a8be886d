------------------------------ MODULE Detector ------------------------------
(***************************************************************************)
(* The detector of the control plane on one node with one disk and one     *)
(* device: it scans the latest snapshot of the node's metrics, tells when  *)
(* the disk passes the threshold and when it is below again, and tells     *)
(* when the device has been idle for long, with the owner of the job that  *)
(* holds it.                                                               *)
(***************************************************************************)
EXTENDS Integers

CONSTANTS Owners,       \* owners of jobs
          NoOwner,      \* of a device that no job holds
          NoTime,        \* no time
          IdleDuration, \* device_idle_duration, in time units
          ScanInterval, \* detector.interval, in time units
          MaxClock,      \* bound: time units
          MaxChanges,   \* bound: times the disk or the device passes its threshold
          MaxJobs,      \* bound: jobs on the device
          MaxDowns,     \* bound: times the node is marked DOWN
          MaxDetRestarts   \* bound: restarts of the control plane

ASSUME DetectorAssumption ==
    /\ NoOwner \notin Owners /\ NoTime \notin Int
    /\ IdleDuration \in Nat /\ ScanInterval \in Nat \ {0}
    /\ MaxClock \in Nat /\ MaxChanges \in Nat
    /\ MaxJobs \in Nat /\ MaxDowns \in Nat /\ MaxDetRestarts \in Nat

VARIABLES
    clock,
    disk, busy,    \* the node: disk at or over the threshold, device in use
    snap,          \* the latest snapshot in the metrics store
    up,            \* whether the node is UP in the table
    holder,        \* the owner of the active job that holds the device
    scanner,       \* where the scan is
    active,        \* the owner the scan read
    nextScan,      \* when the next scan begins at the latest
    diskFull,      \* the detector's memory of the disk
    idleSince,     \* the detector's memory of the device
    diskTold,          \* the last event about the disk
    idleEvent,     \* the last event about the device: its owner and time
    lastBusy,      \* history: when a scan last saw the device in use, or the detector started
    changes, jobs, downs, detRestarts

worldVars  == <<disk, busy>>
tablesRead  == <<snap, up, holder>>
memory     == <<diskFull, idleSince>>
detBounds  == <<changes, jobs, downs, detRestarts>>
detVars    == <<clock, worldVars, tablesRead, scanner, active, nextScan, memory, diskTold, idleEvent,
                lastBusy, detBounds>>

NoSnapshot == [disk |-> FALSE, busy |-> FALSE, there |-> FALSE]
NoEvent    == [owner |-> NoOwner, at |-> NoTime]

Snapshots == [disk: BOOLEAN, busy: BOOLEAN, there: BOOLEAN]

DetTypeOK ==
    /\ clock \in 0..MaxClock
    /\ disk \in BOOLEAN /\ busy \in BOOLEAN
    /\ snap \in Snapshots
    /\ up \in BOOLEAN
    /\ holder \in Owners \cup {NoOwner}
    /\ scanner \in {"idle", "listed", "check"}
    /\ active \in Owners \cup {NoOwner}
    /\ nextScan \in 0..MaxClock + ScanInterval
    /\ diskFull \in BOOLEAN
    /\ idleSince \in 0..clock \cup {NoTime}
    /\ diskTold \in {"nothing", "disk.full", "disk.recovered"}
    /\ idleEvent \in [owner: Owners \cup {NoOwner}, at: 0..clock \cup {NoTime}]
    /\ lastBusy \in 0..clock
    /\ changes \in 0..MaxChanges /\ jobs \in 0..MaxJobs
    /\ downs \in 0..MaxDowns /\ detRestarts \in 0..MaxDetRestarts

DetInit ==
    /\ clock = 0
    /\ disk = FALSE /\ busy = FALSE
    /\ snap = NoSnapshot /\ up = FALSE
    /\ holder = NoOwner
    /\ scanner = "idle" /\ active = NoOwner /\ nextScan = ScanInterval
    /\ diskFull = FALSE /\ idleSince = NoTime
    /\ diskTold = "nothing" /\ idleEvent = NoEvent /\ lastBusy = 0
    /\ changes = 0 /\ jobs = 0 /\ downs = 0 /\ detRestarts = 0

-----------------------------------------------------------------------------
(* The node and the other parts of the control plane *)

DiskChanges ==
    /\ changes < MaxChanges
    /\ changes' = changes + 1
    /\ disk' = ~disk
    /\ UNCHANGED <<clock, busy, tablesRead, scanner, active, nextScan, memory, diskTold, idleEvent,
                   lastBusy, jobs, downs, detRestarts>>

UseChanges ==
    /\ changes < MaxChanges
    /\ changes' = changes + 1
    /\ busy' = ~busy
    /\ UNCHANGED <<clock, disk, tablesRead, scanner, active, nextScan, memory, diskTold, idleEvent,
                   lastBusy, jobs, downs, detRestarts>>

\* ReportMetrics: the snapshot is replaced and the node is UP.
ReportMetrics ==
    /\ snap' = [disk |-> disk, busy |-> busy, there |-> TRUE]
    /\ up' = TRUE
    /\ UNCHANGED <<clock, worldVars, holder, scanner, active, nextScan, memory, diskTold, idleEvent,
                   lastBusy, detBounds>>

NodeMarkedDown ==
    /\ up /\ downs < MaxDowns
    /\ downs' = downs + 1
    /\ up' = FALSE
    /\ UNCHANGED <<clock, worldVars, snap, holder, scanner, active, nextScan, memory, diskTold, idleEvent,
                   lastBusy, changes, jobs, detRestarts>>

JobAssigned ==
    /\ holder = NoOwner /\ jobs < MaxJobs
    /\ jobs' = jobs + 1
    /\ holder' \in Owners
    /\ UNCHANGED <<clock, worldVars, snap, up, scanner, active, nextScan, memory, diskTold, idleEvent,
                   lastBusy, changes, downs, detRestarts>>

JobEnds ==
    /\ holder # NoOwner
    /\ holder' = NoOwner
    /\ UNCHANGED <<clock, worldVars, snap, up, scanner, active, nextScan, memory, diskTold, idleEvent,
                   lastBusy, detBounds>>

-----------------------------------------------------------------------------
(* The scan *)

\* ListNodes: a node that is not UP is not looked at.
ListNodes ==
    /\ scanner = "idle"
    /\ nextScan' = clock + ScanInterval
    /\ scanner' = IF up THEN "listed" ELSE "idle"
    /\ UNCHANGED <<clock, worldVars, tablesRead, active, memory, diskTold, idleEvent, lastBusy, detBounds>>

\* The table cannot be read: nothing is scanned until the next tick.
ListNodesFails ==
    /\ scanner = "idle"
    /\ nextScan' = clock + ScanInterval
    /\ UNCHANGED <<clock, worldVars, tablesRead, scanner, active, memory, diskTold, idleEvent, lastBusy,
                   detBounds>>

\* Who holds the device, for allocationOf; an error passes for no active jobs.
ListActiveJobs ==
    /\ scanner = "listed"
    /\ scanner' = "check"
    /\ active' \in {holder, NoOwner}
    /\ UNCHANGED <<clock, worldVars, tablesRead, nextScan, memory, diskTold, idleEvent, lastBusy, detBounds>>

\* Mutant: the memory of a full disk is not deleted.
checkDisks_keeps ==
    /\ diskTold' = CASE snap.disk /\ ~diskFull -> "disk.full"
                 [] ~snap.disk /\ diskFull -> "disk.recovered"
                 [] OTHER -> diskTold
    /\ diskFull' = (diskFull \/ snap.disk)

\* An event each time the disk passes the threshold, up or down.
checkDisks ==
    /\ diskTold' = CASE snap.disk /\ ~diskFull -> "disk.full"
                 [] ~snap.disk /\ diskFull -> "disk.recovered"
                 [] OTHER -> diskTold
    /\ diskFull' = snap.disk

\* Mutant: a device in use keeps the time since when it was idle.
DeviceBusy_keeps ==
    /\ snap.busy
    /\ lastBusy' = clock
    /\ UNCHANGED <<idleSince, idleEvent>>

\* A device in use is forgotten.
DeviceBusy ==
    /\ snap.busy
    /\ idleSince' = NoTime
    /\ lastBusy' = clock
    /\ UNCHANGED idleEvent

LongIdle == idleSince # NoTime /\ clock - idleSince >= IdleDuration

\* The first scan that finds it idle, and those before the time is over.
DeviceIdle ==
    /\ ~snap.busy /\ ~LongIdle
    /\ idleSince' = IF idleSince = NoTime THEN clock ELSE idleSince
    /\ UNCHANGED <<idleEvent, lastBusy>>

\* Every later scan emits device.idle, with the owner of the job that was read.
DeviceLongIdle ==
    /\ ~snap.busy /\ LongIdle
    /\ idleEvent' = [owner |-> active, at |-> clock]
    /\ UNCHANGED <<idleSince, lastBusy>>

checkDevices == DeviceBusy \/ DeviceIdle \/ DeviceLongIdle

\* The node's latest snapshot is read once for its disks and devices.
CheckNode ==
    /\ scanner = "check" /\ snap.there
    /\ scanner' = "idle"
    /\ checkDisks /\ checkDevices
    /\ UNCHANGED <<clock, worldVars, tablesRead, active, nextScan, detBounds>>

NoMetrics ==
    /\ scanner = "check" /\ ~snap.there
    /\ scanner' = "idle"
    /\ UNCHANGED <<clock, worldVars, tablesRead, active, nextScan, memory, diskTold, idleEvent, lastBusy,
                   detBounds>>

-----------------------------------------------------------------------------

\* The control plane restarts: the tables stay, the snapshot and the
\* detector's memory are gone.
DetectorRestarts ==
    /\ detRestarts < MaxDetRestarts
    /\ detRestarts' = detRestarts + 1
    /\ snap' = NoSnapshot
    /\ diskFull' = FALSE /\ idleSince' = NoTime
    /\ scanner' = "idle" /\ nextScan' = clock + ScanInterval
    /\ lastBusy' = clock
    /\ UNCHANGED <<clock, worldVars, up, holder, active, diskTold, idleEvent,
                   changes, jobs, downs>>

ClockTicks ==
    /\ clock < MaxClock /\ clock < nextScan
    /\ clock' = clock + 1
    /\ UNCHANGED <<worldVars, tablesRead, scanner, active, nextScan, memory, diskTold, idleEvent,
                   lastBusy, detBounds>>

ScanStep == ListNodes \/ ListActiveJobs \/ CheckNode \/ NoMetrics

WorldStep ==
    \/ DiskChanges \/ UseChanges \/ ReportMetrics \/ NodeMarkedDown
    \/ JobAssigned \/ JobEnds \/ ListNodesFails \/ DetectorRestarts

DetNext == ScanStep \/ WorldStep \/ ClockTicks

DetSpec == DetInit /\ [][DetNext]_detVars

\* The detector's ticker keeps ticking and agents keep reporting.
FairDetSpec == DetSpec /\ WF_detVars(ScanStep) /\ WF_detVars(ReportMetrics)

-----------------------------------------------------------------------------
(* Properties *)

\* Once the disk stays on one side of the threshold, the last event about it
\* says which, whatever reports and scans missed in between; a restart of the
\* control plane may lose only the recovery (checkDisks).
DiskIsTold ==
    /\ <>[](disk => diskTold = "disk.full")
    /\ [](detRestarts = 0) => <>[](diskTold = "disk.full" => disk)

\* A device is called idle only when no scan of IdleDuration has seen it in use,
\* also after a restart or while the node was DOWN (checkDevices).
IdleIsSteady == [][idleEvent' # idleEvent => clock - lastBusy >= IdleDuration]_detVars
=============================================================================
