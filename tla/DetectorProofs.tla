--------------------------- MODULE DetectorProofs ---------------------------
(***************************************************************************)
(* Theorems about Detector for every idle duration, every scan interval    *)
(* and every number of jobs, changes and restarts.                         *)
(***************************************************************************)
EXTENDS Detector, TLAPS

\* What the detector remembers of an idle device is not older than the last
\* scan that saw it in use: that scan, or a restart, made it forget.
IdleIsFresh == idleSince # NoTime => idleSince >= lastBusy

\* Numbers of the model, apart from the Booleans of its tables.
ClockTypes ==
    /\ clock \in Nat /\ lastBusy \in Nat
    /\ idleSince \in Nat \cup {NoTime}

\* The clock and the detector's memory are well-formed from the start.
LEMMA ClockInit == DetInit => ClockTypes /\ IdleIsFresh
  BY DetectorAssumption DEF DetInit, ClockTypes, IdleIsFresh

\* A step of the scan: the only ones to touch the memory are the end of a scan
\* and a restart; the first scan to find the device idle is later than any that
\* saw it in use.
LEMMA FreshStep ==
    ASSUME ClockTypes, IdleIsFresh, [DetNext]_detVars, lastBusy <= clock
    PROVE  ClockTypes' /\ IdleIsFresh' /\ (lastBusy <= clock)'
<1> USE DetectorAssumption DEF ClockTypes, IdleIsFresh
<1>q. ASSUME UNCHANGED <<clock, idleSince, lastBusy>>
      PROVE  ClockTypes' /\ IdleIsFresh' /\ (lastBusy <= clock)'
  BY <1>q
<1>1. CASE CheckNode
  <2>1. clock' = clock
    BY <1>1 DEF CheckNode
  <2>2. CASE DeviceBusy
    BY <2>1, <2>2 DEF DeviceBusy
  <2>3. CASE DeviceIdle
    BY <2>1, <2>3 DEF DeviceIdle
  <2>4. CASE DeviceLongIdle
    BY <2>1, <2>4, <1>q DEF DeviceLongIdle
  <2>5. QED BY <1>1, <2>2, <2>3, <2>4 DEF CheckNode, checkDevices
<1>2. CASE DetectorRestarts
  BY <1>2 DEF DetectorRestarts
<1>3. CASE ClockTicks
  BY <1>3 DEF ClockTicks, memory
<1>4. CASE ListNodes \/ ListActiveJobs \/ NoMetrics \/ ListNodesFails
  BY <1>4, <1>q DEF ListNodes, ListActiveJobs, NoMetrics, ListNodesFails, memory
<1>5. CASE DiskChanges \/ UseChanges \/ ReportMetrics \/ NodeMarkedDown \/ JobAssigned \/ JobEnds
  BY <1>5, <1>q DEF DiskChanges, UseChanges, ReportMetrics, NodeMarkedDown, JobAssigned, JobEnds, memory
<1>6. CASE UNCHANGED detVars
  BY <1>6, <1>q DEF detVars, memory
<1>7. QED BY <1>1, <1>2, <1>3, <1>4, <1>5, <1>6 DEF DetNext, ScanStep, WorldStep

\* For every duration and interval: device.idle is emitted only after a full
\* IdleDuration in which no scan saw the device in use, also when the node was
\* DOWN meanwhile or the control plane restarted (checkDevices deletes the time
\* of a device in use, and the memory starts empty).
THEOREM IdleOnlyWhenSteady == DetSpec => IdleIsSteady
<1> DEFINE Inv == ClockTypes /\ IdleIsFresh /\ lastBusy <= clock
<1>1. DetInit => Inv
  BY ClockInit DEF DetInit
<1>2. Inv /\ [DetNext]_detVars => Inv'
  BY FreshStep
<1>3. Inv /\ [DetNext]_detVars => [idleEvent' # idleEvent => clock - lastBusy >= IdleDuration]_detVars
  <2> SUFFICES ASSUME Inv, DetNext, idleEvent' # idleEvent
               PROVE  clock - lastBusy >= IdleDuration
    OBVIOUS
  <2>1. CheckNode /\ DeviceLongIdle
    BY DEF DetNext, ScanStep, WorldStep, CheckNode, checkDevices, DeviceBusy, DeviceIdle, DetectorRestarts,
           ClockTicks, ListNodes, ListActiveJobs, NoMetrics, ListNodesFails, DiskChanges, UseChanges,
           ReportMetrics, NodeMarkedDown, JobAssigned, JobEnds
  <2>2. idleSince # NoTime /\ clock - idleSince >= IdleDuration
    BY <2>1 DEF DeviceLongIdle, LongIdle
  <2>3. QED BY <2>2, DetectorAssumption DEF ClockTypes, IdleIsFresh
<1>4. QED BY <1>1, <1>2, <1>3, PTL DEF DetSpec, IdleIsSteady

-----------------------------------------------------------------------------
(* The disk *)

\* The detector remembers a full disk exactly as long as the last event about
\* it says so; a restart forgets, and then only the recovery can be missing.
DiskMemory ==
    /\ diskFull => diskTold = "disk.full"
    /\ detRestarts = 0 /\ diskTold = "disk.full" => diskFull

DiskTypes == diskFull \in BOOLEAN /\ disk \in BOOLEAN /\ snap.disk \in BOOLEAN /\ detRestarts \in Nat

\* The end of a scan leaves the memory and the last event in agreement.
LEMMA DisksChecked ==
    ASSUME DiskMemory, DiskTypes, checkDisks, detRestarts' = detRestarts
    PROVE  DiskMemory' /\ diskFull' \in BOOLEAN
<1>1. CASE snap.disk /\ ~diskFull
  <2>1. diskTold' = "disk.full" /\ diskFull' = TRUE
    BY <1>1 DEF checkDisks, DiskTypes
  <2>2. QED BY <2>1 DEF DiskMemory
<1>2. CASE ~snap.disk /\ diskFull
  <2>1. diskTold' = "disk.recovered" /\ diskFull' = FALSE
    BY <1>2 DEF checkDisks, DiskTypes
  <2>2. QED BY <2>1 DEF DiskMemory
<1>3. CASE ~(snap.disk /\ ~diskFull) /\ ~(~snap.disk /\ diskFull)
  <2>1. diskTold' = diskTold /\ diskFull' = diskFull
    BY <1>3 DEF checkDisks, DiskTypes
  <2>2. QED BY <2>1 DEF DiskMemory, DiskTypes
<1>4. QED BY <1>1, <1>2, <1>3

\* For any scans, reports and restarts: no disk.full is repeated while the disk
\* stays full, and no disk.recovered comes without a disk.full before it, since
\* the memory that decides about both is the last event (checkDisks).  With it
\* DiskIsTold is left with what fairness gives.
THEOREM DiskMemoryIsTrue == DetSpec => []DiskMemory
<1> DEFINE Inv == DiskMemory /\ DiskTypes
<1>1. DetInit => Inv
  <2> SUFFICES ASSUME DetInit PROVE Inv
    OBVIOUS
  <2>1. diskFull = FALSE /\ disk = FALSE /\ snap = NoSnapshot /\ diskTold = "nothing" /\ detRestarts = 0
    BY DEF DetInit
  <2>2. NoSnapshot.disk = FALSE
    BY DEF NoSnapshot
  <2>3. QED BY <2>1, <2>2 DEF DiskMemory, DiskTypes
<1>2. Inv /\ [DetNext]_detVars => Inv'
  <2> SUFFICES ASSUME Inv, [DetNext]_detVars PROVE Inv'
    OBVIOUS
  <2>q. ASSUME UNCHANGED <<diskFull, diskTold, detRestarts>>, disk' \in BOOLEAN, snap'.disk \in BOOLEAN PROVE Inv'
    BY <2>q DEF DiskMemory, DiskTypes
  <2>1. CASE CheckNode
    <3>1. checkDisks /\ UNCHANGED <<disk, snap, detRestarts>>
      BY <2>1 DEF CheckNode, worldVars, tablesRead, detBounds
    <3>2. QED BY <3>1, DisksChecked DEF DiskTypes
  <2>2. CASE DetectorRestarts
    <3>1. diskFull' = FALSE /\ disk' = disk /\ snap' = NoSnapshot /\ diskTold' = diskTold /\ detRestarts' = detRestarts + 1
      BY <2>2 DEF DetectorRestarts, worldVars
    <3>2. NoSnapshot.disk = FALSE
      BY DEF NoSnapshot
    <3>3. detRestarts' \in Nat /\ detRestarts' # 0
      BY <3>1 DEF DiskTypes
    <3>4. QED BY <3>1, <3>2, <3>3 DEF DiskMemory, DiskTypes
  <2>3. CASE ReportMetrics
    BY <2>3, <2>q DEF ReportMetrics, worldVars, memory, detBounds, DiskTypes
  <2>4. CASE ListNodes \/ ListActiveJobs \/ NoMetrics \/ ListNodesFails \/ ClockTicks
    BY <2>4, <2>q DEF ListNodes, ListActiveJobs, NoMetrics, ListNodesFails, ClockTicks, memory, tablesRead, worldVars,
                      detBounds, DiskTypes
  <2>5. CASE DiskChanges \/ UseChanges \/ NodeMarkedDown \/ JobAssigned \/ JobEnds
    BY <2>5, <2>q DEF DiskChanges, UseChanges, NodeMarkedDown, JobAssigned, JobEnds, memory, tablesRead, worldVars,
                      detBounds, DiskTypes
  <2>6. CASE UNCHANGED detVars
    BY <2>6, <2>q DEF detVars, memory, tablesRead, worldVars, detBounds, DiskTypes
  <2>7. QED BY <2>1, <2>2, <2>3, <2>4, <2>5, <2>6 DEF DetNext, ScanStep, WorldStep
<1>3. QED BY <1>1, <1>2, PTL DEF DetSpec

=============================================================================
