----------------------------- MODULE Collectors -----------------------------
(***************************************************************************)
(* What an agent learns of its node: the collectors, the two parsers for   *)
(* the output of nvidia-smi and npu-smi, and the inventories derived from  *)
(* a snapshot, on the agent for a registration and on the control plane    *)
(* for a report.                                                           *)
(*                                                                         *)
(* A line of output is the sequence of its fields or the record of its     *)
(* cells; NA is a field that holds no number.  Readings that only pass     *)
(* through (utilization, temperature, power, load) are left out.           *)
(***************************************************************************)
EXTENDS Integers, Sequences, SequencesExt

CONSTANTS Cores, MemTotal,   \* what runtime and gopsutil say of the node
          Partitions,        \* the partitions, a sequence of [mount, total]
          Gpus, Npus,        \* the accelerators, sequences of [index, uuid, name, used, total], in MiB;
                             \* nvidia-smi numbers its GPUs, the chips of an NPU share its index
          Installed          \* the vendors' commands that are in the PATH

NA == -1

Tools == {"mem", "disk", "nvidia", "ascend"}

MiB == 1024 * 1024

GpuCards == [index : Nat, uuid : STRING, name : STRING, used : Nat, total : Nat]

NpuCards == [index : Nat, uuid : STRING, name : STRING, used : Nat, total : Nat, hbm : BOOLEAN]

ASSUME CollectorAssumption ==
    /\ Cores \in Nat /\ MemTotal \in Nat /\ Installed \subseteq {"nvidia", "ascend"}
    /\ Partitions \in Seq([mount : STRING, total : Nat])
    /\ Gpus \in Seq(GpuCards) /\ Npus \in Seq(NpuCards)
    /\ \A i, j \in 1..Len(Gpus) : i # j => Gpus[i].index # Gpus[j].index

parseUint(field) == IF field = NA THEN 0 ELSE field

mibToBytes(field) == parseUint(field) * MiB

-----------------------------------------------------------------------------
(* nvidia-smi *)

\* The answer to the query, with a warning line as drivers may print it.
NvidiaOutput ==
    <<<<"warning">>, <<>>>> \o
    [i \in 1..Len(Gpus) |-> <<Gpus[i].index, Gpus[i].uuid, Gpus[i].name, 0,
                              Gpus[i].total, Gpus[i].used, 40, NA>>]

NvidiaDevice(f) ==
    [kind |-> "gpu", vendor |-> "nvidia", index |-> parseUint(f[1]), uuid |-> f[2], name |-> f[3],
     total |-> mibToBytes(f[5]), used |-> mibToBytes(f[6])]

\* A line that is short of fields is passed over.
parseNvidiaCSV(lines) ==
    FoldLeft(LAMBDA devs, f : IF Len(f) < 8 THEN devs ELSE Append(devs, NvidiaDevice(f)), <<>>, lines)

-----------------------------------------------------------------------------
(* npu-smi *)

\* A row of the table: what its cells look like, and what they hold.
NpuRow(shape, index, name, groups) ==
    [shape |-> shape, index |-> index, name |-> name, groups |-> groups]

Other(shape) == NpuRow(shape, NA, "", <<>>)

\* Cards with HBM show an empty Memory-Usage before it, others only that.
Groups(card) ==
    LET usage == [used |-> card.used, total |-> card.total]
    IN IF card.hbm THEN <<[used |-> 0, total |-> 0], usage>> ELSE <<usage>>

\* Two rows to a chip, then the table of processes, where a row of a process
\* whose name is two words has the shape of a name row.
NpuOutput ==
    <<Other("rule"), Other("short"), Other("header"), Other("header")>> \o
    [r \in 1..3 * Len(Npus) |->
        LET card == Npus[(r + 2) \div 3]
        IN <<NpuRow("name", card.index, card.name, <<>>),
             NpuRow("chip", NA, "", Groups(card)), Other("rule")>>[1 + ((r - 1) % 3)]] \o
    <<Other("header"), Other("fragment"), NpuRow("name", 0, "PID", <<>>)>>

\* Mutant: the first group is the card's memory.
parseDeviceRow_first(groups) ==
    IF groups = <<>> THEN [used |-> 0, total |-> 0] ELSE groups[1]

\* The group of the largest capacity, the later of two that are equal.
parseDeviceRow(groups) ==
    FoldLeft(LAMBDA best, g : IF parseUint(g.total) >= best.total
                              THEN [used |-> parseUint(g.used), total |-> parseUint(g.total)]
                              ELSE best,
             [used |-> 0, total |-> 0], groups)

Unpaired == [index |-> NA, name |-> ""]

\* A chip row completes the name row before it; one without is passed over.
PairRows(acc, row) ==
    CASE row.shape = "chip" /\ acc.pending # Unpaired ->
            LET mem == parseDeviceRow(row.groups)
            IN [pending |-> Unpaired,
                devices |-> Append(acc.devices,
                    [kind |-> "npu", vendor |-> "ascend", index |-> acc.pending.index,
                     uuid |-> "", name |-> acc.pending.name,
                     total |-> mem.total * MiB, used |-> mem.used * MiB])]
      [] row.shape = "name" ->
            [acc EXCEPT !.pending = [index |-> parseUint(row.index), name |-> row.name]]
      [] OTHER -> acc

parseNpuSmi(rows) ==
    FoldLeft(PairRows, [pending |-> Unpaired, devices |-> <<>>], rows).devices

-----------------------------------------------------------------------------
(* A snapshot *)

\* Mutant: a mount point is taken once for every partition mounted there.
CollectDisks_all(parts) == SelectSeq(parts, LAMBDA p : p.total > 0)

\* A mount point counts once it has answered; empty ones are passed over.
CollectDisks(parts) ==
    FoldLeft(LAMBDA disks, p :
                IF p.total = 0 \/ \E i \in 1..Len(disks) : disks[i].mount = p.mount
                THEN disks ELSE Append(disks, p),
             <<>>, parts)

\* What the collectors add when they succeed; only that of the CPU cannot fail.
CpuStats == Cores
MemStats == MemTotal
Disks    == CollectDisks(Partitions)
GpuStats == IF "nvidia" \in Installed THEN parseNvidiaCSV(NvidiaOutput) ELSE <<>>
NpuStats == IF "ascend" \in Installed THEN parseNpuSmi(NpuOutput) ELSE <<>>

\* CollectAll, when the tools in works answer; one that fails leaves its part out.
CollectAll(works, ts) ==
    [ts    |-> ts,
     cores |-> CpuStats,
     mem   |-> IF "mem" \in works THEN MemStats ELSE NA,
     disks |-> IF "disk" \in works THEN Disks ELSE <<>>,
     devs  |-> (IF "nvidia" \in works THEN GpuStats ELSE <<>>)
               \o (IF "ascend" \in works THEN NpuStats ELSE <<>>)]

\* nodeFromSnapshot: what the node table keeps of a snapshot that was reported.
\* No memory reading is written as 0.
Inventory(snap) ==
    [cpus |-> snap.cores,
     mem  |-> IF snap.mem = NA THEN 0 ELSE snap.mem,
     devs |-> [i \in 1..Len(snap.devs) |->
                 [kind |-> snap.devs[i].kind, vendor |-> snap.devs[i].vendor,
                  index |-> snap.devs[i].index, uuid |-> snap.devs[i].uuid,
                  name |-> snap.devs[i].name, total |-> snap.devs[i].total]]]

\* The way of a registration: the agent extracts, resourcesFromProto copies.
ResourcesFromSnapshot(snap) == Inventory(snap)

-----------------------------------------------------------------------------

CardsOf(kind, cards) ==
    [i \in 1..Len(cards) |-> [kind |-> kind, index |-> cards[i].index, total |-> cards[i].total * MiB]]

\* The accelerators the tools in works can speak for, whatever they print.
Hardware(works) ==
    (IF "nvidia" \in works \cap Installed THEN CardsOf("gpu", Gpus) ELSE <<>>)
    \o (IF "ascend" \in works \cap Installed THEN CardsOf("npu", Npus) ELSE <<>>)
=============================================================================
