----------------------------- MODULE MCTimeline -----------------------------
(***************************************************************************)
(* Small instances of Timeline for TLC.                                    *)
(***************************************************************************)
EXTENDS Timeline

Dev(k, names) == [key |-> k, name |-> names]

\* Two nodes of different partitions and device types, the first the larger.
TwoNodes == {[id |-> 1, up |-> TRUE, partition |-> "gpu", cpus |-> 2, mem |-> 2,
              devices |-> {Dev(1, {"a"}), Dev(2, {"b"})}],
             [id |-> 2, up |-> TRUE, partition |-> "cpu", cpus |-> 1, mem |-> 2,
              devices |-> {Dev(1, {"a"})}]}

Job(p, part, c, g, t, w) == [priority |-> p, partition |-> part, cpus |-> c, mem |-> c,
                             gpus |-> g, gpuType |-> t, walltime |-> w]

\* Jobs that compete for nodes, device types, CPUs and partitions, short and
\* endless, wide and narrow.
MixedSpecs == {Job(0, "", 1, 1, "", 1), Job(1, "", 1, 1, "", 1), Job(0, "gpu", 1, 1, "b", 0),
               Job(1, "gpu", 2, 2, "", 1), Job(0, "cpu", 1, 0, "", 2)}

\* With backfill jobs also age: a priority is made up for by waiting.  Without it
\* the priorities alone decide.
MainPolicies == {[backfill |-> TRUE, ageWeight |-> 1], [backfill |-> FALSE, ageWeight |-> 0]}
=============================================================================
