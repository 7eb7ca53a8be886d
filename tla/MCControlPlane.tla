--------------------------- MODULE MCControlPlane ---------------------------
(***************************************************************************)
(* A small instance of ControlPlane for TLC: one node with a GPU and two   *)
(* NPUs, one with HBM and one of two chips without, and scenes in which    *)
(* either the agent and a viewer or a client and a follower take part, or  *)
(* only the process with the configurations that matter to its start.      *)
(***************************************************************************)
EXTENDS ControlPlane

MCGpus == <<[index |-> 0, uuid |-> "G0", name |-> "A100", used |-> 3, total |-> 64]>>

MCNpus == <<[index |-> 0, uuid |-> "", name |-> "910B", used |-> 3, total |-> 32, hbm |-> TRUE],
            [index |-> 1, uuid |-> "", name |-> "310", used |-> 1, total |-> 16, hbm |-> FALSE],
            [index |-> 1, uuid |-> "", name |-> "310", used |-> 0, total |-> 16, hbm |-> FALSE]>>

\* A bind mount shows the root again; /proc has no size.
MCPartitions == <<[mount |-> "/", total |-> 9], [mount |-> "/", total |-> 9],
                  [mount |-> "/proc", total |-> 0]>>

MCCollections == {Tools, {"disk", "nvidia"}}

Plain == [flag |-> "", env |-> NoTexts, file |-> NoFile]

Alone(file, env, taken) ==
    [cast |-> {}, file |-> file, env |-> env, taken |-> taken, agent |-> Plain]

\* The address of gRPC is moved by a variable and the agent told by a flag; a
\* default install; starts that meet obstacles.
MCScenes ==
    {[cast |-> {"agent", "viewer"}, file |-> NoFile, env |-> [grpc |-> "other"], taken |-> {},
      agent |-> [flag |-> "other", env |-> [server |-> "default"], file |-> NoFile]],
     [cast |-> {"agent"}, file |-> NoFile, env |-> NoTexts, taken |-> {},
      agent |-> [Plain EXCEPT !.file = [NoFile EXCEPT !.every = [poll |-> 0]]]],
     [cast |-> {"client", "follower"}, file |-> NoFile, env |-> NoTexts, taken |-> {},
      agent |-> Plain],
     Alone([NoFile EXCEPT !.readable = FALSE], NoTexts, {}),
     Alone([NoFile EXCEPT !.every = [reaper |-> 0]], NoTexts, {}),
     Alone([NoFile EXCEPT !.text = [web |-> ""]], NoTexts, {<<"scrape", "default">>}),
     Alone([NoFile EXCEPT !.text = [grpc |-> "other"]], [grpc |-> "", web |-> "other"],
           {<<"grpc", "other">>})}

Size(ok, halves, unit) == [ok |-> ok, halves |-> halves, unit |-> unit]
Time(ok, ns) == [ok |-> ok, ns |-> ns]
Ask(size, time) ==
    [command |-> TRUE, env |-> TRUE, size |-> size, time |-> time, count |-> 1, prio |-> -1]

\* Fractions, the limits, what is negative, what does not parse and what does
\* not fit.
MCAsks ==
    {Ask(Size(TRUE, 3, 4), Time(TRUE, 9)),
     [Ask(Size(TRUE, 3, 4), Time(TRUE, 9)) EXCEPT !.count = Words + 1, !.prio = Words \div 2],
     Ask(Size(TRUE, 3, 1), Time(TRUE, MaxInt)), Ask(Size(TRUE, -4, 4), Time(TRUE, -9)),
     Ask(Size(TRUE, 2 * SizeMax, 4), Time(TRUE, 3)),
     Ask(Size(FALSE, 0, 1), Time(TRUE, 0)), Ask(Size(TRUE, 0, 1), Time(FALSE, 0)),
     [Ask(Size(TRUE, 0, 1), Time(TRUE, 0)) EXCEPT !.env = FALSE],
     [Ask(Size(TRUE, 0, 1), Time(TRUE, 0)) EXCEPT !.command = FALSE]}
=============================================================================
