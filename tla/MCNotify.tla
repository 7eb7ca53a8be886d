------------------------------ MODULE MCNotify ------------------------------
(***************************************************************************)
(* A small instance of Notify for TLC: rules like the built-in ones, and   *)
(* one for everything of at least a warning.                               *)
(***************************************************************************)
EXTENDS Notify

CONSTANTS e1, e2

Idling(key, allocated, owner) ==
    [type |-> "device.idle", severity |-> "warning", key |-> key,
     labels |-> [allocated |-> allocated, owner |-> owner]]

MCEvents ==
    {Idling("n|gpu|0", "true", "alice"), Idling("n|gpu|1", "false", ""),
     [type |-> "disk.recovered", severity |-> "info", key |-> "n|disk", labels |-> [node |-> "n"]]}

MCRules ==
    <<[name |-> "device-idle-allocated", types |-> {"device.idle"},
       labels |-> [allocated |-> "true"], minSeverity |-> "",
       to |-> {[template |-> TRUE, name |-> "owner"]}, cooldown |-> 2, channels |-> <<>>],
      [name |-> "warnings", types |-> {}, labels |-> [l \in {} |-> ""], minSeverity |-> "warning",
       to |-> {[template |-> FALSE, name |-> "admins"]}, cooldown |-> 1, channels |-> <<"im", "gone">>]>>

MCNoChannels == <<>>
=============================================================================
