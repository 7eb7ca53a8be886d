----------------------------- MODULE Lifecycle ------------------------------
(***************************************************************************)
(* The control plane as a process: how its configuration is put together,  *)
(* what keeps it from starting, the three doors it serves (gRPC, the web   *)
(* console, the Prometheus endpoint), and its stop, which closes one door  *)
(* after the other and ends when the calls inside have ended.              *)
(*                                                                         *)
(* A behaviour has a scene: who takes part besides the process, and what   *)
(* the operator has set up.  A setting is a name; "" is the empty setting. *)
(***************************************************************************)
EXTENDS Integers

CONSTANTS Scenes,      \* bound: the scenes considered
          MaxStarts,   \* bound: starts of the control plane
          MaxKills     \* bound: times it is killed

ASSUME LifecycleAssumption == MaxStarts \in Nat /\ MaxKills \in Nat

VARIABLES
    scene,   \* rigid: [cast, file, env, taken, agent]
    phase,   \* where the process is
    doors,   \* the doors that take new calls
    ended,   \* how its last life ended
    starts, kills

lifeVars == <<scene, phase, doors, ended, starts, kills>>

-----------------------------------------------------------------------------
(* Configuration *)

\* A file: whether it can be read and parsed, the texts and the intervals it sets.
NoTexts == [k \in {} |-> ""]
NoFile  == [readable |-> TRUE, text |-> NoTexts, every |-> [k \in {} |-> 0]]

\* The file over the default; an environment variable that is set over both.
Layered(default, file, env, key) ==
    IF key \in DOMAIN env /\ env[key] # "" THEN env[key]
    ELSE IF key \in DOMAIN file THEN file[key] ELSE default[key]

DefaultServer ==
    [text  |-> [k \in {"dsn", "grpc", "logs", "scrape", "web"} |-> "default"],
     every |-> [scheduler |-> 2, detector |-> 15, reaper |-> 10]]

\* The intervals have no environment variables.
LoadServer(file, env) ==
    [text  |-> [k \in DOMAIN DefaultServer.text |-> Layered(DefaultServer.text, file.text, env, k)],
     every |-> [k \in DOMAIN DefaultServer.every |->
                   Layered(DefaultServer.every, file.every, NoTexts, k)]]

cfg == LoadServer(scene.file, scene.env)

DefaultAgent == [text |-> [server |-> "default"], every |-> [collectors |-> 10, poll |-> 2]]

LoadAgent(a) ==
    [server |-> Layered(DefaultAgent.text, a.file.text, a.env, "server"),
     every  |-> [k \in DOMAIN DefaultAgent.every |->
                    Layered(DefaultAgent.every, a.file.every, NoTexts, k)]]

\* The address the agent dials: a flag of skipper-agent over everything.
ServerAddr(a) == IF a.flag # "" THEN a.flag ELSE LoadAgent(a).server

-----------------------------------------------------------------------------

LifeTypeOK ==
    /\ scene \in Scenes
    /\ phase \in {"down", "up", "scrapes", "console", "draining"}
    /\ doors \subseteq {"grpc", "web", "scrape"} /\ (phase = "down" => doors = {})
    /\ ended \in {"never", "refused", "panic", "stopped", "killed"}
    /\ starts \in 0..MaxStarts /\ kills \in 0..MaxKills

LifeInit ==
    /\ scene \in Scenes
    /\ phase = "down" /\ doors = {} /\ ended = "never"
    /\ starts = 0 /\ kills = 0

Usable(key) == <<key, cfg.text[key]>> \notin scene.taken

\* startMetricsHTTP, startWebHTTP: an HTTP door opens if it is configured; one
\* that cannot be opened is only logged.
Opens(d) == cfg.text[d] # "" /\ Usable(d)

\* The file, the database, the gRPC address and the log directory must do.
Start ==
    /\ phase = "down"
    /\ starts < MaxStarts
    /\ starts' = starts + 1
    /\ IF scene.file.readable /\ \A key \in {"dsn", "grpc", "logs"} : Usable(key)
       THEN /\ phase' = "up"
            /\ doors' = {"grpc"} \cup {d \in {"scrape", "web"} : Opens(d)}
            /\ UNCHANGED ended
       ELSE /\ ended' = "refused"
            /\ UNCHANGED <<phase, doors>>
    /\ UNCHANGED <<scene, kills>>

\* The process ends, and its listeners with it.
Gone(how) ==
    /\ phase' = "down" /\ doors' = {} /\ ended' = how
    /\ UNCHANGED <<scene, starts>>

\* A loop whose interval is not positive panics when it makes its ticker.
TickerPanics ==
    /\ phase # "down"
    /\ \E loop \in DOMAIN cfg.every : cfg.every[loop] <= 0
    /\ Gone("panic")
    /\ UNCHANGED kills

Killed ==
    /\ phase # "down"
    /\ kills < MaxKills
    /\ kills' = kills + 1
    /\ Gone("killed")

\* SIGINT or SIGTERM; another one finds the context done and changes nothing.
\* The Prometheus endpoint is the first to close.
Signal ==
    /\ phase = "up"
    /\ phase' = "scrapes"
    /\ doors' = doors \ {"scrape"}
    /\ UNCHANGED <<scene, ended, starts, kills>>

\* Shutdown has waited for the scrapes inside, three seconds at most; the
\* console closes.
ScrapesStopped ==
    /\ phase = "scrapes"
    /\ phase' = "console"
    /\ doors' = doors \ {"web"}
    /\ UNCHANGED <<scene, ended, starts, kills>>

\* Mutant: the wait for the calls begins with the listener open.
ConsoleStopped_listening ==
    /\ phase = "console"
    /\ phase' = "draining"
    /\ UNCHANGED <<scene, doors, ended, starts, kills>>

\* Shutdown has waited for the requests inside, three seconds at most;
\* GracefulStop takes no new call.
ConsoleStopped ==
    /\ phase = "console"
    /\ phase' = "draining"
    /\ doors' = {}
    /\ UNCHANGED <<scene, ended, starts, kills>>

\* GracefulStop has waited for every call of gRPC; Serve returns and main ends.
Drained(busy) ==
    /\ phase = "draining"
    /\ ~busy
    /\ Gone("stopped")
    /\ UNCHANGED kills

StopStep == Signal \/ ScrapesStopped \/ ConsoleStopped
=============================================================================
