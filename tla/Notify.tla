------------------------------- MODULE Notify -------------------------------
(***************************************************************************)
(* The event engine: goroutines emit events, each event is held against    *)
(* the rules in their order, a rule that matches and is not in its         *)
(* cooldown for the event's key lets it through, and it is delivered on    *)
(* the rule's channels one after the other.  Events and deliveries are     *)
(* kept in two tables, of which the lists show the latest rows.            *)
(***************************************************************************)
EXTENDS Integers, Sequences

CONSTANTS Emitters,         \* goroutines that call Emit
          Events,           \* the events they may emit: type, severity, key, labels
          Rules,            \* the configured rules, a sequence
          DefaultChannels,  \* notify.channels, a sequence
          Registered,       \* the names of the registered notifiers
          MaxWall,          \* bound: time units
          MaxEvents,        \* bound: calls of Emit
          MaxFailures,      \* bound: deliveries and statements that fail
          MaxEngineRestarts       \* bound: restarts of the control plane

\* A configuration without rules has the built-in ones.
ASSUME NotifyAssumption ==
    /\ Len(Rules) \in Nat \ {0}
    /\ \A i \in 1..Len(Rules) : Rules[i].cooldown \in Nat /\ Rules[i].channels \in Seq(STRING)
    /\ DefaultChannels \in Seq(STRING)
    /\ MaxWall \in Nat /\ MaxEvents \in Nat /\ MaxFailures \in Nat /\ MaxEngineRestarts \in Nat

VARIABLES
    wall,
    emit,       \* emit[e]: the call of Emit that e is in, Idle if none
    cooldown,   \* the cooldown map: [rule, key] to the time of the last pass
    stored,     \* the rows of the event table
    attempts,   \* the deliveries; a row of the notification table each, unless
                \* that statement fails, which is only logged
    handled,    \* history: calls of Emit that have returned
    calls, failures, engineRestarts

notifyVars == <<wall, emit, cooldown, stored, attempts, handled, calls, failures, engineRestarts>>

Idle == [call |-> 0]

NoPasses == [k \in {} |-> 0]

\* A call in progress is at a rule; its channel is 0 while the rule is considered.
Calls == [call: 1..MaxEvents, event: Events, from: 0..MaxWall,
          rule: 1..Len(Rules), channel: Nat, at: 0..MaxWall]

NotifyTypeOK ==
    /\ wall \in 0..MaxWall
    /\ emit \in [Emitters -> Calls \cup {Idle}]
    /\ \A k \in DOMAIN cooldown : cooldown[k] \in 0..wall
    /\ \A r \in stored : r.call \in 1..calls /\ r.ts \in 0..wall
    /\ \A a \in attempts : a.call \in 1..calls /\ a.at \in 0..wall /\ a.status \in {"sent", "failed"}
    /\ \A h \in handled : h.call \in 1..calls /\ h.from \in 0..wall
    /\ calls \in 0..MaxEvents /\ failures \in 0..MaxFailures /\ engineRestarts \in 0..MaxEngineRestarts

NotifyInit ==
    /\ wall = 0
    /\ emit = [e \in Emitters |-> Idle]
    /\ cooldown = NoPasses
    /\ stored = {} /\ attempts = {} /\ handled = {}
    /\ calls = 0 /\ failures = 0 /\ engineRestarts = 0

-----------------------------------------------------------------------------
(* Rules *)

Rank(severity) ==
    CASE severity = "warning" -> 1 [] severity = "critical" -> 2 [] OTHER -> 0

Label(ev, l) == IF l \in DOMAIN ev.labels THEN ev.labels[l] ELSE ""

\* Type, labels and least severity; an empty condition is no condition.
matches(r, ev) ==
    /\ r.types = {} \/ ev.type \in r.types
    /\ \A l \in DOMAIN r.labels : Label(ev, l) = r.labels[l]
    /\ r.minSeverity = "" \/ Rank(ev.severity) >= Rank(r.minSeverity)

\* A recipient is a literal or the value of a label; empty ones are dropped.
resolveRecipients(r, ev) ==
    {IF t.template THEN Label(ev, t.name) ELSE t.name : t \in r.to} \ {""}

channelsOf(r) ==
    CASE r.channels # <<>> -> r.channels
      [] r.channels = <<>> /\ DefaultChannels # <<>> -> DefaultChannels
      [] OTHER -> <<"log">>

\* Mutant: the cooldown is the rule's, whatever the event is about.
CooldownKey_ofRule(r, ev) == [rule |-> r.name, key |-> ""]

CooldownKey(r, ev) == [rule |-> r.name, key |-> ev.key]

\* Mutant: only a rule's first pass is remembered.
Stamped_once(r, ev) ==
    IF r.cooldown = 0 \/ CooldownKey(r, ev) \in DOMAIN cooldown THEN cooldown
    ELSE [k \in DOMAIN cooldown \cup {CooldownKey(r, ev)} |->
             IF k = CooldownKey(r, ev) THEN wall ELSE cooldown[k]]

\* allow, which runs under the engine's lock: whether the rule lets the event
\* through, and the map after it.
Allows(r, ev) ==
    \A k \in DOMAIN cooldown : k = CooldownKey(r, ev) => wall - cooldown[k] >= r.cooldown

Stamped(r, ev) ==
    IF r.cooldown = 0 THEN cooldown
    ELSE [k \in DOMAIN cooldown \cup {CooldownKey(r, ev)} |->
             IF k = CooldownKey(r, ev) THEN wall ELSE cooldown[k]]

-----------------------------------------------------------------------------
(* Emit *)

\* The insert, or a failure, which Emit only logs.
CreateEvent(row) ==
    \/ stored' = stored \cup {row} /\ UNCHANGED failures
    \/ failures < MaxFailures /\ failures' = failures + 1 /\ UNCHANGED stored

\* The call begins: the event is stored and the first rule considered next.
Emit(e) ==
    /\ emit[e] = Idle /\ calls < MaxEvents
    /\ calls' = calls + 1
    /\ \E ev \in Events :
          emit' = [emit EXCEPT ![e] = [call |-> calls + 1, event |-> ev, from |-> wall,
                                       rule |-> 1, channel |-> 0, at |-> 0]]
    /\ CreateEvent([call |-> calls + 1, ts |-> wall])
    /\ UNCHANGED <<wall, cooldown, attempts, handled, engineRestarts>>

\* The next rule for a call, or the end of the call.
Onward(c) ==
    IF c.rule < Len(Rules)
    THEN [c EXCEPT !.rule = c.rule + 1, !.channel = 0, !.at = 0] ELSE Idle

Move(e, c) ==
    /\ emit' = [emit EXCEPT ![e] = c]
    /\ handled' = IF c = Idle
                  THEN handled \cup {[call |-> emit[e].call, event |-> emit[e].event,
                                      from |-> emit[e].from, epoch |-> engineRestarts]}
                  ELSE handled

\* The rule does not match, or is in its cooldown for the key.
SkipRule(e) ==
    LET c == emit[e]
        r == Rules[c.rule]
    IN /\ c # Idle /\ c.channel = 0
       /\ ~(matches(r, c.event) /\ Allows(r, c.event))
       /\ Move(e, Onward(c))
       /\ UNCHANGED <<wall, cooldown, stored, attempts, calls, failures, engineRestarts>>

PassRule(e) ==
    LET c == emit[e]
        r == Rules[c.rule]
    IN /\ c # Idle /\ c.channel = 0
       /\ matches(r, c.event) /\ Allows(r, c.event)
       /\ cooldown' = Stamped(r, c.event)
       /\ Move(e, [c EXCEPT !.channel = 1, !.at = wall])
       /\ UNCHANGED <<wall, stored, attempts, calls, failures, engineRestarts>>

\* deliver: an unknown channel or an error of the notifier fails, and whatever
\* happened is recorded; then the next channel, or the next rule.
Deliver(e) ==
    LET c  == emit[e]
        r  == Rules[c.rule]
        ch == channelsOf(r)[c.channel]
    IN /\ c # Idle /\ c.channel > 0
       /\ \E status \in {"sent", "failed"} :
             /\ ch \notin Registered => status = "failed"
             /\ IF ch \in Registered /\ status = "failed"
                THEN failures < MaxFailures /\ failures' = failures + 1
                ELSE UNCHANGED failures
             /\ attempts' = attempts \cup
                   {[call |-> c.call, rule |-> r.name, key |-> c.event.key, channel |-> ch,
                     recipients |-> resolveRecipients(r, c.event), status |-> status,
                     at |-> c.at, epoch |-> engineRestarts]}
       /\ Move(e, IF c.channel < Len(channelsOf(r)) THEN [c EXCEPT !.channel = @ + 1] ELSE Onward(c))
       /\ UNCHANGED <<wall, cooldown, stored, calls, engineRestarts>>

\* The control plane restarts: calls in progress and the cooldowns are gone.
EngineRestarts ==
    /\ engineRestarts < MaxEngineRestarts
    /\ engineRestarts' = engineRestarts + 1
    /\ emit' = [e \in Emitters |-> Idle]
    /\ cooldown' = NoPasses
    /\ UNCHANGED <<wall, stored, attempts, handled, calls, failures>>

WallTicks ==
    /\ wall < MaxWall
    /\ wall' = wall + 1
    /\ UNCHANGED <<emit, cooldown, stored, attempts, handled, calls, failures, engineRestarts>>

-----------------------------------------------------------------------------

EmitStep(e) == Emit(e) \/ SkipRule(e) \/ PassRule(e) \/ Deliver(e)

NotifyNext == (\E e \in Emitters : EmitStep(e)) \/ EngineRestarts \/ WallTicks

NotifySpec == NotifyInit /\ [][NotifyNext]_notifyVars

\* A call of Emit goes on until it returns.
FairNotifySpec ==
    NotifySpec /\ \A e \in Emitters : WF_notifyVars(SkipRule(e) \/ PassRule(e) \/ Deliver(e))

-----------------------------------------------------------------------------
(* Properties *)

RuleNamed(name) == {r \in {Rules[i] : i \in 1..Len(Rules)} : r.name = name}

\* However many goroutines emit, a rule lets one event of a key through in its
\* cooldown: two deliveries of different events are that far apart (allow).
OncePerCooldown ==
    \A a, b \in attempts : \A r \in RuleNamed(a.rule) :
        a.rule = b.rule /\ a.key = b.key /\ a.call # b.call /\ a.epoch = b.epoch
            => a.at - b.at >= r.cooldown \/ b.at - a.at >= r.cooldown

InProgress(i, key, j) ==
    \E e \in Emitters :
        /\ emit[e] # Idle
        /\ emit[e].rule = i /\ emit[e].event.key = key /\ emit[e].channel \in 1..j

\* Nothing but the cooldown keeps a rule from trying: when Emit has returned,
\* every rule that matches has tried, or is trying, every channel with an event
\* of this key, this one or one that is not older than the cooldown.  An attempt
\* that failed counts: it is recorded, keeps its cooldown and is not repeated
\* (Emit, allow, deliver).
NobodyIsLeftOut ==
    \A h \in handled : \A i \in 1..Len(Rules) :
        h.epoch = engineRestarts /\ matches(Rules[i], h.event) =>
            \A j \in 1..Len(channelsOf(Rules[i])) :
                \/ InProgress(i, h.event.key, j)
                \/ \E a \in attempts :
                      /\ a.rule = Rules[i].name /\ a.key = h.event.key
                      /\ a.channel = channelsOf(Rules[i])[j]
                      /\ a.call = h.call \/ a.at > h.from - Rules[i].cooldown

-----------------------------------------------------------------------------
(* What the docs say and the code does not do *)

\* A delivery that a notifier failed is made up for: retrying is the framework's
\* part, so that no notification is lost (docs/NOTIFICATIONS.md, 4 and 6).
FailedIsRetried ==
    \A call \in 1..MaxEvents, i \in 1..Len(Rules), channel \in Registered :
        LET Tried(status) == \E a \in attempts :
                /\ a.call = call /\ a.rule = Rules[i].name /\ a.channel = channel
                /\ a.status = status
        IN Tried("failed") ~> Tried("sent")
=============================================================================
