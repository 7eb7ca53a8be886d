---------------------------- MODULE NotifyProofs ----------------------------
(***************************************************************************)
(* Theorems about Notify, for any rules, events and channels, any number   *)
(* of goroutines that emit, and any failures and restarts.                 *)
(***************************************************************************)
EXTENDS Notify, TLAPS

\* What the proofs need of the constants.
LEMMA RuleFacts ==
    /\ Len(Rules) \in Nat \ {0}
    /\ \A i \in 1..Len(Rules) : Rules[i].cooldown \in Nat /\ Len(channelsOf(Rules[i])) \in Nat
    /\ MaxWall \in Nat /\ MaxEvents \in Nat /\ MaxFailures \in Nat /\ MaxEngineRestarts \in Nat
  BY NotifyAssumption DEF channelsOf

\* A call in progress is a record of its kind and not Idle, and its next place
\* is at a later rule, before any channel.
LEMMA CallFacts ==
    ASSUME NEW c \in Calls
    PROVE  /\ c # Idle
           /\ c.call \in 1..MaxEvents /\ c.event \in Events /\ c.from \in 0..MaxWall
           /\ c.rule \in 1..Len(Rules) /\ c.channel \in Nat /\ c.at \in 0..MaxWall
           /\ Onward(c) \in Calls \cup {Idle}
           /\ Onward(c) # Idle =>
                 /\ Onward(c).call = c.call /\ Onward(c).event = c.event /\ Onward(c).from = c.from
                 /\ Onward(c).rule = c.rule + 1 /\ Onward(c).channel = 0 /\ Onward(c).at = 0
           /\ Onward(c) = Idle => c.rule = Len(Rules)
<1>1. c.call \in 1..MaxEvents /\ c.event \in Events /\ c.from \in 0..MaxWall
      /\ c.rule \in 1..Len(Rules) /\ c.channel \in Nat /\ c.at \in 0..MaxWall
  BY DEF Calls
<1>2. c # Idle
  BY <1>1 DEF Idle
<1>3. CASE c.rule < Len(Rules)
  <2>1. Onward(c) = [c EXCEPT !.rule = c.rule + 1, !.channel = 0, !.at = 0]
    BY <1>3 DEF Onward
  <2>2. Onward(c) \in Calls
    <3>1. c.rule + 1 \in 1..Len(Rules) /\ 0 \in Nat /\ 0 \in 0..MaxWall
      BY <1>1, <1>3, RuleFacts
    <3>2. QED BY <2>1, <3>1 DEF Calls
  <2>3. /\ Onward(c).call = c.call /\ Onward(c).event = c.event /\ Onward(c).from = c.from
        /\ Onward(c).rule = c.rule + 1 /\ Onward(c).channel = 0 /\ Onward(c).at = 0
    BY <2>1 DEF Calls
  <2>4. Onward(c) # Idle
    BY <1>1, <2>3 DEF Idle
  <2>5. QED BY <1>1, <1>2, <2>2, <2>3, <2>4
<1>4. CASE ~(c.rule < Len(Rules))
  BY <1>1, <1>2, <1>4, RuleFacts DEF Onward
<1>5. QED BY <1>3, <1>4

-----------------------------------------------------------------------------
(* Types *)

\* Calls in progress began in the past, and nothing belongs to a later epoch.
InThePast ==
    /\ \A e \in Emitters : emit[e] # Idle =>
          emit[e].from <= wall /\ emit[e].at <= wall /\ emit[e].call <= calls
    /\ \A a \in attempts : a.epoch \in 0..engineRestarts
    /\ \A h \in handled : h.epoch \in 0..engineRestarts

NotifyTyped == NotifyTypeOK /\ InThePast

\* At the start nothing has happened.
LEMMA NotifyTypedInit == NotifyInit => NotifyTyped
  BY RuleFacts DEF NotifyInit, NotifyTyped, NotifyTypeOK, InThePast, NoPasses, Idle

\* What a move of one goroutine does to its own call and to the others'.
LEMMA MoveFacts ==
    ASSUME NotifyTyped, NEW e \in Emitters, NEW d \in Calls \cup {Idle}, emit[e] # Idle,
           d # Idle => d.from = emit[e].from /\ d.call = emit[e].call /\ d.at <= wall,
           Move(e, d), UNCHANGED <<wall, calls, engineRestarts>>
    PROVE  /\ emit[e] \in Calls
           /\ emit' \in [Emitters -> Calls \cup {Idle}] /\ emit'[e] = d
           /\ \A x \in Emitters \ {e} : emit'[x] = emit[x]
           /\ \A x \in Emitters : emit'[x] # Idle => emit'[x].from <= wall' /\ emit'[x].at <= wall'
                                                 /\ emit'[x].call <= calls'
           /\ \A h \in handled' : h.call \in 1..calls' /\ h.from \in 0..wall' /\ h.epoch \in 0..engineRestarts'
<1>1. emit \in [Emitters -> Calls \cup {Idle}] /\ emit[e] \in Calls
  BY DEF NotifyTyped, NotifyTypeOK
<1>2. emit' = [emit EXCEPT ![e] = d]
  BY DEF Move
<1>3. emit' \in [Emitters -> Calls \cup {Idle}] /\ emit'[e] = d
      /\ \A x \in Emitters \ {e} : emit'[x] = emit[x]
  BY <1>1, <1>2
<1>4. ASSUME NEW x \in Emitters, emit'[x] # Idle PROVE emit'[x].from <= wall' /\ emit'[x].at <= wall'
                                                 /\ emit'[x].call <= calls'
  BY <1>3, <1>4 DEF NotifyTyped, InThePast
<1>5. ASSUME NEW h \in handled'
      PROVE  h.call \in 1..calls' /\ h.from \in 0..wall' /\ h.epoch \in 0..engineRestarts'
  <2>1. CASE h \in handled
    BY <2>1 DEF NotifyTyped, NotifyTypeOK, InThePast
  <2>2. CASE h = [call |-> emit[e].call, event |-> emit[e].event, from |-> emit[e].from,
                  epoch |-> engineRestarts]
    <3>1. h.call = emit[e].call /\ h.from = emit[e].from /\ h.epoch = engineRestarts
      BY <2>2
    <3>2. emit[e].call \in 1..MaxEvents /\ emit[e].from \in 0..MaxWall
      BY <1>1, CallFacts
    <3>3. emit[e].call <= calls /\ emit[e].from <= wall /\ calls \in Nat /\ wall \in Nat
          /\ engineRestarts \in Nat
      BY DEF NotifyTyped, NotifyTypeOK, InThePast
    <3>4. QED BY <3>1, <3>2, <3>3
  <2>3. QED BY <1>5, <2>1, <2>2 DEF Move
<1>6. QED BY <1>1, <1>3, <1>4, <1>5

\* Every step keeps the types.
LEMMA NotifyTypedStep == NotifyTyped /\ [NotifyNext]_notifyVars => NotifyTyped'
<1>1. SUFFICES ASSUME NotifyTyped, [NotifyNext]_notifyVars PROVE NotifyTyped'
  OBVIOUS
<1> USE <1>1, RuleFacts
<1>2. ASSUME NEW e \in Emitters, Emit(e) PROVE NotifyTyped'
  <2>1. PICK ev \in Events :
            emit' = [emit EXCEPT ![e] = [call |-> calls + 1, event |-> ev, from |-> wall,
                                         rule |-> 1, channel |-> 0, at |-> 0]]
    BY <1>2 DEF Emit
  <2> DEFINE c == [call |-> calls + 1, event |-> ev, from |-> wall, rule |-> 1, channel |-> 0, at |-> 0]
  <2>2. calls' = calls + 1 /\ calls' \in 0..MaxEvents
        /\ UNCHANGED <<wall, cooldown, attempts, handled, engineRestarts>>
    BY <1>2 DEF Emit, NotifyTyped, NotifyTypeOK
  <2>3. c \in Calls /\ c.from = wall /\ c.call = calls' /\ c.at <= wall
    BY <2>2 DEF Calls, NotifyTyped, NotifyTypeOK
  <2> HIDE DEF c
  <2>4. emit' \in [Emitters -> Calls \cup {Idle}] /\ emit'[e] = c
        /\ \A x \in Emitters \ {e} : emit'[x] = emit[x]
    BY <2>1, <2>3 DEF NotifyTyped, NotifyTypeOK, c
  <2>5. \A x \in Emitters : emit'[x] # Idle => emit'[x].from <= wall' /\ emit'[x].at <= wall'
                                                 /\ emit'[x].call <= calls'
    <3>1. ASSUME NEW x \in Emitters \ {e}, emit[x] # Idle
          PROVE  emit[x].from <= wall /\ emit[x].at <= wall /\ emit[x].call <= calls'
      <4>1. emit[x] \in Calls /\ emit[x].call <= calls /\ emit[x].from <= wall /\ emit[x].at <= wall
        BY <3>1 DEF NotifyTyped, NotifyTypeOK, InThePast
      <4>2. emit[x].call \in Int
        BY <4>1, CallFacts
      <4>3. QED BY <2>2, <4>1, <4>2 DEF NotifyTyped, NotifyTypeOK
    <3>2. wall \in Int /\ calls \in Int
      BY DEF NotifyTyped, NotifyTypeOK
    <3>3. QED BY <2>2, <2>3, <2>4, <3>1, <3>2
  <2>6. \A r \in stored' : r.call \in 1..calls' /\ r.ts \in 0..wall'
    <3>1. \A r \in stored : r.call \in 1..calls' /\ r.ts \in 0..wall'
      BY <2>2 DEF NotifyTyped, NotifyTypeOK
    <3>2. [call |-> calls + 1, ts |-> wall].call \in 1..calls' /\ [call |-> calls + 1, ts |-> wall].ts \in 0..wall'
      BY <2>2 DEF NotifyTyped, NotifyTypeOK
    <3>3. stored' \subseteq stored \cup {[call |-> calls + 1, ts |-> wall]}
      BY <1>2 DEF Emit, CreateEvent
    <3>4. QED BY <3>1, <3>2, <3>3
  <2>7. failures' \in 0..MaxFailures
    BY <1>2 DEF Emit, CreateEvent, NotifyTyped, NotifyTypeOK
  <2>8. QED BY <2>2, <2>4, <2>5, <2>6, <2>7 DEF NotifyTyped, NotifyTypeOK, InThePast
<1>3. ASSUME NEW e \in Emitters, SkipRule(e) PROVE NotifyTyped'
  <2>1. /\ emit[e] # Idle /\ Move(e, Onward(emit[e]))
        /\ UNCHANGED <<wall, cooldown, stored, attempts, calls, failures, engineRestarts>>
    BY <1>3 DEF SkipRule
  <2>2. emit[e] \in Calls
    BY <2>1 DEF NotifyTyped, NotifyTypeOK
  <2>3. wall \in Nat /\ (Onward(emit[e]) # Idle => Onward(emit[e]).at <= wall)
    BY <2>2, CallFacts DEF NotifyTyped, NotifyTypeOK
  <2>4. QED BY <2>1, <2>2, <2>3, CallFacts, MoveFacts DEF NotifyTyped, NotifyTypeOK, InThePast
<1>4. ASSUME NEW e \in Emitters, PassRule(e) PROVE NotifyTyped'
  <2> DEFINE c == [emit[e] EXCEPT !.channel = 1, !.at = wall]
             r == Rules[emit[e].rule]
  <2>1. /\ emit[e] # Idle /\ Move(e, c) /\ cooldown' = Stamped(r, emit[e].event)
        /\ UNCHANGED <<wall, stored, attempts, calls, failures, engineRestarts>>
    BY <1>4 DEF PassRule
  <2>2. emit[e] \in Calls
    BY <2>1 DEF NotifyTyped, NotifyTypeOK
  <2>3. c \in Calls /\ c.from = emit[e].from /\ c.call = emit[e].call /\ c.at <= wall
    <3>1. wall \in 0..MaxWall /\ wall <= wall
      BY DEF NotifyTyped, NotifyTypeOK
    <3>2. QED BY <2>2, <3>1 DEF Calls
  <2> HIDE DEF c, r
  <2>4. \A k \in DOMAIN cooldown' : cooldown'[k] \in 0..wall
    BY <2>1 DEF Stamped, NotifyTyped, NotifyTypeOK
  <2>5. QED BY <2>1, <2>2, <2>3, <2>4, MoveFacts DEF NotifyTyped, NotifyTypeOK, InThePast
<1>5. ASSUME NEW e \in Emitters, Deliver(e) PROVE NotifyTyped'
  <2> DEFINE c == emit[e]
             r == Rules[c.rule]
             n == Len(channelsOf(r))
             d == IF c.channel < n THEN [c EXCEPT !.channel = @ + 1] ELSE Onward(c)
  <2>1. /\ c # Idle /\ Move(e, d) /\ UNCHANGED <<wall, cooldown, stored, calls, engineRestarts>>
    BY <1>5 DEF Deliver
  <2>2. c \in Calls
    BY <2>1 DEF NotifyTyped, NotifyTypeOK
  <2>3. d \in Calls \cup {Idle} /\ (d # Idle => d.from = c.from /\ d.call = c.call /\ d.at <= wall)
    <3>1. CASE c.channel < n
      <4>1. c.channel + 1 \in Nat /\ d = [c EXCEPT !.channel = c.channel + 1]
        BY <2>2, <3>1, CallFacts
      <4>2. c.at <= wall
        BY <2>1 DEF NotifyTyped, InThePast
      <4> HIDE DEF d, c
      <4>3. d \in Calls /\ d.from = c.from /\ d.call = c.call /\ d.at = c.at
        BY <2>2, <4>1 DEF Calls
      <4>4. QED BY <4>2, <4>3
    <3>2. CASE ~(c.channel < n)
      <4>1. wall \in Nat
        BY DEF NotifyTyped, NotifyTypeOK
      <4>2. d = Onward(c)
        BY <3>2
      <4> HIDE DEF d, c
      <4>3. /\ Onward(c) \in Calls \cup {Idle}
            /\ Onward(c) # Idle => /\ Onward(c).from = c.from /\ Onward(c).call = c.call
                                   /\ Onward(c).at = 0
        BY ONLY <2>2, CallFacts
      <4>4. 0 <= wall
        BY ONLY <4>1
      <4>5. QED BY ONLY <4>2, <4>3, <4>4
    <3>3. QED BY ONLY <3>1, <3>2
  <2>4. failures' \in 0..MaxFailures
    BY <1>5 DEF Deliver, NotifyTyped, NotifyTypeOK
  <2>5. ASSUME NEW a \in attempts'
        PROVE  a.call \in 1..calls' /\ a.at \in 0..wall' /\ a.status \in {"sent", "failed"}
               /\ a.epoch \in 0..engineRestarts'
    <3>1. CASE a \in attempts
      BY <2>1, <3>1 DEF NotifyTyped, NotifyTypeOK, InThePast
    <3>2. CASE a \notin attempts
      <4>1. a.call = c.call /\ a.at = c.at /\ a.status \in {"sent", "failed"} /\ a.epoch = engineRestarts
        BY <1>5, <2>5, <3>2 DEF Deliver
      <4>2. c.call \in 1..MaxEvents /\ c.call <= calls /\ calls \in Nat /\ engineRestarts \in Nat
            /\ c.at \in 0..MaxWall /\ c.at <= wall /\ wall \in Nat
        BY <2>1, <2>2, CallFacts DEF NotifyTyped, NotifyTypeOK, InThePast
      <4>3. QED BY <2>1, <4>1, <4>2
    <3>3. QED BY <3>1, <3>2
  <2> HIDE DEF c, d
  <2>6. QED BY <2>1, <2>3, <2>4, <2>5, MoveFacts DEF NotifyTyped, NotifyTypeOK, InThePast, c
<1>6. CASE EngineRestarts
  <2>1. /\ emit' = [e \in Emitters |-> Idle] /\ cooldown' = NoPasses
        /\ engineRestarts' = engineRestarts + 1 /\ engineRestarts' \in 0..MaxEngineRestarts
        /\ UNCHANGED <<wall, stored, attempts, handled, calls, failures>>
    BY <1>6 DEF EngineRestarts, NotifyTyped, NotifyTypeOK
  <2>2. NotifyTypeOK'
    BY <2>1 DEF NotifyTyped, NotifyTypeOK, NoPasses
  <2>3. InThePast'
    BY <2>1 DEF NotifyTyped, NotifyTypeOK, InThePast
  <2>4. QED BY <2>2, <2>3 DEF NotifyTyped
<1>7. CASE WallTicks
  <2>1. wall' = wall + 1 /\ wall' \in 0..MaxWall
        /\ UNCHANGED <<emit, cooldown, stored, attempts, handled, calls, failures, engineRestarts>>
    BY <1>7 DEF WallTicks, NotifyTyped, NotifyTypeOK
  <2>2. NotifyTypeOK'
    BY <2>1 DEF NotifyTyped, NotifyTypeOK
  <2>3. \A e \in Emitters : emit'[e] # Idle =>
            emit'[e].from <= wall' /\ emit'[e].at <= wall' /\ emit'[e].call <= calls'
    <3>1. SUFFICES ASSUME NEW e \in Emitters, emit[e] # Idle
                   PROVE  emit[e].from <= wall + 1 /\ emit[e].at <= wall + 1 /\ emit[e].call <= calls
      BY <2>1
    <3>2. emit[e] \in Calls
      BY <3>1 DEF NotifyTyped, NotifyTypeOK
    <3>3. emit[e].from \in Int /\ emit[e].at \in Int /\ wall \in Int
      BY <3>2, CallFacts DEF NotifyTyped, NotifyTypeOK
    <3>4. QED BY <3>1, <3>3 DEF NotifyTyped, InThePast
  <2>4. QED BY <2>1, <2>2, <2>3 DEF NotifyTyped, InThePast
<1>8. CASE UNCHANGED notifyVars
  BY <1>8 DEF notifyVars, NotifyTyped, NotifyTypeOK, InThePast
<1>9. QED BY <1>2, <1>3, <1>4, <1>5, <1>6, <1>7, <1>8 DEF NotifyNext, EmitStep

\* The types hold in every state.
LEMMA NotifyTypedHolds == NotifySpec => []NotifyTyped
  BY NotifyTypedInit, NotifyTypedStep, PTL DEF NotifySpec

-----------------------------------------------------------------------------
(* One pass in a cooldown *)

\* The rules of a name agree on their cooldown: the map is keyed by the name.
OneCooldownPerName ==
    \A i, j \in 1..Len(Rules) :
        Rules[i].name = Rules[j].name => Rules[i].cooldown = Rules[j].cooldown

\* A pass of a rule, told from a delivery and from a call in progress.
AttemptPass(a) == [call |-> a.call, rule |-> a.rule, key |-> a.key, at |-> a.at]
CallPass(c)    == [call |-> c.call, rule |-> Rules[c.rule].name, key |-> c.event.key, at |-> c.at]

\* The passes since the last restart that were delivered or are being delivered.
Passes == {AttemptPass(a) : a \in {b \in attempts : b.epoch = engineRestarts}} \cup
          {CallPass(emit[e]) : e \in {x \in Emitters : emit[x] # Idle /\ emit[x].channel > 0}}

KeyOf(p) == [rule |-> p.rule, key |-> p.key]

\* The map knows a pass of the key that is not older.
PassIsStamped ==
    \A p \in Passes : \A r \in RuleNamed(p.rule) :
        r.cooldown > 0 => KeyOf(p) \in DOMAIN cooldown /\ p.at <= cooldown[KeyOf(p)]

\* The passes of a rule and a key for different calls are a cooldown apart.
PassesAreSpaced ==
    \A p, q \in Passes : \A r \in RuleNamed(p.rule) :
        p.rule = q.rule /\ p.key = q.key /\ p.call # q.call
            => p.at - q.at >= r.cooldown \/ q.at - p.at >= r.cooldown

CooldownInv == PassIsStamped /\ PassesAreSpaced /\ OncePerCooldown

\* The fields of a pass.
LEMMA PassFields ==
    /\ \A a : /\ AttemptPass(a).call = a.call /\ AttemptPass(a).rule = a.rule
              /\ AttemptPass(a).key = a.key /\ AttemptPass(a).at = a.at
    /\ \A c : /\ CallPass(c).call = c.call /\ CallPass(c).rule = Rules[c.rule].name
              /\ CallPass(c).key = c.event.key /\ CallPass(c).at = c.at
  BY DEF AttemptPass, CallPass

\* Passes happen at a time.
LEMMA PassTime == NotifyTyped => \A p \in Passes : p.at \in Int
<1>1. SUFFICES ASSUME NotifyTyped, NEW p \in Passes PROVE p.at \in Int
  OBVIOUS
<1>2. ASSUME NEW a \in attempts, p = AttemptPass(a) PROVE p.at \in Int
  BY <1>1, <1>2, PassFields DEF NotifyTyped, NotifyTypeOK
<1>3. ASSUME NEW e \in Emitters, emit[e] # Idle, p = CallPass(emit[e]) PROVE p.at \in Int
  <2>1. emit[e] \in Calls
    BY <1>1, <1>3 DEF NotifyTyped, NotifyTypeOK
  <2>2. emit[e].at \in Int
    BY <2>1, CallFacts
  <2>3. QED BY <1>3, <2>2, PassFields
<1>4. QED BY <1>2, <1>3 DEF Passes

\* A step that adds no pass and leaves the map alone keeps the passes spaced.
LEMMA PassesShrink ==
    ASSUME CooldownInv, Passes' \subseteq Passes, cooldown' = cooldown
    PROVE  PassIsStamped' /\ PassesAreSpaced'
<1>1. PassIsStamped'
  BY DEF CooldownInv, PassIsStamped, RuleNamed, KeyOf
<1>2. PassesAreSpaced'
  BY DEF CooldownInv, PassesAreSpaced, RuleNamed
<1>3. QED BY <1>1, <1>2

\* The calls of the goroutines that do not move keep their passes, and so does
\* the one that moves if it adds none.
LEMMA PassesAfterMove ==
    ASSUME NotifyTyped, NEW e \in Emitters, NEW d, Move(e, d), engineRestarts' = engineRestarts,
           \A a \in attempts' : a.epoch = engineRestarts => AttemptPass(a) \in Passes
    PROVE  \A p \in Passes' : p \in Passes \/ (d # Idle /\ d.channel > 0 /\ p = CallPass(d))
<1>1. emit \in [Emitters -> Calls \cup {Idle}] /\ emit' = [emit EXCEPT ![e] = d]
  BY DEF NotifyTyped, NotifyTypeOK, Move
<1>2. SUFFICES ASSUME NEW p \in Passes'
               PROVE  p \in Passes \/ (d # Idle /\ d.channel > 0 /\ p = CallPass(d))
  OBVIOUS
<1>3. ASSUME NEW a \in attempts', a.epoch = engineRestarts', p = AttemptPass(a) PROVE p \in Passes
  BY <1>3
<1>4. ASSUME NEW x \in Emitters, emit'[x] # Idle, emit'[x].channel > 0, p = CallPass(emit'[x])
      PROVE  p \in Passes \/ (d # Idle /\ d.channel > 0 /\ p = CallPass(d))
  <2>1. CASE x = e
    BY <1>1, <1>4, <2>1
  <2>2. CASE x # e
    <3>1. emit'[x] = emit[x]
      BY <1>1, <2>2
    <3>2. QED BY <1>4, <3>1 DEF Passes
  <2>3. QED BY <2>1, <2>2
<1>5. /\ (\E a \in attempts' : a.epoch = engineRestarts' /\ p = AttemptPass(a))
         \/ (\E x \in Emitters : emit'[x] # Idle /\ emit'[x].channel > 0 /\ p = CallPass(emit'[x]))
  BY <1>2 DEF Passes, AttemptPass, CallPass
<1>6. QED BY <1>3, <1>4, <1>5

\* A delivery adds one row, with what the call holds.
LEMMA DeliverFacts ==
    ASSUME NEW e \in Emitters, Deliver(e)
    PROVE  \E n : /\ attempts' = attempts \cup {n}
                  /\ n.call = emit[e].call /\ n.rule = Rules[emit[e].rule].name
                  /\ n.key = emit[e].event.key /\ n.at = emit[e].at /\ n.epoch = engineRestarts
                  /\ n.channel = channelsOf(Rules[emit[e].rule])[emit[e].channel]
<1> DEFINE c == emit[e]
           r == Rules[c.rule]
<1>1. PICK status \in {"sent", "failed"} :
         attempts' = attempts \cup
            {[call |-> c.call, rule |-> r.name, key |-> c.event.key,
              channel |-> channelsOf(r)[c.channel],
              recipients |-> resolveRecipients(r, c.event), status |-> status,
              at |-> c.at, epoch |-> engineRestarts]}
  BY DEF Deliver
<1> DEFINE n == [call |-> c.call, rule |-> r.name, key |-> c.event.key,
                 channel |-> channelsOf(r)[c.channel],
                 recipients |-> resolveRecipients(r, c.event), status |-> status,
                 at |-> c.at, epoch |-> engineRestarts]
<1>2. /\ n.call = c.call /\ n.rule = r.name /\ n.key = c.event.key /\ n.at = c.at
      /\ n.epoch = engineRestarts /\ n.channel = channelsOf(r)[c.channel] /\ attempts' = attempts \cup {n}
  BY <1>1
<1> HIDE DEF n
<1>3. QED BY <1>2

\* A rule lets an event through: the passes of its key are a cooldown away, and
\* the map is as new as this one.
LEMMA PassKeepsSpacing ==
    ASSUME OneCooldownPerName, NotifyTyped, CooldownInv, NEW e \in Emitters, PassRule(e)
    PROVE  PassIsStamped' /\ PassesAreSpaced'
<1> DEFINE c == emit[e]
           r == Rules[c.rule]
           d == [c EXCEPT !.channel = 1, !.at = wall]
           k == CooldownKey(r, c.event)
           new == CallPass(d)
<1>1. /\ c # Idle /\ Move(e, d) /\ cooldown' = Stamped(r, c.event) /\ Allows(r, c.event)
      /\ UNCHANGED <<wall, attempts, engineRestarts>>
  BY DEF PassRule
<1>2. c \in Calls /\ wall \in Nat /\ c.rule \in 1..Len(Rules) /\ r.cooldown \in Nat
  <2>1. c \in Calls /\ wall \in Nat
    BY <1>1 DEF NotifyTyped, NotifyTypeOK
  <2>2. c.rule \in 1..Len(Rules)
    BY <2>1, CallFacts
  <2>3. QED BY <2>1, <2>2, RuleFacts
<1>3. d.call = c.call /\ d.rule = c.rule /\ d.event = c.event /\ d.at = wall
  BY <1>2 DEF Calls
<1> HIDE DEF d
<1>4. new.call = c.call /\ new.rule = r.name /\ new.key = c.event.key /\ new.at = wall
  BY <1>3, PassFields
<1>5. KeyOf(new) = k
  BY <1>4 DEF KeyOf, CooldownKey
<1>6. \A s \in RuleNamed(r.name) : s.cooldown = r.cooldown
  BY <1>2 DEF RuleNamed, OneCooldownPerName
<1>7. \A p \in Passes' : p \in Passes \/ p = new
  <2>1. \A a \in attempts' : a.epoch = engineRestarts => AttemptPass(a) \in Passes
    BY <1>1 DEF Passes
  <2>2. QED BY <1>1, <2>1, PassesAfterMove
<1>8. \A p \in Passes : p.at \in Int
  BY PassTime
<1>9. \A x \in DOMAIN cooldown : cooldown[x] \in 0..wall
  BY DEF NotifyTyped, NotifyTypeOK
<1> HIDE DEF new, k
<1>10. /\ r.cooldown > 0 => k \in DOMAIN cooldown' /\ cooldown'[k] = wall
       /\ \A x \in DOMAIN cooldown : x \in DOMAIN cooldown' /\ cooldown[x] <= cooldown'[x]
                                     /\ cooldown'[x] \in Int
  BY <1>1, <1>2, <1>9 DEF Stamped, k
<1> HIDE DEF r, c
<1>11. PassIsStamped'
  <2>1. SUFFICES ASSUME NEW p \in Passes', NEW s \in RuleNamed(p.rule), s.cooldown > 0
                 PROVE  KeyOf(p) \in DOMAIN cooldown' /\ p.at <= cooldown'[KeyOf(p)]
    BY DEF PassIsStamped, RuleNamed, KeyOf
  <2>2. CASE p \in Passes
    <3>1. KeyOf(p) \in DOMAIN cooldown /\ p.at <= cooldown[KeyOf(p)]
      BY <2>1, <2>2 DEF CooldownInv, PassIsStamped
    <3>2. QED BY <1>8, <1>9, <1>10, <2>2, <3>1
  <2>3. CASE p = new
    <3>1. s.cooldown = r.cooldown
      BY <1>4, <1>6, <2>1, <2>3
    <3>2. QED BY <1>2, <1>4, <1>5, <1>10, <2>1, <2>3, <3>1
  <2>4. QED BY <1>7, <2>1, <2>2, <2>3
<1>12. ASSUME NEW p \in Passes, p.rule = new.rule, p.key = new.key PROVE wall - p.at >= r.cooldown \/ r.cooldown = 0
  <2>1. SUFFICES ASSUME r.cooldown > 0 PROVE wall - p.at >= r.cooldown
    BY <1>2
  <2>2. KeyOf(p) = k
    BY <1>5, <1>12 DEF KeyOf
  <2>3. r \in RuleNamed(p.rule)
    BY <1>2, <1>4, <1>12 DEF RuleNamed, r
  <2>4. k \in DOMAIN cooldown /\ p.at <= cooldown[k]
    BY <2>1, <2>2, <2>3 DEF CooldownInv, PassIsStamped
  <2>5. wall - cooldown[k] >= r.cooldown
    BY <1>1, <2>4 DEF Allows, k
  <2>6. QED BY <1>2, <1>8, <1>9, <2>4, <2>5
<1>13. PassesAreSpaced'
  <2>1. SUFFICES ASSUME NEW p \in Passes', NEW q \in Passes', NEW s \in RuleNamed(p.rule),
                        p.rule = q.rule, p.key = q.key, p.call # q.call
                 PROVE  p.at - q.at >= s.cooldown \/ q.at - p.at >= s.cooldown
    BY DEF PassesAreSpaced, RuleNamed
  <2>2. CASE p \in Passes /\ q \in Passes
    BY <2>1, <2>2 DEF CooldownInv, PassesAreSpaced
  <2>3. CASE p = new /\ q \in Passes
    <3>1. s.cooldown = r.cooldown
      BY <1>4, <1>6, <2>1, <2>3
    <3>2. wall - q.at >= r.cooldown \/ r.cooldown = 0
      BY <1>12, <2>1, <2>3
    <3>3. QED BY <1>2, <1>4, <1>8, <2>3, <3>1, <3>2
  <2>4. CASE p \in Passes /\ q = new
    <3>1. s.cooldown = r.cooldown
      BY <1>4, <1>6, <2>1, <2>4
    <3>2. wall - p.at >= r.cooldown \/ r.cooldown = 0
      BY <1>12, <2>1, <2>4
    <3>3. QED BY <1>2, <1>4, <1>8, <2>4, <3>1, <3>2
  <2>5. QED BY <1>7, <2>1, <2>2, <2>3, <2>4
<1>14. QED BY <1>11, <1>13

\* Every step keeps the passes and the deliveries spaced.
LEMMA CooldownStep ==
    ASSUME OneCooldownPerName, NotifyTyped, CooldownInv, [NotifyNext]_notifyVars
    PROVE  CooldownInv'
<1>1. \A a \in attempts : a.epoch = engineRestarts => AttemptPass(a) \in Passes
  BY DEF Passes
<1>2. attempts' = attempts => OncePerCooldown'
  BY DEF CooldownInv, OncePerCooldown, RuleNamed
<1>3. ASSUME NEW e \in Emitters, Emit(e) PROVE CooldownInv'
  <2>1. PICK ev \in Events :
            emit' = [emit EXCEPT ![e] = [call |-> calls + 1, event |-> ev, from |-> wall,
                                         rule |-> 1, channel |-> 0, at |-> 0]]
    BY <1>3 DEF Emit
  <2>2. UNCHANGED <<attempts, engineRestarts, cooldown>>
    BY <1>3 DEF Emit
  <2>3. ~(emit'[e].channel > 0) /\ \A x \in Emitters \ {e} : emit'[x] = emit[x]
    BY <2>1 DEF NotifyTyped, NotifyTypeOK
  <2>4. Passes' \subseteq Passes
    BY <2>2, <2>3 DEF Passes, CallPass, AttemptPass
  <2>5. QED BY <1>2, <2>2, <2>4, PassesShrink DEF CooldownInv
<1>4. ASSUME NEW e \in Emitters, SkipRule(e) PROVE CooldownInv'
  <2>1. /\ emit[e] # Idle /\ Move(e, Onward(emit[e]))
        /\ UNCHANGED <<cooldown, attempts, engineRestarts>>
    BY <1>4 DEF SkipRule
  <2>2. emit[e] \in Calls
    BY <2>1 DEF NotifyTyped, NotifyTypeOK
  <2>3. ~(Onward(emit[e]) # Idle /\ Onward(emit[e]).channel > 0)
    BY <2>2, CallFacts
  <2>4. Passes' \subseteq Passes
    BY <1>1, <2>1, <2>3, PassesAfterMove
  <2>5. QED BY <1>2, <2>1, <2>4, PassesShrink DEF CooldownInv
<1>5. ASSUME NEW e \in Emitters, PassRule(e) PROVE CooldownInv'
  <2>1. attempts' = attempts
    BY <1>5 DEF PassRule
  <2>2. QED BY <1>2, <1>5, <2>1, PassKeepsSpacing DEF CooldownInv
<1>6. ASSUME NEW e \in Emitters, Deliver(e) PROVE CooldownInv'
  <2> DEFINE c == emit[e]
             r == Rules[c.rule]
             d == IF c.channel < Len(channelsOf(r)) THEN [c EXCEPT !.channel = @ + 1] ELSE Onward(c)
  <2>1. /\ c # Idle /\ c.channel > 0 /\ Move(e, d) /\ UNCHANGED <<cooldown, engineRestarts>>
    BY <1>6 DEF Deliver
  <2>2. PICK n : /\ attempts' = attempts \cup {n}
                 /\ n.call = c.call /\ n.rule = r.name /\ n.key = c.event.key /\ n.at = c.at
                 /\ n.epoch = engineRestarts
    BY <1>6, DeliverFacts
  <2>3. AttemptPass(n) = CallPass(c)
    BY <2>2 DEF AttemptPass, CallPass
  <2>4. CallPass(c) \in Passes
    BY <2>1 DEF Passes
  <2>5. \A a \in attempts' : a.epoch = engineRestarts => AttemptPass(a) \in Passes
    BY <1>1, <2>2, <2>3, <2>4
  <2>6. c \in Calls
    BY <2>1 DEF NotifyTyped, NotifyTypeOK
  <2>7. d # Idle /\ d.channel > 0 => CallPass(d) = CallPass(c)
    <3>1. CASE c.channel < Len(channelsOf(r))
      BY <2>6, <3>1 DEF CallPass, Calls
    <3>2. CASE ~(c.channel < Len(channelsOf(r)))
      BY <2>6, <3>2, CallFacts
    <3>3. QED BY <3>1, <3>2
  <2> HIDE DEF d
  <2>8. Passes' \subseteq Passes
    BY <2>1, <2>4, <2>5, <2>7, PassesAfterMove
  <2>9. OncePerCooldown'
    <3> HIDE DEF c, r
    <3>1. SUFFICES ASSUME NEW a \in attempts', NEW b \in attempts', NEW s \in RuleNamed(a.rule),
                          a.rule = b.rule, a.key = b.key, a.call # b.call, a.epoch = b.epoch
                   PROVE  a.at - b.at >= s.cooldown \/ b.at - a.at >= s.cooldown
      BY DEF OncePerCooldown, RuleNamed
    <3>2. CASE a \in attempts /\ b \in attempts
      BY <3>1, <3>2 DEF CooldownInv, OncePerCooldown
    <3>3. CASE a.epoch = engineRestarts
      <4>1. AttemptPass(a) \in Passes /\ AttemptPass(b) \in Passes
        BY <2>5, <3>1, <3>3
      <4>2. QED BY <3>1, <4>1, PassFields DEF CooldownInv, PassesAreSpaced
    <3>4. QED BY <2>2, <3>1, <3>2, <3>3
  <2>10. QED BY <2>1, <2>8, <2>9, PassesShrink DEF CooldownInv
<1>7. CASE EngineRestarts
  <2>1. /\ emit' = [e \in Emitters |-> Idle] /\ attempts' = attempts /\ engineRestarts' = engineRestarts + 1
    BY <1>7 DEF EngineRestarts
  <2>2. \A a \in attempts : a.epoch # engineRestarts'
    BY <2>1 DEF NotifyTyped, NotifyTypeOK, InThePast
  <2>3. Passes' = {}
    BY <2>1, <2>2 DEF Passes
  <2>4. QED BY <1>2, <2>1, <2>3 DEF CooldownInv, PassIsStamped, PassesAreSpaced
<1>8. CASE WallTicks \/ UNCHANGED notifyVars
  <2>1. UNCHANGED <<emit, cooldown, attempts, engineRestarts>>
    BY <1>8 DEF WallTicks, notifyVars
  <2>2. Passes' = Passes
    BY <2>1 DEF Passes, AttemptPass, CallPass
  <2>3. QED BY <1>2, <2>1, <2>2, PassesShrink DEF CooldownInv
<1>9. QED BY <1>3, <1>4, <1>5, <1>6, <1>7, <1>8 DEF NotifyNext, EmitStep

\* Where the rules of a name have one cooldown, which names that are distinct
\* ensure, a rule lets one event of a key through in its cooldown, however many
\* goroutines emit and however long a delivery takes (allow, deliver).
THEOREM OneNoticePerCooldown ==
    ASSUME OneCooldownPerName PROVE NotifySpec => []OncePerCooldown
<1>1. NotifyInit => CooldownInv
  <2>1. SUFFICES ASSUME NotifyInit PROVE CooldownInv
    OBVIOUS
  <2>2. Passes = {} /\ attempts = {}
    BY <2>1 DEF NotifyInit, Passes
  <2>3. QED BY <2>2 DEF CooldownInv, PassIsStamped, PassesAreSpaced, OncePerCooldown
<1>2. NotifyTyped /\ CooldownInv /\ [NotifyNext]_notifyVars => CooldownInv'
  BY CooldownStep
<1>3. CooldownInv => OncePerCooldown
  BY DEF CooldownInv
<1>4. QED BY <1>1, <1>2, <1>3, NotifyTypedHolds, PTL DEF NotifySpec

-----------------------------------------------------------------------------
(* Nobody is left out *)

\* Every rule has a name of its own.
DistinctNames == \A i, j \in 1..Len(Rules) : Rules[i].name = Rules[j].name => i = j

\* The calls and times with which rule i has tried channel j for the key, or
\* still will: a call on channel j or an earlier one goes on to it.  The state
\* is a parameter, for the proofs compare two of them.
Tries(em, att, i, key, j) ==
    {[call |-> em[e].call, at |-> em[e].at] :
        e \in {x \in Emitters : /\ em[x] # Idle
                                /\ em[x].rule = i /\ em[x].event.key = key
                                /\ em[x].channel \in 1..j}} \cup
    {[call |-> a.call, at |-> a.at] :
        a \in {b \in att : /\ b.rule = Rules[i].name /\ b.key = key
                                /\ b.channel = channelsOf(Rules[i])[j]}}

\* The rule has nothing to do with the event, or has tried every channel for it
\* or for one of its key that is not older than the cooldown.
Passed(em, att, i, ev, from, call) ==
    matches(Rules[i], ev) =>
        \A j \in 1..Len(channelsOf(Rules[i])) :
            \E t \in Tries(em, att, i, ev.key, j) : t.call = call \/ t.at > from - Rules[i].cooldown

\* What the map holds was a pass, and was or will be tried on every channel.
StampIsTried ==
    \A i \in 1..Len(Rules), ev \in Events :
        CooldownKey(Rules[i], ev) \in DOMAIN cooldown =>
            \A j \in 1..Len(channelsOf(Rules[i])) :
                \E t \in Tries(emit, attempts, i, ev.key, j) : t.at = cooldown[CooldownKey(Rules[i], ev)]

\* The rules behind a call in progress, and the one it delivers for, are served.
BehindIsPassed ==
    \A e \in Emitters : emit[e] # Idle =>
        \A i \in 1..Len(Rules) :
            i < emit[e].rule \/ (i = emit[e].rule /\ emit[e].channel > 0)
                => Passed(emit, attempts, i, emit[e].event, emit[e].from, emit[e].call)

\* All rules are served when the call has returned.
HandledIsPassed ==
    \A h \in handled : h.epoch = engineRestarts =>
        \A i \in 1..Len(Rules) : Passed(emit, attempts, i, h.event, h.from, h.call)

ServedInv == StampIsTried /\ BehindIsPassed /\ HandledIsPassed

\* What is tried stays tried, and what will be tried is.
LEMMA TriesGrow ==
    ASSUME NotifyTyped, NEW e \in Emitters, EmitStep(e),
           NEW i \in 1..Len(Rules), NEW key, NEW j \in 1..Len(channelsOf(Rules[i]))
    PROVE  Tries(emit, attempts, i, key, j) \subseteq Tries(emit', attempts', i, key, j)
<1> DEFINE c == emit[e]
<1>1. SUFFICES ASSUME NEW t \in Tries(emit, attempts, i, key, j) PROVE t \in Tries(emit', attempts', i, key, j)
  OBVIOUS
<1>2. attempts \subseteq attempts'
  BY DeliverFacts DEF EmitStep, Emit, SkipRule, PassRule
<1>3. \A x \in Emitters \ {e} : emit'[x] = emit[x]
  BY DEF EmitStep, Emit, SkipRule, PassRule, Deliver, Move, NotifyTyped, NotifyTypeOK
<1>4. ASSUME NEW a \in attempts, t = [call |-> a.call, at |-> a.at],
             a.rule = Rules[i].name, a.key = key, a.channel = channelsOf(Rules[i])[j]
      PROVE  t \in Tries(emit', attempts', i, key, j)
  BY <1>2, <1>4 DEF Tries
<1>5. ASSUME NEW x \in Emitters, t = [call |-> emit[x].call, at |-> emit[x].at], emit[x] # Idle,
             emit[x].rule = i, emit[x].event.key = key, emit[x].channel \in 1..j
      PROVE  t \in Tries(emit', attempts', i, key, j)
  <2>1. CASE x # e
    <3>1. emit'[x] = emit[x]
      BY <1>3, <2>1
    <3>2. QED BY <1>5, <3>1 DEF Tries
  <2>2. CASE x = e
    <3>1. Deliver(e)
      BY <1>5, <2>2 DEF EmitStep, Emit, SkipRule, PassRule
    <3>2. PICK n : /\ attempts' = attempts \cup {n}
                   /\ n.call = c.call /\ n.rule = Rules[c.rule].name
                   /\ n.key = c.event.key /\ n.at = c.at
                   /\ n.channel = channelsOf(Rules[c.rule])[c.channel]
      BY <3>1, DeliverFacts
    <3>3. CASE c.channel = j
      <4>1. n \in attempts' /\ n.rule = Rules[i].name /\ n.key = key
            /\ n.channel = channelsOf(Rules[i])[j] /\ t = [call |-> n.call, at |-> n.at]
        BY <1>5, <2>2, <3>2, <3>3
      <4>2. QED BY <4>1 DEF Tries
    <3>4. CASE c.channel # j
      <4> DEFINE d == [c EXCEPT !.channel = c.channel + 1]
      <4>1. c \in Calls /\ c.channel \in 1..j /\ c.channel < Len(channelsOf(Rules[i]))
        BY <1>5, <2>2, <3>4, RuleFacts DEF NotifyTyped, NotifyTypeOK
      <4>2. emit' = [emit EXCEPT ![e] = d]
        BY <1>5, <2>2, <3>1, <4>1 DEF Deliver, Move
      <4>3. d.call = c.call /\ d.rule = i /\ d.event.key = key /\ d.at = c.at
            /\ d.channel = c.channel + 1 /\ d \in Calls
        <5>1. c.channel + 1 \in Nat
          BY <4>1
        <5>2. QED BY <1>5, <2>2, <4>1, <5>1 DEF Calls
      <4> HIDE DEF d
      <4>4. emit'[e] = d /\ d # Idle /\ d.channel \in 1..j
        BY <3>4, <4>1, <4>2, <4>3, CallFacts DEF NotifyTyped, NotifyTypeOK
      <4>5. t = [call |-> d.call, at |-> d.at]
        BY <1>5, <2>2, <4>3
      <4>6. QED BY <4>3, <4>4, <4>5 DEF Tries
    <3>5. QED BY <3>3, <3>4
  <2>3. QED BY <2>1, <2>2
<1>6. QED BY <1>4, <1>5 DEF Tries

\* So a rule that has served an event has served it for good.
LEMMA PassedGrows ==
    ASSUME NotifyTyped, NEW e \in Emitters, EmitStep(e), NEW i \in 1..Len(Rules),
           NEW ev, NEW from, NEW call, Passed(emit, attempts, i, ev, from, call)
    PROVE  Passed(emit', attempts', i, ev, from, call)
<1>1. \A j \in 1..Len(channelsOf(Rules[i])) : Tries(emit, attempts, i, ev.key, j) \subseteq Tries(emit', attempts', i, ev.key, j)
  BY TriesGrow
<1>2. QED BY <1>1 DEF Passed

\* A goroutine that moves on past served rules leaves everything served.
LEMMA MoveKeepsServed ==
    ASSUME NotifyTyped, ServedInv, NEW e \in Emitters, EmitStep(e), emit[e] # Idle,
           NEW d \in Calls \cup {Idle}, Move(e, d), engineRestarts' = engineRestarts,
           d # Idle => d.call = emit[e].call /\ d.event = emit[e].event /\ d.from = emit[e].from,
           \A i \in 1..Len(Rules) : d = Idle \/ i < d.rule \/ (i = d.rule /\ d.channel > 0)
               => Passed(emit', attempts', i, emit[e].event, emit[e].from, emit[e].call)
    PROVE  BehindIsPassed' /\ HandledIsPassed'
<1>1. emit'[e] = d /\ \A x \in Emitters \ {e} : emit'[x] = emit[x]
  BY DEF Move, NotifyTyped, NotifyTypeOK
<1>2. BehindIsPassed'
  <2>1. SUFFICES ASSUME NEW x \in Emitters, emit'[x] # Idle, NEW i \in 1..Len(Rules),
                        i < emit'[x].rule \/ (i = emit'[x].rule /\ emit'[x].channel > 0)
                 PROVE  Passed(emit', attempts', i, emit'[x].event, emit'[x].from, emit'[x].call)
    BY DEF BehindIsPassed
  <2>2. CASE x = e
    BY <1>1, <2>1, <2>2
  <2>3. CASE x # e
    <3>1. emit'[x] = emit[x] /\ emit[x] # Idle
      BY <1>1, <2>1, <2>3
    <3>2. Passed(emit, attempts, i, emit[x].event, emit[x].from, emit[x].call)
      BY <2>1, <3>1 DEF ServedInv, BehindIsPassed
    <3>3. Passed(emit', attempts', i, emit[x].event, emit[x].from, emit[x].call)
      BY <3>2, PassedGrows
    <3>4. QED BY <3>1, <3>3
  <2>4. QED BY <2>2, <2>3
<1>3. HandledIsPassed'
  <2>1. SUFFICES ASSUME NEW h \in handled', h.epoch = engineRestarts, NEW i \in 1..Len(Rules)
                 PROVE  Passed(emit', attempts', i, h.event, h.from, h.call)
    BY DEF HandledIsPassed
  <2>2. CASE h \in handled
    BY <2>1, <2>2, PassedGrows DEF ServedInv, HandledIsPassed
  <2>3. CASE h \notin handled
    <3>1. d = Idle /\ h = [call |-> emit[e].call, event |-> emit[e].event, from |-> emit[e].from,
                           epoch |-> engineRestarts]
      BY <2>1, <2>3 DEF Move
    <3>2. h.event = emit[e].event /\ h.from = emit[e].from /\ h.call = emit[e].call
      BY <3>1
    <3>3. QED BY <3>1, <3>2
  <2>4. QED BY <2>2, <2>3
<1>4. QED BY <1>2, <1>3

\* A step that leaves the map alone keeps what it holds tried.
LEMMA StampsKept ==
    ASSUME NotifyTyped, StampIsTried, NEW e \in Emitters, EmitStep(e), cooldown' = cooldown
    PROVE  StampIsTried'
<1>1. \A i \in 1..Len(Rules), ev \in Events : \A j \in 1..Len(channelsOf(Rules[i])) :
          Tries(emit, attempts, i, ev.key, j) \subseteq Tries(emit', attempts', i, ev.key, j)
  BY TriesGrow
<1>2. QED BY <1>1 DEF StampIsTried, CooldownKey

\* A rule that is skipped does not match, or its last pass is not too old.
LEMMA SkippedIsPassed ==
    ASSUME NotifyTyped, StampIsTried, NEW e \in Emitters, SkipRule(e)
    PROVE  Passed(emit, attempts, emit[e].rule, emit[e].event, emit[e].from, emit[e].call)
<1> DEFINE c == emit[e]
           r == Rules[c.rule]
           k == CooldownKey(r, c.event)
<1>1. c \in Calls /\ ~(matches(r, c.event) /\ Allows(r, c.event))
  BY DEF SkipRule, NotifyTyped, NotifyTypeOK
<1>2. c.rule \in 1..Len(Rules) /\ c.event \in Events /\ c.from \in Int
  BY <1>1, CallFacts
<1>3. c.from <= wall /\ wall \in Int /\ r.cooldown \in Nat
  BY <1>1, <1>2, CallFacts, RuleFacts DEF NotifyTyped, NotifyTypeOK, InThePast
<1>4. SUFFICES ASSUME matches(r, c.event), NEW j \in 1..Len(channelsOf(r))
               PROVE  \E t \in Tries(emit, attempts, c.rule, c.event.key, j) :
                          t.at > c.from - r.cooldown
  BY DEF Passed
<1>5. k \in DOMAIN cooldown /\ ~(wall - cooldown[k] >= r.cooldown)
  BY <1>1, <1>4 DEF Allows
<1>6. cooldown[k] \in Int
  BY <1>5 DEF NotifyTyped, NotifyTypeOK
<1>7. PICK t \in Tries(emit, attempts, c.rule, c.event.key, j) : t.at = cooldown[k]
  BY <1>2, <1>4, <1>5 DEF StampIsTried
<1> HIDE DEF c, r, k
<1>8. t.at > c.from - r.cooldown
  BY <1>2, <1>3, <1>5, <1>6, <1>7
<1>9. QED BY <1>7, <1>8

\* Every step of a goroutine keeps everything served.
LEMMA ServedStep ==
    ASSUME DistinctNames, NotifyTyped, ServedInv, NEW e \in Emitters, EmitStep(e)
    PROVE  ServedInv'
<1> DEFINE c == emit[e]
           r == Rules[c.rule]
<1>1. StampIsTried /\ BehindIsPassed /\ HandledIsPassed
  BY DEF ServedInv
<1>2. CASE Emit(e)
  <2>1. PICK ev \in Events :
            emit' = [emit EXCEPT ![e] = [call |-> calls + 1, event |-> ev, from |-> wall,
                                         rule |-> 1, channel |-> 0, at |-> 0]]
    BY <1>2 DEF Emit
  <2>2. UNCHANGED <<engineRestarts, cooldown, handled>>
    BY <1>2 DEF Emit
  <2>3. /\ emit'[e].rule = 1 /\ emit'[e].channel = 0
        /\ \A x \in Emitters \ {e} : emit'[x] = emit[x]
    BY <2>1 DEF NotifyTyped, NotifyTypeOK
  <2>4. BehindIsPassed'
    <3>1. SUFFICES ASSUME NEW x \in Emitters, emit'[x] # Idle, NEW i \in 1..Len(Rules),
                          i < emit'[x].rule \/ (i = emit'[x].rule /\ emit'[x].channel > 0)
                   PROVE  Passed(emit', attempts', i, emit'[x].event, emit'[x].from, emit'[x].call)
      BY DEF BehindIsPassed
    <3>2. x # e
      BY <2>3, <3>1, RuleFacts
    <3>3. Passed(emit, attempts, i, emit[x].event, emit[x].from, emit[x].call) /\ emit'[x] = emit[x]
      BY <1>1, <2>3, <3>1, <3>2 DEF BehindIsPassed
    <3>4. Passed(emit', attempts', i, emit[x].event, emit[x].from, emit[x].call)
      BY <3>3, PassedGrows
    <3>5. QED BY <3>3, <3>4
  <2>5. HandledIsPassed'
    BY <1>1, <2>2, PassedGrows DEF HandledIsPassed
  <2>6. QED BY <1>1, <2>2, <2>4, <2>5, StampsKept DEF ServedInv
<1>3. ASSUME emit[e] # Idle
      PROVE  c \in Calls /\ c.rule \in 1..Len(Rules) /\ c.event \in Events /\ c.channel \in Nat
  BY <1>3, CallFacts DEF NotifyTyped, NotifyTypeOK
<1>4. ASSUME emit[e] # Idle, Passed(emit', attempts', c.rule, c.event, c.from, c.call),
             NEW i \in 1..Len(Rules), i <= c.rule
      PROVE  Passed(emit', attempts', i, c.event, c.from, c.call)
  <2>1. CASE i = c.rule
    BY <1>4, <2>1
  <2>2. CASE i < c.rule
    <3>1. Passed(emit, attempts, i, c.event, c.from, c.call)
      BY <1>1, <1>4, <2>2 DEF BehindIsPassed
    <3>2. QED BY <3>1, PassedGrows
  <2>3. QED BY <1>3, <1>4, <2>1, <2>2
<1>5. ASSUME emit[e] # Idle, Passed(emit', attempts', c.rule, c.event, c.from, c.call),
             Move(e, Onward(c)), engineRestarts' = engineRestarts
      PROVE  BehindIsPassed' /\ HandledIsPassed'
  <2> DEFINE d == Onward(c)
  <2>1. c \in Calls /\ c.rule \in Int
    BY <1>3, <1>5
  <2>2. /\ d \in Calls \cup {Idle}
        /\ d # Idle => /\ d.call = c.call /\ d.event = c.event /\ d.from = c.from
                       /\ d.rule = c.rule + 1 /\ d.channel = 0
        /\ d = Idle => c.rule = Len(Rules)
    BY <2>1, CallFacts
  <2> HIDE DEF d
  <2>3. ASSUME NEW i \in 1..Len(Rules), d = Idle \/ i < d.rule \/ (i = d.rule /\ d.channel > 0)
        PROVE  Passed(emit', attempts', i, c.event, c.from, c.call)
    <3>1. i <= c.rule
      BY <2>1, <2>2, <2>3, RuleFacts
    <3>2. QED BY <1>4, <1>5, <3>1
  <2>4. Move(e, d)
    BY <1>5 DEF d
  <2> HIDE DEF c
  <2>5. QED BY <1>5, <2>2, <2>3, <2>4, MoveKeepsServed DEF c
<1>6. CASE SkipRule(e)
  <2>1. c # Idle /\ Move(e, Onward(c)) /\ UNCHANGED <<cooldown, engineRestarts>>
    BY <1>6 DEF SkipRule
  <2>2. Passed(emit', attempts', c.rule, c.event, c.from, c.call)
    BY <1>1, <1>3, <1>6, <2>1, SkippedIsPassed, PassedGrows
  <2>3. QED BY <1>1, <1>5, <2>1, <2>2, StampsKept DEF ServedInv
<1>7. CASE PassRule(e)
  <2> DEFINE d == [c EXCEPT !.channel = 1, !.at = wall]
             k == CooldownKey(r, c.event)
  <2>1. /\ c # Idle /\ Move(e, d) /\ cooldown' = Stamped(r, c.event) /\ engineRestarts' = engineRestarts
    BY <1>7 DEF PassRule
  <2>2. c \in Calls /\ c.rule \in 1..Len(Rules) /\ c.event \in Events /\ wall \in 0..MaxWall
    BY <1>3, <2>1 DEF NotifyTyped, NotifyTypeOK
  <2>3. d \in Calls /\ d.call = c.call /\ d.event = c.event /\ d.from = c.from
        /\ d.rule = c.rule /\ d.channel = 1 /\ d.at = wall
    BY <2>2 DEF Calls
  <2> HIDE DEF d
  <2>4. emit'[e] = d /\ d # Idle
    BY <2>1, <2>3, CallFacts DEF Move, NotifyTyped, NotifyTypeOK
  <2>5. \A j \in 1..Len(channelsOf(r)) :
            [call |-> c.call, at |-> wall] \in Tries(emit', attempts', c.rule, c.event.key, j)
    <3>1. SUFFICES ASSUME NEW j \in 1..Len(channelsOf(r))
                   PROVE  [call |-> c.call, at |-> wall] \in Tries(emit', attempts', c.rule, c.event.key, j)
      OBVIOUS
    <3>2. 1 \in 1..j
      BY <2>2, RuleFacts
    <3>3. /\ emit'[e] # Idle /\ emit'[e].rule = c.rule /\ emit'[e].event.key = c.event.key
          /\ emit'[e].channel \in 1..j
          /\ [call |-> c.call, at |-> wall] = [call |-> emit'[e].call, at |-> emit'[e].at]
      BY <2>3, <2>4, <3>2
    <3>4. QED BY <3>3 DEF Tries
  <2>6. Passed(emit', attempts', c.rule, c.event, c.from, c.call)
    BY <2>5 DEF Passed
  <2>7. BehindIsPassed' /\ HandledIsPassed'
    <3>1. ASSUME NEW i \in 1..Len(Rules), d = Idle \/ i < d.rule \/ (i = d.rule /\ d.channel > 0)
          PROVE  Passed(emit', attempts', i, c.event, c.from, c.call)
      <4>1. i <= c.rule
        BY <2>2, <2>3, <2>4, <3>1
      <4>2. QED BY <1>4, <2>1, <2>6, <4>1
    <3> HIDE DEF c
    <3>2. QED BY <2>1, <2>3, <3>1, MoveKeepsServed DEF c
  <2>8. StampIsTried'
    <3>1. SUFFICES ASSUME NEW i \in 1..Len(Rules), NEW ev \in Events,
                          CooldownKey(Rules[i], ev) \in DOMAIN cooldown',
                          NEW j \in 1..Len(channelsOf(Rules[i]))
                   PROVE  \E t \in Tries(emit', attempts', i, ev.key, j) :
                              t.at = cooldown'[CooldownKey(Rules[i], ev)]
      BY DEF StampIsTried, CooldownKey
    <3>2. CASE CooldownKey(Rules[i], ev) = k /\ r.cooldown # 0
      <4>1. Rules[i].name = r.name /\ ev.key = c.event.key
        BY <3>2 DEF CooldownKey
      <4>2. i = c.rule
        BY <2>2, <4>1 DEF DistinctNames
      <4>3. cooldown'[k] = wall
        BY <2>1, <3>2 DEF Stamped
      <4>4. [call |-> c.call, at |-> wall] \in Tries(emit', attempts', i, ev.key, j)
        BY <2>5, <3>1, <4>1, <4>2
      <4>5. QED BY <3>2, <4>3, <4>4
    <3>3. CASE ~(CooldownKey(Rules[i], ev) = k /\ r.cooldown # 0)
      <4>1. CooldownKey(Rules[i], ev) \in DOMAIN cooldown
            /\ cooldown'[CooldownKey(Rules[i], ev)] = cooldown[CooldownKey(Rules[i], ev)]
        BY <2>1, <3>1, <3>3 DEF Stamped
      <4>2. Tries(emit, attempts, i, ev.key, j) \subseteq Tries(emit', attempts', i, ev.key, j)
        BY TriesGrow
      <4>3. QED BY <1>1, <4>1, <4>2 DEF StampIsTried
    <3>4. QED BY <3>2, <3>3
  <2>9. QED BY <2>7, <2>8 DEF ServedInv
<1>8. CASE Deliver(e)
  <2>1. c # Idle /\ c.channel > 0 /\ UNCHANGED <<cooldown, engineRestarts>>
        /\ Move(e, IF c.channel < Len(channelsOf(r)) THEN [c EXCEPT !.channel = @ + 1] ELSE Onward(c))
    BY <1>8 DEF Deliver
  <2>2. c \in Calls /\ c.rule \in 1..Len(Rules) /\ c.channel \in Nat
    BY <1>3, <2>1
  <2>3. Passed(emit', attempts', c.rule, c.event, c.from, c.call)
    <3>1. Passed(emit, attempts, c.rule, c.event, c.from, c.call)
      BY <1>1, <2>1, <2>2 DEF BehindIsPassed
    <3>2. QED BY <2>2, <3>1, PassedGrows
  <2>4. CASE c.channel < Len(channelsOf(r))
    <3> DEFINE d == [c EXCEPT !.channel = c.channel + 1]
    <3>1. Move(e, d)
      BY <2>1, <2>4
    <3>2. c.channel + 1 \in Nat
      BY <2>2
    <3>3. d \in Calls /\ d.call = c.call /\ d.event = c.event /\ d.from = c.from /\ d.rule = c.rule
      BY <2>2, <3>2 DEF Calls
    <3> HIDE DEF d
    <3>4. d # Idle
      BY <3>3, CallFacts
    <3>5. ASSUME NEW i \in 1..Len(Rules), d = Idle \/ i < d.rule \/ (i = d.rule /\ d.channel > 0)
          PROVE  Passed(emit', attempts', i, c.event, c.from, c.call)
      <4>1. i <= c.rule
        BY <2>2, <3>3, <3>4, <3>5
      <4>2. QED BY <1>4, <2>1, <2>3, <4>1
    <3> HIDE DEF c
    <3>6. BehindIsPassed' /\ HandledIsPassed'
      BY <2>1, <3>1, <3>3, <3>5, MoveKeepsServed DEF c
    <3>7. QED BY <1>1, <2>1, <3>6, StampsKept DEF ServedInv
  <2>5. CASE ~(c.channel < Len(channelsOf(r)))
    BY <1>1, <1>5, <2>1, <2>3, <2>5, StampsKept DEF ServedInv
  <2>6. QED BY <2>4, <2>5
<1>9. QED BY <1>2, <1>6, <1>7, <1>8 DEF EmitStep

\* Where every rule has a name of its own, which the code does not check, an
\* event whose Emit has returned was, on every channel of every rule it matches,
\* tried once or kept back for one that is not older than the cooldown, with any
\* number of goroutines.  A try that failed counts: the code makes no other (Emit,
\* allow, deliver).
THEOREM EveryRuleServed ==
    ASSUME DistinctNames PROVE NotifySpec => []NobodyIsLeftOut
<1>1. NotifyInit => ServedInv
  BY DEF NotifyInit, ServedInv, StampIsTried, BehindIsPassed, HandledIsPassed, NoPasses
<1>2. ASSUME NotifyTyped, ServedInv, [NotifyNext]_notifyVars PROVE ServedInv'
  <2>1. CASE \E e \in Emitters : EmitStep(e)
    BY <1>2, <2>1, ServedStep
  <2>2. CASE EngineRestarts
    <3>1. /\ emit' = [e \in Emitters |-> Idle] /\ cooldown' = NoPasses /\ handled' = handled
          /\ engineRestarts' = engineRestarts + 1
      BY <2>2 DEF EngineRestarts
    <3>2. \A h \in handled : h.epoch # engineRestarts'
      BY <1>2, <3>1 DEF NotifyTyped, NotifyTypeOK, InThePast
    <3>3. QED BY <3>1, <3>2 DEF ServedInv, StampIsTried, BehindIsPassed, HandledIsPassed, NoPasses
  <2>3. CASE WallTicks \/ UNCHANGED notifyVars
    <3>1. UNCHANGED <<emit, cooldown, attempts, handled, engineRestarts>>
      BY <2>3 DEF WallTicks, notifyVars
    <3>2. QED BY <1>2, <3>1
              DEF ServedInv, StampIsTried, BehindIsPassed, HandledIsPassed, CooldownKey
  <2>4. QED BY <1>2, <2>1, <2>2, <2>3 DEF NotifyNext
<1>3. ServedInv => NobodyIsLeftOut
  <2>1. SUFFICES ASSUME ServedInv, NEW h \in handled, h.epoch = engineRestarts,
                        NEW i \in 1..Len(Rules), matches(Rules[i], h.event),
                        NEW j \in 1..Len(channelsOf(Rules[i])),
                        ~InProgress(i, h.event.key, j)
                 PROVE  \E a \in attempts :
                            /\ a.rule = Rules[i].name /\ a.key = h.event.key
                            /\ a.channel = channelsOf(Rules[i])[j]
                            /\ a.call = h.call \/ a.at > h.from - Rules[i].cooldown
    BY DEF NobodyIsLeftOut
  <2>2. PICK t \in Tries(emit, attempts, i, h.event.key, j) :
            t.call = h.call \/ t.at > h.from - Rules[i].cooldown
    BY <2>1 DEF ServedInv, HandledIsPassed, Passed
  <2>3. PICK a \in attempts : /\ a.rule = Rules[i].name /\ a.key = h.event.key
                              /\ a.channel = channelsOf(Rules[i])[j]
                              /\ t = [call |-> a.call, at |-> a.at]
    BY <2>1 DEF Tries, InProgress
  <2>4. t.call = a.call /\ t.at = a.at
    BY <2>3
  <2>5. QED BY <2>2, <2>3, <2>4
<1>4. QED BY <1>1, <1>2, <1>3, NotifyTypedHolds, PTL DEF NotifySpec
=============================================================================
