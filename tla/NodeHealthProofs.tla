-------------------------- MODULE NodeHealthProofs --------------------------
(***************************************************************************)
(* Theorems about NodeHealth, for any nodes, any intervals and timeouts    *)
(* and any number of lost reports, deaths, failed rounds and restarts.     *)
(*                                                                         *)
(* Everything about rounding is in the lemmas of the first section; the    *)
(* proofs after it never expand Seconds or TicksOf.                        *)
(***************************************************************************)
EXTENDS NodeHealth, TLAPS

\* Multiplication by a positive number keeps the order.
LEMMA TimesMono ==
    ASSUME NEW a \in Int, NEW b \in Int, NEW k \in Nat \ {0}, a <= b
    PROVE  a * k <= b * k
<1>1. \A c, d \in Nat : c * d >= 0
  OBVIOUS
<1>2. (b - a) * k >= 0
  BY <1>1
<1>3. (b - a) * k = b * k - a * k
  OBVIOUS
<1>4. QED BY <1>2, <1>3

\* A number of seconds is a number of ticks, and a longer time is more ticks.
LEMMA TicksFacts ==
    ASSUME NEW a \in Int
    PROVE  /\ TicksOf(a) \in Int
           /\ \A b \in Int : TicksOf(a + b) = TicksOf(a) + TicksOf(b)
           /\ TicksOf(a + 1) = TicksOf(a) + TicksPerSecond
           /\ \A b \in Int : a <= b => TicksOf(a) <= TicksOf(b)
<1>1. TicksPerSecond \in Nat \ {0}
  BY HealthAssumption
<1>2. TicksOf(a) \in Int
  BY <1>1 DEF TicksOf
<1>3. \A b \in Int : TicksOf(a + b) = TicksOf(a) + TicksOf(b)
  BY <1>1 DEF TicksOf
<1>4. TicksOf(a + 1) = TicksOf(a) + TicksPerSecond
  BY <1>1 DEF TicksOf
<1>5. \A b \in Int : a <= b => TicksOf(a) <= TicksOf(b)
  BY <1>1, TimesMono DEF TicksOf
<1>6. QED BY <1>2, <1>3, <1>4, <1>5

\* Seconds rounds down, by less than a second.
LEMMA SecondsFacts ==
    ASSUME NEW t \in Int
    PROVE  /\ Seconds(t) \in Int
           /\ TicksOf(Seconds(t)) <= t
           /\ t < TicksOf(Seconds(t)) + TicksPerSecond
<1>1. TicksPerSecond \in Nat \ {0}
  BY HealthAssumption
<1>2. /\ t \div TicksPerSecond \in Int
      /\ (t \div TicksPerSecond) * TicksPerSecond <= t
      /\ t < (t \div TicksPerSecond) * TicksPerSecond + TicksPerSecond
  BY <1>1, SMT
<1>3. QED BY <1>2 DEF Seconds, TicksOf

\* Comparing in whole seconds says this about ticks.
LEMMA SecondsOrder ==
    ASSUME NEW t \in Int, NEW s \in Int
    PROVE  /\ s < Seconds(t) => TicksOf(s) + TicksPerSecond <= t
           /\ ~(s < Seconds(t)) => t < TicksOf(s) + TicksPerSecond
           /\ TicksOf(s) <= t => s <= Seconds(t)
           /\ \A u \in Int : u <= t => Seconds(u) <= Seconds(t)
<1>1. /\ Seconds(t) \in Int
      /\ TicksOf(Seconds(t)) \in Int
      /\ TicksOf(Seconds(t)) <= t
      /\ t < TicksOf(Seconds(t)) + TicksPerSecond
      /\ TicksPerSecond \in Nat \ {0}
  BY SecondsFacts, TicksFacts, HealthAssumption
<1>2. TicksOf(s) \in Int /\ TicksOf(s + 1) = TicksOf(s) + TicksPerSecond
  BY TicksFacts
<1>3. s < Seconds(t) => TicksOf(s) + TicksPerSecond <= t
  <2>1. SUFFICES ASSUME s + 1 <= Seconds(t) PROVE TicksOf(s) + TicksPerSecond <= t
    BY <1>1
  <2>2. TicksOf(s + 1) <= TicksOf(Seconds(t))
    BY <1>1, <2>1, TicksFacts
  <2>3. QED BY <1>1, <1>2, <2>2
<1>4. ~(s < Seconds(t)) => t < TicksOf(s) + TicksPerSecond
  <2>1. SUFFICES ASSUME Seconds(t) <= s PROVE t < TicksOf(s) + TicksPerSecond
    BY <1>1
  <2>2. TicksOf(Seconds(t)) <= TicksOf(s)
    BY <1>1, <2>1, TicksFacts
  <2>3. QED BY <1>1, <1>2, <2>2
<1>5. \A r \in Int : TicksOf(r) <= t => r <= Seconds(t)
  <2>1. SUFFICES ASSUME NEW r \in Int, Seconds(t) + 1 <= r, TicksOf(r) <= t PROVE FALSE
    BY <1>1
  <2>2. TicksOf(Seconds(t) + 1) <= TicksOf(r) /\ TicksOf(r) \in Int
    BY <1>1, <2>1, TicksFacts
  <2>3. TicksOf(Seconds(t) + 1) = TicksOf(Seconds(t)) + TicksPerSecond
    BY <1>1, TicksFacts
  <2>4. QED BY <1>1, <2>1, <2>2, <2>3
<1>6. \A u \in Int : u <= t => Seconds(u) <= Seconds(t)
  <2>1. SUFFICES ASSUME NEW u \in Int, u <= t PROVE Seconds(u) <= Seconds(t)
    OBVIOUS
  <2>2. Seconds(u) \in Int /\ TicksOf(Seconds(u)) \in Int /\ TicksOf(Seconds(u)) <= u
    BY SecondsFacts, TicksFacts
  <2>3. TicksOf(Seconds(u)) <= t
    BY <2>1, <2>2
  <2>4. QED BY <1>5, <2>2, <2>3
<1>7. QED BY <1>3, <1>4, <1>5, <1>6

\* A time from second 1 on and within the bound is a heartbeat the table can hold.
LEMMA HeartbeatRange ==
    ASSUME NEW t \in Int, TicksPerSecond <= t, t <= MaxTime
    PROVE  Seconds(t) \in 1..Seconds(MaxTime)
<1>1. TicksOf(1) = TicksPerSecond
  BY HealthAssumption DEF TicksOf
<1>2. 1 <= Seconds(t)
  BY <1>1, SecondsOrder
<1>3. MaxTime \in Int /\ Seconds(MaxTime) \in Int /\ Seconds(t) \in Int
  BY HealthAssumption, SecondsFacts
<1>4. Seconds(t) <= Seconds(MaxTime)
  BY <1>3, SecondsOrder
<1>5. QED BY <1>2, <1>3, <1>4

-----------------------------------------------------------------------------
(* Types and clocks *)

\* The clock is past second 0, a round began in the past, and a row holds a
\* heartbeat that the reaper does not take for none.
Started ==
    /\ TicksPerSecond <= now
    /\ at <= now
    /\ \A n \in Nodes : nodeState[n] # "NONE" => hb[n] >= 1

\* What the proofs need of the constants.
LEMMA HealthConstants ==
    /\ TicksPerSecond \in Nat \ {0} /\ TicksPerSecond <= MaxTime
    /\ Timeout \in Nat /\ TicksOf(Timeout) \in Nat
    /\ ReapInterval \in Nat /\ ReportInterval \in Nat /\ PassTime \in Nat /\ AfterDown \in Nat
    /\ MaxTime \in Nat /\ Seconds(MaxTime) \in Nat /\ Never \notin Int
<1>1. TicksPerSecond <= MaxTime /\ MaxTime \in Int
  BY HealthAssumption
<1>2. Seconds(MaxTime) \in 1..Seconds(MaxTime) /\ Seconds(MaxTime) \in Int
  BY <1>1, HeartbeatRange, SecondsFacts
<1>3. TicksOf(Timeout) \in Nat
  BY HealthAssumption DEF TicksOf
<1>4. QED BY <1>2, <1>3, HealthAssumption

\* The initial state is well-typed.
LEMMA TypesInit == HealthInit => HealthTypeOK /\ Started
<1>1. SUFFICES ASSUME HealthInit PROVE HealthTypeOK /\ Started
  OBVIOUS
<1>2. QED BY <1>1, HealthAssumption, HealthConstants DEF HealthInit, HealthTypeOK, Started

\* Every step keeps the types and the clocks.
LEMMA TypesStep ==
    HealthTypeOK /\ Started /\ [HealthNext]_healthVars => (HealthTypeOK /\ Started)'
<1>1. SUFFICES ASSUME HealthTypeOK, Started, [HealthNext]_healthVars
               PROVE  HealthTypeOK' /\ Started'
  OBVIOUS
<1>2. Seconds(now) \in 1..Seconds(MaxTime) /\ Seconds(now) \in 0..Seconds(MaxTime)
  BY <1>1, HeartbeatRange, HealthConstants DEF HealthTypeOK, Started
<1> USE <1>1, HealthConstants
<1>3. ASSUME NEW n \in Nodes, AgentStep(n) PROVE HealthTypeOK' /\ Started'
  <2>1. CASE Register(n)
    BY <1>2, <2>1 DEF Register, HealthTypeOK, Started, roundVars, boundVars
  <2>2. CASE Report(n)
    BY <1>2, <2>2 DEF Report, HealthTypeOK, Started, roundVars, boundVars
  <2>3. CASE ReportLost(n)
    BY <2>3, HealthAssumption DEF ReportLost, HealthTypeOK, Started, roundVars, tableVars
  <2>4. CASE AgentDies(n)
    BY <2>4, HealthAssumption DEF AgentDies, HealthTypeOK, Started, roundVars, tableVars
  <2>5. QED BY <1>3, <2>1, <2>2, <2>3, <2>4 DEF AgentStep
<1>4. CASE BeginRound
  BY <1>4 DEF BeginRound, HealthTypeOK, Started, tableVars, boundVars
<1>5. CASE RoundAborts
  BY <1>5, HealthAssumption DEF RoundAborts, HealthTypeOK, Started, tableVars
<1>6. CASE EmitNodeDownEvents
  BY <1>6 DEF EmitNodeDownEvents, HealthTypeOK, Started, tableVars, boundVars
<1>7. CASE MarkStaleDown
  <2>1. nodeState' \in [Nodes -> {"NONE", "UP", "DOWN"}]
    BY <1>7 DEF MarkStaleDown, HealthTypeOK
  <2>2. \A n \in Nodes : nodeState'[n] # "NONE" => nodeState[n] # "NONE"
    BY <1>7 DEF MarkStaleDown
  <2>3. UNCHANGED <<now, agent, due, hb, at, seen, seenUp, nextRound, lastRun, told, diagnosed,
                    boundVars>> /\ reaper' = "check"
    BY <1>7 DEF MarkStaleDown
  <2>4. QED BY <2>1, <2>2, <2>3 DEF HealthTypeOK, Started, boundVars
<1>8. CASE Check
  <2>1. diagnosed' \in [Nodes -> 0..Seconds(MaxTime) \cup {Never}]
    BY <1>8 DEF Check, HealthTypeOK
  <2>2. lastRun' \in [Nodes -> 0..MaxTime \cup {Never}]
    BY <1>8 DEF Check, HealthTypeOK
  <2>3. reaper' = "idle" /\ UNCHANGED <<now, agent, due, tableVars, at, seen, seenUp, nextRound,
                                        told, boundVars>>
    BY <1>8 DEF Check
  <2>4. QED BY <2>1, <2>2, <2>3 DEF HealthTypeOK, Started, tableVars, boundVars
<1>9. CASE Restart
  BY <1>9, HealthAssumption DEF Restart, HealthTypeOK, Started, tableVars
<1>10. CASE Tick
  BY <1>10 DEF Tick, HealthTypeOK, Started, tableVars, roundVars, boundVars
<1>11. CASE UNCHANGED healthVars
  BY <1>11 DEF healthVars, HealthTypeOK, Started
<1>12. QED BY <1>3, <1>4, <1>5, <1>6, <1>7, <1>8, <1>9, <1>10, <1>11 DEF HealthNext, RoundStep

\* Every variable keeps its type; the heartbeats of the table stay within the
\* clock, in seconds.
THEOREM TypesKept == HealthSpec => [](HealthTypeOK /\ Started)
  BY TypesInit, TypesStep, PTL DEF HealthSpec

-----------------------------------------------------------------------------
(* A node is announced before it is marked *)

\* The rows the statement of this round would mark.
Stale(n) == nodeState[n] = "UP" /\ hb[n] < Seconds(at - TicksOf(Timeout))

\* A row that the statement would mark has not changed since the round read
\* it, so that the events, which go by what was read, announce it.
StaleWasRead ==
    \A n \in Nodes : Stale(n) => /\ reaper = "emit" => n \in seenUp /\ seen[n] = hb[n]
                                 /\ reaper = "mark" => n \in told

AnnounceInv == HealthTypeOK /\ Started /\ StaleWasRead /\ DownIsAnnounced

\* A heartbeat written now is not one the round at work would mark.
LEMMA NowIsNotStale ==
    ASSUME HealthTypeOK, Started
    PROVE  ~(Seconds(now) < Seconds(at - TicksOf(Timeout)))
<1>1. now \in Int /\ at - TicksOf(Timeout) \in Int /\ at - TicksOf(Timeout) <= now
  BY HealthConstants DEF HealthTypeOK, Started
<1>2. Seconds(at - TicksOf(Timeout)) <= Seconds(now)
  BY <1>1, SecondsOrder
<1>3. Seconds(now) \in Int /\ Seconds(at - TicksOf(Timeout)) \in Int
  BY <1>1, SecondsFacts
<1>4. QED BY <1>2, <1>3

\* Each step keeps the announcement ahead of the mark.
LEMMA AnnounceStep ==
    AnnounceInv /\ [HealthNext]_healthVars => (StaleWasRead /\ DownIsAnnounced)'
<1>1. SUFFICES ASSUME AnnounceInv, [HealthNext]_healthVars
               PROVE  StaleWasRead' /\ DownIsAnnounced'
  OBVIOUS
<1> DEFINE cut == Seconds(at - TicksOf(Timeout))
<1>2. HealthTypeOK /\ Started /\ StaleWasRead /\ DownIsAnnounced
  BY <1>1 DEF AnnounceInv
<1>3. ~(Seconds(now) < cut)
  BY <1>2, NowIsNotStale
<1>4. at' = at => cut' = cut
  OBVIOUS
<1> HIDE DEF cut
<1>5. ASSUME NEW n \in Nodes, AgentStep(n) PROVE StaleWasRead' /\ DownIsAnnounced'
  <2>1. CASE Register(n) \/ Report(n)
    <3>1. /\ nodeState' = [nodeState EXCEPT ![n] = "UP"]
          /\ hb' = [hb EXCEPT ![n] = Seconds(now)]
          /\ told' = told \ {n}
          /\ UNCHANGED <<reaper, at, seen, seenUp>>
      BY <2>1 DEF Register, Report, roundVars
    <3>2. ~Stale(n)'
      BY <1>2, <1>3, <1>4, <3>1 DEF Stale, HealthTypeOK, cut
    <3>3. \A m \in Nodes \ {n} : Stale(m)' <=> Stale(m)
      BY <1>2, <3>1 DEF Stale, HealthTypeOK
    <3>4. StaleWasRead'
      BY <1>2, <3>1, <3>2, <3>3 DEF StaleWasRead, HealthTypeOK
    <3>5. DownIsAnnounced'
      BY <1>2, <3>1 DEF DownIsAnnounced, HealthTypeOK
    <3>6. QED BY <3>4, <3>5
  <2>2. CASE ReportLost(n)
    BY <1>2, <2>2 DEF ReportLost, tableVars, roundVars, StaleWasRead, Stale, DownIsAnnounced
  <2>3. CASE AgentDies(n)
    BY <1>2, <2>3 DEF AgentDies, tableVars, roundVars, StaleWasRead, Stale, DownIsAnnounced
  <2>4. QED BY <1>5, <2>1, <2>2, <2>3 DEF AgentStep
<1>6. CASE BeginRound
  BY <1>2, <1>6 DEF BeginRound, tableVars, StaleWasRead, Stale, DownIsAnnounced
<1>7. CASE RoundAborts \/ Restart
  BY <1>2, <1>7 DEF RoundAborts, Restart, tableVars, StaleWasRead, DownIsAnnounced
<1>8. CASE EmitNodeDownEvents
  <2>1. /\ reaper = "emit" /\ reaper' = "mark"
        /\ told' = told \cup {n \in Nodes : Overdue(n) /\ hb[n] = seen[n]}
        /\ UNCHANGED <<nodeState, hb, at>>
    BY <1>8 DEF EmitNodeDownEvents, tableVars
  <2>2. ASSUME NEW n \in Nodes, Stale(n)' PROVE n \in told'
    <3>1. Stale(n) /\ n \in seenUp /\ seen[n] = hb[n]
      BY <1>2, <2>1, <2>2 DEF StaleWasRead, Stale
    <3>2. nodeState[n] # "NONE" /\ hb[n] \in Int /\ hb[n] >= 1 /\ at - TicksOf(Timeout) \in Int
      BY <1>2, <3>1, HealthConstants DEF Started, Stale, HealthTypeOK
    <3>3. TicksOf(hb[n]) + TicksPerSecond <= at - TicksOf(Timeout)
      BY <3>1, <3>2, SecondsOrder DEF Stale
    <3>4. TicksOf(hb[n]) \in Int
      BY <3>2, TicksFacts
    <3>5. Overdue(n)
      BY <3>1, <3>2, <3>3, <3>4, HealthConstants DEF Overdue
    <3>6. QED BY <2>1, <3>1, <3>5
  <2>3. QED BY <1>2, <2>1, <2>2 DEF StaleWasRead, DownIsAnnounced
<1>9. CASE MarkStaleDown
  <2>1. \A n \in Nodes : nodeState'[n] = "DOWN" => Stale(n) \/ nodeState[n] = "DOWN"
    BY <1>9 DEF MarkStaleDown, Stale
  <2>2. reaper = "mark" /\ reaper' = "check" /\ told' = told
    BY <1>9 DEF MarkStaleDown
  <2>3. QED BY <1>2, <2>1, <2>2 DEF StaleWasRead, DownIsAnnounced
<1>10. CASE Check
  BY <1>2, <1>10 DEF Check, tableVars, StaleWasRead, DownIsAnnounced
<1>11. CASE Tick \/ UNCHANGED healthVars
  BY <1>2, <1>11 DEF Tick, healthVars, tableVars, roundVars, StaleWasRead, Stale, DownIsAnnounced
<1>12. QED BY <1>1, <1>5, <1>6, <1>7, <1>8, <1>9, <1>10, <1>11 DEF HealthNext, RoundStep

\* The invariant holds in every state.
LEMMA AnnounceHolds == HealthSpec => []AnnounceInv
<1>1. HealthInit => AnnounceInv
  BY TypesInit DEF HealthInit, AnnounceInv, StaleWasRead, DownIsAnnounced
<1>2. AnnounceInv /\ [HealthNext]_healthVars => AnnounceInv'
  BY AnnounceStep, TypesStep DEF AnnounceInv
<1>3. QED BY <1>1, <1>2, PTL DEF HealthSpec

\* However reports, rounds, failures and restarts interleave, and whatever the
\* intervals, no node is DOWN without a node.down event for its silence
\* (reapLoop, emitNodeDownEvents, MarkStaleDown).
THEOREM DownWasAnnounced == HealthSpec => []DownIsAnnounced
<1>1. AnnounceInv => DownIsAnnounced
  BY DEF AnnounceInv
<1>2. QED BY <1>1, AnnounceHolds, PTL

-----------------------------------------------------------------------------
(* A node whose reports arrive is left alone *)

\* While no report was lost and no agent died, every node of the table has an
\* agent whose next report is due within a second and an interval of the
\* heartbeat the table holds, and so was it when the round read it.
Prompt ==
    lost = 0 /\ deaths = 0 =>
        \A n \in Nodes :
            /\ n \notin told
            /\ nodeState[n] # "NONE" =>
                  /\ agent[n] /\ now <= due[n]
                  /\ due[n] < TicksOf(hb[n]) + TicksPerSecond + ReportInterval
            /\ reaper = "emit" /\ n \in seenUp =>
                  /\ seen[n] # Never
                  /\ at < TicksOf(seen[n]) + TicksPerSecond + ReportInterval

\* Each step keeps the reports prompt, if the timeout leaves room for an
\* interval and the second that rounding costs.
LEMMA PromptStep ==
    ASSUME ReportInterval + TicksPerSecond <= TicksOf(Timeout),
           AnnounceInv, Prompt, [HealthNext]_healthVars
    PROVE  Prompt'
<1>1. HealthTypeOK /\ Started /\ DownIsAnnounced /\ now \in Int
  BY DEF AnnounceInv, HealthTypeOK
<1>2. Seconds(now) \in Int /\ TicksOf(Seconds(now)) \in Int
      /\ now < TicksOf(Seconds(now)) + TicksPerSecond
  BY <1>1, SecondsFacts, TicksFacts
<1>3. SUFFICES ASSUME lost' = 0, deaths' = 0, NEW n \in Nodes
               PROVE  /\ n \notin told'
                      /\ nodeState'[n] # "NONE" =>
                            /\ agent'[n] /\ now' <= due'[n]
                            /\ due'[n] < TicksOf(hb'[n]) + TicksPerSecond + ReportInterval
                      /\ reaper' = "emit" /\ n \in seenUp' =>
                            /\ seen'[n] # Never
                            /\ at' < TicksOf(seen'[n]) + TicksPerSecond + ReportInterval
  BY DEF Prompt
<1>4. \A m \in Nodes : TicksOf(hb[m]) \in Int
  BY <1>1, TicksFacts DEF HealthTypeOK
<1> USE HealthConstants
<1>5. ASSUME NEW m \in Nodes, AgentStep(m) PROVE lost = 0 /\ deaths = 0 /\ (Register(m) \/ Report(m))
  BY <1>1, <1>3, <1>5 DEF AgentStep, Register, Report, ReportLost, AgentDies, boundVars, HealthTypeOK
<1>6. ASSUME NEW m \in Nodes, Register(m), lost = 0, deaths = 0 PROVE Prompt'
  BY <1>1, <1>2, <1>6 DEF Prompt, Register, roundVars, HealthTypeOK
<1>7. ASSUME NEW m \in Nodes, Report(m), lost = 0, deaths = 0 PROVE Prompt'
  BY <1>1, <1>2, <1>7 DEF Prompt, Report, roundVars, HealthTypeOK
<1>8. CASE BeginRound
  BY <1>1, <1>3, <1>4, <1>8 DEF Prompt, BeginRound, tableVars, boundVars, HealthTypeOK
<1>9. CASE RoundAborts
  BY <1>3, <1>9 DEF Prompt, RoundAborts, tableVars
<1>10. CASE EmitNodeDownEvents
  <2>1. lost = 0 /\ deaths = 0
    BY <1>3, <1>10 DEF EmitNodeDownEvents, boundVars
  <2>2. ~Overdue(n)
    <3>1. SUFFICES ASSUME Overdue(n) PROVE FALSE
      OBVIOUS
    <3>2. seen[n] \in Int /\ at < TicksOf(seen[n]) + TicksPerSecond + ReportInterval
      BY <1>1, <1>10, <2>1, <3>1 DEF Prompt, EmitNodeDownEvents, Overdue, HealthTypeOK
    <3>3. TicksOf(seen[n]) \in Int /\ at \in Int
      BY <1>1, <3>2, TicksFacts DEF HealthTypeOK
    <3>4. QED BY <3>1, <3>2, <3>3 DEF Overdue
  <2>3. QED BY <1>3, <1>10, <2>1, <2>2 DEF Prompt, EmitNodeDownEvents, tableVars
<1>11. CASE MarkStaleDown
  BY <1>3, <1>11 DEF Prompt, MarkStaleDown, boundVars
<1>12. CASE Check
  BY <1>3, <1>12 DEF Prompt, Check, tableVars, boundVars
<1>13. CASE Restart
  BY <1>3, <1>13 DEF Prompt, Restart, tableVars
<1>14. CASE Tick
  BY <1>1, <1>3, <1>14 DEF Prompt, Tick, tableVars, roundVars, boundVars, HealthTypeOK
<1>15. CASE UNCHANGED healthVars
  BY <1>3, <1>15 DEF Prompt, healthVars
<1>16. QED BY <1>3, <1>5, <1>6, <1>7, <1>8, <1>9, <1>10, <1>11, <1>12, <1>13, <1>14, <1>15
           DEF HealthNext, RoundStep, Prompt

\* With a timeout of at least a report interval and a second, a node whose
\* reports all arrive is never announced and never marked, whatever the phase
\* of the reaper and however often it fails (Heartbeat, reapLoop).
THEOREM HealthyIsLeftAlone ==
    ASSUME ReportInterval + TicksPerSecond <= TicksOf(Timeout)
    PROVE  HealthSpec => []HealthyStaysUp
<1>1. HealthInit => Prompt
  BY DEF HealthInit, Prompt
<1>2. AnnounceInv /\ Prompt /\ [HealthNext]_healthVars => Prompt'
  BY PromptStep
<1>3. AnnounceInv /\ Prompt => HealthyStaysUp
  BY DEF AnnounceInv, Prompt, HealthyStaysUp, DownIsAnnounced
<1>4. QED BY <1>1, <1>2, <1>3, AnnounceHolds, PTL DEF HealthSpec

-----------------------------------------------------------------------------
(* Silence is noticed in time *)

\* Rounds begin an interval after the one before and take PassTime at most.
Rhythm ==
    /\ nextRound <= now + ReapInterval
    /\ reaper # "idle" => now <= at + PassTime /\ nextRound = at + ReapInterval
    /\ reaper = "idle" => now <= nextRound \/ now <= at + PassTime

\* When the silence of n is long enough for the statement to mark it.
Deadline(n) == TicksOf(hb[n] + Timeout + 1)

\* The last round that asked about an UP node began before its deadline, and
\* one that has yet to ask began a round after it at the latest.
Asked ==
    aborts = 0 /\ restarts = 0 =>
        \A n \in Nodes : nodeState[n] = "UP" =>
            /\ reaper \in {"idle", "check"} => /\ at < Deadline(n)
                                               /\ nextRound <= Deadline(n) + ReapInterval
            /\ reaper \in {"emit", "mark"} => at <= Deadline(n) + ReapInterval + PassTime

TimelyInv == HealthTypeOK /\ Started /\ Rhythm /\ Asked

\* A deadline is the heartbeat, the timeout and a second, in ticks.
LEMMA DeadlineIs ==
    ASSUME NEW h \in Int
    PROVE  /\ TicksOf(h) \in Int /\ TicksOf(h + Timeout + 1) \in Int
           /\ TicksOf(h + Timeout + 1) = TicksOf(h) + TicksOf(Timeout) + TicksPerSecond
<1>1. h + Timeout \in Int /\ h + Timeout + 1 \in Int
  BY HealthConstants
<1>2. TicksOf(h + Timeout + 1) = TicksOf(h + Timeout) + TicksPerSecond
  BY <1>1, TicksFacts
<1>3. TicksOf(h + Timeout) = TicksOf(h) + TicksOf(Timeout)
  BY HealthConstants, TicksFacts
<1>4. TicksOf(h) \in Int /\ TicksOf(h + Timeout + 1) \in Int
  BY <1>1, TicksFacts
<1>5. QED BY <1>2, <1>3, <1>4

\* Each step keeps the rounds in their rhythm.
LEMMA RhythmStep ==
    ASSUME HealthTypeOK, Started, Rhythm, [HealthNext]_healthVars
    PROVE  Rhythm'
<1> USE HealthConstants DEF HealthTypeOK, Started, Rhythm
<1>1. ASSUME NEW n \in Nodes, AgentStep(n) PROVE Rhythm'
  BY <1>1 DEF AgentStep, Register, Report, ReportLost, AgentDies, roundVars
<1>2. CASE BeginRound
  BY <1>2 DEF BeginRound
<1>3. CASE RoundAborts
  BY <1>3 DEF RoundAborts
<1>4. CASE EmitNodeDownEvents
  BY <1>4 DEF EmitNodeDownEvents
<1>5. CASE MarkStaleDown
  BY <1>5 DEF MarkStaleDown
<1>6. CASE Check
  BY <1>6 DEF Check
<1>7. CASE Restart
  BY <1>7 DEF Restart
<1>8. CASE Tick
  BY <1>8 DEF Tick, roundVars
<1>9. CASE UNCHANGED healthVars
  BY <1>9 DEF healthVars
<1>10. QED BY <1>1, <1>2, <1>3, <1>4, <1>5, <1>6, <1>7, <1>8, <1>9 DEF HealthNext, RoundStep

\* Each step keeps the deadlines: a round leaves no node UP that began its
\* silence before the cutoff, and a report moves the deadline.
LEMMA AskedStep == TimelyInv /\ [HealthNext]_healthVars => Asked'
<1>1. SUFFICES ASSUME TimelyInv, [HealthNext]_healthVars PROVE Asked'
  OBVIOUS
<1>2. HealthTypeOK /\ Started /\ Rhythm /\ Asked /\ now \in Int /\ at \in Int /\ nextRound \in Int
  BY <1>1 DEF TimelyInv, HealthTypeOK
<1>3. Seconds(now) \in Int /\ TicksOf(Seconds(now)) \in Int
      /\ now < TicksOf(Seconds(now)) + TicksPerSecond
  BY <1>2, SecondsFacts, TicksFacts
<1>4. \A n \in Nodes : Deadline(n) \in Int
  BY <1>2, DeadlineIs DEF HealthTypeOK, Deadline
<1> USE HealthConstants
<1>5. ASSUME NEW n \in Nodes, Register(n) \/ Report(n) PROVE Asked'
  <2>1. /\ nodeState' = [nodeState EXCEPT ![n] = "UP"]
        /\ hb' = [hb EXCEPT ![n] = Seconds(now)]
        /\ UNCHANGED <<now, reaper, at, nextRound, aborts, restarts>>
    BY <1>5 DEF Register, Report, roundVars, boundVars
  <2>2. Deadline(n)' = TicksOf(Seconds(now) + Timeout + 1)
    BY <1>2, <2>1 DEF Deadline, HealthTypeOK
  <2>3. now + TicksOf(Timeout) < Deadline(n)' /\ Deadline(n)' \in Int
    BY <1>2, <1>3, <2>2, DeadlineIs
  <2>4. at < Deadline(n)' /\ nextRound <= Deadline(n)' + ReapInterval
    BY <1>2, <2>3 DEF Started, Rhythm
  <2>5. \A m \in Nodes \ {n} : Deadline(m)' = Deadline(m) /\ nodeState'[m] = nodeState[m]
    BY <1>2, <2>1 DEF Deadline, HealthTypeOK
  <2> HIDE DEF Deadline
  <2>6. at <= Deadline(n)' + ReapInterval + PassTime
    BY <1>2, <2>3, <2>4
  <2>7. QED BY <1>2, <2>1, <2>4, <2>5, <2>6 DEF Asked
<1>6. ASSUME NEW n \in Nodes, ReportLost(n) \/ AgentDies(n) PROVE Asked'
  BY <1>2, <1>6 DEF ReportLost, AgentDies, roundVars, tableVars, Asked, Deadline
<1>7. CASE BeginRound
  <2>1. /\ reaper = "idle" /\ reaper' = "emit" /\ at' = now
        /\ UNCHANGED <<nodeState, hb, aborts, restarts>>
    BY <1>7 DEF BeginRound, tableVars, boundVars
  <2>2. \A n \in Nodes : Deadline(n)' = Deadline(n)
    BY <2>1 DEF Deadline
  <2>3. QED BY <1>2, <1>4, <2>1, <2>2 DEF Asked, Rhythm
<1>8. CASE RoundAborts
  BY <1>2, <1>8 DEF RoundAborts, Asked, HealthTypeOK
<1>9. CASE EmitNodeDownEvents
  BY <1>2, <1>9 DEF EmitNodeDownEvents, tableVars, boundVars, Asked, Deadline
<1>10. CASE MarkStaleDown
  <2>1. /\ reaper = "mark" /\ reaper' = "check"
        /\ UNCHANGED <<hb, at, nextRound>>
    BY <1>10 DEF MarkStaleDown
  <2>2. ASSUME NEW n \in Nodes, nodeState'[n] = "UP" PROVE at < Deadline(n)
    <3>1. ~(hb[n] < Seconds(at - TicksOf(Timeout)))
      BY <1>10, <2>2 DEF MarkStaleDown
    <3>2. hb[n] \in Int /\ at - TicksOf(Timeout) \in Int
      BY <1>2 DEF HealthTypeOK
    <3>3. at - TicksOf(Timeout) < TicksOf(hb[n]) + TicksPerSecond
      BY <3>1, <3>2, SecondsOrder
    <3>4. QED BY <1>2, <3>2, <3>3, DeadlineIs DEF Deadline
  <2>3. nextRound = at + ReapInterval
    BY <1>2, <2>1 DEF Rhythm
  <2>4. \A n \in Nodes : Deadline(n)' = Deadline(n)
    BY <2>1 DEF Deadline
  <2>5. QED BY <1>2, <1>4, <2>1, <2>2, <2>3, <2>4 DEF Asked
<1>11. CASE Check
  BY <1>2, <1>11 DEF Check, tableVars, boundVars, Asked, Deadline
<1>12. CASE Restart
  BY <1>2, <1>12 DEF Restart, Asked, HealthTypeOK
<1>13. CASE Tick
  BY <1>2, <1>13 DEF Tick, tableVars, roundVars, boundVars, Asked, Deadline
<1>14. CASE UNCHANGED healthVars
  BY <1>2, <1>14 DEF healthVars, Asked, Deadline
<1>15. QED BY <1>1, <1>5, <1>6, <1>7, <1>8, <1>9, <1>10, <1>11, <1>12, <1>13, <1>14
           DEF HealthNext, AgentStep, RoundStep

\* The invariant holds in every state.
LEMMA TimelyHolds == HealthSpec => []TimelyInv
<1>1. HealthInit => TimelyInv
  <2>1. SUFFICES ASSUME HealthInit PROVE TimelyInv
    OBVIOUS
  <2>2. Rhythm /\ Asked
    BY <2>1, HealthConstants DEF HealthInit, Rhythm, Asked
  <2>3. QED BY <2>1, <2>2, TypesInit DEF TimelyInv
<1>2. TimelyInv /\ [HealthNext]_healthVars => TimelyInv'
  BY AskedStep, RhythmStep, TypesStep DEF TimelyInv
<1>3. QED BY <1>1, <1>2, PTL DEF HealthSpec

\* As long as no round failed and the control plane did not restart, an UP node
\* reported within the timeout, a second, a reap interval and two rounds, for
\* any intervals and any timeout (reapLoop, MarkStaleDown).
THEOREM SilenceIsBounded == HealthSpec => []SilenceIsNoticed
<1>1. TimelyInv => SilenceIsNoticed
  <2>1. SUFFICES ASSUME TimelyInv, aborts = 0, restarts = 0, NEW n \in Nodes, nodeState[n] = "UP"
                 PROVE  now <= Deadline(n) + ReapInterval + 2 * PassTime
    BY DEF SilenceIsNoticed, Deadline
  <2>2. /\ now \in Int /\ at \in Int /\ nextRound \in Int /\ Deadline(n) \in Int
        /\ reaper \in {"idle", "emit", "mark", "check"}
    BY <2>1, DeadlineIs DEF TimelyInv, HealthTypeOK, Deadline
  <2>3. QED BY <2>1, <2>2, HealthConstants DEF TimelyInv, Asked, Rhythm
<1>2. QED BY <1>1, TimelyHolds, PTL

-----------------------------------------------------------------------------
(* Every long silence is diagnosed *)

\* At the next round n will not yet have been silent for long enough, counting
\* from the heartbeat that the table holds now.
FreshNextTime(n) ==
    /\ nextRound - TicksOf(hb[n]) < AfterDown
    /\ at + PassTime - TicksOf(hb[n]) < AfterDown

\* What the diagnoser remembers of a node belongs to the silence of the table's
\* heartbeat, or will be cleared before that silence is long enough; during a
\* round, the same of the heartbeat that the round read.
MemoryIsCurrent ==
    aborts = 0 =>
        \A n \in Nodes :
            /\ lastRun[n] # Never => n \in SSHNodes /\ nodeState[n] # "NONE"
            /\ reaper = "idle" /\ lastRun[n] # Never => diagnosed[n] = hb[n] \/ FreshNextTime(n)
            /\ reaper # "idle" =>
                  /\ seen[n] # Never => /\ seen[n] # 0 /\ nodeState[n] # "NONE"
                                        /\ hb[n] = seen[n] \/ FreshNextTime(n)
                  /\ lastRun[n] # Never =>
                        /\ seen[n] # Never
                        /\ seen[n] = diagnosed[n] \/ DownFor(n) < AfterDown

\* A heartbeat written now is fresh at the next round.
LEMMA ReportIsFresh ==
    ASSUME HealthTypeOK, Started, Rhythm,
           ReapInterval + TicksPerSecond <= AfterDown, PassTime + TicksPerSecond <= AfterDown
    PROVE  /\ nextRound - TicksOf(Seconds(now)) < AfterDown
           /\ at + PassTime - TicksOf(Seconds(now)) < AfterDown
<1>1. now \in Int /\ at \in Int /\ nextRound \in Int
  BY DEF HealthTypeOK
<1>2. TicksOf(Seconds(now)) \in Int /\ now < TicksOf(Seconds(now)) + TicksPerSecond
  BY <1>1, SecondsFacts, TicksFacts
<1>3. QED BY <1>1, <1>2, HealthConstants DEF Started, Rhythm

\* Each step keeps the diagnoser's memory current.
LEMMA MemoryStep ==
    ASSUME ReapInterval + TicksPerSecond <= AfterDown, PassTime + TicksPerSecond <= AfterDown,
           HealthTypeOK, Started, Rhythm, MemoryIsCurrent, [HealthNext]_healthVars
    PROVE  MemoryIsCurrent'
<1>1. now \in Int /\ at \in Int /\ nextRound \in Int
  BY DEF HealthTypeOK
<1>2. \A n \in Nodes : hb[n] \in Int /\ TicksOf(hb[n]) \in Int
  BY TicksFacts DEF HealthTypeOK
<1> USE HealthConstants
<1>3. ASSUME NEW n \in Nodes, Register(n) \/ Report(n) PROVE MemoryIsCurrent'
  <2>1. /\ nodeState' = [nodeState EXCEPT ![n] = "UP"]
        /\ hb' = [hb EXCEPT ![n] = Seconds(now)]
        /\ UNCHANGED <<reaper, at, seen, nextRound, lastRun, diagnosed, aborts>>
    BY <1>3 DEF Register, Report, roundVars, boundVars
  <2>2. FreshNextTime(n)'
    BY <2>1, ReportIsFresh DEF FreshNextTime, HealthTypeOK
  <2>3. \A m \in Nodes \ {n} : (FreshNextTime(m)' <=> FreshNextTime(m)) /\ hb'[m] = hb[m]
                               /\ nodeState'[m] = nodeState[m]
    BY <2>1 DEF FreshNextTime, HealthTypeOK
  <2>4. nodeState'[n] = "UP" /\ \A m \in Nodes : DownFor(m)' = DownFor(m)
    BY <2>1 DEF HealthTypeOK, DownFor
  <2>5. QED BY <2>1, <2>2, <2>3, <2>4 DEF MemoryIsCurrent
<1>4. ASSUME NEW n \in Nodes, ReportLost(n) \/ AgentDies(n) PROVE MemoryIsCurrent'
  BY <1>4 DEF ReportLost, AgentDies, roundVars, tableVars, MemoryIsCurrent, FreshNextTime, DownFor
<1>5. CASE BeginRound
  <2>1. /\ reaper = "idle" /\ reaper' = "emit" /\ at' = now
        /\ UNCHANGED <<nodeState, hb, lastRun, diagnosed, aborts>>
        /\ \A n \in Nodes : seen'[n] = IF nodeState[n] = "NONE" THEN Never ELSE hb[n]
    BY <1>5 DEF BeginRound, tableVars, boundVars
  <2>2. \A n \in Nodes : nodeState[n] # "NONE" => seen'[n] # Never /\ seen'[n] # 0 /\ hb[n] = seen'[n]
    BY <1>2, <2>1 DEF Started
  <2>3. ASSUME NEW n \in Nodes, nodeState[n] # "NONE", FreshNextTime(n)
        PROVE  DownFor(n)' < AfterDown
    <3>1. DownFor(n)' = now - TicksOf(hb[n])
      BY <2>1, <2>2, <2>3 DEF DownFor
    <3>2. QED BY <1>1, <1>2, <2>1, <2>3, <3>1 DEF FreshNextTime, Rhythm
  <2>4. QED BY <2>1, <2>2, <2>3 DEF MemoryIsCurrent
<1>6. CASE RoundAborts
  BY <1>6 DEF RoundAborts, MemoryIsCurrent, HealthTypeOK
<1>7. CASE EmitNodeDownEvents
  BY <1>7 DEF EmitNodeDownEvents, tableVars, boundVars, MemoryIsCurrent, FreshNextTime, DownFor
<1>8. CASE MarkStaleDown
  <2>1. /\ reaper = "mark" /\ reaper' = "check"
        /\ UNCHANGED <<hb, at, seen, nextRound, lastRun, diagnosed, aborts>>
        /\ \A n \in Nodes : nodeState'[n] = "NONE" => nodeState[n] = "NONE"
    BY <1>8 DEF MarkStaleDown, boundVars
  <2>2. \A n \in Nodes : (FreshNextTime(n)' <=> FreshNextTime(n)) /\ DownFor(n)' = DownFor(n)
    BY <2>1 DEF FreshNextTime, DownFor
  <2>3. QED BY <2>1, <2>2 DEF MemoryIsCurrent
<1>9. CASE Check
  <2>1. /\ reaper = "check" /\ reaper' = "idle"
        /\ UNCHANGED <<nodeState, hb, at, seen, nextRound, aborts>>
    BY <1>9 DEF Check, tableVars, boundVars
  <2>2. \A n \in Nodes : FreshNextTime(n)' <=> FreshNextTime(n)
    BY <2>1 DEF FreshNextTime
  <2>3. SUFFICES ASSUME aborts = 0, NEW n \in Nodes, lastRun'[n] # Never
                 PROVE  /\ n \in SSHNodes /\ nodeState[n] # "NONE"
                        /\ diagnosed'[n] = hb[n] \/ FreshNextTime(n)
    BY <2>1, <2>2 DEF MemoryIsCurrent
  <2>4. n \notin Fresh
    BY <1>9, <2>3 DEF Check
  <2>5. CASE n \in Triggered
    <3>1. diagnosed'[n] = seen[n] /\ n \in SSHNodes /\ seen[n] # Never
      BY <1>9, <2>5 DEF Check, Triggered, Managed
    <3>2. QED BY <2>1, <2>3, <3>1 DEF MemoryIsCurrent
  <2>6. CASE n \notin Triggered
    <3>1. lastRun[n] # Never /\ diagnosed'[n] = diagnosed[n]
      BY <1>9, <2>3, <2>4, <2>6 DEF Check
    <3>2. n \in Managed
      BY <2>1, <2>3, <3>1 DEF MemoryIsCurrent, Managed
    <3>3. ~(DownFor(n) < AfterDown)
      BY <2>4, <3>2 DEF Fresh
    <3>4. QED BY <2>1, <2>3, <3>1, <3>3 DEF MemoryIsCurrent
  <2>7. QED BY <2>5, <2>6
<1>10. CASE Restart
  BY <1>10 DEF Restart, tableVars, MemoryIsCurrent
<1>11. CASE Tick
  BY <1>11 DEF Tick, tableVars, roundVars, boundVars, MemoryIsCurrent, FreshNextTime, DownFor
<1>12. CASE UNCHANGED healthVars
  BY <1>12 DEF healthVars, MemoryIsCurrent, FreshNextTime, DownFor
<1>13. QED BY <1>3, <1>4, <1>5, <1>6, <1>7, <1>8, <1>9, <1>10, <1>11, <1>12
           DEF HealthNext, AgentStep, RoundStep

\* The check acts on a current memory as it should.
LEMMA CheckDiagnoses ==
    ASSUME HealthTypeOK, MemoryIsCurrent, [HealthNext]_healthVars,
           reaper = "check", reaper' = "idle", aborts' = 0, restarts' = restarts,
           NEW n \in Managed, DownFor(n) >= AfterDown
    PROVE  diagnosed'[n] = seen[n]
<1> USE HealthConstants
<1>1. n \in Nodes /\ n \in SSHNodes
  BY HealthAssumption DEF Managed
<1>2. Check
  <2>1. ~RoundAborts /\ ~Restart
    BY DEF RoundAborts, Restart, HealthTypeOK
  <2>2. ASSUME NEW m \in Nodes PROVE ~AgentStep(m)
    BY DEF AgentStep, Register, Report, ReportLost, AgentDies, roundVars
  <2>3. ~BeginRound /\ ~EmitNodeDownEvents /\ ~MarkStaleDown /\ ~Tick /\ ~UNCHANGED healthVars
    BY DEF BeginRound, EmitNodeDownEvents, MarkStaleDown, Tick, roundVars, healthVars
  <2>4. QED BY <2>1, <2>2, <2>3 DEF HealthNext, RoundStep
<1>3. n \notin Fresh
  <2>1. seen[n] \in Int /\ at \in Int
    BY <1>1 DEF Managed, HealthTypeOK
  <2>2. DownFor(n) \in Int
    <3>1. TicksOf(seen[n]) \in Int
      BY <2>1, TicksFacts
    <3>2. QED BY <2>1, <3>1 DEF DownFor
  <2>3. QED BY <2>2 DEF Fresh
<1>4. CASE n \in Triggered
  BY <1>1, <1>2, <1>4 DEF Check
<1>5. CASE n \notin Triggered
  <2>1. lastRun[n] # Never
    BY <1>3, <1>5 DEF Triggered, Cooled
  <2>2. diagnosed'[n] = diagnosed[n] /\ aborts = 0
    BY <1>1, <1>2, <1>5 DEF Check, boundVars
  <2>3. ~(DownFor(n) < AfterDown)
    BY <1>3 DEF Fresh
  <2>4. QED BY <1>1, <2>1, <2>2, <2>3 DEF MemoryIsCurrent
<1>6. QED BY <1>4, <1>5

\* If after_down leaves room for a reap interval, or a round, and a second, a
\* check never lets the cooldown of an earlier outage swallow the diagnosis of
\* a later one, however reports and rounds interleave (diagnoser.check).
THEOREM LongSilenceIsDiagnosed ==
    ASSUME ReapInterval + TicksPerSecond <= AfterDown, PassTime + TicksPerSecond <= AfterDown
    PROVE  HealthSpec => SilenceIsDiagnosed
<1>1. HealthInit => MemoryIsCurrent
  BY DEF HealthInit, MemoryIsCurrent
<1>2. TimelyInv /\ MemoryIsCurrent /\ [HealthNext]_healthVars => MemoryIsCurrent'
  BY MemoryStep DEF TimelyInv
<1>3. TimelyInv /\ MemoryIsCurrent /\ [HealthNext]_healthVars
         => [reaper = "check" /\ reaper' = "idle" /\ aborts' = 0 /\ restarts' = restarts =>
                \A n \in Managed : DownFor(n) >= AfterDown => diagnosed'[n] = seen[n]]_healthVars
  BY CheckDiagnoses DEF TimelyInv
<1>4. QED BY <1>1, <1>2, <1>3, TimelyHolds, PTL DEF HealthSpec, SilenceIsDiagnosed

=============================================================================
