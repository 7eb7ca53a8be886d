------------------------- MODULE ControlPlaneProofs -------------------------
(***************************************************************************)
(* Theorems about ControlPlane: what users are told and what they get, for *)
(* any requests, any number of tries, failures, starts and kills, and any  *)
(* sizes of the machine's integers.                                        *)
(***************************************************************************)
EXTENDS ControlPlane, FiniteSetTheorems, SequenceTheorems, WellFoundedInduction, TLAPS

-----------------------------------------------------------------------------
(* Conversions *)

\* What is left of a division is less than the divisor.
LEMMA DivFacts ==
    ASSUME NEW n \in Nat, NEW d \in Nat \ {0}
    PROVE  n \div d \in Nat /\ (n \div d) * d <= n /\ n < (n \div d) * d + d
  BY SMT

\* At least one whole divisor gives a positive quotient.
LEMMA DivPositive ==
    ASSUME NEW n \in Nat, NEW d \in Nat \ {0}, d <= n
    PROVE  n \div d >= 1
<1>1. n \div d \in Nat /\ n < (n \div d) * d + d
  BY DivFacts
<1>2. n \div d = 0 => (n \div d) * d = 0
  OBVIOUS
<1>3. QED BY <1>1, <1>2

\* A number in the range of int64 is not changed by its arithmetic.
LEMMA WrapInRange ==
    ASSUME NEW n \in Nat, n <= MaxInt
    PROVE  Wrap(n) = n
<1> DEFINE a == n + MaxInt + 1
           m == 2 * (MaxInt + 1)
<1>1. a \in Nat /\ m \in Nat \ {0} /\ a < m
  BY DeskAssumption
<1>2. ASSUME NEW x \in Nat, NEW y \in Nat \ {0}, x < y PROVE x % y = x
  BY <1>2, SMT
<1>3. a % m = a
  BY ONLY <1>1, <1>2
<1>4. QED BY <1>3, DeskAssumption DEF Wrap

\* The timer of a walltime made from a duration of at least a second is not
\* longer than that duration; there is no timer for one that is not positive.
LEMMA TimerFacts ==
    ASSUME NEW ns \in -MaxInt..MaxInt
    PROVE  /\ ns >= NsPerSec => Timer(Truncate(ns, NsPerSec)) \in 1..ns
           /\ ns <= 0 => Timer(Truncate(ns, NsPerSec)) = 0
<1> USE DeskAssumption
<1>1. ASSUME ns >= NsPerSec PROVE Timer(Truncate(ns, NsPerSec)) \in 1..ns
  <2> DEFINE w == ns \div NsPerSec
  <2>1. ns \in Nat /\ Truncate(ns, NsPerSec) = w
    BY <1>1 DEF Truncate
  <2>2. w \in Nat /\ w >= 1 /\ w * NsPerSec <= ns
    BY <1>1, <2>1, DivFacts, DivPositive
  <2>3. w * NsPerSec \in Nat /\ w * NsPerSec >= NsPerSec
    <3>1. (w - 1) * NsPerSec = w * NsPerSec - NsPerSec
      BY <2>2
    <3>2. \A x, y \in Nat : x * y \in Nat
      OBVIOUS
    <3>3. (w - 1) * NsPerSec \in Nat /\ w * NsPerSec \in Nat
      BY <2>2, <3>2
    <3>4. QED BY ONLY <3>1, <3>3, DeskAssumption
  <2> HIDE DEF w
  <2>4. Wrap(w * NsPerSec) = w * NsPerSec
    BY <2>2, <2>3, WrapInRange
  <2>5. Timer(w) = w * NsPerSec
    BY <2>2, <2>4 DEF Timer
  <2>6. QED BY <2>1, <2>2, <2>3, <2>5
<1>2. ASSUME ns <= 0 PROVE Timer(Truncate(ns, NsPerSec)) = 0
  <2>1. Truncate(ns, NsPerSec) \in Int /\ ~(Truncate(ns, NsPerSec) > 0)
    <3>1. CASE ns = 0
      <4>1. 0 \div NsPerSec \in Nat /\ (0 \div NsPerSec) * NsPerSec <= 0
        BY DivFacts
      <4>2. ~(0 \div NsPerSec >= 1)
        <5>1. SUFFICES ASSUME NEW q \in Nat, q >= 1, q * NsPerSec <= 0 PROVE FALSE
          BY <4>1
        <5>2. (q - 1) * NsPerSec \in Nat /\ (q - 1) * NsPerSec = q * NsPerSec - NsPerSec
          BY <5>1
        <5>3. QED BY ONLY <5>1, <5>2, DeskAssumption
      <4>3. QED BY <3>1, <4>1, <4>2 DEF Truncate
    <3>2. CASE ns < 0
      <4>1. (-ns) \in Nat /\ ((-ns) \div NsPerSec) \in Nat
        BY <3>2, DivFacts
      <4>2. QED BY <3>2, <4>1 DEF Truncate
    <3>3. QED BY <1>2, <3>1, <3>2
  <2>2. QED BY <2>1 DEF Timer
<1>3. QED BY <1>1, <1>2

\* A size that the database takes is the number of bytes asked for; of what is
\* out of range only the 0 of a machine that saturates is taken.
LEMMA SizeFacts ==
    ASSUME NEW v \in Int, NEW m \in ToUint64(v), m < SizeMax \div 2
    PROVE  m = IF v < 0 THEN 0 ELSE v
<1> DEFINE h == SizeMax \div 2
<1>1. h \in Nat /\ 2 * h <= SizeMax /\ SizeMax \in Nat \ {0}
  BY DeskAssumption, SMT
<1>2. m < h /\ m \in IF v < 0 THEN {0, SizeMax + (IF v < -h THEN -h ELSE v)}
                     ELSE IF v >= SizeMax THEN {h, SizeMax - 1} ELSE {v}
  BY DEF ToUint64
<1> HIDE DEF h
<1>3. CASE v < 0
  <2>1. SizeMax + (IF v < -h THEN -h ELSE v) >= h
    BY <1>1, <1>3
  <2>2. QED BY <1>1, <1>2, <1>3, <2>1
<1>4. CASE v >= SizeMax
  <2>1. SizeMax - 1 >= h /\ ~(v < 0)
    BY <1>1, <1>4
  <2>2. QED BY <1>1, <1>2, <1>4, <2>1
<1>5. CASE 0 <= v /\ v < SizeMax
  BY <1>2, <1>5, <1>1
<1>6. QED BY <1>1, <1>3, <1>4, <1>5

\* The rows a submission can lead to.
SubmittedRows == UNION {RowsFor(door, a) : door \in {"grpc", "web"}, a \in Asks}

\* What fits into 32 bits is kept.
LEMMA Int32Facts ==
    /\ \A n \in Nat : n < Words => ToUint32(n) = n
    /\ \A n \in Int32s : ToInt32(n) = n
<1> DEFINE h == Words \div 2
<1>1. Words \in Nat \ {0} /\ h \in Nat /\ 2 * h <= Words
  BY DeskAssumption, SMT
<1>2. \A n \in Nat : n < Words => n % Words = n
  BY <1>1, SMT
<1> HIDE DEF h
<1>3. ASSUME NEW n \in -h..h - 1 PROVE ((n + h) % Words) - h = n
  <2>1. n + h \in Nat /\ n + h < Words
    BY <1>1
  <2>2. PICK k \in Nat : k = n + h /\ k < Words
    BY <2>1
  <2>3. k % Words = k
    BY <1>2, <2>2
  <2>4. (n + h) % Words = n + h
    BY <2>2, <2>3
  <2>5. (n + h) - h = n
    BY <1>1
  <2>6. QED BY <2>4, <2>5
<1>4. QED BY <1>2, <1>3 DEF ToUint32, ToInt32, Int32s, h

\* A row that may be stored has the timer and the memory that were asked for,
\* and the counts and the priority that fit.
LEMMA RowAsAsked ==
    ASSUME NEW r \in SubmittedRows, Storable(r)
    PROVE  /\ r.door = "web" \/ r.ask.count < Words => r.count = r.ask.count
           /\ r.door = "web" \/ r.ask.prio \in Int32s => r.prio = r.ask.prio
           /\ r.ask.time.ns >= NsPerSec => Timer(r.walltime) \in 1..r.ask.time.ns
           /\ r.ask.time.ns <= 0 => Timer(r.walltime) = 0
           /\ r.mem = IF Truncate(r.ask.size.halves * r.ask.size.unit, 2) < 0
                      THEN 0 ELSE Truncate(r.ask.size.halves * r.ask.size.unit, 2)
<1>1. PICK a \in Asks, door \in {"grpc", "web"} : r \in RowsFor(door, a)
  BY DEF SubmittedRows
<1>2. PICK m \in SkctlSize(a.size), w \in SkctlWalltime(a.time) :
         r = [door |-> door, ask |-> a, mem |-> m, walltime |-> w,
              count |-> IF door = "web" THEN a.count ELSE ToUint32(a.count),
              prio |-> IF door = "web" THEN a.prio ELSE ToInt32(a.prio)]
  <2>1. CASE door = "grpc"
    BY <1>1, <2>1 DEF RowsFor, cmdSubmit
  <2>2. CASE door = "web"
    BY <1>1, <2>2 DEF RowsFor, submitJob, parseSize, parseWalltime
  <2>3. QED BY <2>1, <2>2
<1>3. r.ask = a /\ r.mem = m /\ r.walltime = w /\ r.door = door
  BY <1>2
<1>a. /\ r.count = IF door = "web" THEN a.count ELSE ToUint32(a.count)
      /\ r.prio = IF door = "web" THEN a.prio ELSE ToInt32(a.prio)
  BY <1>2
<1>b. a.count < Words => ToUint32(a.count) = a.count
  <2>1. a.count \in Nat
    BY DeskAssumption
  <2>2. QED BY <2>1, Int32Facts
<1>c. a.prio \in Int32s => ToInt32(a.prio) = a.prio
  BY Int32Facts
<1>d. /\ r.door = "web" \/ r.ask.count < Words => r.count = r.ask.count
      /\ r.door = "web" \/ r.ask.prio \in Int32s => r.prio = r.ask.prio
  BY <1>3, <1>a, <1>b, <1>c
<1>4. w = Truncate(a.time.ns, NsPerSec)
  BY <1>2 DEF SkctlWalltime
<1>5. m \in ToUint64(Truncate(a.size.halves * a.size.unit, 2))
  BY <1>2 DEF SkctlSize
<1>6. Truncate(a.size.halves * a.size.unit, 2) \in Int
  <2>1. a.size.halves * a.size.unit \in Int
    BY DeskAssumption
  <2>2. QED BY <2>1 DEF Truncate
<1>7. m < SizeMax \div 2
  BY <1>3 DEF Storable
<1>8. a.time.ns \in -MaxInt..MaxInt
  BY DeskAssumption
<1>9. QED BY <1>3, <1>4, <1>5, <1>6, <1>7, <1>8, <1>d, SizeFacts, TimerFacts

-----------------------------------------------------------------------------
(* Submissions *)

CallRecords == [try : Tries, row : SubmittedRows, step : {"create", "ok", "denied"}, mine : BOOLEAN]

Clients == [pc : {"idle", "waiting", "told"}, door : {"grpc", "web"}, ask : Asks \cup {NoJob},
            answer : {"none", "ok", "denied", "unknown"}]

SubmitTypes ==
    /\ client \in Clients
    /\ calls \subseteq CallRecords
    /\ jobs \in [Tries -> SubmittedRows \cup {NoJob}]
    /\ tries \in 0..MaxTries

\* A row was written by a call that could store it, in a try that was made.
RowsAreStorable == \A t \in Tries : jobs[t] # NoJob => Storable(jobs[t]) /\ t <= tries

\* A try has one call at most, and a call knows whether its row is there.
CallsAreTrue ==
    /\ \A c \in calls : c.try <= tries /\ (c.step = "ok" <=> jobs[c.try] # NoJob)
    /\ \A c, e \in calls : c.try = e.try => c = e

\* The call whose answer the user waits for is that of the last try.
OwnCall == \A c \in calls : c.mine => c.try = tries /\ client.pc = "waiting"

TriedOnce == client.pc # "idle" => tries >= 1

SubmitInv == SubmitTypes /\ RowsAreStorable /\ CallsAreTrue /\ OwnCall /\ TriedOnce /\ AnswersAreTrue

\* No row is NoJob.
LEMMA RowIsARow == NoJob \notin SubmittedRows
  BY NoJobAssumption DEF SubmittedRows

\* At the desk nobody has asked for anything.
LEMMA SubmitInit == DeskInit => SubmitInv
<1> SUFFICES ASSUME DeskInit PROVE SubmitInv
  OBVIOUS
<1>1. client = [pc |-> "idle", door |-> "grpc", ask |-> NoJob, answer |-> "none"] /\ calls = {}
      /\ jobs = [t \in Tries |-> NoJob] /\ tries = 0
  BY DEF DeskInit
<1>2. client \in Clients /\ client.pc = "idle"
  BY <1>1 DEF Clients
<1>3. tries \in 0..MaxTries
  BY <1>1, DeskAssumption
<1>4. QED BY <1>1, <1>2, <1>3 DEF SubmitInv, SubmitTypes, RowsAreStorable, CallsAreTrue, OwnCall,
                                  TriedOnce, AnswersAreTrue

\* A call that moves on stays the same call.
LEMMA GoesFacts ==
    ASSUME NEW c \in CallRecords, NEW s \in {"create", "ok", "denied"}
    PROVE  /\ [c EXCEPT !.step = s] \in CallRecords
           /\ [c EXCEPT !.step = s].try = c.try /\ [c EXCEPT !.step = s].mine = c.mine
           /\ [c EXCEPT !.step = s].step = s
  BY DEF CallRecords

\* Being told leaves the rest of what the client knows.
LEMMA ToldFacts ==
    ASSUME client \in Clients, NEW a \in {"ok", "denied", "unknown"}, Told(a)
    PROVE  client' \in Clients /\ client'.pc = "told" /\ client'.answer = a
  BY DEF Clients, Told

\* A call of the table moves on, and its row is there exactly if it is ok.
LEMMA MovesOn ==
    ASSUME SubmitInv, NEW c \in calls, c.step = "create", NEW s \in {"ok", "denied"}, Goes(c, s),
           UNCHANGED <<client, tries>>, jobs' \in [Tries -> SubmittedRows \cup {NoJob}],
           RowsAreStorable', s = "ok" <=> jobs'[c.try] # NoJob,
           \A t \in Tries : t # c.try => jobs'[t] = jobs[t]
    PROVE  SubmitInv'
<1> DEFINE moved == [c EXCEPT !.step = s]
<1>1. /\ moved \in CallRecords /\ moved.try = c.try /\ moved.mine = c.mine /\ moved.step = s
      /\ c \in CallRecords /\ c.try \in Tries
  BY GoesFacts DEF SubmitInv, SubmitTypes, CallRecords
<1>2. calls' = (calls \ {c}) \cup {moved}
  BY DEF Goes
<1> HIDE DEF moved
<1>3. SubmitTypes'
  BY <1>1, <1>2 DEF SubmitInv, SubmitTypes
<1>4. \A e \in calls : e.try \in Tries
  BY DEF SubmitInv, SubmitTypes, CallRecords
<1>5. CallsAreTrue'
  BY <1>1, <1>2, <1>4 DEF SubmitInv, CallsAreTrue
<1>6. OwnCall'
  BY <1>1, <1>2 DEF SubmitInv, OwnCall
<1>7. TriedOnce'
  BY DEF SubmitInv, TriedOnce
<1>8. AnswersAreTrue'
  <2> SUFFICES ASSUME client.pc = "told"
               PROVE  /\ client.answer = "ok" => jobs'[tries] # NoJob
                      /\ client.answer = "denied" => jobs'[tries] = NoJob /\ \A e \in calls' : e.try # tries
    BY DEF AnswersAreTrue
  <2>1. /\ client.answer = "ok" => jobs[tries] # NoJob
        /\ client.answer = "denied" => jobs[tries] = NoJob /\ \A e \in calls : e.try # tries
    BY DEF SubmitInv, AnswersAreTrue
  <2>2. tries \in Tries
    BY DEF SubmitInv, SubmitTypes, TriedOnce, Tries
  <2>3. client.answer = "ok" => c.try # tries
    BY <2>1 DEF SubmitInv, CallsAreTrue
  <2>4. QED BY <1>1, <1>2, <2>1, <2>2, <2>3
<1>9. QED BY <1>3, <1>5, <1>6, <1>7, <1>8 DEF SubmitInv

\* The calls become fewer or lose their caller, and the client is told what is
\* true of the last try, or of none.
LEMMA CallsLetGo ==
    ASSUME SubmitInv, UNCHANGED <<jobs, tries>>, calls' \subseteq CallRecords, client' \in Clients,
           \A e \in calls' : \E c \in calls : e.try = c.try /\ e.step = c.step /\ (e.mine => e = c),
           \A e, f \in calls' : e.try = f.try => e = f,
           \A e \in calls' : e.mine => client'.pc = "waiting",
           client'.pc # "idle" => client.pc # "idle",
           AnswersAreTrue'
    PROVE  SubmitInv'
<1>1. SubmitTypes' /\ RowsAreStorable' /\ TriedOnce'
  BY DEF SubmitInv, SubmitTypes, RowsAreStorable, TriedOnce
<1>2. CallsAreTrue'
  BY DEF SubmitInv, CallsAreTrue
<1>3. OwnCall'
  BY DEF SubmitInv, OwnCall
<1>4. QED BY <1>1, <1>2, <1>3 DEF SubmitInv

\* Every step at the desk keeps what is known of the submissions.
LEMMA DeskStep == SubmitInv /\ DeskNext => SubmitInv'
<1> SUFFICES ASSUME SubmitInv, DeskNext PROVE SubmitInv'
  OBVIOUS
<1>t. SubmitTypes /\ MaxTries \in Nat
  BY DeskAssumption DEF SubmitInv
<1>c. \A c \in calls : c \in CallRecords /\ c.try \in Tries /\ c.row \in SubmittedRows
  BY <1>t DEF SubmitTypes, CallRecords
<1>1. CASE Submit
  <2>1. PICK door \in {"grpc", "web"}, ask \in IF client.ask = NoJob THEN Asks ELSE {client.ask} :
          IF door \notin doors \/ RowsFor(door, ask) = {}
          THEN /\ client' = [pc |-> "told", door |-> door, ask |-> ask, answer |-> "denied"]
               /\ UNCHANGED calls
          ELSE /\ client' = [pc |-> "waiting", door |-> door, ask |-> ask, answer |-> "none"]
               /\ \E r \in RowsFor(door, ask) :
                     calls' = calls \cup {[try |-> tries', row |-> r, step |-> "create", mine |-> TRUE]}
    BY <1>1 DEF Submit
  <2>2. ask \in Asks
    BY <1>t DEF SubmitTypes, Clients
  <2>3. tries' = tries + 1 /\ tries' \in Tries /\ tries' \in 0..MaxTries /\ jobs' = jobs /\ tries' >= 1
    BY <1>1, <1>t DEF Submit, SubmitTypes, Tries
  <2>4. client.pc # "waiting"
    BY <1>1, <1>t DEF Submit
  <2>5. \A c \in calls : ~c.mine /\ c.try # tries' /\ c.try <= tries'
    BY <1>c, <1>t, <2>3, <2>4 DEF SubmitInv, OwnCall, CallsAreTrue, Tries, SubmitTypes
  <2>6. jobs[tries'] = NoJob /\ RowsAreStorable'
    BY <1>t, <2>3 DEF SubmitInv, RowsAreStorable, SubmitTypes, Tries
  <2>7. CASE door \notin doors \/ RowsFor(door, ask) = {}
    <3>1. client' = [pc |-> "told", door |-> door, ask |-> ask, answer |-> "denied"] /\ calls' = calls
      BY <2>1, <2>7
    <3>2. client' \in Clients /\ client'.pc = "told" /\ client'.answer = "denied"
      BY <2>2, <3>1 DEF Clients
    <3>3. SubmitTypes' /\ TriedOnce'
      BY <1>t, <2>3, <3>1, <3>2 DEF SubmitTypes, TriedOnce
    <3>4. CallsAreTrue' /\ OwnCall'
      BY <2>3, <2>5, <3>1 DEF SubmitInv, CallsAreTrue, OwnCall
    <3>5. AnswersAreTrue'
      BY <2>3, <2>5, <2>6, <3>1, <3>2 DEF AnswersAreTrue
    <3>6. QED BY <2>6, <3>3, <3>4, <3>5 DEF SubmitInv
  <2>8. CASE ~(door \notin doors \/ RowsFor(door, ask) = {})
    <3>1. client' = [pc |-> "waiting", door |-> door, ask |-> ask, answer |-> "none"]
      BY <2>1, <2>8
    <3>2. PICK r \in RowsFor(door, ask) :
             calls' = calls \cup {[try |-> tries', row |-> r, step |-> "create", mine |-> TRUE]}
      BY <2>1, <2>8
    <3> DEFINE new == [try |-> tries', row |-> r, step |-> "create", mine |-> TRUE]
    <3>3. r \in SubmittedRows
      BY <2>2, <3>2 DEF SubmittedRows
    <3>4. new \in CallRecords /\ new.try = tries' /\ new.step = "create"
      BY <2>3, <3>3 DEF CallRecords
    <3>5. calls' = calls \cup {new}
      BY <3>2
    <3> HIDE DEF new
    <3>6. client' \in Clients /\ client'.pc = "waiting"
      BY <2>2, <3>1 DEF Clients
    <3>7. SubmitTypes' /\ TriedOnce' /\ AnswersAreTrue'
      BY <1>t, <2>3, <3>4, <3>5, <3>6 DEF SubmitTypes, TriedOnce, AnswersAreTrue
    <3>8. CallsAreTrue'
      BY <2>3, <2>5, <2>6, <3>4, <3>5 DEF SubmitInv, CallsAreTrue
    <3>9. OwnCall'
      BY <2>5, <3>4, <3>5, <3>6 DEF OwnCall
    <3>10. QED BY <2>6, <3>7, <3>8, <3>9 DEF SubmitInv
  <2>9. QED BY <2>7, <2>8
<1>2. ASSUME NEW c \in calls, CreateJob(c) PROVE SubmitInv'
  <2>1. /\ jobs' = [jobs EXCEPT ![c.try] = c.row] /\ c.step = "create" /\ Storable(c.row)
        /\ Goes(c, "ok") /\ UNCHANGED <<client, tries>>
    BY <1>2 DEF CreateJob
  <2>2. c.row # NoJob
    BY <1>c, RowIsARow
  <2>3. jobs' \in [Tries -> SubmittedRows \cup {NoJob}] /\ jobs'[c.try] = c.row
        /\ \A t \in Tries : t # c.try => jobs'[t] = jobs[t]
    BY <1>c, <1>t, <2>1 DEF SubmitTypes
  <2>4. RowsAreStorable'
    BY <1>c, <2>1, <2>3 DEF SubmitInv, RowsAreStorable, CallsAreTrue, Storable
  <2>5. QED BY <2>1, <2>2, <2>3, <2>4, MovesOn
<1>3. ASSUME NEW c \in calls, CreateJobRefused(c) \/ CreateJobFails(c) PROVE SubmitInv'
  <2>1. c.step = "create" /\ Goes(c, "denied") /\ UNCHANGED <<client, tries, jobs>>
    BY <1>3 DEF CreateJobRefused, CreateJobFails
  <2>2. jobs[c.try] = NoJob
    BY <2>1 DEF SubmitInv, CallsAreTrue
  <2>3. jobs' \in [Tries -> SubmittedRows \cup {NoJob}] /\ RowsAreStorable'
    BY <1>t, <2>1 DEF SubmitInv, SubmitTypes, RowsAreStorable, Storable
  <2>4. QED BY <2>1, <2>2, <2>3, MovesOn
<1>4. ASSUME NEW c \in calls, Answer(c) PROVE SubmitInv'
  <2>1. c.step # "create" /\ calls' = calls \ {c} /\ UNCHANGED <<jobs, tries>>
        /\ IF c.mine THEN Told(c.step) ELSE UNCHANGED client
    BY <1>4 DEF Answer
  <2>2. c.step \in {"ok", "denied"} /\ c.mine \in BOOLEAN
    BY <1>c, <2>1 DEF CallRecords
  <2>3. client' \in Clients /\ (c.mine => client'.pc = "told" /\ client'.answer = c.step)
        /\ (~c.mine => client' = client)
    BY <1>t, <2>1, <2>2, ToldFacts DEF SubmitTypes
  <2>4. c.mine => c.try = tries /\ client.pc = "waiting"
    BY DEF SubmitInv, OwnCall
  <2>5. AnswersAreTrue'
    <3>1. CASE c.mine
      BY <2>1, <2>2, <2>3, <2>4, <3>1 DEF SubmitInv, CallsAreTrue, AnswersAreTrue
    <3>2. CASE ~c.mine
      BY <2>1, <2>3, <3>2 DEF SubmitInv, AnswersAreTrue
    <3>3. QED BY <2>2, <3>1, <3>2
  <2>6. \A e \in calls' : e.mine => client'.pc = "waiting"
    <3>1. CASE c.mine
      BY <2>1, <2>4, <3>1 DEF SubmitInv, OwnCall, CallsAreTrue
    <3>2. CASE ~c.mine
      BY <2>1, <2>3, <3>2 DEF SubmitInv, OwnCall
    <3>3. QED BY <2>2, <3>1, <3>2
  <2>7. calls' \subseteq CallRecords /\ (\A e, f \in calls' : e.try = f.try => e = f)
        /\ \A e \in calls' : \E d \in calls : e.try = d.try /\ e.step = d.step /\ (e.mine => e = d)
    BY <1>t, <2>1 DEF SubmitInv, SubmitTypes, CallsAreTrue
  <2>8. client'.pc # "idle" => client.pc # "idle"
    BY <2>2, <2>3, <2>4
  <2>9. QED BY <2>1, <2>3, <2>5, <2>6, <2>7, <2>8, CallsLetGo
<1>5. CASE Deadline
  <2>1. /\ client.pc = "waiting" /\ Told("unknown") /\ UNCHANGED <<jobs, tries>>
        /\ calls' = {[c EXCEPT !.mine = FALSE] : c \in calls}
    BY <1>5 DEF Deadline
  <2>2. client' \in Clients /\ client'.pc = "told" /\ client'.answer = "unknown"
    BY <1>t, <2>1, ToldFacts DEF SubmitTypes
  <2>3. ASSUME NEW c \in calls
        PROVE  /\ [c EXCEPT !.mine = FALSE] \in CallRecords /\ [c EXCEPT !.mine = FALSE].try = c.try
               /\ [c EXCEPT !.mine = FALSE].step = c.step /\ ~[c EXCEPT !.mine = FALSE].mine
    BY <1>c DEF CallRecords
  <2>4. calls' \subseteq CallRecords /\ \A e \in calls' : ~e.mine
    BY <2>1, <2>3
  <2>5. \A e \in calls' : \E d \in calls : e.try = d.try /\ e.step = d.step /\ (e.mine => e = d)
    BY <2>1, <2>3
  <2>6. ASSUME NEW e \in calls', NEW f \in calls', e.try = f.try PROVE e = f
    <3>1. PICK d \in calls : e = [d EXCEPT !.mine = FALSE]
      BY <2>1
    <3>2. PICK g \in calls : f = [g EXCEPT !.mine = FALSE]
      BY <2>1
    <3>3. d.try = g.try
      BY <2>3, <2>6, <3>1, <3>2
    <3>4. QED BY <3>1, <3>2, <3>3 DEF SubmitInv, CallsAreTrue
  <2>7. AnswersAreTrue'
    BY <2>2 DEF AnswersAreTrue
  <2>8. QED BY <2>1, <2>2, <2>4, <2>5, <2>6, <2>7, CallsLetGo
<1>6. CASE Follow \/ FollowEnds \/ FollowerLeaves \/ JobEnds
  <2>1. UNCHANGED <<client, calls, jobs, tries>>
    BY <1>6 DEF Follow, FollowEnds, FollowerLeaves, JobEnds
  <2>2. QED BY <2>1 DEF SubmitInv, SubmitTypes, RowsAreStorable, CallsAreTrue, OwnCall, TriedOnce,
                        AnswersAreTrue, Storable
<1>7. QED BY <1>1, <1>2, <1>3, <1>4, <1>5, <1>6 DEF DeskNext, SubmitStep

\* So does the end of the process, which cuts every call.
LEMMA DeskGoneStep == SubmitInv /\ DeskGone => SubmitInv'
<1> SUFFICES ASSUME SubmitInv, DeskGone PROVE SubmitInv'
  OBVIOUS
<1>1. calls' = {} /\ UNCHANGED <<jobs, tries>>
      /\ IF client.pc = "waiting" THEN Told("unknown") ELSE UNCHANGED client
  BY DEF DeskGone
<1>2. client \in Clients
  BY DEF SubmitInv, SubmitTypes
<1>3. \/ client.pc = "waiting" /\ client' \in Clients /\ client'.pc = "told" /\ client'.answer = "unknown"
      \/ client' = client
  BY <1>1, <1>2, ToldFacts
<1>4. AnswersAreTrue'
  BY <1>1, <1>3 DEF SubmitInv, AnswersAreTrue
<1>5. client' \in Clients /\ (client'.pc # "idle" => client.pc # "idle")
  BY <1>2, <1>3
<1>6. QED BY <1>1, <1>4, <1>5, CallsLetGo

\* What the rest of the control plane does is not about submissions.
LEMMA PlaneStep == SubmitInv /\ [PlaneNext]_planeVars => SubmitInv'
<1> SUFFICES ASSUME SubmitInv, [PlaneNext]_planeVars PROVE SubmitInv'
  OBVIOUS
<1>1. DeskNext \/ DeskGone \/ UNCHANGED deskVars
  BY DEF PlaneNext, Begins, Stopping, GoesAway, Reports, Works, planeVars
<1>2. CASE UNCHANGED deskVars
  <2>1. UNCHANGED <<client, calls, jobs, tries>>
    BY <1>2 DEF deskVars
  <2>2. QED BY <2>1 DEF SubmitInv, SubmitTypes, RowsAreStorable, CallsAreTrue, OwnCall, TriedOnce,
                        AnswersAreTrue, Storable
<1>3. QED BY <1>1, <1>2, DeskStep, DeskGoneStep

\* For any requests, retries, deadlines, failed statements, stops and kills: an
\* answer is true.  The user waits for the call of the last try only, a try has
\* one call, and a call answers ok exactly if its row is in the table (cmdSubmit,
\* submitJob, SubmitJob, CreateJob).
THEOREM TheyAreToldTheTruth == PlaneSpec => []AnswersAreTrue
<1>1. PlaneInit => SubmitInv
  BY SubmitInit DEF PlaneInit
<1>2. SubmitInv => AnswersAreTrue
  BY DEF SubmitInv
<1>3. QED BY <1>1, <1>2, PlaneStep, PTL DEF PlaneSpec

\* For any requests and any width of the integers: a stored job's timer is
\* positive, does not wrap and is not longer than the walltime asked for, and its
\* memory is what was asked for, because database/sql refuses the sizes that an
\* out-of-range conversion can give; counts and priorities are the ones asked for
\* unless skctl cut them to 32 bits (parseSize, parseWalltime, cmdSubmit,
\* CreateJob).
THEOREM TheyGetWhatTheyAskedFor == PlaneSpec => []RunsAsAsked
<1>1. PlaneInit => SubmitInv
  BY SubmitInit DEF PlaneInit
<1>2. SubmitInv => RunsAsAsked
  <2> SUFFICES ASSUME SubmitInv, NEW t \in Tries, jobs[t] # NoJob
               PROVE  LET j == jobs[t]
                          bytes == Truncate(j.ask.size.halves * j.ask.size.unit, 2)
                      IN /\ j.ask.time.ns >= NsPerSec => Timer(j.walltime) \in 1..j.ask.time.ns
                         /\ j.ask.time.ns <= 0 => Timer(j.walltime) = 0
                         /\ j.mem = IF bytes < 0 THEN 0 ELSE bytes
                         /\ j.door = "web" \/ j.ask.count < Words => j.count = j.ask.count
                         /\ j.door = "web" \/ j.ask.prio \in Int32s => j.prio = j.ask.prio
    BY DEF RunsAsAsked
  <2>1. jobs[t] \in SubmittedRows /\ Storable(jobs[t])
    BY DEF SubmitInv, SubmitTypes, RowsAreStorable
  <2>2. QED BY <2>1, RowAsAsked
<1>3. QED BY <1>1, <1>2, PlaneStep, PTL DEF PlaneSpec

-----------------------------------------------------------------------------
(* The stop *)

\* The doors are closed before the calls are drained.
ClosedFirst == phase = "draining" => doors = {}

\* The follower is somewhere, at some door.
FollowerShape == \E p, d : follower = [pc |-> p, door |-> d]

\* While the doors are closed nobody gets in, over gRPC or otherwise.
LEMMA NobodyComesIn ==
    ASSUME doors = {}, FollowerShape, ReportNext \/ UNCHANGED reportVars, DeskNext \/ UNCHANGED deskVars, ~GrpcBusy
    PROVE  ~GrpcBusy'
<1>1. handlers = {} /\ ~(viewer # None /\ viewer.door = "grpc")
      /\ (\A c \in calls : c.row.door # "grpc") /\ ~(follower.pc = "following" /\ follower.door = "grpc")
  BY DEF GrpcBusy, ReportingBusy, DeskBusy
<1>2. ~ReportingBusy'
  <2>1. CASE UNCHANGED reportVars
    BY <1>1, <2>1 DEF reportVars, ReportingBusy
  <2>2. CASE AgentStarts \/ RegisterNode \/ RegisterFails \/ Rest \/ StoreLost
    BY <1>1, <2>2 DEF AgentStarts, RegisterNode, RegisterFails, Rest, StoreLost, ReportingBusy
  <2>3. CASE Report
    BY <1>1, <2>3 DEF Report, Reaches, ReportingBusy
  <2>4. CASE CallBreaks \/ AgentStops
    BY <1>1, <2>4 DEF CallBreaks, AgentStops, Orphaned, ReportingBusy
  <2>5. CASE View \/ ViewEnds
    BY <1>1, <2>5 DEF View, ViewEnds, ReportingBusy
  <2>6. QED BY <1>1, <2>1, <2>2, <2>3, <2>4, <2>5 DEF ReportNext, AgentStep, HandlerStep, AgentFault
<1>3. ~DeskBusy'
  <2>1. CASE UNCHANGED deskVars
    BY <1>1, <2>1 DEF deskVars, DeskBusy
  <2>2. CASE Submit
    BY <1>1, <2>2 DEF Submit, DeskBusy
  <2>3. ASSUME NEW c \in calls, CreateJob(c) \/ CreateJobRefused(c) \/ CreateJobFails(c)
        PROVE  ~DeskBusy'
    <3>1. UNCHANGED follower /\ \E s \in {"ok", "denied"} : Goes(c, s)
      BY <2>3 DEF CreateJob, CreateJobRefused, CreateJobFails
    <3>2. \A s \in {"ok", "denied"} : [c EXCEPT !.step = s].row = c.row
      OBVIOUS
    <3>3. QED BY <1>1, <3>1, <3>2 DEF Goes, DeskBusy
  <2>4. ASSUME NEW c \in calls, Answer(c) PROVE ~DeskBusy'
    BY <1>1, <2>4 DEF Answer, DeskBusy
  <2>5. CASE Deadline
    <3>1. UNCHANGED follower /\ calls' = {[c EXCEPT !.mine = FALSE] : c \in calls}
      BY <2>5 DEF Deadline
    <3>2. \A c \in calls : [c EXCEPT !.mine = FALSE].row = c.row
      OBVIOUS
    <3>3. QED BY <1>1, <3>1, <3>2 DEF DeskBusy
  <2>6. CASE Follow \/ JobEnds
    BY <1>1, <2>6 DEF Follow, JobEnds, DeskBusy
  <2>7. CASE FollowEnds \/ FollowerLeaves
    <3>1. UNCHANGED calls /\ \E s \in {"returned", "left"} : follower' = [follower EXCEPT !.pc = s]
      BY <2>7 DEF FollowEnds, FollowerLeaves
    <3>2. follower'.pc # "following"
      BY <3>1 DEF FollowerShape
    <3>3. QED BY <1>1, <3>1, <3>2 DEF DeskBusy
  <2>8. QED BY <2>1, <2>2, <2>3, <2>4, <2>5, <2>6, <2>7 DEF DeskNext, SubmitStep
<1>4. QED BY <1>2, <1>3 DEF GrpcBusy

\* The drain is not prolonged by newcomers: once no call of gRPC is inside, none
\* comes in again before the process has ended.  This is what lets GracefulStop
\* return; that it does is checked as StopCompletes (Run, GracefulStop).
THEOREM DrainTakesNobodyIn == PlaneSpec => NobodyJoinsTheDrain
<1>1. PlaneInit => ClosedFirst /\ FollowerShape
  BY DEF PlaneInit, LifeInit, DeskInit, ClosedFirst, FollowerShape
<1>2. ClosedFirst /\ [PlaneNext]_planeVars => ClosedFirst'
  <2> SUFFICES ASSUME ClosedFirst, [PlaneNext]_planeVars PROVE ClosedFirst'
    OBVIOUS
  <2>1. CASE UNCHANGED lifeVars
    BY <2>1 DEF lifeVars, ClosedFirst
  <2>2. CASE Start \/ StopStep
    BY <2>2 DEF Start, StopStep, Signal, ScrapesStopped, ConsoleStopped, ClosedFirst
  <2>3. CASE Drained(GrpcBusy) \/ Killed \/ TickerPanics
    BY <2>3 DEF Drained, Killed, TickerPanics, Gone, ClosedFirst
  <2>4. QED BY <2>1, <2>2, <2>3 DEF PlaneNext, Begins, Stopping, GoesAway, Reports, Works, planeVars
<1>3. FollowerShape /\ [PlaneNext]_planeVars => FollowerShape'
  <2> SUFFICES ASSUME FollowerShape, [PlaneNext]_planeVars PROVE FollowerShape'
    OBVIOUS
  <2>1. CASE UNCHANGED follower
    BY <2>1 DEF FollowerShape
  <2>2. ASSUME NEW s \in {"returned", "left"}, follower' = [follower EXCEPT !.pc = s] PROVE FollowerShape'
    BY <2>2 DEF FollowerShape
  <2>3. CASE Follow
    BY <2>3 DEF Follow, FollowerShape
  <2>4. CASE FollowEnds \/ FollowerLeaves \/ DeskGone
    BY <2>1, <2>2, <2>4 DEF FollowEnds, FollowerLeaves, DeskGone
  <2>5. CASE Submit \/ SubmitStep \/ Deadline \/ JobEnds \/ \E c \in calls : CreateJobFails(c)
    BY <2>1, <2>5 DEF Submit, SubmitStep, CreateJob, CreateJobRefused, Answer, Deadline, JobEnds, CreateJobFails
  <2>6. CASE UNCHANGED deskVars
    BY <2>1, <2>6 DEF deskVars
  <2>7. QED BY <2>3, <2>4, <2>5, <2>6
            DEF PlaneNext, Begins, Stopping, GoesAway, Reports, Works, planeVars, DeskNext
<1>4. ClosedFirst /\ FollowerShape /\ [PlaneNext]_planeVars
         => [phase = "draining" /\ ~GrpcBusy => ~GrpcBusy']_planeVars
  <2> SUFFICES ASSUME ClosedFirst, FollowerShape, PlaneNext, phase = "draining", ~GrpcBusy
               PROVE  ~GrpcBusy'
    OBVIOUS
  <2>1. doors = {}
    BY DEF ClosedFirst
  <2>2. CASE GoesAway
    <3>1. handlers' = {} /\ viewer' = None /\ calls' = {} /\ ~(follower'.pc = "following" /\ follower'.door = "grpc")
      <4>1. CASE follower.pc = "following"
        <5>1. follower' = [follower EXCEPT !.pc = "left"] /\ ~(follower.door = "grpc")
          BY <2>2, <4>1 DEF GoesAway, DeskGone, GrpcBusy, DeskBusy
        <5>2. follower'.pc = "left"
          BY <5>1 DEF FollowerShape
        <5>3. QED BY <2>2, <5>2 DEF GoesAway, ReportingGone, DeskGone
      <4>2. CASE follower.pc # "following"
        BY <2>2, <4>2 DEF GoesAway, ReportingGone, DeskGone
      <4>3. QED BY <4>1, <4>2
    <3>2. QED BY <3>1 DEF GrpcBusy, ReportingBusy, DeskBusy
  <2>3. CASE Begins \/ Stopping \/ Reports \/ Works
    BY <2>1, <2>3, NobodyComesIn DEF Begins, Stopping, Reports, Works
  <2>4. QED BY <2>2, <2>3 DEF PlaneNext
<1>5. QED BY <1>1, <1>2, <1>3, <1>4, PTL DEF PlaneSpec, NobodyJoinsTheDrain

-----------------------------------------------------------------------------
(* Loops: induction by least counterexample, and the values of a fold *)

\* A set of naturals that is not empty has a least element.
LEMMA LeastNat ==
    ASSUME NEW T \in SUBSET Nat, T # {}
    PROVE  \E m \in T : \A k \in T : m <= k
<1> DEFINE less == {ss \in Nat \X Nat : ss[1] < ss[2]}
<1>1. IsWellFoundedOn(less, Nat)
  BY NatLessThanWellFounded, Zenon DEF OpToRel
<1>2. \A x, y \in Nat : x < y => <<x, y>> \in less
  OBVIOUS
<1>3. \E x \in T : \A y \in T : ~(<<y, x>> \in less)
  <2> HIDE DEF less
  <2> QED BY <1>1, WFMin
<1> HIDE DEF less
<1>4. PICK x \in T : \A y \in T : ~(<<y, x>> \in less)
  BY <1>3
<1>5. \A y \in T : ~(y < x)
  BY <1>2, <1>4
<1>6. QED BY <1>5

\* Induction, with the set of the numbers that have the property in the place of
\* the property.
LEMMA NatSetInduction ==
    ASSUME NEW P, 0 \in P, \A n \in Nat : n \in P => n + 1 \in P
    PROVE  \A n \in Nat : n \in P
<1>1. SUFFICES ASSUME Nat \ P # {} PROVE FALSE
  OBVIOUS
<1>2. PICK m \in Nat \ P : \A k \in Nat \ P : m <= k
  BY <1>1, LeastNat
<1>3. m - 1 \in Nat /\ m - 1 \in P
  BY <1>2
<1>4. QED BY <1>2, <1>3

\* The maximum of a set of positions.
LEMMA MaxFacts ==
    ASSUME NEW n \in Nat, NEW s \in SUBSET (1..n), s # {}
    PROVE  Max(s) \in s /\ \A k \in s : k <= Max(s)
<1> DEFINE T == {t \in Nat : \E k \in s : t = n - k}
<1>1. T \in SUBSET Nat /\ T # {}
  <2>1. PICK k \in s : TRUE
    OBVIOUS
  <2>2. n - k \in T
    OBVIOUS
  <2>3. QED BY <2>2
<1>2. PICK m \in T : \A k \in T : m <= k
  <2> HIDE DEF T
  <2> QED BY <1>1, LeastNat
<1>3. PICK x \in s : m = n - x
  BY <1>2
<1>4. \A k \in s : x >= k
  <2> TAKE k \in s
  <2>1. n - k \in T
    OBVIOUS
  <2>2. m <= n - k
    BY <1>2, <2>1
  <2> QED BY <1>3, <2>2
<1>5. QED BY <1>4 DEF Max

\* F holds the values of the loop with step g from b, over the positions in any
\* subset of 1..n.
IsLoop(F, n, b, g) ==
    \A s \in SUBSET (1..n) : F[s] = IF s = {} THEN b ELSE g[<<F[s \ {Max(s)}], Max(s)>>]

\* What FoldLeft needs to be defined: there are such values.
LEMMA FoldExists ==
    ASSUME NEW A, NEW b \in A, NEW n \in Nat, NEW g \in [A \X (1..n) -> A]
    PROVE  \E F \in [SUBSET (1..n) -> A] : IsLoop(F, n, b, g)
<1> USE DEF IsLoop
<1> DEFINE Run(F, m) == IsLoop(F, m, b, g)
           Runs(m) == m <= n => \E F \in [SUBSET (1..m) -> A] : Run(F, m)
           P == {m \in Nat : Runs(m)}
<1>1. Runs(0)
  <2> DEFINE F == [s \in SUBSET (1..0) |-> b]
  <2>1. 1..0 = {}
    OBVIOUS
  <2>2. F \in [SUBSET (1..0) -> A] /\ Run(F, 0)
    BY <2>1
  <2> HIDE DEF F, Run
  <2>3. QED BY <2>2
<1>2. ASSUME NEW m \in Nat, Runs(m) PROVE Runs(m + 1)
  <2>1. SUFFICES ASSUME m + 1 <= n PROVE \E G \in [SUBSET (1..m + 1) -> A] : Run(G, m + 1)
    OBVIOUS
  <2>2. PICK F \in [SUBSET (1..m) -> A] : Run(F, m)
    <3>1. m <= n
      BY <2>1
    <3>2. QED BY <1>2, <3>1, Zenon
  <2> DEFINE G == [s \in SUBSET (1..m + 1) |-> IF m + 1 \in s THEN g[<<F[s \ {m + 1}], m + 1>>] ELSE F[s]]
  <2>3. \A s \in SUBSET (1..m + 1) : s \ {m + 1} \in SUBSET (1..m)
    OBVIOUS
  <2>4. G \in [SUBSET (1..m + 1) -> A]
    <3>1. ASSUME NEW s \in SUBSET (1..m + 1) PROVE G[s] \in A
      <4>1. CASE m + 1 \in s
        BY <2>1, <2>3, <4>1
      <4>2. CASE m + 1 \notin s
        <5>1. s \in SUBSET (1..m)
          BY <4>2
        <5>2. QED BY <4>2, <5>1
      <4>3. QED BY <4>1, <4>2
    <3>2. QED BY <3>1
  <2>5. ASSUME NEW s \in SUBSET (1..m) PROVE G[s] = F[s]
    BY <2>5
  <2>6. ASSUME NEW s \in SUBSET (1..m + 1)
        PROVE  G[s] = IF s = {} THEN b ELSE g[<<G[s \ {Max(s)}], Max(s)>>]
    <3>1. CASE m + 1 \in s
      <4>0. m + 1 \in Nat /\ s # {}
        BY <3>1
      <4>1. Max(s) \in s /\ m + 1 <= Max(s)
        <5> HIDE DEF G
        <5> QED BY <4>0, <3>1, MaxFacts
      <4>2. Max(s) = m + 1
        <5> HIDE DEF G
        <5>1. Max(s) \in 1..m + 1
          BY <4>1
        <5>2. QED BY <4>1, <5>1
      <4>3. QED BY <2>3, <2>5, <3>1, <4>2
    <3>2. CASE m + 1 \notin s
      <4>1. s \in SUBSET (1..m)
        BY <3>2
      <4> HIDE DEF G
      <4>2. s # {} => Max(s) \in s
        BY <4>1, MaxFacts
      <4>3. s \ {Max(s)} \in SUBSET (1..m)
        BY <4>1
      <4>4. QED BY <2>2, <2>5, <4>1, <4>3
    <3>3. QED BY <3>1, <3>2
  <2> HIDE DEF G
  <2>7. Run(G, m + 1)
    BY <2>6
  <2> HIDE DEF Run
  <2>8. QED BY <2>4, <2>7
<1>3. n \in P
  <2> HIDE DEF Runs
  <2>1. 0 \in P /\ \A k \in Nat : k \in P => k + 1 \in P
    BY <1>1, <1>2
  <2> HIDE DEF P
  <2>2. QED BY <2>1, NatSetInduction
<1>4. Runs(n)
  <2> HIDE DEF Runs
  <2> QED BY <1>3
<1>5. n <= n
  OBVIOUS
<1>6. QED BY <1>4, <1>5, Zenon

\* Induction up to a bound.
LEMMA BoundedInduction ==
    ASSUME NEW n \in Nat, NEW P, 0 \in P, \A k \in 0..n - 1 : k \in P => k + 1 \in P
    PROVE  \A k \in 0..n : k \in P
<1> DEFINE Q == {m \in Nat : m <= n => m \in P}
<1>1. 0 \in Q
  OBVIOUS
<1>2. ASSUME NEW m \in Nat, m \in Q PROVE m + 1 \in Q
  BY <1>2
<1>3. \A m \in Nat : m \in Q
  <2> HIDE DEF Q
  <2> QED BY <1>1, <1>2, NatSetInduction
<1>4. QED BY <1>3

\* The first k positions, as the fold takes them.
LEMMA PrefixMax ==
    ASSUME NEW n \in Nat, NEW k \in 1..n
    PROVE  /\ Max(1..k) = k /\ (1..k) \ {Max(1..k)} = 1..k - 1
           /\ 1..k \in SUBSET (1..n) /\ 1..k # {}
<1>1. 1..k \in SUBSET (1..n) /\ k \in 1..k
  OBVIOUS
<1>2. 1..k # {}
  BY <1>1
<1>3. Max(1..k) \in 1..k /\ k <= Max(1..k)
  BY <1>1, <1>2, MaxFacts
<1>4. Max(1..k) = k
  BY <1>3
<1>5. QED BY <1>1, <1>2, <1>4

-----------------------------------------------------------------------------
(* Collectors *)

\* The body of the loop of parseNvidiaCSV.
NvidiaStep(devs, f) == IF Len(f) < 8 THEN devs ELSE Append(devs, NvidiaDevice(f))

\* The loop of parseNvidiaCSV, by its values after every line.
LEMMA NvidiaLoop ==
    ASSUME NEW lines, NEW n \in Nat, DOMAIN lines = 1..n
    PROVE  \E h : /\ h[0] = <<>> /\ parseNvidiaCSV(lines) = h[n]
                  /\ \A k \in 1..n : h[k] = NvidiaStep(h[k - 1], lines[k])
<1> DEFINE D == {NvidiaDevice(lines[k]) : k \in 1..n}
           A == Seq(D)
           b == <<>>
           g == [x \in A \X (1..n) |-> NvidiaStep(x[1], lines[x[2]])]
           Fold(f) == [s \in SUBSET (1..n) |-> IF s = {} THEN b ELSE NvidiaStep(f[s \ {Max(s)}], lines[Max(s)])]
           iter == CHOOSE f : f = Fold(f)
           h == [k \in 0..n |-> iter[1..k]]
<1>1. b \in A /\ \A x \in A \X (1..n) : NvidiaStep(x[1], lines[x[2]]) \in A
  <2>1. \A x \in A \X (1..n) : NvidiaDevice(lines[x[2]]) \in D /\ x[1] \in Seq(D)
    OBVIOUS
  <2> HIDE DEF D
  <2>2. QED BY <2>1 DEF NvidiaStep
<1>2. parseNvidiaCSV(lines) = iter[1..n]
  BY Zenon DEF parseNvidiaCSV, FoldLeft, MapThenFoldSet, NvidiaStep
<1> HIDE DEF A, b
<1>3. PICK F \in [SUBSET (1..n) -> A] : IsLoop(F, n, b, g)
  <2>1. g \in [A \X (1..n) -> A]
    BY <1>1
  <2> HIDE DEF g
  <2>2. QED BY <1>1, <2>1, FoldExists
<1>4. F = Fold(F)
  <2>1. ASSUME NEW s \in SUBSET (1..n), s # {} PROVE F[s] = NvidiaStep(F[s \ {Max(s)}], lines[Max(s)])
    <3>1. Max(s) \in 1..n
      BY <2>1, MaxFacts
    <3>2. F[s \ {Max(s)}] \in A
      BY <1>3
    <3>3. QED BY <1>3, <2>1, <3>1, <3>2 DEF IsLoop
  <2>2. F[{}] = b
    BY <1>3 DEF IsLoop
  <2> HIDE DEF g
  <2>3. QED BY <2>1, <2>2
<1>5. iter = Fold(iter)
  <2> HIDE DEF Fold
  <2> QED BY <1>4, Zenon
<1> HIDE DEF iter
<1>6. \A s \in SUBSET (1..n) :
        iter[s] = IF s = {} THEN b ELSE NvidiaStep(iter[s \ {Max(s)}], lines[Max(s)])
  BY <1>5
<1>7. h[0] = b /\ h[n] = iter[1..n]
  <2>1. 1..0 = {} /\ {} \in SUBSET (1..n)
    OBVIOUS
  <2>2. h[0] = iter[1..0] /\ h[n] = iter[1..n]
    OBVIOUS
  <2>3. iter[{}] = b
    BY <2>1, <1>6
  <2> HIDE DEF h
  <2>4. QED BY <2>1, <2>2, <2>3
<1>8. ASSUME NEW k \in 1..n PROVE h[k] = NvidiaStep(h[k - 1], lines[k])
  <2>1. h[k] = iter[1..k] /\ h[k - 1] = iter[1..k - 1]
    OBVIOUS
  <2> HIDE DEF h
  <2>2. Max(1..k) = k /\ (1..k) \ {Max(1..k)} = 1..k - 1 /\ 1..k \in SUBSET (1..n) /\ 1..k # {}
    BY PrefixMax
  <2>3. iter[1..k] = NvidiaStep(iter[(1..k) \ {Max(1..k)}], lines[Max(1..k)])
    BY <2>2, <1>6
  <2>4. QED BY <2>1, <2>2, <2>3
<1> HIDE DEF h
<1>9. h[0] = <<>> /\ parseNvidiaCSV(lines) = h[n]
  BY <1>2, <1>7 DEF b
<1>10. QED BY <1>8, <1>9

\* The body of the loop of parseDeviceRow.
MemStep(best, g) ==
    IF parseUint(g.total) >= best.total
    THEN [used |-> parseUint(g.used), total |-> parseUint(g.total)] ELSE best

\* The loop of parseDeviceRow.
LEMMA MemLoop ==
    ASSUME NEW groups, NEW n \in Nat, DOMAIN groups = 1..n
    PROVE  \E h : /\ h[0] = [used |-> 0, total |-> 0] /\ parseDeviceRow(groups) = h[n]
                  /\ \A k \in 1..n : h[k] = MemStep(h[k - 1], groups[k])
<1> DEFINE Of(k) == [used |-> parseUint(groups[k].used), total |-> parseUint(groups[k].total)]
           A == {[used |-> 0, total |-> 0]} \cup {Of(k) : k \in 1..n}
           b == [used |-> 0, total |-> 0]
           g == [x \in A \X (1..n) |-> MemStep(x[1], groups[x[2]])]
           Fold(f) == [s \in SUBSET (1..n) |-> IF s = {} THEN b ELSE MemStep(f[s \ {Max(s)}], groups[Max(s)])]
           iter == CHOOSE f : f = Fold(f)
           h == [k \in 0..n |-> iter[1..k]]
<1>1. b \in A /\ \A x \in A \X (1..n) : MemStep(x[1], groups[x[2]]) \in A
  <2>1. \A x \in A \X (1..n) : Of(x[2]) \in A /\ x[1] \in A
    <3> HIDE DEF Of
    <3> QED OBVIOUS
  <2>2. ASSUME NEW x \in A \X (1..n) PROVE MemStep(x[1], groups[x[2]]) \in {x[1], Of(x[2])}
    <3> HIDE DEF A
    <3> QED BY DEF MemStep
  <2>3. b \in A
    OBVIOUS
  <2> HIDE DEF A, b, Of
  <2>4. QED BY <2>1, <2>2, <2>3
<1>2. parseDeviceRow(groups) = iter[1..n]
  BY Zenon DEF parseDeviceRow, FoldLeft, MapThenFoldSet, MemStep
<1> HIDE DEF A, b
<1>3. PICK F \in [SUBSET (1..n) -> A] : IsLoop(F, n, b, g)
  <2>1. g \in [A \X (1..n) -> A]
    BY <1>1
  <2> HIDE DEF g
  <2>2. QED BY <1>1, <2>1, FoldExists
<1>4. F = Fold(F)
  <2>1. ASSUME NEW s \in SUBSET (1..n), s # {} PROVE F[s] = MemStep(F[s \ {Max(s)}], groups[Max(s)])
    <3>1. Max(s) \in 1..n
      BY <2>1, MaxFacts
    <3>2. F[s \ {Max(s)}] \in A
      BY <1>3
    <3>3. QED BY <1>3, <2>1, <3>1, <3>2 DEF IsLoop
  <2>2. F[{}] = b
    BY <1>3 DEF IsLoop
  <2> HIDE DEF g
  <2>3. QED BY <2>1, <2>2
<1>5. iter = Fold(iter)
  <2> HIDE DEF Fold
  <2> QED BY <1>4, Zenon
<1> HIDE DEF iter
<1>6. \A s \in SUBSET (1..n) :
        iter[s] = IF s = {} THEN b ELSE MemStep(iter[s \ {Max(s)}], groups[Max(s)])
  BY <1>5
<1>7. h[0] = b /\ h[n] = iter[1..n]
  <2>1. 1..0 = {} /\ {} \in SUBSET (1..n)
    OBVIOUS
  <2>2. h[0] = iter[1..0] /\ h[n] = iter[1..n]
    OBVIOUS
  <2>3. iter[{}] = b
    BY <2>1, <1>6
  <2> HIDE DEF h
  <2>4. QED BY <2>1, <2>2, <2>3
<1>8. ASSUME NEW k \in 1..n PROVE h[k] = MemStep(h[k - 1], groups[k])
  <2>1. h[k] = iter[1..k] /\ h[k - 1] = iter[1..k - 1]
    OBVIOUS
  <2> HIDE DEF h
  <2>2. Max(1..k) = k /\ (1..k) \ {Max(1..k)} = 1..k - 1 /\ 1..k \in SUBSET (1..n) /\ 1..k # {}
    BY PrefixMax
  <2>3. iter[1..k] = MemStep(iter[(1..k) \ {Max(1..k)}], groups[Max(1..k)])
    BY <2>2, <1>6
  <2>4. QED BY <2>1, <2>2, <2>3
<1> HIDE DEF h
<1>9. h[0] = [used |-> 0, total |-> 0] /\ parseDeviceRow(groups) = h[n]
  BY <1>2, <1>7 DEF b
<1>10. QED BY <1>8, <1>9

\* The loop of parseNpuSmi, by its values after every row.
LEMMA PairLoop ==
    ASSUME NEW rows, NEW n \in Nat, DOMAIN rows = 1..n
    PROVE  \E h : /\ h[0] = [pending |-> Unpaired, devices |-> <<>>] /\ parseNpuSmi(rows) = h[n].devices
                  /\ \A k \in 1..n : h[k] = PairRows(h[k - 1], rows[k])
<1> DEFINE Name(k) == [index |-> parseUint(rows[k].index), name |-> rows[k].name]
           N == {Unpaired} \cup {Name(k) : k \in 1..n}
           Dev(p, k) == [kind |-> "npu", vendor |-> "ascend", index |-> p.index, uuid |-> "", name |-> p.name,
                         total |-> parseDeviceRow(rows[k].groups).total * MiB,
                         used |-> parseDeviceRow(rows[k].groups).used * MiB]
           D == {Dev(x[1], x[2]) : x \in N \X (1..n)}
           A == [pending : N, devices : Seq(D)]
           b == [pending |-> Unpaired, devices |-> <<>>]
           g == [x \in A \X (1..n) |-> PairRows(x[1], rows[x[2]])]
           Fold(f) == [s \in SUBSET (1..n) |-> IF s = {} THEN b ELSE PairRows(f[s \ {Max(s)}], rows[Max(s)])]
           iter == CHOOSE f : f = Fold(f)
           h == [k \in 0..n |-> iter[1..k]]
<1>1. b \in A /\ \A x \in A \X (1..n) : PairRows(x[1], rows[x[2]]) \in A
  <2>1. Unpaired \in N /\ \A k \in 1..n : Name(k) \in N
    <3> HIDE DEF Name
    <3> QED OBVIOUS
  <2>2. \A p \in N, k \in 1..n : Dev(p, k) \in D
    <3> HIDE DEF Dev, N
    <3>1. ASSUME NEW p \in N, NEW k \in 1..n PROVE Dev(p, k) \in D
      <4>1. <<p, k>> \in N \X (1..n) /\ <<p, k>>[1] = p /\ <<p, k>>[2] = k
        OBVIOUS
      <4>2. QED BY <4>1
    <3>2. QED BY <3>1
  <2>3. b \in A
    <3> HIDE DEF N, D
    <3> QED BY <2>1
  <2>4. ASSUME NEW acc \in A, NEW k \in 1..n PROVE PairRows(acc, rows[k]) \in A
    <3>1. acc.pending \in N /\ acc.devices \in Seq(D)
      <4> HIDE DEF N, D
      <4> QED OBVIOUS
    <3>2. CASE rows[k].shape = "chip" /\ acc.pending # Unpaired
      <4>1. PairRows(acc, rows[k]) = [pending |-> Unpaired, devices |-> Append(acc.devices, Dev(acc.pending, k))]
        <5> HIDE DEF N, D, A
        <5> QED BY <3>2, Zenon DEF PairRows
      <4> HIDE DEF N, D, Dev
      <4>2. Append(acc.devices, Dev(acc.pending, k)) \in Seq(D)
        BY <2>2, <3>1
      <4>3. QED BY <2>1, <4>1, <4>2
    <3>3. CASE ~(rows[k].shape = "chip" /\ acc.pending # Unpaired) /\ rows[k].shape = "name"
      <4>1. PairRows(acc, rows[k]) = [acc EXCEPT !.pending = Name(k)]
        <5> HIDE DEF N, D, A
        <5> QED BY <3>3, Zenon DEF PairRows
      <4> HIDE DEF N, D, Name
      <4>2. QED BY <2>1, <3>1, <4>1
    <3>4. CASE ~(rows[k].shape = "chip" /\ acc.pending # Unpaired) /\ rows[k].shape # "name"
      <4>1. PairRows(acc, rows[k]) = acc
        <5> HIDE DEF N, D, A
        <5> QED BY <3>4, Zenon DEF PairRows
      <4>2. QED BY <4>1
    <3>5. QED BY <3>2, <3>3, <3>4
  <2> HIDE DEF A, b
  <2>5. QED BY <2>3, <2>4
<1>2. parseNpuSmi(rows) = iter[1..n].devices
  BY Zenon DEF parseNpuSmi, FoldLeft, MapThenFoldSet
<1> HIDE DEF A, b
<1>3. PICK F \in [SUBSET (1..n) -> A] : IsLoop(F, n, b, g)
  <2>1. g \in [A \X (1..n) -> A]
    BY <1>1
  <2> HIDE DEF g
  <2>2. QED BY <1>1, <2>1, FoldExists
<1>4. F = Fold(F)
  <2>1. ASSUME NEW s \in SUBSET (1..n), s # {} PROVE F[s] = PairRows(F[s \ {Max(s)}], rows[Max(s)])
    <3>1. Max(s) \in 1..n
      BY <2>1, MaxFacts
    <3>2. F[s \ {Max(s)}] \in A
      BY <1>3
    <3>3. QED BY <1>3, <2>1, <3>1, <3>2 DEF IsLoop
  <2>2. F[{}] = b
    BY <1>3 DEF IsLoop
  <2> HIDE DEF g
  <2>3. QED BY <2>1, <2>2
<1>5. iter = Fold(iter)
  <2> HIDE DEF Fold
  <2> QED BY <1>4, Zenon
<1> HIDE DEF iter
<1>6. \A s \in SUBSET (1..n) :
        iter[s] = IF s = {} THEN b ELSE PairRows(iter[s \ {Max(s)}], rows[Max(s)])
  BY <1>5
<1>7. h[0] = b /\ h[n] = iter[1..n]
  <2>1. 1..0 = {} /\ {} \in SUBSET (1..n)
    OBVIOUS
  <2>2. h[0] = iter[1..0] /\ h[n] = iter[1..n]
    OBVIOUS
  <2>3. iter[{}] = b
    BY <2>1, <1>6
  <2> HIDE DEF h
  <2>4. QED BY <2>1, <2>2, <2>3
<1>8. ASSUME NEW k \in 1..n PROVE h[k] = PairRows(h[k - 1], rows[k])
  <2>1. h[k] = iter[1..k] /\ h[k - 1] = iter[1..k - 1]
    OBVIOUS
  <2> HIDE DEF h
  <2>2. Max(1..k) = k /\ (1..k) \ {Max(1..k)} = 1..k - 1 /\ 1..k \in SUBSET (1..n) /\ 1..k # {}
    BY PrefixMax
  <2>3. iter[1..k] = PairRows(iter[(1..k) \ {Max(1..k)}], rows[Max(1..k)])
    BY <2>2, <1>6
  <2>4. QED BY <2>1, <2>2, <2>3
<1> HIDE DEF h
<1>9. h[0] = [pending |-> Unpaired, devices |-> <<>>] /\ parseNpuSmi(rows) = h[n].devices
  BY <1>2, <1>7 DEF b
<1>10. QED BY <1>8, <1>9

\* The body of the loop of diskCollector.
DiskStep(disks, p) ==
    IF p.total = 0 \/ \E i \in 1..Len(disks) : disks[i].mount = p.mount
    THEN disks ELSE Append(disks, p)

\* The loop of diskCollector, by its values after every partition.
LEMMA DiskLoop ==
    ASSUME NEW parts, NEW n \in Nat, DOMAIN parts = 1..n
    PROVE  \E h : /\ h[0] = <<>> /\ CollectDisks(parts) = h[n]
                  /\ \A k \in 1..n : h[k] = DiskStep(h[k - 1], parts[k])
<1> DEFINE D == {parts[k] : k \in 1..n}
           A == Seq(D)
           b == <<>>
           g == [x \in A \X (1..n) |-> DiskStep(x[1], parts[x[2]])]
           Fold(f) == [s \in SUBSET (1..n) |-> IF s = {} THEN b ELSE DiskStep(f[s \ {Max(s)}], parts[Max(s)])]
           iter == CHOOSE f : f = Fold(f)
           h == [k \in 0..n |-> iter[1..k]]
<1>1. b \in A /\ \A x \in A \X (1..n) : DiskStep(x[1], parts[x[2]]) \in A
  <2>1. \A x \in A \X (1..n) : parts[x[2]] \in D /\ x[1] \in Seq(D)
    OBVIOUS
  <2> HIDE DEF D
  <2>2. QED BY <2>1 DEF DiskStep
<1>2. CollectDisks(parts) = iter[1..n]
  BY Zenon DEF CollectDisks, FoldLeft, MapThenFoldSet, DiskStep
<1> HIDE DEF A, b
<1>3. PICK F \in [SUBSET (1..n) -> A] : IsLoop(F, n, b, g)
  <2>1. g \in [A \X (1..n) -> A]
    BY <1>1
  <2> HIDE DEF g
  <2>2. QED BY <1>1, <2>1, FoldExists
<1>4. F = Fold(F)
  <2>1. ASSUME NEW s \in SUBSET (1..n), s # {} PROVE F[s] = DiskStep(F[s \ {Max(s)}], parts[Max(s)])
    <3>1. Max(s) \in 1..n
      BY <2>1, MaxFacts
    <3>2. F[s \ {Max(s)}] \in A
      BY <1>3
    <3>3. QED BY <1>3, <2>1, <3>1, <3>2 DEF IsLoop
  <2>2. F[{}] = b
    BY <1>3 DEF IsLoop
  <2> HIDE DEF g
  <2>3. QED BY <2>1, <2>2
<1>5. iter = Fold(iter)
  <2> HIDE DEF Fold
  <2> QED BY <1>4, Zenon
<1> HIDE DEF iter
<1>6. \A s \in SUBSET (1..n) :
        iter[s] = IF s = {} THEN b ELSE DiskStep(iter[s \ {Max(s)}], parts[Max(s)])
  BY <1>5
<1>7. h[0] = b /\ h[n] = iter[1..n]
  <2>1. 1..0 = {} /\ {} \in SUBSET (1..n)
    OBVIOUS
  <2>2. h[0] = iter[1..0] /\ h[n] = iter[1..n]
    OBVIOUS
  <2>3. iter[{}] = b
    BY <2>1, <1>6
  <2> HIDE DEF h
  <2>4. QED BY <2>1, <2>2, <2>3
<1>8. ASSUME NEW k \in 1..n PROVE h[k] = DiskStep(h[k - 1], parts[k])
  <2>1. h[k] = iter[1..k] /\ h[k - 1] = iter[1..k - 1]
    OBVIOUS
  <2> HIDE DEF h
  <2>2. Max(1..k) = k /\ (1..k) \ {Max(1..k)} = 1..k - 1 /\ 1..k \in SUBSET (1..n) /\ 1..k # {}
    BY PrefixMax
  <2>3. iter[1..k] = DiskStep(iter[(1..k) \ {Max(1..k)}], parts[Max(1..k)])
    BY <2>2, <1>6
  <2>4. QED BY <2>1, <2>2, <2>3
<1> HIDE DEF h
<1>9. h[0] = <<>> /\ CollectDisks(parts) = h[n]
  BY <1>2, <1>7 DEF b
<1>10. QED BY <1>8, <1>9

\* The texts a device can bear: those of the cards and the parsers' own.
Texts == STRING \cup {"", "PID"}

\* The devices the parsers make.
Devices == [kind : {"gpu", "npu"}, vendor : {"nvidia", "ascend"}, index : Nat, uuid : Texts, name : Texts,
            total : Nat, used : Nat]

\* Device d is what is to be known of a card.
Tells(d, kind, card) ==
    d.kind = kind /\ d.index = card.index /\ d.total = card.total * MiB

\* The devices are the first k cards, each once and in order.
Lists(devs, kind, cards, k) ==
    /\ devs \in Seq(Devices) /\ Len(devs) = k
    /\ \A i \in 1..k : Tells(devs[i], kind, cards[i])

\* A device more.
LEMMA ListsMore ==
    ASSUME NEW kind, NEW cards, NEW k \in Nat, NEW devs, Lists(devs, kind, cards, k),
           NEW d \in Devices, Tells(d, kind, cards[k + 1])
    PROVE  Lists(Append(devs, d), kind, cards, k + 1)
<1>1. Append(devs, d) \in Seq(Devices) /\ Len(Append(devs, d)) = k + 1
  BY DEF Lists
<1>2. ASSUME NEW i \in 1..k + 1 PROVE Tells(Append(devs, d)[i], kind, cards[i])
  <2>1. CASE i = k + 1
    <3>1. Append(devs, d)[k + 1] = d
      BY DEF Lists
    <3>2. QED BY <2>1, <3>1
  <2>2. CASE i \in 1..k
    <3>1. Append(devs, d)[i] = devs[i]
      BY <2>2 DEF Lists
    <3>2. QED BY <2>2, <3>1 DEF Lists
  <2>3. i = k + 1 \/ i \in 1..k
    OBVIOUS
  <2>4. QED BY <2>1, <2>2, <2>3
<1>3. QED BY <1>1, <1>2 DEF Lists

\* parseNvidiaCSV finds every card of the table and nothing else, although a
\* warning precedes it.
LEMMA NvidiaListsGpus == Lists(parseNvidiaCSV(NvidiaOutput), "gpu", Gpus, Len(Gpus))
<1> DEFINE m == Len(Gpus)
           lines == NvidiaOutput
<1>1. m \in Nat /\ \A i \in 1..m : Gpus[i] \in GpuCards
  BY CollectorAssumption
<1>2. /\ DOMAIN lines = 1..m + 2
      /\ lines[1] = <<"warning">> /\ lines[2] = <<>>
      /\ \A i \in 1..m : lines[i + 2] = <<Gpus[i].index, Gpus[i].uuid, Gpus[i].name, 0,
                                          Gpus[i].total, Gpus[i].used, 40, NA>>
  BY <1>1 DEF NvidiaOutput
<1> HIDE DEF lines
<1>3. ASSUME NEW i \in 1..m
      PROVE  /\ Len(lines[i + 2]) = 8
             /\ NvidiaDevice(lines[i + 2]) \in Devices
             /\ Tells(NvidiaDevice(lines[i + 2]), "gpu", Gpus[i])
  <2>1. /\ Gpus[i].index \in Nat /\ Gpus[i].uuid \in STRING /\ Gpus[i].name \in STRING
        /\ Gpus[i].total \in Nat /\ Gpus[i].used \in Nat
    BY <1>1 DEF GpuCards
  <2>2. /\ lines[i + 2][1] = Gpus[i].index /\ lines[i + 2][2] = Gpus[i].uuid
        /\ lines[i + 2][3] = Gpus[i].name /\ lines[i + 2][5] = Gpus[i].total
        /\ lines[i + 2][6] = Gpus[i].used /\ Len(lines[i + 2]) = 8
    <3>1. lines[i + 2] = <<Gpus[i].index, Gpus[i].uuid, Gpus[i].name, 0,
                           Gpus[i].total, Gpus[i].used, 40, NA>>
      BY <1>2
    <3>2. QED BY <3>1
  <2> DEFINE d == NvidiaDevice(lines[i + 2])
  <2>3. /\ parseUint(lines[i + 2][1]) = Gpus[i].index
        /\ mibToBytes(lines[i + 2][5]) = Gpus[i].total * MiB /\ Gpus[i].total * MiB \in Nat
        /\ mibToBytes(lines[i + 2][6]) = Gpus[i].used * MiB /\ Gpus[i].used * MiB \in Nat
    BY <2>1, <2>2 DEF parseUint, mibToBytes, MiB, NA
  <2>4. /\ d.kind = "gpu" /\ d.vendor = "nvidia" /\ d.index = Gpus[i].index
        /\ d.total = Gpus[i].total * MiB
    BY <2>3 DEF NvidiaDevice
  <2>5. d \in Devices
    <3>1. d = [kind |-> "gpu", vendor |-> "nvidia", index |-> Gpus[i].index, uuid |-> Gpus[i].uuid,
               name |-> Gpus[i].name, total |-> Gpus[i].total * MiB, used |-> Gpus[i].used * MiB]
      BY <2>2, <2>3 DEF NvidiaDevice
    <3>2. /\ "gpu" \in {"gpu", "npu"} /\ "nvidia" \in {"nvidia", "ascend"}
          /\ Gpus[i].uuid \in Texts /\ Gpus[i].name \in Texts
      BY <2>1 DEF Texts
    <3> HIDE DEF d
    <3>3. QED BY <2>1, <2>3, <3>1, <3>2, Zenon DEF Devices
  <2>6. QED BY <2>2, <2>4, <2>5 DEF Tells
<1>4. PICK h : /\ h[0] = <<>> /\ h[m + 2] = parseNvidiaCSV(lines)
               /\ \A k \in 1..m + 2 : h[k] = NvidiaStep(h[k - 1], lines[k])
  <2>1. m + 2 \in Nat
    BY <1>1
  <2>2. QED BY <1>2, <2>1, NvidiaLoop
<1> HIDE DEF m
<1> DEFINE P == {k \in 0..m : Lists(h[k + 2], "gpu", Gpus, k)}
<1>5. 0 \in P
  <2>1. 1 \in 1..m + 2 /\ 2 \in 1..m + 2 /\ Len(lines[1]) = 1 /\ Len(lines[2]) = 0
    BY <1>1, <1>2
  <2>2. h[1] = NvidiaStep(h[0], lines[1]) /\ h[2] = NvidiaStep(h[1], lines[2])
    BY <1>4, <2>1
  <2>3. h[1] = <<>> /\ h[2] = <<>>
    BY <1>4, <2>1, <2>2 DEF NvidiaStep
  <2>4. h[0 + 2] = <<>>
    BY <2>3
  <2>5. Lists(h[0 + 2], "gpu", Gpus, 0)
    BY <2>4 DEF Lists
  <2>6. QED BY <1>1, <2>5
<1>6. ASSUME NEW k \in 0..m - 1, k \in P PROVE k + 1 \in P
  <2>1. PICK j \in 1..m : j = k + 1
    BY <1>1
  <2>2. k \in Nat /\ k \in 0..m /\ j + 2 \in 1..m + 2 /\ (j + 2) - 1 = k + 2
    BY <1>1, <2>1
  <2>3. Len(lines[j + 2]) = 8
    BY <1>3
  <2>4. h[j + 2] = Append(h[k + 2], NvidiaDevice(lines[j + 2]))
    <3>1. h[j + 2] = NvidiaStep(h[k + 2], lines[j + 2])
      BY <1>4, <2>2
    <3>2. QED BY <2>3, <3>1 DEF NvidiaStep
  <2>5. Lists(h[k + 2], "gpu", Gpus, k)
    BY <1>6
  <2>6. Lists(Append(h[k + 2], NvidiaDevice(lines[j + 2])), "gpu", Gpus, k + 1)
    BY <1>3, <2>1, <2>2, <2>5, ListsMore
  <2>7. Lists(h[j + 2], "gpu", Gpus, j)
    BY <2>1, <2>4, <2>6
  <2>8. QED BY <1>1, <2>1, <2>7
<1> HIDE DEF P
<1>7. m \in P
  BY <1>1, <1>5, <1>6, BoundedInduction
<1>8. QED BY <1>4, <1>7 DEF P, m, lines

\* The elements of two sequences put together.
LEMMA Concatenated ==
    ASSUME NEW S, NEW s \in Seq(S), NEW t \in Seq(S)
    PROVE  /\ s \o t \in Seq(S) /\ Len(s \o t) = Len(s) + Len(t)
           /\ DOMAIN (s \o t) = 1..Len(s) + Len(t)
           /\ \A i \in 1..Len(s) : (s \o t)[i] = s[i]
           /\ \A i \in 1..Len(t) : (s \o t)[i + Len(s)] = t[i]
<1>1. Len(s) \in Nat /\ Len(t) \in Nat
  OBVIOUS
<1>2. /\ s \o t \in Seq(S) /\ Len(s \o t) = Len(s) + Len(t)
      /\ \A i \in 1..Len(s) + Len(t) : (s \o t)[i] = IF i <= Len(s) THEN s[i] ELSE t[i - Len(s)]
  BY ConcatProperties
<1>3. DOMAIN (s \o t) = 1..Len(s) + Len(t)
  BY <1>2
<1>4. ASSUME NEW i \in 1..Len(s) PROVE (s \o t)[i] = s[i]
  <2>1. i \in 1..Len(s) + Len(t) /\ i <= Len(s)
    BY <1>1
  <2>2. QED BY <1>2, <2>1
<1>5. ASSUME NEW i \in 1..Len(t) PROVE (s \o t)[i + Len(s)] = t[i]
  <2>1. i + Len(s) \in 1..Len(s) + Len(t) /\ ~(i + Len(s) <= Len(s)) /\ (i + Len(s)) - Len(s) = i
    BY <1>1
  <2>2. QED BY <1>2, <2>1
<1>6. QED BY <1>2, <1>3, <1>4, <1>5

\* The memory of a card is that of its largest group, with and without HBM.
LEMMA CardMemory ==
    ASSUME NEW card \in NpuCards
    PROVE  /\ parseDeviceRow(Groups(card)).total = card.total
           /\ parseDeviceRow(Groups(card)).used = card.used
<1> DEFINE zero == [used |-> 0, total |-> 0]
           usage == [used |-> card.used, total |-> card.total]
<1>1. card.used \in Nat /\ card.total \in Nat
  BY DEF NpuCards
<1>2. /\ zero.total = 0 /\ zero.used = 0 /\ usage.total = card.total /\ usage.used = card.used
  OBVIOUS
<1> HIDE DEF zero, usage
<1>3. ASSUME NEW best, best.total \in Nat, best.total = 0
      PROVE  MemStep(best, usage).total = card.total /\ MemStep(best, usage).used = card.used
  BY <1>1, <1>2, <1>3 DEF MemStep, parseUint, NA
<1>4. MemStep(zero, zero).total = 0
  BY <1>2 DEF MemStep, parseUint, NA
<1>5. CASE card.hbm
  <2>1. Groups(card) = <<zero, usage>>
    BY <1>5 DEF Groups, zero, usage
  <2>2. DOMAIN Groups(card) = 1..2 /\ Groups(card)[1] = zero /\ Groups(card)[2] = usage
    BY <2>1
  <2>3. PICK h : /\ h[0] = zero /\ parseDeviceRow(Groups(card)) = h[2]
                 /\ \A k \in 1..2 : h[k] = MemStep(h[k - 1], Groups(card)[k])
    <3>1. 2 \in Nat
      OBVIOUS
    <3>2. QED BY <2>2, <3>1, MemLoop DEF zero
  <2>4. h[1] = MemStep(zero, zero) /\ h[2] = MemStep(h[1], usage)
    BY <2>2, <2>3
  <2>5. QED BY <1>3, <1>4, <2>3, <2>4
<1>6. CASE ~card.hbm
  <2>1. Groups(card) = <<usage>>
    BY <1>6 DEF Groups, usage
  <2>2. DOMAIN Groups(card) = 1..1 /\ Groups(card)[1] = usage
    BY <2>1
  <2>3. PICK h : /\ h[0] = zero /\ parseDeviceRow(Groups(card)) = h[1]
                 /\ \A k \in 1..1 : h[k] = MemStep(h[k - 1], Groups(card)[k])
    <3>1. 1 \in Nat
      OBVIOUS
    <3>2. QED BY <2>2, <3>1, MemLoop DEF zero
  <2>4. h[1] = MemStep(zero, usage)
    BY <2>2, <2>3
  <2>5. QED BY <1>2, <1>3, <2>3, <2>4
<1>7. QED BY <1>5, <1>6

\* Where the rows of a card are.
LEMMA NpuTable ==
    /\ Len(Npus) \in Nat /\ DOMAIN NpuOutput = 1..3 * Len(Npus) + 7
    /\ \A r \in 1..4 : NpuOutput[r].shape \notin {"name", "chip"}
    /\ \A i \in 1..Len(Npus) :
          /\ NpuOutput[3 * i + 2] = NpuRow("name", Npus[i].index, Npus[i].name, <<>>)
          /\ NpuOutput[3 * i + 3] = NpuRow("chip", NA, "", Groups(Npus[i]))
          /\ NpuOutput[3 * i + 4] = Other("rule")
    /\ NpuOutput[3 * Len(Npus) + 5].shape \notin {"name", "chip"}
    /\ NpuOutput[3 * Len(Npus) + 6].shape \notin {"name", "chip"}
    /\ NpuOutput[3 * Len(Npus) + 7] = NpuRow("name", 0, "PID", <<>>)
<1> DEFINE m == Len(Npus)
           Name(card) == NpuRow("name", card.index, card.name, <<>>)
           Chip(card) == NpuRow("chip", NA, "", Groups(card))
           Three(card) == <<Name(card), Chip(card), Other("rule")>>
           top == <<Other("rule"), Other("short"), Other("header"), Other("header")>>
           mid == [r \in 1..3 * m |-> Three(Npus[(r + 2) \div 3])[1 + ((r - 1) % 3)]]
           end == <<Other("header"), Other("fragment"), NpuRow("name", 0, "PID", <<>>)>>
<1>1. m \in Nat
  BY CollectorAssumption
<1>2. NpuOutput = (top \o mid) \o end
  BY DEF NpuOutput
<1>3. \A t \in {"rule", "short", "header", "fragment"} : Other(t).shape \notin {"name", "chip"}
  BY DEF Other, NpuRow
<1>4. \A card : Three(card)[1] = Name(card) /\ Three(card)[2] = Chip(card) /\ Three(card)[3] = Other("rule")
  <2> HIDE DEF Name, Chip
  <2> QED OBVIOUS
<1> HIDE DEF Three
<1>5. ASSUME NEW i \in 1..m
      PROVE  mid[3 * i - 2] = Name(Npus[i]) /\ mid[3 * i - 1] = Chip(Npus[i]) /\ mid[3 * i] = Other("rule")
  <2>1. i \in Nat /\ 3 * i - 2 \in 1..3 * m /\ 3 * i - 1 \in 1..3 * m /\ 3 * i \in 1..3 * m
    BY <1>1
  <2> HIDE DEF m
  <2>2. ((3 * i - 2) + 2) \div 3 = i /\ ((3 * i - 1) + 2) \div 3 = i /\ (3 * i + 2) \div 3 = i
    BY <2>1
  <2>3. /\ 1 + (((3 * i - 2) - 1) % 3) = 1 /\ 1 + (((3 * i - 1) - 1) % 3) = 2
        /\ 1 + ((3 * i - 1) % 3) = 3
    BY <2>1
  <2>4. /\ mid[3 * i - 2] = Three(Npus[((3 * i - 2) + 2) \div 3])[1 + (((3 * i - 2) - 1) % 3)]
        /\ mid[3 * i - 1] = Three(Npus[((3 * i - 1) + 2) \div 3])[1 + (((3 * i - 1) - 1) % 3)]
        /\ mid[3 * i] = Three(Npus[(3 * i + 2) \div 3])[1 + ((3 * i - 1) % 3)]
    BY <2>1
  <2> HIDE DEF mid, Name, Chip
  <2>5. QED BY <1>4, <2>2, <2>3, <2>4
<1>6. PICK M : mid \in Seq(M) /\ top \in Seq(M) /\ end \in Seq(M)
  <2> DEFINE M == {mid[r] : r \in 1..3 * m} \cup {top[r] : r \in 1..4} \cup {end[r] : r \in 1..3}
  <2>1. \A r \in 1..4 : top[r] \in M
    <3> HIDE DEF top, mid, end
    <3> QED OBVIOUS
  <2>2. \A r \in 1..3 : end[r] \in M
    <3> HIDE DEF top, mid, end
    <3> QED OBVIOUS
  <2>3. 3 * m \in Nat /\ \A r \in 1..3 * m : mid[r] \in M
    <3> HIDE DEF top, mid, end
    <3> QED BY <1>1
  <2>4. mid \in [1..3 * m -> M]
    <3> HIDE DEF M
    <3> QED BY <2>3
  <2> HIDE DEF M
  <2>5. mid \in Seq(M)
    <3> HIDE DEF mid
    <3> QED BY <2>3, <2>4
  <2>6. top \in Seq(M) /\ end \in Seq(M)
    BY <2>1, <2>2
  <2>7. QED BY <2>5, <2>6
<1>7. /\ Len(top) = 4 /\ Len(end) = 3
      /\ top[1] = Other("rule") /\ top[2] = Other("short") /\ top[3] = Other("header") /\ top[4] = Other("header")
      /\ end[1] = Other("header") /\ end[2] = Other("fragment") /\ end[3] = NpuRow("name", 0, "PID", <<>>)
  OBVIOUS
<1>8. Len(mid) = 3 * m
  <2>1. 3 * m \in Nat
    BY <1>1
  <2>2. QED BY <2>1
<1> HIDE DEF top, mid, end, m, Name, Chip
<1>9. /\ top \o mid \in Seq(M) /\ Len(top \o mid) = 4 + 3 * m
      /\ \A r \in 1..4 : (top \o mid)[r] = top[r]
      /\ \A r \in 1..3 * m : (top \o mid)[r + 4] = mid[r]
  <2>1. /\ top \o mid \in Seq(M) /\ Len(top \o mid) = Len(top) + Len(mid)
        /\ \A r \in 1..Len(top) : (top \o mid)[r] = top[r]
        /\ \A r \in 1..Len(mid) : (top \o mid)[r + Len(top)] = mid[r]
    BY <1>6, Concatenated
  <2>2. Len(top) = 4
    BY <1>7
  <2>3. QED BY <1>8, <2>1, <2>2
<1>10. /\ DOMAIN NpuOutput = 1..3 * m + 7
       /\ \A r \in 1..4 + 3 * m : NpuOutput[r] = (top \o mid)[r]
       /\ \A r \in 1..3 : NpuOutput[r + (4 + 3 * m)] = end[r]
  <2>1. /\ DOMAIN NpuOutput = 1..(4 + 3 * m) + 3
        /\ \A r \in 1..4 + 3 * m : NpuOutput[r] = (top \o mid)[r]
        /\ \A r \in 1..3 : NpuOutput[r + (4 + 3 * m)] = end[r]
    <3> DEFINE half == top \o mid
    <3>1. half \in Seq(M) /\ Len(half) = 4 + 3 * m
      BY <1>9
    <3>2. NpuOutput = half \o end
      BY <1>2
    <3> HIDE DEF half
    <3>7. half \in Seq(M) /\ end \in Seq(M)
      BY <1>6, <3>1
    <3>3. /\ half \o end \in Seq(M) /\ Len(half \o end) = Len(half) + Len(end)
          /\ \A r \in 1..Len(half) : (half \o end)[r] = half[r]
          /\ \A r \in 1..Len(end) : (half \o end)[r + Len(half)] = end[r]
      BY <3>7, Concatenated
    <3>4. Len(end) = 3
      BY <1>7
    <3>5. /\ DOMAIN NpuOutput = 1..(4 + 3 * m) + 3
          /\ \A r \in 1..4 + 3 * m : NpuOutput[r] = half[r]
          /\ \A r \in 1..3 : NpuOutput[r + (4 + 3 * m)] = end[r]
      BY <3>1, <3>2, <3>3, <3>4
    <3>6. QED BY <3>5 DEF half
  <2>2. (4 + 3 * m) + 3 = 3 * m + 7
    BY <1>1
  <2>3. QED BY <2>1, <2>2
<1>11. \A r \in 1..4 : NpuOutput[r] = top[r]
  BY <1>1, <1>9, <1>10
<1>12. ASSUME NEW r \in 1..3 * m PROVE NpuOutput[r + 4] = mid[r]
  <2>1. r + 4 \in 1..4 + 3 * m
    BY <1>1
  <2>2. QED BY <1>9, <1>10, <2>1
<1>13. ASSUME NEW i \in 1..m
       PROVE  /\ NpuOutput[3 * i + 2] = mid[3 * i - 2] /\ NpuOutput[3 * i + 3] = mid[3 * i - 1]
              /\ NpuOutput[3 * i + 4] = mid[3 * i]
  <2>1. /\ 3 * i - 2 \in 1..3 * m /\ 3 * i - 1 \in 1..3 * m /\ 3 * i \in 1..3 * m
        /\ (3 * i - 2) + 4 = 3 * i + 2 /\ (3 * i - 1) + 4 = 3 * i + 3
    BY <1>1
  <2>2. NpuOutput[(3 * i - 2) + 4] = mid[3 * i - 2] /\ NpuOutput[(3 * i - 1) + 4] = mid[3 * i - 1]
    BY <1>12, <2>1
  <2>3. QED BY <1>12, <2>1, <2>2
<1>14. /\ NpuOutput[3 * m + 5] = end[1] /\ NpuOutput[3 * m + 6] = end[2] /\ NpuOutput[3 * m + 7] = end[3]
  <2>1. 1 + (4 + 3 * m) = 3 * m + 5 /\ 2 + (4 + 3 * m) = 3 * m + 6 /\ 3 + (4 + 3 * m) = 3 * m + 7
    BY <1>1
  <2>2. /\ NpuOutput[1 + (4 + 3 * m)] = end[1] /\ NpuOutput[2 + (4 + 3 * m)] = end[2]
        /\ NpuOutput[3 + (4 + 3 * m)] = end[3]
    BY <1>10
  <2>3. QED BY <2>1, <2>2
<1>15. \A r \in 1..4 : NpuOutput[r].shape \notin {"name", "chip"}
  <2>1. \A r \in 1..4 : r = 1 \/ r = 2 \/ r = 3 \/ r = 4
    OBVIOUS
  <2>2. QED BY <1>3, <1>7, <1>11, <2>1
<1>16. /\ NpuOutput[3 * m + 5].shape \notin {"name", "chip"} /\ NpuOutput[3 * m + 6].shape \notin {"name", "chip"}
       /\ NpuOutput[3 * m + 7] = NpuRow("name", 0, "PID", <<>>)
  BY <1>3, <1>7, <1>14
<1>17. QED BY <1>1, <1>5, <1>10, <1>13, <1>15, <1>16 DEF m, Name, Chip

\* What the loop over the rows holds: a name row that waits, and devices.
Pairs == [pending : [index : Int, name : Texts], devices : Seq(Devices)]

\* A row that is neither a name nor a chip changes nothing.
LEMMA PairOther ==
    ASSUME NEW acc, NEW cells, cells.shape \notin {"name", "chip"}
    PROVE  PairRows(acc, cells) = acc
  BY Zenon DEF PairRows

\* A name row waits, and the devices stay.
LEMMA PairName ==
    ASSUME NEW acc \in Pairs, NEW index \in Nat, NEW name \in Texts, NEW groups
    PROVE  LET next == PairRows(acc, NpuRow("name", index, name, groups))
           IN  next \in Pairs /\ next.devices = acc.devices
               /\ next.pending.index = index /\ next.pending.name = name
<1> DEFINE cells == NpuRow("name", index, name, groups)
           it == [index |-> index, name |-> name]
<1>1. cells.shape = "name" /\ cells.name = name /\ parseUint(cells.index) = index
  BY DEF NpuRow, parseUint, NA
<1>2. cells.shape # "chip"
  BY <1>1
<1>3. PairRows(acc, cells) = [acc EXCEPT !.pending = [index |-> parseUint(cells.index), name |-> cells.name]]
  <2> HIDE DEF cells
  <2> QED BY <1>1, <1>2, Zenon DEF PairRows
<1>4. [index |-> parseUint(cells.index), name |-> cells.name] = it
  BY <1>1
<1>5. PairRows(acc, cells) = [acc EXCEPT !.pending = it]
  BY <1>3, <1>4
<1>6. it \in [index : Int, name : Texts] /\ it.index = index /\ it.name = name
  OBVIOUS
<1> HIDE DEF cells, it
<1>7. /\ [acc EXCEPT !.pending = it] \in Pairs /\ [acc EXCEPT !.pending = it].devices = acc.devices
      /\ [acc EXCEPT !.pending = it].pending = it
  BY <1>6 DEF Pairs
<1>8. QED BY <1>5, <1>6, <1>7 DEF cells

\* A chip row completes the name row before it.
LEMMA PairChip ==
    ASSUME NEW acc \in Pairs, NEW card \in NpuCards,
           acc.pending.index = card.index, acc.pending.name = card.name
    PROVE  LET next == PairRows(acc, NpuRow("chip", NA, "", Groups(card)))
           IN  \E d \in Devices : /\ Tells(d, "npu", card)
                                  /\ next = [pending |-> Unpaired, devices |-> Append(acc.devices, d)]
<1> DEFINE cells == NpuRow("chip", NA, "", Groups(card))
           mem == parseDeviceRow(cells.groups)
           d == [kind |-> "npu", vendor |-> "ascend", index |-> acc.pending.index,
                 uuid |-> "", name |-> acc.pending.name,
                 total |-> mem.total * MiB, used |-> mem.used * MiB]
<1>1. cells.shape = "chip" /\ cells.groups = Groups(card)
  BY DEF NpuRow
<1>2. card.index \in Nat /\ card.name \in STRING /\ card.total \in Nat /\ card.used \in Nat
  BY DEF NpuCards
<1>3. mem.total = card.total /\ mem.used = card.used
  BY <1>1, CardMemory
<1>4. acc.pending # Unpaired
  <2>1. Unpaired.index = -1
    BY DEF Unpaired, NA
  <2>2. QED BY <1>2, <2>1
<1>5. PairRows(acc, cells) = [pending |-> Unpaired, devices |-> Append(acc.devices, d)]
  <2> HIDE DEF cells
  <2> QED BY <1>1, <1>4, Zenon DEF PairRows
<1> HIDE DEF mem, cells
<1>6. mem.total * MiB = card.total * MiB /\ mem.total * MiB \in Nat /\ mem.used * MiB \in Nat
  BY <1>2, <1>3 DEF MiB
<1>7. /\ "npu" \in {"gpu", "npu"} /\ "ascend" \in {"nvidia", "ascend"} /\ "" \in Texts
      /\ acc.pending.index \in Nat /\ acc.pending.name \in Texts
  BY <1>2 DEF Texts
<1>8. d \in Devices
  BY <1>6, <1>7, Zenon DEF Devices
<1>9. Tells(d, "npu", card)
  BY <1>6 DEF Tells
<1>10. QED BY <1>5, <1>8, <1>9 DEF cells

\* parseNpuSmi finds every card of the table and nothing else, although the
\* table of processes that follows has a row that looks like one of a card.
LEMMA NpuListsNpus == Lists(parseNpuSmi(NpuOutput), "npu", Npus, Len(Npus))
<1> DEFINE m == Len(Npus)
           rows == NpuOutput
           start == [pending |-> Unpaired, devices |-> <<>>]
           Good(acc, k) == acc \in Pairs /\ Lists(acc.devices, "npu", Npus, k)
<1>1. /\ m \in Nat /\ DOMAIN rows = 1..3 * m + 7 /\ 3 * m + 7 \in Nat
      /\ \A i \in 1..m : Npus[i] \in NpuCards
  <2>1. m \in Nat /\ DOMAIN rows = 1..3 * m + 7
    BY NpuTable
  <2>2. \A i \in 1..m : Npus[i] \in NpuCards
    BY CollectorAssumption
  <2> HIDE DEF rows, m
  <2>3. QED BY <2>1, <2>2
<1> HIDE DEF rows
<1>2. PICK h : /\ h[0] = start /\ parseNpuSmi(rows) = h[3 * m + 7].devices
               /\ \A k \in 1..3 * m + 7 : h[k] = PairRows(h[k - 1], rows[k])
  <2> HIDE DEF m
  <2> QED BY <1>1, PairLoop
<1> DEFINE P == {k \in 0..m : Good(h[3 * k + 4], k)}
<1>3. 0 \in P
  <2>1. 1 \in 1..3 * m + 7 /\ 2 \in 1..3 * m + 7 /\ 3 \in 1..3 * m + 7 /\ 4 \in 1..3 * m + 7
    BY <1>1
  <2>2. /\ h[1] = PairRows(h[0], rows[1]) /\ h[2] = PairRows(h[1], rows[2])
        /\ h[3] = PairRows(h[2], rows[3]) /\ h[4] = PairRows(h[3], rows[4])
    <3> HIDE DEF m
    <3> QED BY <1>2, <2>1
  <2>3. \A r \in 1..4 : rows[r].shape \notin {"name", "chip"}
    BY NpuTable DEF rows
  <2>4. h[1] = h[0] /\ h[2] = h[1] /\ h[3] = h[2] /\ h[4] = h[3]
    BY <2>2, <2>3, PairOther
  <2>5. h[3 * 0 + 4] = start
    BY <1>2, <2>4
  <2>6. start \in Pairs /\ start.devices = <<>>
    BY DEF Pairs, Unpaired, NA, Texts
  <2>7. Lists(<<>>, "npu", Npus, 0)
    BY DEF Lists
  <2> HIDE DEF start, m
  <2>8. Good(h[3 * 0 + 4], 0)
    BY <2>5, <2>6, <2>7
  <2> HIDE DEF Good
  <2>9. QED BY <1>1, <2>8
<1>4. ASSUME NEW k \in 0..m - 1, k \in P PROVE k + 1 \in P
  <2>1. PICK i \in 1..m : i = k + 1
    BY <1>1
  <2>2. /\ k \in Nat /\ 3 * i + 2 \in 1..3 * m + 7 /\ 3 * i + 3 \in 1..3 * m + 7 /\ 3 * i + 4 \in 1..3 * m + 7
        /\ (3 * i + 2) - 1 = 3 * k + 4 /\ (3 * i + 3) - 1 = 3 * i + 2 /\ (3 * i + 4) - 1 = 3 * i + 3
    BY <1>1, <2>1
  <2>3. /\ rows[3 * i + 2] = NpuRow("name", Npus[i].index, Npus[i].name, <<>>)
        /\ rows[3 * i + 3] = NpuRow("chip", NA, "", Groups(Npus[i]))
        /\ rows[3 * i + 4] = Other("rule")
    BY NpuTable DEF rows
  <2> DEFINE a == h[3 * k + 4]
             b == h[3 * i + 2]
             c == h[3 * i + 3]
             e == h[3 * i + 4]
  <2> HIDE DEF m
  <2>4. /\ b = PairRows(a, rows[3 * i + 2]) /\ c = PairRows(b, rows[3 * i + 3])
        /\ e = PairRows(c, rows[3 * i + 4])
    <3>1. b = PairRows(h[(3 * i + 2) - 1], rows[3 * i + 2])
      BY <1>2, <2>2
    <3>2. c = PairRows(h[(3 * i + 3) - 1], rows[3 * i + 3])
      BY <1>2, <2>2
    <3>3. e = PairRows(h[(3 * i + 4) - 1], rows[3 * i + 4])
      BY <1>2, <2>2
    <3>4. QED BY <2>2, <3>1, <3>2, <3>3
  <2>5. a \in Pairs /\ Lists(a.devices, "npu", Npus, k)
    BY <1>4
  <2> HIDE DEF a, b, c, e
  <2>6. Npus[i].index \in Nat /\ Npus[i].name \in Texts /\ Npus[i] \in NpuCards
    BY <1>1 DEF NpuCards, Texts
  <2>7. b \in Pairs /\ b.devices = a.devices /\ b.pending.index = Npus[i].index /\ b.pending.name = Npus[i].name
    <3> DEFINE next == PairRows(a, NpuRow("name", Npus[i].index, Npus[i].name, <<>>))
    <3>1. /\ next \in Pairs /\ next.devices = a.devices
          /\ next.pending.index = Npus[i].index /\ next.pending.name = Npus[i].name
      BY <2>5, <2>6, PairName
    <3>2. b = next
      BY <2>3, <2>4
    <3> HIDE DEF next
    <3>3. QED BY <3>1, <3>2
  <2>8. PICK d \in Devices : Tells(d, "npu", Npus[i]) /\ c = [pending |-> Unpaired, devices |-> Append(b.devices, d)]
    BY <2>3, <2>4, <2>6, <2>7, PairChip
  <2>9. e = c
    <3>1. Other("rule").shape \notin {"name", "chip"}
      BY DEF Other, NpuRow
    <3>2. QED BY <2>3, <2>4, <3>1, PairOther
  <2>10. Lists(Append(a.devices, d), "npu", Npus, i)
    BY <2>1, <2>2, <2>5, <2>8, ListsMore
  <2>11. Append(a.devices, d) \in Seq(Devices)
    BY <2>10 DEF Lists
  <2>12. Unpaired \in [index : Int, name : Texts]
    BY DEF Unpaired, NA, Texts
  <2>13. e \in Pairs /\ e.devices = Append(a.devices, d)
    BY <2>7, <2>8, <2>9, <2>11, <2>12 DEF Pairs
  <2>14. Good(h[3 * i + 4], i)
    BY <2>10, <2>13 DEF e
  <2> HIDE DEF Good
  <2>15. QED BY <1>1, <2>1, <2>14
<1>5. m \in P
  <2> HIDE DEF P, m
  <2>1. \A k \in 0..m - 1 : k \in P => k + 1 \in P
    BY <1>4
  <2>2. \A k \in 0..m : k \in P
    BY <1>1, <1>3, <2>1, BoundedInduction
  <2>3. QED BY <1>1, <2>2
<1>6. Good(h[3 * m + 4], m)
  <2> HIDE DEF Good
  <2> QED BY <1>5
<1>7. /\ h[3 * m + 5] = PairRows(h[3 * m + 4], rows[3 * m + 5])
      /\ h[3 * m + 6] = PairRows(h[3 * m + 5], rows[3 * m + 6])
      /\ h[3 * m + 7] = PairRows(h[3 * m + 6], rows[3 * m + 7])
  <2>1. /\ 3 * m + 5 \in 1..3 * m + 7 /\ 3 * m + 6 \in 1..3 * m + 7 /\ 3 * m + 7 \in 1..3 * m + 7
        /\ (3 * m + 5) - 1 = 3 * m + 4 /\ (3 * m + 6) - 1 = 3 * m + 5 /\ (3 * m + 7) - 1 = 3 * m + 6
    BY <1>1
  <2> HIDE DEF m
  <2>2. /\ h[3 * m + 5] = PairRows(h[(3 * m + 5) - 1], rows[3 * m + 5])
        /\ h[3 * m + 6] = PairRows(h[(3 * m + 6) - 1], rows[3 * m + 6])
        /\ h[3 * m + 7] = PairRows(h[(3 * m + 7) - 1], rows[3 * m + 7])
    BY <1>2, <2>1
  <2>3. QED BY <2>1, <2>2
<1>8. h[3 * m + 6] = h[3 * m + 4]
  <2>1. /\ rows[3 * m + 5].shape \notin {"name", "chip"}
        /\ rows[3 * m + 6].shape \notin {"name", "chip"}
    BY NpuTable DEF rows
  <2> HIDE DEF m
  <2>2. QED BY <1>7, <2>1, PairOther
<1>9. h[3 * m + 7].devices = h[3 * m + 4].devices
  <2>1. rows[3 * m + 7] = NpuRow("name", 0, "PID", <<>>)
    BY NpuTable DEF rows
  <2>2. "PID" \in Texts /\ 0 \in Nat
    BY DEF Texts
  <2> HIDE DEF m
  <2>3. h[3 * m + 6] \in Pairs
    BY <1>6, <1>8
  <2>4. PairRows(h[3 * m + 6], rows[3 * m + 7]).devices = h[3 * m + 6].devices
    BY <2>1, <2>2, <2>3, PairName
  <2>5. QED BY <1>7, <1>8, <2>4
<1>10. QED BY <1>2, <1>6, <1>9 DEF rows

\* The mount points of a sequence of disks differ.
Mounts(disks) ==
    /\ disks \in Seq([mount : STRING, total : Nat])
    /\ \A i, j \in 1..Len(disks) : i # j => disks[i].mount # disks[j].mount

\* A mount point is taken once, however many partitions are mounted there.
LEMMA DisksAreDistinct == Mounts(Disks)
<1> DEFINE n == Len(Partitions)
<1>1. n \in Nat /\ DOMAIN Partitions = 1..n /\ \A k \in 1..n : Partitions[k] \in [mount : STRING, total : Nat]
  <2> DEFINE S == [mount : STRING, total : Nat]
  <2>1. Partitions \in Seq(S)
    BY CollectorAssumption
  <2> HIDE DEF S
  <2>2. n \in Nat /\ DOMAIN Partitions = 1..n /\ \A k \in 1..n : Partitions[k] \in S
    BY <2>1
  <2>3. QED BY <2>2 DEF S
<1> HIDE DEF n
<1>2. PICK h : /\ h[0] = <<>> /\ CollectDisks(Partitions) = h[n]
               /\ \A k \in 1..n : h[k] = DiskStep(h[k - 1], Partitions[k])
  BY <1>1, DiskLoop
<1> DEFINE P == {k \in 0..n : Mounts(h[k])}
<1>3. 0 \in P
  <2>1. Len(<<>>) = 0 /\ <<>> \in Seq([mount : STRING, total : Nat])
    OBVIOUS
  <2>2. Mounts(<<>>)
    BY <2>1 DEF Mounts
  <2>3. QED BY <1>1, <1>2, <2>2
<1>4. ASSUME NEW k \in 0..n - 1, k \in P PROVE k + 1 \in P
  <2>1. PICK i \in 1..n : i = k + 1
    BY <1>1
  <2>2. i - 1 = k /\ Mounts(h[k])
    BY <1>1, <1>4, <2>1
  <2> DEFINE old == h[k]
             p == Partitions[i]
  <2>3. h[i] = DiskStep(old, p)
    BY <1>2, <2>2
  <2>4. p \in [mount : STRING, total : Nat] /\ Mounts(old)
    BY <1>1, <2>2
  <2> HIDE DEF old, p
  <2> DEFINE skip == p.total = 0 \/ \E j \in 1..Len(old) : old[j].mount = p.mount
  <2>5. ASSUME skip PROVE Mounts(h[i])
    BY <2>3, <2>4, <2>5 DEF DiskStep
  <2>6. ASSUME ~skip PROVE Mounts(h[i])
    <3>1. h[i] = Append(old, p)
      BY <2>3, <2>6 DEF DiskStep
    <3>2. /\ Append(old, p) \in Seq([mount : STRING, total : Nat]) /\ Len(old) \in Nat
          /\ Len(Append(old, p)) = Len(old) + 1 /\ Append(old, p)[Len(old) + 1] = p
          /\ \A j \in 1..Len(old) : Append(old, p)[j] = old[j]
      BY <2>4 DEF Mounts
    <3>3. \A j \in 1..Len(old) + 1 : j = Len(old) + 1 \/ j \in 1..Len(old)
      BY <3>2
    <3>4. \A j \in 1..Len(old) : old[j].mount # p.mount
      BY <2>6
    <3>5. \A j, l \in 1..Len(old) : j # l => old[j].mount # old[l].mount
      BY <2>4 DEF Mounts
    <3>6. ASSUME NEW j \in 1..Len(old) + 1, NEW l \in 1..Len(old) + 1, j # l
          PROVE  Append(old, p)[j].mount # Append(old, p)[l].mount
      BY <3>2, <3>3, <3>4, <3>5, <3>6
    <3>7. Mounts(Append(old, p))
      BY <3>2, <3>6 DEF Mounts
    <3>8. QED BY <3>1, <3>7
  <2>7. Mounts(h[i])
    BY <2>5, <2>6
  <2>8. QED BY <1>1, <2>1, <2>7
<1> HIDE DEF P
<1>5. \A k \in 0..n : k \in P
  <2>1. \A k \in 0..n - 1 : k \in P => k + 1 \in P
    BY <1>4
  <2>2. QED BY <1>1, <1>3, <2>1, BoundedInduction
<1>6. Mounts(h[n])
  BY <1>1, <1>5 DEF P
<1>7. QED BY <1>2, <1>6 DEF Disks

\* How many cards a tool speaks for.
Spoken(tool, works, cards) == IF tool \in works \cap Installed THEN Len(cards) ELSE 0

\* The devices of a collection: the GPUs its tools speak for, then the NPUs.
LEMMA CollectedDevices ==
    ASSUME NEW works, NEW ts
    PROVE  LET devs == CollectAll(works, ts).devs
               gpus == Spoken("nvidia", works, Gpus)
               npus == Spoken("ascend", works, Npus)
           IN  /\ devs \in Seq(Devices) /\ gpus \in Nat /\ npus \in Nat /\ Len(devs) = gpus + npus
               /\ \A i \in 1..gpus : Tells(devs[i], "gpu", Gpus[i])
               /\ \A i \in 1..npus : Tells(devs[i + gpus], "npu", Npus[i])
<1> DEFINE gpus == Spoken("nvidia", works, Gpus)
           npus == Spoken("ascend", works, Npus)
           G == IF "nvidia" \in works THEN GpuStats ELSE <<>>
           N == IF "ascend" \in works THEN NpuStats ELSE <<>>
<1>1. CollectAll(works, ts).devs = G \o N
  <2> HIDE DEF G, N
  <2> QED BY DEF CollectAll, G, N
<1>2. \A kind, cards : Lists(<<>>, kind, cards, 0)
  BY DEF Lists
<1>3. Lists(G, "gpu", Gpus, gpus)
  <2>1. CASE "nvidia" \in works \cap Installed
    <3>1. G = parseNvidiaCSV(NvidiaOutput) /\ gpus = Len(Gpus)
      BY <2>1 DEF GpuStats, Spoken
    <3>2. QED BY <3>1, NvidiaListsGpus
  <2>2. CASE "nvidia" \notin works \cap Installed
    <3>1. G = <<>> /\ gpus = 0
      BY <2>2 DEF GpuStats, Spoken
    <3>2. QED BY <1>2, <3>1
  <2>3. QED BY <2>1, <2>2
<1>4. Lists(N, "npu", Npus, npus)
  <2>1. CASE "ascend" \in works \cap Installed
    <3>1. N = parseNpuSmi(NpuOutput) /\ npus = Len(Npus)
      BY <2>1 DEF NpuStats, Spoken
    <3>2. QED BY <3>1, NpuListsNpus
  <2>2. CASE "ascend" \notin works \cap Installed
    <3>1. N = <<>> /\ npus = 0
      BY <2>2 DEF NpuStats, Spoken
    <3>2. QED BY <1>2, <3>1
  <2>3. QED BY <2>1, <2>2
<1> HIDE DEF G, N, gpus, npus
<1>5. G \in Seq(Devices) /\ N \in Seq(Devices) /\ Len(G) = gpus /\ Len(N) = npus
  BY <1>3, <1>4 DEF Lists
<1>6. gpus \in Nat /\ npus \in Nat
  BY <1>5
<1>7. /\ G \o N \in Seq(Devices) /\ Len(G \o N) = Len(G) + Len(N)
      /\ \A i \in 1..Len(G) : (G \o N)[i] = G[i]
      /\ \A i \in 1..Len(N) : (G \o N)[i + Len(G)] = N[i]
  <2>1. G \in Seq(Devices) /\ N \in Seq(Devices)
    BY <1>5
  <2>2. QED BY <2>1, Concatenated
<1>8. \A i \in 1..gpus : Tells((G \o N)[i], "gpu", Gpus[i])
  BY <1>3, <1>5, <1>7 DEF Lists
<1>9. \A i \in 1..npus : Tells((G \o N)[i + gpus], "npu", Npus[i])
  BY <1>4, <1>5, <1>7 DEF Lists
<1>10. Len(G \o N) = gpus + npus
  BY <1>5, <1>7
<1>11. QED BY <1>1, <1>6, <1>7, <1>8, <1>9, <1>10 DEF gpus, npus

\* Where a device of a collection comes from.
LEMMA DeviceOrigin ==
    ASSUME NEW works, NEW ts, NEW i \in 1..Len(CollectAll(works, ts).devs)
    PROVE  LET d == CollectAll(works, ts).devs[i]
               gpus == Spoken("nvidia", works, Gpus)
           IN  \/ i \in 1..Len(Gpus) /\ i <= gpus /\ "nvidia" \in works \cap Installed /\ Tells(d, "gpu", Gpus[i])
               \/ /\ i - gpus \in 1..Len(Npus) /\ i > gpus
                  /\ "ascend" \in works \cap Installed /\ Tells(d, "npu", Npus[i - gpus])
<1> DEFINE devs == CollectAll(works, ts).devs
           gpus == Spoken("nvidia", works, Gpus)
           npus == Spoken("ascend", works, Npus)
<1>1. /\ gpus \in Nat /\ npus \in Nat /\ Len(devs) = gpus + npus
      /\ \A j \in 1..gpus : Tells(devs[j], "gpu", Gpus[j])
      /\ \A j \in 1..npus : Tells(devs[j + gpus], "npu", Npus[j])
  BY CollectedDevices
<1>2. gpus > 0 => "nvidia" \in works \cap Installed /\ gpus = Len(Gpus)
  BY DEF Spoken
<1>3. npus > 0 => "ascend" \in works \cap Installed /\ npus = Len(Npus)
  BY DEF Spoken
<1> HIDE DEF devs, gpus, npus
<1>4. i \in 1..Len(devs)
  BY DEF devs
<1>5. CASE i <= gpus
  <2>1. i \in 1..gpus /\ gpus > 0
    BY <1>1, <1>4, <1>5
  <2>2. QED BY <1>1, <1>2, <2>1 DEF devs, gpus
<1>6. CASE i > gpus
  <2>1. i - gpus \in 1..npus /\ npus > 0 /\ (i - gpus) + gpus = i
    BY <1>1, <1>4, <1>6
  <2>2. Tells(devs[(i - gpus) + gpus], "npu", Npus[i - gpus])
    BY <1>1, <2>1
  <2>3. QED BY <1>3, <1>6, <2>1, <2>2 DEF devs, gpus
<1>7. QED BY <1>1, <1>4, <1>5, <1>6

\* Kind and index tell two devices of a collection apart, but for the chips of
\* one NPU.
LEMMA DevicesDiffer ==
    ASSUME NEW works, NEW ts, NEW i \in 1..Len(CollectAll(works, ts).devs),
           NEW j \in 1..Len(CollectAll(works, ts).devs), i # j,
           CollectAll(works, ts).devs[i].kind = CollectAll(works, ts).devs[j].kind,
           CollectAll(works, ts).devs[i].index = CollectAll(works, ts).devs[j].index
    PROVE  SharesItsIndex(CollectAll(works, ts).devs[i])
<1> DEFINE d == CollectAll(works, ts).devs[i]
           e == CollectAll(works, ts).devs[j]
           gpus == Spoken("nvidia", works, Gpus)
<1>1. \/ i \in 1..Len(Gpus) /\ Tells(d, "gpu", Gpus[i])
      \/ i - gpus \in 1..Len(Npus) /\ Tells(d, "npu", Npus[i - gpus])
  BY DeviceOrigin
<1>2. \/ j \in 1..Len(Gpus) /\ Tells(e, "gpu", Gpus[j])
      \/ j - gpus \in 1..Len(Npus) /\ Tells(e, "npu", Npus[j - gpus])
  BY DeviceOrigin
<1>3. gpus \in Nat /\ i \in Nat /\ j \in Nat
  BY CollectedDevices
<1>4. d.kind = e.kind /\ d.index = e.index
  OBVIOUS
<1> HIDE DEF d, e, gpus
<1>5. \A k, l \in 1..Len(Gpus) : k # l => Gpus[k].index # Gpus[l].index
  BY CollectorAssumption
<1>6. d.kind # "gpu"
  <2> SUFFICES ASSUME d.kind = "gpu" PROVE FALSE
    OBVIOUS
  <2>1. i \in 1..Len(Gpus) /\ d.index = Gpus[i].index
    BY <1>1 DEF Tells
  <2>2. j \in 1..Len(Gpus) /\ e.index = Gpus[j].index
    BY <1>2, <1>4 DEF Tells
  <2>3. QED BY <1>4, <1>5, <2>1, <2>2
<1>7. i - gpus \in 1..Len(Npus) /\ d.index = Npus[i - gpus].index /\ d.kind = "npu"
  BY <1>1, <1>6 DEF Tells
<1>8. j - gpus \in 1..Len(Npus) /\ e.index = Npus[j - gpus].index
  BY <1>2, <1>4, <1>6 DEF Tells
<1>9. i - gpus # j - gpus
  BY <1>3
<1>10. SharesItsIndex(d)
  BY <1>4, <1>7, <1>8, <1>9 DEF SharesItsIndex
<1>11. QED BY <1>10 DEF d

\* What is compared of a device, and of a card.
Key(d) == [kind |-> d.kind, index |-> d.index, total |-> d.total]
CardKey(kind, card) == [kind |-> kind, index |-> card.index, total |-> card.total * MiB]

KeysOf(kind, cards) == {CardKey(kind, cards[i]) : i \in 1..Len(cards)}

\* The cards a tool speaks for, as Hardware lists them.
Listed(tool, works, kind, cards) == IF tool \in works \cap Installed THEN CardsOf(kind, cards) ELSE <<>>

LEMMA CardsListed ==
    ASSUME NEW tool, NEW works, NEW kind, NEW cards, Len(cards) \in Nat
    PROVE  /\ Listed(tool, works, kind, cards) \in Seq(KeysOf(kind, cards))
           /\ Len(Listed(tool, works, kind, cards)) = Spoken(tool, works, cards)
           /\ \A i \in 1..Spoken(tool, works, cards) :
                 Listed(tool, works, kind, cards)[i] = CardKey(kind, cards[i])
<1> DEFINE S == KeysOf(kind, cards)
           c == CardsOf(kind, cards)
<1>1. c = [i \in 1..Len(cards) |-> CardKey(kind, cards[i])]
  BY DEF CardsOf, CardKey
<1>2. c \in Seq(S) /\ Len(c) = Len(cards) /\ \A i \in 1..Len(cards) : c[i] = CardKey(kind, cards[i])
  <2> HIDE DEF c
  <2>1. DOMAIN c = 1..Len(cards) /\ \A i \in 1..Len(cards) : c[i] = CardKey(kind, cards[i])
    BY <1>1
  <2>2. c \in [1..Len(cards) -> S]
    BY <1>1 DEF KeysOf
  <2> HIDE DEF S
  <2>3. QED BY <2>1, <2>2
<1> HIDE DEF c, S
<1>3. CASE tool \in works \cap Installed
  BY <1>2, <1>3 DEF Listed, Spoken, S, c
<1>4. CASE tool \notin works \cap Installed
  <2>1. Spoken(tool, works, cards) = 0 /\ Listed(tool, works, kind, cards) = <<>>
    BY <1>4 DEF Spoken, Listed
  <2>2. QED BY <1>4, <2>1
<1>5. QED BY <1>3, <1>4

\* The devices of a collection are its hardware, each once.
LEMMA DevicesAreHardware ==
    ASSUME NEW works, NEW ts
    PROVE  LET devs == CollectAll(works, ts).devs
           IN  /\ Len(devs) \in Nat /\ Len(Hardware(works)) = Len(devs)
               /\ Hardware(works) = [i \in 1..Len(devs) |-> Key(devs[i])]
<1> DEFINE devs == CollectAll(works, ts).devs
           gpus == Spoken("nvidia", works, Gpus)
           npus == Spoken("ascend", works, Npus)
           HG == Listed("nvidia", works, "gpu", Gpus)
           HN == Listed("ascend", works, "npu", Npus)
           SG == KeysOf("gpu", Gpus)
           SN == KeysOf("npu", Npus)
           S == SG \cup SN
           n == Len(devs)
<1>1. Hardware(works) = HG \o HN
  BY DEF Hardware, Listed
<1>2. /\ gpus \in Nat /\ npus \in Nat /\ n = gpus + npus /\ n \in Nat
      /\ \A i \in 1..gpus : Tells(devs[i], "gpu", Gpus[i])
      /\ \A i \in 1..npus : Tells(devs[i + gpus], "npu", Npus[i])
  BY CollectedDevices
<1>3. ASSUME NEW d, NEW kind, NEW card, Tells(d, kind, card)
      PROVE  Key(d) = CardKey(kind, card)
  BY <1>3 DEF Key, CardKey, Tells
<1>4. Len(Gpus) \in Nat /\ Len(Npus) \in Nat
  BY CollectorAssumption
<1>5. HG \in Seq(SG) /\ Len(HG) = gpus /\ \A i \in 1..gpus : HG[i] = CardKey("gpu", Gpus[i])
  BY <1>4, CardsListed
<1>6. HN \in Seq(SN) /\ Len(HN) = npus /\ \A i \in 1..npus : HN[i] = CardKey("npu", Npus[i])
  BY <1>4, CardsListed
<1> HIDE DEF devs, gpus, npus, HG, HN, SG, SN, n
<1>7. HG \in Seq(S) /\ HN \in Seq(S)
  BY <1>5, <1>6
<1> HIDE DEF S
<1>8. /\ HG \o HN \in Seq(S) /\ Len(HG \o HN) = n /\ DOMAIN (HG \o HN) = 1..n
      /\ \A i \in 1..gpus : (HG \o HN)[i] = HG[i]
      /\ \A i \in 1..npus : (HG \o HN)[i + gpus] = HN[i]
  <2>1. /\ HG \o HN \in Seq(S) /\ Len(HG \o HN) = Len(HG) + Len(HN) /\ DOMAIN (HG \o HN) = 1..Len(HG) + Len(HN)
        /\ \A i \in 1..Len(HG) : (HG \o HN)[i] = HG[i]
        /\ \A i \in 1..Len(HN) : (HG \o HN)[i + Len(HG)] = HN[i]
    BY <1>7, Concatenated
  <2>2. QED BY <1>2, <1>5, <1>6, <2>1
<1>9. ASSUME NEW i \in 1..n PROVE (HG \o HN)[i] = Key(devs[i])
  <2>1. CASE i <= gpus
    <3>1. i \in 1..gpus
      BY <1>2, <2>1
    <3>2. Key(devs[i]) = CardKey("gpu", Gpus[i])
      BY <1>2, <1>3, <3>1
    <3>3. QED BY <1>5, <1>8, <3>1, <3>2
  <2>2. CASE i > gpus
    <3>1. PICK k \in 1..npus : i = k + gpus
      <4>1. i - gpus \in 1..npus /\ i = (i - gpus) + gpus
        BY <1>2, <2>2
      <4>2. QED BY <4>1
    <3>2. Key(devs[k + gpus]) = CardKey("npu", Npus[k])
      BY <1>2, <1>3
    <3>3. (HG \o HN)[k + gpus] = CardKey("npu", Npus[k])
      BY <1>6, <1>8
    <3>4. QED BY <3>1, <3>2, <3>3
  <2>3. i <= gpus \/ i > gpus
    BY <1>2
  <2>4. QED BY <2>1, <2>2, <2>3, Zenon
<1> DEFINE hw == HG \o HN
<1>10. hw = [i \in 1..n |-> Key(devs[i])]
  <2>1. hw \in Seq(S) /\ DOMAIN hw = 1..n /\ \A i \in 1..n : hw[i] = Key(devs[i])
    BY <1>8, <1>9
  <2> HIDE DEF hw
  <2>2. hw = [i \in 1..n |-> hw[i]]
    BY <2>1
  <2>3. QED BY <2>1, <2>2
<1>11. QED BY <1>1, <1>2, <1>8, <1>10 DEF devs, n

\* What the node table keeps of a snapshot.
LEMMA InventoryFacts ==
    ASSUME NEW works, NEW ts
    PROVE  LET snap == CollectAll(works, ts)
               inv == Inventory(snap)
           IN  /\ Len(snap.devs) \in Nat /\ DOMAIN snap.devs = 1..Len(snap.devs)
               /\ DOMAIN inv.devs = 1..Len(snap.devs) /\ Len(inv.devs) = Len(snap.devs)
               /\ \A i \in 1..Len(snap.devs) :
                     /\ inv.devs[i].kind = snap.devs[i].kind /\ inv.devs[i].index = snap.devs[i].index
                     /\ inv.devs[i].total = snap.devs[i].total
               /\ inv.mem = IF "mem" \in works THEN MemTotal ELSE 0
<1> DEFINE snap == CollectAll(works, ts)
           devs == snap.devs
           one(d) == [kind |-> d.kind, vendor |-> d.vendor, index |-> d.index, uuid |-> d.uuid,
                      name |-> d.name, total |-> d.total]
           list == [i \in 1..Len(devs) |-> one(devs[i])]
<1>1. devs \in Seq(Devices)
  BY CollectedDevices
<1>2. snap.mem = IF "mem" \in works THEN MemTotal ELSE NA
  BY DEF CollectAll, MemStats
<1> HIDE DEF snap
<1>3. Inventory(snap).devs = list /\ Inventory(snap).mem = IF snap.mem = NA THEN 0 ELSE snap.mem
  BY DEF Inventory
<1>4. Inventory(snap).mem = IF "mem" \in works THEN MemTotal ELSE 0
  BY <1>2, <1>3, CollectorAssumption DEF NA
<1> HIDE DEF devs
<1>5. Len(devs) \in Nat /\ DOMAIN devs = 1..Len(devs)
  BY <1>1
<1>6. DOMAIN list = 1..Len(devs) /\ Len(list) = Len(devs)
  <2> HIDE DEF one
  <2> QED BY <1>5
<1>7. ASSUME NEW i \in 1..Len(devs)
      PROVE list[i].kind = devs[i].kind /\ list[i].index = devs[i].index /\ list[i].total = devs[i].total
  OBVIOUS
<1> HIDE DEF list
<1>8. QED BY <1>3, <1>4, <1>5, <1>6, <1>7 DEF devs, snap

-----------------------------------------------------------------------------
(* Reports *)

\* A snapshot says when it was taken, and is not None.
LEMMA SnapFacts ==
    ASSUME NEW works \in Collections, NEW ts \in 0..MaxStamp
    PROVE  /\ CollectAll(works, ts).ts = ts
           /\ CollectAll(works, ts) \in Snapshots /\ CollectAll(works, ts) # None
<1>1. CollectAll(works, ts).ts = ts
  BY DEF CollectAll
<1>2. CollectAll(works, ts) \in Snapshots
  BY DEF Snapshots
<1>3. QED BY <1>1, <1>2, NoneAssumption

\* The time of a snapshot is a number.
LEMMA SnapTime ==
    ASSUME NEW snap \in Snapshots
    PROVE  snap.ts \in 0..MaxStamp
<1>1. PICK works \in Collections, ts \in 0..MaxStamp : snap = CollectAll(works, ts)
  BY DEF Snapshots
<1>2. QED BY <1>1, SnapFacts

\* A row holds the inventory of one collection.
LEMMA RowFacts ==
    ASSUME NEW r \in NodeRows
    PROVE  /\ r.id \in Ids /\ r.works \in Collections /\ r.ts \in 0..MaxStamp /\ r # None
           /\ r.inv = Inventory(CollectAll(r.works, r.ts))
  BY NoneAssumption DEF NodeRows

\* What a registration writes is such a row.
LEMMA NewRowFacts ==
    ASSUME NEW id \in Ids, NEW works \in Collections, NEW ts \in 0..MaxStamp, NEW r,
           r = [id |-> id, inv |-> Inventory(CollectAll(works, ts)), works |-> works, ts |-> ts]
    PROVE  r \in NodeRows /\ r.id = id /\ r.works = works /\ r.ts = ts
<1>1. Inventory(CollectAll(works, ts)) \in {Inventory(snap) : snap \in Snapshots}
  BY SnapFacts
<1>2. QED BY <1>1 DEF NodeRows

Agents == [pc : {"off", "register", "report", "waiting", "resting"},
           id : Ids \cup {None}, works : Collections \cup {None}]

Handlers == [id : Ids, works : Collections, snap : Snapshots, step : {"heartbeat", "put"}, mine : BOOLEAN]

\* Rows, snapshots and calls are each of one collection.
ReportTypes ==
    /\ row \in NodeRows \cup {None}
    /\ snaps \in [Ids -> Snapshots \cup {None}]
    /\ agent \in Agents
    /\ agent.pc \in {"report", "waiting", "resting"} => agent.id \in Ids
    /\ agent.pc = "register" => agent.works \in Collections
    /\ handlers \subseteq Handlers
    /\ \A h \in handlers : h.snap.ts \in 0..MaxStamp /\ h.snap = CollectAll(h.works, h.snap.ts)
    /\ stamp \in 0..MaxStamp /\ acked \in Nat /\ breaks \in Nat /\ losses \in 0..MaxLosses

\* The agent waits for at most one call.
OwnReport == \A g, h \in handlers : g.mine /\ h.mine => g = h /\ agent.pc = "waiting"

\* A process that is down has nobody inside and nothing to answer for.
DownIsShut == phase = "down" => doors = {} /\ handlers = {} /\ viewer = None /\ acked = 0

\* While no connection breaks, the agent has one call at a time and waits for it.
OneCall ==
    /\ \A h \in handlers : h.mine /\ agent.pc = "waiting" /\ h.id = agent.id /\ h.snap.ts = stamp
    /\ \A g, h \in handlers : g = h

\* A call that still has to keep its snapshot has written the row.
HalfApplied ==
    \A h \in handlers : h.step = "put" =>
        row # None /\ row.id = h.id /\ row.inv = Inventory(h.snap) /\ row.ts = h.snap.ts

\* What was acknowledged is in the row and in the snapshot of the agent's id.
AckedIsKept ==
    /\ agent.pc \in {"off", "register"} => acked = 0
    /\ acked > 0 => /\ row # None /\ row.id = agent.id /\ row.ts >= acked
                    /\ snaps[row.id] # None /\ snaps[row.id].ts >= acked

\* Nothing is newer than the last collection.
NotFromTheFuture ==
    /\ \A id \in Ids : snaps[id] # None => snaps[id].ts <= stamp
    /\ row # None => row.ts <= stamp
    /\ acked <= stamp

\* A viewer finds a snapshot at least as new as what it was owed.
ViewerIsServed ==
    viewer # None => /\ viewer.id \in Ids /\ viewer.owed \in Nat
                     /\ viewer.owed > 0 => snaps[viewer.id] # None /\ snaps[viewer.id].ts >= viewer.owed

\* Between reports the row and the snapshot are of the same report.
RowMatchesSnap ==
    row # None /\ row.ts > 0 /\ snaps[row.id] # None /\ (\A h \in handlers : h.step # "put")
        => row.inv = Inventory(snaps[row.id])

OneReport == breaks = 0 => OneCall /\ HalfApplied /\ AckedIsKept /\ NotFromTheFuture
                           /\ ViewerIsServed /\ RowMatchesSnap

ReportInv == ReportTypes /\ OwnReport /\ DownIsShut /\ OneReport

\* Nothing was registered, reported or read at first.
LEMMA ReportInvInit == PlaneInit => ReportInv
<1> SUFFICES ASSUME PlaneInit PROVE ReportInv
  OBVIOUS
<1>1. /\ row = None /\ snaps = [id \in Ids |-> None] /\ agent = Agent("off", None) /\ handlers = {}
      /\ viewer = None /\ stamp = 0 /\ acked = 0 /\ breaks = 0 /\ losses = 0 /\ doors = {}
  BY DEF PlaneInit, LifeInit, ReportInit
<1>2. agent \in Agents /\ agent.pc = "off"
  BY <1>1 DEF Agent, Agents
<1>3. MaxStamp \in Nat /\ MaxLosses \in Nat
  BY ReportingAssumption
<1>4. ReportTypes
  BY <1>1, <1>2, <1>3 DEF ReportTypes
<1>5. DownIsShut /\ OwnReport
  BY <1>1 DEF DownIsShut, OwnReport
<1>6. OneReport
  BY <1>1, <1>2 DEF OneReport, OneCall, HalfApplied, AckedIsKept, NotFromTheFuture, ViewerIsServed,
                    RowMatchesSnap
<1>7. QED BY <1>4, <1>5, <1>6 DEF ReportInv

\* A row that a registration writes is of time 0 and keeps the id of the row before.
LEMMA UpsertFacts ==
    ASSUME ReportTypes, NEW works \in Collections, Upsert(works)
    PROVE  row' \in NodeRows /\ row' # None /\ row'.ts = 0 /\ row'.id \in Ids
<1> DEFINE id == IF row = None THEN losses + 1 ELSE row.id
<1>1. id \in Ids
  <2>1. CASE row = None
    BY <2>1, ReportingAssumption DEF Ids, ReportTypes
  <2>2. CASE row # None
    BY <2>2, RowFacts DEF ReportTypes
  <2>3. QED BY <2>1, <2>2
<1>2. row' = [id |-> id, inv |-> Inventory(CollectAll(works, 0)), works |-> works, ts |-> 0]
  BY DEF Upsert, ResourcesFromSnapshot
<1>3. 0 \in 0..MaxStamp
  BY ReportingAssumption
<1> HIDE DEF id
<1>4. QED BY <1>1, <1>2, <1>3, NewRowFacts, RowFacts

\* The agent's moves keep the shape of its record.
LEMMA AgentFacts ==
    ASSUME NEW pc \in {"off", "register", "report", "waiting", "resting"}, NEW id \in Ids \cup {None}
    PROVE  Agent(pc, id) \in Agents /\ Agent(pc, id).pc = pc /\ Agent(pc, id).id = id
  BY DEF Agent, Agents

\* So do those that only change where it is.
LEMMA AgentMoves ==
    ASSUME NEW a \in Agents, NEW pc \in {"report", "resting", "register"}
    PROVE  /\ [a EXCEPT !.pc = pc] \in Agents /\ [a EXCEPT !.pc = pc].pc = pc
           /\ [a EXCEPT !.pc = pc].id = a.id
  BY DEF Agents

\* A step that touches neither rows, snapshots and calls nor what was
\* acknowledged keeps the invariant if it keeps the agent's record in order.
LEMMA AgentAlone ==
    ASSUME ReportInv, UNCHANGED <<row, snaps, handlers, stamp, acked, breaks, losses>>,
           agent' \in Agents,
           \A h \in handlers : h.mine => agent' = agent,
           agent'.pc \in {"report", "waiting", "resting"} => agent'.id \in Ids,
           agent'.pc = "register" => agent'.works \in Collections,
           breaks = 0 => /\ handlers # {} => agent' = agent
                         /\ agent'.pc \in {"off", "register"} => acked = 0
                         /\ acked > 0 => agent'.id = agent.id,
           UNCHANGED viewer \/ ViewerIsServed',
           phase' = "down" => phase = "down" /\ doors' = doors /\ viewer' = viewer
    PROVE  ReportInv'
<1> USE DEF ReportInv
<1>1. ReportTypes' /\ OwnReport'
  BY DEF ReportTypes, OwnReport
<1>2. DownIsShut'
  BY DEF DownIsShut
<1>3. ASSUME breaks' = 0 PROVE OneCall' /\ HalfApplied' /\ AckedIsKept'
  BY <1>3 DEF OneReport, OneCall, HalfApplied, AckedIsKept
<1>4. ASSUME breaks' = 0 PROVE NotFromTheFuture' /\ ViewerIsServed' /\ RowMatchesSnap'
  BY <1>4 DEF OneReport, NotFromTheFuture, ViewerIsServed, RowMatchesSnap
<1>5. QED BY <1>1, <1>2, <1>3, <1>4 DEF ReportInv, OneReport

\* A registration, answered or not, keeps the invariant: what was acknowledged
\* before the agent had to register again is gone with the process that had
\* acknowledged it.
LEMMA RegisterStep ==
    ASSUME ReportInv, agent.pc = "register", Upsert(agent.works), agent' \in Agents,
           \/ agent' = agent
           \/ agent'.pc \in {"report", "off"} /\ (agent'.pc = "report" => agent'.id \in Ids),
           UNCHANGED <<snaps, handlers, viewer, stamp, acked, breaks, losses, lifeVars>>
    PROVE  ReportInv'
<1> USE DEF ReportInv
<1>1. agent.works \in Collections
  BY DEF ReportTypes
<1>2. row' \in NodeRows /\ row' # None /\ row'.ts = 0 /\ row'.id \in Ids
  BY <1>1, UpsertFacts
<1>3. ReportTypes' /\ OwnReport'
  BY <1>2 DEF ReportTypes, OwnReport
<1>4. DownIsShut'
  BY DEF DownIsShut, lifeVars
<1>5. ASSUME breaks' = 0
      PROVE  OneCall' /\ HalfApplied' /\ AckedIsKept' /\ NotFromTheFuture' /\ ViewerIsServed' /\ RowMatchesSnap'
  <2>1. breaks = 0 /\ acked = 0 /\ handlers = {}
    BY <1>5 DEF OneReport, OneCall, AckedIsKept
  <2>2. OneCall' /\ HalfApplied' /\ AckedIsKept'
    BY <2>1 DEF OneCall, HalfApplied, AckedIsKept
  <2>3. NotFromTheFuture'
    <3>1. stamp \in Nat
      BY DEF ReportTypes
    <3>2. QED BY <1>2, <2>1, <3>1 DEF OneReport, NotFromTheFuture
  <2>4. ViewerIsServed' /\ RowMatchesSnap'
    BY <1>2, <2>1 DEF OneReport, ViewerIsServed, RowMatchesSnap
  <2>5. QED BY <2>2, <2>3, <2>4
<1>6. QED BY <1>3, <1>4, <1>5 DEF OneReport

\* A report is collected and its call begins, unless nobody answers.
LEMMA ReportStep ==
    ASSUME ReportInv, Report, UNCHANGED lifeVars
    PROVE  ReportInv'
<1> USE DEF ReportInv
<1>1. /\ agent.pc = "report" /\ stamp' = Later
      /\ UNCHANGED <<row, snaps, viewer, acked, breaks, losses, phase, doors>>
  BY DEF Report, boundVars, lifeVars
<1>2. stamp' \in 0..MaxStamp /\ stamp <= stamp' /\ stamp \in Nat
  BY <1>1, ReportingAssumption DEF Later, ReportTypes
<1>3. agent.id \in Ids /\ agent \in Agents
  BY <1>1 DEF ReportTypes
<1>4. (breaks = 0 => handlers = {}) /\ \A h \in handlers : ~h.mine
  BY <1>1 DEF OneReport, OneCall, OwnReport
<1>5. NotFromTheFuture \/ breaks # 0
  BY DEF OneReport
<1>6. breaks = 0 => NotFromTheFuture' /\ ViewerIsServed'
  <2>1. breaks = 0 => NotFromTheFuture'
    <3>1. ASSUME breaks = 0, NEW id \in Ids, snaps[id] # None PROVE snaps[id].ts <= stamp'
      <4>1. snaps[id] \in Snapshots /\ snaps[id].ts <= stamp
        BY <1>5, <3>1 DEF NotFromTheFuture, ReportTypes
      <4>2. snaps[id].ts \in Nat
        BY <4>1, SnapTime
      <4>3. QED BY <1>2, <4>1, <4>2
    <3>2. ASSUME breaks = 0, row # None PROVE row.ts <= stamp'
      <4>1. row.ts \in Nat /\ row.ts <= stamp
        BY <1>5, <3>2, RowFacts DEF NotFromTheFuture, ReportTypes
      <4>2. QED BY <1>2, <4>1
    <3>3. breaks = 0 => acked <= stamp'
      BY <1>2, <1>5 DEF NotFromTheFuture, ReportTypes
    <3>4. QED BY <1>1, <3>1, <3>2, <3>3 DEF NotFromTheFuture
  <2>2. QED BY <1>1, <2>1 DEF OneReport, ViewerIsServed
<1>7. CASE Reaches
  <2>1. PICK works \in Collections :
          /\ agent' = Agent("waiting", agent.id)
          /\ handlers' = handlers \cup {[id |-> agent.id, works |-> works, snap |-> CollectAll(works, stamp'),
                                         step |-> "heartbeat", mine |-> TRUE]}
    BY <1>7 DEF Report
  <2> DEFINE new == [id |-> agent.id, works |-> works, snap |-> CollectAll(works, stamp'),
                     step |-> "heartbeat", mine |-> TRUE]
  <2>2. new.id = agent.id /\ new.works = works /\ new.snap = CollectAll(works, stamp')
        /\ new.step = "heartbeat" /\ new.mine
    OBVIOUS
  <2>3. CollectAll(works, stamp').ts = stamp' /\ CollectAll(works, stamp') \in Snapshots
    BY <1>2, SnapFacts
  <2>4. new \in Handlers
    BY <1>3, <2>3 DEF Handlers
  <2>5. handlers' = handlers \cup {new}
    BY <2>1
  <2> HIDE DEF new
  <2>6. agent' \in Agents /\ agent'.pc = "waiting" /\ agent'.id = agent.id
    BY <1>3, <2>1, AgentFacts
  <2>7. ReportTypes' /\ OwnReport'
    BY <1>1, <1>2, <1>3, <1>4, <2>2, <2>3, <2>4, <2>5, <2>6 DEF ReportTypes, OwnReport
  <2>8. DownIsShut'
    BY <1>1, <1>7 DEF DownIsShut, Reaches
  <2>9. ASSUME breaks' = 0 PROVE OneCall' /\ HalfApplied' /\ AckedIsKept' /\ RowMatchesSnap'
    <3>1. handlers' = {new} /\ breaks = 0
      BY <1>1, <1>4, <2>5, <2>9
    <3>2. OneCall' /\ HalfApplied'
      BY <2>2, <2>3, <2>6, <3>1 DEF OneCall, HalfApplied
    <3>3. AckedIsKept' /\ RowMatchesSnap'
      BY <1>1, <1>4, <2>6, <3>1 DEF OneReport, AckedIsKept, RowMatchesSnap
    <3>4. QED BY <3>2, <3>3
  <2>10. QED BY <1>1, <1>6, <2>7, <2>8, <2>9 DEF OneReport
<1>8. CASE ~Reaches
  <2>1. agent' = Agent("resting", agent.id) /\ handlers' = handlers
    BY <1>8 DEF Report
  <2>2. agent' \in Agents /\ agent'.pc = "resting" /\ agent'.id = agent.id
    BY <1>3, <2>1, AgentFacts
  <2>3. ReportTypes' /\ OwnReport'
    BY <1>1, <1>2, <1>3, <1>4, <2>1, <2>2 DEF ReportTypes, OwnReport
  <2>4. DownIsShut'
    BY <1>1, <2>1 DEF DownIsShut
  <2>5. ASSUME breaks' = 0 PROVE OneCall' /\ HalfApplied' /\ AckedIsKept' /\ RowMatchesSnap'
    BY <1>1, <1>4, <2>1, <2>2, <2>5 DEF OneReport, OneCall, HalfApplied, AckedIsKept, RowMatchesSnap
  <2>6. QED BY <1>1, <1>6, <2>3, <2>4, <2>5 DEF OneReport
<1>9. QED BY <1>7, <1>8

\* The first half of a report: the row.
LEMMA HeartbeatStep ==
    ASSUME ReportInv, NEW h \in handlers, Heartbeat(h), UNCHANGED lifeVars
    PROVE  ReportInv'
<1> USE DEF ReportInv
<1> DEFINE g == [h EXCEPT !.step = "put"]
<1>1. /\ h \in Handlers /\ h.step = "heartbeat" /\ h.snap.ts \in 0..MaxStamp
      /\ h.works \in Collections /\ h.snap = CollectAll(h.works, h.snap.ts)
  BY DEF ReportTypes, Handlers, Heartbeat
<1>2. g \in Handlers /\ g.id = h.id /\ g.works = h.works /\ g.snap = h.snap /\ g.mine = h.mine /\ g.step = "put"
  BY <1>1 DEF Handlers
<1>3. /\ handlers' = (handlers \ {h}) \cup {g} /\ row # None /\ row.id = h.id
      /\ UNCHANGED <<snaps, agent, viewer, stamp, acked, breaks, losses, phase, doors>>
      /\ row' = [row EXCEPT !.inv = Inventory(h.snap), !.works = h.works, !.ts = h.snap.ts]
  BY DEF Heartbeat, Known, boundVars, lifeVars
<1> HIDE DEF g
<1>4. row \in NodeRows
  BY <1>3 DEF ReportTypes
<1>5. row' = [row EXCEPT !.inv = Inventory(CollectAll(h.works, h.snap.ts)), !.works = h.works, !.ts = h.snap.ts]
  BY <1>1, <1>3
<1>6. row' \in NodeRows /\ row'.id = h.id /\ row'.works = h.works /\ row'.ts = h.snap.ts
  <2>1. h.works \in Collections /\ h.snap.ts \in 0..MaxStamp
    BY <1>1
  <2>2. Inventory(CollectAll(h.works, h.snap.ts)) \in {Inventory(snap) : snap \in Snapshots}
    BY <2>1, SnapFacts
  <2>3. row' \in NodeRows /\ row'.id = row.id /\ row'.works = h.works /\ row'.ts = h.snap.ts
    BY ONLY <1>4, <1>5, <2>1, <2>2 DEF NodeRows
  <2>4. QED BY ONLY <1>3, <2>3
<1>7. row' # None /\ row'.inv = Inventory(h.snap)
  BY ONLY <1>1, <1>6, RowFacts
<1>8. ReportTypes' /\ OwnReport'
  BY <1>1, <1>2, <1>3, <1>6 DEF ReportTypes, OwnReport
<1>9. DownIsShut'
  BY <1>3 DEF DownIsShut
<1>10. ASSUME breaks' = 0
       PROVE  OneCall' /\ HalfApplied' /\ AckedIsKept' /\ NotFromTheFuture' /\ ViewerIsServed' /\ RowMatchesSnap'
  <2>1. breaks = 0 /\ handlers = {h} /\ handlers' = {g}
    BY <1>3, <1>10 DEF OneReport, OneCall
  <2>2. h.id = agent.id /\ h.snap.ts = stamp /\ agent.pc = "waiting" /\ h.mine
    BY <2>1 DEF OneReport, OneCall
  <2>3. OneCall' /\ HalfApplied'
    BY <1>2, <1>3, <1>6, <1>7, <2>1, <2>2 DEF OneCall, HalfApplied
  <2>4. acked <= stamp /\ stamp <= stamp /\ stamp \in Nat
    BY <2>1 DEF OneReport, NotFromTheFuture, ReportTypes
  <2>5. AckedIsKept'
    BY <1>3, <1>6, <1>7, <2>1, <2>2, <2>4 DEF OneReport, AckedIsKept
  <2>6. NotFromTheFuture' /\ ViewerIsServed'
    BY <1>3, <1>6, <2>1, <2>2, <2>4 DEF OneReport, NotFromTheFuture, ViewerIsServed
  <2>7. RowMatchesSnap'
    BY <1>2, <2>1 DEF RowMatchesSnap
  <2>8. QED BY <2>3, <2>5, <2>6, <2>7
<1>11. QED BY <1>8, <1>9, <1>10 DEF OneReport

\* The second half: the snapshot, and the answer.
LEMMA PutStep ==
    ASSUME ReportInv, NEW h \in handlers, Put(h), UNCHANGED lifeVars
    PROVE  ReportInv'
<1> USE DEF ReportInv
<1>1. /\ h \in Handlers /\ h.step = "put" /\ h.snap.ts \in 0..MaxStamp /\ h.id \in Ids
      /\ h.works \in Collections /\ h.snap = CollectAll(h.works, h.snap.ts) /\ h.mine \in BOOLEAN
  BY DEF ReportTypes, Handlers, Put
<1>2. h.snap \in Snapshots /\ h.snap # None
  BY <1>1, SnapFacts
<1>3. /\ snaps' = [snaps EXCEPT ![h.id] = h.snap] /\ handlers' = handlers \ {h}
      /\ UNCHANGED <<row, viewer, stamp, breaks, losses, phase, doors>>
      /\ h.mine => agent' = [agent EXCEPT !.pc = "resting"] /\ acked' = h.snap.ts
      /\ ~h.mine => agent' = agent /\ acked' = acked
  BY DEF Put, boundVars, lifeVars
<1>4. /\ snaps' \in [Ids -> Snapshots \cup {None}] /\ snaps'[h.id] = h.snap
      /\ \A id \in Ids : id # h.id => snaps'[id] = snaps[id]
  BY <1>1, <1>2, <1>3 DEF ReportTypes
<1>5. /\ agent' \in Agents /\ agent'.id = agent.id /\ (h.mine => agent'.pc = "resting")
  BY <1>1, <1>3, AgentMoves DEF ReportTypes
<1>6. phase # "down"
  BY DEF DownIsShut
<1>7. ASSUME breaks' = 0
      PROVE  OneCall' /\ HalfApplied' /\ AckedIsKept' /\ NotFromTheFuture' /\ ViewerIsServed' /\ RowMatchesSnap'
  <2>1. breaks = 0 /\ handlers = {h} /\ handlers' = {}
    BY <1>3, <1>7 DEF OneReport, OneCall
  <2>2. h.id = agent.id /\ h.snap.ts = stamp /\ agent.pc = "waiting" /\ h.mine
    BY <2>1 DEF OneReport, OneCall
  <2>3. row # None /\ row.id = h.id /\ row.inv = Inventory(h.snap) /\ row.ts = h.snap.ts
    BY <1>1, <2>1 DEF OneReport, HalfApplied
  <2>4. OneCall' /\ HalfApplied'
    BY <2>1 DEF OneCall, HalfApplied
  <2>5. stamp \in Nat /\ stamp <= stamp /\ acked' = stamp /\ agent'.pc = "resting"
    BY <1>3, <1>5, <2>2 DEF ReportTypes
  <2>6. AckedIsKept'
    BY <1>2, <1>3, <1>4, <1>5, <2>2, <2>3, <2>5 DEF AckedIsKept
  <2>7. NotFromTheFuture'
    BY <1>3, <1>4, <2>1, <2>2, <2>5 DEF OneReport, NotFromTheFuture
  <2>8. ViewerIsServed'
    <3>1. ASSUME viewer # None, viewer.owed > 0, viewer.id = h.id PROVE h.snap.ts >= viewer.owed
      <4>1. viewer.id \in Ids /\ snaps[viewer.id] # None /\ snaps[viewer.id].ts >= viewer.owed
            /\ snaps[viewer.id].ts <= stamp /\ viewer.owed \in Nat
        BY <2>1, <3>1 DEF OneReport, ViewerIsServed, NotFromTheFuture
      <4>2. snaps[viewer.id].ts \in Nat
        BY <4>1, SnapTime DEF ReportTypes
      <4>3. QED BY <2>2, <2>5, <4>1, <4>2
    <3>2. QED BY <1>2, <1>3, <1>4, <2>1, <3>1 DEF OneReport, ViewerIsServed
  <2>9. RowMatchesSnap'
    BY <1>3, <1>4, <2>3 DEF RowMatchesSnap
  <2>10. QED BY <2>4, <2>6, <2>7, <2>8, <2>9
<1>8. ReportTypes' /\ OwnReport'
  <2>1. agent'.pc \in {"report", "waiting", "resting"} => agent'.id \in Ids
    BY <1>1, <1>3, <1>5 DEF ReportTypes, OwnReport
  <2>2. acked' \in Nat
    BY <1>1, <1>3 DEF ReportTypes
  <2>3. agent'.pc = "register" => agent'.works \in Collections
    BY <1>1, <1>3, <1>5 DEF ReportTypes
  <2>4. OwnReport'
    BY <1>1, <1>3 DEF OwnReport
  <2>5. QED BY <1>3, <1>4, <1>5, <2>1, <2>2, <2>3, <2>4 DEF ReportTypes
<1>9. DownIsShut'
  BY <1>3, <1>6 DEF DownIsShut
<1>10. QED BY <1>7, <1>8, <1>9 DEF OneReport

\* A call ends without having changed anything: the agent rests or registers again.
LEMMA CallEnds ==
    ASSUME ReportInv, NEW h \in handlers, handlers' = handlers \ {h}, h.step = "heartbeat",
           UNCHANGED <<row, snaps, viewer, stamp, acked, breaks, losses, lifeVars>>,
           ~h.mine => agent' = agent,
           agent' \in Agents, h.mine => agent'.id = agent.id,
           h.mine => \/ agent'.pc = "resting"
                     \/ agent'.pc = "register" /\ ~Known(h) /\ agent'.works \in Collections
    PROVE  ReportInv'
<1> USE DEF ReportInv
<1>1. h \in Handlers /\ h.mine \in BOOLEAN
  BY DEF ReportTypes, Handlers
<1>2. ReportTypes' /\ OwnReport'
  <2>1. agent'.pc \in {"report", "waiting", "resting"} => agent'.id \in Ids
    BY <1>1 DEF ReportTypes, OwnReport
  <2>2. agent'.pc = "register" => agent'.works \in Collections
    BY <1>1 DEF ReportTypes
  <2>3. OwnReport'
    BY <1>1 DEF OwnReport
  <2>4. QED BY <2>1, <2>2, <2>3 DEF ReportTypes
<1>3. DownIsShut'
  BY DEF DownIsShut, lifeVars
<1>4. ASSUME breaks' = 0
      PROVE  OneCall' /\ HalfApplied' /\ AckedIsKept' /\ NotFromTheFuture' /\ ViewerIsServed' /\ RowMatchesSnap'
  <2>1. breaks = 0 /\ handlers = {h} /\ handlers' = {}
    BY <1>4 DEF OneReport, OneCall
  <2>2. h.id = agent.id /\ h.mine /\ agent'.id = agent.id
    BY <2>1 DEF OneReport, OneCall
  <2>3. OneCall' /\ HalfApplied'
    BY <2>1 DEF OneCall, HalfApplied
  <2>4. AckedIsKept'
    <3>1. CASE agent'.pc = "resting"
      BY <2>1, <2>2, <3>1 DEF OneReport, AckedIsKept
    <3>2. CASE ~Known(h)
      <4>1. acked = 0
        BY <2>1, <2>2, <3>2 DEF OneReport, AckedIsKept, Known, ReportTypes
      <4>2. QED BY <4>1 DEF AckedIsKept
    <3>3. QED BY <2>2, <3>1, <3>2
  <2>5. NotFromTheFuture' /\ ViewerIsServed'
    BY <2>1 DEF OneReport, NotFromTheFuture, ViewerIsServed
  <2>6. RowMatchesSnap'
    BY <2>1 DEF OneReport, RowMatchesSnap
  <2>7. QED BY <2>3, <2>4, <2>5, <2>6
<1>5. QED BY <1>2, <1>3, <1>4 DEF OneReport

\* A connection breaks, and the handler goes on without a caller.
LEMMA BreakStep ==
    ASSUME ReportInv, breaks' = breaks + 1, handlers' = Orphaned, agent' \in Agents,
           agent'.pc \in {"off", "resting"}, agent'.pc = "resting" => agent'.id = agent.id /\ agent.pc = "waiting",
           UNCHANGED <<row, snaps, viewer, stamp, acked, losses, lifeVars>>
    PROVE  ReportInv'
<1> USE DEF ReportInv
<1>1. ASSUME NEW h \in handlers
      PROVE  LET g == [h EXCEPT !.mine = FALSE]
             IN  g \in Handlers /\ g.snap = h.snap /\ g.works = h.works /\ ~g.mine
  BY DEF ReportTypes, Handlers
<1>2. ASSUME NEW g \in handlers'
      PROVE  g \in Handlers /\ ~g.mine /\ g.snap.ts \in 0..MaxStamp /\ g.snap = CollectAll(g.works, g.snap.ts)
  <2>1. PICK h \in handlers : g = [h EXCEPT !.mine = FALSE]
    BY DEF Orphaned
  <2>2. g \in Handlers /\ ~g.mine /\ g.snap = h.snap /\ g.works = h.works
    BY <1>1, <2>1
  <2>3. QED BY <2>2 DEF ReportTypes
<1>3. OwnReport'
  BY <1>2 DEF OwnReport
<1>4. DownIsShut'
  BY DEF DownIsShut, Orphaned, lifeVars
<1>5. breaks' \in Nat /\ breaks' # 0
  BY DEF ReportTypes
<1>6. ReportTypes'
  BY <1>2, <1>5 DEF ReportTypes
<1>7. QED BY <1>3, <1>4, <1>5, <1>6 DEF OneReport

\* The process goes away with all that is in its memory.
LEMMA GoneStep ==
    ASSUME ReportInv, ReportingGone, phase' = "down", doors' = {}
    PROVE  ReportInv'
<1> USE DEF ReportInv
<1>1. /\ snaps' = [id \in Ids |-> None] /\ handlers' = {} /\ acked' = 0 /\ viewer' = None
      /\ UNCHANGED <<row, stamp, breaks, losses>>
      /\ agent.pc = "waiting" => agent' = [agent EXCEPT !.pc = "resting"]
      /\ agent.pc # "waiting" => agent' = agent
  BY DEF ReportingGone, boundVars
<1>2. /\ agent' \in Agents /\ agent'.id = agent.id
      /\ agent.pc = "waiting" => agent'.pc = "resting"
  BY <1>1, AgentMoves DEF ReportTypes
<1>3. agent'.pc \in {"report", "waiting", "resting"} => agent'.id \in Ids
  BY <1>1, <1>2 DEF ReportTypes
<1>4. agent'.pc = "register" => agent'.works \in Collections
  BY <1>1, <1>2 DEF ReportTypes
<1>5. ReportTypes' /\ OwnReport' /\ DownIsShut'
  BY <1>1, <1>2, <1>3, <1>4 DEF ReportTypes, OwnReport, DownIsShut
<1>6. ASSUME breaks' = 0
      PROVE  OneCall' /\ HalfApplied' /\ AckedIsKept' /\ NotFromTheFuture' /\ ViewerIsServed' /\ RowMatchesSnap'
  <2>1. OneCall' /\ HalfApplied' /\ AckedIsKept' /\ ViewerIsServed'
    BY <1>1 DEF OneCall, HalfApplied, AckedIsKept, ViewerIsServed
  <2>2. RowMatchesSnap'
    <3>1. row' # None => row'.id \in Ids
      BY <1>5, RowFacts DEF ReportTypes
    <3>2. QED BY <1>1, <3>1 DEF RowMatchesSnap
  <2>3. NotFromTheFuture'
    BY <1>1, <1>6 DEF OneReport, NotFromTheFuture, ReportTypes
  <2>4. QED BY <2>1, <2>2, <2>3
<1>7. QED BY <1>5, <1>6 DEF OneReport

\* The database is replaced by an empty one between two lives of the process.
LEMMA StoreLostStep ==
    ASSUME ReportInv, StoreLost, UNCHANGED lifeVars
    PROVE  ReportInv'
<1> USE DEF ReportInv
<1>1. /\ row' = None /\ losses' = losses + 1 /\ losses < MaxLosses /\ phase = "down"
      /\ UNCHANGED <<snaps, agent, handlers, viewer, stamp, acked, breaks, phase, doors>>
  BY DEF StoreLost, lifeVars
<1>2. handlers = {} /\ viewer = None /\ acked = 0
  BY <1>1 DEF DownIsShut
<1>3. losses' \in 0..MaxLosses
  BY <1>1, ReportingAssumption DEF ReportTypes
<1>4. ReportTypes' /\ OwnReport' /\ DownIsShut'
  BY <1>1, <1>3 DEF ReportTypes, OwnReport, DownIsShut
<1>5. ASSUME breaks' = 0
      PROVE  OneCall' /\ HalfApplied' /\ AckedIsKept' /\ NotFromTheFuture' /\ ViewerIsServed' /\ RowMatchesSnap'
  BY <1>1, <1>2, <1>5 DEF OneReport, OneCall, HalfApplied, AckedIsKept, NotFromTheFuture, ViewerIsServed, RowMatchesSnap
<1>6. QED BY <1>4, <1>5 DEF OneReport

\* Every step of the agent, of its calls and of the viewers keeps the invariant.
LEMMA ReportNextStep ==
    ASSUME ReportInv, ReportNext, UNCHANGED lifeVars
    PROVE  ReportInv'
<1>u. phase' = phase /\ doors' = doors
  BY DEF lifeVars
<1>1. CASE AgentStarts
  <2>1. PICK works \in Collections : agent' = [pc |-> "register", id |-> None, works |-> works]
    BY <1>1 DEF AgentStarts
  <2>2. agent.pc = "off" /\ UNCHANGED <<row, snaps, handlers, viewer, stamp, acked, breaks, losses>>
    BY <1>1 DEF AgentStarts
  <2>3. agent' \in Agents /\ agent'.pc = "register" /\ agent'.works = works
    BY <2>1 DEF Agents
  <2>4. \A h \in handlers : ~h.mine
    BY <2>2 DEF ReportInv, OwnReport
  <2>5. breaks = 0 => handlers = {} /\ acked = 0 /\ ~(acked > 0)
    BY <2>2 DEF ReportInv, OneReport, OneCall, AckedIsKept
  <2>6. QED BY <1>u, <2>2, <2>3, <2>4, <2>5, AgentAlone
<1>2. CASE RegisterNode
  <2>1. agent.pc = "register" /\ Upsert(agent.works) /\ UNCHANGED <<snaps, handlers, viewer, stamp, acked, breaks, losses>>
    BY <1>2 DEF RegisterNode, boundVars
  <2>2. row'.id \in Ids
    BY <2>1, UpsertFacts DEF ReportInv, ReportTypes
  <2>3. agent' = Agent("report", row'.id) \/ agent' = Agent("off", None)
    BY <1>2 DEF RegisterNode
  <2>4. agent' \in Agents /\ agent'.pc \in {"report", "off"} /\ (agent'.pc = "report" => agent'.id \in Ids)
    BY <2>2, <2>3, AgentFacts
  <2>5. QED BY <2>1, <2>4, RegisterStep
<1>3. CASE RegisterFails
  <2>1. agent.pc = "register" /\ UNCHANGED <<snaps, agent, handlers, viewer, stamp, acked, breaks, losses>>
        /\ (Upsert(agent.works) \/ UNCHANGED row)
    BY <1>3 DEF RegisterFails
  <2>2. agent \in Agents /\ agent.works \in Collections
    BY <2>1 DEF ReportInv, ReportTypes
  <2>3. CASE Upsert(agent.works)
    BY <2>1, <2>2, <2>3, RegisterStep
  <2>4. CASE UNCHANGED row
    <3>1. breaks = 0 => acked = 0 /\ handlers = {}
      BY <2>1 DEF ReportInv, OneReport, OneCall, AckedIsKept
    <3>2. QED BY <1>u, <2>1, <2>2, <2>4, <3>1, AgentAlone
  <2>5. QED BY <2>1, <2>3, <2>4
<1>4. CASE Report
  BY <1>4, ReportStep
<1>5. CASE Rest
  <2>1. agent.pc = "resting" /\ agent' = [agent EXCEPT !.pc = "report"]
        /\ UNCHANGED <<row, snaps, handlers, viewer, stamp, acked, breaks, losses>>
    BY <1>5 DEF Rest, boundVars
  <2>2. agent.id \in Ids /\ agent' \in Agents /\ agent'.pc = "report" /\ agent'.id = agent.id
    BY <2>1, AgentMoves DEF ReportInv, ReportTypes
  <2>3. (\A h \in handlers : ~h.mine) /\ (breaks = 0 => handlers = {})
    BY <2>1 DEF ReportInv, OwnReport, OneReport, OneCall
  <2>4. QED BY <1>u, <2>1, <2>2, <2>3, AgentAlone
<1>6. ASSUME NEW h \in handlers, Heartbeat(h) PROVE ReportInv'
  BY <1>6, HeartbeatStep
<1>7. ASSUME NEW h \in handlers, Put(h) PROVE ReportInv'
  BY <1>7, PutStep
<1>8. ASSUME NEW h \in handlers, ShouldReregister(h) PROVE ReportInv'
  <2>1. /\ h.step = "heartbeat" /\ ~Known(h) /\ handlers' = handlers \ {h} /\ (~h.mine => agent' = agent)
        /\ UNCHANGED <<row, snaps, viewer, stamp, acked, breaks, losses>>
    BY <1>8 DEF ShouldReregister, boundVars
  <2>2. agent \in Agents
    BY DEF ReportInv, ReportTypes
  <2>3. h.mine => agent' \in Agents /\ agent'.id = agent.id /\ agent'.pc = "register" /\ agent'.works \in Collections
    <3>1. SUFFICES ASSUME h.mine
                   PROVE  agent' \in Agents /\ agent'.id = agent.id /\ agent'.pc = "register" /\ agent'.works \in Collections
      OBVIOUS
    <3>2. PICK works \in Collections : agent' = [agent EXCEPT !.pc = "register", !.works = works]
      BY <1>8, <3>1 DEF ShouldReregister
    <3>3. QED BY <2>2, <3>2 DEF Agents
  <2>4. h.mine \in BOOLEAN
    BY DEF ReportInv, ReportTypes, Handlers
  <2>5. QED BY <2>1, <2>2, <2>3, <2>4, CallEnds
<1>9. ASSUME NEW h \in handlers, HeartbeatFails(h) PROVE ReportInv'
  <2>1. /\ h.step = "heartbeat" /\ handlers' = handlers \ {h} /\ (~h.mine => agent' = agent)
        /\ UNCHANGED <<row, snaps, viewer, stamp, acked, breaks, losses>>
        /\ h.mine => agent' = [agent EXCEPT !.pc = "resting"]
    BY <1>9 DEF HeartbeatFails
  <2>2. agent \in Agents /\ h.mine \in BOOLEAN
    BY DEF ReportInv, ReportTypes, Handlers
  <2>3. agent' \in Agents /\ agent'.id = agent.id /\ (h.mine => agent'.pc = "resting")
    BY <2>1, <2>2, AgentMoves
  <2>4. QED BY <2>1, <2>2, <2>3, CallEnds
<1>10. CASE CallBreaks
  <2>1. /\ agent.pc = "waiting" /\ breaks' = breaks + 1 /\ handlers' = Orphaned
        /\ agent' = [agent EXCEPT !.pc = "resting"] /\ UNCHANGED <<row, snaps, viewer, stamp, acked, losses>>
    BY <1>10 DEF CallBreaks, Break
  <2>2. agent' \in Agents /\ agent'.pc = "resting" /\ agent'.id = agent.id
    BY <2>1, AgentMoves DEF ReportInv, ReportTypes
  <2>3. QED BY <2>1, <2>2, BreakStep
<1>11. CASE AgentStops
  <2>1. /\ breaks' = breaks + 1 /\ handlers' = Orphaned /\ agent' = Agent("off", None)
        /\ UNCHANGED <<row, snaps, viewer, stamp, acked, losses>>
    BY <1>11 DEF AgentStops, Break
  <2>2. agent' \in Agents /\ agent'.pc = "off"
    BY <2>1, AgentFacts
  <2>3. QED BY <2>1, <2>2, BreakStep
<1>12. CASE View
  <2>1. /\ row # None /\ UNCHANGED <<row, snaps, agent, handlers, stamp, acked, breaks, losses>>
        /\ doors # {} /\ \E door \in doors : viewer' = [door |-> door, id |-> row.id, owed |-> acked]
    BY <1>12 DEF View, boundVars
  <2>2. viewer'.id = row.id /\ viewer'.owed = acked
    BY <2>1
  <2>3. row.id \in Ids /\ acked \in Nat /\ agent \in Agents /\ phase # "down"
    BY <2>1, RowFacts DEF ReportInv, ReportTypes, DownIsShut
  <2>4. breaks = 0 => ViewerIsServed'
    BY <2>1, <2>2, <2>3 DEF ReportInv, OneReport, AckedIsKept, ViewerIsServed
  <2>5. ReportTypes' /\ OwnReport' /\ DownIsShut'
    BY <1>u, <2>1, <2>3 DEF ReportInv, ReportTypes, OwnReport, DownIsShut
  <2>6. ASSUME breaks' = 0
        PROVE  OneCall' /\ HalfApplied' /\ AckedIsKept' /\ NotFromTheFuture' /\ RowMatchesSnap'
    BY <2>1, <2>6 DEF ReportInv, OneReport, OneCall, HalfApplied, AckedIsKept, NotFromTheFuture, RowMatchesSnap
  <2>7. QED BY <2>1, <2>4, <2>5, <2>6 DEF ReportInv, OneReport
<1>13. CASE ViewEnds
  <2>1. viewer' = None /\ UNCHANGED <<row, snaps, agent, handlers, stamp, acked, breaks, losses>>
    BY <1>13 DEF ViewEnds, boundVars
  <2>2. ReportTypes' /\ OwnReport' /\ DownIsShut'
    BY <1>u, <2>1 DEF ReportInv, ReportTypes, OwnReport, DownIsShut
  <2>3. ASSUME breaks' = 0
        PROVE  OneCall' /\ HalfApplied' /\ AckedIsKept' /\ NotFromTheFuture' /\ ViewerIsServed' /\ RowMatchesSnap'
    BY <2>1, <2>3 DEF ReportInv, OneReport, OneCall, HalfApplied, AckedIsKept, NotFromTheFuture, ViewerIsServed,
                      RowMatchesSnap
  <2>4. QED BY <2>2, <2>3 DEF ReportInv, OneReport
<1>14. CASE StoreLost
  BY <1>14, StoreLostStep
<1>15. QED BY <1>1, <1>2, <1>3, <1>4, <1>5, <1>6, <1>7, <1>8, <1>9, <1>10, <1>11, <1>12, <1>13, <1>14
           DEF ReportNext, AgentStep, HandlerStep, AgentFault

\* So does the life of the process itself.
LEMMA PlaneReportStep == ReportInv /\ [PlaneNext]_planeVars => ReportInv'
<1> SUFFICES ASSUME ReportInv, [PlaneNext]_planeVars PROVE ReportInv'
  OBVIOUS
<1>1. ASSUME UNCHANGED reportVars, DownIsShut' PROVE ReportInv'
  <2>1. UNCHANGED <<row, snaps, agent, handlers, viewer, stamp, acked, breaks, losses>>
    BY <1>1 DEF reportVars
  <2>2. ReportTypes' /\ OwnReport'
    BY <2>1 DEF ReportInv, ReportTypes, OwnReport
  <2>3. ASSUME breaks' = 0
        PROVE  OneCall' /\ HalfApplied' /\ AckedIsKept' /\ NotFromTheFuture' /\ ViewerIsServed' /\ RowMatchesSnap'
    BY <2>1, <2>3 DEF ReportInv, OneReport, OneCall, HalfApplied, AckedIsKept, NotFromTheFuture, ViewerIsServed,
                      RowMatchesSnap
  <2>4. QED BY <1>1, <2>2, <2>3 DEF ReportInv, OneReport
<1>2. CASE Reports
  BY <1>2, ReportNextStep DEF Reports
<1>3. CASE GoesAway
  <2>1. phase' = "down" /\ doors' = {} /\ ReportingGone
    BY <1>3 DEF GoesAway, Drained, Killed, TickerPanics, Gone
  <2>2. QED BY <2>1, GoneStep
<1>4. CASE Begins \/ Stopping \/ Works \/ UNCHANGED planeVars
  <2>1. UNCHANGED reportVars
    BY <1>4 DEF Begins, Stopping, Works, planeVars
  <2>2. DownIsShut'
    <3>1. UNCHANGED <<handlers, viewer, acked>>
      BY <2>1 DEF reportVars
    <3>2. phase' = "down" => phase = "down" /\ doors' = doors
      BY <1>4 DEF Begins, Start, Stopping, StopStep, Signal, ScrapesStopped, ConsoleStopped, Works, planeVars, lifeVars
    <3>3. QED BY <3>1, <3>2 DEF ReportInv, DownIsShut
  <2>3. QED BY <1>1, <2>1, <2>2
<1>5. QED BY <1>2, <1>3, <1>4 DEF PlaneNext

\* The protocol of the reports holds all the time.
THEOREM ReportsAreInOrder == PlaneSpec => []ReportInv
<1>1. PlaneInit => ReportInv
  BY ReportInvInit
<1>2. ReportInv /\ [PlaneNext]_planeVars => ReportInv'
  BY PlaneReportStep
<1>3. QED BY <1>1, <1>2, PTL DEF PlaneSpec

\* The numbers of devices in a row and in the snapshot it was made of.
LEMMA SameNumbers ==
    ASSUME NEW works, NEW ts
    PROVE  countDevices(Inventory(CollectAll(works, ts)).devs) = countDevices(CollectAll(works, ts).devs)
<1> DEFINE devs == CollectAll(works, ts).devs
           list == Inventory(CollectAll(works, ts)).devs
<1>1. /\ DOMAIN devs = DOMAIN list
      /\ \A i \in DOMAIN devs : list[i].kind = devs[i].kind
  BY InventoryFacts
<1> HIDE DEF devs, list
<1>2. \A kind : OfKind(list, kind) = OfKind(devs, kind)
  BY <1>1 DEF OfKind
<1>3. countDevices(list) = countDevices(devs)
  BY <1>2 DEF countDevices
<1>4. QED BY <1>3 DEF devs, list

\* Nothing that was acknowledged is taken back, and the views agree, however
\* many reports, failures, restarts and losses of the database there are.
THEOREM WhatWasAckedIsShown == PlaneSpec => []AckedIsShown
<1>1. ReportInv => AckedIsShown
  <2> SUFFICES ASSUME ReportInv, breaks = 0
               PROVE  /\ row # None => row.ts >= acked
                      /\ viewer # None /\ viewer.owed > 0 =>
                            snaps[viewer.id] # None /\ snaps[viewer.id].ts >= viewer.owed
                      /\ handlers = {} /\ row # None =>
                            (row.ts > 0 /\ snaps[row.id] # None => Cardinality(Shown(row, snaps[row.id])) = 1)
    BY DEF AckedIsShown
  <2>1. AckedIsKept /\ ViewerIsServed /\ RowMatchesSnap /\ ReportTypes
    BY DEF ReportInv, OneReport
  <2>2. row # None => row.ts \in Nat /\ row.id \in Ids
    BY <2>1, RowFacts DEF ReportTypes
  <2>3. row # None => row.ts >= acked
    BY <2>1, <2>2 DEF AckedIsKept, ReportTypes
  <2>4. viewer # None /\ viewer.owed > 0 => snaps[viewer.id] # None /\ snaps[viewer.id].ts >= viewer.owed
    BY <2>1 DEF ViewerIsServed
  <2>5. ASSUME handlers = {}, row # None, row.ts > 0, snaps[row.id] # None
        PROVE  Cardinality(Shown(row, snaps[row.id])) = 1
    <3> DEFINE snap == snaps[row.id]
    <3>1. row.inv = Inventory(snap)
      BY <2>1, <2>5 DEF RowMatchesSnap
    <3>2. snap \in Snapshots
      BY <2>1, <2>2, <2>5 DEF ReportTypes
    <3>3. PICK works \in Collections, ts \in 0..MaxStamp : snap = CollectAll(works, ts)
      BY <3>2 DEF Snapshots
    <3>4. snap # None
      BY <2>5
    <3> HIDE DEF snap
    <3>5. countDevices(row.inv.devs) = countDevices(snap.devs)
      BY <3>1, <3>3, SameNumbers
    <3>6. Shown(row, snap) = {countDevices(snap.devs)}
      BY <3>4, <3>5 DEF Shown, nodeDevices, DevicesIn
    <3>7. QED BY <3>6, FS_Singleton DEF snap
  <2>6. QED BY <2>3, <2>4, <2>5
<1>2. QED BY <1>1, ReportsAreInOrder, PTL

\* Whatever the tools print and whoever wrote the row, the scheduler sees the
\* accelerators of the node, one device for each card or chip, for any number.
THEOREM TheSchedulerSeesHardware == PlaneSpec => []SchedulerSeesHardware
<1>1. ReportInv => SchedulerSeesHardware
  <2> SUFFICES ASSUME ReportInv, row # None
               PROVE  /\ Seen(row.inv.devs) = Hardware(row.works)
                      /\ row.inv.mem = IF "mem" \in row.works THEN MemTotal ELSE 0
    BY DEF SchedulerSeesHardware
  <2> DEFINE works == row.works
             ts == row.ts
             devs == CollectAll(works, ts).devs
             list == row.inv.devs
             hw == Hardware(works)
  <2>1. row.inv = Inventory(CollectAll(works, ts))
    BY RowFacts DEF ReportInv, ReportTypes
  <2> HIDE DEF works, ts
  <2>2. /\ DOMAIN list = 1..Len(devs) /\ Len(list) = Len(devs)
        /\ \A i \in 1..Len(devs) : /\ list[i].kind = devs[i].kind /\ list[i].index = devs[i].index
                                   /\ list[i].total = devs[i].total
        /\ row.inv.mem = IF "mem" \in works THEN MemTotal ELSE 0
    BY <2>1, InventoryFacts
  <2>3. hw = [i \in 1..Len(devs) |-> Key(devs[i])]
    BY DevicesAreHardware
  <2> HIDE DEF devs, list, hw
  <2>5. \A i \in 1..Len(devs) : Key(list[i]) = Key(devs[i])
    BY <2>2 DEF Key
  <2>6. Seen(list) = [i \in 1..Len(devs) |-> Key(list[i])]
    BY <2>2 DEF Seen, Key
  <2>7. Seen(list) = hw
    BY <2>3, <2>5, <2>6
  <2>8. QED BY <2>2, <2>7 DEF works, list, hw
<1>2. QED BY <1>1, ReportsAreInOrder, PTL

\* Two series of a scrape have the same labels only if they are of two chips that
\* npu-smi lists under one index, for any cards and any partitions.
THEOREM NothingElseCollides == PlaneSpec => []OnlyChipsCollide
<1>1. ReportInv => OnlyChipsCollide
  <2> SUFFICES ASSUME ReportInv, NEW id \in Ids
               PROVE  /\ IsInjective(Series(snaps[id]).disks)
                      /\ \A i, j \in DOMAIN Series(snaps[id]).devs :
                            i # j /\ Series(snaps[id]).devs[i] = Series(snaps[id]).devs[j]
                                => SharesItsIndex(snaps[id].devs[i])
    BY DEF OnlyChipsCollide
  <2> DEFINE snap == snaps[id]
  <2>1. snap \in Snapshots \cup {None}
    BY DEF ReportInv, ReportTypes
  <2> HIDE DEF snap
  <2>2. CASE snap = None
    <3>1. Series(snap).disks = <<>> /\ Series(snap).devs = <<>>
      BY <2>2 DEF Series
    <3>2. IsInjective(<<>>) /\ DOMAIN <<>> = {}
      BY DEF IsInjective
    <3>3. QED BY <3>1, <3>2 DEF snap
  <2>3. CASE snap # None
    <3>1. PICK works \in Collections, ts \in 0..MaxStamp : snap = CollectAll(works, ts)
      BY <2>1, <2>3 DEF Snapshots
    <3> DEFINE devs == snap.devs
               disks == snap.disks
               labels == [i \in 1..Len(devs) |-> <<devs[i].kind, devs[i].vendor, devs[i].index,
                                                  devs[i].uuid, devs[i].name>>]
               mounts == [i \in 1..Len(disks) |-> disks[i].mount]
    <3>2. Series(snap).disks = mounts /\ Series(snap).devs = labels
      BY <2>3 DEF Series
    <3>3. disks = Disks \/ disks = <<>>
      BY <3>1 DEF CollectAll
    <3>4. Mounts(disks)
      <4>1. Mounts(<<>>)
        BY DEF Mounts
      <4> HIDE DEF disks
      <4>2. QED BY <3>3, <4>1, DisksAreDistinct
    <3>5. IsInjective(mounts)
      <4> HIDE DEF disks
      <4> QED BY <3>4 DEF IsInjective, Mounts
    <3>6. \A i, j \in 1..Len(devs) :
             i # j /\ devs[i].kind = devs[j].kind /\ devs[i].index = devs[j].index
                 => SharesItsIndex(devs[i])
      BY <3>1, DevicesDiffer
    <3> HIDE DEF devs
    <3>7. ASSUME NEW i \in 1..Len(devs), NEW j \in 1..Len(devs), i # j, labels[i] = labels[j]
          PROVE  SharesItsIndex(devs[i])
      <4>1. labels[i][1] = devs[i].kind /\ labels[i][3] = devs[i].index
        OBVIOUS
      <4>2. labels[j][1] = devs[j].kind /\ labels[j][3] = devs[j].index
        OBVIOUS
      <4> HIDE DEF labels
      <4>3. QED BY <3>6, <3>7, <4>1, <4>2
    <3>8. DOMAIN labels = 1..Len(devs)
      OBVIOUS
    <3> HIDE DEF labels, mounts
    <3>9. QED BY <3>2, <3>5, <3>7, <3>8 DEF snap, devs
  <2>4. QED BY <2>2, <2>3
<1>2. QED BY <1>1, ReportsAreInOrder, PTL
=============================================================================
