--------------------------- MODULE JobLogsProofs ---------------------------
(***************************************************************************)
(* Theorems about JobLogs, for any readers, any number of lines and any    *)
(* number of failed calls.                                                 *)
(***************************************************************************)
EXTENDS JobLogs, SequenceTheorems, TLAPS

-----------------------------------------------------------------------------
(* Lines once and in order *)

\* The lines of a sequence grow; those of s come before those of t; those of s
\* are the ones after line k.
Rising(s)      == \A i, j \in 1..Len(s) : i < j => s[i] < s[j]
Before(s, t)   == \A i \in 1..Len(s), j \in 1..Len(t) : s[i] < t[j]
Numbered(s, k) == \A i \in 1..Len(s) : s[i] = k + i
Apart(s, t)    == \A i \in 1..Len(s), j \in 1..Len(t) : s[i] # t[j]
UpTo(s, k)     == \A i \in 1..Len(s) : s[i] <= k

\* What is asked of the file: no line twice, and none behind a later one unless
\* it is one of those in l.
InOrder(s, l) ==
    \A i, j \in 1..Len(s) : i < j => s[i] # s[j] /\ (s[i] < s[j] \/ s[j] \in l)

\* What is left of a sequence of lines once its first k were taken: the pipe
\* after a read of the pump.
LEMMA SuffixFacts ==
    ASSUME NEW s \in Seq(Int), NEW k \in 1..Len(s)
    PROVE  /\ SubSeq(s, k + 1, Len(s)) \in Seq(Int)
           /\ Len(SubSeq(s, k + 1, Len(s))) = Len(s) - k
           /\ \A i \in 1..Len(s) - k :
                 SubSeq(s, k + 1, Len(s))[i] = s[k + i] /\ k + i \in 1..Len(s)
<1>1. Len(s) \in Nat /\ k \in Nat
  OBVIOUS
<1>2. CASE k = Len(s)
  <2>1. SubSeq(s, k + 1, Len(s)) = <<>>
    BY <1>1, <1>2, SubSeqEmpty
  <2>2. 1..Len(s) - k = {}
    BY <1>1, <1>2
  <2>3. QED BY <1>1, <1>2, <2>1, <2>2
<1>3. CASE k < Len(s)
  <2>1. k + 1 \in 1..Len(s) /\ Len(s) \in k..Len(s) /\ Len(s) - (k + 1) + 1 = Len(s) - k
    BY <1>1, <1>3
  <2>2. /\ SubSeq(s, k + 1, Len(s)) \in Seq(Int)
        /\ Len(SubSeq(s, k + 1, Len(s))) = Len(s) - (k + 1) + 1
        /\ \A i \in 1..Len(s) - (k + 1) + 1 :
              SubSeq(s, k + 1, Len(s))[i] = s[(k + 1) + i - 1]
    BY <2>1, SubSeqProperties
  <2>3. ASSUME NEW i \in 1..Len(s) - k
        PROVE  (k + 1) + i - 1 = k + i /\ k + i \in 1..Len(s)
    BY <1>1
  <2>4. QED BY <2>1, <2>2, <2>3
<1>4. QED BY <1>1, <1>2, <1>3

\* Where the lines of a concatenation come from.
LEMMA Halves ==
    ASSUME NEW s \in Seq(Int), NEW t \in Seq(Int), NEW i \in 1..Len(s \o t)
    PROVE  \/ i \in 1..Len(s) /\ (s \o t)[i] = s[i]
           \/ \E k \in 1..Len(t) : i = Len(s) + k /\ (s \o t)[i] = t[k]
<1>1. Len(s) \in Nat /\ Len(t) \in Nat /\ Len(s \o t) = Len(s) + Len(t)
  OBVIOUS
<1>2. CASE i <= Len(s)
  BY <1>1, <1>2
<1>3. CASE i > Len(s)
  <2>1. i - Len(s) \in 1..Len(t) /\ i = Len(s) + (i - Len(s)) /\ (s \o t)[i] = t[i - Len(s)]
    BY <1>1, <1>3
  <2>2. QED BY <2>1
<1>4. QED BY <1>1, <1>2, <1>3

\* Growing lines added to the file keep its order, if they come after it or are
\* among those that may be late and are not in it.
LEMMA OrderConcat ==
    ASSUME NEW s \in Seq(Int), NEW t \in Seq(Int), NEW l, NEW m, InOrder(s, l), Rising(t), l \subseteq m,
           Before(s, t) \/ (Apart(s, t) /\ \A j \in 1..Len(t) : t[j] \in m)
    PROVE  InOrder(s \o t, m)
<1> SUFFICES ASSUME NEW i \in 1..Len(s \o t), NEW j \in 1..Len(s \o t), i < j
             PROVE  /\ (s \o t)[i] # (s \o t)[j]
                    /\ (s \o t)[i] < (s \o t)[j] \/ (s \o t)[j] \in m
  BY DEF InOrder
<1>n. Len(s) \in Nat /\ Len(t) \in Nat
  OBVIOUS
<1>1. CASE j \in 1..Len(s) /\ (s \o t)[j] = s[j]
  <2>1. i \in 1..Len(s) /\ (s \o t)[i] = s[i]
    BY <1>1, <1>n, Halves
  <2>2. QED BY <1>1, <2>1 DEF InOrder
<1>2. ASSUME NEW k \in 1..Len(t), j = Len(s) + k, (s \o t)[j] = t[k]
      PROVE  /\ (s \o t)[i] # (s \o t)[j]
             /\ (s \o t)[i] < (s \o t)[j] \/ (s \o t)[j] \in m
  <2>t. \A x \in 1..Len(s), y \in 1..Len(t) : s[x] \in Int /\ t[y] \in Int
    OBVIOUS
  <2>1. CASE i \in 1..Len(s) /\ (s \o t)[i] = s[i]
    BY <1>2, <2>1, <2>t DEF Before, Apart
  <2>2. ASSUME NEW h \in 1..Len(t), i = Len(s) + h, (s \o t)[i] = t[h]
        PROVE  /\ (s \o t)[i] # (s \o t)[j]
               /\ (s \o t)[i] < (s \o t)[j] \/ (s \o t)[j] \in m
    <3>1. h < k
      BY <1>2, <1>n, <2>2
    <3>2. t[h] < t[k] /\ t[h] \in Int /\ t[k] \in Int
      BY <2>t, <3>1 DEF Rising
    <3>3. QED BY <1>2, <2>2, <3>2
  <2>3. \/ i \in 1..Len(s) /\ (s \o t)[i] = s[i]
        \/ \E h \in 1..Len(t) : i = Len(s) + h /\ (s \o t)[i] = t[h]
    BY Halves
  <2>4. QED BY <2>1, <2>2, <2>3, Zenon
<1>3. \/ j \in 1..Len(s) /\ (s \o t)[j] = s[j]
      \/ \E k \in 1..Len(t) : j = Len(s) + k /\ (s \o t)[j] = t[k]
  BY Halves
<1>4. QED BY <1>1, <1>2, <1>3, Zenon

\* Lines apart from two sequences are apart from both together, and so for bounds.
LEMMA ApartConcat ==
    ASSUME NEW s \in Seq(Int), NEW t \in Seq(Int), NEW k
    PROVE  /\ \A u \in Seq(Int) : Apart(s, u) /\ Apart(t, u) => Apart(s \o t, u)
           /\ UpTo(s, k) /\ UpTo(t, k) => UpTo(s \o t, k)
<1>1. ASSUME NEW u \in Seq(Int), Apart(s, u), Apart(t, u) PROVE Apart(s \o t, u)
  BY <1>1, Halves DEF Apart
<1>2. ASSUME UpTo(s, k), UpTo(t, k) PROVE UpTo(s \o t, k)
  BY <1>2, Halves DEF UpTo
<1>3. QED BY <1>1, <1>2

\* What comes after two sequences comes after both together.
LEMMA BeforeConcat ==
    ASSUME NEW s \in Seq(Int), NEW t \in Seq(Int), NEW u \in Seq(Int), Before(s, u), Before(t, u)
    PROVE  Before(s \o t, u)
<1> SUFFICES ASSUME NEW i \in 1..Len(s \o t), NEW j \in 1..Len(u)
             PROVE  (s \o t)[i] < u[j]
  BY DEF Before
<1>1. CASE i <= Len(s)
  BY <1>1 DEF Before
<1>2. CASE i > Len(s)
  <2>1. i - Len(s) \in 1..Len(t) /\ (s \o t)[i] = t[i - Len(s)]
    BY <1>2
  <2>2. QED BY <2>1 DEF Before
<1>3. QED BY <1>1, <1>2

\* Sequences of consecutive lines that follow each other make one.
LEMMA NumberedConcat ==
    ASSUME NEW s \in Seq(Int), NEW t \in Seq(Int), NEW k \in Int, Numbered(s, k), Numbered(t, k + Len(s))
    PROVE  Numbered(s \o t, k)
<1> SUFFICES ASSUME NEW i \in 1..Len(s \o t) PROVE (s \o t)[i] = k + i
  BY DEF Numbered
<1>1. CASE i <= Len(s)
  BY <1>1 DEF Numbered
<1>2. CASE i > Len(s)
  BY <1>2 DEF Numbered
<1>3. QED BY <1>1, <1>2

\* A line is in the pipe, in the hands of pumpLogs, in the file or in a handler
\* left behind.  What pumpLogs holds it has yet to send.
InTransit ==
    /\ written \in Nat
    /\ file \in Seq(Int) /\ chunk \in Seq(Int) /\ pipe \in Seq(Int) /\ stray \in SUBSET Seq(Int)
    /\ pump # "sending" => chunk = <<>>

\* What pumpLogs holds comes after all that it gave away, and the pipe after that.
Ordered ==
    /\ InOrder(file, late) /\ Rising(chunk) /\ Rising(pipe)
    /\ Before(file, chunk) /\ Before(file, pipe) /\ Before(chunk, pipe)
    /\ UpTo(file, written) /\ UpTo(chunk, written) /\ UpTo(pipe, written)

\* The same for the handlers left behind; none has a line of the file or of another.
StrayOrdered ==
    /\ \A c \in stray : /\ Rising(c) /\ Before(c, chunk) /\ Before(c, pipe) /\ UpTo(c, written)
                         /\ Apart(file, c)
    /\ \A c, d \in stray : c # d => Apart(c, d)

\* Without a lost call there is no gap and nothing left behind, and while the read
\* end is open no line is missing at the end.
Complete ==
    lost = 0 =>
        /\ stray = {}
        /\ Numbered(file, 0)
        /\ Numbered(chunk, Len(file))
        /\ Numbered(pipe, Len(file) + Len(chunk))
        /\ readEnd => Len(file) + Len(chunk) + Len(pipe) = written

LineInv == InTransit /\ Ordered /\ StrayOrdered /\ Complete /\ lost \in Nat

\* Nothing is written yet.
LEMMA LineInvInit == LogInit => LineInv
  BY LogAssumption
  DEF LogInit, LineInv, InTransit, Ordered, StrayOrdered, Complete, InOrder, Rising, Before, Numbered, UpTo

\* A step that touches neither the lines nor what pumpLogs is at.
LEMMA LinesAlone ==
    ASSUME LineInv, UNCHANGED <<written, file, chunk, pipe, stray, late, readEnd, pump>>,
           lost' = lost \/ lost' = lost + 1
    PROVE  LineInv'
  BY DEF LineInv, InTransit, Ordered, StrayOrdered, Complete

\* The empty sequence comes before and after everything.
LEMMA EmptyFacts ==
    \A s, k : /\ Rising(<<>>) /\ Before(s, <<>>) /\ Before(<<>>, s) /\ UpTo(<<>>, k)
             /\ Apart(s, <<>>) /\ Apart(<<>>, s)
  BY DEF Rising, Before, UpTo, Apart

\* Lines that come before others are apart from them.
LEMMA BeforeApart ==
    ASSUME NEW s \in Seq(Int), NEW t \in Seq(Int), Before(s, t)
    PROVE  Apart(s, t) /\ Apart(t, s)
<1>1. \A i \in 1..Len(s), j \in 1..Len(t) : s[i] \in Int /\ t[j] \in Int
  OBVIOUS
<1>2. QED BY <1>1 DEF Before, Apart

\* The lines pumpLogs holds are added to the file.
LEMMA ChunkAppended ==
    ASSUME LineInv, pump' # "sending", chunk' = <<>>, file' = file \o chunk,
           UNCHANGED <<written, pipe, stray, late, readEnd>>, lost' = lost
    PROVE  LineInv'
<1> USE DEF LineInv
<1>t. file \in Seq(Int) /\ chunk \in Seq(Int) /\ pipe \in Seq(Int) /\ stray \in SUBSET Seq(Int)
  BY DEF InTransit
<1>1. InTransit'
  BY DEF InTransit
<1>2. InOrder(file \o chunk, late) /\ Before(file \o chunk, pipe) /\ UpTo(file \o chunk, written)
  BY <1>t, OrderConcat, BeforeConcat, ApartConcat DEF Ordered
<1>3. Ordered'
  BY <1>2, EmptyFacts DEF Ordered
<1>4. ASSUME NEW c \in stray PROVE Apart(file \o chunk, c)
  <2>1. Apart(file, c) /\ Before(c, chunk) /\ c \in Seq(Int)
    BY <1>t DEF StrayOrdered
  <2>2. Apart(chunk, c)
    BY <1>t, <2>1, BeforeApart
  <2>3. QED BY <1>t, <2>1, <2>2, ApartConcat
<1>5. StrayOrdered'
  BY <1>4, EmptyFacts DEF StrayOrdered
<1>6. Complete'
  <2> SUFFICES ASSUME lost' = 0
               PROVE  /\ stray' = {} /\ Numbered(file', 0) /\ Numbered(chunk', Len(file'))
                      /\ Numbered(pipe', Len(file') + Len(chunk'))
                      /\ readEnd' => Len(file') + Len(chunk') + Len(pipe') = written'
    BY DEF Complete
  <2>1. lost = 0
    OBVIOUS
  <2>2. Numbered(file \o chunk, 0)
    BY <2>1, NumberedConcat DEF Complete, InTransit
  <2>3. Len(file') = Len(file) + Len(chunk) /\ Len(chunk') = 0
    BY DEF InTransit
  <2>4. QED BY <2>1, <2>2, <2>3 DEF Complete, InTransit, Numbered
<1>7. QED BY <1>1, <1>3, <1>5, <1>6

\* The call fails: they are dropped or stay in a handler.
LEMMA ChunkLost ==
    ASSUME LineInv, pump' # "sending", chunk' = <<>>, stray' \in {stray, stray \cup {chunk}},
           UNCHANGED <<written, file, pipe, late, readEnd>>, lost' = lost + 1
    PROVE  LineInv'
<1> USE DEF LineInv
<1>t. file \in Seq(Int) /\ chunk \in Seq(Int) /\ pipe \in Seq(Int) /\ stray \in SUBSET Seq(Int)
  BY DEF InTransit
<1>1. InTransit' /\ Ordered'
  <2>1. chunk' \in Seq(Int) /\ stray' \in SUBSET Seq(Int)
    BY <1>t
  <2>2. InTransit'
    BY <1>t, <2>1 DEF InTransit
  <2>3. /\ Rising(<<>>) /\ UpTo(<<>>, written)
        /\ Before(file, <<>>) /\ Before(<<>>, pipe)
    BY EmptyFacts
  <2>4. Ordered'
    BY <2>3 DEF Ordered
  <2>5. QED BY <2>2, <2>4
<1>2. Rising(chunk) /\ Before(chunk, pipe) /\ UpTo(chunk, written) /\ Apart(file, chunk)
  BY <1>t, BeforeApart DEF Ordered
<1>3. \A c \in stray : Apart(c, chunk) /\ Apart(chunk, c)
  BY <1>t, BeforeApart DEF StrayOrdered
<1>4. \A c \in stray' : Rising(c) /\ Before(c, <<>>) /\ Before(c, pipe) /\ UpTo(c, written) /\ Apart(file, c)
  BY <1>2, EmptyFacts DEF StrayOrdered
<1>5. \A c, d \in stray' : c # d => Apart(c, d)
  BY <1>3 DEF StrayOrdered
<1>6. StrayOrdered'
  BY <1>4, <1>5 DEF StrayOrdered
<1>7. Complete' /\ lost' \in Nat
  BY DEF Complete
<1>8. QED BY <1>1, <1>6, <1>7

\* A handler that was left behind writes: its lines are late, and in no other.
LEMMA StrayAppended ==
    ASSUME LineInv, NEW c \in stray, StrayAppends(c)
    PROVE  LineInv'
<1> USE DEF LineInv
<1>t. /\ file \in Seq(Int) /\ chunk \in Seq(Int) /\ pipe \in Seq(Int) /\ stray \in SUBSET Seq(Int)
      /\ c \in Seq(Int)
  BY DEF InTransit
<1>1. /\ file' = file \o c /\ stray' = stray \ {c} /\ late' = late \cup LinesOf(c)
      /\ UNCHANGED <<written, pipe, chunk, readEnd, pump, lost>>
  BY DEF StrayAppends, AppendToFile, procVars, agentLog
<1>2. /\ Rising(c) /\ Before(c, chunk) /\ Before(c, pipe) /\ UpTo(c, written) /\ Apart(file, c)
      /\ \A d \in stray \ {c} : Apart(c, d) /\ Apart(file, d)
  BY DEF StrayOrdered
<1>3. InTransit'
  BY <1>t, <1>1 DEF InTransit
<1>4. InOrder(file \o c, late')
  <2>1. late \subseteq late' /\ \A j \in 1..Len(c) : c[j] \in late'
    BY <1>1 DEF LinesOf
  <2>2. QED BY <1>t, <1>2, <2>1, OrderConcat DEF Ordered
<1>5. Before(file \o c, chunk) /\ Before(file \o c, pipe) /\ UpTo(file \o c, written)
  BY <1>t, <1>2, BeforeConcat, ApartConcat DEF Ordered
<1>6. Ordered'
  BY <1>1, <1>4, <1>5 DEF Ordered
<1>7. \A d \in stray \ {c} : Apart(file \o c, d)
  BY <1>t, <1>2, ApartConcat
<1>8. StrayOrdered'
  BY <1>1, <1>7 DEF StrayOrdered
<1>9. Complete'
  BY <1>1 DEF Complete
<1>10. QED BY <1>1, <1>3, <1>6, <1>8, <1>9

\* Every step preserves it: a line is written behind those in the pipe, a read
\* takes the front of the pipe, and what is closed loses its end.
LEMMA LineInvStep == LineInv /\ [LogNext]_logVars => LineInv'
<1> SUFFICES ASSUME LineInv, [LogNext]_logVars PROVE LineInv'
  OBVIOUS
<1> USE DEF LineInv
<1>n. Len(file) \in Nat /\ Len(chunk) \in Nat /\ Len(pipe) \in Nat /\ written \in Nat
  BY DEF InTransit
<1>1. CASE WriteLine
  <2> DEFINE p == Append(pipe, written + 1)
  <2>1. /\ pipe' = p /\ p \in Seq(Int) /\ Len(p) = Len(pipe) + 1 /\ p[Len(p)] = written + 1
        /\ \A i \in 1..Len(pipe) : p[i] = pipe[i]
    BY <1>1 DEF WriteLine, InTransit
  <2>2. readEnd /\ written' = written + 1 /\ UNCHANGED <<file, chunk, stray, late, readEnd, pump, lost>>
    BY <1>1 DEF WriteLine, serverLog
  <2> HIDE DEF p
  <2>3. InTransit'
    BY <2>1, <2>2 DEF InTransit
  <2>4. Ordered'
    <3>1. \A i \in 1..Len(p) : i \in 1..Len(pipe) \/ p[i] = written + 1
      BY <2>1 DEF InTransit
    <3>2. \A s \in {file, chunk, pipe} : \A i \in 1..Len(s) : s[i] < written + 1
      BY DEF Ordered, UpTo, InTransit
    <3>3. Before(file, p) /\ Before(chunk, p)
      BY <2>1, <3>1, <3>2 DEF Ordered, Before, InTransit
    <3>4. Rising(p)
      <4> SUFFICES ASSUME NEW i \in 1..Len(p), NEW j \in 1..Len(p), i < j PROVE p[i] < p[j]
        BY DEF Rising
      <4>1. i \in 1..Len(pipe)
        BY <2>1 DEF InTransit
      <4>2. CASE j \in 1..Len(pipe)
        BY <2>1, <4>1, <4>2 DEF Ordered, Rising
      <4>3. CASE p[j] = written + 1
        BY <2>1, <3>2, <4>1, <4>3
      <4>4. QED BY <3>1, <4>2, <4>3
    <3>5. UpTo(p, written + 1)
      BY <2>1, <3>1, <3>2 DEF InTransit, UpTo
    <3>6. UpTo(file, written + 1) /\ UpTo(chunk, written + 1)
      BY DEF Ordered, InTransit, UpTo
    <3>7. QED BY <2>1, <2>2, <3>3, <3>4, <3>5, <3>6 DEF Ordered
  <2>5. Complete'
    <3>1. ASSUME lost = 0 PROVE Numbered(p, Len(file) + Len(chunk))
      <4>1. /\ \A i \in 1..Len(pipe) : pipe[i] = Len(file) + Len(chunk) + i
            /\ Len(file) + Len(chunk) + Len(pipe) = written
        BY <2>2, <3>1 DEF Complete, Numbered
      <4>2. ASSUME NEW i \in 1..Len(p) PROVE p[i] = Len(file) + Len(chunk) + i
        <5>1. CASE i \in 1..Len(pipe)
          BY <2>1, <4>1, <5>1
        <5>2. CASE i = Len(p)
          <6>1. i = Len(pipe) + 1 /\ p[i] = written + 1
            BY <2>1, <5>2
          <6>2. QED BY <1>n, <4>1, <6>1
        <5>3. QED BY <1>n, <2>1, <5>1, <5>2
      <4>3. QED BY <4>2 DEF Numbered
    <3>2. lost = 0 => Len(file) + Len(chunk) + Len(p) = written + 1
      <4>1. lost = 0 => Len(file) + Len(chunk) + Len(pipe) = written
        BY <2>2 DEF Complete
      <4>2. QED BY <1>n, <2>1, <4>1
    <3>3. QED BY <2>1, <2>2, <3>1, <3>2 DEF Complete
  <2>6. StrayOrdered'
    <3>1. ASSUME NEW c \in stray PROVE Before(c, p) /\ UpTo(c, written + 1)
      <4>1. c \in Seq(Int) /\ UpTo(c, written) /\ Before(c, pipe)
        BY DEF StrayOrdered, InTransit
      <4>2. \A i \in 1..Len(c) : c[i] < written + 1 /\ c[i] <= written + 1
        BY <1>n, <4>1 DEF UpTo
      <4>3. \A i \in 1..Len(p) : i \in 1..Len(pipe) \/ p[i] = written + 1
        BY <2>1 DEF InTransit
      <4>4. QED BY <2>1, <4>1, <4>2, <4>3 DEF UpTo, Before
    <3>2. QED BY <2>1, <2>2, <3>1 DEF StrayOrdered
  <2>7. QED BY <2>2, <2>3, <2>4, <2>5, <2>6
<1>2. CASE ProcessExits \/ BackgroundExits \/ UNCHANGED logVars
  BY <1>2, LinesAlone DEF ProcessExits, BackgroundExits, logVars, procVars, agentLog, serverLog
<1>3. CASE PumpReads
  <2>1. PICK k \in 1..Len(pipe) : chunk' = SubSeq(pipe, 1, k) /\ pipe' = SubSeq(pipe, k + 1, Len(pipe))
    BY <1>3 DEF PumpReads
  <2>2. /\ pump # "sending" /\ pump' = "sending" /\ chunk = <<>>
        /\ UNCHANGED <<written, file, stray, late, readEnd, lost>>
    BY <1>3 DEF PumpReads, InTransit, procVars, serverLog
  <2>3. /\ chunk' \in Seq(Int) /\ Len(chunk') = k
        /\ \A i \in 1..k : chunk'[i] = pipe[i]
    BY <2>1 DEF InTransit
  <2>4. /\ pipe' \in Seq(Int) /\ Len(pipe') = Len(pipe) - k
        /\ \A i \in 1..Len(pipe) - k : pipe'[i] = pipe[k + i] /\ k + i \in 1..Len(pipe)
    <3>1. pipe \in Seq(Int)
      BY DEF InTransit
    <3>2. QED BY ONLY <2>1, <3>1, SuffixFacts
  <2>5. InTransit'
    BY <2>2, <2>3, <2>4 DEF InTransit
  <2>6. Rising(chunk') /\ Rising(pipe') /\ Before(chunk', pipe')
    <3>1. \A i, j \in 1..Len(pipe) : i < j => pipe[i] < pipe[j]
      BY DEF Ordered, Rising
    <3>2. ASSUME NEW i \in 1..k, NEW j \in 1..k, i < j PROVE chunk'[i] < chunk'[j]
      <4>1. i \in 1..Len(pipe) /\ j \in 1..Len(pipe)
        BY <1>n, <3>2
      <4>2. QED BY <2>3, <3>1, <3>2, <4>1
    <3>3. ASSUME NEW i \in 1..Len(pipe) - k, NEW j \in 1..Len(pipe) - k, i < j
          PROVE  pipe'[i] < pipe'[j]
      <4>1. k + i < k + j /\ k + i \in 1..Len(pipe) /\ k + j \in 1..Len(pipe)
        BY <3>3 DEF InTransit
      <4>2. QED BY <2>4, <3>1, <4>1
    <3>4. ASSUME NEW i \in 1..k, NEW j \in 1..Len(pipe) - k PROVE chunk'[i] < pipe'[j]
      <4>1. i < k + j /\ i \in 1..Len(pipe) /\ k + j \in 1..Len(pipe)
        BY <3>4 DEF InTransit
      <4>2. QED BY <2>3, <2>4, <3>1, <4>1
    <3>5. QED BY <2>3, <2>4, <3>2, <3>3, <3>4 DEF Rising, Before
  <2>7. Before(file, chunk') /\ Before(file, pipe')
    <3>1. \A i \in 1..Len(file), j \in 1..Len(pipe) : file[i] < pipe[j]
      BY DEF Ordered, Before
    <3>2. 1..k \subseteq 1..Len(pipe)
      BY DEF InTransit
    <3>3. QED BY <2>3, <2>4, <3>1, <3>2 DEF Before
  <2>8. UpTo(chunk', written) /\ UpTo(pipe', written)
    <3>1. \A i \in 1..Len(pipe) : pipe[i] <= written
      BY DEF Ordered, UpTo
    <3>2. 1..k \subseteq 1..Len(pipe)
      BY DEF InTransit
    <3>3. \A i \in 1..Len(chunk') : chunk'[i] <= written
      BY <2>3, <3>1, <3>2
    <3>4. \A i \in 1..Len(pipe') : pipe'[i] <= written
      BY <2>4, <3>1
    <3>5. QED BY <3>3, <3>4 DEF UpTo
  <2>9. Ordered'
    BY <2>2, <2>6, <2>7, <2>8 DEF Ordered
  <2>10. Complete'
    <3>1. ASSUME lost = 0
          PROVE  /\ Numbered(chunk', Len(file)) /\ Numbered(pipe', Len(file) + Len(chunk'))
                 /\ readEnd => Len(file) + Len(chunk') + Len(pipe') = written
      <4>1. Len(chunk) = 0
        BY <2>2
      <4>2. /\ \A i \in 1..Len(pipe) : pipe[i] = Len(file) + i
            /\ readEnd => Len(file) + Len(pipe) = written
        BY <3>1, <4>1 DEF Complete, Numbered, InTransit
      <4>3. \A i \in 1..k : chunk'[i] = Len(file) + i
        <5>1. 1..k \subseteq 1..Len(pipe)
          BY <1>n
        <5>2. QED BY <2>3, <4>2, <5>1
      <4>4. \A i \in 1..Len(pipe) - k : pipe'[i] = Len(file) + k + i
        BY <2>4, <4>2 DEF InTransit
      <4>5. Len(file) + Len(chunk') + Len(pipe') = Len(file) + Len(pipe)
        BY <1>n, <2>3, <2>4
      <4>6. QED BY <2>3, <2>4, <4>2, <4>3, <4>4, <4>5 DEF Numbered
    <3>2. QED BY <2>2, <3>1 DEF Complete
  <2>11. StrayOrdered'
    <3>1. ASSUME NEW c \in stray PROVE Before(c, chunk') /\ Before(c, pipe')
      <4>1. \A i \in 1..Len(c), j \in 1..Len(pipe) : c[i] < pipe[j]
        BY DEF StrayOrdered, Before
      <4>2. 1..k \subseteq 1..Len(pipe)
        BY DEF InTransit
      <4>3. QED BY <2>3, <2>4, <4>1, <4>2 DEF Before
    <3>2. QED BY <2>2, <3>1 DEF StrayOrdered
  <2>12. QED BY <2>2, <2>5, <2>9, <2>10, <2>11
<1>4. CASE PumpEnds
  BY <1>4 DEF PumpEnds, procVars, serverLog, InTransit, Ordered, StrayOrdered, Complete
<1>5. CASE PumpSends
  BY <1>5, ChunkAppended DEF PumpSends, AppendToFile, procVars
<1>6. CASE PumpLoses
  BY <1>6, ChunkLost DEF PumpLoses, procVars
<1>7. CASE CloseReadEnd
  <2>1. pipe' = <<>> /\ readEnd' = FALSE /\ UNCHANGED <<written, file, chunk, stray, late, pump, lost>>
    BY <1>7 DEF CloseReadEnd, procVars, serverLog
  <2>2. InTransit'
    BY <2>1 DEF InTransit
  <2>a. /\ Rising(<<>>) /\ UpTo(<<>>, written) /\ Before(file, <<>>) /\ Before(chunk, <<>>)
        /\ \A c \in stray : Before(c, <<>>)
    BY EmptyFacts
  <2>b. Ordered'
    BY <2>1, <2>a DEF Ordered
  <2>c. StrayOrdered'
    BY <2>1, <2>a DEF StrayOrdered
  <2>3. Complete'
    BY <2>1 DEF Complete, Numbered
  <2>4. QED BY <2>1, <2>2, <2>b, <2>c, <2>3
<1>8. CASE WaitReturns \/ LogsDone \/ ReportEnd
  BY <1>8, LinesAlone DEF WaitReturns, LogsDone, ReportEnd, procVars, serverLog
<1>9. ASSUME NEW r \in Readers, ReaderCalls(r) \/ ReaderStep(r) \/ ReaderLeaves(r)
      PROVE  LineInv'
  BY <1>9, LinesAlone
  DEF ReaderCalls, ReaderStep, ReaderLeaves, OpenLog, DrainLogs, DrainEnds, CheckState,
      procVars, agentLog, serverLog
<1>10. ASSUME NEW c \in stray, StrayAppends(c) PROVE LineInv'
  BY <1>10, StrayAppended
<1>11. QED BY <1>1, <1>2, <1>3, <1>4, <1>5, <1>6, <1>7, <1>8, <1>9, <1>10 DEF LogNext, PumpStep, RunEnds

\* Every line of a job is in its log file at most once, whatever appends fail and
\* whenever the handlers they leave behind write; the other lines are in the order
\* they were written, and while no call fails the file is a prefix of the output
\* (pumpLogs, AppendLogs, append).
THEOREM LogIsInOrder == LogSpec => []LinesOnceInOrder
<1>1. LineInv => LinesOnceInOrder
  BY DEF LineInv, Ordered, InOrder, Complete, Numbered, LinesOnceInOrder
<1>2. QED BY <1>1, LineInvInit, LineInvStep, PTL DEF LogSpec

-----------------------------------------------------------------------------
(* The end of a job and its readers *)

\* The readers' variables are functions, and ends are ends.
ReadersTyped ==
    /\ pc \in [Readers -> ReaderPcs]
    /\ opened \in [Readers -> BOOLEAN]
    /\ pos \in [Readers -> Nat]
    /\ st \in {"RUNNING"} \cup Ends

\* The end is reported when pumpLogs is done, and by nobody else.
Sealed == /\ run \in {"report", "returned"} => pump = "done"
          /\ st # "RUNNING" => run = "returned"

\* The last drain of a follower begins after the end.
FinalAfterEnd ==
    \A r \in Readers : (pc[r] = "final" \/ (pc[r] = "returned" /\ r \in Tailers))
                          => st # "RUNNING"

LogInv == ReadersTyped /\ Sealed /\ FinalAfterEnd /\ TailIsDelivered

\* At the start nothing has ended and nobody reads.
LEMMA LogInvInit == LogInit => LogInv
  BY LogAssumption
  DEF LogInit, LogInv, ReadersTyped, Sealed, FinalAfterEnd, TailIsDelivered, ReaderPcs

\* All that is new in the file is written late.
GrowsLate ==
    \/ file' = file /\ late' = late
    \/ \E c \in stray : file' = file \o c /\ late' = late \cup LinesOf(c)

\* Nothing else is appended to the file of an ended job.
LEMMA SealStep == Sealed /\ [LogNext]_logVars => (st # "RUNNING" => GrowsLate)
<1>1. SUFFICES ASSUME Sealed, [LogNext]_logVars, st # "RUNNING" PROVE GrowsLate
  OBVIOUS
<1> USE DEF GrowsLate
<1>2. pump = "done"
  BY <1>1 DEF Sealed
<1>3. CASE PumpStep
  BY <1>2, <1>3 DEF PumpStep, PumpReads, PumpEnds, PumpSends, PumpLoses, serverLog
<1>4. CASE RunEnds
  BY <1>4 DEF RunEnds, WaitReturns, CloseReadEnd, LogsDone, ReportEnd, serverLog
<1>5. CASE WriteLine \/ ProcessExits \/ BackgroundExits
  BY <1>5 DEF WriteLine, ProcessExits, BackgroundExits, serverLog
<1>6. ASSUME NEW r \in Readers, ReaderCalls(r) \/ ReaderStep(r) \/ ReaderLeaves(r)
      PROVE  GrowsLate
  BY <1>6 DEF ReaderCalls, ReaderStep, ReaderLeaves, OpenLog, DrainLogs, DrainEnds, CheckState,
              serverLog
<1>7. CASE UNCHANGED logVars
  BY <1>7 DEF logVars, serverLog
<1>8. ASSUME NEW c \in stray, StrayAppends(c) PROVE GrowsLate
  BY <1>8 DEF StrayAppends, AppendToFile
<1>9. QED BY <1>1, <1>3, <1>4, <1>5, <1>6, <1>7, <1>8 DEF LogNext

\* A step that leaves the readers alone, grows the file of an ended job by late
\* lines only and does not revive a job preserves the invariant.
LEMMA ReadersAlone ==
    ASSUME InTransit, LogInv, UNCHANGED readerVars, Sealed',
           st' \in {"RUNNING"} \cup Ends,
           st # "RUNNING" => st' = st /\ GrowsLate
    PROVE  LogInv'
<1>1. pc' = pc /\ opened' = opened /\ pos' = pos
  BY DEF readerVars
<1>2. ReadersTyped'
  BY <1>1 DEF LogInv, ReadersTyped
<1>3. FinalAfterEnd'
  BY <1>1 DEF LogInv, FinalAfterEnd
<1>4. TailIsDelivered'
  <2> SUFFICES ASSUME NEW r \in Tailers, pc[r] = "returned", opened[r],
                      NEW i \in (pos[r] + 1)..Len(file')
               PROVE  file'[i] \in late'
    BY <1>1 DEF TailIsDelivered
  <2>1. r \in Readers /\ pos[r] \in Nat /\ st # "RUNNING"
    BY LogAssumption DEF LogInv, ReadersTyped, FinalAfterEnd
  <2>2. \A k \in (pos[r] + 1)..Len(file) : file[k] \in late
    BY DEF LogInv, TailIsDelivered
  <2>3. CASE file' = file /\ late' = late
    BY <2>2, <2>3
  <2>4. ASSUME NEW c \in stray, file' = file \o c, late' = late \cup LinesOf(c)
        PROVE  file'[i] \in late'
    <3>1. file \in Seq(Int) /\ c \in Seq(Int) /\ Len(file) \in Nat
      BY DEF InTransit
    <3>2. CASE i <= Len(file) /\ i >= 1
      <4>1. i \in 1..Len(file \o c) /\ i \in 1..Len(file)
        BY <2>4, <3>1, <3>2
      <4>2. file'[i] = file[i]
        BY <2>4, <3>1, <4>1
      <4>3. i \in (pos[r] + 1)..Len(file)
        BY <2>1, <3>1, <3>2
      <4>4. QED BY <2>2, <2>4, <4>2, <4>3
    <3>3. CASE i > Len(file)
      <4>1. i \in 1..Len(file \o c)
        BY <2>1, <2>4, <3>1, <3>3
      <4>2. \E k \in 1..Len(c) : file'[i] = c[k]
        BY <2>4, <3>1, <3>3, <4>1, Halves
      <4>3. QED BY <2>4, <4>2 DEF LinesOf
    <3>4. i >= 1
      BY LogAssumption, <2>1
    <3>5. QED BY <2>1, <3>1, <3>2, <3>3, <3>4
  <2>5. QED BY <2>1, <2>3, <2>4 DEF GrowsLate
<1>5. QED BY <1>2, <1>3, <1>4 DEF LogInv

\* Every step preserves the invariant.
LEMMA LogInvStep == InTransit /\ LogInv /\ [LogNext]_logVars => LogInv'
<1>1. SUFFICES ASSUME InTransit, LogInv, [LogNext]_logVars PROVE LogInv'
  OBVIOUS
<1>2. Sealed /\ (st # "RUNNING" => GrowsLate)
  BY <1>1, SealStep DEF LogInv
<1>3. CASE PumpStep
  <2>1. UNCHANGED <<st, run, readerVars>> /\ pump # "done"
    BY <1>3 DEF PumpStep, PumpReads, PumpEnds, PumpSends, PumpLoses, serverLog, agentLog
  <2>2. Sealed'
    BY <2>1, <1>2 DEF Sealed
  <2>3. QED BY <1>1, <1>2, <2>1, <2>2, ReadersAlone DEF LogInv, ReadersTyped
<1>4. CASE RunEnds
  <2>1. UNCHANGED <<pump, readerVars>>
    BY <1>4 DEF RunEnds, WaitReturns, CloseReadEnd, LogsDone, ReportEnd
  <2>2. Sealed'
    BY <1>4, <1>2 DEF RunEnds, WaitReturns, CloseReadEnd, LogsDone, ReportEnd, Sealed, serverLog
  <2>3. st' \in {"RUNNING"} \cup Ends /\ (st # "RUNNING" => st' = st)
    BY <1>1, <1>2, <1>4
    DEF RunEnds, WaitReturns, CloseReadEnd, LogsDone, ReportEnd, Sealed, serverLog, LogInv, ReadersTyped
  <2>4. QED BY <1>1, <1>2, <2>1, <2>2, <2>3, ReadersAlone
<1>5. CASE WriteLine \/ ProcessExits \/ BackgroundExits \/ UNCHANGED logVars
  <2>1. UNCHANGED <<st, run, pump, readerVars>>
    BY <1>5 DEF WriteLine, ProcessExits, BackgroundExits, logVars, serverLog, agentLog
  <2>2. Sealed'
    BY <2>1, <1>2 DEF Sealed
  <2>3. QED BY <1>1, <1>2, <2>1, <2>2, ReadersAlone DEF LogInv, ReadersTyped
<1>6. ASSUME NEW r \in Readers, ReaderCalls(r) \/ ReaderStep(r) \/ ReaderLeaves(r)
      PROVE  LogInv'
  <2>1. UNCHANGED <<st, run, pump, file, late>> /\ Len(file) \in Nat
    BY <1>6 DEF ReaderCalls, ReaderStep, ReaderLeaves, OpenLog, DrainLogs, DrainEnds, CheckState,
                serverLog, agentLog, InTransit
  <2>2. Sealed'
    BY <2>1, <1>2 DEF Sealed
  <2>3. ReadersTyped /\ FinalAfterEnd /\ TailIsDelivered
    BY <1>1 DEF LogInv
  <2>4. CASE ReaderCalls(r)
    BY <2>1, <2>2, <2>3, <2>4, LogAssumption
    DEF ReaderCalls, LogInv, ReadersTyped, FinalAfterEnd, TailIsDelivered, ReaderPcs
  <2>5. CASE OpenLog(r)
    BY <2>1, <2>2, <2>3, <2>5, LogAssumption
    DEF OpenLog, LogInv, ReadersTyped, FinalAfterEnd, TailIsDelivered, ReaderPcs
  <2>6. CASE DrainLogs(r)
    BY <2>1, <2>2, <2>3, <2>6, LogAssumption
    DEF DrainLogs, LogInv, ReadersTyped, FinalAfterEnd, TailIsDelivered
  <2>7. CASE DrainEnds(r)
    <3>1. ReadersTyped'
      BY <2>1, <2>3, <2>7 DEF DrainEnds, ReadersTyped, ReaderPcs
    <3>2. /\ \A q \in Readers \ {r} : pc'[q] = pc[q]
          /\ pc'[r] = "check" \/ (pc'[r] = "returned" /\ (r \in Tailers => pc[r] = "final"))
          /\ opened' = opened /\ pos' = pos
      BY <2>3, <2>7 DEF DrainEnds, ReadersTyped
    <3>3. FinalAfterEnd'
      <4>1. ASSUME NEW q \in Readers, q # r,
                   pc'[q] = "final" \/ (pc'[q] = "returned" /\ q \in Tailers)
            PROVE  st' # "RUNNING"
        BY <2>1, <2>3, <3>2, <4>1 DEF FinalAfterEnd
      <4>2. ASSUME pc'[r] = "final" \/ (pc'[r] = "returned" /\ r \in Tailers)
            PROVE  st' # "RUNNING"
        BY <2>1, <2>3, <3>2, <4>2 DEF FinalAfterEnd
      <4>3. QED BY <4>1, <4>2 DEF FinalAfterEnd
    <3>4. opened[r] => pos[r] = Len(file)
      BY <2>7 DEF DrainEnds
    <3>5. TailIsDelivered'
      BY <2>1, <2>3, <3>2, <3>4, LogAssumption DEF TailIsDelivered
    <3>6. QED BY <2>2, <3>1, <3>3, <3>5 DEF LogInv
  <2>8. CASE CheckState(r)
    BY <2>1, <2>2, <2>3, <2>8, LogAssumption
    DEF CheckState, IsTerminalState, Ends, LogInv, ReadersTyped, FinalAfterEnd, TailIsDelivered, ReaderPcs
  <2>9. CASE ReaderLeaves(r)
    BY <2>1, <2>2, <2>3, <2>9, LogAssumption
    DEF ReaderLeaves, LogInv, ReadersTyped, FinalAfterEnd, TailIsDelivered, ReaderPcs
  <2>10. QED BY <1>6, <2>4, <2>5, <2>6, <2>7, <2>8, <2>9 DEF ReaderStep
<1>7. ASSUME NEW c \in stray, StrayAppends(c) PROVE LogInv'
  <2>1. UNCHANGED <<st, run, pump, readerVars>>
    BY <1>7 DEF StrayAppends, agentLog
  <2>2. Sealed'
    BY <2>1, <1>2 DEF Sealed
  <2>3. QED BY <1>1, <1>2, <2>1, <2>2, ReadersAlone DEF LogInv, ReadersTyped
<1>8. QED BY <1>1, <1>3, <1>4, <1>5, <1>6, <1>7 DEF LogNext

\* A follower that has the file open when the job ends is sent all of it, however
\* the appends, the report of the end and the reads interleave, but for what
\* handlers left behind by failed calls write after its last drain (GetJobLogs).
THEOREM TailDelivered == LogSpec => []TailIsDelivered
<1>1. LogInv => TailIsDelivered
  BY DEF LogInv
<1>2. LineInv => InTransit
  BY DEF LineInv
<1>3. QED BY <1>1, <1>2, LineInvInit, LineInvStep, LogInvInit, LogInvStep, PTL DEF LogSpec

\* The log of a job that has ended is appended to by handlers that failed calls
\* left behind and by nobody else: executor.run reports the end after pumpLogs is
\* done, and the control plane runs no other append for it.
THEOREM EndSealsLog == LogSpec => EndedLogIsSealed
<1>1. LogInv /\ [LogNext]_logVars
        => [st # "RUNNING" => file' = file \/ \E c \in stray : file' = file \o c]_logVars
  BY SealStep DEF LogInv, GrowsLate
<1>2. LineInv => InTransit
  BY DEF LineInv
<1>3. QED BY <1>1, <1>2, LineInvInit, LineInvStep, LogInvInit, LogInvStep, PTL DEF LogSpec, EndedLogIsSealed
=============================================================================
