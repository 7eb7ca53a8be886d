------------------------------ MODULE JobLogs ------------------------------
(***************************************************************************)
(* The output of one run of a job, from the process to those who read it:  *)
(* the pipe, the goroutine pumpLogs that forwards it with AppendLogs, the  *)
(* log file of the control plane, the goroutine run that reports the end,  *)
(* and the readers of the file (GetJobLogs and jobLogsStream, with or      *)
(* without follow).                                                        *)
(*                                                                         *)
(* A line is the number of its write.  The write end of the pipe is held   *)
(* by the process and by children it may leave in the background.          *)
(***************************************************************************)
EXTENDS Integers, Sequences

CONSTANTS Readers,   \* calls that read the log
          Tailers,   \* those with follow set
          MaxLines,  \* bound: lines the job writes
          MaxLost    \* bound: calls of the agent that fail

ASSUME LogAssumption == Tailers \subseteq Readers /\ MaxLines \in Nat /\ MaxLost \in Nat

VARIABLES
    written,   \* lines written so far
    holders,   \* who has the write end of the pipe open
    pipe,      \* lines in the pipe
    readEnd,   \* whether the agent has the read end open
    pump,      \* where pumpLogs is
    chunk,     \* the lines it has read and not sent
    run,       \* where the goroutine run is
    st,        \* the state column of the job
    exists,    \* whether the log file exists
    file,      \* its lines
    stray,     \* chunks in handlers of AppendLogs whose caller has gone
    late,      \* history: lines such a handler wrote
    pc,        \* pc[r]: where reader r is
    opened,    \* opened[r]: whether it has the file open
    pos,       \* pos[r]: how many lines it has been sent
    lost       \* calls that failed so far

procVars   == <<written, holders>>
agentLog   == <<pipe, readEnd, pump, chunk, run>>
serverLog  == <<st, exists, file, stray, late>>
readerVars == <<pc, opened, pos>>
logVars    == <<procVars, agentLog, serverLog, readerVars, lost>>

Ends == {"COMPLETED", "FAILED", "CANCELLED", "TIMEOUT"}

ReaderPcs == {"idle", "open", "drain", "check", "final", "returned", "left"}

LogTypeOK ==
    /\ written \in 0..MaxLines
    /\ holders \subseteq {"process", "background"}
    /\ pipe \in Seq(1..MaxLines) /\ chunk \in Seq(1..MaxLines) /\ file \in Seq(1..MaxLines)
    /\ stray \in SUBSET Seq(1..MaxLines) /\ late \in SUBSET (1..MaxLines)
    /\ readEnd \in BOOLEAN /\ exists \in BOOLEAN
    /\ pump \in {"reading", "sending", "done"}
    /\ run \in {"wait", "closing", "logs", "report", "returned"}
    /\ st \in {"RUNNING"} \cup Ends
    /\ pc \in [Readers -> ReaderPcs]
    /\ opened \in [Readers -> BOOLEAN]
    /\ pos \in [Readers -> 0..MaxLines]
    /\ lost \in 0..MaxLost

\* The process has just been started; RUNNING stands for every state that is
\* not an end.
LogInit ==
    /\ written = 0 /\ holders = {"process"}
    /\ pipe = <<>> /\ readEnd = TRUE
    /\ pump = "reading" /\ chunk = <<>>
    /\ run = "wait" /\ st = "RUNNING"
    /\ exists = FALSE /\ file = <<>> /\ stray = {} /\ late = {}
    /\ pc = [r \in Readers |-> "idle"]
    /\ opened = [r \in Readers |-> FALSE]
    /\ pos = [r \in Readers |-> 0]
    /\ lost = 0

-----------------------------------------------------------------------------
(* The job's processes *)

\* A write after the read end was closed fails.
WriteLine ==
    /\ holders # {} /\ readEnd
    /\ written < MaxLines
    /\ written' = written + 1
    /\ pipe' = Append(pipe, written + 1)
    /\ UNCHANGED <<holders, readEnd, pump, chunk, run, serverLog, readerVars, lost>>

\* The process exits, maybe leaving a child that inherited its output.
ProcessExits ==
    /\ "process" \in holders
    /\ \E rest \in SUBSET {"background"} : holders' = rest
    /\ UNCHANGED <<written, agentLog, serverLog, readerVars, lost>>

BackgroundExits ==
    /\ holders = {"background"}
    /\ holders' = {}
    /\ UNCHANGED <<written, agentLog, serverLog, readerVars, lost>>

-----------------------------------------------------------------------------
(* pumpLogs *)

\* Read returns some of what the pipe holds.
PumpReads ==
    /\ pump = "reading"
    /\ readEnd
    /\ \E k \in 1..Len(pipe) : /\ chunk' = SubSeq(pipe, 1, k)
                               /\ pipe' = SubSeq(pipe, k + 1, Len(pipe))
    /\ pump' = "sending"
    /\ UNCHANGED <<procVars, readEnd, run, serverLog, readerVars, lost>>

\* Read fails: the end of the output, or the read end was closed.
PumpEnds ==
    /\ pump = "reading"
    /\ ~readEnd \/ (holders = {} /\ pipe = <<>>)
    /\ pump' = "done"
    /\ UNCHANGED <<procVars, pipe, readEnd, chunk, run, serverLog, readerVars, lost>>

\* AppendLogs: the file is created when needed and the lines are added.
AppendToFile(lines) == exists' = TRUE /\ file' = file \o lines

PumpSends ==
    /\ pump = "sending"
    /\ AppendToFile(chunk)
    /\ pump' = "reading"
    /\ chunk' = <<>>
    /\ UNCHANGED <<procVars, pipe, readEnd, run, st, stray, late, readerVars, lost>>

\* Mutant: a chunk whose call failed is sent again.
PumpLoses_retry ==
    /\ pump = "sending"
    /\ lost < MaxLost
    /\ lost' = lost + 1
    /\ stray' \in {stray, stray \cup {chunk}}
    /\ UNCHANGED <<procVars, pipe, readEnd, pump, chunk, run, st, exists, file, late, readerVars>>

\* The call fails and the chunk is not sent again.  The server may have its
\* handler, which does not look at its context, all the same.
PumpLoses ==
    /\ pump = "sending"
    /\ lost < MaxLost
    /\ lost' = lost + 1
    /\ stray' \in {stray, stray \cup {chunk}}
    /\ pump' = "reading"
    /\ chunk' = <<>>
    /\ UNCHANGED <<procVars, pipe, readEnd, run, st, exists, file, late, readerVars>>

LinesOf(s) == {s[i] : i \in 1..Len(s)}

\* A handler that was left behind writes, whatever was written or reported since.
StrayAppends(c) ==
    /\ AppendToFile(c)
    /\ stray' = stray \ {c}
    /\ late' = late \cup LinesOf(c)
    /\ UNCHANGED <<procVars, agentLog, st, readerVars, lost>>

-----------------------------------------------------------------------------
(* The end of executor.run *)

WaitReturns ==
    /\ run = "wait"
    /\ "process" \notin holders
    /\ run' = "closing"
    /\ UNCHANGED <<procVars, pipe, readEnd, pump, chunk, serverLog, readerVars, lost>>

\* Mutant: the read end stays open until everything is read.
CloseReadEnd_never ==
    /\ run = "closing"
    /\ run' = "logs"
    /\ UNCHANGED <<procVars, pipe, readEnd, pump, chunk, serverLog, readerVars, lost>>

\* What is still in the pipe is gone.
CloseReadEnd ==
    /\ run = "closing"
    /\ readEnd' = FALSE
    /\ pipe' = <<>>
    /\ run' = "logs"
    /\ UNCHANGED <<procVars, pump, chunk, serverLog, readerVars, lost>>

\* Mutant: the end is reported while the last chunk may still be on its way.
LogsDone_notAwaited ==
    /\ run = "logs"
    /\ run' = "report"
    /\ UNCHANGED <<procVars, pipe, readEnd, pump, chunk, serverLog, readerVars, lost>>

LogsDone ==
    /\ run = "logs"
    /\ pump = "done"
    /\ run' = "report"
    /\ UNCHANGED <<procVars, pipe, readEnd, pump, chunk, serverLog, readerVars, lost>>

\* The end is reported once.
ReportEnd ==
    /\ run = "report"
    /\ run' = "returned"
    /\ \/ (\E s \in Ends : st' = s) /\ UNCHANGED lost
       \/ lost < MaxLost /\ lost' = lost + 1 /\ UNCHANGED st
    /\ UNCHANGED <<procVars, pipe, readEnd, pump, chunk, exists, file, stray, late, readerVars>>

-----------------------------------------------------------------------------
(* A reader: GetJobLogs, jobLogsStream *)

ReaderCalls(r) ==
    /\ pc[r] = "idle"
    /\ pc' = [pc EXCEPT ![r] = "open"]
    /\ UNCHANGED <<opened, pos, procVars, agentLog, serverLog, lost>>

\* The file is opened unless it is open, and unless it does not exist yet.
OpenLog(r) ==
    /\ pc[r] = "open"
    /\ opened' = [opened EXCEPT ![r] = @ \/ exists]
    /\ pc' = [pc EXCEPT ![r] = "drain"]
    /\ UNCHANGED <<pos, procVars, agentLog, serverLog, lost>>

\* One read of drainLogs.
DrainLogs(r) ==
    /\ pc[r] \in {"drain", "final"}
    /\ opened[r]
    /\ \E k \in (pos[r] + 1)..Len(file) : pos' = [pos EXCEPT ![r] = k]
    /\ UNCHANGED <<pc, opened, procVars, agentLog, serverLog, lost>>

\* drainLogs has met the end of the file, or there is no file.
DrainEnds(r) ==
    /\ pc[r] \in {"drain", "final"}
    /\ opened[r] => pos[r] = Len(file)
    /\ pc' = [pc EXCEPT ![r] = IF pc[r] = "drain" /\ r \in Tailers THEN "check" ELSE "returned"]
    /\ UNCHANGED <<opened, pos, procVars, agentLog, serverLog, lost>>

\* Mutant: a timeout is not an end.
IsTerminalState_noTimeout(s) == s \in {"COMPLETED", "FAILED", "CANCELLED"}

IsTerminalState(s) == s \in Ends

\* Mutant: the reader of an ended job returns without another drain.
CheckState_noFinalDrain(r) ==
    /\ pc[r] = "check"
    /\ pc' = [pc EXCEPT ![r] = IF IsTerminalState(st) THEN "returned" ELSE "open"]
    /\ UNCHANGED <<opened, pos, procVars, agentLog, serverLog, lost>>

\* The reader of an ended job drains the file again, others wait and go on.
CheckState(r) ==
    /\ pc[r] = "check"
    /\ pc' = [pc EXCEPT ![r] = IF IsTerminalState(st) THEN "final" ELSE "open"]
    /\ UNCHANGED <<opened, pos, procVars, agentLog, serverLog, lost>>

\* The client goes away, or opening or reading fails.
ReaderLeaves(r) ==
    /\ pc[r] \in {"open", "drain", "check", "final"}
    /\ pc' = [pc EXCEPT ![r] = "left"]
    /\ UNCHANGED <<opened, pos, procVars, agentLog, serverLog, lost>>

-----------------------------------------------------------------------------

PumpStep == PumpReads \/ PumpEnds \/ PumpSends \/ PumpLoses

RunEnds == WaitReturns \/ CloseReadEnd \/ LogsDone \/ ReportEnd

ReaderStep(r) == OpenLog(r) \/ DrainLogs(r) \/ DrainEnds(r) \/ CheckState(r)

LogNext == \/ WriteLine \/ ProcessExits \/ BackgroundExits
           \/ PumpStep
           \/ \E c \in stray : StrayAppends(c)
           \/ RunEnds
           \/ \E r \in Readers : ReaderCalls(r) \/ ReaderStep(r) \/ ReaderLeaves(r)

LogSpec == LogInit /\ [][LogNext]_logVars

\* Goroutines and calls go on.  Nothing is assumed of the job's processes.
FairLogSpec == /\ LogSpec
               /\ WF_logVars(PumpStep) /\ WF_logVars(RunEnds)
               /\ \A r \in Readers : WF_logVars(ReaderStep(r))

-----------------------------------------------------------------------------
(* Properties *)

\* Every line is in the file at most once, also when a call failed whose handler
\* goes on, and only lines of such a handler can be behind ones that were written
\* after them.  While no call fails only the end of the output can be missing:
\* closing the read end under the pump (run, pr.Close) drops what is in the pipe
\* and never a line before one that is stored (pumpLogs, append).
LinesOnceInOrder ==
    /\ \A i, j \in 1..Len(file) : i < j => /\ file[i] # file[j]
                                           /\ file[i] < file[j] \/ file[j] \in late
    /\ lost = 0 => \A i \in 1..Len(file) : file[i] = i

\* Once a job has ended its file grows by what handlers left behind still write
\* and by nothing else: the end is reported after pumpLogs is done (run,
\* <-logsDone).  The last drain of a reader rests on it.
EndedLogIsSealed ==
    [][st # "RUNNING" => file' = file \/ \E c \in stray : file' = file \o c]_logVars

\* A follower that has the file open when the job ends gets all of it but what
\* handlers left behind write after its last drain (GetJobLogs, the drain after
\* the end).
TailIsDelivered ==
    \A r \in Tailers : pc[r] = "returned" /\ opened[r] =>
        \A i \in (pos[r] + 1)..Len(file) : file[i] \in late

\* A follower of an ended job comes back (GetJobLogs, isTerminalState).
FollowersReturn ==
    \A r \in Tailers : (st # "RUNNING" /\ pc[r] # "idle") ~> pc[r] \in {"returned", "left"}

\* The end of a job whose process has exited is reported, although a child in
\* the background may hold its output open for ever (run, pr.Close).
ExitIsReported == "process" \notin holders ~> run = "returned"
=============================================================================
