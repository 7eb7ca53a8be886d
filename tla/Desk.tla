-------------------------------- MODULE Desk --------------------------------
(***************************************************************************)
(* A user at the desk, with skctl (over gRPC) or the console (over HTTP):  *)
(* submitting a job, with the conversions of its numbers, the deadline of  *)
(* skctl, and retries; and following the log of a job until its end, which *)
(* its agent reports once.                                                 *)
(*                                                                         *)
(* Durations are in nanoseconds, NsPerSec to a second; MaxInt and SizeMax  *)
(* stand for the limits of int64 and uint64, and Words for the number of   *)
(* values of 32 bits, scaled with them.  A count is one of CPUs or one of  *)
(* accelerators, which are treated alike.                                  *)
(***************************************************************************)
EXTENDS Lifecycle

CONSTANTS Asks,         \* bound: what a user may ask for: command, env, size, time, count, prio
          NsPerSec, MaxInt, SizeMax, Words,
          MaxTries,     \* bound: submissions
          MaxDenials,   \* bound: statements of CreateJob that fail
          NoJob         \* no row, nothing asked

ASSUME DeskAssumption ==
    /\ NsPerSec \in Nat \ {0} /\ MaxInt \in Nat /\ SizeMax \in Nat \ {0}
    /\ MaxTries \in Nat /\ MaxDenials \in Nat
    /\ Words \in Nat \ {0}
    /\ \A a \in Asks : /\ a.time.ns \in -MaxInt..MaxInt /\ a.size.halves \in Int /\ a.size.unit \in Nat
                       /\ a.count \in Nat /\ a.prio \in Int

VARIABLES
    client,    \* where the user is with a submission, and what came back
    calls,     \* the submissions the control plane works on
    jobs,      \* jobs[t]: the row that try t left
    follower,  \* where a call that follows a log is, and its door
    result,    \* what has become of the job that is followed
    tries, denials

deskVars == <<client, calls, jobs, follower, result, tries, denials>>

Tries == 1..MaxTries

DeskTypeOK ==
    /\ client.pc \in {"idle", "waiting", "told"} /\ client.door \in {"grpc", "web"}
    /\ client.ask \in Asks \cup {NoJob} /\ client.answer \in {"none", "ok", "denied", "unknown"}
    /\ \A c \in calls : c.try \in Tries /\ c.step \in {"create", "ok", "denied"} /\ c.mine \in BOOLEAN
    /\ jobs \in [Tries -> {NoJob} \cup {jobs[t] : t \in Tries}]
    /\ follower.pc \in {"idle", "following", "returned", "left"} /\ follower.door \in {"grpc", "web"}
    /\ result \in {"open", "ended", "untold"}
    /\ tries \in 0..MaxTries /\ denials \in 0..MaxDenials

DeskInit ==
    /\ client = [pc |-> "idle", door |-> "grpc", ask |-> NoJob, answer |-> "none"]
    /\ calls = {}
    /\ jobs = [t \in Tries |-> NoJob]
    /\ follower = [pc |-> "idle", door |-> "grpc"]
    /\ result = "open"
    /\ tries = 0 /\ denials = 0

-----------------------------------------------------------------------------
(* Conversions *)

\* Go's conversions of a float drop the fraction.
Truncate(n, d) == IF n >= 0 THEN n \div d ELSE -((-n) \div d)

\* The conversion of a float that is not in the range of uint64 is up to the
\* machine: it wraps as far as an int64 goes, saturates or gives the middle.
ToUint64(v) ==
    IF v < 0 THEN {0, SizeMax + (IF v < -(SizeMax \div 2) THEN -(SizeMax \div 2) ELSE v)}
    ELSE IF v >= SizeMax THEN {SizeMax \div 2, SizeMax - 1} ELSE {v}

\* parseSize and the walltime of skctl.  A size is in halves of its unit.
SkctlSize(size) == IF size.ok THEN ToUint64(Truncate(size.halves * size.unit, 2)) ELSE {}

\* Mutant: the duration is stored as it is.
SkctlWalltime_raw(time) == IF time.ok THEN {time.ns} ELSE {}

SkctlWalltime(time) == IF time.ok THEN {Truncate(time.ns, NsPerSec)} ELSE {}

\* Those of the console, which refuse what is negative.
parseSize(size) == IF size.halves < 0 THEN {} ELSE SkctlSize(size)

parseWalltime(time) == IF time.ns < 0 THEN {} ELSE SkctlWalltime(time)

\* uint32(n) and int32(n) keep the low 32 bits.
ToUint32(n) == n % Words

ToInt32(n) == ((n + (Words \div 2)) % Words) - (Words \div 2)

Int32s == -(Words \div 2)..(Words \div 2) - 1

\* The rows a submission may lead to; none if it is refused.  skctl checks and
\* converts before the call, the console's handler after it.  The flags of
\* skctl have 64 bits, the fields of the console's body 32.
cmdSubmit(ask) ==
    IF ~ask.command \/ ~ask.env THEN {}
    ELSE {[door |-> "grpc", ask |-> ask, mem |-> m, walltime |-> w,
           count |-> ToUint32(ask.count), prio |-> ToInt32(ask.prio)] :
             m \in SkctlSize(ask.size), w \in SkctlWalltime(ask.time)}

submitJob(ask) ==
    IF ~ask.command \/ ask.count >= Words \/ ask.prio \notin Int32s THEN {}
    ELSE {[door |-> "web", ask |-> ask, mem |-> m, walltime |-> w,
           count |-> ask.count, prio |-> ask.prio] :
             m \in parseSize(ask.size), w \in parseWalltime(ask.time)}

RowsFor(door, ask) == IF door = "grpc" THEN cmdSubmit(ask) ELSE submitJob(ask)

ASSUME NoJobAssumption ==
    NoJob \notin Asks /\ \A a \in Asks, door \in {"grpc", "web"} : NoJob \notin RowsFor(door, a)

\* The arithmetic of int64.
Wrap(n) == ((n + MaxInt + 1) % (2 * (MaxInt + 1))) - (MaxInt + 1)

\* time.Duration(walltime_sec) * time.Second, as the executor and backfillAllowed
\* take it; there is no timer when it is not positive.
Timer(walltime) == IF walltime > 0 THEN Wrap(walltime * NsPerSec) ELSE 0

-----------------------------------------------------------------------------
(* Submissions *)

Told(answer) == client' = [client EXCEPT !.pc = "told", !.answer = answer]

\* A first try, or the same again after an answer that was not ok.
Submit ==
    /\ "client" \in scene.cast
    /\ client.pc = "idle" \/ (client.pc = "told" /\ client.answer # "ok")
    /\ tries < MaxTries
    /\ tries' = tries + 1
    /\ \E door \in {"grpc", "web"}, ask \in IF client.ask = NoJob THEN Asks ELSE {client.ask} :
          IF door \notin doors \/ RowsFor(door, ask) = {}
          THEN /\ client' = [pc |-> "told", door |-> door, ask |-> ask, answer |-> "denied"]
               /\ UNCHANGED calls
          ELSE /\ client' = [pc |-> "waiting", door |-> door, ask |-> ask, answer |-> "none"]
               /\ \E r \in RowsFor(door, ask) :
                     calls' = calls \cup {[try |-> tries', row |-> r, step |-> "create", mine |-> TRUE]}
    /\ UNCHANGED <<jobs, follower, result, denials>>

Goes(c, step) == calls' = (calls \ {c}) \cup {[c EXCEPT !.step = step]}

\* database/sql refuses an unsigned integer whose high bit is set.
Storable(r) == r.mem < SizeMax \div 2

CreateJob(c) ==
    /\ c.step = "create" /\ Storable(c.row)
    /\ jobs' = [jobs EXCEPT ![c.try] = c.row]
    /\ Goes(c, "ok")
    /\ UNCHANGED <<client, follower, result, tries, denials>>

CreateJobRefused(c) ==
    /\ c.step = "create" /\ ~Storable(c.row)
    /\ Goes(c, "denied")
    /\ UNCHANGED <<client, jobs, follower, result, tries, denials>>

\* Mutant: the error is only logged.
CreateJobFails_logged(c) ==
    /\ c.step = "create"
    /\ denials < MaxDenials /\ denials' = denials + 1
    /\ Goes(c, "ok")
    /\ UNCHANGED <<client, jobs, follower, result, tries>>

\* The statement fails, of itself or because the caller has gone.
CreateJobFails(c) ==
    /\ c.step = "create"
    /\ IF c.mine THEN denials < MaxDenials /\ denials' = denials + 1 ELSE UNCHANGED denials
    /\ Goes(c, "denied")
    /\ UNCHANGED <<client, jobs, follower, result, tries>>

Answer(c) ==
    /\ c.step # "create"
    /\ calls' = calls \ {c}
    /\ IF c.mine THEN Told(c.step) ELSE UNCHANGED client
    /\ UNCHANGED <<jobs, follower, result, tries, denials>>

\* The ten seconds of skctl are over; the handler goes on.
Deadline ==
    /\ client.pc = "waiting" /\ client.door = "grpc"
    /\ Told("unknown")
    /\ calls' = {[c EXCEPT !.mine = FALSE] : c \in calls}
    /\ UNCHANGED <<jobs, follower, result, tries, denials>>

-----------------------------------------------------------------------------
(* Following a log *)

Follow ==
    /\ "follower" \in scene.cast
    /\ follower.pc = "idle"
    /\ \E t \in Tries : jobs[t] # NoJob
    /\ \E door \in doors \ {"scrape"} : follower' = [pc |-> "following", door |-> door]
    /\ UNCHANGED <<client, calls, jobs, result, tries, denials>>

\* Mutant: the loop of GetJobLogs does not look at the job again.
FollowEnds_httpOnly ==
    /\ follower.pc = "following" /\ result = "ended" /\ follower.door = "web"
    /\ follower' = [follower EXCEPT !.pc = "returned"]
    /\ UNCHANGED <<client, calls, jobs, result, tries, denials>>

\* The loop finds the job's row ended.
FollowEnds ==
    /\ follower.pc = "following" /\ result = "ended"
    /\ follower' = [follower EXCEPT !.pc = "returned"]
    /\ UNCHANGED <<client, calls, jobs, result, tries, denials>>

\* The user has seen enough.
FollowerLeaves ==
    /\ follower.pc = "following"
    /\ follower' = [follower EXCEPT !.pc = "left"]
    /\ UNCHANGED <<client, calls, jobs, result, tries, denials>>

\* The job ends, and its agent reports it in one call, which is not repeated.
JobEnds ==
    /\ result = "open" /\ \E t \in Tries : jobs[t] # NoJob
    /\ result' = IF "grpc" \in doors THEN "ended" ELSE "untold"
    /\ UNCHANGED <<client, calls, jobs, follower, tries, denials>>

-----------------------------------------------------------------------------

\* The process has gone and with it every call.
DeskGone ==
    /\ calls' = {}
    /\ IF client.pc = "waiting" THEN Told("unknown") ELSE UNCHANGED client
    /\ follower' = IF follower.pc = "following" THEN [follower EXCEPT !.pc = "left"] ELSE follower
    /\ UNCHANGED <<jobs, result, tries, denials>>

SubmitStep == \E c \in calls : CreateJob(c) \/ CreateJobRefused(c) \/ Answer(c)

DeskNext == \/ Submit \/ SubmitStep \/ Deadline
            \/ \E c \in calls : CreateJobFails(c)
            \/ Follow \/ FollowEnds \/ FollowerLeaves \/ JobEnds

\* Whether a call of gRPC is inside.
DeskBusy == \/ \E c \in calls : c.row.door = "grpc"
            \/ follower.pc = "following" /\ follower.door = "grpc"

-----------------------------------------------------------------------------
(* Properties *)

\* An answer is true: a submission that was accepted is in the table, one that
\* was refused is not and never comes to be; only a call that was given up or
\* cut leaves it open (SubmitJob, submitJob, cmdSubmit).
AnswersAreTrue ==
    client.pc = "told" =>
        /\ client.answer = "ok" => jobs[tries] # NoJob
        /\ client.answer = "denied" => jobs[tries] = NoJob /\ \A c \in calls : c.try # tries

\* A job runs with what was asked for: its timer is positive, does not wrap
\* and is not longer than the walltime of at least a second that was asked for,
\* and its memory is the number of bytes asked for: a size that is out of range
\* is never stored as another one, and a negative one only as 0.  Its CPUs,
\* accelerators and priority are the ones asked for, unless skctl was given one
\* that needs more than 32 bits, which it cuts (parseWalltime, parseSize,
\* cmdSubmit, submitJob, CreateJob, executor.run, backfillAllowed).
RunsAsAsked ==
    \A t \in Tries : jobs[t] # NoJob =>
        LET j == jobs[t]
            bytes == Truncate(j.ask.size.halves * j.ask.size.unit, 2)
        IN /\ j.ask.time.ns >= NsPerSec => Timer(j.walltime) \in 1..j.ask.time.ns
           /\ j.ask.time.ns <= 0 => Timer(j.walltime) = 0
           /\ j.mem = IF bytes < 0 THEN 0 ELSE bytes
           /\ j.door = "web" \/ j.ask.count < Words => j.count = j.ask.count
           /\ j.door = "web" \/ j.ask.prio \in Int32s => j.prio = j.ask.prio
=============================================================================
