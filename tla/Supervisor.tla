----------------------------- MODULE Supervisor -----------------------------
(***************************************************************************)
(* IngesterSupervisor (src/docserver/ingestion_supervisor.py): the object  *)
(* that runs every ingestion cycle in a worker subprocess.  Its callers    *)
(* are threads: the one scheduler job (max_instances=1), the threads that  *)
(* POST /rescan starts and the reindex tool.  Each caller walks through    *)
(* run_subprocess_cycle and _spawn_and_stream; a watchdog thread per       *)
(* worker kills it after the timeout; stop() runs once, at shutdown.       *)
(*                                                                         *)
(* Workers are numbered in the order they are spawned and 0 is Python's    *)
(* None.  The worker's own work is not modelled here: a worker writes      *)
(* numbered progress lines and perhaps its final line, and exits.          *)
(***************************************************************************)
EXTENDS Integers, FiniteSets

CONSTANTS
    Ticker,         \* the scheduler's job thread
    Rescans,        \* threads POST /rescan may start
    Tools,          \* threads that run the reindex tool
    PollInterval,   \* config.poll_interval_seconds
    IngestOnStart,  \* config.ingest_on_start
    MaxWorkers,     \* bound: workers spawned in a behaviour
    MaxLines        \* bound: progress lines one worker writes

ASSUME BoundsAssumption == MaxWorkers \in Nat /\ MaxLines \in Nat
ASSUME ConfigAssumption == PollInterval \in Int /\ IngestOnStart \in BOOLEAN

Callers == {Ticker} \cup Rescans \cup Tools
Workers == 1..MaxWorkers
None    == 0
WorkerOrNone == Workers \cup {None}

(* _ingestion_mode: how the scheduler was started.                         *)
Mode == IF PollInterval > 0 THEN "interval"
        ELSE IF IngestOnStart THEN "once" ELSE "disabled"

VARIABLES
    pc,             \* where each caller is in run_subprocess_cycle
    proc,           \* the local variable proc of each caller
    current,        \* _current_proc
    progress,       \* _current_progress
    worker,         \* the worker processes and their stdout pipes
    watch,          \* the watchdog thread of each worker
    lastIngestion,  \* the cycle _last_ingestion came from
    lastStats,      \* the cycle _last_stats came from
    lastFailure,    \* the cycle _last_failure came from
    scheduler,      \* the BackgroundScheduler: "off", "idle" or "fired"
    stopPc,         \* where stop() is
    stopProc        \* the local variable proc of stop()

callerVars == <<pc, proc>>
outcomeVars == <<lastIngestion, lastStats, lastFailure>>
stopVars == <<scheduler, stopPc, stopProc>>
vars == <<callerVars, current, progress, worker, watch, outcomeVars, stopVars>>

Locations == {"idle", "accepted", "entering", "streaming", "reaped", "cleared",
              "raised", "unwound", "rejected", "succeeded", "metricsSet", "statsSet",
              "failureCleared", "failed"}

(* rc is the exit status, lines and final what was written to stdout, read *)
(* how many progress lines the streaming caller has consumed, payload      *)
(* whether it has parsed the final line.  lost is history: its caller left *)
(* it by an exception, before or inside the read loop.                     *)
WorkerState == [state: {"unborn", "running", "exited"},
                rc: {"none", "zero", "nonzero"},
                lines: 0..MaxLines, read: 0..MaxLines,
                final: BOOLEAN, payload: BOOLEAN, lost: BOOLEAN]

Progress == [phase: {"none", "starting", "scan"},
             of: WorkerOrNone, n: 0..MaxLines]
NoProgress == [phase |-> "none", of |-> None, n |-> 0]
Starting   == [phase |-> "starting", of |-> None, n |-> 0]
Scan(w, n) == [phase |-> "scan", of |-> w, n |-> n]

TypeOK ==
    /\ pc \in [Callers -> Locations]
    /\ proc \in [Callers -> WorkerOrNone]
    /\ current \in WorkerOrNone
    /\ progress \in Progress
    /\ worker \in [Workers -> WorkerState]
    /\ watch \in [Workers -> {"off", "waiting", "expired", "fired", "done"}]
    /\ lastIngestion \in WorkerOrNone
    /\ lastStats \in WorkerOrNone
    /\ lastFailure \in WorkerOrNone
    /\ scheduler \in {"off", "idle", "fired"}
    /\ stopPc \in {"serving", "shutdown", "terminating", "stopped"}
    /\ stopProc \in WorkerOrNone

(***************************************************************************)
(* The state right after start(): the server has begun to serve and, but   *)
(* for the disabled mode, the scheduler holds its job.                     *)
(***************************************************************************)
Unborn == [state |-> "unborn", rc |-> "none", lines |-> 0, read |-> 0,
           final |-> FALSE, payload |-> FALSE, lost |-> FALSE]

Init ==
    /\ pc = [c \in Callers |-> "idle"]
    /\ proc = [c \in Callers |-> None]
    /\ current = None
    /\ progress = NoProgress
    /\ worker = [w \in Workers |-> Unborn]
    /\ watch = [w \in Workers |-> "off"]
    /\ lastIngestion = None /\ lastStats = None /\ lastFailure = None
    /\ scheduler = IF Mode = "disabled" THEN "off" ELSE "idle"
    /\ stopPc = "serving"
    /\ stopProc = None

Alive(w) == w \in Workers /\ worker[w].state = "running"

(* The accessor ingestion_running, and the check under _proc_lock.         *)
IngestionRunning == current # None /\ Alive(current)

Goto(c, l) == pc' = [pc EXCEPT ![c] = l] /\ UNCHANGED proc
Leave(c) == pc' = [pc EXCEPT ![c] = "idle"] /\ proc' = [proc EXCEPT ![c] = None]

(***************************************************************************)
(* The callers.                                                            *)
(***************************************************************************)

(* The scheduler dispatches its job; "once" has a single date trigger.     *)
TickFire ==
    /\ pc[Ticker] = "idle"
    /\ \/ scheduler = "idle"
       \/ scheduler = "fired" /\ Mode = "interval"
    /\ scheduler' = "fired"
    /\ Goto(Ticker, "accepted")
    /\ UNCHANGED <<current, progress, worker, watch, outcomeVars,
                   stopPc, stopProc>>

(* POST /rescan: the pre-check answers 409 or lets a thread start.         *)
RescanAccept(c) ==
    /\ stopPc = "serving"
    /\ pc[c] = "idle"
    /\ ~IngestionRunning
    /\ Goto(c, "accepted")
    /\ UNCHANGED <<current, progress, worker, watch, outcomeVars,
                   stopVars>>

(* The reindex tool goes straight to the supervisor.                       *)
ToolCall(c) ==
    /\ stopPc = "serving"
    /\ pc[c] = "idle"
    /\ Goto(c, "accepted")
    /\ UNCHANGED <<current, progress, worker, watch, outcomeVars,
                   stopVars>>

(* run_subprocess_cycle announces the cycle before it knows that it may    *)
(* have one.                                                               *)
Enter(c) ==
    /\ pc[c] = "accepted"
    /\ progress' = Starting
    /\ Goto(c, "entering")
    /\ UNCHANGED <<current, worker, watch, outcomeVars, stopVars>>

(* The critical section of _spawn_and_stream, in its three outcomes: the   *)
(* overlap is refused, Popen raises, a worker starts with its watchdog.    *)
Reject(c) ==
    /\ pc[c] = "entering"
    /\ IngestionRunning
    /\ Goto(c, "rejected")
    /\ UNCHANGED <<current, progress, worker, watch, outcomeVars,
                   stopVars>>

SpawnFail(c) ==
    /\ pc[c] = "entering"
    /\ ~IngestionRunning
    /\ Goto(c, "rejected")
    /\ UNCHANGED <<current, progress, worker, watch, outcomeVars,
                   stopVars>>

Fresh(w) == /\ worker[w].state = "unborn"
            /\ \A v \in Workers : v < w => worker[v].state # "unborn"

(* Fault: the overlap check is missing.                                    *)
SpawnUnchecked(c) ==
    /\ pc[c] = "entering"
    /\ \E w \in Workers :
        /\ Fresh(w)
        /\ worker' = [worker EXCEPT ![w].state = "running"]
        /\ watch' = [watch EXCEPT ![w] = "waiting"]
        /\ proc' = [proc EXCEPT ![c] = w]
        /\ current' = w
    /\ pc' = [pc EXCEPT ![c] = "streaming"]
    /\ UNCHANGED <<progress, outcomeVars, stopVars>>

Spawn(c) ==
    /\ pc[c] = "entering"
    /\ ~IngestionRunning
    /\ \E w \in Workers :
        /\ Fresh(w)
        /\ worker' = [worker EXCEPT ![w].state = "running"]
        /\ watch' = [watch EXCEPT ![w] = "waiting"]
        /\ proc' = [proc EXCEPT ![c] = w]
        /\ current' = w
    /\ pc' = [pc EXCEPT ![c] = "streaming"]
    /\ UNCHANGED <<progress, outcomeVars, stopVars>>

(* Popen returns, but watchdog.start() raises, ahead of the try block: the *)
(* worker is the current one and nobody will read it or kill it.           *)
SpawnUnwatched(c) ==
    /\ pc[c] = "entering"
    /\ ~IngestionRunning
    /\ \E w \in Workers :
        /\ Fresh(w)
        /\ worker' = [worker EXCEPT ![w].state = "running", ![w].lost = TRUE]
        /\ current' = w
    /\ Goto(c, "rejected")
    /\ UNCHANGED <<progress, watch, outcomeVars, stopVars>>

(* Fault: the line is counted before it is known to be there.              *)
ReadProgressEarly(c) ==
    LET w == proc[c] IN
    /\ pc[c] = "streaming"
    /\ worker' = [worker EXCEPT ![w].read = @ + 1]
    /\ progress' = Scan(w, worker[w].read + 1)
    /\ UNCHANGED <<callerVars, current, watch, outcomeVars, stopVars>>

(* The read loop takes the next progress line...                           *)
ReadProgress(c) ==
    LET w == proc[c] IN
    /\ pc[c] = "streaming"
    /\ worker[w].read < worker[w].lines
    /\ worker' = [worker EXCEPT ![w].read = @ + 1]
    /\ progress' = Scan(w, worker[w].read + 1)
    /\ UNCHANGED <<callerVars, current, watch, outcomeVars, stopVars>>

(* ...or the final line, which the worker writes after its progress lines. *)
ReadFinal(c) ==
    LET w == proc[c] IN
    /\ pc[c] = "streaming"
    /\ worker[w].read = worker[w].lines
    /\ worker[w].final /\ ~worker[w].payload
    /\ worker' = [worker EXCEPT ![w].payload = TRUE]
    /\ UNCHANGED <<callerVars, current, progress, watch, outcomeVars, stopVars>>

(* Fault: the loop is left at the final line, the process still running.   *)
ReapAtFinalLine(c) ==
    LET w == proc[c] IN
    /\ pc[c] = "streaming"
    /\ worker[w].payload \/ worker[w].state = "exited"
    /\ Goto(c, "reaped")
    /\ UNCHANGED <<current, progress, worker, watch, outcomeVars, stopVars>>

(* End of file, once the process is gone and the pipe drained; wait().     *)
Reap(c) ==
    LET w == proc[c] IN
    /\ pc[c] = "streaming"
    /\ worker[w].state = "exited"
    /\ worker[w].read = worker[w].lines
    /\ worker[w].final => worker[w].payload
    /\ Goto(c, "reaped")
    /\ UNCHANGED <<current, progress, worker, watch, outcomeVars,
                   stopVars>>

(* The read loop raises: output that does not decode, or a failing write   *)
(* or flush of the server's own stdout.  The worker may well be alive.     *)
ReadRaise(c) ==
    /\ pc[c] = "streaming"
    /\ worker' = [worker EXCEPT ![proc[c]].lost = TRUE]
    /\ Goto(c, "raised")
    /\ UNCHANGED <<current, progress, watch, outcomeVars, stopVars>>

(* Fault: _current_proc is reset without the test of line 404.             *)
ClearProcAlways(c) ==
    LET w == proc[c] IN
    /\ pc[c] \in {"reaped", "raised"}
    /\ watch' = [watch EXCEPT ![w] = IF @ = "waiting" THEN "done" ELSE @]
    /\ current' = None
    /\ Goto(c, IF pc[c] = "reaped" THEN "cleared" ELSE "unwound")
    /\ UNCHANGED <<progress, worker, outcomeVars, stopVars>>

(* The finally block: cancel the watchdog, forget the process unless       *)
(* another caller has replaced it.  A watchdog past its wait() is joined   *)
(* for one second only, so it may still be about to act.  After ReadRaise  *)
(* the process forgotten may be running, and no watchdog will kill it.     *)
ClearProc(c) ==
    LET w == proc[c] IN
    /\ pc[c] \in {"reaped", "raised"}
    /\ watch' = [watch EXCEPT ![w] = IF @ = "waiting" THEN "done" ELSE @]
    /\ current' = IF current = w THEN None ELSE current
    /\ Goto(c, IF pc[c] = "reaped" THEN "cleared" ELSE "unwound")
    /\ UNCHANGED <<progress, worker, outcomeVars, stopVars>>

(* Fault: the exit status is not looked at.                                *)
SucceededByPayload(w) == worker[w].payload

Succeeded(w) == worker[w].rc = "zero" /\ worker[w].payload

(* Fault: the progress is withdrawn only when the spawn returned.          *)
UnwindRaisedKeepsProgress(c) ==
    /\ \/ pc[c] \in {"rejected", "unwound"}
       \/ pc[c] = "cleared" /\ watch[proc[c]] = "fired"
    /\ Leave(c)
    /\ UNCHANGED <<current, progress, worker, watch, outcomeVars, stopVars>>

(* run_subprocess_cycle's finally withdraws the progress on every path.    *)
(* IngestionAlreadyRunning, a failed Popen, an exception of the read loop  *)
(* and IngestionTimeout leave the method there; the other outcomes are     *)
(* still to be recorded.                                                   *)
UnwindRaised(c) ==
    /\ \/ pc[c] \in {"rejected", "unwound"}
       \/ pc[c] = "cleared" /\ watch[proc[c]] = "fired"
    /\ progress' = NoProgress
    /\ Leave(c)
    /\ UNCHANGED <<current, worker, watch, outcomeVars, stopVars>>

UnwindReturned(c) ==
    /\ pc[c] = "cleared" /\ watch[proc[c]] # "fired"
    /\ progress' = NoProgress
    /\ Goto(c, IF Succeeded(proc[c]) THEN "succeeded" ELSE "failed")
    /\ UNCHANGED <<current, worker, watch, outcomeVars, stopVars>>

(* The outcome is recorded by plain assignments, under no lock.            *)
RecordMetrics(c) ==
    /\ pc[c] = "succeeded"
    /\ lastIngestion' = proc[c]
    /\ Goto(c, "metricsSet")
    /\ UNCHANGED <<current, progress, worker, watch, lastStats,
                   lastFailure, stopVars>>

RecordStats(c) ==
    /\ pc[c] = "metricsSet"
    /\ lastStats' = proc[c]
    /\ Goto(c, "statsSet")
    /\ UNCHANGED <<current, progress, worker, watch,
                   lastIngestion, lastFailure, stopVars>>

ClearFailure(c) ==
    /\ pc[c] = "statsSet"
    /\ lastFailure' = None
    /\ Goto(c, "failureCleared")
    /\ UNCHANGED <<current, progress, worker, watch,
                   lastIngestion, lastStats, stopVars>>

(* The last statement reads _last_stats back to return it.                 *)
ReturnStats(c) ==
    /\ pc[c] = "failureCleared"
    /\ Leave(c)
    /\ UNCHANGED <<current, progress, worker, watch, outcomeVars, stopVars>>

RecordFailure(c) ==
    /\ pc[c] = "failed"
    /\ lastFailure' = proc[c]
    /\ Leave(c)
    /\ UNCHANGED <<current, progress, worker, watch,
                   lastIngestion, lastStats, stopVars>>

(* What a caller does on its own, once its call has begun.                 *)
CallerStep(c) ==
    \/ Enter(c)
    \/ Reject(c) \/ SpawnFail(c) \/ Spawn(c)
    \/ ReadProgress(c) \/ ReadFinal(c) \/ Reap(c)
    \/ ClearProc(c) \/ UnwindRaised(c) \/ UnwindReturned(c)
    \/ RecordMetrics(c) \/ RecordStats(c) \/ ClearFailure(c) \/ ReturnStats(c)
    \/ RecordFailure(c)

(* What may go wrong under it: an exception that nothing handles before    *)
(* _run_cycle_safe or the caller's own thread.                             *)
CallerFault(c) == SpawnUnwatched(c) \/ ReadRaise(c)

(***************************************************************************)
(* The worker process, as its stdout and exit status show it.              *)
(***************************************************************************)
WriteProgress(w) ==
    /\ Alive(w)
    /\ worker[w].lines < MaxLines /\ ~worker[w].final
    /\ worker' = [worker EXCEPT ![w].lines = @ + 1]
    /\ UNCHANGED <<callerVars, current, progress, watch, outcomeVars, stopVars>>

WriteFinal(w) ==
    /\ Alive(w)
    /\ ~worker[w].final
    /\ worker' = [worker EXCEPT ![w].final = TRUE]
    /\ UNCHANGED <<callerVars, current, progress, watch, outcomeVars, stopVars>>

(* A worker may exit at any point: exit code 1, a crash, a signal, exit    *)
(* code 0 after its final line or with a final line nobody could parse.    *)
Exit(w, rc) ==
    /\ Alive(w)
    /\ worker' = [worker EXCEPT ![w].state = "exited", ![w].rc = rc]
    /\ UNCHANGED <<callerVars, current, progress, watch, outcomeVars, stopVars>>

Kill(w) == worker' = IF Alive(w)
                     THEN [worker EXCEPT ![w].state = "exited",
                                         ![w].rc = "nonzero"]
                     ELSE worker

(***************************************************************************)
(* _killer, the watchdog: after the timeout it polls the process, and only *)
(* then marks the cycle as timed out and sends SIGKILL.                    *)
(***************************************************************************)
(* Fault: the test of the process is inverted, a hung worker lives on.     *)
WatchdogExpireIdle(w) ==
    /\ watch[w] = "waiting"
    /\ watch' = [watch EXCEPT ![w] = IF Alive(w) THEN "done" ELSE "expired"]
    /\ UNCHANGED <<callerVars, current, progress, worker, outcomeVars, stopVars>>

WatchdogExpire(w) ==
    /\ watch[w] = "waiting"
    /\ watch' = [watch EXCEPT ![w] = IF Alive(w) THEN "expired" ELSE "done"]
    /\ UNCHANGED <<callerVars, current, progress, worker, outcomeVars, stopVars>>

WatchdogKill(w) ==
    /\ watch[w] = "expired"
    /\ watch' = [watch EXCEPT ![w] = "fired"]
    /\ Kill(w)
    /\ UNCHANGED <<callerVars, current, progress, outcomeVars, stopVars>>

(***************************************************************************)
(* stop(): end the scheduling, look at _current_proc once, terminate what  *)
(* is there and kill it when it outlives the grace period.                 *)
(***************************************************************************)
StopScheduler ==
    /\ stopPc = "serving"
    /\ stopPc' = "shutdown"
    /\ scheduler' = "off"
    /\ UNCHANGED <<callerVars, current, progress, worker, watch, outcomeVars,
                   stopProc>>

StopLook ==
    /\ stopPc = "shutdown"
    /\ stopProc' = current
    /\ stopPc' = IF IngestionRunning THEN "terminating" ELSE "stopped"
    /\ UNCHANGED <<callerVars, current, progress, worker, watch, outcomeVars,
                   scheduler>>

(* Fault: no SIGKILL after the grace period.                               *)
StopWaitNoKill ==
    /\ stopPc = "terminating"
    /\ stopPc' = "stopped"
    /\ UNCHANGED <<callerVars, current, progress, worker, watch, outcomeVars,
                   scheduler, stopProc>>

(* wait() returns because the worker is gone, or it times out and kill().  *)
StopWait ==
    /\ stopPc = "terminating"
    /\ Kill(stopProc)
    /\ stopPc' = "stopped"
    /\ UNCHANGED <<callerVars, current, progress, watch, outcomeVars, scheduler,
                   stopProc>>

-----------------------------------------------------------------------------
Next ==
    \/ TickFire
    \/ \E c \in Rescans : RescanAccept(c)
    \/ \E c \in Tools : ToolCall(c)
    \/ \E c \in Callers : CallerStep(c) \/ CallerFault(c)
    \/ \E w \in Workers : \/ WriteProgress(w)
                          \/ WriteFinal(w)
                          \/ \E rc \in {"zero", "nonzero"} : Exit(w, rc)
                          \/ WatchdogExpire(w)
                          \/ WatchdogKill(w)
    \/ StopScheduler \/ StopLook \/ StopWait

(***************************************************************************)
(* Threads that have work get to run, and wait(timeout) ends.  Nothing is  *)
(* assumed of a worker, which may hang for ever, nor of the requests.      *)
(***************************************************************************)
Fairness ==
    /\ \A c \in Callers : WF_vars(CallerStep(c))
    /\ \A w \in Workers : WF_vars(WatchdogExpire(w)) /\ WF_vars(WatchdogKill(w))
    /\ WF_vars(StopLook) /\ WF_vars(StopWait)

Spec == Init /\ [][Next]_vars
FairSpec == Spec /\ Fairness

(***************************************************************************)
(* The abstract view: the processes alive whose caller has not lost them,  *)
(* those alive but lost, and those that have ended.                        *)
(***************************************************************************)
Lost(w) == worker[w].lost

Flight == INSTANCE SingleFlight
    WITH Cycles <- Workers,
         live  <- {w \in Workers : Alive(w) /\ ~Lost(w)},
         stray <- {w \in Workers : Alive(w) /\ Lost(w)},
         over  <- {w \in Workers : worker[w].state = "exited"}

\* The supervisor implements single-flight cycles whoever the callers are,
\* up to exceptions: Popen is reached only when every worker that is still
\* running was lost by an exception of its caller (371, 376-380).
ImplementsSingleFlight == Flight!Spec

\* Under fairness, each cycle also ends, a hung worker being killed, or is
\* lost: the finally block (401) calls off the watchdog of a live worker when
\* the read loop raised, and nothing is promised of that worker any more.
EveryCycleEnds == Flight!FairSpec

\* A worker that is alive is the one _current_proc points to, so that
\* ingestion_running, the overlap check and stop() see it, even when a slow
\* caller runs its finally block after a later worker was spawned (403-405).
\* Only an exception of its caller makes the supervisor forget it.
LiveWorkerIsTracked == \A w \in Workers : Alive(w) => current = w \/ Lost(w)

\* A worker that is alive and not lost has a caller reading its stdout, else
\* it would block for ever on a full pipe, and no worker has two callers.
LiveWorkerIsStreamed ==
    \A w \in Workers : Alive(w) =>
        /\ Lost(w) \/ \E c \in Callers : pc[c] = "streaming" /\ proc[c] = w
        /\ \A c, d \in Callers : proc[c] = w /\ proc[d] = w => c = d

InCycle(c) == pc[c] \notin {"idle", "accepted"}
OpenCycle(c) ==
    pc[c] \in {"streaming", "reaped", "cleared", "raised", "unwound"}
Quiet == \A c \in Callers : ~InCycle(c)

\* The progress shown by /health is withdrawn on every way out of a cycle,
\* exceptions included, and scan progress is of a cycle still being read.
ProgressIsOfAnOpenCycle ==
    /\ Quiet => progress = NoProgress
    /\ progress.phase = "scan" =>
         \E c \in Callers : OpenCycle(c) /\ proc[c] = progress.of

\* The metrics and stats of /health and /rescan come from a worker that
\* wrote its final line and then exited 0: not from one killed by the
\* watchdog or by stop(), nor from one that failed after the final line.
MetricsAreOfACompleteCycle ==
    \A w \in {lastIngestion, lastStats} \ {None} :
        /\ worker[w].state = "exited"
        /\ worker[w].rc = "zero" /\ worker[w].payload

\* The worker that stop() found running is dead when stop() returns.
StoppedWorkerIsDead ==
    stopPc = "stopped" => ~Alive(stopProc)

\* Every call comes back to its caller, whatever its worker does.
CallsReturn == \A c \in Callers : pc[c] = "accepted" ~> pc[c] = "idle"
=============================================================================
