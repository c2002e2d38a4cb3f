-------------------------- MODULE SupervisorProofs --------------------------
(***************************************************************************)
(* Proofs about Supervisor, for any number of callers, workers and lines.  *)
(*                                                                         *)
(* Why cycles never overlap: the overlap check looks at _current_proc      *)
(* only, so it is right as long as a live worker is the current one        *)
(* (LiveWorkerIsTracked).  Two things could break that, a spawn over a     *)
(* live worker and the finally block of another caller.  The first is the  *)
(* check itself; for the second, a live worker has a caller that still     *)
(* reads it (LiveHasReader), no two callers hold one worker (Exclusive),   *)
(* and so the caller in its finally block holds a dead one, or one that it *)
(* lost by an exception of its own (RaisedIsLost): of those nothing is     *)
(* claimed.                                                                *)
(***************************************************************************)
EXTENDS Supervisor, TLAPS

Raised  == {"raised", "unwound"}
Holding == Raised \cup
           {"streaming", "reaped", "cleared", "succeeded", "metricsSet",
            "statsSet", "failureCleared", "failed"}

\* A caller holds a process from Popen to the end of its call.
Owned == \A c \in Callers : pc[c] \in Holding <=> proc[c] # None

\* No two callers hold the same worker.
Exclusive == \A c, d \in Callers : proc[c] = proc[d] /\ proc[c] # None => c = d

\* Nobody has heard of a worker that is not born.
UnbornUnknown ==
    \A w \in Workers : worker[w].state = "unborn" =>
        /\ ~Lost(w)
        /\ current # w /\ stopProc # w
        /\ lastIngestion # w /\ lastStats # w
        /\ \A c \in Callers : proc[c] # w

\* A caller in the finally block of an exception holds a worker it lost.
RaisedIsLost == \A c \in Callers : pc[c] \in Raised => Lost(proc[c])

\* A live worker that is not lost is still being read.
LiveHasReader ==
    \A w \in Workers : Alive(w) /\ ~Lost(w) =>
        \E c \in Callers : pc[c] = "streaming" /\ proc[c] = w

\* The outcome is looked at when the worker is gone, and a success is one.
Recording == {"succeeded", "metricsSet", "statsSet", "failureCleared"}
SuccessIsComplete ==
    \A c \in Callers :
        /\ pc[c] \in Holding \ (Raised \cup {"streaming"}) =>
             worker[proc[c]].state = "exited"
        /\ pc[c] \in Recording => Succeeded(proc[c])

IInv ==
    /\ TypeOK
    /\ Owned
    /\ Exclusive
    /\ UnbornUnknown
    /\ RaisedIsLost
    /\ LiveWorkerIsTracked
    /\ LiveHasReader
    /\ SuccessIsComplete
    /\ MetricsAreOfACompleteCycle
    /\ StoppedWorkerIsDead

-----------------------------------------------------------------------------
LEMMA WorkersAreNumbers == None \notin Workers /\ Workers \subseteq Nat
  BY BoundsAssumption DEF None, Workers

LEMMA InitInvariant == Init => IInv
<1> SUFFICES ASSUME Init PROVE IInv
  OBVIOUS
<1> USE BoundsAssumption DEF Init, Unborn, None
<1>1. TypeOK
  BY DEF TypeOK, Locations, WorkerOrNone, WorkerState, Progress, NoProgress
<1>2. Owned /\ Exclusive /\ UnbornUnknown
  BY DEF Owned, Exclusive, UnbornUnknown, Holding, Raised, Lost, Workers
<1>3. LiveWorkerIsTracked /\ LiveHasReader /\ RaisedIsLost
  BY DEF LiveWorkerIsTracked, LiveHasReader, RaisedIsLost, Raised, Alive
<1>4. SuccessIsComplete
  BY DEF SuccessIsComplete, Holding, Raised, Recording
<1>5. MetricsAreOfACompleteCycle /\ StoppedWorkerIsDead
  BY DEF MetricsAreOfACompleteCycle, StoppedWorkerIsDead
<1> QED
  BY <1>1, <1>2, <1>3, <1>4, <1>5 DEF IInv

-----------------------------------------------------------------------------
(* Every step keeps the types: a caller in "streaming" holds a worker.     *)
LEMMA TypeStep == TypeOK /\ Owned /\ [Next]_vars => TypeOK'
<1> SUFFICES ASSUME TypeOK, Owned, [Next]_vars PROVE TypeOK'
  OBVIOUS
<1> USE BoundsAssumption DEF TypeOK, Locations, WorkerOrNone
<1> DEFINE Held(c) == pc[c] \in Holding => proc[c] \in Workers
<1>1. \A c \in Callers : Held(c)
  BY DEF Owned
<1>2. Ticker \in Callers /\ Rescans \subseteq Callers /\ Tools \subseteq Callers
  BY DEF Callers
<1>3. NoProgress \in Progress /\ Starting \in Progress
  BY DEF NoProgress, Starting, Progress
<1>4. CASE TickFire
  BY <1>2, <1>4 DEF TickFire, Goto, outcomeVars
<1>5. CASE \E c \in Rescans : RescanAccept(c)
  BY <1>2, <1>5 DEF RescanAccept, Goto, outcomeVars, stopVars
<1>6. CASE \E c \in Tools : ToolCall(c)
  BY <1>2, <1>6 DEF ToolCall, Goto, outcomeVars, stopVars
<1>7. ASSUME NEW c \in Callers, CallerStep(c) PROVE TypeOK'
  <2> USE <1>1, <1>3 DEF Goto, Leave, callerVars, outcomeVars, stopVars
  <2>1. CASE Enter(c) BY <2>1 DEF Enter
  <2>2. CASE Reject(c) BY <2>2 DEF Reject
  <2>3. CASE SpawnFail(c) BY <2>3 DEF SpawnFail
  <2>4. CASE Spawn(c) BY <2>4 DEF Spawn, WorkerState
  <2>5. CASE ReadProgress(c)
    BY <2>5 DEF ReadProgress, WorkerState, Progress, Scan, Holding
  <2>6. CASE ReadFinal(c)
    <3>1. proc[c] \in Workers
      BY <2>6 DEF ReadFinal, Holding
    <3>2. [worker[proc[c]] EXCEPT !.payload = TRUE] \in WorkerState
      <4>1. worker[proc[c]] \in WorkerState
        BY <3>1
      <4> QED
        BY <4>1 DEF WorkerState
    <3>3. worker' \in [Workers -> WorkerState]
      BY <2>6, <3>1, <3>2 DEF ReadFinal
    <3> QED
      BY <2>6, <3>3 DEF ReadFinal
  <2>7. CASE Reap(c) BY <2>7 DEF Reap
  <2>8. CASE ClearProc(c) BY <2>8 DEF ClearProc
  <2>9. CASE UnwindRaised(c) BY <2>9 DEF UnwindRaised
  <2>10. CASE UnwindReturned(c) BY <2>10 DEF UnwindReturned
  <2>11. CASE RecordMetrics(c) BY <2>11 DEF RecordMetrics
  <2>12. CASE RecordStats(c) BY <2>12 DEF RecordStats
  <2>13. CASE ClearFailure(c) BY <2>13 DEF ClearFailure
  <2>14. CASE ReturnStats(c) BY <2>14 DEF ReturnStats
  <2>15. CASE RecordFailure(c) BY <2>15 DEF RecordFailure
  <2> QED
    BY <1>7, <2>1, <2>2, <2>3, <2>4, <2>5, <2>6, <2>7, <2>8, <2>9, <2>10,
       <2>11, <2>12, <2>13, <2>14, <2>15 DEF CallerStep
<1>11. ASSUME NEW c \in Callers, CallerFault(c) PROVE TypeOK'
  <2> USE DEF Goto, outcomeVars, stopVars
  <2>1. \A w \in Workers : [worker[w] EXCEPT !.lost = TRUE] \in WorkerState
                        /\ [worker[w] EXCEPT !.state = "running",
                                             !.lost = TRUE] \in WorkerState
    BY DEF WorkerState
  <2>2. CASE SpawnUnwatched(c) BY <2>1, <2>2 DEF SpawnUnwatched
  <2>3. CASE ReadRaise(c)
    <3>1. proc[c] \in Workers
      BY <1>1, <2>3 DEF ReadRaise, Holding
    <3> QED
      BY <2>1, <2>3, <3>1 DEF ReadRaise
  <2> QED
    BY <1>11, <2>2, <2>3 DEF CallerFault
<1>8. ASSUME NEW w \in Workers,
             \/ WriteProgress(w) \/ WriteFinal(w)
             \/ \E rc \in {"zero", "nonzero"} : Exit(w, rc)
             \/ WatchdogExpire(w) \/ WatchdogKill(w)
      PROVE TypeOK'
  <2> USE DEF callerVars, outcomeVars, stopVars, WorkerState
  <2>1. CASE WriteProgress(w) BY <2>1 DEF WriteProgress
  <2>2. CASE WriteFinal(w) BY <2>2 DEF WriteFinal
  <2>3. CASE \E rc \in {"zero", "nonzero"} : Exit(w, rc)
    <3>1. PICK rc \in {"zero", "nonzero"} : Exit(w, rc)
      BY <2>3
    <3>2. worker'[w] = [worker[w] EXCEPT !.state = "exited", !.rc = rc]
      BY <3>1 DEF Exit
    <3>3. worker'[w] \in WorkerState
      BY <3>2
    <3>4. worker' \in [Workers -> WorkerState]
      BY <3>1, <3>3 DEF Exit
    <3> QED
      BY <3>1, <3>4 DEF Exit
  <2>4. CASE WatchdogExpire(w) BY <2>4 DEF WatchdogExpire, Alive
  <2>5. CASE WatchdogKill(w)
    <3>1. [worker[w] EXCEPT !.state = "exited", !.rc = "nonzero"] \in WorkerState
      OBVIOUS
    <3>2. worker' \in [Workers -> WorkerState]
      BY <2>5, <3>1 DEF WatchdogKill, Kill
    <3>3. watch' \in [Workers -> {"off", "waiting", "expired", "fired", "done"}]
      BY <2>5 DEF WatchdogKill
    <3> QED
      BY <2>5, <3>2, <3>3 DEF WatchdogKill
  <2> QED BY <1>8, <2>1, <2>2, <2>3, <2>4, <2>5
<1>9. CASE StopScheduler \/ StopLook \/ StopWait
  BY <1>9 DEF StopScheduler, StopLook, StopWait, Kill, Alive, WorkerState,
     callerVars, outcomeVars
<1>10. CASE UNCHANGED vars
  BY <1>10 DEF vars, callerVars, outcomeVars, stopVars
<1> QED
  BY <1>4, <1>5, <1>6, <1>7, <1>8, <1>9, <1>10, <1>11 DEF Next

-----------------------------------------------------------------------------
(***************************************************************************)
(* The rest of the invariant, first over the steps of the callers.         *)
(***************************************************************************)
Rest == /\ Owned /\ Exclusive /\ UnbornUnknown /\ RaisedIsLost
        /\ LiveWorkerIsTracked
        /\ LiveHasReader /\ SuccessIsComplete /\ MetricsAreOfACompleteCycle
        /\ StoppedWorkerIsDead

\* A caller that read its worker to the end holds one that is gone.
LEMMA PastReadingIsDead ==
  ASSUME IInv, NEW c \in Callers, pc[c] \in Holding \ (Raised \cup {"streaming"})
  PROVE  proc[c] \in Workers /\ ~Alive(proc[c])
BY DEF IInv, TypeOK, WorkerOrNone, Owned, SuccessIsComplete, Alive

\* Popen: the check under the lock sees every live worker that is not lost,
\* so there is none.
LEMMA NoneToOverlap ==
  ASSUME IInv, ~IngestionRunning
  PROVE  \A w \in Workers : Alive(w) => Lost(w)
BY WorkersAreNumbers DEF IInv, LiveWorkerIsTracked, IngestionRunning, None, Alive

\* Popen, with the watchdog or (lost) without it: the worker is a new one,
\* and its caller streams it or is on its way out.
LEMMA PopenKeeps ==
  ASSUME IInv, TypeOK', NEW c \in Callers, NEW w \in Workers,
         NEW lost \in BOOLEAN,
         pc[c] = "entering", ~IngestionRunning, worker[w].state = "unborn",
         \A v \in Workers \ {w} : worker'[v] = worker[v],
         worker'[w].state = "running", worker'[w].lost = lost,
         proc' = IF lost THEN proc ELSE [proc EXCEPT ![c] = w],
         pc' = [pc EXCEPT ![c] = IF lost THEN "rejected" ELSE "streaming"],
         current' = w, UNCHANGED <<outcomeVars, stopVars>>
  PROVE  Rest'
<1> USE WorkersAreNumbers DEF Alive, Lost
<1>1. \A v \in Workers : Alive(v) => Lost(v)
  BY NoneToOverlap
<1>2. \A v \in Workers \ {w} : Alive(v)' => Lost(v)'
  BY <1>1
<1>3. \A d \in Callers : proc[d] # w
  BY DEF IInv, UnbornUnknown
<1> USE DEF IInv, TypeOK, Locations, WorkerOrNone
<1>4. Owned' /\ Exclusive'
  BY <1>3 DEF Owned, Exclusive, Holding, Raised
<1>5. UnbornUnknown'
  BY DEF UnbornUnknown, outcomeVars, stopVars
<1>6. LiveWorkerIsTracked'
  BY <1>2 DEF LiveWorkerIsTracked
<1>7. LiveHasReader'
  BY <1>2 DEF LiveHasReader
<1>8. SuccessIsComplete' /\ RaisedIsLost'
  <2>1. \A d \in Callers : pc[d] \in Holding => proc[d] \in Workers \ {w}
    BY <1>3 DEF Owned
  <2>2. \A d \in Callers \ {c} : pc'[d] = pc[d] /\ proc'[d] = proc[d]
    OBVIOUS
  <2>3. pc'[c] \in {"rejected", "streaming"}
    OBVIOUS
  <2>4. \A d \in Callers \ {c} : pc[d] \in Holding =>
          worker'[proc'[d]] = worker[proc[d]]
    BY <2>1, <2>2
  <2> HIDE DEF IInv, TypeOK
  <2>5. SuccessIsComplete /\ RaisedIsLost
    BY DEF IInv
  <2>6. SuccessIsComplete'
    BY <2>2, <2>3, <2>4, <2>5 DEF SuccessIsComplete, Succeeded, Holding, Raised,
       Recording
  <2>7. RaisedIsLost'
    BY <2>2, <2>3, <2>4, <2>5 DEF RaisedIsLost, Holding, Raised
  <2> QED
    BY <2>6, <2>7
<1>9. MetricsAreOfACompleteCycle' /\ StoppedWorkerIsDead'
  BY DEF MetricsAreOfACompleteCycle, StoppedWorkerIsDead, UnbornUnknown,
     outcomeVars, stopVars
<1> QED
  BY <1>4, <1>5, <1>6, <1>7, <1>8, <1>9 DEF Rest

LEMMA SpawnKeeps ==
  ASSUME IInv, TypeOK', NEW c \in Callers, Spawn(c) \/ SpawnUnwatched(c)
  PROVE  Rest'
<1>1. CASE Spawn(c)
  <2>1. PICK w \in Workers :
          /\ worker[w].state = "unborn"
          /\ worker' = [worker EXCEPT ![w].state = "running"]
          /\ proc' = [proc EXCEPT ![c] = w]
          /\ current' = w
    BY <1>1 DEF Spawn, Fresh
  <2>2. /\ \A v \in Workers \ {w} : worker'[v] = worker[v]
        /\ worker'[w].state = "running" /\ worker'[w].lost = FALSE
    BY <2>1 DEF IInv, UnbornUnknown, Lost, TypeOK, WorkerState
  <2> QED
    BY <1>1, <2>1, <2>2, PopenKeeps DEF Spawn
<1>2. CASE SpawnUnwatched(c)
  <2>1. PICK w \in Workers :
          /\ worker[w].state = "unborn"
          /\ worker' = [worker EXCEPT ![w].state = "running", ![w].lost = TRUE]
          /\ current' = w
    BY <1>2 DEF SpawnUnwatched, Fresh
  <2>2. /\ \A v \in Workers \ {w} : worker'[v] = worker[v]
        /\ worker'[w].state = "running" /\ worker'[w].lost = TRUE
    BY <2>1 DEF IInv, TypeOK, WorkerState
  <2> QED
    BY <1>2, <2>1, <2>2, PopenKeeps DEF SpawnUnwatched, Goto
<1> QED
  BY <1>1, <1>2

\* An exception in the read loop: the worker goes on as it was, but lost.
LEMMA ReadRaiseKeeps ==
  ASSUME IInv, TypeOK', NEW c \in Callers, ReadRaise(c)
  PROVE  Rest'
<1> DEFINE w == proc[c]
<1>1. w \in Workers /\ pc[c] = "streaming"
  BY DEF ReadRaise, IInv, TypeOK, WorkerOrNone, Owned, Holding
<1>2. /\ pc' = [pc EXCEPT ![c] = "raised"]
      /\ UNCHANGED <<proc, current, outcomeVars, stopVars>>
  BY DEF ReadRaise, Goto
<1>3. /\ \A v \in Workers \ {w} : worker'[v] = worker[v]
      /\ worker'[w] = [worker[w] EXCEPT !.lost = TRUE]
  BY <1>1 DEF ReadRaise, IInv, TypeOK
<1>4. /\ worker'[w].lost
      /\ \A v \in Workers : /\ worker'[v].state = worker[v].state
                            /\ worker'[v].rc = worker[v].rc
                            /\ worker'[v].payload = worker[v].payload
  BY <1>1, <1>3 DEF IInv, TypeOK, WorkerState
<1>5. \A v \in Workers : Lost(v)' <=> Lost(v) \/ v = w
  BY <1>3, <1>4 DEF Lost
<1>6. \A v \in Workers : Alive(v)' <=> Alive(v)
  BY <1>4 DEF Alive
<1> HIDE DEF w
<1> USE <1>2 DEF IInv, TypeOK, Locations
<1>7. Owned' /\ Exclusive'
  BY <1>1 DEF Owned, Exclusive, Holding, Raised
<1>8. UnbornUnknown'
  BY <1>4, <1>5 DEF UnbornUnknown, outcomeVars, stopVars, w
<1>9. RaisedIsLost'
  <2>1. \A d \in Callers : pc[d] \in Raised => proc[d] \in Workers
    BY DEF Owned, Holding, WorkerOrNone
  <2> QED
    BY <1>1, <1>5, <2>1 DEF RaisedIsLost, Raised, w
<1>10. LiveWorkerIsTracked'
  BY <1>5, <1>6 DEF LiveWorkerIsTracked
<1>11. LiveHasReader'
  BY <1>5, <1>6 DEF LiveHasReader, w
<1>12. SuccessIsComplete'
  <2>1. \A d \in Callers : pc[d] \in Holding => proc[d] \in Workers
    BY DEF Owned, Holding, WorkerOrNone
  <2> QED
    BY <1>4, <2>1 DEF SuccessIsComplete, Succeeded, Holding, Raised, Recording
<1>13. MetricsAreOfACompleteCycle'
  BY <1>4 DEF MetricsAreOfACompleteCycle, outcomeVars, WorkerOrNone
<1>14. StoppedWorkerIsDead'
  BY <1>6 DEF StoppedWorkerIsDead, stopVars, Alive
<1> QED
  BY <1>7, <1>8, <1>9, <1>10, <1>11, <1>12, <1>13, <1>14 DEF Rest

\* The finally block forgets _current_proc only when it is the caller's own
\* worker, which is dead or lost.
LEMMA ClearProcKeeps ==
  ASSUME IInv, TypeOK', NEW c \in Callers, ClearProc(c)
  PROVE  Rest'
<1>1. proc[c] \in Workers /\ (Alive(proc[c]) => Lost(proc[c]))
  <2>1. CASE pc[c] = "reaped"
    BY <2>1, PastReadingIsDead DEF Holding, Raised
  <2>2. CASE pc[c] = "raised"
    BY <2>2 DEF IInv, TypeOK, WorkerOrNone, Owned, Holding, Raised, RaisedIsLost
  <2> QED
    BY <2>1, <2>2 DEF ClearProc
<1>2. /\ \/ pc[c] = "reaped" /\ pc' = [pc EXCEPT ![c] = "cleared"]
         \/ pc[c] = "raised" /\ pc' = [pc EXCEPT ![c] = "unwound"]
      /\ current' \in {current, None}
      /\ current # proc[c] => current' = current
      /\ UNCHANGED <<proc, worker, outcomeVars, stopVars>>
  BY DEF ClearProc, Goto
<1> USE <1>2 DEF IInv, TypeOK, Locations, Lost
<1>3. LiveWorkerIsTracked'
  BY <1>1 DEF LiveWorkerIsTracked, Alive
<1>4. UnbornUnknown'
  BY WorkersAreNumbers DEF UnbornUnknown, outcomeVars, stopVars
<1>5. Owned' /\ Exclusive' /\ SuccessIsComplete' /\ RaisedIsLost'
  BY DEF Owned, Exclusive, SuccessIsComplete, RaisedIsLost, Holding, Raised,
     Recording, Succeeded
<1>6. LiveHasReader'
  BY DEF LiveHasReader, Alive
<1>7. MetricsAreOfACompleteCycle' /\ StoppedWorkerIsDead'
  BY DEF MetricsAreOfACompleteCycle, StoppedWorkerIsDead, Alive,
     outcomeVars, stopVars
<1> QED
  BY <1>3, <1>4, <1>5, <1>6, <1>7 DEF Rest

LEMMA CallerKeeps ==
  ASSUME IInv, TypeOK', NEW c \in Callers, CallerStep(c)
  PROVE  Rest'
<1> USE WorkersAreNumbers DEF IInv, Rest, TypeOK, Locations, WorkerOrNone,
      Owned, Exclusive, UnbornUnknown, RaisedIsLost, Lost, Raised,
      LiveWorkerIsTracked,
      LiveHasReader, SuccessIsComplete, MetricsAreOfACompleteCycle,
      StoppedWorkerIsDead, Holding, Recording, Alive, Succeeded, WorkerState
<1> USE DEF Goto, Leave, callerVars, outcomeVars, stopVars
<1>1. CASE Enter(c) BY <1>1 DEF Enter
<1>2. CASE Reject(c) BY <1>2 DEF Reject
<1>3. CASE SpawnFail(c) BY <1>3 DEF SpawnFail
<1>4. CASE Spawn(c) BY <1>4, SpawnKeeps
<1>5. CASE ReadProgress(c) BY <1>5 DEF ReadProgress
<1>6. CASE ReadFinal(c) BY <1>6 DEF ReadFinal
<1>7. CASE Reap(c) BY <1>7 DEF Reap
<1>8. CASE ClearProc(c) BY <1>8, ClearProcKeeps
<1>9. CASE UnwindRaised(c) BY <1>9 DEF UnwindRaised
<1>10. CASE UnwindReturned(c) BY <1>10 DEF UnwindReturned
<1>11. CASE RecordMetrics(c) BY <1>11 DEF RecordMetrics
<1>12. CASE RecordStats(c) BY <1>12 DEF RecordStats
<1>13. CASE ClearFailure(c) BY <1>13 DEF ClearFailure
<1>14. CASE ReturnStats(c) BY <1>14 DEF ReturnStats
<1>15. CASE RecordFailure(c) BY <1>15 DEF RecordFailure
<1> QED
  BY <1>1, <1>2, <1>3, <1>4, <1>5, <1>6, <1>7, <1>8, <1>9, <1>10,
     <1>11, <1>12, <1>13, <1>14, <1>15 DEF CallerStep

\* A step of the live workers alone, whether they go on or end: nothing else
\* in the invariant looks at a worker that is not exited.
LiveWorkersMove ==
    /\ UNCHANGED <<pc, proc, current, outcomeVars, stopProc>>
    /\ \A w \in Workers :
         \/ worker'[w] = worker[w]
         \/ /\ Alive(w) /\ worker'[w].state \in {"running", "exited"}
            /\ Lost(w)' = Lost(w)

LEMMA LiveWorkersMoveKeeps ==
  ASSUME IInv, TypeOK', LiveWorkersMove, StoppedWorkerIsDead'
  PROVE  Rest'
<1> USE DEF IInv, LiveWorkersMove, outcomeVars
<1>1. Owned' /\ Exclusive'
  BY DEF Owned, Exclusive
<1>2. UnbornUnknown'
  BY DEF UnbornUnknown, Alive, Lost
<1>3. LiveWorkerIsTracked' /\ LiveHasReader'
  BY DEF LiveWorkerIsTracked, LiveHasReader, Alive, Lost
<1>4. SuccessIsComplete' /\ RaisedIsLost'
  <2>1. \A c \in Callers : pc[c] \in Holding => proc[c] \in Workers
    BY DEF Owned, TypeOK, WorkerOrNone
  <2>2. SuccessIsComplete'
    BY <2>1 DEF SuccessIsComplete, Holding, Raised, Recording, Alive, Succeeded
  <2>3. RaisedIsLost'
    BY <2>1 DEF RaisedIsLost, Holding, Raised, Lost
  <2> QED
    BY <2>2, <2>3
<1>5. MetricsAreOfACompleteCycle'
  BY DEF MetricsAreOfACompleteCycle, TypeOK, WorkerOrNone, Alive
<1> QED
  BY <1>1, <1>2, <1>3, <1>4, <1>5 DEF Rest

WorkerStep(w) ==
    \/ WriteProgress(w) \/ WriteFinal(w)
    \/ \E rc \in {"zero", "nonzero"} : Exit(w, rc)
    \/ WatchdogExpire(w) \/ WatchdogKill(w)

LEMMA WorkerMoves ==
  ASSUME IInv, NEW w \in Workers, WorkerStep(w)
  PROVE  /\ LiveWorkersMove /\ UNCHANGED stopVars
         /\ \A v \in Workers \ {w} : worker'[v] = worker[v]
<1> USE DEF IInv, TypeOK, WorkerState, Alive, Lost, callerVars,
         stopVars, LiveWorkersMove
<1>1. CASE WriteProgress(w) BY <1>1 DEF WriteProgress
<1>2. CASE WriteFinal(w) BY <1>2 DEF WriteFinal
<1>3. CASE \E rc \in {"zero", "nonzero"} : Exit(w, rc)
  <2>1. PICK rc \in {"zero", "nonzero"} : Exit(w, rc)
    BY <1>3
  <2>2. worker'[w] = [worker[w] EXCEPT !.state = "exited", !.rc = rc]
    BY <2>1 DEF Exit
  <2> QED BY <2>1, <2>2 DEF Exit
<1>4. CASE WatchdogExpire(w) BY <1>4 DEF WatchdogExpire
<1>5. CASE WatchdogKill(w)
  <2>1. worker' = worker \/
        /\ Alive(w)
        /\ worker'[w].state = "exited" /\ worker'[w].lost = worker[w].lost
        /\ \A v \in Workers \ {w} : worker'[v] = worker[v]
    BY <1>5 DEF WatchdogKill, Kill
  <2> QED BY <1>5, <2>1 DEF WatchdogKill
<1> QED BY <1>1, <1>2, <1>3, <1>4, <1>5 DEF WorkerStep

LEMMA WorkerKeeps ==
  ASSUME IInv, TypeOK', NEW w \in Workers, WorkerStep(w)
  PROVE  Rest'
<1>1. LiveWorkersMove /\ UNCHANGED stopVars
  BY WorkerMoves
<1>2. StoppedWorkerIsDead'
  BY <1>1 DEF LiveWorkersMove, IInv, StoppedWorkerIsDead, Alive, stopVars
<1> QED
  BY <1>1, <1>2, LiveWorkersMoveKeeps

LEMMA StopWaitMoves ==
  ASSUME IInv, StopWait
  PROVE  /\ LiveWorkersMove /\ StoppedWorkerIsDead'
         /\ \A v \in Workers \ {stopProc} : worker'[v] = worker[v]
         /\ stopProc \notin Workers => worker' = worker
<1>1. UNCHANGED <<pc, proc, current, outcomeVars, stopProc>>
  BY DEF StopWait, callerVars
<1>2. \/ worker' = worker /\ ~Alive(stopProc)
      \/ /\ Alive(stopProc)
         /\ worker'[stopProc].state = "exited"
         /\ Lost(stopProc)' = Lost(stopProc)
         /\ \A v \in Workers \ {stopProc} : worker'[v] = worker[v]
  BY DEF StopWait, Kill, WorkerState, Alive, Lost, IInv, TypeOK
<1>3. LiveWorkersMove
  BY <1>1, <1>2 DEF LiveWorkersMove
<1>4. StoppedWorkerIsDead'
  BY <1>1, <1>2 DEF StoppedWorkerIsDead, Alive
<1> QED
  BY <1>2, <1>3, <1>4 DEF Alive

LEMMA StopKeeps ==
  ASSUME IInv, TypeOK', StopScheduler \/ StopLook \/ StopWait
  PROVE  Rest'
<1> USE WorkersAreNumbers
<1>1. CASE StopScheduler
  BY <1>1, LiveWorkersMoveKeeps DEF StopScheduler, LiveWorkersMove, IInv,
     StoppedWorkerIsDead, callerVars, Alive
<1>2. CASE StopLook
  BY <1>2 DEF StopLook, IngestionRunning, IInv, Rest, TypeOK, WorkerOrNone,
     Owned, Exclusive, UnbornUnknown, RaisedIsLost, LiveWorkerIsTracked,
     LiveHasReader, SuccessIsComplete, MetricsAreOfACompleteCycle,
     StoppedWorkerIsDead, Alive, Lost, Succeeded, callerVars, outcomeVars
<1>3. CASE StopWait
  BY <1>3, StopWaitMoves, LiveWorkersMoveKeeps
<1> QED
  BY <1>1, <1>2, <1>3

\* A call that begins holds nothing yet.
LEMMA AcceptKeeps ==
  ASSUME IInv, TypeOK',
         \/ TickFire
         \/ \E c \in Rescans : RescanAccept(c)
         \/ \E c \in Tools : ToolCall(c)
  PROVE  Rest'
<1>1. /\ UNCHANGED <<proc, current, worker, outcomeVars, stopPc, stopProc>>
      /\ \E c \in Callers : pc[c] = "idle" /\ pc' = [pc EXCEPT ![c] = "accepted"]
  BY DEF TickFire, RescanAccept, ToolCall, Goto, Callers, stopVars
<1> QED
  BY <1>1 DEF IInv, Rest, TypeOK, Owned,
      Exclusive, UnbornUnknown, RaisedIsLost, LiveWorkerIsTracked,
      LiveHasReader, SuccessIsComplete, MetricsAreOfACompleteCycle,
      StoppedWorkerIsDead, Holding, Raised, Recording, Alive, Lost,
      Succeeded, outcomeVars

LEMMA StepInvariant == IInv /\ [Next]_vars => IInv'
<1> SUFFICES ASSUME IInv, [Next]_vars PROVE IInv'
  OBVIOUS
<1>1. TypeOK'
  BY TypeStep DEF IInv
<1>2. CASE Next
  BY <1>1, <1>2, CallerKeeps, SpawnKeeps, ReadRaiseKeeps, WorkerKeeps,
     StopKeeps, AcceptKeeps
     DEF Next, CallerFault, IInv, Rest, WorkerStep
<1>3. CASE UNCHANGED vars
  BY <1>3 DEF vars, callerVars, outcomeVars, stopVars, IInv, TypeOK, Owned,
     Exclusive, UnbornUnknown, RaisedIsLost, LiveWorkerIsTracked,
     LiveHasReader, SuccessIsComplete, MetricsAreOfACompleteCycle,
     StoppedWorkerIsDead, Alive, Lost, Succeeded
<1> QED
  BY <1>2, <1>3

\* IInv is an invariant of the supervisor.
THEOREM Invariant == Spec => []IInv
BY InitInvariant, StepInvariant, PTL DEF Spec

-----------------------------------------------------------------------------
\* Every variable keeps its type (run_subprocess_cycle, stop, the worker).
THEOREM TypeCorrect == Spec => []TypeOK
<1>1. IInv => TypeOK
  BY DEF IInv
<1> QED
  BY <1>1, Invariant, PTL

\* The worker that is alive is _current_proc, for any number of callers,
\* unless an exception of its caller lost it.
THEOREM Tracked == Spec => []LiveWorkerIsTracked
<1>1. IInv => LiveWorkerIsTracked
  BY DEF IInv
<1> QED
  BY <1>1, Invariant, PTL

\* A live worker that is not lost has one reader of its stdout, and no
\* worker has two.
THEOREM Streamed == Spec => []LiveWorkerIsStreamed
<1>1. IInv => LiveWorkerIsStreamed
  BY WorkersAreNumbers
     DEF IInv, LiveWorkerIsStreamed, LiveHasReader, Exclusive
<1> QED
  BY <1>1, Invariant, PTL

\* Whatever progress is shown was announced by a call that is yet to come to
\* its finally, and the scan shown is of a worker whose cycle is open.
Announcing == {"entering", "rejected", "streaming", "reaped", "cleared",
               "raised", "unwound"}
ProgressAnnounced ==
    /\ progress # NoProgress => \E c \in Callers : pc[c] \in Announcing
    /\ progress.phase = "scan" =>
         \E c \in Callers : OpenCycle(c) /\ proc[c] = progress.of

LEMMA ProgressStep ==
  ASSUME TypeOK, ProgressAnnounced, [Next]_vars
  PROVE  ProgressAnnounced'
<1>t. pc \in [Callers -> Locations] /\ proc \in [Callers -> WorkerOrNone]
  BY DEF TypeOK
<1> USE DEF ProgressAnnounced, OpenCycle, Announcing
\* The finally, and a step that leaves the calls under way where they were.
<1>1. ASSUME progress' = NoProgress PROVE ProgressAnnounced'
  BY <1>1 DEF NoProgress
<1>2. ASSUME progress' = progress,
             \A c \in Callers : pc[c] \in Announcing => pc'[c] \in Announcing,
             \A c \in Callers : OpenCycle(c) => OpenCycle(c)' /\ proc'[c] = proc[c]
      PROVE  ProgressAnnounced'
  BY <1>2
<1>3. ASSUME NEW c \in Callers, NEW l \in Locations, Goto(c, l),
             progress' = progress, pc[c] \in Announcing => l \in Announcing,
             OpenCycle(c) => l \in {"streaming", "reaped", "cleared",
                                     "raised", "unwound"}
      PROVE  ProgressAnnounced'
  <2>1. \A d \in Callers : pc'[d] = IF d = c THEN l ELSE pc[d]
    BY <1>3, <1>t DEF Goto
  <2>2. proc' = proc
    BY <1>3 DEF Goto
  <2> QED
    BY <1>2, <1>3, <2>1, <2>2
<1>4. ASSUME NEW c \in Callers, Leave(c), progress' = progress,
             pc[c] \notin Announcing
      PROVE  ProgressAnnounced'
  <2>1. \A d \in Callers \ {c} : pc'[d] = pc[d] /\ proc'[d] = proc[d]
    BY <1>4, <1>t DEF Leave
  <2> QED
    BY <1>2, <1>4, <2>1
<1>5. ASSUME NEW c \in Callers, CallerStep(c) \/ CallerFault(c)
      PROVE  ProgressAnnounced'
  <2> USE DEF Locations
  <2>1. CASE Enter(c)
    <3>1. pc'[c] = "entering" /\ progress'.phase = "starting"
      BY <2>1, <1>t DEF Enter, Goto, Starting
    <3> QED
      BY <3>1
  <2>2. CASE Reject(c) \/ SpawnFail(c)
    BY <1>3, <2>2 DEF Reject, SpawnFail
  <2>3. CASE Spawn(c)
    <3>1. pc'[c] = "streaming" /\ progress' = progress /\ pc[c] = "entering"
          /\ \A d \in Callers \ {c} : pc'[d] = pc[d] /\ proc'[d] = proc[d]
      BY <2>3, <1>t DEF Spawn
    <3> QED
      BY <1>2, <3>1
  <2>4. CASE ReadProgress(c)
    <3>1. /\ pc[c] = "streaming" /\ pc' = pc /\ proc' = proc
          /\ progress'.phase = "scan" /\ progress'.of = proc[c]
      BY <2>4 DEF ReadProgress, Scan, callerVars
    <3> QED
      BY <3>1
  <2>5. CASE ReadFinal(c)
    BY <1>2, <2>5 DEF ReadFinal, callerVars
  <2>6. CASE Reap(c) \/ ClearProc(c)
    BY <1>3, <2>6 DEF Reap, ClearProc
  <2>7. CASE UnwindRaised(c) \/ UnwindReturned(c)
    BY <1>1, <2>7 DEF UnwindRaised, UnwindReturned
  <2>8. CASE RecordMetrics(c) \/ RecordStats(c) \/ ClearFailure(c)
    BY <1>3, <2>8 DEF RecordMetrics, RecordStats, ClearFailure
  <2>9. CASE ReturnStats(c) \/ RecordFailure(c)
    BY <1>4, <2>9 DEF ReturnStats, RecordFailure
  <2>10. CASE SpawnUnwatched(c) \/ ReadRaise(c)
    BY <1>3, <2>10 DEF SpawnUnwatched, ReadRaise
  <2> QED
    BY <1>5, <2>1, <2>2, <2>3, <2>4, <2>5, <2>6, <2>7, <2>8, <2>9, <2>10
       DEF CallerStep, CallerFault
<1>6. CASE \/ TickFire
           \/ \E c \in Rescans : RescanAccept(c)
           \/ \E c \in Tools : ToolCall(c)
  <2>1. PICK c \in Callers : /\ pc[c] = "idle" /\ Goto(c, "accepted")
                             /\ progress' = progress
    BY <1>6 DEF TickFire, RescanAccept, ToolCall, Callers
  <2> QED
    BY <1>3, <2>1 DEF Locations
<1>7. CASE \/ \E w \in Workers : WorkerStep(w)
           \/ StopScheduler \/ StopLook \/ StopWait
           \/ UNCHANGED vars
  <2>1. UNCHANGED <<pc, proc, progress>>
    BY <1>7 DEF WorkerStep, WriteProgress, WriteFinal, Exit, WatchdogExpire,
       WatchdogKill, StopScheduler, StopLook, StopWait, vars, callerVars
  <2> QED
    BY <1>2, <2>1
<1> QED
  BY <1>5, <1>6, <1>7 DEF Next, WorkerStep

\* The progress shown by /health is withdrawn on every way out of a cycle,
\* and a scan shown is that of a worker still being read or just reaped.
THEOREM ProgressWithdrawn == Spec => []ProgressIsOfAnOpenCycle
<1>1. Init => ProgressAnnounced
  BY DEF Init, ProgressAnnounced, NoProgress
<1>2. TypeOK /\ ProgressAnnounced /\ [Next]_vars => ProgressAnnounced'
  BY ProgressStep
<1>3. ProgressAnnounced => ProgressIsOfAnOpenCycle
  BY DEF ProgressAnnounced, ProgressIsOfAnOpenCycle, Quiet, InCycle, Announcing
<1> QED
  BY <1>1, <1>2, <1>3, TypeCorrect, PTL DEF Spec

\* Metrics and stats are those of workers that completed and exited 0.
THEOREM CompleteMetrics == Spec => []MetricsAreOfACompleteCycle
<1>1. IInv => MetricsAreOfACompleteCycle
  BY DEF IInv
<1> QED
  BY <1>1, Invariant, PTL

\* The worker stop() saw running is dead when stop() returns.
THEOREM StopKills == Spec => []StoppedWorkerIsDead
<1>1. IInv => StoppedWorkerIsDead
  BY DEF IInv
<1> QED
  BY <1>1, Invariant, PTL

-----------------------------------------------------------------------------
(***************************************************************************)
(* The refinement: a spawn begins a cycle, the end of a process ends it, an *)
(* exception in the read loop sends a live one astray, and every other step *)
(* leaves the sets of processes alone.                                      *)
(***************************************************************************)
Live  == {w \in Workers : Alive(w) /\ ~Lost(w)}
Stray == {w \in Workers : Alive(w) /\ Lost(w)}
Over  == {w \in Workers : worker[w].state = "exited"}

FlightStep(w) == \/ Flight!Begin(w) \/ Flight!GoAstray(w)
                 \/ Flight!End(w) \/ Flight!StrayEnds(w)

LEMMA SpawnBegins ==
  ASSUME IInv, NEW c \in Callers, Spawn(c) \/ SpawnUnwatched(c)
  PROVE  \E w \in Workers : Flight!Begin(w)
<1>1. Live = {}
  BY NoneToOverlap DEF Spawn, SpawnUnwatched, Live
<1>2. PICK w \in Workers :
        /\ worker[w].state = "unborn"
        /\ \/ worker' = [worker EXCEPT ![w].state = "running"]
           \/ worker' = [worker EXCEPT ![w].state = "running", ![w].lost = TRUE]
  BY DEF Spawn, SpawnUnwatched, Fresh
<1>3. /\ worker'[w].state = "running"
      /\ worker'[w].lost \in BOOLEAN
      /\ \A v \in Workers \ {w} : worker'[v] = worker[v]
  BY <1>2 DEF IInv, TypeOK, WorkerState
<1>4. Over' = Over /\ w \notin Over \cup Stray
  BY <1>2, <1>3 DEF Stray, Over, Alive
<1>5. \/ Live' = {w} /\ Stray' = Stray
      \/ Live' = {} /\ Stray' = Stray \cup {w}
  <2>1. CASE worker'[w].lost
    <3>1. Live' = {}
      BY <1>1, <1>3, <2>1 DEF Live, Alive, Lost
    <3>2. Stray' = Stray \cup {w}
      BY <1>3, <2>1 DEF Stray, Alive, Lost
    <3> QED
      BY <3>1, <3>2
  <2>2. CASE ~worker'[w].lost
    <3>1. Live' = {w}
      BY <1>1, <1>3, <2>2 DEF Live, Alive, Lost
    <3>2. Stray' = Stray
      BY <1>2, <1>3, <2>2 DEF Stray, Alive, Lost
    <3> QED
      BY <3>1, <3>2
  <2> QED
    BY <2>1, <2>2
<1>6. Flight!Begin(w)
  BY <1>1, <1>4, <1>5 DEF Flight!Begin, Live, Stray, Over
<1> QED
  BY <1>6

\* A caller that loses a live worker sends it astray; a dead one stays dead.
LEMMA RaiseGoesAstray ==
  ASSUME IInv, NEW c \in Callers, ReadRaise(c)
  PROVE  \/ \E w \in Workers : Flight!GoAstray(w)
         \/ UNCHANGED <<Live, Stray, Over>>
<1> DEFINE w == proc[c]
<1>1. w \in Workers
  BY DEF ReadRaise, IInv, TypeOK, WorkerOrNone, Owned, Holding
<1>2. /\ \A v \in Workers \ {w} : worker'[v] = worker[v]
      /\ worker'[w].state = worker[w].state /\ worker'[w].lost
  BY <1>1 DEF ReadRaise, IInv, TypeOK, WorkerState
<1> HIDE DEF w
<1>3. Over' = Over
  BY <1>1, <1>2 DEF Over
<1>4. CASE w \in Live
  <2>1. Live' = Live \ {w}
    BY <1>1, <1>2 DEF Live, Alive, Lost
  <2>2. Stray' = Stray \cup {w}
    BY <1>1, <1>2, <1>4 DEF Live, Stray, Alive, Lost
  <2>3. Flight!GoAstray(w)
    BY <1>3, <1>4, <2>1, <2>2 DEF Flight!GoAstray, Live, Stray, Over
  <2> QED
    BY <1>1, <2>3
<1>5. CASE w \notin Live
  <2>1. Live' = Live
    BY <1>1, <1>2, <1>5 DEF Live, Alive, Lost
  <2>2. Stray' = Stray
    BY <1>1, <1>2, <1>5 DEF Live, Stray, Alive, Lost
  <2> QED
    BY <1>3, <2>1, <2>2
<1> QED
  BY <1>4, <1>5

\* A step of one live worker alone either ends it or changes nothing.
LEMMA MoveEnds ==
  ASSUME LiveWorkersMove, NEW w \in Workers,
         \A v \in Workers \ {w} : worker'[v] = worker[v]
  PROVE  \/ Flight!End(w) \/ Flight!StrayEnds(w)
         \/ UNCHANGED <<Live, Stray, Over>>
<1>1. CASE Alive(w) /\ worker'[w].state = "exited"
  <2>1. Over' = Over \cup {w}
    BY <1>1 DEF Over
  <2>2. Live' = Live \ {w} /\ Stray' = Stray \ {w}
    BY <1>1 DEF Live, Stray, Alive, Lost
  <2>3. CASE Lost(w)
    <3>1. w \in Stray /\ Live' = Live
      BY <1>1, <2>2, <2>3 DEF Live, Stray
    <3> QED
      BY <2>1, <2>2, <3>1 DEF Flight!StrayEnds, Live, Stray, Over
  <2>4. CASE ~Lost(w)
    <3>1. w \in Live /\ Stray' = Stray
      BY <1>1, <2>2, <2>4 DEF Live, Stray
    <3> QED
      BY <2>1, <2>2, <3>1 DEF Flight!End, Live, Stray, Over
  <2> QED
    BY <2>3, <2>4
<1>2. CASE ~(Alive(w) /\ worker'[w].state = "exited")
  <2>1. \A v \in Workers : /\ worker'[v].state = worker[v].state
                           /\ Lost(v)' = Lost(v)
    BY <1>2 DEF LiveWorkersMove, Alive, Lost
  <2> QED
    BY <2>1 DEF Live, Stray, Over, Alive
<1> QED
  BY <1>1, <1>2

LEMMA StepRefines ==
  ASSUME IInv, [Next]_vars
  PROVE  (\E w \in Workers : FlightStep(w)) \/ UNCHANGED <<Live, Stray, Over>>
<1> DEFINE SameStates == \A w \in Workers : /\ worker'[w].state = worker[w].state
                                            /\ worker'[w].lost = worker[w].lost
<1>1. ASSUME SameStates PROVE UNCHANGED <<Live, Stray, Over>>
  BY <1>1 DEF Live, Stray, Over, Alive, Lost
<1>2. CASE \/ TickFire
           \/ \E c \in Rescans : RescanAccept(c)
           \/ \E c \in Tools : ToolCall(c)
           \/ StopScheduler \/ StopLook
           \/ UNCHANGED vars
  BY <1>1, <1>2 DEF TickFire, RescanAccept, ToolCall, StopScheduler, StopLook,
     vars
<1>3. ASSUME NEW c \in Callers, CallerStep(c), ~Spawn(c) PROVE SameStates
  <2> USE DEF IInv, TypeOK, WorkerState
  <2>1. CASE ReadProgress(c) \/ ReadFinal(c)
    BY <2>1 DEF ReadProgress, ReadFinal
  <2>2. CASE ~(ReadProgress(c) \/ ReadFinal(c))
    BY <1>3, <2>2 DEF CallerStep, Enter, Reject, SpawnFail, Reap, ClearProc,
       UnwindRaised, UnwindReturned, RecordMetrics, RecordStats, ClearFailure,
       ReturnStats, RecordFailure
  <2> QED
    BY <2>1, <2>2
<1>4. CASE \E c \in Callers : CallerStep(c) \/ CallerFault(c)
  <2> HIDE DEF SameStates
  <2> QED
    BY <1>1, <1>3, <1>4, SpawnBegins, RaiseGoesAstray DEF CallerFault, FlightStep
<1>5. CASE \E w \in Workers : WorkerStep(w)
  BY <1>5, WorkerMoves, MoveEnds DEF FlightStep
<1>6. CASE StopWait
  <2>1. CASE stopProc \in Workers
    BY <1>6, <2>1, StopWaitMoves, MoveEnds DEF FlightStep
  <2>2. CASE stopProc \notin Workers
    BY <1>1, <1>6, <2>2, StopWaitMoves
  <2> QED
    BY <2>1, <2>2
<1> QED
  BY <1>2, <1>4, <1>5, <1>6 DEF Next, WorkerStep

\* The supervisor implements SingleFlight: ingestion cycles of any number of
\* callers run one at a time but for those an exception lost, and none runs
\* twice.
THEOREM SingleFlightRefined == Spec => ImplementsSingleFlight
<1>1. Init => Flight!Init
  BY DEF Init, Flight!Init, Alive, Unborn
<1>2. IInv /\ [Next]_vars => [Flight!Next]_(Flight!vars)
  BY StepRefines DEF FlightStep, Flight!Next, Flight!vars, Live, Stray, Over
<1> QED
  BY <1>1, <1>2, Invariant, PTL DEF Spec, Flight!Spec, ImplementsSingleFlight
=============================================================================
