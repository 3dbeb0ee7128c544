-------------------------- MODULE RequestDispatch ---------------------------
(***************************************************************************)
(* How requests reach PHP threads: ServeHTTP of server.go, SendRequest and *)
(* SendMessage of workerextension.go, handleRequest of worker.go,          *)
(* handleRequestWithRegularPHPThreads of threadregular.go, the scaler of   *)
(* scaling.go and the select of the threads, across Shutdown and a second  *)
(* Init.                                                                   *)
(*                                                                         *)
(* The threads are those of PhpThreads, reduced to what a request sees: a  *)
(* thread is at its select, runs a script, is on its way there, or is      *)
(* away.  Pool 0 is the pool of regular threads, pool g > 0 the worker     *)
(* object that instance g creates.  The order of a thread list is          *)
(* abstracted: a dispatcher tries its threads in any order.  So is time: a *)
(* request that waits may be cancelled or time out at any moment.          *)
(***************************************************************************)
EXTENDS Integers, FiniteSets

CONSTANTS
    Request,        \* calls of ServeHTTP, SendRequest or SendMessage
    Message,        \* those of SendMessage
    Regular,        \* threads Init converts to regular threads
    Worker,         \* threads Init gives to the worker
    Spare,          \* threads only autoscaling starts
    WorkerLimit,    \* worker.maxThreads, 0 for no limit
    Scaling,        \* max_threads is larger than num_threads
    MaxWait,        \* maxWaitTime is not zero
    InstanceBound,  \* bound: instances started one after the other
    EventBound,     \* bound: shutdowns, drained threads, threads added
    NoRequest

Thread == Regular \cup Worker \cup Spare
Pool == 0 .. InstanceBound

ASSUME DispatchAssumption ==
    /\ Regular \cap Worker = {} /\ (Regular \cup Worker) \cap Spare = {}
    /\ IsFiniteSet(Request) /\ IsFiniteSet(Thread)
    /\ Message \subseteq Request /\ NoRequest \notin Request
    /\ WorkerLimit \in Nat /\ EventBound \in Nat /\ InstanceBound \in Nat \ {0}
    /\ Scaling \in BOOLEAN /\ MaxWait \in BOOLEAN

VARIABLES
    inst, up,         \* the instance and its phase
    scaler, scaleFor, \* startUpscalingThreads, the pool it adds a thread to
    threads,          \* regularThreads and worker.threads
    queuedRequests,   \* queuedRegularThreads and worker.queuedRequests
    tpc, serves, cur, \* each thread: its step, its pool, its request
    drained,          \* each thread: drainChan is closed
    pc, worker,       \* each request: the step of its dispatcher, its pool
    rem, offer,       \* each request: threads left to try, scaleChan is offered
    done,             \* each request: fc.done is closed
    events            \* against EventBound

instVars == <<inst, up, scaler, scaleFor>>
poolVars == <<threads, queuedRequests>>
threadVars == <<tpc, serves, cur, drained>>
dispatchVars == <<pc, worker, rem, offer>>
vars == <<instVars, poolVars, threadVars, dispatchVars, done, events>>

Init ==
    /\ inst = 1 /\ up = "init" /\ scaler = "none" /\ scaleFor = 0
    /\ threads = [p \in Pool |-> {}] /\ queuedRequests = [p \in Pool |-> 0]
    /\ tpc = [t \in Thread |-> "out"] /\ serves = [t \in Thread |-> 0]
    /\ cur = [t \in Thread |-> NoRequest] /\ drained = [t \in Thread |-> FALSE]
    /\ pc = [r \in Request |-> "idle"] /\ worker = [r \in Request |-> 0]
    /\ rem = [r \in Request |-> {}] /\ offer = [r \in Request |-> FALSE]
    /\ done = [r \in Request |-> FALSE]
    /\ events = 0
-----------------------------------------------------------------------------
(* The instance *)

\* server.isRegistered: from activateServers() to unregisterServers()
isRegistered == up \in {"up", "stopping", "draining"}

\* worker.stopped
stopped(g) == g < inst \/ (g = inst /\ up \in {"stopping", "draining", "down"})

\* The worker of a server, 0 for none: registerServers() resets them and
\* initWorkers() adds them back.
serverWorker == IF up = "init" THEN 0 ELSE inst

\* extensionWorkers.internalWorker, 0 for nil: only newWorker() replaces it.
internalWorker == IF up = "init" THEN inst - 1 ELSE inst

\* scaleChan is not nil: made by the first initAutoScaling() and kept.
hasScaleChan == Scaling /\ (inst > 1 \/ up \notin {"init", "starting"})

\* regular threads have no limit of their own
isAtThreadLimit(p) ==
    p # 0 /\ WorkerLimit > 0 /\ Cardinality(threads[p]) >= WorkerLimit

\* The dispatchers that hold threadMutex or regularThreadMu for reading.
Readers(p) == {r \in Request : pc[r] = "scan" /\ worker[r] = p}

\* Mutated form: only the first instance starts regular threads.
startThreadsOnce ==
    /\ up = "init" /\ Readers(0) = {}
    /\ up' = "starting"
    /\ threads' = [threads EXCEPT ![0] = IF inst = 1 THEN Regular ELSE {}, ![inst] = Worker]
    /\ tpc' = [t \in Thread |-> IF t \in threads'[0] \cup Worker THEN "boot" ELSE "out"]
    /\ serves' = [t \in Thread |-> IF t \in Worker THEN inst ELSE 0]
    /\ UNCHANGED <<inst, scaler, scaleFor, queuedRequests, cur, drained, dispatchVars, done, events>>

\* Init: convertToRegularThread, then initWorkers with a new worker
startThreads ==
    /\ up = "init" /\ Readers(0) = {}
    /\ up' = "starting"
    /\ threads' = [threads EXCEPT ![0] = Regular, ![inst] = Worker]
    /\ tpc' = [t \in Thread |-> IF t \in Spare THEN "out" ELSE "boot"]
    /\ serves' = [t \in Thread |-> IF t \in Worker THEN inst ELSE 0]
    /\ UNCHANGED <<inst, scaler, scaleFor, queuedRequests, cur, drained, dispatchVars, done, events>>

\* initWorkers has waited for its threads: initAutoScaling, activateServers
activateServers ==
    /\ up = "starting" /\ \A t \in Worker : tpc[t] # "boot"
    /\ up' = "up" /\ scaler' = IF Scaling THEN "ready" ELSE "none"
    /\ UNCHANGED <<inst, scaleFor, poolVars, threadVars, dispatchVars, done, events>>

\* shutdown(): every worker.stopped is set ...
stopWorkers ==
    /\ up = "up" /\ inst < InstanceBound /\ events < EventBound
    /\ up' = "stopping" /\ events' = events + 1
    /\ UNCHANGED <<inst, scaler, scaleFor, poolVars, threadVars, dispatchVars, done>>

\* ... then drainPHPThreads closes mainThread.done and every drainChan ...
drainPHPThreads ==
    /\ up = "stopping"
    /\ up' = "draining" /\ scaleFor' = 0
    /\ scaler' = IF Scaling THEN "ending" ELSE "none"
    /\ drained' = [t \in Thread |-> tpc[t] # "out"]
    /\ UNCHANGED <<inst, poolVars, tpc, serves, cur, dispatchVars, done, events>>

\* ... and once every thread is gone, the servers are unregistered.
unregisterServers ==
    /\ up = "draining" /\ \A t \in Thread : tpc[t] = "out"
    /\ up' = "down"
    /\ UNCHANGED <<inst, scaler, scaleFor, poolVars, threadVars, dispatchVars, done, events>>

\* The next Init, up to registerServers; the scaler has seen <-done by then.
registerServers ==
    /\ up = "down" /\ scaler = "none"
    /\ inst' = inst + 1 /\ up' = "init"
    /\ UNCHANGED <<scaler, scaleFor, poolVars, threadVars, dispatchVars, done, events>>
-----------------------------------------------------------------------------
(* The dispatcher: the goroutine that serves request r *)

Goto(r, s) == pc' = [pc EXCEPT ![r] = s]
Add(p, n) == queuedRequests' = [queuedRequests EXCEPT ![p] = @ + n]
Enter(r, s) ==
    /\ Goto(r, s)
    /\ UNCHANGED <<instVars, poolVars, threadVars, worker, rem, offer, done, events>>

\* running(): the extension's worker, 0 when it is nil or stopped
running == IF internalWorker = 0 \/ stopped(internalWorker) THEN 0 ELSE internalWorker

\* The call is refused, or goes on with the extension's worker.
Extension(r, accept, next) ==
    /\ pc[r] = "idle"
    /\ worker' = [worker EXCEPT ![r] = IF accept THEN running ELSE 0]
    /\ Goto(r, IF accept THEN next ELSE "returned")
    /\ UNCHANGED <<instVars, poolVars, threadVars, rem, offer, done, events>>

\* SendRequest names the worker and goes on to ServeHTTP
SendRequest(r) == r \notin Message /\ Extension(r, running # 0, "named")

SendMessage(r) == r \in Message /\ Extension(r, running # 0 /\ isRegistered, "load")

ServeHTTP(r) ==
    /\ pc[r] \in {"idle", "named"} /\ r \notin Message
    /\ Enter(r, IF isRegistered THEN "context" ELSE "returned")

\* newContextFromRequest: the path selects a worker or the regular threads,
\* unless the worker is named
newContextFromRequest(r) ==
    /\ pc[r] = "context"
    /\ \E w \in IF worker[r] # 0 THEN {worker[r]} ELSE {0, serverWorker} :
          worker' = [worker EXCEPT ![r] = w]
    /\ Goto(r, "load")
    /\ UNCHANGED <<instVars, poolVars, threadVars, rem, offer, done, events>>

\* the path or Content-Length is invalid: reject
validate(r) ==
    /\ pc[r] = "context"
    /\ done' = [done EXCEPT ![r] = TRUE] /\ Goto(r, "returned")
    /\ UNCHANGED <<instVars, poolVars, threadVars, worker, rem, offer, events>>

\* a queue makes the request wait behind it
loadQueued(r) ==
    /\ pc[r] = "load"
    /\ Enter(r, IF queuedRequests[worker[r]] = 0 THEN "lock" ELSE "enqueue")

\* RLock, range over the listed threads
lockThreads(r) ==
    /\ pc[r] = "lock"
    /\ rem' = [rem EXCEPT ![r] = threads[worker[r]]] /\ Goto(r, "scan")
    /\ UNCHANGED <<instVars, poolVars, threadVars, worker, offer, done, events>>

\* The thread leaves its select with the request.
Receive(r, t) ==
    /\ tpc' = [tpc EXCEPT ![t] = "run"] /\ cur' = [cur EXCEPT ![t] = r]
    /\ UNCHANGED <<serves, drained>>

\* Mutated form: no return after the hand-over.
trySendNoReturn(r, t) ==
    /\ pc[r] = "scan" /\ t \in rem[r]
    /\ rem' = [rem EXCEPT ![r] = @ \ {t}]
    /\ IF tpc[t] = "select" /\ ~drained[t] THEN Receive(r, t) ELSE UNCHANGED threadVars
    /\ UNCHANGED <<instVars, poolVars, pc, worker, offer, done, events>>

\* thread.requestChan <- fc, for a thread that is parked in its select
trySend(r, t) ==
    /\ pc[r] = "scan" /\ t \in rem[r]
    /\ IF tpc[t] = "select" /\ ~drained[t]
       THEN Receive(r, t) /\ Goto(r, "wait") /\ rem' = [rem EXCEPT ![r] = {}]
       ELSE rem' = [rem EXCEPT ![r] = @ \ {t}] /\ UNCHANGED <<threadVars, pc>>
    /\ UNCHANGED <<instVars, poolVars, worker, offer, done, events>>

scanned(r) == pc[r] = "scan" /\ rem[r] = {} /\ Enter(r, "enqueue")

enqueue(r) ==
    /\ pc[r] = "enqueue"
    /\ Add(worker[r], 1) /\ Goto(r, "loop")
    /\ UNCHANGED <<instVars, threads, threadVars, worker, rem, offer, done, events>>

\* The head of the loop: scaleChan takes part unless the worker is at its limit.
enterSelect(r) ==
    /\ pc[r] = "loop"
    /\ offer' = [offer EXCEPT ![r] = hasScaleChan /\ ~isAtThreadLimit(worker[r])]
    /\ Goto(r, "queued")
    /\ UNCHANGED <<instVars, poolVars, threadVars, worker, rem, done, events>>

\* worker.requestChan <- fc or regularRequestChan <- fc; a thread whose
\* drainChan is closed may still pick it
sendQueued(r, t) ==
    /\ pc[r] = "queued" /\ tpc[t] = "select" /\ serves[t] = worker[r]
    /\ Receive(r, t) /\ Goto(r, "sent")
    /\ UNCHANGED <<instVars, poolVars, worker, rem, offer, done, events>>

dequeue(r) ==
    /\ pc[r] = "sent"
    /\ Add(worker[r], -1) /\ Goto(r, "wait")
    /\ UNCHANGED <<instVars, threads, threadVars, worker, rem, offer, done, events>>

\* scaleChan <- fc.  The scaler starts to add a thread, unless the request is
\* young, its worker is stopped or at its limit, or <-done is due.
sendScale(r) ==
    /\ pc[r] = "queued" /\ offer[r] /\ scaler \in {"ready", "ending"}
    /\ \E t \in Spare : tpc[t] = "out"
    /\ Goto(r, "scaled")
    /\ \/ UNCHANGED <<scaler, scaleFor>>
       \/ /\ scaler = "ready" /\ ~isAtThreadLimit(worker[r])
          /\ worker[r] # 0 => ~stopped(worker[r])
          /\ scaler' = "busy" /\ scaleFor' = worker[r]
    /\ UNCHANGED <<inst, up, poolVars, threadVars, worker, rem, offer, done, events>>

\* A stopped worker refuses, any other request waits again.
afterScale(r) ==
    /\ pc[r] = "scaled"
    /\ Enter(r, IF worker[r] # 0 /\ stopped(worker[r]) THEN "refused" ELSE "loop")

\* <-fc.ctx.Done()
cancelled(r) == pc[r] = "queued" /\ Enter(r, "cancelled")

\* <-timeoutChan(maxWaitTime)
timedOut(r) == pc[r] = "queued" /\ MaxWait /\ Enter(r, "timedOut")

\* Mutated forms: a refused request stays counted; a late one is counted out twice.
leaveQueueForget(r) ==
    /\ pc[r] \in {"refused", "cancelled", "timedOut"}
    /\ IF pc[r] = "refused" THEN UNCHANGED queuedRequests ELSE Add(worker[r], -1)
    /\ Goto(r, "returned")
    /\ done' = [done EXCEPT ![r] = pc[r] = "timedOut"]
    /\ UNCHANGED <<instVars, threads, threadVars, worker, rem, offer, events>>

\* The three ways out of the queue without a thread; a timeout rejects.
leaveQueue(r) ==
    /\ pc[r] \in {"refused", "cancelled", "timedOut"}
    /\ Add(worker[r], -1) /\ Goto(r, "returned")
    /\ done' = [done EXCEPT ![r] = pc[r] = "timedOut"]
    /\ UNCHANGED <<instVars, threads, threadVars, worker, rem, offer, events>>

\* <-fc.done
answered(r) == pc[r] = "wait" /\ done[r] /\ Enter(r, "returned")
-----------------------------------------------------------------------------
(* The threads *)

TGoto(t, s) == tpc' = [tpc EXCEPT ![t] = s]

\* The worker script or the regular handler reaches its select.
park(t) ==
    /\ tpc[t] = "boot" /\ TGoto(t, "select")
    /\ UNCHANGED <<instVars, poolVars, serves, cur, drained, dispatchVars, done, events>>

\* A restart or a downscale closes the drainChan of a thread.
closeDrain(t) ==
    /\ up = "up" /\ tpc[t] \notin {"out", "left"} /\ ~drained[t] /\ events < EventBound
    /\ drained' = [drained EXCEPT ![t] = TRUE] /\ events' = events + 1
    /\ UNCHANGED <<instVars, poolVars, tpc, serves, cur, dispatchVars, done>>

\* <-drainChan
selectDrained(t) ==
    /\ tpc[t] = "select" /\ drained[t] /\ TGoto(t, "left")
    /\ UNCHANGED <<instVars, poolVars, serves, cur, drained, dispatchVars, done, events>>

\* Mutated form: a worker thread is not started again.
comeBackRegular(t) ==
    /\ tpc[t] = "left" /\ up # "draining" /\ serves[t] = 0
    /\ TGoto(t, "boot") /\ drained' = [drained EXCEPT ![t] = FALSE]
    /\ UNCHANGED <<instVars, poolVars, serves, cur, dispatchVars, done, events>>

\* A restarted thread runs again, with a new drainChan.
comeBack(t) ==
    /\ tpc[t] = "left" /\ up # "draining"
    /\ TGoto(t, "boot") /\ drained' = [drained EXCEPT ![t] = FALSE]
    /\ UNCHANGED <<instVars, poolVars, serves, cur, dispatchVars, done, events>>

\* detachThread, detachRegularThread: a thread that is shut down or scaled down
retire(t) ==
    /\ tpc[t] = "left" /\ (up = "draining" \/ t \in Spare)
    /\ Readers(serves[t]) = {}
    /\ threads' = [threads EXCEPT ![serves[t]] = @ \ {t}]
    /\ TGoto(t, "out") /\ serves' = [serves EXCEPT ![t] = 0]
    /\ drained' = [drained EXCEPT ![t] = FALSE]
    /\ UNCHANGED <<instVars, queuedRequests, cur, dispatchVars, done, events>>

\* scaleWorkerThread, scaleRegularThread: convert and attach a spare thread ...
addThread(t) ==
    /\ scaler = "busy" /\ up \in {"up", "stopping"} /\ t \in Spare /\ tpc[t] = "out"
    /\ events < EventBound /\ events' = events + 1
    /\ ~isAtThreadLimit(scaleFor) /\ Readers(scaleFor) = {}
    /\ TGoto(t, "boot") /\ serves' = [serves EXCEPT ![t] = scaleFor]
    /\ threads' = [threads EXCEPT ![scaleFor] = @ \cup {t}]
    /\ scaler' = "ready" /\ scaleFor' = 0
    /\ UNCHANGED <<inst, up, queuedRequests, cur, drained, dispatchVars, done>>

\* ... or give up: the CPUs are busy, the limit is reached, no thread is created.
scaleFailed ==
    /\ scaler = "busy" /\ scaler' = "ready" /\ scaleFor' = 0
    /\ UNCHANGED <<inst, up, poolVars, threadVars, dispatchVars, done, events>>

\* <-done
scalerDone ==
    /\ scaler = "ending" /\ scaler' = "none"
    /\ UNCHANGED <<inst, up, scaleFor, poolVars, threadVars, dispatchVars, done, events>>

\* closeContext: by finish_request, at the end of the request or after a crash
closeContext(t) ==
    /\ tpc[t] = "run" /\ ~done[cur[t]]
    /\ done' = [done EXCEPT ![cur[t]] = TRUE]
    /\ UNCHANGED <<instVars, poolVars, threadVars, dispatchVars, events>>

\* Mutated form: a crash drops the context without closing it.
clearContextOpen(t) ==
    /\ tpc[t] = "run"
    /\ cur' = [cur EXCEPT ![t] = NoRequest]
    /\ \E s \in {"select", "boot", "left"} : TGoto(t, s)
    /\ UNCHANGED <<instVars, poolVars, serves, drained, dispatchVars, done, events>>

\* The handler forgets the context: the next select, a new script, or a reboot
\* for max_requests.
clearContext(t) ==
    /\ tpc[t] = "run" /\ done[cur[t]]
    /\ cur' = [cur EXCEPT ![t] = NoRequest]
    /\ \E s \in {"select", "boot", "left"} : TGoto(t, s)
    /\ UNCHANGED <<instVars, poolVars, serves, drained, dispatchVars, done, events>>
-----------------------------------------------------------------------------
Reload == startThreads \/ activateServers \/ drainPHPThreads \/ unregisterServers \/ registerServers
Arrive(r) == newContextFromRequest(r) \/ validate(r)
Dispatch(r) ==
    \/ loadQueued(r) \/ lockThreads(r) \/ scanned(r) \/ enqueue(r) \/ enterSelect(r)
    \/ dequeue(r) \/ afterScale(r) \/ leaveQueue(r) \/ answered(r)
    \/ \E t \in Thread : trySend(r, t)
Scaler == scaleFailed \/ scalerDone \/ \E t \in Thread : addThread(t)
Run(t) == park(t) \/ closeContext(t) \/ clearContext(t)

Next ==
    \/ Reload \/ stopWorkers \/ Scaler
    \/ \E r \in Request :
          \/ ServeHTTP(r) \/ SendRequest(r) \/ SendMessage(r) \/ Arrive(r) \/ Dispatch(r)
          \/ sendScale(r) \/ cancelled(r) \/ timedOut(r)
          \/ \E t \in Thread : sendQueued(r, t)
    \/ \E t \in Thread :
          \/ Run(t) \/ closeDrain(t) \/ selectDrained(t) \/ comeBack(t) \/ retire(t)

\* Goroutines and threads that can run do run, and scripts end.  A select picks
\* at random among its ready cases.  Nobody has to call, leave, time out or
\* shut down.
Fairness ==
    /\ WF_vars(Reload) /\ WF_vars(Scaler)
    /\ \A r \in Request :
          /\ WF_vars(Arrive(r)) /\ WF_vars(Dispatch(r))
          /\ SF_vars(\E t \in Thread : sendQueued(r, t))
    /\ \A t \in Thread :
          /\ WF_vars(Run(t)) /\ SF_vars(selectDrained(t)) /\ WF_vars(comeBack(t) \/ retire(t))

Spec == Init /\ [][Next]_vars /\ Fairness
-----------------------------------------------------------------------------
(* Properties *)

\* Between queuedRequests.Add(1) and Add(-1).
Waiting == {"loop", "queued", "sent", "scaled", "refused", "cancelled", "timedOut"}

\* Every variable has its type; in particular no queue counter runs below zero.
TypeOK ==
    /\ inst \in 1 .. InstanceBound
    /\ up \in {"init", "starting", "up", "stopping", "draining", "down"}
    /\ scaler \in {"none", "ready", "busy", "ending"} /\ scaleFor \in Pool
    /\ threads \in [Pool -> SUBSET Thread] /\ queuedRequests \in [Pool -> Nat]
    /\ tpc \in [Thread -> {"out", "boot", "select", "left", "run"}]
    /\ serves \in [Thread -> Pool] /\ cur \in [Thread -> Request \cup {NoRequest}]
    /\ drained \in [Thread -> BOOLEAN]
    /\ pc \in [Request -> Waiting \cup {"idle", "named", "context", "load", "lock", "scan",
                                        "enqueue", "wait", "returned"}]
    /\ worker \in [Request -> Pool]
    /\ rem \in [Request -> SUBSET Thread] /\ offer \in [Request -> BOOLEAN]
    /\ done \in [Request -> BOOLEAN] /\ events \in 0 .. EventBound

\* Every variable has its type, and worker.queuedRequests and
\* queuedRegularThreads count exactly the requests that wait, whichever of the five ways they leave handleRequest: a counter that
\* stays above zero would send every later request past the direct hand-over.
QueueCounted ==
    TypeOK /\ \A p \in Pool :
        queuedRequests[p] = Cardinality({r \in Request : pc[r] \in Waiting /\ worker[r] = p})

\* A request is in the hands of one thread at most, a thread that serves its
\* pool, and its dispatcher waits for fc.done until the context is closed:
\* handleRequest never returns, and the client's ResponseWriter is never given
\* up, while a script may still write the response.
HandedOnce ==
    \A t \in Thread : tpc[t] = "run" =>
        /\ serves[t] = worker[cur[t]]
        /\ \A u \in Thread : tpc[u] = "run" /\ cur[u] = cur[t] => u = t
        /\ ~done[cur[t]] => pc[cur[t]] \in {"sent", "wait"}

\* A request handed to a thread is answered, even when the thread is restarted
\* or the instance is shut down in the meantime.
HandedIsAnswered == \A r \in Request : pc[r] = "wait" ~> pc[r] = "returned"

\* A request that waits for a regular thread when the server reloads is served by
\* the threads of the next instance (TestQueuedRequestSurvivesReload).
RegularSurvivesReload ==
    \A r \in Request : (pc[r] \in Waiting /\ worker[r] = 0) ~> pc[r] = "returned"

\* A request that waits for a worker is served unless the worker is stopped.
WorkerServes ==
    \A r \in Request : (pc[r] \in Waiting /\ worker[r] # 0)
        ~> (pc[r] = "returned" \/ stopped(worker[r]))

\* "A request queued for a thread when the server reloads must be served by the
\* new threads" (phpmainthread_test.go), whatever kind of thread it waits for.
QueuedSurvivesReload ==
    \A r \in Request : (pc[r] = "queued" /\ up = "stopping") ~> pc[r] = "returned"
=============================================================================
