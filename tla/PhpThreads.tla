----------------------------- MODULE PhpThreads ------------------------------
(***************************************************************************)
(* The life of the PHP threads of one FrankenPHP instance, from the boot   *)
(* in Init() to the drain in Shutdown(): phpthread.go, phpmainthread.go,   *)
(* threadinactive.go, threadregular.go, threadworker.go, scaling.go, the   *)
(* thread functions of frankenphp.c and the parts of Init() in             *)
(* frankenphp.go and worker.go that start threads.                         *)
(*                                                                         *)
(* Who acts on a thread slot t:                                            *)
(*   - its C thread (cpc[t]), which runs beforeScriptExecution, PHP and    *)
(*     the exit path of php_thread();                                      *)
(*   - the goroutine startRebootedThread (rpc[t]);                         *)
(*   - Init, which holds startupMu (task["init"][t]), and its goroutine of *)
(*     workersReady (wpc[t]);                                              *)
(*   - the holder of scalingMu (task["mu"][t]): scaling up or down,        *)
(*     restoreThread, rebootAllThreads or drainPHPThreads.                 *)
(* A step of a task is named for what the actor does next.  Steps in       *)
(* WaitStep are WaitFor calls; their pulses follow StateCell: want         *)
(* holds the subscriptions, granted the waits that were answered.          *)
(***************************************************************************)
EXTENDS Integers, FiniteSets

CONSTANTS
    MaxThreads,           \* mainThread.maxThreads, the length of phpThreads
    NumThreads,           \* mainThread.numThreads, the threads Init boots
    NumWorkers,           \* worker.num of the one worker
    WorkerMaxThreads,     \* worker.maxThreads, 0 for no limit
    MaxRequests,          \* maxRequestsPerThread, 0 for no limit
    MaxTerminationCount,  \* maxTerminationCount of scaling.go
    RestartDuringInit,    \* a restart may be asked for while Init runs
    RespawnCanFail,       \* the OS may refuse to replace an unhealthy C thread
    RestartBound,         \* bound: calls of rebootAllThreads
    ScaleBound,           \* bound: threads added by scaling
    FailureBound          \* bound: thread creations the OS refuses

ASSUME SizeAssumption ==
    /\ MaxThreads \in Nat /\ NumThreads \in 1 .. MaxThreads
    /\ NumWorkers \in 0 .. NumThreads /\ WorkerMaxThreads \in Nat
    /\ MaxRequests \in Nat /\ MaxTerminationCount \in Nat
    /\ RestartDuringInit \in BOOLEAN /\ RespawnCanFail \in BOOLEAN
    /\ RestartBound \in Nat /\ ScaleBound \in Nat /\ FailureBound \in Nat

Thread == 1 .. MaxThreads
Pool == {"regular", "worker"}
Handler == Pool \cup {"inactive", "none"}
Actor == {"init", "mu"}
Role == Actor \cup {"c", "respawn", "ready"}

State == {"Reserved", "BootRequested", "Booting", "Inactive", "Ready",
          "TransitionRequested", "TransitionInProgress", "TransitionComplete",
          "Rebooting", "ForceRebooting", "RebootReady", "YieldingForReboot",
          "ShuttingDown", "Done"}
Stable == {"Ready", "Inactive"}
Refusing == {"Reserved", "ShuttingDown", "Done"}

\* The WaitFor calls: the states awaited at each step that makes one.
WaitStep == {"idle", "newHandler", "rebooted", "boot", "safe", "safeForce", "safeDown",
             "transit", "started", "stable", "exit", "join", "yield"}
Awaited(s) ==
    CASE s = "idle" -> {"TransitionRequested", "ShuttingDown", "Rebooting", "ForceRebooting"}
      [] s = "newHandler" -> {"TransitionComplete"}
      [] s = "rebooted" -> {"RebootReady"}
      [] s = "boot" -> {"Inactive"}
      [] s \in {"safe", "safeForce", "safeDown"} -> {"Ready", "Inactive", "Reserved", "Done"}
      [] s = "transit" -> {"TransitionInProgress"}
      [] s = "started" -> {"Ready", "ShuttingDown", "Done"}
      [] s = "stable" -> {"Ready", "Inactive", "Reserved"}
      [] s = "exit" -> {"Done"}
      [] s = "join" -> {"Done", "Reserved"}
      [] s = "yield" -> {"YieldingForReboot"}
      [] OTHER -> {}

VARIABLES
    state,       \* thread.state of every slot
    want,        \* subscriptions: pairs <<role, thread>>
    granted,     \* waits answered by a pulse, not yet resumed
    handler,     \* thread.handler
    drained,     \* thread.drainChan is closed
    cpc,         \* the C thread of the slot, "none" when there is none
    requests,    \* handler.requestCount
    waiting,     \* state.waitingSince is set
    rpc,         \* the startRebootedThread goroutine
    pool,        \* regularThreads and worker.threads: how often each thread is listed
    restoring,   \* number of restoreThread goroutines of each pool
    autoScaled,  \* autoScaledThreads
    mu,          \* what the holder of scalingMu does, "free" when unlocked
    target,      \* handler a conversion under scalingMu converts to
    stopped,     \* stoppedThreadCount of deactivateThreads
    task,        \* step of each actor on each thread
    ini,         \* phase of Init
    left,        \* conversions Init still has to make
    wpc,         \* the goroutine of workersReady that waits for the thread
    failed,      \* a boot error or a message in startupFailChan
    main,        \* mainThread.state
    engine,      \* SAPI and TSRM are started (php_main)
    restarts, scaled, refused  \* counters of the three bounds

cellVars == <<state, want, granted>>
threadVars == <<handler, drained, cpc, requests, waiting, rpc>>
poolVars == <<pool, restoring, autoScaled>>
muVars == <<mu, target, stopped>>
initVars == <<ini, left, wpc, failed>>
mainVars == <<main, engine>>
boundVars == <<restarts, scaled, refused>>
vars == <<cellVars, threadVars, poolVars, muVars, task, initVars, mainVars, boundVars>>

Size(p) == IF p = "worker" THEN NumWorkers ELSE NumThreads - NumWorkers

\* initPHPThreads after mainThread.start(): the slots exist, nothing is booted.
Init ==
    /\ state = [t \in Thread |-> "Reserved"]
    /\ want = {} /\ granted = {}
    /\ handler = [t \in Thread |-> "none"]
    /\ drained = [t \in Thread |-> FALSE]
    /\ cpc = [t \in Thread |-> "none"]
    /\ requests = [t \in Thread |-> 0]
    /\ waiting = [t \in Thread |-> FALSE]
    /\ rpc = [t \in Thread |-> "none"]
    /\ pool = [p \in Pool |-> [t \in Thread |-> 0]]
    /\ restoring = [p \in Pool |-> 0]
    /\ autoScaled = {}
    /\ mu = "free" /\ target = "inactive" /\ stopped = 0
    /\ task = [a \in Actor |-> [t \in Thread |->
                 IF a = "init" /\ t <= NumThreads THEN "create" ELSE "none"]]
    /\ ini = "boot" /\ left = NumThreads /\ failed = FALSE
    /\ wpc = [t \in Thread |-> "none"]
    /\ main = "Ready" /\ engine = TRUE
    /\ restarts = 0 /\ scaled = 0 /\ refused = 0
-----------------------------------------------------------------------------
Step(r, t) ==
    CASE r = "c" -> cpc[t] [] r = "respawn" -> rpc[t] [] r = "ready" -> wpc[t] [] OTHER -> task[r][t]

\* state.Set: store s and answer the subscriptions that wait for it; resumed
\* are answered waits that the same step consumes.
Publish(t, s, resumed) ==
    LET hit == {x \in want : x[2] = t /\ s \in Awaited(Step(x[1], t))}
    IN /\ state' = [state EXCEPT ![t] = s]
       /\ want' = want \ hit
       /\ granted' = (granted \cup hit) \ resumed

\* WaitFor returns: the state is there on entry, or a pulse answered.
Passed(r, t) ==
    \/ <<r, t>> \in granted
    \/ <<r, t>> \notin want /\ state[t] \in Awaited(Step(r, t))

Resume(r, t) ==
    granted' = granted \ {<<r, t>>} /\ UNCHANGED <<state, want>>

\* The locked prefix of WaitFor when the state is not there on entry.
WaitFor(r, t) ==
    /\ Step(r, t) \in WaitStep
    /\ <<r, t>> \notin want \cup granted
    /\ state[t] \notin Awaited(Step(r, t))
    /\ want' = want \cup {<<r, t>>}
    /\ UNCHANGED <<state, granted, threadVars, poolVars, muVars, task, initVars, mainVars, boundVars>>

Goto(a, t, s) == task' = [task EXCEPT ![a][t] = s]
CGoto(t, s) == cpc' = [cpc EXCEPT ![t] = s]

\* attach and detach of a thread, under the mutex of the pool: attaching does
\* not look for the thread, detaching removes one entry
Attach(t, p) == pool' = [pool EXCEPT ![p][t] = @ + 1]
Detach(t, p) ==
    pool' = [q \in Pool |-> [u \in Thread |->
               IF q = p /\ u = t /\ pool[q][u] > 0 THEN pool[q][u] - 1 ELSE pool[q][u]]]

Members(p) == {t \in Thread : pool[p][t] > 0}

\* The number of entries of pool p that list a thread of S.
Entries(p, S) == Cardinality(UNION {{t} \X (1 .. pool[p][t]) : t \in S})
-----------------------------------------------------------------------------
(* The C thread: php_thread() and the handlers' beforeScriptExecution. *)

\* What beforeScriptExecution of handler h does in state s; "panic" stands
\* for panic("unexpected state").
Branch(h, s) ==
    CASE s \in {"Rebooting", "ForceRebooting", "ShuttingDown"} -> "leave"
      [] s = "TransitionRequested" -> "toNewHandler"
      [] h = "inactive" /\ s \in {"Booting", "TransitionComplete", "Inactive"} -> "setInactive"
      [] h = "inactive" /\ s = "RebootReady" -> "setInactiveAgain"
      [] h = "regular" /\ s \in {"TransitionComplete", "RebootReady"} -> "setReady"
      [] h = "regular" /\ s = "Ready" -> "serve"
      [] h = "worker" /\ s \in {"TransitionComplete", "Ready"} -> "bootScript"
      [] h = "worker" /\ s = "RebootReady" -> "setReadyAgain"
      [] OTHER -> "panic"

\* Mutated form: the thread stays in its pool when it is converted or stopped.
beforeScriptExecutionAttached(t) ==
    /\ cpc[t] = "before"
    /\ CGoto(t, Branch(handler[t], state[t]))
    /\ requests' = [requests EXCEPT ![t] = IF state[t] = "RebootReady" THEN 0 ELSE @]
    /\ UNCHANGED <<cellVars, handler, drained, waiting, rpc, poolVars, muVars, task, initVars, mainVars, boundVars>>

\* state.Get() and what follows it up to the next access to the state: the
\* thread leaves its pool when it is asked to convert or to stop, and the
\* request count restarts with a reboot or a new worker script.
beforeScriptExecution(t) ==
    /\ cpc[t] = "before"
    /\ CGoto(t, Branch(handler[t], state[t]))
    /\ IF state[t] \in {"TransitionRequested", "ShuttingDown"}
       THEN Detach(t, handler[t])
       ELSE UNCHANGED pool
    /\ requests' = [requests EXCEPT ![t] =
                      IF state[t] = "RebootReady" \/ Branch(handler[t], state[t]) = "bootScript"
                      THEN 0 ELSE @]
    /\ UNCHANGED <<cellVars, handler, drained, waiting, rpc, restoring, autoScaled,
                   muVars, task, initVars, mainVars, boundVars>>

setInactive(t) ==
    /\ cpc[t] = "setInactive"
    /\ Publish(t, "Inactive", {})
    /\ CGoto(t, "idle")
    /\ waiting' = [waiting EXCEPT ![t] = TRUE]
    /\ UNCHANGED <<handler, drained, requests, rpc, poolVars, muVars, task, initVars, mainVars, boundVars>>

idleWoken(t) ==
    /\ cpc[t] = "idle" /\ Passed("c", t)
    /\ Resume("c", t)
    /\ CGoto(t, "before")
    /\ waiting' = [waiting EXCEPT ![t] = FALSE]
    /\ UNCHANGED <<handler, drained, requests, rpc, poolVars, muVars, task, initVars, mainVars, boundVars>>

\* The Set of a branch that is followed by another call on the same thread.
setAndGo(t, from, s, to) ==
    /\ cpc[t] = from
    /\ Publish(t, s, {})
    /\ CGoto(t, to)
    /\ UNCHANGED <<handler, drained, requests, waiting, rpc, poolVars, muVars, task, initVars, mainVars, boundVars>>

setInactiveAgain(t) == setAndGo(t, "setInactiveAgain", "Inactive", "before")
setReadyAgain(t) == setAndGo(t, "setReadyAgain", "Ready", "before")

\* transitionToNewHandler; the new handler's beforeScriptExecution comes next
transitionToNewHandler(t) ==
    setAndGo(t, "toNewHandler", "TransitionInProgress", "newHandler")

newHandlerCalled(t) ==
    /\ cpc[t] = "newHandler" /\ Passed("c", t)
    /\ Resume("c", t)
    /\ CGoto(t, "before")
    /\ UNCHANGED <<handler, drained, requests, waiting, rpc, poolVars, muVars, task, initVars, mainVars, boundVars>>

\* Set(Ready): a regular thread goes on to waitForRequest, a worker is
\* inside waitForWorkerRequest and goes on to its select.
setReady(t) ==
    /\ cpc[t] = "setReady"
    /\ Publish(t, "Ready", {})
    /\ CGoto(t, IF handler[t] = "regular" THEN "serve" ELSE "select")
    /\ waiting' = [waiting EXCEPT ![t] = @ \/ handler[t] = "worker"]
    /\ UNCHANGED <<handler, drained, requests, rpc, poolVars, muVars, task, initVars, mainVars, boundVars>>

limitReached(t) == MaxRequests > 0 /\ requests[t] >= MaxRequests

\* waitForRequest and waitForWorkerRequest up to the select: reboot() when
\* max_requests is reached (nothing happens unless the state is Ready), else
\* a worker that is being started still has to become Ready.
waitForRequest(t) ==
    /\ cpc[t] = "serve"
    /\ IF limitReached(t) /\ state[t] = "Ready"
       THEN /\ Publish(t, "Rebooting", {})
            /\ rpc' = [rpc EXCEPT ![t] = "rebooted"]
            /\ CGoto(t, IF handler[t] = "regular" THEN "leave" ELSE "end")
            /\ UNCHANGED waiting
       ELSE /\ IF handler[t] = "worker" /\ state[t] = "TransitionComplete"
               THEN CGoto(t, "setReady") /\ UNCHANGED waiting
               ELSE CGoto(t, "select") /\ waiting' = [waiting EXCEPT ![t] = TRUE]
            /\ UNCHANGED <<cellVars, rpc>>
    /\ UNCHANGED <<handler, drained, requests, poolVars, muVars, task, initVars, mainVars, boundVars>>

\* case <-drainChan
selectDrained(t) ==
    /\ cpc[t] = "select" /\ drained[t]
    /\ CGoto(t, IF handler[t] = "regular" THEN "before" ELSE "end")
    /\ UNCHANGED <<cellVars, handler, drained, requests, waiting, rpc, poolVars, muVars, task, initVars, mainVars, boundVars>>

\* a request from the thread's own channel or from the queue of its pool;
\* requests reach the threads once Init has activated the servers
selectRequest(t) ==
    /\ cpc[t] = "select" /\ ini = "running"
    /\ CGoto(t, "run")
    /\ requests' = [requests EXCEPT ![t] = IF limitReached(t) \/ MaxRequests = 0 THEN @ ELSE @ + 1]
    /\ waiting' = [waiting EXCEPT ![t] = FALSE]
    /\ UNCHANGED <<cellVars, handler, drained, rpc, poolVars, muVars, task, initVars, mainVars, boundVars>>

\* The request ends: a worker script loops to frankenphp_handle_request or
\* ends too; a bailout makes the C thread unhealthy.
requestEnds(t) ==
    /\ cpc[t] = "run"
    /\ \E to \in {"before", "unhealthy"} \cup (IF handler[t] = "worker" THEN {"serve"} ELSE {}) :
          CGoto(t, to)
    /\ UNCHANGED <<cellVars, handler, drained, requests, waiting, rpc, poolVars, muVars, task, initVars, mainVars, boundVars>>

\* frankenphp_handle_request returned false, the worker script runs out
scriptEnds(t) ==
    /\ cpc[t] = "end"
    /\ \E to \in {"before", "unhealthy"} : CGoto(t, to)
    /\ UNCHANGED <<cellVars, handler, drained, requests, waiting, rpc, poolVars, muVars, task, initVars, mainVars, boundVars>>

\* The worker script reaches frankenphp_handle_request for the first time.
scriptBooted(t) ==
    /\ cpc[t] = "bootScript"
    /\ CGoto(t, "serve")
    /\ UNCHANGED <<cellVars, handler, drained, requests, waiting, rpc, poolVars, muVars, task, initVars, mainVars, boundVars>>

\* Mutated form: startupFailChan is not checked.
scriptFailsUnchecked(t) ==
    /\ cpc[t] = "bootScript"
    /\ CGoto(t, "before")
    /\ failed' = TRUE
    /\ Publish(t, "ShuttingDown", {})
    /\ UNCHANGED <<handler, drained, requests, waiting, rpc, poolVars, muVars, task, ini, left, wpc, mainVars, boundVars>>

\* tearDownWorkerScript of a script that never got there: tried again, or,
\* while initWorkers listens to startupFailChan, given up.  How many
\* failures it takes is maxConsecutiveFailures, any number here.
scriptFails(t) ==
    /\ cpc[t] = "bootScript"
    /\ \E to \in {"before", "unhealthy"} : CGoto(t, to)
    /\ \/ UNCHANGED <<cellVars, failed>>
       \/ /\ ini = "convert"
          /\ failed' = TRUE
          /\ Publish(t, "ShuttingDown", {})
    /\ UNCHANGED <<handler, drained, requests, waiting, rpc, poolVars, muVars, task, ini, left, wpc, mainVars, boundVars>>

\* php_thread() after a bailout: the C thread frees its resources and starts
\* its replacement; the Go side is not told.
replaceUnhealthy(t) ==
    /\ cpc[t] = "unhealthy"
    /\ \/ CGoto(t, "before") /\ UNCHANGED refused
       \/ /\ RespawnCanFail /\ refused < FailureBound
          /\ CGoto(t, "none") /\ refused' = refused + 1
    /\ UNCHANGED <<cellVars, handler, drained, requests, waiting, rpc, poolVars, muVars, task, initVars, mainVars, restarts, scaled>>

\* ts_free_thread and go_frankenphp_on_thread_shutdown
exitThread(t) ==
    /\ cpc[t] = "leave"
    /\ Publish(t, CASE state[t] = "Rebooting" -> "RebootReady"
                    [] state[t] = "ForceRebooting" -> "YieldingForReboot"
                    [] OTHER -> "Done", {})
    /\ CGoto(t, "none")
    /\ UNCHANGED <<handler, drained, requests, waiting, rpc, poolVars, muVars, task, initVars, mainVars, boundVars>>
-----------------------------------------------------------------------------
(* startRebootedThread *)

\* Mutated form: the new C thread does not wait for the old one.
rebootedAtOnce(t) ==
    /\ rpc[t] = "rebooted"
    /\ rpc' = [rpc EXCEPT ![t] = "create"]
    /\ UNCHANGED <<cellVars, handler, drained, cpc, requests, waiting, poolVars, muVars, task, initVars, mainVars, boundVars>>

rebootedWoken(t) ==
    /\ rpc[t] = "rebooted" /\ Passed("respawn", t)
    /\ Resume("respawn", t)
    /\ rpc' = [rpc EXCEPT ![t] = "create"]
    /\ UNCHANGED <<handler, drained, cpc, requests, waiting, poolVars, muVars, task, initVars, mainVars, boundVars>>

\* newCThread, with its retries
rebootedCreate(t) ==
    /\ rpc[t] = "create"
    /\ \/ /\ CGoto(t, "before")
          /\ rpc' = [rpc EXCEPT ![t] = "none"]
          /\ UNCHANGED refused
       \/ /\ refused < FailureBound /\ refused' = refused + 1
          /\ rpc' = [rpc EXCEPT ![t] = "release"]
          /\ UNCHANGED cpc
    /\ UNCHANGED <<cellVars, handler, drained, requests, waiting, poolVars, muVars, task, initVars, mainVars, restarts, scaled>>

\* Mutated form: no restoreThread is started.
releaseForget(t) ==
    /\ rpc[t] = "release"
    /\ Detach(t, handler[t])
    /\ rpc' = [rpc EXCEPT ![t] = "reserve"]
    /\ UNCHANGED <<cellVars, handler, drained, cpc, requests, waiting, restoring, autoScaled, muVars, task, initVars, mainVars, boundVars>>

\* releaseAfterFailedReboot: leave the pool and start a restoreThread ...
releaseDetach(t) ==
    /\ rpc[t] = "release"
    /\ Detach(t, handler[t])
    /\ restoring' = [p \in Pool |-> restoring[p] + IF p = handler[t] THEN 1 ELSE 0]
    /\ rpc' = [rpc EXCEPT ![t] = "reserve"]
    /\ UNCHANGED <<cellVars, handler, drained, cpc, requests, waiting, autoScaled, muVars, task, initVars, mainVars, boundVars>>

\* ... then give the slot back
releaseReserve(t) ==
    /\ rpc[t] = "reserve"
    /\ Publish(t, "Reserved", {})
    /\ rpc' = [rpc EXCEPT ![t] = "none"]
    /\ UNCHANGED <<handler, drained, cpc, requests, waiting, poolVars, muVars, task, initVars, mainVars, boundVars>>
-----------------------------------------------------------------------------
(* Steps that Init and the holder of scalingMu share: boot() and setHandler() *)

\* The handler actor a converts threads to.
Target(a) ==
    IF a = "mu" THEN target ELSE IF left > NumWorkers THEN "regular" ELSE "worker"

IsFirst(t, S) == t \in S /\ \A u \in S : t <= u

\* The error returns of inactivePHPThread: scaling gives up, restoreThread
\* tries again later, Init has no thread to work with.
noThread(a) ==
    IF a = "mu"
    THEN mu' = "free" /\ UNCHANGED <<ini, failed>>
    ELSE /\ IF ini = "boot" THEN failed' = TRUE /\ UNCHANGED ini
                            ELSE ini' = "panic" /\ UNCHANGED failed
         /\ UNCHANGED mu

\* inactivePHPThread: an inactive thread, else a reserved slot to boot
inactivePHPThread(a) ==
    LET inactive == {t \in Thread : state[t] = "Inactive"}
        reserved == {t \in Thread : state[t] = "Reserved"}
    IN IF inactive # {}
       THEN /\ \E t \in Thread : IsFirst(t, inactive) /\ Goto(a, t, "convert")
            /\ UNCHANGED <<cellVars, mu, ini, failed>>
       ELSE IF reserved # {}
       THEN /\ \E t \in Thread :
                  IsFirst(t, reserved) /\ Publish(t, "BootRequested", {}) /\ Goto(a, t, "create")
            /\ UNCHANGED <<mu, ini, failed>>
       ELSE noThread(a) /\ UNCHANGED <<cellVars, task>>

\* boot(): claim the slot or panic("thread is not in reserved state"),
\* install the inactive handler, start the C thread
bootThread(a, t) ==
    /\ task[a][t] = "create"
    /\ IF state[t] \notin {"Reserved", "BootRequested"}
       THEN Goto(a, t, "panic") /\ UNCHANGED <<cellVars, handler, drained, cpc, mu, ini, failed, refused>>
       ELSE /\ handler' = [handler EXCEPT ![t] = "inactive"]
            /\ drained' = [drained EXCEPT ![t] = FALSE]
            /\ \/ /\ Publish(t, "Booting", {})
                  /\ CGoto(t, "before")
                  /\ Goto(a, t, "boot")
                  /\ UNCHANGED <<mu, ini, failed, refused>>
               \/ /\ refused < FailureBound /\ refused' = refused + 1
                  /\ Publish(t, "Reserved", {})
                  /\ Goto(a, t, "none")
                  /\ noThread(a)
                  /\ UNCHANGED cpc
    /\ UNCHANGED <<requests, waiting, rpc, poolVars, target, stopped, left, wpc, mainVars, restarts, scaled>>

\* The end of boot(); the boots of initPHPThreads are not followed by a
\* conversion of the same thread.
booted(a, t) ==
    /\ task[a][t] = "boot" /\ Passed(a, t)
    /\ Resume(a, t)
    /\ Goto(a, t, IF a = "init" /\ ini = "boot" THEN "none" ELSE "convert")
    /\ UNCHANGED <<threadVars, poolVars, muVars, initVars, mainVars, boundVars>>

\* RequestSafeStateChange(s): published, refused, or tried again after a wait
RequestSafeStateChange(a, t, s, granting, refusing, wait) ==
    \/ state[t] \in Stable /\ Publish(t, s, {}) /\ Goto(a, t, granting)
    \/ state[t] \in Refusing /\ UNCHANGED cellVars /\ Goto(a, t, refusing)
    \/ state[t] \notin Stable \cup Refusing /\ UNCHANGED cellVars /\ Goto(a, t, wait)

retrySafe(a, t) ==
    /\ task[a][t] \in {"safe", "safeForce", "safeDown"} /\ Passed(a, t)
    /\ Resume(a, t)
    /\ Goto(a, t, CASE task[a][t] = "safe" -> "convert"
                    [] task[a][t] = "safeForce" -> "force"
                    [] OTHER -> "shutdown")
    /\ UNCHANGED <<threadVars, poolVars, muVars, initVars, mainVars, boundVars>>

\* setHandler(): a refused change returns early, and the caller attaches
\* the thread all the same
setHandlerRequest(a, t) ==
    /\ task[a][t] = "convert"
    /\ RequestSafeStateChange(a, t, "TransitionRequested", "close", "attach", "safe")
    /\ UNCHANGED <<threadVars, poolVars, muVars, initVars, mainVars, boundVars>>

\* Mutated form: the channel is not closed.
closeNothing(a, t, from, to) ==
    /\ task[a][t] = from
    /\ Goto(a, t, to)
    /\ UNCHANGED <<cellVars, threadVars, poolVars, muVars, initVars, mainVars, boundVars>>

\* close(thread.drainChan): closing a closed channel panics
closeDrain(a, t, from, to) ==
    /\ task[a][t] = from
    /\ Goto(a, t, IF drained[t] THEN "panic" ELSE to)
    /\ drained' = [drained EXCEPT ![t] = TRUE]
    /\ UNCHANGED <<cellVars, handler, cpc, requests, waiting, rpc, poolVars, muVars, initVars, mainVars, boundVars>>

setHandlerClose(a, t) == closeDrain(a, t, "close", "transit")

\* Mutated form: the closed drainChan is kept.
setHandlerKeepChan(a, t) ==
    /\ task[a][t] = "transit" /\ Passed(a, t)
    /\ handler' = [handler EXCEPT ![t] = Target(a)]
    /\ requests' = [requests EXCEPT ![t] = 0]
    /\ Publish(t, "TransitionComplete", {<<a, t>>})
    /\ Goto(a, t, "attach")
    /\ UNCHANGED <<cpc, drained, waiting, rpc, poolVars, muVars, initVars, mainVars, boundVars>>

setHandlerComplete(a, t) ==
    /\ task[a][t] = "transit" /\ Passed(a, t)
    /\ handler' = [handler EXCEPT ![t] = Target(a)]
    /\ requests' = [requests EXCEPT ![t] = 0]
    /\ drained' = [drained EXCEPT ![t] = FALSE]
    /\ Publish(t, "TransitionComplete", {<<a, t>>})
    /\ Goto(a, t, "attach")
    /\ UNCHANGED <<cpc, waiting, rpc, poolVars, muVars, initVars, mainVars, boundVars>>
-----------------------------------------------------------------------------
(* Init: initPHPThreads, the conversions to regular threads, initWorkers *)

InitIdle == \A t \in Thread : task["init"][t] = "none"

\* ready.Wait() and errors.Join(bootErrors...)
initBooted ==
    /\ ini = "boot" /\ InitIdle
    /\ ini' = IF failed THEN "failed" ELSE "convert"
    /\ UNCHANGED <<cellVars, threadVars, poolVars, muVars, task, left, wpc, failed, mainVars, boundVars>>

\* getInactivePHPThread; convertTo... dereferences the nil it may return
initPick ==
    /\ ini = "convert" /\ left > 0 /\ InitIdle
    /\ inactivePHPThread("init")
    /\ UNCHANGED <<threadVars, poolVars, target, stopped, left, wpc, mainVars, boundVars>>

\* attachRegularThread, or attachThread and a goroutine of workersReady
initAttach(t) ==
    /\ task["init"][t] = "attach"
    /\ Attach(t, Target("init"))
    /\ Goto("init", t, "none")
    /\ wpc' = [wpc EXCEPT ![t] = IF Target("init") = "worker" THEN "started" ELSE @]
    /\ left' = left - 1
    /\ UNCHANGED <<cellVars, threadVars, restoring, autoScaled, muVars, ini, failed, mainVars, boundVars>>

initStarted(t) ==
    /\ wpc[t] = "started" /\ Passed("ready", t)
    /\ Resume("ready", t)
    /\ wpc' = [wpc EXCEPT ![t] = "none"]
    /\ UNCHANGED <<threadVars, poolVars, muVars, task, ini, left, failed, mainVars, boundVars>>

\* workersReady.Wait(), startupFailChan, and the rest of Init
initDone ==
    /\ ini = "convert" /\ left = 0 /\ InitIdle /\ \A t \in Thread : wpc[t] = "none"
    /\ ini' = IF failed THEN "failed" ELSE "running"
    /\ UNCHANGED <<cellVars, threadVars, poolVars, muVars, task, left, wpc, failed, mainVars, boundVars>>
-----------------------------------------------------------------------------
(* scalingMu: scaling up and restoreThread, which share addRegularThread    *)
(* and addWorkerThread                                                      *)

Quiet(t) == \A u \in Thread \ {t} : task["mu"][u] \in {"none", "check"}
AllMu(S) == \A t \in Thread : task["mu"][t] \in S

AtThreadLimit(p) ==
    p = "worker" /\ WorkerMaxThreads > 0 /\ Entries(p, Thread) >= WorkerMaxThreads

\* startUpscalingThreads hands a stalled request to scaleRegularThread or
\* scaleWorkerThread
scale(p) ==
    /\ mu = "free" /\ ini = "running" /\ main = "Ready"
    /\ scaled < ScaleBound /\ scaled' = scaled + 1
    /\ Cardinality(autoScaled) < MaxThreads - NumThreads
    /\ ~AtThreadLimit(p)
    /\ mu' = "scale" /\ target' = p
    /\ UNCHANGED <<cellVars, threadVars, poolVars, stopped, task, initVars, mainVars, restarts, refused>>

\* addRegularThread and addWorkerThread take a thread
addPick ==
    /\ mu \in {"scale", "restore"} /\ AllMu({"none"})
    /\ inactivePHPThread("mu")
    /\ UNCHANGED <<threadVars, poolVars, target, stopped, left, wpc, mainVars, boundVars>>

addAttach(t) ==
    /\ mu \in {"scale", "restore"} /\ task["mu"][t] = "attach"
    /\ Attach(t, target)
    /\ Goto("mu", t, "stable")
    /\ UNCHANGED <<cellVars, threadVars, restoring, autoScaled, muVars, initVars, mainVars, boundVars>>

\* the stable state is there; trackAutoScaledThread, or restoreThread returns
addDone(t) ==
    /\ mu \in {"scale", "restore"} /\ task["mu"][t] = "stable" /\ Passed("mu", t)
    /\ Resume("mu", t)
    /\ Goto("mu", t, "none")
    /\ IF mu = "scale"
       THEN autoScaled' = autoScaled \cup {t} /\ UNCHANGED restoring
       ELSE restoring' = [restoring EXCEPT ![target] = @ - 1] /\ UNCHANGED autoScaled
    /\ mu' = "free"
    /\ UNCHANGED <<threadVars, pool, target, stopped, initVars, mainVars, boundVars>>

\* restoreThread: poolRestored, then addRegularThread or addWorkerThread
restoreThread(p) ==
    /\ restoring[p] > 0 /\ mu = "free" /\ main = "Ready"
    /\ LET configured == Entries(p, Thread \ autoScaled)
           extra == Members(p) \cap autoScaled
           return == restoring' = [restoring EXCEPT ![p] = @ - 1] /\ UNCHANGED <<mu, target>>
       IN \/ /\ configured >= Size(p) \/ (extra = {} /\ AtThreadLimit(p))
             /\ return /\ UNCHANGED autoScaled
          \/ /\ configured < Size(p)
             /\ \E t \in extra : autoScaled' = autoScaled \ {t}
             /\ return
          \/ /\ configured < Size(p) /\ extra = {} /\ ~AtThreadLimit(p)
             /\ mu' = "restore" /\ target' = p
             /\ UNCHANGED <<restoring, autoScaled>>
    /\ UNCHANGED <<cellVars, threadVars, pool, stopped, task, initVars, mainVars, boundVars>>

\* Mutated form: a goroutine that is not there returns.
restoreQuitAgain(p) ==
    /\ main \in {"ShuttingDown", "Done", "Reserved"}
    /\ restoring' = [restoring EXCEPT ![p] = @ - 1]
    /\ UNCHANGED <<cellVars, threadVars, pool, autoScaled, muVars, task, initVars, mainVars, boundVars>>

\* mainThread.done is closed
restoreQuit(p) ==
    /\ restoring[p] > 0 /\ main \in {"ShuttingDown", "Done", "Reserved"}
    /\ restoring' = [restoring EXCEPT ![p] = @ - 1]
    /\ UNCHANGED <<cellVars, threadVars, pool, autoScaled, muVars, task, initVars, mainVars, boundVars>>
-----------------------------------------------------------------------------
(* deactivateThreads *)

down ==
    /\ mu = "free" /\ autoScaled # {}
    /\ mu' = "down" /\ target' = "inactive" /\ stopped' = 0
    /\ task' = [task EXCEPT !["mu"] = [t \in Thread |-> IF t \in autoScaled THEN "check" ELSE "none"]]
    /\ UNCHANGED <<cellVars, threadVars, poolVars, initVars, mainVars, boundVars>>

\* One iteration: forget a stopped thread, convert a thread that has been
\* idle for maxIdleTime, or leave it alone.
MayDeactivate(t) ==
    stopped <= MaxTerminationCount /\ waiting[t] /\ state[t] = "Ready"

downCheck(t) ==
    /\ task["mu"][t] = "check" /\ Quiet(t)
    /\ \/ /\ state[t] = "Reserved"
          /\ autoScaled' = autoScaled \ {t}
          /\ Goto("mu", t, "none")
       \/ /\ MayDeactivate(t)
          /\ Goto("mu", t, "convert")
          /\ UNCHANGED autoScaled
       \/ /\ state[t] # "Reserved"
          /\ Goto("mu", t, "none")
          /\ UNCHANGED autoScaled
    /\ UNCHANGED <<cellVars, threadVars, pool, restoring, muVars, initVars, mainVars, boundVars>>

downConverted(t) ==
    /\ mu = "down" /\ task["mu"][t] = "attach"
    /\ autoScaled' = autoScaled \ {t}
    /\ stopped' = stopped + 1
    /\ Goto("mu", t, "none")
    /\ UNCHANGED <<cellVars, threadVars, pool, restoring, mu, target, initVars, mainVars, boundVars>>

downDone ==
    /\ mu = "down" /\ AllMu({"none"})
    /\ mu' = "free"
    /\ UNCHANGED <<cellVars, threadVars, poolVars, target, stopped, task, initVars, mainVars, boundVars>>
-----------------------------------------------------------------------------
(* rebootAllThreads *)

reboot ==
    /\ mu = "free" /\ main = "Ready" /\ ini # "over"
    /\ ini = "running" \/ RestartDuringInit
    /\ restarts < RestartBound /\ restarts' = restarts + 1
    /\ mu' = "reboot"
    /\ task' = [task EXCEPT !["mu"] = [t \in Thread |-> "force"]]
    /\ UNCHANGED <<cellVars, threadVars, poolVars, target, stopped, initVars, mainVars, scaled, refused>>

\* forceReboot, thread after thread; it starts a startRebootedThread
forceReboot(t) ==
    /\ task["mu"][t] = "force"
    /\ \A u \in Thread : u < t => task["mu"][u] \notin {"force", "safeForce"}
    /\ RequestSafeStateChange("mu", t, "ForceRebooting", "closeForce", "skip", "safeForce")
    /\ rpc' = [rpc EXCEPT ![t] = IF state[t] \in Stable THEN "rebooted" ELSE @]
    /\ UNCHANGED <<handler, drained, cpc, requests, waiting, poolVars, muVars, initVars, mainVars, boundVars>>

rebootClose(t) ==
    /\ \A u \in Thread : task["mu"][u] \notin {"force", "safeForce"}
    /\ closeDrain("mu", t, "closeForce", "yield")

rebootYielded(t) ==
    /\ task["mu"][t] = "yield" /\ Passed("mu", t)
    /\ Resume("mu", t)
    /\ Goto("mu", t, "yielded")
    /\ UNCHANGED <<threadVars, poolVars, muVars, initVars, mainVars, boundVars>>

\* Mutated form: give up on a thread that does not yield in time.
rebootMainEarly ==
    /\ mu = "reboot" /\ main = "Ready" /\ AllMu({"yield", "yielded", "skip"})
    /\ main' = "Rebooting"
    /\ task' = [task EXCEPT !["mu"] = [t \in Thread |->
                  IF task["mu"][t] = "yielded" THEN "down" ELSE "none"]]
    /\ UNCHANGED <<cellVars, threadVars, poolVars, muVars, initVars, engine, boundVars>>

\* rebootWg.Wait(), then mainThread.state.Set(Rebooting)
rebootMain ==
    /\ mu = "reboot" /\ main = "Ready" /\ AllMu({"yielded", "skip"})
    /\ main' = "Rebooting"
    /\ task' = [task EXCEPT !["mu"] = [t \in Thread |->
                  IF task["mu"][t] = "yielded" THEN "down" ELSE "none"]]
    /\ UNCHANGED <<cellVars, threadVars, poolVars, muVars, initVars, engine, boundVars>>

\* Mutated forms: the closed drainChan is kept; the thread is declared Ready.
rebootResumeKeepChan(t) ==
    /\ task["mu"][t] = "down" /\ main = "Ready"
    /\ \A u \in Thread : u < t => task["mu"][u] = "none"
    /\ Publish(t, "RebootReady", {}) /\ Goto("mu", t, "stable")
    /\ UNCHANGED <<threadVars, poolVars, muVars, initVars, mainVars, boundVars>>

rebootResumeReady(t) ==
    /\ task["mu"][t] = "down" /\ main = "Ready"
    /\ \A u \in Thread : u < t => task["mu"][u] = "none"
    /\ drained' = [drained EXCEPT ![t] = FALSE]
    /\ Publish(t, "Ready", {}) /\ Goto("mu", t, "stable")
    /\ UNCHANGED <<handler, cpc, requests, waiting, rpc, poolVars, muVars, initVars, mainVars, boundVars>>

\* With the main thread up again, one thread at a time: new drainChan, then
\* CompareAndSwap(YieldingForReboot, RebootReady) or panic
rebootResume(t) ==
    /\ task["mu"][t] = "down" /\ main = "Ready"
    /\ \A u \in Thread : u < t => task["mu"][u] = "none"
    /\ drained' = [drained EXCEPT ![t] = FALSE]
    /\ IF state[t] = "YieldingForReboot"
       THEN Publish(t, "RebootReady", {}) /\ Goto("mu", t, "stable")
       ELSE Goto("mu", t, "panic") /\ UNCHANGED cellVars
    /\ UNCHANGED <<handler, cpc, requests, waiting, rpc, poolVars, muVars, initVars, mainVars, boundVars>>

rebootStable(t) ==
    /\ mu = "reboot" /\ task["mu"][t] = "stable" /\ Passed("mu", t)
    /\ Resume("mu", t)
    /\ Goto("mu", t, "none")
    /\ UNCHANGED <<threadVars, poolVars, muVars, initVars, mainVars, boundVars>>

rebootDone ==
    /\ mu = "reboot" /\ main = "Ready" /\ AllMu({"none"})
    /\ mu' = "free"
    /\ UNCHANGED <<cellVars, threadVars, poolVars, target, stopped, task, initVars, mainVars, boundVars>>
-----------------------------------------------------------------------------
(* drainPHPThreads, called by Shutdown() and by an Init() that failed *)

drainPHPThreads ==
    /\ mu = "free" /\ ini \in {"running", "failed"} /\ main = "Ready"
    /\ mu' = "drain" /\ main' = "ShuttingDown"
    /\ task' = [task EXCEPT !["mu"] = [t \in Thread |-> "shutdown"]]
    /\ UNCHANGED <<cellVars, threadVars, poolVars, target, stopped, initVars, engine, boundVars>>

\* Mutated form: a thread that refuses the request is not joined.
shutdownUnjoined(t) ==
    /\ task["mu"][t] = "shutdown"
    /\ RequestSafeStateChange("mu", t, "ShuttingDown", "closeDown", "none", "safeDown")
    /\ UNCHANGED <<threadVars, poolVars, muVars, initVars, mainVars, boundVars>>

\* shutdown() of every thread, each in a goroutine of its own
shutdownRequest(t) ==
    /\ task["mu"][t] = "shutdown"
    /\ RequestSafeStateChange("mu", t, "ShuttingDown", "closeDown", "join", "safeDown")
    /\ UNCHANGED <<threadVars, poolVars, muVars, initVars, mainVars, boundVars>>

shutdownClose(t) == closeDrain("mu", t, "closeDown", "exit")

shutdownExited(t) ==
    /\ task["mu"][t] = "exit" /\ Passed("mu", t)
    /\ drained' = [drained EXCEPT ![t] = FALSE]
    /\ Publish(t, "Reserved", {<<"mu", t>>})
    /\ Goto("mu", t, "none")
    /\ UNCHANGED <<handler, cpc, requests, waiting, rpc, poolVars, muVars, initVars, mainVars, boundVars>>

shutdownJoined(t) ==
    /\ task["mu"][t] = "join" /\ Passed("mu", t)
    /\ IF state[t] = "Done" THEN Publish(t, "Reserved", {<<"mu", t>>}) ELSE Resume("mu", t)
    /\ Goto("mu", t, "none")
    /\ UNCHANGED <<threadVars, poolVars, muVars, initVars, mainVars, boundVars>>

\* doneWG.Wait(), then mainThread.state.Set(Done)
drainMain ==
    /\ mu = "drain" /\ main = "ShuttingDown" /\ AllMu({"none"})
    /\ main' = "Done"
    /\ UNCHANGED <<cellVars, threadVars, poolVars, muVars, task, initVars, engine, boundVars>>

drainDone ==
    /\ mu = "drain" /\ main = "Reserved"
    /\ mu' = "free" /\ ini' = "over"
    /\ UNCHANGED <<cellVars, threadVars, poolVars, target, stopped, task, left, wpc, failed, mainVars, boundVars>>
-----------------------------------------------------------------------------
(* php_main(): the main thread waits in go_frankenphp_main_thread_is_ready *)

\* frankenphp_sapi_module.shutdown, sapi_shutdown, tsrm_shutdown
mainTeardown ==
    /\ main \in {"Rebooting", "Done"} /\ engine
    /\ engine' = FALSE
    /\ UNCHANGED <<cellVars, threadVars, poolVars, muVars, task, initVars, main, boundVars>>

\* go_frankenphp_shutdown_main_thread
mainExit ==
    /\ main \in {"Rebooting", "Done"} /\ ~engine
    /\ main' = IF main = "Rebooting" THEN "YieldingForReboot" ELSE "Reserved"
    /\ UNCHANGED <<cellVars, threadVars, poolVars, muVars, task, initVars, engine, boundVars>>

\* rebootAllThreads starts php_main again, which reports that it is ready
mainStart ==
    /\ main = "YieldingForReboot"
    /\ engine' = TRUE /\ main' = "Ready"
    /\ UNCHANGED <<cellVars, threadVars, poolVars, muVars, task, initVars, boundVars>>
-----------------------------------------------------------------------------
\* Everything has stopped.
Over == ini = "over" /\ mu = "free" /\ UNCHANGED vars

CThread(t) ==
    \/ beforeScriptExecution(t) \/ setInactive(t) \/ idleWoken(t) \/ setInactiveAgain(t)
    \/ setReadyAgain(t) \/ transitionToNewHandler(t) \/ newHandlerCalled(t) \/ setReady(t)
    \/ waitForRequest(t) \/ selectDrained(t) \/ requestEnds(t) \/ scriptEnds(t)
    \/ scriptBooted(t) \/ scriptFails(t) \/ replaceUnhealthy(t) \/ exitThread(t)

Respawn(t) ==
    rebootedWoken(t) \/ rebootedCreate(t) \/ releaseDetach(t) \/ releaseReserve(t)

Controller(a, t) ==
    \/ bootThread(a, t) \/ booted(a, t) \/ retrySafe(a, t)
    \/ setHandlerRequest(a, t) \/ setHandlerClose(a, t) \/ setHandlerComplete(a, t)

InitStep == initBooted \/ initPick \/ initDone \/ \E t \in Thread : initAttach(t) \/ initStarted(t)

AddStep == addPick \/ \E t \in Thread : addAttach(t) \/ addDone(t)
DownStep == downDone \/ \E t \in Thread : downCheck(t) \/ downConverted(t)
RebootStep ==
    \/ rebootMain \/ rebootDone
    \/ \E t \in Thread : forceReboot(t) \/ rebootClose(t) \/ rebootYielded(t)
                         \/ rebootResume(t) \/ rebootStable(t)
DrainStep ==
    \/ drainMain \/ drainDone
    \/ \E t \in Thread : shutdownRequest(t) \/ shutdownClose(t) \/ shutdownExited(t) \/ shutdownJoined(t)
MainStep == mainTeardown \/ mainExit \/ mainStart

Next ==
    \/ \E t \in Thread : CThread(t) \/ selectRequest(t) \/ Respawn(t)
    \/ \E r \in Role, t \in Thread : WaitFor(r, t)
    \/ \E a \in Actor, t \in Thread : Controller(a, t)
    \/ InitStep \/ AddStep \/ DownStep \/ RebootStep \/ DrainStep \/ MainStep
    \/ \E p \in Pool : scale(p) \/ restoreThread(p) \/ restoreQuit(p)
    \/ down \/ reboot \/ drainPHPThreads \/ Over

Spec == Init /\ [][Next]_vars

\* Every goroutine and C thread that can move does; scripts end; Go's select
\* does not ignore a closed drainChan for ever; a worker script that is
\* started again and again reaches frankenphp_handle_request.
Fairness ==
    /\ \A t \in Thread :
          /\ WF_vars(CThread(t)) /\ SF_vars(selectDrained(t)) /\ SF_vars(scriptBooted(t))
          /\ WF_vars(Respawn(t))
          /\ \A r \in Role : WF_vars(WaitFor(r, t))
          /\ \A a \in Actor : WF_vars(Controller(a, t))
    /\ WF_vars(InitStep) /\ WF_vars(AddStep) /\ WF_vars(DownStep)
    /\ WF_vars(RebootStep) /\ WF_vars(DrainStep) /\ WF_vars(MainStep)

FairSpec == Spec /\ Fairness
-----------------------------------------------------------------------------
CStep == {"none", "before", "setInactive", "setInactiveAgain", "idle", "toNewHandler", "newHandler",
          "setReady", "setReadyAgain", "serve", "select", "run", "end", "bootScript",
          "unhealthy", "leave", "panic"}
RStep == {"none", "rebooted", "create", "release", "reserve"}
TaskStep == {"none", "create", "boot", "convert", "safe", "close", "transit", "attach",
             "stable", "check", "force", "safeForce", "closeForce", "yield", "yielded", "skip",
             "down", "shutdown", "safeDown", "closeDown", "exit", "join", "panic"}

\* Every variable has its type.
TypeOK ==
    /\ state \in [Thread -> State]
    /\ want \subseteq Role \X Thread /\ granted \subseteq Role \X Thread
    /\ handler \in [Thread -> Handler] /\ drained \in [Thread -> BOOLEAN]
    /\ cpc \in [Thread -> CStep] /\ requests \in [Thread -> Nat]
    /\ waiting \in [Thread -> BOOLEAN] /\ rpc \in [Thread -> RStep]
    /\ pool \in [Pool -> [Thread -> Nat]] /\ restoring \in [Pool -> Nat]
    /\ autoScaled \subseteq Thread
    /\ mu \in {"free", "scale", "restore", "down", "reboot", "drain"}
    /\ target \in Pool \cup {"inactive"} /\ stopped \in Nat
    /\ task \in [Actor -> [Thread -> TaskStep]]
    /\ ini \in {"boot", "convert", "running", "failed", "over", "panic"}
    /\ left \in 0 .. NumThreads /\ wpc \in [Thread -> {"none", "started"}] /\ failed \in BOOLEAN
    /\ main \in State /\ engine \in BOOLEAN
    /\ restarts \in Nat /\ scaled \in Nat /\ refused \in Nat

\* No thread is found in a state its code does not expect: no panic of
\* beforeScriptExecution, boot() or rebootAllThreads, no second close of a
\* drainChan, and Init always gets a thread to convert.
NoUnexpectedState ==
    /\ ini # "panic"
    /\ \A t \in Thread : cpc[t] # "panic" /\ \A a \in Actor : task[a][t] # "panic"

\* SAPI and TSRM are only torn down, and the main thread only restarts them,
\* while no C thread of the pool exists (php_main, rebootAllThreads).
TeardownSafe ==
    ~engine => \A t \in Thread : cpc[t] = "none"

\* A slot whose exit was published has no C thread, and a new C thread is
\* only started for a slot that has none.
SlotFree ==
    \A t \in Thread :
        (\/ state[t] \in {"Reserved", "BootRequested", "Done", "YieldingForReboot"}
         \/ rpc[t] \in {"create", "release", "reserve"}
         \/ \E a \in Actor : task[a][t] = "create") => cpc[t] = "none"

\* A drainChan is only found closed by a thread that was asked to convert,
\* reboot or stop, so no thread leaves its script without being asked.
NoStaleDrain ==
    \A t \in Thread :
        drained[t] => state[t] \in {"TransitionRequested", "TransitionInProgress",
                                    "ForceRebooting", "YieldingForReboot", "ShuttingDown", "Done"}

\* A request sent to a thread of a pool is taken by the handler of that pool.
RoutedRight ==
    \A t \in Thread, p \in Pool :
        t \in Members(p) /\ cpc[t] = "select" => handler[t] = p

\* Outside of the work done under scalingMu, every pool has its configured
\* threads or a restoreThread for each that is missing.
PoolCovered ==
    ini = "running" /\ mu = "free" =>
        \A p \in Pool :
            Cardinality({t \in Members(p) \ autoScaled : state[t] # "Reserved"}) + restoring[p] >= Size(p)

\* A granted request to change the state is answered: nothing but the answer
\* replaces it.
SafeRequestKept ==
    [][\A t \in Thread : state'[t] # state[t] =>
          /\ state[t] = "TransitionRequested" => state'[t] = "TransitionInProgress"
          /\ state[t] = "ForceRebooting" => state'[t] = "YieldingForReboot"
          /\ state[t] = "ShuttingDown" => state'[t] = "Done"]_vars

\* A thread that counts as Ready or Inactive has a C thread.
StableThreadAlive ==
    \A t \in Thread : state[t] \in Stable => cpc[t] # "none"

\* From some point on no thread takes a request.
TrafficStops == <>[][\A t \in Thread : ~selectRequest(t)]_vars

\* Init returns, with or without an error.  Shutdown ends: once
\* drainPHPThreads has scalingMu, every thread is joined and the main thread
\* torn down.  A restart ends and gives scalingMu back.  Under endless traffic
\* a thread that reboots for max_requests again and again may escape the
\* request of the latter two.
OperationsEnd ==
    /\ <>(ini \in {"running", "failed"})
    /\ TrafficStops => /\ (mu = "drain") ~> (ini = "over")
                       /\ (mu = "reboot") ~> (mu # "reboot")
=============================================================================
