----------------------- MODULE RequestDispatchProofs ------------------------
(***************************************************************************)
(* Proofs about RequestDispatch, for any requests, threads, limits and     *)
(* bounds: the queue counters are exact, and a request is in the hands of  *)
(* one thread at most, whose caller stays until the context is closed. Then *)
(* Declarations, which says what the workers are that requests are         *)
(* dispatched to: for any list of declarations, Validate refuses what Init *)
(* would refuse; for any Caddyfile, every worker is kept, under a name of  *)
(* its own, and Init takes it; and every budget Init accepts has a thread  *)
(* for each worker.                                                        *)
(***************************************************************************)
EXTENDS RequestDispatch, Declarations, FiniteSetTheorems, WellFoundedInduction, TLAPS

\* The steps of a caller
CallerStep == Waiting \cup {"idle", "named", "context", "load", "lock", "scan", "enqueue", "wait", "returned"}

\* Layer 0: the types, but for the counters, which are decremented
Types ==
    /\ inst \in 1 .. InstanceBound
    /\ up \in {"init", "starting", "up", "stopping", "draining", "down"}
    /\ up \in {"stopping", "draining", "down"} => inst < InstanceBound
    /\ scaler \in {"none", "ready", "busy", "ending"} /\ scaleFor \in Pool
    /\ threads \in [Pool -> SUBSET Thread] /\ queuedRequests \in [Pool -> Int]
    /\ tpc \in [Thread -> {"out", "boot", "select", "left", "run"}]
    /\ serves \in [Thread -> Pool] /\ cur \in [Thread -> Request \cup {NoRequest}]
    /\ drained \in [Thread -> BOOLEAN]
    /\ pc \in [Request -> CallerStep] /\ worker \in [Request -> Pool]
    /\ rem \in [Request -> SUBSET Thread] /\ offer \in [Request -> BOOLEAN]
    /\ done \in [Request -> BOOLEAN] /\ events \in 0 .. EventBound

\* Layer 1: the thread lists hold the threads that are not away, each in the
\* list of what it serves; between two instances every thread is away
Listed ==
    /\ \A t \in Thread, p \in Pool : t \in threads[p] <=> tpc[t] # "out" /\ serves[t] = p
    /\ up \in {"init", "down"} => \A t \in Thread : tpc[t] = "out"

\* Layer 2: under the read lock, the threads left to try stay listed
Scanning == \A r \in Request : pc[r] = "scan" => rem[r] \subseteq threads[worker[r]]

\* Layer 3: a thread that runs has a request that was handed to it
Handed(t) ==
    /\ cur[t] \in Request /\ serves[t] = worker[cur[t]]
    /\ pc[cur[t]] \in {"sent", "wait", "returned"}
    /\ pc[cur[t]] = "returned" => done[cur[t]]

\* Layer 3: a running thread was handed its request, which no other thread runs
Hands ==
    /\ \A t \in Thread : tpc[t] = "run" => Handed(t)
    /\ \A t, u \in Thread : tpc[t] = "run" /\ tpc[u] = "run" /\ cur[t] = cur[u] => t = u

\* The requests that wait for a pool, and that the counters count them
Queue(p) == {r \in Request : pc[r] \in Waiting /\ worker[r] = p}
Counted == \A p \in Pool : queuedRequests[p] = Cardinality(Queue(p))

\* The inductive invariant
IInv == Types /\ Listed /\ Scanning /\ Hands /\ Counted
-----------------------------------------------------------------------------
(* Layer 0 *)

\* A worker is that of an instance that began, or none.
LEMMA RunningIsPool == ASSUME Types PROVE running \in Pool /\ serverWorker \in Pool
  BY DispatchAssumption DEF Types, Pool, running, internalWorker, serverWorker

\* The dispatcher and the thread go on to steps that exist.
LEMMA GotoType == ASSUME Types, NEW r \in Request, NEW s \in CallerStep, Goto(r, s) PROVE pc' \in [Request -> CallerStep]
  BY Zenon DEF Types, Goto

\* A dispatcher that only goes on to its next step keeps the types.
LEMMA EnterTypes == ASSUME Types, NEW r \in Request, NEW s \in CallerStep, Enter(r, s) PROVE Types'
  <1>1. pc' \in [Request -> CallerStep]
    BY GotoType, Zenon DEF Enter
  <1> QED
    BY <1>1, Zenon DEF Types, Enter, instVars, poolVars, threadVars

\* The types are inductive.
LEMMA TypesKept == ASSUME Types, [Next]_vars PROVE Types'
  <1> USE DispatchAssumption
  <1>1. CASE startThreads
    <2>1. inst \in Pool /\ 0 \in Pool /\ inst # 0
      BY DEF Types, Pool
    <2>2. threads' \in [Pool -> SUBSET Thread]
      BY <1>1, <2>1, Zenon DEF Types, startThreads, Thread
    <2>3. tpc' \in [Thread -> {"out", "boot", "select", "left", "run"}] /\ serves' \in [Thread -> Pool]
      BY <1>1, <2>1, Zenon DEF startThreads
    <2> QED
      BY <1>1, <2>2, <2>3, Zenon DEF Types, startThreads, dispatchVars
  <1>2. CASE activateServers
    BY <1>2, Zenon DEF Types, activateServers, poolVars, threadVars, dispatchVars
  <1>3. CASE stopWorkers
    BY <1>3 DEF Types, stopWorkers, poolVars, threadVars, dispatchVars
  <1>4. CASE drainPHPThreads
    <2>1. 0 \in Pool
      BY DEF Pool
    <2>2. drained' \in [Thread -> BOOLEAN]
      BY <1>4, Zenon DEF drainPHPThreads
    <2> QED
      BY <1>4, <2>1, <2>2, Zenon DEF Types, drainPHPThreads, poolVars, dispatchVars
  <1>5. CASE unregisterServers \/ registerServers
    BY <1>5 DEF Types, unregisterServers, registerServers, poolVars, threadVars, dispatchVars
  <1>6. CASE scaleFailed \/ scalerDone
    <2>1. 0 \in Pool
      BY DEF Pool
    <2> QED
      BY <1>6, <2>1, Zenon DEF Types, scaleFailed, scalerDone, poolVars, threadVars, dispatchVars
  <1>7. ASSUME NEW t \in Thread, addThread(t) PROVE Types'
    <2>1. 0 \in Pool
      BY DEF Pool
    <2>2. tpc' \in [Thread -> {"out", "boot", "select", "left", "run"}] /\ serves' \in [Thread -> Pool]
      BY <1>7, Zenon DEF Types, addThread, TGoto
    <2>3. threads' \in [Pool -> SUBSET Thread]
      BY <1>7, Zenon DEF Types, addThread
    <2>4. events' \in 0 .. EventBound
      BY <1>7 DEF Types, addThread
    <2> QED
      BY <1>7, <2>1, <2>2, <2>3, <2>4, Zenon DEF Types, addThread, dispatchVars
  <1>8. ASSUME NEW r \in Request, SendRequest(r) \/ SendMessage(r) PROVE Types'
    <2>1. \E accept \in BOOLEAN : \E next \in {"named", "load"} : Extension(r, accept, next)
      BY <1>8 DEF SendRequest, SendMessage
    <2>2. PICK accept \in BOOLEAN, next \in {"named", "load"} : Extension(r, accept, next)
      BY <2>1, Zenon
    <2>3. 0 \in Pool
      BY DEF Pool
    <2>4. worker' \in [Request -> Pool]
      BY <2>2, <2>3, RunningIsPool, Zenon DEF Types, Extension
    <2>5. pc' \in [Request -> CallerStep]
      BY <2>2, GotoType, Zenon DEF Extension, CallerStep
    <2> QED
      BY <2>2, <2>4, <2>5, Zenon DEF Types, Extension, instVars, poolVars, threadVars
  <1>9. ASSUME NEW r \in Request, newContextFromRequest(r) PROVE Types'
    <2>1. worker' \in [Request -> Pool]
      <3>1. PICK w \in IF worker[r] # 0 THEN {worker[r]} ELSE {0, serverWorker} :
              worker' = [worker EXCEPT ![r] = w]
        BY <1>9, Zenon DEF newContextFromRequest
      <3>2. w \in Pool
        BY <3>1, RunningIsPool DEF Types, Pool
      <3> QED
        BY <3>1, <3>2, Zenon DEF Types
    <2>2. pc' \in [Request -> CallerStep]
      BY <1>9, GotoType, Zenon DEF newContextFromRequest, CallerStep
    <2> QED
      BY <1>9, <2>1, <2>2, Zenon DEF Types, newContextFromRequest, instVars, poolVars, threadVars
  <1>10. ASSUME NEW r \in Request, validate(r) PROVE Types'
    <2>1. pc' \in [Request -> CallerStep]
      BY <1>10, GotoType, Zenon DEF validate, CallerStep
    <2>2. done' \in [Request -> BOOLEAN]
      BY <1>10, Zenon DEF Types, validate
    <2> QED
      BY <1>10, <2>1, <2>2, Zenon DEF Types, validate, instVars, poolVars, threadVars
  <1>11. ASSUME NEW r \in Request, \/ ServeHTTP(r) \/ loadQueued(r) \/ scanned(r) \/ afterScale(r)
                                   \/ cancelled(r) \/ timedOut(r) \/ answered(r)
         PROVE Types'
    <2>1. \E s \in CallerStep : Enter(r, s)
      BY <1>11, Zenon DEF ServeHTTP, loadQueued, scanned, afterScale, cancelled, timedOut, answered, CallerStep, Waiting
    <2> QED
      BY <2>1, EnterTypes, Zenon
  <1>12. ASSUME NEW r \in Request, lockThreads(r) PROVE Types'
    <2>1. pc' \in [Request -> CallerStep]
      BY <1>12, GotoType, Zenon DEF lockThreads, CallerStep
    <2>2. rem' \in [Request -> SUBSET Thread]
      BY <1>12, Zenon DEF Types, lockThreads
    <2> QED
      BY <1>12, <2>1, <2>2, Zenon DEF Types, lockThreads, instVars, poolVars, threadVars
  <1>13. ASSUME NEW r \in Request, NEW t \in Thread, trySend(r, t) PROVE Types'
    <2>1. CASE Receive(r, t) /\ Goto(r, "wait") /\ rem' = [rem EXCEPT ![r] = {}]
      <3>1. pc' \in [Request -> CallerStep]
        BY <2>1, GotoType, Zenon DEF CallerStep
      <3>2. rem' \in [Request -> SUBSET Thread]
        BY <2>1, Zenon DEF Types
      <3>3. tpc' \in [Thread -> {"out", "boot", "select", "left", "run"}]
            /\ cur' \in [Thread -> Request \cup {NoRequest}]
        BY <2>1, Zenon DEF Types, Receive
      <3> QED
        BY <1>13, <2>1, <3>1, <3>2, <3>3, Zenon DEF Types, trySend, Receive, instVars, poolVars
    <2>2. CASE rem' = [rem EXCEPT ![r] = @ \ {t}] /\ UNCHANGED <<threadVars, pc>>
      <3>1. rem' \in [Request -> SUBSET Thread]
        BY <2>2, Zenon DEF Types
      <3> QED
        BY <1>13, <2>2, <3>1, Zenon DEF Types, trySend, instVars, poolVars, threadVars
    <2> QED
      BY <1>13, <2>1, <2>2, Zenon DEF trySend
  <1>14. ASSUME NEW r \in Request, enqueue(r) \/ dequeue(r) PROVE Types'
    <2>1. pc' \in [Request -> CallerStep]
      BY <1>14, GotoType, Zenon DEF enqueue, dequeue, CallerStep, Waiting
    <2>2. queuedRequests' \in [Pool -> Int]
      BY <1>14 DEF Types, enqueue, dequeue, Add
    <2> QED
      BY <1>14, <2>1, <2>2, Zenon DEF Types, enqueue, dequeue, instVars, threadVars
  <1>15. ASSUME NEW r \in Request, enterSelect(r) PROVE Types'
    <2>1. pc' \in [Request -> CallerStep]
      BY <1>15, GotoType, Zenon DEF enterSelect, CallerStep, Waiting
    <2>2. offer' \in [Request -> BOOLEAN]
      <3>1. (hasScaleChan /\ ~isAtThreadLimit(worker[r])) \in BOOLEAN
        BY Zenon
      <3> QED
        BY <1>15, <3>1, Zenon DEF Types, enterSelect
    <2> QED
      BY <1>15, <2>1, <2>2, Zenon DEF Types, enterSelect, instVars, poolVars, threadVars
  <1>16. ASSUME NEW r \in Request, NEW t \in Thread, sendQueued(r, t) PROVE Types'
    <2>1. pc' \in [Request -> CallerStep]
      BY <1>16, GotoType, Zenon DEF sendQueued, CallerStep, Waiting
    <2>2. tpc' \in [Thread -> {"out", "boot", "select", "left", "run"}]
          /\ cur' \in [Thread -> Request \cup {NoRequest}]
      BY <1>16, Zenon DEF Types, sendQueued, Receive
    <2> QED
      BY <1>16, <2>1, <2>2, Zenon DEF Types, sendQueued, Receive, instVars, poolVars
  <1>17. ASSUME NEW r \in Request, sendScale(r) PROVE Types'
    <2>1. pc' \in [Request -> CallerStep]
      BY <1>17, GotoType, Zenon DEF sendScale, CallerStep, Waiting
    <2>2. scaler' \in {"none", "ready", "busy", "ending"} /\ scaleFor' \in Pool
      BY <1>17 DEF Types, sendScale
    <2> QED
      BY <1>17, <2>1, <2>2, Zenon DEF Types, sendScale, poolVars, threadVars
  <1>18. ASSUME NEW r \in Request, leaveQueue(r) PROVE Types'
    <2>1. pc' \in [Request -> CallerStep]
      BY <1>18, GotoType, Zenon DEF leaveQueue, CallerStep
    <2>2. queuedRequests' \in [Pool -> Int]
      BY <1>18 DEF Types, leaveQueue, Add
    <2>3. done' \in [Request -> BOOLEAN]
      BY <1>18, Zenon DEF Types, leaveQueue
    <2> QED
      BY <1>18, <2>1, <2>2, <2>3, Zenon DEF Types, leaveQueue, instVars, threadVars
  <1>19. ASSUME NEW t \in Thread, park(t) \/ selectDrained(t) \/ comeBack(t) PROVE Types'
    <2>1. \E s \in {"boot", "select", "left"} : TGoto(t, s)
      BY <1>19 DEF park, selectDrained, comeBack
    <2>2. tpc' \in [Thread -> {"out", "boot", "select", "left", "run"}]
      BY <2>1 DEF Types, TGoto
    <2>3. drained' \in [Thread -> BOOLEAN]
      BY <1>19 DEF Types, park, selectDrained, comeBack
    <2> QED
      BY <1>19, <2>2, <2>3, Zenon DEF Types, park, selectDrained, comeBack, instVars, poolVars, dispatchVars
  <1>20. ASSUME NEW t \in Thread, closeDrain(t) PROVE Types'
    <2>1. drained' \in [Thread -> BOOLEAN] /\ events' \in 0 .. EventBound
      BY <1>20 DEF Types, closeDrain
    <2> QED
      BY <1>20, <2>1, Zenon DEF Types, closeDrain, instVars, poolVars, dispatchVars
  <1>21. ASSUME NEW t \in Thread, retire(t) PROVE Types'
    <2>1. 0 \in Pool
      BY DEF Pool
    <2>2. tpc' \in [Thread -> {"out", "boot", "select", "left", "run"}] /\ drained' \in [Thread -> BOOLEAN]
          /\ serves' \in [Thread -> Pool]
      BY <1>21, <2>1, Zenon DEF Types, retire, TGoto
    <2>3. threads' \in [Pool -> SUBSET Thread]
      BY <1>21, Zenon DEF Types, retire
    <2> QED
      BY <1>21, <2>2, <2>3, Zenon DEF Types, retire, instVars, dispatchVars
  <1>22. ASSUME NEW t \in Thread, closeContext(t) PROVE Types'
    <2>1. done' \in [Request -> BOOLEAN]
      BY <1>22, Zenon DEF Types, closeContext
    <2> QED
      BY <1>22, <2>1, Zenon DEF Types, closeContext, instVars, poolVars, threadVars, dispatchVars
  <1>23. ASSUME NEW t \in Thread, clearContext(t) PROVE Types'
    <2>1. tpc' \in [Thread -> {"out", "boot", "select", "left", "run"}]
          /\ cur' \in [Thread -> Request \cup {NoRequest}]
      BY <1>23 DEF Types, clearContext, TGoto
    <2> QED
      BY <1>23, <2>1, Zenon DEF Types, clearContext, instVars, poolVars, dispatchVars
  <1>24. CASE UNCHANGED vars
    BY <1>24, Zenon DEF Types, vars, instVars, poolVars, threadVars, dispatchVars
  <1> QED
    BY <1>1, <1>2, <1>3, <1>4, <1>5, <1>6, <1>7, <1>8, <1>9, <1>10, <1>11, <1>12, <1>13, <1>14,
       <1>15, <1>16, <1>17, <1>18, <1>19, <1>20, <1>21, <1>22, <1>23, <1>24, Zenon
    DEF Next, Reload, Scaler, Arrive, Dispatch, Run
-----------------------------------------------------------------------------
(* Layer 1 *)

\* A step that leaves the threads' steps, pools and lists alone, and does not
\* leave or enter the time between instances, keeps the lists right.
LEMMA FramedListed ==
    ASSUME Listed, UNCHANGED <<threads, tpc, serves>>, up' \in {"init", "down"} => up \in {"init", "down"}
    PROVE  Listed'
  BY Zenon DEF Listed

\* So does a thread that goes from one step to another without being away.
LEMMA MovedListed ==
    ASSUME Types, Listed, NEW t \in Thread, NEW s, TGoto(t, s), tpc[t] # "out", s # "out",
           UNCHANGED <<threads, serves, up>>
    PROVE  Listed'
  BY DEF Listed, Types, TGoto

\* The thread lists are kept by every step.
LEMMA ListedKept == ASSUME Types, Listed, [Next]_vars PROVE Listed'
  <1> USE DispatchAssumption
  <1>1. CASE startThreads
    <2>1. \A p \in Pool : threads[p] = {}
      <3>1. \A t \in Thread : tpc[t] = "out"
        BY <1>1, Zenon DEF Listed, startThreads
      <3> QED
        BY <3>1 DEF Listed, Types
    <2>2. inst \in Pool /\ 0 \in Pool /\ inst # 0
      BY DEF Types, Pool
    <2>3. \A p \in Pool : threads'[p] = IF p = 0 THEN Regular ELSE IF p = inst THEN Worker ELSE {}
      BY <1>1, <2>1, <2>2 DEF Types, startThreads
    <2>4. \A t \in Thread : /\ tpc'[t] # "out" <=> t \notin Spare
                            /\ serves'[t] = IF t \in Worker THEN inst ELSE 0
      BY <1>1, Zenon DEF startThreads
    <2>5. up' = "starting"
      BY <1>1, Zenon DEF startThreads
    <2> QED
      BY <2>2, <2>3, <2>4, <2>5 DEF Listed, Thread
  <1>2. CASE activateServers \/ stopWorkers \/ drainPHPThreads \/ registerServers
    BY <1>2, FramedListed, Zenon
    DEF activateServers, stopWorkers, drainPHPThreads, registerServers, poolVars, threadVars
  <1>3. CASE unregisterServers
    BY <1>3, Zenon DEF Listed, unregisterServers, poolVars, threadVars
  <1>4. CASE scaleFailed \/ scalerDone
    BY <1>4, FramedListed, Zenon DEF scaleFailed, scalerDone, poolVars, threadVars
  <1>5. ASSUME NEW t \in Thread, addThread(t) PROVE Listed'
    <2>1. /\ tpc[t] = "out" /\ scaleFor \in Pool /\ up' \notin {"init", "down"}
          /\ tpc' = [tpc EXCEPT ![t] = "boot"] /\ serves' = [serves EXCEPT ![t] = scaleFor]
          /\ threads' = [threads EXCEPT ![scaleFor] = @ \cup {t}]
      BY <1>5, Zenon DEF addThread, TGoto, Types
    <2>2. ASSUME NEW u \in Thread, NEW p \in Pool
          PROVE  (u \in threads[p] <=> tpc[u] # "out" /\ serves[u] = p)'
      <3>1. u \in threads[p] <=> tpc[u] # "out" /\ serves[u] = p
        BY Zenon DEF Listed
      <3>2. threads'[p] = IF p = scaleFor THEN threads[p] \cup {t} ELSE threads[p]
        BY <2>1 DEF Types
      <3>3. tpc'[u] = (IF u = t THEN "boot" ELSE tpc[u]) /\ serves'[u] = (IF u = t THEN scaleFor ELSE serves[u])
        BY <2>1, Zenon DEF Types
      <3> QED
        BY <2>1, <3>1, <3>2, <3>3
    <2> QED
      BY <2>1, <2>2, Zenon DEF Listed
  <1>6. ASSUME NEW r \in Request,
               \/ ServeHTTP(r) \/ SendRequest(r) \/ SendMessage(r) \/ Arrive(r)
               \/ loadQueued(r) \/ lockThreads(r) \/ scanned(r) \/ enqueue(r) \/ enterSelect(r)
               \/ dequeue(r) \/ afterScale(r) \/ leaveQueue(r) \/ answered(r)
               \/ sendScale(r) \/ cancelled(r) \/ timedOut(r)
         PROVE Listed'
    <2>1. UNCHANGED <<threads, tpc, serves, up>>
      BY <1>6, Zenon DEF ServeHTTP, SendRequest, SendMessage, Arrive, loadQueued, lockThreads, scanned, enqueue,
        enterSelect, dequeue, afterScale, leaveQueue, answered, sendScale, cancelled, timedOut, Enter,
        Extension, newContextFromRequest, validate, instVars, poolVars, threadVars
    <2> QED
      BY <2>1, FramedListed, Zenon
  <1>7. ASSUME NEW r \in Request, NEW t \in Thread, trySend(r, t) \/ sendQueued(r, t) PROVE Listed'
    <2>1. CASE Receive(r, t) /\ tpc[t] = "select"
      BY <1>7, <2>1, MovedListed DEF trySend, sendQueued, Receive, TGoto, instVars, poolVars
    <2>2. CASE UNCHANGED threadVars
      BY <1>7, <2>2, FramedListed, Zenon DEF trySend, sendQueued, instVars, poolVars, threadVars
    <2> QED
      BY <1>7, <2>1, <2>2, Zenon DEF trySend, sendQueued
  <1>8. ASSUME NEW t \in Thread, park(t) \/ selectDrained(t) \/ comeBack(t) \/ clearContext(t) PROVE Listed'
    <2>1. PICK s \in {"select", "boot", "left"} : TGoto(t, s)
      BY <1>8, Zenon DEF park, selectDrained, comeBack, clearContext
    <2> QED
      BY <1>8, <2>1, MovedListed, Zenon DEF park, selectDrained, comeBack, clearContext, instVars, poolVars
  <1>9. ASSUME NEW t \in Thread, closeDrain(t) \/ closeContext(t) PROVE Listed'
    BY <1>9, FramedListed, Zenon DEF closeDrain, closeContext, instVars, poolVars, threadVars
  <1>10. ASSUME NEW t \in Thread, retire(t) PROVE Listed'
    <2>1. /\ serves[t] \in Pool /\ up' = up
          /\ tpc' = [tpc EXCEPT ![t] = "out"] /\ serves' = [serves EXCEPT ![t] = 0]
          /\ threads' = [threads EXCEPT ![serves[t]] = @ \ {t}]
      BY <1>10, Zenon DEF retire, TGoto, Types, instVars
    <2>2. ASSUME NEW u \in Thread, NEW p \in Pool
          PROVE  (u \in threads[p] <=> tpc[u] # "out" /\ serves[u] = p)'
      <3>1. u \in threads[p] <=> tpc[u] # "out" /\ serves[u] = p
        BY Zenon DEF Listed
      <3>2. threads'[p] = IF p = serves[t] THEN threads[p] \ {t} ELSE threads[p]
        BY <2>1 DEF Types
      <3>3. tpc'[u] = (IF u = t THEN "out" ELSE tpc[u]) /\ serves'[u] = (IF u = t THEN 0 ELSE serves[u])
        BY <2>1, Zenon DEF Types
      <3> QED
        BY <2>1, <3>1, <3>2, <3>3
    <2>3. up' \in {"init", "down"} => \A u \in Thread : tpc'[u] = "out"
      BY <2>1 DEF Listed, Types
    <2> QED
      BY <2>2, <2>3, Zenon DEF Listed
  <1>11. CASE UNCHANGED vars
    BY <1>11, FramedListed, Zenon DEF vars, instVars, poolVars, threadVars
  <1> QED
    BY <1>1, <1>2, <1>3, <1>4, <1>5, <1>6, <1>7, <1>8, <1>9, <1>10, <1>11, Zenon
    DEF Next, Reload, Scaler, Dispatch, Run
-----------------------------------------------------------------------------
(* Layer 2 *)

\* Only lists that a scan is not reading lose a thread, and a request that
\* goes on scanning keeps its pool and tries fewer and fewer threads.
LEMMA FramedScanning ==
    ASSUME Scanning,
           \A r \in Request : pc'[r] = "scan" =>
              /\ pc[r] = "scan" /\ worker'[r] = worker[r] /\ rem'[r] \subseteq rem[r]
              /\ threads[worker[r]] \subseteq threads'[worker[r]]
    PROVE  Scanning'
  BY Zenon DEF Scanning

\* A thread that is detached is in no list that is being read.
LEMMA ScanningKept == ASSUME Types, Listed, Scanning, [Next]_vars PROVE Scanning'
  <1> USE DispatchAssumption
  <1>1. CASE startThreads
    <2>1. \A p \in Pool : threads[p] = {}
      BY <1>1 DEF Listed, startThreads, Types
    <2> QED
      BY <1>1, <2>1, FramedScanning, Zenon DEF startThreads, dispatchVars, Types
  <1>2. CASE activateServers \/ stopWorkers \/ drainPHPThreads \/ unregisterServers \/ registerServers
    BY <1>2, FramedScanning, Zenon
    DEF activateServers, stopWorkers, drainPHPThreads, unregisterServers, registerServers, poolVars, dispatchVars
  <1>3. CASE scaleFailed \/ scalerDone
    BY <1>3, FramedScanning, Zenon DEF scaleFailed, scalerDone, poolVars, dispatchVars
  <1>4. ASSUME NEW t \in Thread, addThread(t) PROVE Scanning'
    <2>1. UNCHANGED dispatchVars /\ \A p \in Pool : threads[p] \subseteq threads'[p]
      BY <1>4, Zenon DEF addThread, Types
    <2> QED
      BY <2>1, FramedScanning, Zenon DEF Types, dispatchVars
  <1>5. ASSUME NEW r \in Request, SendRequest(r) \/ SendMessage(r) PROVE Scanning'
    <2>1. /\ UNCHANGED <<rem, threads>> /\ \A q \in Request : q # r => pc'[q] = pc[q] /\ worker'[q] = worker[q]
          /\ pc'[r] # "scan"
      BY <1>5, Zenon DEF SendRequest, SendMessage, Extension, Goto, poolVars, Types
    <2> QED
      BY <2>1, FramedScanning, Zenon
  <1>6. ASSUME NEW r \in Request, Arrive(r) PROVE Scanning'
    <2>1. /\ UNCHANGED <<rem, threads>> /\ \A q \in Request : q # r => pc'[q] = pc[q] /\ worker'[q] = worker[q]
          /\ pc'[r] # "scan"
      BY <1>6, Zenon DEF Arrive, newContextFromRequest, validate, Goto, poolVars, Types
    <2> QED
      BY <2>1, FramedScanning, Zenon
  <1>7. ASSUME NEW r \in Request, \/ ServeHTTP(r) \/ loadQueued(r) \/ scanned(r) \/ enqueue(r) \/ enterSelect(r)
                                  \/ dequeue(r) \/ afterScale(r) \/ leaveQueue(r) \/ answered(r)
                                  \/ sendScale(r) \/ cancelled(r) \/ timedOut(r)
                                  \/ \E t \in Thread : sendQueued(r, t)
         PROVE Scanning'
    <2>1. UNCHANGED <<rem, threads, worker>>
      BY <1>7, Zenon DEF ServeHTTP, loadQueued, scanned, enqueue, enterSelect, dequeue, afterScale, leaveQueue,
        answered, sendScale, cancelled, timedOut, sendQueued, Enter, poolVars
    <2>2. \E s \in CallerStep \ {"scan"} : Goto(r, s)
      BY <1>7 DEF ServeHTTP, loadQueued, scanned, enqueue, enterSelect, dequeue, afterScale, leaveQueue,
        answered, sendScale, cancelled, timedOut, sendQueued, Enter, CallerStep, Waiting
    <2>3. \A q \in Request : pc'[q] = "scan" => pc[q] = "scan"
      BY <2>2, Zenon DEF Goto, Types
    <2> QED
      BY <2>1, <2>3, FramedScanning, Zenon
  <1>8. ASSUME NEW r \in Request, lockThreads(r) PROVE Scanning'
    <2>1. UNCHANGED <<worker, threads>> /\ rem'[r] = threads[worker[r]]
      BY <1>8, Zenon DEF lockThreads, poolVars, Types
    <2>2. \A q \in Request : q # r => pc'[q] = pc[q] /\ rem'[q] = rem[q]
      BY <1>8, Zenon DEF lockThreads, Goto, Types
    <2> QED
      BY <2>1, <2>2, Zenon DEF Scanning
  <1>9. ASSUME NEW r \in Request, NEW t \in Thread, trySend(r, t) PROVE Scanning'
    <2>1. UNCHANGED <<worker, threads>> /\ \A q \in Request : rem'[q] \subseteq rem[q]
      BY <1>9 DEF trySend, poolVars, Types
    <2>2. \A q \in Request : pc'[q] = "scan" => pc[q] = "scan"
      BY <1>9, Zenon DEF trySend, Goto, Types
    <2> QED
      BY <2>1, <2>2, FramedScanning, Zenon
  <1>10. ASSUME NEW t \in Thread, \/ park(t) \/ selectDrained(t) \/ comeBack(t) \/ clearContext(t)
                                  \/ closeDrain(t) \/ closeContext(t)
         PROVE Scanning'
    BY <1>10, FramedScanning, Zenon
    DEF park, selectDrained, comeBack, clearContext, closeDrain, closeContext, poolVars, dispatchVars
  <1>11. ASSUME NEW t \in Thread, retire(t) PROVE Scanning'
    <2>1. UNCHANGED dispatchVars /\ \A p \in Pool : p # serves[t] => threads'[p] = threads[p]
      BY <1>11, Zenon DEF retire, Types
    <2>2. \A r \in Request : pc[r] = "scan" => worker[r] # serves[t]
      BY <1>11, Zenon DEF retire, Readers
    <2> QED
      BY <2>1, <2>2, FramedScanning, Zenon DEF dispatchVars, Types
  <1>12. CASE UNCHANGED vars
    BY <1>12, FramedScanning, Zenon DEF vars, poolVars, dispatchVars
  <1> QED
    BY <1>1, <1>2, <1>3, <1>4, <1>5, <1>6, <1>7, <1>8, <1>9, <1>10, <1>11, <1>12, Zenon
    DEF Next, Reload, Scaler, Dispatch, Run
-----------------------------------------------------------------------------
(* Layer 3 *)

\* A thread that goes on running keeps its request as long as nothing that was
\* said of the two is taken back.
LEMMA FramedHands ==
    ASSUME Hands,
           \A t \in Thread : tpc'[t] = "run" => tpc[t] = "run" /\ cur'[t] = cur[t] /\ serves'[t] = serves[t],
           \A r \in Request : pc[r] \in {"sent", "wait", "returned"} =>
              /\ worker'[r] = worker[r] /\ pc'[r] \in {"sent", "wait", "returned"}
              /\ pc'[r] = "returned" => done'[r] \/ (pc[r] = "returned" /\ ~done[r])
    PROVE  Hands'
  <1>1. ASSUME NEW t \in Thread, tpc'[t] = "run"
        PROVE  Handed(t)'
    <2>1. Handed(t) /\ cur'[t] = cur[t] /\ serves'[t] = serves[t]
      BY <1>1, Zenon DEF Hands
    <2> QED
      BY <2>1, Zenon DEF Handed
  <1>2. \A t, u \in Thread : tpc'[t] = "run" /\ tpc'[u] = "run" /\ cur'[t] = cur'[u] => t = u
    BY Zenon DEF Hands
  <1> QED
    BY <1>1, <1>2, Zenon DEF Hands

\* A request that no thread has yet is handed to a thread that runs nothing.
LEMMA ReceiveHands ==
    ASSUME Types, Hands, NEW r \in Request, NEW t \in Thread, Receive(r, t),
           tpc[t] = "select", serves[t] = worker[r], pc[r] \in {"scan", "queued"},
           NEW s \in {"sent", "wait"}, Goto(r, s), UNCHANGED <<worker, done>>
    PROVE  Hands'
  <1>1. /\ \A u \in Thread : u # t => tpc'[u] = tpc[u] /\ cur'[u] = cur[u]
        /\ cur'[t] = r /\ serves' = serves
    BY Zenon DEF Types, Receive
  <1>2. pc'[r] = s /\ \A q \in Request : q # r => pc'[q] = pc[q]
    BY Zenon DEF Types, Goto
  <1>3. \A u \in Thread : tpc[u] = "run" => Handed(u) /\ cur[u] # r
    BY Zenon DEF Hands, Handed
  <1>4. ASSUME NEW u \in Thread, tpc'[u] = "run"
        PROVE  Handed(u)'
    <2>1. CASE u = t
      BY <1>1, <1>2, <2>1, Zenon DEF Handed
    <2>2. CASE u # t
      <3>1. Handed(u) /\ cur[u] # r /\ cur'[u] = cur[u]
        BY <1>1, <1>3, <1>4, <2>2, Zenon
      <3> QED
        BY <1>1, <1>2, <3>1 DEF Handed
    <2> QED
      BY <2>1, <2>2, Zenon
  <1>5. \A u, v \in Thread : tpc'[u] = "run" /\ tpc'[v] = "run" /\ cur'[u] = cur'[v] => u = v
    <2> SUFFICES ASSUME NEW u \in Thread, NEW v \in Thread, tpc'[u] = "run", tpc'[v] = "run", cur'[u] = cur'[v]
                 PROVE  u = v
      BY Zenon
    <2>1. CASE u = t \/ v = t
      BY <1>1, <1>3, <2>1, Zenon
    <2>2. CASE u # t /\ v # t
      BY <1>1, <2>2, Zenon DEF Hands
    <2> QED
      BY <2>1, <2>2, Zenon
  <1> QED
    BY <1>4, <1>5, Zenon DEF Hands

\* What a thread has in its hands stays there until the context is closed.
LEMMA HandsKept == ASSUME Types, Listed, Scanning, Hands, [Next]_vars PROVE Hands'
  <1> USE DispatchAssumption
  <1>1. CASE startThreads
    <2>1. \A t \in Thread : tpc'[t] # "run"
      BY <1>1, Zenon DEF startThreads
    <2> QED
      BY <2>1, Zenon DEF Hands
  <1>2. CASE activateServers \/ stopWorkers \/ drainPHPThreads \/ unregisterServers \/ registerServers
    <2>1. UNCHANGED <<tpc, cur, serves, pc, worker, done>>
      BY <1>2, Zenon DEF activateServers, stopWorkers, drainPHPThreads, unregisterServers, registerServers,
        threadVars, dispatchVars
    <2> QED
      BY <2>1, Zenon DEF Hands, Handed
  <1>3. CASE scaleFailed \/ scalerDone
    <2>1. UNCHANGED <<tpc, cur, serves, pc, worker, done>>
      BY <1>3, Zenon DEF scaleFailed, scalerDone, threadVars, dispatchVars
    <2> QED
      BY <2>1, Zenon DEF Hands, Handed
  <1>4. ASSUME NEW t \in Thread, addThread(t) \/ park(t) \/ selectDrained(t) \/ comeBack(t) \/ retire(t)
        PROVE  Hands'
    <2>1. UNCHANGED <<cur, pc, worker, done>>
      BY <1>4, Zenon DEF addThread, park, selectDrained, comeBack, retire, dispatchVars
    <2>2. \A u \in Thread : tpc'[u] = "run" => tpc[u] = "run" /\ serves'[u] = serves[u]
      BY <1>4 DEF addThread, park, selectDrained, comeBack, retire, TGoto, Types
    <2> QED
      BY <2>1, <2>2, Zenon DEF Hands, Handed
  <1>5. ASSUME NEW t \in Thread, closeDrain(t) PROVE Hands'
    BY <1>5, Zenon DEF closeDrain, dispatchVars, Hands, Handed
  <1>6. ASSUME NEW t \in Thread, closeContext(t) PROVE Hands'
    <2>1. UNCHANGED <<tpc, cur, serves, pc, worker>> /\ cur[t] \in Request
      BY <1>6, Zenon DEF closeContext, threadVars, dispatchVars, Hands, Handed
    <2>2. \A r \in Request : done[r] => done'[r]
      BY <1>6, <2>1, Zenon DEF closeContext, Types
    <2> QED
      BY <2>1, <2>2, Zenon DEF Hands, Handed
  <1>7. ASSUME NEW t \in Thread, clearContext(t) PROVE Hands'
    <2>1. UNCHANGED <<serves, pc, worker, done>>
      BY <1>7, Zenon DEF clearContext, dispatchVars
    <2>2. \A u \in Thread : tpc'[u] = "run" => tpc[u] = "run" /\ cur'[u] = cur[u]
      BY <1>7, Zenon DEF clearContext, TGoto, Types
    <2> QED
      BY <2>1, <2>2, FramedHands, Zenon
  <1>8. ASSUME NEW r \in Request, NEW t \in Thread, trySend(r, t) \/ sendQueued(r, t) PROVE Hands'
    <2>1. UNCHANGED <<worker, done>>
      BY <1>8, Zenon DEF trySend, sendQueued
    <2>2. CASE sendQueued(r, t)
      BY <2>1, <2>2, ReceiveHands, Zenon DEF sendQueued
    <2>3. CASE trySend(r, t) /\ tpc[t] = "select" /\ ~drained[t]
      <3>1. serves[t] = worker[r]
        BY <2>3, Zenon DEF trySend, Scanning, Listed, Types
      <3> QED
        BY <2>1, <2>3, <3>1, ReceiveHands, Zenon DEF trySend
    <2>4. CASE trySend(r, t) /\ ~(tpc[t] = "select" /\ ~drained[t])
      <3>1. UNCHANGED <<tpc, cur, serves, pc>>
        BY <2>4, Zenon DEF trySend, threadVars
      <3> QED
        BY <2>1, <3>1, FramedHands, Zenon
    <2> QED
      BY <1>8, <2>2, <2>3, <2>4, Zenon
  <1>9. ASSUME NEW r \in Request, \/ ServeHTTP(r) \/ SendRequest(r) \/ SendMessage(r) \/ Arrive(r)
                                  \/ loadQueued(r) \/ lockThreads(r) \/ scanned(r) \/ enqueue(r) \/ enterSelect(r)
                                  \/ dequeue(r) \/ afterScale(r) \/ leaveQueue(r) \/ answered(r)
                                  \/ sendScale(r) \/ cancelled(r) \/ timedOut(r)
        PROVE Hands'
    <2>1. UNCHANGED <<tpc, cur, serves>>
      BY <1>9, Zenon DEF ServeHTTP, SendRequest, SendMessage, Arrive, loadQueued, lockThreads, scanned, enqueue,
        enterSelect, dequeue, afterScale, leaveQueue, answered, sendScale, cancelled, timedOut, Enter,
        Extension, newContextFromRequest, validate, threadVars
    <2>2. \A q \in Request : q # r => pc'[q] = pc[q] /\ worker'[q] = worker[q] /\ done'[q] = done[q]
      <3>1. \A q \in Request : q # r => pc'[q] = pc[q]
        BY <1>9, Zenon DEF ServeHTTP, SendRequest, SendMessage, Arrive, loadQueued, lockThreads, scanned, enqueue,
          enterSelect, dequeue, afterScale, leaveQueue, answered, sendScale, cancelled, timedOut, Enter,
          Extension, newContextFromRequest, validate, Goto, Types
      <3>2. \A q \in Request : q # r => worker'[q] = worker[q] /\ done'[q] = done[q]
        BY <1>9, Zenon DEF ServeHTTP, SendRequest, SendMessage, Arrive, loadQueued, lockThreads, scanned, enqueue,
          enterSelect, dequeue, afterScale, leaveQueue, answered, sendScale, cancelled, timedOut, Enter,
          Extension, newContextFromRequest, validate, Types
      <3> QED
        BY <3>1, <3>2, Zenon
    <2>3. CASE pc[r] \notin {"sent", "wait", "returned"}
      BY <2>1, <2>2, <2>3, FramedHands, Zenon
    <2>4. CASE pc[r] \in {"sent", "wait", "returned"}
      <3>1. dequeue(r) \/ answered(r)
        BY <1>9, <2>4 DEF ServeHTTP, SendRequest, SendMessage, Arrive, loadQueued, lockThreads, scanned, enqueue,
          enterSelect, dequeue, afterScale, leaveQueue, answered, sendScale, cancelled, timedOut,
          Extension, newContextFromRequest, validate
      <3>2. /\ worker'[r] = worker[r] /\ pc'[r] \in {"wait", "returned"}
            /\ pc'[r] = "returned" => done'[r]
        BY <3>1, Zenon DEF dequeue, answered, Enter, Goto, Types
      <3> QED
        BY <2>1, <2>2, <2>4, <3>2, FramedHands, Zenon
    <2> QED
      BY <2>3, <2>4, Zenon
  <1>10. CASE UNCHANGED vars
    BY <1>10, Zenon DEF vars, threadVars, dispatchVars, Hands, Handed
  <1> QED
    BY <1>1, <1>2, <1>3, <1>4, <1>5, <1>6, <1>7, <1>8, <1>9, <1>10, Zenon
    DEF Next, Reload, Scaler, Dispatch, Run
-----------------------------------------------------------------------------
(* The counters *)

\* A queue is finite, since there are finitely many requests.
LEMMA QueueFinite == ASSUME NEW p PROVE IsFiniteSet(Queue(p)) /\ Cardinality(Queue(p)) \in Nat
  <1>1. Queue(p) \in SUBSET Request
    BY Zenon DEF Queue
  <1> QED
    BY <1>1, DispatchAssumption, FS_Subset, FS_CardinalityType, Zenon

\* A step that neither lets a request wait nor ends its wait counts nothing.
LEMMA FramedCounted ==
    ASSUME Counted, UNCHANGED queuedRequests,
           \A r \in Request : /\ pc'[r] \in Waiting <=> pc[r] \in Waiting
                              /\ pc[r] \in Waiting => worker'[r] = worker[r]
    PROVE  Counted'
  <1>1. \A p \in Pool : Queue(p)' = Queue(p)
    BY Zenon DEF Queue
  <1> QED
    BY <1>1, Zenon DEF Counted

\* A request that begins to wait is added to the counter of its pool.
LEMMA EnqueueCounted ==
    ASSUME Types, Counted, NEW r \in Request, pc[r] \notin Waiting, UNCHANGED worker,
           NEW s \in Waiting, Goto(r, s), Add(worker[r], 1)
    PROVE  Counted'
  <1>1. worker[r] \in Pool
    BY Zenon DEF Types
  <1>2. ASSUME NEW p \in Pool PROVE queuedRequests'[p] = Cardinality(Queue(p)')
    <2>1. CASE p = worker[r]
      <3>1. Queue(p)' = Queue(p) \cup {r} /\ r \notin Queue(p)
        BY <2>1, Zenon DEF Types, Goto, Queue
      <3>2. Cardinality(Queue(p)') = Cardinality(Queue(p)) + 1
        BY <3>1, QueueFinite, FS_AddElement
      <3>3. queuedRequests'[p] = queuedRequests[p] + 1
        BY <2>1, Zenon DEF Types, Add
      <3> QED
        BY <3>2, <3>3, Zenon DEF Counted
    <2>2. CASE p # worker[r]
      <3>1. Queue(p)' = Queue(p)
        BY <2>2, Zenon DEF Types, Goto, Queue
      <3>2. queuedRequests'[p] = queuedRequests[p]
        BY <2>2, Zenon DEF Types, Add
      <3> QED
        BY <3>1, <3>2, Zenon DEF Counted
    <2> QED
      BY <2>1, <2>2, Zenon
  <1> QED
    BY <1>2 DEF Counted

\* A request that stops waiting is taken off the counter of its pool.
LEMMA DequeueCounted ==
    ASSUME Types, Counted, NEW r \in Request, pc[r] \in Waiting, UNCHANGED worker,
           NEW s, s \notin Waiting, Goto(r, s), Add(worker[r], -1)
    PROVE  Counted'
  <1>1. worker[r] \in Pool
    BY Zenon DEF Types
  <1>2. ASSUME NEW p \in Pool PROVE queuedRequests'[p] = Cardinality(Queue(p)')
    <2>1. CASE p = worker[r]
      <3>1. Queue(p)' = Queue(p) \ {r} /\ r \in Queue(p)
        BY <2>1, Zenon DEF Types, Goto, Queue
      <3>2. Cardinality(Queue(p)') = Cardinality(Queue(p)) - 1
        BY <3>1, QueueFinite, FS_RemoveElement
      <3>3. queuedRequests'[p] = queuedRequests[p] - 1
        BY <2>1, Zenon DEF Types, Add
      <3> QED
        BY <3>2, <3>3, Zenon DEF Counted
    <2>2. CASE p # worker[r]
      <3>1. Queue(p)' = Queue(p)
        BY <2>2, Zenon DEF Types, Goto, Queue
      <3>2. queuedRequests'[p] = queuedRequests[p]
        BY <2>2, Zenon DEF Types, Add
      <3> QED
        BY <3>1, <3>2, Zenon DEF Counted
    <2> QED
      BY <2>1, <2>2, Zenon
  <1> QED
    BY <1>2, Zenon DEF Counted

\* The counters are exact after every step.
LEMMA CountedKept == ASSUME Types, Counted, [Next]_vars PROVE Counted'
  <1>1. CASE Reload \/ stopWorkers \/ Scaler \/ UNCHANGED vars
    <2>1. UNCHANGED <<queuedRequests, pc, worker>>
      BY <1>1, Zenon DEF Reload, Scaler, startThreads, activateServers, stopWorkers, drainPHPThreads,
        unregisterServers, registerServers, scaleFailed, scalerDone, addThread, vars, poolVars, dispatchVars
    <2> QED
      BY <2>1, FramedCounted, Zenon
  <1>2. ASSUME NEW t \in Thread, Run(t) \/ closeDrain(t) \/ selectDrained(t) \/ comeBack(t) \/ retire(t)
        PROVE  Counted'
    <2>1. UNCHANGED <<queuedRequests, pc, worker>>
      BY <1>2, Zenon DEF Run, park, closeContext, clearContext, closeDrain, selectDrained, comeBack, retire,
        poolVars, dispatchVars
    <2> QED
      BY <2>1, FramedCounted, Zenon
  <1>3. ASSUME NEW r \in Request, SendRequest(r) \/ SendMessage(r) \/ Arrive(r)
        PROVE  Counted'
    <2>1. /\ UNCHANGED queuedRequests /\ pc[r] \notin Waiting /\ pc'[r] \notin Waiting
          /\ \A q \in Request : q # r => pc'[q] = pc[q] /\ worker'[q] = worker[q]
      BY <1>3, Zenon DEF SendRequest, SendMessage, Extension, Arrive, newContextFromRequest, validate, Goto, poolVars,
        Waiting, Types
    <2> QED
      BY <2>1, FramedCounted, Zenon
  <1>4. ASSUME NEW r \in Request, \/ ServeHTTP(r) \/ loadQueued(r) \/ lockThreads(r) \/ scanned(r)
                                  \/ answered(r) \/ \E t \in Thread : trySend(r, t)
        PROVE  Counted'
    <2>1. UNCHANGED <<queuedRequests, worker>>
      BY <1>4, Zenon DEF ServeHTTP, loadQueued, lockThreads, scanned, answered, trySend, Enter, poolVars
    <2>2. /\ pc[r] \notin Waiting /\ pc'[r] \notin Waiting
          /\ \A q \in Request : q # r => pc'[q] = pc[q]
      BY <1>4, Zenon DEF ServeHTTP, loadQueued, lockThreads, scanned, answered, trySend, Enter, Goto, Waiting, Types
    <2> QED
      BY <2>1, <2>2, FramedCounted, Zenon
  <1>5. ASSUME NEW r \in Request, \/ enterSelect(r) \/ afterScale(r) \/ sendScale(r) \/ cancelled(r)
                                  \/ timedOut(r) \/ \E t \in Thread : sendQueued(r, t)
        PROVE  Counted'
    <2>1. UNCHANGED <<queuedRequests, worker>>
      BY <1>5, Zenon DEF enterSelect, afterScale, sendScale, cancelled, timedOut, sendQueued, Enter, poolVars
    <2>2. /\ pc[r] \in Waiting /\ pc'[r] \in Waiting
          /\ \A q \in Request : q # r => pc'[q] = pc[q]
      BY <1>5, Zenon DEF enterSelect, afterScale, sendScale, cancelled, timedOut, sendQueued, Enter, Goto, Waiting, Types
    <2> QED
      BY <2>1, <2>2, FramedCounted, Zenon
  <1>6. ASSUME NEW r \in Request, enqueue(r) PROVE Counted'
    BY <1>6, EnqueueCounted, Zenon DEF enqueue, Waiting
  <1>7. ASSUME NEW r \in Request, dequeue(r) \/ leaveQueue(r) PROVE Counted'
    BY <1>7, DequeueCounted, Zenon DEF dequeue, leaveQueue, Waiting
  <1> QED
    BY <1>1, <1>2, <1>3, <1>4, <1>5, <1>6, <1>7, Zenon DEF Next, Dispatch
-----------------------------------------------------------------------------
(* The theorems *)

\* The invariant holds of the first state.
LEMMA InitIInv == ASSUME Init PROVE IInv
  <1> USE DispatchAssumption
  <1>1. Types
    BY DEF Init, Types, Pool, CallerStep
  <1>2. Listed /\ Scanning /\ Hands
    BY Zenon DEF Init, Listed, Scanning, Hands
  <1>3. \A p \in Pool : Queue(p) = {}
    BY Zenon DEF Init, Queue, Waiting
  <1>4. Counted
    BY <1>3, FS_EmptySet, Zenon DEF Init, Counted
  <1> QED
    BY <1>1, <1>2, <1>4, Zenon DEF IInv

\* IInv is an inductive invariant of handleRequest, of the threads and of what
\* Init, Shutdown and the scaler do to them.
THEOREM DispatchInductive == Spec => []IInv
  <1>1. IInv /\ [Next]_vars => IInv'
    BY TypesKept, ListedKept, ScanningKept, HandsKept, CountedKept, Zenon DEF IInv
  <1> QED
    BY <1>1, InitIInv, PTL DEF Spec

\* For any requests, threads and limits, worker.queuedRequests and
\* queuedRegularThreads count exactly the requests that wait, so that none is
\* below zero and none stays above it when the queue is empty.
THEOREM QueuesAreCounted == Spec => []QueueCounted
  <1>1. IInv => QueueCounted
    <2> SUFFICES ASSUME IInv PROVE QueueCounted
      BY Zenon
    <2>1. \A p \in Pool : queuedRequests[p] = Cardinality({r \in Request : pc[r] \in Waiting /\ worker[r] = p})
      BY Zenon DEF IInv, Counted, Queue
    <2>2. queuedRequests \in [Pool -> Nat]
      BY QueueFinite DEF IInv, Types, Counted
    <2>3. TypeOK
      BY <2>2, Zenon DEF IInv, Types, TypeOK, CallerStep
    <2> QED
      BY <2>1, <2>3, Zenon DEF QueueCounted
  <1> QED
    BY <1>1, DispatchInductive, PTL

\* For any requests and threads, a request is in the hands of at most one
\* thread, of its own pool, and its caller waits until the context is closed.
THEOREM RequestsAreHandedOnce == Spec => []HandedOnce
  <1>1. IInv => HandedOnce
    BY Zenon DEF IInv, Hands, Handed, HandedOnce
  <1> QED
    BY <1>1, DispatchInductive, PTL
-----------------------------------------------------------------------------
(* Induction on the steps of a loop *)

\* A nonempty set of naturals has a least element.
LEMMA LeastNat ==
    ASSUME NEW T \in SUBSET Nat, T # {}
    PROVE  \E n \in T : \A m \in T : n <= m
  <1>1. PICK n \in T : \A m \in T : ~(<<m, n>> \in OpToRel(<, Nat))
    BY WFMin, NatLessThanWellFounded, Zenon
  <1>2. \A m \in T : ~(m < n)
    BY <1>1, Zenon DEF OpToRel
  <1> QED
    BY <1>2

\* A set that holds 0, and with each number below k the next one, holds all of them up
\* to k: how the loops over lists in Declarations, Routing and WatchPattern are followed.
LEMMA UpToInduction ==
    ASSUME NEW S, NEW k \in Nat, 0 \in S, \A n \in 0 .. k - 1 : n \in S => n + 1 \in S
    PROVE  0 .. k \subseteq S
  <1> DEFINE T == {n \in 0 .. k : n \notin S}
  <1>1. ASSUME T # {} PROVE FALSE
    <2>0. T \in SUBSET Nat
      OBVIOUS
    <2> HIDE DEF T
    <2>1. PICK n \in T : \A m \in T : n <= m
      BY <1>1, <2>0, LeastNat, Zenon
    <2> USE DEF T
    <2>2. n # 0 /\ n \in 0 .. k /\ n \notin S
      BY <2>1
    <2>3. n - 1 \in 0 .. k - 1
      BY <2>2
    <2>4. n - 1 \notin T
      BY <2>1, <2>3
    <2>5. n - 1 \in S
      BY <2>3, <2>4
    <2>6. (n - 1) + 1 \in S
      BY <2>3, <2>5
    <2> QED
      BY <2>2, <2>6
  <1> QED
    BY <1>1

\* f is computed in k steps from b by G, with its values in V
Recurs(f, V, b, k, G) ==
    /\ f \in [0 .. k -> V]
    /\ f[0] = b
    /\ \A n \in 1 .. k : f[n - 1] \in V /\ f[n] = G[<<f[n - 1], n>>]

\* Such an f exists.
LEMMA RecursionExists ==
    ASSUME NEW V, NEW b \in V, NEW k \in Nat, NEW G \in [V \X (1 .. k) -> V]
    PROVE  \E f : Recurs(f, V, b, k, G)
  <1> DEFINE N == {n \in 0 .. k : \E f : Recurs(f, V, b, n, G)}
  <1>1. 0 \in N
    <2> DEFINE f == [m \in 0 .. 0 |-> b]
    <2>1. f \in [0 .. 0 -> V] /\ f[0] = b /\ 1 .. 0 = {} /\ 0 \in 0 .. k
      BY SMT
    <2> HIDE DEF f
    <2>2. Recurs(f, V, b, 0, G)
      BY <2>1, Zenon DEF Recurs
    <2> QED
      BY <2>1, <2>2, Zenon
  <1>2. ASSUME NEW n \in 0 .. k - 1, n \in N PROVE n + 1 \in N
    <2>1. PICK f : Recurs(f, V, b, n, G)
      BY <1>2, Zenon
    <2> DEFINE v == G[<<f[n], n + 1>>]
               g == [m \in 0 .. n + 1 |-> IF m = n + 1 THEN v ELSE f[m]]
    <2>2. /\ n + 1 \in 1 .. k /\ n + 1 \in 0 .. k /\ n \in 0 .. n /\ n + 1 \in 0 .. n + 1 /\ (n + 1) - 1 = n
          /\ 0 # n + 1 /\ 0 \in 0 .. n /\ 0 \in 0 .. n + 1
          /\ \A m \in 0 .. n + 1 : m # n + 1 => m \in 0 .. n
          /\ \A m \in 1 .. n + 1 : /\ m \in 0 .. n + 1 /\ m - 1 \in 0 .. n /\ m - 1 \in 0 .. n + 1 /\ m - 1 # n + 1
                                   /\ m # n + 1 => m \in 1 .. n
      BY SMT
    <2>3. /\ f \in [0 .. n -> V] /\ f[0] = b
          /\ \A m \in 1 .. n : f[m - 1] \in V /\ f[m] = G[<<f[m - 1], m>>]
      BY <2>1, Zenon DEF Recurs
    <2>4. v \in V
      BY <2>2, <2>3, Zenon
    <2>5. /\ g[n + 1] = v /\ \A m \in 0 .. n : m # n + 1 => g[m] = f[m]
      BY <2>2, SMT
    <2>6. g \in [0 .. n + 1 -> V]
      <3> HIDE DEF v
      <3>1. \A m \in 0 .. n + 1 : (IF m = n + 1 THEN v ELSE f[m]) \in V
        BY <2>2, <2>3, <2>4, Zenon
      <3> QED
        BY <3>1, Zenon
    <2> HIDE DEF g
    <2>7. ASSUME NEW m \in 1 .. n + 1 PROVE g[m - 1] \in V /\ g[m] = G[<<g[m - 1], m>>]
      <3>1. g[m - 1] = f[m - 1] /\ g[m - 1] \in V
        BY <2>2, <2>5, <2>6, Zenon
      <3>2. CASE m = n + 1
        BY <2>2, <2>5, <3>1, <3>2, Zenon
      <3>3. CASE m # n + 1
        <4>1. m \in 1 .. n /\ m \in 0 .. n
          BY <2>2, <3>3, SMT
        <4> QED
          BY <2>3, <2>5, <3>1, <3>3, <4>1, Zenon
      <3> QED
        BY <3>2, <3>3, Zenon
    <2>8. g[0] = b
      BY <2>2, <2>3, <2>5, Zenon
    <2>9. Recurs(g, V, b, n + 1, G)
      BY <2>6, <2>7, <2>8, Zenon DEF Recurs
    <2> QED
      BY <2>2, <2>9, Zenon
  <1> HIDE DEF N
  <1>3. 0 .. k \subseteq N
    BY <1>1, <1>2, UpToInduction, Zenon
  <1>4. k \in 0 .. k
    BY SMT
  <1> QED
    BY <1>3, <1>4, Zenon DEF N

\* The type that the first value has and every step keeps is the type of all values.
LEMMA RecursionTyped ==
    ASSUME NEW V, NEW k \in Nat, NEW F, F[0] \in V, \A n \in 1 .. k : F[n - 1] \in V => F[n] \in V
    PROVE  \A n \in 0 .. k : F[n] \in V
  <1> DEFINE N == {n \in 0 .. k : F[n] \in V}
  <1>1. 0 \in N
    BY SMT
  <1>2. ASSUME NEW n \in 0 .. k - 1, n \in N PROVE n + 1 \in N
    <2>1. n + 1 \in 1 .. k /\ n + 1 \in 0 .. k /\ (n + 1) - 1 = n
      BY SMT
    <2> QED
      BY <1>2, <2>1, Zenon
  <1> HIDE DEF N
  <1>3. 0 .. k \subseteq N
    BY <1>1, <1>2, UpToInduction, Zenon
  <1> QED
    BY <1>3, Zenon DEF N
-----------------------------------------------------------------------------
(* Declarations *)

\* Min, which the loops pick with, is the least element of a set of naturals.
LEMMA LeastMember ==
    ASSUME NEW T \in SUBSET Nat, T # {}
    PROVE  Min(T) \in T /\ \A m \in T : Min(T) <= m
  <1>1. PICK n \in T : \A m \in T : n <= m
    BY LeastNat, Zenon
  <1> QED
    BY <1>1, Zenon DEF Min

\* The options of a worker, whose name is one of Name, or left out
WorkerOption(Name) == [name : Name, file : Path, declared : Path, server : Nat, match : BOOLEAN]

\* resolveWorkerFile resolves the file, keeps what was declared, and names the worker
\* after its file if it has no name.
LEMMA Resolved ==
    ASSUME ResolveAssumption, NEW Name, NEW w \in WorkerOption(Name)
    PROVE  LET o == resolveWorkerFile(w)
           IN  /\ o.file = Resolve[w.file] /\ o.declared = w.file /\ o.server = w.server /\ o.match = w.match
               /\ o.name \in Name \cup {<<p>> : p \in Path}
               /\ o.file \in Path /\ o.declared \in Path /\ o.server \in Nat /\ o.match \in BOOLEAN
  BY Zenon DEF WorkerOption, resolveWorkerFile, ResolveAssumption

\* What Init and what Validate have seen of the workers
Registry(Name) == [ok : BOOLEAN, byName : SUBSET (Name \cup {<<p>> : p \in Path}), byPath : SUBSET (Nat \X Path)]
Taken(Name) == [ok : BOOLEAN, names : SUBSET (Name \cup {<<p>> : p \in Path}), paths : SUBSET (Nat \X Path)]

\* checkWorkerDeclaration answers yes or no.
LEMMA CheckBoolean ==
    ASSUME NEW o, NEW names, NEW paths, o.match \in BOOLEAN
    PROVE  checkWorkerDeclaration(o, names, paths) \in BOOLEAN
  BY Zenon DEF checkWorkerDeclaration

\* Validate keeps the type of what it has seen.
LEMMA ValidateTyped ==
    ASSUME ResolveAssumption, NEW Name, NEW acc \in Taken(Name), NEW w \in WorkerOption(Name)
    PROVE  validateWorker(acc, w) \in Taken(Name)
  <1>1. CASE ~acc.ok \/ w.file \notin OnDisk
    BY <1>1 DEF Taken, validateWorker
  <1>2. CASE ~(~acc.ok \/ w.file \notin OnDisk)
    <2> DEFINE o == resolveWorkerFile(w)
    <2>1. /\ o.name \in Name \cup {<<p>> : p \in Path}
          /\ o.file \in Path /\ o.declared \in Path /\ o.server \in Nat /\ o.match \in BOOLEAN
      BY Resolved, Zenon
    <2>2. checkWorkerDeclaration(o, acc.names, acc.paths) \in BOOLEAN
      BY <2>1, Zenon DEF checkWorkerDeclaration
    <2>3. validateWorker(acc, w) =
            [ok |-> checkWorkerDeclaration(o, acc.names, acc.paths),
             names |-> acc.names \cup {o.name},
             paths |-> IF o.match THEN acc.paths ELSE acc.paths \cup {<<o.server, o.file>>}]
      BY <1>2, Zenon DEF validateWorker
    <2> HIDE DEF o
    <2> QED
      BY <2>1, <2>2, <2>3, SMT DEF Taken
  <1> QED
    BY <1>1, <1>2

\* Init keeps the type of what it has registered.
LEMMA NewWorkerTyped ==
    ASSUME ResolveAssumption, NEW Name, NEW acc \in Registry(Name), NEW w \in WorkerOption(Name)
    PROVE  newWorker(acc, w) \in Registry(Name)
  <1>1. CASE ~acc.ok \/ w.file \notin OnDisk
    BY <1>1 DEF Registry, newWorker
  <1>2. CASE ~(~acc.ok \/ w.file \notin OnDisk)
    <2> DEFINE o == resolveWorkerFile(w)
    <2>1. /\ o.name \in Name \cup {<<p>> : p \in Path}
          /\ o.file \in Path /\ o.declared \in Path /\ o.server \in Nat /\ o.match \in BOOLEAN
      BY Resolved, Zenon
    <2>2. checkWorkerDeclaration(o, acc.byName, acc.byPath) \in BOOLEAN
      BY <2>1, Zenon DEF checkWorkerDeclaration
    <2>3. newWorker(acc, w) =
            [ok |-> checkWorkerDeclaration(o, acc.byName, acc.byPath),
             byName |-> acc.byName \cup {o.name},
             byPath |-> IF o.match THEN acc.byPath ELSE addWorker(o.server, acc.byPath, o)]
      BY <1>2, Zenon DEF newWorker
    <2> HIDE DEF o
    <2> QED
      BY <2>1, <2>2, <2>3, SMT DEF Registry, addWorker
  <1> QED
    BY <1>1, <1>2

\* What the loops of Validate and of initWorkers hold after each worker
ValidateRun(r, workers, Name) ==
    /\ r \in [0 .. Len(workers) -> Taken(Name)]
    /\ r[0] = [ok |-> TRUE, names |-> {}, paths |-> {}]
    /\ \A n \in 1 .. Len(workers) : r[n] = validateWorker(r[n - 1], workers[n])
    /\ Validate(workers) = r[Len(workers)].ok
InitRun(r, workers, Name) ==
    /\ r \in [0 .. Len(workers) -> Registry(Name)]
    /\ r[0] = [ok |-> TRUE, byName |-> {}, byPath |-> {}]
    /\ \A n \in 1 .. Len(workers) : r[n] = newWorker(r[n - 1], workers[n])
    /\ newWorkers(workers) = r[Len(workers)]

\* Validate takes the workers one after the other.
LEMMA ValidateRuns ==
    ASSUME ResolveAssumption, NEW Name, NEW workers \in Seq(WorkerOption(Name))
    PROVE  \E r : ValidateRun(r, workers, Name)
  <1> DEFINE V == Taken(Name)
             k == Len(workers)
             b == [ok |-> TRUE, names |-> {}, paths |-> {}]
             Step(e, i) == validateWorker(e, workers[i])
             G == [p \in V \X (1 .. k) |-> Step(p[1], p[2])]
             Rec(f) == f = [i \in 0 .. k |-> IF i = 0 THEN b ELSE Step(f[i - 1], i)]
             F == CHOOSE f : Rec(f)
  <1>1. k \in Nat /\ b \in V
    BY SMT DEF Taken
  <1>2. \A e \in V, i \in 1 .. k : Step(e, i) \in V
    <2>1. ASSUME NEW e \in Taken(Name), NEW i \in 1 .. Len(workers) PROVE validateWorker(e, workers[i]) \in Taken(Name)
      <3>1. workers[i] \in WorkerOption(Name)
        BY SMT
      <3> QED
        BY <3>1, ValidateTyped, Zenon
    <2> QED
      BY <2>1, Zenon
  <1>3. Validate(workers) = F[Len(workers)].ok
    BY Zenon DEF Validate
  <1> HIDE DEF V, Step, k, b
  <1>4. G \in [V \X (1 .. k) -> V]
    BY <1>2, Zenon
  <1>5. PICK f : Recurs(f, V, b, k, G)
    <2> HIDE DEF G
    <2> QED
      BY <1>1, <1>4, RecursionExists, Zenon
  <1>6. /\ 0 \in 0 .. k
        /\ \A n \in 0 .. k : n # 0 => n \in 1 .. k
        /\ \A n \in 1 .. k : n \in 0 .. k /\ n # 0
    BY <1>1, SMT
  <1>7. \A n \in 1 .. k : f[n] = Step(f[n - 1], n)
    BY <1>5, Zenon DEF Recurs
  <1>8. Rec(F)
    <2>1. \A n \in 0 .. k : f[n] = IF n = 0 THEN b ELSE Step(f[n - 1], n)
      BY <1>5, <1>6, <1>7, Zenon DEF Recurs
    <2>2. Rec(f)
      BY <1>5, <2>1, Zenon DEF Recurs
    <2> HIDE DEF Rec
    <2> QED
      BY <2>2, Zenon
  <1> HIDE DEF F
  <1>9. F[0] = b /\ \A n \in 1 .. k : F[n] = Step(F[n - 1], n)
    BY <1>6, <1>8, Zenon
  <1>10. F \in [0 .. k -> V]
    <2>1. \A n \in 1 .. k : F[n - 1] \in V => F[n] \in V
      BY <1>2, <1>9, Zenon
    <2>2. \A n \in 0 .. k : F[n] \in V
      BY <1>1, <1>9, <2>1, RecursionTyped, Zenon
    <2> QED
      BY <1>8, <2>2, Zenon
  <1> QED
    BY <1>3, <1>9, <1>10, Zenon DEF V, Step, k, b, ValidateRun

\* So does initWorkers.
LEMMA InitRuns ==
    ASSUME ResolveAssumption, NEW Name, NEW workers \in Seq(WorkerOption(Name))
    PROVE  \E r : InitRun(r, workers, Name)
  <1> DEFINE V == Registry(Name)
             k == Len(workers)
             b == [ok |-> TRUE, byName |-> {}, byPath |-> {}]
             Step(e, i) == newWorker(e, workers[i])
             G == [p \in V \X (1 .. k) |-> Step(p[1], p[2])]
             Rec(f) == f = [i \in 0 .. k |-> IF i = 0 THEN b ELSE Step(f[i - 1], i)]
             F == CHOOSE f : Rec(f)
  <1>1. k \in Nat /\ b \in V
    BY SMT DEF Registry
  <1>2. \A e \in V, i \in 1 .. k : Step(e, i) \in V
    <2>1. ASSUME NEW e \in Registry(Name), NEW i \in 1 .. Len(workers) PROVE newWorker(e, workers[i]) \in Registry(Name)
      <3>1. workers[i] \in WorkerOption(Name)
        BY SMT
      <3> QED
        BY <3>1, NewWorkerTyped, Zenon
    <2> QED
      BY <2>1, Zenon
  <1>3. newWorkers(workers) = F[Len(workers)]
    BY Zenon DEF newWorkers
  <1> HIDE DEF V, Step, k, b
  <1>4. G \in [V \X (1 .. k) -> V]
    BY <1>2, Zenon
  <1>5. PICK f : Recurs(f, V, b, k, G)
    <2> HIDE DEF G
    <2> QED
      BY <1>1, <1>4, RecursionExists, Zenon
  <1>6. /\ 0 \in 0 .. k
        /\ \A n \in 0 .. k : n # 0 => n \in 1 .. k
        /\ \A n \in 1 .. k : n \in 0 .. k /\ n # 0
    BY <1>1, SMT
  <1>7. \A n \in 1 .. k : f[n] = Step(f[n - 1], n)
    BY <1>5, Zenon DEF Recurs
  <1>8. Rec(F)
    <2>1. \A n \in 0 .. k : f[n] = IF n = 0 THEN b ELSE Step(f[n - 1], n)
      BY <1>5, <1>6, <1>7, Zenon DEF Recurs
    <2>2. Rec(f)
      BY <1>5, <2>1, Zenon DEF Recurs
    <2> HIDE DEF Rec
    <2> QED
      BY <2>2, Zenon
  <1> HIDE DEF F
  <1>9. F[0] = b /\ \A n \in 1 .. k : F[n] = Step(F[n - 1], n)
    BY <1>6, <1>8, Zenon
  <1>10. F \in [0 .. k -> V]
    <2>1. \A n \in 1 .. k : F[n - 1] \in V => F[n] \in V
      BY <1>2, <1>9, Zenon
    <2>2. \A n \in 0 .. k : F[n] \in V
      BY <1>1, <1>9, <2>1, RecursionTyped, Zenon
    <2> QED
      BY <1>8, <2>2, Zenon
  <1> QED
    BY <1>3, <1>9, <1>10, Zenon DEF V, Step, k, b, InitRun

\* What the two loops have in common after the same workers: their answer, the names
\* that are taken, and the paths that are taken, as far as these are resolved.
Agree(v, k) ==
    /\ v.ok = k.ok
    /\ v.names = k.byName
    /\ \A s \in Nat, p \in Path : <<s, p>> \in v.paths => <<s, p>> \in k.byPath
    /\ \A s \in Nat, p \in Path : Resolve[p] = p /\ <<s, p>> \in k.byPath => <<s, p>> \in v.paths

\* A worker that Init and Validate meet after the same ones is accepted by both or by
\* neither (newWorker, checkWorkerDeclaration).
LEMMA AgreeKept ==
    ASSUME ResolveAssumption, NEW Name, NEW v \in Taken(Name), NEW k \in Registry(Name), NEW w \in WorkerOption(Name), Agree(v, k)
    PROVE  Agree(validateWorker(v, w), newWorker(k, w))
  <1>1. CASE ~v.ok \/ w.file \notin OnDisk
    BY <1>1 DEF Agree, Taken, Registry, validateWorker, newWorker
  <1>2. CASE ~(~v.ok \/ w.file \notin OnDisk)
    <2> DEFINE o == resolveWorkerFile(w)
    <2>1. /\ o.file = Resolve[w.file] /\ o.declared = w.file /\ o.server = w.server
          /\ o.file \in Path /\ o.declared \in Path /\ o.server \in Nat /\ o.match \in BOOLEAN
      BY Resolved, Zenon
    <2>2. Resolve[o.file] = o.file
      BY <2>1, Zenon DEF WorkerOption, ResolveAssumption
    <2>3. validateWorker(v, w) =
            [ok |-> checkWorkerDeclaration(o, v.names, v.paths),
             names |-> v.names \cup {o.name},
             paths |-> IF o.match THEN v.paths ELSE v.paths \cup {<<o.server, o.file>>}]
      BY <1>2, Zenon DEF validateWorker
    <2>4. newWorker(k, w) =
            [ok |-> checkWorkerDeclaration(o, k.byName, k.byPath),
             byName |-> k.byName \cup {o.name},
             byPath |-> IF o.match THEN k.byPath ELSE addWorker(o.server, k.byPath, o)]
      BY <1>2, Zenon DEF newWorker, Agree
    <2> HIDE DEF o
    <2>5. \A s \in Nat : <<s, o.file>> \in v.paths <=> <<s, o.file>> \in k.byPath
      BY <2>1, <2>2, Zenon DEF Agree
    <2>6. checkWorkerDeclaration(o, v.names, v.paths) = checkWorkerDeclaration(o, k.byName, k.byPath)
      BY <2>1, <2>5, SMT DEF checkWorkerDeclaration, Agree, NoServer
    <2>7. CASE o.match
      BY <2>3, <2>4, <2>6, <2>7, SMT DEF Agree
    <2>8. CASE ~o.match
      <3> DEFINE v2 == v.paths \cup {<<o.server, o.file>>}
                 k2 == k.byPath \cup {<<o.server, o.file>>, <<o.server, o.declared>>}
      <3>1. /\ validateWorker(v, w).paths = v2 /\ newWorker(k, w).byPath = k2
            /\ validateWorker(v, w).names = newWorker(k, w).byName
            /\ validateWorker(v, w).ok = newWorker(k, w).ok
        BY <2>3, <2>4, <2>6, <2>8, SMT DEF Agree, addWorker
      <3>2. \A s \in Nat, p \in Path : <<s, p>> \in v2 => <<s, p>> \in k2
        BY SMT DEF Agree
      <3>3. \A s \in Nat, p \in Path : Resolve[p] = p /\ <<s, p>> \in k2 => <<s, p>> \in v2
        BY <2>1, SMT DEF Agree
      <3> HIDE DEF v2, k2
      <3> QED
        BY <3>1, <3>2, <3>3, Zenon DEF Agree
    <2> QED
      BY <2>7, <2>8
  <1> QED
    BY <1>1, <1>2

\* For any list of workers, Validate accepts it if and only if Init does: both resolve
\* the file before they check it.
THEOREM ValidateIsInit ==
    ASSUME ResolveAssumption, NEW Name, NEW workers \in Seq(WorkerOption(Name))
    PROVE  SameAnswer(workers)
  <1>1. PICK r : ValidateRun(r, workers, Name)
    BY ValidateRuns, Zenon
  <1>2. PICK q : InitRun(q, workers, Name)
    BY InitRuns, Zenon
  <1> DEFINE N == {n \in 0 .. Len(workers) : Agree(r[n], q[n])}
  <1>3. Len(workers) \in Nat /\ 0 \in 0 .. Len(workers) /\ Len(workers) \in 0 .. Len(workers)
    BY SMT
  <1>4. 0 \in N
    <2>1. /\ r[0].ok = TRUE /\ r[0].names = {} /\ r[0].paths = {}
          /\ q[0].ok = TRUE /\ q[0].byName = {} /\ q[0].byPath = {}
      BY <1>1, <1>2, SMT DEF ValidateRun, InitRun
    <2> QED
      BY <1>3, <2>1, Zenon DEF Agree
  <1>5. ASSUME NEW n \in 0 .. Len(workers) - 1, n \in N PROVE n + 1 \in N
    <2>1. /\ n + 1 \in 1 .. Len(workers) /\ (n + 1) - 1 = n /\ n + 1 \in 0 .. Len(workers) /\ n \in 0 .. Len(workers)
          /\ workers[n + 1] \in WorkerOption(Name)
      BY <1>3, SMT
    <2>2. r[n + 1] = validateWorker(r[n], workers[n + 1]) /\ q[n + 1] = newWorker(q[n], workers[n + 1])
      BY <1>1, <1>2, <2>1, Zenon DEF ValidateRun, InitRun
    <2>3. r[n] \in Taken(Name) /\ q[n] \in Registry(Name) /\ Agree(r[n], q[n])
      BY <1>1, <1>2, <1>5, <2>1, Zenon DEF ValidateRun, InitRun
    <2>4. Agree(r[n + 1], q[n + 1])
      <3>1. Agree(validateWorker(r[n], workers[n + 1]), newWorker(q[n], workers[n + 1]))
        BY <2>1, <2>3, AgreeKept, Zenon
      <3> QED
        BY <2>2, <3>1, Zenon
    <2> QED
      BY <2>1, <2>4, Zenon
  <1> HIDE DEF N
  <1>6. 0 .. Len(workers) \subseteq N
    BY <1>3, <1>4, <1>5, UpToInduction, Zenon
  <1>7. Agree(r[Len(workers)], q[Len(workers)])
    BY <1>3, <1>6, Zenon DEF N
  <1> QED
    BY <1>1, <1>2, <1>7, Zenon DEF Agree, SameAnswer, ValidateRun, InitRun

\* ValidateAgrees holds of every list of workers.
THEOREM ValidateAgreement ==
    ASSUME ResolveAssumption, NEW Name, input.kind = "workers" => input.workers \in Seq(WorkerOption(Name))
    PROVE  ValidateAgrees
  BY ValidateIsInit, Zenon DEF ValidateAgrees

\* A sequence, of whatever it holds
IsList(s) == \E S : s \in Seq(S)

\* The elements of a list with one more.
LEMMA ListAppended ==
    ASSUME NEW s, IsList(s), NEW e
    PROVE  /\ IsList(Append(s, e)) /\ Len(s) \in Nat /\ Len(Append(s, e)) = Len(s) + 1
           /\ Append(s, e)[Len(s) + 1] = e /\ \A k \in 1 .. Len(s) : Append(s, e)[k] = s[k]
  <1>1. PICK S : s \in Seq(S)
    BY Zenon DEF IsList
  <1> DEFINE T == S \cup {e}
             o == Append(s, e)
  <1>2. s \in Seq(T) /\ e \in T
    BY <1>1, SMT
  <1> HIDE DEF T
  <1>3. o \in Seq(T) /\ Len(s) \in Nat /\ Len(o) = Len(s) + 1 /\ o[Len(s) + 1] = e /\ \A k \in 1 .. Len(s) : o[k] = s[k]
    BY <1>2, SMT
  <1> HIDE DEF o
  <1> QED
    BY <1>3, Zenon DEF IsList, o

\* o is u followed by v
Joined(o, u, v) ==
    /\ IsList(o) /\ Len(u) \in Nat /\ Len(v) \in Nat /\ Len(o) = Len(u) + Len(v)
    /\ \A k \in 1 .. Len(u) : o[k] = u[k]
    /\ \A k \in 1 .. Len(v) : o[Len(u) + k] = v[k]
    /\ DOMAIN o = 1 .. Len(u) + Len(v)

\* Two lists put together are one followed by the other.
LEMMA ListsJoined ==
    ASSUME NEW u, IsList(u), NEW v, IsList(v)
    PROVE  Joined(u \o v, u, v)
  <1>1. PICK S, T : u \in Seq(S) /\ v \in Seq(T)
    BY Zenon DEF IsList
  <1> DEFINE X == S \cup T
             o == u \o v
  <1>2. u \in Seq(X) /\ v \in Seq(X)
    BY <1>1, SMT
  <1> HIDE DEF X
  <1>3. o \in Seq(X) /\ Len(u) \in Nat /\ Len(v) \in Nat /\ Len(o) = Len(u) + Len(v) /\ DOMAIN o = 1 .. Len(u) + Len(v)
        /\ \A k \in 1 .. Len(u) : o[k] = u[k]
    BY <1>2, SMT
  <1>4. ASSUME NEW k \in 1 .. Len(v) PROVE o[Len(u) + k] = v[k]
    BY <1>2, SMT
  <1> HIDE DEF o
  <1>5. Joined(o, u, v)
    BY <1>3, <1>4, Zenon DEF IsList, Joined
  <1> QED
    BY <1>5, Zenon DEF o

\* The numbers put after a name make it different from the others.
Numbers == IsList(Suffix) /\ \A k, l \in 1 .. Len(Suffix) : Suffix[k] = Suffix[l] => k = l

\* The name with the k-th number after it
Numbered(name, k) == name \o <<"_", Suffix[k]>>

\* The same name with two different numbers is two names.
LEMMA NumberedDiffer ==
    ASSUME Numbers, NEW name, IsList(name), NEW k \in 1 .. Len(Suffix), NEW l \in 1 .. Len(Suffix),
           Numbered(name, k) = Numbered(name, l)
    PROVE  k = l
  <1> DEFINE v(x) == <<"_", Suffix[x]>>
  <1>1. \A x : IsList(v(x)) /\ Len(v(x)) = 2 /\ v(x)[2] = Suffix[x] /\ 2 \in 1 .. Len(v(x))
    <2> TAKE x
    <2> DEFINE e == Suffix[x]
               w == <<"_", e>>
               T == {"_", e}
    <2> HIDE DEF e
    <2>1. w \in Seq(T) /\ Len(w) = 2 /\ w[2] = e /\ 2 \in 1 .. 2
      BY SMT
    <2> HIDE DEF w, T
    <2> QED
      BY <2>1, Zenon DEF IsList, w, e
  <1> HIDE DEF v
  <1>2. \A x : (name \o v(x))[Len(name) + 2] = Suffix[x]
    <2> TAKE x
    <2>1. (name \o v(x))[Len(name) + 2] = v(x)[2]
      <3>1. Joined(name \o v(x), name, v(x))
        BY <1>1, ListsJoined, Zenon
      <3> QED
        BY <1>1, <3>1, Zenon DEF Joined
    <2> QED
      BY <1>1, <2>1, Zenon
  <1>3. Suffix[k] = Suffix[l]
    BY <1>2, Zenon DEF Numbered, v
  <1> QED
    BY <1>3, Zenon DEF Numbers

\* A name with a number after it is one that createUniqueWorkerName tries; no name
\* it tries is empty.
CandidatesOf(wc, serverName) ==
    LET name == IF wc.name = <<>> THEN <<wc.file>> ELSE wc.name
        qualified == IF serverName = "" THEN <<>> ELSE << <<serverName, ":">> \o name >>
        numbered == [k \in DOMAIN Suffix |-> name \o <<"_", Suffix[k]>>]
    IN  <<name>> \o qualified \o numbered

\* The names that createUniqueWorkerName tries are never empty, and include one name
\* with every number.
LEMMA CandidatesAre ==
    ASSUME Numbers, NEW wc, IsList(wc.name), NEW serverName
    PROVE  \E name : /\ IsList(name)
                     /\ \A k \in 1 .. Len(Suffix) : \E j \in DOMAIN CandidatesOf(wc, serverName) :
                           CandidatesOf(wc, serverName)[j] = Numbered(name, k)
                     /\ \A j \in DOMAIN CandidatesOf(wc, serverName) : CandidatesOf(wc, serverName)[j] # <<>>
                     /\ DOMAIN CandidatesOf(wc, serverName) \in SUBSET Nat
  <1> DEFINE name == IF wc.name = <<>> THEN <<wc.file>> ELSE wc.name
             pre == <<serverName, ":">>
             qualified == IF serverName = "" THEN <<>> ELSE << pre \o name >>
             numbered == [k \in DOMAIN Suffix |-> name \o <<"_", Suffix[k]>>]
             C == CandidatesOf(wc, serverName)
  <1>1. C = (<<name>> \o qualified) \o numbered
    BY Zenon DEF CandidatesOf
  <1>2. IsList(name) /\ name # <<>>
    <2>1. <<wc.file>> \in Seq({wc.file}) /\ <<wc.file>> # <<>>
      BY SMT
    <2> QED
      BY <2>1, Zenon DEF IsList
  <1>3. DOMAIN Suffix = 1 .. Len(Suffix) /\ Len(Suffix) \in Nat
    <2>1. PICK S : Suffix \in Seq(S)
      BY Zenon DEF Numbers, IsList
    <2> QED
      BY <2>1, SMT
  <1>4. IsList(pre) /\ Len(pre) = 2
    <2>1. pre \in Seq({serverName, ":"}) /\ Len(pre) = 2
      BY SMT
    <2> QED
      BY <2>1, Zenon DEF IsList
  <1> HIDE DEF name, C, pre
  <1>5. IsList(numbered) /\ Len(numbered) = Len(Suffix) /\ \A k \in 1 .. Len(Suffix) : numbered[k] = Numbered(name, k)
    <2> DEFINE X == {Numbered(name, k) : k \in 1 .. Len(Suffix)}
    <2>1. numbered = [k \in 1 .. Len(Suffix) |-> Numbered(name, k)]
      BY <1>3, Zenon DEF Numbered
    <2>2. numbered \in [1 .. Len(Suffix) -> X]
      BY <2>1, Zenon
    <2> HIDE DEF numbered, X
    <2>3. numbered \in Seq(X) /\ Len(numbered) = Len(Suffix)
      BY <1>3, <2>2, SMT
    <2> QED
      BY <2>1, <2>3, Zenon DEF IsList
  <1>6. \A k : Numbered(name, k) # <<>>
    <2> TAKE k
    <2> DEFINE e == Suffix[k]
               w == <<"_", e>>
    <2> HIDE DEF e
    <2>1. w \in Seq({"_", e}) /\ Len(w) = 2
      BY SMT
    <2> HIDE DEF w
    <2>2. IsList(w)
      BY <2>1, Zenon DEF IsList
    <2>3. Len(name) \in Nat /\ Len(name \o w) = Len(name) + 2
      <3>1. Joined(name \o w, name, w)
        BY <1>2, <2>2, ListsJoined, Zenon
      <3> QED
        BY <2>1, <3>1, Zenon DEF Joined
    <2> DEFINE o == name \o w
    <2> HIDE DEF o
    <2>4. o # <<>>
      <3>1. Len(o) = Len(name) + 2
        BY <2>3, Zenon DEF o
      <3>2. Len(o) # 0
        BY <2>3, <3>1, SMT
      <3>3. Len(<<>>) = 0
        BY SMT
      <3> QED
        BY <3>2, <3>3, Zenon
    <2> QED
      BY <2>4, Zenon DEF Numbered, o, w, e
  <1>7. pre \o name # <<>>
    <2> DEFINE o == pre \o name
    <2>1. Len(o) = Len(pre) + Len(name) /\ Len(name) \in Nat
      BY <1>2, <1>4, ListsJoined, Zenon DEF Joined
    <2> HIDE DEF o
    <2>2. Len(o) # 0 /\ Len(<<>>) = 0
      BY <1>4, <2>1, SMT
    <2> QED
      BY <2>2, Zenon DEF o
  <1> DEFINE first == <<name>> \o qualified
  <1>8. IsList(first) /\ \A j \in 1 .. Len(first) : first[j] # <<>>
    <2> DEFINE q == pre \o name
               a == <<name>>
               s == <<q>>
    <2>1. first = a \o <<>> \/ first = a \o s
      BY Zenon
    <2> HIDE DEF q, first
    <2>2. /\ a \in Seq({name, q}) /\ s \in Seq({name, q}) /\ a \o <<>> \in Seq({name, q}) /\ a \o s \in Seq({name, q})
      BY SMT
    <2> HIDE DEF a, s
    <2>3. first \in Seq({name, q})
      BY <2>1, <2>2, Zenon
    <2>4. \A j \in 1 .. Len(first) : first[j] \in {name, q}
      BY <2>3, SMT
    <2> QED
      BY <1>2, <1>7, <2>3, <2>4, Zenon DEF IsList, q
  <1>9. C = first \o numbered
    BY <1>1, Zenon
  <1> HIDE DEF first, numbered
  <1>10. /\ Len(first) \in Nat /\ DOMAIN C = 1 .. Len(first) + Len(numbered)
         /\ \A k \in 1 .. Len(first) : C[k] = first[k]
         /\ \A k \in 1 .. Len(numbered) : C[Len(first) + k] = numbered[k]
    <2>1. Joined(first \o numbered, first, numbered)
      BY <1>5, <1>8, ListsJoined, Zenon
    <2> QED
      BY <1>9, <2>1, Zenon DEF Joined
  <1>11. /\ \A k \in 1 .. Len(Suffix) : Len(first) + k \in DOMAIN C
         /\ \A j \in DOMAIN C : j \in 1 .. Len(first) \/ (j - Len(first) \in 1 .. Len(Suffix) /\ Len(first) + (j - Len(first)) = j)
         /\ DOMAIN C \in SUBSET Nat
    <2>1. /\ Len(first) \in Nat /\ DOMAIN C = 1 .. Len(first) + Len(Suffix)
      BY <1>5, <1>10, Zenon
    <2> QED
      BY <1>3, <2>1, SMT
  <1>12. \A k \in 1 .. Len(Suffix) : C[Len(first) + k] = Numbered(name, k)
    BY <1>5, <1>10, Zenon
  <1>13. ASSUME NEW j \in DOMAIN C PROVE C[j] # <<>>
    <2>1. CASE j \in 1 .. Len(first)
      BY <1>8, <1>10, <2>1, Zenon
    <2>2. CASE j - Len(first) \in 1 .. Len(Suffix) /\ Len(first) + (j - Len(first)) = j
      <3> DEFINE k == j - Len(first)
      <3>1. k \in 1 .. Len(Suffix) /\ Len(first) + k = j
        BY <2>2, Zenon
      <3> HIDE DEF k
      <3>2. C[Len(first) + k] = Numbered(name, k)
        BY <1>12, <3>1, Zenon
      <3> QED
        BY <1>6, <3>1, <3>2, Zenon
    <2> QED
      BY <1>11, <2>1, <2>2, Zenon
  <1> QED
    BY <1>2, <1>11, <1>12, <1>13, Zenon DEF C

\* createUniqueWorkerName finds a name that is new, as long as there are more numbers
\* than names in use.
LEMMA NameIsNew ==
    ASSUME Numbers, NEW wc, IsList(wc.name), NEW serverName, NEW used, IsFiniteSet(used),
           Cardinality(used) < Len(Suffix)
    PROVE  createUniqueWorkerName(used, wc, serverName) \notin used /\ createUniqueWorkerName(used, wc, serverName) # <<>>
  <1> DEFINE C == CandidatesOf(wc, serverName)
             T == {k \in DOMAIN C : C[k] \notin used}
  <1>1. createUniqueWorkerName(used, wc, serverName) = C[Min(T)]
    BY Zenon DEF createUniqueWorkerName, CandidatesOf
  <1>2. PICK name : /\ IsList(name)
                    /\ \A k \in 1 .. Len(Suffix) : \E j \in DOMAIN C : C[j] = Numbered(name, k)
                    /\ \A j \in DOMAIN C : C[j] # <<>>
                    /\ DOMAIN C \in SUBSET Nat
    BY CandidatesAre, Zenon
  <1> HIDE DEF C
  <1>3. Len(Suffix) \in Nat
    <2>1. PICK S : Suffix \in Seq(S)
      BY Zenon DEF Numbers, IsList
    <2> QED
      BY <2>1, SMT
  <1>4. T # {}
    <2> SUFFICES ASSUME T = {} PROVE FALSE
      BY Zenon
    <2> DEFINE S == 1 .. Len(Suffix)
               f == [k \in S |-> Numbered(name, k)]
    <2>1. f \in [S -> used]
      BY <1>2, Zenon
    <2>2. IsFiniteSet(S) /\ Cardinality(S) = Len(Suffix)
      <3>1. 1 \in Int /\ Len(Suffix) \in Int /\ (1 > Len(Suffix) => Len(Suffix) = 0) /\ (Len(Suffix) - 1) + 1 = Len(Suffix)
        BY <1>3, SMT
      <3> QED
        BY <3>1, FS_Interval, Zenon
    <2> HIDE DEF S, f
    <2>3. PICK x \in S, y \in S : x # y /\ f[x] = f[y]
      BY <2>1, <2>2, FS_PigeonHole
    <2>4. Numbered(name, x) = Numbered(name, y)
      BY <2>3, Zenon DEF f
    <2> QED
      BY <1>2, <2>3, <2>4, NumberedDiffer, Zenon DEF S
  <1>5. Min(T) \in T
    <2>1. T \in SUBSET Nat
      BY <1>2, Zenon
    <2> HIDE DEF T
    <2> QED
      BY <1>4, <2>1, LeastMember, Zenon
  <1> QED
    BY <1>1, <1>2, <1>5, Zenon

\* What collectOptions goes through, and what a worker adds to it.
IsAcc(acc) == DOMAIN acc = {"used", "opts", "server"}
OneMore(acc, new, wc, server, name) ==
    /\ IsAcc(new) /\ new.used = acc.used \cup {name} /\ new.server = acc.server
    /\ new.opts = Append(acc.opts, WithWorkers(name, wc, server))

\* collectWorker adds one option, with the name that createUniqueWorkerName finds.
LEMMA CollectOne ==
    ASSUME NEW acc, IsAcc(acc), NEW wc, NEW server, NEW serverName
    PROVE  OneMore(acc, collectWorker(acc, wc, server, serverName), wc, server,
                   createUniqueWorkerName(acc.used, wc, serverName))
  <1> DEFINE name == createUniqueWorkerName(acc.used, wc, serverName)
             o == WithWorkers(name, wc, server)
             new == collectWorker(acc, wc, server, serverName)
  <1>1. new = [acc EXCEPT !.used = @ \cup {name}, !.opts = Append(@, o)]
    BY Zenon DEF collectWorker
  <1> HIDE DEF name, o, new
  <1>2. DOMAIN acc = {"used", "opts", "server"}
    BY Zenon DEF IsAcc
  <1>3. /\ DOMAIN new = {"used", "opts", "server"} /\ new.used = acc.used \cup {name} /\ new.server = acc.server
        /\ new.opts = Append(acc.opts, o)
    BY <1>1, <1>2, SMT
  <1> QED
    BY <1>3, Zenon DEF OneMore, IsAcc, name, o, new

\* t is s with e at its end
Extended(s, e, t) ==
    /\ IsList(t) /\ Len(s) \in Nat /\ Len(t) = Len(s) + 1
    /\ t[Len(s) + 1] = e /\ \A k \in 1 .. Len(s) : t[k] = s[k]

\* Append adds one element at the end.
LEMMA ListExtended ==
    ASSUME NEW s, IsList(s), NEW e
    PROVE  Extended(s, e, Append(s, e))
  BY ListAppended DEF Extended

\* The names of the options are new ones and not empty, as long as there are numbers
\* for them.
Named(acc) ==
    /\ IsFiniteSet(acc.used) /\ Cardinality(acc.used) <= Len(acc.opts)
    /\ \A k \in 1 .. Len(acc.opts) : acc.opts[k].name \in acc.used /\ acc.opts[k].name # <<>>
    /\ \A k, l \in 1 .. Len(acc.opts) : acc.opts[k].name = acc.opts[l].name => k = l
WellNamed(acc) == IsList(acc.opts) /\ (Len(acc.opts) <= Len(Suffix) => Named(acc))

\* Another worker gets a name that no worker had: createUniqueWorkerName tries one name
\* more than are in use.
LEMMA NamesKept ==
    ASSUME Numbers, NEW acc, WellNamed(acc), NEW wc, IsList(wc.name), NEW server, NEW serverName, NEW new,
           OneMore(acc, new, wc, server, createUniqueWorkerName(acc.used, wc, serverName))
    PROVE  WellNamed(new)
  <1> DEFINE name == createUniqueWorkerName(acc.used, wc, serverName)
             o == WithWorkers(name, wc, server)
             l == Len(acc.opts)
  <1>1. /\ new.used = acc.used \cup {name} /\ new.opts = Append(acc.opts, o)
    BY Zenon DEF OneMore
  <1>2. o.name = name
    BY Zenon DEF WithWorkers
  <1>3. IsList(acc.opts)
    BY Zenon DEF WellNamed
  <1> HIDE DEF o
  <1>4. /\ IsList(new.opts) /\ l \in Nat /\ Len(new.opts) = l + 1
        /\ new.opts[l + 1] = o /\ \A k \in 1 .. l : new.opts[k] = acc.opts[k]
    <2>1. Extended(acc.opts, o, new.opts)
      <3>1. Extended(acc.opts, o, Append(acc.opts, o))
        BY <1>3, ListExtended, Zenon
      <3> QED
        BY <1>1, <3>1, Zenon
    <2> QED
      BY <2>1, Zenon DEF Extended
  <1>5. ASSUME Len(new.opts) <= Len(Suffix) PROVE Named(new)
    <2>0. Len(Suffix) \in Nat
      <3>1. PICK S : Suffix \in Seq(S)
        BY Zenon DEF Numbers, IsList
      <3> QED
        BY <3>1, SMT
    <2>1. l <= Len(Suffix) /\ l < Len(Suffix)
      BY <1>4, <1>5, <2>0, SMT
    <2>2. Named(acc)
      BY <2>1, Zenon DEF WellNamed
    <2>3. /\ IsFiniteSet(acc.used) /\ Cardinality(acc.used) <= l
      BY <2>2, Zenon DEF Named
    <2>4. Cardinality(acc.used) \in Nat
      BY <2>3, FS_CardinalityType, Zenon
    <2>5. Cardinality(acc.used) < Len(Suffix)
      BY <1>4, <2>0, <2>1, <2>3, <2>4, SMT
    <2>6. name \notin acc.used /\ name # <<>>
      BY <2>3, <2>5, NameIsNew, Zenon
    <2> HIDE DEF name
    <2>7. IsFiniteSet(new.used) /\ Cardinality(new.used) = Cardinality(acc.used) + 1
      BY <1>1, <2>3, <2>6, FS_AddElement, Zenon
    <2>8. Cardinality(new.used) <= Len(new.opts)
      BY <1>4, <2>3, <2>4, <2>7, SMT
    <2>9. \A k \in 1 .. Len(new.opts) : k \in 1 .. l \/ k = l + 1
      BY <1>4, SMT
    <2>10. \A k \in 1 .. l : acc.opts[k].name \in acc.used /\ acc.opts[k].name # <<>>
      BY <2>2, Zenon DEF Named
    <2>11. \A k \in 1 .. Len(new.opts) : new.opts[k].name \in new.used /\ new.opts[k].name # <<>>
      BY <1>1, <1>2, <1>4, <2>6, <2>9, <2>10, Zenon
    <2>12. ASSUME NEW k \in 1 .. Len(new.opts), NEW m \in 1 .. Len(new.opts), new.opts[k].name = new.opts[m].name PROVE k = m
      <3>1. CASE k \in 1 .. l /\ m \in 1 .. l
        BY <1>4, <2>2, <2>12, <3>1, Zenon DEF Named
      <3>2. CASE k = l + 1 /\ m = l + 1
        BY <3>2, Zenon
      <3>3. CASE k \in 1 .. l /\ m = l + 1
        BY <1>2, <1>4, <2>6, <2>10, <2>12, <3>3, Zenon
      <3>4. CASE k = l + 1 /\ m \in 1 .. l
        BY <1>2, <1>4, <2>6, <2>10, <2>12, <3>4, Zenon
      <3> QED
        BY <2>9, <3>1, <3>2, <3>3, <3>4, Zenon
    <2> QED
      BY <2>7, <2>8, <2>11, <2>12, Zenon DEF Named
  <1> QED
    BY <1>4, <1>5, Zenon DEF WellNamed

\* The options of a block of workers come after those before it.
IsOption(o, wc, server) ==
    /\ o = WithWorkers(o.name, wc, server)
    /\ o.file = wc.file /\ o.declared = wc.file /\ o.match = wc.match /\ o.server = server
BlockAdded(old, new, workers, n, server) ==
    /\ IsAcc(new) /\ WellNamed(new) /\ new.server = old.server
    /\ Len(new.opts) = Len(old.opts) + n /\ Len(old.opts) \in Nat
    /\ \A k \in 1 .. Len(old.opts) : new.opts[k] = old.opts[k]
    /\ \A x \in 1 .. n : IsOption(new.opts[Len(old.opts) + x], workers[x], server)

\* One more worker of a block is collected.
LEMMA BlockStep ==
    ASSUME Numbers, NEW old, NEW mid, NEW workers, NEW n \in Nat, NEW server, NEW serverName,
           BlockAdded(old, mid, workers, n, server), IsList(workers[n + 1].name)
    PROVE  BlockAdded(old, collectWorker(mid, workers[n + 1], server, serverName), workers, n + 1, server)
  <1> DEFINE wc == workers[n + 1]
             name == createUniqueWorkerName(mid.used, wc, serverName)
             o == WithWorkers(name, wc, server)
             new == collectWorker(mid, wc, server, serverName)
             l == Len(old.opts)
  <1>1. /\ IsAcc(mid) /\ WellNamed(mid) /\ mid.server = old.server /\ IsList(mid.opts)
        /\ Len(mid.opts) = l + n /\ l \in Nat
        /\ \A k \in 1 .. l : mid.opts[k] = old.opts[k]
        /\ \A x \in 1 .. n : IsOption(mid.opts[l + x], workers[x], server)
    BY Zenon DEF BlockAdded, WellNamed
  <1>2. OneMore(mid, new, wc, server, name)
    BY <1>1, CollectOne, Zenon
  <1>3. IsOption(o, wc, server)
    <2>1. o.name = name /\ o.file = wc.file /\ o.declared = wc.file /\ o.match = wc.match /\ o.server = server
      BY Zenon DEF WithWorkers, toWorkerOptions
    <2> QED
      BY <2>1, Zenon DEF IsOption
  <1> HIDE DEF wc, o, name, new
  <1>4. WellNamed(new)
    BY <1>1, <1>2, NamesKept, Zenon DEF wc, name
  <1>5. new.opts = Append(mid.opts, o) /\ IsAcc(new) /\ new.server = mid.server
    BY <1>2, Zenon DEF OneMore, o
  <1>6. /\ Len(new.opts) = Len(mid.opts) + 1
        /\ new.opts[Len(mid.opts) + 1] = o /\ \A k \in 1 .. Len(mid.opts) : new.opts[k] = mid.opts[k]
    <2>1. Extended(mid.opts, o, new.opts)
      <3>1. Extended(mid.opts, o, Append(mid.opts, o))
        BY <1>1, ListExtended, Zenon
      <3> QED
        BY <1>5, <3>1, Zenon
    <2> QED
      BY <2>1, Zenon DEF Extended
  <1> HIDE DEF l
  <1>7. /\ Len(new.opts) = l + (n + 1) /\ Len(mid.opts) + 1 = l + (n + 1)
        /\ \A k \in 1 .. l : k \in 1 .. Len(mid.opts)
        /\ \A x \in 1 .. n + 1 : x = n + 1 \/ (x \in 1 .. n /\ l + x \in 1 .. Len(mid.opts))
    <2>1. Len(mid.opts) = l + n /\ l \in Nat /\ Len(new.opts) = Len(mid.opts) + 1
      BY <1>1, <1>6, Zenon
    <2> QED
      BY <2>1, SMT
  <1>8. \A k \in 1 .. l : new.opts[k] = old.opts[k]
    BY <1>1, <1>6, <1>7, Zenon
  <1>9. ASSUME NEW x \in 1 .. n + 1 PROVE IsOption(new.opts[l + x], workers[x], server)
    <2>1. CASE x = n + 1
      BY <1>3, <1>6, <1>7, <2>1, Zenon DEF wc
    <2>2. CASE x \in 1 .. n /\ l + x \in 1 .. Len(mid.opts)
      BY <1>1, <1>6, <2>2, Zenon
    <2> QED
      BY <1>7, <2>1, <2>2, Zenon
  <1>10. BlockAdded(old, new, workers, n + 1, server)
    BY <1>1, <1>4, <1>5, <1>7, <1>8, <1>9, Zenon DEF BlockAdded, l
  <1> QED
    BY <1>10, Zenon DEF new, wc

\* f is what collectWorkers has collected after each worker
CollectRun(f, acc, workers, server, serverName) ==
    /\ f[0] = acc /\ \A n \in 1 .. Len(workers) : f[n] = collectWorker(f[n - 1], workers[n], server, serverName)
    /\ collectWorkers(acc, workers, server, serverName) = f[Len(workers)]

\* The loop of collectWorkers
LEMMA CollectRuns ==
    ASSUME NEW acc, NEW workers, IsList(workers), NEW server, NEW serverName
    PROVE  \E f : CollectRun(f, acc, workers, server, serverName)
  <1> DEFINE k == Len(workers)
             b == acc
             Step(e, i) == collectWorker(e, workers[i], server, serverName)
             Rec(f) == f = [i \in 0 .. k |-> IF i = 0 THEN b ELSE Step(f[i - 1], i)]
             F == CHOOSE f : Rec(f)
             Part(f, n) == f[0] = b /\ \A i \in 1 .. n : f[i] = Step(f[i - 1], i)
             N == {n \in Nat : \E f : Part(f, n)}
  <1>1. k \in Nat
    <2>1. PICK S : workers \in Seq(S)
      BY Zenon DEF IsList
    <2> QED
      BY <2>1, SMT
  <1>2. collectWorkers(acc, workers, server, serverName) = F[k]
    BY Zenon DEF collectWorkers
  <1> HIDE DEF Step, k, b
  <1>3. 0 \in N
    <2> DEFINE f == [i \in {0} |-> b]
    <2>1. f[0] = b /\ 1 .. 0 = {} /\ 0 \in Nat
      BY SMT
    <2>2. Part(f, 0)
      BY <2>1, Zenon
    <2> QED
      BY <2>1, <2>2, Zenon
  <1>4. ASSUME NEW n \in 0 .. k - 1, n \in N PROVE n + 1 \in N
    <2>1. PICK f : Part(f, n)
      BY <1>4, Zenon
    <2> DEFINE g == [x \in 0 .. n + 1 |-> IF x = n + 1 THEN Step(f[n], n + 1) ELSE f[x]]
    <2>2. /\ 0 \in 0 .. n + 1 /\ 0 # n + 1 /\ n + 1 \in Nat /\ n \in 0 .. n + 1 /\ n # n + 1 /\ (n + 1) - 1 = n
          /\ n + 1 \in 0 .. n + 1
          /\ \A i \in 1 .. n + 1 : i = n + 1 \/ (i \in 1 .. n /\ i # n + 1 /\ i \in 0 .. n + 1 /\ i - 1 \in 0 .. n + 1 /\ i - 1 # n + 1)
      BY <1>1, SMT
    <2>3. g[0] = f[0] /\ g[n] = f[n] /\ g[n + 1] = Step(f[n], n + 1) /\ \A i \in 1 .. n : i \in 1 .. n + 1
      BY <1>1, <2>2, SMT
    <2>4. ASSUME NEW i \in 1 .. n + 1 PROVE g[i] = Step(g[i - 1], i)
      <3>1. CASE i = n + 1
        BY <2>2, <2>3, <3>1, Zenon
      <3>2. CASE i \in 1 .. n /\ i # n + 1
        <4>1. g[i] = f[i] /\ g[i - 1] = f[i - 1]
          BY <2>2, <3>2, Zenon
        <4> HIDE DEF g
        <4> QED
          BY <2>1, <3>2, <4>1, Zenon
      <3> QED
        BY <2>2, <3>1, <3>2, Zenon
    <2> HIDE DEF g
    <2>5. Part(g, n + 1)
      BY <2>1, <2>3, <2>4, Zenon
    <2> QED
      BY <2>2, <2>5, Zenon
  <1>5. k \in N
    <2> HIDE DEF N
    <2>1. 0 .. k \subseteq N
      BY <1>1, <1>3, <1>4, UpToInduction, Zenon
    <2>2. k \in 0 .. k
      BY <1>1, SMT
    <2> QED
      BY <2>1, <2>2, Zenon
  <1>6. PICK f : Part(f, k)
    BY <1>5, Zenon
  <1>7. /\ 0 \in 0 .. k
        /\ \A n \in 0 .. k : n # 0 => n \in 1 .. k /\ n - 1 \in 0 .. k
        /\ \A n \in 1 .. k : n \in 0 .. k /\ n # 0
    BY <1>1, SMT
  <1>8. Rec(F)
    <2> DEFINE h == [i \in 0 .. k |-> f[i]]
    <2>1. \A n \in 0 .. k : h[n] = IF n = 0 THEN b ELSE Step(h[n - 1], n)
      BY <1>6, <1>7, Zenon
    <2>2. Rec(h)
      BY <2>1, Zenon
    <2> HIDE DEF Rec, h
    <2> QED
      BY <2>2, Zenon
  <1> HIDE DEF F
  <1>9. F[0] = b /\ \A n \in 1 .. k : F[n] = Step(F[n - 1], n)
    BY <1>7, <1>8, Zenon
  <1> QED
    BY <1>1, <1>2, <1>9, Zenon DEF Step, k, b, CollectRun

\* collectWorkers collects the whole block, one option for each worker, in order.
LEMMA BlockCollected ==
    ASSUME Numbers, NEW acc, IsAcc(acc), WellNamed(acc), NEW workers, IsList(workers),
           \A x \in 1 .. Len(workers) : IsList(workers[x].name), NEW server, NEW serverName
    PROVE  BlockAdded(acc, collectWorkers(acc, workers, server, serverName), workers, Len(workers), server)
  <1> DEFINE k == Len(workers)
  <1>1. k \in Nat
    <2>1. PICK S : workers \in Seq(S)
      BY Zenon DEF IsList
    <2> QED
      BY <2>1, SMT
  <1>2. PICK f : CollectRun(f, acc, workers, server, serverName)
    BY CollectRuns, Zenon
  <1> DEFINE G == {n \in Nat : BlockAdded(acc, f[n], workers, n, server)}
  <1>3. 0 \in G
    <2>1. IsList(acc.opts)
      BY Zenon DEF WellNamed
    <2>2. Len(acc.opts) \in Nat
      BY <2>1, ListAppended, Zenon
    <2>3. Len(acc.opts) = Len(acc.opts) + 0 /\ 1 .. 0 = {} /\ 0 \in Nat
      BY <2>2, SMT
    <2>4. f[0] = acc
      BY <1>2, Zenon DEF CollectRun
    <2>5. BlockAdded(acc, acc, workers, 0, server)
      BY <2>2, <2>3, Zenon DEF BlockAdded
    <2> QED
      BY <2>3, <2>4, <2>5, Zenon
  <1>4. ASSUME NEW n \in 0 .. k - 1, n \in G PROVE n + 1 \in G
    <2>1. n + 1 \in 1 .. k /\ n \in Nat /\ n + 1 \in Nat /\ (n + 1) - 1 = n
      BY <1>1, SMT
    <2>2. f[n + 1] = collectWorker(f[n], workers[n + 1], server, serverName)
      BY <1>2, <2>1, Zenon DEF CollectRun
    <2>3. BlockAdded(acc, collectWorker(f[n], workers[n + 1], server, serverName), workers, n + 1, server)
      BY <1>4, <2>1, BlockStep, Zenon
    <2> QED
      BY <2>1, <2>2, <2>3, Zenon
  <1>5. k \in G
    <2> HIDE DEF G, k
    <2>1. 0 .. k \subseteq G
      BY <1>1, <1>3, <1>4, UpToInduction, Zenon
    <2>2. k \in 0 .. k
      BY <1>1, SMT
    <2> QED
      BY <2>1, <2>2, Zenon
  <1> QED
    BY <1>2, <1>5, Zenon DEF CollectRun

\* The modules of a configuration
Modules(mods) ==
    /\ IsList(mods) /\ Len(mods) \in Nat /\ DOMAIN mods = 1 .. Len(mods)
    /\ \A i \in 1 .. Len(mods) : IsList(mods[i].workers) /\ mods[i].index \in Nat
    /\ \A i \in 1 .. Len(mods) : \A x \in 1 .. Len(mods[i].workers) : IsList(mods[i].workers[x].name)

\* The first module with the index of a module, and the server of the module
FirstOf(mods, i) == Min({j \in DOMAIN mods : mods[j].index = mods[i].index})
Home(mods, i) == IF mods[i].index # 0 THEN FirstOf(mods, i) ELSE i

\* The first module with an index is not after any other, and has that index.
LEMMA FirstIs ==
    ASSUME NEW mods, Modules(mods), NEW i \in 1 .. Len(mods)
    PROVE  /\ FirstOf(mods, i) \in 1 .. i /\ FirstOf(mods, i) \in 1 .. Len(mods)
           /\ mods[FirstOf(mods, i)].index = mods[i].index
  <1> DEFINE S == {j \in 1 .. Len(mods) : mods[j].index = mods[i].index}
             m == FirstOf(mods, i)
  <1>1. Len(mods) \in Nat /\ DOMAIN mods = 1 .. Len(mods)
    BY Zenon DEF Modules
  <1>2. S \in SUBSET Nat /\ S # {}
    <2>1. \A j \in 1 .. Len(mods) : j \in Nat
      BY <1>1, SMT
    <2> QED
      BY <2>1, Zenon
  <1>3. m = Min(S)
    BY <1>1, Zenon DEF FirstOf
  <1>4. i \in S
    BY Zenon
  <1> HIDE DEF S, m
  <1>5. m \in S /\ m <= i
    BY <1>2, <1>3, <1>4, LeastMember, Zenon
  <1>6. m \in 1 .. Len(mods) /\ mods[m].index = mods[i].index
    BY <1>5, Zenon DEF S
  <1>7. m \in 1 .. i
    BY <1>1, <1>5, <1>6, SMT
  <1> QED
    BY <1>6, <1>7, Zenon DEF m

\* Modules with the same index have the same first module.
LEMMA FirstSame ==
    ASSUME NEW mods, NEW i, NEW j, mods[i].index = mods[j].index
    PROVE  FirstOf(mods, i) = FirstOf(mods, j)
  BY Zenon DEF FirstOf

\* The home of a module is itself or an earlier module of the same index, and its own
\* home.
LEMMA HomeIs ==
    ASSUME NEW mods, Modules(mods), NEW i \in 1 .. Len(mods)
    PROVE  /\ Home(mods, i) \in 1 .. i /\ Home(mods, i) \in 1 .. Len(mods)
           /\ mods[Home(mods, i)].index = mods[i].index
           /\ Home(mods, Home(mods, i)) = Home(mods, i)
           /\ mods[i].index = 0 => Home(mods, i) = i
  <1>1. CASE mods[i].index = 0
    <2>1. Home(mods, i) = i
      BY <1>1, Zenon DEF Home
    <2>2. i \in 1 .. i
      BY SMT DEF Modules
    <2> QED
      BY <2>1, <2>2, Zenon
  <1>2. CASE mods[i].index # 0
    <2> DEFINE h == FirstOf(mods, i)
    <2>1. Home(mods, i) = h
      BY <1>2, Zenon DEF Home
    <2>2. h \in 1 .. i /\ h \in 1 .. Len(mods) /\ mods[h].index = mods[i].index
      BY FirstIs, Zenon
    <2> HIDE DEF h
    <2>3. FirstOf(mods, h) = FirstOf(mods, i)
      BY <2>2, FirstSame, Zenon
    <2>4. Home(mods, h) = h
      BY <1>2, <2>2, <2>3, Zenon DEF Home, h
    <2> QED
      BY <1>2, <2>1, <2>2, <2>4, Zenon
  <1> QED
    BY <1>1, <1>2, Zenon

\* Two modules share a server if and only if they were parsed with the same index.
LEMMA SameHome ==
    ASSUME NEW mods, Modules(mods), NEW i \in 1 .. Len(mods), NEW j \in 1 .. Len(mods)
    PROVE  Home(mods, i) = Home(mods, j) <=> i = j \/ (mods[i].index = mods[j].index /\ mods[i].index # 0)
  <1>1. ASSUME mods[i].index = mods[j].index, mods[i].index # 0 PROVE Home(mods, i) = Home(mods, j)
    <2>1. FirstOf(mods, i) = FirstOf(mods, j)
      BY <1>1, FirstSame, Zenon
    <2> QED
      BY <1>1, <2>1, Zenon DEF Home
  <1>2. ASSUME Home(mods, i) = Home(mods, j) PROVE i = j \/ (mods[i].index = mods[j].index /\ mods[i].index # 0)
    <2>1. mods[Home(mods, i)].index = mods[i].index /\ (mods[i].index = 0 => Home(mods, i) = i)
      BY HomeIs, Zenon
    <2>2. mods[Home(mods, j)].index = mods[j].index /\ (mods[j].index = 0 => Home(mods, j) = j)
      BY HomeIs, Zenon
    <2> QED
      BY <1>2, <2>1, <2>2, Zenon
  <1> QED
    BY <1>1, <1>2, Zenon

\* The options of server s are those of workers, one after the other.
InBlock(opts, s, workers, lo) ==
    /\ lo \in Nat /\ lo + Len(workers) <= Len(opts)
    /\ \A k \in 1 .. Len(opts) : opts[k].server = s <=> k \in lo + 1 .. lo + Len(workers)
    /\ \A x \in 1 .. Len(workers) : IsOption(opts[lo + x], workers[x], s)
Block(opts, s, workers) == \E lo : InBlock(opts, s, workers, lo)

\* The options of a block come after those of the servers before it.
LEMMA BlockAfter ==
    ASSUME NEW old, NEW new, NEW workers, IsList(workers), NEW server,
           BlockAdded(old, new, workers, Len(workers), server),
           \A k \in 1 .. Len(old.opts) : old.opts[k].server # server
    PROVE  Block(new.opts, server, workers)
  <1> DEFINE n == Len(workers)
             l == Len(old.opts)
             o == new.opts
  <1>1. /\ Len(o) = l + n /\ l \in Nat
        /\ \A k \in 1 .. l : o[k] = old.opts[k]
        /\ \A x \in 1 .. n : IsOption(o[l + x], workers[x], server)
    BY Zenon DEF BlockAdded
  <1>2. n \in Nat
    BY ListAppended, Zenon
  <1>3. \A k \in 1 .. l : o[k].server # server
    BY <1>1, Zenon
  <1>4. \A x \in 1 .. n : o[l + x].server = server
    BY <1>1, Zenon DEF IsOption
  <1> HIDE DEF n, l, o
  <1>5. /\ l + n <= Len(o) /\ \A k \in 1 .. Len(o) : k \in 1 .. l \/ k \in l + 1 .. l + n
        /\ \A k \in 1 .. l : ~ (k \in l + 1 .. l + n)
        /\ \A k \in l + 1 .. l + n : k - l \in 1 .. n /\ l + (k - l) = k
    <2>1. Len(o) = l + n /\ l \in Nat
      BY <1>1, Zenon
    <2> QED
      BY <1>2, <2>1, SMT
  <1>6. \A k \in l + 1 .. l + n : o[k].server = server
    BY <1>4, <1>5, Zenon
  <1>7. \A k \in 1 .. Len(o) : o[k].server = server <=> k \in l + 1 .. l + n
    BY <1>3, <1>5, <1>6, Zenon
  <1>8. InBlock(o, server, workers, l)
    BY <1>1, <1>5, <1>7, Zenon DEF InBlock, n
  <1> QED
    BY <1>8, Zenon DEF Block, o

\* What is there stays there when the block of another server is added.
LEMMA BlockStays ==
    ASSUME NEW old, NEW new, NEW workers, IsList(workers), NEW server, NEW s, s # server, NEW ws, IsList(ws),
           BlockAdded(old, new, workers, Len(workers), server), Block(old.opts, s, ws)
    PROVE  Block(new.opts, s, ws)
  <1> DEFINE n == Len(workers)
             l == Len(old.opts)
             o == new.opts
             m == Len(ws)
  <1>1. /\ Len(o) = l + n /\ l \in Nat
        /\ \A k \in 1 .. l : o[k] = old.opts[k]
        /\ \A x \in 1 .. n : IsOption(o[l + x], workers[x], server)
    BY Zenon DEF BlockAdded
  <1>2. n \in Nat /\ m \in Nat
    BY ListAppended, Zenon
  <1>3. PICK lo : InBlock(old.opts, s, ws, lo)
    BY Zenon DEF Block
  <1>4. /\ lo \in Nat /\ lo + m <= l
        /\ \A k \in 1 .. l : old.opts[k].server = s <=> k \in lo + 1 .. lo + m
        /\ \A x \in 1 .. m : IsOption(old.opts[lo + x], ws[x], s)
    BY <1>3, Zenon DEF InBlock
  <1>5. \A x \in 1 .. n : o[l + x].server # s
    BY <1>1, Zenon DEF IsOption
  <1> HIDE DEF n, l, o, m
  <1>6. /\ lo + m <= Len(o) /\ \A k \in 1 .. Len(o) : k \in 1 .. l \/ k \in l + 1 .. l + n
        /\ \A k \in l + 1 .. l + n : k - l \in 1 .. n /\ l + (k - l) = k /\ ~ (k \in lo + 1 .. lo + m)
        /\ \A x \in 1 .. m : lo + x \in 1 .. l
    <2>1. Len(o) = l + n /\ l \in Nat /\ lo \in Nat /\ lo + m <= l
      BY <1>1, <1>4, Zenon
    <2> QED
      BY <1>2, <2>1, SMT
  <1>7. \A k \in l + 1 .. l + n : o[k].server # s
    BY <1>5, <1>6, Zenon
  <1>8. ASSUME NEW k \in 1 .. Len(o) PROVE o[k].server = s <=> k \in lo + 1 .. lo + m
    <2>1. CASE k \in 1 .. l
      BY <1>1, <1>4, <2>1, Zenon
    <2>2. CASE k \in l + 1 .. l + n
      BY <1>6, <1>7, <2>2, Zenon
    <2> QED
      BY <1>6, <2>1, <2>2, Zenon
  <1>9. \A x \in 1 .. m : IsOption(o[lo + x], ws[x], s)
    BY <1>1, <1>4, <1>6, Zenon
  <1>10. InBlock(o, s, ws, lo)
    BY <1>4, <1>6, <1>8, <1>9, Zenon DEF InBlock, m
  <1> QED
    BY <1>10, Zenon DEF Block, o

\* The workers that a module has in its own name
Own(mods, i) == IF Home(mods, i) = i THEN mods[i].workers ELSE <<>>

\* What is collected after n modules
Collected(acc, n, mods, globals) ==
    /\ IsAcc(acc) /\ WellNamed(acc) /\ DOMAIN acc.server = 1 .. Len(mods)
    /\ \A k \in 1 .. Len(acc.opts) : acc.opts[k].server \in 0 .. n
    /\ Block(acc.opts, 0, globals)
    /\ \A i \in 1 .. n : acc.server[i] = Home(mods, i) /\ Block(acc.opts, i, Own(mods, i))

\* new is acc with v as the server of module i
ServerIs(new, acc, D, i, v) ==
    /\ IsAcc(new) /\ new.opts = acc.opts /\ new.used = acc.used /\ DOMAIN new.server = D
    /\ new.server[i] = v /\ \A j \in D : j # i => new.server[j] = acc.server[j]

\* Setting the server of a module changes nothing else.
LEMMA SetServer ==
    ASSUME NEW acc, IsAcc(acc), NEW D, DOMAIN acc.server = D, NEW i \in D, NEW v
    PROVE  ServerIs([acc EXCEPT !.server[i] = v], acc, D, i, v)
  <1> DEFINE new == [acc EXCEPT !.server[i] = v]
  <1>1. DOMAIN acc = {"used", "opts", "server"}
    BY Zenon DEF IsAcc
  <1>2. /\ DOMAIN new = {"used", "opts", "server"} /\ new.opts = acc.opts /\ new.used = acc.used
        /\ new.server = [acc.server EXCEPT ![i] = v]
    BY <1>1, SMT
  <1> HIDE DEF new
  <1>3. DOMAIN new.server = D /\ new.server[i] = v /\ \A j \in D : j # i => new.server[j] = acc.server[j]
    BY <1>2, SMT
  <1> QED
    BY <1>2, <1>3, Zenon DEF IsAcc, ServerIs, new

\* Whether names differ depends on the options and the names in use only.
LEMMA WellNamedSame ==
    ASSUME NEW acc, NEW new, WellNamed(acc), new.opts = acc.opts, new.used = acc.used
    PROVE  WellNamed(new)
  BY Zenon DEF WellNamed, Named

\* The empty list is a list, of length 0.
LEMMA EmptyList == IsList(<<>>) /\ Len(<<>>) = 0
  <1>1. <<>> \in Seq({}) /\ Len(<<>>) = 0
    BY SMT
  <1> QED
    BY <1>1, Zenon DEF IsList

\* The options after the workers of module i, if it has any in its own name
WithModule(mid, acc, i, n, mods, globals) ==
    /\ IsAcc(mid) /\ WellNamed(mid) /\ mid.server = acc.server
    /\ \A k \in 1 .. Len(mid.opts) : mid.opts[k].server \in 0 .. i
    /\ Block(mid.opts, 0, globals)
    /\ \A j \in 1 .. n : Block(mid.opts, j, Own(mods, j))
    /\ Block(mid.opts, i, Own(mods, i))

\* A module that shares the server of an earlier one adds no worker.
LEMMA SharedModule ==
    ASSUME NEW mods, Modules(mods), NEW globals, NEW n \in Nat, n + 1 \in 1 .. Len(mods), NEW acc, Collected(acc, n, mods, globals),
           Home(mods, n + 1) # n + 1
    PROVE  WithModule(acc, acc, n + 1, n, mods, globals)
  <1>1. /\ IsAcc(acc) /\ WellNamed(acc)
        /\ \A k \in 1 .. Len(acc.opts) : acc.opts[k].server \in 0 .. n
        /\ Block(acc.opts, 0, globals) /\ \A j \in 1 .. n : Block(acc.opts, j, Own(mods, j))
    BY Zenon DEF Collected
  <1>2. \A s \in 0 .. n : s \in 0 .. n + 1 /\ s # n + 1
    BY SMT
  <1>3. Own(mods, n + 1) = <<>>
    BY Zenon DEF Own
  <1> DEFINE o == acc.opts
  <1>4. Len(o) \in Nat
    BY <1>1, ListAppended, Zenon DEF WellNamed
  <1>5. \A k \in 1 .. Len(o) : o[k].server # n + 1
    BY <1>1, <1>2, Zenon
  <1>6. InBlock(o, n + 1, <<>>, 0)
    <2> DEFINE e == <<>>
    <2>1. Len(e) = 0
      BY EmptyList, Zenon
    <2> HIDE DEF e, o
    <2>2. 0 \in Nat /\ 0 + Len(e) <= Len(o) /\ 1 .. Len(e) = {} /\ (0 + 1) .. (0 + Len(e)) = {}
      BY <1>4, <2>1, SMT
    <2>3. InBlock(o, n + 1, e, 0)
      BY <1>5, <2>2, Zenon DEF InBlock
    <2> QED
      BY <2>3, Zenon DEF e
  <1>7. Block(o, n + 1, Own(mods, n + 1))
    BY <1>3, <1>6, Zenon DEF Block
  <1> QED
    BY <1>1, <1>2, <1>7, Zenon DEF WithModule

\* A module with a server of its own adds its workers.
LEMMA OwnModule ==
    ASSUME Numbers, NEW mods, Modules(mods), NEW globals, IsList(globals), NEW n \in Nat, n + 1 \in 1 .. Len(mods),
           NEW acc, Collected(acc, n, mods, globals), Home(mods, n + 1) = n + 1
    PROVE  WithModule(collectWorkers(acc, mods[n + 1].workers, n + 1, mods[n + 1].name), acc, n + 1, n, mods, globals)
  <1> DEFINE i == n + 1
             ws == mods[i].workers
             mid == collectWorkers(acc, ws, i, mods[i].name)
  <1>1. /\ IsAcc(acc) /\ WellNamed(acc) /\ IsList(acc.opts)
        /\ \A k \in 1 .. Len(acc.opts) : acc.opts[k].server \in 0 .. n
        /\ Block(acc.opts, 0, globals) /\ \A j \in 1 .. n : Block(acc.opts, j, Own(mods, j))
    BY Zenon DEF Collected, WellNamed
  <1>2. IsList(ws) /\ \A x \in 1 .. Len(ws) : IsList(ws[x].name)
    BY Zenon DEF Modules
  <1>3. BlockAdded(acc, mid, ws, Len(ws), i)
    <2> DEFINE nm == mods[i].name
    <2> HIDE DEF ws, nm, i
    <2>1. BlockAdded(acc, collectWorkers(acc, ws, i, nm), ws, Len(ws), i)
      BY <1>1, <1>2, BlockCollected, Zenon
    <2> QED
      BY <2>1, Zenon DEF nm
  <1>4. Own(mods, i) = ws
    BY Zenon DEF Own
  <1>5. \A s \in 0 .. n : s \in 0 .. i /\ s # i
    BY SMT
  <1>6. i \in 0 .. i /\ 0 \in 0 .. n /\ \A j \in 1 .. n : j \in 0 .. n /\ j \in 1 .. Len(mods)
    <2>1. Len(mods) \in Nat
      BY Zenon DEF Modules
    <2> QED
      BY <2>1, SMT
  <1> HIDE DEF mid, ws, i
  <1>7. /\ IsAcc(mid) /\ WellNamed(mid) /\ mid.server = acc.server
        /\ Len(mid.opts) = Len(acc.opts) + Len(ws) /\ Len(acc.opts) \in Nat
        /\ \A k \in 1 .. Len(acc.opts) : mid.opts[k] = acc.opts[k]
        /\ \A x \in 1 .. Len(ws) : IsOption(mid.opts[Len(acc.opts) + x], ws[x], i)
    BY <1>3, Zenon DEF BlockAdded
  <1>8. Len(ws) \in Nat
    BY <1>2, ListAppended, Zenon
  <1>9. ASSUME NEW k \in 1 .. Len(mid.opts) PROVE mid.opts[k].server \in 0 .. i
    <2> DEFINE l == Len(acc.opts)
               m == Len(ws)
    <2>1. k \in 1 .. l \/ (k - l \in 1 .. m /\ l + (k - l) = k)
      <3> HIDE DEF l, m
      <3>1. Len(mid.opts) = l + m /\ l \in Nat /\ m \in Nat
        BY <1>7, <1>8, Zenon DEF l, m
      <3> QED
        BY <3>1, SMT
    <2>2. CASE k \in 1 .. l
      BY <1>1, <1>5, <1>7, <2>2, Zenon
    <2>3. CASE k - l \in 1 .. m /\ l + (k - l) = k
      <3>1. IsOption(mid.opts[k], ws[k - l], i)
        BY <1>7, <2>3, Zenon
      <3> QED
        BY <1>6, <3>1, Zenon DEF IsOption
    <2> QED
      BY <2>1, <2>2, <2>3, Zenon
  <1>10. \A k \in 1 .. Len(acc.opts) : acc.opts[k].server # i
    BY <1>1, <1>5, Zenon
  <1>11. Block(mid.opts, i, Own(mods, i))
    BY <1>2, <1>3, <1>4, <1>10, BlockAfter, Zenon
  <1>12. Block(mid.opts, 0, globals)
    BY <1>1, <1>2, <1>3, <1>5, <1>6, BlockStays, Zenon
  <1>13. ASSUME NEW j \in 1 .. n PROVE Block(mid.opts, j, Own(mods, j))
    <2>1. IsList(Own(mods, j))
      BY <1>6, EmptyList, Zenon DEF Own, Modules
    <2>2. j # i /\ Block(acc.opts, j, Own(mods, j))
      BY <1>1, <1>5, <1>6, Zenon
    <2> QED
      BY <1>2, <1>3, <2>1, <2>2, BlockStays, Zenon
  <1> QED
    BY <1>7, <1>9, <1>11, <1>12, <1>13, Zenon DEF WithModule, mid, ws, i

\* A module that was collected and given its server leaves all modules so far collected.
LEMMA ServerSet ==
    ASSUME NEW mods, Modules(mods), NEW globals, NEW n \in Nat, n + 1 \in 1 .. Len(mods), NEW acc, Collected(acc, n, mods, globals),
           NEW mid, WithModule(mid, acc, n + 1, n, mods, globals)
    PROVE  Collected([mid EXCEPT !.server[n + 1] = Home(mods, n + 1)], n + 1, mods, globals)
  <1> DEFINE i == n + 1
             D == 1 .. Len(mods)
             h == Home(mods, i)
             new == [mid EXCEPT !.server[i] = h]
  <1>1. DOMAIN acc.server = D /\ \A j \in 1 .. n : acc.server[j] = Home(mods, j)
    BY Zenon DEF Collected
  <1>2. /\ IsAcc(mid) /\ WellNamed(mid) /\ mid.server = acc.server
        /\ \A k \in 1 .. Len(mid.opts) : mid.opts[k].server \in 0 .. i
        /\ Block(mid.opts, 0, globals)
        /\ \A j \in 1 .. n : Block(mid.opts, j, Own(mods, j))
        /\ Block(mid.opts, i, Own(mods, i))
    BY Zenon DEF WithModule
  <1>3. \A j \in 1 .. i : j = i \/ (j \in 1 .. n /\ j # i /\ j \in D)
    <2>1. Len(mods) \in Nat
      BY Zenon DEF Modules
    <2> QED
      BY <2>1, SMT
  <1>4. i \in D /\ DOMAIN mid.server = D
    BY <1>1, <1>2, Zenon
  <1> HIDE DEF i, D, h
  <1>5. /\ IsAcc(new) /\ new.opts = mid.opts /\ new.used = mid.used /\ DOMAIN new.server = D
        /\ new.server[i] = h /\ \A j \in D : j # i => new.server[j] = mid.server[j]
    <2>1. ServerIs(new, mid, D, i, h)
      BY <1>2, <1>4, SetServer, Zenon
    <2> HIDE DEF new
    <2> QED
      BY <2>1, Zenon DEF ServerIs
  <1> HIDE DEF new
  <1>6. WellNamed(new)
    BY <1>2, <1>5, WellNamedSame, Zenon
  <1>7. \A j \in 1 .. i : new.server[j] = Home(mods, j)
    BY <1>1, <1>2, <1>3, <1>5, Zenon DEF h
  <1>8. \A j \in 1 .. i : Block(new.opts, j, Own(mods, j))
    BY <1>2, <1>3, <1>5, Zenon
  <1>9. Block(new.opts, 0, globals) /\ \A k \in 1 .. Len(new.opts) : new.opts[k].server \in 0 .. i
    BY <1>2, <1>5, Zenon
  <1>10. Collected(new, i, mods, globals)
    BY <1>5, <1>6, <1>7, <1>8, <1>9, Zenon DEF Collected, D
  <1> QED
    BY <1>10, Zenon DEF new, i, h

\* collectServer collects one more module: its workers once, or its server if another
\* module of the directive had them collected.
LEMMA CollectedStep ==
    ASSUME Numbers, NEW mods, Modules(mods), NEW globals, IsList(globals), NEW n \in Nat, n + 1 \in 1 .. Len(mods),
           NEW acc, Collected(acc, n, mods, globals)
    PROVE  Collected(collectServer(acc, n + 1, mods), n + 1, mods, globals)
  <1> DEFINE i == n + 1
             ws == collectWorkers(acc, mods[i].workers, i, mods[i].name)
             first == FirstOf(mods, i)
  <1>1. first \in 1 .. i /\ Home(mods, i) = IF mods[i].index # 0 THEN first ELSE i
    BY FirstIs, Zenon DEF Home
  <1>2. collectServer(acc, i, mods) =
          IF mods[i].index # 0 /\ first < i THEN [acc EXCEPT !.server[i] = first]
          ELSE [ws EXCEPT !.server[i] = i]
    BY Zenon DEF collectServer, collectModule, FirstOf
  <1>3. i \in Nat
    BY SMT
  <1>4. CASE Home(mods, i) # i
    <2>1. mods[i].index # 0 /\ Home(mods, i) = first /\ first # i
      BY <1>1, <1>4, Zenon
    <2>2. first < i
      <3> HIDE DEF first, i
      <3> QED
        BY <1>1, <1>3, <2>1, SMT
    <2>3. collectServer(acc, i, mods) = [acc EXCEPT !.server[i] = Home(mods, i)]
      BY <1>2, <2>1, <2>2, Zenon
    <2>4. WithModule(acc, acc, i, n, mods, globals)
      BY <1>4, SharedModule, Zenon
    <2>5. Collected([acc EXCEPT !.server[i] = Home(mods, i)], i, mods, globals)
      BY <2>4, ServerSet, Zenon
    <2> QED
      BY <2>3, <2>5, Zenon
  <1>5. CASE Home(mods, i) = i
    <2>1. mods[i].index = 0 \/ first = i
      BY <1>1, <1>5, Zenon
    <2>2. ~ (i < i)
      <3> HIDE DEF i
      <3> QED
        BY <1>3, SMT
    <2>3. collectServer(acc, i, mods) = [ws EXCEPT !.server[i] = Home(mods, i)]
      BY <1>2, <1>5, <2>1, <2>2, Zenon
    <2>4. WithModule(ws, acc, i, n, mods, globals)
      BY <1>5, OwnModule, Zenon
    <2>5. Collected([ws EXCEPT !.server[i] = Home(mods, i)], i, mods, globals)
      <3> HIDE DEF ws
      <3> QED
        BY <2>4, ServerSet, Zenon
    <2> QED
      BY <2>3, <2>5, Zenon
  <1> QED
    BY <1>4, <1>5, Zenon

\* f is what collectModuleOptions has collected after each module
ModulesRun(f, acc, mods) ==
    /\ f[0] = acc /\ \A n \in 1 .. Len(mods) : f[n] = collectServer(f[n - 1], n, mods)
    /\ collectModuleOptions(acc, mods) = f[Len(mods)]

\* The loop of collectModuleOptions
LEMMA ModuleRuns ==
    ASSUME NEW acc, NEW mods, IsList(mods)
    PROVE  \E f : ModulesRun(f, acc, mods)
  <1> DEFINE k == Len(mods)
             b == acc
             Step(e, i) == collectServer(e, i, mods)
             Rec(f) == f = [i \in 0 .. k |-> IF i = 0 THEN b ELSE Step(f[i - 1], i)]
             F == CHOOSE f : Rec(f)
             Part(f, n) == f[0] = b /\ \A i \in 1 .. n : f[i] = Step(f[i - 1], i)
             N == {n \in Nat : \E f : Part(f, n)}
  <1>1. k \in Nat
    BY ListAppended, Zenon
  <1>2. collectModuleOptions(acc, mods) = F[k]
    BY Zenon DEF collectModuleOptions
  <1> HIDE DEF Step, k, b
  <1>3. 0 \in N
    <2> DEFINE f == [i \in {0} |-> b]
    <2>1. f[0] = b /\ 1 .. 0 = {} /\ 0 \in Nat
      BY SMT
    <2>2. Part(f, 0)
      BY <2>1, Zenon
    <2> QED
      BY <2>1, <2>2, Zenon
  <1>4. ASSUME NEW n \in 0 .. k - 1, n \in N PROVE n + 1 \in N
    <2>1. PICK f : Part(f, n)
      BY <1>4, Zenon
    <2> DEFINE g == [x \in 0 .. n + 1 |-> IF x = n + 1 THEN Step(f[n], n + 1) ELSE f[x]]
    <2>2. /\ 0 \in 0 .. n + 1 /\ 0 # n + 1 /\ n + 1 \in Nat /\ n \in 0 .. n + 1 /\ n # n + 1 /\ (n + 1) - 1 = n
          /\ n + 1 \in 0 .. n + 1
          /\ \A i \in 1 .. n + 1 : i = n + 1 \/ (i \in 1 .. n /\ i # n + 1 /\ i \in 0 .. n + 1 /\ i - 1 \in 0 .. n + 1 /\ i - 1 # n + 1)
      BY <1>1, SMT
    <2>3. g[0] = f[0] /\ g[n] = f[n] /\ g[n + 1] = Step(f[n], n + 1) /\ \A i \in 1 .. n : i \in 1 .. n + 1
      BY <1>1, <2>2, SMT
    <2>4. ASSUME NEW i \in 1 .. n + 1 PROVE g[i] = Step(g[i - 1], i)
      <3>1. CASE i = n + 1
        BY <2>2, <2>3, <3>1, Zenon
      <3>2. CASE i \in 1 .. n /\ i # n + 1
        <4>1. g[i] = f[i] /\ g[i - 1] = f[i - 1]
          BY <2>2, <3>2, Zenon
        <4> HIDE DEF g
        <4> QED
          BY <2>1, <3>2, <4>1, Zenon
      <3> QED
        BY <2>2, <3>1, <3>2, Zenon
    <2> HIDE DEF g
    <2>5. Part(g, n + 1)
      BY <2>1, <2>3, <2>4, Zenon
    <2> QED
      BY <2>2, <2>5, Zenon
  <1>5. k \in N
    <2> HIDE DEF N
    <2>1. 0 .. k \subseteq N
      BY <1>1, <1>3, <1>4, UpToInduction, Zenon
    <2>2. k \in 0 .. k
      BY <1>1, SMT
    <2> QED
      BY <2>1, <2>2, Zenon
  <1>6. PICK f : Part(f, k)
    BY <1>5, Zenon
  <1>7. /\ 0 \in 0 .. k
        /\ \A n \in 0 .. k : n # 0 => n \in 1 .. k /\ n - 1 \in 0 .. k
        /\ \A n \in 1 .. k : n \in 0 .. k /\ n # 0
    BY <1>1, SMT
  <1>8. Rec(F)
    <2> DEFINE h == [i \in 0 .. k |-> f[i]]
    <2>1. \A n \in 0 .. k : h[n] = IF n = 0 THEN b ELSE Step(h[n - 1], n)
      BY <1>6, <1>7, Zenon
    <2>2. Rec(h)
      BY <2>1, Zenon
    <2> HIDE DEF Rec, h
    <2> QED
      BY <2>2, Zenon
  <1> HIDE DEF F
  <1>9. F[0] = b /\ \A n \in 1 .. k : F[n] = Step(F[n - 1], n)
    BY <1>7, <1>8, Zenon
  <1> QED
    BY <1>1, <1>2, <1>9, Zenon DEF Step, k, b, ModulesRun

\* collectModuleOptions collects every module.
LEMMA ModulesCollected ==
    ASSUME Numbers, NEW mods, Modules(mods), NEW globals, IsList(globals), NEW acc, Collected(acc, 0, mods, globals)
    PROVE  Collected(collectModuleOptions(acc, mods), Len(mods), mods, globals)
  <1> DEFINE k == Len(mods)
  <1>1. k \in Nat /\ IsList(mods)
    BY Zenon DEF Modules
  <1>2. PICK f : ModulesRun(f, acc, mods)
    BY <1>1, ModuleRuns, Zenon
  <1> DEFINE G == {n \in Nat : Collected(f[n], n, mods, globals)}
  <1>3. 0 \in G
    <2>1. 0 \in Nat
      BY SMT
    <2> QED
      BY <1>2, <2>1, Zenon DEF ModulesRun
  <1>4. ASSUME NEW n \in 0 .. k - 1, n \in G PROVE n + 1 \in G
    <2>1. n + 1 \in 1 .. k /\ n \in Nat /\ n + 1 \in Nat /\ (n + 1) - 1 = n
      BY <1>1, SMT
    <2>2. f[n + 1] = collectServer(f[n], n + 1, mods)
      BY <1>2, <2>1, Zenon DEF ModulesRun
    <2>3. Collected(collectServer(f[n], n + 1, mods), n + 1, mods, globals)
      BY <1>4, <2>1, CollectedStep, Zenon
    <2> QED
      BY <2>1, <2>2, <2>3, Zenon
  <1>5. k \in G
    <2> HIDE DEF G, k
    <2>1. 0 .. k \subseteq G
      BY <1>1, <1>3, <1>4, UpToInduction, Zenon
    <2>2. k \in 0 .. k
      BY <1>1, SMT
    <2> QED
      BY <2>1, <2>2, Zenon
  <1> QED
    BY <1>2, <1>5, Zenon DEF ModulesRun

\* The modules as Provision leaves them
Provisioned(config) == [i \in DOMAIN config.modules |-> Provision(config.modules[i])]

\* collectOptions collects the global workers and every module.
LEMMA OptionsCollected ==
    ASSUME Numbers, NEW config, IsList(config.workers), \A x \in 1 .. Len(config.workers) : IsList(config.workers[x].name),
           Modules(Provisioned(config)), DOMAIN config.modules = 1 .. Len(Provisioned(config))
    PROVE  Collected(collectOptions(config), Len(Provisioned(config)), Provisioned(config), config.workers)
  <1> DEFINE none == [used |-> {}, opts |-> <<>>, server |-> [i \in DOMAIN config.modules |-> NoServer]]
             ws == config.workers
             mods == Provisioned(config)
             empty == ""
             acc == collectWorkers(none, ws, NoServer, empty)
  <1>1. collectOptions(config) = collectModuleOptions(acc, mods)
    BY Zenon DEF collectOptions, Provisioned
  <1>2. none.used = {} /\ none.opts = <<>> /\ DOMAIN none.server = 1 .. Len(mods) /\ IsAcc(none)
    <2>1. none.used = {} /\ none.opts = <<>> /\ DOMAIN none.server = DOMAIN config.modules
      BY Zenon
    <2>2. DOMAIN none = {"used", "opts", "server"}
      BY SMT
    <2> QED
      BY <2>1, <2>2, Zenon DEF IsAcc
  <1> HIDE DEF none, empty
  <1>3. WellNamed(none)
    <2>1. IsList(none.opts) /\ Len(none.opts) = 0
      BY <1>2, EmptyList, Zenon
    <2>2. IsFiniteSet(none.used) /\ Cardinality(none.used) = 0
      BY <1>2, FS_EmptySet, Zenon
    <2>3. Cardinality(none.used) <= Len(none.opts) /\ 1 .. Len(none.opts) = {}
      BY <2>1, <2>2, SMT
    <2> QED
      BY <2>1, <2>2, <2>3, Zenon DEF WellNamed, Named
  <1>4. BlockAdded(none, acc, ws, Len(ws), NoServer)
    BY <1>2, <1>3, BlockCollected, Zenon
  <1> HIDE DEF acc
  <1>5. Len(none.opts) = 0 /\ 1 .. 0 = {} /\ 0 \in 0 .. 0
    <2>1. Len(none.opts) = 0
      BY <1>2, EmptyList, Zenon
    <2> QED
      BY <2>1, SMT
  <1>6. Block(acc.opts, NoServer, ws)
    <2>1. \A k \in 1 .. Len(none.opts) : none.opts[k].server # NoServer
      BY <1>5, Zenon
    <2> QED
      BY <1>4, <2>1, BlockAfter, Zenon
  <1>7. Collected(acc, 0, mods, ws)
    <2>1. /\ IsAcc(acc) /\ WellNamed(acc) /\ acc.server = none.server
          /\ Len(acc.opts) = 0 + Len(ws)
          /\ \A x \in 1 .. Len(ws) : IsOption(acc.opts[0 + x], ws[x], NoServer)
      BY <1>4, <1>5, Zenon DEF BlockAdded
    <2>2. Len(ws) \in Nat
      BY ListAppended, Zenon
    <2>3. Len(acc.opts) = Len(ws) /\ \A x \in 1 .. Len(ws) : 0 + x = x
      <3>1. Len(acc.opts) = 0 + Len(ws)
        BY <2>1, Zenon
      <3> QED
        BY <2>2, <3>1, SMT
    <2>4. ASSUME NEW k \in 1 .. Len(acc.opts) PROVE acc.opts[k].server \in 0 .. 0
      <3>1. k \in 1 .. Len(ws) /\ 0 + k = k
        BY <2>3, Zenon
      <3>2. IsOption(acc.opts[k], ws[k], NoServer)
        <4>1. IsOption(acc.opts[0 + k], ws[k], NoServer)
          BY <2>1, <3>1, Zenon
        <4> QED
          BY <3>1, <4>1, Zenon
      <3> QED
        BY <1>5, <3>2, Zenon DEF IsOption, NoServer
    <2> QED
      BY <1>2, <1>5, <1>6, <2>1, <2>4, Zenon DEF Collected, NoServer
  <1> HIDE DEF mods, ws
  <1>8. IsList(ws) /\ Modules(mods)
    BY Zenon DEF ws, mods
  <1>9. Collected(collectModuleOptions(acc, mods), Len(mods), mods, ws)
    BY <1>7, <1>8, ModulesCollected, Zenon
  <1> QED
    BY <1>1, <1>9, Zenon DEF mods, ws

\* The workers of a Caddyfile: their names are sequences of tokens.
ConfigWorker(Token) == [name : Seq(Token), file : Path, match : BOOLEAN]
ConfigModule(Token) == [index : Nat, name : STRING, workers : Seq(ConfigWorker(Token)), resolveRoot : BOOLEAN]
IsCaddyfile(config, Token) ==
    /\ config.workers \in Seq(ConfigWorker(Token))
    /\ config.modules \in Seq(ConfigModule(Token))

\* The modules that a php_server directive adds with its index are copies.
OneDirective(config) ==
    \A i, j \in DOMAIN config.modules :
        config.modules[i].index = config.modules[j].index /\ config.modules[i].index # 0
          => config.modules[i].workers = config.modules[j].workers

\* What Provision makes of the file of a worker
ProvisionedFile(f, m) == IF ~m.resolveRoot THEN f ELSE IF f \in OnDisk THEN Resolve[f] ELSE ""
ProvisionOf(p, m) ==
    /\ p.index = m.index /\ p.name = m.name /\ IsList(p.workers) /\ Len(p.workers) = Len(m.workers)
    /\ \A x \in 1 .. Len(m.workers) :
          /\ p.workers[x].name = m.workers[x].name /\ p.workers[x].match = m.workers[x].match
          /\ p.workers[x].file = ProvisionedFile(m.workers[x].file, m)

\* Provision changes the files of a module and nothing else.
LEMMA ProvisionIs ==
    ASSUME NEW Token, NEW m \in ConfigModule(Token)
    PROVE  ProvisionOf(Provision(m), m)
  <1> DEFINE F(f) == ProvisionedFile(f, m)
             ws == m.workers
             q == [i \in DOMAIN ws |-> [ws[i] EXCEPT !.file = F(ws[i].file)]]
             p == Provision(m)
             W == ConfigWorker(Token)
  <1>1. p = [m EXCEPT !.workers = q]
    BY Zenon DEF Provision, ProvisionedFile
  <1>2. ws \in Seq(W)
    BY Zenon DEF ConfigModule
  <1>3. DOMAIN m = {"index", "name", "workers", "resolveRoot"}
    BY SMT DEF ConfigModule
  <1>4. Len(ws) \in Nat /\ DOMAIN ws = 1 .. Len(ws) /\ \A x \in 1 .. Len(ws) : ws[x] \in W
    <2> HIDE DEF ws, W
    <2> QED
      BY <1>2, SMT
  <1> HIDE DEF q, p, ws, F
  <1>5. p.index = m.index /\ p.name = m.name /\ p.workers = q
    BY <1>1, <1>3, SMT
  <1>6. ASSUME NEW x \in 1 .. Len(ws)
        PROVE  q[x].name = ws[x].name /\ q[x].match = ws[x].match /\ q[x].file = F(ws[x].file)
    <2>1. q[x] = [ws[x] EXCEPT !.file = F(ws[x].file)]
      BY <1>4, Zenon DEF q
    <2> DEFINE v == F(ws[x].file)
               w == ws[x]
    <2>2. DOMAIN w = {"name", "file", "match"}
      BY <1>4, SMT DEF ConfigWorker
    <2> HIDE DEF v, w
    <2>3. q[x] = [w EXCEPT !.file = v]
      BY <2>1, Zenon DEF v, w
    <2>4. q[x].name = w.name /\ q[x].match = w.match /\ q[x].file = v
      BY <2>2, <2>3, SMT
    <2> QED
      BY <2>4, Zenon DEF v, w
  <1>7. IsList(q) /\ Len(q) = Len(ws)
    <2> DEFINE S == {q[x] : x \in 1 .. Len(ws)}
    <2>1. DOMAIN q = 1 .. Len(ws) /\ q = [x \in 1 .. Len(ws) |-> q[x]]
      BY <1>4, Zenon DEF q
    <2>2. q \in [1 .. Len(ws) -> S]
      BY <2>1, Zenon
    <2> HIDE DEF S
    <2>3. q \in Seq(S) /\ Len(q) = Len(ws)
      BY <1>4, <2>2, SMT
    <2> QED
      BY <2>3, Zenon DEF IsList
  <1> QED
    BY <1>5, <1>6, <1>7, Zenon DEF ProvisionOf, p, ws, F

\* Every module is provisioned.
LEMMA ProvisionedModules ==
    ASSUME NEW config, NEW Token, IsCaddyfile(config, Token)
    PROVE  /\ Modules(Provisioned(config)) /\ DOMAIN config.modules = 1 .. Len(Provisioned(config))
           /\ Len(Provisioned(config)) = Len(config.modules)
           /\ \A i \in 1 .. Len(config.modules) : ProvisionOf(Provisioned(config)[i], config.modules[i])
  <1> DEFINE ms == config.modules
             M == ConfigModule(Token)
             mods == Provisioned(config)
             n == Len(ms)
  <1>1. ms \in Seq(M)
    BY Zenon DEF IsCaddyfile
  <1>2. n \in Nat /\ DOMAIN ms = 1 .. n /\ \A i \in 1 .. n : ms[i] \in M
    <2> HIDE DEF ms, M
    <2> QED
      BY <1>1, SMT
  <1>3. \A i \in 1 .. n : mods[i] = Provision(ms[i])
    BY <1>2, Zenon DEF Provisioned
  <1>4. \A i \in 1 .. n : ProvisionOf(mods[i], ms[i])
    BY <1>2, <1>3, ProvisionIs, Zenon
  <1>5. IsList(mods) /\ Len(mods) = n /\ DOMAIN mods = 1 .. n
    <2> DEFINE S == {mods[x] : x \in 1 .. n}
    <2>1. DOMAIN mods = 1 .. n /\ mods = [x \in 1 .. n |-> mods[x]]
      BY <1>2, Zenon DEF Provisioned
    <2>2. mods \in [1 .. n -> S]
      BY <2>1, Zenon
    <2> HIDE DEF S, mods, n
    <2>3. mods \in Seq(S) /\ Len(mods) = n
      BY <1>2, <2>2, SMT
    <2> QED
      BY <2>1, <2>3, Zenon DEF IsList
  <1>6. ASSUME NEW i \in 1 .. n
        PROVE  /\ IsList(mods[i].workers) /\ mods[i].index \in Nat
               /\ \A x \in 1 .. Len(mods[i].workers) : IsList(mods[i].workers[x].name)
    <2> DEFINE m == ms[i]
               ws == m.workers
    <2>1. ws \in Seq(ConfigWorker(Token)) /\ m.index \in Nat
      BY <1>2, Zenon DEF ConfigModule
    <2>2. \A x \in 1 .. Len(ws) : ws[x] \in ConfigWorker(Token)
      <3> HIDE DEF ws
      <3> QED
        BY <2>1, SMT
    <2>3. \A x \in 1 .. Len(ws) : IsList(ws[x].name)
      BY <2>2, Zenon DEF ConfigWorker, IsList
    <2>4. ProvisionOf(mods[i], m)
      BY <1>4, Zenon
    <2> QED
      BY <2>1, <2>3, <2>4, Zenon DEF ProvisionOf
  <1> QED
    BY <1>2, <1>4, <1>5, <1>6, Zenon DEF Modules

\* The options of a server are as many as its block has workers.
LEMMA BlockCounted ==
    ASSUME NEW opts, IsList(opts), NEW s, NEW workers, IsList(workers), Block(opts, s, workers)
    PROVE  Cardinality({k \in DOMAIN opts : opts[k].server = s}) = Len(workers)
  <1> DEFINE m == Len(workers)
             n == Len(opts)
             T == {k \in DOMAIN opts : opts[k].server = s}
  <1>1. m \in Nat /\ n \in Nat
    BY ListAppended, Zenon
  <1>2. PICK lo : InBlock(opts, s, workers, lo)
    BY Zenon DEF Block
  <1>3. lo \in Nat /\ lo + m <= n /\ \A k \in 1 .. n : opts[k].server = s <=> k \in lo + 1 .. lo + m
    BY <1>2, Zenon DEF InBlock
  <1>4. DOMAIN opts = 1 .. n
    <2>1. PICK S : opts \in Seq(S)
      BY Zenon DEF IsList
    <2> QED
      BY <2>1, SMT
  <1>5. \A k \in lo + 1 .. lo + m : k \in 1 .. n
    <2>1. lo \in Nat /\ lo + m <= n
      BY <1>3, Zenon
    <2> HIDE DEF m, n
    <2> QED
      BY <1>1, <2>1, SMT
  <1>6. T = lo + 1 .. lo + m
    BY <1>3, <1>4, <1>5, Zenon
  <1> HIDE DEF T, m
  <1>7. lo + 1 \in Int /\ lo + m \in Int /\ (lo + m) - (lo + 1) + 1 = m /\ (lo + 1 > lo + m => m = 0)
    BY <1>1, <1>3, SMT
  <1> DEFINE a == lo + 1
             b == lo + m
  <1>8. a \in Int /\ b \in Int /\ b - a + 1 = m /\ (a > b => m = 0) /\ T = a .. b
    BY <1>6, <1>7, Zenon
  <1> HIDE DEF a, b
  <1>9. Cardinality(a .. b) = IF a > b THEN 0 ELSE b - a + 1
    BY <1>8, FS_Interval, Zenon
  <1>10. Cardinality(T) = m
    BY <1>8, <1>9, Zenon
  <1> QED
    BY <1>10, Zenon DEF T, m

\* The handlers of a php_server directive share its server and no other: what is said
\* of collectModuleOptions (caddy/app.go), for every Caddyfile.
THEOREM DirectivesShareServers ==
    ASSUME Numbers, NEW config, NEW Token, IsCaddyfile(config, Token), OneDirective(config)
    PROVE  ServersShared(config)
  <1> DEFINE mods == Provisioned(config)
             ms == config.modules
             N == Len(mods)
             c == collectOptions(config)
  <1>1. /\ Modules(mods) /\ DOMAIN ms = 1 .. N
        /\ \A i \in 1 .. N : ProvisionOf(mods[i], ms[i])
    BY ProvisionedModules, Zenon
  <1>2. IsList(config.workers) /\ \A x \in 1 .. Len(config.workers) : IsList(config.workers[x].name)
    <2> DEFINE ws == config.workers
    <2>1. ws \in Seq(ConfigWorker(Token))
      BY Zenon DEF IsCaddyfile
    <2>2. \A x \in 1 .. Len(ws) : ws[x] \in ConfigWorker(Token)
      <3> HIDE DEF ws
      <3> QED
        BY <2>1, SMT
    <2> QED
      BY <2>1, <2>2, Zenon DEF ConfigWorker, IsList
  <1>3. Collected(c, N, mods, config.workers)
    BY <1>1, <1>2, OptionsCollected, Zenon
  <1>4. IsList(c.opts) /\ \A i \in 1 .. N : c.server[i] = Home(mods, i) /\ Block(c.opts, i, Own(mods, i))
    BY <1>3, Zenon DEF Collected, WellNamed
  <1> HIDE DEF c, mods
  <1>5. \A i \in 1 .. N : mods[i].index = ms[i].index /\ Len(mods[i].workers) = Len(ms[i].workers)
    BY <1>1, Zenon DEF ProvisionOf
  <1>6. ASSUME NEW i \in 1 .. N, NEW j \in 1 .. N
        PROVE  c.server[i] = c.server[j] <=> i = j \/ (ms[i].index = ms[j].index /\ ms[i].index # 0)
    <2>1. Home(mods, i) = Home(mods, j) <=> i = j \/ (mods[i].index = mods[j].index /\ mods[i].index # 0)
      BY <1>1, SameHome, Zenon
    <2> QED
      BY <1>4, <1>5, <2>1, Zenon
  <1>7. ASSUME NEW i \in 1 .. N
        PROVE  Cardinality({k \in DOMAIN c.opts : c.opts[k].server = c.server[i]}) = Len(ms[i].workers)
    <2> DEFINE h == Home(mods, i)
               o == c.opts
    <2>1. /\ h \in 1 .. N /\ mods[h].index = mods[i].index /\ Home(mods, h) = h
          /\ mods[i].index = 0 => h = i
      BY <1>1, HomeIs, Zenon
    <2> HIDE DEF h
    <2>2. Own(mods, h) = mods[h].workers /\ c.server[i] = h
      BY <1>4, <2>1, Zenon DEF Own, h
    <2>3. Block(o, h, mods[h].workers) /\ IsList(mods[h].workers)
      BY <1>1, <1>4, <2>1, <2>2, Zenon DEF Modules
    <2>4. Cardinality({k \in DOMAIN o : o[k].server = h}) = Len(mods[h].workers)
      <3> DEFINE ws == mods[h].workers
      <3> HIDE DEF ws, o
      <3>1. Block(o, h, ws) /\ IsList(ws) /\ IsList(o)
        BY <1>4, <2>3, Zenon DEF ws, o
      <3>2. Cardinality({k \in DOMAIN o : o[k].server = h}) = Len(ws)
        BY <3>1, BlockCounted, Zenon
      <3> QED
        BY <3>2, Zenon DEF ws
    <2>5. ms[h].workers = ms[i].workers
      BY <1>1, <1>5, <2>1, Zenon DEF OneDirective
    <2> QED
      BY <1>5, <2>1, <2>2, <2>4, <2>5, Zenon
  <1> QED
    BY <1>1, <1>6, <1>7, Zenon DEF ServersShared, c

\* The options that Validate accepts: the files exist, the names are different ones,
\* and so are the files of the workers of a server that have no matcher.
Acceptable(opts) ==
    \A k \in 1 .. Len(opts) :
        /\ opts[k].file \in OnDisk /\ opts[k].name # <<>>
        /\ opts[k].server = NoServer => ~opts[k].match
        /\ \A j \in 1 .. k - 1 :
              /\ opts[j].name # opts[k].name
              /\ opts[j].server = opts[k].server /\ ~opts[j].match => Resolve[opts[j].file] # Resolve[opts[k].file]

\* What Validate has taken after n of them
TakenAfter(acc, opts, n) ==
    /\ acc.ok
    /\ acc.names \subseteq {opts[j].name : j \in 1 .. n}
    /\ \A e \in acc.paths : \E j \in 1 .. n : ~opts[j].match /\ e = <<opts[j].server, Resolve[opts[j].file]>>

\* Validate accepts one more worker, if its name is new and so is its file where it has
\* to be.
LEMMA TakenStep ==
    ASSUME ResolveAssumption, NEW Name, NEW opts \in Seq(WorkerOption(Name)), Acceptable(opts),
           NEW n \in Nat, n + 1 \in 1 .. Len(opts), NEW acc \in Taken(Name), TakenAfter(acc, opts, n)
    PROVE  TakenAfter(validateWorker(acc, opts[n + 1]), opts, n + 1)
  <1> DEFINE i == n + 1
             w == opts[i]
             o == resolveWorkerFile(w)
             new == validateWorker(acc, w)
  <1>1. w \in WorkerOption(Name)
    BY SMT
  <1>2. i - 1 = n /\ i \in 1 .. i /\ \A j \in 1 .. n : j \in 1 .. i
    BY SMT
  <1>3. /\ w.file \in OnDisk /\ w.name # <<>> /\ (w.server = NoServer => ~w.match)
        /\ \A j \in 1 .. n :
              /\ opts[j].name # w.name
              /\ opts[j].server = w.server /\ ~opts[j].match => Resolve[opts[j].file] # Resolve[w.file]
    BY <1>2, Zenon DEF Acceptable
  <1> HIDE DEF w
  <1>4. o.file = Resolve[w.file] /\ o.server = w.server /\ o.match = w.match
    BY <1>1, Resolved, Zenon
  <1>5. o.name = w.name
    BY <1>1, <1>3, Zenon DEF resolveWorkerFile, WorkerOption
  <1> HIDE DEF o
  <1>6. acc.ok /\ acc.names \subseteq {opts[j].name : j \in 1 .. n}
    BY Zenon DEF TakenAfter
  <1>7. ASSUME <<o.server, o.file>> \in acc.paths PROVE FALSE
    <2>1. PICK j \in 1 .. n : ~opts[j].match /\ <<o.server, o.file>> = <<opts[j].server, Resolve[opts[j].file]>>
      BY <1>7, Zenon DEF TakenAfter
    <2>2. o.server = opts[j].server /\ o.file = Resolve[opts[j].file]
      BY <2>1, Zenon
    <2> QED
      BY <1>3, <1>4, <2>1, <2>2, Zenon
  <1>8. o.name \notin acc.names
    BY <1>3, <1>5, <1>6, Zenon
  <1>9. checkWorkerDeclaration(o, acc.names, acc.paths)
    BY <1>3, <1>4, <1>7, <1>8, Zenon DEF checkWorkerDeclaration
  <1>10. /\ new.ok = checkWorkerDeclaration(o, acc.names, acc.paths)
         /\ new.names = acc.names \cup {o.name}
         /\ new.paths = IF o.match THEN acc.paths ELSE acc.paths \cup {<<o.server, o.file>>}
    BY <1>3, <1>6, Zenon DEF validateWorker, o
  <1> HIDE DEF new
  <1>11. new.names \subseteq {opts[j].name : j \in 1 .. i}
    BY <1>2, <1>5, <1>6, <1>10, Zenon DEF w
  <1>12. ASSUME NEW e \in new.paths
         PROVE  \E j \in 1 .. i : ~opts[j].match /\ e = <<opts[j].server, Resolve[opts[j].file]>>
    <2>1. CASE e \in acc.paths
      <3>1. PICK j \in 1 .. n : ~opts[j].match /\ e = <<opts[j].server, Resolve[opts[j].file]>>
        BY <2>1, Zenon DEF TakenAfter
      <3> QED
        BY <1>2, <3>1, Zenon
    <2>2. CASE ~o.match /\ e = <<o.server, o.file>>
      BY <1>2, <1>4, <2>2, Zenon DEF w
    <2>3. e \in acc.paths \/ (~o.match /\ e = <<o.server, o.file>>)
      BY <1>10, <1>12, Zenon
    <2> QED
      BY <2>1, <2>2, <2>3, Zenon
  <1>13. TakenAfter(new, opts, i)
    BY <1>9, <1>10, <1>11, <1>12, Zenon DEF TakenAfter
  <1> QED
    BY <1>13, Zenon DEF new, w

\* Validate accepts workers with different names and files that differ where they have to.
LEMMA AcceptedIf ==
    ASSUME ResolveAssumption, NEW Name, NEW opts \in Seq(WorkerOption(Name)), Acceptable(opts)
    PROVE  Validate(opts)
  <1> DEFINE k == Len(opts)
  <1>1. k \in Nat
    BY SMT
  <1>2. PICK r : ValidateRun(r, opts, Name)
    BY ValidateRuns, Zenon
  <1> DEFINE G == {n \in Nat : TakenAfter(r[n], opts, n)}
  <1>3. 0 \in G
    <2> DEFINE a == [ok |-> TRUE, names |-> {}, paths |-> {}]
    <2>1. a.ok = TRUE /\ a.names = {} /\ a.paths = {}
      BY Zenon
    <2>2. r[0] = a
      BY <1>2, Zenon DEF ValidateRun
    <2> HIDE DEF a
    <2>3. TakenAfter(a, opts, 0)
      BY <2>1, Zenon DEF TakenAfter
    <2>4. 0 \in Nat
      BY SMT
    <2> QED
      BY <2>2, <2>3, <2>4, Zenon
  <1>4. ASSUME NEW n \in 0 .. k - 1, n \in G PROVE n + 1 \in G
    <2>1. n + 1 \in 1 .. k /\ n \in Nat /\ n + 1 \in Nat /\ (n + 1) - 1 = n /\ n \in 0 .. k
      BY <1>1, SMT
    <2>2. r[n + 1] = validateWorker(r[n], opts[n + 1]) /\ r[n] \in Taken(Name)
      BY <1>2, <2>1, Zenon DEF ValidateRun
    <2>3. TakenAfter(validateWorker(r[n], opts[n + 1]), opts, n + 1)
      BY <1>4, <2>1, <2>2, TakenStep, Zenon
    <2> QED
      BY <2>1, <2>2, <2>3, Zenon
  <1>5. k \in G
    <2> HIDE DEF G, k
    <2>1. 0 .. k \subseteq G
      BY <1>1, <1>3, <1>4, UpToInduction, Zenon
    <2>2. k \in 0 .. k
      BY <1>1, SMT
    <2> QED
      BY <2>1, <2>2, Zenon
  <1> QED
    BY <1>2, <1>5, Zenon DEF ValidateRun, TakenAfter

\* The workers of a block that its parser accepts
Fine(ws, s) ==
    \A x \in 1 .. Len(ws) :
        /\ ws[x].file \in Path /\ ws[x].file \in OnDisk /\ ws[x].match \in BOOLEAN
        /\ s = NoServer => ~ws[x].match
        /\ \A y \in 1 .. x - 1 : ~ws[y].match => Resolve[ws[y].file] # Resolve[ws[x].file]

\* What a block that is fine says of its options
FineOption(opts, k, s) ==
    /\ opts[k].file \in Path /\ opts[k].declared \in Path /\ opts[k].file \in OnDisk /\ opts[k].match \in BOOLEAN
    /\ \E wc : opts[k] = WithWorkers(opts[k].name, wc, s)
    /\ s = NoServer => ~opts[k].match
    /\ \A j \in 1 .. k - 1 :
          opts[j].server = s /\ ~opts[j].match => Resolve[opts[j].file] # Resolve[opts[k].file]

\* What holds of the workers of a block holds of their options.
LEMMA FineBlock ==
    ASSUME NEW opts, IsList(opts), NEW s, NEW ws, IsList(ws), Block(opts, s, ws), Fine(ws, s),
           NEW k \in 1 .. Len(opts), opts[k].server = s
    PROVE  FineOption(opts, k, s)
  <1> DEFINE n == Len(opts)
             m == Len(ws)
  <1>1. n \in Nat /\ m \in Nat
    BY ListAppended, Zenon
  <1>2. PICK lo : InBlock(opts, s, ws, lo)
    BY Zenon DEF Block
  <1>3. /\ lo \in Nat /\ lo + m <= n /\ \A l \in 1 .. n : opts[l].server = s => l \in lo + 1 .. lo + m
        /\ \A x \in 1 .. m : IsOption(opts[lo + x], ws[x], s)
    BY <1>2, Zenon DEF InBlock
  <1>4. k \in lo + 1 .. lo + m
    BY <1>3, Zenon
  <1> DEFINE x == k - lo
  <1> HIDE DEF n, m
  <1>5. /\ x \in 1 .. m /\ lo + x = k
        /\ \A j \in 1 .. k - 1 : j \in 1 .. n /\ (j \in lo + 1 .. lo + m => j - lo \in 1 .. m /\ j - lo \in 1 .. x - 1 /\ lo + (j - lo) = j)
    <2>1. k \in 1 .. n
      BY Zenon DEF n
    <2>2. lo \in Nat /\ lo + m <= n
      BY <1>3, Zenon
    <2> QED
      BY <1>1, <1>4, <2>1, <2>2, SMT
  <1> HIDE DEF x
  <1>6. IsOption(opts[k], ws[x], s)
    BY <1>3, <1>5, Zenon
  <1>7. /\ ws[x].file \in Path /\ ws[x].file \in OnDisk /\ ws[x].match \in BOOLEAN
        /\ s = NoServer => ~ws[x].match
        /\ \A y \in 1 .. x - 1 : ~ws[y].match => Resolve[ws[y].file] # Resolve[ws[x].file]
    BY <1>5, Zenon DEF Fine, m
  <1>8. ASSUME NEW j \in 1 .. k - 1, opts[j].server = s, ~opts[j].match PROVE Resolve[opts[j].file] # Resolve[opts[k].file]
    <2>1. j \in lo + 1 .. lo + m
      BY <1>3, <1>5, <1>8, Zenon
    <2> DEFINE y == j - lo
    <2>2. y \in 1 .. m /\ y \in 1 .. x - 1 /\ lo + y = j
      BY <1>5, <2>1, Zenon
    <2> HIDE DEF y
    <2>3. IsOption(opts[j], ws[y], s)
      BY <1>3, <2>2, Zenon
    <2> QED
      BY <1>6, <1>7, <1>8, <2>2, <2>3, Zenon DEF IsOption
  <1> QED
    BY <1>6, <1>7, <1>8, Zenon DEF FineOption, IsOption

\* The files of a block exist and are not each other's symbolic links.
Files(b) ==
    /\ \A i, j \in DOMAIN b : Resolve[b[i].file] = Resolve[b[j].file] => b[i].file = b[j].file
    /\ \A i \in DOMAIN b : b[i].file \in OnDisk

\* The parts of a block of workers have their types.
LEMMA BlockTyped ==
    ASSUME NEW Token, NEW ws \in Seq(ConfigWorker(Token))
    PROVE  /\ IsList(ws) /\ Len(ws) \in Nat /\ DOMAIN ws = 1 .. Len(ws)
           /\ \A x \in 1 .. Len(ws) : ws[x].file \in Path /\ ws[x].match \in BOOLEAN /\ IsList(ws[x].name)
           /\ \A x \in 1 .. Len(ws) : \A y \in 1 .. x - 1 : y \in 1 .. Len(ws)
  <1>1. Len(ws) \in Nat /\ DOMAIN ws = 1 .. Len(ws) /\ \A x \in 1 .. Len(ws) : ws[x] \in ConfigWorker(Token)
    BY SMT
  <1>2. \A x \in 1 .. Len(ws) : ws[x].file \in Path /\ ws[x].match \in BOOLEAN /\ IsList(ws[x].name)
    BY <1>1, Zenon DEF ConfigWorker, IsList
  <1>3. \A x \in 1 .. Len(ws) : \A y \in 1 .. x - 1 : y \in 1 .. Len(ws)
    BY <1>1, SMT
  <1> QED
    BY <1>1, <1>2, <1>3, Zenon DEF IsList

\* What the parser of the global block accepts is fine,
LEMMA FineGlobals ==
    ASSUME NEW Token, NEW ws \in Seq(ConfigWorker(Token)), parseApp(ws), Files(ws)
    PROVE  Fine(ws, NoServer)
  <1>1. /\ DOMAIN ws = 1 .. Len(ws)
        /\ \A x \in 1 .. Len(ws) : ws[x].file \in Path /\ ws[x].match \in BOOLEAN
        /\ \A x \in 1 .. Len(ws) : \A y \in 1 .. x - 1 : y \in 1 .. Len(ws)
    BY BlockTyped, Zenon
  <1>2. ASSUME NEW x \in 1 .. Len(ws), NEW y \in 1 .. x - 1 PROVE Resolve[ws[y].file] # Resolve[ws[x].file]
    <2>1. y \in DOMAIN ws /\ x \in DOMAIN ws
      BY <1>1, Zenon
    <2>2. ws[x].file # ws[y].file
      BY Zenon DEF parseApp
    <2> QED
      BY <2>1, <2>2, Zenon DEF Files
  <1> QED
    BY <1>1, <1>2, Zenon DEF Fine, Files, parseApp

\* The module m was accepted by the parser, and p is what Provision makes of it
Parsed(m, p, Token) ==
    m.workers \in Seq(ConfigWorker(Token)) /\ parseModule(m.workers) /\ Files(m.workers) /\ ProvisionOf(p, m)
FineModules(p, s) == Fine(p.workers, s)

\* and so is, once it is provisioned, what the parser of a module accepts.
LEMMA FineModule ==
    ASSUME ResolveAssumption, NEW Token, NEW m, NEW p, Parsed(m, p, Token), NEW s, s # NoServer
    PROVE  FineModules(p, s)
  <1> DEFINE ws == m.workers
             q == p.workers
  <1> m.workers \in Seq(ConfigWorker(Token)) /\ parseModule(m.workers) /\ Files(m.workers) /\ ProvisionOf(p, m)
    BY Zenon DEF Parsed
  <1>1. /\ DOMAIN ws = 1 .. Len(ws)
        /\ \A x \in 1 .. Len(ws) : ws[x].file \in Path /\ ws[x].match \in BOOLEAN
        /\ \A x \in 1 .. Len(ws) : \A y \in 1 .. x - 1 : y \in 1 .. Len(ws)
    BY BlockTyped, Zenon
  <1>2. /\ Len(q) = Len(ws)
        /\ \A x \in 1 .. Len(ws) : q[x].match = ws[x].match /\ q[x].file = ProvisionedFile(ws[x].file, m)
    BY Zenon DEF ProvisionOf
  <1>3. \A x \in 1 .. Len(ws) : ws[x].file \in OnDisk
    BY <1>1, Zenon DEF Files
  <1>4. ASSUME NEW x \in 1 .. Len(ws)
        PROVE  q[x].file \in Path /\ q[x].file \in OnDisk /\ Resolve[q[x].file] = Resolve[ws[x].file]
    <2> DEFINE f == ws[x].file
    <2>1. f \in Path /\ f \in OnDisk
      BY <1>1, <1>3, Zenon
    <2>2. q[x].file = IF ~m.resolveRoot THEN f ELSE Resolve[f]
      BY <1>2, <2>1, Zenon DEF ProvisionedFile
    <2>3. Resolve[f] \in Path /\ Resolve[f] \in OnDisk /\ Resolve[Resolve[f]] = Resolve[f]
      BY <2>1, Zenon DEF ResolveAssumption
    <2> HIDE DEF f, q
    <2>4. q[x].file \in Path /\ q[x].file \in OnDisk /\ Resolve[q[x].file] = Resolve[f]
      BY <2>1, <2>2, <2>3, Zenon
    <2> QED
      BY <2>4, Zenon DEF f
  <1>5. ASSUME NEW x \in 1 .. Len(ws), NEW y \in 1 .. x - 1, ~q[y].match PROVE Resolve[q[y].file] # Resolve[q[x].file]
    <2>1. y \in 1 .. Len(ws) /\ y \in DOMAIN ws /\ x \in DOMAIN ws
      BY <1>1, Zenon
    <2>2. ws[x].file # ws[y].file
      BY <1>2, <1>5, <2>1, Zenon DEF parseModule
    <2>3. Resolve[ws[y].file] # Resolve[ws[x].file]
      BY <2>1, <2>2, Zenon DEF Files
    <2>4. Resolve[q[x].file] = Resolve[ws[x].file]
      BY <1>4, Zenon
    <2>5. Resolve[q[y].file] = Resolve[ws[y].file]
      BY <1>4, <2>1, Zenon
    <2> QED
      BY <2>3, <2>4, <2>5, Zenon
  <1> QED
    BY <1>1, <1>2, <1>4, <1>5, Zenon DEF Fine, FineModules

\* The options are what Validate takes.
LEMMA OptionsTyped ==
    ASSUME NEW opts, IsList(opts),
           \A k \in 1 .. Len(opts) : opts[k].server \in Nat /\ FineOption(opts, k, opts[k].server)
    PROVE  \E Name : opts \in Seq(WorkerOption(Name))
  <1> DEFINE n == Len(opts)
             Name == {opts[k].name : k \in 1 .. n}
             W == WorkerOption(Name)
  <1>1. ASSUME NEW k \in 1 .. n PROVE opts[k] \in W
    <2> DEFINE o == opts[k]
    <2>1. /\ o.file \in Path /\ o.declared \in Path /\ o.match \in BOOLEAN /\ o.server \in Nat /\ o.name \in Name
      BY Zenon DEF FineOption
    <2>2. PICK wc : o = WithWorkers(o.name, wc, o.server)
      BY Zenon DEF FineOption
    <2> DEFINE r == WithWorkers(o.name, wc, o.server)
               a == r.name
               b == r.file
               c == r.declared
               d == r.server
               e == r.match
    <2>3. r = [name |-> a, file |-> b, declared |-> c, server |-> d, match |-> e]
      BY Zenon DEF WithWorkers
    <2>4. a \in Name /\ b \in Path /\ c \in Path /\ d \in Nat /\ e \in BOOLEAN
      BY <2>1, <2>2, Zenon
    <2> HIDE DEF a, b, c, d, e, Name, r, o
    <2>5. [name |-> a, file |-> b, declared |-> c, server |-> d, match |-> e] \in W
      BY <2>4, Zenon DEF WorkerOption
    <2> QED
      BY <2>2, <2>3, <2>5, Zenon DEF r, o
  <1>2. PICK S : opts \in Seq(S)
    BY Zenon DEF IsList
  <1> HIDE DEF W
  <1>3. opts \in Seq(W)
    BY <1>1, <1>2, SMT
  <1> QED
    BY <1>3, Zenon DEF W

\* A Caddyfile that both parsers accept, whose files exist and are not each other's
\* symbolic links within a block, is accepted by Validate, if there are as many
\* numbers to tell its workers apart as there are workers: the names that
\* createUniqueWorkerName makes up never collide.
THEOREM CaddyfileIsAccepted ==
    ASSUME ResolveAssumption, Numbers, NEW config, NEW Token, IsCaddyfile(config, Token),
           Len(collectOptions(config).opts) <= Len(Suffix)
    PROVE  ParsedIsAccepted(config)
  <1> DEFINE mods == Provisioned(config)
             ms == config.modules
             gs == config.workers
             N == Len(mods)
             acc == collectOptions(config)
             opts == acc.opts
             blocks == {gs} \cup {ms[i].workers : i \in DOMAIN ms}
  <1> SUFFICES ASSUME parseApp(gs), \A i \in DOMAIN ms : parseModule(ms[i].workers), \A b \in blocks : Files(b)
               PROVE  Validate(opts)
    BY Zenon DEF ParsedIsAccepted, Files
  <1>1. /\ Modules(mods) /\ DOMAIN ms = 1 .. N /\ N = Len(ms)
        /\ \A i \in 1 .. N : ProvisionOf(mods[i], ms[i])
    BY ProvisionedModules, Zenon
  <1>2. gs \in Seq(ConfigWorker(Token)) /\ ms \in Seq(ConfigModule(Token))
    BY Zenon DEF IsCaddyfile
  <1>3. IsList(gs) /\ \A x \in 1 .. Len(gs) : IsList(gs[x].name)
    BY <1>2, BlockTyped, Zenon
  <1>4. Collected(acc, N, mods, gs)
    BY <1>1, <1>3, OptionsCollected, Zenon
  <1>5. \A i \in 1 .. N : ms[i].workers \in Seq(ConfigWorker(Token))
    <2> DEFINE M == ConfigModule(Token)
    <2>1. \A i \in 1 .. N : ms[i] \in M
      <3>1. N = Len(ms)
        BY <1>1, Zenon
      <3>2. ms \in Seq(M)
        BY <1>2, Zenon
      <3> HIDE DEF N, ms, M
      <3> QED
        BY <3>1, <3>2, SMT
    <2> QED
      BY <2>1, Zenon DEF ConfigModule
  <1>6. Fine(gs, NoServer)
    BY <1>2, FineGlobals, Zenon
  <1>7. N \in Nat /\ \A i \in 1 .. N : i # 0 /\ i \in Nat
    <2>1. N \in Nat
      BY <1>1, Zenon DEF Modules
    <2> HIDE DEF N
    <2> QED
      BY <2>1, SMT
  <1>8. ASSUME NEW i \in 1 .. N PROVE Fine(Own(mods, i), i) /\ IsList(Own(mods, i))
    <2>1. i # NoServer /\ parseModule(ms[i].workers) /\ Files(ms[i].workers)
      BY <1>1, <1>7, Zenon DEF NoServer
    <2>2. Fine(mods[i].workers, i)
      <3> DEFINE m == ms[i]
                 p == mods[i]
      <3>1. Parsed(m, p, Token)
        BY <1>1, <1>5, <2>1, Zenon DEF Parsed
      <3> HIDE DEF m, p
      <3>2. FineModules(p, i)
        BY <2>1, <3>1, FineModule, Zenon
      <3> QED
        BY <3>2, Zenon DEF p, FineModules
    <2>3. Fine(<<>>, i)
      <3> DEFINE e == <<>>
      <3>1. Len(e) = 0
        BY EmptyList, Zenon
      <3>2. 1 .. 0 = {}
        BY SMT
      <3> HIDE DEF e
      <3>3. Fine(e, i)
        BY <3>1, <3>2, Zenon DEF Fine
      <3> QED
        BY <3>3, Zenon DEF e
    <2> QED
      BY <1>1, <2>2, <2>3, EmptyList, Zenon DEF Own, Modules
  <1> HIDE DEF acc, mods, N
  <1>9. /\ WellNamed(acc) /\ Block(opts, NoServer, gs)
        /\ \A k \in 1 .. Len(opts) : opts[k].server \in 0 .. N
        /\ \A i \in 1 .. N : Block(opts, i, Own(mods, i))
    BY <1>4, Zenon DEF Collected, NoServer
  <1>10. IsList(opts) /\ Named(acc)
    BY <1>9, Zenon DEF WellNamed, acc
  <1>11. ASSUME NEW k \in 1 .. Len(opts) PROVE opts[k].server \in Nat /\ FineOption(opts, k, opts[k].server)
    <2> DEFINE s == opts[k].server
    <2>1. s \in Nat /\ (s = 0 \/ s \in 1 .. N)
      <3>1. s \in 0 .. N
        BY <1>9, Zenon
      <3> HIDE DEF s
      <3> QED
        BY <1>7, <3>1, SMT
    <2> HIDE DEF opts
    <2>2. CASE s = NoServer
      BY <1>3, <1>6, <1>9, <1>10, <2>1, <2>2, FineBlock, Zenon
    <2>3. CASE s \in 1 .. N
      <3> DEFINE ws == Own(mods, s)
      <3>1. Block(opts, s, ws) /\ Fine(ws, s) /\ IsList(ws)
        BY <1>8, <1>9, <2>3, Zenon
      <3> HIDE DEF ws
      <3> QED
        BY <1>10, <2>1, <3>1, FineBlock, Zenon
    <2> QED
      BY <2>1, <2>2, <2>3, Zenon DEF NoServer
  <1> HIDE DEF opts
  <1>12. PICK Name : opts \in Seq(WorkerOption(Name))
    BY <1>10, <1>11, OptionsTyped, Zenon
  <1>13. Acceptable(opts)
    <2>1. ASSUME NEW k \in 1 .. Len(opts)
          PROVE  /\ opts[k].file \in OnDisk
                 /\ opts[k].server = NoServer => ~opts[k].match
                 /\ \A j \in 1 .. k - 1 :
                       opts[j].server = opts[k].server /\ ~opts[j].match => Resolve[opts[j].file] # Resolve[opts[k].file]
      BY <1>11, Zenon DEF FineOption
    <2>2. ASSUME NEW k \in 1 .. Len(opts) PROVE opts[k].name # <<>>
      BY <1>10, Zenon DEF Named, opts
    <2>3. ASSUME NEW k \in 1 .. Len(opts), NEW j \in 1 .. k - 1 PROVE opts[j].name # opts[k].name
      <3>1. j \in 1 .. Len(opts) /\ j # k
        <4>1. Len(opts) \in Nat
          BY <1>12, SMT
        <4> QED
          BY <4>1, SMT
      <3> QED
        BY <1>10, <3>1, Zenon DEF Named, opts
    <2> QED
      BY <2>1, <2>2, <2>3, Zenon DEF Acceptable
  <1> QED
    BY <1>12, <1>13, AcceptedIf, Zenon

\* What a Caddyfile promises, for every Caddyfile: CaddyfileKept.
THEOREM CaddyfileIsKept ==
    ASSUME ResolveAssumption, Numbers,
           input.kind = "config" => /\ \E Token : IsCaddyfile(input.config, Token)
                                    /\ OneDirective(input.config)
                                    /\ Len(collectOptions(input.config).opts) <= Len(Suffix)
    PROVE  CaddyfileKept
  BY CaddyfileIsAccepted, DirectivesShareServers, Zenon DEF CaddyfileKept
-----------------------------------------------------------------------------
(* The thread budget *)

\* An accepted budget is a record of two numbers: what Budget of frankenphp.go
\* leaves in opt.numThreads and opt.maxThreads, by the options that are set.
LEMMA BudgetCases ==
    ASSUME NEW numThreads \in Int, NEW maxThreads \in Int, NEW numWorkers \in Nat,
           NEW fromWorkers \in Nat, NEW maxProcs \in Nat \ {0},
           Budget(numThreads, maxThreads, numWorkers, fromWorkers, maxProcs).ok
    PROVE  \E n, m \in Int :
             /\ Budget(numThreads, maxThreads, numWorkers, fromWorkers, maxProcs) = Accept(n, m)
             /\ n >= numWorkers + 1
             /\ numThreads > 0 => n = numThreads + numWorkers
             /\ m < 0 \/ m >= n
             /\ maxThreads > 0 => m = maxThreads
  <1> DEFINE budget == Budget(numThreads, maxThreads, numWorkers, fromWorkers, maxProcs)
             num == IF numThreads > 0 THEN numThreads + numWorkers ELSE numThreads
             max == IF maxThreads = 0 /\ fromWorkers > 0
                    THEN (IF num > 0 THEN num ELSE numWorkers + 1) + fromWorkers
                    ELSE maxThreads
             least == IF numWorkers >= maxProcs THEN numWorkers + 1 ELSE maxProcs
             Goal(n, m) == /\ budget = Accept(n, m)
                           /\ n >= numWorkers + 1
                           /\ numThreads > 0 => n = numThreads + numWorkers
                           /\ m < 0 \/ m >= n
                           /\ maxThreads > 0 => m = maxThreads
  <1>1. num \in Int /\ max \in Int /\ least \in Int
    OBVIOUS
  <1>2. SUFFICES \E n, m \in Int : Goal(n, m)
    BY Zenon
  <1>3. ~Refuse.ok
    BY Zenon DEF Refuse
  <1>4. CASE num > 0 /\ max = 0
    <2>1. budget = Accept(num, num)
      BY <1>4, Zenon DEF Budget
    <2>2. Goal(num, num)
      BY <1>1, <1>4, <2>1
    <2> QED
      BY <1>1, <2>2, Zenon
  <1>5. CASE ~(num > 0) /\ max # 0
    <2>1. budget = IF maxThreads < 0 \/ numWorkers + 1 <= max
                   THEN Accept(numWorkers + 1, max) ELSE Refuse
      BY <1>5, Zenon DEF Budget
    <2>2. (maxThreads < 0 \/ numWorkers + 1 <= max) /\ budget = Accept(numWorkers + 1, max)
      BY <1>3, <2>1, Zenon
    <2>3. Goal(numWorkers + 1, max)
      BY <1>1, <1>5, <2>2
    <2> QED
      BY <1>1, <2>3
  <1>6. CASE ~(num > 0) /\ max = 0
    <2>1. budget = Accept(least, least)
      BY <1>6, Zenon DEF Budget
    <2>2. Goal(least, least)
      BY <1>1, <1>6, <2>1
    <2> QED
      BY <1>1, <2>2, Zenon
  <1>7. CASE num > 0 /\ max # 0
    <2>1. budget = IF maxThreads < 0 \/ num <= max THEN Accept(num, max) ELSE Refuse
      BY <1>7, Zenon DEF Budget
    <2>2. (maxThreads < 0 \/ num <= max) /\ budget = Accept(num, max)
      BY <1>3, <2>1, Zenon
    <2>3. Goal(num, max)
      BY <1>1, <1>7, <2>2
    <2> QED
      BY <1>1, <2>3, Zenon
  <1> QED
    BY <1>1, <1>4, <1>5, <1>6, <1>7, Zenon

\* Every budget that calculateMaxThreads accepts is sound, also after the main
\* thread has settled max_threads: a thread for every worker thread, num_threads
\* others, a slot for each, and never more slots than max_threads.
THEOREM BudgetIsSound ==
    ASSUME NEW numThreads \in Int, NEW maxThreads \in Int, NEW numWorkers \in Nat,
           NEW fromWorkers \in Nat, NEW maxProcs \in Nat \ {0}, NEW memory \in Nat
    PROVE  SoundBudget(numThreads, maxThreads, numWorkers, fromWorkers, maxProcs, memory)
  <1> DEFINE budget == Budget(numThreads, maxThreads, numWorkers, fromWorkers, maxProcs)
  <1>1. SUFFICES ASSUME budget.ok
                 PROVE  /\ budget.numThreads >= numWorkers + 1
                        /\ numThreads > 0 => budget.numThreads - numWorkers = numThreads
                        /\ finalMaxThreads(budget, memory) >= budget.numThreads
                        /\ maxThreads > 0 => finalMaxThreads(budget, memory) = maxThreads
    BY Zenon DEF SoundBudget
  <1>2. PICK n \in Int, m \in Int :
             /\ budget = Accept(n, m)
             /\ n >= numWorkers + 1
             /\ numThreads > 0 => n = numThreads + numWorkers
             /\ m < 0 \/ m >= n
             /\ maxThreads > 0 => m = maxThreads
    BY <1>1, BudgetCases
  <1>3. budget.numThreads = n /\ budget.maxThreads = m
    BY <1>2 DEF Accept
  <1> QED
    BY <1>2, <1>3 DEF finalMaxThreads, setAutomaticMaxThreads

\* The thread counts of a worker, and their sums
BudgetWorker == [num : Int, maxThreads : Int]
Sums == [ok : BOOLEAN, numWorkers : Nat, fromWorkers : Nat]

\* calculateMaxThreads adds naturals up.
LEMMA CountTyped ==
    ASSUME NEW maxThreads \in Int, NEW maxProcs \in Nat, NEW acc \in Sums, NEW w \in BudgetWorker
    PROVE  countWorker(acc, w, maxThreads, maxProcs) \in Sums
  <1> DEFINE refused == \/ ~acc.ok
                        \/ w.maxThreads > 0 /\ (w.maxThreads < w.num \/ (maxThreads > 0 /\ w.maxThreads > maxThreads))
  <1> DEFINE x == acc.numWorkers + (IF w.num <= 0 THEN maxProcs ELSE w.num)
             y == IF w.maxThreads > 0 THEN acc.fromWorkers + w.maxThreads - w.num ELSE acc.fromWorkers
  <1>0. w.num \in Int /\ w.maxThreads \in Int /\ acc.numWorkers \in Nat /\ acc.fromWorkers \in Nat
    BY SMT DEF BudgetWorker, Sums
  <1>1. CASE refused
    <2>1. countWorker(acc, w, maxThreads, maxProcs) = [acc EXCEPT !.ok = FALSE]
      BY <1>1, Zenon DEF countWorker
    <2> HIDE DEF refused, x, y
    <2> QED
      BY <2>1, Zenon DEF Sums
  <1>2. CASE ~refused
    <2>1. countWorker(acc, w, maxThreads, maxProcs) = [acc EXCEPT !.numWorkers = x, !.fromWorkers = y]
      BY <1>2, Zenon DEF countWorker
    <2>2. x \in Nat /\ y \in Nat
      BY <1>0, <1>2, SMT
    <2> HIDE DEF refused, x, y
    <2> QED
      BY <2>1, <2>2, Zenon DEF Sums
  <1> QED
    BY <1>1, <1>2

\* What calculateMaxThreads makes of the workers
CountedBy(f, opt, maxProcs) ==
    /\ f \in Sums
    /\ calculateMaxThreads(opt, maxProcs).numWorkers = f.numWorkers
    /\ calculateMaxThreads(opt, maxProcs).fromWorkers = f.fromWorkers

\* calculateMaxThreads adds the workers up one after the other.
LEMMA WorkersCount ==
    ASSUME NEW opt, NEW workers \in Seq(BudgetWorker), opt.workers = workers, opt.maxThreads \in Int, NEW maxProcs \in Nat
    PROVE  \E f : CountedBy(f, opt, maxProcs)
  <1> DEFINE V == Sums
             k == Len(workers)
             b == [ok |-> TRUE, numWorkers |-> 0, fromWorkers |-> 0]
             Step(e, i) == countWorker(e, workers[i], opt.maxThreads, maxProcs)
             G == [p \in V \X (1 .. k) |-> Step(p[1], p[2])]
             Rec(f) == f = [i \in 0 .. k |-> IF i = 0 THEN b ELSE Step(f[i - 1], i)]
             F == CHOOSE f : Rec(f)
  <1>1. k \in Nat /\ b \in V
    BY SMT DEF Sums
  <1>2. \A e \in V, i \in 1 .. k : Step(e, i) \in V
    <2>1. ASSUME NEW e \in Sums, NEW i \in 1 .. Len(workers) PROVE countWorker(e, workers[i], opt.maxThreads, maxProcs) \in Sums
      <3>1. workers[i] \in BudgetWorker
        BY SMT
      <3> QED
        BY <3>1, CountTyped, Zenon
    <2> QED
      BY <2>1, Zenon
  <1>3. /\ calculateMaxThreads(opt, maxProcs).numWorkers = F[Len(workers)].numWorkers
        /\ calculateMaxThreads(opt, maxProcs).fromWorkers = F[Len(workers)].fromWorkers
    BY Zenon DEF calculateMaxThreads
  <1> HIDE DEF V, Step, k, b
  <1>4. G \in [V \X (1 .. k) -> V]
    BY <1>2, Zenon
  <1>5. PICK f : Recurs(f, V, b, k, G)
    <2> HIDE DEF G
    <2> QED
      BY <1>1, <1>4, RecursionExists, Zenon
  <1>6. /\ 0 \in 0 .. k
        /\ \A n \in 0 .. k : n # 0 => n \in 1 .. k
        /\ \A n \in 1 .. k : n \in 0 .. k /\ n # 0
    BY <1>1, SMT
  <1>7. \A n \in 1 .. k : f[n] = Step(f[n - 1], n)
    BY <1>5, Zenon DEF Recurs
  <1>8. Rec(F)
    <2>1. \A n \in 0 .. k : f[n] = IF n = 0 THEN b ELSE Step(f[n - 1], n)
      BY <1>5, <1>6, <1>7, Zenon DEF Recurs
    <2>2. Rec(f)
      BY <1>5, <2>1, Zenon DEF Recurs
    <2> HIDE DEF Rec
    <2> QED
      BY <2>2, Zenon
  <1> HIDE DEF F
  <1>9. F[0] = b /\ \A n \in 1 .. k : F[n] = Step(F[n - 1], n)
    BY <1>6, <1>8, Zenon
  <1>10. F \in [0 .. k -> V]
    <2>1. \A n \in 1 .. k : F[n - 1] \in V => F[n] \in V
      BY <1>2, <1>9, Zenon
    <2>2. \A n \in 0 .. k : F[n] \in V
      BY <1>1, <1>9, <2>1, RecursionTyped, Zenon
    <2> QED
      BY <1>8, <2>2, Zenon
  <1> QED
    <2>1. F[k] \in V
      BY <1>1, <1>6, <1>10, SMT
    <2> QED
      BY <1>3, <2>1, Zenon DEF V, k, CountedBy

\* Whatever the options and their workers, the number of CPUs and the memory: the
\* thread budget that calculateMaxThreads accepts is sound.
THEOREM ThreadsAreBudgeted ==
    ASSUME NEW opt, opt.workers \in Seq(BudgetWorker), opt.numThreads \in Int, opt.maxThreads \in Int,
           NEW maxProcs \in Nat \ {0}, NEW memory \in Nat
    PROVE  LET c == calculateMaxThreads(opt, maxProcs)
           IN  SoundBudget(opt.numThreads, opt.maxThreads, c.numWorkers, c.fromWorkers, maxProcs, memory)
  <1> DEFINE c == calculateMaxThreads(opt, maxProcs)
  <1>1. maxProcs \in Nat
    BY SMT
  <1>2. PICK f : CountedBy(f, opt, maxProcs)
    BY <1>1, WorkersCount, Zenon
  <1>3. f \in Sums /\ c.numWorkers = f.numWorkers /\ c.fromWorkers = f.fromWorkers
    BY <1>2, Zenon DEF CountedBy
  <1> HIDE DEF c
  <1>4. c.numWorkers \in Nat /\ c.fromWorkers \in Nat
    BY <1>3, SMT DEF Sums
  <1>5. SoundBudget(opt.numThreads, opt.maxThreads, c.numWorkers, c.fromWorkers, maxProcs, memory)
    BY <1>4, BudgetIsSound, Zenon
  <1> QED
    BY <1>5, Zenon DEF c

\* BudgetSound holds of every set of options.
THEOREM BudgetSoundness ==
    ASSUME input.kind = "budget" => /\ input.opt.workers \in Seq(BudgetWorker)
                                    /\ input.opt.numThreads \in Int /\ input.opt.maxThreads \in Int
    PROVE  BudgetSound
  <1>1. {1, 4} \subseteq Nat \ {0} /\ {0, 1, 6} \subseteq Nat
    BY SMT
  <1>2. ASSUME input.kind = "budget", NEW maxProcs \in {1, 4}, NEW memory \in {0, 1, 6}
        PROVE  LET c == calculateMaxThreads(input.opt, maxProcs)
               IN  SoundBudget(input.opt.numThreads, input.opt.maxThreads, c.numWorkers, c.fromWorkers, maxProcs, memory)
    <2>1. maxProcs \in Nat \ {0} /\ memory \in Nat
      BY <1>1, Zenon
    <2> QED
      BY <1>2, <2>1, ThreadsAreBudgeted, Zenon
  <1> QED
    BY <1>2, Zenon DEF BudgetSound
=============================================================================
