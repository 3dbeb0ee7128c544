------------------------- MODULE PhpThreadsRouting --------------------------
(***************************************************************************)
(* Proofs about PhpThreads, layers 13 and 14 of the invariant: who starts  *)
(* the C thread of a thread that reboots, and who is listed in a pool.     *)
(* Then the theorem that a pool hands its requests to threads of its own.  *)
(***************************************************************************)
EXTENDS PhpThreadsStates

-----------------------------------------------------------------------------
(* Layer 13: who starts the C thread of a thread that reboots *)

\* Every C thread that is asked for starts, or threads only reboot for
\* rebootAllThreads, which waits for them.
Steady == FailureBound = 0 \/ MaxRequests = 0

\* Without failures no thread is released, and without max_requests a
\* startRebootedThread runs for rebootAllThreads.
Rebooter(t) ==
    /\ FailureBound = 0 => rpc[t] \notin {"release", "reserve"}
    /\ MaxRequests = 0 /\ rpc[t] # "none" =>
          /\ mu = "reboot" /\ task["mu"][t] \in {"closeForce", "yield", "yielded", "down", "stable"}
          /\ task["mu"][t] = "stable" => state[t] = "RebootReady" /\ <<"mu", t>> \notin granted

\* Layer 13, C threads.
LEMMA CThreadRebooter ==
    ASSUME Types, Waits, \A t \in Thread : Shape(t) /\ Rebooter(t), NEW u \in Thread,
           CThread(u) \/ selectRequest(u) \/ Respawn(u)
    PROVE  \A t \in Thread : Rebooter(t)'
  <1>1. /\ UNCHANGED <<task, mu>> /\ OneCell(u)
        /\ \A t \in Thread : t # u => state'[t] = state[t] /\ rpc'[t] = rpc[t]
    BY CThreadFrame, Zenon
  <1>2. ASSUME NEW t \in Thread, t # u PROVE Rebooter(t)'
    <2>1. <<"mu", t>> \in granted' => <<"mu", t>> \in granted
      BY <1>1, <1>2, OtherCells, Zenon DEF Role, Actor
    <2> QED
      BY <1>1, <1>2, <2>1, Zenon DEF Rebooter
  <1> SUFFICES Rebooter(u)'
    BY <1>2, Zenon
  <1>3. Rebooter(u) /\ Shape(u)
    BY Zenon
  <1>4. CASE CThread(u) \/ selectRequest(u)
    <2>1. cpc[u] # "none"
      BY <1>4, Zenon DEF CThread, selectRequest, beforeScriptExecution, setInactive, idleWoken, setInactiveAgain,
        setReadyAgain, transitionToNewHandler, newHandlerCalled, setAndGo, setReady, waitForRequest,
        selectDrained, requestEnds, scriptEnds, scriptBooted, scriptFails, replaceUnhealthy, exitThread
    <2>2. ~(rpc[u] # "none" /\ state[u] = "RebootReady")
      BY <1>3, <2>1, Zenon DEF Shape, Respawning, Types, RStep
    <2>3. CASE waitForRequest(u)
      <3>1. UNCHANGED rpc \/ (MaxRequests > 0 /\ rpc' = [rpc EXCEPT ![u] = "rebooted"])
        BY <2>3, Zenon DEF waitForRequest, limitReached
      <3>2. CASE UNCHANGED rpc
        BY <1>1, <1>3, <2>2, <3>2, Zenon DEF Rebooter
      <3>3. CASE MaxRequests > 0 /\ rpc' = [rpc EXCEPT ![u] = "rebooted"]
        <4>1. MaxRequests # 0 /\ rpc'[u] = "rebooted"
          BY <3>3, SizeAssumption DEF Types
        <4> QED
          BY <4>1, Zenon DEF Rebooter
      <3> QED
        BY <3>1, <3>2, <3>3
    <2>4. CASE ~waitForRequest(u)
      <3>1. UNCHANGED rpc
        BY <1>4, <2>4, Zenon DEF CThread, selectRequest, beforeScriptExecution, setInactive, idleWoken, setInactiveAgain,
          setReadyAgain, transitionToNewHandler, newHandlerCalled, setAndGo, setReady,
          selectDrained, requestEnds, scriptEnds, scriptBooted, scriptFails, replaceUnhealthy, exitThread
      <3> QED
        BY <1>1, <1>3, <2>2, <3>1, Zenon DEF Rebooter
    <2> QED
      BY <2>3, <2>4
  <1>5. CASE Respawn(u)
    <2>1. rpc[u] # "none"
      BY <1>5, Zenon DEF Respawn, rebootedWoken, rebootedCreate, releaseDetach, releaseReserve
    <2>2. CASE rebootedWoken(u)
      <3>1. rpc'[u] = "create" /\ UNCHANGED state /\ granted' \subseteq granted
        BY <2>2, Zenon DEF rebootedWoken, Resume, Types
      <3> QED
        BY <1>1, <1>3, <2>1, <3>1, Zenon DEF Rebooter
    <2>3. CASE rebootedCreate(u)
      <3>1. UNCHANGED <<state, granted>> /\ rpc'[u] \in {"none", "release"}
        BY <2>3, Zenon DEF rebootedCreate, cellVars, Types
      <3>2. FailureBound = 0 => rpc'[u] = "none"
        BY <2>3, SizeAssumption DEF rebootedCreate, Types
      <3> QED
        BY <1>1, <1>3, <2>1, <3>1, <3>2, Zenon DEF Rebooter
    <2>4. CASE releaseDetach(u)
      <3>1. UNCHANGED <<state, granted>> /\ rpc'[u] = "reserve" /\ rpc[u] = "release"
        BY <2>4, Zenon DEF releaseDetach, cellVars, Types
      <3> QED
        BY <1>1, <1>3, <3>1, Zenon DEF Rebooter
    <2>5. CASE releaseReserve(u)
      <3>1. rpc'[u] = "none"
        BY <2>5, Zenon DEF releaseReserve, Types
      <3> QED
        BY <3>1, Zenon DEF Rebooter
    <2> QED
      BY <1>5, <2>2, <2>3, <2>4, <2>5, Zenon DEF Respawn
  <1> QED
    BY <1>4, <1>5

\* Layer 13, the actors.
LEMMA ActorRebooter ==
    ASSUME Types, Phases, MuSteps, Waits, \A t \in Thread : Shape(t) /\ Rebooter(t), Clear',
           NEW a \in Actor, NEW u \in Thread, Controller(a, u) \/ (a = "mu" /\ MuActs(u))
    PROVE  \A t \in Thread : Rebooter(t)'
  <1> USE DEF Actor
  <1>1. /\ OneCell(u) /\ task[a][u] # "none"
        /\ \A t \in Thread : t # u => state'[t] = state[t] /\ rpc'[t] = rpc[t]
    BY ActorFrame, Zenon
  <1>2. PICK x : Goto(a, u, x)
    BY ActorFrame, Zenon
  <1>3. /\ task'[a][u] = x
        /\ \A b \in Actor, t \in Thread : <<b, t>> # <<a, u>> => task'[b][t] = task[b][t]
    BY <1>2, GotoIs, Zenon
  <1>4. mu = "reboot" => a = "mu" /\ mu' = "reboot"
    <2>1. mu = "reboot" => a = "mu"
      BY <1>1, Alone, Zenon
    <2>2. mu = "reboot" => ~bootThread("mu", u)
      BY Zenon DEF MuSteps, RebootSteps, bootThread
    <2>3. mu = "reboot" => UNCHANGED mu
      BY <2>1, <2>2, Zenon DEF Controller, booted, retrySafe, setHandlerRequest, setHandlerClose, closeDrain,
         setHandlerComplete, MuActs, forceReboot, rebootClose, rebootResume, shutdownRequest, shutdownClose,
         shutdownExited, shutdownJoined, muVars
    <2> QED
      BY <2>1, <2>3, Zenon
  <1>5. ASSUME NEW t \in Thread, t # u PROVE Rebooter(t)'
    <2>1. <<"mu", t>> \in granted' => <<"mu", t>> \in granted
      BY <1>1, <1>5, OtherCells, Zenon DEF Role
    <2>2. task'["mu"][t] = task["mu"][t] /\ rpc'[t] = rpc[t] /\ state'[t] = state[t]
      BY <1>1, <1>3, <1>5, Zenon
    <2>3. Rebooter(t)
      BY Zenon
    <2> QED
      BY <1>4, <2>1, <2>2, <2>3, Zenon DEF Rebooter
  <1> SUFFICES Rebooter(u)'
    BY <1>5, Zenon
  <1>6. Rebooter(u) /\ Shape(u)
    BY Zenon
  <1>7. CASE a = "mu" /\ forceReboot(u)
    <2>1. task["mu"][u] = "force" /\ UNCHANGED mu
      BY <1>7, Zenon DEF forceReboot, muVars
    <2>2. mu = "reboot"
      BY <2>1, Zenon DEF MuSteps, AddSteps, DownSteps, DrainSteps, Types
    <2>3. CASE state[u] \in Stable
      <3>1. Goto("mu", u, "closeForce") /\ rpc'[u] = "rebooted"
        BY <1>7, <2>3, Zenon DEF forceReboot, RequestSafeStateChange, Refusing, Stable, Types
      <3>2. task'["mu"][u] = "closeForce"
        BY <3>1, GotoIs, Zenon
      <3> QED
        BY <2>1, <2>2, <3>1, <3>2, Zenon DEF Rebooter
    <2>4. CASE state[u] \notin Stable
      <3>1. rpc'[u] = rpc[u]
        BY <1>7, <2>4, Zenon DEF forceReboot, Types
      <3> QED
        BY <1>6, <2>1, <3>1, Zenon DEF Rebooter
    <2> QED
      BY <2>3, <2>4
  <1>8. CASE ~(a = "mu" /\ forceReboot(u))
    <2>1. UNCHANGED rpc
      BY <1>8, Zenon DEF Controller, bootThread, booted, retrySafe, setHandlerRequest, setHandlerClose, closeDrain,
         setHandlerComplete, MuActs, rebootClose, rebootResume, shutdownRequest, shutdownClose,
         shutdownExited, shutdownJoined, threadVars
    <2>2. CASE rpc[u] = "none" \/ MaxRequests # 0
      BY <1>6, <2>1, <2>2, Zenon DEF Rebooter
    <2>3. CASE rpc[u] # "none" /\ MaxRequests = 0
      <3>1. /\ mu = "reboot" /\ task["mu"][u] \in {"closeForce", "yield", "yielded", "down", "stable"}
            /\ a = "mu" /\ mu' = "reboot"
        BY <1>4, <1>6, <2>3, Zenon DEF Rebooter
      <3>2. rebootClose(u) \/ rebootResume(u)
        BY <1>8, <3>1, Zenon DEF Controller, bootThread, booted, retrySafe, setHandlerRequest, setHandlerClose, closeDrain,
           setHandlerComplete, MuActs, shutdownRequest, shutdownClose, shutdownExited, shutdownJoined
      <3>3. CASE rebootClose(u)
        <4>1. Goto("mu", u, "yield") \/ Goto("mu", u, "panic")
          BY <3>3 DEF rebootClose, closeDrain
        <4>2. task'["mu"][u] = "yield" \/ task'["mu"][u] = "panic"
          BY <4>1, GotoIs, Zenon
        <4>3. task'["mu"][u] = "yield"
          BY <4>2, Zenon DEF Clear
        <4> QED
          BY <1>6, <2>1, <3>1, <4>3, Zenon DEF Rebooter
      <3>4. CASE rebootResume(u)
        <4>1. state[u] = "YieldingForReboot" /\ task["mu"][u] = "down"
          BY <1>6, <3>4, Zenon DEF rebootResume, Shape
        <4>2. Goto("mu", u, "stable") /\ Publish(u, "RebootReady", {})
          BY <3>4, <4>1, Zenon DEF rebootResume
        <4>3. task'["mu"][u] = "stable"
          BY <4>2, GotoIs, Zenon
        <4>4. state'[u] = "RebootReady"
          BY <4>2, Zenon DEF Publish, Types
        <4>5. <<"mu", u>> \notin want \cup granted
          BY <4>1, Zenon DEF Waits, WaitStep
        <4>6. <<"mu", u>> \notin granted'
          BY <4>2, <4>5, Zenon DEF Publish
        <4> QED
          BY <1>6, <2>1, <3>1, <4>3, <4>4, <4>6, Zenon DEF Rebooter
      <3> QED
        BY <3>2, <3>3, <3>4
    <2> QED
      BY <2>2, <2>3, Zenon
  <1> QED
    BY <1>7, <1>8

\* Layer 13: every step keeps it.
LEMMA RebooterStep ==
    ASSUME Types, Phases, MuSteps, Waits, \A t \in Thread : Shape(t) /\ Rebooter(t), Clear', [Next]_vars
    PROVE  \A t \in Thread : Rebooter(t)'
  <1> USE DEF Actor
  <1>1. CASE \E u \in Thread : CThread(u) \/ selectRequest(u) \/ Respawn(u)
    BY <1>1, CThreadRebooter, Zenon
  <1>2. CASE \E a \in Actor, u \in Thread : Controller(a, u)
    BY <1>2, ActorRebooter, Zenon
  <1>3. CASE \E u \in Thread : MuActs(u)
    BY <1>3, ActorRebooter, Zenon
  <1> SUFFICES ASSUME initPick \/ addPick \/ Elsewhere, NEW t \in Thread
               PROVE  Rebooter(t)'
    BY <1>1, <1>2, <1>3, NextCases, Zenon
  <1>4. UNCHANGED rpc /\ Rebooter(t)
    BY PickFrame, ElsewhereFrame, Zenon
  <1>5. CASE rpc[t] = "none" \/ MaxRequests # 0
    BY <1>4, <1>5, Zenon DEF Rebooter
  <1>6. CASE rpc[t] # "none" /\ MaxRequests = 0
    <2>1. /\ mu = "reboot" /\ task["mu"][t] \in {"closeForce", "yield", "yielded", "down", "stable"}
          /\ task["mu"][t] = "stable" => state[t] = "RebootReady" /\ <<"mu", t>> \notin granted
      BY <1>4, <1>6, Zenon DEF Rebooter
    <2>2. ini = "running"
      BY <2>1, Zenon DEF MuSteps
    <2>3. ~initPick /\ ~addPick
      BY <2>1, <2>2, Zenon DEF initPick, addPick
    <2>4. Elsewhere
      BY <2>3
    <2>5. UNCHANGED state
      BY <2>4, ElsewhereFrame, Zenon
    <2>6. ASSUME mu' = mu, granted' \subseteq granted, task'["mu"][t] = task["mu"][t]
          PROVE  Rebooter(t)'
      BY <1>4, <2>1, <2>5, <2>6, Zenon DEF Rebooter
    <2>7. ASSUME mu' = mu, task'["mu"][t] \in {"yielded", "down"}
          PROVE  Rebooter(t)'
      BY <1>4, <2>1, <2>7, Zenon DEF Rebooter
    <2>8. CASE \/ \E r \in Role, v \in Thread : WaitFor(r, v)
               \/ \E v \in Thread : initStarted(v)
               \/ MainStep
               \/ \E p \in Pool : restoreQuit(p)
               \/ Over \/ UNCHANGED vars
      BY <2>6, <2>8, Zenon DEF WaitFor, initStarted, Resume, MainStep, mainTeardown, mainExit, mainStart, restoreQuit,
         Over, vars, muVars, cellVars
    <2>9. ASSUME NEW v \in Thread, rebootYielded(v) \/ rebootStable(v)
          PROVE  Rebooter(t)'
      <3>1. UNCHANGED mu /\ granted' \subseteq granted
        BY <2>9, Zenon DEF rebootYielded, rebootStable, Resume, muVars
      <3>2. CASE t # v
        <4>1. task'["mu"][t] = task["mu"][t]
          BY <2>9, <3>2, GotoIs, Zenon DEF rebootYielded, rebootStable
        <4> QED
          BY <2>6, <3>1, <4>1, Zenon
      <3>3. CASE t = v
        <4>1. ~rebootStable(t)
          <5>1. Awaited("stable") = {"Ready", "Inactive", "Reserved"}
            BY Zenon DEF Awaited
          <5> QED
            BY <2>1, <5>1, StepIs, Zenon DEF rebootStable, Passed
        <4>2. task'["mu"][t] = "yielded"
          BY <2>9, <3>3, <4>1, GotoIs, Zenon DEF rebootYielded
        <4> QED
          BY <2>7, <3>1, <4>2, Zenon
      <3> QED
        BY <3>2, <3>3
    <2>10. CASE rebootMain
      <3>1. UNCHANGED mu /\ task["mu"][t] \in {"yielded", "skip"}
        BY <2>10, Zenon DEF rebootMain, AllMu, muVars
      <3>2. task["mu"][t] = "yielded"
        BY <2>1, <3>1, Zenon
      <3>3. task'["mu"][t] = "down"
        BY <2>10, <3>2 DEF rebootMain, Types
      <3> QED
        BY <2>7, <3>1, <3>3, Zenon
    <2>11. /\ ~initBooted /\ ~initDone /\ ~(\E v \in Thread : initAttach(v))
           /\ ~(\E v \in Thread : addAttach(v) \/ addDone(v)) /\ ~DownStep
           /\ ~rebootDone /\ ~drainMain /\ ~drainDone
           /\ (\A p \in Pool : ~scale(p) /\ ~restoreThread(p)) /\ ~down /\ ~reboot /\ ~drainPHPThreads
      <3>1. ~(\E v \in Thread : initAttach(v)) /\ ~initBooted /\ ~initDone
        BY <2>2, Zenon DEF initAttach, initBooted, initDone, Phases, Started
      <3>2. ~rebootDone
        BY <2>1, Zenon DEF rebootDone, AllMu
      <3>3. ~DownStep
        BY <2>1, Zenon DEF DownStep, downDone, downCheck, downConverted, MuSteps, RebootSteps
      <3> QED
        BY <2>1, <3>1, <3>2, <3>3, Zenon DEF addAttach, addDone, drainMain, drainDone, scale, restoreThread, down, reboot,
           drainPHPThreads
    <2> QED
      BY <2>4, <2>8, <2>9, <2>10, <2>11, Zenon DEF Elsewhere
  <1> QED
    BY <1>5, <1>6, Zenon

-----------------------------------------------------------------------------
(* Layer 14: who is listed in a pool *)

Unlisted(t) == \A p \in Pool : pool[p][t] = 0

\* The thread that is about to be attached is in no pool and not on its way out
\* of one.
Joining(t) ==
    /\ Unlisted(t) /\ rpc[t] \notin {"release", "reserve"}
    /\ state[t] \notin {"Reserved", "BootRequested", "TransitionRequested", "TransitionInProgress"}

\* The main thread has not been asked to stop.
MainRuns == main \in {"Ready", "Rebooting", "YieldingForReboot"}

\* A thread is listed once, in the pool of its handler, and is listed nowhere when
\* the handler changes or the slot is free.
Listed(t) ==
    /\ \A p \in Pool : pool[p][t] = 0 \/ (pool[p][t] = 1 /\ handler[t] = p)
    /\ state[t] = "TransitionInProgress" \/ cpc[t] = "toNewHandler" \/ rpc[t] = "reserve" => Unlisted(t)
    /\ state[t] \in {"Reserved", "BootRequested"} /\ MainRuns => Unlisted(t)
    /\ \A a \in Actor : Adding(a) /\ task[a][t] = "attach" => Joining(t)

\* What Listed reads is as before.
LEMMA ListedSame ==
    ASSUME NEW t \in Thread, Listed(t), state'[t] = state[t], handler'[t] = handler[t], cpc'[t] = cpc[t],
           rpc'[t] = rpc[t], \A p \in Pool : pool'[p][t] = pool[p][t], MainRuns' => MainRuns,
           \A a \in Actor : Adding(a)' /\ task'[a][t] = "attach" => Adding(a) /\ task[a][t] = "attach"
    PROVE  Listed(t)'
  <1>1. (Unlisted(t)' <=> Unlisted(t)) /\ (Joining(t)' <=> Joining(t))
    BY Zenon DEF Unlisted, Joining
  <1> QED
    BY <1>1, Zenon DEF Listed

\* A thread that is detached from the pool of its handler is in none, and the other
\* threads stay where they are.
LEMMA DetachIs ==
    ASSUME NEW u \in Thread, Listed(u), Detach(u, handler[u])
    PROVE  Unlisted(u)' /\ \A t \in Thread : t # u => \A p \in Pool : pool'[p][t] = pool[p][t]
  <1>1. \A p \in Pool : pool'[p][u] = 0
    <2> TAKE p \in Pool
    <2>1. pool'[p][u] = IF p = handler[u] /\ pool[p][u] > 0 THEN pool[p][u] - 1 ELSE pool[p][u]
      BY Zenon DEF Detach
    <2>2. pool[p][u] = 0 \/ (pool[p][u] = 1 /\ handler[u] = p)
      BY Zenon DEF Listed
    <2> QED
      BY <2>1, <2>2
  <1>2. \A t \in Thread : t # u => \A p \in Pool : pool'[p][t] = pool[p][t]
    BY Zenon DEF Detach
  <1> QED
    BY <1>1, <1>2, Zenon DEF Unlisted

\* Layer 14, C threads.
LEMMA CThreadListed ==
    ASSUME Types, Phases, MuSteps, Steady,
           \A t \in Thread : Shape(t) /\ Conform(t) /\ Rebooter(t) /\ Rebooter(t)' /\ Listed(t),
           NEW u \in Thread, CThread(u) \/ selectRequest(u) \/ Respawn(u)
    PROVE  \A t \in Thread : Listed(t)'
  <1>1. /\ UNCHANGED <<task, mu, main, handler>>
        /\ \A t \in Thread : t # u => state'[t] = state[t] /\ cpc'[t] = cpc[t] /\ rpc'[t] = rpc[t]
    BY CThreadFrame, Zenon
  <1>2. Listed(u) /\ Conform(u) /\ Shape(u) /\ Rebooter(u) /\ Rebooter(u)'
    BY Zenon
  <1>3. (MainRuns' <=> MainRuns) /\ \A a : Adding(a)' <=> Adding(a)
    BY <1>1, Zenon DEF MainRuns, Adding
  <1>4. ASSUME \A t \in Thread : t # u => \A p \in Pool : pool'[p][t] = pool[p][t], Listed(u)'
        PROVE  \A t \in Thread : Listed(t)'
    <2>1. ASSUME NEW t \in Thread, t # u PROVE Listed(t)'
      BY <1>1, <1>3, <1>4, <2>1, ListedSame, Zenon
    <2> QED
      BY <1>4, <2>1, Zenon
  <1>5. ASSUME Detach(u, handler[u]), UNCHANGED state, rpc'[u] = rpc[u] \/ rpc[u] = "release"
        PROVE  \A t \in Thread : Listed(t)'
    <2>1. Unlisted(u)' /\ \A t \in Thread : t # u => \A p \in Pool : pool'[p][t] = pool[p][t]
      BY <1>2, <1>5, DetachIs, Zenon
    <2>2. ASSUME NEW a \in Actor, Adding(a)', task'[a][u] = "attach" PROVE Joining(u)'
      BY <1>1, <1>2, <1>3, <1>5, <2>1, <2>2, Zenon DEF Joining, Listed
    <2>3. Listed(u)'
      BY <2>1, <2>2, Zenon DEF Listed, Unlisted
    <2> QED
      BY <1>4, <2>1, <2>3, Zenon
  <1>6. ASSUME UNCHANGED <<pool, state>>, cpc'[u] # "toNewHandler", rpc'[u] # "reserve"
        PROVE  \A t \in Thread : Listed(t)'
    <2>1. Unlisted(u)' <=> Unlisted(u)
      BY <1>6, Zenon DEF Unlisted
    <2>2. ASSUME NEW a \in Actor, Adding(a)', task'[a][u] = "attach" PROVE Joining(u)'
      <3>1. Joining(u)
        BY <1>1, <1>2, <1>3, <2>2, Zenon DEF Listed
      <3>2. CASE rpc'[u] # "release"
        BY <1>6, <2>1, <3>1, <3>2, Zenon DEF Joining
      <3>3. CASE rpc'[u] = "release"
        <4>1. FailureBound # 0 /\ MaxRequests = 0
          BY <1>2, <3>3, Zenon DEF Rebooter, Steady
        <4>2. mu' = "reboot"
          BY <1>2, <3>3, <4>1, Zenon DEF Rebooter
        <4>3. mu = "reboot"
          BY <1>1, <4>2, Zenon
        <4>4. a = "init"
          BY <1>3, <2>2, <4>3, Zenon DEF Adding, Actor
        <4> QED
          BY <1>1, <2>2, <4>3, <4>4, Zenon DEF Phases
      <3> QED
        BY <3>2, <3>3
    <2>3. Listed(u)'
      BY <1>1, <1>2, <1>3, <1>6, <2>1, <2>2, Zenon DEF Listed
    <2> QED
      BY <1>4, <1>6, <2>3, Zenon
  <1>7. ASSUME UNCHANGED pool, cpc'[u] # "toNewHandler",
               \/ /\ rpc'[u] \in {rpc[u], "rebooted"}
                  /\ state'[u] \in {"Inactive", "Ready", "Rebooting", "ShuttingDown", "RebootReady",
                                    "YieldingForReboot", "Done"}
               \/ Unlisted(u) /\ ~Joining(u)
        PROVE  \A t \in Thread : Listed(t)'
    <2>1. Unlisted(u)' <=> Unlisted(u)
      BY <1>7, Zenon DEF Unlisted
    <2>2. ASSUME NEW a \in Actor, Adding(a)', task'[a][u] = "attach" PROVE Joining(u)'
      <3>1. Joining(u)
        BY <1>1, <1>2, <1>3, <2>2, Zenon DEF Listed
      <3> QED
        BY <1>7, <2>1, <3>1, Zenon DEF Joining
    <2>3. ASSUME Unlisted(u) PROVE Listed(u)'
      BY <2>1, <2>2, <2>3, Zenon DEF Listed, Unlisted
    <2>4. ASSUME ~Unlisted(u) PROVE Listed(u)'
      <3>1. rpc'[u] # "reserve"
        BY <1>2, <1>7, <2>4, Zenon DEF Listed
      <3> QED
        BY <1>1, <1>2, <1>7, <2>2, <2>4, <3>1, Zenon DEF Listed
    <2> QED
      BY <1>4, <1>7, <2>3, <2>4, Zenon
  <1>8. CASE beforeScriptExecution(u)
    <2>1. UNCHANGED <<state, rpc>> /\ cpc' = [cpc EXCEPT ![u] = Branch(handler[u], state[u])]
      BY <1>8, Zenon DEF beforeScriptExecution, cellVars, CGoto
    <2>2. CASE state[u] \in {"TransitionRequested", "ShuttingDown"}
      <3>1. Detach(u, handler[u])
        BY <1>8, <2>2, Zenon DEF beforeScriptExecution
      <3> QED
        BY <1>5, <2>1, <3>1, Zenon
    <2>3. CASE state[u] \notin {"TransitionRequested", "ShuttingDown"}
      <3>1. UNCHANGED pool
        BY <1>8, <2>3, Zenon DEF beforeScriptExecution
      <3>2. Branch(handler[u], state[u]) # "toNewHandler"
        BY <2>3 DEF Branch
      <3>3. cpc'[u] # "toNewHandler"
        BY <2>1, <3>2, Zenon DEF Types
      <3>4. rpc[u] # "reserve"
        BY <1>2, <1>8, Zenon DEF beforeScriptExecution, Shape, Respawning
      <3> QED
        BY <1>6, <2>1, <3>1, <3>3, <3>4, Zenon
    <2> QED
      BY <2>2, <2>3
  <1>9. CASE (CThread(u) /\ ~beforeScriptExecution(u)) \/ selectRequest(u)
    <2>1. UNCHANGED pool
      BY <1>9, Zenon DEF CThread, selectRequest, setInactive, idleWoken, setInactiveAgain,
        setReadyAgain, transitionToNewHandler, newHandlerCalled, setAndGo, setReady, waitForRequest,
        selectDrained, requestEnds, scriptEnds, scriptBooted, scriptFails, replaceUnhealthy, exitThread, poolVars
    <2>2. cpc'[u] # "toNewHandler"
      BY <1>9, Zenon DEF CThread, selectRequest, setInactive, idleWoken, setInactiveAgain,
        setReadyAgain, transitionToNewHandler, newHandlerCalled, setAndGo, setReady, waitForRequest,
        selectDrained, requestEnds, scriptEnds, scriptBooted, scriptFails, replaceUnhealthy, exitThread, CGoto, Types
    <2>3. cpc[u] # "none"
      BY <1>9, Zenon DEF CThread, selectRequest, setInactive, idleWoken, setInactiveAgain,
        setReadyAgain, transitionToNewHandler, newHandlerCalled, setAndGo, setReady, waitForRequest,
        selectDrained, requestEnds, scriptEnds, scriptBooted, scriptFails, replaceUnhealthy, exitThread
    <2>4. rpc[u] # "reserve"
      BY <1>2, <2>3, Zenon DEF Shape, Respawning
    <2>5. rpc'[u] \in {rpc[u], "rebooted"}
      BY <1>9, Zenon DEF CThread, selectRequest, setInactive, idleWoken, setInactiveAgain,
        setReadyAgain, transitionToNewHandler, newHandlerCalled, setAndGo, setReady, waitForRequest,
        selectDrained, requestEnds, scriptEnds, scriptBooted, scriptFails, replaceUnhealthy, exitThread, Types
    <2>6. CASE UNCHANGED state
      BY <1>6, <2>1, <2>2, <2>4, <2>5, <2>6, Zenon
    <2>7. CASE transitionToNewHandler(u)
      <3>1. cpc[u] = "toNewHandler"
        BY <2>7, Zenon DEF transitionToNewHandler, setAndGo
      <3>2. Unlisted(u) /\ ~Joining(u)
        BY <1>2, <3>1, Zenon DEF Listed, Conform, Joining
      <3> QED
        BY <1>7, <2>1, <2>2, <3>2, Zenon
    <2>8. CASE setInactive(u) \/ setInactiveAgain(u) \/ setReady(u) \/ setReadyAgain(u)
      <3>1. state'[u] \in {"Inactive", "Ready"}
        BY <2>8, Zenon DEF setInactive, setInactiveAgain, setReady, setReadyAgain, setAndGo, Publish, Types
      <3> QED
        BY <1>7, <2>1, <2>2, <2>5, <3>1, Zenon
    <2>9. CASE (waitForRequest(u) \/ scriptFails(u)) /\ ~UNCHANGED state
      <3>1. Publish(u, "Rebooting", {}) \/ Publish(u, "ShuttingDown", {})
        BY <2>9, Zenon DEF waitForRequest, scriptFails, cellVars
      <3>2. state'[u] \in {"Rebooting", "ShuttingDown"}
        BY <3>1, Zenon DEF Publish, Types
      <3> QED
        BY <1>7, <2>1, <2>2, <2>5, <3>2, Zenon
    <2>10. CASE exitThread(u)
      <3>1. Publish(u, "RebootReady", {}) \/ Publish(u, "YieldingForReboot", {}) \/ Publish(u, "Done", {})
        BY <2>10 DEF exitThread
      <3>2. state'[u] \in {"RebootReady", "YieldingForReboot", "Done"}
        BY <3>1, Zenon DEF Publish, Types
      <3> QED
        BY <1>7, <2>1, <2>2, <2>5, <3>2, Zenon
    <2> QED
      BY <1>9, <2>6, <2>7, <2>8, <2>9, <2>10, Zenon DEF CThread, selectRequest, idleWoken, newHandlerCalled,
         selectDrained, requestEnds, scriptEnds, scriptBooted, replaceUnhealthy, Resume, cellVars
  <1>10. CASE Respawn(u)
    <2>1. CASE releaseDetach(u)
      BY <1>5, <2>1, Zenon DEF releaseDetach, cellVars
    <2>2. CASE releaseReserve(u)
      <3>1. UNCHANGED <<pool, cpc>> /\ rpc[u] = "reserve"
        BY <2>2, Zenon DEF releaseReserve, poolVars
      <3>2. Unlisted(u) /\ ~Joining(u) /\ cpc[u] = "none"
        BY <1>2, <3>1, Zenon DEF Listed, Joining, Shape, Respawning
      <3> QED
        BY <1>7, <3>1, <3>2, Zenon
    <2>3. CASE rebootedWoken(u) \/ rebootedCreate(u)
      <3>1. UNCHANGED <<pool, state>> /\ rpc'[u] \in {"create", "none", "release"}
        BY <2>3, Zenon DEF rebootedWoken, rebootedCreate, Resume, cellVars, poolVars, Types
      <3>2. cpc'[u] \in {cpc[u], "before"}
        BY <2>3, Zenon DEF rebootedWoken, rebootedCreate, CGoto, Types
      <3>3. cpc[u] # "toNewHandler"
        <4>1. CASE rebootedCreate(u)
          BY <1>2, <4>1, Zenon DEF rebootedCreate, Shape, Respawning
        <4>2. CASE rebootedWoken(u)
          <5>1. Awaited("rebooted") = {"RebootReady"}
            BY Zenon DEF Awaited
          <5>2. Respawning(u)
            BY <4>2, <5>1, StepIs, Zenon DEF rebootedWoken, Passed, Respawning
          <5> QED
            BY <1>2, <5>2, Zenon DEF Shape
        <4> QED
          BY <2>3, <4>1, <4>2
      <3> QED
        BY <1>6, <3>1, <3>2, <3>3, Zenon
    <2> QED
      BY <1>10, <2>1, <2>2, <2>3, Zenon DEF Respawn
  <1> QED
    BY <1>8, <1>9, <1>10, Zenon DEF CThread

\* Layer 14, the actors.
LEMMA ActorListed ==
    ASSUME Types, Phases, MuSteps, Waits, MainShape, Claimed, Adds, \A t \in Thread : Shape(t) /\ Listed(t),
           NEW a \in Actor, NEW u \in Thread, Controller(a, u) \/ (a = "mu" /\ MuActs(u))
    PROVE  \A t \in Thread : Listed(t)'
  <1> USE DEF Actor
  <1>1. /\ OneCell(u) /\ task[a][u] # "none" /\ UNCHANGED <<main, pool>>
        /\ \A t \in Thread : t # u => /\ state'[t] = state[t] /\ handler'[t] = handler[t] /\ cpc'[t] = cpc[t]
                                      /\ rpc'[t] = rpc[t]
    BY ActorFrame, Zenon
  <1>2. PICK x : Goto(a, u, x)
    BY ActorFrame, Zenon
  <1>3. /\ task'[a][u] = x
        /\ \A b \in Actor, t \in Thread : <<b, t>> # <<a, u>> => task'[b][t] = task[b][t]
    BY <1>2, GotoIs, Zenon
  <1>4. mu' = mu \/ mu' = "free"
    BY ActorMu, Zenon
  <1>5. (MainRuns' <=> MainRuns) /\ \A b : Adding(b)' => Adding(b)
    BY <1>1, <1>4, Zenon DEF MainRuns, Adding
  <1>6. ASSUME NEW t \in Thread, t # u PROVE Listed(t)'
    <2>1. \A b \in Actor : task'[b][t] = task[b][t]
      BY <1>3, <1>6, Zenon
    <2>2. Listed(t) /\ \A p \in Pool : pool'[p][t] = pool[p][t]
      BY <1>1, Zenon
    <2>3. /\ state'[t] = state[t] /\ handler'[t] = handler[t] /\ cpc'[t] = cpc[t] /\ rpc'[t] = rpc[t]
      BY <1>1, <1>6, Zenon
    <2> QED
      BY <1>5, <2>1, <2>2, <2>3, ListedSame, Zenon
  <1> SUFFICES Listed(u)'
    BY <1>6, Zenon
  <1>7. Listed(u) /\ Shape(u) /\ Added(a, u)
    BY Zenon DEF Adds
  <1>8. \A b \in Actor : b # a => task'[b][u] = "none"
    <2>1. \A b \in Actor : b # a => task[b][u] = "none"
      BY <1>1, Alone, Zenon
    <2> QED
      BY <1>3, <2>1, Zenon
  <1>9. Unlisted(u)' <=> Unlisted(u)
    BY <1>1, Zenon DEF Unlisted
  <1>10. \A b \in Actor : Adding(b)' /\ task'[b][u] = "attach" => b = a /\ x = "attach" /\ Adding(a)
    BY <1>3, <1>5, <1>8, Zenon
  <1>11. ASSUME Unlisted(u), x # "attach" \/ Joining(u)' PROVE Listed(u)'
    BY <1>9, <1>10, <1>11, Zenon DEF Listed, Unlisted
  <1>12. ASSUME handler'[u] = handler[u], cpc'[u] # "toNewHandler" \/ cpc'[u] = cpc[u],
                rpc'[u] # "reserve" \/ rpc'[u] = rpc[u],
                x # "attach" \/ ~Adding(a),
                \/ state'[u] = state[u]
                \/ state'[u] \notin {"TransitionInProgress", "Reserved", "BootRequested"}
                \/ state'[u] = "Reserved" /\ ~MainRuns
         PROVE  Listed(u)'
    <2>1. CASE Unlisted(u)
      <3>1. \A b \in Actor : ~(Adding(b)' /\ task'[b][u] = "attach")
        BY <1>10, <1>12, Zenon
      <3> QED
        BY <1>9, <2>1, <3>1, Zenon DEF Listed, Unlisted
    <2>2. CASE ~Unlisted(u)
      <3>1. \A b \in Actor : ~(Adding(b)' /\ task'[b][u] = "attach")
        BY <1>10, <1>12, Zenon
      <3>2. ~(state'[u] = "TransitionInProgress" \/ cpc'[u] = "toNewHandler" \/ rpc'[u] = "reserve")
        BY <1>7, <1>12, <2>2, Zenon DEF Listed
      <3>3. ~(state'[u] \in {"Reserved", "BootRequested"} /\ MainRuns')
        BY <1>5, <1>7, <1>12, <2>2, Zenon DEF Listed
      <3>4. \A p \in Pool : pool'[p][u] = 0 \/ (pool'[p][u] = 1 /\ handler'[u] = p)
        BY <1>1, <1>7, <1>12, Zenon DEF Listed
      <3> QED
        BY <3>1, <3>2, <3>3, <3>4, Zenon DEF Listed
    <2> QED
      BY <2>1, <2>2
  <1>13. CASE bootThread(a, u)
    <2>1. state[u] \in {"Reserved", "BootRequested"} /\ task[a][u] = "create"
      BY <1>13, Zenon DEF bootThread, Claimed
    <2>2. main = "Ready"
      <3>1. CASE a = "init"
        BY <2>1, <3>1, Zenon DEF Phases
      <3>2. CASE a = "mu"
        <4>1. mu \in {"scale", "restore"}
          BY <2>1, <3>2, Zenon DEF MuSteps, Types, DownSteps, RebootSteps, DrainSteps
        <4> QED
          BY <4>1, Zenon DEF MainShape
      <3> QED
        BY <3>1, <3>2
    <2>3. Unlisted(u)
      BY <1>7, <2>1, <2>2, Zenon DEF Listed, MainRuns
    <2>4. Goto(a, u, "boot") \/ Goto(a, u, "none")
      BY <1>13, <2>1, Zenon DEF bootThread
    <2>5. task'[a][u] = "boot" \/ task'[a][u] = "none"
      BY <2>4, GotoIs, ZenonT(30)
    <2> QED
      BY <1>3, <1>11, <2>3, <2>5, Zenon
  <1>14. CASE setHandlerComplete(a, u)
    <2>1. task[a][u] = "transit" /\ Passed(a, u) /\ Publish(u, "TransitionComplete", {<<a, u>>}) /\ UNCHANGED rpc
      BY <1>14, Zenon DEF setHandlerComplete
    <2>2. state[u] = "TransitionInProgress"
      <3>1. Awaited("transit") = {"TransitionInProgress"}
        BY Zenon DEF Awaited
      <3> QED
        BY <1>7, <2>1, <3>1, StepIs, Zenon DEF Passed, Shape
    <2>3. Unlisted(u)
      BY <1>7, <2>2, Zenon DEF Listed
    <2>4. state'[u] = "TransitionComplete"
      BY <2>1, Zenon DEF Publish, Types
    <2>5. rpc[u] \notin {"release", "reserve"}
      BY <1>7, <2>2, Zenon DEF Shape, Respawning
    <2>6. Joining(u)'
      BY <1>9, <2>1, <2>3, <2>4, <2>5, Zenon DEF Joining
    <2> QED
      BY <1>11, <2>3, <2>6, Zenon
  <1>15. CASE setHandlerRequest(a, u)
    <2>1. task[a][u] = "convert" /\ UNCHANGED <<handler, cpc, rpc>>
      BY <1>15, Zenon DEF setHandlerRequest, threadVars
    <2>2. CASE state[u] \in Stable
      <3>1. Publish(u, "TransitionRequested", {}) /\ Goto(a, u, "close")
        BY <1>15, <2>2, Zenon DEF setHandlerRequest, RequestSafeStateChange, Stable, Refusing
      <3>2. state'[u] = "TransitionRequested"
        BY <3>1, Zenon DEF Publish, Types
      <3>3. task'[a][u] = "close"
        BY <3>1, GotoIs
      <3> QED
        BY <1>3, <1>12, <2>1, <3>2, <3>3, Zenon
    <2>3. CASE state[u] \notin Stable
      <3>1. UNCHANGED state
        BY <1>15, <2>3, Zenon DEF setHandlerRequest, RequestSafeStateChange, cellVars
      <3>2. ~Adding(a)
        BY <1>7, <2>1, <2>3, Zenon DEF Added, Stable
      <3> QED
        BY <1>12, <2>1, <3>1, <3>2, Zenon
    <2> QED
      BY <2>2, <2>3
  <1>16. CASE booted(a, u) \/ retrySafe(a, u) \/ setHandlerClose(a, u)
    <2>1. UNCHANGED <<state, handler, cpc, rpc>>
      BY <1>16, Zenon DEF booted, retrySafe, setHandlerClose, closeDrain, Resume, cellVars, threadVars
    <2>2. \E y \in {"none", "convert", "force", "shutdown", "transit", "panic"} : Goto(a, u, y)
      BY <1>16 DEF booted, retrySafe, setHandlerClose, closeDrain
    <2>3. task'[a][u] # "attach"
      BY <2>2, GotoIs, Zenon
    <2> QED
      BY <1>3, <1>12, <2>1, <2>3, Zenon
  <1>17. CASE a = "mu" /\ MuActs(u)
    <2>1. UNCHANGED <<handler, cpc>> /\ (rpc'[u] = rpc[u] \/ rpc'[u] = "rebooted")
      BY <1>17, Zenon DEF MuActs, forceReboot, rebootClose, rebootResume, shutdownRequest, shutdownClose, shutdownExited,
         shutdownJoined, closeDrain, threadVars, Types
    <2>2. \E y \in {"closeForce", "skip", "safeForce", "yield", "panic", "stable", "closeDown", "join", "safeDown",
                     "exit", "none"} : Goto(a, u, y)
      BY <1>17, Zenon DEF MuActs, forceReboot, rebootClose, rebootResume, shutdownRequest, shutdownClose, shutdownExited,
         shutdownJoined, closeDrain, RequestSafeStateChange
    <2>3. task'[a][u] # "attach"
      BY <2>2, GotoIs, Zenon
    <2>4. CASE shutdownExited(u) \/ shutdownJoined(u)
      <3>1. task["mu"][u] \in {"exit", "join"}
        BY <2>4, Zenon DEF shutdownExited, shutdownJoined
      <3>2. mu = "drain"
        BY <3>1, Zenon DEF MuSteps, Types, AddSteps, DownSteps, RebootSteps
      <3>3. ~MainRuns
        BY <3>2, Zenon DEF MainShape, MainRuns
      <3>4. state'[u] = state[u] \/ state'[u] = "Reserved"
        BY <2>4, Zenon DEF shutdownExited, shutdownJoined, Publish, Resume, Types
      <3> QED
        BY <1>3, <1>12, <2>1, <2>3, <3>3, <3>4, Zenon
    <2>5. CASE forceReboot(u) \/ rebootResume(u) \/ shutdownRequest(u) \/ rebootClose(u) \/ shutdownClose(u)
      <3>1. state'[u] = state[u] \/ state'[u] \in {"ForceRebooting", "RebootReady", "ShuttingDown"}
        BY <2>5, Zenon DEF forceReboot, rebootClose, rebootResume, shutdownRequest, shutdownClose, closeDrain,
           RequestSafeStateChange, Publish, cellVars, Types
      <3> QED
        BY <1>3, <1>12, <2>1, <2>3, <3>1, Zenon
    <2> QED
      BY <1>17, <2>4, <2>5, Zenon DEF MuActs
  <1> QED
    BY <1>13, <1>14, <1>15, <1>16, <1>17, Zenon DEF Controller

\* Layer 14, the choice of a thread.
LEMMA PickListed ==
    ASSUME Types, \A t \in Thread : Listed(t), initPick \/ addPick
    PROVE  \A t \in Thread : Listed(t)'
  <1> USE DEF Actor
  <1>1. UNCHANGED <<handler, cpc, rpc, main, pool>>
    BY PickFrame, Zenon
  <1>2. PICK a \in Actor : inactivePHPThread(a)
    BY Zenon DEF initPick, addPick
  <1>3. mu' = mu \/ mu' = "free"
    BY <1>2, Zenon DEF inactivePHPThread, noThread, initPick, addPick
  <1>4. (MainRuns' <=> MainRuns) /\ \A b : Adding(b)' => Adding(b)
    BY <1>1, <1>3, Zenon DEF MainRuns, Adding
  <1>5. \A b \in Actor, t \in Thread : task'[b][t] = "attach" => task[b][t] = "attach"
    <2>1. UNCHANGED task \/ \E v \in Thread : Goto(a, v, "convert") \/ Goto(a, v, "create")
      BY <1>2, Zenon DEF inactivePHPThread
    <2>2. ASSUME NEW v \in Thread, NEW x \in {"convert", "create"}, Goto(a, v, x), NEW b \in Actor, NEW t \in Thread,
                 task'[b][t] = "attach"
          PROVE  task[b][t] = "attach"
      <3>1. /\ task'[a][v] = x
            /\ <<b, t>> # <<a, v>> => task'[b][t] = task[b][t]
        BY <2>2, GotoIs
      <3> QED
        BY <2>2, <3>1
    <2> QED
      BY <2>1, <2>2, Zenon
  <1> TAKE t \in Thread
  <1>6. Listed(t) /\ \A p \in Pool : pool'[p][t] = pool[p][t]
    BY <1>1, Zenon
  <1>7. handler'[t] = handler[t] /\ cpc'[t] = cpc[t] /\ rpc'[t] = rpc[t]
    BY <1>1, Zenon
  <1>8. CASE state'[t] = state[t]
    BY <1>4, <1>5, <1>6, <1>7, <1>8, ListedSame, Zenon
  <1>9. CASE state[t] = "Reserved" /\ state'[t] = "BootRequested"
    <2>1. \A b \in Actor : ~(Adding(b)' /\ task'[b][t] = "attach")
      BY <1>4, <1>5, <1>6, <1>9, Zenon DEF Listed, Joining
    <2>2. Unlisted(t)' <=> Unlisted(t)
      BY <1>6, Zenon DEF Unlisted
    <2> QED
      BY <1>4, <1>6, <1>7, <1>9, <2>1, <2>2, Zenon DEF Listed
  <1> QED
    BY <1>8, <1>9, PickFrame, Zenon

\* Layer 14: a thread is attached to the pool of its handler.
LEMMA AttachListed ==
    ASSUME Types, Adds, \A t \in Thread : Conform(t) /\ Listed(t), NEW a \in Actor, NEW u \in Thread,
           Adding(a), task[a][u] = "attach", Attach(u, Target(a)), NEW x, Goto(a, u, x), x # "attach",
           UNCHANGED <<state, handler, cpc, rpc, mu, main>>,
           \A b \in Actor : b # a => task[b][u] = "none"
    PROVE  \A t \in Thread : Listed(t)'
  <1>1. /\ task'[a][u] = x
        /\ \A b \in Actor, t \in Thread : <<b, t>> # <<a, u>> => task'[b][t] = task[b][t]
    BY GotoIs, Zenon
  <1>2. (MainRuns' <=> MainRuns) /\ \A b : Adding(b)' <=> Adding(b)
    BY Zenon DEF MainRuns, Adding
  <1>3. Joining(u) /\ handler[u] = Target(a)
    BY Zenon DEF Listed, Adds, Added
  <1>4. /\ \A p \in Pool : pool'[p][u] = IF p = Target(a) THEN 1 ELSE 0
        /\ \A t \in Thread : t # u => \A p \in Pool : pool'[p][t] = pool[p][t]
    <2>1. \A p \in Pool, t \in Thread : pool'[p][t] = IF p = Target(a) /\ t = u THEN pool[p][t] + 1 ELSE pool[p][t]
      BY DEF Attach, Types
    <2>2. \A p \in Pool : pool[p][u] = 0
      BY <1>3, Zenon DEF Joining, Unlisted
    <2> QED
      BY <2>1, <2>2
  <1>5. ASSUME NEW t \in Thread, t # u PROVE Listed(t)'
    <2>1. \A b \in Actor : task'[b][t] = task[b][t]
      BY <1>1, <1>5, Zenon
    <2>2. Listed(t) /\ \A p \in Pool : pool'[p][t] = pool[p][t]
      BY <1>4, <1>5, Zenon
    <2> QED
      BY <1>2, <2>1, <2>2, ListedSame, Zenon
  <1>6. Listed(u)'
    <2>1. \A b \in Actor : task'[b][u] # "attach"
      BY <1>1, Zenon
    <2>2. \A p \in Pool : pool'[p][u] = 0 \/ (pool'[p][u] = 1 /\ handler'[u] = p)
      BY <1>3, <1>4
    <2>3. cpc[u] # "toNewHandler"
      BY <1>3, Zenon DEF Joining, Conform
    <2> QED
      BY <1>3, <2>1, <2>2, <2>3, Zenon DEF Listed, Joining
  <1> QED
    BY <1>5, <1>6, Zenon

\* Layer 14: every step keeps it.
LEMMA ListedStep ==
    ASSUME Types, Phases, MuSteps, Waits, MainShape, Counts, Claimed, Adds, Steady,
           \A t \in Thread : Shape(t) /\ Conform(t) /\ Rebooter(t) /\ Rebooter(t)' /\ Listed(t), [Next]_vars
    PROVE  \A t \in Thread : Listed(t)'
  <1> USE DEF Actor
  <1>1. CASE \E u \in Thread : CThread(u) \/ selectRequest(u) \/ Respawn(u)
    BY <1>1, CThreadListed, Zenon
  <1>2. CASE \E a \in Actor, u \in Thread : Controller(a, u)
    BY <1>2, ActorListed, Zenon
  <1>3. CASE \E u \in Thread : MuActs(u)
    BY <1>3, ActorListed, Zenon
  <1>4. CASE initPick \/ addPick
    BY <1>4, PickListed, Zenon
  <1>5. CASE Elsewhere
    <2>1. UNCHANGED <<state, handler, cpc, rpc>>
      BY <1>5, ElsewhereFrame, Zenon
    <2>2. ASSUME NEW t \in Thread, initAttach(t) PROVE \A u \in Thread : Listed(u)'
      <3>1. /\ task["init"][t] = "attach" /\ Attach(t, Target("init")) /\ Goto("init", t, "none")
            /\ UNCHANGED <<mu, main>> /\ Adding("init")
        BY <2>2, Zenon DEF initAttach, muVars, mainVars, Adding
      <3>2. \A b \in Actor : b # "init" => task[b][t] = "none"
        BY <3>1, Alone, Zenon
      <3> QED
        BY <2>1, <3>1, <3>2, AttachListed, Zenon
    <2>3. ASSUME NEW t \in Thread, addAttach(t) PROVE \A u \in Thread : Listed(u)'
      <3>1. /\ task["mu"][t] = "attach" /\ Attach(t, Target("mu")) /\ Goto("mu", t, "stable")
            /\ UNCHANGED <<mu, main>> /\ Adding("mu")
        BY <2>3, Zenon DEF addAttach, muVars, mainVars, Adding, Target
      <3>2. \A b \in Actor : b # "mu" => task[b][t] = "none"
        BY <3>1, Alone, Zenon
      <3> QED
        BY <2>1, <3>1, <3>2, AttachListed, Zenon
    <2>4. ASSUME UNCHANGED pool, MainRuns' => MainRuns,
                 \A a \in Actor, t \in Thread :
                     Adding(a)' /\ task'[a][t] = "attach" => Adding(a) /\ task[a][t] = "attach"
          PROVE  \A t \in Thread : Listed(t)'
      <3> TAKE t \in Thread
      <3>1. Listed(t) /\ \A p \in Pool : pool'[p][t] = pool[p][t]
        BY <2>4, Zenon
      <3> QED
        BY <2>1, <2>4, <3>1, ListedSame, Zenon
    <2>5. CASE ~\E t \in Thread : initAttach(t) \/ addAttach(t)
      <3>1. UNCHANGED pool
        BY <1>5, <2>5, Zenon DEF Elsewhere, WaitFor, initBooted, initDone, initStarted, addDone,
           DownStep, downDone, downCheck, downConverted, rebootMain, rebootDone, rebootYielded, rebootStable,
           drainMain, drainDone, MainStep, mainTeardown, mainExit, mainStart, scale, restoreThread, restoreQuit,
           down, reboot, drainPHPThreads, Over, vars, poolVars
      <3>2. MainRuns' => MainRuns
        <4>1. CASE MainStep
          <5>1. main \in {"Rebooting", "Done", "YieldingForReboot"} /\ (main = "Done" => main' \in {"Done", "Reserved"})
            BY <4>1, Zenon DEF MainStep, mainTeardown, mainExit, mainStart
          <5> QED
            BY <5>1, Zenon DEF MainRuns
        <4>2. CASE ~MainStep
          BY <1>5, <2>5, <4>2, Zenon DEF Elsewhere, WaitFor, initBooted, initDone, initStarted, addDone,
             DownStep, downDone, downCheck, downConverted, rebootMain, rebootDone, rebootYielded, rebootStable,
             drainMain, drainDone, scale, restoreThread, restoreQuit,
             down, reboot, drainPHPThreads, Over, vars, mainVars, MainRuns
        <4> QED
          BY <4>1, <4>2
      <3>3. ASSUME UNCHANGED task, mu' = mu \/ mu' = "free" PROVE \A t \in Thread : Listed(t)'
        BY <2>4, <3>1, <3>2, <3>3, Zenon DEF Adding
      <3>4. ASSUME \A t \in Thread : task'["init"][t] = task["init"][t] /\ task'["mu"][t] # "attach"
            PROVE  \A t \in Thread : Listed(t)'
        BY <2>4, <3>1, <3>2, <3>4, Zenon DEF Adding
      <3>5. CASE \/ \E r \in Role, t \in Thread : WaitFor(r, t)
                 \/ initBooted \/ initDone \/ \E t \in Thread : initStarted(t)
                 \/ downDone \/ rebootDone \/ drainMain \/ drainDone \/ MainStep
                 \/ \E p \in Pool : restoreQuit(p)
                 \/ Over \/ UNCHANGED vars
        BY <3>3, <3>5, Zenon DEF WaitFor, initBooted, initDone, initStarted, downDone, rebootDone, drainMain, drainDone,
           MainStep, mainTeardown, mainExit, mainStart, restoreQuit, Over, vars, muVars
      <3>6. ASSUME NEW t \in Thread, addDone(t) \/ downCheck(t) \/ downConverted(t) \/ rebootYielded(t) \/ rebootStable(t)
            PROVE  \A u \in Thread : Listed(u)'
        <4>1. mu' = mu \/ mu' = "free"
          BY <3>6, Zenon DEF addDone, downCheck, downConverted, rebootYielded, rebootStable, muVars
        <4>2. \E x \in {"none", "convert", "yielded"} : Goto("mu", t, x)
          BY <3>6, Zenon DEF addDone, downCheck, downConverted, rebootYielded, rebootStable
        <4>3. PICK x : Goto("mu", t, x) /\ x # "attach"
          BY <4>2, Zenon
        <4>4. /\ task'["mu"][t] = x
              /\ \A b \in Actor, u \in Thread : <<b, u>> # <<"mu", t>> => task'[b][u] = task[b][u]
          BY <4>3, GotoIs
        <4>5. \A b \in Actor, u \in Thread : task'[b][u] = "attach" => task[b][u] = "attach"
          BY <4>3, <4>4, Zenon
        <4> QED
          BY <2>4, <3>1, <3>2, <4>1, <4>5, Zenon DEF Adding
      <3>7. CASE rebootMain \/ down \/ reboot \/ drainPHPThreads
        <4>1. \A t \in Thread : task'["init"][t] = task["init"][t]
          BY <3>7 DEF rebootMain, down, reboot, drainPHPThreads, Types
        <4>2. \A t \in Thread : task'["mu"][t] \in {"down", "none", "check", "force", "shutdown"}
          BY <3>7 DEF rebootMain, down, reboot, drainPHPThreads, Types
        <4> QED
          BY <3>4, <4>1, <4>2, Zenon
      <3>8. ASSUME NEW p \in Pool, scale(p) \/ restoreThread(p) PROVE \A t \in Thread : Listed(t)'
        <4>1. mu = "free" /\ UNCHANGED task
          BY <3>8, Zenon DEF scale, restoreThread
        <4>2. \A t \in Thread : task["mu"][t] = "none"
          BY <4>1, Zenon DEF MuSteps
        <4> QED
          BY <3>4, <4>1, <4>2, Zenon
      <3> QED
        BY <1>5, <2>5, <3>5, <3>6, <3>7, <3>8, Zenon DEF Elsewhere, DownStep
    <2> QED
      BY <2>2, <2>3, <2>5, Zenon
  <1> QED
    BY <1>1, <1>2, <1>3, <1>4, <1>5, NextCases, Zenon

-----------------------------------------------------------------------------
\* The inductive invariant behind RoutedRight.
RoutedInv == StatesInv /\ \A t \in Thread : Rebooter(t) /\ Listed(t)

\* It holds when initPHPThreads has made the slots.
LEMMA RoutedInit == Init => RoutedInv
  <1> SUFFICES ASSUME Init PROVE RoutedInv
    BY Zenon
  <1>1. StatesInv
    BY StatesInit, Zenon
  <1>2. \A t \in Thread : rpc[t] = "none" /\ cpc[t] = "none" /\ state[t] = "Reserved" /\ Unlisted(t)
    BY Zenon DEF Init, Unlisted
  <1>3. \A a \in Actor, t \in Thread : task[a][t] # "attach"
    BY Zenon DEF Init
  <1> QED
    BY <1>1, <1>2, <1>3, Zenon DEF RoutedInv, Rebooter, Listed, Unlisted

\* No step breaks it.
LEMMA RoutedStep ==
    ASSUME ~RestartDuringInit, Steady, RoutedInv, [Next]_vars
    PROVE  RoutedInv'
  <1>1. /\ Types /\ Phases /\ MuSteps /\ Waits /\ MainShape /\ Counts /\ Claimed
        /\ \A t \in Thread : Shape(t) /\ Conform(t) /\ Rebooter(t) /\ Listed(t)
        /\ Adds /\ StatesInv
    BY Zenon DEF RoutedInv, StatesInv, IndInv
  <1>2. StatesInv'
    BY <1>1, StatesStep, Zenon
  <1>3. Clear'
    BY <1>2, Zenon DEF StatesInv
  <1>4. \A t \in Thread : Rebooter(t)'
    BY <1>1, <1>3, RebooterStep, Zenon
  <1>5. \A t \in Thread : Listed(t)'
    BY <1>1, <1>4, ListedStep, Zenon
  <1> QED
    BY <1>2, <1>4, <1>5, Zenon DEF RoutedInv

\* The invariant holds in every reachable state, for any number of threads.
THEOREM RoutedInductive ==
    ASSUME ~RestartDuringInit, Steady
    PROVE  Spec => []RoutedInv
  <1>1. Init => RoutedInv
    BY RoutedInit, Zenon
  <1>2. RoutedInv /\ [Next]_vars => RoutedInv'
    BY RoutedStep, Zenon
  <1> QED
    BY <1>1, <1>2, PTL DEF Spec

\* The thread that a pool hands a request to runs the handler of that pool
\* (attachThread, detachThread, setHandler), unless threads reboot by themselves
\* (max_requests) and the C threads that replace theirs can fail to start.
THEOREM RequestsAreRouted ==
    ASSUME ~RestartDuringInit, Steady
    PROVE  Spec => []RoutedRight
  <1>1. RoutedInv => RoutedRight
    <2> SUFFICES ASSUME RoutedInv, NEW t \in Thread, NEW p \in Pool, pool[p][t] > 0
                 PROVE  handler[t] = p
      BY Zenon DEF RoutedRight, Members
    <2>1. pool[p][t] = 0 \/ handler[t] = p
      BY Zenon DEF RoutedInv, Listed
    <2> QED
      BY <2>1
  <1>2. Spec => []RoutedInv
    BY RoutedInductive, Zenon
  <1> QED
    BY <1>1, <1>2, PTL
=============================================================================
