-------------------------- MODULE PhpThreadsProofs --------------------------
(***************************************************************************)
(* Proofs about PhpThreads, layers 0 to 6 of the invariant, for any number *)
(* of threads and any bounds: the types; that Init is alone until it       *)
(* returns, provided no restart is asked for while it runs; what the       *)
(* holder of scalingMu does; who is subscribed to a state or answered;     *)
(* that the state of a thread, its C thread and who acts on it agree; the  *)
(* counts; the claimed slots. Then the theorems: types, the engine is      *)
(* never torn down under a C thread, and a slot that boot() is called for  *)
(* is free.                                                                *)
(***************************************************************************)
EXTENDS PhpThreadsInv, TLAPS

USE DEF cellVars, threadVars, poolVars, muVars, initVars, mainVars, boundVars

-----------------------------------------------------------------------------
(* Layer 0: the types *)

CellTypes ==
    /\ state \in [Thread -> State]
    /\ want \subseteq Role \X Thread /\ granted \subseteq Role \X Thread

TaskTypes == task \in [Actor -> [Thread -> TaskStep]]

\* A published state keeps the types of the cells.
LEMMA PublishTypes ==
    ASSUME Types, NEW t \in Thread, NEW s \in State, NEW R, Publish(t, s, R)
    PROVE  CellTypes'
  BY Zenon DEF Types, CellTypes, Publish

\* So does resuming from a wait.
LEMMA ResumeTypes ==
    ASSUME Types, NEW r, NEW t, Resume(r, t)
    PROVE  CellTypes'
  BY Zenon DEF Types, CellTypes, Resume

\* The program counters only take steps that exist.
LEMMA GotoTypes ==
    ASSUME Types, NEW a \in Actor, NEW t \in Thread, NEW s \in TaskStep, Goto(a, t, s)
    PROVE  TaskTypes'
  BY Zenon DEF Types, TaskTypes, Goto

\* A C thread goes on to one of its steps.
LEMMA CGotoTypes ==
    ASSUME Types, NEW t \in Thread, NEW s \in CStep, CGoto(t, s)
    PROVE  cpc' \in [Thread -> CStep]
  BY Zenon DEF Types, CGoto

\* A request for a state change keeps the types.
LEMMA RequestTypes ==
    ASSUME Types, NEW a \in Actor, NEW t \in Thread, NEW s \in State,
           NEW g \in TaskStep, NEW r \in TaskStep, NEW w \in TaskStep,
           RequestSafeStateChange(a, t, s, g, r, w)
    PROVE  /\ CellTypes'
           /\ TaskTypes'
  <1>1. CASE state[t] \in Stable /\ Publish(t, s, {}) /\ Goto(a, t, g)
    BY <1>1, PublishTypes, GotoTypes, Zenon
  <1>2. CASE UNCHANGED cellVars /\ (Goto(a, t, r) \/ Goto(a, t, w))
    BY <1>2, GotoTypes, Zenon DEF Types, CellTypes
  <1> QED
    BY <1>1, <1>2, Zenon DEF RequestSafeStateChange

\* Taking an inactive thread keeps the types.
LEMMA PickTypes ==
    ASSUME Types, NEW a \in Actor, inactivePHPThread(a)
    PROVE  /\ CellTypes'
           /\ TaskTypes'
           /\ mu' \in {mu, "free"} /\ ini' \in {ini, "panic"} /\ failed' \in BOOLEAN
  <1>1. CASE /\ \E t \in Thread : Goto(a, t, "convert")
             /\ UNCHANGED <<cellVars, mu, ini, failed>>
    BY <1>1, GotoTypes, Zenon DEF Types, CellTypes, TaskStep
  <1>2. CASE /\ \E t \in Thread : Publish(t, "BootRequested", {}) /\ Goto(a, t, "create")
             /\ UNCHANGED <<mu, ini, failed>>
    BY <1>2, GotoTypes, PublishTypes, Zenon DEF Types, TaskStep, State
  <1>3. CASE noThread(a) /\ UNCHANGED <<cellVars, task>>
    BY <1>3, Zenon DEF noThread, Types, CellTypes, TaskTypes
  <1> QED
    BY <1>1, <1>2, <1>3, Zenon DEF inactivePHPThread

\* beforeScriptExecution only leads to steps of the C thread.
LEMMA BranchTypes == \A h, s : Branch(h, s) \in CStep
  BY DEF Branch, CStep

\* The types are inductive.
LEMMA TypesStep ==
    ASSUME Types, [Next]_vars
    PROVE  Types'
  <1> USE SizeAssumption DEF CellTypes, TaskTypes
  <1>1. ASSUME NEW t \in Thread, CThread(t)
        PROVE  Types'
    <2> USE <1>1
    <2>1. CASE beforeScriptExecution(t)
      BY <2>1, BranchTypes DEF beforeScriptExecution, CGoto, Detach, Types
    <2>2. CASE setInactive(t)
      BY <2>2, PublishTypes DEF setInactive, CGoto, Types, CStep, State
    <2>3. CASE idleWoken(t)
      BY <2>3, Zenon DEF idleWoken, Resume, CGoto, Types, CStep
    <2>4. CASE setInactiveAgain(t) \/ setReadyAgain(t) \/ transitionToNewHandler(t)
      BY <2>4, PublishTypes
         DEF setInactiveAgain, setReadyAgain, transitionToNewHandler, setAndGo, CGoto, Types, CStep, State
    <2>5. CASE newHandlerCalled(t)
      BY <2>5, Zenon DEF newHandlerCalled, Resume, CGoto, Types, CStep
    <2>6. CASE setReady(t)
      BY <2>6, PublishTypes DEF setReady, CGoto, Types, CStep, State
    <2>7. CASE waitForRequest(t)
      <3>1. CASE limitReached(t) /\ state[t] = "Ready"
        <4>1. CellTypes'
          BY <2>7, <3>1, PublishTypes, Zenon DEF waitForRequest, State
        <4>2. cpc' \in [Thread -> CStep]
          BY <2>7, <3>1, CGotoTypes, Zenon DEF waitForRequest, CStep
        <4>3. rpc' \in [Thread -> RStep]
          BY <2>7, <3>1, Zenon DEF waitForRequest, Types, RStep
        <4> QED
          BY <2>7, <3>1, <4>1, <4>2, <4>3, Zenon DEF waitForRequest, Types
      <3>2. CASE ~(limitReached(t) /\ state[t] = "Ready")
        <4>1. cpc' \in [Thread -> CStep]
          BY <2>7, <3>2, CGotoTypes, Zenon DEF waitForRequest, CStep
        <4>2. waiting' \in [Thread -> BOOLEAN]
          BY <2>7, <3>2, Zenon DEF waitForRequest, Types
        <4>3. UNCHANGED <<cellVars, rpc, handler, drained, requests, poolVars, muVars, task, initVars, mainVars, boundVars>>
          BY <2>7, <3>2, Zenon DEF waitForRequest
        <4> QED
          BY <4>1, <4>2, <4>3, Zenon DEF Types
      <3> QED
        BY <3>1, <3>2, Zenon
    <2>8. CASE selectDrained(t) \/ requestEnds(t) \/ scriptEnds(t) \/ scriptBooted(t)
      <3>1. \E s \in CStep : CGoto(t, s)
        BY <2>8, Zenon DEF selectDrained, requestEnds, scriptEnds, scriptBooted, CStep
      <3> QED
        BY <2>8, <3>1, CGotoTypes DEF selectDrained, requestEnds, scriptEnds, scriptBooted, Types
    <2>9. CASE scriptFails(t)
      <3>1. cpc' \in [Thread -> CStep]
        BY <2>9, CGotoTypes, Zenon DEF scriptFails, CStep
      <3>2. CASE UNCHANGED <<cellVars, failed>>
        BY <2>9, <3>1, <3>2, Zenon DEF scriptFails, Types
      <3>3. CASE failed' = TRUE /\ Publish(t, "ShuttingDown", {})
        BY <2>9, <3>1, <3>3, PublishTypes DEF scriptFails, Types, State
      <3> QED
        BY <2>9, <3>2, <3>3, Zenon DEF scriptFails
    <2>10. CASE replaceUnhealthy(t)
      BY <2>10 DEF replaceUnhealthy, CGoto, Types, CStep
    <2>11. CASE exitThread(t)
      BY <2>11, PublishTypes DEF exitThread, CGoto, Types, CStep, State
    <2> QED
      BY <2>1, <2>2, <2>3, <2>4, <2>5, <2>6, <2>7, <2>8, <2>9, <2>10, <2>11, Zenon DEF CThread
  <1>2. ASSUME NEW t \in Thread, selectRequest(t)
        PROVE  Types'
    BY <1>2 DEF selectRequest, limitReached, CGoto, Types, CStep
  <1>3. ASSUME NEW t \in Thread, Respawn(t)
        PROVE  Types'
    <2>1. CASE rebootedWoken(t)
      <3>1. CellTypes'
        BY <2>1, ResumeTypes, Zenon DEF rebootedWoken
      <3>2. rpc' \in [Thread -> RStep]
        BY <2>1, Zenon DEF rebootedWoken, Types, RStep
      <3> QED
        BY <2>1, <3>1, <3>2, Zenon DEF rebootedWoken, Types
    <2>2. CASE rebootedCreate(t)
      <3>1. cpc' \in [Thread -> CStep]
        BY <2>2, CGotoTypes, Zenon DEF rebootedCreate, Types, CStep
      <3>2. rpc' \in [Thread -> RStep] /\ refused' \in Nat
        BY <2>2 DEF rebootedCreate, Types, RStep
      <3> QED
        BY <2>2, <3>1, <3>2, Zenon DEF rebootedCreate, Types
    <2>3. CASE releaseDetach(t)
      BY <2>3 DEF releaseDetach, Detach, Types, RStep
    <2>4. CASE releaseReserve(t)
      BY <2>4, PublishTypes DEF releaseReserve, Types, RStep, State
    <2> QED
      BY <1>3, <2>1, <2>2, <2>3, <2>4, Zenon DEF Respawn
  <1>4. ASSUME NEW r \in Role, NEW t \in Thread, WaitFor(r, t)
        PROVE  Types'
    BY <1>4 DEF WaitFor, Types
  <1>5. ASSUME NEW a \in Actor, NEW t \in Thread, Controller(a, t)
        PROVE  Types'
    <2>1. CASE bootThread(a, t)
      <3>1. CASE state[t] \notin {"Reserved", "BootRequested"}
        <4>1. Goto(a, t, "panic")
          BY <2>1, <3>1, Zenon DEF bootThread
        <4>2. TaskTypes'
          BY <4>1, GotoTypes, Zenon DEF TaskStep
        <4> QED
          BY <2>1, <3>1, <4>2, Zenon DEF bootThread, Types
      <3>2. CASE state[t] \in {"Reserved", "BootRequested"} /\ Publish(t, "Booting", {})
                 /\ CGoto(t, "before") /\ Goto(a, t, "boot") /\ UNCHANGED <<mu, ini, failed, refused>>
        <4>1. CellTypes' /\ TaskTypes' /\ cpc' \in [Thread -> CStep]
          BY <3>2, PublishTypes, GotoTypes, CGotoTypes, Zenon DEF TaskStep, CStep, State
        <4> QED
          BY <2>1, <3>2, <4>1 DEF bootThread, Types, Handler
      <3>3. CASE state[t] \in {"Reserved", "BootRequested"} /\ Publish(t, "Reserved", {})
                 /\ Goto(a, t, "none") /\ noThread(a) /\ UNCHANGED cpc /\ refused' = refused + 1
        <4>1. CellTypes' /\ TaskTypes'
          BY <3>3, PublishTypes, GotoTypes, Zenon DEF TaskStep, State
        <4>2. mu' \in {mu, "free"} /\ ini' \in {ini, "panic"} /\ failed' \in BOOLEAN
          BY <3>3, Zenon DEF noThread, Types
        <4>3. refused' \in Nat
          BY <3>3 DEF Types
        <4>4. handler' \in [Thread -> Handler] /\ drained' \in [Thread -> BOOLEAN]
              /\ UNCHANGED <<cpc, requests, waiting, rpc, poolVars, target, stopped, left, mainVars, restarts, scaled>>
          BY <2>1, <3>3, Zenon DEF bootThread, Types, Handler
        <4>5. wpc' \in [Thread -> {"none", "started"}]
          BY <2>1, Zenon DEF bootThread, Types
        <4> QED
          BY <4>1, <4>2, <4>3, <4>4, <4>5, Zenon DEF Types
      <3> QED
        BY <2>1, <3>1, <3>2, <3>3, Zenon DEF bootThread
    <2>2. CASE booted(a, t) \/ retrySafe(a, t)
      <3>1. Resume(a, t) /\ \E s \in TaskStep : Goto(a, t, s)
        BY <2>2, Zenon DEF booted, retrySafe, TaskStep
      <3> QED
        BY <2>2, <3>1, ResumeTypes, GotoTypes DEF booted, retrySafe, Types
    <2>3. CASE setHandlerRequest(a, t)
      <3>1. RequestSafeStateChange(a, t, "TransitionRequested", "close", "attach", "safe")
        BY <2>3, Zenon DEF setHandlerRequest
      <3>2. a \in Actor /\ "TransitionRequested" \in State /\ {"close", "attach", "safe"} \subseteq TaskStep
        BY <1>5, Zenon DEF Actor, State, TaskStep
      <3>3. CellTypes' /\ TaskTypes'
        BY <3>1, <3>2, RequestTypes, Zenon
      <3> QED
        BY <2>3, <3>3, Zenon DEF setHandlerRequest, Types
    <2>4. CASE setHandlerClose(a, t)
      BY <1>5, <2>4 DEF setHandlerClose, closeDrain, Goto, Types, TaskStep
    <2>5. CASE setHandlerComplete(a, t)
      BY <1>5, <2>5, PublishTypes DEF setHandlerComplete, Target, Goto, Types, TaskStep, State, Handler, Pool
    <2> QED
      BY <1>5, <2>1, <2>2, <2>3, <2>4, <2>5, Zenon DEF Controller
  <1>6. CASE InitStep
    <2>1. CASE initBooted \/ initDone
      BY <2>1, Zenon DEF initBooted, initDone, Types
    <2>2. CASE initPick
      BY <2>2, PickTypes, Zenon DEF initPick, Types, Actor
    <2>3. ASSUME NEW t \in Thread, initAttach(t) \/ initStarted(t)
          PROVE  Types'
      BY <2>3 DEF initAttach, initStarted, Attach, Resume, Target, Goto, Types, TaskStep, Actor, Pool
    <2> QED
      BY <1>6, <2>1, <2>2, <2>3, Zenon DEF InitStep
  <1>7. CASE AddStep
    <2>1. CASE addPick
      BY <2>1, PickTypes, Zenon DEF addPick, Types, Actor
    <2>2. ASSUME NEW t \in Thread, addAttach(t)
          PROVE  Types'
      <3>1. TaskTypes'
        BY <2>2, GotoTypes, Zenon DEF addAttach, TaskStep, Actor
      <3>2. ASSUME NEW p, Attach(t, p)
            PROVE  pool' \in [Pool -> [Thread -> Nat]]
        <4>1. CASE p \in Pool
          BY <3>2, <4>1 DEF Attach, Types
        <4>2. CASE p \notin Pool
          <5>1. pool' = pool
            BY <3>2, <4>2, Zenon DEF Attach, Types
          <5> QED
            BY <5>1, Zenon DEF Types
        <4> QED
          BY <4>1, <4>2, Zenon
      <3>3. pool' \in [Pool -> [Thread -> Nat]]
        BY <2>2, <3>2, Zenon DEF addAttach
      <3> QED
        BY <2>2, <3>1, <3>3, Zenon DEF addAttach, Types
    <2>3. ASSUME NEW t \in Thread, addDone(t)
          PROVE  Types'
      <3>1. CellTypes' /\ TaskTypes'
        BY <2>3, GotoTypes, ResumeTypes, Zenon DEF addDone, TaskStep, Actor
      <3> QED
        BY <2>3, <3>1 DEF addDone, Types
    <2> QED
      BY <1>7, <2>1, <2>2, <2>3, Zenon DEF AddStep
  <1>8. CASE DownStep
    <2>1. CASE downDone
      BY <2>1, Zenon DEF downDone, Types
    <2>2. ASSUME NEW t \in Thread, downCheck(t) \/ downConverted(t)
          PROVE  Types'
      <3>1. TaskTypes'
        BY <2>2, GotoTypes, Zenon DEF downCheck, downConverted, TaskStep, Actor
      <3> QED
        BY <2>2, <3>1 DEF downCheck, downConverted, Types
    <2> QED
      BY <1>8, <2>1, <2>2, Zenon DEF DownStep
  <1>9. CASE RebootStep
    <2>1. CASE rebootMain \/ rebootDone
      BY <2>1 DEF rebootMain, rebootDone, Types, TaskStep, State, Actor
    <2>2. ASSUME NEW t \in Thread, forceReboot(t)
          PROVE  Types'
      <3>1. RequestSafeStateChange("mu", t, "ForceRebooting", "closeForce", "skip", "safeForce")
        BY <2>2, Zenon DEF forceReboot
      <3>2. "mu" \in Actor /\ "ForceRebooting" \in State /\ {"closeForce", "skip", "safeForce"} \subseteq TaskStep
        BY Zenon DEF Actor, State, TaskStep
      <3>3. CellTypes' /\ TaskTypes'
        BY <3>1, <3>2, RequestTypes, Zenon
      <3> QED
        BY <2>2, <3>3, Zenon DEF forceReboot, Types, RStep
    <2>3. ASSUME NEW t \in Thread, rebootClose(t) \/ rebootYielded(t) \/ rebootStable(t)
          PROVE  Types'
      <3>1. TaskTypes'
        BY <2>3, GotoTypes, Zenon DEF rebootClose, rebootYielded, rebootStable, closeDrain, TaskStep, Actor
      <3>2. CASE rebootClose(t)
        BY <3>1, <3>2, Zenon DEF rebootClose, closeDrain, Types
      <3>3. CASE rebootYielded(t) \/ rebootStable(t)
        <4>1. CellTypes'
          BY <3>3, ResumeTypes, Zenon DEF rebootYielded, rebootStable
        <4>2. UNCHANGED <<threadVars, poolVars, muVars, initVars, mainVars, boundVars>>
          BY <3>3, Zenon DEF rebootYielded, rebootStable
        <4> QED
          BY <3>1, <4>1, <4>2, Zenon DEF Types
      <3> QED
        BY <2>3, <3>2, <3>3, Zenon
    <2>4. ASSUME NEW t \in Thread, rebootResume(t)
          PROVE  Types'
      <3>1. TaskTypes'
        BY <2>4, GotoTypes, Zenon DEF rebootResume, TaskStep, Actor
      <3> QED
        BY <2>4, <3>1, PublishTypes DEF rebootResume, Types, State
    <2> QED
      BY <1>9, <2>1, <2>2, <2>3, <2>4, Zenon DEF RebootStep
  <1>10. CASE DrainStep
    <2>1. CASE drainMain \/ drainDone
      BY <2>1, Zenon DEF drainMain, drainDone, Types, State
    <2>2. ASSUME NEW t \in Thread, shutdownRequest(t)
          PROVE  Types'
      <3>1. RequestSafeStateChange("mu", t, "ShuttingDown", "closeDown", "join", "safeDown")
        BY <2>2, Zenon DEF shutdownRequest
      <3>2. "mu" \in Actor /\ "ShuttingDown" \in State /\ {"closeDown", "join", "safeDown"} \subseteq TaskStep
        BY Zenon DEF Actor, State, TaskStep
      <3>3. CellTypes' /\ TaskTypes'
        BY <3>1, <3>2, RequestTypes, Zenon
      <3> QED
        BY <2>2, <3>3, Zenon DEF shutdownRequest, Types
    <2>3. ASSUME NEW t \in Thread, shutdownClose(t)
          PROVE  Types'
      BY <2>3 DEF shutdownClose, closeDrain, Goto, Types, TaskStep, Actor
    <2>4. ASSUME NEW t \in Thread, shutdownExited(t) \/ shutdownJoined(t)
          PROVE  Types'
      <3>1. CellTypes'
        BY <2>4, PublishTypes, ResumeTypes, Zenon DEF shutdownExited, shutdownJoined, State
      <3>2. TaskTypes'
        BY <2>4, GotoTypes, Zenon DEF shutdownExited, shutdownJoined, TaskStep, Actor
      <3>3. /\ drained' \in [Thread -> BOOLEAN]
            /\ UNCHANGED <<handler, cpc, requests, waiting, rpc, poolVars, muVars, initVars, mainVars, boundVars>>
        BY <2>4, Zenon DEF shutdownExited, shutdownJoined, Types
      <3> QED
        BY <3>1, <3>2, <3>3, Zenon DEF Types
    <2> QED
      BY <1>10, <2>1, <2>2, <2>3, <2>4, Zenon DEF DrainStep
  <1>11. CASE MainStep
    <2>1. main' \in State /\ engine' \in BOOLEAN
      BY <1>11, Zenon DEF MainStep, mainTeardown, mainExit, mainStart, Types, State
    <2>2. UNCHANGED <<cellVars, threadVars, poolVars, muVars, task, initVars, boundVars>>
      BY <1>11, Zenon DEF MainStep, mainTeardown, mainExit, mainStart
    <2> QED
      BY <2>1, <2>2, Zenon DEF Types
  <1>12. ASSUME NEW p \in Pool, scale(p) \/ restoreThread(p) \/ restoreQuit(p)
         PROVE  Types'
    BY <1>12 DEF scale, restoreThread, restoreQuit, Types
  <1>13. CASE down \/ reboot \/ drainPHPThreads
    BY <1>13 DEF down, reboot, drainPHPThreads, Types, TaskStep, State, Actor
  <1>14. CASE Over \/ UNCHANGED vars
    BY <1>14 DEF Over, vars, Types
  <1> QED
    BY <1>1, <1>2, <1>3, <1>4, <1>5, <1>6, <1>7, <1>8, <1>9, <1>10, <1>11, <1>12, <1>13, <1>14, Zenon DEF Next

-----------------------------------------------------------------------------
(* Layer 1: Init is alone until it returns *)

\* A step of a C thread starts no reboot while Init runs: no request was
\* served, so max_requests is not reached.
LEMMA CThreadPhases ==
    ASSUME Types, Phases, NEW t \in Thread, CThread(t) \/ selectRequest(t)
    PROVE  Phases'
  <1> USE DEF Phases, Started
  <1>1. UNCHANGED <<task, ini, wpc, mu, main, autoScaled, restoring>>
    BY Zenon DEF CThread, selectRequest, beforeScriptExecution, setInactive, idleWoken, setInactiveAgain,
           setReadyAgain, transitionToNewHandler, setAndGo, newHandlerCalled, setReady, waitForRequest,
           selectDrained, requestEnds, scriptEnds, scriptBooted, scriptFails, replaceUnhealthy, exitThread
  <1>2. ini \notin Started => \A u \in Thread : requests'[u] = 0
    BY ZenonT(60) DEF CThread, selectRequest, beforeScriptExecution, setInactive, idleWoken, setInactiveAgain,
           setReadyAgain, transitionToNewHandler, setAndGo, newHandlerCalled, setReady, waitForRequest,
           selectDrained, requestEnds, scriptEnds, scriptBooted, scriptFails, replaceUnhealthy, exitThread, Types
  <1>3. ini \notin Started => \A u \in Thread : rpc'[u] = "none"
    <2>1. CASE waitForRequest(t)
      BY <2>1, SizeAssumption DEF waitForRequest, limitReached, Types
    <2>2. CASE ~waitForRequest(t)
      BY <2>2, Zenon
      DEF CThread, selectRequest, beforeScriptExecution, setInactive, idleWoken, setInactiveAgain,
           setReadyAgain, transitionToNewHandler, setAndGo, newHandlerCalled, setReady,
           selectDrained, requestEnds, scriptEnds, scriptBooted, scriptFails, replaceUnhealthy, exitThread
    <2> QED
      BY <2>1, <2>2, Zenon
  <1>4. ini = "running" => failed' = failed
    BY Zenon DEF CThread, selectRequest, beforeScriptExecution, setInactive, idleWoken, setInactiveAgain,
           setReadyAgain, transitionToNewHandler, setAndGo, newHandlerCalled, setReady, waitForRequest,
           selectDrained, requestEnds, scriptEnds, scriptBooted, scriptFails, replaceUnhealthy, exitThread
  <1>5. ini' = "running" => ~failed'
    BY <1>1, <1>4, Zenon
  <1>6. CASE ini \in Started
    BY <1>1, <1>5, <1>6, Zenon
  <1>7. CASE ini \notin Started
    BY <1>1, <1>2, <1>3, <1>5, <1>7, Zenon
  <1> QED
    BY <1>6, <1>7, Zenon

\* The picks of Init: an error ends in a panic, never in a started instance.
LEMMA PickPhases ==
    ASSUME Types, NEW a \in Actor, inactivePHPThread(a)
    PROVE  /\ a = "init" => /\ ini' = ini \/ ini' = "panic"
                            /\ mu' = mu /\ \A t \in Thread : task'["mu"][t] = task["mu"][t]
           /\ a = "mu" => /\ UNCHANGED <<ini, failed>>
                          /\ \A t \in Thread : task'["init"][t] = task["init"][t]
  BY Zenon DEF inactivePHPThread, noThread, Goto, Publish, Types, Actor

\* Init is alone until it returns, provided no restart is asked for before.
LEMMA PhasesStep ==
    ASSUME ~RestartDuringInit, Types, Phases, [Next]_vars
    PROVE  Phases'
  <1> USE DEF Phases, Started
  <1>1. ASSUME NEW t \in Thread, CThread(t) \/ selectRequest(t)
        PROVE  Phases'
    BY <1>1, CThreadPhases, Zenon
  <1>2. ASSUME NEW t \in Thread, Respawn(t)
        PROVE  Phases'
    BY <1>2 DEF Respawn, rebootedWoken, rebootedCreate, releaseDetach, releaseReserve, Types
  <1>3. ASSUME NEW r \in Role, NEW t \in Thread, WaitFor(r, t)
        PROVE  Phases'
    BY <1>3, Zenon DEF WaitFor
  <1>4. ASSUME NEW a \in Actor, NEW t \in Thread, Controller(a, t)
        PROVE  Phases'
    <2>1. task[a][t] # "none"
      BY <1>4, Zenon DEF Controller, bootThread, booted, retrySafe, setHandlerRequest, setHandlerClose,
                  closeDrain, setHandlerComplete
    <2>2. UNCHANGED <<main, autoScaled, restoring, rpc>>
      BY <1>4, Zenon DEF Controller, bootThread, booted, retrySafe, setHandlerRequest, setHandlerClose,
                  closeDrain, setHandlerComplete
    <2>3. \E s : Goto(a, t, s)
      BY <1>4, Zenon DEF Controller, bootThread, booted, retrySafe, setHandlerRequest, RequestSafeStateChange,
                  setHandlerClose, closeDrain, setHandlerComplete
    <2>4. \A u \in Thread : requests[u] = 0 => requests'[u] = 0
      BY <1>4 DEF Controller, bootThread, booted, retrySafe, setHandlerRequest, setHandlerClose,
                  closeDrain, setHandlerComplete, Types
    <2>5. CASE a = "init"
      <3>1. ini \notin Started
        BY <1>4, <2>1, <2>5, Zenon
      <3>2. ini' \notin Started /\ mu' = mu
        BY <1>4, <2>5, <3>1, Zenon DEF Controller, bootThread, noThread, booted, retrySafe, setHandlerRequest,
                  setHandlerClose, closeDrain, setHandlerComplete
      <3>3. \A u \in Thread : task'["mu"][u] = task["mu"][u]
        BY <2>3, <2>5, Zenon DEF Goto, Types, Actor
      <3>4. ini' = "boot" => ini = "boot" /\ UNCHANGED wpc
        BY <1>4, <2>5, Zenon DEF Controller, bootThread, noThread, booted, retrySafe, setHandlerRequest,
                  setHandlerClose, closeDrain, setHandlerComplete
      <3>5. ini' = "boot" => \E s \in {"none", "boot", "panic"} : Goto(a, t, s)
        BY <1>4, <2>5, <3>4, Zenon DEF Controller, bootThread, booted, retrySafe, setHandlerRequest,
                  setHandlerClose, closeDrain, setHandlerComplete
      <3>6. ini' = "boot" => \A u \in Thread : task'["init"][u] \in {"none", "create", "boot", "panic"}
        BY <2>5, <3>4, <3>5 DEF Goto, Types, Actor
      <3> QED
        BY <2>2, <2>4, <3>1, <3>2, <3>3, <3>4, <3>6
    <2>6. CASE a = "mu"
      <3>1. ini \in Started
        BY <1>4, <2>1, <2>6, Zenon
      <3>2. UNCHANGED <<ini, wpc, failed>>
        BY <1>4, <2>6, Zenon DEF Controller, bootThread, noThread, booted, retrySafe, setHandlerRequest,
                  setHandlerClose, closeDrain, setHandlerComplete
      <3>3. \A u \in Thread : task'["init"][u] = task["init"][u]
        BY <2>3, <2>6, Zenon DEF Goto, Types, Actor
      <3> QED
        BY <3>1, <3>2, <3>3, Zenon
    <2> QED
      BY <2>5, <2>6, Zenon DEF Actor
  <1>5. CASE InitStep
    <2>1. CASE initBooted \/ initDone
      <3>1. /\ ini \notin Started /\ UNCHANGED <<task, wpc, failed, mu, main, autoScaled, restoring, requests, rpc>>
            /\ \A t \in Thread : task["init"][t] = "none" /\ wpc[t] = "none"
        BY <2>1, Zenon DEF initBooted, initDone, InitIdle, threadVars, poolVars, muVars, mainVars
      <3>2. ini' \in {"convert", "failed"} \/ (ini' = "running" /\ ~failed)
        BY <2>1, Zenon DEF initBooted, initDone
      <3> QED
        BY <3>1, <3>2, Zenon
    <2>2. CASE initPick
      BY <2>2, PickPhases, Zenon DEF initPick, Actor
    <2>3. ASSUME NEW t \in Thread, initAttach(t) \/ initStarted(t)
          PROVE  Phases'
      <3>1. ini \notin Started
        BY <2>3, Zenon DEF initAttach, initStarted
      <3>2. \A u \in Thread : task'["mu"][u] = task["mu"][u]
        BY <2>3, Zenon DEF initAttach, initStarted, Goto, Types, Actor
      <3> QED
        BY <2>3, <3>1, <3>2, Zenon DEF initAttach, initStarted
    <2> QED
      BY <1>5, <2>1, <2>2, <2>3, Zenon DEF InitStep
  <1>6. CASE AddStep
    <2>1. ini \in Started /\ UNCHANGED <<ini, wpc, failed>>
      BY <1>6, PickPhases, Zenon DEF AddStep, addPick, addAttach, addDone, Actor
    <2>2. \A u \in Thread : task'["init"][u] = task["init"][u]
      BY <1>6, PickPhases DEF AddStep, addPick, addAttach, addDone, Goto, Types, Actor
    <2> QED
      BY <2>1, <2>2, Zenon
  <1>7. CASE DownStep
    <2>1. ini \in Started /\ UNCHANGED <<ini, wpc, failed>>
      BY <1>7, Zenon DEF DownStep, downDone, downCheck, downConverted
    <2>2. \A u \in Thread : task'["init"][u] = task["init"][u]
      BY <1>7, Zenon DEF DownStep, downDone, downCheck, downConverted, Goto, Types, Actor
    <2> QED
      BY <2>1, <2>2
  <1>8. CASE RebootStep
    <2>1. ini \in Started /\ UNCHANGED <<ini, wpc, failed>>
      BY <1>8, Zenon DEF RebootStep, rebootMain, rebootDone, forceReboot, rebootClose, closeDrain,
                  rebootYielded, rebootResume, rebootStable
    <2>2. \/ rebootMain \/ rebootDone
          \/ \E t \in Thread : \E s : Goto("mu", t, s)
      <3>1. ASSUME NEW t \in Thread, forceReboot(t)
            PROVE  \E s : Goto("mu", t, s)
        BY <3>1, Zenon DEF forceReboot, RequestSafeStateChange
      <3>2. ASSUME NEW t \in Thread, rebootClose(t) \/ rebootYielded(t) \/ rebootResume(t) \/ rebootStable(t)
            PROVE  \E s : Goto("mu", t, s)
        BY <3>2, Zenon DEF rebootClose, closeDrain, rebootYielded, rebootResume, rebootStable
      <3> QED
        BY <1>8, <3>1, <3>2, Zenon DEF RebootStep
    <2>3. \A u \in Thread : task'["init"][u] = task["init"][u]
      <3>1. CASE rebootMain \/ rebootDone
        BY <3>1, Zenon DEF rebootMain, rebootDone, Types, Actor
      <3>2. ASSUME NEW t \in Thread, NEW s, Goto("mu", t, s)
            PROVE  \A u \in Thread : task'["init"][u] = task["init"][u]
        BY <3>2, Zenon DEF Goto, Types, Actor
      <3> QED
        BY <2>2, <3>1, <3>2, Zenon
    <2> QED
      BY <2>1, <2>3
  <1>9. CASE DrainStep
    <2>1. ini \in Started /\ ini' \in {ini, "over"} /\ UNCHANGED <<wpc, failed>>
      BY <1>9, Zenon DEF DrainStep, drainMain, drainDone, shutdownRequest, shutdownClose, closeDrain,
                  shutdownExited, shutdownJoined
    <2>2. UNCHANGED task \/ \E t \in Thread : \E s : Goto("mu", t, s)
      <3>1. ASSUME drainMain \/ drainDone
            PROVE  UNCHANGED task
        BY <3>1, Zenon DEF drainMain, drainDone
      <3>2. ASSUME NEW t \in Thread, shutdownRequest(t)
            PROVE  \E s : Goto("mu", t, s)
        BY <3>2, Zenon DEF shutdownRequest, RequestSafeStateChange
      <3>3. ASSUME NEW t \in Thread, shutdownClose(t) \/ shutdownExited(t) \/ shutdownJoined(t)
            PROVE  \E s : Goto("mu", t, s)
        BY <3>3, Zenon DEF shutdownClose, closeDrain, shutdownExited, shutdownJoined
      <3> QED
        BY <1>9, <3>1, <3>2, <3>3, Zenon DEF DrainStep
    <2>3. \A u \in Thread : task'["init"][u] = task["init"][u]
      BY <2>2, Zenon DEF Goto, Types, Actor
    <2> QED
      BY <2>1, <2>3, Zenon
  <1>10. CASE MainStep
    <2>1. UNCHANGED <<ini, wpc, failed, task, mu, autoScaled, restoring, requests, rpc>>
      BY <1>10, Zenon DEF MainStep, mainTeardown, mainExit, mainStart
    <2>2. main = "Ready" => main' = main
      BY <1>10, Zenon DEF MainStep, mainTeardown, mainExit, mainStart
    <2>3. ini' = "running" => ~failed'
      BY <2>1, Zenon
    <2>4. CASE ini \in Started
      BY <2>1, <2>3, <2>4, Zenon
    <2>5. CASE ini \notin Started
      BY <2>1, <2>2, <2>3, <2>5, Zenon
    <2> QED
      BY <2>4, <2>5, Zenon
  <1>11. ASSUME NEW p \in Pool, scale(p) \/ restoreThread(p) \/ restoreQuit(p)
         PROVE  Phases'
    <2>1. ini \in Started
      <3>1. CASE scale(p)
        BY <3>1, Zenon DEF scale
      <3>2. CASE restoreThread(p) \/ restoreQuit(p)
        <4>1. restoring[p] > 0
          BY <3>2, Zenon DEF restoreThread, restoreQuit
        <4>2. restoring[p] # 0
          BY <4>1
        <4> QED
          BY <4>2, Zenon
      <3> QED
        BY <1>11, <3>1, <3>2, Zenon
    <2>2. UNCHANGED <<ini, wpc, failed, task>>
      BY <1>11, Zenon DEF scale, restoreThread, restoreQuit
    <2> QED
      BY <2>1, <2>2, Zenon
  <1>12. CASE down \/ reboot \/ drainPHPThreads
    <2>1. ini \in Started /\ UNCHANGED <<ini, wpc, failed>>
      BY <1>12, Zenon DEF down, reboot, drainPHPThreads, Types
    <2>2. \A u \in Thread : task'["init"][u] = task["init"][u]
      BY <1>12, Zenon DEF down, reboot, drainPHPThreads, Types, Actor
    <2> QED
      BY <2>1, <2>2
  <1>13. CASE Over \/ UNCHANGED vars
    <2>1. UNCHANGED <<ini, wpc, failed, task, mu, main, autoScaled, restoring, requests, rpc>>
      BY <1>13, Zenon DEF Over, vars
    <2> QED
      BY <2>1, Zenon
  <1> QED
    BY <1>1, <1>2, <1>3, <1>4, <1>5, <1>6, <1>7, <1>8, <1>9, <1>10, <1>11, <1>12, <1>13, Zenon DEF Next

-----------------------------------------------------------------------------
(* Layer 2: what the holder of scalingMu does *)

\* A step on a thread the holder already works on stays among the steps of
\* what it does.
LEMMA MuGoto ==
    ASSUME Types, MuSteps, NEW t \in Thread, NEW s, Goto("mu", t, s), UNCHANGED <<mu, ini>>,
           task["mu"][t] # "none",
           mu \in {"scale", "restore"} => s \in AddSteps,
           mu = "down" => s \in DownSteps,
           mu = "reboot" => s \in RebootSteps,
           mu = "drain" => s \in DrainSteps
    PROVE  MuSteps'
  BY Zenon DEF Goto, Types, MuSteps, Actor

\* While Init runs nobody holds scalingMu.
LEMMA MuIdle ==
    ASSUME Phases', ini' \notin Started
    PROVE  MuSteps'
  BY Zenon DEF Phases, Started, MuSteps

\* The holder of scalingMu only takes steps of what it does.
LEMMA MuStepsStep ==
    ASSUME ~RestartDuringInit, Types, Phases, Phases', MuSteps, MainShape, [Next]_vars
    PROVE  MuSteps'
  <1> DEFINE Frame == UNCHANGED <<mu, ini>> /\ \A t \in Thread : task'["mu"][t] = task["mu"][t]
  <1>0. Frame => MuSteps'
    BY Zenon DEF MuSteps
  <1>1. ASSUME NEW t \in Thread, CThread(t) \/ selectRequest(t) \/ Respawn(t)
        PROVE  MuSteps'
    <2>1. UNCHANGED <<task, mu, ini>>
      BY <1>1, Zenon
      DEF CThread, selectRequest, beforeScriptExecution, setInactive, idleWoken, setInactiveAgain,
          setReadyAgain, transitionToNewHandler, setAndGo, newHandlerCalled, setReady, waitForRequest,
          selectDrained, requestEnds, scriptEnds, scriptBooted, scriptFails, replaceUnhealthy, exitThread,
          Respawn, rebootedWoken, rebootedCreate, releaseDetach, releaseReserve
    <2> QED
      BY <1>0, <2>1, Zenon
  <1>2. ASSUME NEW r \in Role, NEW t \in Thread, WaitFor(r, t)
        PROVE  MuSteps'
    BY <1>0, <1>2, Zenon DEF WaitFor
  <1>3. ASSUME NEW t \in Thread, Controller("init", t)
        PROVE  MuSteps'
    <2>1. ini' \notin Started
      BY <1>3, Zenon DEF Controller, bootThread, noThread, booted, retrySafe, setHandlerRequest, setHandlerClose,
                  closeDrain, setHandlerComplete, Phases, Started
    <2> QED
      BY <2>1, MuIdle, Zenon
  <1>4. ASSUME NEW t \in Thread, Controller("mu", t)
        PROVE  MuSteps'
    <2>0. mu # "free"
      BY <1>4, Zenon DEF Controller, bootThread, booted, retrySafe, setHandlerRequest, setHandlerClose,
                  closeDrain, setHandlerComplete, MuSteps
    <2>1. CASE bootThread("mu", t)
      <3>1. mu \in {"scale", "restore"}
        BY <2>0, <2>1, Zenon DEF bootThread, MuSteps, AddSteps, DownSteps, RebootSteps, DrainSteps, Types
      <3>2. CASE Goto("mu", t, "panic") /\ UNCHANGED <<mu, ini>>
        BY <2>1, <3>1, <3>2, MuGoto, Zenon DEF bootThread, AddSteps
      <3>3. CASE Goto("mu", t, "boot") /\ UNCHANGED <<mu, ini>>
        BY <2>1, <3>1, <3>3, MuGoto, Zenon DEF bootThread, AddSteps
      <3>4. CASE Goto("mu", t, "none") /\ mu' = "free"
        BY <2>1, <3>1, <3>4, Zenon DEF bootThread, MuSteps, Goto, Types, Actor
      <3> QED
        BY <2>1, <3>2, <3>3, <3>4, Zenon DEF bootThread, noThread
    <2>2. CASE booted("mu", t)
      BY <2>0, <2>2, MuGoto, Zenon DEF booted, MuSteps, AddSteps, DownSteps, RebootSteps, DrainSteps, Types
    <2>3. CASE retrySafe("mu", t)
      BY <2>0, <2>3, MuGoto, Zenon DEF retrySafe, MuSteps, AddSteps, DownSteps, RebootSteps, DrainSteps, Types
    <2>4. CASE setHandlerRequest("mu", t)
      <3>1. PICK s \in {"close", "attach", "safe"} : Goto("mu", t, s)
        BY <2>4, Zenon DEF setHandlerRequest, RequestSafeStateChange
      <3> QED
        BY <2>0, <2>4, <3>1, MuGoto, Zenon
        DEF setHandlerRequest, MuSteps, AddSteps, DownSteps, RebootSteps, DrainSteps, Types
    <2>5. CASE setHandlerClose("mu", t)
      BY <2>0, <2>5, MuGoto, Zenon
      DEF setHandlerClose, closeDrain, MuSteps, AddSteps, DownSteps, RebootSteps, DrainSteps, Types
    <2>6. CASE setHandlerComplete("mu", t)
      BY <2>0, <2>6, MuGoto, Zenon DEF setHandlerComplete, MuSteps, AddSteps, DownSteps, RebootSteps, DrainSteps, Types
    <2> QED
      BY <1>4, <2>1, <2>2, <2>3, <2>4, <2>5, <2>6, Zenon DEF Controller
  <1>5. CASE InitStep
    <2>1. mu = "free"
      BY <1>5, Zenon DEF InitStep, initBooted, initDone, initPick, initAttach, initStarted, Phases, Started, Actor
    <2>2. CASE initBooted \/ initDone
      BY <2>1, <2>2, Zenon DEF initBooted, initDone, muVars, MuSteps
    <2>3. CASE initPick
      <3>1. mu' = mu /\ \A t \in Thread : task'["mu"][t] = task["mu"][t]
        BY <2>3, PickPhases, Zenon DEF initPick, Actor
      <3> QED
        BY <2>1, <3>1, Zenon DEF MuSteps
    <2>4. ASSUME NEW u \in Thread, initAttach(u) \/ initStarted(u)
          PROVE  MuSteps'
      <3>1. mu' = mu /\ (UNCHANGED task \/ Goto("init", u, "none"))
        BY <2>4, Zenon DEF initAttach, initStarted, muVars
      <3>2. \A t \in Thread : task'["mu"][t] = task["mu"][t]
        BY <3>1, Zenon DEF Goto, Types, Actor
      <3> QED
        BY <2>1, <3>1, <3>2, Zenon DEF MuSteps
    <2> QED
      BY <1>5, <2>2, <2>3, <2>4, Zenon DEF InitStep
  <1>6. CASE AddStep
    <2>1. CASE addPick
      <3>1. CASE \E t \in Thread : Goto("mu", t, "convert") \/ Goto("mu", t, "create")
        <4>1. UNCHANGED <<mu, ini>>
          BY <2>1, <3>1 DEF addPick, inactivePHPThread, noThread, AllMu, Goto, Types, Actor
        <4> QED
          BY <2>1, <3>1, <4>1 DEF addPick, AllMu, Goto, MuSteps, AddSteps, Types, Actor
      <3>2. CASE mu' = "free" /\ UNCHANGED task
        BY <2>1, <3>2, Zenon DEF addPick, AllMu, MuSteps
      <3> QED
        BY <2>1, <3>1, <3>2, Zenon DEF addPick, inactivePHPThread, noThread
    <2>2. ASSUME NEW t \in Thread, addAttach(t)
          PROVE  MuSteps'
      BY <2>2, MuGoto, Zenon DEF addAttach, AddSteps
    <2>3. ASSUME NEW t \in Thread, addDone(t)
          PROVE  MuSteps'
      BY <2>3, Zenon DEF addDone, Goto, MuSteps, Types, Actor
    <2> QED
      BY <1>6, <2>1, <2>2, <2>3, Zenon DEF AddStep
  <1>7. CASE DownStep
    <2>1. CASE downDone
      BY <2>1, Zenon DEF downDone, AllMu, MuSteps
    <2>2. ASSUME NEW t \in Thread, downCheck(t)
          PROVE  MuSteps'
      <3>1. PICK s \in {"none", "convert"} : Goto("mu", t, s)
        BY <2>2, Zenon DEF downCheck
      <3>2. mu = "down"
        BY <2>2, Zenon DEF downCheck, MuSteps, AddSteps, RebootSteps, DrainSteps, Types
      <3> QED
        BY <2>2, <3>1, <3>2, MuGoto, Zenon DEF downCheck, DownSteps
    <2>3. ASSUME NEW t \in Thread, downConverted(t)
          PROVE  MuSteps'
      BY <2>3, MuGoto, Zenon DEF downConverted, DownSteps
    <2> QED
      BY <1>7, <2>1, <2>2, <2>3 DEF DownStep
  <1>8. CASE RebootStep
    <2>1. CASE rebootMain
      BY <2>1, Zenon DEF rebootMain, MuSteps, RebootSteps, Types, Actor
    <2>2. CASE rebootDone
      BY <2>2, Zenon DEF rebootDone, AllMu, MuSteps
    <2>3. ASSUME NEW t \in Thread, forceReboot(t)
          PROVE  MuSteps'
      <3>1. PICK s \in {"closeForce", "skip", "safeForce"} : Goto("mu", t, s)
        BY <2>3, Zenon DEF forceReboot, RequestSafeStateChange
      <3>2. mu = "reboot"
        BY <2>3, Zenon DEF forceReboot, MuSteps, AddSteps, DownSteps, DrainSteps, Types
      <3> QED
        BY <2>3, <3>1, <3>2, MuGoto, Zenon DEF forceReboot, RebootSteps
    <2>4. ASSUME NEW t \in Thread, rebootClose(t) \/ rebootYielded(t) \/ rebootResume(t) \/ rebootStable(t)
          PROVE  MuSteps'
      <3>1. PICK s \in {"panic", "yield", "yielded", "stable", "none"} : Goto("mu", t, s)
        BY <2>4, Zenon DEF rebootClose, closeDrain, rebootYielded, rebootResume, rebootStable
      <3>2. mu = "reboot"
        BY <2>4, Zenon DEF rebootClose, closeDrain, rebootYielded, rebootResume, rebootStable,
                    MuSteps, AddSteps, DownSteps, DrainSteps, Types
      <3>3. task["mu"][t] # "none" /\ UNCHANGED <<mu, ini>>
        BY <2>4, Zenon DEF rebootClose, closeDrain, rebootYielded, rebootResume, rebootStable
      <3> QED
        BY <3>1, <3>2, <3>3, MuGoto, Zenon DEF RebootSteps
    <2> QED
      BY <1>8, <2>1, <2>2, <2>3, <2>4, Zenon DEF RebootStep
  <1>9. CASE DrainStep
    <2>1. CASE drainMain
      BY <1>0, <2>1, Zenon DEF drainMain
    <2>2. CASE drainDone
      <3>1. \A t \in Thread : task["mu"][t] = "none"
        BY <2>2, Zenon DEF drainDone, MuSteps, DrainSteps, MainShape
      <3> QED
        BY <2>2, <3>1, Zenon DEF drainDone, MuSteps
    <2>3. ASSUME NEW t \in Thread, shutdownRequest(t) \/ shutdownClose(t) \/ shutdownExited(t) \/ shutdownJoined(t)
          PROVE  MuSteps'
      <3>1. PICK s \in {"closeDown", "join", "safeDown", "panic", "exit", "none"} : Goto("mu", t, s)
        BY <2>3, Zenon DEF shutdownRequest, RequestSafeStateChange, shutdownClose, closeDrain, shutdownExited, shutdownJoined
      <3>2. mu = "drain"
        BY <2>3, Zenon DEF shutdownRequest, shutdownClose, closeDrain, shutdownExited, shutdownJoined,
                    MuSteps, AddSteps, DownSteps, RebootSteps, Types
      <3>3. task["mu"][t] # "none" /\ UNCHANGED <<mu, ini>>
        BY <2>3, Zenon DEF shutdownRequest, shutdownClose, closeDrain, shutdownExited, shutdownJoined
      <3> QED
        BY <3>1, <3>2, <3>3, MuGoto, Zenon DEF DrainSteps
    <2> QED
      BY <1>9, <2>1, <2>2, <2>3, Zenon DEF DrainStep
  <1>10. CASE MainStep
    BY <1>0, <1>10, Zenon DEF MainStep, mainTeardown, mainExit, mainStart
  <1>11. ASSUME NEW p \in Pool, scale(p) \/ restoreThread(p) \/ restoreQuit(p)
         PROVE  MuSteps'
    BY <1>11, Zenon DEF scale, restoreThread, restoreQuit, MuSteps, AddSteps
  <1>12. CASE down \/ reboot \/ drainPHPThreads
    <2>1. CASE down
      BY <2>1, Zenon DEF down, MuSteps, DownSteps, Types, Actor
    <2>2. CASE reboot
      BY <2>2, Zenon DEF reboot, initVars, MuSteps, RebootSteps, Types, Actor
    <2>3. CASE drainPHPThreads
      BY <2>3, Zenon DEF drainPHPThreads, initVars, MuSteps, DrainSteps, Types, Actor
    <2> QED
      BY <1>12, <2>1, <2>2, <2>3, Zenon
  <1>13. CASE Over \/ UNCHANGED vars
    BY <1>0, <1>13, Zenon DEF Over, vars
  <1> QED
    BY <1>1, <1>2, <1>3, <1>4, <1>5, <1>6, <1>7, <1>8, <1>9, <1>10, <1>11, <1>12, <1>13, Zenon DEF Next, Actor

-----------------------------------------------------------------------------
(* Layer 3: subscriptions and answers *)

\* Where a role is, as a function of its program counter.
LEMMA StepIs ==
    /\ \A t : Step("c", t) = cpc[t] /\ Step("respawn", t) = rpc[t] /\ Step("ready", t) = wpc[t]
    /\ \A a \in Actor : \A t : Step(a, t) = task[a][t]
  BY Zenon DEF Step, Actor

\* No pair is subscribed or answered that was neither before, and none is both.
Shrunk == want' \cup granted' \subseteq want \cup granted /\ want' \cap granted' = {}

\* A published state answers subscriptions, it adds none.
LEMMA PublishShrinks ==
    ASSUME want \cap granted = {}, NEW t, NEW s, NEW R, Publish(t, s, R)
    PROVE  Shrunk /\ R \cap granted' = {} /\ want' \subseteq want
  BY Zenon DEF Publish, Shrunk

\* A wait that is over is neither subscribed nor answered.
LEMMA ResumeShrinks ==
    ASSUME want \cap granted = {}, NEW r, NEW t, Resume(r, t), Passed(r, t)
    PROVE  Shrunk /\ <<r, t>> \notin want' \cup granted'
  BY Zenon DEF Resume, Passed, Shrunk

\* What a C thread that is not waiting does keeps the waits of the others.
LEMMA CWaits ==
    ASSUME Types, Waits, Shrunk, NEW t \in Thread, UNCHANGED <<task, wpc>>,
           NEW s, CGoto(t, s), <<"c", t>> \notin want' \cup granted',
           \A u \in Thread : rpc'[u] = rpc[u] \/ rpc'[u] \in WaitStep
    PROVE  Waits'
  BY Zenon DEF Types, Waits, Shrunk, CGoto

\* So does what an actor does on a thread it is not waiting for.
LEMMA TaskWaits ==
    ASSUME Types, Waits, Shrunk, NEW a \in Actor, NEW t \in Thread, UNCHANGED <<cpc, wpc>>,
           NEW s, Goto(a, t, s), <<a, t>> \notin want' \cup granted',
           \A u \in Thread : rpc'[u] = rpc[u] \/ rpc'[u] \in WaitStep
    PROVE  Waits'
  BY Zenon DEF Types, Waits, Shrunk, Goto

\* Only who is at a WaitFor is subscribed or answered.
LEMMA WaitsStep ==
    ASSUME Types, Waits, MuSteps, \A t \in Thread : Shape(t), [Next]_vars
    PROVE  Waits'
  <1>0. want \cap granted = {}
    BY Zenon DEF Waits
  <1>1. ASSUME NEW t \in Thread, CThread(t) \/ selectRequest(t)
        PROVE  Waits'
    <2>1. CASE idleWoken(t) \/ newHandlerCalled(t)
      BY <1>0, <2>1, CWaits, ResumeShrinks, Zenon DEF idleWoken, newHandlerCalled
    <2>2. CASE ~(idleWoken(t) \/ newHandlerCalled(t))
      <3>1. <<"c", t>> \notin want \cup granted
        BY <1>1, <2>2
        DEF CThread, selectRequest, beforeScriptExecution, setInactive, setInactiveAgain,
            setReadyAgain, transitionToNewHandler, setAndGo, setReady, waitForRequest, selectDrained,
            requestEnds, scriptEnds, scriptBooted, scriptFails, replaceUnhealthy, exitThread, Waits, WaitStep
      <3>2. UNCHANGED cellVars \/ \E s : Publish(t, s, {})
        BY <1>1, <2>2, Zenon
        DEF CThread, selectRequest, beforeScriptExecution, setInactive, setInactiveAgain,
            setReadyAgain, transitionToNewHandler, setAndGo, setReady, waitForRequest, selectDrained,
            requestEnds, scriptEnds, scriptBooted, scriptFails, replaceUnhealthy, exitThread
      <3>3. Shrunk
        BY <1>0, <3>2, PublishShrinks, Zenon DEF Shrunk
      <3>4. UNCHANGED <<task, wpc>> /\ \E s : CGoto(t, s)
        BY <1>1, <2>2, Zenon
        DEF CThread, selectRequest, beforeScriptExecution, setInactive, setInactiveAgain,
            setReadyAgain, transitionToNewHandler, setAndGo, setReady, waitForRequest, selectDrained,
            requestEnds, scriptEnds, scriptBooted, scriptFails, replaceUnhealthy, exitThread
      <3>5. \A u \in Thread : rpc'[u] = rpc[u] \/ rpc'[u] \in WaitStep
        BY <1>1, <2>2, Zenon
        DEF CThread, selectRequest, beforeScriptExecution, setInactive, setInactiveAgain,
            setReadyAgain, transitionToNewHandler, setAndGo, setReady, waitForRequest, selectDrained,
            requestEnds, scriptEnds, scriptBooted, scriptFails, replaceUnhealthy, exitThread, WaitStep, Types
      <3> QED
        BY <3>1, <3>3, <3>4, <3>5, CWaits, Zenon DEF Shrunk
    <2> QED
      BY <2>1, <2>2, Zenon
  <1>2. ASSUME NEW t \in Thread, Respawn(t)
        PROVE  Waits'
    <2>1. CASE rebootedWoken(t)
      BY <1>0, <2>1, ResumeShrinks, Zenon DEF rebootedWoken, Shrunk, Waits, Types
    <2>2. CASE rebootedCreate(t)
      <3>1. cpc[t] = "none"
        BY <1>2, <2>2, Zenon DEF rebootedCreate, Shape, Respawning
      <3> QED
        BY <2>2, <3>1, ZenonT(40) DEF rebootedCreate, CGoto, Waits, WaitStep, Types
    <2>3. CASE releaseDetach(t)
      BY <2>3, Zenon DEF releaseDetach, Waits, WaitStep, Types
    <2>4. CASE releaseReserve(t)
      BY <1>0, <2>4, PublishShrinks DEF releaseReserve, Shrunk, Waits, WaitStep, Types
    <2> QED
      BY <1>2, <2>1, <2>2, <2>3, <2>4, Zenon DEF Respawn
  <1>3. ASSUME NEW r \in Role, NEW t \in Thread, WaitFor(r, t)
        PROVE  Waits'
    <2>1. Step(r, t) \in WaitStep /\ want' = want \cup {<<r, t>>} /\ <<r, t>> \notin granted
          /\ UNCHANGED <<granted, cpc, rpc, wpc, task>>
      BY <1>3, Zenon DEF WaitFor
    <2>2. want' \cap granted' = {}
      BY <2>1, Zenon DEF Waits
    <2>3. CASE r \in Actor
      <3>1. task[r][t] \in WaitStep
        BY <2>1, <2>3, StepIs, Zenon
      <3>2. r \notin {"c", "respawn", "ready"}
        BY <2>3, Zenon DEF Actor
      <3> QED
        BY <2>1, <2>2, <3>1, <3>2, Zenon DEF Waits
    <2>4. CASE r \in {"c", "respawn", "ready"}
      <3>1. r \notin Actor
        BY <2>4, Zenon DEF Actor
      <3> QED
        BY <2>1, <2>2, <2>4, <3>1, StepIs DEF Waits
    <2> QED
      BY <1>3, <2>3, <2>4, Zenon DEF Role
  <1>4. ASSUME NEW a \in Actor, NEW t \in Thread, Controller(a, t)
        PROVE  Waits'
    <2>1. CASE bootThread(a, t)
      <3>1. <<a, t>> \notin want \cup granted
        BY <1>4, <2>1, Zenon DEF bootThread, Waits, WaitStep
      <3>2. UNCHANGED cellVars \/ \E s : Publish(t, s, {})
        BY <2>1, Zenon DEF bootThread
      <3>3. Shrunk /\ <<a, t>> \notin want' \cup granted'
        BY <1>0, <3>1, <3>2, PublishShrinks, Zenon DEF Shrunk
      <3>4. CASE UNCHANGED cpc
        BY <1>4, <2>1, <3>3, <3>4, TaskWaits, Zenon DEF bootThread
      <3>5. CASE CGoto(t, "before") /\ Goto(a, t, "boot") /\ state[t] \in {"Reserved", "BootRequested"}
        <4>1. cpc[t] = "none"
          BY <3>5, Zenon DEF Shape, Gone
        <4>2. \A u \in Thread : <<"c", u>> \in want' \cup granted' => cpc'[u] \in WaitStep
          BY <3>3, <3>5, <4>1, Zenon DEF CGoto, Shrunk, Waits, WaitStep, Types
        <4>3. \A u \in Thread, b \in Actor : <<b, u>> \in want' \cup granted' => task'[b][u] \in WaitStep
          <5>1. \A u \in Thread, b \in Actor : <<b, u>> # <<a, t>> => task'[b][u] = task[b][u]
            BY <1>4, <3>5, Zenon DEF Goto, Types
          <5> QED
            BY <1>4, <3>3, <5>1, Zenon DEF Shrunk, Waits
        <4>4. UNCHANGED <<rpc, wpc>>
          BY <2>1, Zenon DEF bootThread
        <4> QED
          BY <3>3, <4>2, <4>3, <4>4, Zenon DEF Shrunk, Waits
      <3> QED
        BY <2>1, <3>4, <3>5, Zenon DEF bootThread
    <2>2. CASE booted(a, t) \/ retrySafe(a, t)
      BY <1>0, <2>2, ResumeShrinks, TaskWaits, Zenon DEF booted, retrySafe
    <2>3. CASE setHandlerRequest(a, t) \/ setHandlerClose(a, t)
      <3>1. <<a, t>> \notin want \cup granted
        BY <1>4, <2>3, Zenon DEF setHandlerRequest, setHandlerClose, closeDrain, Waits, WaitStep
      <3>2. UNCHANGED cellVars \/ \E s : Publish(t, s, {})
        BY <2>3, Zenon DEF setHandlerRequest, RequestSafeStateChange, setHandlerClose, closeDrain
      <3>3. Shrunk /\ <<a, t>> \notin want' \cup granted'
        BY <1>0, <3>1, <3>2, PublishShrinks DEF Shrunk
      <3>4. UNCHANGED <<cpc, wpc, rpc>> /\ \E s : Goto(a, t, s)
        BY <2>3, Zenon DEF setHandlerRequest, RequestSafeStateChange, setHandlerClose, closeDrain
      <3> QED
        BY <3>3, <3>4, TaskWaits, Zenon
    <2>4. CASE setHandlerComplete(a, t)
      <3>1. Shrunk /\ <<a, t>> \notin want' \cup granted'
        BY <1>0, <2>4, PublishShrinks, Zenon DEF setHandlerComplete, Passed, Shrunk
      <3> QED
        BY <2>4, <3>1, TaskWaits, Zenon DEF setHandlerComplete
    <2> QED
      BY <1>4, <2>1, <2>2, <2>3, <2>4, Zenon DEF Controller
  <1>5. ASSUME NEW a \in Actor, inactivePHPThread(a), UNCHANGED <<cpc, rpc, wpc>>,
               \A t \in Thread : task[a][t] = "none"
        PROVE  Waits'
    <2>1. CASE UNCHANGED <<cellVars, task>>
      BY <1>5, <2>1, Zenon DEF Waits
    <2>2. ASSUME NEW t \in Thread, NEW s, Goto(a, t, s),
                 UNCHANGED cellVars \/ Publish(t, "BootRequested", {})
          PROVE  Waits'
      <3>1. Shrunk
        BY <1>0, <2>2, PublishShrinks, Zenon DEF Shrunk
      <3>2. <<a, t>> \notin want \cup granted
        BY <1>5, Zenon DEF Waits, WaitStep
      <3> QED
        BY <1>5, <2>2, <3>1, <3>2, TaskWaits, Zenon DEF Shrunk
    <2> QED
      BY <1>5, <2>1, <2>2, Zenon DEF inactivePHPThread
  <1>6. CASE InitStep
    <2>1. CASE initBooted \/ initDone
      BY <2>1, Zenon DEF initBooted, initDone, Waits
    <2>2. CASE initPick
      BY <1>5, <2>2, Zenon DEF initPick, InitIdle, Actor
    <2>3. ASSUME NEW t \in Thread, initAttach(t)
          PROVE  Waits'
      BY <2>3, ZenonT(60) DEF initAttach, Goto, Waits, WaitStep, Types, Actor
    <2>4. ASSUME NEW t \in Thread, initStarted(t)
          PROVE  Waits'
      BY <1>0, <2>4, ResumeShrinks, Zenon DEF initStarted, Shrunk, Waits, Types, Actor
    <2> QED
      BY <1>6, <2>1, <2>2, <2>3, <2>4, Zenon DEF InitStep
  <1>7. ASSUME NEW t \in Thread, NEW s, Goto("mu", t, s), Shrunk, <<"mu", t>> \notin want' \cup granted',
               UNCHANGED <<cpc, wpc>>, \A u \in Thread : rpc'[u] = rpc[u] \/ rpc'[u] \in WaitStep
        PROVE  Waits'
    BY <1>7, TaskWaits, Zenon DEF Actor
  <1>8. CASE AddStep
    <2>1. CASE addPick
      BY <1>5, <2>1, Zenon DEF addPick, AllMu, Actor
    <2>2. ASSUME NEW t \in Thread, addAttach(t)
          PROVE  Waits'
      BY <1>0, <1>7, <2>2, Zenon DEF addAttach, Shrunk, Waits, WaitStep, Actor
    <2>3. ASSUME NEW t \in Thread, addDone(t)
          PROVE  Waits'
      BY <1>0, <1>7, <2>3, ResumeShrinks, Zenon DEF addDone
    <2> QED
      BY <1>8, <2>1, <2>2, <2>3, Zenon DEF AddStep
  <1>9. CASE DownStep
    <2>1. CASE downDone
      BY <2>1, Zenon DEF downDone, Waits
    <2>2. ASSUME NEW t \in Thread, downCheck(t) \/ downConverted(t)
          PROVE  Waits'
      <3>1. <<"mu", t>> \notin want \cup granted
        BY <2>2, Zenon DEF downCheck, downConverted, Waits, WaitStep, Actor
      <3>2. UNCHANGED <<cellVars, cpc, rpc, wpc>> /\ \E s : Goto("mu", t, s)
        BY <2>2, Zenon DEF downCheck, downConverted
      <3> QED
        BY <1>0, <1>7, <3>1, <3>2, Zenon DEF Shrunk
    <2> QED
      BY <1>9, <2>1, <2>2, Zenon DEF DownStep
  <1>10. CASE RebootStep
    <2>1. CASE rebootMain
      <3>1. \A t \in Thread : <<"mu", t>> \notin want \cup granted
        BY <2>1, Zenon DEF rebootMain, AllMu, Waits, WaitStep, Actor
      <3> QED
        BY <2>1, <3>1, Zenon DEF rebootMain, Waits, Types, Actor
    <2>2. CASE rebootDone
      BY <2>2, Zenon DEF rebootDone, Waits
    <2>3. ASSUME NEW t \in Thread, forceReboot(t) \/ rebootClose(t) \/ rebootResume(t)
          PROVE  Waits'
      <3>1. <<"mu", t>> \notin want \cup granted
        BY <2>3, Zenon DEF forceReboot, rebootClose, closeDrain, rebootResume, Waits, WaitStep, Actor
      <3>2. UNCHANGED cellVars \/ \E s : Publish(t, s, {})
        BY <2>3, Zenon DEF forceReboot, RequestSafeStateChange, rebootClose, closeDrain, rebootResume
      <3>3. Shrunk
        BY <1>0, <3>2, PublishShrinks DEF Shrunk
      <3>4. UNCHANGED <<cpc, wpc>> /\ \E s : Goto("mu", t, s)
        BY <2>3, Zenon DEF forceReboot, RequestSafeStateChange, rebootClose, closeDrain, rebootResume
      <3>5. \A u \in Thread : rpc'[u] = rpc[u] \/ rpc'[u] \in WaitStep
        BY <2>3, Zenon DEF forceReboot, rebootClose, closeDrain, rebootResume, WaitStep, Types
      <3> QED
        BY <1>7, <3>1, <3>3, <3>4, <3>5, Zenon DEF Shrunk
    <2>4. ASSUME NEW t \in Thread, rebootYielded(t) \/ rebootStable(t)
          PROVE  Waits'
      BY <1>0, <1>7, <2>4, ResumeShrinks, Zenon DEF rebootYielded, rebootStable
    <2> QED
      BY <1>10, <2>1, <2>2, <2>3, <2>4, Zenon DEF RebootStep
  <1>11. CASE DrainStep
    <2>1. CASE drainMain \/ drainDone
      BY <2>1, Zenon DEF drainMain, drainDone, Waits
    <2>2. ASSUME NEW t \in Thread, shutdownRequest(t) \/ shutdownClose(t)
          PROVE  Waits'
      <3>1. <<"mu", t>> \notin want \cup granted
        BY <2>2, Zenon DEF shutdownRequest, shutdownClose, closeDrain, Waits, WaitStep, Actor
      <3>2. UNCHANGED cellVars \/ \E s : Publish(t, s, {})
        BY <2>2, Zenon DEF shutdownRequest, RequestSafeStateChange, shutdownClose, closeDrain
      <3>3. Shrunk
        BY <1>0, <3>2, PublishShrinks DEF Shrunk
      <3>4. UNCHANGED <<cpc, rpc, wpc>> /\ \E s : Goto("mu", t, s)
        BY <2>2, Zenon DEF shutdownRequest, RequestSafeStateChange, shutdownClose, closeDrain
      <3> QED
        BY <1>7, <3>1, <3>3, <3>4, Zenon DEF Shrunk
    <2>3. ASSUME NEW t \in Thread, shutdownExited(t) \/ shutdownJoined(t)
          PROVE  Waits'
      <3>1. Passed("mu", t) /\ UNCHANGED <<cpc, rpc, wpc>> /\ \E s : Goto("mu", t, s)
        BY <2>3, Zenon DEF shutdownExited, shutdownJoined
      <3>2. Resume("mu", t) \/ \E s : Publish(t, s, {<<"mu", t>>})
        BY <2>3, Zenon DEF shutdownExited, shutdownJoined
      <3>3. Shrunk /\ <<"mu", t>> \notin want' \cup granted'
        BY <1>0, <3>1, <3>2, ResumeShrinks, PublishShrinks, Zenon DEF Passed
      <3> QED
        BY <1>7, <3>1, <3>3, Zenon
    <2> QED
      BY <1>11, <2>1, <2>2, <2>3, Zenon DEF DrainStep
  <1>12. CASE MainStep
    BY <1>12, Zenon DEF MainStep, mainTeardown, mainExit, mainStart, Waits
  <1>13. ASSUME NEW p \in Pool, scale(p) \/ restoreThread(p) \/ restoreQuit(p)
         PROVE  Waits'
    BY <1>13, Zenon DEF scale, restoreThread, restoreQuit, Waits
  <1>14. CASE down \/ reboot \/ drainPHPThreads
    <2>1. \A t \in Thread : <<"mu", t>> \notin want \cup granted
      BY <1>14, Zenon DEF down, reboot, drainPHPThreads, MuSteps, Waits, WaitStep, Actor
    <2> QED
      BY <1>14, <2>1, Zenon DEF down, reboot, drainPHPThreads, Waits, Types, Actor
  <1>15. CASE Over \/ UNCHANGED vars
    BY <1>15, Zenon DEF Over, vars, Waits
  <1> QED
    BY <1>1, <1>2, <1>3, <1>4, <1>6, <1>8, <1>9, <1>10, <1>11, <1>12, <1>13, <1>14, <1>15, Zenon DEF Next

-----------------------------------------------------------------------------
(* Layer 4: the state of a thread, its C thread and who acts on it agree *)

\* The variables Shape(t) reads are as before; fewer waits may be answered.
Same(t) ==
    /\ state'[t] = state[t] /\ cpc'[t] = cpc[t] /\ rpc'[t] = rpc[t]
    /\ \A a \in Actor : task'[a][t] = task[a][t]
    /\ \A r \in Role : <<r, t>> \in granted' => <<r, t>> \in granted

\* What is answered on thread u by publishing s.
Answers(u, s) ==
    /\ <<"respawn", u>> \in granted' => <<"respawn", u>> \in granted \/ s = "RebootReady"
    /\ <<"c", u>> \in granted' /\ cpc[u] = "newHandler" =>
          <<"c", u>> \in granted \/ s = "TransitionComplete"
    /\ \A a \in Actor : <<a, u>> \in granted' /\ task[a][u] = "transit" =>
          <<a, u>> \in granted \/ s = "TransitionInProgress"
    /\ <<"mu", u>> \in granted' /\ <<"mu", u>> \notin granted =>
          /\ task["mu"][u] = "yield" => s = "YieldingForReboot"
          /\ task["mu"][u] = "exit" => s = "Done"
          /\ task["mu"][u] = "join" => s \in {"Done", "Reserved"}

\* Which states end the waits that Shape speaks of.
LEMMA AwaitedIs ==
    /\ Awaited("rebooted") = {"RebootReady"}
    /\ Awaited("newHandler") = {"TransitionComplete"}
    /\ Awaited("transit") = {"TransitionInProgress"}
    /\ Awaited("yield") = {"YieldingForReboot"}
    /\ Awaited("exit") = {"Done"}
    /\ Awaited("join") = {"Done", "Reserved"}
  BY Zenon DEF Awaited

\* A thread nobody touched keeps its shape.
LEMMA SameShape ==
    ASSUME NEW t \in Thread, Shape(t), Same(t),
           mu' = "drain" => mu = "drain",
           failed \/ mu = "drain" => failed' \/ mu' = "drain"
    PROVE  Shape(t)'
  BY Zenon DEF Shape, Same, Respawning, Gone, Leaving, Role, Actor

\* state.Set only answers waits for the state it sets.
LEMMA PublishAnswers ==
    ASSUME Types, Waits, NEW u \in Thread, NEW s \in State, NEW R, Publish(u, s, R)
    PROVE  Answers(u, s) /\ state'[u] = s
  <1>1. state'[u] = s
    BY Zenon DEF Publish, Types
  <1>2. \A r \in Role : <<r, u>> \in granted' /\ <<r, u>> \notin granted =>
            <<r, u>> \in want /\ s \in Awaited(Step(r, u))
    BY Zenon DEF Publish
  <1>3. <<"respawn", u>> \in want => rpc[u] = "rebooted"
    BY Zenon DEF Waits, WaitStep, Types, RStep
  <1> QED
    BY <1>1, <1>2, <1>3, StepIs, AwaitedIs DEF Answers, Role, Actor

\* The cells of one thread change.
OneCell(u) ==
    \/ UNCHANGED <<state, granted>>
    \/ \E s, R : Publish(u, s, R)
    \/ \E r : Resume(r, u)

\* Then the cells of the other threads do not.
LEMMA OtherCells ==
    ASSUME Types, NEW u \in Thread, OneCell(u), NEW t \in Thread, t # u
    PROVE  state'[t] = state[t] /\ \A r \in Role : <<r, t>> \in granted' => <<r, t>> \in granted
  BY Zenon DEF OneCell, Publish, Resume, Types

\* Steps of a C thread and of its startRebootedThread touch no other thread.
LEMMA CFrame ==
    ASSUME Types, NEW u \in Thread, OneCell(u), UNCHANGED task,
           \A t \in Thread : t # u => cpc'[t] = cpc[t] /\ rpc'[t] = rpc[t],
           NEW t \in Thread, t # u
    PROVE  Same(t)
  BY OtherCells, Zenon DEF Same

\* The shape of a thread whose C thread runs (and is not converting) after a
\* step of that C thread.
LEMMA CShape ==
    ASSUME NEW u \in Thread, Shape(u), cpc[u] \notin {"none", "newHandler"},
           UNCHANGED <<task, mu>>, failed => failed',
           NEW s, state'[u] = s, Answers(u, s) \/ granted' \subseteq granted,
           s \in Gone => cpc'[u] = "none",
           Respawning(u)' => s = "RebootReady" /\ cpc'[u] = "none",
           cpc'[u] = "leave" => s \in Leaving,
           s = "TransitionInProgress" => cpc'[u] = "newHandler",
           cpc'[u] = "newHandler" => <<"c", u>> \notin granted',
           s \in {"ShuttingDown", "Done"} => failed' \/ mu = "drain"
    PROVE  Shape(u)'
  <1>1. state[u] \notin Gone /\ state[u] # "TransitionInProgress"
    BY Zenon DEF Shape
  <1>2. \A a \in Actor : task[a][u] = "transit" => <<a, u>> \notin granted
    BY <1>1, Zenon DEF Shape
  <1>3. <<"mu", u>> \in granted => task["mu"][u] \notin {"yield", "exit", "join"}
    BY <1>1, Zenon DEF Shape, Gone
  <1>4. /\ task["mu"][u] \notin {"yielded", "down", "skip"}
        /\ ~(mu = "drain" /\ task["mu"][u] = "none")
    BY <1>1, Zenon DEF Shape, Gone
  <1>5. \A a \in Actor :
          task'[a][u] = "transit" /\ <<a, u>> \in granted' => state'[u] = "TransitionInProgress"
    BY <1>2, Zenon DEF Answers
  <1>6. <<"mu", u>> \in granted' =>
          /\ task'["mu"][u] = "yield" => state'[u] = "YieldingForReboot"
          /\ task'["mu"][u] = "exit" => state'[u] = "Done"
          /\ task'["mu"][u] = "join" => state'[u] \in {"Done", "Reserved"}
    BY <1>3, Zenon DEF Answers
  <1> QED
    BY <1>4, <1>5, <1>6, Zenon DEF Shape

\* Layer 4, C threads: whatever a C thread does, every thread keeps its shape.
LEMMA CThreadShape ==
    ASSUME Types, Waits, \A t \in Thread : Shape(t), NEW u \in Thread,
           CThread(u) \/ selectRequest(u)
    PROVE  \A t \in Thread : Shape(t)'
  <1> USE DEF CGoto
  <1>0. UNCHANGED <<task, mu>> /\ (UNCHANGED failed \/ failed' = TRUE)
    BY Zenon DEF CThread, selectRequest, beforeScriptExecution, setInactive, idleWoken, setInactiveAgain,
        setReadyAgain, transitionToNewHandler, newHandlerCalled, setAndGo, setReady, waitForRequest,
        selectDrained, requestEnds, scriptEnds, scriptBooted, scriptFails, replaceUnhealthy, exitThread,
        muVars, initVars
  <1>1. UNCHANGED <<task, mu>> /\ (failed => failed')
    <2>1. CASE failed' = TRUE
      BY <1>0, <2>1, Zenon
    <2>2. CASE UNCHANGED failed
      BY <1>0, <2>2, Zenon
    <2> QED
      BY <1>0, <2>1, <2>2, Zenon
  <1>2. OneCell(u)
    BY Zenon DEF CThread, selectRequest, beforeScriptExecution, setInactive, idleWoken, setInactiveAgain,
        setReadyAgain, transitionToNewHandler, newHandlerCalled, setAndGo, setReady, waitForRequest,
        selectDrained, requestEnds, scriptEnds, scriptBooted, scriptFails, replaceUnhealthy, exitThread,
        cellVars, OneCell
  <1>3. \A t \in Thread : t # u => cpc'[t] = cpc[t] /\ rpc'[t] = rpc[t]
    BY Zenon DEF CThread, selectRequest, beforeScriptExecution, setInactive, idleWoken, setInactiveAgain,
        setReadyAgain, transitionToNewHandler, newHandlerCalled, setAndGo, setReady, waitForRequest,
        selectDrained, requestEnds, scriptEnds, scriptBooted, scriptFails, replaceUnhealthy, exitThread,
        Types
  <1>4. \A t \in Thread : t # u => Shape(t)'
    BY <1>1, <1>2, <1>3, CFrame, SameShape, Zenon
  <1>5. Shape(u)'
    <2>1. CASE newHandlerCalled(u)
      <3>1. state[u] = "TransitionComplete" /\ cpc[u] = "newHandler"
        BY <2>1, StepIs, AwaitedIs, ZenonT(40) DEF newHandlerCalled, Passed, Shape
      <3>2. UNCHANGED <<state, rpc, failed>> /\ granted' \subseteq granted /\ cpc'[u] = "before"
        BY <2>1, Zenon DEF newHandlerCalled, Resume, Types, threadVars, initVars
      <3> QED
        BY <1>1, <3>1, <3>2, Zenon DEF Shape, Respawning, Gone, Actor
    <2>2. CASE ~newHandlerCalled(u)
      <3>1. cpc[u] \notin {"none", "newHandler"}
        BY <2>2, Zenon DEF CThread, selectRequest, beforeScriptExecution, setInactive, idleWoken, setInactiveAgain,
            setReadyAgain, transitionToNewHandler, setAndGo, setReady, waitForRequest,
            selectDrained, requestEnds, scriptEnds, scriptBooted, scriptFails, replaceUnhealthy, exitThread
      <3>2. ~Respawning(u) /\ state[u] \notin Gone /\ state[u] # "TransitionInProgress"
        BY <3>1, Zenon DEF Shape
      <3>3. CASE granted' \subseteq granted /\ UNCHANGED <<state, rpc>> /\ cpc'[u] \notin {"leave", "newHandler"}
        <4>1. ~Respawning(u)'
          BY <3>2, <3>3, Zenon DEF Respawning
        <4> QED
          BY <1>1, <3>1, <3>2, <3>3, <4>1, CShape, Zenon DEF Shape
      <3>4. CASE beforeScriptExecution(u)
        <4>1. UNCHANGED <<state, granted, rpc>> /\ cpc'[u] = Branch(handler[u], state[u])
          BY <3>4, Zenon DEF beforeScriptExecution, cellVars, Types
        <4>2. /\ cpc'[u] = "leave" => state[u] \in Leaving
              /\ cpc'[u] # "newHandler"
          BY <4>1, Zenon DEF Branch, Leaving
        <4>3. ~Respawning(u)'
          BY <3>2, <4>1, Zenon DEF Respawning
        <4> QED
          BY <1>1, <3>1, <3>2, <4>1, <4>2, <4>3, CShape, Zenon DEF Shape
      <3>5. ASSUME NEW s \in State, Publish(u, s, {}), UNCHANGED rpc,
                   s \notin Gone \cup {"RebootReady", "TransitionInProgress"},
                   cpc'[u] \notin {"leave", "newHandler"},
                   s \in {"ShuttingDown", "Done"} => failed'
            PROVE  Shape(u)'
        <4>1. Answers(u, s) /\ state'[u] = s
          BY <3>5, PublishAnswers, Zenon
        <4>2. ~Respawning(u)'
          BY <3>2, <3>5, <4>1, Zenon DEF Respawning, Answers
        <4> QED
          BY <1>1, <3>1, <3>5, <4>1, <4>2, CShape, Zenon
      <3>6. CASE transitionToNewHandler(u)
        <4>1. Answers(u, "TransitionInProgress") /\ state'[u] = "TransitionInProgress"
          BY <3>6, PublishAnswers, Zenon DEF transitionToNewHandler, setAndGo, State
        <4>2. cpc'[u] = "newHandler" /\ UNCHANGED rpc
          BY <3>6, Zenon DEF transitionToNewHandler, setAndGo, Types
        <4>3. <<"c", u>> \notin granted'
          <5>1. <<"c", u>> \notin want \cup granted
            BY <3>6, Zenon DEF transitionToNewHandler, setAndGo, Waits, WaitStep
          <5> QED
            BY <3>6, <5>1, Zenon DEF transitionToNewHandler, setAndGo, Publish
        <4>4. ~Respawning(u)'
          BY <3>2, <4>1, <4>2, Zenon DEF Respawning, Answers
        <4> QED
          BY <1>1, <3>1, <4>1, <4>2, <4>3, <4>4, CShape, Zenon DEF Gone
      <3>7. CASE waitForRequest(u) /\ Publish(u, "Rebooting", {})
        <4>1. Answers(u, "Rebooting") /\ state'[u] = "Rebooting"
          BY <3>7, PublishAnswers, Zenon DEF State
        <4>2. cpc'[u] # "newHandler" /\ (rpc'[u] = rpc[u] \/ rpc'[u] = "rebooted")
          BY <3>7, Zenon DEF waitForRequest, Types
        <4>3. ~Respawning(u)'
          BY <3>2, <4>1, <4>2, Zenon DEF Respawning, Answers
        <4> QED
          BY <1>1, <3>1, <4>1, <4>2, <4>3, CShape, Zenon DEF Gone, Leaving
      <3>8. CASE exitThread(u)
        <4>1. PICK s \in State : /\ Publish(u, s, {})
                                 /\ s = (CASE state[u] = "Rebooting" -> "RebootReady"
                                           [] state[u] = "ForceRebooting" -> "YieldingForReboot"
                                           [] OTHER -> "Done")
          BY <3>8, Zenon DEF exitThread, State
        <4>2. Answers(u, s) /\ state'[u] = s
          BY <4>1, PublishAnswers, Zenon
        <4>3. state[u] \in Leaving /\ cpc'[u] = "none" /\ UNCHANGED <<rpc, failed>>
          BY <3>8, Zenon DEF exitThread, Shape, Types, initVars
        <4>4. s \in {"RebootReady", "YieldingForReboot", "Done"} /\ (s = "Done" => state[u] = "ShuttingDown")
          BY <4>1, <4>3, Zenon DEF Leaving
        <4>5. Respawning(u)' => s = "RebootReady"
          BY <3>2, <4>2, <4>3, Zenon DEF Respawning, Answers
        <4>6. s \in {"ShuttingDown", "Done"} => failed' \/ mu = "drain"
          BY <4>3, <4>4, Zenon DEF Shape
        <4> QED
          BY <1>1, <3>1, <4>2, <4>3, <4>4, <4>5, <4>6, CShape, Zenon
      <3>9. CASE setInactive(u) \/ setInactiveAgain(u) \/ setReadyAgain(u) \/ setReady(u)
        <4>1. UNCHANGED rpc /\ \E s \in {"Inactive", "Ready"} : Publish(u, s, {})
          BY <3>9, Zenon DEF setInactive, setInactiveAgain, setReadyAgain, setAndGo, setReady
        <4>2. cpc'[u] \notin {"leave", "newHandler"}
          BY <3>9, Zenon DEF setInactive, setInactiveAgain, setReadyAgain, setAndGo, setReady, Types
        <4> QED
          BY <3>5, <4>1, <4>2, Zenon DEF State, Gone
      <3>10. CASE scriptFails(u)
        <4>1. UNCHANGED rpc /\ cpc'[u] \in {"before", "unhealthy"}
          BY <3>10, Zenon DEF scriptFails, Types
        <4>2. CASE UNCHANGED cellVars
          BY <3>3, <4>1, <4>2, Zenon DEF cellVars
        <4>3. CASE failed' = TRUE /\ Publish(u, "ShuttingDown", {})
          BY <3>5, <4>1, <4>3, Zenon DEF State, Gone
        <4> QED
          BY <3>10, <4>2, <4>3, Zenon DEF scriptFails, cellVars
      <3>11. CASE \/ idleWoken(u) \/ selectDrained(u) \/ requestEnds(u) \/ scriptEnds(u)
                  \/ scriptBooted(u) \/ replaceUnhealthy(u) \/ selectRequest(u)
        <4>1. UNCHANGED <<state, rpc>> /\ granted' \subseteq granted
          BY <3>11, Zenon DEF idleWoken, Resume, selectDrained, requestEnds, scriptEnds, scriptBooted,
                       replaceUnhealthy, selectRequest, cellVars
        <4>2. cpc'[u] \notin {"leave", "newHandler"}
          BY <3>11, Zenon DEF idleWoken, selectDrained, requestEnds, scriptEnds, scriptBooted,
                       replaceUnhealthy, selectRequest, Types
        <4> QED
          BY <3>3, <4>1, <4>2, Zenon
      <3>12. CASE waitForRequest(u) /\ UNCHANGED <<cellVars, rpc>>
        <4>1. cpc'[u] \notin {"leave", "newHandler"}
          <5>1. cpc'[u] \in {"setReady", "select"} \/ (limitReached(u) /\ state[u] = "Ready")
            BY <3>12, Zenon DEF waitForRequest, Types
          <5> QED
            BY <3>12, <5>1, Zenon DEF waitForRequest, Types, cellVars, Publish
        <4> QED
          BY <3>3, <3>12, <4>1, Zenon DEF cellVars
      <3> QED
        BY <2>2, <3>4, <3>6, <3>7, <3>8, <3>9, <3>10, <3>11, <3>12, Zenon
        DEF CThread, waitForRequest
    <2> QED
      BY <2>1, <2>2, Zenon
  <1> QED
    BY <1>4, <1>5, Zenon

\* Layer 4, startRebootedThread: it starts a C thread for a slot that has none.
LEMMA RespawnShape ==
    ASSUME Types, Waits, \A t \in Thread : Shape(t), NEW u \in Thread, Respawn(u)
    PROVE  \A t \in Thread : Shape(t)'
  <1> USE DEF CGoto
  <1>1. UNCHANGED <<task, mu, failed>>
    BY Zenon DEF Respawn, rebootedWoken, rebootedCreate, releaseDetach, releaseReserve, muVars, initVars
  <1>2. OneCell(u)
    BY Zenon DEF Respawn, rebootedWoken, rebootedCreate, releaseDetach, releaseReserve, OneCell, cellVars
  <1>3. \A t \in Thread : t # u => cpc'[t] = cpc[t] /\ rpc'[t] = rpc[t]
    BY Zenon DEF Respawn, rebootedWoken, rebootedCreate, releaseDetach, releaseReserve, Types
  <1>4. \A t \in Thread : t # u => Shape(t)'
    BY <1>1, <1>2, <1>3, CFrame, SameShape, Zenon
  <1>5. Respawning(u) /\ state[u] = "RebootReady" /\ cpc[u] = "none"
    <2>1. Respawning(u)
      BY StepIs, AwaitedIs, Zenon DEF Respawn, rebootedWoken, rebootedCreate, releaseDetach, releaseReserve,
         Respawning, Passed
    <2> QED
      BY <2>1, Zenon DEF Shape
  <1>6. Shape(u)'
    <2>1. CASE releaseReserve(u)
      <3>1. Answers(u, "Reserved") /\ state'[u] = "Reserved"
        BY <2>1, PublishAnswers, Zenon DEF releaseReserve, State
      <3>2. rpc'[u] = "none" /\ UNCHANGED cpc /\ <<"respawn", u>> \notin granted'
        <4>1. <<"respawn", u>> \notin granted
          BY <2>1, Zenon DEF releaseReserve, Waits, WaitStep
        <4> QED
          BY <2>1, <3>1, <4>1, Zenon DEF releaseReserve, Types, Answers
      <3> QED
        BY <1>1, <1>5, <3>1, <3>2, Zenon DEF Shape, Respawning, Answers, Actor
    <2>2. CASE rebootedCreate(u) /\ cpc'[u] = "before"
      <3>1. <<"respawn", u>> \notin granted
        BY <2>2, Zenon DEF rebootedCreate, Waits, WaitStep
      <3>2. UNCHANGED <<state, granted>> /\ rpc'[u] = "none"
        BY <1>5, <2>2, Zenon DEF rebootedCreate, Types, cellVars
      <3> QED
        BY <1>1, <1>5, <2>2, <3>1, <3>2, Zenon DEF Shape, Respawning, Gone, Actor
    <2>3. CASE UNCHANGED <<state, cpc>> /\ granted' \subseteq granted
      BY <1>1, <1>5, <2>3, Zenon DEF Shape, Respawning, Actor
    <2> QED
      BY <2>1, <2>2, <2>3, Zenon
      DEF Respawn, rebootedWoken, rebootedCreate, releaseDetach, Resume, cellVars, Types
  <1> QED
    BY <1>4, <1>6, Zenon

\* The step of an actor on one thread changes no other step.
LEMMA GotoIs ==
    ASSUME Types, NEW a \in Actor, NEW u \in Thread, NEW x, Goto(a, u, x)
    PROVE  /\ task'[a][u] = x
           /\ \A b \in Actor, t \in Thread : <<b, t>> # <<a, u>> => task'[b][t] = task[b][t]
  BY Zenon DEF Goto, Types

\* Init and the holder of scalingMu are never at work on the same thread.
LEMMA Alone ==
    ASSUME Phases, NEW a \in Actor, NEW u \in Thread,
           task[a][u] # "none" \/ (a = "init" /\ ini \notin Started) \/ (a = "mu" /\ mu # "free")
    PROVE  /\ \A b \in Actor : b # a => task[b][u] = "none"
           /\ a = "init" => mu = "free"
  BY Zenon DEF Phases, Actor

\* Every thread keeps its shape in a step of an actor that publishes nothing.
LEMMA TaskShape ==
    ASSUME Types, \A t \in Thread : Shape(t), NEW a \in Actor, NEW u \in Thread, NEW x, Goto(a, u, x),
           UNCHANGED <<state, cpc, rpc>>, granted' \subseteq granted,
           mu' = "drain" => mu = "drain", failed \/ mu = "drain" => failed' \/ mu' = "drain",
           x = "transit" => <<a, u>> \notin granted',
           a = "mu" => /\ x \in {"yield", "exit", "join"} => <<"mu", u>> \notin granted'
                       /\ x \in {"yielded", "down"} => state[u] = "YieldingForReboot"
                       /\ x = "skip" => state[u] = "Reserved"
                       /\ mu = "drain" /\ x = "none" => state[u] = "Reserved"
    PROVE  \A t \in Thread : Shape(t)'
  <1>1. /\ task'[a][u] = x
        /\ \A b \in Actor, t \in Thread : <<b, t>> # <<a, u>> => task'[b][t] = task[b][t]
    BY GotoIs, Zenon
  <1>2. ASSUME NEW t \in Thread, t # u PROVE Shape(t)'
    BY <1>1, <1>2, SameShape, Zenon DEF Same
  <1>3. Shape(u)'
    <2>1. CASE a = "init"
      BY <1>1, <2>1 DEF Shape, Respawning, Actor
    <2>2. CASE a = "mu"
      BY <1>1, <2>2 DEF Shape, Respawning, Actor
    <2> QED
      BY <2>1, <2>2, Zenon DEF Actor
  <1> QED
    BY <1>2, <1>3, Zenon

\* The conditions under which the step of actor a on thread u that publishes s
\* and goes on to x leaves every shape intact.
Fits(a, u, x, s) ==
    /\ \A b \in Actor : b # a => task[b][u] = "none"
    /\ a = "init" => mu = "free"
    /\ state[u] # "RebootReady"
    /\ \A t \in Thread : t # u => cpc'[t] = cpc[t] /\ rpc'[t] = rpc[t]
    /\ mu' = "drain" => mu = "drain"
    /\ failed \/ mu = "drain" => failed' \/ mu' = "drain"
    /\ rpc'[u] \in {rpc[u], "rebooted"}
    /\ s \in Gone \cup {"RebootReady"} => cpc'[u] = "none"
    /\ cpc'[u] = "leave" => s \in Leaving
    /\ s # "TransitionInProgress"
    /\ cpc'[u] = "newHandler" /\ <<"c", u>> \in granted' => s = "TransitionComplete"
    /\ x \notin {"transit", "yield", "exit", "join", "yielded", "down", "skip"}
    /\ mu = "drain" /\ x = "none" => s = "Reserved"
    /\ s \in {"ShuttingDown", "Done"} => failed' \/ mu' = "drain"

\* Every thread keeps its shape in a step of an actor that publishes s.
LEMMA ActorShape ==
    ASSUME Types, Waits, \A t \in Thread : Shape(t), NEW a \in Actor, NEW u \in Thread,
           NEW x, Goto(a, u, x), NEW s \in State, NEW R, Publish(u, s, R), Fits(a, u, x, s)
    PROVE  \A t \in Thread : Shape(t)'
  <1> USE DEF Fits
  <1>1. /\ task'[a][u] = x
        /\ \A b \in Actor, t \in Thread : <<b, t>> # <<a, u>> => task'[b][t] = task[b][t]
    BY GotoIs, Zenon
  <1>2. ASSUME NEW t \in Thread, t # u PROVE Shape(t)'
    <2>1. OneCell(u)
      BY Zenon DEF OneCell
    <2> QED
      BY <1>1, <1>2, <2>1, OtherCells, SameShape, Zenon DEF Same
  <1>3. Answers(u, s) /\ state'[u] = s
    BY PublishAnswers, Zenon
  <1>4. ~Respawning(u)
    BY Zenon DEF Shape
  <1>5. Respawning(u)' => s = "RebootReady"
    BY <1>3, <1>4, Zenon DEF Respawning, Answers
  <1>6. /\ \A b \in Actor : task'[b][u] # "transit"
        /\ task'["mu"][u] \notin {"yield", "exit", "join", "yielded", "down", "skip"}
        /\ mu' = "drain" /\ task'["mu"][u] = "none" => s = "Reserved"
    BY <1>1, Zenon DEF Actor
  <1>7. Shape(u)'
    BY <1>3, <1>5, <1>6, Zenon DEF Shape
  <1> QED
    BY <1>2, <1>7, Zenon

\* Giving up on a thread forgets no failure, and is not part of a drain.
LEMMA NoThreadKeeps ==
    ASSUME NEW a \in Actor, noThread(a), mu # "drain"
    PROVE  mu' # "drain" /\ (failed => failed')
  <1>1. CASE failed' = TRUE
    BY <1>1, Zenon DEF noThread, Actor
  <1>2. CASE UNCHANGED failed
    BY <1>2, Zenon DEF noThread, Actor
  <1> QED
    BY <1>1, <1>2, Zenon DEF noThread, Actor

\* Layer 4, inactivePHPThread: a slot that is claimed has no C thread.
LEMMA PickShape ==
    ASSUME Types, Phases, Waits, \A t \in Thread : Shape(t), NEW a \in Actor, inactivePHPThread(a),
           (a = "init" /\ ini \notin Started) \/ (a = "mu" /\ mu \in {"scale", "restore"}),
           UNCHANGED <<cpc, rpc>>
    PROVE  \A t \in Thread : Shape(t)'
  <1>1. mu # "drain" /\ \A u \in Thread : /\ \A b \in Actor : b # a => task[b][u] = "none"
                                          /\ a = "init" => mu = "free"
    BY Alone, Zenon DEF Phases
  <1>2. ASSUME NEW u \in Thread, Goto(a, u, "convert"), UNCHANGED <<cellVars, mu, failed>>
        PROVE  \A t \in Thread : Shape(t)'
    BY <1>1, <1>2, TaskShape, Zenon DEF cellVars
  <1>3. ASSUME NEW u \in Thread, state[u] = "Reserved", Publish(u, "BootRequested", {}),
               Goto(a, u, "create"), UNCHANGED <<mu, failed>>
        PROVE  \A t \in Thread : Shape(t)'
    <2>1. cpc[u] = "none"
      BY <1>3, Zenon DEF Shape, Gone
    <2>2. "BootRequested" \in State
      BY Zenon DEF State
    <2>3. /\ mu' = "drain" => mu = "drain"
          /\ failed \/ mu = "drain" => failed' \/ mu' = "drain"
      BY <1>3, Zenon
    <2>4. Fits(a, u, "create", "BootRequested")
      BY <1>1, <1>3, <2>1, <2>3, Zenon DEF Fits
    <2> QED
      BY <1>3, <2>2, <2>4, ActorShape, Zenon
  <1>4. CASE noThread(a) /\ UNCHANGED <<cellVars, task>>
    <2>1. mu' # "drain" /\ (failed => failed')
      BY <1>1, <1>4, NoThreadKeeps, Zenon
    <2> QED
      BY <1>1, <1>4, <2>1, SameShape, Zenon DEF Same, cellVars
  <1> QED
    BY <1>2, <1>3, <1>4, Zenon DEF inactivePHPThread, IsFirst

\* Layer 4, boot() and setHandler().
LEMMA ControllerShape ==
    ASSUME Types, Phases, MuSteps, Waits, \A t \in Thread : Shape(t),
           NEW a \in Actor, NEW u \in Thread, Controller(a, u)
    PROVE  \A t \in Thread : Shape(t)'
  <1>1. task[a][u] # "none"
    BY Zenon DEF Controller, bootThread, booted, retrySafe, setHandlerRequest, setHandlerClose, closeDrain,
           setHandlerComplete
  <1>2. /\ \A b \in Actor : b # a => task[b][u] = "none"
        /\ a = "init" => mu = "free"
    BY <1>1, Alone, Zenon
  <1>3. CASE bootThread(a, u)
    <2>1. mu # "drain"
      BY <1>2, <1>3, Zenon DEF bootThread, MuSteps, DrainSteps, Actor
    <2>2. CASE Goto(a, u, "panic") /\ UNCHANGED <<cellVars, cpc, mu, failed>>
      BY <1>3, <2>1, <2>2, TaskShape, Zenon DEF bootThread, cellVars
    <2>3. CASE /\ state[u] \in {"Reserved", "BootRequested"} /\ Publish(u, "Booting", {})
               /\ CGoto(u, "before") /\ Goto(a, u, "boot") /\ UNCHANGED <<mu, failed>>
      <3>1. UNCHANGED rpc /\ cpc'[u] = "before" /\ \A t \in Thread : t # u => cpc'[t] = cpc[t]
        BY <1>3, <2>3, Zenon DEF bootThread, CGoto, Types
      <3>2. "Booting" \in State /\ "Booting" \notin Gone \cup {"RebootReady"}
        BY Zenon DEF State, Gone
      <3>3. /\ mu' = "drain" => mu = "drain"
            /\ failed \/ mu = "drain" => failed' \/ mu' = "drain"
        BY <2>3, Zenon
      <3>4. Fits(a, u, "boot", "Booting")
        BY <1>2, <2>1, <2>3, <3>1, <3>2, <3>3, Zenon DEF Fits
      <3> QED
        BY <2>3, <3>2, <3>4, ActorShape, Zenon
    <2>4. CASE /\ state[u] \in {"Reserved", "BootRequested"} /\ Publish(u, "Reserved", {})
               /\ Goto(a, u, "none") /\ noThread(a) /\ UNCHANGED cpc
      <3>1. UNCHANGED rpc /\ cpc[u] = "none"
        BY <1>3, <2>4, Zenon DEF bootThread, Shape, Gone
      <3>2. mu' # "drain" /\ (failed => failed')
        BY <2>1, <2>4, NoThreadKeeps, Zenon
      <3>3. Fits(a, u, "none", "Reserved")
        BY <1>2, <2>1, <2>4, <3>1, <3>2, Zenon DEF Fits
      <3> QED
        BY <2>4, <3>3, ActorShape, Zenon DEF State
    <2> QED
      BY <1>3, <2>2, <2>3, <2>4, Zenon DEF bootThread
  <1>4. CASE booted(a, u) \/ retrySafe(a, u)
    <2>1. PICK x : Goto(a, u, x) /\ x \in {"none", "convert", "force", "shutdown"} /\ (x = "none" => task[a][u] = "boot")
      BY <1>4 DEF booted, retrySafe
    <2>2. UNCHANGED <<state, cpc, rpc, mu, failed>> /\ granted' \subseteq granted
      BY <1>4, Zenon DEF booted, retrySafe, Resume, threadVars, muVars, initVars
    <2>3. a = "mu" /\ x = "none" => mu # "drain"
      BY <2>1, Zenon DEF MuSteps, DrainSteps
    <2> QED
      BY <2>1, <2>2, <2>3, TaskShape, Zenon
  <1>5. CASE setHandlerRequest(a, u)
    <2>1. UNCHANGED <<cpc, rpc, mu, failed>>
      BY <1>5, Zenon DEF setHandlerRequest, threadVars, muVars, initVars
    <2>2. CASE state[u] \in Stable /\ Publish(u, "TransitionRequested", {}) /\ Goto(a, u, "close")
      <3>1. cpc[u] # "leave" /\ state[u] # "RebootReady"
        BY <2>2, Zenon DEF Shape, Stable, Leaving
      <3>2. ~(cpc[u] = "newHandler" /\ <<"c", u>> \in granted')
        <4>1. Answers(u, "TransitionRequested")
          BY <2>2, PublishAnswers, Zenon DEF State
        <4> QED
          BY <2>2, <4>1, Zenon DEF Answers, Shape, Stable
      <3>3. "TransitionRequested" \in State /\ "TransitionRequested" \notin Gone \cup {"RebootReady"}
        BY Zenon DEF State, Gone
      <3>4. Fits(a, u, "close", "TransitionRequested")
        BY <1>2, <2>1, <2>2, <3>1, <3>2, <3>3, Zenon DEF Fits
      <3> QED
        BY <2>2, <3>3, <3>4, ActorShape, Zenon
    <2>3. CASE UNCHANGED cellVars /\ \E x \in {"attach", "safe"} : Goto(a, u, x)
      BY <2>1, <2>3, TaskShape, Zenon DEF cellVars
    <2> QED
      BY <1>5, <2>2, <2>3, Zenon DEF setHandlerRequest, RequestSafeStateChange
  <1>6. CASE setHandlerClose(a, u)
    <2>1. PICK x \in {"panic", "transit"} : Goto(a, u, x)
      BY <1>6, Zenon DEF setHandlerClose, closeDrain
    <2>2. UNCHANGED <<state, granted, cpc, rpc, mu, failed>> /\ <<a, u>> \notin granted
      BY <1>6, Zenon DEF setHandlerClose, closeDrain, cellVars, muVars, initVars, Waits, WaitStep
    <2> QED
      BY <2>1, <2>2, TaskShape, Zenon
  <1>7. CASE setHandlerComplete(a, u)
    <2>1. state[u] = "TransitionInProgress"
      BY <1>7, ZenonT(60), StepIs, AwaitedIs DEF setHandlerComplete, Passed, Shape
    <2>2. cpc[u] = "newHandler"
      BY <2>1, Zenon DEF Shape
    <2>3. UNCHANGED <<cpc, rpc, mu, failed>>
      BY <1>7, Zenon DEF setHandlerComplete, muVars, initVars
    <2>4. "TransitionComplete" \in State /\ "TransitionComplete" \notin Gone \cup {"RebootReady"}
      BY Zenon DEF State, Gone
    <2>5. Publish(u, "TransitionComplete", {<<a, u>>}) /\ Goto(a, u, "attach")
      BY <1>7, Zenon DEF setHandlerComplete
    <2>6. /\ mu' = "drain" => mu = "drain"
          /\ failed \/ mu = "drain" => failed' \/ mu' = "drain"
      BY <2>3, Zenon
    <2>7. Fits(a, u, "attach", "TransitionComplete")
      BY <1>2, <2>1, <2>2, <2>3, <2>4, <2>6, Zenon DEF Fits
    <2> QED
      BY <2>4, <2>5, <2>7, ActorShape, Zenon
  <1> QED
    BY <1>3, <1>4, <1>5, <1>6, <1>7, Zenon DEF Controller

\* Layer 4, rebootAllThreads.
LEMMA RebootShape ==
    ASSUME Types, Phases, MuSteps, Waits, \A t \in Thread : Shape(t), RebootStep
    PROVE  \A t \in Thread : Shape(t)'
  <1> USE DEF Actor
  <1>1. CASE rebootMain
    <2>1. UNCHANGED <<state, granted, cpc, rpc, mu, failed>> /\ mu = "reboot"
      BY <1>1, Zenon DEF rebootMain, cellVars, threadVars, muVars, initVars
    <2>2. \A t \in Thread : /\ task'["init"][t] = task["init"][t]
                            /\ \/ task["mu"][t] = "yielded" /\ task'["mu"][t] = "down"
                               \/ task'["mu"][t] = "none"
      BY <1>1, Zenon DEF rebootMain, Types
    <2>3. SUFFICES ASSUME NEW t \in Thread PROVE Shape(t)'
      BY Zenon
    <2>4. failed' \/ mu' = "drain" \/ state'[t] \notin {"ShuttingDown", "Done"}
      BY <2>1, Zenon DEF Shape
    <2> QED
      BY <2>1, <2>2, <2>4, Zenon DEF Shape, Respawning
  <1>2. CASE rebootDone
    BY <1>2, SameShape, Zenon DEF rebootDone, Same, cellVars, threadVars, initVars
  <1>3. ASSUME NEW u \in Thread, forceReboot(u)
        PROVE  \A t \in Thread : Shape(t)'
    <2>1. /\ \A b \in Actor : b # "mu" => task[b][u] = "none"
          /\ mu = "reboot" /\ ini = "running" /\ ~failed
      BY <1>3, Alone, Zenon DEF forceReboot, Phases, MuSteps, AddSteps, DownSteps, DrainSteps, Types
    <2>2. UNCHANGED <<cpc, mu, failed>>
      BY <1>3, Zenon DEF forceReboot, muVars, initVars
    <2>3. CASE state[u] \in Stable /\ Publish(u, "ForceRebooting", {}) /\ Goto("mu", u, "closeForce")
      <3>1. cpc[u] # "leave" /\ state[u] # "RebootReady"
        BY <2>3, Zenon DEF Shape, Stable, Leaving
      <3>2. "ForceRebooting" \in State /\ "ForceRebooting" \notin Gone \cup {"RebootReady"}
        BY Zenon DEF State, Gone
      <3>3. ~(cpc[u] = "newHandler" /\ <<"c", u>> \in granted')
        <4>1. Answers(u, "ForceRebooting")
          BY <2>3, <3>2, PublishAnswers, Zenon
        <4> QED
          BY <2>3, <4>1, Zenon DEF Answers, Shape, Stable
      <3>4. rpc'[u] \in {rpc[u], "rebooted"} /\ \A t \in Thread : t # u => rpc'[t] = rpc[t]
        BY <1>3, Zenon DEF forceReboot, Types
      <3>5. Fits("mu", u, "closeForce", "ForceRebooting")
        BY <2>1, <2>2, <2>3, <3>1, <3>2, <3>3, <3>4, Zenon DEF Fits
      <3> QED
        BY <2>3, <3>2, <3>5, ActorShape, Zenon
    <2>4. CASE state[u] \in Refusing /\ UNCHANGED cellVars /\ Goto("mu", u, "skip")
      <3>1. state[u] = "Reserved"
        BY <2>1, <2>4, Zenon DEF Refusing, Shape
      <3>2. UNCHANGED rpc
        BY <1>3, <2>4, Zenon DEF forceReboot, Refusing, Stable, Types
      <3> QED
        BY <2>1, <2>2, <2>4, <3>1, <3>2, TaskShape, Zenon DEF cellVars
    <2>5. CASE state[u] \notin Stable /\ UNCHANGED cellVars /\ Goto("mu", u, "safeForce")
      <3>1. UNCHANGED rpc
        BY <1>3, <2>5, Zenon DEF forceReboot, Types
      <3> QED
        BY <2>1, <2>2, <2>5, <3>1, TaskShape, Zenon DEF cellVars
    <2> QED
      BY <1>3, <2>3, <2>4, <2>5, Zenon DEF forceReboot, RequestSafeStateChange
  <1>4. ASSUME NEW u \in Thread, rebootClose(u)
        PROVE  \A t \in Thread : Shape(t)'
    <2>1. PICK x \in {"panic", "yield"} : Goto("mu", u, x)
      BY <1>4, Zenon DEF rebootClose, closeDrain
    <2>2. UNCHANGED <<state, granted, cpc, rpc, mu, failed>> /\ <<"mu", u>> \notin granted
      BY <1>4, Zenon DEF rebootClose, closeDrain, cellVars, muVars, initVars, Waits, WaitStep
    <2> QED
      BY <2>1, <2>2, TaskShape, Zenon
  <1>5. ASSUME NEW u \in Thread, rebootYielded(u)
        PROVE  \A t \in Thread : Shape(t)'
    <2>1. state[u] = "YieldingForReboot"
      BY <1>5, StepIs, AwaitedIs, ZenonT(40) DEF rebootYielded, Passed, Shape
    <2>2. UNCHANGED <<state, cpc, rpc, mu, failed>> /\ granted' \subseteq granted /\ Goto("mu", u, "yielded")
      BY <1>5, Zenon DEF rebootYielded, Resume, threadVars, muVars, initVars
    <2> QED
      BY <2>1, <2>2, TaskShape, Zenon
  <1>6. ASSUME NEW u \in Thread, rebootResume(u)
        PROVE  \A t \in Thread : Shape(t)'
    <2>1. UNCHANGED <<cpc, rpc, mu, failed>> /\ task["mu"][u] = "down"
      BY <1>6, Zenon DEF rebootResume, muVars, initVars
    <2>2. state[u] = "YieldingForReboot" /\ cpc[u] = "none"
      BY <2>1, Zenon DEF Shape, Gone
    <2>3. Publish(u, "RebootReady", {}) /\ Goto("mu", u, "stable")
      BY <1>6, <2>2, Zenon DEF rebootResume
    <2>4. \A b \in Actor : b # "mu" => task[b][u] = "none"
      BY <2>1, Alone, Zenon
    <2>5. Fits("mu", u, "stable", "RebootReady")
      BY <2>1, <2>2, <2>4, Zenon DEF Fits
    <2> QED
      BY <2>3, <2>5, ActorShape, Zenon DEF State
  <1>7. ASSUME NEW u \in Thread, rebootStable(u)
        PROVE  \A t \in Thread : Shape(t)'
    <2>1. UNCHANGED <<state, cpc, rpc, mu, failed>> /\ granted' \subseteq granted /\ Goto("mu", u, "none")
          /\ mu = "reboot"
      BY <1>7, Zenon DEF rebootStable, Resume, threadVars, muVars, initVars
    <2> QED
      BY <2>1, TaskShape, Zenon
  <1> QED
    BY <1>1, <1>2, <1>3, <1>4, <1>5, <1>6, <1>7, Zenon DEF RebootStep

\* Layer 4, drainPHPThreads.
LEMMA DrainShape ==
    ASSUME Types, Phases, MuSteps, Waits, MainShape, \A t \in Thread : Shape(t), DrainStep
    PROVE  \A t \in Thread : Shape(t)'
  <1> USE DEF Actor
  <1>1. CASE drainMain
    BY <1>1, SameShape, Zenon DEF drainMain, Same, cellVars, threadVars, muVars, initVars
  <1>2. CASE drainDone
    <2>1. \A t \in Thread : state[t] = "Reserved" /\ task["mu"][t] \in {"none", "check"}
      BY <1>2, Zenon DEF drainDone, MainShape
    <2>2. UNCHANGED <<state, granted, cpc, rpc, task, failed>> /\ mu' = "free"
      BY <1>2, Zenon DEF drainDone, cellVars, threadVars
    <2> QED
      BY <2>1, <2>2 DEF Shape, Respawning
  <1>3. ASSUME NEW u \in Thread, task["mu"][u] \in {"shutdown", "exit", "join"}
        PROVE  mu = "drain" /\ \A b \in Actor : b # "mu" => task[b][u] = "none"
    BY <1>3, Alone, Zenon DEF MuSteps, AddSteps, DownSteps, RebootSteps, Types
  <1>4. ASSUME NEW u \in Thread, shutdownRequest(u)
        PROVE  \A t \in Thread : Shape(t)'
    <2>1. UNCHANGED <<cpc, rpc, mu, failed>> /\ mu = "drain" /\ \A b \in Actor : b # "mu" => task[b][u] = "none"
      BY <1>3, <1>4, Zenon DEF shutdownRequest, threadVars, muVars, initVars
    <2>2. CASE state[u] \in Stable /\ Publish(u, "ShuttingDown", {}) /\ Goto("mu", u, "closeDown")
      <3>1. cpc[u] # "leave" /\ state[u] # "RebootReady"
        BY <2>2, Zenon DEF Shape, Stable, Leaving
      <3>2. "ShuttingDown" \in State /\ "ShuttingDown" \notin Gone \cup {"RebootReady"}
        BY Zenon DEF State, Gone
      <3>3. ~(cpc[u] = "newHandler" /\ <<"c", u>> \in granted')
        <4>1. Answers(u, "ShuttingDown")
          BY <2>2, <3>2, PublishAnswers, Zenon
        <4> QED
          BY <2>2, <4>1, Zenon DEF Answers, Shape, Stable
      <3>4. Fits("mu", u, "closeDown", "ShuttingDown")
        BY <2>1, <2>2, <3>1, <3>2, <3>3, Zenon DEF Fits
      <3> QED
        BY <2>2, <3>2, <3>4, ActorShape, Zenon
    <2>3. CASE UNCHANGED cellVars /\ \E x \in {"join", "safeDown"} : Goto("mu", u, x)
      <3>1. <<"mu", u>> \notin granted
        BY <1>4, Zenon DEF shutdownRequest, Waits, WaitStep
      <3> QED
        BY <2>1, <2>3, <3>1, TaskShape, Zenon DEF cellVars
    <2> QED
      BY <1>4, <2>2, <2>3, Zenon DEF shutdownRequest, RequestSafeStateChange
  <1>5. ASSUME NEW u \in Thread, shutdownClose(u)
        PROVE  \A t \in Thread : Shape(t)'
    <2>1. PICK x \in {"panic", "exit"} : Goto("mu", u, x)
      BY <1>5, Zenon DEF shutdownClose, closeDrain
    <2>2. UNCHANGED <<state, granted, cpc, rpc, mu, failed>> /\ <<"mu", u>> \notin granted
      BY <1>5, Zenon DEF shutdownClose, closeDrain, cellVars, muVars, initVars, Waits, WaitStep
    <2> QED
      BY <2>1, <2>2, TaskShape, Zenon
  <1>6. ASSUME NEW u \in Thread, shutdownExited(u) \/ shutdownJoined(u)
        PROVE  \A t \in Thread : Shape(t)'
    <2>1. /\ state[u] \in {"Done", "Reserved"} /\ UNCHANGED <<cpc, rpc, mu, failed>> /\ Goto("mu", u, "none")
          /\ task["mu"][u] \in {"exit", "join"}
      BY <1>6, StepIs, AwaitedIs, ZenonT(40)
      DEF shutdownExited, shutdownJoined, Passed, Shape, threadVars, muVars, initVars
    <2>2. mu = "drain" /\ \A b \in Actor : b # "mu" => task[b][u] = "none"
      BY <1>3, <2>1, Zenon
    <2>3. cpc[u] = "none"
      BY <2>1, Zenon DEF Shape, Gone
    <2>4. CASE Publish(u, "Reserved", {<<"mu", u>>})
      <3>1. Fits("mu", u, "none", "Reserved")
        BY <2>1, <2>2, <2>3, Zenon DEF Fits
      <3> QED
        BY <2>1, <2>4, <3>1, ActorShape, Zenon DEF State
    <2>5. CASE Resume("mu", u) /\ state[u] # "Done"
      BY <2>1, <2>2, <2>5, TaskShape, Zenon DEF Resume
    <2> QED
      BY <1>6, <2>4, <2>5, Zenon DEF shutdownExited, shutdownJoined
  <1> QED
    BY <1>1, <1>2, <1>4, <1>5, <1>6, Zenon DEF DrainStep

\* Layer 4: every step leaves every thread in shape.
LEMMA ShapeStep ==
    ASSUME Types, Phases, MuSteps, Waits, MainShape, \A t \in Thread : Shape(t), [Next]_vars
    PROVE  \A t \in Thread : Shape(t)'
  <1> USE DEF Actor
  <1>1. ASSUME NEW t \in Thread, CThread(t) \/ selectRequest(t) \/ Respawn(t)
        PROVE  \A u \in Thread : Shape(u)'
    BY <1>1, CThreadShape, RespawnShape, Zenon
  <1>2. ASSUME UNCHANGED <<state, granted, cpc, rpc, task, failed>>, (mu = "drain") <=> (mu' = "drain")
        PROVE  \A u \in Thread : Shape(u)'
    BY <1>2, SameShape, Zenon DEF Same
  <1>3. ASSUME NEW r \in Role, NEW t \in Thread, WaitFor(r, t)
        PROVE  \A u \in Thread : Shape(u)'
    BY <1>2, <1>3, Zenon DEF WaitFor, threadVars, muVars, initVars
  <1>4. ASSUME NEW a \in Actor, NEW t \in Thread, Controller(a, t)
        PROVE  \A u \in Thread : Shape(u)'
    BY <1>4, ControllerShape, Zenon
  <1>5. CASE InitStep
    <2>1. CASE initBooted \/ initDone
      BY <1>2, <2>1, Zenon DEF initBooted, initDone, cellVars, threadVars, muVars
    <2>2. CASE initPick
      BY <2>2, PickShape, Zenon DEF initPick, threadVars, Started
    <2>3. ASSUME NEW t \in Thread, initAttach(t)
          PROVE  \A u \in Thread : Shape(u)'
      <3>1. UNCHANGED <<state, granted, cpc, rpc, mu, failed>> /\ Goto("init", t, "none")
        BY <2>3, Zenon DEF initAttach, cellVars, threadVars, muVars
      <3> QED
        BY <3>1, TaskShape, Zenon
    <2>4. ASSUME NEW t \in Thread, initStarted(t)
          PROVE  \A u \in Thread : Shape(u)'
      <3>1. UNCHANGED <<state, cpc, rpc, task, mu, failed>> /\ granted' \subseteq granted
        BY <2>4, Zenon DEF initStarted, Resume, threadVars, muVars
      <3> QED
        BY <3>1, SameShape, Zenon DEF Same
    <2> QED
      BY <1>5, <2>1, <2>2, <2>3, <2>4, Zenon DEF InitStep
  <1>6. CASE AddStep
    <2>1. CASE addPick
      BY <2>1, PickShape, Zenon DEF addPick, threadVars
    <2>2. ASSUME NEW t \in Thread, addAttach(t)
          PROVE  \A u \in Thread : Shape(u)'
      <3>1. UNCHANGED <<state, granted, cpc, rpc, mu, failed>> /\ Goto("mu", t, "stable")
        BY <2>2, Zenon DEF addAttach, cellVars, threadVars, muVars, initVars
      <3> QED
        BY <3>1, TaskShape, Zenon
    <2>3. ASSUME NEW t \in Thread, addDone(t)
          PROVE  \A u \in Thread : Shape(u)'
      <3>1. /\ UNCHANGED <<state, cpc, rpc, failed>> /\ granted' \subseteq granted
            /\ mu # "drain" /\ mu' = "free" /\ Goto("mu", t, "none")
        BY <2>3, Zenon DEF addDone, Resume, threadVars, initVars
      <3> QED
        BY <3>1, TaskShape, Zenon
    <2> QED
      BY <1>6, <2>1, <2>2, <2>3, Zenon DEF AddStep
  <1>7. CASE DownStep
    <2>1. CASE downDone
      BY <1>2, <2>1, Zenon DEF downDone, cellVars, threadVars, initVars
    <2>2. ASSUME NEW t \in Thread, downCheck(t) \/ downConverted(t)
          PROVE  \A u \in Thread : Shape(u)'
      <3>1. UNCHANGED <<state, granted, cpc, rpc, mu, failed>> /\ \E x \in {"none", "convert"} : Goto("mu", t, x)
        BY <2>2, Zenon DEF downCheck, downConverted, cellVars, threadVars, muVars, initVars
      <3>2. mu # "drain"
        BY <2>2, Zenon DEF downCheck, downConverted, MuSteps, DrainSteps
      <3> QED
        BY <3>1, <3>2, TaskShape, Zenon
    <2> QED
      BY <1>7, <2>1, <2>2, Zenon DEF DownStep
  <1>8. CASE RebootStep
    BY <1>8, RebootShape, Zenon
  <1>9. CASE DrainStep
    BY <1>9, DrainShape, Zenon
  <1>10. CASE MainStep
    BY <1>2, <1>10, Zenon DEF MainStep, mainTeardown, mainExit, mainStart, cellVars, threadVars, muVars, initVars
  <1>11. ASSUME NEW p \in Pool, scale(p) \/ restoreThread(p) \/ restoreQuit(p)
         PROVE  \A u \in Thread : Shape(u)'
    <2>1. /\ UNCHANGED <<state, granted, cpc, rpc, task, failed>>
          /\ UNCHANGED mu \/ (mu = "free" /\ mu' \in {"scale", "restore"})
      BY <1>11, Zenon DEF scale, restoreThread, restoreQuit, cellVars, threadVars, initVars, muVars
    <2> QED
      BY <1>2, <2>1, Zenon
  <1>12. CASE down \/ reboot \/ drainPHPThreads
    <2>1. /\ UNCHANGED <<state, granted, cpc, rpc, failed>> /\ mu = "free"
          /\ \A t \in Thread : /\ task'["init"][t] = task["init"][t]
                               /\ task'["mu"][t] \in {"none", "check", "force", "shutdown"}
                               /\ mu' = "drain" => task'["mu"][t] = "shutdown"
      BY <1>12 DEF down, reboot, drainPHPThreads, cellVars, threadVars, initVars, Types
    <2>2. SUFFICES ASSUME NEW t \in Thread PROVE Shape(t)'
      BY Zenon
    <2>3. failed' \/ mu' = "drain" \/ state'[t] \notin {"ShuttingDown", "Done"}
      BY <2>1, Zenon DEF Shape
    <2> QED
      BY <2>1, <2>3, Zenon DEF Shape, Respawning
  <1>13. CASE Over \/ UNCHANGED vars
    BY <1>2, <1>13, Zenon DEF Over, vars, cellVars, threadVars, muVars, initVars
  <1> QED
    BY <1>1, <1>3, <1>4, <1>5, <1>6, <1>7, <1>8, <1>9, <1>10, <1>11, <1>12, <1>13, Zenon DEF Next

\* A slot whose C thread is gone is still: no C thread acts on it, and no
\* startRebootedThread is about to start one.
LEMMA Still ==
    ASSUME Waits, NEW t \in Thread, Shape(t), state[t] \in Gone
    PROVE  ~CThread(t) /\ ~selectRequest(t) /\ ~Respawn(t)
  <1>1. cpc[t] = "none" /\ ~Respawning(t)
    BY Zenon DEF Shape, Gone
  <1>2. ~CThread(t) /\ ~selectRequest(t)
    BY <1>1, Zenon DEF CThread, selectRequest, beforeScriptExecution, setInactive, idleWoken, setInactiveAgain,
        setReadyAgain, transitionToNewHandler, newHandlerCalled, setAndGo, setReady, waitForRequest,
        selectDrained, requestEnds, scriptEnds, scriptBooted, scriptFails, replaceUnhealthy, exitThread
  <1>3. ~Respawn(t)
    BY <1>1, StepIs, AwaitedIs, Zenon DEF Respawn, rebootedWoken, rebootedCreate, releaseDetach, releaseReserve,
       Respawning, Passed
  <1> QED
    BY <1>2, <1>3, Zenon

-----------------------------------------------------------------------------
(* Layer 4, the main thread; layer 5, the counts; layer 6, the claimed slots *)

\* While the main thread is up or waits for the threads, its shape only
\* depends on who drains.
LEMMA MainUp ==
    ASSUME MainShape, main \in {"Ready", "ShuttingDown"}, UNCHANGED <<main, engine>>,
           (mu = "drain") <=> (mu' = "drain"), ini' = "over" => ini = "over"
    PROVE  MainShape'
  BY Zenon DEF MainShape

\* Nothing the shape of the main thread speaks of has changed.
LEMMA MainFrame ==
    ASSUME MainShape, UNCHANGED <<main, engine, mu, ini, state>>,
           \A t \in Thread : task'["mu"][t] = task["mu"][t]
    PROVE  MainShape'
  BY Zenon DEF MainShape

\* While the main thread is down, nobody is at work on any thread.
LEMMA MainDown ==
    ASSUME Phases, MainShape, \A t \in Thread : Shape(t), main \notin {"Ready", "ShuttingDown"},
           NEW t \in Thread
    PROVE  /\ state[t] \in {"Reserved", "YieldingForReboot"}
           /\ task["mu"][t] \in {"none", "down", "check"}
           /\ task["init"][t] = "none" /\ wpc[t] = "none"
           /\ ini \in Started /\ mu \in {"reboot", "drain", "free", "down"}
  <1>1. ini \in Started
    BY Zenon DEF Phases
  <1> QED
    BY <1>1, Zenon DEF Phases, MainShape, Shape

\* Layer 4: the main thread only goes down when every thread is gone.
LEMMA MainShapeStep ==
    ASSUME Types, Phases, MuSteps, Waits, MainShape, \A t \in Thread : Shape(t), [Next]_vars
    PROVE  MainShape'
  <1> USE DEF Actor
  <1>1. ASSUME NEW t \in Thread, CThread(t) \/ selectRequest(t) \/ Respawn(t)
        PROVE  MainShape'
    <2>1. main \in {"Ready", "ShuttingDown"}
      BY <1>1, MainDown, Still, Zenon DEF Gone
    <2>2. UNCHANGED <<main, engine, mu, ini>>
      BY <1>1, Zenon DEF CThread, selectRequest, beforeScriptExecution, setInactive, idleWoken, setInactiveAgain,
        setReadyAgain, transitionToNewHandler, newHandlerCalled, setAndGo, setReady, waitForRequest,
        selectDrained, requestEnds, scriptEnds, scriptBooted, scriptFails, replaceUnhealthy, exitThread,
        Respawn, rebootedWoken, rebootedCreate, releaseDetach, releaseReserve, muVars, initVars, mainVars
    <2> QED
      BY <2>1, <2>2, MainUp, Zenon
  <1>2. ASSUME NEW r \in Role, NEW t \in Thread, WaitFor(r, t)
        PROVE  MainShape'
    BY <1>2, MainFrame, Zenon DEF WaitFor, muVars, initVars, mainVars
  <1>3. ASSUME NEW a \in Actor, NEW t \in Thread, Controller(a, t)
        PROVE  MainShape'
    <2>1. task[a][t] \notin {"none", "down", "check"}
      BY <1>3, Zenon DEF Controller, bootThread, booted, retrySafe, setHandlerRequest, setHandlerClose, closeDrain,
           setHandlerComplete
    <2>2. main \in {"Ready", "ShuttingDown"}
      BY <2>1, MainDown, Zenon
    <2>3. CASE UNCHANGED <<mu, ini>>
      <3>1. UNCHANGED <<main, engine>>
        BY <1>3, Zenon DEF Controller, bootThread, booted, retrySafe, setHandlerRequest, setHandlerClose, closeDrain,
           setHandlerComplete, mainVars
      <3> QED
        BY <2>2, <2>3, <3>1, MainUp, Zenon
    <2>4. CASE bootThread(a, t)
      <3>1. a = "mu" => mu # "drain"
        BY <2>4, Zenon DEF bootThread, MuSteps, DrainSteps
      <3>2. a = "init" => mu = "free"
        BY <2>1, Alone, Zenon
      <3>3. UNCHANGED <<main, engine>> /\ (UNCHANGED <<mu, ini>> \/ noThread(a))
        BY <2>4, Zenon DEF bootThread, mainVars
      <3>4. mu' # "drain" /\ (ini' = "over" => ini = "over")
        BY <3>1, <3>2, <3>3, Zenon DEF noThread
      <3> QED
        BY <2>2, <3>1, <3>2, <3>3, <3>4, MainUp, Zenon
    <2> QED
      BY <1>3, <2>3, <2>4, Zenon DEF Controller, booted, retrySafe, setHandlerRequest, setHandlerClose, closeDrain,
           setHandlerComplete, muVars, initVars
  <1>4. ASSUME NEW a \in Actor, inactivePHPThread(a), main = "Ready", UNCHANGED <<main, engine>>, mu # "drain"
        PROVE  MainShape'
    <2>1. mu' # "drain" /\ (ini' = "over" => ini = "over")
      BY <1>4, Zenon DEF inactivePHPThread, noThread
    <2> QED
      BY <1>4, <2>1, MainUp, Zenon
  <1>5. CASE InitStep
    <2>1. CASE initBooted \/ initDone \/ \E t \in Thread : initAttach(t) \/ initStarted(t)
      <3>1. UNCHANGED <<main, engine, mu>> /\ (ini' = "over" => ini = "over")
        BY <2>1, Zenon DEF initBooted, initDone, initAttach, initStarted, muVars, mainVars
      <3>2. main \in {"Ready", "ShuttingDown"}
        BY <2>1, MainDown, Zenon DEF Phases, Started, initBooted, initDone, initAttach, initStarted
      <3> QED
        BY <3>1, <3>2, MainUp, Zenon
    <2>2. CASE initPick
      <3>1. main = "Ready" /\ mu # "drain" /\ UNCHANGED <<main, engine>>
        BY <2>2, Zenon DEF initPick, Phases, Started, mainVars
      <3> QED
        BY <1>4, <2>2, <3>1, Zenon DEF initPick
    <2> QED
      BY <1>5, <2>1, <2>2, Zenon DEF InitStep
  <1>6. CASE AddStep
    <2>1. mu \in {"scale", "restore"} /\ UNCHANGED <<main, engine>>
      BY <1>6, Zenon DEF AddStep, addPick, addAttach, addDone, mainVars
    <2>2. main = "Ready"
      BY <2>1, Zenon DEF MainShape
    <2>3. CASE addPick
      BY <1>4, <2>1, <2>2, <2>3, Zenon DEF addPick
    <2>4. ASSUME NEW t \in Thread, addAttach(t) \/ addDone(t)
          PROVE  MainShape'
      <3>1. mu' # "drain" /\ UNCHANGED ini
        BY <2>1, <2>4, Zenon DEF addAttach, addDone, muVars, initVars
      <3> QED
        BY <2>1, <2>2, <3>1, MainUp, Zenon
    <2> QED
      BY <1>6, <2>3, <2>4, Zenon DEF AddStep
  <1>7. CASE DownStep
    <2>1. CASE downDone
      BY <2>1, Zenon DEF downDone, mainVars, initVars, cellVars, MainShape
    <2>2. ASSUME NEW t \in Thread, downCheck(t) \/ downConverted(t)
          PROVE  MainShape'
      <3>1. UNCHANGED <<main, engine, mu, ini, state>>
        BY <2>2, Zenon DEF downCheck, downConverted, muVars, initVars, mainVars, cellVars
      <3>2. CASE main \in {"Ready", "ShuttingDown"}
        BY <3>1, <3>2, MainUp, Zenon
      <3>3. CASE main \notin {"Ready", "ShuttingDown"}
        <4>1. task["mu"][t] = "check" /\ state[t] = "Reserved" /\ Goto("mu", t, "none")
          BY <2>2, <3>3, MainDown, Zenon DEF downCheck, downConverted, MayDeactivate, MainShape
        <4>2. \A u \in Thread : task'["mu"][u] = task["mu"][u] \/ (u = t /\ task'["mu"][u] = "none")
          BY <4>1, GotoIs, Zenon
        <4> QED
          BY <3>1, <3>3, <4>1, <4>2, Zenon DEF MainShape
      <3> QED
        BY <3>2, <3>3, Zenon
    <2> QED
      BY <1>7, <2>1, <2>2, Zenon DEF DownStep
  <1>8. CASE RebootStep
    <2>1. CASE rebootMain
      <3>1. /\ main' = "Rebooting" /\ mu = "reboot" /\ main = "Ready" /\ UNCHANGED <<engine, mu, ini, state>>
            /\ \A t \in Thread : \/ task["mu"][t] = "yielded" /\ task'["mu"][t] = "down"
                                 \/ task["mu"][t] = "skip" /\ task'["mu"][t] = "none"
        BY <2>1, Zenon DEF rebootMain, AllMu, muVars, initVars, cellVars, Types
      <3>2. \A t \in Thread : task["mu"][t] = "skip" => state[t] = "Reserved"
        BY Zenon DEF Shape
      <3> QED
        BY <3>1, <3>2, Zenon DEF MainShape
    <2>2. CASE rebootDone
      BY <2>2, MainUp, Zenon DEF rebootDone, initVars, mainVars
    <2>3. ASSUME NEW t \in Thread, forceReboot(t) \/ rebootClose(t) \/ rebootYielded(t)
                                   \/ rebootResume(t) \/ rebootStable(t)
          PROVE  MainShape'
      <3>1. UNCHANGED <<main, engine, mu, ini>>
        BY <2>3, Zenon DEF forceReboot, rebootClose, closeDrain, rebootYielded, rebootResume, rebootStable,
                    muVars, initVars, mainVars
      <3>2. main \in {"Ready", "ShuttingDown"}
        BY <2>3, MainDown, Zenon DEF forceReboot, rebootClose, closeDrain, rebootYielded, rebootResume, rebootStable
      <3> QED
        BY <3>1, <3>2, MainUp, Zenon
    <2> QED
      BY <1>8, <2>1, <2>2, <2>3, Zenon DEF RebootStep
  <1>9. CASE DrainStep
    <2>1. CASE drainMain
      <3>1. /\ mu = "drain" /\ main = "ShuttingDown" /\ main' = "Done" /\ UNCHANGED <<engine, mu, ini, state, task>>
            /\ \A t \in Thread : task["mu"][t] = "none"
        BY <2>1, Zenon DEF drainMain, AllMu, muVars, initVars, cellVars
      <3>2. \A t \in Thread : state[t] = "Reserved"
        BY <3>1, Zenon DEF Shape
      <3> QED
        BY <3>1, <3>2, Zenon DEF MainShape
    <2>2. CASE drainDone
      BY <2>2, Zenon DEF drainDone, mainVars, cellVars, MainShape
    <2>3. ASSUME NEW t \in Thread, shutdownRequest(t) \/ shutdownClose(t) \/ shutdownExited(t) \/ shutdownJoined(t)
          PROVE  MainShape'
      <3>1. UNCHANGED <<main, engine, mu, ini>>
        BY <2>3, Zenon DEF shutdownRequest, shutdownClose, closeDrain, shutdownExited, shutdownJoined,
                    muVars, initVars, mainVars
      <3>2. main \in {"Ready", "ShuttingDown"}
        BY <2>3, MainDown, Zenon DEF shutdownRequest, shutdownClose, closeDrain, shutdownExited, shutdownJoined
      <3> QED
        BY <3>1, <3>2, MainUp
    <2> QED
      BY <1>9, <2>1, <2>2, <2>3, Zenon DEF DrainStep
  <1>10. CASE MainStep
    <2>1. UNCHANGED <<mu, ini, state, task>>
      BY <1>10, Zenon DEF MainStep, mainTeardown, mainExit, mainStart, muVars, initVars, cellVars
    <2>2. CASE mainTeardown
      BY <2>1, <2>2, Zenon DEF mainTeardown, MainShape
    <2>3. CASE mainExit
      BY <2>1, <2>3, Zenon DEF mainExit, MainShape
    <2>4. CASE mainStart
      BY <2>1, <2>4, Zenon DEF mainStart, MainShape
    <2> QED
      BY <1>10, <2>2, <2>3, <2>4, Zenon DEF MainStep
  <1>11. ASSUME NEW p \in Pool, scale(p) \/ restoreThread(p)
         PROVE  MainShape'
    <2>1. UNCHANGED <<main, engine, ini>> /\ main = "Ready" /\ mu # "drain" /\ mu' # "drain"
      BY <1>11, Zenon DEF scale, restoreThread, initVars, mainVars
    <2> QED
      BY <2>1, MainUp, Zenon
  <1>12. ASSUME NEW p \in Pool, restoreQuit(p)
         PROVE  MainShape'
    BY <1>12, MainFrame, Zenon DEF restoreQuit, muVars, initVars, mainVars, cellVars
  <1>13. CASE down
    <2>1. /\ UNCHANGED <<main, engine, ini, state>> /\ mu = "free" /\ mu' = "down"
          /\ \A t \in Thread : task'["mu"][t] \in {"none", "check"}
      BY <1>13, Zenon DEF down, mainVars, initVars, cellVars, Types
    <2> QED
      BY <2>1, Zenon DEF MainShape
  <1>14. CASE reboot
    BY <1>14, MainUp, Zenon DEF reboot, initVars, mainVars
  <1>15. CASE drainPHPThreads
    BY <1>15, Zenon DEF drainPHPThreads, initVars, MainShape
  <1>16. CASE Over \/ UNCHANGED vars
    BY <1>16, MainFrame, Zenon DEF Over, vars, muVars, initVars, mainVars, cellVars
  <1> QED
    BY <1>1, <1>2, <1>3, <1>5, <1>6, <1>7, <1>8, <1>9, <1>10, <1>11, <1>12, <1>13, <1>14, <1>15, <1>16, Zenon DEF Next

\* The two halves of layer 5: Init, and restoreThread.
InitCounts ==
    /\ left >= 0
    /\ \A t \in Thread : task["init"][t] \in InitSteps
    /\ ini # "boot" =>
          \A t \in Thread : Converting(t) =>
              left > 0 /\ \A u \in Thread : Converting(u) => u = t
RestoreCounts ==
    /\ \A p \in Pool : restoring[p] >= 0
    /\ mu = "restore" => main = "Ready" /\ target \in Pool /\ restoring[target] > 0

\* Steps of others than Init leave its half alone.
LEMMA InitFrame ==
    ASSUME InitCounts, UNCHANGED left, \A t \in Thread : task'["init"][t] = task["init"][t],
           ini' = "boot" \/ ini # "boot"
    PROVE  InitCounts'
  BY Zenon DEF InitCounts, Converting

\* Layer 5, Init: it never makes more conversions than there are threads to
\* start, and makes one at a time.
LEMMA InitCountsStep ==
    ASSUME Types, Phases, InitCounts, [Next]_vars
    PROVE  InitCounts'
  <1> USE DEF Actor
  <1>1. ASSUME NEW t \in Thread, CThread(t) \/ selectRequest(t) \/ Respawn(t)
        PROVE  InitCounts'
    <2>1. UNCHANGED <<left, task, ini>>
      BY <1>1, Zenon DEF CThread, selectRequest, beforeScriptExecution, setInactive, idleWoken, setInactiveAgain,
        setReadyAgain, transitionToNewHandler, newHandlerCalled, setAndGo, setReady, waitForRequest,
        selectDrained, requestEnds, scriptEnds, scriptBooted, scriptFails, replaceUnhealthy, exitThread,
        Respawn, rebootedWoken, rebootedCreate, releaseDetach, releaseReserve, initVars
    <2> QED
      BY <2>1, InitFrame, Zenon
  <1>2. ASSUME NEW r \in Role, NEW t \in Thread, WaitFor(r, t)
        PROVE  InitCounts'
    BY <1>2, InitFrame, Zenon DEF WaitFor, initVars
  <1>3. ASSUME NEW a \in Actor, NEW t \in Thread, Controller(a, t)
        PROVE  InitCounts'
    <2>1. /\ UNCHANGED left
          /\ ini' = ini \/ (a = "init" /\ ini # "boot" /\ ini' = "panic")
      BY <1>3, Zenon DEF Controller, bootThread, noThread, booted, retrySafe, setHandlerRequest, setHandlerClose,
           closeDrain, setHandlerComplete, initVars
    <2>2. \E x : Goto(a, t, x)
      BY <1>3, Zenon DEF Controller, bootThread, booted, retrySafe, setHandlerRequest, RequestSafeStateChange,
           setHandlerClose, closeDrain, setHandlerComplete
    <2>3. CASE a = "mu"
      <3>1. \A u \in Thread : task'["init"][u] = task["init"][u]
        BY <2>2, <2>3, GotoIs, Zenon
      <3> QED
        BY <2>1, <2>3, <3>1, InitFrame, Zenon
    <2>4. CASE a = "init"
      <3>1. Converting(t) /\ \E x \in InitSteps : Goto("init", t, x)
        BY <1>3, <2>4, Zenon DEF Controller, bootThread, booted, retrySafe, setHandlerRequest, RequestSafeStateChange,
           setHandlerClose, closeDrain, setHandlerComplete, Converting, InitCounts, InitSteps
      <3>2. /\ task'["init"][t] \in InitSteps
            /\ \A u \in Thread : u # t => task'["init"][u] = task["init"][u]
        BY <3>1, GotoIs, Zenon
      <3> QED
        BY <2>1, <3>1, <3>2, Zenon DEF InitCounts, Converting
    <2> QED
      BY <1>3, <2>3, <2>4, Zenon
  <1>4. CASE InitStep
    <2>1. CASE initBooted \/ initDone
      BY <2>1, Zenon DEF initBooted, initDone, InitIdle, InitCounts, Converting
    <2>2. CASE initPick
      <3>1. UNCHANGED left /\ left > 0 /\ (ini' = "convert" \/ ini' = "panic") /\ \A t \in Thread : task["init"][t] = "none"
        BY <2>2, Zenon DEF initPick, inactivePHPThread, noThread, InitIdle
      <3>2. UNCHANGED task \/ \E t \in Thread, x \in {"convert", "create"} : Goto("init", t, x)
        BY <2>2, Zenon DEF initPick, inactivePHPThread
      <3>3. CASE UNCHANGED task
        BY <3>1, <3>3, Zenon DEF InitCounts, Converting
      <3>4. ASSUME NEW t \in Thread, NEW x \in {"convert", "create"}, Goto("init", t, x)
            PROVE  InitCounts'
        <4>1. task'["init"][t] = x /\ \A u \in Thread : u # t => task'["init"][u] = "none"
          BY <3>1, <3>4, GotoIs, Zenon
        <4> QED
          BY <3>1, <4>1, Zenon DEF InitCounts, Converting, InitSteps
      <3> QED
        BY <3>2, <3>3, <3>4, Zenon
    <2>3. ASSUME NEW t \in Thread, initAttach(t)
          PROVE  InitCounts'
      <3>1. /\ task["init"][t] = "attach" /\ left' = left - 1 /\ UNCHANGED ini
            /\ task'["init"][t] = "none" /\ \A u \in Thread : u # t => task'["init"][u] = task["init"][u]
        BY <2>3, GotoIs, Zenon DEF initAttach
      <3>2. ini # "boot" /\ Converting(t)
        BY <3>1, Zenon DEF Phases, Converting
      <3>3. left \in Int /\ left > 0 /\ \A u \in Thread : Converting(u) => u = t
        BY <3>2, Zenon DEF InitCounts, Types
      <3> QED
        BY <3>1, <3>2, <3>3 DEF InitCounts, Converting, InitSteps
    <2>4. ASSUME NEW t \in Thread, initStarted(t)
          PROVE  InitCounts'
      BY <2>4, InitFrame, Zenon DEF initStarted
    <2> QED
      BY <1>4, <2>1, <2>2, <2>3, <2>4, Zenon DEF InitStep
  <1>5. CASE AddStep \/ DownStep \/ RebootStep \/ DrainStep
    <2>1. UNCHANGED left
      BY <1>5, Zenon DEF AddStep, addPick, addAttach, addDone, DownStep, downDone, downCheck, downConverted,
         RebootStep, rebootMain, rebootDone, forceReboot, rebootClose, closeDrain, rebootYielded, rebootResume,
         rebootStable, DrainStep, drainMain, drainDone, shutdownRequest, shutdownClose, shutdownExited,
         shutdownJoined, initVars
    <2>2. ini' = ini \/ drainDone
      BY <1>5, Zenon DEF AddStep, addPick, inactivePHPThread, noThread, addAttach, addDone, DownStep, downDone,
         downCheck, downConverted, RebootStep, rebootMain, rebootDone, forceReboot, rebootClose, closeDrain,
         rebootYielded, rebootResume, rebootStable, DrainStep, drainMain, shutdownRequest, shutdownClose,
         shutdownExited, shutdownJoined, initVars
    <2>3. drainDone => ini # "boot"
      BY Zenon DEF drainDone, Phases, Started
    <2>4. UNCHANGED task \/ rebootMain \/ \E t \in Thread : \E x : Goto("mu", t, x)
      BY <1>5, Zenon DEF AddStep, addPick, inactivePHPThread, addAttach, addDone, DownStep, downDone,
         downCheck, downConverted, RebootStep, rebootDone, forceReboot, RequestSafeStateChange, rebootClose,
         closeDrain, rebootYielded, rebootResume, rebootStable, DrainStep, drainMain, drainDone,
         shutdownRequest, shutdownClose, shutdownExited, shutdownJoined
    <2>5. \A t \in Thread : task'["init"][t] = task["init"][t]
      <3>1. CASE rebootMain
        BY <3>1, Zenon DEF rebootMain, Types
      <3>2. ASSUME NEW t \in Thread, NEW x, Goto("mu", t, x)
            PROVE  \A u \in Thread : task'["init"][u] = task["init"][u]
        BY <3>2, GotoIs, Zenon
      <3> QED
        BY <2>4, <3>1, <3>2, Zenon
    <2> QED
      BY <2>1, <2>2, <2>3, <2>5, InitFrame, Zenon
  <1>6. CASE MainStep
    BY <1>6, InitFrame, Zenon DEF MainStep, mainTeardown, mainExit, mainStart, initVars
  <1>7. ASSUME NEW p \in Pool, scale(p) \/ restoreThread(p) \/ restoreQuit(p)
        PROVE  InitCounts'
    BY <1>7, InitFrame, Zenon DEF scale, restoreThread, restoreQuit, initVars
  <1>8. CASE down \/ reboot \/ drainPHPThreads
    <2>1. UNCHANGED <<left, ini>> /\ \A t \in Thread : task'["init"][t] = task["init"][t]
      BY <1>8, Zenon DEF down, reboot, drainPHPThreads, initVars, Types
    <2> QED
      BY <2>1, InitFrame, Zenon
  <1>9. CASE Over \/ UNCHANGED vars
    BY <1>9, InitFrame, Zenon DEF Over, vars, initVars
  <1> QED
    BY <1>1, <1>2, <1>3, <1>4, <1>5, <1>6, <1>7, <1>8, <1>9, Zenon DEF Next

\* Steps that leave restoreThread alone.
LEMMA RestoreFrame ==
    ASSUME RestoreCounts, UNCHANGED <<restoring, target, main>>, mu' = "restore" => mu = "restore"
    PROVE  RestoreCounts'
  BY Zenon DEF RestoreCounts

\* Layer 5, restoreThread: there are never fewer than none, and the one that
\* holds scalingMu is counted until it is done.
LEMMA RestoreCountsStep ==
    ASSUME Types, MainShape, RestoreCounts, [Next]_vars
    PROVE  RestoreCounts'
  <1>1. ASSUME NEW t \in Thread, CThread(t) \/ selectRequest(t)
        PROVE  RestoreCounts'
    <2>1. UNCHANGED <<restoring, target, main, mu>>
      BY <1>1, Zenon DEF CThread, selectRequest, beforeScriptExecution, setInactive, idleWoken, setInactiveAgain,
        setReadyAgain, transitionToNewHandler, newHandlerCalled, setAndGo, setReady, waitForRequest,
        selectDrained, requestEnds, scriptEnds, scriptBooted, scriptFails, replaceUnhealthy, exitThread,
        muVars, mainVars, poolVars
    <2> QED
      BY <2>1, RestoreFrame, Zenon
  <1>2. ASSUME NEW t \in Thread, Respawn(t)
        PROVE  RestoreCounts'
    <2>1. CASE releaseDetach(t)
      <3>1. UNCHANGED <<mu, target, main>> /\ \A p \in Pool : restoring'[p] \in {restoring[p], restoring[p] + 1}
        BY <2>1 DEF releaseDetach, muVars, mainVars, Types
      <3>2. \A p \in Pool : restoring[p] \in Int /\ restoring'[p] >= restoring[p] /\ restoring'[p] \in Int
        BY <3>1 DEF Types
      <3> QED
        BY <3>1, <3>2 DEF RestoreCounts
    <2>2. CASE rebootedWoken(t) \/ rebootedCreate(t) \/ releaseReserve(t)
      BY <2>2, RestoreFrame, Zenon DEF rebootedWoken, rebootedCreate, releaseReserve, muVars, mainVars, poolVars
    <2> QED
      BY <1>2, <2>1, <2>2, Zenon DEF Respawn
  <1>3. ASSUME NEW r \in Role, NEW t \in Thread, WaitFor(r, t)
        PROVE  RestoreCounts'
    BY <1>3, RestoreFrame, Zenon DEF WaitFor, muVars, mainVars, poolVars
  <1>4. ASSUME NEW a \in Actor, NEW t \in Thread, Controller(a, t)
        PROVE  RestoreCounts'
    <2>1. UNCHANGED <<restoring, target, main>> /\ (mu' = mu \/ mu' = "free")
      BY <1>4, Zenon DEF Controller, bootThread, noThread, booted, retrySafe, setHandlerRequest, setHandlerClose,
           closeDrain, setHandlerComplete, muVars, mainVars, poolVars
    <2> QED
      BY <2>1, RestoreFrame, Zenon
  <1>5. CASE InitStep \/ addPick \/ \E t \in Thread : addAttach(t)
    <2>1. UNCHANGED <<restoring, target, main>> /\ (mu' = mu \/ mu' = "free")
      BY <1>5, Zenon DEF InitStep, initBooted, initDone, initPick, inactivePHPThread, noThread, initAttach, initStarted,
           addPick, addAttach, muVars, mainVars, poolVars
    <2> QED
      BY <2>1, RestoreFrame, Zenon
  <1>6. ASSUME NEW t \in Thread, addDone(t)
        PROVE  RestoreCounts'
    <2>1. CASE mu = "scale"
      BY <1>6, <2>1, RestoreFrame, Zenon DEF addDone, mainVars
    <2>2. CASE mu = "restore"
      <3>1. /\ target \in Pool /\ restoring[target] > 0 /\ mu' = "free"
            /\ \A p \in Pool : restoring'[p] = restoring[p] \/ (p = target /\ restoring'[p] = restoring[p] - 1)
        BY <1>6, <2>2, Zenon DEF addDone, RestoreCounts, Types
      <3> QED
        BY <3>1 DEF RestoreCounts, Types
    <2> QED
      BY <1>6, <2>1, <2>2, Zenon DEF addDone
  <1>7. CASE DownStep
    BY <1>7, RestoreFrame, Zenon DEF DownStep, downDone, downCheck, downConverted, muVars, mainVars, poolVars
  <1>8. CASE RebootStep
    <2>1. UNCHANGED <<restoring, target>> /\ (UNCHANGED main \/ mu = "reboot") /\ (mu' = mu \/ mu' = "free")
      BY <1>8, Zenon DEF RebootStep, rebootMain, rebootDone, forceReboot, rebootClose, closeDrain, rebootYielded,
         rebootResume, rebootStable, muVars, mainVars, poolVars
    <2> QED
      BY <2>1, RestoreFrame, Zenon DEF RestoreCounts
  <1>9. CASE DrainStep
    <2>1. UNCHANGED <<restoring, target>> /\ (UNCHANGED main \/ mu = "drain") /\ (mu' = mu \/ mu' = "free")
      BY <1>9, Zenon DEF DrainStep, drainMain, drainDone, shutdownRequest, shutdownClose, closeDrain, shutdownExited,
         shutdownJoined, muVars, mainVars, poolVars
    <2> QED
      BY <2>1, RestoreFrame, Zenon DEF RestoreCounts
  <1>10. CASE MainStep
    <2>1. UNCHANGED <<restoring, target, mu>> /\ (UNCHANGED main \/ main # "Ready")
      BY <1>10, Zenon DEF MainStep, mainTeardown, mainExit, mainStart, muVars, poolVars
    <2> QED
      BY <2>1, RestoreFrame, Zenon DEF RestoreCounts
  <1>11. ASSUME NEW p \in Pool, scale(p)
         PROVE  RestoreCounts'
    BY <1>11, Zenon DEF scale, poolVars, RestoreCounts
  <1>12. ASSUME NEW p \in Pool, restoreThread(p)
         PROVE  RestoreCounts'
    <2>1. restoring[p] > 0 /\ main = "Ready" /\ UNCHANGED main /\ mu = "free"
      BY <1>12, Zenon DEF restoreThread, mainVars
    <2>2. \/ mu' = "restore" /\ target' = p /\ UNCHANGED restoring
          \/ mu' = "free" /\ restoring' = [restoring EXCEPT ![p] = @ - 1]
      BY <1>12, <2>1, Zenon DEF restoreThread
    <2>3. CASE mu' = "restore" /\ target' = p /\ UNCHANGED restoring
      BY <1>12, <2>1, <2>3, Zenon DEF RestoreCounts
    <2>4. CASE mu' = "free" /\ restoring' = [restoring EXCEPT ![p] = @ - 1]
      BY <1>12, <2>1, <2>4 DEF RestoreCounts, Types
    <2> QED
      BY <2>2, <2>3, <2>4, Zenon
  <1>13. ASSUME NEW p \in Pool, restoreQuit(p)
         PROVE  RestoreCounts'
    <2>1. /\ restoring[p] > 0 /\ mu # "restore" /\ UNCHANGED mu
          /\ restoring' = [restoring EXCEPT ![p] = @ - 1]
      BY <1>13, Zenon DEF restoreQuit, muVars, RestoreCounts
    <2> QED
      BY <1>13, <2>1 DEF RestoreCounts, Types
  <1>14. CASE down \/ reboot \/ drainPHPThreads
    BY <1>14, Zenon DEF down, reboot, drainPHPThreads, poolVars, RestoreCounts
  <1>15. CASE Over \/ UNCHANGED vars
    BY <1>15, RestoreFrame, Zenon DEF Over, vars, poolVars, muVars, mainVars
  <1> QED
    BY <1>1, <1>2, <1>3, <1>4, <1>5, <1>6, <1>7, <1>8, <1>9, <1>10, <1>11, <1>12, <1>13, <1>14, <1>15, Zenon
    DEF Next, AddStep

\* Layer 6: a slot for which boot() is called is free.
Claimed ==
    \A a \in Actor, t \in Thread : task[a][t] = "create" => state[t] \in {"Reserved", "BootRequested"}

\* A step of an actor that does not claim a slot.
LEMMA ClaimedGoto ==
    ASSUME Types, Claimed, NEW a \in Actor, NEW u \in Thread, OneCell(u), NEW x, Goto(a, u, x), x # "create",
           \A b \in Actor : b # a => task[b][u] = "none"
    PROVE  Claimed'
  <1>1. /\ task'[a][u] = x
        /\ \A b \in Actor, t \in Thread : <<b, t>> # <<a, u>> => task'[b][t] = task[b][t]
    BY GotoIs, Zenon
  <1>2. \A t \in Thread : t # u => state'[t] = state[t]
    BY OtherCells, Zenon
  <1> SUFFICES ASSUME NEW b \in Actor, NEW t \in Thread, task'[b][t] = "create"
               PROVE  state'[t] \in {"Reserved", "BootRequested"}
    BY Zenon DEF Claimed
  <1>3. <<b, t>> # <<a, u>>
    BY <1>1, Zenon
  <1>4. task[b][t] = "create"
    BY <1>1, <1>3, Zenon
  <1>5. t # u
    BY <1>3, <1>4, Zenon
  <1>6. state[t] \in {"Reserved", "BootRequested"}
    BY <1>4, Zenon DEF Claimed
  <1> QED
    BY <1>2, <1>5, <1>6, Zenon

\* inactivePHPThread claims a reserved slot.
LEMMA ClaimedPick ==
    ASSUME Types, Claimed, NEW a \in Actor, inactivePHPThread(a),
           \A b \in Actor, t \in Thread : b # a => task[b][t] = "none"
    PROVE  Claimed'
  <1>1. CASE UNCHANGED <<cellVars, task>>
    BY <1>1, Zenon DEF Claimed, cellVars
  <1>2. ASSUME NEW u \in Thread, Goto(a, u, "convert"), UNCHANGED cellVars
        PROVE  Claimed'
    <2>1. OneCell(u)
      BY <1>2, Zenon DEF OneCell, cellVars
    <2>2. \A b \in Actor : b # a => task[b][u] = "none"
      BY Zenon
    <2> QED
      BY <1>2, <2>1, <2>2, ClaimedGoto, Zenon
  <1>3. ASSUME NEW u \in Thread, Publish(u, "BootRequested", {}), Goto(a, u, "create")
        PROVE  Claimed'
    <2>1. \A b \in Actor, t \in Thread : <<b, t>> # <<a, u>> => task'[b][t] = task[b][t]
      BY <1>3, GotoIs
    <2>2. state'[u] = "BootRequested" /\ \A t \in Thread : t # u => state'[t] = state[t]
      BY <1>3, Zenon DEF Publish, Types
    <2> QED
      BY <2>1, <2>2 DEF Claimed
  <1> QED
    BY <1>1, <1>2, <1>3, Zenon DEF inactivePHPThread

\* Layer 6 is kept: nobody moves into a slot between the claim and boot().
LEMMA ClaimedStep ==
    ASSUME Types, Phases, MuSteps, Waits, \A t \in Thread : Shape(t), Claimed, [Next]_vars
    PROVE  Claimed'
  <1> USE DEF Actor
  <1>1. ASSUME NEW u \in Thread, CThread(u) \/ selectRequest(u) \/ Respawn(u)
        PROVE  Claimed'
    <2>1. OneCell(u) /\ UNCHANGED task
      BY <1>1, Zenon DEF CThread, selectRequest, beforeScriptExecution, setInactive, idleWoken, setInactiveAgain,
        setReadyAgain, transitionToNewHandler, newHandlerCalled, setAndGo, setReady, waitForRequest,
        selectDrained, requestEnds, scriptEnds, scriptBooted, scriptFails, replaceUnhealthy, exitThread,
        Respawn, rebootedWoken, rebootedCreate, releaseDetach, releaseReserve, cellVars, OneCell
    <2>2. state[u] \notin Gone
      BY <1>1, Still, Zenon
    <2>3. \A t \in Thread : t # u => state'[t] = state[t]
      BY <2>1, OtherCells, Zenon
    <2> QED
      BY <2>1, <2>2, <2>3, Zenon DEF Claimed, Gone
  <1>2. ASSUME UNCHANGED state,
               \A a \in Actor, t \in Thread : task'[a][t] = "create" => task[a][t] = "create"
        PROVE  Claimed'
    BY <1>2, Zenon DEF Claimed
  <1>3. ASSUME NEW r \in Role, NEW t \in Thread, WaitFor(r, t)
        PROVE  Claimed'
    BY <1>2, <1>3, Zenon DEF WaitFor
  <1>4. ASSUME NEW a \in Actor, NEW u \in Thread, Controller(a, u)
        PROVE  Claimed'
    <2>1. task[a][u] # "none" /\ OneCell(u)
      BY <1>4, Zenon DEF Controller, bootThread, booted, retrySafe, setHandlerRequest, RequestSafeStateChange,
         setHandlerClose, closeDrain, setHandlerComplete, OneCell, cellVars
    <2>2. \E x : x # "create" /\ Goto(a, u, x)
      BY <1>4, Zenon DEF Controller, bootThread, booted, retrySafe, setHandlerRequest, RequestSafeStateChange,
         setHandlerClose, closeDrain, setHandlerComplete
    <2> QED
      BY <2>1, <2>2, Alone, ClaimedGoto, Zenon
  <1>5. CASE InitStep
    <2>1. CASE initPick
      BY <2>1, ClaimedPick, Zenon DEF initPick, Phases, Started
    <2>2. ASSUME NEW t \in Thread, initAttach(t)
          PROVE  Claimed'
      BY <1>2, <2>2, GotoIs DEF initAttach, cellVars
    <2>3. CASE initBooted \/ initDone \/ \E t \in Thread : initStarted(t)
      BY <1>2, <2>3, Zenon DEF initBooted, initDone, initStarted, Resume, cellVars
    <2> QED
      BY <1>5, <2>1, <2>2, <2>3, Zenon DEF InitStep
  <1>6. CASE addPick
    BY <1>6, ClaimedPick, Zenon DEF addPick, Phases
  <1>7. CASE downDone \/ rebootDone \/ drainMain \/ drainDone \/ MainStep
    BY <1>2, <1>7, Zenon DEF downDone, rebootDone, drainMain, drainDone, MainStep, mainTeardown, mainExit, mainStart, cellVars
  <1>8. ASSUME NEW u \in Thread,
               \/ addAttach(u) \/ addDone(u) \/ downCheck(u) \/ downConverted(u)
               \/ forceReboot(u) \/ rebootClose(u) \/ rebootYielded(u) \/ rebootResume(u) \/ rebootStable(u)
               \/ shutdownRequest(u) \/ shutdownClose(u) \/ shutdownExited(u) \/ shutdownJoined(u)
        PROVE  Claimed'
    <2>1. OneCell(u) /\ task["mu"][u] # "none"
      BY <1>8, Zenon DEF addAttach, addDone, downCheck, downConverted, forceReboot, RequestSafeStateChange,
         rebootClose, closeDrain, rebootYielded, rebootResume, rebootStable, shutdownRequest, shutdownClose,
         shutdownExited, shutdownJoined, OneCell, cellVars
    <2>2. \E x : x # "create" /\ Goto("mu", u, x)
      BY <1>8, Zenon DEF addAttach, addDone, downCheck, downConverted, forceReboot, RequestSafeStateChange,
         rebootClose, closeDrain, rebootYielded, rebootResume, rebootStable, shutdownRequest, shutdownClose,
         shutdownExited, shutdownJoined
    <2> QED
      BY <2>1, <2>2, Alone, ClaimedGoto, Zenon
  <1>9. CASE rebootMain \/ down \/ reboot \/ drainPHPThreads
    <2>1. UNCHANGED state /\ \A t \in Thread : task'["init"][t] = task["init"][t] /\ task'["mu"][t] # "create"
      BY <1>9, Zenon DEF rebootMain, down, reboot, drainPHPThreads, cellVars, Types
    <2> QED
      BY <1>2, <2>1, Zenon
  <1>10. ASSUME NEW p \in Pool, scale(p) \/ restoreThread(p) \/ restoreQuit(p)
         PROVE  Claimed'
    BY <1>2, <1>10, Zenon DEF scale, restoreThread, restoreQuit, cellVars
  <1>11. CASE Over \/ UNCHANGED vars
    BY <1>2, <1>11, Zenon DEF Over, vars, cellVars
  <1> QED
    BY <1>1, <1>3, <1>4, <1>5, <1>6, <1>7, <1>8, <1>9, <1>10, <1>11, Zenon
    DEF Next, AddStep, DownStep, RebootStep, DrainStep

-----------------------------------------------------------------------------
\* The inductive invariant holds when initPHPThreads has made the slots.
LEMMA IndInvInit == Init => IndInv
  <1> SUFFICES ASSUME Init PROVE IndInv
    BY Zenon
  <1> USE SizeAssumption DEF Init, Actor, Role, Pool
  <1>1. Types
    <2>1. task \in [Actor -> [Thread -> TaskStep]]
      BY Zenon DEF TaskStep
    <2>2. state \in [Thread -> State] /\ cpc \in [Thread -> CStep] /\ rpc \in [Thread -> RStep]
          /\ handler \in [Thread -> Handler] /\ main \in State
      BY Zenon DEF Handler, CStep, RStep, State
    <2>3. drained \in [Thread -> BOOLEAN] /\ waiting \in [Thread -> BOOLEAN]
          /\ failed \in BOOLEAN /\ engine \in BOOLEAN
      BY Zenon
    <2>4. pool \in [Pool -> [Thread -> Nat]] /\ restoring \in [Pool -> Int] /\ requests \in [Thread -> Nat]
      OBVIOUS
    <2> QED
      BY <2>1, <2>2, <2>3, <2>4 DEF Types
  <1>2. Phases
    BY Zenon DEF Phases, Started
  <1>3. MuSteps /\ Waits /\ MainShape
    BY Zenon DEF MuSteps, Waits, MainShape
  <1>4. \A t \in Thread : Shape(t)
    BY Zenon DEF Shape, Respawning
  <1>5. Counts
    BY DEF Counts, InitSteps
  <1> QED
    BY <1>1, <1>2, <1>3, <1>4, <1>5, Zenon DEF IndInv

\* No step breaks the inductive invariant, unless a restart is asked for
\* while Init runs.
LEMMA IndInvStep ==
    ASSUME ~RestartDuringInit, IndInv, [Next]_vars
    PROVE  IndInv'
  <1>1. Types /\ Phases /\ MuSteps /\ Waits /\ MainShape /\ Counts /\ \A t \in Thread : Shape(t)
    BY Zenon DEF IndInv
  <1>2. InitCounts /\ RestoreCounts
    BY <1>1, Zenon DEF Counts, InitCounts, RestoreCounts
  <1>3. Types' /\ Phases' /\ Waits' /\ MainShape' /\ \A t \in Thread : Shape(t)'
    BY <1>1, TypesStep, PhasesStep, WaitsStep, MainShapeStep, ShapeStep, Zenon
  <1>4. MuSteps'
    BY <1>1, <1>3, MuStepsStep, Zenon
  <1>5. InitCounts' /\ RestoreCounts'
    BY <1>1, <1>2, InitCountsStep, RestoreCountsStep, Zenon
  <1>6. Counts'
    BY <1>5, Zenon DEF Counts, InitCounts, RestoreCounts
  <1> QED
    BY <1>3, <1>4, <1>6, Zenon DEF IndInv

\* The invariant holds in every reachable state, for any number of threads.
THEOREM Inductive ==
    ASSUME ~RestartDuringInit
    PROVE  Spec => []IndInv
  <1>1. Init => IndInv
    BY IndInvInit, Zenon
  <1>2. IndInv /\ [Next]_vars => IndInv'
    BY IndInvStep, Zenon
  <1> QED
    BY <1>1, <1>2, PTL DEF Spec

\* Every variable has its type: no counter of Init() or restoreThread() runs
\* below zero, and no thread is left in a state that is not one of state.go.
THEOREM TypeCorrect ==
    ASSUME ~RestartDuringInit
    PROVE  Spec => []TypeOK
  <1>1. IndInv => TypeOK
    BY SizeAssumption DEF IndInv, Types, Counts, TypeOK
  <1> QED
    BY <1>1, Inductive, PTL

\* rebootAllThreads() and drainPHPThreads() never let php_main() tear down
\* SAPI and TSRM while a C thread of the pool exists.
THEOREM TeardownIsSafe ==
    ASSUME ~RestartDuringInit
    PROVE  Spec => []TeardownSafe
  <1>1. IndInv => TeardownSafe
    <2> SUFFICES ASSUME IndInv, ~engine, NEW t \in Thread PROVE cpc[t] = "none"
      BY Zenon DEF TeardownSafe
    <2>1. state[t] \in {"Reserved", "YieldingForReboot"}
      BY Zenon DEF IndInv, MainShape, Shape
    <2> QED
      BY <2>1, Zenon DEF IndInv, Shape, Gone
  <1> QED
    BY <1>1, Inductive, PTL

\* A slot is free when its exit is published, when startRebootedThread starts
\* its next C thread and when boot() does: no slot ever has two C threads.
THEOREM SlotsAreFree ==
    ASSUME ~RestartDuringInit
    PROVE  Spec => []SlotFree
  <1>1. Init => Claimed
    BY SizeAssumption, Zenon DEF Init, Claimed, Actor
  <1>2. IndInv /\ Claimed /\ [Next]_vars => Claimed'
    BY ClaimedStep, Zenon DEF IndInv
  <1>3. IndInv /\ Claimed => SlotFree
    <2> SUFFICES ASSUME IndInv, Claimed, NEW t \in Thread,
                        \/ state[t] \in {"Reserved", "BootRequested", "Done", "YieldingForReboot"}
                        \/ rpc[t] \in {"create", "release", "reserve"}
                        \/ \E a \in Actor : task[a][t] = "create"
                 PROVE  cpc[t] = "none"
      BY Zenon DEF SlotFree
    <2> QED
      BY Zenon DEF IndInv, Claimed, Shape, Gone, Respawning
  <1> QED
    BY <1>1, <1>2, <1>3, Inductive, PTL DEF Spec
=============================================================================
