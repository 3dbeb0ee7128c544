-------------------------- MODULE PhpThreadsDrains --------------------------
(***************************************************************************)
(* Proofs about PhpThreads, layers 11 and 12 of the invariant: when        *)
(* threads are not both rebooted and scaled, no thread publishes a state   *)
(* over a request, and an actor waits for the answer to its own request.   *)
(* Then the theorems: a closed drainChan is meant for its thread, and a    *)
(* request to convert, reboot or stop is never lost.                       *)
(***************************************************************************)
EXTENDS PhpThreadsStates

-----------------------------------------------------------------------------
(* Layer 11: no thread publishes a state over a request *)

\* No thread is rebooted, or none is ever converted back to the inactive
\* handler: the reboot of an inactive thread lets it publish Inactive twice.
Calm == RestartBound = 0 \/ ScaleBound = 0

\* The state a C thread replaces is the one it has read, and an inactive thread
\* waits for a request.
Settled(t) ==
    /\ cpc[t] = "setInactive" => state[t] \in {"Booting", "TransitionComplete"}
    /\ cpc[t] = "setReady" => state[t] \in {"TransitionComplete", "RebootReady"}
    /\ cpc[t] = "setReadyAgain" => state[t] = "RebootReady"
    /\ cpc[t] # "setInactiveAgain"
    /\ state[t] = "Inactive" => cpc[t] = "idle" /\ <<"c", t>> \notin granted
    /\ state[t] \in {"ForceRebooting", "YieldingForReboot", "RebootReady"} => handler[t] \in Pool
    /\ ini \notin Started =>
          state[t] # "ForceRebooting" /\ (state[t] = "TransitionRequested" => handler[t] = "inactive")

\* The thread has the inactive handler.
Idles(t) == handler[t] = "inactive" /\ state[t] \notin {"Reserved", "BootRequested"}

\* Without scaling, threads are only inactive while restoreThread starts them.
Rested ==
    /\ RestartBound = 0 => mu # "reboot"
    /\ ScaleBound = 0 =>
          /\ autoScaled = {} /\ mu \notin {"scale", "down"}
          /\ ini = "running" =>
                \A t \in Thread : Idles(t) =>
                    mu = "restore" /\ task["mu"][t] \in {"boot", "convert", "safe", "close", "transit"}

\* What a C thread, or its startRebootedThread, makes of the states others wait on.
LEMMA CThreadAnswers ==
    ASSUME Types, Waits, NEW u \in Thread, Shape(u), Conform(u), Settled(u),
           CThread(u) \/ selectRequest(u) \/ Respawn(u)
    PROVE  /\ state[u] = "TransitionRequested" => state'[u] \in {"TransitionRequested", "TransitionInProgress"}
           /\ state[u] = "ForceRebooting" => state'[u] \in {"ForceRebooting", "YieldingForReboot"}
           /\ state[u] = "ShuttingDown" => state'[u] \in {"ShuttingDown", "Done"}
           /\ state[u] \in {"TransitionInProgress", "YieldingForReboot", "Done"} => state'[u] = state[u]
  <1> USE DEF Publish, Types
  <1>1. CASE setInactive(u)
    BY <1>1, Zenon DEF setInactive, Settled
  <1>2. CASE setInactiveAgain(u)
    BY <1>2, Zenon DEF setInactiveAgain, setAndGo, Settled
  <1>3. CASE setReadyAgain(u)
    BY <1>3, Zenon DEF setReadyAgain, setAndGo, Settled
  <1>4. CASE transitionToNewHandler(u)
    <2>1. state[u] = "TransitionRequested" /\ state'[u] = "TransitionInProgress"
      BY <1>4, Zenon DEF transitionToNewHandler, setAndGo, Conform
    <2> QED
      BY <2>1
  <1>5. CASE setReady(u)
    BY <1>5, Zenon DEF setReady, Settled
  <1>6. CASE waitForRequest(u)
    <2>1. state'[u] = state[u] \/ state[u] = "Ready"
      BY <1>6, Zenon DEF waitForRequest, cellVars
    <2> QED
      BY <2>1, Zenon
  <1>7. CASE scriptFails(u)
    <2>1. state'[u] = state[u] \/ (ini = "convert" /\ state'[u] = "ShuttingDown" /\ cpc[u] = "bootScript")
      BY <1>7, Zenon DEF scriptFails, cellVars
    <2>2. CASE ini = "convert" /\ state'[u] = "ShuttingDown" /\ cpc[u] = "bootScript"
      <3>1. handler[u] \in Pool
        BY <2>2, Zenon DEF Conform
      <3>2. state[u] \notin {"TransitionRequested", "ForceRebooting"}
        BY <2>2, <3>1, Zenon DEF Settled, Started, Pool
      <3>3. state[u] \notin {"TransitionInProgress", "YieldingForReboot", "Done"}
        BY <2>2, Zenon DEF Shape, Gone
      <3> QED
        BY <2>2, <3>2, <3>3, Zenon
    <2> QED
      BY <2>1, <2>2, Zenon
  <1>8. CASE exitThread(u)
    <2>1. state[u] \in Leaving
      BY <1>8, Zenon DEF exitThread, Shape
    <2>2. state'[u] = CASE state[u] = "Rebooting" -> "RebootReady"
                        [] state[u] = "ForceRebooting" -> "YieldingForReboot"
                        [] OTHER -> "Done"
      BY <1>8, Zenon DEF exitThread
    <2> QED
      BY <2>1, <2>2 DEF Leaving
  <1>9. CASE Respawn(u)
    <2>1. state[u] = "RebootReady"
      BY <1>9, StepIs, AwaitedIs, Zenon DEF Respawn, rebootedWoken, rebootedCreate, releaseDetach, releaseReserve,
         Respawning, Passed, Shape
    <2> QED
      BY <2>1, Zenon
  <1>10. CASE \/ beforeScriptExecution(u) \/ idleWoken(u) \/ newHandlerCalled(u) \/ selectDrained(u) \/ requestEnds(u)
              \/ scriptEnds(u) \/ scriptBooted(u) \/ replaceUnhealthy(u) \/ selectRequest(u)
    <2>1. UNCHANGED state
      BY <1>10, Zenon DEF beforeScriptExecution, idleWoken, newHandlerCalled, selectDrained, requestEnds, scriptEnds,
         scriptBooted, replaceUnhealthy, selectRequest, Resume, cellVars
    <2> QED
      BY <2>1, Zenon
  <1> QED
    BY <1>1, <1>2, <1>3, <1>4, <1>5, <1>6, <1>7, <1>8, <1>9, <1>10, Zenon DEF CThread

\* What Settled reads of a thread is as before.
LEMMA SettledSame ==
    ASSUME NEW t \in Thread, Settled(t), state'[t] = state[t], cpc'[t] = cpc[t], handler'[t] = handler[t],
           <<"c", t>> \in granted' => <<"c", t>> \in granted, ini' \notin Started => ini \notin Started
    PROVE  Settled(t)'
  BY Zenon DEF Settled

\* Layer 11, C threads.
LEMMA CThreadSettled ==
    ASSUME Types, Waits, \A t \in Thread : Shape(t) /\ Conform(t) /\ Settled(t), NEW u \in Thread,
           CThread(u) \/ selectRequest(u) \/ Respawn(u)
    PROVE  \A t \in Thread : Settled(t)'
  <1>1. /\ UNCHANGED <<ini, handler>> /\ OneCell(u)
        /\ \A t \in Thread : t # u => state'[t] = state[t] /\ cpc'[t] = cpc[t]
    BY CThreadFrame, Zenon
  <1>2. ASSUME NEW t \in Thread, t # u PROVE Settled(t)'
    <2>1. <<"c", t>> \in granted' => <<"c", t>> \in granted
      BY <1>1, <1>2, OtherCells, Zenon DEF Role
    <2> QED
      BY <1>1, <1>2, <2>1, SettledSame, Zenon
  <1> SUFFICES Settled(u)'
    BY <1>2, Zenon
  <1>3. Shape(u) /\ Conform(u) /\ Settled(u)
    BY Zenon
  <1> USE DEF CGoto
  <1>4. CASE beforeScriptExecution(u)
    <2>1. /\ UNCHANGED <<state, granted>> /\ cpc'[u] = Branch(handler[u], state[u]) /\ cpc[u] = "before"
      BY <1>4, Zenon DEF beforeScriptExecution, cellVars, Types
    <2>2. state[u] # "Inactive"
      BY <1>3, <2>1, Zenon DEF Settled
    <2>3. /\ cpc'[u] = "setInactive" => state[u] \in {"Booting", "TransitionComplete"}
          /\ cpc'[u] = "setReady" => state[u] \in {"TransitionComplete", "RebootReady"}
          /\ cpc'[u] = "setReadyAgain" => state[u] = "RebootReady"
          /\ cpc'[u] = "setInactiveAgain" => handler[u] = "inactive" /\ state[u] = "RebootReady"
      BY <2>1, <2>2 DEF Branch
    <2>4. cpc'[u] # "setInactiveAgain"
      BY <1>3, <2>3, Zenon DEF Settled, Pool
    <2> QED
      BY <1>1, <1>3, <2>1, <2>2, <2>3, <2>4, Zenon DEF Settled
  <1>5. CASE setInactive(u)
    <2>1. state'[u] = "Inactive" /\ cpc'[u] = "idle" /\ cpc[u] = "setInactive"
      BY <1>5, Zenon DEF setInactive, Publish, Types
    <2>2. <<"c", u>> \notin want \cup granted
      BY <2>1, Zenon DEF Waits, WaitStep
    <2>3. <<"c", u>> \notin granted'
      BY <1>5, <2>2, Zenon DEF setInactive, Publish
    <2> QED
      BY <2>1, <2>3, Zenon DEF Settled
  <1>6. CASE setReadyAgain(u) \/ setReady(u)
    <2>1. state'[u] = "Ready" /\ cpc'[u] \in {"before", "serve", "select"}
      BY <1>6, Zenon DEF setReadyAgain, setAndGo, setReady, Publish, Types
    <2> QED
      BY <2>1, Zenon DEF Settled
  <1>7. CASE transitionToNewHandler(u)
    <2>1. state'[u] = "TransitionInProgress" /\ cpc'[u] = "newHandler"
      BY <1>7, Zenon DEF transitionToNewHandler, setAndGo, Publish, Types
    <2> QED
      BY <2>1, Zenon DEF Settled
  <1>8. CASE waitForRequest(u)
    <2>1. /\ cpc[u] = "serve"
          /\ \/ state'[u] = "Rebooting" /\ cpc'[u] \in {"leave", "end"}
             \/ UNCHANGED <<state, granted>> /\ cpc'[u] = "select"
             \/ UNCHANGED <<state, granted>> /\ cpc'[u] = "setReady" /\ state[u] = "TransitionComplete"
      BY <1>8, Zenon DEF waitForRequest, cellVars, Publish, Types
    <2> QED
      BY <1>1, <1>3, <2>1, Zenon DEF Settled
  <1>9. CASE scriptFails(u)
    <2>1. /\ cpc[u] = "bootScript" /\ cpc'[u] \in {"before", "unhealthy"}
          /\ UNCHANGED <<state, granted>> \/ state'[u] = "ShuttingDown"
      BY <1>9, Zenon DEF scriptFails, cellVars, Publish, Types
    <2> QED
      BY <1>1, <1>3, <2>1, Zenon DEF Settled
  <1>10. CASE exitThread(u)
    <2>1. /\ state[u] \in Leaving /\ cpc'[u] = "none"
          /\ state'[u] = CASE state[u] = "Rebooting" -> "RebootReady"
                           [] state[u] = "ForceRebooting" -> "YieldingForReboot"
                           [] OTHER -> "Done"
      BY <1>3, <1>10, Zenon DEF exitThread, Shape, Publish, Types
    <2>2. /\ state'[u] \in {"RebootReady", "YieldingForReboot", "Done"}
          /\ state'[u] \in {"RebootReady", "YieldingForReboot"} => state[u] \in {"Rebooting", "ForceRebooting"}
      BY <2>1 DEF Leaving
    <2>3. state[u] \in {"Rebooting", "ForceRebooting"} => handler[u] \in Pool
      BY <1>3, Zenon DEF Settled, Conform
    <2> QED
      BY <1>1, <2>1, <2>2, <2>3, Zenon DEF Settled
  <1>11. CASE Respawn(u)
    <2>1. state[u] = "RebootReady" /\ cpc[u] = "none"
      BY <1>11, StepIs, AwaitedIs, Zenon DEF Respawn, rebootedWoken, rebootedCreate, releaseDetach, releaseReserve,
         Respawning, Passed, Shape
    <2>2. cpc'[u] \in {"none", "before"} /\ state'[u] \in {"RebootReady", "Reserved"}
      BY <1>11, <2>1, Zenon DEF Respawn, rebootedWoken, rebootedCreate, releaseDetach, releaseReserve, Publish, Resume,
         cellVars, Types
    <2> QED
      BY <1>1, <1>3, <2>1, <2>2, Zenon DEF Settled
  <1>12. CASE idleWoken(u)
    <2>1. state[u] # "Inactive"
      <3>1. Awaited("idle") = {"TransitionRequested", "ShuttingDown", "Rebooting", "ForceRebooting"}
        BY Zenon DEF Awaited
      <3> QED
        BY <1>3, <1>12, <3>1, StepIs, Zenon DEF idleWoken, Passed, Settled
    <2>2. UNCHANGED state /\ granted' \subseteq granted /\ cpc'[u] = "before"
      BY <1>12, Zenon DEF idleWoken, Resume, Types
    <2> QED
      BY <1>1, <1>3, <2>1, <2>2, Zenon DEF Settled
  <1>13. CASE \/ newHandlerCalled(u) \/ selectDrained(u) \/ requestEnds(u) \/ scriptEnds(u) \/ scriptBooted(u)
              \/ replaceUnhealthy(u) \/ selectRequest(u)
    <2>1. /\ UNCHANGED state /\ cpc[u] # "idle"
          /\ cpc'[u] \in {"before", "end", "unhealthy", "serve", "none", "run"}
      BY <1>13, Zenon DEF newHandlerCalled, selectDrained, requestEnds, scriptEnds, scriptBooted,
         replaceUnhealthy, selectRequest, Resume, cellVars, Types
    <2>2. state[u] # "Inactive"
      BY <1>3, <2>1, Zenon DEF Settled
    <2> QED
      BY <1>1, <1>3, <2>1, <2>2, Zenon DEF Settled
  <1>14. CASE setInactiveAgain(u)
    BY <1>3, <1>14, Zenon DEF setInactiveAgain, setAndGo, Settled
  <1> QED
    BY <1>4, <1>5, <1>6, <1>7, <1>8, <1>9, <1>10, <1>11, <1>12, <1>13, <1>14, Zenon DEF CThread

\* Layer 11, the actors: what they publish over, and what.
LEMMA ActorChanges ==
    ASSUME Types, Waits, NEW a \in Actor, NEW u \in Thread, Shape(u), Claimed,
           Controller(a, u) \/ (a = "mu" /\ MuActs(u))
    PROVE  \/ state'[u] = state[u] /\ UNCHANGED <<handler, cpc>> /\ (<<"c", u>> \in granted' => <<"c", u>> \in granted)
           \/ bootThread(a, u) /\ state[u] \in {"Reserved", "BootRequested"} /\ state'[u] \in {"Booting", "Reserved"}
              /\ cpc'[u] \in {"none", "before"}
           \/ UNCHANGED <<handler, cpc>> /\ state[u] \in Stable /\ state'[u] = "TransitionRequested"
              /\ setHandlerRequest(a, u)
           \/ UNCHANGED <<handler, cpc>> /\ state[u] \in Stable /\ state'[u] = "ForceRebooting" /\ a = "mu" /\ forceReboot(u)
           \/ UNCHANGED <<handler, cpc>> /\ state[u] \in Stable /\ state'[u] = "ShuttingDown" /\ a = "mu"
           \/ setHandlerComplete(a, u) /\ state[u] = "TransitionInProgress" /\ state'[u] = "TransitionComplete"
              /\ UNCHANGED cpc /\ cpc[u] = "newHandler"
           \/ UNCHANGED <<handler, cpc>> /\ cpc[u] = "none" /\ state[u] = "YieldingForReboot" /\ state'[u] = "RebootReady"
           \/ UNCHANGED <<handler, cpc>> /\ cpc[u] = "none" /\ state[u] = "Done" /\ state'[u] = "Reserved"
  <1>1. CASE bootThread(a, u)
    <2>1. state[u] \in {"Reserved", "BootRequested"}
      BY <1>1, Zenon DEF bootThread, Claimed
    <2>2. cpc[u] = "none"
      BY <2>1, Zenon DEF Shape, Gone
    <2>3. state'[u] \in {"Booting", "Reserved"}
      <3>1. Publish(u, "Booting", {}) \/ Publish(u, "Reserved", {})
        BY <1>1, <2>1, Zenon DEF bootThread
      <3> QED
        BY <3>1, Zenon DEF Publish, Types
    <2>4. cpc'[u] \in {"none", "before"}
      BY <1>1, <2>1, <2>2, Zenon DEF bootThread, CGoto, Types
    <2> QED
      BY <1>1, <2>1, <2>3, <2>4
  <1>2. CASE setHandlerRequest(a, u) \/ (a = "mu" /\ (forceReboot(u) \/ shutdownRequest(u)))
    <2>1. UNCHANGED <<handler, cpc>>
      BY <1>2, Zenon DEF setHandlerRequest, forceReboot, shutdownRequest, threadVars
    <2>2. ASSUME NEW s, NEW x, NEW y, NEW z, RequestSafeStateChange(a, u, s, x, y, z)
          PROVE  UNCHANGED <<state, granted>> \/ (state[u] \in Stable /\ state'[u] = s)
      BY <2>2, Zenon DEF RequestSafeStateChange, Publish, cellVars, Types
    <2>3. \/ UNCHANGED <<state, granted>>
          \/ state[u] \in Stable /\ state'[u] = "TransitionRequested" /\ setHandlerRequest(a, u)
          \/ state[u] \in Stable /\ state'[u] = "ForceRebooting" /\ a = "mu" /\ forceReboot(u)
          \/ state[u] \in Stable /\ state'[u] = "ShuttingDown" /\ a = "mu"
      <3>1. CASE setHandlerRequest(a, u)
        BY <2>2, <3>1, Zenon DEF setHandlerRequest
      <3>2. CASE a = "mu" /\ forceReboot(u)
        BY <2>2, <3>2, Zenon DEF forceReboot
      <3>3. CASE a = "mu" /\ shutdownRequest(u)
        BY <2>2, <3>3, Zenon DEF shutdownRequest
      <3> QED
        BY <1>2, <3>1, <3>2, <3>3, Zenon
    <2> QED
      BY <2>1, <2>3, Zenon
  <1>3. CASE setHandlerComplete(a, u)
    <2>1. state[u] = "TransitionInProgress" /\ cpc[u] = "newHandler"
      BY <1>3, StepIs, AwaitedIs, Zenon DEF setHandlerComplete, Passed, Shape
    <2>2. state'[u] = "TransitionComplete" /\ UNCHANGED cpc
      BY <1>3, <2>1, Zenon DEF setHandlerComplete, Publish, Types
    <2> QED
      BY <1>3, <2>1, <2>2
  <1>4. CASE a = "mu" /\ rebootResume(u)
    <2>1. state[u] = "YieldingForReboot" /\ cpc[u] = "none"
      BY <1>4, Zenon DEF rebootResume, Shape, Gone
    <2>2. UNCHANGED <<handler, cpc>> /\ state'[u] = "RebootReady"
      BY <1>4, <2>1, Zenon DEF rebootResume, Publish, Types
    <2> QED
      BY <2>1, <2>2
  <1>5. CASE a = "mu" /\ (shutdownExited(u) \/ (shutdownJoined(u) /\ state[u] = "Done"))
    <2>1. state[u] = "Done" /\ cpc[u] = "none"
      BY <1>5, StepIs, AwaitedIs, Zenon DEF shutdownExited, Passed, Shape, Gone, Actor
    <2>2. UNCHANGED <<handler, cpc>> /\ state'[u] = "Reserved"
      BY <1>5, <2>1, Zenon DEF shutdownExited, shutdownJoined, Publish, threadVars, Types
    <2> QED
      BY <2>1, <2>2
  <1>6. CASE \/ booted(a, u) \/ retrySafe(a, u) \/ setHandlerClose(a, u)
             \/ (a = "mu" /\ (rebootClose(u) \/ shutdownClose(u) \/ (shutdownJoined(u) /\ state[u] # "Done")))
    <2>1. UNCHANGED <<state, handler, cpc>>
      BY <1>6, Zenon DEF booted, retrySafe, setHandlerClose, rebootClose, shutdownClose, closeDrain, shutdownJoined,
         Resume, threadVars, cellVars
    <2>2. granted' \subseteq granted
      BY <1>6, Zenon DEF booted, retrySafe, setHandlerClose, rebootClose, shutdownClose, closeDrain, shutdownJoined,
         Resume, cellVars
    <2> QED
      BY <2>1, <2>2, Zenon
  <1> QED
    BY <1>1, <1>2, <1>3, <1>4, <1>5, <1>6, Zenon DEF Controller, MuActs

\* Layer 11, the actors.
LEMMA ActorSettled ==
    ASSUME Types, Phases, MuSteps, Waits, \A t \in Thread : Shape(t) /\ Conform(t) /\ Settled(t), Claimed, Adds,
           Calm, Rested, NEW a \in Actor, NEW u \in Thread, Controller(a, u) \/ (a = "mu" /\ MuActs(u)),
           ini' \notin Started => ini \notin Started
    PROVE  \A t \in Thread : Settled(t)'
  <1>1. /\ OneCell(u) /\ task[a][u] # "none"
        /\ \A t \in Thread : t # u => state'[t] = state[t] /\ handler'[t] = handler[t] /\ cpc'[t] = cpc[t]
    BY ActorFrame, Zenon
  <1>2. ASSUME NEW t \in Thread, t # u PROVE Settled(t)'
    <2>1. <<"c", t>> \in granted' => <<"c", t>> \in granted
      BY <1>1, <1>2, OtherCells, Zenon DEF Role
    <2> QED
      BY <1>1, <1>2, <2>1, SettledSame, Zenon
  <1> SUFFICES Settled(u)'
    BY <1>2, Zenon
  <1>3. Shape(u) /\ Conform(u) /\ Settled(u)
    BY Zenon
  <1>4. a = "mu" => ini \in Started
    BY <1>1, Zenon DEF Phases
  <1>5. CASE state'[u] = state[u] /\ UNCHANGED <<handler, cpc>> /\ (<<"c", u>> \in granted' => <<"c", u>> \in granted)
    BY <1>3, <1>5, SettledSame, Zenon
  <1>6. CASE state'[u] \in {"Booting", "Reserved"} /\ cpc'[u] \in {"none", "before"}
    BY <1>6, Zenon DEF Settled
  <1>7. state[u] \in Stable => cpc[u] \notin {"setInactive", "setReady", "setReadyAgain", "setInactiveAgain"}
    BY <1>3, Zenon DEF Settled, Stable
  <1>8. CASE UNCHANGED <<handler, cpc>> /\ state[u] \in Stable /\ state'[u] = "TransitionRequested" /\ setHandlerRequest(a, u)
    <2>1. ASSUME ini' \notin Started PROVE handler'[u] = "inactive"
      <3>1. a = "init"
        BY <1>4, <2>1, Zenon DEF Actor
      <3>2. task["init"][u] = "convert" /\ Added("init", u)
        BY <1>8, <3>1, Zenon DEF setHandlerRequest, Adds
      <3>3. state[u] = "Inactive"
        BY <3>2, Zenon DEF Added, Adding
      <3> QED
        BY <1>3, <1>8, <3>3, Zenon DEF Conform
    <2> QED
      BY <1>7, <1>8, <2>1, Zenon DEF Settled
  <1>9. CASE UNCHANGED <<handler, cpc>> /\ state[u] \in Stable /\ state'[u] = "ForceRebooting" /\ a = "mu" /\ forceReboot(u)
    <2>1. task["mu"][u] = "force" /\ mu = "reboot"
      BY <1>9, Zenon DEF forceReboot, MuSteps, AddSteps, DownSteps, DrainSteps, Types
    <2>2. ScaleBound = 0 /\ ini = "running"
      BY <2>1, Zenon DEF Calm, Rested, MuSteps
    <2>3. ~Idles(u)
      BY <2>1, <2>2, Zenon DEF Rested
    <2>4. handler[u] \in Pool
      BY <1>3, <1>9, <2>3, Zenon DEF Conform, Idles, Stable
    <2>5. ini' \in Started
      BY <2>2, Zenon DEF Started
    <2> QED
      BY <1>7, <1>9, <2>4, <2>5, Zenon DEF Settled
  <1>10. CASE UNCHANGED <<handler, cpc>> /\ state[u] \in Stable /\ state'[u] = "ShuttingDown" /\ a = "mu"
    BY <1>7, <1>10, Zenon DEF Settled
  <1>11. CASE state'[u] = "TransitionComplete" /\ UNCHANGED cpc /\ cpc[u] = "newHandler"
    BY <1>11, Zenon DEF Settled
  <1>12. CASE UNCHANGED <<handler, cpc>> /\ cpc[u] = "none" /\ state[u] = "YieldingForReboot" /\ state'[u] = "RebootReady"
    BY <1>3, <1>12, Zenon DEF Settled
  <1>13. CASE UNCHANGED <<handler, cpc>> /\ cpc[u] = "none" /\ state[u] = "Done" /\ state'[u] = "Reserved"
    BY <1>13, Zenon DEF Settled
  <1> QED
    BY <1>3, <1>5, <1>6, <1>8, <1>9, <1>10, <1>11, <1>12, <1>13, ActorChanges, ZenonT(30)

\* Layer 11: no thread publishes over a request, after any step.
LEMMA SettledStep ==
    ASSUME Types, Phases, MuSteps, Waits, \A t \in Thread : Shape(t) /\ Conform(t) /\ Settled(t), Claimed, Adds,
           Calm, Rested, [Next]_vars
    PROVE  \A t \in Thread : Settled(t)'
  <1>1. ini' \notin Started => ini \notin Started
    BY StartedStays, Zenon
  <1>2. CASE \E u \in Thread : CThread(u) \/ selectRequest(u) \/ Respawn(u)
    BY <1>2, CThreadSettled, Zenon
  <1>3. CASE \E a \in Actor, u \in Thread : Controller(a, u)
    BY <1>1, <1>3, ActorSettled, Zenon
  <1>4. CASE \E u \in Thread : MuActs(u)
    BY <1>1, <1>4, ActorSettled, Zenon DEF Actor
  <1>5. CASE initPick \/ addPick
    <2> SUFFICES ASSUME NEW t \in Thread PROVE Settled(t)'
      OBVIOUS
    <2>1. /\ UNCHANGED <<handler, cpc>>
          /\ state'[t] = state[t] \/ (state[t] = "Reserved" /\ state'[t] = "BootRequested")
      BY <1>5, PickFrame, Zenon
    <2>2. CASE state[t] = "Reserved" /\ state'[t] = "BootRequested"
      <3>1. cpc[t] = "none"
        BY <2>2, Zenon DEF Shape, Gone
      <3> QED
        BY <2>1, <2>2, <3>1, Zenon DEF Settled
    <2>3. CASE state'[t] = state[t]
      <3>1. <<"c", t>> \in granted' => <<"c", t>> \in granted \/ cpc[t] = "none"
        <4>1. CASE UNCHANGED granted
          BY <4>1
        <4>2. ASSUME NEW u \in Thread, state[u] = "Reserved", Publish(u, "BootRequested", {})
              PROVE  <<"c", t>> \in granted' => <<"c", t>> \in granted \/ cpc[t] = "none"
          <5>1. cpc[u] = "none"
            BY <4>2, Zenon DEF Shape, Gone
          <5> QED
            BY <4>2, <5>1, Zenon DEF Publish
        <4> QED
          BY <1>5, <4>1, <4>2, Zenon DEF initPick, addPick, inactivePHPThread, IsFirst, cellVars
      <3>2. Settled(t)
        BY Zenon
      <3>3. <<"c", t>> \in granted' => <<"c", t>> \in granted \/ state[t] # "Inactive"
        BY <3>1, <3>2, Zenon DEF Settled
      <3> QED
        BY <1>1, <2>1, <2>3, <3>2, <3>3, Zenon DEF Settled
    <2> QED
      BY <2>1, <2>2, <2>3
  <1>6. CASE Elsewhere
    <2>1. UNCHANGED <<state, handler, cpc>>
      BY <1>6, ElsewhereFrame, Zenon
    <2>2. granted' \subseteq granted
      BY <1>6, Zenon DEF Elsewhere, WaitFor, initBooted, initDone, initAttach, initStarted, addAttach, addDone,
         DownStep, downDone, downCheck, downConverted, rebootMain, rebootDone, rebootYielded, rebootStable,
         drainMain, drainDone, MainStep, mainTeardown, mainExit, mainStart, scale, restoreThread, restoreQuit,
         down, reboot, drainPHPThreads, Over, vars, cellVars, Resume
    <2> QED
      BY <1>1, <2>1, <2>2, SettledSame, Zenon
  <1> QED
    BY <1>2, <1>3, <1>4, <1>5, <1>6, NextCases, Zenon

\* Layer 11: no thread idles beyond its start, without scaling.
LEMMA RestedStep ==
    ASSUME Types, Phases, MuSteps, Waits, \A t \in Thread : Shape(t) /\ Conform(t), Counts, Claimed, Adds, Order, Rested,
           ~RestartDuringInit, Clear', [Next]_vars
    PROVE  Rested'
  <1> USE DEF Actor
  <1>1. RestartBound = 0 => mu' # "reboot"
    <2> SUFFICES ASSUME RestartBound = 0, mu' = "reboot" PROVE FALSE
      BY Zenon
    <2>1. mu # "reboot"
      BY Zenon DEF Rested
    <2>2. ~reboot
      BY DEF reboot, Types
    <2>3. mu' # "reboot"
      <3>1. CASE \E u \in Thread : CThread(u) \/ selectRequest(u) \/ Respawn(u)
        BY <2>1, <3>1, CThreadFrame, Zenon
      <3>2. CASE \E a \in Actor, u \in Thread : Controller(a, u)
        BY <2>1, <3>2, ActorMu, Zenon
      <3>3. CASE (\E u \in Thread : MuActs(u)) \/ initPick \/ addPick
        BY <2>1, <3>3, Zenon DEF MuActs, forceReboot, rebootClose, closeDrain, rebootResume, shutdownRequest,
           shutdownClose, shutdownExited, shutdownJoined, initPick, addPick, inactivePHPThread, noThread, muVars
      <3>4. CASE Elsewhere
        BY <2>1, <2>2, <3>4, Zenon DEF Elsewhere, WaitFor, initBooted, initDone, initAttach, initStarted, addAttach, addDone,
           DownStep, downDone, downCheck, downConverted, rebootMain, rebootDone, rebootYielded, rebootStable,
           drainMain, drainDone, MainStep, mainTeardown, mainExit, mainStart, scale, restoreThread, restoreQuit,
           down, drainPHPThreads, Over, vars, muVars
      <3> QED
        BY <3>1, <3>2, <3>3, <3>4, NextCases, Zenon
    <2> QED
      BY <2>3
  <1> SUFFICES ASSUME ScaleBound = 0
               PROVE  /\ autoScaled' = {} /\ mu' \notin {"scale", "down"}
                      /\ ini' = "running" =>
                            \A t \in Thread : Idles(t)' =>
                                mu' = "restore" /\ task'["mu"][t] \in {"boot", "convert", "safe", "close", "transit"}
    BY <1>1, Zenon DEF Rested
  <1> DEFINE Steps == {"boot", "convert", "safe", "close", "transit"}
  <1>2. /\ autoScaled = {} /\ mu \notin {"scale", "down"}
        /\ ini = "running" => \A t \in Thread : Idles(t) => mu = "restore" /\ task["mu"][t] \in Steps
    BY Zenon DEF Rested
  <1> HIDE DEF Steps
  <1>3. (\A p \in Pool : ~scale(p)) /\ ~down
    <2>1. \A p \in Pool : ~scale(p)
      BY DEF scale, Types
    <2>2. ~down
      BY <1>2, Zenon DEF down
    <2> QED
      BY <2>1, <2>2
  <1>4. autoScaled' = {}
    <2>1. CASE \E u \in Thread : CThread(u) \/ selectRequest(u) \/ Respawn(u)
      BY <1>2, <2>1, CThreadFrame, Zenon
    <2>2. CASE (\E a \in Actor, u \in Thread : Controller(a, u)) \/ (\E u \in Thread : MuActs(u))
      BY <1>2, <2>2, ActorFrame, Zenon
    <2>3. CASE initPick \/ addPick
      BY <1>2, <2>3, PickFrame, Zenon
    <2>4. CASE Elsewhere
      BY <1>2, <2>4, Zenon DEF Elsewhere, WaitFor, initBooted, initDone, initAttach, initStarted, addAttach, addDone,
         DownStep, downDone, downCheck, downConverted, rebootMain, rebootDone, rebootYielded, rebootStable,
         drainMain, drainDone, MainStep, mainTeardown, mainExit, mainStart, scale, restoreThread, restoreQuit,
         down, reboot, drainPHPThreads, Over, vars, poolVars
    <2> QED
      BY <2>1, <2>2, <2>3, <2>4, NextCases, Zenon
  <1>5. mu' \notin {"scale", "down"}
    <2>1. CASE \E u \in Thread : CThread(u) \/ selectRequest(u) \/ Respawn(u)
      BY <1>2, <2>1, CThreadFrame, Zenon
    <2>2. CASE \E a \in Actor, u \in Thread : Controller(a, u)
      BY <1>2, <2>2, ActorMu, Zenon
    <2>3. CASE (\E u \in Thread : MuActs(u)) \/ initPick \/ addPick
      BY <1>2, <2>3, Zenon DEF MuActs, forceReboot, rebootClose, closeDrain, rebootResume, shutdownRequest,
         shutdownClose, shutdownExited, shutdownJoined, initPick, addPick, inactivePHPThread, noThread, muVars
    <2>4. CASE Elsewhere
      BY <1>2, <1>3, <2>4, Zenon DEF Elsewhere, WaitFor, initBooted, initDone, initAttach, initStarted, addAttach, addDone,
         DownStep, downDone, downCheck, downConverted, rebootMain, rebootDone, rebootYielded, rebootStable,
         drainMain, drainDone, MainStep, mainTeardown, mainExit, mainStart, restoreThread, restoreQuit,
         reboot, drainPHPThreads, Over, vars, muVars
    <2> QED
      BY <2>1, <2>2, <2>3, <2>4, NextCases, Zenon
  <1> SUFFICES ASSUME ini' = "running", NEW t \in Thread, Idles(t)'
               PROVE  mu' = "restore" /\ task'["mu"][t] \in Steps
    BY <1>4, <1>5, Zenon DEF Steps
  <1>6. CASE initDone
    <2>1. /\ ini = "convert" /\ left = 0 /\ InitIdle /\ UNCHANGED <<state, handler>>
      BY <1>6, Zenon DEF initDone, cellVars, threadVars
    <2>2. ConvertAt(t) /\ ~Converting(t)
      BY <2>1, Zenon DEF Order, InitIdle, Converting
    <2>3. t > NumThreads \/ t <= NumThreads - left
      BY <2>1, SizeAssumption DEF Thread
    <2>4. state[t] = "Reserved" \/ handler[t] \in Pool
      BY <2>2, <2>3, Zenon DEF ConvertAt
    <2> QED
      BY <2>1, <2>4, Zenon DEF Idles, Pool
  <1>7. CASE ~initDone
    <2>1. ini = "running"
      <3>1. CASE \E u \in Thread : CThread(u) \/ selectRequest(u) \/ Respawn(u)
        BY <3>1, CThreadFrame, Zenon
      <3>2. CASE \E a \in Actor, u \in Thread : Controller(a, u)
        BY <3>2, SMTT(30) DEF Controller, bootThread, noThread, booted, retrySafe, setHandlerRequest,
           setHandlerClose, closeDrain, setHandlerComplete, initVars
      <3>3. CASE (\E u \in Thread : MuActs(u)) \/ initPick \/ addPick
        BY <3>3, Zenon DEF MuActs, forceReboot, rebootClose, closeDrain, rebootResume, shutdownRequest,
           shutdownClose, shutdownExited, shutdownJoined, initPick, addPick, inactivePHPThread, noThread, initVars
      <3>4. CASE Elsewhere
        BY <1>7, <3>4, Zenon DEF Elsewhere, WaitFor, initBooted, initAttach, initStarted, addAttach, addDone,
           DownStep, downDone, downCheck, downConverted, rebootMain, rebootDone, rebootYielded, rebootStable,
           drainMain, drainDone, MainStep, mainTeardown, mainExit, mainStart, scale, restoreThread, restoreQuit,
           down, reboot, drainPHPThreads, Over, vars, initVars
      <3> QED
        BY <3>1, <3>2, <3>3, <3>4, NextCases, Zenon
    <2>2. /\ \A u \in Thread : task["init"][u] = "none"
          /\ \A u \in Thread : Idles(u) => mu = "restore" /\ task["mu"][u] \in Steps
      BY <1>2, <2>1, Zenon DEF Phases, Started
    <2>3. ASSUME Idles(t), mu' = mu, task'["mu"][t] = task["mu"][t]
          PROVE  mu' = "restore" /\ task'["mu"][t] \in Steps
      BY <2>2, <2>3, Zenon
    <2>4. ASSUME UNCHANGED <<handler, mu>>, task'["mu"][t] = task["mu"][t],
                 state[t] \in {"Reserved", "BootRequested"} => state'[t] \in {"Reserved", "BootRequested"}
          PROVE  mu' = "restore" /\ task'["mu"][t] \in Steps
      <3>1. Idles(t)
        BY <2>4, Zenon DEF Idles
      <3> QED
        BY <2>3, <2>4, <3>1, Zenon
    <2>5. ASSUME NEW u \in Thread, CThread(u) \/ selectRequest(u) \/ Respawn(u)
          PROVE  mu' = "restore" /\ task'["mu"][t] \in Steps
      <3>1. UNCHANGED <<handler, mu, task>> /\ (t # u => state'[t] = state[t])
        BY <2>5, CThreadFrame, Zenon
      <3>2. state[u] \notin {"Reserved", "BootRequested"}
        BY <2>5, Still, Zenon DEF Gone
      <3> QED
        BY <2>4, <3>1, <3>2, Zenon
    <2>6. ASSUME NEW u \in Thread, Controller("mu", u)
          PROVE  mu' = "restore" /\ task'["mu"][t] \in Steps
      <3>1. /\ task["mu"][u] # "none"
            /\ t # u => state'[t] = state[t] /\ handler'[t] = handler[t]
        BY <2>6, ActorFrame, Zenon
      <3>2. PICK x : Goto("mu", u, x)
        BY <2>6, ActorFrame, Zenon
      <3>3. /\ task'["mu"][u] = x
            /\ t # u => task'["mu"][t] = task["mu"][t]
        BY <3>2, GotoIs, Zenon
      <3>4. task["mu"][u] \in {"create", "boot", "safe", "safeForce", "safeDown", "convert", "close", "transit"}
        BY <2>6, Zenon DEF Controller, bootThread, booted, retrySafe, setHandlerRequest, setHandlerClose, closeDrain,
           setHandlerComplete
      <3>5. CASE t # u
        <4>1. Idles(t)
          BY <3>1, <3>5, Zenon DEF Idles
        <4>2. mu = "restore" /\ task["mu"][t] \in Steps
          BY <2>2, <4>1, Zenon
        <4>3. task["mu"][t] = "none"
          BY <3>1, <3>5, <4>2, Zenon DEF MuSteps
        <4> QED
          BY <4>2, <4>3, Zenon DEF Steps
      <3>6. CASE t = u
        <4>1. mu \in {"restore", "reboot", "drain"}
          BY <1>2, <3>1, Zenon DEF MuSteps, Types
        <4>2. CASE mu # "restore"
          <5>1. ~Idles(u)
            BY <2>2, <4>2, Zenon
          <5>2. task["mu"][u] \in {"safeForce", "safeDown"}
            BY <3>4, <4>1, <4>2, Zenon DEF MuSteps, RebootSteps, DrainSteps
          <5>3. UNCHANGED <<state, handler>>
            BY <2>6, <5>2, Zenon DEF Controller, bootThread, booted, retrySafe, setHandlerRequest, setHandlerClose,
               closeDrain, setHandlerComplete, Resume, threadVars
          <5> QED
            BY <3>6, <5>1, <5>3, Zenon DEF Idles
        <4>3. CASE mu = "restore"
          <5>1. target \in Pool /\ Adding("mu") /\ Added("mu", u)
            BY <4>3, Zenon DEF Counts, Adding, Adds
          <5>2. CASE bootThread("mu", u)
            <6>1. state[u] \in {"Reserved", "BootRequested"}
              BY <5>2, Zenon DEF bootThread, Claimed
            <6>2. (Goto("mu", u, "boot") /\ UNCHANGED mu) \/ Publish(u, "Reserved", {})
              BY <5>2, <6>1, Zenon DEF bootThread
            <6>3. Publish(u, "Reserved", {}) => state'[u] = "Reserved"
              BY Zenon DEF Publish, Types
            <6>4. Goto("mu", u, "boot") => task'["mu"][u] = "boot"
              BY GotoIs, Zenon
            <6> QED
              BY <3>6, <4>3, <6>2, <6>3, <6>4, Zenon DEF Idles, Steps
          <5>3. CASE setHandlerComplete("mu", u)
            <6>1. handler'[u] = target
              BY <5>3, Zenon DEF setHandlerComplete, Target, Types
            <6> QED
              BY <3>6, <5>1, <6>1, Zenon DEF Idles, Pool
          <5>4. CASE booted("mu", u) \/ retrySafe("mu", u) \/ setHandlerClose("mu", u) \/ setHandlerRequest("mu", u)
            <6>1. UNCHANGED mu
              BY <5>4, Zenon DEF booted, retrySafe, setHandlerClose, closeDrain, setHandlerRequest, muVars
            <6>2. setHandlerRequest("mu", u) => state[u] = "Inactive"
              BY <5>1, Zenon DEF Added, setHandlerRequest
            <6>3. \E y \in {"convert", "force", "shutdown", "close", "transit", "panic"} : Goto("mu", u, y)
              BY <5>4, <6>2 DEF booted, retrySafe, setHandlerRequest, RequestSafeStateChange, Refusing, Stable,
                 setHandlerClose, closeDrain
            <6>4. task'["mu"][u] \in {"convert", "force", "shutdown", "close", "transit", "panic"}
              BY <6>3, GotoIs, Zenon
            <6>5. task["mu"][u] \notin {"safeForce", "safeDown"}
              BY <4>3, Zenon DEF MuSteps, AddSteps
            <6>6. task'["mu"][u] \notin {"force", "shutdown"}
              BY <3>4, <5>4, <6>5, GotoIs DEF booted, retrySafe, setHandlerRequest, RequestSafeStateChange,
                 setHandlerClose, closeDrain
            <6>7. task'["mu"][u] # "panic"
              BY Zenon DEF Clear
            <6> QED
              BY <3>6, <4>3, <6>1, <6>4, <6>6, <6>7, Zenon DEF Steps
          <5> QED
            BY <2>6, <5>2, <5>3, <5>4, Zenon DEF Controller
        <4> QED
          BY <4>1, <4>2, <4>3
      <3> QED
        BY <3>5, <3>6
    <2>7. \A u \in Thread : ~Controller("init", u)
      BY <2>2, Zenon DEF Controller, bootThread, booted, retrySafe, setHandlerRequest, setHandlerClose, closeDrain,
         setHandlerComplete
    <2>8. ASSUME NEW u \in Thread, MuActs(u)
          PROVE  mu' = "restore" /\ task'["mu"][t] \in Steps
      <3>1. mu # "restore"
        BY <2>8, Zenon DEF MuActs, forceReboot, rebootClose, closeDrain, rebootResume, shutdownRequest,
           shutdownClose, shutdownExited, shutdownJoined, MuSteps, AddSteps
      <3>2. ~Idles(t)
        BY <2>2, <3>1, Zenon
      <3>3. UNCHANGED handler
        BY <2>8, Zenon DEF MuActs, forceReboot, rebootClose, closeDrain, rebootResume, shutdownRequest,
           shutdownClose, shutdownExited, shutdownJoined, threadVars
      <3>4. state[t] \in {"Reserved", "BootRequested"} => state'[t] \in {"Reserved", "BootRequested"}
        <4>1. CASE t # u
          BY <2>8, <4>1, ActorFrame, Zenon
        <4>2. CASE t = u
          <5>1. task["mu"][u] # "create"
            BY <2>8, Zenon DEF MuActs, forceReboot, rebootClose, closeDrain, rebootResume, shutdownRequest,
               shutdownClose, shutdownExited, shutdownJoined
          <5>2. ~bootThread("mu", u)
            BY <5>1, Zenon DEF bootThread
          <5> QED
            BY <2>8, <4>2, <5>2, ActorChanges, Zenon DEF Stable
        <4> QED
          BY <4>1, <4>2
      <3> QED
        BY <3>2, <3>3, <3>4, Zenon DEF Idles
    <2>9. CASE addPick
      <3>1. \A u \in Thread : ~Idles(u)
        BY <2>2, <2>9, Zenon DEF addPick, AllMu, Steps
      <3>2. UNCHANGED handler /\ (state'[t] = state[t] \/ state'[t] = "BootRequested")
        BY <2>9, PickFrame, Zenon
      <3> QED
        BY <3>1, <3>2, Zenon DEF Idles
    <2>10. CASE Elsewhere
      <3>1. UNCHANGED <<state, handler>>
        BY <2>10, ElsewhereFrame, Zenon
      <3>2. Idles(t)
        BY <3>1, Zenon DEF Idles
      <3>3. mu = "restore" /\ task["mu"][t] \in Steps
        BY <2>2, <3>2, Zenon
      <3>4. CASE \/ \E r \in Role, v \in Thread : WaitFor(r, v)
                 \/ \E v \in Thread : initStarted(v)
                 \/ MainStep
                 \/ \E p \in Pool : restoreQuit(p)
                 \/ Over \/ UNCHANGED vars
        BY <3>3, <3>4, Zenon DEF WaitFor, initStarted, MainStep, mainTeardown, mainExit, mainStart, restoreQuit, Over, vars, muVars
      <3>5. ASSUME NEW u \in Thread, addAttach(u) \/ addDone(u) PROVE FALSE
        <4>1. task["mu"][u] \in {"attach", "stable"}
          BY <3>5, Zenon DEF addAttach, addDone
        <4>2. u = t
          BY <3>3, <4>1, Zenon DEF MuSteps, Steps
        <4> QED
          BY <3>3, <4>1, <4>2, Zenon DEF Steps
      <3>6. /\ ~initBooted /\ ~(\E u \in Thread : initAttach(u)) /\ ~DownStep
            /\ ~rebootMain /\ ~rebootDone /\ ~(\E u \in Thread : rebootStable(u)) /\ ~drainMain /\ ~drainDone
            /\ (\A p \in Pool : ~scale(p) /\ ~restoreThread(p)) /\ ~down /\ ~reboot /\ ~drainPHPThreads
        BY <2>1, <2>2, <3>3, Zenon DEF initBooted, initAttach, DownStep, downDone, downCheck, downConverted, rebootMain,
           rebootDone, rebootStable, drainMain, drainDone, scale, restoreThread, down, reboot, drainPHPThreads, MuSteps, AddSteps
      <3>7. ~(\E u \in Thread : rebootYielded(u))
        BY <3>3, Zenon DEF rebootYielded, MuSteps, AddSteps
      <3> QED
        BY <1>7, <2>10, <3>4, <3>5, <3>6, <3>7, Zenon DEF Elsewhere
    <2>11. ~initPick
      BY <2>1, Zenon DEF initPick
    <2> QED
      BY <2>5, <2>6, <2>7, <2>8, <2>9, <2>10, <2>11, NextCases, Zenon
  <1> QED
    BY <1>6, <1>7

-----------------------------------------------------------------------------
(* Layer 12: an actor waits for the answer to its own request *)

\* The state of a thread that an actor has asked to convert, to reboot or to stop
\* is the request or its answer.
Asked(a, t) ==
    /\ task[a][t] \in {"close", "transit"} => state[t] \in {"TransitionRequested", "TransitionInProgress"}
    /\ task[a][t] \in {"closeForce", "yield"} => state[t] \in {"ForceRebooting", "YieldingForReboot"}
    /\ task[a][t] \in {"closeDown", "exit"} => state[t] \in {"ShuttingDown", "Done"}
Asks == \A a \in Actor, t \in Thread : Asked(a, t)

\* The steps Asked speaks of.
AskedSteps == {"close", "transit", "closeForce", "yield", "closeDown", "exit"}

\* Layer 12, an actor on one thread.
LEMMA AsksGoto ==
    ASSUME Types, Asks, NEW a \in Actor, NEW u \in Thread, NEW x, Goto(a, u, x),
           \A b \in Actor : b # a => task[b][u] = "none",
           \A t \in Thread : t # u => state'[t] = state[t], Asked(a, u)'
    PROVE  Asks'
  <1>1. \A b \in Actor, t \in Thread : <<b, t>> # <<a, u>> => task'[b][t] = task[b][t]
    BY GotoIs, Zenon
  <1>2. ASSUME NEW b \in Actor, NEW t \in Thread, t # u PROVE Asked(b, t)'
    <2>1. Asked(b, t) /\ task'[b][t] = task[b][t]
      BY <1>1, <1>2, Zenon DEF Asks
    <2> QED
      BY <1>2, <2>1, Zenon DEF Asked
  <1>3. ASSUME NEW b \in Actor, b # a PROVE Asked(b, u)'
    <2>1. task[b][u] = "none" /\ <<b, u>> # <<a, u>>
      BY <1>3, Zenon
    <2>2. task'[b][u] = "none"
      BY <1>1, <2>1, Zenon
    <2> QED
      BY <2>2, Zenon DEF Asked
  <1> QED
    BY <1>2, <1>3, Zenon DEF Asks

\* Layer 12, the actors.
LEMMA ActorAsks ==
    ASSUME Types, Phases, Waits, \A t \in Thread : Shape(t), Claimed, Clear', Asks, NEW a \in Actor, NEW u \in Thread,
           Controller(a, u) \/ (a = "mu" /\ MuActs(u))
    PROVE  Asks'
  <1>1. /\ task[a][u] # "none" /\ \A t \in Thread : t # u => state'[t] = state[t]
        /\ \A b \in Actor : b # a => task[b][u] = "none"
    BY ActorFrame, Alone, Zenon
  <1>2. ASSUME NEW x, Goto(a, u, x), x \notin AskedSteps PROVE Asks'
    <2>1. task'[a][u] = x
      BY <1>2, GotoIs, Zenon
    <2>2. Asked(a, u)'
      BY <1>2, <2>1, Zenon DEF Asked, AskedSteps
    <2> QED
      BY <1>1, <1>2, <2>2, AsksGoto, Zenon
  <1>3. CASE bootThread(a, u)
    BY <1>2, <1>3, Zenon DEF bootThread, AskedSteps
  <1>4. CASE booted(a, u) \/ retrySafe(a, u)
    <2>1. \E x \in {"none", "convert", "force", "shutdown"} : Goto(a, u, x)
      BY <1>4 DEF booted, retrySafe
    <2> QED
      BY <1>2, <2>1, Zenon DEF AskedSteps
  <1>5. ASSUME NEW s, NEW x, NEW y, NEW z, RequestSafeStateChange(a, u, s, x, y, z), y \notin AskedSteps, z \notin AskedSteps,
               <<s, x>> \in {<<"TransitionRequested", "close">>, <<"ForceRebooting", "closeForce">>,
                             <<"ShuttingDown", "closeDown">>}
        PROVE  Asks'
    <2>1. CASE Goto(a, u, x) /\ Publish(u, s, {})
      <3>1. task'[a][u] = x
        BY <2>1, GotoIs, Zenon
      <3>2. state'[u] = s
        BY <2>1, Zenon DEF Publish, Types
      <3>3. Asked(a, u)'
        BY <1>5, <3>1, <3>2, Zenon DEF Asked
      <3> QED
        BY <1>1, <2>1, <3>3, AsksGoto, Zenon
    <2> QED
      BY <1>2, <1>5, <2>1, Zenon DEF RequestSafeStateChange
  <1>6. CASE setHandlerRequest(a, u)
    BY <1>5, <1>6, Zenon DEF setHandlerRequest, AskedSteps
  <1>7. CASE a = "mu" /\ forceReboot(u)
    BY <1>5, <1>7, Zenon DEF forceReboot, AskedSteps
  <1>8. CASE a = "mu" /\ shutdownRequest(u)
    BY <1>5, <1>8, Zenon DEF shutdownRequest, AskedSteps
  <1>9. ASSUME NEW from, NEW to, closeDrain(a, u, from, to),
               <<from, to>> \in {<<"close", "transit">>, <<"closeForce", "yield">>, <<"closeDown", "exit">>}
        PROVE  Asks'
    <2>1. UNCHANGED state /\ task[a][u] = from /\ (Goto(a, u, to) \/ Goto(a, u, "panic"))
      BY <1>9, Zenon DEF closeDrain, cellVars
    <2>2. CASE Goto(a, u, "panic")
      BY <1>2, <2>2, Zenon DEF AskedSteps
    <2>3. CASE Goto(a, u, to)
      <3>1. task'[a][u] = to
        BY <2>3, GotoIs, Zenon
      <3>2. Asked(a, u)
        BY Zenon DEF Asks
      <3>3. Asked(a, u)'
        BY <1>9, <2>1, <3>1, <3>2, Zenon DEF Asked
      <3> QED
        BY <1>1, <2>3, <3>3, AsksGoto, Zenon
    <2> QED
      BY <2>1, <2>2, <2>3
  <1>10. CASE setHandlerClose(a, u) \/ (a = "mu" /\ (rebootClose(u) \/ shutdownClose(u)))
    BY <1>9, <1>10, Zenon DEF setHandlerClose, rebootClose, shutdownClose
  <1>11. CASE setHandlerComplete(a, u) \/ (a = "mu" /\ (rebootResume(u) \/ shutdownExited(u) \/ shutdownJoined(u)))
    <2>1. \E x \in {"attach", "stable", "panic", "none"} : Goto(a, u, x)
      BY <1>11, Zenon DEF setHandlerComplete, rebootResume, shutdownExited, shutdownJoined
    <2> QED
      BY <1>2, <2>1, Zenon DEF AskedSteps
  <1> QED
    BY <1>3, <1>4, <1>6, <1>7, <1>8, <1>10, <1>11, Zenon DEF Controller, MuActs

\* Layer 12: every request is answered before its state changes again.
LEMMA AsksStep ==
    ASSUME Types, Phases, MuSteps, Waits, \A t \in Thread : Shape(t) /\ Conform(t) /\ Settled(t), Claimed, Clear', Asks,
           [Next]_vars
    PROVE  Asks'
  <1> USE DEF Actor
  <1>1. ASSUME NEW u \in Thread, CThread(u) \/ selectRequest(u) \/ Respawn(u)
        PROVE  Asks'
    <2>1. UNCHANGED task /\ \A t \in Thread : t # u => state'[t] = state[t]
      BY <1>1, CThreadFrame, Zenon
    <2>2. /\ state[u] \in {"TransitionRequested", "TransitionInProgress"} =>
                state'[u] \in {"TransitionRequested", "TransitionInProgress"}
          /\ state[u] \in {"ForceRebooting", "YieldingForReboot"} => state'[u] \in {"ForceRebooting", "YieldingForReboot"}
          /\ state[u] \in {"ShuttingDown", "Done"} => state'[u] \in {"ShuttingDown", "Done"}
      BY <1>1, CThreadAnswers, Zenon
    <2> QED
      BY <2>1, <2>2, Zenon DEF Asks, Asked
  <1>2. ASSUME NEW a \in Actor, NEW u \in Thread, Controller(a, u) \/ (a = "mu" /\ MuActs(u))
        PROVE  Asks'
    BY <1>2, ActorAsks, Zenon
  <1>3. ASSUME \A t \in Thread : state'[t] = state[t] \/ state[t] = "Reserved",
               \A a \in Actor, t \in Thread : task'[a][t] = task[a][t] \/ task'[a][t] \notin AskedSteps
        PROVE  Asks'
    <2> SUFFICES ASSUME NEW a \in Actor, NEW t \in Thread PROVE Asked(a, t)'
      BY Zenon DEF Asks
    <2>1. CASE task'[a][t] \notin AskedSteps
      BY <2>1, Zenon DEF Asked, AskedSteps
    <2>2. CASE task'[a][t] = task[a][t]
      <3>1. Asked(a, t) /\ (state'[t] = state[t] \/ state[t] = "Reserved")
        BY <1>3, Zenon DEF Asks
      <3> QED
        BY <2>2, <3>1, Zenon DEF Asked
    <2> QED
      BY <1>3, <2>1, <2>2, Zenon
  <1>4. ASSUME NEW a \in Actor, NEW u \in Thread, NEW x, Goto(a, u, x), x \notin AskedSteps
        PROVE  \A b \in Actor, t \in Thread : task'[b][t] = task[b][t] \/ task'[b][t] \notin AskedSteps
    <2>1. /\ task'[a][u] = x
          /\ \A b \in Actor, t \in Thread : <<b, t>> # <<a, u>> => task'[b][t] = task[b][t]
      BY <1>4, GotoIs, Zenon
    <2> QED
      BY <1>4, <2>1, Zenon
  <1>5. CASE initPick \/ addPick
    <2>1. \A t \in Thread : state'[t] = state[t] \/ state[t] = "Reserved"
      BY <1>5, PickFrame, Zenon
    <2>2. UNCHANGED task \/ \E a \in Actor, u \in Thread, x \in {"convert", "create"} : Goto(a, u, x)
      BY <1>5, Zenon DEF initPick, addPick, inactivePHPThread
    <2>3. \A a \in Actor, t \in Thread : task'[a][t] = task[a][t] \/ task'[a][t] \notin AskedSteps
      <3>1. CASE \E a \in Actor, u \in Thread, x \in {"convert", "create"} : Goto(a, u, x)
        BY <1>4, <3>1, Zenon DEF AskedSteps
      <3> QED
        BY <2>2, <3>1, Zenon
    <2> QED
      BY <1>3, <2>1, <2>3, Zenon
  <1>6. CASE Elsewhere
    <2>1. UNCHANGED state
      BY <1>6, ElsewhereFrame, Zenon
    <2>2. CASE UNCHANGED task
      BY <1>3, <2>1, <2>2, Zenon
    <2>3. ASSUME NEW t \in Thread,
                 \/ initAttach(t) \/ addAttach(t) \/ addDone(t) \/ downCheck(t) \/ downConverted(t)
                 \/ rebootYielded(t) \/ rebootStable(t)
          PROVE  Asks'
      <3>1. \E a \in Actor, x \in {"none", "stable", "convert", "yielded"} : Goto(a, t, x)
        BY <2>3, Zenon DEF initAttach, addAttach, addDone, downCheck, downConverted, rebootYielded, rebootStable
      <3>2. \A b \in Actor, u \in Thread : task'[b][u] = task[b][u] \/ task'[b][u] \notin AskedSteps
        BY <1>4, <3>1, Zenon DEF AskedSteps
      <3> QED
        BY <1>3, <2>1, <3>2, Zenon
    <2>4. CASE rebootMain \/ down \/ reboot \/ drainPHPThreads
      <3>1. \A t \in Thread : task'["init"][t] = task["init"][t] /\ task'["mu"][t] \notin AskedSteps
        <4>1. CASE rebootMain
          BY <4>1 DEF rebootMain, Types, AskedSteps
        <4>2. CASE down
          BY <4>2 DEF down, Types, AskedSteps
        <4>3. CASE reboot \/ drainPHPThreads
          BY <4>3 DEF reboot, drainPHPThreads, Types, AskedSteps
        <4> QED
          BY <2>4, <4>1, <4>2, <4>3, Zenon
      <3> QED
        BY <1>3, <2>1, <3>1, Zenon
    <2> QED
      BY <1>6, <2>2, <2>3, <2>4, Zenon
      DEF Elsewhere, WaitFor, initBooted, initDone, initStarted, DownStep, downDone, rebootDone, drainMain, drainDone,
          MainStep, mainTeardown, mainExit, mainStart, scale, restoreThread, restoreQuit, Over, vars
  <1> QED
    BY <1>1, <1>2, <1>5, <1>6, NextCases, Zenon

-----------------------------------------------------------------------------
\* The inductive invariant behind NoStaleDrain and SafeRequestKept.
CalmInv ==
    /\ StatesInv
    /\ \A t \in Thread : Settled(t)
    /\ Rested /\ Asks

\* It holds when initPHPThreads has made the slots.
LEMMA CalmInit == Init => CalmInv
  <1> SUFFICES ASSUME Init PROVE CalmInv
    BY Zenon
  <1>1. StatesInv
    BY StatesInit, Zenon
  <1>2. \A t \in Thread : Settled(t)
    BY Zenon DEF Init, Settled
  <1>3. Rested /\ Asks
    BY Zenon DEF Init, Rested, Asks, Asked, Actor
  <1> QED
    BY <1>1, <1>2, <1>3, Zenon DEF CalmInv

\* No step breaks it, when threads are not both rebooted and scaled.
LEMMA CalmStep ==
    ASSUME ~RestartDuringInit, Calm, CalmInv, [Next]_vars
    PROVE  CalmInv'
  <1>1. /\ Types /\ Phases /\ MuSteps /\ Waits /\ Counts /\ Claimed
        /\ \A t \in Thread : Shape(t) /\ Conform(t) /\ Settled(t)
        /\ Drains /\ Clear /\ Adds /\ Order /\ Rested /\ Asks /\ StatesInv
    BY Zenon DEF CalmInv, StatesInv, IndInv
  <1>2. StatesInv'
    BY <1>1, StatesStep, Zenon
  <1>3. Clear'
    BY <1>2, Zenon DEF StatesInv
  <1>4. \A t \in Thread : Settled(t)'
    BY <1>1, SettledStep, Zenon
  <1>5. Rested'
    BY <1>1, <1>3, RestedStep, Zenon
  <1>6. Asks'
    BY <1>1, <1>3, AsksStep, Zenon
  <1> QED
    BY <1>2, <1>4, <1>5, <1>6, Zenon DEF CalmInv

\* The invariant holds in every reachable state, for any number of threads.
THEOREM CalmInductive ==
    ASSUME ~RestartDuringInit, Calm
    PROVE  Spec => []CalmInv
  <1>1. Init => CalmInv
    BY CalmInit, Zenon
  <1>2. CalmInv /\ [Next]_vars => CalmInv'
    BY CalmStep, Zenon
  <1> QED
    BY <1>1, <1>2, PTL DEF Spec

\* A thread finds its drainChan closed only when it has been asked to convert, to
\* reboot or to stop (setHandler, rebootAllThreads, shutdown), unless threads are
\* both rebooted and scaled down.
THEOREM DrainsAreMeant ==
    ASSUME ~RestartDuringInit, Calm
    PROVE  Spec => []NoStaleDrain
  <1>1. CalmInv => NoStaleDrain
    <2> SUFFICES ASSUME CalmInv, NEW t \in Thread, drained[t]
                 PROVE  state[t] \in {"TransitionRequested", "TransitionInProgress",
                                      "ForceRebooting", "YieldingForReboot", "ShuttingDown", "Done"}
      BY Zenon DEF NoStaleDrain
    <2>1. Drains /\ Asks /\ Shape(t) /\ MuSteps /\ Counts
      BY Zenon DEF CalmInv, StatesInv, IndInv
    <2>2. PICK a \in Actor : task[a][t] \in Draining
      BY <2>1, Zenon DEF Drains
    <2>3. Asked(a, t)
      BY <2>1, Zenon DEF Asks
    <2>4. task[a][t] \in {"yielded", "down"} => a = "mu"
      BY <2>1, Zenon DEF Counts, InitSteps, Actor
    <2> QED
      BY <2>1, <2>2, <2>3, <2>4, Zenon DEF Asked, Shape, Draining
  <1>2. Spec => []CalmInv
    BY CalmInductive, Zenon
  <1> QED
    BY <1>1, <1>2, PTL

\* What one step may do to the states that stand for a request.
LEMMA RequestKept ==
    ASSUME CalmInv, [Next]_vars
    PROVE  \A t \in Thread : state'[t] # state[t] =>
              /\ state[t] = "TransitionRequested" => state'[t] = "TransitionInProgress"
              /\ state[t] = "ForceRebooting" => state'[t] = "YieldingForReboot"
              /\ state[t] = "ShuttingDown" => state'[t] = "Done"
  <1> SUFFICES ASSUME NEW t \in Thread, state'[t] # state[t]
               PROVE  /\ state[t] = "TransitionRequested" => state'[t] = "TransitionInProgress"
                      /\ state[t] = "ForceRebooting" => state'[t] = "YieldingForReboot"
                      /\ state[t] = "ShuttingDown" => state'[t] = "Done"
    BY Zenon
  <1>1. Types /\ Waits /\ Claimed /\ Shape(t) /\ Conform(t) /\ Settled(t)
    BY Zenon DEF CalmInv, StatesInv, IndInv
  <1>2. CASE \E u \in Thread : CThread(u) \/ selectRequest(u) \/ Respawn(u)
    <2>1. CThread(t) \/ selectRequest(t) \/ Respawn(t)
      BY <1>1, <1>2, CThreadFrame, Zenon
    <2> QED
      BY <1>1, <2>1, CThreadAnswers, Zenon
  <1>3. ASSUME NEW a \in Actor, NEW u \in Thread, Controller(a, u) \/ (a = "mu" /\ MuActs(u))
        PROVE  state[t] \notin {"TransitionRequested", "ForceRebooting", "ShuttingDown"}
    <2>1. u = t
      BY <1>1, <1>3, ActorFrame, Zenon
    <2> QED
      BY <1>1, <1>3, <2>1, ActorChanges, Zenon DEF Stable
  <1>4. CASE initPick \/ addPick
    BY <1>1, <1>4, PickFrame, Zenon
  <1>5. CASE Elsewhere
    BY <1>5, ElsewhereFrame, Zenon
  <1> QED
    BY <1>2, <1>3, <1>4, <1>5, NextCases, Zenon DEF Actor

\* A request that RequestSafeStateChange has published is only replaced by its
\* answer, unless threads are both rebooted and scaled down.
THEOREM RequestsAreKept ==
    ASSUME ~RestartDuringInit, Calm
    PROVE  Spec => SafeRequestKept
  <1>1. CalmInv /\ [Next]_vars =>
           [\A t \in Thread : state'[t] # state[t] =>
              /\ state[t] = "TransitionRequested" => state'[t] = "TransitionInProgress"
              /\ state[t] = "ForceRebooting" => state'[t] = "YieldingForReboot"
              /\ state[t] = "ShuttingDown" => state'[t] = "Done"]_vars
    BY RequestKept, Zenon
  <1>2. Spec => []CalmInv
    BY CalmInductive, Zenon
  <1> QED
    BY <1>1, <1>2, PTL DEF Spec, SafeRequestKept
=============================================================================
