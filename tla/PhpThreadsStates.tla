-------------------------- MODULE PhpThreadsStates --------------------------
(***************************************************************************)
(* Proofs about PhpThreads, layers 7 to 10 of the invariant: the handler   *)
(* of a thread goes with its state and with what its C thread does; a      *)
(* drainChan is closed by one actor and replaced by the same; the threads  *)
(* that are started become inactive and take their handler; Init boots and *)
(* converts them in order. Then the theorems: no thread meets an           *)
(* unexpected state and nobody panics, and a thread that counts as Ready   *)
(* or Inactive has a C thread.                                             *)
(***************************************************************************)
EXTENDS PhpThreadsProofs

-----------------------------------------------------------------------------
(* Layer 7: the handler, the state and the C thread of a thread *)

\* Layer 7, for one thread: its handler goes with its state and with what its C
\* thread does.
Conform(t) ==
    /\ handler[t] = "none" => state[t] \in {"Reserved", "BootRequested"} /\ cpc[t] = "none"
    /\ state[t] \in {"Booting", "Inactive"} => handler[t] = "inactive"
    /\ state[t] \in {"Ready", "Rebooting"} => handler[t] \in Pool
    /\ cpc[t] \in {"setInactive", "setInactiveAgain", "idle"} => handler[t] = "inactive"
    /\ cpc[t] \in {"setReady", "setReadyAgain", "serve", "select", "run", "end", "bootScript", "unhealthy"} =>
          handler[t] \in Pool
    /\ cpc[t] = "toNewHandler" => state[t] = "TransitionRequested"
    /\ cpc[t] = "newHandler" => state[t] \in {"TransitionInProgress", "TransitionComplete"}
    /\ cpc[t] # "panic"

\* What Conform reads of a thread is as before.
Kept(t) == state'[t] = state[t] /\ handler'[t] = handler[t] /\ cpc'[t] = cpc[t]

\* Then it still conforms.
LEMMA KeptConforms ==
    ASSUME NEW t \in Thread, Conform(t), Kept(t)
    PROVE  Conform(t)'
  BY Zenon DEF Conform, Kept

\* Which variables of which thread the steps of a C thread, and of its
\* startRebootedThread, change.
LEMMA CThreadFrame ==
    ASSUME Types, NEW u \in Thread, CThread(u) \/ selectRequest(u) \/ Respawn(u)
    PROVE  /\ UNCHANGED <<task, mu, target, ini, left, wpc, main, autoScaled, handler, drained, restarts, scaled>>
           /\ OneCell(u)
           /\ \A t \in Thread : t # u => state'[t] = state[t] /\ cpc'[t] = cpc[t] /\ rpc'[t] = rpc[t]
  <1> USE DEF CThread, selectRequest, beforeScriptExecution, setInactive, idleWoken, setInactiveAgain,
        setReadyAgain, transitionToNewHandler, newHandlerCalled, setAndGo, setReady, waitForRequest,
        selectDrained, requestEnds, scriptEnds, scriptBooted, scriptFails, replaceUnhealthy, exitThread,
        Respawn, rebootedWoken, rebootedCreate, releaseDetach, releaseReserve
  <1>1. UNCHANGED <<task, mu, target, ini, left, wpc, main, autoScaled, handler, drained, restarts, scaled>>
    BY Zenon DEF muVars, initVars, mainVars, poolVars, boundVars
  <1>2. OneCell(u)
    BY Zenon DEF OneCell, cellVars
  <1>3. \A t \in Thread : t # u => cpc'[t] = cpc[t] /\ rpc'[t] = rpc[t]
    BY Zenon DEF Types, CGoto
  <1> QED
    BY <1>1, <1>2, <1>3, OtherCells, Zenon

\* A C thread finds no state that it does not expect.
LEMMA BranchConforms ==
    ASSUME Types, NEW u \in Thread, Shape(u), Conform(u), cpc[u] = "before"
    PROVE  LET to == Branch(handler[u], state[u])
           IN  /\ to # "panic"
               /\ to \in {"setInactive", "setInactiveAgain"} => handler[u] = "inactive"
               /\ to \in {"setReady", "setReadyAgain", "serve", "bootScript"} => handler[u] \in Pool
               /\ to = "toNewHandler" => state[u] = "TransitionRequested"
               /\ to \notin {"idle", "newHandler", "select", "run", "end", "unhealthy"}
  <1>1. state[u] \notin Gone /\ state[u] # "TransitionInProgress"
    BY Zenon DEF Shape
  <1>2. handler[u] \in {"inactive", "regular", "worker"} /\ state[u] \in State
    BY Zenon DEF Types, Handler, Pool, Conform
  <1>3. CASE handler[u] = "inactive"
    BY <1>1, <1>2, <1>3 DEF Branch, State, Gone, Conform, Pool
  <1>4. CASE handler[u] = "regular"
    BY <1>1, <1>2, <1>4 DEF Branch, State, Gone, Conform, Pool
  <1>5. CASE handler[u] = "worker"
    BY <1>1, <1>2, <1>5 DEF Branch, State, Gone, Conform, Pool
  <1> QED
    BY <1>2, <1>3, <1>4, <1>5, Zenon

\* Layer 7, C threads and startRebootedThread.
LEMMA CThreadConforms ==
    ASSUME Types, Waits, \A t \in Thread : Shape(t) /\ Conform(t), NEW u \in Thread,
           CThread(u) \/ selectRequest(u) \/ Respawn(u)
    PROVE  \A t \in Thread : Conform(t)'
  <1>1. /\ UNCHANGED handler
        /\ \A t \in Thread : t # u => Kept(t)
    BY CThreadFrame, Zenon DEF Kept
  <1>2. \A t \in Thread : t # u => Conform(t)'
    BY <1>1, KeptConforms, Zenon
  <1>3. Shape(u) /\ Conform(u) /\ handler[u] \in Handler
    BY Zenon DEF Types
  <1> SUFFICES Conform(u)'
    BY <1>2, Zenon
  <1> USE DEF CGoto
  <1>4. CASE beforeScriptExecution(u)
    <2>1. UNCHANGED state /\ cpc'[u] = Branch(handler[u], state[u]) /\ cpc[u] = "before"
      BY <1>4, Zenon DEF beforeScriptExecution, cellVars, Types
    <2> QED
      BY <1>1, <1>3, <2>1, BranchConforms, Zenon DEF Conform
  <1>5. CASE setInactive(u)
    <2>1. state'[u] = "Inactive" /\ cpc'[u] = "idle" /\ cpc[u] = "setInactive"
      BY <1>5, Zenon DEF setInactive, Publish, Types
    <2> QED
      BY <1>1, <1>3, <2>1, Zenon DEF Conform
  <1>6. CASE setInactiveAgain(u)
    <2>1. state'[u] = "Inactive" /\ cpc'[u] = "before" /\ cpc[u] = "setInactiveAgain"
      BY <1>6, Zenon DEF setInactiveAgain, setAndGo, Publish, Types
    <2> QED
      BY <1>1, <1>3, <2>1, Zenon DEF Conform
  <1>7. CASE setReadyAgain(u)
    <2>1. state'[u] = "Ready" /\ cpc'[u] = "before" /\ cpc[u] = "setReadyAgain"
      BY <1>7, Zenon DEF setReadyAgain, setAndGo, Publish, Types
    <2> QED
      BY <1>1, <1>3, <2>1, Zenon DEF Conform, Pool
  <1>8. CASE transitionToNewHandler(u)
    <2>1. state'[u] = "TransitionInProgress" /\ cpc'[u] = "newHandler" /\ cpc[u] = "toNewHandler"
      BY <1>8, Zenon DEF transitionToNewHandler, setAndGo, Publish, Types
    <2> QED
      BY <1>1, <1>3, <2>1, Zenon DEF Conform
  <1>9. CASE setReady(u)
    <2>1. state'[u] = "Ready" /\ cpc'[u] \in {"serve", "select"} /\ cpc[u] = "setReady"
      BY <1>9, Zenon DEF setReady, Publish, Types
    <2> QED
      BY <1>1, <1>3, <2>1, Zenon DEF Conform, Pool
  <1>10. CASE waitForRequest(u)
    <2>1. cpc[u] = "serve" /\ cpc'[u] \in {"leave", "end", "setReady", "select"}
      BY <1>10, Zenon DEF waitForRequest, Types
    <2>2. state'[u] = state[u] \/ state'[u] = "Rebooting"
      BY <1>10, Zenon DEF waitForRequest, Publish, cellVars, Types
    <2> QED
      BY <1>1, <1>3, <2>1, <2>2, Zenon DEF Conform, Pool
  <1>11. CASE scriptFails(u)
    <2>1. cpc[u] = "bootScript" /\ cpc'[u] \in {"before", "unhealthy"}
      BY <1>11, Zenon DEF scriptFails, Types
    <2>2. state'[u] = state[u] \/ state'[u] = "ShuttingDown"
      BY <1>11, Zenon DEF scriptFails, Publish, cellVars, Types
    <2> QED
      BY <1>1, <1>3, <2>1, <2>2, Zenon DEF Conform, Pool
  <1>12. CASE exitThread(u)
    <2>1. cpc[u] = "leave" /\ cpc'[u] = "none" /\ state'[u] \in {"RebootReady", "YieldingForReboot", "Done"}
      BY <1>12, Zenon DEF exitThread, Publish, Types
    <2> QED
      BY <1>1, <1>3, <2>1, Zenon DEF Conform
  <1>13. CASE selectDrained(u) \/ requestEnds(u) \/ scriptEnds(u) \/ scriptBooted(u) \/ replaceUnhealthy(u) \/ selectRequest(u)
    <2>1. /\ UNCHANGED state
          /\ cpc[u] \in {"select", "run", "end", "bootScript", "unhealthy"}
          /\ cpc'[u] \in {"before", "end", "unhealthy", "serve", "none", "run"}
      BY <1>13, Zenon DEF selectDrained, requestEnds, scriptEnds, scriptBooted, replaceUnhealthy, selectRequest, cellVars, Types
    <2> QED
      BY <1>1, <1>3, <2>1, Zenon DEF Conform, Pool
  <1>14. CASE idleWoken(u) \/ newHandlerCalled(u)
    <2>1. UNCHANGED state /\ cpc'[u] = "before" /\ cpc[u] \in {"idle", "newHandler"}
      BY <1>14, Zenon DEF idleWoken, newHandlerCalled, Resume, Types
    <2> QED
      BY <1>1, <1>3, <2>1, Zenon DEF Conform
  <1>15. CASE Respawn(u)
    <2>1. state[u] = "RebootReady" /\ cpc[u] = "none"
      BY <1>15, StepIs, AwaitedIs, ZenonT(30) DEF Respawn, rebootedWoken, rebootedCreate, releaseDetach,
         releaseReserve, Respawning, Passed, Shape
    <2>2. cpc'[u] \in {"none", "before"} /\ state'[u] \in {"RebootReady", "Reserved"}
      BY <1>15, <2>1, Zenon DEF Respawn, rebootedWoken, rebootedCreate, releaseDetach, releaseReserve, Publish, Resume,
         cellVars, Types
    <2> QED
      BY <1>1, <1>3, <2>1, <2>2, Zenon DEF Conform
  <1> QED
    BY <1>4, <1>5, <1>6, <1>7, <1>8, <1>9, <1>10, <1>11, <1>12, <1>13, <1>14, <1>15, Zenon DEF CThread

\* What the holder of scalingMu does to threads, beyond boot() and setHandler().
MuActs(u) ==
    \/ forceReboot(u) \/ rebootClose(u) \/ rebootResume(u)
    \/ shutdownRequest(u) \/ shutdownClose(u) \/ shutdownExited(u) \/ shutdownJoined(u)

\* The steps that change no thread, only what is known or done about it.
Elsewhere ==
    \/ \E r \in Role, t \in Thread : WaitFor(r, t)
    \/ initBooted \/ initDone \/ \E t \in Thread : initAttach(t) \/ initStarted(t)
    \/ \E t \in Thread : addAttach(t) \/ addDone(t)
    \/ DownStep
    \/ rebootMain \/ rebootDone \/ \E t \in Thread : rebootYielded(t) \/ rebootStable(t)
    \/ drainMain \/ drainDone \/ MainStep
    \/ \E p \in Pool : scale(p) \/ restoreThread(p) \/ restoreQuit(p)
    \/ down \/ reboot \/ drainPHPThreads \/ Over \/ UNCHANGED vars

\* Every step is one of a C thread or its startRebootedThread, one of an actor on
\* a thread, the choice of a thread, or one of the others.
LEMMA NextCases ==
    ASSUME [Next]_vars
    PROVE  \/ \E u \in Thread : CThread(u) \/ selectRequest(u) \/ Respawn(u)
           \/ \E a \in Actor, u \in Thread : Controller(a, u)
           \/ \E u \in Thread : MuActs(u)
           \/ initPick \/ addPick
           \/ Elsewhere
  BY Zenon DEF Next, InitStep, AddStep, RebootStep, DrainStep, MuActs, Elsewhere

\* The others leave the threads as they are.
LEMMA ElsewhereFrame ==
    ASSUME Elsewhere
    PROVE  UNCHANGED <<state, handler, cpc, rpc>> /\ UNCHANGED drained
  <1>1. UNCHANGED <<state, handler, cpc, rpc>>
    BY Zenon DEF Elsewhere, WaitFor, initBooted, initDone, initAttach, initStarted, addAttach, addDone,
       DownStep, downDone, downCheck, downConverted, rebootMain, rebootDone, rebootYielded, rebootStable,
       drainMain, drainDone, MainStep, mainTeardown, mainExit, mainStart, scale, restoreThread, restoreQuit,
       down, reboot, drainPHPThreads, Over, vars, cellVars, threadVars, Resume
  <1>2. UNCHANGED drained
    BY Zenon DEF Elsewhere, WaitFor, initBooted, initDone, initAttach, initStarted, addAttach, addDone,
       DownStep, downDone, downCheck, downConverted, rebootMain, rebootDone, rebootYielded, rebootStable,
       drainMain, drainDone, MainStep, mainTeardown, mainExit, mainStart, scale, restoreThread, restoreQuit,
       down, reboot, drainPHPThreads, Over, vars, threadVars
  <1> QED
    BY <1>1, <1>2

\* A step of an actor on a thread changes no other thread.
LEMMA ActorFrame ==
    ASSUME Types, NEW a \in Actor, NEW u \in Thread, Controller(a, u) \/ (a = "mu" /\ MuActs(u))
    PROVE  /\ OneCell(u) /\ task[a][u] # "none" /\ \E x : Goto(a, u, x)
           /\ UNCHANGED <<target, left, wpc, main, autoScaled, pool, restarts, scaled>>
           /\ \A t \in Thread : t # u => /\ state'[t] = state[t] /\ handler'[t] = handler[t] /\ cpc'[t] = cpc[t]
                                         /\ rpc'[t] = rpc[t] /\ drained'[t] = drained[t]
  <1> USE DEF Controller, bootThread, booted, retrySafe, setHandlerRequest, RequestSafeStateChange, setHandlerClose,
        closeDrain, setHandlerComplete, MuActs, forceReboot, rebootClose, rebootResume, shutdownRequest,
        shutdownClose, shutdownExited, shutdownJoined
  <1>1. OneCell(u)
    BY Zenon DEF OneCell, cellVars
  <1>2. task[a][u] # "none" /\ \E x : Goto(a, u, x)
    BY Zenon
  <1>3. UNCHANGED <<target, left, wpc, main, autoScaled, pool, restarts, scaled>>
    BY Zenon DEF muVars, initVars, mainVars, poolVars, boundVars
  <1>4. \A t \in Thread : t # u => handler'[t] = handler[t] /\ cpc'[t] = cpc[t] /\ rpc'[t] = rpc[t]
    BY Zenon DEF Types, threadVars, CGoto
  <1>5. \A t \in Thread : t # u => drained'[t] = drained[t]
    BY Zenon DEF Types, threadVars
  <1> QED
    BY <1>1, <1>2, <1>3, <1>4, <1>5, OtherCells, Zenon

\* It keeps scalingMu locked, or unlocks it.
LEMMA ActorMu ==
    ASSUME NEW a \in Actor, NEW u \in Thread, Controller(a, u) \/ (a = "mu" /\ MuActs(u))
    PROVE  mu' = mu \/ mu' = "free"
  BY Zenon DEF Controller, bootThread, noThread, booted, retrySafe, setHandlerRequest, setHandlerClose, closeDrain,
     setHandlerComplete, MuActs, forceReboot, rebootClose, rebootResume, shutdownRequest, shutdownClose,
     shutdownExited, shutdownJoined, muVars

\* What a request for a safe state change does to the thread.
LEMMA SafeChange ==
    ASSUME Types, NEW a, NEW u \in Thread, NEW s, NEW x, NEW y, NEW z, RequestSafeStateChange(a, u, s, x, y, z)
    PROVE  state'[u] = state[u] \/ (state[u] \in Stable /\ state'[u] = s)
  BY Zenon DEF RequestSafeStateChange, Publish, cellVars, Types

\* Layer 7, the actors.
LEMMA ActorConforms ==
    ASSUME Types, Waits, \A t \in Thread : Shape(t) /\ Conform(t), NEW a \in Actor, NEW u \in Thread,
           Controller(a, u) \/ (a = "mu" /\ MuActs(u))
    PROVE  \A t \in Thread : Conform(t)'
  <1>1. \A t \in Thread : t # u => Kept(t)
    BY ActorFrame, Zenon DEF Kept
  <1>2. \A t \in Thread : t # u => Conform(t)'
    BY <1>1, KeptConforms, Zenon
  <1>3. Shape(u) /\ Conform(u) /\ handler[u] \in Handler
    BY Zenon DEF Types
  <1> SUFFICES Conform(u)'
    BY <1>2, Zenon
  <1> USE DEF CGoto
  <1>4. CASE Kept(u)
    BY <1>3, <1>4, KeptConforms, Zenon
  <1>5. CASE bootThread(a, u)
    <2>1. CASE state[u] \notin {"Reserved", "BootRequested"}
      BY <1>4, <1>5, <2>1, Zenon DEF bootThread, Kept, cellVars
    <2>2. CASE state[u] \in {"Reserved", "BootRequested"}
      <3>1. cpc[u] = "none"
        BY <1>3, <2>2, Zenon DEF Shape, Gone
      <3>2. /\ handler'[u] = "inactive"
            /\ \/ state'[u] = "Booting" /\ cpc'[u] = "before"
               \/ state'[u] = "Reserved" /\ cpc'[u] = "none"
        BY <1>5, <2>2, <3>1, ZenonT(30) DEF bootThread, Publish, Types
      <3> QED
        BY <3>2, Zenon DEF Conform
    <2> QED
      BY <2>1, <2>2
  <1>6. CASE setHandlerRequest(a, u) \/ forceReboot(u) \/ shutdownRequest(u)
    <2>1. UNCHANGED <<handler, cpc>>
      BY <1>6, Zenon DEF setHandlerRequest, forceReboot, shutdownRequest, threadVars
    <2>2. \/ state'[u] = state[u]
          \/ state[u] \in Stable /\ state'[u] \in {"TransitionRequested", "ForceRebooting", "ShuttingDown"}
      BY <1>6, SafeChange, Zenon DEF setHandlerRequest, forceReboot, shutdownRequest
    <2>3. CASE state'[u] = state[u]
      BY <1>4, <2>1, <2>3, Zenon DEF Kept
    <2>4. CASE state[u] \in Stable /\ state'[u] \in {"TransitionRequested", "ForceRebooting", "ShuttingDown"}
      BY <1>3, <2>1, <2>4, Zenon DEF Conform, Stable
    <2> QED
      BY <2>2, <2>3, <2>4
  <1>7. CASE setHandlerComplete(a, u)
    <2>1. state[u] = "TransitionInProgress" /\ cpc[u] = "newHandler"
      BY <1>3, <1>7, StepIs, AwaitedIs, Zenon DEF setHandlerComplete, Passed, Shape
    <2>2. state'[u] = "TransitionComplete" /\ cpc'[u] = "newHandler" /\ handler'[u] \in Pool \cup {"inactive"}
      BY <1>7, <2>1, Zenon DEF setHandlerComplete, Publish, Target, Pool, Types
    <2> QED
      BY <2>2, Zenon DEF Conform, Pool
  <1>8. CASE rebootResume(u)
    <2>1. state[u] = "YieldingForReboot" /\ cpc[u] = "none"
      BY <1>3, <1>8, Zenon DEF rebootResume, Shape, Gone
    <2>2. UNCHANGED <<handler, cpc>> /\ state'[u] = "RebootReady"
      BY <1>8, <2>1, Zenon DEF rebootResume, Publish, Types
    <2> QED
      BY <1>3, <2>1, <2>2, Zenon DEF Conform
  <1>9. CASE shutdownExited(u) \/ (shutdownJoined(u) /\ state[u] = "Done")
    <2>1. state[u] = "Done" /\ cpc[u] = "none"
      BY <1>3, <1>9, StepIs, AwaitedIs, Zenon DEF shutdownExited, Passed, Shape, Gone, Actor
    <2>2. UNCHANGED <<handler, cpc>> /\ state'[u] = "Reserved"
      BY <1>9, <2>1, Zenon DEF shutdownExited, shutdownJoined, Publish, threadVars, Types
    <2> QED
      BY <1>3, <2>1, <2>2, Zenon DEF Conform
  <1>10. CASE \/ booted(a, u) \/ retrySafe(a, u) \/ setHandlerClose(a, u) \/ rebootClose(u) \/ shutdownClose(u)
              \/ (shutdownJoined(u) /\ state[u] # "Done")
    <2>1. Kept(u)
      BY <1>10, Zenon DEF booted, retrySafe, setHandlerClose, rebootClose, shutdownClose, closeDrain, shutdownJoined,
         Kept, Resume, threadVars, cellVars
    <2> QED
      BY <1>4, <2>1
  <1> QED
    BY <1>5, <1>6, <1>7, <1>8, <1>9, <1>10, Zenon DEF Controller, MuActs

\* The choice of a thread claims a reserved slot, or changes no thread.
LEMMA PickFrame ==
    ASSUME Types, initPick \/ addPick
    PROVE  /\ UNCHANGED <<handler, cpc, rpc, target, left, wpc, main, autoScaled, pool, restarts, scaled>>
           /\ UNCHANGED drained
           /\ \A t \in Thread : \/ state'[t] = state[t]
                                \/ state[t] = "Reserved" /\ state'[t] = "BootRequested"
  <1>1. UNCHANGED <<handler, cpc, rpc, target, left, wpc, main, autoScaled, pool, restarts, scaled>>
    BY Zenon DEF initPick, addPick, threadVars, poolVars, mainVars, boundVars
  <1>2. UNCHANGED drained
    BY Zenon DEF initPick, addPick, threadVars
  <1>3. ASSUME NEW a, inactivePHPThread(a), NEW t \in Thread
        PROVE  state'[t] = state[t] \/ (state[t] = "Reserved" /\ state'[t] = "BootRequested")
    BY <1>3, Zenon DEF inactivePHPThread, IsFirst, Publish, cellVars, Types
  <1>4. \E a : inactivePHPThread(a)
    BY Zenon DEF initPick, addPick
  <1> QED
    BY <1>1, <1>2, <1>3, <1>4

\* Layer 7: every thread conforms after every step.
LEMMA ConformStep ==
    ASSUME Types, Waits, \A t \in Thread : Shape(t) /\ Conform(t), [Next]_vars
    PROVE  \A t \in Thread : Conform(t)'
  <1>1. CASE \E u \in Thread : CThread(u) \/ selectRequest(u) \/ Respawn(u)
    BY <1>1, CThreadConforms, Zenon
  <1>2. CASE \E a \in Actor, u \in Thread : Controller(a, u)
    BY <1>2, ActorConforms, Zenon
  <1>3. CASE \E u \in Thread : MuActs(u)
    BY <1>3, ActorConforms, Zenon DEF Actor
  <1>4. CASE initPick \/ addPick
    <2> SUFFICES ASSUME NEW t \in Thread PROVE Conform(t)'
      OBVIOUS
    <2>1. /\ UNCHANGED <<handler, cpc>>
          /\ state'[t] = state[t] \/ (state[t] = "Reserved" /\ state'[t] = "BootRequested")
      BY <1>4, PickFrame, Zenon
    <2>2. CASE state'[t] = state[t]
      BY <2>1, <2>2, KeptConforms, Zenon DEF Kept
    <2>3. CASE state[t] = "Reserved" /\ state'[t] = "BootRequested"
      <3>1. cpc[t] = "none" /\ Conform(t)
        BY <2>3, Zenon DEF Shape, Gone
      <3> QED
        BY <2>1, <2>3, <3>1, Zenon DEF Conform
    <2> QED
      BY <2>1, <2>2, <2>3
  <1>5. CASE Elsewhere
    BY <1>5, ElsewhereFrame, KeptConforms, Zenon DEF Kept
  <1> QED
    BY <1>1, <1>2, <1>3, <1>4, <1>5, NextCases, Zenon

-----------------------------------------------------------------------------
(* Layer 8: who has closed a drainChan, and that nobody panics *)

\* The steps of an actor between the close of a drainChan and the new one.
Draining == {"transit", "yield", "yielded", "down", "exit"}

\* A closed drainChan is the business of one actor, who replaces it.
Drains == \A t \in Thread : drained[t] => \E a \in Actor : task[a][t] \in Draining

\* No actor has panicked.
Clear == \A a \in Actor, t \in Thread : task[a][t] # "panic"

\* An actor that is not replacing the drainChan finds it open.
LEMMA NotDrained ==
    ASSUME Phases, Drains, NEW a \in Actor, NEW u \in Thread, task[a][u] # "none", task[a][u] \notin Draining
    PROVE  ~drained[u]
  <1>1. \A b \in Actor : b # a => task[b][u] = "none"
    BY Alone, Zenon
  <1> QED
    BY <1>1, Zenon DEF Drains, Draining

\* Layer 8, one actor on one thread.
LEMMA DrainsGoto ==
    ASSUME Types, Phases, Drains, Clear, NEW a \in Actor, NEW u \in Thread, NEW x, Goto(a, u, x), x # "panic",
           \A t \in Thread : t # u => drained'[t] = drained[t],
           drained'[u] => x \in Draining
    PROVE  Drains' /\ Clear'
  <1>1. /\ task'[a][u] = x
        /\ \A b \in Actor, t \in Thread : <<b, t>> # <<a, u>> => task'[b][t] = task[b][t]
    BY GotoIs, Zenon
  <1>2. Clear'
    BY <1>1, Zenon DEF Clear
  <1>3. ASSUME NEW t \in Thread, drained'[t] PROVE \E b \in Actor : task'[b][t] \in Draining
    <2>1. CASE t = u
      BY <1>1, <1>3, <2>1, Zenon
    <2>2. CASE t # u
      <3>1. drained[t]
        BY <1>3, <2>2
      <3>2. PICK b \in Actor : task[b][t] \in Draining
        BY <3>1, Zenon DEF Drains
      <3>3. task'[b][t] = task[b][t]
        BY <1>1, <2>2, Zenon
      <3> QED
        BY <3>2, <3>3, Zenon
    <2> QED
      BY <2>1, <2>2
  <1> QED
    BY <1>2, <1>3, Zenon DEF Drains

\* Layer 8, the actors.
LEMMA ActorDrains ==
    ASSUME Types, Phases, Waits, \A t \in Thread : Shape(t), Claimed, Drains, Clear,
           NEW a \in Actor, NEW u \in Thread, Controller(a, u) \/ (a = "mu" /\ MuActs(u))
    PROVE  Drains' /\ Clear'
  <1>1. task[a][u] # "none" /\ \A t \in Thread : t # u => drained'[t] = drained[t]
    BY ActorFrame, Zenon
  <1>2. ASSUME task[a][u] \notin Draining, UNCHANGED drained, NEW x, Goto(a, u, x), x # "panic"
        PROVE  Drains' /\ Clear'
    <2>1. ~drained'[u]
      BY <1>1, <1>2, NotDrained
    <2> QED
      BY <1>1, <1>2, <2>1, DrainsGoto, Zenon
  <1>3. CASE bootThread(a, u)
    <2>1. state[u] \in {"Reserved", "BootRequested"}
      BY <1>3, Zenon DEF bootThread, Claimed
    <2>2. drained' = [drained EXCEPT ![u] = FALSE] /\ (Goto(a, u, "boot") \/ Goto(a, u, "none"))
      BY <1>3, <2>1, Zenon DEF bootThread
    <2>3. ~drained'[u]
      BY <2>2, Zenon DEF Types
    <2> QED
      BY <1>1, <2>2, <2>3, DrainsGoto, Zenon
  <1>4. CASE booted(a, u) \/ retrySafe(a, u)
    <2>1. UNCHANGED drained
      BY <1>4, Zenon DEF booted, retrySafe, threadVars
    <2>2. task[a][u] \notin Draining
      BY <1>4, Zenon DEF booted, retrySafe, Draining
    <2>3. \E x \in {"none", "convert", "force", "shutdown"} : Goto(a, u, x)
      BY <1>4 DEF booted, retrySafe
    <2> QED
      BY <1>2, <2>1, <2>2, <2>3, Zenon
  <1>5. CASE setHandlerRequest(a, u) \/ (a = "mu" /\ (forceReboot(u) \/ shutdownRequest(u)))
    <2>1. UNCHANGED drained
      BY <1>5, Zenon DEF setHandlerRequest, forceReboot, shutdownRequest, threadVars
    <2>2. task[a][u] \notin Draining
      BY <1>5, Zenon DEF setHandlerRequest, forceReboot, shutdownRequest, Draining
    <2>3. \E x \in {"close", "attach", "safe", "closeForce", "skip", "safeForce", "closeDown", "join", "safeDown"} :
             Goto(a, u, x)
      BY <1>5, Zenon DEF setHandlerRequest, forceReboot, shutdownRequest, RequestSafeStateChange
    <2> QED
      BY <1>2, <2>1, <2>2, <2>3, Zenon
  <1>6. ASSUME NEW from, NEW to \in Draining, closeDrain(a, u, from, to), from \notin Draining
        PROVE  Drains' /\ Clear'
    <2>1. task[a][u] = from
      BY <1>6, Zenon DEF closeDrain
    <2>2. ~drained[u]
      BY <1>1, <1>6, <2>1, NotDrained, Zenon
    <2>3. Goto(a, u, to)
      BY <1>6, <2>2, Zenon DEF closeDrain
    <2>4. to # "panic"
      BY <1>6, Zenon DEF Draining
    <2> QED
      BY <1>1, <1>6, <2>3, <2>4, DrainsGoto, Zenon
  <1>7. CASE setHandlerClose(a, u) \/ (a = "mu" /\ (rebootClose(u) \/ shutdownClose(u)))
    BY <1>6, <1>7, Zenon DEF setHandlerClose, rebootClose, shutdownClose, Draining
  <1>8. CASE setHandlerComplete(a, u)
    <2>1. drained' = [drained EXCEPT ![u] = FALSE] /\ Goto(a, u, "attach")
      BY <1>8, Zenon DEF setHandlerComplete
    <2>2. ~drained'[u]
      BY <2>1, Zenon DEF Types
    <2> QED
      BY <1>1, <2>1, <2>2, DrainsGoto, Zenon
  <1>9. CASE a = "mu" /\ (rebootResume(u) \/ shutdownExited(u))
    <2>1. rebootResume(u) => state[u] = "YieldingForReboot"
      BY Zenon DEF rebootResume, Shape
    <2>2. drained' = [drained EXCEPT ![u] = FALSE] /\ (Goto("mu", u, "stable") \/ Goto("mu", u, "none"))
      BY <1>9, <2>1, Zenon DEF rebootResume, shutdownExited
    <2>3. ~drained'[u]
      BY <2>2, Zenon DEF Types
    <2> QED
      BY <1>1, <1>9, <2>2, <2>3, DrainsGoto, Zenon
  <1>10. CASE a = "mu" /\ shutdownJoined(u)
    <2>1. UNCHANGED drained
      BY <1>10, Zenon DEF shutdownJoined, threadVars
    <2>2. task[a][u] \notin Draining /\ Goto(a, u, "none")
      BY <1>10, Zenon DEF shutdownJoined, Draining
    <2> QED
      BY <1>2, <2>1, <2>2, Zenon
  <1> QED
    BY <1>3, <1>4, <1>5, <1>7, <1>8, <1>9, <1>10, Zenon DEF Controller, MuActs

\* Layer 8: after every step, a closed drainChan is the business of an actor,
\* and nobody has panicked.
LEMMA DrainsStep ==
    ASSUME Types, Phases, MuSteps, Waits, \A t \in Thread : Shape(t), Claimed, Drains, Clear, [Next]_vars
    PROVE  Drains' /\ Clear'
  <1> USE DEF Actor
  <1>1. ASSUME UNCHANGED drained,
               \A a \in Actor, t \in Thread : task'[a][t] # "panic" \/ task'[a][t] = task[a][t],
               \A a \in Actor, t \in Thread : task[a][t] \in Draining => task'[a][t] \in Draining
        PROVE  Drains' /\ Clear'
    <2>1. Clear'
      BY <1>1, Zenon DEF Clear
    <2>2. Drains'
      BY <1>1 DEF Drains
    <2> QED
      BY <2>1, <2>2
  <1>2. ASSUME NEW u \in Thread, CThread(u) \/ selectRequest(u) \/ Respawn(u)
        PROVE  Drains' /\ Clear'
    <2>1. UNCHANGED <<task, drained>>
      BY <1>2, CThreadFrame, Zenon
    <2> QED
      BY <1>1, <2>1, Zenon
  <1>3. ASSUME NEW a \in Actor, NEW u \in Thread, Controller(a, u) \/ (a = "mu" /\ MuActs(u))
        PROVE  Drains' /\ Clear'
    BY <1>3, ActorDrains, Zenon
  <1>4. ASSUME NEW a \in Actor, NEW u \in Thread, NEW x, Goto(a, u, x), UNCHANGED drained,
               task[a][u] \notin Draining, x # "panic"
        PROVE  Drains' /\ Clear'
    <2>1. /\ task'[a][u] = x
          /\ \A b \in Actor, t \in Thread : <<b, t>> # <<a, u>> => task'[b][t] = task[b][t]
      BY <1>4, GotoIs, Zenon
    <2> QED
      BY <1>1, <1>4, <2>1, Zenon
  <1>5. CASE initPick \/ addPick
    <2>1. UNCHANGED drained
      BY <1>5, PickFrame
    <2>2. \/ UNCHANGED task
          \/ \E a \in Actor, u \in Thread, x \in {"convert", "create"} : Goto(a, u, x) /\ task[a][u] = "none"
      BY <1>5, Zenon DEF initPick, addPick, inactivePHPThread, InitIdle, AllMu
    <2>3. CASE UNCHANGED task
      BY <1>1, <2>1, <2>3, Zenon
    <2>4. CASE \E a \in Actor, u \in Thread, x \in {"convert", "create"} : Goto(a, u, x) /\ task[a][u] = "none"
      BY <1>4, <2>1, <2>4, Zenon DEF Draining
    <2> QED
      BY <2>2, <2>3, <2>4, Zenon
  <1>6. CASE Elsewhere
    <2>1. UNCHANGED drained
      BY <1>6, ElsewhereFrame
    <2>2. CASE UNCHANGED task
      BY <1>1, <2>1, <2>2, Zenon
    <2>3. ASSUME NEW t \in Thread,
                 initAttach(t) \/ addAttach(t) \/ addDone(t) \/ downCheck(t) \/ downConverted(t) \/ rebootStable(t)
          PROVE  Drains' /\ Clear'
      <3>1. \E a \in Actor : task[a][t] \notin Draining /\ \E x \in {"none", "stable", "convert"} : Goto(a, t, x)
        BY <2>3, Zenon DEF initAttach, addAttach, addDone, downCheck, downConverted, rebootStable, Draining
      <3> QED
        BY <1>4, <2>1, <3>1, Zenon
    <2>4. ASSUME NEW t \in Thread, rebootYielded(t)
          PROVE  Drains' /\ Clear'
      <3>1. Goto("mu", t, "yielded")
        BY <2>4, Zenon DEF rebootYielded
      <3>2. /\ task'["mu"][t] = "yielded"
            /\ \A b \in Actor, u \in Thread : <<b, u>> # <<"mu", t>> => task'[b][u] = task[b][u]
        BY <3>1, GotoIs, Zenon
      <3> QED
        BY <1>1, <2>1, <3>2, Zenon DEF Draining
    <2>5. CASE rebootMain
      <3>1. \A t \in Thread : /\ task'["init"][t] = task["init"][t]
                              /\ task["mu"][t] \in {"yielded", "skip"}
                              /\ task'["mu"][t] = IF task["mu"][t] = "yielded" THEN "down" ELSE "none"
        BY <2>5, Zenon DEF rebootMain, AllMu, Types
      <3> QED
        BY <1>1, <2>1, <3>1, Zenon DEF Draining
    <2>6. CASE down \/ reboot \/ drainPHPThreads
      <3>1. \A t \in Thread : /\ task'["init"][t] = task["init"][t] /\ task["mu"][t] = "none"
                              /\ task'["mu"][t] # "panic"
        BY <2>6, Zenon DEF down, reboot, drainPHPThreads, MuSteps, Types
      <3> QED
        BY <1>1, <2>1, <3>1, Zenon DEF Draining
    <2> QED
      BY <1>6, <2>2, <2>3, <2>4, <2>5, <2>6, Zenon
      DEF Elsewhere, WaitFor, initBooted, initDone, initStarted, DownStep, downDone, rebootDone, drainMain, drainDone,
          MainStep, mainTeardown, mainExit, mainStart, scale, restoreThread, restoreQuit, Over, vars
  <1> QED
    BY <1>2, <1>3, <1>5, <1>6, NextCases, Zenon

-----------------------------------------------------------------------------
(* Layer 9: the threads that are added *)

\* Actor a is starting threads: Init, scaling up or restoreThread.
Adding(a) == a = "init" \/ mu \in {"scale", "restore"}

\* A thread that is booted becomes Inactive, stays so until the request of
\* setHandler(), which is therefore granted, and is attached to the pool of the
\* handler it has got.
Added(a, t) ==
    /\ task[a][t] = "boot" => state[t] \in {"Booting", "Inactive"} /\ (<<a, t>> \in granted => state[t] = "Inactive")
    /\ Adding(a) /\ task[a][t] \in {"convert", "safe"} => state[t] = "Inactive"
    /\ Adding(a) /\ task[a][t] = "attach" => handler[t] = Target(a)
Adds == \A a \in Actor, t \in Thread : Added(a, t)

\* The steps Added speaks of.
AddedSteps == {"boot", "convert", "safe", "attach"}

\* At the other steps it says nothing.
LEMMA AddedOther ==
    ASSUME NEW a, NEW t, task'[a][t] \notin AddedSteps
    PROVE  Added(a, t)'
  BY Zenon DEF Added, AddedSteps

\* What Added reads is as before.
LEMMA AddedSame ==
    ASSUME NEW a, NEW t, Added(a, t), task'[a][t] = task[a][t], state'[t] = state[t], handler'[t] = handler[t],
           <<a, t>> \in granted' => <<a, t>> \in granted,
           Adding(a)' => Adding(a) /\ Target(a)' = Target(a)
    PROVE  Added(a, t)'
  BY Zenon DEF Added

\* A C thread that boots, or is inactive, becomes or stays Inactive.
LEMMA InactiveStays ==
    ASSUME Types, Waits, NEW u \in Thread, Shape(u), Conform(u), CThread(u) \/ selectRequest(u) \/ Respawn(u),
           state[u] \in {"Booting", "Inactive"}
    PROVE  \/ UNCHANGED state /\ granted' \subseteq granted
           \/ Publish(u, "Inactive", {})
  <1>1. handler[u] \notin Pool
    BY Zenon DEF Conform, Pool
  <1>2. cpc[u] \in {"none", "before", "setInactive", "setInactiveAgain", "idle"}
    BY <1>1, Zenon DEF Types, CStep, Conform, Shape, Leaving
  <1>3. ~Respawn(u)
    BY StepIs, AwaitedIs, Zenon DEF Respawn, rebootedWoken, rebootedCreate, releaseDetach, releaseReserve,
       Respawning, Passed, Shape
  <1> QED
    BY <1>2, <1>3, Zenon DEF CThread, selectRequest, beforeScriptExecution, setInactive, idleWoken, setInactiveAgain,
        setReadyAgain, transitionToNewHandler, newHandlerCalled, setAndGo, setReady, waitForRequest,
        selectDrained, requestEnds, scriptEnds, scriptBooted, scriptFails, replaceUnhealthy, exitThread,
        Resume, cellVars

\* Layer 9, C threads.
LEMMA CThreadAdds ==
    ASSUME Types, Waits, \A t \in Thread : Shape(t) /\ Conform(t), Adds, NEW u \in Thread,
           CThread(u) \/ selectRequest(u) \/ Respawn(u)
    PROVE  Adds'
  <1>1. /\ UNCHANGED <<task, mu, target, left, handler>> /\ OneCell(u)
        /\ \A t \in Thread : t # u => state'[t] = state[t]
    BY CThreadFrame, Zenon
  <1>2. \A a : (Adding(a)' <=> Adding(a)) /\ Target(a)' = Target(a)
    BY <1>1, Zenon DEF Adding, Target
  <1>3. ASSUME NEW a \in Actor, NEW t \in Thread, t # u PROVE Added(a, t)'
    <2>1. <<a, t>> \in granted' => <<a, t>> \in granted
      BY <1>1, <1>3, OtherCells, Zenon DEF Actor, Role
    <2> QED
      BY <1>1, <1>2, <1>3, <2>1, AddedSame, Zenon DEF Adds
  <1>4. ASSUME NEW a \in Actor PROVE Added(a, u)'
    <2>1. Added(a, u)
      BY <1>4, Zenon DEF Adds
    <2>2. Adding(a)' /\ task'[a][u] = "attach" => handler'[u] = Target(a)'
      BY <1>1, <1>2, <2>1, Zenon DEF Added
    <2>3. CASE state[u] \notin {"Booting", "Inactive"}
      BY <1>1, <1>2, <2>1, <2>2, <2>3, Zenon DEF Added
    <2>4. CASE UNCHANGED state /\ granted' \subseteq granted
      BY <1>1, <1>2, <2>1, <2>4, AddedSame, Zenon
    <2>5. CASE Publish(u, "Inactive", {})
      <3>1. state'[u] = "Inactive"
        BY <2>5, Zenon DEF Publish, Types
      <3> QED
        BY <1>1, <1>2, <2>1, <2>2, <3>1, Zenon DEF Added
    <2> QED
      BY <2>3, <2>4, <2>5, InactiveStays, Zenon
  <1> QED
    BY <1>3, <1>4, Zenon DEF Adds

\* Layer 9: a step of actor a on thread u.
LEMMA AddsGoto ==
    ASSUME Types, Adds, NEW a \in Actor, NEW u \in Thread, OneCell(u),
           \A b \in Actor : b # a => task[b][u] = "none",
           NEW x, Goto(a, u, x), UNCHANGED <<target, left>>,
           \A t \in Thread : t # u => state'[t] = state[t] /\ handler'[t] = handler[t],
           mu' = mu \/ mu' = "free", Added(a, u)'
    PROVE  Adds'
  <1>1. \A b \in Actor, t \in Thread : <<b, t>> # <<a, u>> => task'[b][t] = task[b][t]
    BY GotoIs, Zenon
  <1>2. \A b : (Adding(b)' => Adding(b)) /\ Target(b)' = Target(b)
    BY Zenon DEF Adding, Target
  <1>3. ASSUME NEW b \in Actor, NEW t \in Thread, t # u PROVE Added(b, t)'
    <2>1. <<b, t>> \in granted' => <<b, t>> \in granted
      BY <1>3, OtherCells, Zenon DEF Actor, Role
    <2> QED
      BY <1>1, <1>2, <1>3, <2>1, AddedSame, Zenon DEF Adds
  <1>4. ASSUME NEW b \in Actor, b # a PROVE Added(b, u)'
    <2>1. task[b][u] = "none" /\ <<b, u>> # <<a, u>>
      BY <1>4, Zenon
    <2>2. task'[b][u] = "none"
      BY <1>1, <2>1, Zenon
    <2> QED
      BY <2>2, AddedOther, Zenon DEF AddedSteps
  <1> QED
    BY <1>3, <1>4, Zenon DEF Adds

\* Layer 9, the actors.
LEMMA ActorAdds ==
    ASSUME Types, Phases, MuSteps, Waits, \A t \in Thread : Shape(t), Claimed, Adds,
           NEW a \in Actor, NEW u \in Thread, Controller(a, u) \/ (a = "mu" /\ MuActs(u))
    PROVE  Adds'
  <1>1. /\ OneCell(u) /\ task[a][u] # "none" /\ UNCHANGED <<target, left>>
        /\ \A t \in Thread : t # u => state'[t] = state[t] /\ handler'[t] = handler[t]
        /\ \A b \in Actor : b # a => task[b][u] = "none"
    BY ActorFrame, Alone, Zenon
  <1>2. mu' = mu \/ mu' = "free"
    BY ActorMu, Zenon
  <1>3. Added(a, u)
    BY Zenon DEF Adds
  <1>4. (Adding(a)' => Adding(a)) /\ Target(a)' = Target(a)
    BY <1>1, <1>2, Zenon DEF Adding, Target
  <1>5. ASSUME NEW x, Goto(a, u, x), x \notin AddedSteps PROVE Adds'
    <2>1. task'[a][u] = x
      BY <1>5, GotoIs, Zenon
    <2>2. Added(a, u)'
      BY <1>5, <2>1, AddedOther, Zenon
    <2> QED
      BY <1>1, <1>2, <1>5, <2>2, AddsGoto, Zenon
  <1>6. CASE bootThread(a, u)
    <2>1. state[u] \in {"Reserved", "BootRequested"}
      BY <1>6, Zenon DEF bootThread, Claimed
    <2>2. CASE Goto(a, u, "boot") /\ Publish(u, "Booting", {})
      <3>1. task'[a][u] = "boot" /\ state'[u] = "Booting"
        BY <2>2, GotoIs, Zenon DEF Publish, Types
      <3>2. <<a, u>> \notin want \cup granted
        BY <1>6, Zenon DEF bootThread, Waits, WaitStep
      <3>3. <<a, u>> \notin granted'
        BY <2>2, <3>2, Zenon DEF Publish
      <3>4. Added(a, u)'
        BY <3>1, <3>3, Zenon DEF Added
      <3> QED
        BY <1>1, <1>2, <2>2, <3>4, AddsGoto, Zenon
    <2>3. CASE Goto(a, u, "none")
      BY <1>5, <2>3, Zenon DEF AddedSteps
    <2> QED
      BY <1>6, <2>1, <2>2, <2>3, Zenon DEF bootThread
  <1>7. CASE booted(a, u)
    <2>1. state[u] = "Inactive" /\ UNCHANGED state
      <3>1. Awaited("boot") = {"Inactive"}
        BY Zenon DEF Awaited
      <3> QED
        BY <1>3, <1>7, <3>1, StepIs, Zenon DEF booted, Passed, Added, Resume
    <2>2. Goto(a, u, "none") \/ Goto(a, u, "convert")
      BY <1>7 DEF booted
    <2>3. CASE Goto(a, u, "none")
      BY <1>5, <2>3, Zenon DEF AddedSteps
    <2>4. CASE Goto(a, u, "convert")
      <3>1. task'[a][u] = "convert"
        BY <2>4, GotoIs, Zenon
      <3>2. Added(a, u)'
        BY <2>1, <3>1, Zenon DEF Added
      <3> QED
        BY <1>1, <1>2, <2>4, <3>2, AddsGoto, Zenon
    <2> QED
      BY <2>2, <2>3, <2>4, Zenon
  <1>8. CASE retrySafe(a, u)
    <2>1. UNCHANGED state
      BY <1>8, Zenon DEF retrySafe, Resume
    <2>2. (task[a][u] = "safe" /\ Goto(a, u, "convert")) \/ Goto(a, u, "force") \/ Goto(a, u, "shutdown")
      BY <1>8 DEF retrySafe
    <2>3. CASE task[a][u] = "safe" /\ Goto(a, u, "convert")
      <3>1. task'[a][u] = "convert"
        BY <2>3, GotoIs, Zenon
      <3>2. Added(a, u)'
        BY <1>3, <1>4, <2>1, <2>3, <3>1, Zenon DEF Added
      <3> QED
        BY <1>1, <1>2, <2>3, <3>2, AddsGoto, Zenon
    <2> QED
      BY <1>5, <2>2, <2>3, Zenon DEF AddedSteps
  <1>9. CASE setHandlerRequest(a, u)
    <2>1. task[a][u] = "convert"
      BY <1>9, Zenon DEF setHandlerRequest
    <2>2. CASE Goto(a, u, "close")
      BY <1>5, <2>2, Zenon DEF AddedSteps
    <2>3. CASE ~Goto(a, u, "close")
      <3>1. state[u] \notin Stable /\ (Goto(a, u, "attach") \/ Goto(a, u, "safe"))
        BY <1>9, <2>3, Zenon DEF setHandlerRequest, RequestSafeStateChange, Refusing, Stable
      <3>2. ~Adding(a)
        BY <1>3, <2>1, <3>1, Zenon DEF Added, Stable
      <3>3. task'[a][u] \in {"attach", "safe"}
        BY <3>1, GotoIs, Zenon
      <3>4. Added(a, u)'
        BY <1>4, <3>2, <3>3, Zenon DEF Added
      <3> QED
        BY <1>1, <1>2, <3>1, <3>4, AddsGoto, Zenon
    <2> QED
      BY <2>2, <2>3
  <1>10. CASE setHandlerComplete(a, u)
    <2>1. task'[a][u] = "attach"
      BY <1>10, GotoIs, Zenon DEF setHandlerComplete
    <2>3. handler'[u] = Target(a)
      BY <1>10, Zenon DEF setHandlerComplete, Types
    <2>2. Added(a, u)'
      BY <1>4, <2>1, <2>3, Zenon DEF Added
    <2> QED
      BY <1>1, <1>2, <1>10, <2>2, AddsGoto, Zenon DEF setHandlerComplete
  <1>11. CASE setHandlerClose(a, u) \/ (a = "mu" /\ MuActs(u))
    <2>1. \E x : Goto(a, u, x) /\ x \notin AddedSteps
      <3>1. CASE setHandlerClose(a, u) \/ (a = "mu" /\ (rebootClose(u) \/ shutdownClose(u)))
        <4>1. \E x \in {"panic", "transit", "yield", "exit"} : Goto(a, u, x)
          BY <3>1 DEF setHandlerClose, rebootClose, shutdownClose, closeDrain
        <4> QED
          BY <4>1, Zenon DEF AddedSteps
      <3>2. CASE a = "mu" /\ (forceReboot(u) \/ shutdownRequest(u))
        <4>1. \E x \in {"closeForce", "skip", "safeForce", "closeDown", "join", "safeDown"} : Goto(a, u, x)
          BY <3>2, Zenon DEF forceReboot, shutdownRequest, RequestSafeStateChange
        <4> QED
          BY <4>1, Zenon DEF AddedSteps
      <3>3. CASE a = "mu" /\ (rebootResume(u) \/ shutdownExited(u) \/ shutdownJoined(u))
        <4>1. \E x \in {"stable", "panic", "none"} : Goto(a, u, x)
          BY <3>3, Zenon DEF rebootResume, shutdownExited, shutdownJoined
        <4> QED
          BY <4>1, Zenon DEF AddedSteps
      <3> QED
        BY <1>11, <3>1, <3>2, <3>3, Zenon DEF MuActs
    <2> QED
      BY <1>5, <2>1, Zenon
  <1> QED
    BY <1>6, <1>7, <1>8, <1>9, <1>10, <1>11, Zenon DEF Controller

\* Layer 9: what is added stays so when no thread changes.
LEMMA AddsStill ==
    ASSUME Adds, UNCHANGED <<state, handler>>, granted' \subseteq granted,
           \A b \in Actor, t \in Thread :
              \/ task'[b][t] \notin AddedSteps
              \/ task'[b][t] = task[b][t] /\ (Adding(b)' => Adding(b)) /\ Target(b)' = Target(b)
    PROVE  Adds'
  <1> SUFFICES ASSUME NEW b \in Actor, NEW t \in Thread PROVE Added(b, t)'
    BY Zenon DEF Adds
  <1>1. CASE task'[b][t] \notin AddedSteps
    BY <1>1, AddedOther, Zenon
  <1>2. CASE task'[b][t] = task[b][t] /\ (Adding(b)' => Adding(b)) /\ Target(b)' = Target(b)
    <2>1. Added(b, t)
      BY Zenon DEF Adds
    <2> QED
      BY <1>2, <2>1, AddedSame, Zenon
  <1> QED
    BY <1>1, <1>2, Zenon

\* Layer 9: an actor takes a thread.
LEMMA PickAdds ==
    ASSUME Types, Phases, Adds, initPick \/ addPick
    PROVE  Adds'
  <1>1. PICK a \in Actor : /\ inactivePHPThread(a)
                           /\ (a = "init" /\ ini \notin Started) \/ (a = "mu" /\ mu # "free")
    BY Zenon DEF initPick, addPick, Actor, Started
  <1>2. /\ UNCHANGED <<handler, target, left>>
        /\ mu' = mu \/ mu' = "free"
    BY PickFrame, Zenon DEF initPick, addPick, inactivePHPThread, noThread, cellVars
  <1>3. \A u \in Thread, b \in Actor : b # a => task[b][u] = "none"
    BY <1>1, Alone, Zenon
  <1>4. ASSUME NEW u \in Thread, Goto(a, u, "convert"), state[u] = "Inactive", UNCHANGED cellVars
        PROVE  Adds'
    <2>1. OneCell(u) /\ UNCHANGED state
      BY <1>4, Zenon DEF OneCell, cellVars
    <2>2. task'[a][u] = "convert"
      BY <1>4, GotoIs, Zenon
    <2>3. Added(a, u)'
      BY <1>4, <2>1, <2>2, Zenon DEF Added
    <2> QED
      BY <1>2, <1>3, <1>4, <2>1, <2>3, AddsGoto, Zenon
  <1>5. ASSUME NEW u \in Thread, Goto(a, u, "create"), Publish(u, "BootRequested", {})
        PROVE  Adds'
    <2>1. OneCell(u)
      BY <1>5, Zenon DEF OneCell
    <2>2. task'[a][u] = "create"
      BY <1>5, GotoIs
    <2>3. Added(a, u)'
      BY <2>2, AddedOther, Zenon DEF AddedSteps
    <2>4. \A t \in Thread : t # u => state'[t] = state[t]
      BY <2>1, OtherCells, Zenon
    <2> QED
      BY <1>2, <1>3, <1>5, <2>1, <2>3, <2>4, AddsGoto, Zenon
  <1>6. CASE noThread(a) /\ UNCHANGED <<cellVars, task>>
    <2>1. \A b : (Adding(b)' => Adding(b)) /\ Target(b)' = Target(b)
      BY <1>2, Zenon DEF Adding, Target
    <2>2. UNCHANGED <<state, granted, task>>
      BY <1>6, Zenon DEF cellVars
    <2> QED
      BY <1>2, <2>1, <2>2, AddsStill, Zenon
  <1> QED
    BY <1>1, <1>4, <1>5, <1>6, Zenon DEF inactivePHPThread, IsFirst

\* Layer 9: a thread that is added stays so after every step.
LEMMA AddsStep ==
    ASSUME Types, Phases, MuSteps, Waits, \A t \in Thread : Shape(t) /\ Conform(t), Counts, Claimed, Adds, [Next]_vars
    PROVE  Adds'
  <1>1. CASE \E u \in Thread : CThread(u) \/ selectRequest(u) \/ Respawn(u)
    BY <1>1, CThreadAdds, Zenon
  <1>2. CASE \E a \in Actor, u \in Thread : Controller(a, u)
    BY <1>2, ActorAdds, Zenon
  <1>3. CASE \E u \in Thread : MuActs(u)
    BY <1>3, ActorAdds, Zenon DEF Actor
  <1>4. CASE initPick \/ addPick
    BY <1>4, PickAdds
  <1>5. CASE Elsewhere
    <2>1. UNCHANGED <<state, handler>>
      BY <1>5, ElsewhereFrame, Zenon
    <2>2. granted' \subseteq granted
      BY <1>5, Zenon DEF Elsewhere, WaitFor, initBooted, initDone, initAttach, initStarted, addAttach, addDone,
         DownStep, downDone, downCheck, downConverted, rebootMain, rebootDone, rebootYielded, rebootStable,
         drainMain, drainDone, MainStep, mainTeardown, mainExit, mainStart, scale, restoreThread, restoreQuit,
         down, reboot, drainPHPThreads, Over, vars, cellVars, Resume
    <2>3. ASSUME UNCHANGED <<task, target, left>>, mu' = mu \/ mu' = "free"
          PROVE  Adds'
      <3>1. \A b : (Adding(b)' => Adding(b)) /\ Target(b)' = Target(b)
        BY <2>3, Zenon DEF Adding, Target
      <3> QED
        BY <2>1, <2>2, <2>3, <3>1, AddsStill, Zenon
    <2>4. ASSUME NEW t \in Thread, NEW x, Goto("mu", t, x), x \notin AddedSteps \/ ~Adding("mu"),
                 x # "boot", UNCHANGED <<target, left>>, mu' = mu \/ mu' = "free"
          PROVE  Adds'
      <3>1. /\ task'["mu"][t] = x
            /\ \A b \in Actor, u \in Thread : <<b, u>> # <<"mu", t>> => task'[b][u] = task[b][u]
        BY <2>4, GotoIs, Zenon DEF Actor
      <3>2. \A b : (Adding(b)' => Adding(b)) /\ Target(b)' = Target(b)
        BY <2>4, Zenon DEF Adding, Target
      <3>3. Added("mu", t)'
        BY <2>4, <3>1, <3>2, AddedOther, Zenon DEF Added, AddedSteps
      <3>4. ASSUME NEW b \in Actor, NEW u \in Thread, <<b, u>> # <<"mu", t>> PROVE Added(b, u)'
        <4>1. task'[b][u] = task[b][u] /\ Added(b, u)
          BY <3>1, <3>4, Zenon DEF Adds
        <4> QED
          BY <2>1, <2>2, <3>2, <4>1, AddedSame, Zenon
      <3> QED
        BY <3>3, <3>4, Zenon DEF Adds
    <2>5. ASSUME \A t \in Thread : task'["init"][t] = task["init"][t] /\ task'["mu"][t] \notin AddedSteps,
                 UNCHANGED left
          PROVE  Adds'
      <3>1. (Adding("init")' => Adding("init")) /\ Target("init")' = Target("init")
        BY <2>5, Zenon DEF Adding, Target
      <3> QED
        BY <2>1, <2>2, <2>5, <3>1, AddsStill, Zenon DEF Actor
    <2>6. ASSUME NEW t \in Thread, initAttach(t) PROVE Adds'
      <3>1. task["init"][t] = "attach" /\ Goto("init", t, "none") /\ UNCHANGED <<mu, target>>
        BY <2>6, Zenon DEF initAttach, muVars
      <3>2. /\ task'["init"][t] = "none"
            /\ \A b \in Actor, u \in Thread : <<b, u>> # <<"init", t>> => task'[b][u] = task[b][u]
        BY <3>1, GotoIs, Zenon DEF Actor
      <3>3. ini # "boot"
        BY <3>1, Zenon DEF Phases
      <3>4. \A u \in Thread : task'["init"][u] \notin AddedSteps
        BY <3>1, <3>2, <3>3, Zenon DEF Counts, Converting, AddedSteps, Actor
      <3>5. \A u \in Thread : task'["mu"][u] = task["mu"][u]
        BY <3>2, Zenon DEF Actor
      <3>6. (Adding("mu")' => Adding("mu")) /\ Target("mu")' = Target("mu")
        BY <3>1, Zenon DEF Adding, Target
      <3> QED
        BY <2>1, <2>2, <3>4, <3>5, <3>6, AddsStill, Zenon DEF Actor
    <2>7. CASE \/ \E r \in Role, t \in Thread : WaitFor(r, t)
               \/ initBooted \/ initDone \/ \E t \in Thread : initStarted(t)
               \/ downDone \/ rebootDone \/ drainMain \/ drainDone \/ MainStep
               \/ \E p \in Pool : restoreQuit(p)
               \/ Over \/ UNCHANGED vars
      BY <2>3, <2>7, Zenon DEF WaitFor, initBooted, initDone, initStarted, downDone, rebootDone, drainMain, drainDone,
         MainStep, mainTeardown, mainExit, mainStart, restoreQuit, Over, vars, muVars, initVars
    <2>8. ASSUME NEW t \in Thread,
                 addAttach(t) \/ addDone(t) \/ downCheck(t) \/ downConverted(t) \/ rebootYielded(t) \/ rebootStable(t)
          PROVE  Adds'
      <3>1. UNCHANGED <<target, left>> /\ (mu' = mu \/ mu' = "free")
        BY <2>8, Zenon DEF addAttach, addDone, downCheck, downConverted, rebootYielded, rebootStable, muVars, initVars
      <3>2. CASE downCheck(t)
        <4>1. task["mu"][t] = "check" /\ (Goto("mu", t, "none") \/ Goto("mu", t, "convert"))
          BY <3>2, Zenon DEF downCheck
        <4>2. mu \notin {"scale", "restore"}
          BY <4>1, Zenon DEF MuSteps, AddSteps
        <4>3. ~Adding("mu")
          BY <4>2, Zenon DEF Adding
        <4> QED
          BY <2>4, <3>1, <4>1, <4>3, Zenon
      <3>3. CASE ~downCheck(t)
        <4>1. \E x \in {"stable", "none", "yielded"} : Goto("mu", t, x)
          BY <2>8, <3>3, Zenon DEF addAttach, addDone, downConverted, rebootYielded, rebootStable
        <4> QED
          BY <2>4, <3>1, <4>1, Zenon DEF AddedSteps
      <3> QED
        BY <3>2, <3>3
    <2>9. CASE rebootMain \/ down \/ reboot \/ drainPHPThreads
      <3>1. \A t \in Thread : task'["init"][t] = task["init"][t] /\ task'["mu"][t] \notin AddedSteps
        <4>1. CASE rebootMain
          BY <4>1 DEF rebootMain, Types, Actor, AddedSteps
        <4>2. CASE down
          BY <4>2 DEF down, Types, Actor, AddedSteps
        <4>3. CASE reboot \/ drainPHPThreads
          BY <4>3 DEF reboot, drainPHPThreads, Types, Actor, AddedSteps
        <4> QED
          BY <2>9, <4>1, <4>2, <4>3, Zenon
      <3>2. UNCHANGED left
        BY <2>9, Zenon DEF rebootMain, down, reboot, drainPHPThreads, initVars
      <3> QED
        BY <2>5, <3>1, <3>2, Zenon
    <2>10. CASE \E p \in Pool : scale(p) \/ restoreThread(p)
      <3>1. mu = "free" /\ UNCHANGED <<task, left>>
        BY <2>10, Zenon DEF scale, restoreThread, initVars
      <3>2. \A t \in Thread : task'["mu"][t] = "none"
        BY <3>1, Zenon DEF MuSteps
      <3> QED
        BY <2>5, <3>1, <3>2, Zenon DEF AddedSteps
    <2> QED
      BY <1>5, <2>6, <2>7, <2>8, <2>9, <2>10, Zenon DEF Elsewhere, DownStep
  <1> QED
    BY <1>1, <1>2, <1>3, <1>4, <1>5, NextCases, Zenon

-----------------------------------------------------------------------------
(* Layer 10: the order in which Init boots and converts its threads *)

\* While Init boots, the threads it does not boot are reserved, and each of the
\* others is being booted or inactive unless a boot has failed.
BootAt(t) ==
    /\ t > NumThreads => state[t] = "Reserved" /\ task["init"][t] = "none"
    /\ t <= NumThreads /\ ~failed => task["init"][t] \in {"create", "boot"} \/ state[t] = "Inactive"

\* While Init converts, it has gone through the first threads, one it may be
\* busy with, and finds the rest inactive.
ConvertAt(t) ==
    /\ t > NumThreads => state[t] = "Reserved"
    /\ t <= NumThreads - left => handler[t] \in Pool
    /\ t > NumThreads - left /\ t <= NumThreads /\ ~Converting(t) => state[t] = "Inactive"
    /\ Converting(t) => t = NumThreads - left + 1 /\ task["init"][t] \notin {"create", "boot"}

\* So it never looks for a thread in vain.
Order ==
    /\ ini # "panic"
    /\ ini = "boot" => left = NumThreads /\ \A t \in Thread : BootAt(t)
    /\ ini = "convert" => \A t \in Thread : ConvertAt(t)

\* Once Init has returned it stays so.
LEMMA StartedStays ==
    ASSUME Phases, ini \in Started, [Next]_vars
    PROVE  ini' \in Started
  <1>1. \A t \in Thread : task["init"][t] = "none"
    BY Zenon DEF Phases
  <1>2. ini' = ini \/ ini' = "over"
    <2>1. CASE \E u \in Thread : CThread(u) \/ selectRequest(u) \/ Respawn(u)
      BY <2>1, ZenonT(30) DEF CThread, selectRequest, beforeScriptExecution, setInactive, idleWoken, setInactiveAgain,
        setReadyAgain, transitionToNewHandler, newHandlerCalled, setAndGo, setReady, waitForRequest,
        selectDrained, requestEnds, scriptEnds, scriptBooted, scriptFails, replaceUnhealthy, exitThread,
        Respawn, rebootedWoken, rebootedCreate, releaseDetach, releaseReserve, initVars
    <2>2. ASSUME NEW a \in Actor, NEW u \in Thread, Controller(a, u)
          PROVE  ini' = ini
      <3>1. a = "mu"
        BY <1>1, <2>2, Zenon DEF Actor, Controller, bootThread, booted, retrySafe, setHandlerRequest, setHandlerClose,
           closeDrain, setHandlerComplete
      <3> QED
        BY <2>2, <3>1, Zenon DEF Controller, bootThread, noThread, booted, retrySafe, setHandlerRequest, setHandlerClose,
           closeDrain, setHandlerComplete, initVars
    <2>3. CASE \E u \in Thread : MuActs(u)
      BY <2>3, Zenon DEF MuActs, forceReboot, rebootClose, closeDrain, rebootResume, shutdownRequest, shutdownClose,
         shutdownExited, shutdownJoined, initVars
    <2>4. CASE initPick \/ addPick
      BY <2>4, Zenon DEF initPick, addPick, inactivePHPThread, noThread, Started
    <2>5. CASE Elsewhere
      BY <1>1, <2>5, Zenon DEF Elsewhere, WaitFor, initBooted, initDone, initAttach, initStarted, addAttach, addDone,
         DownStep, downDone, downCheck, downConverted, rebootMain, rebootDone, rebootYielded, rebootStable,
         drainMain, drainDone, MainStep, mainTeardown, mainExit, mainStart, scale, restoreThread, restoreQuit,
         down, reboot, drainPHPThreads, Over, vars, initVars, Started
    <2> QED
      BY <2>1, <2>2, <2>3, <2>4, <2>5, NextCases, Zenon
  <1> QED
    BY <1>2, Zenon DEF Started

\* Then layer 10 has nothing to say.
LEMMA OrderOver ==
    ASSUME ini' \in Started
    PROVE  Order'
  BY Zenon DEF Order, Started

\* Layer 10 when Init does nothing.
LEMMA OrderStill ==
    ASSUME Order, \A t \in Thread : state[t] \in {"Reserved", "Inactive"} => state'[t] = state[t],
           \A t \in Thread : task'["init"][t] = task["init"][t],
           UNCHANGED <<ini, left, handler>>, failed => failed'
    PROVE  Order'
  <1>1. ini' # "panic"
    BY Zenon DEF Order
  <1>2. ASSUME ini' = "boot" PROVE left' = NumThreads /\ \A t \in Thread : BootAt(t)'
    <2>1. left = NumThreads /\ \A t \in Thread : BootAt(t)
      BY <1>2, Zenon DEF Order
    <2> QED
      BY <2>1, Zenon DEF BootAt
  <1>3. ASSUME ini' = "convert" PROVE \A t \in Thread : ConvertAt(t)'
    <2>1. \A t \in Thread : ConvertAt(t)
      BY <1>3, Zenon DEF Order
    <2> QED
      BY <2>1, Zenon DEF ConvertAt, Converting
  <1> QED
    BY <1>1, <1>2, <1>3, Zenon DEF Order

\* Layer 10, C threads.
LEMMA CThreadOrder ==
    ASSUME Types, Waits, \A t \in Thread : Shape(t) /\ Conform(t), Order, NEW u \in Thread,
           CThread(u) \/ selectRequest(u) \/ Respawn(u)
    PROVE  Order'
  <1>1. UNCHANGED <<task, ini, left, handler>> /\ \A t \in Thread : t # u => state'[t] = state[t]
    BY CThreadFrame, Zenon
  <1>2. state[u] # "Reserved"
    BY Still, Zenon DEF Gone
  <1>3. state[u] = "Inactive" => state'[u] = "Inactive"
    BY InactiveStays, Zenon DEF Publish, Types
  <1>4. failed => failed'
    BY DEF CThread, selectRequest, beforeScriptExecution, setInactive, idleWoken, setInactiveAgain,
        setReadyAgain, transitionToNewHandler, newHandlerCalled, setAndGo, setReady, waitForRequest,
        selectDrained, requestEnds, scriptEnds, scriptBooted, scriptFails, replaceUnhealthy, exitThread,
        Respawn, rebootedWoken, rebootedCreate, releaseDetach, releaseReserve, initVars
  <1> QED
    BY <1>1, <1>2, <1>3, <1>4, OrderStill, Zenon

\* Layer 10: Init boots its threads.
LEMMA BootOrder ==
    ASSUME Types, Phases, Claimed, Adds, Clear', Order, ini = "boot", NEW u \in Thread, Controller("init", u)
    PROVE  Order'
  <1> USE DEF Actor
  <1>1. left = NumThreads /\ \A t \in Thread : BootAt(t)
    BY Zenon DEF Order
  <1>2. task["init"][u] \in {"none", "create", "boot", "panic"}
    BY Zenon DEF Phases
  <1>3. bootThread("init", u) \/ booted("init", u)
    BY <1>2, Zenon DEF Controller, bootThread, booted, retrySafe, setHandlerRequest, setHandlerClose, closeDrain,
       setHandlerComplete
  <1>4. /\ UNCHANGED left
        /\ \A t \in Thread : t # u => state'[t] = state[t] /\ task'["init"][t] = task["init"][t]
        /\ task["init"][u] # "none"
    <2>1. PICK x : Goto("init", u, x)
      BY ActorFrame, Zenon
    <2>2. \A t \in Thread : t # u => task'["init"][t] = task["init"][t]
      BY <2>1, GotoIs, Zenon
    <2> QED
      BY <2>2, ActorFrame, Zenon
  <1>5. u <= NumThreads
    BY <1>1, <1>4, SizeAssumption DEF BootAt, Thread
  <1>6. ini' = "boot" /\ (failed => failed')
    BY <1>3 DEF bootThread, noThread, booted, initVars
  <1>7. failed' \/ task'["init"][u] = "boot" \/ state'[u] = "Inactive"
    <2>1. CASE bootThread("init", u)
      <3>1. state[u] \in {"Reserved", "BootRequested"}
        BY <2>1, Zenon DEF bootThread, Claimed
      <3>2. Goto("init", u, "boot") \/ noThread("init")
        BY <2>1, <3>1, Zenon DEF bootThread
      <3>3. Goto("init", u, "boot") => task'["init"][u] = "boot"
        BY GotoIs, Zenon
      <3>4. noThread("init") => failed'
        BY DEF noThread
      <3> QED
        BY <3>2, <3>3, <3>4
    <2>2. CASE booted("init", u)
      <3>1. Awaited("boot") = {"Inactive"}
        BY Zenon DEF Awaited
      <3> QED
        BY <2>2, <3>1, StepIs, Zenon DEF booted, Passed, Adds, Added, Resume
    <2> QED
      BY <1>3, <2>1, <2>2
  <1>8. ASSUME NEW t \in Thread PROVE BootAt(t)'
    <2>1. CASE t # u
      BY <1>1, <1>4, <1>6, <2>1 DEF BootAt
    <2>2. CASE t = u
      <3>1. ~(t > NumThreads)
        BY <1>5, <2>2, SizeAssumption DEF Thread
      <3> QED
        BY <1>7, <2>2, <3>1, Zenon DEF BootAt
    <2> QED
      BY <2>1, <2>2
  <1> QED
    BY <1>1, <1>4, <1>6, <1>8, Zenon DEF Order

\* Layer 10: Init converts a thread.
LEMMA ConvertOrder ==
    ASSUME Types, Phases, Claimed, Counts, Clear', Order, ini = "convert", NEW u \in Thread, Controller("init", u)
    PROVE  Order'
  <1> USE DEF Actor
  <1>1. \A t \in Thread : ConvertAt(t)
    BY Zenon DEF Order
  <1>2. task["init"][u] \notin {"none", "panic"}
    BY Zenon DEF Controller, bootThread, booted, retrySafe, setHandlerRequest, setHandlerClose, closeDrain,
       setHandlerComplete
  <1>3. left > 0 /\ u = NumThreads - left + 1 /\ task["init"][u] \notin {"create", "boot"}
    BY <1>1, <1>2, Zenon DEF Counts, ConvertAt, Converting
  <1>4. retrySafe("init", u) \/ setHandlerRequest("init", u) \/ setHandlerClose("init", u) \/ setHandlerComplete("init", u)
    BY <1>3, Zenon DEF Controller, bootThread, booted
  <1>5. UNCHANGED <<ini, left>>
    BY <1>4, Zenon DEF retrySafe, setHandlerRequest, setHandlerClose, closeDrain, setHandlerComplete, initVars
  <1>6. \A t \in Thread : t # u => state'[t] = state[t] /\ handler'[t] = handler[t]
    BY ActorFrame, Zenon
  <1>7. PICK x \in {"convert", "force", "shutdown", "close", "attach", "safe", "transit", "panic"} : Goto("init", u, x)
    BY <1>4 DEF retrySafe, setHandlerRequest, RequestSafeStateChange, setHandlerClose, closeDrain, setHandlerComplete
  <1>8. /\ task'["init"][u] = x
        /\ \A t \in Thread : t # u => task'["init"][t] = task["init"][t]
    BY <1>7, GotoIs, Zenon
  <1>9. x # "panic"
    BY <1>8, Zenon DEF Clear
  <1>10. ConvertAt(u)'
    <2>1. ~(u > NumThreads) /\ ~(u <= NumThreads - left)
      BY <1>3, SizeAssumption DEF Types, Thread
    <2>2. x \notin {"none", "panic", "create", "boot"}
      BY <1>7, <1>9
    <2> QED
      BY <1>3, <1>5, <1>8, <2>1, <2>2, Zenon DEF ConvertAt, Converting
  <1>11. ASSUME NEW t \in Thread, t # u PROVE ConvertAt(t)'
    BY <1>1, <1>5, <1>6, <1>8, <1>11, Zenon DEF ConvertAt, Converting
  <1>12. \A t \in Thread : ConvertAt(t)'
    BY <1>10, <1>11, Zenon
  <1> QED
    BY <1>5, <1>12, Zenon DEF Order

\* Layer 10: Init takes the next thread.
LEMMA PickOrder ==
    ASSUME Types, \A t \in Thread : Conform(t), Order, initPick
    PROVE  Order'
  <1> USE DEF Actor
  <1> DEFINE m == NumThreads - left + 1
             inactive == {t \in Thread : state[t] = "Inactive"}
  <1>1. ini = "convert" /\ left > 0 /\ inactivePHPThread("init") /\ \A t \in Thread : task["init"][t] = "none"
    BY Zenon DEF initPick, InitIdle
  <1>2. \A t \in Thread : ConvertAt(t)
    BY <1>1, Zenon DEF Order
  <1>3. \A t \in Thread : ~Converting(t)
    BY <1>1, Zenon DEF Converting
  <1>4. m \in Thread /\ m > NumThreads - left /\ m <= NumThreads
    BY <1>1, SizeAssumption DEF Types, Thread
  <1>5. m \in inactive
    BY <1>2, <1>3, <1>4, Zenon DEF ConvertAt
  <1>6. PICK t \in Thread : IsFirst(t, inactive) /\ Goto("init", t, "convert")
    BY <1>1, <1>5, Zenon DEF inactivePHPThread
  <1>7. UNCHANGED <<state, ini, left, handler>>
    <2>1. UNCHANGED <<cellVars, ini>>
      BY <1>1, <1>5, Zenon DEF inactivePHPThread
    <2> QED
      BY <2>1, Zenon DEF initPick, cellVars, threadVars
  <1>8. t = m
    <2>1. t <= m
      BY <1>5, <1>6, Zenon DEF IsFirst
    <2>2. handler[t] \notin Pool
      BY <1>6, Zenon DEF IsFirst, Conform, Pool
    <2>3. ~(t <= NumThreads - left)
      BY <1>2, <2>2, Zenon DEF ConvertAt
    <2> QED
      BY <2>1, <2>3, SizeAssumption DEF Types, Thread
  <1> HIDE DEF m, inactive
  <1>9. /\ task'["init"][t] = "convert"
        /\ \A u \in Thread : u # t => task'["init"][u] = task["init"][u]
    BY <1>6, GotoIs, Zenon
  <1>10. ASSUME NEW u \in Thread PROVE ConvertAt(u)'
    <2>1. CASE u # t
      BY <1>2, <1>7, <1>9, <2>1, Zenon DEF ConvertAt, Converting
    <2>2. CASE u = t
      BY <1>2, <1>7, <1>8, <1>9, <2>2, Zenon DEF ConvertAt, Converting, m
    <2> QED
      BY <2>1, <2>2
  <1> QED
    BY <1>1, <1>7, <1>10, Zenon DEF Order

\* Layer 10: Init is done with a thread.
LEMMA AttachOrder ==
    ASSUME Types, Phases, Counts, Adds, Order, NEW t \in Thread, initAttach(t)
    PROVE  Order'
  <1> USE DEF Actor
  <1>1. /\ task["init"][t] = "attach" /\ Goto("init", t, "none")
        /\ left' = left - 1 /\ UNCHANGED <<ini, state, handler>>
    BY Zenon DEF initAttach, cellVars, threadVars
  <1>2. ini = "convert"
    <2>1. ini \notin Started /\ ini # "boot"
      BY <1>1, Zenon DEF Phases
    <2> QED
      BY <2>1, Zenon DEF Types, Order, Started
  <1>3. \A u \in Thread : ConvertAt(u)
    BY <1>2, Zenon DEF Order
  <1>4. Converting(t)
    BY <1>1, Zenon DEF Converting
  <1>5. t = NumThreads - left + 1
    BY <1>3, <1>4, Zenon DEF ConvertAt
  <1>6. handler[t] \in Pool
    <2>1. handler[t] = Target("init")
      BY <1>1, Zenon DEF Adds, Added, Adding
    <2> QED
      BY <2>1, Zenon DEF Target, Pool
  <1>7. \A u \in Thread : u # t => ~Converting(u)
    BY <1>2, <1>4, Zenon DEF Counts
  <1>8. \A u \in Thread : ~Converting(u)'
    <2>1. /\ task'["init"][t] = "none"
          /\ \A u \in Thread : u # t => task'["init"][u] = task["init"][u]
      BY <1>1, GotoIs, Zenon
    <2> QED
      BY <1>7, <2>1, Zenon DEF Converting
  <1>9. ASSUME NEW u \in Thread PROVE ConvertAt(u)'
    <2>1. /\ u > NumThreads => state'[u] = "Reserved"
          /\ u <= NumThreads - left' => u <= NumThreads - left \/ u = t
          /\ u > NumThreads - left' => u > NumThreads - left /\ u # t
      BY <1>1, <1>3, <1>5, SizeAssumption DEF ConvertAt, Thread, Types
    <2> QED
      BY <1>1, <1>3, <1>6, <1>7, <1>8, <2>1, Zenon DEF ConvertAt
  <1> QED
    BY <1>1, <1>2, <1>9, Zenon DEF Order

\* Layer 10: every thread that Init has booted is there when it converts them.
LEMMA BootedOrder ==
    ASSUME Types, Order, initBooted
    PROVE  Order'
  <1> USE DEF Actor
  <1>1. /\ ini = "boot" /\ (\A t \in Thread : task["init"][t] = "none")
        /\ UNCHANGED <<task, state, left, handler>>
    BY Zenon DEF initBooted, InitIdle, cellVars, threadVars
  <1>2. left = NumThreads /\ \A t \in Thread : BootAt(t)
    BY <1>1, Zenon DEF Order
  <1>3. CASE failed
    BY <1>3, OrderOver DEF initBooted, Started
  <1>4. CASE ~failed
    <2>1. ini' = "convert"
      BY <1>4 DEF initBooted
    <2>2. ASSUME NEW t \in Thread PROVE ConvertAt(t)'
      <3>1. ~(t <= NumThreads - left) /\ (t > NumThreads \/ t <= NumThreads)
        BY <1>2, SizeAssumption DEF Thread
      <3>2. ~Converting(t)'
        BY <1>1, Zenon DEF Converting
      <3> QED
        BY <1>1, <1>2, <1>4, <3>1, <3>2, Zenon DEF ConvertAt, BootAt
    <2> QED
      BY <2>1, <2>2, Zenon DEF Order
  <1> QED
    BY <1>3, <1>4

\* Layer 10: the order is kept by every step.
LEMMA OrderStep ==
    ASSUME ~RestartDuringInit, Types, Phases, Waits, \A t \in Thread : Shape(t) /\ Conform(t), Counts, Claimed,
           Clear', Adds, Order, [Next]_vars
    PROVE  Order'
  <1> USE DEF Actor
  <1>1. CASE ini \in Started
    BY <1>1, StartedStays, OrderOver
  <1>2. CASE ini \notin Started
    <2>1. /\ mu = "free" /\ main = "Ready" /\ autoScaled = {}
          /\ \A p \in Pool : restoring[p] = 0
          /\ \A t \in Thread : task["mu"][t] = "none"
      BY <1>2, Zenon DEF Phases
    <2>2. ini = "boot" \/ ini = "convert"
      BY <1>2, Zenon DEF Types, Order, Started
    <2>3. CASE \E u \in Thread : CThread(u) \/ selectRequest(u) \/ Respawn(u)
      BY <2>3, CThreadOrder, Zenon
    <2>4. ASSUME NEW a \in Actor, NEW u \in Thread, Controller(a, u) \/ (a = "mu" /\ MuActs(u))
          PROVE  Order'
      <3>1. a = "init"
        BY <2>1, <2>4, ActorFrame, Zenon
      <3> QED
        BY <2>2, <2>4, <3>1, BootOrder, ConvertOrder, Zenon
    <2>5. CASE initPick
      BY <2>5, PickOrder, Zenon
    <2>6. ~addPick
      BY <2>1, Zenon DEF addPick
    <2>7. CASE Elsewhere
      <3>1. CASE initBooted
        BY <3>1, BootedOrder
      <3>2. CASE initDone
        BY <3>2, OrderOver, Zenon DEF initDone, Started
      <3>3. CASE \E t \in Thread : initAttach(t)
        BY <3>3, AttachOrder, Zenon
      <3>4. CASE \/ \E r \in Role, t \in Thread : WaitFor(r, t)
                 \/ \E t \in Thread : initStarted(t)
                 \/ \E p \in Pool : restoreThread(p) \/ restoreQuit(p)
                 \/ MainStep \/ Over \/ UNCHANGED vars
        <4>1. UNCHANGED <<state, handler, task, ini, left>> /\ failed' = failed
          BY <3>4, Zenon DEF WaitFor, initStarted, restoreThread, restoreQuit, MainStep, mainTeardown, mainExit, mainStart,
             Over, vars, cellVars, threadVars, initVars, Resume
        <4> QED
          BY <4>1, OrderStill, Zenon
      <3>5. /\ ~(\E t \in Thread : addAttach(t) \/ addDone(t)) /\ ~DownStep
            /\ ~rebootMain /\ ~rebootDone /\ ~(\E t \in Thread : rebootYielded(t) \/ rebootStable(t))
            /\ ~drainMain /\ ~drainDone
        BY <2>1, Zenon DEF addAttach, addDone, DownStep, downDone, downCheck, downConverted, rebootMain, rebootDone,
           rebootYielded, rebootStable, drainMain, drainDone
      <3>6. /\ ~(\E p \in Pool : scale(p)) /\ ~down /\ ~reboot /\ ~drainPHPThreads
        BY <1>2, <2>1, Zenon DEF scale, down, reboot, drainPHPThreads, Started
      <3> QED
        BY <2>7, <3>1, <3>2, <3>3, <3>4, <3>5, <3>6, Zenon DEF Elsewhere
    <2> QED
      BY <2>3, <2>4, <2>5, <2>6, <2>7, NextCases, Zenon
  <1> QED
    BY <1>1, <1>2

-----------------------------------------------------------------------------
\* The inductive invariant behind NoUnexpectedState.
StatesInv ==
    /\ IndInv /\ Claimed
    /\ \A t \in Thread : Conform(t)
    /\ Drains /\ Clear /\ Adds /\ Order

\* It holds when initPHPThreads has made the slots.
LEMMA StatesInit == Init => StatesInv
  <1> SUFFICES ASSUME Init PROVE StatesInv
    BY Zenon
  <1> USE SizeAssumption DEF Init, Actor
  <1>1. IndInv
    BY IndInvInit, Zenon
  <1>2. Claimed
    BY Zenon DEF Claimed
  <1>3. \A t \in Thread : Conform(t)
    BY Zenon DEF Conform
  <1>4. Drains /\ Clear /\ Adds
    BY Zenon DEF Drains, Clear, Adds, Added
  <1>5. Order
    <2>1. \A t \in Thread : BootAt(t)
      BY DEF BootAt, Thread
    <2> QED
      BY <2>1, Zenon DEF Order
  <1> QED
    BY <1>1, <1>2, <1>3, <1>4, <1>5, Zenon DEF StatesInv

\* No step breaks it, unless a restart is asked for while Init runs.
LEMMA StatesStep ==
    ASSUME ~RestartDuringInit, StatesInv, [Next]_vars
    PROVE  StatesInv'
  <1>1. /\ IndInv /\ Types /\ Phases /\ MuSteps /\ Waits /\ Counts /\ Claimed
        /\ \A t \in Thread : Shape(t) /\ Conform(t)
        /\ Drains /\ Clear /\ Adds /\ Order
    BY Zenon DEF StatesInv, IndInv
  <1>2. IndInv' /\ Claimed'
    BY <1>1, IndInvStep, ClaimedStep, Zenon
  <1>3. \A t \in Thread : Conform(t)'
    BY <1>1, ConformStep, Zenon
  <1>4. Drains' /\ Clear'
    BY <1>1, DrainsStep, Zenon
  <1>5. Adds'
    BY <1>1, AddsStep, Zenon
  <1>6. Order'
    BY <1>1, <1>4, OrderStep, Zenon
  <1> QED
    BY <1>2, <1>3, <1>4, <1>5, <1>6, Zenon DEF StatesInv

\* The invariant holds in every reachable state, for any number of threads.
THEOREM StatesInductive ==
    ASSUME ~RestartDuringInit
    PROVE  Spec => []StatesInv
  <1>1. Init => StatesInv
    BY StatesInit, Zenon
  <1>2. StatesInv /\ [Next]_vars => StatesInv'
    BY StatesStep, Zenon
  <1> QED
    BY <1>1, <1>2, PTL DEF Spec

\* No thread of any pool is ever found in a state that its code does not expect:
\* beforeScriptExecution, boot() and rebootAllThreads never panic, no drainChan
\* is closed twice and Init never lacks a thread, whatever fails to start.
THEOREM StatesAreExpected ==
    ASSUME ~RestartDuringInit
    PROVE  Spec => []NoUnexpectedState
  <1>1. StatesInv => NoUnexpectedState
    BY Zenon DEF StatesInv, NoUnexpectedState, Conform, Clear, Order
  <1>2. Spec => []StatesInv
    BY StatesInductive, Zenon
  <1> QED
    BY <1>1, <1>2, PTL

\* A thread that counts as Ready or Inactive has a C thread after every step.
LEMMA AliveStep ==
    ASSUME ~RespawnCanFail, Types, StableThreadAlive, [Next]_vars
    PROVE  StableThreadAlive'
  <1> SUFFICES ASSUME NEW t \in Thread, state'[t] \in Stable PROVE cpc'[t] # "none"
    BY Zenon DEF StableThreadAlive
  <1>1. CASE state'[t] = state[t] /\ cpc'[t] = cpc[t]
    BY <1>1, Zenon DEF StableThreadAlive
  <1>2. CASE CThread(t) \/ selectRequest(t) \/ Respawn(t)
    <2>1. CASE \/ setInactive(t) \/ setInactiveAgain(t) \/ setReadyAgain(t) \/ setReady(t) \/ idleWoken(t) \/ newHandlerCalled(t)
               \/ transitionToNewHandler(t) \/ waitForRequest(t) \/ selectDrained(t) \/ requestEnds(t) \/ scriptEnds(t)
               \/ scriptBooted(t) \/ scriptFails(t) \/ selectRequest(t) \/ replaceUnhealthy(t)
      BY <2>1, Zenon DEF setInactive, setInactiveAgain, setReadyAgain, transitionToNewHandler, setAndGo, setReady,
         idleWoken, newHandlerCalled, waitForRequest, selectDrained, requestEnds, scriptEnds, scriptBooted, scriptFails,
         selectRequest, replaceUnhealthy, CGoto, Types
    <2>2. CASE beforeScriptExecution(t)
      <3>1. cpc'[t] = Branch(handler[t], state[t])
        BY <2>2, Zenon DEF beforeScriptExecution, CGoto, Types
      <3> QED
        BY <3>1 DEF Branch
    <2>3. CASE exitThread(t)
      <3>1. state'[t] \in {"RebootReady", "YieldingForReboot", "Done"}
        BY <2>3, Zenon DEF exitThread, Publish, Types
      <3> QED
        BY <3>1, Zenon DEF Stable
    <2>4. CASE Respawn(t)
      <3>1. CASE releaseReserve(t)
        <4>1. state'[t] = "Reserved"
          BY <3>1, Zenon DEF releaseReserve, Publish, Types
        <4> QED
          BY <4>1, Zenon DEF Stable
      <3>2. CASE ~releaseReserve(t)
        <4>1. state'[t] = state[t] /\ (cpc'[t] = cpc[t] \/ cpc'[t] = "before")
          BY <2>4, <3>2, Zenon DEF Respawn, rebootedWoken, rebootedCreate, releaseDetach, Resume, cellVars, CGoto, Types
        <4> QED
          BY <1>1, <4>1, Zenon
      <3> QED
        BY <3>1, <3>2
    <2> QED
      BY <1>2, <2>1, <2>2, <2>3, <2>4, Zenon DEF CThread
  <1>3. ASSUME NEW a \in Actor, Controller(a, t) \/ (a = "mu" /\ MuActs(t))
        PROVE  cpc'[t] # "none"
    <2>1. CASE bootThread(a, t)
      <3>1. \/ state'[t] = state[t] /\ cpc'[t] = cpc[t]
            \/ cpc'[t] = "before"
            \/ state'[t] = "Reserved"
        BY <2>1, Zenon DEF bootThread, Publish, CGoto, cellVars, Types
      <3> QED
        BY <1>1, <3>1, Zenon DEF Stable
    <2>2. CASE ~bootThread(a, t)
      <3>1. UNCHANGED cpc
        BY <1>3, <2>2, Zenon DEF Controller, booted, retrySafe, setHandlerRequest, setHandlerClose, closeDrain,
           setHandlerComplete, MuActs, forceReboot, rebootClose, rebootResume, shutdownRequest, shutdownClose,
           shutdownExited, shutdownJoined, threadVars
      <3>2. CASE setHandlerRequest(a, t) \/ forceReboot(t) \/ shutdownRequest(t)
        <4>1. state'[t] = state[t] \/ state'[t] \in {"TransitionRequested", "ForceRebooting", "ShuttingDown"}
          BY <3>2, SafeChange, Zenon DEF setHandlerRequest, forceReboot, shutdownRequest
        <4> QED
          BY <1>1, <3>1, <4>1, Zenon DEF Stable
      <3>3. CASE \/ booted(a, t) \/ retrySafe(a, t) \/ setHandlerClose(a, t) \/ setHandlerComplete(a, t)
                 \/ rebootClose(t) \/ rebootResume(t) \/ shutdownClose(t) \/ shutdownExited(t) \/ shutdownJoined(t)
        <4>1. state'[t] = state[t] \/ state'[t] \in {"TransitionComplete", "RebootReady", "Reserved"}
          BY <3>3, Zenon DEF booted, retrySafe, setHandlerClose, closeDrain, setHandlerComplete, rebootClose, rebootResume,
             shutdownClose, shutdownExited, shutdownJoined, Resume, Publish, cellVars, Types
        <4> QED
          BY <1>1, <3>1, <4>1, Zenon DEF Stable
      <3> QED
        BY <1>3, <2>2, <3>2, <3>3, Zenon DEF Controller, MuActs
    <2> QED
      BY <2>1, <2>2
  <1>4. CASE initPick \/ addPick
    <2>1. UNCHANGED cpc /\ (state'[t] = state[t] \/ state'[t] = "BootRequested")
      BY <1>4, PickFrame, Zenon
    <2> QED
      BY <1>1, <2>1, Zenon DEF Stable
  <1>5. CASE Elsewhere
    BY <1>1, <1>5, ElsewhereFrame, Zenon
  <1>6. ASSUME NEW u \in Thread, u # t, CThread(u) \/ selectRequest(u) \/ Respawn(u)
        PROVE  cpc'[t] # "none"
    BY <1>1, <1>6, CThreadFrame, Zenon
  <1>7. ASSUME NEW u \in Thread, u # t, NEW a \in Actor, Controller(a, u) \/ (a = "mu" /\ MuActs(u))
        PROVE  cpc'[t] # "none"
    BY <1>1, <1>7, ActorFrame, Zenon
  <1> QED
    BY <1>2, <1>3, <1>4, <1>5, <1>6, <1>7, NextCases, Zenon DEF Actor

\* A thread that counts as Ready or Inactive has a C thread, as long as the OS
\* starts the replacement of every unhealthy one (frankenphp.c, php_thread): the
\* C thread publishes these states itself, and another one before it exits.
THEOREM StableThreadsAreAlive ==
    ASSUME ~RespawnCanFail
    PROVE  Spec => []StableThreadAlive
  <1>1. Init => Types /\ StableThreadAlive
    <2>1. Init => StableThreadAlive
      BY Zenon DEF Init, StableThreadAlive, Stable
    <2> QED
      BY <2>1, IndInvInit, Zenon DEF IndInv
  <1>2. Types /\ StableThreadAlive /\ [Next]_vars => Types' /\ StableThreadAlive'
    BY TypesStep, AliveStep, Zenon
  <1> QED
    BY <1>1, <1>2, PTL DEF Spec
=============================================================================
