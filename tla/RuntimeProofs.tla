--------------------------- MODULE RuntimeProofs ----------------------------
(***************************************************************************)
(* Proofs about the life of the runtime (Runtime), for any number of       *)
(* instances, file changes, restarts and dead sessions. The invariant is   *)
(* built in layers, each inductive given the ones named in its lemma; on   *)
(* top of it the wait group of the watcher counts the reloads.             *)
(***************************************************************************)
EXTENDS Runtime, TLAPS

\* Init and Shutdown are called by one goroutine at a time, as Caddy does
OneCaller == \A c, d \in Embedder : c = d

\* The steps at which a caller holds startupMu, and those of a shutdown
Locked == {"options", "threads", "workers", "watchers", "activate", "hooks", "drainWatcher", "wait",
           "drainThreads", "unregister"}
Closing == {"shutdown", "hooks", "drainWatcher", "wait", "drainThreads", "unregister"}

HooksRan == onServerShutdown # 0 => ran[onServerShutdown] > 0

\* An instance is up
Up ==
    /\ isRunning /\ Alive /\ inst \in Inst /\ main.id = inst
    /\ active = inst /\ servers = inst /\ workers = inst /\ inst \notin stopped
    /\ onServerShutdown = inst

\* Nothing of an instance is left
Down == ~Alive /\ active = 0 /\ servers = 0 /\ workers = 0 /\ ~watcherIsActive /\ HooksRan

\* Layer 0: the types
CallTypes ==
    /\ bound \in Scenario /\ host \in {"caddy", "library"}
    /\ pc \in [Caller -> Step] /\ after \in [Caller -> Step \cup {"none"}]
    /\ isRunning \in BOOLEAN /\ startupMu \in Caller \cup {"free"} /\ refused \in BOOLEAN
ServerTypes ==
    /\ inst \in Inst \cup {0} /\ servers \in Inst \cup {0} /\ active \in Inst \cup {0}
    /\ workers \in Inst \cup {0} /\ stopped \in SUBSET Inst /\ onServerShutdown \in Inst \cup {0}
    /\ ran \in [Inst -> 0 .. 2] /\ extension \in Inst \cup {0}
    /\ watcherIsActive \in BOOLEAN /\ activeWatcher \in Inst \cup {0}
MainTypes ==
    /\ main \in [id : Inst \cup {0}, state : {"none", "Ready", "Rebooting", "Reserved"}]
    /\ isRebooting \in SUBSET Inst /\ scalingMu \in BOOLEAN /\ ignored \in SUBSET Inst
    /\ restart \in [Restarter -> {"none", "call", "lock", "boot", "done"}]
    /\ target \in [Restarter -> Inst \cup {0}]
WatchTypes ==
    /\ restartWorkers \in BOOLEAN /\ stop \in SUBSET Inst /\ stale \in SUBSET Inst
    /\ listener \in [Inst -> {"none", "select", "fired", "callbacks", "restarting", "publish", "gone"}]
    /\ events \in [Inst -> SUBSET Group]
    /\ session \in [Inst -> [Group -> {"none", "open", "closed"}]]
    /\ handle \in [Inst -> [Group -> {"idle", "send", "retry"}]]
Types == CallTypes /\ ServerTypes /\ MainTypes /\ WatchTypes

\* Layer 1: who calls, who holds startupMu, and where a shutdown returns to
Allowed(c) == IF host = "caddy" THEN c = "caddy" ELSE c \in Embedder
Calling ==
    \A c \in Caller :
        /\ pc[c] # "idle" => Allowed(c)
        /\ startupMu = c <=> pc[c] \in Locked
        /\ pc[c] \in Closing => after[c] \in {"idle", "init", "failed"}

\* Layer 2: RestartWorkers; the main thread reboots for one of its callers, which
\* holds scalingMu
Restarting ==
    /\ main.state = "Rebooting" => scalingMu
    /\ \A r \in Restarter : restart[r] = "boot" => main.state = "Rebooting"
    /\ \A r, s \in Restarter : restart[r] = "boot" /\ restart[s] = "boot" => r = s
    /\ \A r \in Restarter : restart[r] # "none" => main.id # 0

\* Layer 3: the watchers; one that is not stopped is the active one, and its
\* instance has its threads
Watched(i) ==
    /\ listener[i] # "none" => i <= inst /\ main.id # 0
    /\ listener[i] # "none" /\ i \notin stop => watcherIsActive /\ activeWatcher = i
    /\ i \in stop => listener[i] # "none"
    /\ listener[i] # "restarting" => restart[i] = "none"
    /\ \A p \in Group : handle[i][p] # "idle" => session[i][p] # "none"
    /\ \A p \in Group : session[i][p] # "none" => listener[i] # "none"
Watching ==
    /\ watcherIsActive =>
          /\ inst \in Inst /\ activeWatcher = inst /\ main.id = inst /\ Alive
          /\ listener[inst] # "none" /\ inst \notin stop
    /\ \A i \in Inst : Watched(i)

\* Layer 4: how much of an instance is there at each step of Init and shutdown()
Phase(c) ==
    /\ pc[c] = "init" => ~isRunning
    /\ pc[c] \in {"lock", "shutdown"} \cup Locked => isRunning
    /\ pc[c] \in {"lock", "options"} => Down
    /\ pc[c] \in {"threads", "workers", "watchers", "activate"} =>
          inst \in Inst /\ active = 0 /\ servers = inst /\ inst \notin stopped /\ HooksRan
    /\ pc[c] \in {"threads", "workers", "watchers"} => listener[inst] = "none" /\ ~watcherIsActive
    /\ pc[c] = "threads" => ~Alive
    /\ pc[c] \in {"threads", "workers"} => workers = 0
    /\ pc[c] \in {"workers", "watchers", "activate"} => Alive /\ main.id = inst
    /\ pc[c] \in {"watchers", "activate"} => workers = inst
    /\ pc[c] = "hooks" => IF active = 0 THEN HooksRan ELSE Up
    /\ pc[c] \in {"drainWatcher", "wait", "drainThreads", "unregister"} => HooksRan
    /\ pc[c] \in {"wait", "drainThreads", "unregister"} => ~watcherIsActive
    /\ pc[c] = "unregister" => ~Alive
Resting ==
    startupMu = "free" /\ (\A c \in Caller : pc[c] # "lock") => IF isRunning THEN Up ELSE Down
Phases ==
    /\ \A c \in Caller : Phase(c)
    /\ Resting
    /\ workers <= inst /\ \A i \in stopped : i <= inst

\* Layer 5: a load that was refused left the instance in place alone
Refusing ==
    /\ pc["caddy"] = "collect" => active = before /\ ~refused
    /\ refused => pc["caddy"] \in {"failed", "idle"} \cup Closing
    /\ refused /\ pc["caddy"] = "failed" => active = before
    /\ refused /\ pc["caddy"] \in Closing => after["caddy"] = "idle"

\* Layer 6: what becomes of a change that the workers have not seen
Pending(r, i) == restart[r] = "call" \/ (restart[r] = "lock" /\ target[r] = i)
Noticed(i) ==
    \/ i \in stop \/ i \in ignored
    \/ handle[i]["watch"] = "send"
    \/ listener[i] \in {"select", "fired"} /\ "watch" \in events[i]
    \/ listener[i] = "callbacks" /\ restartWorkers
    \/ listener[i] = "restarting" /\ Pending(i, i)
    \/ \E j \in stop : Pending(j, i)
Noticing == \A i \in stale : session[i]["watch"] # "none" /\ Noticed(i)

IInv ==
    Types /\ Calling /\ Restarting /\ Watching /\ Phases /\ Refusing /\ Noticing

\* The steps of a caller, and all the others
callerStep(c) ==
    \/ call(c) \/ embed(c)
    \/ c = "caddy" /\ (load \/ Start \/ StartInit \/ Stop \/ onExit)
otherStep ==
    \/ adminRestart
    \/ \E r \in Restarter : restarter(r)
    \/ \E i \in Inst : listen(i)
    \/ \E i \in Inst, groups \in SUBSET Group \ {{}} : fileChange(i, groups)
    \/ \E i \in Inst, p \in Group : sessionDies(i, p) \/ retryWatching(i, p)
-----------------------------------------------------------------------------
(* Layer 0 *)

\* An instance is a number up to the bound; none of them is 0, and no caller is
\* called as an unlocked startupMu is.
LEMMA Constants ==
    /\ Inst \subseteq Nat /\ 0 \notin Inst /\ Restarter = Inst \cup {0}
    /\ "caddy" \in Caller /\ "free" \notin Caller
    /\ \A n \in Inst \cup {0}, s \in Scenario : n < s.instances => n + 1 \in Inst
  BY RuntimeAssumption DEF Inst, Restarter, Admin, Caller

\* Every step is one of a caller or one of the others.
LEMMA Steps == ASSUME Next PROVE (\E c \in Caller : callerStep(c)) \/ otherStep
  BY Constants, Zenon DEF Next, callerStep, otherStep

\* Init and Shutdown, and what Caddy does around them, keep the types.
LEMMA CallerCallTypes ==
    ASSUME Types, Calling, NEW c \in Caller, callerStep(c)
    PROVE  CallTypes'
  <1>1. ASSUME NEW s \in Step, Goto(c, s) PROVE pc' \in [Caller -> Step]
    BY <1>1, Zenon DEF Types, CallTypes, Goto
  <1>2. ASSUME Fail(c) PROVE pc' \in [Caller -> Step] /\ after' \in [Caller -> Step \cup {"none"}]
    BY <1>2, Zenon DEF Types, CallTypes, Goto, Fail, Step
  <1>3. CASE initCall(c)
    <2>1. pc' \in [Caller -> Step] /\ isRunning' \in BOOLEAN
      BY <1>1, <1>3, Zenon DEF initCall, Step, Types, CallTypes
    <2> QED  BY <1>3, <2>1, Zenon DEF initCall, Types, CallTypes, boundVars, caddyVars
  <1>4. CASE initLock(c)
    <2>1. pc' \in [Caller -> Step]
      BY <1>1, <1>4, Zenon DEF initLock, Step
    <2> QED  BY <1>4, <2>1, Zenon DEF initLock, Types, CallTypes, boundVars, caddyVars
  <1>5. CASE initOptions(c)
    <2>1. pc' \in [Caller -> Step] /\ after' \in [Caller -> Step \cup {"none"}]
      BY <1>1, <1>2, <1>5, Zenon DEF initOptions, Step, Types, CallTypes
    <2> QED  BY <1>5, <2>1, Zenon DEF initOptions, Types, CallTypes, boundVars, caddyVars
  <1>6. CASE initPHPThreads(c)
    <2>1. pc' \in [Caller -> Step] /\ after' \in [Caller -> Step \cup {"none"}]
      BY <1>1, <1>2, <1>6, Zenon DEF initPHPThreads, Step, Types, CallTypes
    <2> QED  BY <1>6, <2>1, Zenon DEF initPHPThreads, Types, CallTypes, boundVars, caddyVars
  <1>7. CASE initWorkers(c)
    <2>1. pc' \in [Caller -> Step] /\ after' \in [Caller -> Step \cup {"none"}]
      BY <1>1, <1>2, <1>7, Zenon DEF initWorkers, Step, Types, CallTypes
    <2> QED  BY <1>7, <2>1, Zenon DEF initWorkers, Types, CallTypes, boundVars, caddyVars
  <1>8. CASE initWatchers(c)
    <2>1. pc' \in [Caller -> Step] /\ after' \in [Caller -> Step \cup {"none"}]
      BY <1>1, <1>2, <1>8, Zenon DEF initWatchers, InitWatcher, Step, Types, CallTypes
    <2> QED  BY <1>8, <2>1, Zenon DEF initWatchers, Types, CallTypes, boundVars, caddyVars
  <1>9. CASE activateServers(c)
    <2>1. pc' \in [Caller -> Step]
      BY <1>1, <1>9, Zenon DEF activateServers, Step
    <2> QED  BY <1>9, <2>1, Zenon DEF activateServers, Types, CallTypes, boundVars, caddyVars
  <1>10. ASSUME NEW then \in Step, shutdownCall(c, then)
         PROVE  CallTypes'
    <2>1. pc' \in [Caller -> Step] /\ after' \in [Caller -> Step \cup {"none"}]
      BY <1>1, <1>10, Zenon DEF shutdownCall, Step, Types, CallTypes
    <2> QED  BY <1>10, <2>1, Zenon DEF shutdownCall, Types, CallTypes, boundVars, caddyVars
  <1>11. CASE shutdownLock(c)
    <2>1. pc' \in [Caller -> Step]
      BY <1>1, <1>11, Zenon DEF shutdownLock, Step
    <2> QED  BY <1>11, <2>1, Zenon DEF shutdownLock, Types, CallTypes, boundVars, caddyVars
  <1>12. CASE runHooks(c)
    <2>1. pc' \in [Caller -> Step]
      BY <1>1, <1>12, Zenon DEF runHooks, Step
    <2> QED  BY <1>12, <2>1, Zenon DEF runHooks, Types, CallTypes, boundVars, caddyVars
  <1>13. CASE DrainWatcher(c)
    <2>1. pc' \in [Caller -> Step]
      BY <1>1, <1>13, Zenon DEF DrainWatcher, Step
    <2> QED  BY <1>13, <2>1, Zenon DEF DrainWatcher, Types, CallTypes, boundVars, caddyVars
  <1>14. CASE waitReloads(c)
    <2>1. pc' \in [Caller -> Step]
      BY <1>1, <1>14, Zenon DEF waitReloads, Step
    <2> QED  BY <1>14, <2>1, Zenon DEF waitReloads, Types, CallTypes, boundVars, caddyVars
  <1>15. CASE drainPHPThreads(c)
    <2>1. pc' \in [Caller -> Step]
      BY <1>1, <1>15, Zenon DEF drainPHPThreads, Step
    <2> QED  BY <1>15, <2>1, Zenon DEF drainPHPThreads, Types, CallTypes, boundVars, caddyVars
  <1>16. CASE shutdownEnd(c)
    <2>1. after[c] \in Step
      BY <1>16, Zenon DEF shutdownEnd, Calling, Closing, Step
    <2>2. pc' \in [Caller -> Step]
      BY <1>1, <1>16, <2>1, Zenon DEF shutdownEnd
    <2> QED  BY <1>16, <2>2, Zenon DEF shutdownEnd, Types, CallTypes, boundVars, caddyVars
  <1>17. CASE embed(c)
    <2>1. "idle" \in Step
      BY Zenon DEF Step
    <2>2. ASSUME Goto(c, "idle"), UNCHANGED <<host, after, isRunning, startupMu, caddyVars, boundVars>>
          PROVE  CallTypes'
      BY <1>1, <2>1, <2>2, Zenon DEF Types, CallTypes, boundVars, caddyVars
    <2> QED  BY <1>3, <1>10, <1>17, <2>1, <2>2, Zenon DEF embed
  <1>18. CASE c = "caddy" /\ (load \/ Start \/ StartInit \/ Stop \/ onExit)
    <2>1. {"collect", "failed", "idle", "init"} \subseteq Step
      BY Zenon DEF Step
    <2>2. CASE load
      <3>1. pc' \in [Caller -> Step]
        BY <1>1, <1>18, <2>1, <2>2, Zenon DEF load
      <3> QED  BY <2>2, <3>1, Zenon DEF load, Types, CallTypes, boundVars
    <2>3. CASE Start
      <3>1. CASE refused' = TRUE /\ Goto("caddy", "failed") /\ ~shutdownCall("caddy", "init")
        <4>1. pc' \in [Caller -> Step]
          BY <1>1, <1>18, <2>1, <3>1, Zenon
        <4> QED  BY <2>3, <3>1, <4>1, Zenon DEF Start, Types, CallTypes, boundVars
      <3>2. CASE shutdownCall("caddy", "init")
        BY <1>10, <1>18, <2>1, <3>2, Zenon
      <3> QED  BY <2>3, <3>1, <3>2, Zenon DEF Start
    <2>4. CASE StartInit
      BY <1>3, <1>18, <2>4, Zenon DEF StartInit
    <2>5. CASE Stop
      <3>1. pc' \in [Caller -> Step]
        BY <1>1, <1>18, <2>1, <2>5, Zenon DEF Stop
      <3> QED  BY <2>5, <3>1, Zenon DEF Stop, Types, CallTypes, boundVars
    <2>6. CASE onExit
      BY <1>10, <1>18, <2>1, <2>6, Zenon DEF onExit
    <2> QED  BY <1>18, <2>2, <2>3, <2>4, <2>5, <2>6, Zenon
  <1> QED
    BY <1>4, <1>5, <1>6, <1>7, <1>8, <1>9, <1>11, <1>12, <1>13, <1>14, <1>15, <1>16, <1>17, <1>18, Zenon
    DEF callerStep, call

\* What a step leaves alone keeps its types.
LEMMA FramedTypes ==
    ASSUME Types
    PROVE  /\ UNCHANGED <<serverVars, workerVars, drainVars>> => ServerTypes'
           /\ UNCHANGED mainVars => MainTypes'
           /\ UNCHANGED watchVars => WatchTypes'
           /\ UNCHANGED <<callVars, caddyVars, bound>> => CallTypes'
  <1>1. UNCHANGED <<serverVars, workerVars, drainVars>> => ServerTypes'
    BY Zenon DEF Types, ServerTypes, serverVars, workerVars, drainVars
  <1>2. UNCHANGED mainVars => MainTypes'
    BY Zenon DEF Types, MainTypes, mainVars
  <1>3. UNCHANGED watchVars => WatchTypes'
    BY Zenon DEF Types, WatchTypes, watchVars
  <1>4. UNCHANGED <<callVars, caddyVars, bound>> => CallTypes'
    BY Zenon DEF Types, CallTypes, callVars, caddyVars
  <1> QED  BY <1>1, <1>2, <1>3, <1>4, Zenon

\* Init and shutdown() keep the types of the instance they build and take down.
LEMMA CallerServerTypes ==
    ASSUME Types, NEW c \in Caller, callerStep(c)
    PROVE  ServerTypes'
  <1>1. CASE initOptions(c)
    <2>1. inst' \in Inst /\ servers' \in Inst \cup {0}
      BY <1>1, Constants, Zenon DEF initOptions, registerServers, Types, ServerTypes, CallTypes
    <2> QED  BY <1>1, <2>1, Zenon DEF initOptions, Types, ServerTypes, workerVars, drainVars
  <1>2. CASE initWorkers(c)
    <2>1. workers' \in Inst \cup {0} /\ extension' \in Inst \cup {0}
      BY <1>2, Zenon DEF initWorkers, Types, ServerTypes
    <2> QED  BY <1>2, <2>1, Zenon DEF initWorkers, Types, ServerTypes, serverVars, drainVars
  <1>3. CASE initWatchers(c)
    <2>1. watcherIsActive' \in BOOLEAN /\ activeWatcher' \in Inst \cup {0}
      BY <1>3, Zenon DEF initWatchers, InitWatcher, Types, ServerTypes, drainVars
    <2> QED  BY <1>3, <2>1, Zenon DEF initWatchers, Types, ServerTypes, serverVars, workerVars
  <1>4. CASE activateServers(c)
    BY <1>4, Zenon DEF activateServers, registerHooks, Types, ServerTypes, drainVars
  <1>5. CASE runHooks(c)
    <2>1. ran' \in [Inst -> 0 .. 2]
      BY <1>5 DEF runHooks, Types, ServerTypes
    <2>2. stopped' \in SUBSET Inst
      BY <1>5, Zenon DEF runHooks, Types, ServerTypes
    <2> QED  BY <1>5, <2>1, <2>2, Zenon DEF runHooks, Types, ServerTypes, serverVars, drainVars
  <1>6. CASE DrainWatcher(c)
    BY <1>6, Zenon DEF DrainWatcher, Types, ServerTypes, serverVars, workerVars
  <1>7. CASE waitReloads(c)
    BY <1>7, Zenon DEF waitReloads, Types, ServerTypes, serverVars, workerVars
  <1>8. CASE shutdownEnd(c)
    BY <1>8, Zenon DEF shutdownEnd, unregisterServers, resetGlobals, Types, ServerTypes, drainVars
  <1>9. CASE initLock(c) \/ initPHPThreads(c) \/ shutdownLock(c) \/ drainPHPThreads(c) \/ embed(c)
    BY <1>9, FramedTypes, Zenon
    DEF initLock, initPHPThreads, shutdownLock, drainPHPThreads, embed, initCall, shutdownCall
  <1>10. CASE load \/ Start \/ StartInit \/ Stop \/ onExit
    BY <1>10, FramedTypes, Zenon DEF load, Start, StartInit, Stop, onExit, initCall, shutdownCall
  <1> QED
    BY <1>1, <1>2, <1>3, <1>4, <1>5, <1>6, <1>7, <1>8, <1>9, <1>10, Zenon DEF callerStep, call

\* They keep the types of the main thread and of the watchers.
LEMMA CallerMainTypes ==
    ASSUME Types, Watching, NEW c \in Caller, callerStep(c)
    PROVE  MainTypes' /\ WatchTypes'
  <1>1. CASE initPHPThreads(c)
    <2>1. main' \in [id : Inst \cup {0}, state : {"none", "Ready", "Rebooting", "Reserved"}]
      BY <1>1 DEF initPHPThreads, Types, ServerTypes
    <2> QED  BY <1>1, <2>1, FramedTypes, Zenon DEF initPHPThreads, Types, MainTypes
  <1>2. CASE drainPHPThreads(c)
    <2>1. main' \in [id : Inst \cup {0}, state : {"none", "Ready", "Rebooting", "Reserved"}]
      BY <1>2, Zenon DEF drainPHPThreads, Types, MainTypes
    <2> QED  BY <1>2, <2>1, FramedTypes, Zenon DEF drainPHPThreads, Types, MainTypes
  <1>3. CASE initWatchers(c)
    <2>1. MainTypes'
      BY <1>3, FramedTypes, Zenon DEF initWatchers
    <2>2. ASSUME NEW groups \in SUBSET Group, startWatching(groups)
          PROVE  /\ session' \in [Inst -> [Group -> {"none", "open", "closed"}]]
                 /\ listener' \in [Inst -> {"none", "select", "fired", "callbacks", "restarting", "publish", "gone"}]
      BY <2>2, Zenon DEF startWatching, Types, WatchTypes
    <2>3. /\ session' \in [Inst -> [Group -> {"none", "open", "closed"}]]
          /\ listener' \in [Inst -> {"none", "select", "fired", "callbacks", "restarting", "publish", "gone"}]
      BY <1>3, <2>2, Zenon DEF initWatchers, InitWatcher, Types, WatchTypes
    <2>4. WatchTypes'
      BY <1>3, <2>3, Zenon DEF initWatchers, Types, WatchTypes
    <2> QED  BY <2>1, <2>4, Zenon
  <1>4. CASE DrainWatcher(c)
    <2>1. MainTypes'
      BY <1>4, FramedTypes, Zenon DEF DrainWatcher
    <2>2. stop' \in SUBSET Inst
      BY <1>4, Zenon DEF DrainWatcher, stopWatching, Watching, Types, WatchTypes
    <2>3. session' \in [Inst -> [Group -> {"none", "open", "closed"}]]
      <3>1. ASSUME stopWatching
            PROVE  session' \in [Inst -> [Group -> {"none", "open", "closed"}]]
        BY <3>1 DEF stopWatching, Types, WatchTypes
      <3> QED  BY <1>4, <3>1, Zenon DEF DrainWatcher, Types, WatchTypes
    <2>4. WatchTypes'
      BY <1>4, <2>2, <2>3, Zenon DEF DrainWatcher, Types, WatchTypes
    <2> QED  BY <2>1, <2>4
  <1>5. CASE \/ initLock(c) \/ initOptions(c) \/ initWorkers(c) \/ activateServers(c) \/ shutdownLock(c)
             \/ runHooks(c) \/ waitReloads(c) \/ shutdownEnd(c) \/ embed(c)
    BY <1>5, FramedTypes, Zenon
    DEF initLock, initOptions, initWorkers, activateServers, shutdownLock, runHooks, waitReloads, shutdownEnd,
        embed, initCall, shutdownCall
  <1>6. CASE load \/ Start \/ StartInit \/ Stop \/ onExit
    BY <1>6, FramedTypes, Zenon DEF load, Start, StartInit, Stop, onExit, initCall, shutdownCall
  <1> QED
    BY <1>1, <1>2, <1>3, <1>4, <1>5, <1>6, Zenon DEF callerStep, call

\* The restarts and the watchers leave Init, Shutdown and Caddy alone.
LEMMA OthersFrame ==
    ASSUME otherStep
    PROVE  UNCHANGED <<callVars, serverVars, workerVars, caddyVars, drainVars, bound, stop>>
  <1>1. CASE adminRestart
    BY <1>1, Zenon DEF adminRestart, watchVars
  <1>2. ASSUME NEW r \in Restarter, restarter(r)
        PROVE  UNCHANGED <<callVars, serverVars, workerVars, caddyVars, drainVars, bound, stop>>
    BY <1>2, Zenon DEF restarter, restartCall, restartBegin, restartEnd, watchVars, boundVars
  <1>3. ASSUME NEW i \in Inst, listen(i)
        PROVE  UNCHANGED <<callVars, serverVars, workerVars, caddyVars, drainVars, bound, stop>>
    BY <1>3, Zenon DEF listen, receiveEvent, timerFires, listenerStops, scheduleReload, callRestart,
                       restartReturns, publish, UnchangedByWatcher, boundVars
  <1>4. ASSUME NEW i \in Inst, NEW groups \in SUBSET Group, fileChange(i, groups)
        PROVE  UNCHANGED <<callVars, serverVars, workerVars, caddyVars, drainVars, bound, stop>>
    BY <1>4, Zenon DEF fileChange, UnchangedByWatcher
  <1>5. ASSUME NEW i \in Inst, NEW p \in Group, sessionDies(i, p) \/ retryWatching(i, p)
        PROVE  UNCHANGED <<callVars, serverVars, workerVars, caddyVars, drainVars, bound, stop>>
    BY <1>5, Zenon DEF sessionDies, retryWatching, UnchangedByWatcher, boundVars
  <1> QED  BY <1>1, <1>2, <1>3, <1>4, <1>5, Zenon DEF otherStep

\* The restarts and the watchers keep the types.
LEMMA OthersTypes ==
    ASSUME Types, Restarting, Watching, otherStep
    PROVE  Types'
  <1> DEFINE RType == [Restarter -> {"none", "call", "lock", "boot", "done"}]
             LType == [Inst -> {"none", "select", "fired", "callbacks", "restarting", "publish", "gone"}]
             SType == [Inst -> [Group -> {"none", "open", "closed"}]]
             HType == [Inst -> [Group -> {"idle", "send", "retry"}]]
  <1>1. CallTypes' /\ ServerTypes'
    BY OthersFrame, FramedTypes, Zenon
  <1>2. CASE adminRestart
    <2>1. restart' \in RType
      BY <1>2, Zenon DEF adminRestart, Types, MainTypes
    <2>2. MainTypes' /\ WatchTypes'
      BY <1>2, <2>1, FramedTypes, Zenon DEF adminRestart, Types, MainTypes
    <2> QED  BY <1>1, <2>2, Zenon DEF Types
  <1>3. ASSUME NEW r \in Restarter, restartCall(r) PROVE Types'
    <2>1. restart' \in RType /\ target' \in [Restarter -> Inst \cup {0}]
      BY <1>3, Zenon DEF restartCall, Types, MainTypes
    <2>2. isRebooting' \in SUBSET Inst /\ ignored' \in SUBSET Inst
      BY <1>3 DEF restartCall, Types, MainTypes, Restarting
    <2>3. MainTypes' /\ WatchTypes'
      BY <1>3, <2>1, <2>2, FramedTypes, Zenon DEF restartCall, Types, MainTypes
    <2> QED  BY <1>1, <2>3, Zenon DEF Types
  <1>4. ASSUME NEW r \in Restarter, restartBegin(r) PROVE Types'
    <2>1. restart' \in RType
      BY <1>4, Zenon DEF restartBegin, Types, MainTypes
    <2>2. main' \in [id : Inst \cup {0}, state : {"none", "Ready", "Rebooting", "Reserved"}]
      BY <1>4, Zenon DEF restartBegin, Types, MainTypes
    <2>3. isRebooting' \in SUBSET Inst /\ stale' \in SUBSET Inst /\ scalingMu' \in BOOLEAN
      BY <1>4, Zenon DEF restartBegin, Types, MainTypes, WatchTypes
    <2>4. MainTypes' /\ WatchTypes'
      BY <1>4, <2>1, <2>2, <2>3, Zenon DEF restartBegin, Types, MainTypes, WatchTypes
    <2> QED  BY <1>1, <2>4, Zenon DEF Types
  <1>5. ASSUME NEW r \in Restarter, restartEnd(r) PROVE Types'
    <2>1. restart' \in RType
      BY <1>5, Zenon DEF restartEnd, Types, MainTypes
    <2>2. main' \in [id : Inst \cup {0}, state : {"none", "Ready", "Rebooting", "Reserved"}]
      BY <1>5, Zenon DEF restartEnd, Types, MainTypes
    <2>3. isRebooting' \in SUBSET Inst
      BY <1>5, Zenon DEF restartEnd, Types, MainTypes
    <2>4. MainTypes' /\ WatchTypes'
      BY <1>5, <2>1, <2>2, <2>3, FramedTypes, Zenon DEF restartEnd, Types, MainTypes
    <2> QED  BY <1>1, <2>4, Zenon DEF Types
  <1>6. ASSUME NEW i \in Inst, NEW groups \in SUBSET Group, fileChange(i, groups) PROVE Types'
    <2>1. handle' \in HType /\ stale' \in SUBSET Inst
      BY <1>6, Zenon DEF fileChange, Types, WatchTypes
    <2>2. MainTypes' /\ WatchTypes'
      BY <1>6, <2>1, FramedTypes, Zenon DEF fileChange, Types, WatchTypes
    <2> QED  BY <1>1, <2>2, Zenon DEF Types
  <1>7. ASSUME NEW i \in Inst, NEW p \in Group, sessionDies(i, p) \/ retryWatching(i, p) PROVE Types'
    <2>1. handle' \in HType
      <3>1. ASSUME NEW x \in {"idle", "send", "retry"} PROVE [handle EXCEPT ![i][p] = x] \in HType
        BY Zenon DEF Types, WatchTypes
      <3> QED  BY <1>7, <3>1, Zenon DEF sessionDies, retryWatching
    <2>2. session' \in SType
      <3>1. ASSUME NEW x \in {"none", "open", "closed"} PROVE [session EXCEPT ![i][p] = x] \in SType
        BY Zenon DEF Types, WatchTypes
      <3> QED  BY <1>7, <3>1, Zenon DEF sessionDies, retryWatching, Types, WatchTypes
    <2>3. MainTypes' /\ WatchTypes'
      BY <1>7, <2>1, <2>2, FramedTypes, Zenon DEF sessionDies, retryWatching, Types, WatchTypes
    <2> QED  BY <1>1, <2>3, Zenon DEF Types
  <1>8. ASSUME NEW i \in Inst, NEW p \in Group, receiveEvent(i, p) PROVE Types'
    <2>1. handle' \in HType /\ events' \in [Inst -> SUBSET Group]
      BY <1>8, Zenon DEF receiveEvent, Types, WatchTypes
    <2>2. MainTypes' /\ WatchTypes'
      BY <1>8, <2>1, FramedTypes, Zenon DEF receiveEvent, Types, WatchTypes
    <2> QED  BY <1>1, <2>2, Zenon DEF Types
  <1>9. ASSUME NEW i \in Inst, timerFires(i) \/ listenerStops(i) \/ scheduleReload(i) \/ publish(i) PROVE Types'
    <2>1. listener' \in LType /\ events' \in [Inst -> SUBSET Group] /\ restartWorkers' \in BOOLEAN
      BY <1>9, Zenon DEF timerFires, listenerStops, scheduleReload, publish, Types, WatchTypes
    <2>2. MainTypes' /\ WatchTypes'
      BY <1>9, <2>1, FramedTypes, Zenon
      DEF timerFires, listenerStops, scheduleReload, publish, Types, WatchTypes
    <2> QED  BY <1>1, <2>2, Zenon DEF Types
  <1>10. ASSUME NEW i \in Inst, callRestart(i) \/ restartReturns(i) PROVE Types'
    <2>1. listener' \in LType /\ restartWorkers' \in BOOLEAN
      BY <1>10, Zenon DEF callRestart, restartReturns, Types, WatchTypes
    <2>2. restart' \in RType
      BY <1>10, Zenon DEF callRestart, restartReturns, Types, MainTypes
    <2>3. MainTypes' /\ WatchTypes'
      BY <1>10, <2>1, <2>2, Zenon DEF callRestart, restartReturns, Types, MainTypes, WatchTypes
    <2> QED  BY <1>1, <2>3, Zenon DEF Types
  <1> QED
    BY <1>2, <1>3, <1>4, <1>5, <1>6, <1>7, <1>8, <1>9, <1>10, Zenon DEF otherStep, restarter, listen

\* The types are kept.
LEMMA TypesKept == ASSUME Types, Calling, Restarting, Watching, [Next]_vars PROVE Types'
  <1>1. CASE UNCHANGED vars
    BY <1>1, FramedTypes, Zenon DEF vars, Types, boundVars
  <1> QED
    BY <1>1, Steps, CallerCallTypes, CallerServerTypes, CallerMainTypes, OthersTypes, Zenon DEF Types
-----------------------------------------------------------------------------
(* Layer 1 *)

\* What a caller does to its step and to startupMu
Moves(c) ==
    /\ host' = host
    /\ \A d \in Caller : d # c => pc'[d] = pc[d] /\ after'[d] = after[d]
    /\ \/ startupMu' = startupMu /\ (pc'[c] \in Locked <=> pc[c] \in Locked)
       \/ startupMu = "free" /\ startupMu' = c /\ pc'[c] \in Locked
       \/ startupMu' = "free" /\ pc[c] \in Locked /\ pc'[c] \notin Locked
    /\ pc'[c] \in Closing => after'[c] \in {"idle", "init", "failed"}

\* Init and Shutdown take startupMu where they enter the steps under it, and
\* give it back where they leave them; nobody else's call moves.
LEMMA CallerMoves ==
    ASSUME Types, Calling, NEW c \in Caller, callerStep(c)
    PROVE  Moves(c)
  <1>1. ASSUME NEW s, Goto(c, s)
        PROVE  pc'[c] = s /\ \A d \in Caller : d # c => pc'[d] = pc[d]
    BY <1>1, Zenon DEF Goto, Types, CallTypes
  <1>2. ASSUME NEW s, after' = [after EXCEPT ![c] = s]
        PROVE  after'[c] = s /\ \A d \in Caller : d # c => after'[d] = after[d]
    BY <1>2, Zenon DEF Types, CallTypes
  <1>3. ASSUME Fail(c)
        PROVE  /\ pc'[c] = "hooks" /\ after'[c] = "failed"
               /\ \A d \in Caller : d # c => pc'[d] = pc[d] /\ after'[d] = after[d]
    BY <1>1, <1>2, <1>3, Zenon DEF Fail
  <1>4. pc[c] \in Closing => after[c] \in {"idle", "init", "failed"}
    BY Zenon DEF Calling
  <1>5. ASSUME initCall(c), pc[c] \in {"idle", "init"} PROVE Moves(c)
    <2>1. pc'[c] \in {"failed", "lock"} /\ \A d \in Caller : d # c => pc'[d] = pc[d]
      BY <1>1, <1>5, Zenon DEF initCall
    <2>2. UNCHANGED <<host, after, startupMu>>
      BY <1>5, Zenon DEF initCall
    <2> QED  BY <1>5, <2>1, <2>2, Zenon DEF Moves, Locked, Closing
  <1>6. ASSUME NEW then \in {"idle", "init"}, pc[c] \in {"idle", "collect"}, shutdownCall(c, then) PROVE Moves(c)
    <2>1. pc'[c] \in {"shutdown", then} /\ \A d \in Caller : d # c => pc'[d] = pc[d]
      BY <1>1, <1>6, Zenon DEF shutdownCall
    <2>2. after'[c] = then /\ \A d \in Caller : d # c => after'[d] = after[d]
      BY <1>2, <1>6, Zenon DEF shutdownCall
    <2>3. UNCHANGED <<host, startupMu>>
      BY <1>6, Zenon DEF shutdownCall
    <2> QED  BY <1>6, <2>1, <2>2, <2>3, Zenon DEF Moves, Locked, Closing
  <1>7. ASSUME NEW s \in {"idle", "collect", "failed"}, pc[c] \in {"idle", "started", "failed", "collect"}, Goto(c, s),
               UNCHANGED <<host, after, startupMu>>
        PROVE  Moves(c)
    BY <1>1, <1>7, Zenon DEF Moves, Locked, Closing
  <1>8. CASE initLock(c)
    BY <1>1, <1>4, <1>8 DEF initLock, Moves, Locked, Closing
  <1>9. CASE initOptions(c)
    BY <1>1, <1>3, <1>4, <1>9 DEF initOptions, Moves, Locked, Closing
  <1>10. CASE initPHPThreads(c)
    BY <1>1, <1>3, <1>4, <1>10 DEF initPHPThreads, Moves, Locked, Closing
  <1>11. CASE initWorkers(c)
    BY <1>1, <1>3, <1>4, <1>11 DEF initWorkers, Moves, Locked, Closing
  <1>12. CASE initWatchers(c)
    BY <1>1, <1>3, <1>4, <1>12 DEF initWatchers, InitWatcher, Moves, Locked, Closing
  <1>13. CASE activateServers(c)
    BY <1>1, <1>4, <1>13 DEF activateServers, Moves, Locked, Closing
  <1>14. CASE shutdownLock(c)
    BY <1>1, <1>4, <1>14, Zenon DEF shutdownLock, Moves, Locked, Closing
  <1>15. CASE runHooks(c)
    BY <1>1, <1>4, <1>15, Zenon DEF runHooks, Moves, Locked, Closing
  <1>16. CASE DrainWatcher(c)
    BY <1>1, <1>4, <1>16, Zenon DEF DrainWatcher, Moves, Locked, Closing
  <1>17. CASE waitReloads(c)
    BY <1>1, <1>4, <1>17, Zenon DEF waitReloads, Moves, Locked, Closing
  <1>18. CASE drainPHPThreads(c)
    BY <1>1, <1>4, <1>18, Zenon DEF drainPHPThreads, Moves, Locked, Closing
  <1>19. CASE shutdownEnd(c)
    BY <1>1, <1>4, <1>19, Zenon DEF shutdownEnd, Moves, Locked, Closing
  <1>20. CASE embed(c)
    BY <1>5, <1>6, <1>7, <1>20, Zenon DEF embed
  <1>21. CASE c = "caddy" /\ (load \/ Start \/ StartInit \/ Stop \/ onExit)
    <2>1. CASE load
      BY <1>7, <1>21, <2>1, Zenon DEF load
    <2>2. CASE Start
      BY <1>6, <1>7, <1>21, <2>2, Zenon DEF Start
    <2>3. CASE StartInit
      BY <1>5, <1>21, <2>3, Zenon DEF StartInit
    <2>4. CASE Stop
      BY <1>7, <1>21, <2>4, Zenon DEF Stop
    <2>5. CASE onExit
      BY <1>6, <1>21, <2>5, Zenon DEF onExit
    <2> QED  BY <1>21, <2>1, <2>2, <2>3, <2>4, <2>5, Zenon
  <1> QED
    BY <1>8, <1>9, <1>10, <1>11, <1>12, <1>13, <1>14, <1>15, <1>16, <1>17, <1>18, <1>19, <1>20, <1>21, Zenon DEF callerStep, call

\* A caller that moves is one of the host's, and with OneCaller it is the only
\* one that is not idle.
LEMMA OneActs ==
    ASSUME OneCaller, Types, Calling, NEW c \in Caller, callerStep(c)
    PROVE  Allowed(c) /\ \A d \in Caller : d # c => pc[d] = "idle"
  <1>1. pc[c] # "idle" => Allowed(c)
    BY Zenon DEF Calling
  <1>2. ASSUME call(c) PROVE Allowed(c)
    <2>1. pc[c] # "idle"
      BY <1>2, Zenon DEF call, initLock, initOptions, initPHPThreads, initWorkers, initWatchers, activateServers,
                  shutdownLock, runHooks, DrainWatcher, waitReloads, drainPHPThreads, shutdownEnd
    <2> QED  BY <1>1, <2>1, Zenon
  <1>3. ASSUME embed(c) PROVE Allowed(c)
    BY <1>3, Zenon DEF embed, Allowed
  <1>4. ASSUME c = "caddy", load \/ Start \/ StartInit \/ Stop \/ onExit PROVE Allowed(c)
    BY <1>1, <1>4, Zenon DEF load, Start, StartInit, Stop, onExit, Allowed
  <1>5. Allowed(c)
    BY <1>2, <1>3, <1>4, Zenon DEF callerStep
  <1>6. ASSUME NEW d \in Caller, d # c PROVE pc[d] = "idle"
    BY <1>5, <1>6, Zenon DEF Calling, Allowed, OneCaller
  <1> QED  BY <1>5, <1>6, Zenon

\* The calls are kept in order.
LEMMA CallingKept == ASSUME OneCaller, Types, Calling, [Next]_vars PROVE Calling'
  <1>1. CASE UNCHANGED callVars
    BY <1>1, Zenon DEF Calling, Allowed, callVars
  <1>2. ASSUME NEW c \in Caller, callerStep(c) PROVE Calling'
    <2>1. Moves(c) /\ Allowed(c) /\ \A d \in Caller : d # c => pc[d] = "idle"
      BY <1>2, CallerMoves, OneActs, Zenon
    <2>2. Allowed(c)' /\ \A d \in Caller : d # c => pc'[d] = "idle" /\ startupMu # d
      BY <2>1, Zenon DEF Moves, Allowed, Calling, Locked
    <2>3. startupMu' = c <=> pc'[c] \in Locked
      BY <2>1, Constants, Zenon DEF Moves, Calling
    <2>4. ASSUME NEW d \in Caller, d # c PROVE startupMu' # d
      BY <2>1, <2>2, <2>4, Constants, Zenon DEF Moves
    <2>5. pc'[c] \in Closing => after'[c] \in {"idle", "init", "failed"}
      BY <2>1, Zenon DEF Moves
    <2>6. "idle" \notin Locked /\ "idle" \notin Closing
      BY Zenon DEF Locked, Closing
    <2> QED  BY <2>2, <2>3, <2>4, <2>5, <2>6, Zenon DEF Calling
  <1>3. CASE otherStep
    BY <1>1, <1>3, OthersFrame, Zenon
  <1> QED  BY <1>1, <1>2, <1>3, Steps, Zenon DEF vars
-----------------------------------------------------------------------------
(* Layer 2 *)

\* A restart stops and boots the threads of the main thread that is there.
LEMMA OthersQuiet ==
    ASSUME Types, Restarting, otherStep
    PROVE  main'.id = main.id /\ (Alive' <=> Alive)
  <1>1. CASE UNCHANGED main
    BY <1>1, Zenon DEF Alive
  <1>2. ASSUME NEW r \in Restarter, restartBegin(r)
        PROVE  main'.id = main.id /\ (Alive' <=> Alive)
    BY <1>2 DEF restartBegin, Alive, Types, MainTypes
  <1>3. ASSUME NEW r \in Restarter, restartEnd(r)
        PROVE  main'.id = main.id /\ (Alive' <=> Alive)
    BY <1>3, Zenon DEF restartEnd, Restarting, Alive, Types, MainTypes
  <1>4. adminRestart => UNCHANGED main
    BY Zenon DEF adminRestart
  <1>5. \A r \in Restarter : restartCall(r) => UNCHANGED main
    BY Zenon DEF restartCall
  <1>6. \A i \in Inst : listen(i) => UNCHANGED main
    BY Zenon DEF listen, receiveEvent, timerFires, listenerStops, scheduleReload, callRestart,
                 restartReturns, publish, mainVars
  <1>7. \A i \in Inst, groups \in SUBSET Group : fileChange(i, groups) => UNCHANGED main
    BY Zenon DEF fileChange, mainVars
  <1>8. \A i \in Inst, p \in Group : sessionDies(i, p) \/ retryWatching(i, p) => UNCHANGED main
    BY Zenon DEF sessionDies, retryWatching, mainVars
  <1> QED  BY <1>1, <1>2, <1>3, <1>4, <1>5, <1>6, <1>7, <1>8, Zenon DEF otherStep, restarter

\* A restarter that goes on without booting leaves the one that boots alone.
LEMMA RestartMoved ==
    ASSUME Types, Restarting, NEW r \in Restarter, NEW s \in {"none", "call", "lock", "done"},
           restart' = [restart EXCEPT ![r] = s], UNCHANGED <<main, scalingMu>>, s # "none" => main.id # 0
    PROVE  Restarting'
  <1>1. restart'[r] = s /\ \A q \in Restarter : q # r => restart'[q] = restart[q]
    BY Zenon DEF Types, MainTypes
  <1>2. \A q \in Restarter : restart'[q] = "boot" => restart[q] = "boot"
    BY <1>1, Zenon
  <1>3. \A q \in Restarter : restart'[q] # "none" => main.id # 0
    BY <1>1, Zenon DEF Restarting
  <1> QED  BY <1>2, <1>3, Zenon DEF Restarting

\* One restart at a time.
LEMMA RestartingKept ==
    ASSUME Types, Restarting, Watching, Phases, [Next]_vars
    PROVE  Restarting'
  <1>1. CASE UNCHANGED <<main, scalingMu, restart>>
    BY <1>1, Zenon DEF Restarting
  <1>2. ASSUME NEW c \in Caller, initPHPThreads(c) PROVE Restarting'
    <2>1. ~Alive /\ inst \in Inst
      BY <1>2, Zenon DEF initPHPThreads, Phases, Phase
    <2>2. \A r \in Restarter : restart[r] # "boot"
      BY <2>1, Zenon DEF Restarting, Alive
    <2>3. main'.state # "Rebooting" /\ main'.id # 0
      BY <1>2, <2>1, Constants DEF initPHPThreads
    <2>4. UNCHANGED restart
      BY <1>2, Zenon DEF initPHPThreads
    <2> QED  BY <2>2, <2>3, <2>4, Zenon DEF Restarting
  <1>3. ASSUME NEW c \in Caller, drainPHPThreads(c) PROVE Restarting'
    <2>1. main.state # "Rebooting" /\ \A r \in Restarter : restart[r] # "boot"
      BY <1>3, Zenon DEF drainPHPThreads, Restarting
    <2>2. main'.state # "Rebooting" /\ main'.id = main.id
      BY <1>3, <2>1, Zenon DEF drainPHPThreads, Types, MainTypes
    <2>3. UNCHANGED restart
      BY <1>3, Zenon DEF drainPHPThreads
    <2> QED  BY <2>1, <2>2, <2>3, Zenon DEF Restarting
  <1>4. ASSUME NEW c \in Caller, callerStep(c) PROVE Restarting'
    <2>1. initPHPThreads(c) \/ drainPHPThreads(c) \/ UNCHANGED mainVars
      BY <1>4, Zenon DEF callerStep, call, initLock, initOptions, initWorkers, initWatchers, activateServers,
        shutdownLock, runHooks, DrainWatcher, waitReloads, shutdownEnd, embed, load, Start, StartInit, Stop,
        onExit, initCall, shutdownCall
    <2> QED  BY <1>1, <1>2, <1>3, <2>1, Zenon DEF mainVars
  <1>5. CASE adminRestart
    <2>1. Admin \in Restarter
      BY Zenon DEF Restarter
    <2> QED  BY <1>5, <2>1, RestartMoved, Zenon DEF adminRestart
  <1>6. ASSUME NEW r \in Restarter, restartCall(r) PROVE Restarting'
    <2>1. main.id # 0
      BY <1>6, Zenon DEF restartCall, Restarting
    <2> QED  BY <1>6, <2>1, RestartMoved, Zenon DEF restartCall
  <1>7. ASSUME NEW r \in Restarter, restartBegin(r) PROVE Restarting'
    <2>1. main.id # 0 /\ \A q \in Restarter : restart[q] # "boot"
      BY <1>7, Zenon DEF restartBegin, Restarting
    <2>2. CASE main = [id |-> target[r], state |-> "Ready"]
      <3>1. restart'[r] = "boot" /\ \A q \in Restarter : q # r => restart'[q] = restart[q]
        BY <1>7, <2>2, Zenon DEF restartBegin, Types, MainTypes
      <3>2. main'.state = "Rebooting" /\ main'.id = main.id /\ scalingMu'
        BY <1>7, <2>2, Zenon DEF restartBegin
      <3> QED  BY <2>1, <3>1, <3>2, Zenon DEF Restarting
    <2>3. CASE main # [id |-> target[r], state |-> "Ready"]
      BY <1>7, <2>1, <2>3, RestartMoved, Zenon DEF restartBegin
    <2> QED  BY <2>2, <2>3, Zenon
  <1>8. ASSUME NEW r \in Restarter, restartEnd(r) PROVE Restarting'
    <2>1. restart'[r] = "done" /\ \A q \in Restarter : q # r => restart'[q] = restart[q]
      BY <1>8, Zenon DEF restartEnd, Types, MainTypes
    <2>2. \A q \in Restarter : restart'[q] # "boot"
      BY <1>8, <2>1, Zenon DEF restartEnd, Restarting
    <2>3. main'.state = "Ready" /\ main'.id = main.id /\ main.id # 0
      BY <1>8, Zenon DEF restartEnd, Types, MainTypes, Restarting
    <2> QED  BY <2>2, <2>3, Zenon DEF Restarting
  <1>9. ASSUME NEW i \in Inst, callRestart(i) \/ restartReturns(i) PROVE Restarting'
    <2>1. i \in Restarter /\ main.id # 0
      BY <1>9, Zenon DEF callRestart, restartReturns, Watching, Watched, Restarter
    <2> QED  BY <1>1, <1>9, <2>1, RestartMoved, Zenon DEF callRestart, restartReturns
  <1>10. ASSUME NEW i \in Inst, listen(i), ~callRestart(i), ~restartReturns(i) PROVE Restarting'
    BY <1>1, <1>10, Zenon DEF listen, receiveEvent, timerFires, listenerStops, scheduleReload, publish, mainVars
  <1>11. ASSUME NEW i \in Inst, NEW groups \in SUBSET Group, fileChange(i, groups) PROVE Restarting'
    BY <1>1, <1>11, Zenon DEF fileChange, mainVars
  <1>12. ASSUME NEW i \in Inst, NEW p \in Group, sessionDies(i, p) \/ retryWatching(i, p) PROVE Restarting'
    BY <1>1, <1>12, Zenon DEF sessionDies, retryWatching, mainVars
  <1>13. CASE otherStep
    BY <1>5, <1>6, <1>7, <1>8, <1>9, <1>10, <1>11, <1>12, <1>13, Zenon DEF otherStep, restarter
  <1> QED  BY <1>1, <1>4, <1>13, Steps, Zenon DEF vars, mainVars
-----------------------------------------------------------------------------
(* Layer 3 *)

\* What Watching is about
watching == <<inst, watcherIsActive, activeWatcher, main, listener, stop, restart, session, handle>>

\* A step of another instance's watcher leaves a watcher as it is.
LEMMA FramedWatched ==
    ASSUME NEW i \in Inst, Watched(i), UNCHANGED <<inst, watcherIsActive, activeWatcher, stop>>,
           main'.id = main.id, listener'[i] = listener[i], restart'[i] = restart[i],
           session'[i] = session[i], handle'[i] = handle[i]
    PROVE  Watched(i)'
  BY Zenon DEF Watched

\* A caller that leaves the watchers and the main thread alone.
LEMMA FramedWatching == ASSUME Watching, UNCHANGED watching PROVE Watching'
  <1>1. \A i \in Inst : Watched(i)'
    BY FramedWatched, Zenon DEF Watching, watching
  <1> QED  BY <1>1, Zenon DEF Watching, watching, Alive

\* Init and shutdown() start and stop one watcher at a time.
LEMMA CallerWatching ==
    ASSUME Types, Watching, Phases, NEW c \in Caller, callerStep(c)
    PROVE  Watching'
  <1>1. CASE initOptions(c)
    <2>1. ~watcherIsActive /\ ~watcherIsActive'
      BY <1>1, Zenon DEF initOptions, Phases, Phase, Down, drainVars
    <2>2. inst \in Nat /\ inst' = inst + 1
      BY <1>1, Constants DEF initOptions, Types, ServerTypes
    <2>3. \A i \in Inst : i <= inst => i <= inst'
      BY <2>2, Constants
    <2>4. UNCHANGED <<watcherIsActive, activeWatcher, main, listener, stop, restart, session, handle>>
      BY <1>1, Zenon DEF initOptions, drainVars, mainVars, watchVars
    <2>5. \A i \in Inst : Watched(i)'
      BY <2>3, <2>4, Zenon DEF Watching, Watched
    <2> QED  BY <2>1, <2>5, Zenon DEF Watching
  <1>2. CASE initPHPThreads(c)
    <2>1. ~watcherIsActive /\ ~watcherIsActive' /\ inst \in Inst
      BY <1>2, Zenon DEF initPHPThreads, Phases, Phase, drainVars
    <2>2. main'.id # 0
      BY <1>2, <2>1, Constants DEF initPHPThreads
    <2>3. UNCHANGED <<inst, watcherIsActive, activeWatcher, listener, stop, restart, session, handle>>
      BY <1>2, Zenon DEF initPHPThreads, serverVars, drainVars, watchVars
    <2>4. \A i \in Inst : Watched(i)'
      BY <2>2, <2>3, Zenon DEF Watching, Watched
    <2> QED  BY <2>1, <2>4, Zenon DEF Watching
  <1>3. CASE drainPHPThreads(c)
    <2>1. ~watcherIsActive /\ ~watcherIsActive'
      BY <1>3, Zenon DEF drainPHPThreads, Phases, Phase, drainVars
    <2>2. main'.id = main.id
      BY <1>3, Zenon DEF drainPHPThreads, Types, MainTypes
    <2>3. UNCHANGED <<inst, watcherIsActive, activeWatcher, listener, stop, restart, session, handle>>
      BY <1>3, Zenon DEF drainPHPThreads, serverVars, drainVars, watchVars
    <2>4. \A i \in Inst : Watched(i)'
      BY <2>2, <2>3, FramedWatched, Zenon DEF Watching
    <2> QED  BY <2>1, <2>4, Zenon DEF Watching
  <1>4. CASE DrainWatcher(c)
    <2>1. UNCHANGED <<inst, activeWatcher, main, listener, restart, handle>> /\ ~watcherIsActive'
      BY <1>4, Zenon DEF DrainWatcher, serverVars, mainVars
    <2>2. CASE watcherIsActive
      <3>1. activeWatcher \in Inst /\ listener[activeWatcher] # "none"
        BY <2>2, Zenon DEF Watching
      <3>2. stop' = stop \cup {activeWatcher}
        BY <1>4, <2>2, Zenon DEF DrainWatcher, stopWatching
      <3>3. \A i \in Inst : \A p \in Group : session'[i][p] = "none" <=> session[i][p] = "none"
        BY <1>4, <2>2 DEF DrainWatcher, stopWatching, Types, WatchTypes
      <3>4. ASSUME NEW i \in Inst PROVE Watched(i)'
        <4>1. Watched(i) /\ (i \in stop' => i \in stop \/ i = activeWatcher) /\ (i \in stop \/ i = activeWatcher => i \in stop')
          BY <3>2, Zenon DEF Watching
        <4> QED  BY <2>1, <3>1, <3>3, <4>1, Zenon DEF Watched
      <3> QED  BY <2>1, <3>4, Zenon DEF Watching
    <2>3. CASE ~watcherIsActive
      <3>1. UNCHANGED <<stop, session>>
        BY <1>4, <2>3, Zenon DEF DrainWatcher
      <3>2. \A i \in Inst : Watched(i)'
        BY <2>1, <2>3, <3>1, Zenon DEF Watching, Watched
      <3> QED  BY <2>1, <3>2, Zenon DEF Watching
    <2> QED  BY <2>2, <2>3, Zenon
  <1>5. CASE waitReloads(c)
    <2>1. ~watcherIsActive /\ ~watcherIsActive'
      BY <1>5, Zenon DEF waitReloads, Phases, Phase
    <2>2. UNCHANGED <<inst, main, listener, stop, restart, session, handle>>
      BY <1>5, Zenon DEF waitReloads, serverVars, mainVars, watchVars
    <2>3. \A i \in Inst : Watched(i)'
      BY <2>1, <2>2, Zenon DEF Watching, Watched
    <2> QED  BY <2>1, <2>3, Zenon DEF Watching
  <1>6. CASE initWatchers(c)
    <2>1. /\ inst \in Inst /\ listener[inst] = "none" /\ ~watcherIsActive /\ Alive /\ main.id = inst
      BY <1>6, Zenon DEF initWatchers, Phases, Phase
    <2>2. UNCHANGED <<inst, main, stop, restart, handle>>
      BY <1>6, Zenon DEF initWatchers, serverVars, mainVars
    <2>3. CASE UNCHANGED <<drainVars, listener, session>>
      BY <2>2, <2>3, FramedWatching, Zenon DEF watching, drainVars
    <2>4. ASSUME NEW groups \in SUBSET Group, ~watcherIsActive, watcherIsActive', activeWatcher' = inst,
                 startWatching(groups)
          PROVE  Watching'
      <3>1. listener'[inst] = "select" /\ \A i \in Inst : i # inst => listener'[i] = listener[i]
        BY <2>1, <2>4, Zenon DEF startWatching, Types, WatchTypes
      <3>2. \A i \in Inst : i # inst => session'[i] = session[i]
        BY <2>4, Zenon DEF startWatching, Types, WatchTypes
      <3>3. inst \notin stop /\ (\A p \in Group : handle[inst][p] = "idle") /\ restart[inst] = "none"
        BY <2>1, Zenon DEF Watching, Watched
      <3>4. Watched(inst)'
        BY <2>1, <2>2, <2>4, <3>1, <3>3, Constants DEF Watched
      <3>5. ASSUME NEW i \in Inst, i # inst PROVE Watched(i)'
        <4>1. Watched(i)
          BY Zenon DEF Watching
        <4> QED  BY <2>1, <2>2, <3>1, <3>2, <3>5, <4>1, Zenon DEF Watched
      <3>6. Alive' /\ listener'[inst] # "none"
        BY <2>1, <2>2, <3>1, Zenon DEF Alive
      <3> QED  BY <2>1, <2>2, <2>4, <3>3, <3>4, <3>5, <3>6, Zenon DEF Watching
    <2> QED  BY <1>6, <2>3, <2>4, Zenon DEF initWatchers, InitWatcher
  <1>7. CASE UNCHANGED <<inst, mainVars, drainVars, watchVars>>
    BY <1>7, FramedWatching, Zenon DEF watching, mainVars, drainVars, watchVars
  <1>8. CASE \/ initLock(c) \/ initWorkers(c) \/ activateServers(c) \/ shutdownLock(c) \/ runHooks(c)
             \/ shutdownEnd(c) \/ embed(c)
    BY <1>7, <1>8, Zenon DEF initLock, initWorkers, activateServers, shutdownLock, runHooks, shutdownEnd, embed,
                             initCall, shutdownCall, serverVars
  <1>9. CASE load \/ Start \/ StartInit \/ Stop \/ onExit
    BY <1>7, <1>9, Zenon DEF load, Start, StartInit, Stop, onExit, initCall, shutdownCall, serverVars
  <1> QED
    BY <1>1, <1>2, <1>3, <1>4, <1>5, <1>6, <1>8, <1>9, Zenon DEF callerStep, call

\* A watcher's goroutines and its restart move on.
LEMMA OthersWatched ==
    ASSUME Types, Watching, otherStep, main'.id = main.id,
           UNCHANGED <<inst, watcherIsActive, activeWatcher, stop>>, NEW i \in Inst
    PROVE  Watched(i)' /\ (listener'[i] = "none" <=> listener[i] = "none")
  <1>1. Watched(i) /\ i \in Restarter /\ i # Admin
    BY Constants, Zenon DEF Watching, Restarter, Admin
  <1>2. CASE listener'[i] = listener[i] /\ restart'[i] = restart[i] /\ session'[i] = session[i] /\ handle'[i] = handle[i]
    BY <1>1, <1>2, FramedWatched, Zenon
  <1>3. CASE adminRestart
    <2>1. restart'[i] = restart[i]
      BY <1>1, <1>3, Zenon DEF adminRestart, Types, MainTypes
    <2> QED  BY <1>2, <1>3, <2>1, Zenon DEF adminRestart, watchVars
  <1>4. ASSUME NEW r \in Restarter, restarter(r)
        PROVE  Watched(i)' /\ (listener'[i] = "none" <=> listener[i] = "none")
    <2>1. UNCHANGED <<listener, session, handle>>
      BY <1>4, Zenon DEF restarter, restartCall, restartBegin, restartEnd, watchVars
    <2>2. r # i => restart'[i] = restart[i]
      BY <1>1, <1>4, Zenon DEF restarter, restartCall, restartBegin, restartEnd, Types, MainTypes
    <2>3. r = i => restart[i] # "none"
      BY <1>4, Zenon DEF restarter, restartCall, restartBegin, restartEnd
    <2>4. CASE r # i
      BY <1>2, <2>1, <2>2, <2>4, Zenon
    <2>5. CASE r = i
      BY <1>1, <2>1, <2>3, <2>5, Zenon DEF Watched
    <2> QED  BY <2>4, <2>5, Zenon
  <1>5. ASSUME NEW j \in Inst, NEW groups \in SUBSET Group, fileChange(j, groups)
        PROVE  Watched(i)' /\ (listener'[i] = "none" <=> listener[i] = "none")
    <2>1. UNCHANGED <<listener, restart, session>>
      BY <1>5, Zenon DEF fileChange, mainVars
    <2>2. \A p \in Group : handle'[i][p] # "idle" => session[i][p] # "none"
      BY <1>1, <1>5, Zenon DEF fileChange, Watched, Types, WatchTypes
    <2> QED  BY <1>1, <2>1, <2>2, Zenon DEF Watched
  <1>6. ASSUME NEW j \in Inst, NEW q \in Group, sessionDies(j, q) \/ retryWatching(j, q)
        PROVE  Watched(i)' /\ (listener'[i] = "none" <=> listener[i] = "none")
    <2>1. UNCHANGED <<listener, restart>>
      BY <1>6, Zenon DEF sessionDies, retryWatching, mainVars
    <2>2. i # j => session'[i] = session[i] /\ handle'[i] = handle[i]
      BY <1>6, Zenon DEF sessionDies, retryWatching, Types, WatchTypes
    <2>3. CASE i = j
      <3>1. ASSUME NEW p \in Group, p # q PROVE session'[i][p] = session[i][p] /\ handle'[i][p] = handle[i][p]
        <4>1. session'[i][p] = session[i][p]
          BY <1>6, <2>3, <3>1 DEF sessionDies, retryWatching, Types, WatchTypes
        <4>2. handle'[i][p] = handle[i][p]
          BY <1>6, <2>3, <3>1 DEF sessionDies, retryWatching, Types, WatchTypes
        <4> QED  BY <4>1, <4>2, Zenon
      <3>2. session[i][q] # "none" /\ session'[i][q] # "none"
        BY <1>1, <1>6, <2>3 DEF sessionDies, retryWatching, Types, WatchTypes, Watched
      <3> QED  BY <1>1, <2>1, <3>1, <3>2, Zenon DEF Watched
    <2> QED  BY <1>2, <2>1, <2>2, <2>3, Zenon
  <1>7. ASSUME NEW j \in Inst, listen(j)
        PROVE  Watched(i)' /\ (listener'[i] = "none" <=> listener[i] = "none")
    <2>1. UNCHANGED session
      BY <1>7, Zenon DEF listen, receiveEvent, timerFires, listenerStops, scheduleReload, callRestart,
                         restartReturns, publish
    <2>2. i # j => listener'[i] = listener[i] /\ restart'[i] = restart[i] /\ handle'[i] = handle[i]
      <3>1. i # j => listener'[i] = listener[i] /\ handle'[i] = handle[i]
        BY <1>7, Zenon DEF listen, receiveEvent, timerFires, listenerStops, scheduleReload, callRestart,
                           restartReturns, publish, Types, WatchTypes
      <3>2. i # j => restart'[i] = restart[i]
        BY <1>1, <1>7, Zenon DEF listen, receiveEvent, timerFires, listenerStops, scheduleReload, callRestart,
                                 restartReturns, publish, mainVars, Types, MainTypes
      <3> QED  BY <3>1, <3>2, Zenon
    <2>3. CASE i = j
      <3>1. \A p \in Group : handle'[i][p] # "idle" => handle[i][p] # "idle"
        BY <1>7, <2>3 DEF listen, receiveEvent, timerFires, listenerStops, scheduleReload, callRestart,
                          restartReturns, publish, Types, WatchTypes
      <3>2. listener[i] # "none" /\ listener'[i] # "none"
        BY <1>7, <2>3, Zenon DEF listen, receiveEvent, timerFires, listenerStops, scheduleReload, callRestart,
                          restartReturns, publish, Types, WatchTypes
      <3>3. CASE callRestart(i) \/ restartReturns(i)
        <4>1. listener'[i] # "restarting" => restart'[i] = "none"
          BY <1>1, <3>3, Zenon DEF callRestart, restartReturns, Types, WatchTypes, MainTypes, Watched
        <4> QED  BY <1>1, <2>1, <3>1, <3>2, <4>1, Zenon DEF Watched
      <3>4. CASE ~callRestart(i) /\ ~restartReturns(i)
        <4>1. UNCHANGED restart /\ listener[i] # "restarting"
          BY <1>7, <2>3, <3>4, Zenon DEF listen, receiveEvent, timerFires, listenerStops, scheduleReload, publish, mainVars
        <4>2. restart'[i] = "none"
          BY <1>1, <4>1, Zenon DEF Watched
        <4> QED  BY <1>1, <2>1, <3>1, <3>2, <4>2, Zenon DEF Watched
      <3> QED  BY <3>3, <3>4, Zenon
    <2> QED  BY <1>2, <2>1, <2>2, <2>3, Zenon
  <1> QED  BY <1>3, <1>4, <1>5, <1>6, <1>7, Zenon DEF otherStep

\* The watchers are kept in order.
LEMMA WatchingKept == ASSUME Types, Restarting, Watching, Phases, [Next]_vars PROVE Watching'
  <1>1. CASE UNCHANGED vars
    BY <1>1, FramedWatching, Zenon DEF vars, watching, serverVars, mainVars, drainVars, watchVars
  <1>2. CASE otherStep
    <2>1. main'.id = main.id /\ (Alive' <=> Alive)
      BY <1>2, OthersQuiet, Zenon
    <2>2. UNCHANGED <<inst, watcherIsActive, activeWatcher, stop>>
      BY <1>2, OthersFrame, Zenon DEF serverVars, drainVars
    <2>3. \A i \in Inst : Watched(i)' /\ (listener'[i] = "none" <=> listener[i] = "none")
      BY <1>2, <2>1, <2>2, OthersWatched, Zenon
    <2> QED  BY <2>1, <2>2, <2>3, Zenon DEF Watching
  <1> QED  BY <1>1, <1>2, Steps, CallerWatching, Zenon
-----------------------------------------------------------------------------
(* Layer 4 *)

\* What an instance is made of, but for its threads
parts == <<isRunning, inst, servers, active, workers, stopped, onServerShutdown, ran, watcherIsActive>>

\* An instance stays up, or down, in the steps that leave its parts alone.
LEMMA FramedUp ==
    ASSUME UNCHANGED parts, main'.id = main.id, Alive' <=> Alive
    PROVE  (Up' <=> Up) /\ (Down' <=> Down) /\ (HooksRan' <=> HooksRan)
  <1>1. HooksRan' <=> HooksRan
    BY Zenon DEF parts, HooksRan
  <1> QED  BY <1>1, Zenon DEF parts, Up, Down

\* A caller outside of Init and Shutdown has nothing to respect.
LEMMA IdlePhase == ASSUME NEW c \in Caller, pc[c] \in {"idle", "collect", "started", "failed"} PROVE Phase(c)
  BY Zenon DEF Phase, Locked

\* When no call is inside Init or Shutdown, startupMu is free.
LEMMA NobodyInside ==
    ASSUME Types, Calling, \A c \in Caller : pc[c] \notin Locked
    PROVE  startupMu = "free"
  BY Zenon DEF Types, CallTypes, Calling

\* Init and Shutdown build an instance, and take it down, in order; a caller
\* goes in where the last one has come out.
LEMMA CallerPhases ==
    ASSUME OneCaller, Types, Calling, Restarting, Watching, Phases, Types', Calling', NEW c \in Caller, callerStep(c)
    PROVE  Phases'
  <1> DEFINE Bounded == workers <= inst /\ \A i \in stopped : i <= inst
  <1>1. Moves(c) /\ \A d \in Caller : d # c => pc[d] = "idle" /\ pc'[d] = "idle"
    BY CallerMoves, OneActs, Zenon DEF Moves
  <1>2. \A d \in Caller : d # c => Phase(d)'
    <2>1. ASSUME NEW d \in Caller, d # c PROVE Phase(d)'
      BY <1>1, <2>1, Zenon DEF Phase, Locked
    <2> QED  BY <2>1, Zenon
  <1>3. SUFFICES Phase(c)' /\ Resting' /\ Bounded'
    BY <1>2, Zenon DEF Phases
  <1>4. Phase(c) /\ Resting /\ Bounded
    BY Zenon DEF Phases
  <1>5. ASSUME NEW s, Goto(c, s) PROVE pc'[c] = s
    BY <1>5, Zenon DEF Goto, Types, CallTypes
  <1>6. c # "free" /\ (startupMu' = c <=> pc'[c] \in Locked) /\ (startupMu = c <=> pc[c] \in Locked)
    BY Constants, Zenon DEF Calling
  <1>7. ASSUME pc'[c] \in Locked PROVE Resting'
    BY <1>6, <1>7, Zenon DEF Resting
  <1>8. ASSUME pc[c] \notin Locked PROVE startupMu = "free"
    <2>1. \A d \in Caller : pc[d] \notin Locked
      BY <1>1, <1>8, Zenon DEF Locked
    <2> QED  BY <2>1, NobodyInside, Zenon
  <1>9. ASSUME pc[c] \notin Locked, pc[c] # "lock" PROVE IF isRunning THEN Up ELSE Down
    <2>1. \A d \in Caller : pc[d] # "lock"
      BY <1>1, <1>9, Zenon
    <2> QED  BY <1>4, <1>8, <1>9, <2>1, Zenon DEF Resting
  <1>10. ASSUME UNCHANGED <<serverVars, workerVars>> PROVE Bounded'
    BY <1>4, <1>10, Zenon DEF serverVars, workerVars
  <1>11. ASSUME UNCHANGED <<isRunning, serverVars, workerVars, mainVars, drainVars>>
         PROVE  (Up' <=> Up) /\ (Down' <=> Down) /\ (HooksRan' <=> HooksRan)
    <2>1. UNCHANGED parts /\ main'.id = main.id /\ (Alive' <=> Alive)
      BY <1>11, Zenon DEF parts, Alive, serverVars, workerVars, mainVars, drainVars
    <2> QED  BY <2>1, FramedUp, Zenon
  <1>12. ASSUME initCall(c), pc[c] \in {"idle", "init"} PROVE Phase(c)' /\ Resting' /\ Bounded'
    <2>1. IF isRunning THEN Up ELSE Down
      BY <1>9, <1>12, Zenon DEF Locked
    <2>2. CASE isRunning
      <3>1. pc'[c] = "failed" /\ isRunning'
        BY <1>5, <1>12, <2>2, Zenon DEF initCall
      <3>2. Up'
        BY <1>11, <1>12, <2>1, <2>2, <3>1, Zenon DEF initCall
      <3> QED  BY <1>10, <1>12, <3>1, <3>2, Zenon DEF initCall, Phase, Locked, Resting
    <2>3. CASE ~isRunning
      <3>1. pc'[c] = "lock" /\ isRunning'
        BY <1>5, <1>12, <2>3, Zenon DEF initCall
      <3>2. Down'
        BY <1>12, <2>1, <2>3, Zenon DEF initCall, Down, HooksRan, Alive, serverVars, workerVars, mainVars, drainVars
      <3> QED  BY <1>10, <1>12, <3>1, <3>2, Zenon DEF initCall, Phase, Locked, Resting
    <2> QED  BY <2>2, <2>3, Zenon
  <1>13. ASSUME NEW then \in {"idle", "init"}, pc[c] \in {"idle", "collect"}, shutdownCall(c, then)
         PROVE  Phase(c)' /\ Resting' /\ Bounded'
    <2>1. IF isRunning THEN Up ELSE Down
      BY <1>9, <1>13, Zenon DEF Locked
    <2>2. isRunning' = isRunning /\ (IF isRunning THEN pc'[c] = "shutdown" ELSE pc'[c] = then)
      BY <1>5, <1>13, Zenon DEF shutdownCall
    <2>3. IF isRunning' THEN Up' ELSE Down'
      <3>1. (Up' <=> Up) /\ (Down' <=> Down)
        BY <1>11, <1>13, Zenon DEF shutdownCall
      <3> QED  BY <2>1, <2>2, <3>1, Zenon
    <2>4. Bounded'
      BY <1>10, <1>13, Zenon DEF shutdownCall
    <2> QED  BY <1>13, <2>2, <2>3, <2>4, Zenon DEF Phase, Locked, Resting
  <1>14. ASSUME NEW s \in {"idle", "collect", "failed"}, pc[c] \in {"idle", "started", "failed", "collect"}, Goto(c, s),
                UNCHANGED <<isRunning, serverVars, workerVars, mainVars, drainVars>>
         PROVE  Phase(c)' /\ Resting' /\ Bounded'
    <2>1. IF isRunning THEN Up ELSE Down
      BY <1>9, <1>14, Zenon DEF Locked
    <2>2. IF isRunning' THEN Up' ELSE Down'
      BY <1>11, <1>14, <2>1, Zenon
    <2>3. pc'[c] = s /\ Bounded'
      BY <1>5, <1>10, <1>14, Zenon
    <2> QED  BY <1>14, <2>2, <2>3, Zenon DEF Phase, Locked, Resting
  <1>15. CASE initLock(c)
    <2>1. pc'[c] = "options" /\ isRunning' = isRunning
      BY <1>5, <1>15, Zenon DEF initLock
    <2>2. isRunning /\ Down
      BY <1>4, <1>15, Zenon DEF initLock, Phase
    <2>3. Down' /\ Bounded'
      BY <1>10, <1>11, <1>15, <2>2, Zenon DEF initLock
    <2> QED  BY <1>7, <2>1, <2>2, <2>3, Zenon DEF Phase, Locked
  <1>16. CASE initOptions(c)
    <2>1. isRunning /\ Down
      BY <1>4, <1>16, Zenon DEF initOptions, Phase, Locked
    <2>2. inst' = inst + 1 /\ inst \in Nat /\ inst' \in Inst /\ workers \in Nat /\ stopped \subseteq Nat
      BY <1>16, Constants DEF initOptions, Types, ServerTypes, CallTypes
    <2>3. UNCHANGED <<isRunning, active, workers, stopped, onServerShutdown, ran, watcherIsActive, main, listener>>
      BY <1>16, Zenon DEF initOptions, workerVars, mainVars, drainVars, watchVars
    <2>4. Bounded'
      BY <1>4, <2>2, <2>3
    <2>5. inst' \notin stopped /\ listener[inst'] = "none"
      BY <1>4, <2>2 DEF Watching, Watched
    <2>6. pc'[c] = "hooks" \/ (pc'[c] = "threads" /\ servers' = inst')
      BY <1>5, <1>16, Zenon DEF initOptions, Fail, registerServers
    <2>7. HooksRan' /\ ~Alive' /\ active' = 0 /\ workers' = 0 /\ ~watcherIsActive' /\ isRunning'
      BY <2>1, <2>3, Zenon DEF Down, HooksRan, Alive
    <2> QED  BY <1>7, <2>2, <2>3, <2>4, <2>5, <2>6, <2>7, Zenon DEF Phase, Locked
  <1>17. CASE initPHPThreads(c)
    <2>1. /\ isRunning /\ inst \in Inst /\ active = 0 /\ servers = inst /\ inst \notin stopped /\ HooksRan
          /\ listener[inst] = "none" /\ ~watcherIsActive /\ workers = 0
      BY <1>4, <1>17, Zenon DEF initPHPThreads, Phase, Locked
    <2>2. UNCHANGED <<isRunning, inst, active, servers, workers, stopped, onServerShutdown, ran, watcherIsActive, listener>>
      BY <1>17, Zenon DEF initPHPThreads, serverVars, workerVars, drainVars, watchVars
    <2>3. Bounded' /\ HooksRan'
      BY <1>4, <2>1, <2>2, Zenon DEF HooksRan
    <2>4. pc'[c] = "hooks" \/ (pc'[c] = "workers" /\ main' = [id |-> inst, state |-> "Ready"])
      BY <1>5, <1>17, Zenon DEF initPHPThreads, Fail
    <2> QED  BY <1>7, <2>1, <2>2, <2>3, <2>4 DEF Phase, Locked, Alive
  <1>18. CASE initWorkers(c)
    <2>1. /\ isRunning /\ inst \in Inst /\ active = 0 /\ servers = inst /\ inst \notin stopped /\ HooksRan
          /\ listener[inst] = "none" /\ ~watcherIsActive /\ Alive /\ main.id = inst
      BY <1>4, <1>18, Zenon DEF initWorkers, Phase, Locked
    <2>2. /\ UNCHANGED <<isRunning, inst, active, servers, stopped, onServerShutdown, ran, watcherIsActive, listener, main>>
          /\ workers' = inst
      BY <1>18, Zenon DEF initWorkers, serverVars, drainVars, mainVars, watchVars
    <2>3. HooksRan' /\ Alive'
      BY <2>1, <2>2, Zenon DEF HooksRan, Alive
    <2>4. Bounded'
      BY <1>4, <2>1, <2>2, Constants
    <2>5. pc'[c] = "hooks" \/ pc'[c] = "watchers"
      BY <1>5, <1>18, Zenon DEF initWorkers, Fail
    <2> QED  BY <1>7, <2>1, <2>2, <2>3, <2>4, <2>5, Zenon DEF Phase, Locked
  <1>19. CASE initWatchers(c)
    <2>1. /\ isRunning /\ inst \in Inst /\ active = 0 /\ servers = inst /\ inst \notin stopped /\ HooksRan
          /\ Alive /\ main.id = inst /\ workers = inst
      BY <1>4, <1>19, Zenon DEF initWatchers, Phase, Locked
    <2>2. /\ UNCHANGED <<isRunning, inst, active, servers, workers, stopped, onServerShutdown, ran, main>>
      BY <1>19, Zenon DEF initWatchers, serverVars, workerVars, mainVars
    <2>3. HooksRan' /\ Alive' /\ Bounded'
      BY <1>4, <2>1, <2>2, Zenon DEF HooksRan, Alive
    <2>4. pc'[c] = "hooks" \/ pc'[c] = "activate"
      BY <1>5, <1>19, Zenon DEF initWatchers, InitWatcher, Fail
    <2> QED  BY <1>7, <2>1, <2>2, <2>3, <2>4, Zenon DEF Phase, Locked
  <1>20. CASE activateServers(c)
    <2>1. /\ isRunning /\ inst \in Inst /\ servers = inst /\ inst \notin stopped
          /\ Alive /\ main.id = inst /\ workers = inst
      BY <1>4, <1>20, Zenon DEF activateServers, Phase, Locked
    <2>2. /\ UNCHANGED <<isRunning, inst, servers, workers, stopped, main>>
          /\ active' = servers /\ onServerShutdown' = inst
      BY <1>20, Zenon DEF activateServers, registerHooks, mainVars
    <2>3. Up' /\ Bounded'
      BY <1>4, <2>1, <2>2, Zenon DEF Up, Alive
    <2>4. pc'[c] = "started"
      BY <1>5, <1>20, Zenon DEF activateServers
    <2> QED  BY <2>1, <2>2, <2>3, <2>4, Zenon DEF Phase, Locked, Resting
  <1>21. CASE shutdownLock(c)
    <2>1. isRunning /\ Up
      BY <1>4, <1>9, <1>21, Zenon DEF shutdownLock, Phase, Locked
    <2>2. Up' /\ Bounded' /\ isRunning'
      BY <1>10, <1>11, <1>21, <2>1, Zenon DEF shutdownLock
    <2>3. active' # 0
      BY <2>2, Constants, Zenon DEF Up
    <2>4. pc'[c] = "hooks"
      BY <1>5, <1>21, Zenon DEF shutdownLock
    <2> QED  BY <1>7, <2>2, <2>3, <2>4, Zenon DEF Phase, Locked
  <1>22. CASE runHooks(c)
    <2>1. UNCHANGED <<isRunning, inst, workers, onServerShutdown>> /\ isRunning
      BY <1>4, <1>22, Zenon DEF runHooks, Phase, Locked, serverVars
    <2>2. HooksRan'
      BY <1>22, <2>1 DEF runHooks, HooksRan, Types, ServerTypes
    <2>3. Bounded'
      BY <1>4, <1>22, <2>1, Zenon DEF runHooks
    <2>4. pc'[c] = "drainWatcher"
      BY <1>5, <1>22, Zenon DEF runHooks
    <2> QED  BY <1>7, <2>1, <2>2, <2>3, <2>4, Zenon DEF Phase, Locked
  <1>23. CASE DrainWatcher(c) \/ waitReloads(c)
    <2>1. isRunning /\ HooksRan /\ ~watcherIsActive'
      BY <1>4, <1>23 DEF DrainWatcher, waitReloads, Phase, Locked
    <2>2. UNCHANGED <<isRunning, serverVars, workerVars>>
      BY <1>23, Zenon DEF DrainWatcher, waitReloads
    <2>3. HooksRan' /\ Bounded'
      BY <1>10, <2>1, <2>2, Zenon DEF HooksRan, workerVars
    <2>4. pc'[c] = "wait" \/ pc'[c] = "drainThreads"
      BY <1>5, <1>23, Zenon DEF DrainWatcher, waitReloads
    <2> QED  BY <1>7, <2>1, <2>2, <2>3, <2>4, Zenon DEF Phase, Locked
  <1>24. CASE drainPHPThreads(c)
    <2>1. isRunning /\ HooksRan /\ ~watcherIsActive
      BY <1>4, <1>24, Zenon DEF drainPHPThreads, Phase, Locked
    <2>2. UNCHANGED <<isRunning, serverVars, workerVars, drainVars>>
      BY <1>24, Zenon DEF drainPHPThreads
    <2>3. HooksRan' /\ Bounded' /\ ~watcherIsActive'
      BY <1>10, <2>1, <2>2, Zenon DEF HooksRan, workerVars, drainVars
    <2>4. ~Alive'
      BY <1>24, Zenon DEF drainPHPThreads, Restarting, Types, MainTypes, Alive
    <2>5. pc'[c] = "unregister"
      BY <1>5, <1>24, Zenon DEF drainPHPThreads
    <2> QED  BY <1>7, <2>1, <2>2, <2>3, <2>4, <2>5, Zenon DEF Phase, Locked
  <1>25. CASE shutdownEnd(c)
    <2>1. HooksRan /\ ~watcherIsActive /\ ~Alive
      BY <1>4, <1>25, Zenon DEF shutdownEnd, Phase
    <2>2. /\ UNCHANGED <<inst, stopped, onServerShutdown, ran, watcherIsActive, main>>
          /\ active' = 0 /\ servers' = 0 /\ workers' = 0 /\ ~isRunning'
      BY <1>25, Zenon DEF shutdownEnd, unregisterServers, resetGlobals, mainVars, drainVars
    <2>3. Down'
      BY <2>1, <2>2, Zenon DEF Down, HooksRan, Alive
    <2>4. Bounded'
      BY <1>4, <2>2, Constants DEF Types, ServerTypes
    <2>5. pc'[c] \in {"idle", "init", "failed"}
      BY <1>5, <1>25, Zenon DEF shutdownEnd, Calling, Closing
    <2> QED  BY <2>2, <2>3, <2>4, <2>5, Zenon DEF Phase, Locked, Resting
  <1>26. CASE embed(c)
    BY <1>12, <1>13, <1>14, <1>26, Zenon DEF embed
  <1>27. CASE c = "caddy" /\ (load \/ Start \/ StartInit \/ Stop \/ onExit)
    <2>1. CASE load
      BY <1>14, <1>27, <2>1, Zenon DEF load
    <2>2. CASE Start
      BY <1>13, <1>14, <1>27, <2>2, Zenon DEF Start
    <2>3. CASE StartInit
      BY <1>12, <1>27, <2>3, Zenon DEF StartInit
    <2>4. CASE Stop
      BY <1>14, <1>27, <2>4, Zenon DEF Stop
    <2>5. CASE onExit
      BY <1>13, <1>27, <2>5, Zenon DEF onExit
    <2> QED  BY <1>27, <2>1, <2>2, <2>3, <2>4, <2>5, Zenon
  <1> QED
    BY <1>15, <1>16, <1>17, <1>18, <1>19, <1>20, <1>21, <1>22, <1>23, <1>24, <1>25, <1>26, <1>27, Zenon
    DEF callerStep, call

\* Restarts and watchers keep what Init and Shutdown count on.
LEMMA PhasesKept ==
    ASSUME OneCaller, Types, Calling, Restarting, Watching, Phases, Types', Calling', [Next]_vars
    PROVE  Phases'
  <1>1. ASSUME UNCHANGED <<callVars, parts>>, main'.id = main.id, Alive' <=> Alive,
               \A i \in Inst : listener'[i] = "none" <=> listener[i] = "none"
        PROVE  Phases'
    <2>1. (Up' <=> Up) /\ (Down' <=> Down) /\ (HooksRan' <=> HooksRan)
      BY <1>1, FramedUp, Zenon
    <2>2. ASSUME NEW c \in Caller PROVE Phase(c)'
      <3>1. Phase(c)
        BY Zenon DEF Phases
      <3>2. UNCHANGED <<pc, isRunning, inst, servers, active, workers, stopped, watcherIsActive>>
        BY <1>1, Zenon DEF callVars, parts
      <3> QED  BY <1>1, <2>1, <3>1, <3>2, Zenon DEF Phase
    <2>3. Resting'
      <3>1. UNCHANGED <<pc, startupMu, isRunning>>
        BY <1>1, Zenon DEF callVars
      <3> QED  BY <2>1, <3>1, Zenon DEF Phases, Resting
    <2> QED  BY <1>1, <2>2, <2>3, Zenon DEF Phases, parts
  <1>2. CASE otherStep
    <2>1. main'.id = main.id /\ (Alive' <=> Alive)
      BY <1>2, OthersQuiet, Zenon
    <2>2. UNCHANGED <<callVars, serverVars, workerVars, drainVars, stop>>
      BY <1>2, OthersFrame, Zenon
    <2>3. \A i \in Inst : listener'[i] = "none" <=> listener[i] = "none"
      BY <1>2, <2>1, <2>2, OthersWatched, Zenon DEF serverVars, drainVars
    <2> QED  BY <1>1, <2>1, <2>2, <2>3, Zenon DEF callVars, parts, serverVars, workerVars, drainVars
  <1>3. CASE UNCHANGED vars
    BY <1>1, <1>3, Zenon DEF vars, callVars, parts, serverVars, workerVars, drainVars, mainVars, watchVars, Alive
  <1> QED  BY <1>2, <1>3, Steps, CallerPhases, Zenon
-----------------------------------------------------------------------------
(* Layer 5 *)

\* Caddy's loads: Start refuses one with the instance as the load found it, and
\* everything Init and Shutdown do afterwards is done for a load it accepted, or
\* for the end of the process.
LEMMA RefusingKept ==
    ASSUME OneCaller, Types, Calling, Refusing, [Next]_vars
    PROVE  Refusing'
  <1>1. CASE UNCHANGED <<callVars, serverVars, caddyVars>>
    BY <1>1, Zenon DEF Refusing, callVars, serverVars, caddyVars
  <1>2. ASSUME NEW s, Goto("caddy", s) PROVE pc'["caddy"] = s
    BY <1>2, Constants, Zenon DEF Goto, Types, CallTypes
  <1>3. ASSUME ~refused', pc'["caddy"] # "collect" PROVE Refusing'
    BY <1>3, Zenon DEF Refusing
  <1>4. ASSUME pc'["caddy"] = "idle" PROVE Refusing'
    BY <1>4, Zenon DEF Refusing, Closing
  <1>5. ASSUME NEW c \in Caller, c # "caddy", callerStep(c) PROVE Refusing'
    <2>1. "caddy" \in Caller
      BY Constants, Zenon
    <2>2. \A d \in Caller : d # c => pc[d] = "idle"
      BY <1>5, OneActs, Zenon
    <2>3. \A d \in Caller : d # c => pc'[d] = pc[d]
      BY <1>5, CallerMoves, Zenon DEF Moves
    <2> QED  BY <1>4, <1>5, <2>1, <2>2, <2>3, Zenon
  <1>6. CASE \/ initLock("caddy") \/ initOptions("caddy") \/ initPHPThreads("caddy") \/ initWorkers("caddy")
             \/ initWatchers("caddy") \/ activateServers("caddy")
    <2>1. ~refused
      BY <1>6, Zenon DEF initLock, initOptions, initPHPThreads, initWorkers, initWatchers, activateServers, Refusing, Closing
    <2>2. UNCHANGED refused
      BY <1>6, Zenon DEF initLock, initOptions, initPHPThreads, initWorkers, initWatchers, activateServers, caddyVars
    <2>3. pc'["caddy"] \in {"options", "hooks", "threads", "workers", "watchers", "activate", "started"}
      BY <1>2, <1>6, Zenon DEF initLock, initOptions, initPHPThreads, initWorkers, initWatchers, InitWatcher,
                               activateServers, Fail
    <2> QED  BY <1>3, <2>1, <2>2, <2>3, Zenon
  <1>7. CASE \/ shutdownLock("caddy") \/ runHooks("caddy") \/ DrainWatcher("caddy") \/ waitReloads("caddy")
             \/ drainPHPThreads("caddy")
    <2>1. UNCHANGED <<after, caddyVars>>
      BY <1>7, Zenon DEF shutdownLock, runHooks, DrainWatcher, waitReloads, drainPHPThreads
    <2>2. pc["caddy"] \in Closing
      BY <1>7, Zenon DEF shutdownLock, runHooks, DrainWatcher, waitReloads, drainPHPThreads, Closing
    <2>3. pc'["caddy"] \in Closing
      <3>1. pc'["caddy"] \in {"hooks", "drainWatcher", "wait", "drainThreads", "unregister"}
        BY <1>2, <1>7, Zenon DEF shutdownLock, runHooks, DrainWatcher, waitReloads, drainPHPThreads
      <3> QED  BY <3>1, Zenon DEF Closing
    <2> QED  BY <2>1, <2>2, <2>3, Zenon DEF Refusing, Closing, caddyVars
  <1>8. CASE shutdownEnd("caddy")
    <2>1. pc["caddy"] \in Closing /\ pc'["caddy"] = after["caddy"]
      BY <1>2, <1>8, Zenon DEF shutdownEnd, Closing
    <2>2. after["caddy"] \in {"idle", "init", "failed"} /\ (refused => after["caddy"] = "idle")
      BY <2>1, Constants, Zenon DEF Calling, Refusing
    <2>3. UNCHANGED refused
      BY <1>8, Zenon DEF shutdownEnd, caddyVars
    <2> QED  BY <1>3, <1>4, <2>1, <2>2, <2>3, Zenon
  <1>9. CASE load
    <2>1. pc'["caddy"] = "collect" /\ ~refused' /\ before' = active /\ UNCHANGED active
      BY <1>2, <1>9, Zenon DEF load, serverVars
    <2> QED  BY <2>1, Zenon DEF Refusing
  <1>10. ASSUME shutdownCall("caddy", "init"), pc["caddy"] = "collect" PROVE Refusing'
    <2>1. ~refused /\ UNCHANGED refused
      BY <1>10, Zenon DEF shutdownCall, Refusing, caddyVars
    <2>2. pc'["caddy"] \in {"shutdown", "init"}
      BY <1>2, <1>10, Zenon DEF shutdownCall
    <2> QED  BY <1>3, <2>1, <2>2, Zenon
  <1>11. CASE Start
    <2>1. CASE shutdownCall("caddy", "init")
      BY <1>10, <1>11, <2>1, Zenon DEF Start
    <2>2. CASE ~shutdownCall("caddy", "init")
      <3>1. pc["caddy"] = "collect" /\ pc'["caddy"] = "failed" /\ UNCHANGED <<active, before>>
        BY <1>2, <1>11, <2>2, Zenon DEF Start, serverVars
      <3> QED  BY <3>1, Zenon DEF Refusing, Closing
    <2> QED  BY <2>1, <2>2, Zenon
  <1>12. CASE StartInit
    <2>1. ~refused
      BY <1>12, Zenon DEF StartInit, Refusing, Closing
    <2>2. UNCHANGED refused
      BY <1>12, Zenon DEF StartInit, initCall, caddyVars
    <2>3. pc'["caddy"] \in {"failed", "lock"}
      BY <1>2, <1>12, Zenon DEF StartInit, initCall
    <2> QED  BY <1>3, <2>1, <2>2, <2>3, Zenon
  <1>13. CASE Stop
    BY <1>2, <1>4, <1>13, Zenon DEF Stop
  <1>14. CASE onExit
    <2>1. pc'["caddy"] \in {"shutdown", "idle"}
      BY <1>2, <1>14, Zenon DEF onExit, shutdownCall
    <2>2. after'["caddy"] = "idle"
      BY <1>14, Constants, Zenon DEF onExit, shutdownCall, Types, CallTypes
    <2> QED  BY <2>1, <2>2, Zenon DEF Refusing, Closing
  <1>15. ASSUME callerStep("caddy") PROVE Refusing'
    <2>1. ~embed("caddy")
      BY RuntimeAssumption, Zenon DEF embed
    <2> QED
      BY <1>6, <1>7, <1>8, <1>9, <1>11, <1>12, <1>13, <1>14, <1>15, <2>1, Zenon DEF callerStep, call
  <1>16. CASE otherStep
    BY <1>1, <1>16, OthersFrame, Zenon
  <1> QED  BY <1>1, <1>5, <1>15, <1>16, Steps, Zenon DEF vars
-----------------------------------------------------------------------------
(* Layer 6 *)

\* What Noticed is about, but for the watchers that are stopped
noticing == <<stale, ignored, handle, listener, events, restartWorkers, restart, target>>

\* Stopping watchers, and what leaves the reloads alone, makes no change unnoticed.
LEMMA FramedNoticing ==
    ASSUME Noticing, UNCHANGED noticing, stop \subseteq stop',
           \A i \in stale : session[i]["watch"] # "none" => session'[i]["watch"] # "none"
    PROVE  Noticing'
  <1>1. ASSUME NEW i \in stale PROVE Noticed(i)'
    <2>1. Noticed(i)
      BY Zenon DEF Noticing
    <2>2. CASE \E j \in stop : Pending(j, i)
      BY <2>2, Zenon DEF noticing, Noticed, Pending
    <2> QED  BY <2>1, <2>2, Zenon DEF noticing, Noticed, Pending
  <1> QED  BY <1>1, Zenon DEF Noticing, noticing

\* The main thread is that of the instance whose watcher noticed a change, until
\* the watcher is stopped.
LEMMA NoticedHere ==
    ASSUME Types, Watching, Noticing, NEW i \in stale
    PROVE  i \in Inst /\ listener[i] # "none" /\ (i \notin stop => main.id = i /\ Alive /\ activeWatcher = i)
  <1>1. i \in Inst /\ session[i]["watch"] # "none"
    BY Zenon DEF Types, WatchTypes, Noticing
  <1>2. listener[i] # "none"
    BY <1>1, Zenon DEF Watching, Watched, Group
  <1>3. i \notin stop => watcherIsActive /\ activeWatcher = i
    BY <1>1, <1>2, Zenon DEF Watching, Watched
  <1> QED  BY <1>1, <1>2, <1>3, Zenon DEF Watching

\* Init and shutdown() leave no change unnoticed, but for those of a watcher they stop.
LEMMA CallerNoticing ==
    ASSUME Types, Watching, Phases, Noticing, NEW c \in Caller, callerStep(c)
    PROVE  Noticing'
  <1>1. "watch" \in Group
    BY Zenon DEF Group
  <1>2. CASE initWatchers(c)
    <2>1. inst \in Inst /\ listener[inst] = "none"
      BY <1>2, Zenon DEF initWatchers, Phases, Phase
    <2>2. inst \notin stale
      BY <2>1, NoticedHere, Zenon
    <2>3. UNCHANGED <<stale, ignored, handle, events, restartWorkers, restart, target, stop>>
      BY <1>2, Zenon DEF initWatchers, mainVars
    <2>4. \A i \in stale : listener'[i] = listener[i] /\ session'[i] = session[i]
      <3>1. ASSUME NEW groups, startWatching(groups)
            PROVE  \A i \in Inst : i # inst => listener'[i] = listener[i] /\ session'[i] = session[i]
        BY <3>1, Zenon DEF startWatching, Types, WatchTypes
      <3> QED  BY <1>2, <2>2, <3>1, NoticedHere, Zenon DEF initWatchers, InitWatcher
    <2>5. ASSUME NEW i \in stale PROVE Noticed(i)'
      <3>1. Noticed(i)
        BY Zenon DEF Noticing
      <3> QED  BY <2>3, <2>4, <3>1, Zenon DEF Noticed, Pending
    <2> QED  BY <2>3, <2>4, <2>5, Zenon DEF Noticing
  <1>3. CASE DrainWatcher(c)
    <2>1. UNCHANGED noticing
      BY <1>3, Zenon DEF DrainWatcher, noticing, mainVars
    <2>2. stop \subseteq stop'
      BY <1>3, Zenon DEF DrainWatcher, stopWatching
    <2>3. \A i \in stale : session[i]["watch"] # "none" => session'[i]["watch"] # "none"
      BY <1>1, <1>3 DEF DrainWatcher, stopWatching, Types, WatchTypes
    <2> QED  BY <2>1, <2>2, <2>3, FramedNoticing, Zenon
  <1>4. CASE UNCHANGED <<restart, target, ignored, watchVars>>
    <2>1. UNCHANGED noticing /\ stop \subseteq stop' /\ UNCHANGED session
      BY <1>4, Zenon DEF noticing, watchVars
    <2> QED  BY <2>1, FramedNoticing, Zenon
  <1>5. CASE \/ initLock(c) \/ initOptions(c) \/ initPHPThreads(c) \/ initWorkers(c) \/ activateServers(c)
             \/ shutdownLock(c) \/ runHooks(c) \/ waitReloads(c) \/ drainPHPThreads(c) \/ shutdownEnd(c) \/ embed(c)
    BY <1>4, <1>5, Zenon DEF initLock, initOptions, initPHPThreads, initWorkers, activateServers, shutdownLock,
      runHooks, waitReloads, drainPHPThreads, shutdownEnd, embed, initCall, shutdownCall, mainVars
  <1>6. CASE load \/ Start \/ StartInit \/ Stop \/ onExit
    BY <1>4, <1>6, Zenon DEF load, Start, StartInit, Stop, onExit, initCall, shutdownCall, mainVars
  <1> QED  BY <1>2, <1>3, <1>5, <1>6, Zenon DEF callerStep, call

\* A restart that is asked for is that of the instance whose change waits for
\* it; it begins after the change, or is ignored.
LEMMA RestarterNoticing ==
    ASSUME Types, Restarting, Watching, Noticing, NEW r \in Restarter, restarter(r)
    PROVE  Noticing'
  <1>1. UNCHANGED <<handle, listener, events, restartWorkers, session, stop>>
    BY Zenon DEF restarter, restartCall, restartBegin, restartEnd, watchVars
  <1>2. \A q \in Restarter : q # r => restart'[q] = restart[q] /\ target'[q] = target[q]
    BY Zenon DEF restarter, restartCall, restartBegin, restartEnd, Types, MainTypes
  <1>3. stale' \subseteq stale /\ ignored \subseteq ignored'
    BY Zenon DEF restarter, restartCall, restartBegin, restartEnd, watchVars
  <1>4. ASSUME NEW i \in stale', i \notin stop, Pending(r, i) PROVE i \in ignored' \/ Pending(r, i)'
    <2>1. main.id = i /\ Alive /\ i \in Inst
      BY <1>3, <1>4, NoticedHere, Zenon
    <2>2. CASE restartCall(r)
      <3>1. target'[r] = i
        BY <2>1, <2>2, Zenon DEF restartCall, Types, MainTypes
      <3>2. CASE i \notin isRebooting
        <4>1. restart'[r] = "lock"
          BY <2>1, <2>2, <3>2, Zenon DEF restartCall, Types, MainTypes
        <4> QED  BY <3>1, <4>1, Zenon DEF Pending
      <3>3. CASE i \in isRebooting
        BY <2>1, <2>2, <3>3, Zenon DEF restartCall
      <3> QED  BY <3>2, <3>3, Zenon
    <2>3. CASE restartBegin(r)
      <3>1. target[r] = i /\ ~scalingMu
        BY <1>4, <2>3, Zenon DEF restartBegin, Pending
      <3>2. main.state = "Ready"
        BY <2>1, <3>1, Zenon DEF Restarting, Alive
      <3>3. main = [id |-> target[r], state |-> "Ready"]
        BY <2>1, <3>1, <3>2, Zenon DEF Types, MainTypes
      <3>4. i \notin stale'
        BY <2>1, <2>3, <3>3, Zenon DEF restartBegin
      <3> QED  BY <1>4, <3>4, Zenon
    <2>4. CASE restartEnd(r)
      BY <1>4, <2>4, Zenon DEF restartEnd, Pending
    <2> QED  BY <2>2, <2>3, <2>4, Zenon DEF restarter
  <1>5. ASSUME NEW i \in stale', i \notin stop, NEW q \in Restarter, Pending(q, i)
        PROVE  i \in ignored' \/ Pending(q, i)'
    <2>1. CASE q = r
      BY <1>4, <1>5, <2>1, Zenon
    <2>2. CASE q # r
      BY <1>2, <1>5, <2>2, Zenon DEF Pending
    <2> QED  BY <2>1, <2>2, Zenon
  <1>6. ASSUME NEW i \in stale' PROVE Noticed(i)'
    <2>1. Noticed(i) /\ i \in Inst
      BY <1>3, NoticedHere, Zenon DEF Noticing
    <2>2. i \in Restarter /\ stop \subseteq Restarter
      BY <2>1, Zenon DEF Restarter, Types, WatchTypes
    <2>3. CASE i \in stop
      BY <1>1, <2>3, Zenon DEF Noticed
    <2>4. CASE i \notin stop /\ \E j \in stop : Pending(j, i)
      BY <1>1, <1>5, <2>2, <2>4, Zenon DEF Noticed
    <2>5. CASE i \notin stop /\ listener[i] = "restarting" /\ Pending(i, i)
      BY <1>1, <1>5, <2>2, <2>5, Zenon DEF Noticed
    <2>6. CASE \/ i \in ignored \/ handle[i]["watch"] = "send"
               \/ listener[i] \in {"select", "fired"} /\ "watch" \in events[i]
               \/ listener[i] = "callbacks" /\ restartWorkers
      BY <1>1, <1>3, <2>6, Zenon DEF Noticed
    <2> QED  BY <2>1, <2>3, <2>4, <2>5, <2>6, Zenon DEF Noticed
  <1> QED  BY <1>1, <1>3, <1>6, Zenon DEF Noticing

\* A restart of the admin API is no restart of a watcher.
LEMMA AdminNoticing == ASSUME Types, Noticing, adminRestart PROVE Noticing'
  <1>1. UNCHANGED <<stale, ignored, handle, listener, events, restartWorkers, target, session, stop>>
    BY Zenon DEF adminRestart, watchVars
  <1>2. \A i \in Inst : restart'[i] = restart[i]
    <2>1. \A i \in Inst : i \in Restarter /\ i # Admin
      BY Constants, Zenon DEF Restarter, Admin
    <2> QED  BY <2>1, Zenon DEF adminRestart, Types, MainTypes
  <1>3. stale \subseteq Inst /\ stop \subseteq Inst
    BY Zenon DEF Types, WatchTypes
  <1>4. \A i \in Inst, j \in Inst : Pending(j, i) => Pending(j, i)'
    BY <1>1, <1>2, Zenon DEF Pending
  <1>5. ASSUME NEW i \in stale PROVE Noticed(i)'
    <2>1. Noticed(i) /\ i \in Inst
      BY <1>3, Zenon DEF Noticing
    <2>2. CASE \E j \in stop : Pending(j, i)
      BY <1>1, <1>3, <1>4, <2>1, <2>2, Zenon DEF Noticed
    <2>3. CASE listener[i] = "restarting" /\ Pending(i, i)
      BY <1>1, <1>4, <2>1, <2>3, Zenon DEF Noticed
    <2> QED  BY <1>1, <2>1, <2>2, <2>3, Zenon DEF Noticed
  <1> QED  BY <1>1, <1>5, Zenon DEF Noticing

\* A change of another instance that waits for no flag stays noticed while a
\* watcher moves on, if a restart that this watcher has asked for stays.
LEMMA FramedNoticed ==
    ASSUME NEW i \in Inst, Noticed(i), UNCHANGED <<stop, ignored, target>>,
           handle'[i] = handle[i], listener'[i] = listener[i], events'[i] = events[i],
           listener[i] = "callbacks" /\ restartWorkers => restartWorkers' \/ \E j \in stop : Pending(j, i)',
           \A q \in Inst : Pending(q, i) => Pending(q, i)', stop \subseteq Inst
    PROVE  Noticed(i)'
  <1>1. CASE \E j \in stop : Pending(j, i)
    BY <1>1, Zenon DEF Noticed
  <1>2. CASE listener[i] = "restarting" /\ Pending(i, i)
    BY <1>2, Zenon DEF Noticed
  <1>3. CASE listener[i] = "callbacks" /\ restartWorkers
    <2>1. CASE restartWorkers'
      BY <1>3, <2>1, Zenon DEF Noticed
    <2>2. CASE \E j \in stop : Pending(j, i)'
      BY <2>2, Zenon DEF Noticed
    <2> QED  BY <1>3, <2>1, <2>2, Zenon
  <1>4. CASE \/ i \in stop \/ i \in ignored \/ handle[i]["watch"] = "send"
             \/ listener[i] \in {"select", "fired"} /\ "watch" \in events[i]
    BY <1>4 DEF Noticed
  <1> QED  BY <1>1, <1>2, <1>3, <1>4, Zenon DEF Noticed

\* A change is noticed by the handler of its session, which passes it on or dies
\* without having one.
LEMMA HandlerNoticing ==
    ASSUME Types, Watching, Noticing, NEW j \in Inst,
           \/ \E groups \in SUBSET Group : fileChange(j, groups)
           \/ \E p \in Group : sessionDies(j, p) \/ retryWatching(j, p) \/ receiveEvent(j, p)
    PROVE  Noticing'
  <1>1. UNCHANGED <<stop, ignored, target, restart, restartWorkers, listener>>
    BY Zenon DEF fileChange, sessionDies, retryWatching, receiveEvent, mainVars
  <1>2. \A i, q : Pending(q, i) <=> Pending(q, i)'
    BY <1>1, Zenon DEF Pending
  <1>3. stop \subseteq Inst /\ stale \subseteq Inst /\ "watch" \in Group
    BY Zenon DEF Types, WatchTypes, Group
  <1>4. ASSUME NEW i \in stale, i # j PROVE Noticed(i)' /\ session'[i]["watch"] # "none"
    <2>1. handle'[i] = handle[i] /\ session'[i] = session[i] /\ events'[i] = events[i]
      <3>1. handle'[i] = handle[i]
        BY <1>3, <1>4, Zenon DEF fileChange, sessionDies, retryWatching, receiveEvent, Types, WatchTypes
      <3>2. session'[i] = session[i] /\ events'[i] = events[i]
        BY <1>3, <1>4, Zenon DEF fileChange, sessionDies, retryWatching, receiveEvent, Types, WatchTypes
      <3> QED  BY <3>1, <3>2, Zenon
    <2>2. Noticed(i) /\ session[i]["watch"] # "none" /\ i \in Inst
      BY <1>3, Zenon DEF Noticing
    <2>3. Noticed(i)'
      BY <1>1, <1>2, <1>3, <2>1, <2>2, FramedNoticed, Zenon
    <2> QED  BY <2>1, <2>2, <2>3, Zenon
  <1>5. ASSUME NEW groups \in SUBSET Group, fileChange(j, groups) PROVE Noticing'
    <2>1. UNCHANGED <<session, events>> /\ stale' = IF "watch" \in groups THEN stale \cup {j} ELSE stale
      BY <1>5, Zenon DEF fileChange
    <2>2. CASE "watch" \in groups
      <3>1. handle'[j]["watch"] = "send" /\ session[j]["watch"] # "none"
        BY <1>3, <1>5, <2>2, Zenon DEF fileChange, Types, WatchTypes
      <3>2. Noticed(j)' /\ session'[j]["watch"] # "none"
        BY <2>1, <3>1, Zenon DEF Noticed
      <3> QED  BY <1>4, <2>1, <2>2, <3>2, Zenon DEF Noticing
    <2>3. CASE "watch" \notin groups
      <3>1. handle'[j]["watch"] = handle[j]["watch"]
        BY <1>3, <1>5, <2>3, Zenon DEF fileChange, Types, WatchTypes
      <3>2. Noticed(j) => Noticed(j)'
        BY <1>1, <1>2, <2>1, <3>1, Zenon DEF Noticed
      <3> QED  BY <1>4, <2>1, <2>3, <3>2, Zenon DEF Noticing
    <2> QED  BY <2>2, <2>3, Zenon
  <1>6. ASSUME NEW p \in Group, sessionDies(j, p) \/ retryWatching(j, p) PROVE Noticing'
    <2>1. UNCHANGED <<stale, events>>
      BY <1>6, Zenon DEF sessionDies, retryWatching
    <2>2. handle[j]["watch"] = "send" => handle'[j]["watch"] = "send"
      BY <1>3, <1>6 DEF sessionDies, retryWatching, Types, WatchTypes
    <2>3. session[j]["watch"] # "none" => session'[j]["watch"] # "none"
      BY <1>3, <1>6 DEF sessionDies, retryWatching, Types, WatchTypes
    <2>4. Noticed(j) => Noticed(j)'
      BY <1>1, <1>2, <2>1, <2>2, Zenon DEF Noticed
    <2> QED  BY <1>4, <2>1, <2>3, <2>4, Zenon DEF Noticing
  <1>7. ASSUME NEW p \in Group, receiveEvent(j, p) PROVE Noticing'
    <2>1. UNCHANGED <<stale, session>> /\ listener[j] = "select"
      BY <1>7, Zenon DEF receiveEvent
    <2>2. events'[j] = events[j] \cup {p} /\ (p # "watch" => handle'[j]["watch"] = handle[j]["watch"])
      BY <1>3, <1>7 DEF receiveEvent, Types, WatchTypes
    <2>3. CASE p = "watch"
      <3>1. "watch" \in events'[j] /\ listener'[j] = "select"
        BY <1>1, <2>1, <2>2, <2>3, Zenon
      <3>2. Noticed(j)'
        BY <3>1, Zenon DEF Noticed
      <3> QED  BY <1>4, <2>1, <3>2, Zenon DEF Noticing
    <2>4. CASE p # "watch"
      <3>1. handle'[j]["watch"] = handle[j]["watch"] /\ ("watch" \in events[j] => "watch" \in events'[j])
        BY <2>2, <2>4, Zenon
      <3>2. Noticed(j) => Noticed(j)'
        BY <1>1, <1>2, <3>1, Zenon DEF Noticed
      <3> QED  BY <1>4, <2>1, <3>2, Zenon DEF Noticing
    <2> QED  BY <2>3, <2>4, Zenon
  <1> QED  BY <1>5, <1>6, <1>7, Zenon

\* listenForFileEvents and scheduleReload: what a listener took from a handler
\* it keeps until it has asked for the restart, or until the listener of a watcher
\* that is stopped has asked for it.
LEMMA ListenerNoticing ==
    ASSUME Types, Watching, Noticing, NEW j \in Inst,
           timerFires(j) \/ listenerStops(j) \/ scheduleReload(j) \/ callRestart(j) \/ restartReturns(j) \/ publish(j)
    PROVE  Noticing'
  <1>1. UNCHANGED <<stale, stop, ignored, target, session, handle>>
    BY Zenon DEF timerFires, listenerStops, scheduleReload, callRestart, restartReturns, publish, mainVars
  <1>2. j \in Restarter /\ stop \subseteq Inst /\ stale \subseteq Inst /\ Inst \subseteq Restarter /\ "watch" \in Group
    BY Zenon DEF Restarter, Types, WatchTypes, Group
  <1>3. \A i \in Inst : i # j => listener'[i] = listener[i] /\ events'[i] = events[i] /\ restart'[i] = restart[i]
    <2>1. \A i \in Inst : i # j => listener'[i] = listener[i] /\ events'[i] = events[i]
      BY Zenon DEF timerFires, listenerStops, scheduleReload, callRestart, restartReturns, publish, Types, WatchTypes
    <2>2. \A i \in Inst : i # j => restart'[i] = restart[i]
      BY <1>2, Zenon DEF timerFires, listenerStops, scheduleReload, callRestart, restartReturns, publish,
                         mainVars, Types, MainTypes
    <2> QED  BY <2>1, <2>2, Zenon
  <1>4. \A i : Pending(j, i) => Pending(j, i)'
    <2>1. CASE callRestart(j) \/ restartReturns(j)
      <3>1. restart[j] = "none" \/ restart[j] = "done"
        BY <2>1, Zenon DEF callRestart, restartReturns, Watching, Watched
      <3> QED  BY <3>1, Zenon DEF Pending
    <2>2. CASE UNCHANGED restart
      BY <1>1, <2>2, Zenon DEF Pending
    <2> QED  BY <2>1, <2>2, Zenon DEF timerFires, listenerStops, scheduleReload, publish, mainVars
  <1>5. \A i, q \in Inst : Pending(q, i) => Pending(q, i)'
    BY <1>1, <1>3, <1>4, Zenon DEF Pending
  <1>6. ASSUME restartWorkers, ~restartWorkers' PROVE callRestart(j) /\ restart'[j] = "call" /\ listener[j] # "none"
    <2>1. callRestart(j)
      BY <1>6, Zenon DEF timerFires, listenerStops, scheduleReload, restartReturns, publish
    <2>2. restart'[j] = "call" /\ listener[j] = "callbacks"
      BY <1>2, <1>6, <2>1, Zenon DEF callRestart, Types, MainTypes
    <2> QED  BY <2>1, <2>2, Zenon
  <1>7. ASSUME NEW i \in stale, i # j PROVE Noticed(i)'
    <2>1. Noticed(i) /\ i \in Inst
      BY <1>2, Zenon DEF Noticing
    <2>2. CASE i \in stop
      BY <1>1, <2>2, Zenon DEF Noticed
    <2>3. CASE i \notin stop
      <3>1. restartWorkers /\ ~restartWorkers' => j \in stop /\ Pending(j, i)'
        <4>1. SUFFICES ASSUME restartWorkers, ~restartWorkers' PROVE j \in stop /\ Pending(j, i)'
          BY Zenon
        <4>2. activeWatcher = i
          BY <2>3, NoticedHere, Zenon
        <4>3. j \in stop
          BY <1>6, <1>7, <4>1, <4>2, Zenon DEF Watching, Watched
        <4> QED  BY <1>6, <4>1, <4>3, Zenon DEF Pending
      <3>2. restartWorkers => restartWorkers' \/ \E k \in stop : Pending(k, i)'
        BY <3>1, Zenon
      <3> QED  BY <1>1, <1>2, <1>3, <1>5, <1>7, <2>1, <3>2, FramedNoticed, Zenon
    <2> QED  BY <2>2, <2>3, Zenon
  <1>8. ASSUME j \in stale PROVE Noticed(j)'
    <2>1. Noticed(j) /\ session[j]["watch"] # "none"
      BY <1>8, Zenon DEF Noticing
    <2>2. CASE \E k \in stop : Pending(k, j)
      BY <1>1, <1>2, <1>5, <2>2, Zenon DEF Noticed
    <2>3. CASE j \in stop \/ j \in ignored \/ handle[j]["watch"] = "send"
      BY <1>1, <2>3, Zenon DEF Noticed
    <2>4. CASE timerFires(j) /\ "watch" \in events[j]
      <3>1. listener'[j] = "fired" /\ events'[j] = events[j]
        BY <2>4, Zenon DEF timerFires, Types, WatchTypes
      <3> QED  BY <2>4, <3>1, Zenon DEF Noticed
    <2>5. CASE scheduleReload(j) /\ "watch" \in events[j]
      <3>1. listener'[j] = "callbacks" /\ restartWorkers'
        BY <2>5, Zenon DEF scheduleReload, Types, WatchTypes
      <3> QED  BY <3>1, Zenon DEF Noticed
    <2>6. CASE callRestart(j) /\ restartWorkers
      <3>1. listener'[j] = "restarting" /\ restart'[j] = "call"
        BY <1>2, <2>1, <2>6, Zenon DEF callRestart, Types, WatchTypes, MainTypes
      <3> QED  BY <3>1, Zenon DEF Noticed, Pending
    <2>7. /\ timerFires(j) => listener[j] = "select"
          /\ listenerStops(j) => j \in stop
          /\ scheduleReload(j) => listener[j] = "fired"
          /\ callRestart(j) => listener[j] = "callbacks"
          /\ restartReturns(j) => listener[j] = "restarting" /\ restart[j] = "done"
          /\ publish(j) => listener[j] = "publish"
      BY Zenon DEF timerFires, listenerStops, scheduleReload, callRestart, restartReturns, publish
    <2> QED  BY <2>1, <2>2, <2>3, <2>4, <2>5, <2>6, <2>7, Zenon DEF Noticed, Pending
  <1> QED  BY <1>1, <1>7, <1>8, Zenon DEF Noticing

\* No change gets lost.
LEMMA NoticingKept ==
    ASSUME Types, Restarting, Watching, Phases, Noticing, [Next]_vars
    PROVE  Noticing'
  <1>1. CASE UNCHANGED vars
    <2>1. UNCHANGED noticing /\ stop \subseteq stop' /\ UNCHANGED session
      BY <1>1, Zenon DEF noticing, vars, mainVars, watchVars
    <2> QED  BY <2>1, FramedNoticing, Zenon
  <1>2. CASE otherStep
    BY <1>2, AdminNoticing, RestarterNoticing, HandlerNoticing, ListenerNoticing, Zenon DEF otherStep, listen
  <1> QED  BY <1>1, <1>2, Steps, CallerNoticing, Zenon
-----------------------------------------------------------------------------
(* The theorems *)

\* The first state: nothing was ever started.
LEMMA InitIInv == ASSUME Init PROVE IInv
  <1>1. CallTypes
    BY Constants, Zenon DEF Init, CallTypes, Step
  <1>2. ServerTypes
    <2>1. ran \in [Inst -> 0 .. 2] /\ stopped \in SUBSET Inst
      BY DEF Init
    <2> QED  BY <2>1, Zenon DEF Init, RegisterWorkers, ServerTypes
  <1>3. MainTypes
    BY Zenon DEF Init, MainTypes
  <1>4. WatchTypes
    BY Zenon DEF Init, WatchTypes
  <1>5. Calling
    BY Constants, Zenon DEF Init, Calling, Locked, Closing
  <1>6. Restarting
    BY Zenon DEF Init, Restarting
  <1>7. Watching
    BY Zenon DEF Init, Watching, Watched, Restarter
  <1>8. Phases
    <2>1. Down
      BY Zenon DEF Init, Down, HooksRan, Alive
    <2> QED  BY <2>1 DEF Init, Phases, Phase, Resting, Locked
  <1>9. Refusing
    BY Constants, Zenon DEF Init, Refusing
  <1>10. Noticing
    BY Zenon DEF Init, Noticing
  <1> QED  BY <1>1, <1>2, <1>3, <1>4, <1>5, <1>6, <1>7, <1>8, <1>9, <1>10, Zenon DEF IInv, Types

\* IInv is an inductive invariant of the runtime when Init and Shutdown are not
\* called by two goroutines at once.
THEOREM RuntimeInductive == ASSUME OneCaller PROVE Spec => []IInv
  <1>1. Init => IInv
    BY InitIInv, Zenon
  <1>2. IInv /\ [Next]_vars => IInv'
    <2>1. SUFFICES ASSUME IInv, [Next]_vars PROVE IInv'
      BY Zenon
    <2>2. Types' /\ Calling' /\ Restarting' /\ Watching' /\ Refusing' /\ Noticing'
      BY <2>1, TypesKept, CallingKept, RestartingKept, WatchingKept, RefusingKept, NoticingKept, Zenon
      DEF IInv
    <2>3. Phases'
      BY <2>1, <2>2, PhasesKept, Zenon DEF IInv
    <2> QED  BY <2>2, <2>3, Zenon DEF IInv
  <1> QED  BY <1>1, <1>2, PTL DEF Spec

\* A server that accepts requests has the threads and the workers of its
\* instance, until shutdown() takes them from it.
THEOREM ServersAreBacked == ASSUME OneCaller PROVE Spec => []ServersBacked
  <1>1. IInv => ServersBacked
    <2>1. SUFFICES ASSUME IInv, active # 0,
                          \A c \in Caller : pc[c] \notin {"drainWatcher", "wait", "drainThreads", "unregister"}
                   PROVE  Up
      BY Zenon DEF ServersBacked, Up
    <2>2. \A c \in Caller : Phase(c)
      BY <2>1, Zenon DEF IInv, Phases
    <2>3. \A c \in Caller : pc[c] # "lock"
      BY <2>1, <2>2, Zenon DEF Phase, Down
    <2>4. CASE startupMu = "free"
      BY <2>1, <2>3, <2>4, Zenon DEF IInv, Phases, Resting, Down
    <2>5. ASSUME NEW c \in Caller, startupMu = c PROVE Up
      <3>1. pc[c] \in Locked
        BY <2>1, <2>5, Zenon DEF IInv, Calling
      <3>2. pc[c] = "hooks"
        BY <2>1, <2>2, <3>1, Zenon DEF Phase, Down, Locked
      <3> QED  BY <2>1, <2>2, <3>2, Zenon DEF Phase
    <2> QED  BY <2>1, <2>4, <2>5, Zenon DEF IInv, Types, CallTypes
  <1> QED  BY <1>1, RuntimeInductive, PTL

\* A configuration that Start refuses leaves the running instance as it was.
THEOREM RefusalsAreHarmless == ASSUME OneCaller PROVE Spec => []RefusalHarmless
  <1>1. IInv => RefusalHarmless
    <2>1. SUFFICES ASSUME IInv, refused, pc["caddy"] = "failed"
                   PROVE  active = before /\ (before # 0 => isRunning /\ main.id = before /\ Alive)
      BY Zenon DEF RefusalHarmless
    <2>2. active = before
      BY <2>1, Zenon DEF IInv, Refusing
    <2>3. \A c \in Caller : c # "caddy" => pc[c] = "idle"
      <3>1. host = "caddy"
        BY <2>1, Constants, RuntimeAssumption, Zenon DEF IInv, Calling, Allowed
      <3> QED  BY <2>1, <3>1, Zenon DEF IInv, Calling, Allowed
    <2>4. \A c \in Caller : pc[c] \notin Locked /\ pc[c] # "lock"
      BY <2>1, <2>3, Zenon DEF Locked
    <2>5. IF isRunning THEN Up ELSE Down
      BY <2>1, <2>4, NobodyInside, Zenon DEF IInv, Phases, Resting
    <2> QED  BY <2>2, <2>5, Zenon DEF Up, Down
  <1> QED  BY <1>1, RuntimeInductive, PTL

\* A hot reload goes out after the restart of the workers for the same changes,
\* but for the cases that HotAfterRestart names.
THEOREM HotReloadsFollow == ASSUME OneCaller PROVE Spec => []HotAfterRestart
  <1>1. IInv => HotAfterRestart
    <2>1. SUFFICES ASSUME IInv, NEW i \in Inst, listener[i] = "publish", i \in stale
                   PROVE  \/ handle[i]["watch"] = "send" \/ i \in ignored \/ i \in stop
                          \/ \E j \in stop : restart[j] \in {"call", "lock"}
      BY Zenon DEF HotAfterRestart
    <2>2. Noticed(i)
      BY <2>1, Zenon DEF IInv, Noticing
    <2> QED  BY <2>1, <2>2, Zenon DEF Noticed, Pending
  <1> QED  BY <1>1, RuntimeInductive, PTL
-----------------------------------------------------------------------------
(* The wait group of the reloads is exact *)

INSTANCE FiniteSetTheorems

\* The reloads that are going on, and that the wait group counts them
Reloading == {i \in Inst : listener[i] \in {"callbacks", "restarting", "publish"}}
Counted == wg = Cardinality(Reloading)

\* A step of the listeners that begins or ends no reload.
LEMMA FramedCounted ==
    ASSUME Counted, UNCHANGED wg,
           \A i \in Inst : listener'[i] \in {"callbacks", "restarting", "publish"}
                              <=> listener[i] \in {"callbacks", "restarting", "publish"}
    PROVE  Counted'
  <1>1. Reloading' = Reloading
    BY Zenon DEF Reloading
  <1> QED  BY <1>1, Zenon DEF Counted

\* The reloads are a finite set, of InstanceBound elements at most.
LEMMA ReloadingFinite ==
    IsFiniteSet(Reloading) /\ Cardinality(Reloading) \in 0 .. InstanceBound
  <1>1. IsFiniteSet(Inst) /\ Cardinality(Inst) = InstanceBound
    BY FS_Interval, RuntimeAssumption DEF Inst
  <1>2. Reloading \subseteq Inst
    BY Zenon DEF Reloading
  <1>3. IsFiniteSet(Reloading) /\ Cardinality(Reloading) <= Cardinality(Inst)
    BY <1>1, <1>2, FS_Subset, Zenon
  <1>4. Cardinality(Reloading) \in Nat
    BY <1>3, FS_CardinalityType, Zenon
  <1> QED  BY <1>1, <1>3, <1>4, RuntimeAssumption

\* reloadWaitGroup is exact: scheduleReload adds the reload it begins, and takes
\* it off when the last callback has returned.
LEMMA CountedKept == ASSUME Types, Phases, Counted, [Next]_vars PROVE Counted'
  <1> DEFINE C == {"callbacks", "restarting", "publish"}
  <1>1. CASE UNCHANGED <<wg, listener>>
    BY <1>1, FramedCounted, Zenon
  <1>2. ASSUME NEW c \in Caller, callerStep(c) PROVE Counted'
    <2>1. CASE initWatchers(c)
      <3>1. inst \in Inst /\ listener[inst] = "none"
        BY <2>1, Zenon DEF initWatchers, Phases, Phase
      <3>2. ASSUME NEW groups, startWatching(groups)
            PROVE  listener'[inst] = "select" /\ \A i \in Inst : i # inst => listener'[i] = listener[i]
        BY <3>1, <3>2, Zenon DEF startWatching, Types, WatchTypes
      <3>3. UNCHANGED wg
        BY <2>1, Zenon DEF initWatchers
      <3>4. \/ UNCHANGED listener
            \/ listener'[inst] = "select" /\ \A i \in Inst : i # inst => listener'[i] = listener[i]
        BY <2>1, <3>2, Zenon DEF initWatchers, InitWatcher
      <3>5. \A i \in Inst : listener'[i] \in C <=> listener[i] \in C
        BY <3>1, <3>4, Zenon
      <3> QED  BY <3>3, <3>5, FramedCounted, Zenon
    <2>2. CASE ~initWatchers(c)
      BY <1>1, <1>2, <2>2, Zenon DEF callerStep, call, initLock, initOptions, initPHPThreads, initWorkers,
        activateServers, shutdownLock, runHooks, DrainWatcher, waitReloads, drainPHPThreads, shutdownEnd, embed,
        load, Start, StartInit, Stop, onExit, initCall, shutdownCall, watchVars
    <2> QED  BY <2>1, <2>2, Zenon
  <1>3. ASSUME NEW j \in Inst, NEW s \in {"select", "fired", "callbacks", "restarting", "publish", "gone"},
               listener' = [listener EXCEPT ![j] = s]
        PROVE  listener'[j] = s /\ \A i \in Inst : i # j => listener'[i] = listener[i]
    BY <1>3, Zenon DEF Types, WatchTypes
  <1>4. ASSUME NEW j \in Inst, scheduleReload(j) PROVE Counted'
    <2>1. listener[j] = "fired" /\ listener'[j] = "callbacks" /\ \A i \in Inst : i # j => listener'[i] = listener[i]
      BY <1>3, <1>4, Zenon DEF scheduleReload
    <2>2. Reloading' = Reloading \cup {j} /\ j \notin Reloading
      BY <2>1, Zenon DEF Reloading
    <2>3. Cardinality(Reloading') = Cardinality(Reloading) + 1
      BY <2>2, ReloadingFinite, FS_AddElement, Zenon
    <2> QED  BY <1>4, <2>3, Zenon DEF scheduleReload, Counted
  <1>5. ASSUME NEW j \in Inst, publish(j) PROVE Counted'
    <2>1. listener[j] = "publish" /\ listener'[j] = "select" /\ \A i \in Inst : i # j => listener'[i] = listener[i]
      BY <1>3, <1>5, Zenon DEF publish
    <2>2. Reloading' = Reloading \ {j} /\ j \in Reloading
      BY <2>1, Zenon DEF Reloading
    <2>3. Cardinality(Reloading') = Cardinality(Reloading) - 1
      BY <2>2, ReloadingFinite, FS_RemoveElement, Zenon
    <2> QED  BY <1>5, <2>3, Zenon DEF publish, Counted
  <1>6. ASSUME NEW j \in Inst, timerFires(j) \/ listenerStops(j) \/ callRestart(j) \/ restartReturns(j) PROVE Counted'
    <2>1. (listener'[j] \in C <=> listener[j] \in C) /\ \A i \in Inst : i # j => listener'[i] = listener[i]
      <3>1. CASE timerFires(j) \/ listenerStops(j)
        BY <1>3, <3>1, Zenon DEF timerFires, listenerStops
      <3>2. CASE callRestart(j) \/ restartReturns(j)
        BY <1>3, <3>2, Zenon DEF callRestart, restartReturns
      <3> QED  BY <1>6, <3>1, <3>2, Zenon
    <2>2. UNCHANGED wg
      BY <1>6, Zenon DEF timerFires, listenerStops, callRestart, restartReturns
    <2> QED  BY <2>1, <2>2, FramedCounted, Zenon
  <1>7. ASSUME NEW j \in Inst, NEW p \in Group, receiveEvent(j, p) \/ sessionDies(j, p) \/ retryWatching(j, p)
        PROVE  Counted'
    BY <1>1, <1>7, Zenon DEF receiveEvent, sessionDies, retryWatching
  <1>8. ASSUME NEW j \in Inst, NEW groups \in SUBSET Group, fileChange(j, groups) PROVE Counted'
    BY <1>1, <1>8, Zenon DEF fileChange
  <1>9. ASSUME NEW r \in Restarter, restarter(r) PROVE Counted'
    BY <1>1, <1>9, Zenon DEF restarter, restartCall, restartBegin, restartEnd, watchVars
  <1>10. CASE adminRestart
    BY <1>1, <1>10, Zenon DEF adminRestart, watchVars
  <1>11. CASE otherStep
    BY <1>4, <1>5, <1>6, <1>7, <1>8, <1>9, <1>10, <1>11, Zenon DEF otherStep, listen
  <1> QED  BY <1>1, <1>2, <1>11, Steps, Zenon DEF vars, watchVars

\* The wait group counts the reloads, at every moment.
THEOREM ReloadsAreCounted == ASSUME OneCaller PROVE Spec => []Counted
  <1>1. Init => Counted
    <2>1. SUFFICES ASSUME Init PROVE Counted
      OBVIOUS
    <2>2. Reloading = {}
      BY <2>1 DEF Init, Reloading
    <2> QED  BY <2>1, <2>2, FS_EmptySet DEF Init, Counted
  <1>2. IInv /\ Counted /\ [Next]_vars => Counted'
    BY CountedKept, Zenon DEF IInv
  <1> QED  BY <1>1, <1>2, RuntimeInductive, PTL DEF Spec

\* Whenever FrankenPHP does not run and nobody is starting or stopping it,
\* nothing of an instance is left, wherever Init failed: no PHP thread, no server,
\* no worker, no active watcher; and its shutdown hooks have run.
THEOREM NothingIsLeft == ASSUME OneCaller PROVE Spec => []NothingLeft
  <1>1. IInv /\ Counted => NothingLeft
    <2>1. SUFFICES ASSUME IInv, Counted PROVE NothingLeft
      BY Zenon
    <2>2. wg \in 0 .. InstanceBound
      BY <2>1, ReloadingFinite, Zenon DEF Counted
    <2>3. RuntimeTypeOK
      BY <2>1, <2>2, Zenon DEF IInv, Types, CallTypes, ServerTypes, MainTypes, WatchTypes, RuntimeTypeOK
    <2>4. ASSUME ~isRunning, startupMu = "free" PROVE Down
      <3>1. \A c \in Caller : pc[c] # "lock"
        BY <2>1, <2>4, Zenon DEF IInv, Phases, Phase
      <3> QED  BY <2>1, <2>4, <3>1, Zenon DEF IInv, Phases, Resting
    <2> QED  BY <2>3, <2>4, Zenon DEF NothingLeft, Down, HooksRan
  <1> QED  BY <1>1, RuntimeInductive, ReloadsAreCounted, PTL
=============================================================================
