------------------------------ MODULE Runtime ------------------------------
(***************************************************************************)
(* The life of the runtime: Init and Shutdown (frankenphp.go, server.go,   *)
(* worker.go), the Caddy app that calls them on every load of a            *)
(* configuration (caddy/app.go), and what goes on besides them: the file   *)
(* watchers (watcher.go, internal/watcher) and the restarts that they and  *)
(* the admin API ask for (RestartWorkers).                                 *)
(*                                                                         *)
(* An instance is one Init that got past its options; 0 stands for none.   *)
(* What the PHP threads do inside an instance is the subject of            *)
(* PhpThreads: here the main thread stands for all of them.  A pattern     *)
(* group is "watch" (a worker's watch option) or "hot" (hot reloading).    *)
(***************************************************************************)
EXTENDS Naturals, FiniteSets

CONSTANTS
    Embedder,      \* goroutines of a program that embeds the library
    InstanceBound, \* bound: instances
    Scenario       \* bounds of a behaviour: its instances (and configurations that Caddy
                   \* loads), file changes, restarts asked for over the admin API, and
                   \* sessions that the file watcher library gives up

\* The bounds are numbers, within the bound on instances; "caddy" and "free" (an
\* unlocked startupMu) are no goroutines of an embedding program.
ASSUME RuntimeAssumption ==
    /\ InstanceBound \in Nat /\ \A s \in Scenario : s.instances \in 0 .. InstanceBound
    /\ "caddy" \notin Embedder /\ "free" \notin Embedder

Inst == 1 .. InstanceBound
Group == {"watch", "hot"}
Caller == Embedder \cup {"caddy"}
Admin == 0
Restarter == Inst \cup {Admin}

VARIABLES
    bound,            \* the scenario
    host,             \* "caddy" or "library": who calls Init and Shutdown
    pc, after,        \* each caller: its step; what follows shutdown()
    isRunning, startupMu,
    inst,             \* the last instance
    servers, active,  \* the instance whose servers are registered; those that accept requests
    main,             \* mainThread: its instance and its state
    isRebooting,      \* the instances whose main thread has this flag
    scalingMu,        \* held by a restart
    workers, stopped, \* the instance of the worker list; the instances whose workers are stopped
    onServerShutdown, \* the instance whose shutdown hooks are registered
    ran,              \* how often the hooks of an instance ran, up to 2
    options, extension, \* caddy: extension workers are registered; they run in this instance
    loads, current,   \* caddy: configurations loaded; the instance of the current one
    before, refused,  \* caddy: active when the load began; the last load was refused
    watcherIsActive, activeWatcher, wg, restartWorkers,
    stop, listener, timer, events,  \* each globalWatcher
    session, handle,                \* each pattern
    restart, target,  \* each caller of RestartWorkers: its step; the instance it restarts
    stale,            \* a watched file changed after the threads last booted
    ignored,          \* a restart was ignored because one was going on
    changes, restarts, deaths

callVars == <<host, pc, after, isRunning, startupMu>>
serverVars == <<inst, servers, active>>
workerVars == <<workers, stopped, onServerShutdown, ran, extension>>
caddyVars == <<options, loads, current, before, refused>>
mainVars == <<main, isRebooting, scalingMu, restart, target, ignored>>
drainVars == <<watcherIsActive, activeWatcher>>
watchVars == <<wg, restartWorkers, stop, listener, timer, events, session, handle,
               stale>>
boundVars == <<bound, changes, restarts, deaths>>
vars == <<callVars, serverVars, workerVars, caddyVars, mainVars, drainVars, watchVars, boundVars>>

\* RegisterWorkers: extensions call it from init(), before the first configuration
RegisterWorkers == options = (host = "caddy")

\* The main thread runs, and every PHP thread with it.
Alive == main.state \in {"Ready", "Rebooting"}

Init ==
    /\ bound \in Scenario
    /\ host \in {"caddy", "library"}
    /\ pc = [c \in Caller |-> "idle"] /\ after = [c \in Caller |-> "none"]
    /\ isRunning = FALSE /\ startupMu = "free"
    /\ inst = 0 /\ servers = 0 /\ active = 0
    /\ main = [id |-> 0, state |-> "none"] /\ isRebooting = {} /\ scalingMu = FALSE
    /\ workers = 0 /\ stopped = {} /\ onServerShutdown = 0 /\ ran = [i \in Inst |-> 0]
    /\ RegisterWorkers /\ extension = 0
    /\ loads = 0 /\ current = 0 /\ before = 0 /\ refused = FALSE
    /\ watcherIsActive = FALSE /\ activeWatcher = 0 /\ wg = 0 /\ restartWorkers = FALSE
    /\ stop = {} /\ listener = [i \in Inst |-> "none"]
    /\ timer = {} /\ events = [i \in Inst |-> {}]
    /\ session = [i \in Inst |-> [p \in Group |-> "none"]]
    /\ handle = [i \in Inst |-> [p \in Group |-> "idle"]]
    /\ restart = [r \in Restarter |-> "none"] /\ target = [r \in Restarter |-> 0]
    /\ stale = {} /\ ignored = {}
    /\ changes = 0 /\ restarts = 0 /\ deaths = 0

Goto(c, step) == pc' = [pc EXCEPT ![c] = step]
-----------------------------------------------------------------------------
(* Init *)

\* CompareAndSwap on isRunning; ErrAlreadyStarted when it is set
initCall(c) ==
    /\ IF isRunning THEN Goto(c, "failed") /\ UNCHANGED isRunning
       ELSE Goto(c, "lock") /\ isRunning' = TRUE
    /\ UNCHANGED <<host, after, startupMu, serverVars, workerVars, caddyVars, mainVars, drainVars,
                   watchVars, boundVars>>

initLock(c) ==
    /\ pc[c] = "lock" /\ startupMu = "free"
    /\ startupMu' = c /\ Goto(c, "options")
    /\ UNCHANGED <<host, after, isRunning, serverVars, workerVars, caddyVars, mainVars, drainVars,
                   watchVars, boundVars>>

\* registerServers: the servers of the new instance, none of them active
registerServers == servers' = inst'

\* An error inside Init: shutdown(), then return it
Fail(c) == Goto(c, "hooks") /\ after' = [after EXCEPT ![c] = "failed"]

\* Mutated form: a registered server accepts requests at once.
initOptionsActive(c) ==
    /\ pc[c] = "options" /\ inst < bound.instances
    /\ inst' = inst + 1
    /\ \/ Fail(c) /\ UNCHANGED servers
       \/ Fail(c) /\ servers' = inst'
       \/ Goto(c, "threads") /\ servers' = inst' /\ UNCHANGED after
    /\ active' = servers'
    /\ UNCHANGED <<host, isRunning, startupMu, workerVars, caddyVars, mainVars, drainVars, watchVars,
                   boundVars>>

\* the options, registerServers, calculateMaxThreads, checkPHPConfig
initOptions(c) ==
    /\ pc[c] = "options" /\ inst < bound.instances
    /\ inst' = inst + 1
    /\ \/ Fail(c) /\ UNCHANGED servers
       \/ Fail(c) /\ registerServers
       \/ Goto(c, "threads") /\ registerServers /\ UNCHANGED after
    /\ UNCHANGED <<host, isRunning, startupMu, active, workerVars, caddyVars, mainVars, drainVars,
                   watchVars, boundVars>>

\* initPHPThreads: no main thread, a PHP thread that does not boot, or success
initPHPThreads(c) ==
    /\ pc[c] = "threads"
    /\ \/ Fail(c) /\ main' = [id |-> inst, state |-> "none"]
       \/ Fail(c) /\ main' = [id |-> inst, state |-> "Ready"]
       \/ Goto(c, "workers") /\ main' = [id |-> inst, state |-> "Ready"] /\ UNCHANGED after
    /\ UNCHANGED <<host, isRunning, startupMu, serverVars, workerVars, caddyVars, isRebooting,
                   scalingMu, restart, target, ignored, drainVars, watchVars, boundVars>>

\* initWorkers: a worker that is refused or fails to start, or success; an
\* extension worker is a worker like the others
initWorkers(c) ==
    /\ pc[c] = "workers"
    /\ workers' = inst
    /\ \/ Fail(c) \/ (Goto(c, "watchers") /\ UNCHANGED after)
    /\ extension' = IF options THEN inst ELSE extension
    /\ UNCHANGED <<host, isRunning, startupMu, serverVars, stopped, onServerShutdown, ran, caddyVars,
                   mainVars, drainVars, watchVars, boundVars>>

\* startWatching: a session for every pattern, and a listener
startWatching(groups) ==
    /\ session' = [session EXCEPT ![inst] = [p \in Group |-> IF p \in groups THEN "open" ELSE "none"]]
    /\ listener' = [listener EXCEPT ![inst] = "select"]

\* InitWatcher: ErrAlreadyStarted, or a new activeWatcher
InitWatcher(c, groups) ==
    \/ watcherIsActive /\ Fail(c) /\ UNCHANGED <<drainVars, listener, session>>
    \/ /\ ~watcherIsActive /\ Goto(c, "activate") /\ UNCHANGED after
       /\ watcherIsActive' = TRUE /\ activeWatcher' = inst
       /\ startWatching(groups)

\* initWatchers: nothing to watch, or the patterns of some groups
initWatchers(c) ==
    /\ pc[c] = "watchers"
    /\ \/ /\ Goto(c, "activate") /\ UNCHANGED <<after, drainVars, listener, session>>
       \/ \E groups \in SUBSET Group \ {{}} : InitWatcher(c, groups)
    /\ UNCHANGED <<host, isRunning, startupMu, serverVars, workerVars, caddyVars, mainVars, wg,
                   restartWorkers, stop, timer, events, handle, stale, boundVars>>

\* The shutdown hooks of the workers replace those of the instance before
registerHooks == onServerShutdown' = inst

\* activateServers; the hooks are registered last
activateServers(c) ==
    /\ pc[c] = "activate"
    /\ active' = servers /\ registerHooks
    /\ startupMu' = "free" /\ Goto(c, "started")
    /\ UNCHANGED <<host, after, isRunning, inst, servers, workers, stopped, ran, extension, caddyVars,
                   mainVars, drainVars, watchVars, boundVars>>
-----------------------------------------------------------------------------
(* Shutdown *)

shutdownCall(c, then) ==
    /\ after' = [after EXCEPT ![c] = then]
    /\ Goto(c, IF isRunning THEN "shutdown" ELSE then)
    /\ UNCHANGED <<host, isRunning, startupMu, serverVars, workerVars, caddyVars, mainVars, drainVars,
                   watchVars, boundVars>>

shutdownLock(c) ==
    /\ pc[c] = "shutdown" /\ startupMu = "free"
    /\ startupMu' = c /\ Goto(c, "hooks")
    /\ UNCHANGED <<host, after, isRunning, serverVars, workerVars, caddyVars, mainVars, drainVars,
                   watchVars, boundVars>>

\* shutdown(): the hooks, then the workers take no more messages
runHooks(c) ==
    /\ pc[c] = "hooks"
    /\ Goto(c, "drainWatcher")
    /\ ran' = [i \in Inst |-> IF i = onServerShutdown /\ ran[i] < 2 THEN ran[i] + 1 ELSE ran[i]]
    /\ stopped' = IF workers = 0 THEN stopped ELSE stopped \cup {workers}
    /\ UNCHANGED <<host, after, isRunning, startupMu, serverVars, workers, onServerShutdown,
                   extension, caddyVars, mainVars, drainVars, watchVars, boundVars>>

\* stopWatching: close the channel of the listener and every session
stopWatching ==
    /\ stop' = stop \cup {activeWatcher}
    /\ session' = [session EXCEPT ![activeWatcher] =
                      [p \in Group |-> IF @[p] = "none" THEN "none" ELSE "closed"]]

\* DrainWatcher: return when there is no watcher, or stopWatching ...
DrainWatcher(c) ==
    /\ pc[c] = "drainWatcher"
    /\ watcherIsActive' = FALSE
    /\ IF watcherIsActive
       THEN Goto(c, "wait") /\ stopWatching
       ELSE Goto(c, "drainThreads") /\ UNCHANGED <<stop, session>>
    /\ UNCHANGED <<host, after, isRunning, startupMu, serverVars, workerVars, caddyVars, mainVars,
                   activeWatcher, wg, restartWorkers, listener, timer, events, handle,
                   stale, boundVars>>

\* ... and reloadWaitGroup.Wait
waitReloads(c) ==
    /\ pc[c] = "wait" /\ wg = 0
    /\ activeWatcher' = 0 /\ Goto(c, "drainThreads")
    /\ UNCHANGED <<host, after, isRunning, startupMu, serverVars, workerVars, caddyVars, mainVars,
                   watcherIsActive, watchVars, boundVars>>

\* Mutated form: nothing is drained unless the servers are active.
drainPHPThreadsActive(c) ==
    /\ pc[c] = "drainThreads" /\ ~scalingMu
    /\ main' = IF main.state = "Ready" /\ active # 0 THEN [main EXCEPT !.state = "Reserved"] ELSE main
    /\ Goto(c, "unregister")
    /\ UNCHANGED <<host, after, isRunning, startupMu, serverVars, workerVars, caddyVars, isRebooting,
                   scalingMu, restart, target, ignored, drainVars, watchVars, boundVars>>

\* drainPHPThreads, under scalingMu: every thread is gone when it returns
drainPHPThreads(c) ==
    /\ pc[c] = "drainThreads" /\ ~scalingMu
    /\ main' = IF main.state = "Ready" THEN [main EXCEPT !.state = "Reserved"] ELSE main
    /\ Goto(c, "unregister")
    /\ UNCHANGED <<host, after, isRunning, startupMu, serverVars, workerVars, caddyVars, isRebooting,
                   scalingMu, restart, target, ignored, drainVars, watchVars, boundVars>>

\* unregisterServers: none of them accepts requests any more
unregisterServers == active' = 0 /\ servers' = 0

\* resetGlobals, as far as the model has them
resetGlobals == workers' = 0

\* The end of shutdown(); the lock is given back
shutdownEnd(c) ==
    /\ pc[c] = "unregister"
    /\ unregisterServers /\ isRunning' = FALSE /\ resetGlobals
    /\ startupMu' = "free" /\ Goto(c, after[c])
    /\ UNCHANGED <<host, after, inst, stopped, onServerShutdown, ran, extension, caddyVars, mainVars,
                   drainVars, watchVars, boundVars>>
-----------------------------------------------------------------------------
(* The callers *)

\* A program that embeds the library calls Init or Shutdown, and goes on
embed(c) ==
    /\ host = "library" /\ c \in Embedder
    /\ \/ pc[c] = "idle" /\ inst < bound.instances /\ initCall(c)
       \/ pc[c] = "idle" /\ shutdownCall(c, "idle")
       \/ /\ pc[c] \in {"started", "failed"} /\ Goto(c, "idle")
          /\ UNCHANGED <<host, after, isRunning, startupMu, serverVars, workerVars, caddyVars,
                         mainVars, drainVars, watchVars, boundVars>>

\* Caddy provisions a new configuration and starts the app
load ==
    /\ host = "caddy" /\ pc["caddy"] = "idle" /\ loads < bound.instances
    /\ loads' = loads + 1 /\ before' = active /\ refused' = FALSE
    /\ Goto("caddy", "collect")
    /\ UNCHANGED <<host, after, isRunning, startupMu, serverVars, workerVars, options, current,
                   mainVars, drainVars, watchVars, boundVars>>

\* Mutated form: the running instance is shut down before the validation.
StartUnvalidated ==
    /\ pc["caddy"] = "collect"
    /\ IF isRunning THEN shutdownCall("caddy", "collect")
       ELSE /\ refused' \in BOOLEAN
            /\ Goto("caddy", IF refused' THEN "failed" ELSE "init")
            /\ UNCHANGED <<host, after, isRunning, startupMu, serverVars, workerVars, options, loads,
                           current, before, mainVars, drainVars, watchVars, boundVars>>

\* Start: collectOptions and Validate, before anything is stopped; then Shutdown
Start ==
    /\ pc["caddy"] = "collect"
    /\ \/ /\ refused' = TRUE /\ Goto("caddy", "failed")
          /\ UNCHANGED <<host, after, isRunning, startupMu, serverVars, workerVars, options, loads,
                         current, before, mainVars, drainVars, watchVars, boundVars>>
       \/ shutdownCall("caddy", "init")

\* ... and Init
StartInit == pc["caddy"] = "init" /\ initCall("caddy")

\* Start returned: Caddy keeps the new configuration, and then stops the app of
\* the old one, whose Stop forgets the registered options; or keeps the old one
Stop ==
    /\ host = "caddy" /\ pc["caddy"] \in {"started", "failed"}
    /\ IF pc["caddy"] = "started"
       THEN current' = inst /\ options' = (options /\ current = 0)
       ELSE UNCHANGED <<current, options>>
    /\ Goto("caddy", "idle")
    /\ UNCHANGED <<host, after, isRunning, startupMu, serverVars, workerVars, loads, before, refused,
                   mainVars, drainVars, watchVars, boundVars>>

\* The process exits: OnExit calls Shutdown
onExit ==
    /\ host = "caddy" /\ pc["caddy"] = "idle" /\ loads = bound.instances /\ isRunning
    /\ shutdownCall("caddy", "idle")
-----------------------------------------------------------------------------
(* RestartWorkers: rebootAllThreads *)

\* called by the listener of an instance or by the admin API
restartCall(r) ==
    /\ restart[r] = "call" /\ target' = [target EXCEPT ![r] = main.id]
    /\ IF main.id \notin isRebooting
       THEN /\ isRebooting' = isRebooting \cup {main.id}
            /\ restart' = [restart EXCEPT ![r] = "lock"] /\ UNCHANGED ignored
       ELSE /\ restart' = [restart EXCEPT ![r] = "done"]
            /\ ignored' = ignored \cup {main.id} /\ UNCHANGED isRebooting
    /\ UNCHANGED <<callVars, serverVars, workerVars, caddyVars, main, scalingMu, drainVars, watchVars,
                   boundVars>>

\* under scalingMu: give up when the main thread is not Ready (or is one that a
\* later Init replaced), or stop every thread; what changed before is seen by
\* the scripts that boot afterwards
restartBegin(r) ==
    /\ restart[r] = "lock" /\ ~scalingMu
    /\ IF main = [id |-> target[r], state |-> "Ready"]
       THEN /\ main' = [main EXCEPT !.state = "Rebooting"] /\ scalingMu' = TRUE
            /\ restart' = [restart EXCEPT ![r] = "boot"]
            /\ stale' = stale \ {main.id} /\ UNCHANGED isRebooting
       ELSE /\ restart' = [restart EXCEPT ![r] = "done"]
            /\ isRebooting' = isRebooting \ {target[r]}
            /\ UNCHANGED <<main, scalingMu, stale>>
    /\ UNCHANGED <<callVars, serverVars, workerVars, caddyVars, target, ignored, drainVars, wg,
                   restartWorkers, stop, listener, timer, events, session, handle,
                   boundVars>>

\* every thread is back
restartEnd(r) ==
    /\ restart[r] = "boot"
    /\ main' = [main EXCEPT !.state = "Ready"] /\ scalingMu' = FALSE
    /\ isRebooting' = isRebooting \ {target[r]}
    /\ restart' = [restart EXCEPT ![r] = "done"]
    /\ UNCHANGED <<callVars, serverVars, workerVars, caddyVars, target, ignored, drainVars, watchVars,
                   boundVars>>

\* the admin API: a new request, and its answer
adminRestart ==
    /\ \/ /\ restart[Admin] = "none" /\ restarts < bound.restarts /\ main.id # 0
          /\ restarts' = restarts + 1 /\ restart' = [restart EXCEPT ![Admin] = "call"]
       \/ /\ restart[Admin] = "done"
          /\ restart' = [restart EXCEPT ![Admin] = "none"] /\ UNCHANGED restarts
    /\ UNCHANGED <<callVars, serverVars, workerVars, caddyVars, main, isRebooting, scalingMu, target,
                   ignored, drainVars, watchVars, bound, changes, deaths>>
-----------------------------------------------------------------------------
(* The file watcher *)

UnchangedByWatcher == UNCHANGED <<callVars, serverVars, workerVars, caddyVars, drainVars>>

\* A file changed: the session of every pattern it matches calls handle, which
\* blocks on the events channel
fileChange(i, groups) ==
    /\ \A p \in groups : session[i][p] = "open" /\ handle[i][p] = "idle"
    /\ changes < bound.changes
    /\ changes' = changes + 1
    /\ handle' = [handle EXCEPT ![i] = [p \in Group |-> IF p \in groups THEN "send" ELSE @[p]]]
    /\ stale' = IF "watch" \in groups THEN stale \cup {i} ELSE stale
    /\ UnchangedByWatcher
    /\ UNCHANGED <<mainVars, wg, restartWorkers, stop, listener, timer, events, session, bound,
                   restarts, deaths>>

\* The library gives the session up; handle retries if the watcher is active
sessionDies(i, p) ==
    /\ session[i][p] = "open" /\ handle[i][p] = "idle" /\ deaths < bound.deaths
    /\ deaths' = deaths + 1
    /\ session' = [session EXCEPT ![i][p] = "closed"]
    /\ handle' = [handle EXCEPT ![i][p] = IF watcherIsActive THEN "retry" ELSE "idle"]
    /\ UnchangedByWatcher
    /\ UNCHANGED <<mainVars, wg, restartWorkers, stop, listener, timer, events, stale, bound,
                   changes, restarts>>

\* retryWatching: start a session again, or give up (after maxFailureCount of
\* these in a row; the model does not count them)
retryWatching(i, p) ==
    /\ handle[i][p] = "retry"
    /\ handle' = [handle EXCEPT ![i][p] = "idle"]
    /\ session' = [session EXCEPT ![i][p] = "open"] \/ UNCHANGED session
    /\ UnchangedByWatcher
    /\ UNCHANGED <<mainVars, wg, restartWorkers, stop, listener, timer, events, stale, boundVars>>

\* Mutated form: an event arms the timer only if another one did.
receiveEventUnarmed(i, p) ==
    /\ listener[i] = "select" /\ handle[i][p] = "send"
    /\ handle' = [handle EXCEPT ![i][p] = "idle"]
    /\ timer' = IF events[i] = {} THEN timer ELSE timer \cup {i}
    /\ events' = [events EXCEPT ![i] = @ \cup {p}]
    /\ UnchangedByWatcher
    /\ UNCHANGED <<mainVars, wg, restartWorkers, stop, listener, session, stale,
                   boundVars>>

\* listenForFileEvents: an event arms the timer ...
receiveEvent(i, p) ==
    /\ listener[i] = "select" /\ handle[i][p] = "send"
    /\ handle' = [handle EXCEPT ![i][p] = "idle"]
    /\ timer' = timer \cup {i}
    /\ events' = [events EXCEPT ![i] = @ \cup {p}]
    /\ UnchangedByWatcher
    /\ UNCHANGED <<mainVars, wg, restartWorkers, stop, listener, session, stale,
                   boundVars>>

\* ... the timer fires, or the watcher is stopped
timerFires(i) ==
    /\ listener[i] = "select" /\ i \in timer
    /\ timer' = timer \ {i}
    /\ listener' = [listener EXCEPT ![i] = "fired"]
    /\ UnchangedByWatcher
    /\ UNCHANGED <<mainVars, wg, restartWorkers, stop, events, session, handle, stale,
                   boundVars>>

listenerStops(i) ==
    /\ listener[i] = "select" /\ i \in stop
    /\ listener' = [listener EXCEPT ![i] = "gone"]
    /\ timer' = timer \ {i}
    /\ UnchangedByWatcher
    /\ UNCHANGED <<mainVars, wg, restartWorkers, stop, events, session, handle, stale,
                   boundVars>>

\* scheduleReload: the callbacks of the groups with events, in order: the
\* groups of the workers set restartWorkers ...
scheduleReload(i) ==
    /\ listener[i] = "fired"
    /\ wg' = wg + 1
    /\ restartWorkers' = (restartWorkers \/ "watch" \in events[i])
    /\ listener' = [listener EXCEPT ![i] = "callbacks"]
    /\ UnchangedByWatcher
    /\ UNCHANGED <<mainVars, stop, timer, events, session, handle, stale, boundVars>>

\* Mutated form: the restart is not waited for.
callRestartAsync(i) ==
    /\ listener[i] = "callbacks"
    /\ LET go == restartWorkers /\ session[i]["watch"] # "none"
       IN /\ listener' = [listener EXCEPT ![i] = "publish"]
          /\ restart' = IF go THEN [restart EXCEPT ![i] = "call"] ELSE restart
          /\ restartWorkers' = (restartWorkers /\ ~go)
    /\ UnchangedByWatcher
    /\ UNCHANGED <<main, isRebooting, scalingMu, target, ignored, wg, stop, timer, events, session,
                   handle, stale, boundVars>>

\* ... the group without patterns, there if a worker watches, restarts the
\* workers if it is set ...
callRestart(i) ==
    /\ listener[i] = "callbacks"
    /\ LET go == restartWorkers /\ session[i]["watch"] # "none"
       IN /\ listener' = [listener EXCEPT ![i] = IF go THEN "restarting" ELSE "publish"]
          /\ restart' = IF go THEN [restart EXCEPT ![i] = "call"] ELSE restart
          /\ restartWorkers' = (restartWorkers /\ ~go)
    /\ UnchangedByWatcher
    /\ UNCHANGED <<main, isRebooting, scalingMu, target, ignored, wg, stop, timer, events, session,
                   handle, stale, boundVars>>

restartReturns(i) ==
    /\ listener[i] = "restarting" /\ restart[i] = "done"
    /\ restart' = [restart EXCEPT ![i] = "none"]
    /\ listener' = [listener EXCEPT ![i] = "publish"]
    /\ UnchangedByWatcher
    /\ UNCHANGED <<main, isRebooting, scalingMu, target, ignored, wg, restartWorkers, stop, timer, events,
                   session, handle, stale, boundVars>>

\* Mutated form: the reload stays counted when hot reloading has nothing to publish.
publishUndone(i) ==
    /\ listener[i] = "publish"
    /\ wg' = IF "hot" \in events[i] THEN wg - 1 ELSE wg
    /\ events' = [events EXCEPT ![i] = {}]
    /\ listener' = [listener EXCEPT ![i] = "select"]
    /\ UnchangedByWatcher
    /\ UNCHANGED <<mainVars, restartWorkers, stop, timer, session, handle, stale, boundVars>>

\* ... and the groups of hot reloading publish their update
publish(i) ==
    /\ listener[i] = "publish"
    /\ wg' = wg - 1
    /\ events' = [events EXCEPT ![i] = {}]
    /\ listener' = [listener EXCEPT ![i] = "select"]
    /\ UnchangedByWatcher
    /\ UNCHANGED <<mainVars, restartWorkers, stop, timer, session, handle, stale, boundVars>>
-----------------------------------------------------------------------------
call(c) ==
    \/ initLock(c) \/ initOptions(c) \/ initPHPThreads(c) \/ initWorkers(c) \/ initWatchers(c)
    \/ activateServers(c)
    \/ shutdownLock(c) \/ runHooks(c) \/ DrainWatcher(c) \/ waitReloads(c) \/ drainPHPThreads(c)
    \/ shutdownEnd(c)

listen(i) ==
    \/ \E p \in Group : receiveEvent(i, p)
    \/ timerFires(i) \/ listenerStops(i)
    \/ scheduleReload(i) \/ callRestart(i) \/ restartReturns(i) \/ publish(i)

restarter(r) == restartCall(r) \/ restartBegin(r) \/ restartEnd(r)

Next ==
    \/ \E c \in Caller : call(c) \/ embed(c)
    \/ load \/ Start \/ StartInit \/ Stop \/ onExit
    \/ adminRestart
    \/ \E r \in Restarter : restarter(r)
    \/ \E i \in Inst : listen(i)
    \/ \E i \in Inst, groups \in SUBSET Group \ {{}} : fileChange(i, groups)
    \/ \E i \in Inst, p \in Group : sessionDies(i, p) \/ retryWatching(i, p)

\* Go runs every goroutine that can go on.  The calls, the listeners, the
\* restarts and the handlers go on; that a call is made, a file changes, a
\* session dies or the process exits is up to the world.
Fairness ==
    /\ \A c \in Caller : WF_vars(call(c))
    /\ \A c \in Embedder : WF_vars(embed(c) /\ pc[c] # "idle")
    /\ WF_vars(Start \/ StartInit \/ Stop)
    /\ \A r \in Restarter : WF_vars(restarter(r))
    /\ \A i \in Inst : WF_vars(listen(i))

Spec == Init /\ [][Next]_vars /\ Fairness
-----------------------------------------------------------------------------
(* Properties *)

Step == {"idle", "lock", "options", "threads", "workers", "watchers", "activate", "shutdown", "hooks",
         "drainWatcher", "wait", "drainThreads", "unregister", "collect", "init", "started",
         "failed"}

\* The type of every variable; the wait group in particular never goes below zero.
RuntimeTypeOK ==
    /\ host \in {"caddy", "library"}
    /\ pc \in [Caller -> Step] /\ after \in [Caller -> Step \cup {"none"}]
    /\ isRunning \in BOOLEAN /\ startupMu \in Caller \cup {"free"}
    /\ {inst, servers, active, workers, onServerShutdown, extension, activeWatcher} \subseteq Inst \cup {0}
    /\ main \in [id : Inst \cup {0}, state : {"none", "Ready", "Rebooting", "Reserved"}]
    /\ isRebooting \subseteq Inst /\ scalingMu \in BOOLEAN
    /\ stopped \subseteq Inst /\ ran \in [Inst -> 0 .. 2]
    /\ wg \in 0 .. InstanceBound
    /\ listener \in [Inst -> {"none", "select", "fired", "callbacks", "restarting", "publish", "gone"}]
    /\ session \in [Inst -> [Group -> {"none", "open", "closed"}]]
    /\ handle \in [Inst -> [Group -> {"idle", "send", "retry"}]]

\* Whenever FrankenPHP is not running and nobody is starting or stopping it,
\* nothing of an instance is left: no PHP thread, no active server, no worker and
\* no active watcher, wherever Init failed and whoever was restarting workers;
\* and the shutdown hooks of an instance that was up have run, after a reload too
\* (a failed reload runs them again).
NothingLeft ==
    /\ RuntimeTypeOK
    /\ ~isRunning /\ startupMu = "free" =>
          /\ ~Alive /\ active = 0 /\ servers = 0 /\ workers = 0 /\ ~watcherIsActive
          /\ onServerShutdown # 0 => ran[onServerShutdown] > 0

\* A server that accepts requests has its threads and its workers, until
\* shutdown() has taken them from it ("only now that the workers and threads are
\* up may requests reach a server").
ServersBacked ==
    active # 0 /\ (\A c \in Caller : pc[c] \notin {"drainWatcher", "wait", "drainThreads", "unregister"})
        => isRunning /\ Alive /\ main.id = active /\ workers = active /\ active \notin stopped

\* A configuration that Start refuses leaves the running one as it was ("in time
\* for the configuration in place to survive a refusal").
RefusalHarmless ==
    refused /\ pc["caddy"] = "failed" =>
        active = before /\ (before # 0 => isRunning /\ main.id = before /\ Alive)

\* A hot reload goes out after the restart of the workers for the same changes
\* ("Wait for workers to restart before sending the update"), unless a newer
\* change waits, the restart was ignored, the instance is being shut down, or the
\* listener of a watcher that was stopped took the restart over (restartWorkers is
\* shared by all of them) and has not begun it.
HotAfterRestart ==
    \A i \in Inst :
        listener[i] = "publish" /\ events[i] = Group /\ i \in stale =>
            \/ handle[i]["watch"] = "send" \/ i \in ignored \/ i \in stop
            \/ \E j \in stop : restart[j] \in {"call", "lock"}

\* Every call of Init, Shutdown and Start returns: shutdown() does not wait for
\* a reload that waits for it.
CallsReturn == \A c \in Caller : pc[c] # "idle" ~> pc[c] = "idle"

\* A change of a watched file is followed by a restart of the workers, unless the
\* watcher is stopped or the restart is ignored because one is going on.
ChangeRestarts ==
    \A i \in Inst : i \in stale ~> (i \notin stale \/ i \in stop \/ i \in ignored)

\* The workers that an extension registered run in every instance ("Workers are
\* designed to run indefinitely").
ExtensionKept == host = "caddy" /\ active # 0 => extension = active
=============================================================================
