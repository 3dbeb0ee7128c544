-------------------------- MODULE RequestExecution --------------------------
(***************************************************************************)
(* What one PHP thread does with the requests it is given: php_thread(),   *)
(* frankenphp_handle_request() and the SAPI callbacks of frankenphp.c, the *)
(* contexts of context.go they act on, the worker half of threadworker.go, *)
(* and the gauges of metrics.go.                                           *)
(*                                                                         *)
(* A thread runs in one of two modes, chosen once: a regular thread runs a *)
(* script per request, a worker runs one script that takes requests in a   *)
(* loop.  The PHP script itself is any sequence of the calls it can make.  *)
(* Data is reduced to whose it is: output, superglobals, session and       *)
(* environment are sets of the contexts they come from.  Concurrent with   *)
(* the thread are the clients and the handlers of net/http, which return   *)
(* as soon as a context is closed.                                         *)
(***************************************************************************)
EXTENDS Integers, FiniteSets

CONSTANTS
    Request,    \* what a thread may be given
    Message,    \* those of SendMessage: fc.request is nil
    Silent,     \* those without a response writer
    WithEnv,    \* those with an environment of their own, or of their server
    Oversized,  \* those whose body exceeds the limit
    Debug,      \* the logger is enabled for the debug level
    RequestBound, \* bound: requests made
    ScriptBound \* bound: scripts started

\* The context newWorkerDummyContext() makes for the start of a worker script
Dummy == "dummy"
None == "none"
Context == Request \cup {Dummy}

ASSUME ExecutionAssumption ==
    /\ Silent \subseteq Message /\ Message \subseteq Request
    /\ WithEnv \subseteq Request \ Message /\ Oversized \subseteq Request \ Message
    /\ Dummy \notin Request /\ None \notin Request
    /\ Debug \in BOOLEAN /\ RequestBound \in Nat /\ ScriptBound \in Nat

VARIABLES
    worker,     \* is_worker_thread
    pc,         \* the step of the thread
    cur,        \* handler.fc, or workerFrankenPHPContext
    booting,    \* isBootingScript
    exitStatus, \* EG(exit_status)
    scripts,    \* against ScriptBound
    fcs,        \* each context: isDone, clientHadClosed, headersWritten
    call,       \* each request: what its caller does
    gone,       \* requests whose client closed the connection
    sent,       \* each request: whose output its client was sent
    echoed,     \* requests whose script wrote something the client is due
    buffer,     \* whose output the output layer holds
    output,     \* the output layer is active
    super,      \* whose data the superglobals hold
    session,    \* whose session PS() holds
    prepared,   \* prepared_env
    workerEnv,  \* worker_env
    envGlobal,  \* whose environment $_ENV has captured
    sandbox,    \* sandboxed_env: "null", "live", or "freed" with its heap
    info,       \* whose method, query and type SG(request_info) holds
    misled,     \* contexts whose client PHP was told had closed, and had not
    late,       \* requests whose writer or body was used after their handler
    nilRequest, \* fc.request was dereferenced though nil
    gauges      \* the gauges and counters of the worker

threadVars == <<worker, pc, cur, booting, exitStatus, scripts>>
callVars == <<fcs, call, gone>>
outVars == <<sent, echoed, buffer, output>>
phpVars == <<super, session, prepared, workerEnv, envGlobal, sandbox, info>>
seenVars == <<misled, late, nilRequest>>
vars == <<threadVars, callVars, outVars, phpVars, seenVars, gauges>>

freshContext == [done |-> FALSE, hadClosed |-> FALSE, headersWritten |-> FALSE]

Init ==
    /\ worker \in BOOLEAN /\ pc = "before" /\ cur = None
    /\ booting = FALSE /\ exitStatus = 0 /\ scripts = 0
    /\ fcs = [c \in Context |-> freshContext]
    /\ call \in [Request -> {"idle", "never"}] /\ gone = {}
    /\ Cardinality({r \in Request : call[r] = "idle"}) = RequestBound
    /\ sent = [r \in Request |-> {}] /\ echoed = {} /\ buffer = {} /\ output = FALSE
    /\ super = {} /\ session = {} /\ prepared = {} /\ workerEnv = {} /\ envGlobal = {}
    /\ sandbox = "null" /\ info = None
    /\ misled = {} /\ late = {} /\ nilRequest = FALSE
    /\ gauges = [busy |-> 0, total |-> 0, ready |-> 0, crashes |-> 0, restarts |-> 0]
-----------------------------------------------------------------------------
(* Contexts *)

\* frankenPHPContext() of the handler
fc == IF cur # None THEN cur ELSE Dummy

hasRequest(c) == c \notin Message
hasWriter(c) == c \in Request \ Silent

\* net/http cancels the context of a request when its handler returns.
clientHasClosed(c) == c \in Request /\ hasRequest(c) /\ (c \in gone \/ call[c] = "returned")

\* A use of the response writer or of the body once the handler returned
used(c) == late' = IF call[c] = "returned" THEN late \cup {c} ELSE late

closeContext(c) ==
    IF fcs[c].done THEN fcs
    ELSE [fcs EXCEPT ![c].hadClosed = clientHasClosed(c), ![c].done = TRUE]

\* Mutant of open: a response is writable for ever
openAlways(c) == hasWriter(c)

\* The response may still be written: the common condition of go_ub_write,
\* go_write_headers and go_read_post
open(c) == hasWriter(c) /\ ~fcs[c].done

\* A client closes its connection.
clientCloses(r) ==
    /\ call[r] = "held" /\ hasRequest(r) /\ r \notin gone
    /\ gone' = gone \cup {r}
    /\ UNCHANGED <<threadVars, fcs, call, outVars, phpVars, seenVars, gauges>>

\* <-fc.done: the handler of the request returns.  What was sent is history.
handlerReturns(r) ==
    /\ call[r] = "held" /\ fcs[r].done
    /\ call' = [call EXCEPT ![r] = "returned"]
    /\ sent' = [sent EXCEPT ![r] = {}] /\ echoed' = echoed \ {r}
    /\ UNCHANGED <<threadVars, fcs, gone, buffer, output, phpVars, seenVars, gauges>>
-----------------------------------------------------------------------------
(* Output *)

\* Mutant of toldClosed: the cancelled context is taken for a closed connection
toldClosedNow(c) == clientHasClosed(c)

\* What go_ub_write and go_sapi_flush report of the client: once the context
\* is closed, what it was at that moment
toldClosed(c) == IF fcs[c].done THEN fcs[c].hadClosed ELSE clientHasClosed(c)

\* go_write_headers: an informational response (1xx) is not the final one.
writeHeaders(c, final) ==
    /\ fcs' = IF open(c) THEN [fcs EXCEPT ![c].headersWritten = final] ELSE fcs
    /\ IF open(c) THEN used(c) ELSE UNCHANGED late

\* go_ub_write: the output reaches the client of c, or is dropped, or logged
\* when c has no response writer.
ubWrite(c, out) ==
    /\ sent' = IF open(c) THEN [sent EXCEPT ![c] = @ \cup out] ELSE sent
    /\ misled' = IF out # {} /\ toldClosed(c) THEN misled \cup ({c} \ gone) ELSE misled

\* The output layer hands its buffer on: sapi_send_headers(), and
\* frankenphp_ub_write() if there is output
emit(c, out) == writeHeaders(c, TRUE) /\ ubWrite(c, out) /\ buffer' = {}

\* PG(ignore_user_abort): a worker goes on when its client has gone, the
\* script of a regular thread ends.
bailsOut(c) == ~worker /\ toldClosed(c)

running == pc \in {"script", "handler"}

\* The script writes: to the output layer, or nowhere when it is not active.
phpEcho ==
    /\ running /\ output
    /\ buffer' = buffer \cup {fc}
    /\ echoed' = IF fc \in Request /\ open(fc) THEN echoed \cup {fc} ELSE echoed
    /\ UNCHANGED <<threadVars, callVars, sent, output, phpVars, seenVars, gauges>>

\* Output that is not buffered any longer.  php_handle_aborted_connection()
\* disables the output layer.
phpWrite ==
    /\ running /\ output /\ buffer # {}
    /\ emit(fc, buffer)
    /\ output' = ~toldClosed(fc)
    /\ pc' = IF bailsOut(fc) THEN "rshutdown" ELSE pc
    /\ UNCHANGED <<worker, cur, booting, exitStatus, scripts, call, gone, echoed,
                   phpVars, nilRequest, gauges>>

\* go_sapi_flush
sapiFlush(c) == hasWriter(c) /\ toldClosed(c)

\* frankenphp_sapi_flush()
phpFlush ==
    LET told == sapiFlush(fc) IN
    /\ running /\ output /\ buffer = {}
    /\ writeHeaders(fc, TRUE)
    /\ misled' = IF told THEN misled \cup ({fc} \ gone) ELSE misled
    /\ output' = ~told
    /\ pc' = IF told /\ ~worker THEN "rshutdown" ELSE pc
    /\ UNCHANGED <<worker, cur, booting, exitStatus, scripts, call, gone, sent, echoed,
                   buffer, phpVars, nilRequest, gauges>>

\* headers_send() with an informational status, at any time
phpHeadersSend ==
    /\ running
    /\ writeHeaders(fc, FALSE)
    /\ UNCHANGED <<threadVars, call, gone, outVars, phpVars, misled, nilRequest, gauges>>

\* frankenphp_finish_request(): flush, then close the context.
phpFinishFlush ==
    /\ running /\ ~fcs[fc].done
    /\ emit(fc, buffer)
    /\ output' = (output /\ ~(buffer # {} /\ toldClosed(fc)))
    /\ pc' = IF buffer # {} /\ bailsOut(fc) THEN "rshutdown" ELSE "finish"
    /\ UNCHANGED <<worker, cur, booting, exitStatus, scripts, call, gone, echoed,
                   phpVars, nilRequest, gauges>>

\* The step a PHP function called by the script returns to
toScript == IF worker /\ cur # None THEN "handler" ELSE "script"

\* go_frankenphp_finish_php_request()
phpFinish ==
    /\ pc = "finish"
    /\ fcs' = closeContext(fc)
    /\ nilRequest' = (nilRequest \/ (Debug /\ ~hasRequest(fc)))
    /\ pc' = IF nilRequest' THEN "stopped" ELSE toScript
    /\ UNCHANGED <<worker, cur, booting, exitStatus, scripts, call, gone, outVars,
                   phpVars, misled, late, gauges>>
-----------------------------------------------------------------------------
(* Input *)

\* The answer of reject() is not PHP output.
reject(c) == closeContext(c)

\* go_read_post: a body over the limit rejects the request unless its
\* response has started.
readPost(c) ==
    LET rejected == open(c) /\ c \in Oversized /\ ~fcs[c].headersWritten IN
    /\ IF open(c) THEN used(c) ELSE UNCHANGED late
    /\ fcs' = IF rejected THEN reject(c) ELSE fcs
    /\ echoed' = IF rejected THEN echoed \ {c} ELSE echoed

\* The script reads php://input.
phpInput ==
    /\ running
    /\ nilRequest' = (nilRequest \/ (open(fc) /\ ~hasRequest(fc)))
    /\ pc' = IF nilRequest' THEN "stopped" ELSE pc
    /\ readPost(fc)
    /\ UNCHANGED <<worker, cur, booting, exitStatus, scripts, call, gone, sent, buffer,
                   output, phpVars, misled, gauges>>

\* go_apache_request_headers, for a context with a response writer
phpRequestHeaders ==
    /\ running /\ hasWriter(fc)
    /\ nilRequest' = (nilRequest \/ ~hasRequest(fc))
    /\ pc' = IF nilRequest' THEN "stopped" ELSE pc
    /\ UNCHANGED <<worker, cur, booting, exitStatus, scripts, callVars, outVars,
                   phpVars, misled, late, gauges>>
-----------------------------------------------------------------------------
(* Environment, session, superglobals *)

\* Mutant of envOf: the worker script has no FRANKENPHP_WORKER
envOfBare(c) == IF c \in WithEnv THEN {c} ELSE {}

\* registerPreparedEnv(): the worker's own environment always has
\* FRANKENPHP_WORKER.
envOf(c) == IF c = Dummy \/ c \in WithEnv THEN {c} ELSE {}

\* go_update_request_info: a message leaves the request info alone.
updateRequestInfo(c) ==
    /\ prepared' = prepared \cup envOf(c)
    /\ info' = IF hasRequest(c) THEN c ELSE info

\* frankenphp_free_request_context()
freeRequestContext == info' = None

\* go_register_server_variables: a message registers nothing
serverVariables(c) == IF hasRequest(c) THEN {c} ELSE {}

\* frankenphp_copy_prepared_env(), with what the startup adds for c
copyPreparedEnv(c) == workerEnv \cup prepared \cup envOf(c)

\* What the superglobals are imported from (frankenphp_register_variables):
\* $_SERVER has the prepared environments when the context has one.
imported(c) == serverVariables(c) \cup (IF envOf(c) # {} THEN copyPreparedEnv(c) ELSE {})

\* frankenphp_putenv()
phpPutenv ==
    /\ running /\ sandbox' = "live"
    /\ UNCHANGED <<threadVars, callVars, outVars, super, session, prepared, workerEnv, envGlobal,
                   info, seenVars, gauges>>

\* get_full_env()
fullEnv == IF workerEnv # {} THEN workerEnv ELSE prepared

\* frankenphp_lookup_env() and frankenphp_dup_env(): whose environment
\* getenv() finds, the sandbox aside
lookupEnv == prepared \cup workerEnv

\* The first use of $_ENV in a script captures an environment.
phpEnvGlobal ==
    /\ running /\ envGlobal = {}
    /\ envGlobal' = fullEnv
    /\ UNCHANGED <<threadVars, callVars, outVars, super, session, prepared, workerEnv, sandbox, info,
                   seenVars, gauges>>

\* frankenphp_reset_session_state()
resetSessionState == session' = {}

\* session_start()
phpSession ==
    /\ running /\ session' = session \cup {fc}
    /\ UNCHANGED <<threadVars, callVars, outVars, super, prepared, workerEnv, envGlobal, sandbox, info,
                   seenVars, gauges>>
-----------------------------------------------------------------------------
(* The loop of php_thread() *)

\* metrics.StartWorker(): busy threads, and workers
StartWorker == gauges' = [gauges EXCEPT !.busy = @ + 1, !.total = @ + 1]

\* metrics.ReadyWorker()
ReadyWorker == gauges' = [gauges EXCEPT !.ready = @ + 1]

\* beforeScriptExecution() of a regular thread: waitForRequest()
waitForRequest(r) ==
    /\ pc = "before" /\ ~worker /\ scripts < ScriptBound
    /\ call[r] = "idle" /\ hasRequest(r)
    /\ pc' = "startup" /\ cur' = r /\ scripts' = scripts + 1
    /\ call' = [call EXCEPT ![r] = "held"]
    /\ UNCHANGED <<worker, booting, exitStatus, fcs, gone, outVars, phpVars, seenVars,
                   gauges>>

\* beforeScriptExecution() of a worker thread
setupWorkerScript ==
    /\ pc = "before" /\ worker /\ scripts < ScriptBound
    /\ pc' = "startup" /\ booting' = TRUE /\ scripts' = scripts + 1
    /\ fcs' = [fcs EXCEPT ![Dummy] = freshContext]
    /\ StartWorker
    /\ UNCHANGED <<worker, cur, exitStatus, call, gone, outVars, phpVars, seenVars>>

\* beforeScriptExecution() returns no script: the thread is drained.
stop ==
    /\ pc = "before"
    /\ pc' = "stopped"
    /\ UNCHANGED <<worker, cur, booting, exitStatus, scripts, callVars, outVars,
                   phpVars, seenVars, gauges>>

\* frankenphp_update_request_context() and php_request_startup(), which may
\* read the body, and may fail
requestStartup ==
    /\ pc = "startup"
    /\ updateRequestInfo(fc)
    /\ super' = imported(fc)
    /\ output' = TRUE /\ buffer' = {}
    /\ readPost(fc) \/ UNCHANGED <<fcs, late, echoed>>
    /\ pc' \in {"exec", "rshutdown"}
    /\ UNCHANGED <<worker, cur, booting, exitStatus, scripts, call, gone, sent,
                   session, workerEnv, envGlobal, sandbox, misled, nilRequest, gauges>>

\* open_primary_script() fails, and says so to the client.
scriptMissing ==
    /\ pc' = "rshutdown" /\ exitStatus' = 255
    /\ buffer' = {fc} /\ echoed' = IF open(fc) THEN echoed \cup {fc} ELSE echoed

\* The script is run unless its request was rejected or its file cannot be
\* opened.
executeScript ==
    /\ pc = "exec"
    /\ \/ /\ ~fcs[fc].done
          /\ pc' = "script" /\ exitStatus' = 0 /\ UNCHANGED <<buffer, echoed>>
       \/ ~fcs[fc].done /\ scriptMissing
       \/ /\ fcs[fc].done
          /\ pc' = "rshutdown" /\ exitStatus' = 0 /\ UNCHANGED <<buffer, echoed>>
    /\ UNCHANGED <<worker, cur, booting, scripts, callVars, sent, output, phpVars,
                   seenVars, gauges>>

\* The script ends, or exit() or a fatal error ends it, in the callback too.
scriptEnds ==
    /\ running
    /\ pc' = "rshutdown" /\ exitStatus' \in {0, 255}
    /\ UNCHANGED <<worker, cur, booting, scripts, callVars, outVars, phpVars, seenVars,
                   gauges>>

\* A bailout that escapes php_execute_script(): the thread is unhealthy.
criticalFailure ==
    /\ running
    /\ pc' = "broken" /\ exitStatus' = 255
    /\ UNCHANGED <<worker, cur, booting, scripts, callVars, outVars, phpVars, seenVars,
                   gauges>>

\* reset_sandboxed_environment(); the script code of the shutdown may make a
\* sandbox again, which is freed with the request heap.
resetSandboxedEnvironment ==
    prepared' = {} /\ workerEnv' = {} /\ sandbox' \in {"null", "freed"}

\* reset_sandboxed_environment() and php_request_shutdown(): shutdown
\* functions and destructors run, and may write or call putenv(); then the
\* output is flushed and the request heap freed.  A bailout of the flush is
\* caught by php_request_shutdown(), one of a later step leaves the thread
\* unhealthy; in the zend_catch of an unhealthy thread any step may bail out.
requestShutdown ==
    /\ pc \in {"rshutdown", "broken"}
    /\ resetSandboxedEnvironment
    /\ super' = {} /\ session' = {} /\ envGlobal' = {} /\ output' = FALSE
    /\ \/ /\ \E out \in {buffer, IF output THEN buffer \cup {fc} ELSE buffer} : emit(fc, out)
          /\ UNCHANGED echoed
       \/ /\ pc = "broken"
          /\ buffer' = {} /\ echoed' = echoed \ {fc} /\ UNCHANGED <<sent, fcs, late, misled>>
    /\ pc' \in IF pc = "broken" THEN {"unhealthy"} ELSE {"shut", "unhealthy"}
    /\ UNCHANGED <<worker, cur, booting, exitStatus, scripts, call, gone,
                   info, nilRequest, gauges>>

\* The sandbox of a putenv() during the shutdown was freed with the heap.
forgetSandbox ==
    /\ pc = "shut"
    /\ pc' = "after" /\ sandbox' = "null" /\ freeRequestContext
    /\ UNCHANGED <<worker, cur, booting, exitStatus, scripts, callVars, outVars,
                   super, session, prepared, workerEnv, envGlobal, seenVars, gauges>>

\* metrics.StopWorker(): a worker that never got ready is not subtracted
\* from the ready ones.
StopWorker ==
    gauges' = [busy |-> gauges.busy - 1, total |-> gauges.total - 1,
               ready |-> IF booting THEN gauges.ready ELSE gauges.ready - 1,
               restarts |-> gauges.restarts + IF ~booting /\ exitStatus = 0 THEN 1 ELSE 0,
               crashes |-> gauges.crashes + IF booting \/ exitStatus # 0 THEN 1 ELSE 0]

\* Mutant of afterScriptExecution: the context of a crashed script stays open
afterScriptForget ==
    /\ pc \in {"after", "unhealthy"}
    /\ cur' = None /\ sandbox' = "null" /\ freeRequestContext
    /\ IF worker THEN StopWorker ELSE UNCHANGED gauges
    /\ pc' \in IF worker /\ booting THEN {"before", "stopped"} ELSE {"before"}
    /\ UNCHANGED <<worker, booting, exitStatus, scripts, fcs, call, gone, outVars,
                   super, session, prepared, workerEnv, envGlobal, seenVars>>

\* The zend_catch of php_thread(): the thread is replaced by a new one, whose
\* thread-local state is empty.
replaced == pc = "unhealthy"

\* go_frankenphp_after_script_execution: tearDownWorkerScript(), or
\* afterRequest() of a regular thread.  A worker that fails to boot too
\* often stops.
afterScriptExecution ==
    /\ pc = "after" \/ replaced
    /\ fcs' = IF cur # None THEN closeContext(cur) ELSE fcs
    /\ cur' = None /\ sandbox' = "null" /\ freeRequestContext
    /\ IF worker THEN StopWorker ELSE UNCHANGED gauges
    /\ pc' \in IF worker /\ booting THEN {"before", "stopped"} ELSE {"before"}
    /\ UNCHANGED <<worker, booting, exitStatus, scripts, call, gone, outVars,
                   super, session, prepared, workerEnv, envGlobal, seenVars>>
-----------------------------------------------------------------------------
(* frankenphp_handle_request() *)

\* Mutant of handleRequest: superglobals wait for the next startup
handleUnreleased ==
    /\ pc = "script" /\ worker
    /\ UNCHANGED super
    /\ UNCHANGED buffer
    /\ pc' \in {"ready", "script"}
    /\ UNCHANGED <<worker, cur, booting, exitStatus, scripts, callVars, sent, echoed,
                   output, session, prepared, workerEnv, envGlobal, sandbox, info, seenVars, gauges>>

\* frankenphp_release_super_globals(): the destructors it runs may write.
releaseSuperGlobals ==
    super' = {} /\ buffer' \in {buffer, IF output THEN buffer \cup super ELSE buffer}

\* frankenphp_handle_request() until it waits; a destructor may throw.
handleRequest ==
    /\ pc = "script" /\ worker
    /\ releaseSuperGlobals
    /\ pc' \in {"ready", "script"}
    /\ UNCHANGED <<worker, cur, booting, exitStatus, scripts, callVars, sent, echoed,
                   output, session, prepared, workerEnv, envGlobal, sandbox, info, seenVars, gauges>>

\* frankenphp_shutdown_dummy_request(): the output of the boot goes nowhere.
shutdownDummyRequest ==
    /\ workerEnv' = prepared /\ prepared' = {}
    /\ buffer' = {} /\ output' = FALSE /\ resetSessionState /\ freeRequestContext

\* Mutant of workerReady: every call counts the worker as ready
workerReadyAgain ==
    /\ pc = "ready" /\ pc' = "wait"
    /\ IF booting
       THEN /\ booting' = FALSE
            /\ shutdownDummyRequest
       ELSE UNCHANGED <<booting, workerEnv, prepared, buffer, output, session, info>>
    /\ ReadyWorker
    /\ UNCHANGED <<worker, cur, exitStatus, scripts, callVars, sent, echoed, super,
                   envGlobal, sandbox, seenVars>>

\* waitForWorkerRequest() up to its select: the first call of a script shuts
\* the dummy request down (frankenphp_shutdown_dummy_request), and the worker
\* is ready.
workerReady ==
    /\ pc = "ready" /\ pc' = "wait"
    /\ IF booting
       THEN /\ booting' = FALSE
            /\ shutdownDummyRequest
            /\ ReadyWorker
       ELSE UNCHANGED <<booting, workerEnv, prepared, buffer, output, session, info, gauges>>
    /\ UNCHANGED <<worker, cur, exitStatus, scripts, callVars, sent, echoed, super,
                   envGlobal, sandbox, seenVars>>

\* The rest of waitForWorkerRequest(): a request, or none when the thread is
\* drained or has served max_requests
waitForWorkerRequest ==
    /\ pc = "wait" /\ pc' = "wstartup"
    /\ \/ \E r \in Request :
            /\ call[r] = "idle"
            /\ cur' = r /\ call' = [call EXCEPT ![r] = "held"]
       \/ UNCHANGED <<cur, call>>
    /\ UNCHANGED <<worker, booting, exitStatus, scripts, fcs, gone, outVars, phpVars,
                   seenVars, gauges>>

\* php_output_activate() and frankenphp_reset_super_globals(): what is left in
\* the superglobals is destroyed while the new output is active.
resetSuperGlobals ==
    output' = TRUE /\ buffer' \in {{}, super} /\ super' = imported(fc)

\* frankenphp_worker_request_startup(), without a request too.  A
\* failure ends the script; a rejected request skips the callback.
workerRequestStartup ==
    /\ pc = "wstartup"
    /\ updateRequestInfo(fc)
    /\ resetSuperGlobals
    /\ readPost(fc) \/ UNCHANGED <<fcs, late, echoed>>
    /\ \/ exitStatus' \in {0, 255} /\ pc' = "rshutdown"
       \/ /\ pc' = IF cur = None THEN "script" ELSE IF fcs'[fc].done THEN "wshutdown" ELSE "handler"
          /\ UNCHANGED exitStatus
    /\ UNCHANGED <<worker, cur, booting, scripts, call, gone, sent, session,
                   workerEnv, envGlobal, sandbox, misled, nilRequest, gauges>>

\* Mutant of callbackReturns: the request is finished before it is shut down
callbackUnflushed ==
    /\ pc = "handler" /\ pc' = "wfinish"
    /\ \/ UNCHANGED <<buffer, echoed>>
       \/ /\ output /\ buffer' = buffer \cup {fc}
          /\ echoed' = IF open(fc) THEN echoed \cup {fc} ELSE echoed
    /\ UNCHANGED <<worker, cur, booting, exitStatus, scripts, callVars, sent, output,
                   phpVars, seenVars, gauges>>

\* The callback returns, or throws, in which case the message is printed.
callbackReturns ==
    /\ pc = "handler" /\ pc' = "wshutdown"
    /\ \/ UNCHANGED <<buffer, echoed>>
       \/ /\ output /\ buffer' = buffer \cup {fc}
          /\ echoed' = IF open(fc) THEN echoed \cup {fc} ELSE echoed
    /\ UNCHANGED <<worker, cur, booting, exitStatus, scripts, callVars, sent, output,
                   phpVars, seenVars, gauges>>

\* frankenphp_worker_request_shutdown()
workerRequestShutdown ==
    /\ pc = "wshutdown" /\ pc' = "wfinish"
    /\ emit(fc, buffer)
    /\ resetSessionState
    /\ output' = FALSE /\ prepared' = {} /\ freeRequestContext
    /\ UNCHANGED <<worker, cur, booting, exitStatus, scripts, call, gone, echoed,
                   super, workerEnv, envGlobal, sandbox, nilRequest, gauges>>

\* go_frankenphp_finish_worker_request
finishWorkerRequest ==
    /\ pc = "wfinish" /\ pc' = "script"
    /\ fcs' = closeContext(cur) /\ cur' = None
    /\ UNCHANGED <<worker, booting, exitStatus, scripts, call, gone, outVars, phpVars,
                   seenVars, gauges>>
-----------------------------------------------------------------------------
ScriptCall ==
    \/ phpEcho \/ phpWrite \/ phpFlush \/ phpHeadersSend \/ phpFinishFlush \/ phpFinish
    \/ phpInput \/ phpRequestHeaders \/ phpPutenv \/ phpEnvGlobal \/ phpSession

\* The thread has stopped.
Idle == pc = "stopped" /\ UNCHANGED vars

Next ==
    \/ \E r \in Request : clientCloses(r) \/ handlerReturns(r) \/ waitForRequest(r)
    \/ setupWorkerScript \/ stop
    \/ requestStartup \/ executeScript \/ ScriptCall
    \/ scriptEnds \/ criticalFailure \/ requestShutdown \/ forgetSandbox
    \/ afterScriptExecution
    \/ handleRequest \/ workerReady \/ waitForWorkerRequest
    \/ workerRequestStartup \/ callbackReturns \/ workerRequestShutdown \/ finishWorkerRequest
    \/ Idle

Spec == Init /\ [][Next]_vars
-----------------------------------------------------------------------------
\* Every variable holds a value of its kind; the gauges are in GaugesExact.
TypeOK ==
    /\ worker \in BOOLEAN /\ cur \in Request \cup {None}
    /\ booting \in BOOLEAN
    /\ exitStatus \in {0, 255} /\ scripts \in 0..ScriptBound
    /\ fcs \in [Context -> [done : BOOLEAN, hadClosed : BOOLEAN, headersWritten : BOOLEAN]]
    /\ call \in [Request -> {"never", "idle", "held", "returned"}]
    /\ gone \subseteq Request /\ echoed \subseteq Request
    /\ sent \in [Request -> SUBSET Context] /\ buffer \subseteq Context /\ output \in BOOLEAN
    /\ super \subseteq Context /\ session \subseteq Context /\ prepared \subseteq Context
    /\ workerEnv \subseteq Context /\ envGlobal \subseteq Context
    /\ sandbox \in {"null", "live", "freed"} /\ info \in Context \cup {None}
    /\ misled \subseteq Context /\ late \subseteq Request /\ nilRequest \in BOOLEAN

\* A client is only sent output of its own request, whatever order scripts,
\* destructors, aborts, frankenphp_finish_request() and restarts come in:
\* destructors of one request's superglobals never write to the next one
\* (frankenphp_release_super_globals before the next output is active).
ResponseOwned == \A r \in Request : sent[r] \subseteq {r}

\* When the handler of a request is let go, what its script wrote has reached
\* the client, unless the client left, reject() answered it, or a critical
\* failure ended the shutdown (the flushes of frankenphp_finish_request,
\* frankenphp_worker_request_shutdown and php_request_shutdown come before
\* closeContext).
OutputDelivered ==
    \A r \in echoed : fcs[r].done => r \in sent[r] \cup gone

\* The response writer and the body of a request are not touched once its
\* handler has returned: net/http reuses them (fc.isDone in go_ub_write,
\* go_write_headers, go_sapi_flush and go_read_post).
WriterInUse == late = {}

\* PHP takes a connection for aborted only if the client really closed it:
\* the context net/http cancels when the handler returns, early after
\* frankenphp_finish_request(), does not count (clientHadClosed of
\* closeContext).
AbortIsReal == misled = {}

\* While a request runs, superglobals, request info, session and environment
\* hold nothing of another request; and a worker never captures a request's environment
\* in $_ENV, which outlives the request (get_full_env).  Nor does script code, or
\* a getenv() of the engine, find the sandbox of putenv() freed with the heap of
\* an earlier script (reset_sandboxed_environment, and the assignments after
\* php_request_shutdown).
RequestIsolated ==
    /\ running /\ cur # None =>
          super \cup session \cup lookupEnv \cup {info} \subseteq {cur, Dummy, None}
    /\ worker => envGlobal \cup workerEnv \subseteq {Dummy}
    /\ sandbox = "freed" => pc \in {"shut", "unhealthy"}

\* A thread that waits for its next request, or stops, holds no caller back:
\* every request it took is closed, through crashes, exits and failed
\* startups (tearDownWorkerScript, afterRequest).
NothingHeldBack ==
    pc \in {"before", "wait", "stopped"} => \A r \in Request : call[r] = "held" => fcs[r].done

\* The gauges of a worker say what runs: one worker while its script does,
\* one ready after its first frankenphp_handle_request(), and every script
\* that ended counted once, as a crash or as a restart.
GaugesExact ==
    LET up == worker /\ pc \notin {"before", "stopped"}
        on(b) == IF b THEN 1 ELSE 0
    IN  /\ gauges.total = on(up) /\ gauges.busy = on(up)
        /\ gauges.ready = on(up /\ ~booting)
        /\ worker => gauges.total + gauges.crashes + gauges.restarts = scripts

\* A context without a request is never asked for its request: a message of
\* SendMessage may have "Optional http.ResponseWriter"
\* (docs/extension-workers.md) and go_apache_request_headers, go_read_post
\* and the debug message of go_frankenphp_finish_php_request serve it too.
RequestPresent == ~nilRequest
=============================================================================
