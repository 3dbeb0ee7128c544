----------------------- MODULE RequestExecutionProofs -----------------------
(***************************************************************************)
(* What RequestExecution keeps for any number of requests, of scripts and  *)
(* of kinds of requests: where the thread has a request, who waits for it, *)
(* that no callback of the SAPI uses a response too late or takes a client *)
(* for gone; and output, isolation and gauges. The safety properties follow *)
(* from an invariant in parts, each inductive given the others. The last   *)
(* section is about WatchPattern: for any pattern and any path, a change to *)
(* a file that the pattern stands for is not missed.                       *)
(***************************************************************************)
EXTENDS RequestExecution, WatchPattern, WellFoundedInduction, TLAPS

\* Where the thread has a request, and where it has none
Control ==
    /\ pc \in {"before", "ready", "wait"} => cur = None
    /\ pc = "stopped" => cur = None \/ nilRequest
    /\ nilRequest => pc = "stopped"
    /\ worker /\ pc \in {"startup", "exec", "script"} => cur = None
    /\ ~worker /\ pc \in {"startup", "exec", "script", "finish"} => cur # None
    /\ pc \in {"handler", "wshutdown", "wfinish"} => worker /\ cur # None
    /\ pc \in {"ready", "wait", "wstartup"} => worker

\* Callers: only the one of the thread's request waits, and who has returned
\* was let go; a client that was gone when its context was closed is gone
Callers ==
    /\ cur # None => call[cur] \in {"held", "returned"}
    /\ \A r \in Request : call[r] = "returned" => fcs[r].done
    /\ \A r \in Request : call[r] = "held" /\ ~fcs[r].done => r = cur
    /\ \A c \in Context : fcs[c].hadClosed => c \in gone

\* What the fields of the contexts range over
Contexts == [Context -> [done : BOOLEAN, hadClosed : BOOLEAN, headersWritten : BOOLEAN]]

\* frankenPHPContext() always is a context.
LEMMA FcIsContext == ASSUME TypeOK PROVE fc \in Context
BY Zenon DEF TypeOK, fc, Context

\* closeContext closes one context, and records that its client had closed
\* the connection only if it really had: a context that is not done has a
\* handler that has not returned.
LEMMA CloseContext ==
    ASSUME TypeOK, Callers, NEW c \in Context
    PROVE  /\ closeContext(c) \in Contexts
           /\ \A d \in Context : closeContext(c)[d].done <=> fcs[d].done \/ d = c
           /\ \A d \in Context : closeContext(c)[d].hadClosed => d \in gone
<1>1. fcs \in Contexts /\ \A d \in Context : fcs[d].hadClosed => d \in gone
  BY Zenon DEF TypeOK, Callers, Contexts
<1>2. CASE fcs[c].done
  BY <1>1, <1>2, Zenon DEF closeContext
<1>3. CASE ~fcs[c].done
  <2> DEFINE closed == clientHasClosed(c)
  <2>1. closed \in BOOLEAN /\ (closed => c \in gone)
    BY <1>3, Zenon DEF TypeOK, Callers, clientHasClosed
  <2>2. closeContext(c) = [fcs EXCEPT ![c].hadClosed = closed, ![c].done = TRUE]
    BY <1>3, Zenon DEF closeContext
  <2> HIDE DEF closed
  <2> DEFINE one == [fcs EXCEPT ![c].hadClosed = closed]
  <2>3. /\ one \in Contexts
        /\ \A d \in Context : one[d].done = fcs[d].done
        /\ \A d \in Context : one[d].hadClosed => d \in gone
    BY <1>1, <2>1, Zenon DEF Contexts
  <2>4. closeContext(c) = [one EXCEPT ![c].done = TRUE]
    BY <2>2, Zenon
  <2> HIDE DEF one
  <2> QED BY <2>3, <2>4 DEF Contexts
<1> QED BY <1>2, <1>3, Zenon

\* A context that can be written still has its handler.
LEMMA OpenIsHeld ==
    ASSUME TypeOK, Callers, NEW c \in Context, open(c)
    PROVE  c \in Request /\ call[c] # "returned"
BY Zenon DEF TypeOK, Callers, open, hasWriter

\* PHP is told of no client that has not left.
LEMMA ToldIsGone ==
    ASSUME TypeOK, Callers, NEW c \in Context, toldClosed(c)
    PROVE  c \in gone
BY DEF TypeOK, Callers, toldClosed, clientHasClosed, Context

\* Sending headers neither closes a context nor uses a writer too late.
LEMMA WriteHeaders ==
    ASSUME TypeOK, Callers, NEW c \in Context, NEW final \in BOOLEAN, writeHeaders(c, final)
    PROVE  /\ fcs' \in Contexts
           /\ \A d \in Context : fcs'[d].done = fcs[d].done /\ fcs'[d].hadClosed = fcs[d].hadClosed
           /\ late' = late
<1>1. late' = late
  BY OpenIsHeld, Zenon DEF writeHeaders, used
<1>2. fcs \in Contexts
  BY Zenon DEF TypeOK, Contexts
<1>3. CASE open(c)
  <2>1. fcs' = [fcs EXCEPT ![c].headersWritten = final]
    BY <1>3, Zenon DEF writeHeaders
  <2> QED BY <1>1, <1>2, <2>1, Zenon DEF Contexts
<1>4. CASE ~open(c)
  BY <1>1, <1>2, <1>4, Zenon DEF writeHeaders
<1> QED BY <1>3, <1>4, Zenon

\* Output goes to the client of its context alone, while that can be written.
LEMMA UbWrite ==
    ASSUME TypeOK, Callers, NEW c \in Context, NEW out \in SUBSET Context, ubWrite(c, out)
    PROVE  /\ sent' \in [Request -> SUBSET Context]
           /\ \A r \in Request : sent'[r] = IF r = c /\ open(c) THEN sent[r] \cup out ELSE sent[r]
           /\ misled' = misled
<1>1. misled' = misled
  <2>1. CASE toldClosed(c)
    <3>1. {c} \ gone = {}
      BY <2>1, ToldIsGone, Zenon
    <3> QED BY <3>1, Zenon DEF ubWrite
  <2>2. CASE ~toldClosed(c)
    BY <2>2, Zenon DEF ubWrite
  <2> QED BY <2>1, <2>2, Zenon
<1>2. CASE open(c)
  <2>1. c \in Request
    BY <1>2, OpenIsHeld, Zenon
  <2>2. sent' = [sent EXCEPT ![c] = @ \cup out] /\ sent \in [Request -> SUBSET Context]
    BY <1>2, Zenon DEF ubWrite, TypeOK
  <2> QED BY <1>1, <1>2, <2>1, <2>2, Zenon
<1>3. CASE ~open(c)
  BY <1>1, <1>3, Zenon DEF ubWrite, TypeOK
<1> QED BY <1>2, <1>3, Zenon

\* The output layer is emptied, to the client of c if it can be written.
LEMMA Emit ==
    ASSUME TypeOK, Callers, NEW c \in Context, NEW out \in SUBSET Context, emit(c, out)
    PROVE  /\ fcs' \in Contexts
           /\ \A d \in Context : fcs'[d].done = fcs[d].done /\ fcs'[d].hadClosed = fcs[d].hadClosed
           /\ sent' \in [Request -> SUBSET Context]
           /\ \A r \in Request : sent'[r] = IF r = c /\ open(c) THEN sent[r] \cup out ELSE sent[r]
           /\ misled' = misled /\ late' = late /\ buffer' = {}
BY WriteHeaders, UbWrite, Zenon DEF emit

\* Reading the body closes at most this context.
LEMMA ReadPost ==
    ASSUME TypeOK, Callers, NEW c \in Context, readPost(c) \/ UNCHANGED <<fcs, late, echoed>>
    PROVE  /\ fcs' \in Contexts
           /\ \A d \in Context : fcs'[d].done => fcs[d].done \/ d = c
           /\ \A d \in Context : fcs[d].done => fcs'[d].done
           /\ \A d \in Context : fcs'[d].hadClosed => d \in gone
           /\ echoed' \subseteq echoed
           /\ fcs'[c].done => fcs[c].done \/ c \notin echoed'
           /\ late' = late
<1>1. late' = late
  BY OpenIsHeld, Zenon DEF readPost, used
<1>2. fcs \in Contexts
  BY Zenon DEF TypeOK, Contexts
<1>3. CASE open(c) /\ c \in Oversized /\ ~fcs[c].headersWritten /\ readPost(c)
  <2>1. fcs' = closeContext(c) /\ echoed' = echoed \ {c}
    BY <1>3, Zenon DEF readPost, reject
  <2> QED BY <1>1, <2>1, CloseContext, Zenon
<1>4. CASE fcs' = fcs /\ echoed' = echoed
  BY <1>1, <1>2, <1>4, Zenon DEF Callers
<1> QED BY <1>3, <1>4, Zenon DEF readPost

\* The steps that empty the output layer
LEMMA Flushes ==
    ASSUME TypeOK, Callers, phpWrite \/ phpFinishFlush \/ requestShutdown \/ workerRequestShutdown
    PROVE  /\ fcs' \in Contexts
           /\ \A d \in Context : fcs'[d].done = fcs[d].done /\ fcs'[d].hadClosed = fcs[d].hadClosed
           /\ misled' = misled /\ late' = late /\ buffer' = {}
           /\ sent' \in [Request -> SUBSET Context]
           /\ \/ sent' = sent /\ echoed' = echoed \ {fc}
              \/ /\ echoed' = echoed
                 /\ \A r \in Request : r # cur \/ ~open(r) => sent'[r] = sent[r]
                 /\ cur # None /\ open(cur) =>
                      \/ sent'[cur] = sent[cur] \cup buffer
                      \/ sent'[cur] = sent[cur] \cup buffer \cup {cur}
<1> fc \in Context
  BY FcIsContext, Zenon
<1>1. ASSUME NEW out \in SUBSET Context, emit(fc, out), echoed' = echoed,
             out \in {buffer, buffer \cup {fc}}
      PROVE  /\ fcs' \in Contexts
             /\ \A d \in Context : fcs'[d].done = fcs[d].done /\ fcs'[d].hadClosed = fcs[d].hadClosed
             /\ misled' = misled /\ late' = late /\ buffer' = {}
             /\ sent' \in [Request -> SUBSET Context]
             /\ \A r \in Request : r # cur \/ ~open(r) => sent'[r] = sent[r]
             /\ cur # None /\ open(cur) =>
                  \/ sent'[cur] = sent[cur] \cup buffer
                  \/ sent'[cur] = sent[cur] \cup buffer \cup {cur}
  <2>1. /\ fcs' \in Contexts
        /\ \A d \in Context : fcs'[d].done = fcs[d].done /\ fcs'[d].hadClosed = fcs[d].hadClosed
        /\ sent' \in [Request -> SUBSET Context]
        /\ \A r \in Request : sent'[r] = IF r = fc /\ open(fc) THEN sent[r] \cup out ELSE sent[r]
        /\ misled' = misled /\ late' = late /\ buffer' = {}
    BY <1>1, Emit, Zenon
  <2>2. \A r \in Request : r = fc <=> r = cur
    BY ExecutionAssumption, Zenon DEF fc
  <2>3. cur # None => cur \in Request /\ cur = fc
    BY Zenon DEF TypeOK, fc
  <2> QED BY <1>1, <2>1, <2>2, <2>3, Zenon
<1> buffer \in SUBSET Context /\ buffer \cup {fc} \in SUBSET Context
  BY DEF TypeOK
<1>2. CASE phpWrite
  BY <1>1, <1>2, Zenon DEF phpWrite
<1>3. CASE phpFinishFlush
  BY <1>1, <1>3, Zenon DEF phpFinishFlush
<1>4. CASE workerRequestShutdown
  BY <1>1, <1>4, Zenon DEF workerRequestShutdown
<1>5. CASE requestShutdown
  <2>1. CASE \E out \in {buffer, IF output THEN buffer \cup {fc} ELSE buffer} :
                emit(fc, out) /\ echoed' = echoed
    BY <1>1, <2>1, Zenon
  <2>2. CASE buffer' = {} /\ echoed' = echoed \ {fc} /\ UNCHANGED <<sent, fcs, late, misled>>
    BY <2>2, Zenon DEF TypeOK, Contexts
  <2> QED BY <1>5, <2>1, <2>2, Zenon DEF requestShutdown
<1> QED BY <1>2, <1>3, <1>4, <1>5, Zenon

\* The steps that only send headers
LEMMA SendsHeaders ==
    ASSUME TypeOK, Callers, phpFlush \/ phpHeadersSend
    PROVE  /\ fcs' \in Contexts
           /\ \A d \in Context : fcs'[d].done = fcs[d].done /\ fcs'[d].hadClosed = fcs[d].hadClosed
           /\ misled' = misled /\ late' = late
<1> fc \in Context
  BY FcIsContext, Zenon
<1>1. CASE phpFlush
  <2>1. writeHeaders(fc, TRUE)
    BY <1>1, Zenon DEF phpFlush
  <2>2. CASE sapiFlush(fc)
    <3>1. {fc} \ gone = {}
      BY <2>2, ToldIsGone, Zenon DEF sapiFlush
    <3> QED BY <1>1, <2>1, <2>2, <3>1, WriteHeaders, Zenon DEF phpFlush
  <2>3. CASE ~sapiFlush(fc)
    BY <1>1, <2>1, <2>3, WriteHeaders, Zenon DEF phpFlush
  <2> QED BY <2>2, <2>3, Zenon
<1>2. CASE phpHeadersSend
  BY <1>2, WriteHeaders, Zenon DEF phpHeadersSend
<1> QED BY <1>1, <1>2, Zenon

\* The steps that may read the body, and reject the request
LEMMA Reads ==
    ASSUME TypeOK, Callers, requestStartup \/ workerRequestStartup \/ phpInput
    PROVE  /\ fcs' \in Contexts
           /\ \A r \in Request : fcs'[r].done => fcs[r].done \/ r = cur
           /\ \A r \in Request : fcs[r].done => fcs'[r].done
           /\ \A d \in Context : fcs'[d].hadClosed => d \in gone
           /\ echoed' \subseteq echoed
           /\ \A r \in echoed' : fcs'[r].done => fcs[r].done
           /\ late' = late /\ misled' = misled
<1> fc \in Context /\ echoed \subseteq Request /\ Request \subseteq Context
  BY FcIsContext, Zenon DEF TypeOK, Context
<1>1. \A r \in Request : r = fc => r = cur
  BY ExecutionAssumption, Zenon DEF fc
<1>2. readPost(fc) \/ UNCHANGED <<fcs, late, echoed>>
  BY Zenon DEF requestStartup, workerRequestStartup, phpInput
<1>3. misled' = misled
  BY Zenon DEF requestStartup, workerRequestStartup, phpInput
<1> QED BY <1>1, <1>2, <1>3, ReadPost, Zenon

\* The steps that close the context of the thread
LEMMA Closes ==
    ASSUME TypeOK, Control, Callers, phpFinish \/ afterScriptExecution \/ finishWorkerRequest
    PROVE  /\ fcs' \in Contexts
           /\ \A r \in Request : fcs'[r].done <=> fcs[r].done \/ r = cur
           /\ \A d \in Context : fcs'[d].hadClosed => d \in gone
<1> fc \in Context /\ Request \subseteq Context /\ (cur # None => cur \in Context)
  BY FcIsContext, Zenon DEF TypeOK, Context
<1> fcs \in Contexts /\ \A d \in Context : fcs[d].hadClosed => d \in gone
  BY Zenon DEF TypeOK, Contexts, Callers
<1>1. \A r \in Request : r = fc <=> r = cur
  BY ExecutionAssumption, Zenon DEF fc
<1>2. CASE phpFinish
  BY <1>1, <1>2, CloseContext, Zenon DEF phpFinish
<1>3. CASE afterScriptExecution
  BY <1>3, CloseContext, ExecutionAssumption, Zenon DEF afterScriptExecution
<1>4. CASE finishWorkerRequest
  BY <1>4, CloseContext, Zenon DEF finishWorkerRequest, Control
<1> QED BY <1>2, <1>3, <1>4, Zenon

\* A step that takes no request and gives none back loses no caller.
LEMMA FramedCallers ==
    ASSUME TypeOK, Callers, UNCHANGED <<cur, call>>, gone \subseteq gone',
           \A r \in Request : fcs[r].done => fcs'[r].done,
           \A d \in Context : fcs'[d].hadClosed => d \in gone
    PROVE  Callers'
BY DEF Callers, TypeOK
-----------------------------------------------------------------------------
\* Every step leaves each variable of its kind.
LEMMA TypesKept ==
    ASSUME TypeOK, Control, Callers, [Next]_vars
    PROVE  TypeOK'
<1>1. ASSUME NEW r \in Request, clientCloses(r) PROVE TypeOK'
  BY <1>1, ExecutionAssumption DEF clientCloses, hasRequest, threadVars, outVars, phpVars,
    seenVars, TypeOK, Control, Context, Contexts
<1>2. ASSUME NEW r \in Request, handlerReturns(r) PROVE TypeOK'
  BY <1>2, ExecutionAssumption DEF handlerReturns, threadVars, phpVars, seenVars, TypeOK,
    Control, Context, Contexts
<1>3. ASSUME NEW r \in Request, waitForRequest(r) PROVE TypeOK'
  BY <1>3, ExecutionAssumption DEF waitForRequest, hasRequest, outVars, phpVars, seenVars,
    TypeOK, Control, Context, Contexts
<1>4. CASE setupWorkerScript
  BY <1>4, ExecutionAssumption DEF setupWorkerScript, freshContext, StartWorker, outVars,
    phpVars, seenVars, TypeOK, Control, Context, Contexts
<1>5. CASE stop
  BY <1>5, ExecutionAssumption, Zenon DEF stop, callVars, outVars, phpVars, seenVars, TypeOK,
    Control, Context, Contexts
<1>6. CASE requestStartup
  <2>1. fcs' \in Contexts /\ echoed' \subseteq Request /\ late' = late /\ misled' = misled
    BY <1>6, Reads, Zenon DEF TypeOK
  <2>2. fc \in Context /\ envOf(fc) \subseteq {fc} /\ serverVariables(fc) \subseteq {fc}
    BY FcIsContext, Zenon DEF envOf, serverVariables
  <2>3. imported(fc) \subseteq Context
    BY <2>2 DEF imported, copyPreparedEnv, TypeOK
  <2>4. prepared' \subseteq Context /\ info' \in Context \cup {None}
    BY <1>6, <2>2 DEF requestStartup, updateRequestInfo, TypeOK
  <2> QED BY <1>6, <2>1, <2>3, <2>4 DEF requestStartup, TypeOK, Contexts
<1>7. CASE executeScript
  BY <1>7, ExecutionAssumption DEF executeScript, fc, scriptMissing, open, hasWriter,
    callVars, phpVars, seenVars, TypeOK, Control, Context, Contexts
<1>8. CASE phpEcho
  BY <1>8, ExecutionAssumption DEF phpEcho, running, fc, open, hasWriter, threadVars,
    callVars, phpVars, seenVars, TypeOK, Control, Context, Contexts
<1>9. CASE phpWrite
  <2>1. /\ fcs' \in Contexts /\ late' = late /\ misled' = misled /\ buffer' = {}
        /\ sent' \in [Request -> SUBSET Context]
    BY <1>9, Flushes, Zenon
  <2>2. output' \in BOOLEAN
    BY <1>9, Zenon DEF phpWrite, TypeOK
  <2> QED BY <1>9, <2>1, <2>2 DEF phpWrite, phpVars, TypeOK, Contexts
<1>10. CASE phpFlush
  BY <1>10, SendsHeaders, ExecutionAssumption DEF phpFlush, sapiFlush, hasWriter,
    toldClosed, clientHasClosed, hasRequest, fc, running, phpVars, TypeOK, Control, Context,
    Contexts
<1>11. CASE phpHeadersSend
  <2>1. fcs' \in Contexts /\ late' = late
    BY <1>11, SendsHeaders, Zenon
  <2> QED BY <1>11, <2>1 DEF phpHeadersSend, TypeOK, Contexts, threadVars, outVars, phpVars
<1>12. CASE phpFinishFlush
  <2>1. /\ fcs' \in Contexts /\ late' = late /\ misled' = misled /\ buffer' = {}
        /\ sent' \in [Request -> SUBSET Context]
    BY <1>12, Flushes, Zenon
  <2>2. output' \in BOOLEAN
    BY <1>12, Zenon DEF phpFinishFlush, TypeOK
  <2> QED BY <1>12, <2>1, <2>2 DEF phpFinishFlush, phpVars, TypeOK, Contexts
<1>13. CASE phpFinish
  <2>1. fcs' \in Contexts
    BY <1>13, Closes, Zenon
  <2>2. nilRequest' \in BOOLEAN
    BY <1>13, Zenon DEF phpFinish, TypeOK
  <2> QED BY <1>13, <2>1, <2>2 DEF phpFinish, outVars, phpVars, TypeOK, Contexts
<1>14. CASE phpInput
  <2>1. fcs' \in Contexts /\ echoed' \subseteq Request /\ late' = late /\ misled' = misled
    BY <1>14, Reads, Zenon DEF TypeOK
  <2>2. nilRequest' \in BOOLEAN
    BY <1>14, Zenon DEF phpInput, TypeOK
  <2> QED BY <1>14, <2>1, <2>2 DEF phpInput, phpVars, TypeOK, Contexts
<1>15. CASE phpRequestHeaders
  BY <1>15, ExecutionAssumption DEF phpRequestHeaders, running, hasWriter, fc, hasRequest,
    callVars, outVars, phpVars, TypeOK, Control, Context, Contexts
<1>16. CASE phpPutenv
  BY <1>16, ExecutionAssumption, Zenon DEF phpPutenv, running, threadVars, callVars, outVars,
    seenVars, TypeOK, Control, Context, Contexts
<1>17. CASE phpEnvGlobal
  BY <1>17, ExecutionAssumption DEF phpEnvGlobal, running, fullEnv, threadVars, callVars,
    outVars, seenVars, TypeOK, Control, Context, Contexts
<1>18. CASE phpSession
  BY <1>18, ExecutionAssumption DEF phpSession, running, fc, threadVars, callVars, outVars,
    seenVars, TypeOK, Control, Context, Contexts
<1>19. CASE scriptEnds
  BY <1>19, ExecutionAssumption, Zenon DEF scriptEnds, running, callVars, outVars, phpVars,
    seenVars, TypeOK, Control, Context, Contexts
<1>20. CASE criticalFailure
  BY <1>20, ExecutionAssumption DEF criticalFailure, running, callVars, outVars, phpVars,
    seenVars, TypeOK, Control, Context, Contexts
<1>21. CASE requestShutdown
  <2>1. /\ fcs' \in Contexts /\ late' = late /\ misled' = misled /\ buffer' = {}
        /\ sent' \in [Request -> SUBSET Context] /\ echoed' \subseteq Request
    BY <1>21, Flushes, Zenon DEF TypeOK
  <2>2. /\ super' = {} /\ session' = {} /\ prepared' = {} /\ workerEnv' = {} /\ envGlobal' = {}
        /\ output' = FALSE /\ sandbox' \in {"null", "freed"}
        /\ UNCHANGED <<worker, cur, booting, exitStatus, scripts, call, gone, info, nilRequest>>
    BY <1>21, Zenon DEF requestShutdown, resetSandboxedEnvironment
  <2> QED BY <2>1, <2>2, Zenon DEF TypeOK, Contexts
<1>22. CASE forgetSandbox
  BY <1>22, ExecutionAssumption DEF forgetSandbox, freeRequestContext, callVars, outVars,
    seenVars, TypeOK, Control, Context, Contexts
<1>23. CASE afterScriptExecution
  BY <1>23, Closes, ExecutionAssumption, Zenon DEF afterScriptExecution, replaced,
    freeRequestContext, StopWorker, outVars, seenVars, TypeOK, Control, Context, Contexts
<1>24. CASE handleRequest
  BY <1>24, ExecutionAssumption, Zenon DEF handleRequest, releaseSuperGlobals, callVars, seenVars,
    TypeOK, Control, Context, Contexts
<1>25. CASE workerReady
  <2>1. CASE booting
    BY <1>25, <2>1, Zenon DEF workerReady, shutdownDummyRequest, resetSessionState, freeRequestContext,
      callVars, seenVars, TypeOK
  <2>2. CASE ~booting
    BY <1>25, <2>2 DEF workerReady, callVars, seenVars, TypeOK
  <2> QED BY <2>1, <2>2, Zenon
<1>26. CASE waitForWorkerRequest
  BY <1>26, ExecutionAssumption DEF waitForWorkerRequest, outVars, phpVars, seenVars,
    TypeOK, Control, Context, Contexts
<1>27. CASE workerRequestStartup
  <2>1. fcs' \in Contexts /\ echoed' \subseteq Request /\ late' = late /\ misled' = misled
    BY <1>27, Reads, Zenon DEF TypeOK
  <2>2. fc \in Context /\ envOf(fc) \subseteq {fc} /\ serverVariables(fc) \subseteq {fc}
    BY FcIsContext DEF envOf, serverVariables
  <2>3. imported(fc) \subseteq Context
    BY <2>2 DEF imported, copyPreparedEnv, TypeOK
  <2>4. prepared' \subseteq Context /\ info' \in Context \cup {None}
    BY <1>27, <2>2 DEF workerRequestStartup, updateRequestInfo, TypeOK
  <2> QED BY <1>27, <2>1, <2>3, <2>4 DEF workerRequestStartup, resetSuperGlobals, TypeOK, Contexts
<1>28. CASE callbackReturns
  <2>1. fc \in Context /\ echoed' \subseteq Request
    BY <1>28, FcIsContext DEF callbackReturns, TypeOK, open, hasWriter
  <2> QED BY <1>28, <2>1 DEF callbackReturns, callVars, phpVars, seenVars, TypeOK
<1>29. CASE workerRequestShutdown
  <2>1. /\ fcs' \in Contexts /\ late' = late /\ misled' = misled /\ buffer' = {}
        /\ sent' \in [Request -> SUBSET Context]
    BY <1>29, Flushes, Zenon
  <2>2. output' \in BOOLEAN
    BY <1>29, Zenon DEF workerRequestShutdown, TypeOK
  <2> QED BY <1>29, <2>1, <2>2 DEF workerRequestShutdown, resetSessionState, freeRequestContext, TypeOK, Contexts
<1>30. CASE finishWorkerRequest
  BY <1>30, Closes, ExecutionAssumption DEF finishWorkerRequest, outVars, phpVars, seenVars,
    TypeOK, Control, Context, Contexts
<1>31. CASE UNCHANGED vars
  BY <1>31 DEF vars, threadVars, callVars, outVars, phpVars, seenVars, TypeOK, Control, Context, Contexts
<1> QED BY <1>1, <1>2, <1>3, <1>4, <1>5, <1>6, <1>7, <1>8, <1>9, <1>10, <1>11, <1>12, <1>13,
    <1>14, <1>15, <1>16, <1>17, <1>18, <1>19, <1>20, <1>21, <1>22, <1>23, <1>24, <1>25,
    <1>26, <1>27, <1>28, <1>29, <1>30, <1>31, Zenon DEF Next, ScriptCall, Idle

\* A request is taken and given back where Control says.
LEMMA ControlKept ==
    ASSUME TypeOK, Control, Callers, [Next]_vars
    PROVE  Control'
<1>1. ASSUME NEW r \in Request, clientCloses(r) PROVE Control'
  BY <1>1, ExecutionAssumption, Zenon DEF clientCloses, hasRequest, threadVars, outVars, phpVars,
    seenVars, Control
<1>2. ASSUME NEW r \in Request, handlerReturns(r) PROVE Control'
  BY <1>2, ExecutionAssumption, Zenon DEF handlerReturns, threadVars, phpVars, seenVars, Control
<1>3. ASSUME NEW r \in Request, waitForRequest(r) PROVE Control'
  BY <1>3, ExecutionAssumption, Zenon DEF waitForRequest, hasRequest, outVars, phpVars, seenVars,
    Control
<1>4. CASE setupWorkerScript
  BY <1>4, ExecutionAssumption, Zenon DEF setupWorkerScript, freshContext, StartWorker, outVars,
    phpVars, seenVars, Control
<1>5. CASE stop
  BY <1>5, ExecutionAssumption, Zenon DEF stop, callVars, outVars, phpVars, seenVars, Control
<1>6. CASE requestStartup
  BY <1>6, Reads, ExecutionAssumption, Zenon DEF requestStartup, updateRequestInfo, envOf,
    hasRequest, fc, imported, serverVariables, copyPreparedEnv, Control
<1>7. CASE executeScript
  BY <1>7, ExecutionAssumption, Zenon DEF executeScript, fc, scriptMissing, open, hasWriter,
    callVars, phpVars, seenVars, Control
<1>8. CASE phpEcho
  BY <1>8, ExecutionAssumption, Zenon DEF phpEcho, running, fc, open, hasWriter, threadVars,
    callVars, phpVars, seenVars, Control
<1>9. CASE phpWrite
  BY <1>9, Flushes, ExecutionAssumption, Zenon DEF phpWrite, running, fc, toldClosed,
    clientHasClosed, hasRequest, bailsOut, phpVars, Control
<1>10. CASE phpFlush
  BY <1>10, SendsHeaders, ExecutionAssumption, Zenon DEF phpFlush, sapiFlush, hasWriter,
    toldClosed, clientHasClosed, hasRequest, fc, running, phpVars, Control
<1>11. CASE phpHeadersSend
  BY <1>11, SendsHeaders, ExecutionAssumption, Zenon DEF phpHeadersSend, running, fc, threadVars,
    outVars, phpVars, Control
<1>12. CASE phpFinishFlush
  BY <1>12, Flushes, ExecutionAssumption, Zenon DEF phpFinishFlush, running, fc, toldClosed,
    clientHasClosed, hasRequest, bailsOut, phpVars, Control
<1>13. CASE phpFinish
  <2>1. CASE nilRequest'
    BY <1>13, <2>1, Zenon DEF phpFinish, Control
  <2>2. CASE ~nilRequest'
    BY <1>13, <2>2, Zenon DEF phpFinish, Control, toScript
  <2> QED BY <2>1, <2>2, Zenon
<1>14. CASE phpInput
  BY <1>14, Reads, ExecutionAssumption, Zenon DEF phpInput, running, open, hasWriter, fc,
    hasRequest, phpVars, Control
<1>15. CASE phpRequestHeaders
  BY <1>15, ExecutionAssumption, Zenon DEF phpRequestHeaders, running, hasWriter, fc, hasRequest,
    callVars, outVars, phpVars, Control
<1>16. CASE phpPutenv
  BY <1>16, ExecutionAssumption, Zenon DEF phpPutenv, running, threadVars, callVars, outVars,
    seenVars, Control
<1>17. CASE phpEnvGlobal
  BY <1>17, ExecutionAssumption, Zenon DEF phpEnvGlobal, running, fullEnv, threadVars, callVars,
    outVars, seenVars, Control
<1>18. CASE phpSession
  BY <1>18, ExecutionAssumption, Zenon DEF phpSession, running, fc, threadVars, callVars, outVars,
    seenVars, Control
<1>19. CASE scriptEnds
  BY <1>19, ExecutionAssumption, Zenon DEF scriptEnds, running, callVars, outVars, phpVars,
    seenVars, Control
<1>20. CASE criticalFailure
  BY <1>20, ExecutionAssumption, Zenon DEF criticalFailure, running, callVars, outVars, phpVars,
    seenVars, Control
<1>21. CASE requestShutdown
  BY <1>21, Flushes, ExecutionAssumption, Zenon DEF requestShutdown, resetSandboxedEnvironment, fc,
    Control
<1>22. CASE forgetSandbox
  BY <1>22, ExecutionAssumption, Zenon DEF forgetSandbox, freeRequestContext, callVars, outVars,
    seenVars, Control
<1>23. CASE afterScriptExecution
  BY <1>23, Closes, ExecutionAssumption, Zenon DEF afterScriptExecution, replaced,
    freeRequestContext, StopWorker, outVars, seenVars, Control
<1>24. CASE handleRequest
  BY <1>24, ExecutionAssumption, Zenon DEF handleRequest, releaseSuperGlobals, callVars, seenVars,
    Control
<1>25. CASE workerReady
  BY <1>25, ExecutionAssumption, Zenon DEF workerReady, shutdownDummyRequest, resetSessionState,
    freeRequestContext, ReadyWorker, callVars, seenVars, Control
<1>26. CASE waitForWorkerRequest
  BY <1>26, ExecutionAssumption, Zenon DEF waitForWorkerRequest, outVars, phpVars, seenVars,
    Control
<1>27. CASE workerRequestStartup
  <2>1. /\ pc' \in {"rshutdown", "script", "wshutdown", "handler"}
        /\ pc' = "script" => cur = None
        /\ pc' \in {"handler", "wshutdown"} => cur # None
    BY <1>27, Zenon DEF workerRequestStartup
  <2> QED BY <1>27, <2>1, Zenon DEF workerRequestStartup, Control
<1>28. CASE callbackReturns
  BY <1>28, ExecutionAssumption, Zenon DEF callbackReturns, fc, open, hasWriter, callVars, phpVars,
    seenVars, Control
<1>29. CASE workerRequestShutdown
  BY <1>29, Flushes, ExecutionAssumption, Zenon DEF workerRequestShutdown, fc, resetSessionState,
    freeRequestContext, Control
<1>30. CASE finishWorkerRequest
  BY <1>30, Closes, ExecutionAssumption, Zenon DEF finishWorkerRequest, outVars, phpVars, seenVars,
    Control
<1>31. CASE UNCHANGED vars
  BY <1>31, Zenon DEF vars, threadVars, callVars, outVars, phpVars, seenVars, Control
<1> QED BY <1>1, <1>2, <1>3, <1>4, <1>5, <1>6, <1>7, <1>8, <1>9, <1>10, <1>11, <1>12, <1>13,
    <1>14, <1>15, <1>16, <1>17, <1>18, <1>19, <1>20, <1>21, <1>22, <1>23, <1>24, <1>25,
    <1>26, <1>27, <1>28, <1>29, <1>30, <1>31, Zenon DEF Next, ScriptCall, Idle

\* No step loses a caller: a request leaves the thread with its context closed.
LEMMA CallersKept ==
    ASSUME TypeOK, Control, Callers, [Next]_vars
    PROVE  Callers'
<1>1. ASSUME NEW r \in Request, clientCloses(r) PROVE Callers'
  BY <1>1, ExecutionAssumption, Zenon DEF clientCloses, hasRequest, threadVars, outVars, phpVars,
    seenVars, TypeOK, Control, Callers, Context, Contexts
<1>2. ASSUME NEW r \in Request, handlerReturns(r) PROVE Callers'
  <2>1. /\ fcs[r].done /\ call' = [call EXCEPT ![r] = "returned"] /\ UNCHANGED <<cur, fcs, gone>>
    BY <1>2, Zenon DEF handlerReturns, threadVars
  <2>2. \A q \in Request : call'[q] = IF q = r THEN "returned" ELSE call[q]
    BY <2>1 DEF TypeOK
  <2>3. cur # None => cur \in Request
    BY Zenon DEF TypeOK
  <2> QED BY <2>1, <2>2, <2>3, Zenon DEF Callers
<1>3. ASSUME NEW r \in Request, waitForRequest(r) PROVE Callers'
  <2>1. UNCHANGED <<fcs, gone>> /\ cur = None
    BY <1>3, Zenon DEF waitForRequest, Control
  <2>2. cur' = r /\ \A q \in Request : call'[q] = IF q = r THEN "held" ELSE call[q]
    BY <1>3 DEF waitForRequest, TypeOK
  <2> QED BY <2>1, <2>2, ExecutionAssumption, Zenon DEF Callers
<1>4. CASE setupWorkerScript
  BY <1>4, ExecutionAssumption DEF setupWorkerScript, freshContext, StartWorker, outVars,
    phpVars, seenVars, TypeOK, Control, Callers, Context, Contexts
<1>5. CASE stop
  BY <1>5, FramedCallers, Zenon DEF Callers, stop, callVars
<1>6. CASE requestStartup
  <2>1. /\ \A r \in Request : fcs[r].done => fcs'[r].done
        /\ \A d \in Context : fcs'[d].hadClosed => d \in gone
    BY <1>6, Reads, Zenon DEF Callers, Context
  <2> QED BY <1>6, <2>1, FramedCallers, Zenon DEF requestStartup
<1>7. CASE executeScript
  BY <1>7, FramedCallers, Zenon DEF Callers, executeScript, callVars
<1>8. CASE phpEcho
  BY <1>8, FramedCallers, Zenon DEF Callers, phpEcho, threadVars, callVars
<1>9. CASE phpWrite
  <2>1. /\ \A r \in Request : fcs[r].done => fcs'[r].done
        /\ \A d \in Context : fcs'[d].hadClosed => d \in gone
    BY <1>9, Flushes, Zenon DEF Callers, Context
  <2> QED BY <1>9, <2>1, FramedCallers, Zenon DEF phpWrite
<1>10. CASE phpFlush
  <2>1. /\ \A r \in Request : fcs[r].done => fcs'[r].done
        /\ \A d \in Context : fcs'[d].hadClosed => d \in gone
    BY <1>10, SendsHeaders, Zenon DEF Callers, Context
  <2> QED BY <1>10, <2>1, FramedCallers, Zenon DEF phpFlush
<1>11. CASE phpHeadersSend
  <2>1. /\ \A r \in Request : fcs[r].done => fcs'[r].done
        /\ \A d \in Context : fcs'[d].hadClosed => d \in gone
    BY <1>11, SendsHeaders, Zenon DEF Callers, Context
  <2> QED BY <1>11, <2>1, FramedCallers, Zenon DEF phpHeadersSend, threadVars
<1>12. CASE phpFinishFlush
  <2>1. /\ \A r \in Request : fcs[r].done => fcs'[r].done
        /\ \A d \in Context : fcs'[d].hadClosed => d \in gone
    BY <1>12, Flushes, Zenon DEF Callers, Context
  <2> QED BY <1>12, <2>1, FramedCallers, Zenon DEF phpFinishFlush
<1>13. CASE phpFinish
  <2>1. /\ \A r \in Request : fcs[r].done => fcs'[r].done
        /\ \A d \in Context : fcs'[d].hadClosed => d \in gone
    BY <1>13, Closes, Zenon DEF Callers, Context
  <2> QED BY <1>13, <2>1, FramedCallers, Zenon DEF phpFinish
<1>14. CASE phpInput
  <2>1. /\ \A r \in Request : fcs[r].done => fcs'[r].done
        /\ \A d \in Context : fcs'[d].hadClosed => d \in gone
    BY <1>14, Reads, Zenon DEF Callers, Context
  <2> QED BY <1>14, <2>1, FramedCallers, Zenon DEF phpInput
<1>15. CASE phpRequestHeaders
  BY <1>15, FramedCallers, Zenon DEF Callers, phpRequestHeaders, callVars
<1>16. CASE phpPutenv
  BY <1>16, FramedCallers, Zenon DEF Callers, phpPutenv, threadVars, callVars
<1>17. CASE phpEnvGlobal
  BY <1>17, FramedCallers, Zenon DEF Callers, phpEnvGlobal, threadVars, callVars
<1>18. CASE phpSession
  BY <1>18, FramedCallers, Zenon DEF Callers, phpSession, threadVars, callVars
<1>19. CASE scriptEnds
  BY <1>19, FramedCallers, Zenon DEF Callers, scriptEnds, callVars
<1>20. CASE criticalFailure
  BY <1>20, FramedCallers, Zenon DEF Callers, criticalFailure, callVars
<1>21. CASE requestShutdown
  <2>1. /\ \A r \in Request : fcs[r].done => fcs'[r].done
        /\ \A d \in Context : fcs'[d].hadClosed => d \in gone
    BY <1>21, Flushes, Zenon DEF Callers, Context
  <2> QED BY <1>21, <2>1, FramedCallers, Zenon DEF requestShutdown
<1>22. CASE forgetSandbox
  BY <1>22, FramedCallers, Zenon DEF Callers, forgetSandbox, callVars
<1>23. CASE afterScriptExecution
  <2>1. /\ \A r \in Request : fcs'[r].done <=> fcs[r].done \/ r = cur
        /\ \A d \in Context : fcs'[d].hadClosed => d \in gone
    BY <1>23, Closes, Zenon
  <2>2. cur' = None /\ UNCHANGED <<call, gone>>
    BY <1>23, Zenon DEF afterScriptExecution
  <2> QED BY <2>1, <2>2, Zenon DEF Callers
<1>24. CASE handleRequest
  BY <1>24, FramedCallers, Zenon DEF Callers, handleRequest, callVars
<1>25. CASE workerReady
  BY <1>25, FramedCallers, Zenon DEF Callers, workerReady, callVars
<1>26. CASE waitForWorkerRequest
  <2>1. UNCHANGED <<fcs, gone>> /\ cur = None
    BY <1>26, Zenon DEF waitForWorkerRequest, Control
  <2>2. CASE UNCHANGED <<cur, call>>
    BY <2>1, <2>2, Zenon DEF Callers
  <2>3. ASSUME NEW r \in Request, cur' = r, call' = [call EXCEPT ![r] = "held"] PROVE Callers'
    <3>1. \A q \in Request : call'[q] = IF q = r THEN "held" ELSE call[q]
      BY <2>3 DEF TypeOK
    <3> QED BY <2>1, <2>3, <3>1, ExecutionAssumption DEF Callers
  <2> QED BY <1>26, <2>2, <2>3, Zenon DEF waitForWorkerRequest
<1>27. CASE workerRequestStartup
  <2>1. /\ \A r \in Request : fcs[r].done => fcs'[r].done
        /\ \A d \in Context : fcs'[d].hadClosed => d \in gone
    BY <1>27, Reads DEF Callers, Context
  <2> QED BY <1>27, <2>1, FramedCallers, Zenon DEF workerRequestStartup
<1>28. CASE callbackReturns
  BY <1>28, FramedCallers, Zenon DEF Callers, callbackReturns, callVars
<1>29. CASE workerRequestShutdown
  <2>1. /\ \A r \in Request : fcs[r].done => fcs'[r].done
        /\ \A d \in Context : fcs'[d].hadClosed => d \in gone
    BY <1>29, Flushes, Zenon DEF Callers, Context
  <2> QED BY <1>29, <2>1, FramedCallers, Zenon DEF workerRequestShutdown
<1>30. CASE finishWorkerRequest
  <2>1. /\ \A r \in Request : fcs'[r].done <=> fcs[r].done \/ r = cur
        /\ \A d \in Context : fcs'[d].hadClosed => d \in gone
    BY <1>30, Closes, Zenon
  <2>2. cur' = None /\ UNCHANGED <<call, gone>>
    BY <1>30, Zenon DEF finishWorkerRequest
  <2> QED BY <2>1, <2>2 DEF Callers
<1>31. CASE UNCHANGED vars
  BY <1>31, FramedCallers, Zenon DEF Callers, vars, threadVars, callVars
<1> QED BY <1>1, <1>2, <1>3, <1>4, <1>5, <1>6, <1>7, <1>8, <1>9, <1>10, <1>11, <1>12, <1>13,
    <1>14, <1>15, <1>16, <1>17, <1>18, <1>19, <1>20, <1>21, <1>22, <1>23, <1>24, <1>25,
    <1>26, <1>27, <1>28, <1>29, <1>30, <1>31, Zenon DEF Next, ScriptCall, Idle

\* No step uses a writer too late or takes a client for gone that is not.
LEMMA SeenKept ==
    ASSUME TypeOK, Control, Callers, [Next]_vars
    PROVE  UNCHANGED <<misled, late>>
<1>1. ASSUME NEW r \in Request, clientCloses(r) PROVE UNCHANGED <<misled, late>>
  BY <1>1, ExecutionAssumption, Zenon DEF clientCloses, hasRequest, threadVars, outVars, phpVars,
    seenVars, TypeOK
<1>2. ASSUME NEW r \in Request, handlerReturns(r) PROVE UNCHANGED <<misled, late>>
  BY <1>2, ExecutionAssumption, Zenon DEF handlerReturns, threadVars, phpVars, seenVars, TypeOK
<1>3. ASSUME NEW r \in Request, waitForRequest(r) PROVE UNCHANGED <<misled, late>>
  BY <1>3, ExecutionAssumption, Zenon DEF waitForRequest, hasRequest, outVars, phpVars, seenVars,
    TypeOK
<1>4. CASE setupWorkerScript
  BY <1>4, ExecutionAssumption, Zenon DEF setupWorkerScript, freshContext, StartWorker, outVars,
    phpVars, seenVars, TypeOK
<1>5. CASE stop
  BY <1>5, ExecutionAssumption, Zenon DEF stop, callVars, outVars, phpVars, seenVars, TypeOK
<1>6. CASE requestStartup
  BY <1>6, Reads, ExecutionAssumption, Zenon DEF requestStartup, updateRequestInfo, envOf,
    hasRequest, fc, imported, serverVariables, copyPreparedEnv, TypeOK
<1>7. CASE executeScript
  BY <1>7, ExecutionAssumption, Zenon DEF executeScript, fc, scriptMissing, open, hasWriter,
    callVars, phpVars, seenVars, TypeOK
<1>8. CASE phpEcho
  BY <1>8, ExecutionAssumption, Zenon DEF phpEcho, running, fc, open, hasWriter, threadVars,
    callVars, phpVars, seenVars, TypeOK
<1>9. CASE phpWrite
  BY <1>9, Flushes, ExecutionAssumption, Zenon DEF phpWrite, running, fc, toldClosed,
    clientHasClosed, hasRequest, bailsOut, phpVars, TypeOK
<1>10. CASE phpFlush
  BY <1>10, SendsHeaders, ExecutionAssumption, Zenon DEF phpFlush, sapiFlush, hasWriter,
    toldClosed, clientHasClosed, hasRequest, fc, running, phpVars, TypeOK
<1>11. CASE phpHeadersSend
  BY <1>11, SendsHeaders, ExecutionAssumption, Zenon DEF phpHeadersSend, running, fc, threadVars,
    outVars, phpVars, TypeOK
<1>12. CASE phpFinishFlush
  BY <1>12, Flushes, ExecutionAssumption, Zenon DEF phpFinishFlush, running, fc, toldClosed,
    clientHasClosed, hasRequest, bailsOut, phpVars, TypeOK
<1>13. CASE phpFinish
  BY <1>13, Closes, ExecutionAssumption, Zenon DEF phpFinish, fc, hasRequest, toScript, outVars,
    phpVars, TypeOK
<1>14. CASE phpInput
  BY <1>14, Reads, ExecutionAssumption, Zenon DEF phpInput, running, open, hasWriter, fc,
    hasRequest, phpVars, TypeOK
<1>15. CASE phpRequestHeaders
  BY <1>15, ExecutionAssumption, Zenon DEF phpRequestHeaders, running, hasWriter, fc, hasRequest,
    callVars, outVars, phpVars, TypeOK
<1>16. CASE phpPutenv
  BY <1>16, ExecutionAssumption, Zenon DEF phpPutenv, running, threadVars, callVars, outVars,
    seenVars, TypeOK
<1>17. CASE phpEnvGlobal
  BY <1>17, ExecutionAssumption, Zenon DEF phpEnvGlobal, running, fullEnv, threadVars, callVars,
    outVars, seenVars, TypeOK
<1>18. CASE phpSession
  BY <1>18, ExecutionAssumption, Zenon DEF phpSession, running, fc, threadVars, callVars, outVars,
    seenVars, TypeOK
<1>19. CASE scriptEnds
  BY <1>19, ExecutionAssumption, Zenon DEF scriptEnds, running, callVars, outVars, phpVars,
    seenVars, TypeOK
<1>20. CASE criticalFailure
  BY <1>20, ExecutionAssumption, Zenon DEF criticalFailure, running, callVars, outVars, phpVars,
    seenVars, TypeOK
<1>21. CASE requestShutdown
  BY <1>21, Flushes, ExecutionAssumption, Zenon DEF requestShutdown, resetSandboxedEnvironment, fc,
    TypeOK
<1>22. CASE forgetSandbox
  BY <1>22, ExecutionAssumption, Zenon DEF forgetSandbox, freeRequestContext, callVars, outVars,
    seenVars, TypeOK
<1>23. CASE afterScriptExecution
  BY <1>23, Closes, ExecutionAssumption, Zenon DEF afterScriptExecution, replaced,
    freeRequestContext, StopWorker, outVars, seenVars, TypeOK
<1>24. CASE handleRequest
  BY <1>24, ExecutionAssumption, Zenon DEF handleRequest, releaseSuperGlobals, callVars, seenVars,
    TypeOK
<1>25. CASE workerReady
  BY <1>25, ExecutionAssumption, Zenon DEF workerReady, shutdownDummyRequest, resetSessionState,
    freeRequestContext, ReadyWorker, callVars, seenVars, TypeOK
<1>26. CASE waitForWorkerRequest
  BY <1>26, ExecutionAssumption, Zenon DEF waitForWorkerRequest, outVars, phpVars, seenVars, TypeOK
<1>27. CASE workerRequestStartup
  BY <1>27, Reads, ExecutionAssumption, Zenon DEF workerRequestStartup, updateRequestInfo, envOf,
    hasRequest, fc, resetSuperGlobals, imported, serverVariables, copyPreparedEnv, TypeOK
<1>28. CASE callbackReturns
  BY <1>28, ExecutionAssumption, Zenon DEF callbackReturns, fc, open, hasWriter, callVars, phpVars,
    seenVars, TypeOK
<1>29. CASE workerRequestShutdown
  BY <1>29, Flushes, ExecutionAssumption, Zenon DEF workerRequestShutdown, fc, resetSessionState,
    freeRequestContext, TypeOK
<1>30. CASE finishWorkerRequest
  BY <1>30, Closes, ExecutionAssumption, Zenon DEF finishWorkerRequest, outVars, phpVars, seenVars,
    TypeOK
<1>31. CASE UNCHANGED vars
  BY <1>31, Zenon DEF vars, threadVars, callVars, outVars, phpVars, seenVars, TypeOK
<1> QED BY <1>1, <1>2, <1>3, <1>4, <1>5, <1>6, <1>7, <1>8, <1>9, <1>10, <1>11, <1>12, <1>13,
    <1>14, <1>15, <1>16, <1>17, <1>18, <1>19, <1>20, <1>21, <1>22, <1>23, <1>24, <1>25,
    <1>26, <1>27, <1>28, <1>29, <1>30, <1>31, Zenon DEF Next, ScriptCall, Idle
-----------------------------------------------------------------------------
\* Output: the steps at which nothing of an earlier request can be written any
\* more, and where the output of a request is before its context is closed
Output ==
    /\ pc \in {"ready", "wait", "wstartup"} => super = {}
    /\ cur # None /\ pc \notin {"startup", "wstartup"} => buffer \subseteq {cur}
    /\ pc \in {"exec", "finish", "shut", "unhealthy", "after", "wfinish"} => buffer = {}
    /\ \A r \in echoed : call[r] = "held" /\ hasWriter(r)
    /\ pc \in {"startup", "wstartup"} => cur \notin echoed
    /\ \A r \in echoed : ~fcs[r].done => r \in sent[r] \cup buffer
    /\ ResponseOwned /\ OutputDelivered

\* Environment, session and superglobals: what the next request finds
Isolation ==
    /\ pc \in {"before", "startup", "shut", "unhealthy", "after"}
          => prepared = {} /\ workerEnv = {} /\ session = {} /\ super = {}
    /\ pc = "wfinish" => prepared = {} /\ session = {} /\ info = None
    /\ worker /\ pc \in {"startup", "exec"} => booting
    /\ (worker /\ cur # None) \/ pc \in {"wait", "wstartup"} => ~booting
    /\ ~worker => workerEnv = {}
    /\ worker => workerEnv \cup envGlobal \subseteq {Dummy}
    /\ worker /\ booting /\ pc \in {"exec", "script", "finish", "ready"}
          => prepared = {Dummy} /\ workerEnv = {}
    /\ worker /\ ~booting /\ pc \in {"script", "finish", "handler", "ready", "wait", "wstartup",
                                     "wshutdown", "wfinish"} => workerEnv = {Dummy}
    /\ session \cup prepared \cup {info} \subseteq {cur, Dummy, None}
    /\ cur # None => super \subseteq {cur, Dummy}
    /\ sandbox = "freed" => pc \in {"shut", "unhealthy"}

\* A thread that has not met a nil request has exact gauges.
Gauges ==
    /\ gauges \in [busy : Nat, total : Nat, ready : Nat, crashes : Nat, restarts : Nat]
    /\ ~nilRequest => GaugesExact

\* What is inductive
IInv ==
    TypeOK /\ Control /\ Callers /\ Output /\ Isolation /\ Gauges /\ WriterInUse /\ AbortIsReal

\* A flush keeps what is due to a client where it is to be found.
LEMMA FlushedOutput ==
    ASSUME TypeOK, Control, Callers, Output, UNCHANGED <<cur, call, gone>>,
           buffer' = {}, \A d \in Context : fcs'[d].done = fcs[d].done,
           \/ sent' = sent /\ echoed' = echoed \ {fc}
           \/ /\ echoed' = echoed
              /\ \A r \in Request : r # cur \/ ~open(r) => sent'[r] = sent[r]
              /\ cur # None /\ open(cur) =>
                   \/ sent'[cur] = sent[cur] \cup buffer
                   \/ sent'[cur] = sent[cur] \cup buffer \cup {cur},
           pc \notin {"startup", "wstartup"}, pc' \notin {"ready", "wait", "startup", "wstartup"}
    PROVE  Output'
<1>1. /\ echoed \subseteq Request /\ echoed' \subseteq echoed /\ Request \subseteq Context
      /\ cur # None => cur \in Request /\ buffer \subseteq {cur}
  BY Zenon DEF TypeOK, Context, Output
<1>2. \A r \in Request : sent'[r] \subseteq {r}
  <2> SUFFICES ASSUME NEW r \in Request PROVE sent'[r] \subseteq {r}
    BY Zenon
  <2>1. sent[r] \subseteq {r}
    BY Zenon DEF Output, ResponseOwned
  <2>2. CASE r # cur \/ ~open(r)
    BY <2>1, <2>2, Zenon
  <2>3. CASE r = cur /\ open(r)
    BY <1>1, <2>1, <2>3, ExecutionAssumption, Zenon
  <2> QED BY <2>2, <2>3, Zenon
<1>3. ASSUME NEW r \in echoed' PROVE call[r] = "held" /\ hasWriter(r)
  BY <1>1, Zenon DEF Output
<1>4. ASSUME NEW r \in echoed', fcs'[r].done PROVE r \in sent'[r] \cup gone
  <2>1. fcs[r].done /\ ~open(r) /\ r \in sent[r] \cup gone
    BY <1>1, <1>4, Zenon DEF Output, OutputDelivered, open
  <2> QED BY <1>1, <2>1, Zenon
<1>5. ASSUME NEW r \in echoed', ~fcs'[r].done PROVE r \in sent'[r]
  <2>1. ~fcs[r].done /\ call[r] = "held" /\ hasWriter(r) /\ r \in sent[r] \cup buffer
    BY <1>1, <1>5, Zenon DEF Output
  <2>2. r = cur /\ cur # None /\ open(cur)
    BY <1>1, <2>1, ExecutionAssumption, Zenon DEF Callers, open
  <2>3. fc = cur
    BY <2>2, Zenon DEF fc
  <2> QED BY <2>1, <2>2, <2>3, Zenon
<1>6. ResponseOwned' /\ OutputDelivered'
  BY <1>2, <1>4, Zenon DEF ResponseOwned, OutputDelivered
<1> QED BY <1>3, <1>5, <1>6, Zenon DEF Output, hasWriter

\* A step that writes nothing keeps what is due to a client where it is.
LEMMA FramedOutput ==
    ASSUME TypeOK, Output, UNCHANGED <<cur, call, gone, sent, echoed, buffer>>,
           \A r \in Request : fcs'[r].done = fcs[r].done,
           pc' \in {"ready", "wait", "wstartup"} => super' = {},
           pc' \notin {"startup", "wstartup"} => pc \notin {"startup", "wstartup"} \/ cur = None,
           pc' \in {"exec", "finish", "shut", "unhealthy", "after", "wfinish"} => buffer = {},
           pc' \in {"startup", "wstartup"} => cur \notin echoed
    PROVE  Output'
<1>1. echoed \subseteq Request
  BY Zenon DEF TypeOK
<1>2. ResponseOwned' /\ OutputDelivered'
  BY <1>1, Zenon DEF Output, ResponseOwned, OutputDelivered
<1>3. \A r \in echoed : ~fcs'[r].done => r \in sent[r] \cup buffer
  BY <1>1, Zenon DEF Output
<1> QED BY <1>2, <1>3, Zenon DEF Output, hasWriter

\* A step of the script that writes puts its output where it is due.
LEMMA EchoedOutput ==
    ASSUME TypeOK, Output, UNCHANGED <<cur, call, gone, sent, fcs>>, Callers,
           buffer' = buffer \cup {fc},
           echoed' = IF fc \in Request /\ open(fc) THEN echoed \cup {fc} ELSE echoed,
           pc \notin {"startup", "wstartup"}, pc' \in {"script", "handler", "rshutdown", "wshutdown"}
    PROVE  Output'
<1>1. echoed \subseteq Request
  BY Zenon DEF TypeOK
<1>2. cur # None => buffer' \subseteq {cur}
  BY Zenon DEF Output, fc
<1>3. ASSUME NEW r \in echoed', r \notin echoed PROVE r = fc /\ r \in Request /\ open(r)
  BY <1>3, Zenon
<1>4. ASSUME NEW r \in echoed' PROVE call[r] = "held" /\ hasWriter(r)
  <2>1. CASE r \in echoed
    BY <2>1, Zenon DEF Output
  <2>2. CASE r \notin echoed
    <3>1. r = fc /\ r \in Request /\ open(r)
      BY <1>3, <2>2, Zenon
    <3>2. r = cur /\ cur # None
      BY <3>1, ExecutionAssumption, Zenon DEF fc
    <3> QED BY <3>1, <3>2, Zenon DEF Callers, open
  <2> QED BY <2>1, <2>2, Zenon
<1>5. ASSUME NEW r \in echoed', ~fcs[r].done PROVE r \in sent[r] \cup buffer'
  BY <1>3, <1>5, Zenon DEF Output
<1>6. OutputDelivered' /\ ResponseOwned'
  BY <1>3, Zenon DEF Output, OutputDelivered, ResponseOwned, open
<1> QED BY <1>2, <1>4, <1>5, <1>6, Zenon DEF Output, hasWriter

\* A step that leaves environment, session and superglobals alone keeps
\* them apart.
LEMMA FramedIsolation ==
    ASSUME Control, Isolation,
           UNCHANGED <<worker, cur, booting, super, session, prepared, workerEnv, envGlobal,
                       sandbox, info>>,
           \/ pc' = pc
           \/ pc \notin {"shut", "unhealthy"} /\ pc' \in {"stopped", "rshutdown", "broken"}
           \/ /\ pc \in {"exec", "script", "handler", "finish"}
              /\ pc' \in {"script", "finish", "handler", "wshutdown"}
    PROVE  Isolation'
<1>1. CASE pc' = pc
  BY <1>1, Zenon DEF Isolation
<1>2. CASE pc \notin {"shut", "unhealthy"} /\ pc' \in {"stopped", "rshutdown", "broken"}
  BY <1>2, Zenon DEF Isolation
<1>3. CASE /\ pc \in {"exec", "script", "handler", "finish"}
           /\ pc' \in {"script", "finish", "handler", "wshutdown"}
  <2>1. worker /\ pc \in {"exec", "script", "handler", "finish"}
          => \/ booting /\ cur = None /\ pc # "handler" /\ prepared = {Dummy} /\ workerEnv = {}
             \/ ~booting /\ workerEnv = {Dummy}
    BY Zenon DEF Control, Isolation
  <2> QED BY <1>3, <2>1, Zenon DEF Isolation
<1> QED BY <1>1, <1>2, <1>3, Zenon

\* A step within a script leaves the gauges as they should be.
LEMMA FramedGauges ==
    ASSUME Gauges, UNCHANGED <<worker, booting, scripts, gauges>>, ~nilRequest' => ~nilRequest,
           ~worker \/ nilRequest' \/ (pc \in {"before", "stopped"} <=> pc' \in {"before", "stopped"})
    PROVE  Gauges'
BY Zenon DEF Gauges, GaugesExact
-----------------------------------------------------------------------------
\* No step lets output go astray.
LEMMA OutputKept ==
    ASSUME TypeOK, Control, Callers, Output, [Next]_vars
    PROVE  Output'
<1>1. ASSUME NEW r \in Request, clientCloses(r) PROVE Output'
  BY <1>1, ExecutionAssumption DEF clientCloses, hasRequest, threadVars, outVars, phpVars,
    seenVars, TypeOK, Control, Callers, Output, ResponseOwned, OutputDelivered, Context
<1>2. ASSUME NEW r \in Request, handlerReturns(r) PROVE Output'
  BY <1>2, ExecutionAssumption DEF handlerReturns, threadVars, phpVars, seenVars, TypeOK,
    Control, Callers, Output, ResponseOwned, OutputDelivered, Context
<1>3. ASSUME NEW r \in Request, waitForRequest(r) PROVE Output'
  BY <1>3, ExecutionAssumption DEF waitForRequest, hasRequest, outVars, phpVars, seenVars,
    TypeOK, Control, Callers, Output, ResponseOwned, OutputDelivered, Context
<1>4. CASE setupWorkerScript
  BY <1>4, ExecutionAssumption DEF setupWorkerScript, freshContext, StartWorker, outVars,
    phpVars, seenVars, TypeOK, Control, Callers, Output, ResponseOwned, OutputDelivered,
    Context
<1>5. CASE stop
  BY <1>5, FramedOutput, Zenon DEF stop, callVars, outVars, phpVars, seenVars
<1>6. CASE requestStartup
  <2>1. /\ \A r \in Request : fcs[r].done => fcs'[r].done
        /\ echoed' \subseteq echoed /\ \A r \in echoed' : fcs'[r].done => fcs[r].done
    BY <1>6, Reads, Zenon
  <2>2. /\ buffer' = {} /\ pc \in {"startup", "wstartup"} /\ UNCHANGED <<cur, call, gone, sent>>
        /\ pc' \in {"exec", "rshutdown", "script", "wshutdown", "handler"}
    BY <1>6, Zenon DEF requestStartup, resetSuperGlobals, Output
  <2>3. \A r \in echoed : r \in Request /\ call[r] = "held" /\ hasWriter(r) /\ fcs[r].done
    BY <2>2 DEF TypeOK, Callers, Output
  <2>4. OutputDelivered' /\ ResponseOwned'
    BY <2>1, <2>2, <2>3, Zenon DEF Output, OutputDelivered, ResponseOwned
  <2> QED BY <2>1, <2>2, <2>3, <2>4, Zenon DEF Output, hasWriter
<1>7. CASE executeScript
  <2>1. CASE UNCHANGED <<buffer, echoed>>
    BY <1>7, <2>1, FramedOutput, Zenon DEF executeScript, callVars, scriptMissing
  <2>2. CASE scriptMissing
    <3>1. /\ UNCHANGED <<cur, call, gone, sent, fcs>> /\ pc = "exec" /\ pc' = "rshutdown"
      BY <1>7, <2>2, Zenon DEF executeScript, scriptMissing, callVars
    <3>2. buffer' = buffer \cup {fc} /\ echoed' = IF fc \in Request /\ open(fc) THEN echoed \cup {fc} ELSE echoed
      BY <2>2, <3>1, Zenon DEF scriptMissing, open, hasWriter, Output
    <3> QED BY <3>1, <3>2, EchoedOutput, Zenon
  <2> QED BY <1>7, <2>1, <2>2, Zenon DEF executeScript
<1>8. CASE phpEcho
  BY <1>8, EchoedOutput, Zenon DEF phpEcho, running, threadVars, callVars
<1>9. CASE phpWrite
  <2>1. /\ buffer' = {} /\ \A d \in Context : fcs'[d].done = fcs[d].done
        /\ \/ sent' = sent /\ echoed' = echoed \ {fc}
           \/ /\ echoed' = echoed
              /\ \A r \in Request : r # cur \/ ~open(r) => sent'[r] = sent[r]
              /\ cur # None /\ open(cur) =>
                   \/ sent'[cur] = sent[cur] \cup buffer
                   \/ sent'[cur] = sent[cur] \cup buffer \cup {cur}
    BY <1>9, Flushes, Zenon
  <2>2. pc \notin {"startup", "wstartup"} /\ pc' \notin {"ready", "wait", "startup", "wstartup"}
    BY <1>9, Zenon DEF phpWrite, running
  <2>3. UNCHANGED <<cur, call, gone>>
    BY <1>9, Zenon DEF phpWrite
  <2> QED BY <1>9, <2>1, <2>2, <2>3, FlushedOutput, Zenon
<1>10. CASE phpFlush
  <2>1. \A r \in Request : fcs'[r].done = fcs[r].done
    BY <1>10, SendsHeaders, Zenon DEF Context
  <2>2. /\ UNCHANGED <<cur, call, gone, sent, echoed, buffer>> /\ pc \in {"script", "handler"}
        /\ pc' \in {"script", "handler", "rshutdown"}
    BY <1>10, Zenon DEF phpFlush, running
  <2> QED BY <2>1, <2>2, FramedOutput, Zenon
<1>11. CASE phpHeadersSend
  <2>1. \A r \in Request : fcs'[r].done = fcs[r].done
    BY <1>11, SendsHeaders DEF Context
  <2>2. UNCHANGED <<cur, call, gone, sent, echoed, buffer>> /\ pc \in {"script", "handler"} /\ pc' = pc
    BY <1>11, Zenon DEF phpHeadersSend, running, threadVars, outVars
  <2> QED BY <2>1, <2>2, FramedOutput, Zenon
<1>12. CASE phpFinishFlush
  <2>1. /\ buffer' = {} /\ \A d \in Context : fcs'[d].done = fcs[d].done
        /\ \/ sent' = sent /\ echoed' = echoed \ {fc}
           \/ /\ echoed' = echoed
              /\ \A r \in Request : r # cur \/ ~open(r) => sent'[r] = sent[r]
              /\ cur # None /\ open(cur) =>
                   \/ sent'[cur] = sent[cur] \cup buffer
                   \/ sent'[cur] = sent[cur] \cup buffer \cup {cur}
    BY <1>12, Flushes, Zenon
  <2>2. pc \notin {"startup", "wstartup"} /\ pc' \notin {"ready", "wait", "startup", "wstartup"}
    BY <1>12, Zenon DEF phpFinishFlush, running
  <2>3. UNCHANGED <<cur, call, gone>>
    BY <1>12, Zenon DEF phpFinishFlush
  <2> QED BY <1>12, <2>1, <2>2, <2>3, FlushedOutput
<1>13. CASE phpFinish
  <2>1. \A r \in Request : fcs'[r].done <=> fcs[r].done \/ r = cur
    BY <1>13, Closes, Zenon
  <2>2. /\ pc = "finish" /\ pc' \in {"stopped", "script", "handler"}
        /\ UNCHANGED <<cur, call, gone, sent, echoed, buffer>>
    BY <1>13, Zenon DEF phpFinish, toScript, outVars
  <2>3. \A r \in echoed : r \in Request /\ call[r] = "held" /\ hasWriter(r) /\ r \in sent[r] \cup gone
    BY <2>2 DEF TypeOK, Output, OutputDelivered
  <2>4. OutputDelivered' /\ ResponseOwned'
    BY <2>1, <2>2, <2>3, Zenon DEF Output, OutputDelivered, ResponseOwned
  <2> QED BY <2>1, <2>2, <2>3, <2>4, Zenon DEF Output, hasWriter
<1>14. CASE phpInput
  <2>1. /\ \A r \in Request : fcs[r].done => fcs'[r].done
        /\ echoed' \subseteq echoed /\ \A r \in echoed' : fcs'[r].done => fcs[r].done
    BY <1>14, Reads, Zenon
  <2>2. /\ UNCHANGED <<cur, call, gone, sent, buffer>> /\ pc \in {"script", "handler"}
        /\ pc' \in {"script", "handler", "stopped"}
    BY <1>14, Zenon DEF phpInput, running
  <2>3. \A r \in echoed : r \in Request /\ call[r] = "held" /\ hasWriter(r)
    BY DEF TypeOK, Output
  <2>4. \A r \in echoed' : ~fcs'[r].done => r \in sent[r] \cup buffer
    BY <2>1, <2>3, Zenon DEF Output
  <2>5. OutputDelivered' /\ ResponseOwned'
    BY <2>1, <2>2, Zenon DEF Output, OutputDelivered, ResponseOwned
  <2> QED BY <2>1, <2>2, <2>3, <2>4, <2>5, Zenon DEF Output, hasWriter
<1>15. CASE phpRequestHeaders
  BY <1>15, FramedOutput, Zenon DEF phpRequestHeaders, running, callVars, outVars, phpVars
<1>16. CASE phpPutenv
  BY <1>16, FramedOutput, Zenon DEF phpPutenv, running, threadVars, callVars, outVars, seenVars
<1>17. CASE phpEnvGlobal
  BY <1>17, FramedOutput, Zenon DEF phpEnvGlobal, running, threadVars, callVars, outVars, seenVars
<1>18. CASE phpSession
  BY <1>18, FramedOutput, Zenon DEF phpSession, running, threadVars, callVars, outVars, seenVars
<1>19. CASE scriptEnds
  BY <1>19, FramedOutput, Zenon DEF scriptEnds, running, callVars, outVars, phpVars, seenVars
<1>20. CASE criticalFailure
  BY <1>20, FramedOutput, Zenon DEF criticalFailure, running, callVars, outVars, phpVars, seenVars
<1>21. CASE requestShutdown
  <2>1. /\ buffer' = {} /\ \A d \in Context : fcs'[d].done = fcs[d].done
        /\ \/ sent' = sent /\ echoed' = echoed \ {fc}
           \/ /\ echoed' = echoed
              /\ \A r \in Request : r # cur \/ ~open(r) => sent'[r] = sent[r]
              /\ cur # None /\ open(cur) =>
                   \/ sent'[cur] = sent[cur] \cup buffer
                   \/ sent'[cur] = sent[cur] \cup buffer \cup {cur}
    BY <1>21, Flushes, Zenon
  <2>2. pc \notin {"startup", "wstartup"} /\ pc' \notin {"ready", "wait", "startup", "wstartup"}
    BY <1>21, Zenon DEF requestShutdown, running
  <2>3. UNCHANGED <<cur, call, gone>>
    BY <1>21, Zenon DEF requestShutdown
  <2> QED BY <1>21, <2>1, <2>2, <2>3, FlushedOutput
<1>22. CASE forgetSandbox
  BY <1>22, FramedOutput, Zenon DEF forgetSandbox, callVars, outVars, seenVars, Output
<1>23. CASE afterScriptExecution
  <2>1. \A r \in Request : fcs'[r].done <=> fcs[r].done \/ r = cur
    BY <1>23, Closes, Zenon
  <2>2. /\ pc \in {"after", "unhealthy", "wfinish"} /\ pc' \in {"before", "stopped", "script"}
        /\ cur' = None /\ UNCHANGED <<call, gone, sent, echoed, buffer>>
    BY <1>23, Zenon DEF afterScriptExecution, replaced, outVars
  <2>3. \A r \in echoed : r \in Request /\ call[r] = "held" /\ hasWriter(r) /\ r \in sent[r] \cup gone
    BY <2>2 DEF TypeOK, Output, OutputDelivered
  <2>4. \A r \in echoed : fcs'[r].done
    BY <2>1, <2>3, Zenon DEF Callers
  <2>5. OutputDelivered' /\ ResponseOwned'
    BY <2>2, <2>3, Zenon DEF Output, OutputDelivered, ResponseOwned
  <2> QED BY <2>2, <2>3, <2>4, <2>5, Zenon DEF Output, hasWriter
<1>24. CASE handleRequest
  <2>1. cur = None /\ super' = {} /\ pc' \in {"ready", "script"} /\ buffer \subseteq buffer'
    BY <1>24, Zenon DEF handleRequest, releaseSuperGlobals, Control
  <2>2. UNCHANGED <<cur, call, gone, sent, fcs, echoed>>
    BY <1>24, Zenon DEF handleRequest, callVars
  <2>3. OutputDelivered' /\ ResponseOwned'
    BY <2>2, Zenon DEF Output, OutputDelivered, ResponseOwned
  <2> QED BY <2>1, <2>2, <2>3, Zenon DEF Output, hasWriter
<1>25. CASE workerReady
  BY <1>25, ExecutionAssumption DEF workerReady, shutdownDummyRequest, resetSessionState,
    freeRequestContext, ReadyWorker, callVars, seenVars, TypeOK, Control, Callers, Output,
    ResponseOwned, OutputDelivered, Context
<1>26. CASE waitForWorkerRequest
  <2>1. /\ pc = "wait" /\ pc' = "wstartup" /\ UNCHANGED <<fcs, gone, sent, echoed, buffer, super>>
    BY <1>26, Zenon DEF waitForWorkerRequest, outVars, phpVars
  <2>2. \A r \in echoed : r \in Request /\ call[r] = "held" /\ hasWriter(r) /\ r # cur'
    BY <1>26, ExecutionAssumption DEF waitForWorkerRequest, TypeOK, Output, Control
  <2>3. \A r \in echoed : call'[r] = "held"
    BY <1>26, <2>2 DEF waitForWorkerRequest, TypeOK
  <2>4. OutputDelivered' /\ ResponseOwned'
    BY <2>1, Zenon DEF Output, OutputDelivered, ResponseOwned
  <2> QED BY <2>1, <2>2, <2>3, <2>4, Zenon DEF Output, hasWriter
<1>27. CASE workerRequestStartup
  <2>1. /\ \A r \in Request : fcs[r].done => fcs'[r].done
        /\ echoed' \subseteq echoed /\ \A r \in echoed' : fcs'[r].done => fcs[r].done
    BY <1>27, Reads, Zenon
  <2>2. /\ buffer' = {} /\ pc \in {"startup", "wstartup"} /\ UNCHANGED <<cur, call, gone, sent>>
        /\ pc' \in {"exec", "rshutdown", "script", "wshutdown", "handler"}
    BY <1>27, Zenon DEF workerRequestStartup, resetSuperGlobals, Output
  <2>3. \A r \in echoed : r \in Request /\ call[r] = "held" /\ hasWriter(r) /\ fcs[r].done
    BY <2>2 DEF TypeOK, Callers, Output
  <2>4. OutputDelivered' /\ ResponseOwned'
    BY <2>1, <2>2, <2>3 DEF Output, OutputDelivered, ResponseOwned
  <2> QED BY <2>1, <2>2, <2>3, <2>4 DEF Output, hasWriter
<1>28. CASE callbackReturns
  <2>1. pc = "handler" /\ pc' = "wshutdown" /\ UNCHANGED <<cur, call, gone, sent, fcs>>
    BY <1>28, Zenon DEF callbackReturns, callVars
  <2>2. CASE UNCHANGED <<buffer, echoed>>
    BY <2>1, <2>2, FramedOutput, Zenon
  <2>3. CASE buffer' = buffer \cup {fc} /\ echoed' = IF open(fc) THEN echoed \cup {fc} ELSE echoed
    BY <2>1, <2>3, EchoedOutput, Zenon DEF open, hasWriter
  <2> QED BY <1>28, <2>2, <2>3, Zenon DEF callbackReturns
<1>29. CASE workerRequestShutdown
  <2>1. /\ buffer' = {} /\ \A d \in Context : fcs'[d].done = fcs[d].done
        /\ \/ sent' = sent /\ echoed' = echoed \ {fc}
           \/ /\ echoed' = echoed
              /\ \A r \in Request : r # cur \/ ~open(r) => sent'[r] = sent[r]
              /\ cur # None /\ open(cur) =>
                   \/ sent'[cur] = sent[cur] \cup buffer
                   \/ sent'[cur] = sent[cur] \cup buffer \cup {cur}
    BY <1>29, Flushes, Zenon
  <2>2. pc \notin {"startup", "wstartup"} /\ pc' \notin {"ready", "wait", "startup", "wstartup"}
    BY <1>29, Zenon DEF workerRequestShutdown, running
  <2>3. UNCHANGED <<cur, call, gone>>
    BY <1>29, Zenon DEF workerRequestShutdown
  <2> QED BY <1>29, <2>1, <2>2, <2>3, FlushedOutput
<1>30. CASE finishWorkerRequest
  <2>1. \A r \in Request : fcs'[r].done <=> fcs[r].done \/ r = cur
    BY <1>30, Closes, Zenon
  <2>2. /\ pc \in {"after", "unhealthy", "wfinish"} /\ pc' \in {"before", "stopped", "script"}
        /\ cur' = None /\ UNCHANGED <<call, gone, sent, echoed, buffer>>
    BY <1>30, Zenon DEF finishWorkerRequest, outVars
  <2>3. \A r \in echoed : r \in Request /\ call[r] = "held" /\ hasWriter(r) /\ r \in sent[r] \cup gone
    BY <2>2 DEF TypeOK, Output, OutputDelivered
  <2>4. \A r \in echoed : fcs'[r].done
    BY <2>1, <2>3 DEF Callers
  <2>5. OutputDelivered' /\ ResponseOwned'
    BY <2>2, <2>3 DEF Output, OutputDelivered, ResponseOwned
  <2> QED BY <2>2, <2>3, <2>4, <2>5 DEF Output, hasWriter
<1>31. CASE UNCHANGED vars
  BY <1>31, FramedOutput, Zenon DEF vars, threadVars, callVars, outVars, phpVars, Output
<1> QED BY <1>1, <1>2, <1>3, <1>4, <1>5, <1>6, <1>7, <1>8, <1>9, <1>10, <1>11, <1>12, <1>13,
    <1>14, <1>15, <1>16, <1>17, <1>18, <1>19, <1>20, <1>21, <1>22, <1>23, <1>24, <1>25,
    <1>26, <1>27, <1>28, <1>29, <1>30, <1>31, Zenon DEF Next, ScriptCall, Idle

\* No step leaves anything of a request for the next one.
LEMMA IsolationKept ==
    ASSUME TypeOK, Control, Callers, Output, Isolation, [Next]_vars
    PROVE  Isolation'
<1>1. ASSUME NEW r \in Request, clientCloses(r) PROVE Isolation'
  BY <1>1, FramedIsolation, Zenon DEF clientCloses, threadVars, phpVars
<1>2. ASSUME NEW r \in Request, handlerReturns(r) PROVE Isolation'
  BY <1>2, FramedIsolation, Zenon DEF handlerReturns, threadVars, phpVars
<1>3. ASSUME NEW r \in Request, waitForRequest(r) PROVE Isolation'
  BY <1>3, ExecutionAssumption, Zenon DEF waitForRequest, hasRequest, outVars, phpVars, seenVars,
    TypeOK, Control, Isolation, Context
<1>4. CASE setupWorkerScript
  BY <1>4, ExecutionAssumption, Zenon DEF setupWorkerScript, freshContext, StartWorker, outVars,
    phpVars, seenVars, TypeOK, Control, Isolation, Context
<1>5. CASE stop
  BY <1>5, FramedIsolation, Zenon DEF stop, phpVars
<1>6. CASE requestStartup
  <2>1. /\ prepared' = prepared \cup envOf(fc) /\ info' \in {fc, info} /\ super' = imported(fc)
        /\ pc = "startup" /\ pc' \in {"exec", "rshutdown"}
        /\ UNCHANGED <<worker, cur, booting, session, workerEnv, envGlobal, sandbox>>
    BY <1>6, Zenon DEF requestStartup, updateRequestInfo
  <2>2. /\ prepared \subseteq {cur, Dummy} /\ workerEnv \subseteq {Dummy} /\ fc \in {cur, Dummy}
        /\ envOf(fc) \subseteq {fc} /\ serverVariables(fc) \subseteq {fc}
    BY ExecutionAssumption DEF Isolation, TypeOK, Context, fc, envOf, serverVariables
  <2>3. super' \subseteq {cur, Dummy} /\ prepared' \subseteq {cur, Dummy}
    BY <2>1, <2>2, Zenon DEF imported, copyPreparedEnv
  <2>4. worker => prepared' = {Dummy} /\ workerEnv = {} /\ booting
    BY <2>1, Zenon DEF Isolation, Control, fc, envOf
  <2> QED BY <2>1, <2>2, <2>3, <2>4, Zenon DEF Isolation
<1>7. CASE executeScript
  BY <1>7, FramedIsolation, Zenon DEF executeScript, scriptMissing, phpVars
<1>8. CASE phpEcho
  BY <1>8, FramedIsolation, Zenon DEF phpEcho, running, threadVars, phpVars
<1>9. CASE phpWrite
  BY <1>9, FramedIsolation, Zenon DEF phpWrite, running, phpVars
<1>10. CASE phpFlush
  BY <1>10, FramedIsolation, Zenon DEF phpFlush, running, phpVars
<1>11. CASE phpHeadersSend
  BY <1>11, FramedIsolation, Zenon DEF phpHeadersSend, running, threadVars, phpVars
<1>12. CASE phpFinishFlush
  BY <1>12, FramedIsolation, Zenon DEF phpFinishFlush, running, phpVars
<1>13. CASE phpFinish
  BY <1>13, FramedIsolation, Zenon DEF phpFinish, toScript, phpVars
<1>14. CASE phpInput
  BY <1>14, FramedIsolation, Zenon DEF phpInput, running, phpVars
<1>15. CASE phpRequestHeaders
  BY <1>15, FramedIsolation, Zenon DEF phpRequestHeaders, running, phpVars
<1>16. CASE phpPutenv
  <2>1. /\ sandbox' = "live"
        /\ UNCHANGED <<threadVars, super, session, prepared, workerEnv, envGlobal, info>>
    BY <1>16, Zenon DEF phpPutenv
  <2> QED BY <2>1, Zenon DEF Isolation, threadVars
<1>17. CASE phpEnvGlobal
  <2>1. worker => fullEnv = {Dummy}
    <3>1. ASSUME worker PROVE (prepared = {Dummy} /\ workerEnv = {}) \/ workerEnv = {Dummy}
      BY <1>17, <3>1, Zenon DEF phpEnvGlobal, running, Control, Isolation, TypeOK
    <3> QED BY <3>1, Zenon DEF fullEnv
  <2>2. UNCHANGED <<threadVars, super, session, prepared, workerEnv, sandbox, info>>
    BY <1>17, Zenon DEF phpEnvGlobal
  <2>3. envGlobal' = fullEnv
    BY <1>17, Zenon DEF phpEnvGlobal
  <2> QED BY <2>1, <2>2, <2>3, Zenon DEF Isolation, threadVars
<1>18. CASE phpSession
  <2>1. /\ session' = session \cup {fc} /\ pc \in {"script", "handler"}
        /\ UNCHANGED <<threadVars, super, prepared, workerEnv, envGlobal, sandbox, info>>
    BY <1>18, Zenon DEF phpSession, running
  <2>2. session' \subseteq {cur, Dummy, None}
    BY <2>1, Zenon DEF Isolation, fc
  <2> QED BY <2>1, <2>2, Zenon DEF Isolation, threadVars
<1>19. CASE scriptEnds
  BY <1>19, FramedIsolation, Zenon DEF scriptEnds, running, phpVars
<1>20. CASE criticalFailure
  BY <1>20, FramedIsolation, Zenon DEF criticalFailure, running, phpVars
<1>21. CASE requestShutdown
  <2>1. /\ super' = {} /\ session' = {} /\ prepared' = {} /\ workerEnv' = {} /\ envGlobal' = {}
        /\ pc' \in {"shut", "unhealthy"} /\ UNCHANGED <<worker, cur, booting, info>>
    BY <1>21, Zenon DEF requestShutdown, resetSandboxedEnvironment
  <2> QED BY <2>1, Zenon DEF Isolation
<1>22. CASE forgetSandbox
  BY <1>22, ExecutionAssumption DEF forgetSandbox, freeRequestContext, callVars, outVars,
    seenVars, TypeOK, Control, Isolation, Context
<1>23. CASE afterScriptExecution
  BY <1>23, Closes, ExecutionAssumption DEF afterScriptExecution, replaced,
    freeRequestContext, StopWorker, outVars, seenVars, TypeOK, Control, Isolation, Context
<1>24. CASE handleRequest
  BY <1>24, ExecutionAssumption, Zenon DEF handleRequest, releaseSuperGlobals, callVars, seenVars,
    TypeOK, Control, Isolation, Context
<1>25. CASE workerReady
  BY <1>25, ExecutionAssumption DEF workerReady, shutdownDummyRequest, resetSessionState,
    freeRequestContext, ReadyWorker, callVars, seenVars, TypeOK, Control, Isolation, Context
<1>26. CASE waitForWorkerRequest
  <2>1. pc = "wait" /\ worker /\ cur = None /\ super = {} /\ ~booting
    BY <1>26, Zenon DEF waitForWorkerRequest, Control, Output, Isolation
  <2> QED BY <1>26, <2>1, ExecutionAssumption
    DEF waitForWorkerRequest, TypeOK, Isolation, phpVars
<1>27. CASE workerRequestStartup
  <2>1. /\ prepared' = prepared \cup envOf(fc) /\ info' \in {fc, info} /\ super' = imported(fc)
        /\ pc = "wstartup" /\ pc' \in {"rshutdown", "script", "wshutdown", "handler"}
        /\ UNCHANGED <<worker, cur, booting, session, workerEnv, envGlobal, sandbox>>
    BY <1>27, Zenon DEF workerRequestStartup, updateRequestInfo, resetSuperGlobals
  <2>2. /\ prepared \subseteq {cur, Dummy} /\ workerEnv \subseteq {Dummy} /\ fc \in {cur, Dummy}
        /\ envOf(fc) \subseteq {fc} /\ serverVariables(fc) \subseteq {fc}
    BY ExecutionAssumption DEF Isolation, TypeOK, Context, fc, envOf, serverVariables
  <2>3. super' \subseteq {cur, Dummy} /\ prepared' \subseteq {cur, Dummy}
    BY <2>1, <2>2, Zenon DEF imported, copyPreparedEnv
  <2> QED BY <2>1, <2>2, <2>3, Zenon DEF Isolation, Control
<1>28. CASE callbackReturns
  BY <1>28, FramedIsolation, Zenon DEF callbackReturns, phpVars
<1>29. CASE workerRequestShutdown
  BY <1>29, Flushes, ExecutionAssumption, Zenon DEF workerRequestShutdown, fc, resetSessionState,
    freeRequestContext, TypeOK, Control, Isolation, Context
<1>30. CASE finishWorkerRequest
  BY <1>30, Closes, ExecutionAssumption, Zenon DEF finishWorkerRequest, outVars, phpVars, seenVars,
    TypeOK, Control, Isolation, Context
<1>31. CASE UNCHANGED vars
  BY <1>31, FramedIsolation, Zenon DEF vars, threadVars, phpVars
<1> QED BY <1>1, <1>2, <1>3, <1>4, <1>5, <1>6, <1>7, <1>8, <1>9, <1>10, <1>11, <1>12, <1>13,
    <1>14, <1>15, <1>16, <1>17, <1>18, <1>19, <1>20, <1>21, <1>22, <1>23, <1>24, <1>25,
    <1>26, <1>27, <1>28, <1>29, <1>30, <1>31, Zenon DEF Next, ScriptCall, Idle

\* Every step moves the gauges with the scripts.
LEMMA GaugesKept ==
    ASSUME TypeOK, Control, Callers, Isolation, Gauges, [Next]_vars
    PROVE  Gauges'
<1>1. ASSUME NEW r \in Request, clientCloses(r) PROVE Gauges'
  BY <1>1, FramedGauges, Zenon DEF clientCloses, threadVars, seenVars
<1>2. ASSUME NEW r \in Request, handlerReturns(r) PROVE Gauges'
  BY <1>2, FramedGauges, Zenon DEF handlerReturns, threadVars, seenVars
<1>3. ASSUME NEW r \in Request, waitForRequest(r) PROVE Gauges'
  BY <1>3, FramedGauges, Zenon DEF waitForRequest, seenVars, Gauges, GaugesExact
<1>4. CASE setupWorkerScript
  <2>1. /\ gauges' = [gauges EXCEPT !.busy = @ + 1, !.total = @ + 1]
        /\ pc = "before" /\ pc' = "startup" /\ worker /\ worker' /\ booting'
        /\ scripts' = scripts + 1 /\ nilRequest' = nilRequest
    BY <1>4, Zenon DEF setupWorkerScript, StartWorker, seenVars
  <2>2. /\ gauges' \in [busy : Nat, total : Nat, ready : Nat, crashes : Nat, restarts : Nat]
        /\ gauges'.busy = gauges.busy + 1 /\ gauges'.total = gauges.total + 1
        /\ gauges'.ready = gauges.ready
        /\ gauges'.crashes = gauges.crashes /\ gauges'.restarts = gauges.restarts
    <3> DEFINE one == [gauges EXCEPT !.busy = @ + 1]
    <3>1. /\ one \in [busy : Nat, total : Nat, ready : Nat, crashes : Nat, restarts : Nat]
          /\ one.busy = gauges.busy + 1 /\ one.total = gauges.total /\ one.ready = gauges.ready
          /\ one.crashes = gauges.crashes /\ one.restarts = gauges.restarts
      BY DEF Gauges
    <3>2. gauges' = [one EXCEPT !.total = @ + 1]
      BY <2>1, Zenon DEF Gauges
    <3> HIDE DEF one
    <3> QED BY <3>1, <3>2
  <2>3. scripts \in Nat
    BY ExecutionAssumption DEF TypeOK
  <2> QED BY <2>1, <2>2, <2>3 DEF Gauges, GaugesExact
<1>5. CASE stop
  BY <1>5, FramedGauges, Zenon DEF stop, seenVars
<1>6. CASE requestStartup
  BY <1>6, FramedGauges, Zenon DEF requestStartup
<1>7. CASE executeScript
  BY <1>7, FramedGauges, Zenon DEF executeScript, scriptMissing, seenVars
<1>8. CASE phpEcho
  BY <1>8, FramedGauges, Zenon DEF phpEcho, running, threadVars, seenVars
<1>9. CASE phpWrite
  BY <1>9, FramedGauges, Zenon DEF phpWrite, running
<1>10. CASE phpFlush
  BY <1>10, FramedGauges, Zenon DEF phpFlush, running
<1>11. CASE phpHeadersSend
  BY <1>11, FramedGauges, Zenon DEF phpHeadersSend, running, threadVars
<1>12. CASE phpFinishFlush
  BY <1>12, FramedGauges, Zenon DEF phpFinishFlush, running
<1>13. CASE phpFinish
  BY <1>13, FramedGauges, Zenon DEF phpFinish, toScript
<1>14. CASE phpInput
  BY <1>14, FramedGauges, Zenon DEF phpInput, running
<1>15. CASE phpRequestHeaders
  BY <1>15, FramedGauges, Zenon DEF phpRequestHeaders, running
<1>16. CASE phpPutenv
  BY <1>16, FramedGauges, Zenon DEF phpPutenv, running, threadVars, seenVars
<1>17. CASE phpEnvGlobal
  BY <1>17, FramedGauges, Zenon DEF phpEnvGlobal, running, threadVars, seenVars
<1>18. CASE phpSession
  BY <1>18, FramedGauges, Zenon DEF phpSession, running, threadVars, seenVars
<1>19. CASE scriptEnds
  BY <1>19, FramedGauges, Zenon DEF scriptEnds, running, seenVars
<1>20. CASE criticalFailure
  BY <1>20, FramedGauges, Zenon DEF criticalFailure, running, seenVars
<1>21. CASE requestShutdown
  BY <1>21, FramedGauges, Zenon DEF requestShutdown
<1>22. CASE forgetSandbox
  BY <1>22, FramedGauges, Zenon DEF forgetSandbox, seenVars
<1>23. CASE afterScriptExecution
  <2>1. /\ pc \in {"after", "unhealthy"} /\ pc' \in {"before", "stopped"}
        /\ UNCHANGED <<worker, booting, scripts, nilRequest>>
        /\ worker => StopWorker
        /\ ~worker => gauges' = gauges
    BY <1>23, Zenon DEF afterScriptExecution, replaced, seenVars
  <2>2. CASE ~worker
    BY <2>1, <2>2, Zenon DEF Gauges, GaugesExact
  <2>3. CASE worker
    <3>1. ~nilRequest
      BY <2>1, Zenon DEF Control
    <3>2. /\ gauges.busy = 1 /\ gauges.total = 1 /\ gauges.ready = IF booting THEN 0 ELSE 1
          /\ gauges.total + gauges.crashes + gauges.restarts = scripts
      BY <2>1, <2>3, <3>1, Zenon DEF Gauges, GaugesExact
    <3>3. /\ gauges \in [busy : Nat, total : Nat, ready : Nat, crashes : Nat, restarts : Nat]
          /\ exitStatus \in {0, 255}
      BY Zenon DEF Gauges, TypeOK
    <3>4. StopWorker
      BY <2>1, <2>3, Zenon
    <3>5. /\ gauges' \in [busy : Nat, total : Nat, ready : Nat, crashes : Nat, restarts : Nat]
          /\ gauges'.busy = 0 /\ gauges'.total = 0 /\ gauges'.ready = 0
          /\ gauges'.crashes + gauges'.restarts = gauges.crashes + gauges.restarts + 1
      BY <3>2, <3>3, <3>4 DEF StopWorker
    <3> QED BY <2>1, <2>3, <3>2, <3>3, <3>5 DEF Gauges, GaugesExact
  <2> QED BY <2>2, <2>3, Zenon
<1>24. CASE handleRequest
  BY <1>24, FramedGauges, Zenon DEF handleRequest, seenVars
<1>25. CASE workerReady
  BY <1>25, ExecutionAssumption DEF workerReady, shutdownDummyRequest, resetSessionState,
    freeRequestContext, ReadyWorker, callVars, seenVars, TypeOK, Control, Isolation, Gauges,
    GaugesExact
<1>26. CASE waitForWorkerRequest
  BY <1>26, FramedGauges, Zenon DEF waitForWorkerRequest, seenVars
<1>27. CASE workerRequestStartup
  BY <1>27, FramedGauges, Zenon DEF workerRequestStartup
<1>28. CASE callbackReturns
  BY <1>28, FramedGauges, Zenon DEF callbackReturns, seenVars
<1>29. CASE workerRequestShutdown
  BY <1>29, FramedGauges, Zenon DEF workerRequestShutdown
<1>30. CASE finishWorkerRequest
  BY <1>30, FramedGauges, Zenon DEF finishWorkerRequest, seenVars
<1>31. CASE UNCHANGED vars
  BY <1>31, FramedGauges, Zenon DEF vars, threadVars, seenVars
<1> QED BY <1>1, <1>2, <1>3, <1>4, <1>5, <1>6, <1>7, <1>8, <1>9, <1>10, <1>11, <1>12, <1>13,
    <1>14, <1>15, <1>16, <1>17, <1>18, <1>19, <1>20, <1>21, <1>22, <1>23, <1>24, <1>25,
    <1>26, <1>27, <1>28, <1>29, <1>30, <1>31 DEF Next, ScriptCall, Idle
-----------------------------------------------------------------------------
\* The invariant holds of a thread that has served nothing.
LEMMA InitInvariant == Init => IInv
<1> SUFFICES ASSUME Init PROVE IInv
  BY Zenon
<1>1. TypeOK
  <2>1. fcs \in [Context -> [done : BOOLEAN, hadClosed : BOOLEAN, headersWritten : BOOLEAN]]
    BY Zenon DEF Init, freshContext
  <2>2. call \in [Request -> {"never", "idle", "held", "returned"}]
    BY Zenon DEF Init
  <2>3. sent \in [Request -> SUBSET Context] /\ scripts \in 0..ScriptBound
    BY ExecutionAssumption DEF Init
  <2> QED BY <2>1, <2>2, <2>3, Zenon DEF Init, TypeOK
<1>2. Control /\ Isolation /\ WriterInUse /\ AbortIsReal
  BY Zenon DEF Init, Control, Isolation, WriterInUse, AbortIsReal
<1>3. Callers /\ Output
  BY Zenon DEF Init, Callers, Output, freshContext, ResponseOwned, OutputDelivered
<1>4. Gauges
  BY DEF Init, Gauges, GaugesExact
<1> QED BY <1>1, <1>2, <1>3, <1>4, Zenon DEF IInv

\* The invariant holds in every state a thread can reach.
THEOREM Inductive == Spec => []IInv
<1>1. IInv /\ [Next]_vars => IInv'
  <2> SUFFICES ASSUME IInv, [Next]_vars PROVE IInv'
    BY Zenon
  <2>1. TypeOK' /\ Control' /\ Callers'
    BY TypesKept, ControlKept, CallersKept, Zenon DEF IInv
  <2>2. Output' /\ Isolation'
    BY OutputKept, IsolationKept, Zenon DEF IInv
  <2>3. Gauges'
    BY GaugesKept, Zenon DEF IInv
  <2>4. WriterInUse' /\ AbortIsReal'
    BY SeenKept, Zenon DEF IInv, WriterInUse, AbortIsReal
  <2> QED BY <2>1, <2>2, <2>3, <2>4, Zenon DEF IInv
<1> QED BY <1>1, InitInvariant, PTL DEF Spec

\* A client is only sent output of its own request (go_ub_write), for any
\* requests and scripts.
THEOREM ResponsesAreOwned == Spec => []ResponseOwned
<1>1. IInv => ResponseOwned
  BY Zenon DEF IInv, Output
<1> QED BY <1>1, Inductive, PTL

\* The handler of a request is only let go with the output of its script
\* delivered (the flush before closeContext).
THEOREM OutputIsDelivered == Spec => []OutputDelivered
<1>1. IInv => OutputDelivered
  BY Zenon DEF IInv, Output
<1> QED BY <1>1, Inductive, PTL

\* No SAPI callback uses the writer or the body of a request whose handler
\* has returned (fc.isDone).
THEOREM WritersAreInUse == Spec => []WriterInUse
<1>1. IInv => WriterInUse
  BY Zenon DEF IInv
<1> QED BY <1>1, Inductive, PTL

\* PHP is told of an aborted connection only if the client aborted it
\* (clientHadClosed).
THEOREM AbortsAreReal == Spec => []AbortIsReal
<1>1. IInv => AbortIsReal
  BY Zenon DEF IInv
<1> QED BY <1>1, Inductive, PTL

\* Superglobals, session, request info and environment hold nothing of an
\* earlier request, and no sandbox outlives its heap.
THEOREM RequestsAreIsolated == Spec => []RequestIsolated
<1>1. IInv => RequestIsolated
  BY Zenon DEF IInv, Isolation, RequestIsolated, lookupEnv, running, TypeOK
<1> QED BY <1>1, Inductive, PTL

\* A thread that waits or stops has closed the context of every request it
\* took, unless it met the nil request of a message.
THEOREM NobodyIsHeldBack == Spec => [](RequestPresent => NothingHeldBack)
<1>1. IInv => (RequestPresent => NothingHeldBack)
  BY ExecutionAssumption, Zenon DEF IInv, RequestPresent, NothingHeldBack, Control, Callers
<1> QED BY <1>1, Inductive, PTL

\* The gauges say what runs (StartWorker, ReadyWorker, StopWorker), unless
\* the thread met the nil request of a message.
THEOREM GaugesAreExact == Spec => [](RequestPresent => GaugesExact)
<1>1. IInv => (RequestPresent => GaugesExact)
  BY Zenon DEF IInv, Gauges, RequestPresent
<1> QED BY <1>1, Inductive, PTL

\* No callback meets a nil request when no message has a response writer and
\* the debug level is off: the run message_with_writer drops the first.
THEOREM RequestsArePresent ==
    Message \subseteq Silent /\ ~Debug => (Spec => []RequestPresent)
<1> SUFFICES ASSUME Message \subseteq Silent, ~Debug PROVE Spec => []RequestPresent
  BY Zenon
<1>1. Init => RequestPresent
  BY Zenon DEF Init, RequestPresent
<1>2. RequestPresent /\ [Next]_vars => RequestPresent'
  <2> SUFFICES ASSUME RequestPresent, [Next]_vars PROVE RequestPresent'
    BY Zenon
  <2>1. CASE phpFinish
    BY <2>1, Zenon DEF phpFinish, RequestPresent
  <2>2. CASE phpInput
    BY <2>2, Zenon DEF phpInput, RequestPresent, open, hasWriter, hasRequest
  <2>3. CASE phpRequestHeaders
    BY <2>3, Zenon DEF phpRequestHeaders, RequestPresent, hasWriter, hasRequest
  <2>4. CASE nilRequest' = nilRequest
    BY <2>4, Zenon DEF RequestPresent
  <2> QED BY <2>1, <2>2, <2>3, <2>4, Zenon DEF Next, ScriptCall, Idle, vars, seenVars, clientCloses, handlerReturns,
    waitForRequest, setupWorkerScript, stop, requestStartup, executeScript, phpEcho, phpWrite,
    phpFlush, phpHeadersSend, phpFinishFlush, phpPutenv, phpEnvGlobal, phpSession, scriptEnds,
    criticalFailure, requestShutdown, forgetSandbox, afterScriptExecution, handleRequest,
    workerReady, waitForWorkerRequest, workerRequestStartup, callbackReturns,
    workerRequestShutdown, finishWorkerRequest
<1> QED BY <1>1, <1>2, PTL DEF Spec
-----------------------------------------------------------------------------
(* Induction on the steps of a loop *)

\* A nonempty set of naturals has a least element.
LEMMA LeastNat ==
    ASSUME NEW T \in SUBSET Nat, T # {}
    PROVE  \E n \in T : \A m \in T : n <= m
  <1>1. PICK n \in T : \A m \in T : ~(<<m, n>> \in OpToRel(<, Nat))
    BY WFMin, NatLessThanWellFounded, Zenon
  <1>2. \A m \in T : ~(m < n)
    BY <1>1, Zenon DEF OpToRel
  <1> QED
    BY <1>2

\* A set that holds 0, and with each number below k the next one, holds all of them up
\* to k: how the loops over lists in Declarations, Routing and WatchPattern are followed.
LEMMA UpToInduction ==
    ASSUME NEW S, NEW k \in Nat, 0 \in S, \A n \in 0 .. k - 1 : n \in S => n + 1 \in S
    PROVE  0 .. k \subseteq S
  <1> DEFINE T == {n \in 0 .. k : n \notin S}
  <1>1. ASSUME T # {} PROVE FALSE
    <2>0. T \in SUBSET Nat
      OBVIOUS
    <2> HIDE DEF T
    <2>1. PICK n \in T : \A m \in T : n <= m
      BY <1>1, <2>0, LeastNat, Zenon
    <2> USE DEF T
    <2>2. n # 0 /\ n \in 0 .. k /\ n \notin S
      BY <2>1
    <2>3. n - 1 \in 0 .. k - 1
      BY <2>2
    <2>4. n - 1 \notin T
      BY <2>1, <2>3
    <2>5. n - 1 \in S
      BY <2>3, <2>4
    <2>6. (n - 1) + 1 \in S
      BY <2>3, <2>5
    <2> QED
      BY <2>2, <2>6
  <1> QED
    BY <1>1

\* f is computed in k steps from b by G, with its values in V
Recurs(f, V, b, k, G) ==
    /\ f \in [0 .. k -> V]
    /\ f[0] = b
    /\ \A n \in 1 .. k : f[n - 1] \in V /\ f[n] = G[<<f[n - 1], n>>]

\* Such an f exists.
LEMMA RecursionExists ==
    ASSUME NEW V, NEW b \in V, NEW k \in Nat, NEW G \in [V \X (1 .. k) -> V]
    PROVE  \E f : Recurs(f, V, b, k, G)
  <1> DEFINE N == {n \in 0 .. k : \E f : Recurs(f, V, b, n, G)}
  <1>1. 0 \in N
    <2> DEFINE f == [m \in 0 .. 0 |-> b]
    <2>1. f \in [0 .. 0 -> V] /\ f[0] = b /\ 1 .. 0 = {} /\ 0 \in 0 .. k
      BY SMT
    <2> HIDE DEF f
    <2>2. Recurs(f, V, b, 0, G)
      BY <2>1, Zenon DEF Recurs
    <2> QED
      BY <2>1, <2>2, Zenon
  <1>2. ASSUME NEW n \in 0 .. k - 1, n \in N PROVE n + 1 \in N
    <2>1. PICK f : Recurs(f, V, b, n, G)
      BY <1>2, Zenon
    <2> DEFINE v == G[<<f[n], n + 1>>]
               g == [m \in 0 .. n + 1 |-> IF m = n + 1 THEN v ELSE f[m]]
    <2>2. /\ n + 1 \in 1 .. k /\ n + 1 \in 0 .. k /\ n \in 0 .. n /\ n + 1 \in 0 .. n + 1 /\ (n + 1) - 1 = n
          /\ 0 # n + 1 /\ 0 \in 0 .. n /\ 0 \in 0 .. n + 1
          /\ \A m \in 0 .. n + 1 : m # n + 1 => m \in 0 .. n
          /\ \A m \in 1 .. n + 1 : /\ m \in 0 .. n + 1 /\ m - 1 \in 0 .. n /\ m - 1 \in 0 .. n + 1 /\ m - 1 # n + 1
                                   /\ m # n + 1 => m \in 1 .. n
      BY SMT
    <2>3. /\ f \in [0 .. n -> V] /\ f[0] = b
          /\ \A m \in 1 .. n : f[m - 1] \in V /\ f[m] = G[<<f[m - 1], m>>]
      BY <2>1, Zenon DEF Recurs
    <2>4. v \in V
      BY <2>2, <2>3, Zenon
    <2>5. /\ g[n + 1] = v /\ \A m \in 0 .. n : m # n + 1 => g[m] = f[m]
      BY <2>2, SMT
    <2>6. g \in [0 .. n + 1 -> V]
      <3> HIDE DEF v
      <3>1. \A m \in 0 .. n + 1 : (IF m = n + 1 THEN v ELSE f[m]) \in V
        BY <2>2, <2>3, <2>4, Zenon
      <3> QED
        BY <3>1, Zenon
    <2> HIDE DEF g
    <2>7. ASSUME NEW m \in 1 .. n + 1 PROVE g[m - 1] \in V /\ g[m] = G[<<g[m - 1], m>>]
      <3>1. g[m - 1] = f[m - 1] /\ g[m - 1] \in V
        BY <2>2, <2>5, <2>6, Zenon
      <3>2. CASE m = n + 1
        BY <2>2, <2>5, <3>1, <3>2, Zenon
      <3>3. CASE m # n + 1
        <4>1. m \in 1 .. n /\ m \in 0 .. n
          BY <2>2, <3>3, SMT
        <4> QED
          BY <2>3, <2>5, <3>1, <3>3, <4>1, Zenon
      <3> QED
        BY <3>2, <3>3, Zenon
    <2>8. g[0] = b
      BY <2>2, <2>3, <2>5, Zenon
    <2>9. Recurs(g, V, b, n + 1, G)
      BY <2>6, <2>7, <2>8, Zenon DEF Recurs
    <2> QED
      BY <2>2, <2>9, Zenon
  <1> HIDE DEF N
  <1>3. 0 .. k \subseteq N
    BY <1>1, <1>2, UpToInduction, Zenon
  <1>4. k \in 0 .. k
    BY SMT
  <1> QED
    BY <1>3, <1>4, Zenon DEF N

\* The type that the first value has and every step keeps is the type of all values.
LEMMA RecursionTyped ==
    ASSUME NEW V, NEW k \in Nat, NEW F, F[0] \in V, \A n \in 1 .. k : F[n - 1] \in V => F[n] \in V
    PROVE  \A n \in 0 .. k : F[n] \in V
  <1> DEFINE N == {n \in 0 .. k : F[n] \in V}
  <1>1. 0 \in N
    BY SMT
  <1>2. ASSUME NEW n \in 0 .. k - 1, n \in N PROVE n + 1 \in N
    <2>1. n + 1 \in 1 .. k /\ n + 1 \in 0 .. k /\ (n + 1) - 1 = n
      BY SMT
    <2> QED
      BY <1>2, <2>1, Zenon
  <1> HIDE DEF N
  <1>3. 0 .. k \subseteq N
    BY <1>1, <1>2, UpToInduction, Zenon
  <1> QED
    BY <1>3, Zenon DEF N
-----------------------------------------------------------------------------
(* Watch patterns *)

\* Min, which the loops pick with, is the least element of a set of naturals.
LEMMA LeastMember ==
    ASSUME NEW T \in SUBSET Nat, T # {}
    PROVE  Min(T) \in T /\ \A m \in T : Min(T) <= m
  <1>1. PICK n \in T : \A m \in T : n <= m
    BY LeastNat, Zenon
  <1> QED
    BY <1>1, Zenon DEF Min

\* The lists of parts that a pattern is split into
Parts == {s \in Seq(Seq(Glob)) : s # <<>>}

\* The three runs above, and what is left of a path below the first d segments
EndsOf(ends, pattern, path) ==
    /\ ends \in [0 .. Len(pattern) -> SUBSET (0 .. Len(path))]
    /\ ends[0] = {0}
    /\ \A i \in 1 .. Len(pattern) :
          ends[i] = IF pattern[i] = AnyDepth THEN {j \in 0 .. Len(path) : \E k \in ends[i - 1] : k <= j}
                    ELSE {j \in 1 .. Len(path) : j - 1 \in ends[i - 1] /\ StandsFor(pattern[i], path[j])}
SplitOf(a, q) ==
    /\ a \in [0 .. Len(q) -> Parts]
    /\ a[0] = << <<>> >>
    /\ \A n \in 1 .. Len(q) : a[n] = cut(a[n - 1], q[n])
MoveOf(c, pv, parts) ==
    /\ c \in [0 .. Len(pv) -> 0 .. Len(parts)]
    /\ c[0] = 1
    /\ \A n \in 1 .. Len(pv) : c[n] = move(c[n - 1], n, pv, parts)
RestOf(parts, path, d) ==
    /\ Len(parts) \in Nat /\ Len(parts) >= 1
    /\ Len(path) > d => Len(parts) = Len(path) - d /\ \A x \in 1 .. Len(parts) : parts[x] = path[d + x]

\* An empty part matches anything (matchCurlyBracePattern).
LEMMA EmptyPart == ASSUME NEW parts PROVE matchCurlyBracePattern(<<>>, parts)
  <1>1. DOMAIN <<>> = {} /\ <<>> \in [{} -> UNION {expandCurlyBraces[<<>>[i]] : i \in {}}]
    BY SMT
  <1> QED
    BY <1>1, Zenon DEF matchCurlyBracePattern, matchPattern

\* A part matches segments that its own stand for, braces expanded or not.
LEMMA PartMatches ==
    ASSUME NEW Segment, NEW w \in Seq(Glob), NEW parts \in Seq(Segment), Len(parts) = Len(w),
           \A x \in 1 .. Len(w) : StandsFor(w[x], parts[x])
    PROVE  matchCurlyBracePattern(w, parts)
  <1> DEFINE U == UNION {expandCurlyBraces[w[i]] : i \in DOMAIN w}
             alternative == [x \in DOMAIN w |-> CHOOSE h \in expandCurlyBraces[w[x]] : parts[x] \in Accepts[h]]
  <1>1. DOMAIN w = 1 .. Len(w) /\ Len(w) \in Nat
    BY SMT
  <1>2. \A x \in DOMAIN w : alternative[x] \in expandCurlyBraces[w[x]] /\ parts[x] \in Accepts[alternative[x]]
    BY <1>1, Zenon DEF StandsFor
  <1>3. alternative \in [DOMAIN w -> U]
    BY <1>2, Zenon
  <1> HIDE DEF alternative, U
  <1>4. Len(alternative) = Len(w) /\ DOMAIN alternative = DOMAIN w
    BY <1>1, <1>3, SMT
  <1>5. matchPattern(alternative, parts)
    BY <1>2, <1>4, Zenon DEF matchPattern
  <1> QED
    BY <1>2, <1>3, <1>5, Zenon DEF matchCurlyBracePattern, U

\* What a segment of the pattern does to its parts: "**" begins a new one.
LEMMA CutTyped ==
    ASSUME NEW parts \in Parts, NEW g \in Glob \cup {AnyDepth}
    PROVE  /\ cut(parts, g) \in Parts
           /\ g = AnyDepth => /\ Len(cut(parts, g)) = Len(parts) + 1
                              /\ cut(parts, g)[Len(parts) + 1] = <<>>
                              /\ \A k \in 1 .. Len(parts) : cut(parts, g)[k] = parts[k]
           /\ g # AnyDepth => /\ Len(cut(parts, g)) = Len(parts)
                              /\ cut(parts, g)[Len(parts)] = Append(parts[Len(parts)], g)
                              /\ \A k \in 1 .. Len(parts) - 1 : cut(parts, g)[k] = parts[k]
  <1>1. parts \in Seq(Seq(Glob)) /\ Len(parts) \in Nat /\ Len(parts) >= 1 /\ parts[Len(parts)] \in Seq(Glob)
    BY SMT DEF Parts
  <1>2. CASE g = AnyDepth
    <2>1. cut(parts, g) = Append(parts, <<>>)
      BY <1>2, Zenon DEF cut
    <2>2. Append(parts, <<>>) \in Seq(Seq(Glob)) /\ Append(parts, <<>>) # <<>>
      BY <1>1, SMT
    <2> QED
      BY <1>1, <1>2, <2>1, <2>2, SMT DEF Parts
  <1>3. CASE g # AnyDepth
    <2> DEFINE last == Append(parts[Len(parts)], g)
               new == [parts EXCEPT ![Len(parts)] = last]
    <2>1. cut(parts, g) = new
      BY <1>3, Zenon DEF cut
    <2>2. last \in Seq(Glob)
      BY <1>1, <1>3, SMT
    <2> HIDE DEF last
    <2>3. /\ new \in Seq(Seq(Glob)) /\ Len(new) = Len(parts) /\ new[Len(parts)] = last
          /\ \A k \in 1 .. Len(parts) - 1 : new[k] = parts[k]
      BY <1>1, <2>2, SMT
    <2> HIDE DEF new
    <2>4. new # <<>>
      BY <1>1, <2>3, SMT
    <2> QED
      BY <1>3, <2>1, <2>3, <2>4, Zenon DEF Parts, last
  <1> QED
    BY <1>2, <1>3, Zenon

\* pattern.parse cuts the rest of the pattern at its "**", glob after glob.

\* What a pattern stands for, step by step.
LEMMA DenotesRuns ==
    ASSUME NEW Segment, NEW pattern \in Seq(Glob \cup {AnyDepth}), NEW path \in Seq(Segment)
    PROVE  \E ends : EndsOf(ends, pattern, path) /\ (Denotes(pattern, path) <=> Len(path) \in ends[Len(pattern)])
  <1> DEFINE V == SUBSET (0 .. Len(path))
             k == Len(pattern)
             b == {0}
             Step(e, i) == IF pattern[i] = AnyDepth THEN {j \in 0 .. Len(path) : \E l \in e : l <= j} ELSE {j \in 1 .. Len(path) : j - 1 \in e /\ StandsFor(pattern[i], path[j])}
             G == [p \in V \X (1 .. k) |-> Step(p[1], p[2])]
             Rec(f) == f = [i \in 0 .. k |-> IF i = 0 THEN b ELSE Step(f[i - 1], i)]
             F == CHOOSE f : Rec(f)
  <1>1. k \in Nat /\ b \in V
    BY SMT
  <1>2. \A e \in V, i \in 1 .. k : Step(e, i) \in V
    BY SMT
  <1>3. Denotes(pattern, path) <=> Len(path) \in F[Len(pattern)]
    BY Zenon DEF Denotes
  <1> HIDE DEF V, Step, k, b
  <1>4. G \in [V \X (1 .. k) -> V]
    BY <1>2, Zenon
  <1>5. PICK f : Recurs(f, V, b, k, G)
    <2> HIDE DEF G
    <2> QED
      BY <1>1, <1>4, RecursionExists, Zenon
  <1>6. /\ 0 \in 0 .. k
        /\ \A n \in 0 .. k : n # 0 => n \in 1 .. k
        /\ \A n \in 1 .. k : n \in 0 .. k /\ n # 0
    BY <1>1, SMT
  <1>7. \A n \in 1 .. k : f[n] = Step(f[n - 1], n)
    BY <1>5, Zenon DEF Recurs
  <1>8. Rec(F)
    <2>1. \A n \in 0 .. k : f[n] = IF n = 0 THEN b ELSE Step(f[n - 1], n)
      BY <1>5, <1>6, <1>7, Zenon DEF Recurs
    <2>2. Rec(f)
      BY <1>5, <2>1, Zenon DEF Recurs
    <2> HIDE DEF Rec
    <2> QED
      BY <2>2, Zenon
  <1> HIDE DEF F
  <1>9. F[0] = b /\ \A n \in 1 .. k : F[n] = Step(F[n - 1], n)
    BY <1>6, <1>8, Zenon
  <1>10. F \in [0 .. k -> V]
    <2>1. \A n \in 1 .. k : F[n - 1] \in V => F[n] \in V
      BY <1>2, <1>9, Zenon
    <2>2. \A n \in 0 .. k : F[n] \in V
      BY <1>1, <1>9, <2>1, RecursionTyped, Zenon
    <2> QED
      BY <1>8, <2>2, Zenon
  <1> QED
    BY <1>3, <1>9, <1>10, Zenon DEF V, Step, k, b, EndsOf

\* splitRecursive splits the pattern step by step.
LEMMA SplitRuns ==
    ASSUME NEW q \in Seq(Glob \cup {AnyDepth})
    PROVE  \E a : SplitOf(a, q) /\ splitRecursive(q) = a[Len(q)]
  <1> DEFINE V == Parts
             k == Len(q)
             b == << <<>> >>
             Step(e, i) == cut(e, q[i])
             G == [p \in V \X (1 .. k) |-> Step(p[1], p[2])]
             Rec(f) == f = [i \in 0 .. k |-> IF i = 0 THEN b ELSE Step(f[i - 1], i)]
             F == CHOOSE f : Rec(f)
  <1>1. k \in Nat /\ b \in V
    BY SMT DEF Parts
  <1>2. \A e \in V, i \in 1 .. k : Step(e, i) \in V
    <2>1. ASSUME NEW e \in Parts, NEW i \in 1 .. Len(q) PROVE cut(e, q[i]) \in Parts
      <3>1. q[i] \in Glob \cup {AnyDepth}
        BY SMT
      <3> QED
        BY <3>1, CutTyped, Zenon
    <2> QED
      BY <2>1, Zenon
  <1>3. splitRecursive(q) = F[Len(q)]
    BY Zenon DEF splitRecursive
  <1> HIDE DEF V, Step, k, b
  <1>4. G \in [V \X (1 .. k) -> V]
    BY <1>2, Zenon
  <1>5. PICK f : Recurs(f, V, b, k, G)
    <2> HIDE DEF G
    <2> QED
      BY <1>1, <1>4, RecursionExists, Zenon
  <1>6. /\ 0 \in 0 .. k
        /\ \A n \in 0 .. k : n # 0 => n \in 1 .. k
        /\ \A n \in 1 .. k : n \in 0 .. k /\ n # 0
    BY <1>1, SMT
  <1>7. \A n \in 1 .. k : f[n] = Step(f[n - 1], n)
    BY <1>5, Zenon DEF Recurs
  <1>8. Rec(F)
    <2>1. \A n \in 0 .. k : f[n] = IF n = 0 THEN b ELSE Step(f[n - 1], n)
      BY <1>5, <1>6, <1>7, Zenon DEF Recurs
    <2>2. Rec(f)
      BY <1>5, <2>1, Zenon DEF Recurs
    <2> HIDE DEF Rec
    <2> QED
      BY <2>2, Zenon
  <1> HIDE DEF F
  <1>9. F[0] = b /\ \A n \in 1 .. k : F[n] = Step(F[n - 1], n)
    BY <1>6, <1>8, Zenon
  <1>10. F \in [0 .. k -> V]
    <2>1. \A n \in 1 .. k : F[n - 1] \in V => F[n] \in V
      BY <1>2, <1>9, Zenon
    <2>2. \A n \in 0 .. k : F[n] \in V
      BY <1>1, <1>9, <2>1, RecursionTyped, Zenon
    <2> QED
      BY <1>8, <2>2, Zenon
  <1> QED
    BY <1>3, <1>9, <1>10, Zenon DEF V, Step, k, b, SplitOf

\* The search for a part ends behind the first place where the part is found, if there
\* is one (matchPatterns).
LEMMA MoveTyped ==
    ASSUME NEW Segment, NEW pv \in Parts, NEW parts \in Seq(Segment), NEW cursor \in 0 .. Len(parts),
           NEW i \in 1 .. Len(pv)
    PROVE  /\ move(cursor, i, pv, parts) \in 0 .. Len(parts)
           /\ \A from \in 1 .. Len(parts), p \in Nat :
                 /\ cursor # 0 /\ from = IF i = Len(pv) THEN Len(parts) - size(pv[i]) + 1 ELSE cursor
                 /\ from <= p /\ p <= Len(parts) /\ found(pv[i], parts, p)
                 => /\ move(cursor, i, pv, parts) >= from + size(pv[i]) - 1
                    /\ move(cursor, i, pv, parts) <= p + size(pv[i]) - 1
  <1> DEFINE v == pv[i]
             from == IF i = Len(pv) THEN Len(parts) - size(v) + 1 ELSE cursor
             here == {j \in from .. Len(parts) : found(v, parts, j)}
  <1>1. v \in Seq(Glob) /\ Len(parts) \in Nat
    BY SMT DEF Parts
  <1>2. size(v) \in Nat /\ size(v) >= 1
    BY <1>1, SMT DEF size
  <1>3. move(cursor, i, pv, parts) = IF cursor = 0 \/ from < 1 \/ here = {} THEN 0 ELSE Min(here) + size(v) - 1
    BY Zenon DEF move
  <1> HIDE DEF v
  <1>4. from \in Int
    BY <1>1, <1>2, SMT
  <1>5. ASSUME ~(cursor = 0 \/ from < 1 \/ here = {})
        PROVE  Min(here) \in here /\ \A m \in here : Min(here) <= m
    <2>1. here \in SUBSET Nat
      BY <1>1, <1>4, <1>5, SMT
    <2> HIDE DEF here
    <2> QED
      BY <1>5, <2>1, LeastMember, Zenon
  <1>6. move(cursor, i, pv, parts) \in 0 .. Len(parts)
    <2>1. CASE cursor = 0 \/ from < 1 \/ here = {}
      BY <1>1, <1>3, <2>1, SMT
    <2>2. CASE ~(cursor = 0 \/ from < 1 \/ here = {})
      <3>1. Min(here) \in from .. Len(parts) /\ found(v, parts, Min(here))
        BY <1>5, <2>2, Zenon
      <3>2. Min(here) + size(v) <= Len(parts) + 1
        BY <3>1, Zenon DEF found
      <3> HIDE DEF here, from
      <3> QED
        BY <1>1, <1>2, <1>3, <1>4, <2>2, <3>1, <3>2, SMT
    <2> QED
      BY <2>1, <2>2, Zenon
  <1>7. ASSUME NEW f \in 1 .. Len(parts), NEW p \in Nat, cursor # 0, f = from,
               f <= p, p <= Len(parts), found(v, parts, p)
        PROVE  /\ move(cursor, i, pv, parts) >= f + size(v) - 1
               /\ move(cursor, i, pv, parts) <= p + size(v) - 1
    <2>1. p \in here
      BY <1>1, <1>7, SMT
    <2>2. ~(cursor = 0 \/ from < 1 \/ here = {})
      BY <1>1, <1>7, <2>1, SMT
    <2>3. Min(here) \in from .. Len(parts) /\ Min(here) <= p
      BY <1>5, <2>1, <2>2, Zenon
    <2> HIDE DEF here, from
    <2> QED
      BY <1>1, <1>2, <1>3, <1>4, <1>7, <2>2, <2>3, SMT
  <1> QED
    BY <1>6, <1>7, Zenon DEF v

\* matchPatterns moves its cursor part after part.

\* matchPatterns searches for the parts one after the other.
LEMMA MoveRuns ==
    ASSUME NEW Segment, NEW pv \in Parts, NEW parts \in Seq(Segment), parts # <<>>
    PROVE  \E c : MoveOf(c, pv, parts) /\ (matchPatterns(pv, parts) <=> c[Len(pv)] # 0)
  <1> DEFINE V == (0 .. Len(parts))
             k == Len(pv)
             b == 1
             Step(e, i) == move(e, i, pv, parts)
             G == [p \in V \X (1 .. k) |-> Step(p[1], p[2])]
             Rec(f) == f = [i \in 0 .. k |-> IF i = 0 THEN b ELSE Step(f[i - 1], i)]
             F == CHOOSE f : Rec(f)
  <1>1. k \in Nat /\ b \in V
    BY SMT DEF Parts
  <1>2. \A e \in V, i \in 1 .. k : Step(e, i) \in V
    BY MoveTyped, Zenon
  <1>3. matchPatterns(pv, parts) <=> F[Len(pv)] # 0
    BY Zenon DEF matchPatterns
  <1> HIDE DEF V, Step, k, b
  <1>4. G \in [V \X (1 .. k) -> V]
    BY <1>2, Zenon
  <1>5. PICK f : Recurs(f, V, b, k, G)
    <2> HIDE DEF G
    <2> QED
      BY <1>1, <1>4, RecursionExists, Zenon
  <1>6. /\ 0 \in 0 .. k
        /\ \A n \in 0 .. k : n # 0 => n \in 1 .. k
        /\ \A n \in 1 .. k : n \in 0 .. k /\ n # 0
    BY <1>1, SMT
  <1>7. \A n \in 1 .. k : f[n] = Step(f[n - 1], n)
    BY <1>5, Zenon DEF Recurs
  <1>8. Rec(F)
    <2>1. \A n \in 0 .. k : f[n] = IF n = 0 THEN b ELSE Step(f[n - 1], n)
      BY <1>5, <1>6, <1>7, Zenon DEF Recurs
    <2>2. Rec(f)
      BY <1>5, <2>1, Zenon DEF Recurs
    <2> HIDE DEF Rec
    <2> QED
      BY <2>2, Zenon
  <1> HIDE DEF F
  <1>9. F[0] = b /\ \A n \in 1 .. k : F[n] = Step(F[n - 1], n)
    BY <1>6, <1>8, Zenon
  <1>10. F \in [0 .. k -> V]
    <2>1. \A n \in 1 .. k : F[n - 1] \in V => F[n] \in V
      BY <1>2, <1>9, Zenon
    <2>2. \A n \in 0 .. k : F[n] \in V
      BY <1>1, <1>9, <2>1, RecursionTyped, Zenon
    <2> QED
      BY <1>8, <2>2, Zenon
  <1> QED
    BY <1>3, <1>9, <1>10, Zenon DEF V, Step, k, b, MoveOf

\* A segment without wildcards stands for itself.
LEMMA PlainStands ==
    ASSUME PlainAssumption, NEW g \in Plain, NEW seg, StandsFor(g, seg)
    PROVE  seg = g
  <1>1. expandCurlyBraces[g] = {g} /\ Accepts[g] = {g}
    BY Zenon DEF PlainAssumption
  <1>2. PICK h \in expandCurlyBraces[g] : seg \in Accepts[h]
    BY Zenon DEF StandsFor
  <1> QED
    BY <1>1, <1>2, Zenon

\* The segments without wildcards that a pattern begins with are the directory of the
\* path: the one that is watched.
LEMMA DirPrefix ==
    ASSUME PlainAssumption, NEW Segment, NEW pattern \in Seq(Glob \cup {AnyDepth}), NEW path \in Seq(Segment),
           NEW ends, EndsOf(ends, pattern, path),
           NEW d \in 0 .. Len(pattern), \A i \in 1 .. d : pattern[i] \in Plain
    PROVE  \A e \in ends[d] : e = d /\ \A x \in 1 .. d : path[x] = pattern[x]
  <1> DEFINE P(i) == \A e \in ends[i] : e = i /\ \A x \in 1 .. i : path[x] = pattern[x]
             N == {i \in 0 .. d : P(i)}
  <1>1. 0 \in N
    BY SMT DEF EndsOf
  <1>2. ASSUME NEW i \in 0 .. d - 1, i \in N PROVE i + 1 \in N
    <2>1. i + 1 \in 1 .. d /\ i + 1 \in 1 .. Len(pattern) /\ (i + 1) - 1 = i /\ i + 1 \in 0 .. d /\ Len(path) \in Nat
      BY SMT
    <2>2. pattern[i + 1] \in Plain /\ pattern[i + 1] # AnyDepth
      BY <2>1, Zenon DEF PlainAssumption
    <2>3. ends[i + 1] = {j \in 1 .. Len(path) : j - 1 \in ends[i] /\ StandsFor(pattern[i + 1], path[j])}
      BY <2>1, <2>2, Zenon DEF EndsOf
    <2>4. ASSUME NEW e \in ends[i + 1] PROVE e = i + 1 /\ \A x \in 1 .. i + 1 : path[x] = pattern[x]
      <3>1. e \in 1 .. Len(path) /\ e - 1 \in ends[i] /\ StandsFor(pattern[i + 1], path[e])
        BY <2>3, Zenon
      <3>2. e - 1 = i /\ \A x \in 1 .. i : path[x] = pattern[x]
        BY <1>2, <3>1, Zenon
      <3>3. e = i + 1
        BY <3>1, <3>2, SMT
      <3>4. path[i + 1] = pattern[i + 1]
        BY <2>2, <3>1, <3>3, PlainStands, Zenon
      <3>5. \A x \in 1 .. i + 1 : x \in 1 .. i \/ x = i + 1
        BY SMT
      <3> QED
        BY <3>2, <3>3, <3>4, <3>5, Zenon
    <2> QED
      BY <2>1, <2>4, Zenon
  <1> HIDE DEF N
  <1>3. d \in Nat
    BY SMT
  <1>4. 0 .. d \subseteq N
    BY <1>1, <1>2, <1>3, UpToInduction, Zenon
  <1>5. d \in 0 .. d
    BY SMT
  <1> QED
    BY <1>4, <1>5, Zenon DEF N

\* A part that is complete stays as it is.
LEMMA SplitStable ==
    ASSUME NEW q \in Seq(Glob \cup {AnyDepth}), NEW a, SplitOf(a, q), NEW i \in 0 .. Len(q)
    PROVE  /\ Len(a[i]) \in Nat /\ Len(a[i]) >= 1 /\ a[i][Len(a[i])] \in Seq(Glob)
           /\ Len(a[Len(q)]) \in Nat /\ Len(a[i]) <= Len(a[Len(q)])
           /\ \A k \in 1 .. Len(a[i]) - 1 : a[Len(q)][k] = a[i][k]
  <1> DEFINE m == Len(q)
             P(j) == /\ Len(a[j]) <= Len(a[m])
                     /\ \A k \in 1 .. Len(a[j]) - 1 : a[m][k] = a[j][k]
             N == {n \in 0 .. m : P(m - n)}
  <1>1. m \in Nat /\ m \in 0 .. m
    BY SMT
  <1>2. \A j \in 0 .. m : Len(a[j]) \in Nat /\ Len(a[j]) >= 1 /\ a[j][Len(a[j])] \in Seq(Glob)
    BY SMT DEF SplitOf, Parts
  <1>3. 0 \in N
    <2>1. m - 0 = m /\ 0 \in 0 .. m
      BY <1>1, SMT
    <2>2. P(m)
      BY <1>1, <1>2, SMT
    <2> QED
      BY <2>1, <2>2, Zenon
  <1>4. ASSUME NEW n \in 0 .. m - 1, n \in N PROVE n + 1 \in N
    <2> DEFINE j == m - (n + 1)
    <2>1. /\ j + 1 = m - n /\ j + 1 \in 1 .. m /\ (j + 1) - 1 = j /\ j \in 0 .. m /\ j + 1 \in 0 .. m
          /\ n + 1 \in 0 .. m
      BY <1>1, SMT
    <2>2. P(j + 1)
      BY <1>4, <2>1, Zenon
    <2> HIDE DEF j
    <2>3. a[j + 1] = cut(a[j], q[j + 1]) /\ a[j] \in Parts /\ q[j + 1] \in Glob \cup {AnyDepth}
      <3>1. q[j + 1] \in Glob \cup {AnyDepth}
        BY <2>1, SMT
      <3> QED
        BY <2>1, <3>1, Zenon DEF SplitOf
    <2>4. /\ Len(a[j]) <= Len(a[j + 1])
          /\ \A k \in 1 .. Len(a[j]) - 1 : a[j + 1][k] = a[j][k] /\ k \in 1 .. Len(a[j + 1]) - 1
      <3>1. CASE q[j + 1] = AnyDepth
        <4>1. Len(a[j + 1]) = Len(a[j]) + 1 /\ \A k \in 1 .. Len(a[j]) : a[j + 1][k] = a[j][k]
          BY <2>3, <3>1, CutTyped, SMT
        <4> QED
          BY <1>2, <2>1, <4>1, SMT
      <3>2. CASE q[j + 1] # AnyDepth
        <4>1. Len(a[j + 1]) = Len(a[j]) /\ \A k \in 1 .. Len(a[j]) - 1 : a[j + 1][k] = a[j][k]
          BY <2>3, <3>2, CutTyped, SMT
        <4> QED
          BY <1>2, <2>1, <4>1, SMT
      <3> QED
        BY <3>1, <3>2, Zenon
    <2>5. P(j)
      <3>1. Len(a[j]) <= Len(a[m])
        <4>1. Len(a[j]) \in Nat /\ Len(a[j + 1]) \in Nat /\ Len(a[m]) \in Nat
          BY <1>1, <1>2, <2>1, Zenon
        <4>2. Len(a[j]) <= Len(a[j + 1]) /\ Len(a[j + 1]) <= Len(a[m])
          BY <2>2, <2>4, Zenon
        <4> QED
          BY <4>1, <4>2, SMT
      <3>2. \A k \in 1 .. Len(a[j]) - 1 : a[m][k] = a[j][k]
        BY <2>2, <2>4, Zenon
      <3> QED
        BY <3>1, <3>2, Zenon
    <2> QED
      BY <2>1, <2>5, Zenon DEF j
  <1>5. i = m - (m - i) /\ m - i \in 0 .. m
    BY <1>1, SMT
  <1> HIDE DEF N
  <1>6. 0 .. m \subseteq N
    BY <1>1, <1>3, <1>4, UpToInduction, Zenon
  <1>7. P(i)
    <2>1. P(m - (m - i))
      BY <1>5, <1>6, Zenon DEF N
    <2> QED
      BY <1>5, <2>1, Zenon
  <1> QED
    BY <1>1, <1>2, <1>7, Zenon

\* The part w of a pattern ends with the segment e of the path, d of whose segments
\* are the directory; the cursor c of the search is not past it
Reached(e, w, k, cursor, d, path) ==
    /\ e >= d + Len(w)
    /\ \A x \in 1 .. Len(w) : StandsFor(w[x], path[e - Len(w) + x])
    /\ k = 1 => e = d + Len(w)
    /\ cursor >= 1
    /\ cursor = 1 \/ cursor <= e - Len(w) - d

\* A part that stands for the segments before e is found there.
LEMMA PartIsFound ==
    ASSUME NEW Segment, NEW path \in Seq(Segment), NEW Part, NEW parts \in Seq(Part), NEW d \in Nat, RestOf(parts, path, d),
           NEW w \in Seq(Glob), NEW e \in 0 .. Len(path), e >= d + Len(w),
           \A x \in 1 .. Len(w) : StandsFor(w[x], path[e - Len(w) + x])
    PROVE  /\ w = <<>> => \A p \in 1 .. Len(parts) : found(w, parts, p)
           /\ w # <<>> => /\ Len(parts) = Len(path) - d
                          /\ e - Len(w) + 1 - d \in 1 .. Len(parts)
                          /\ found(w, parts, e - Len(w) + 1 - d)
  <1>1. Len(parts) \in Nat /\ Len(path) \in Nat /\ Len(w) \in Nat /\ e \in Nat
    BY SMT
  <1>2. CASE w = <<>>
    <2>1. \A p \in 1 .. Len(parts) : p + size(w) <= Len(parts) + 1
      BY <1>1, <1>2, SMT DEF size
    <2> QED
      BY <1>2, <2>1, EmptyPart, Zenon DEF found
  <1>3. CASE w # <<>>
    <2> DEFINE p == e - Len(w) + 1 - d
               sub == SubSeq(parts, p, p + Len(w) - 1)
    <2>1. Len(w) >= 1 /\ size(w) = Len(w)
      BY <1>1, <1>3, SMT DEF size
    <2>2. Len(path) > d
      BY <1>1, <2>1, SMT
    <2>3. Len(parts) = Len(path) - d /\ \A x \in 1 .. Len(parts) : parts[x] = path[d + x]
      BY <2>2, Zenon DEF RestOf
    <2>4. p \in 1 .. Len(parts) /\ p + Len(w) <= Len(parts) + 1
      BY <1>1, <2>1, <2>3, SMT
    <2>5. /\ sub \in Seq(Part) /\ Len(sub) = Len(w)
          /\ \A x \in 1 .. Len(w) : sub[x] = parts[p + x - 1]
      BY <1>1, <2>1, <2>4, SMT
    <2>6. \A x \in 1 .. Len(w) : p + x - 1 \in 1 .. Len(parts) /\ d + (p + x - 1) = e - Len(w) + x
      BY <1>1, <2>1, <2>4, SMT
    <2>7. \A x \in 1 .. Len(w) : StandsFor(w[x], sub[x])
      <3>1. ASSUME NEW x \in 1 .. Len(w) PROVE sub[x] = path[e - Len(w) + x]
        BY <2>3, <2>5, <2>6, Zenon
      <3> QED
        BY <3>1, Zenon
    <2>8. matchCurlyBracePattern(w, sub)
      <3> HIDE DEF sub
      <3> QED
        BY <1>3, <2>5, <2>7, PartMatches, Zenon
    <2>9. found(w, parts, p)
      BY <2>1, <2>4, <2>8, Zenon DEF found
    <2> QED
      BY <1>3, <2>3, <2>4, <2>9, Zenon
  <1> QED
    BY <1>2, <1>3, Zenon

\* If the pattern up to a part stands for the path up to e, matchPatterns finds the part
\* no later than e, and the last one at the end.
LEMMA CursorFollows ==
    ASSUME NEW Segment, NEW path \in Seq(Segment), NEW Part, NEW parts \in Seq(Part), NEW d \in Nat, RestOf(parts, path, d),
           NEW pv \in Parts, NEW k \in 1 .. Len(pv), NEW cursor \in 0 .. Len(parts), NEW e \in 0 .. Len(path),
           Reached(e, pv[k], k, cursor, d, path)
    PROVE  /\ k < Len(pv) => /\ move(cursor, k, pv, parts) >= 1
                             /\ move(cursor, k, pv, parts) = 1 \/ move(cursor, k, pv, parts) <= e - d
           /\ k = Len(pv) /\ e = Len(path) => move(cursor, k, pv, parts) # 0
  <1> DEFINE w == pv[k]
             mv == move(cursor, k, pv, parts)
  <1>1. /\ Len(parts) \in Nat /\ Len(path) \in Nat /\ w \in Seq(Glob) /\ Len(w) \in Nat /\ e \in Nat
        /\ Len(pv) \in Nat /\ Len(parts) >= 1 /\ cursor \in Nat
    BY SMT DEF Parts, RestOf
  <1> HIDE DEF w
  <1>2. /\ e >= d + Len(w) /\ \A x \in 1 .. Len(w) : StandsFor(w[x], path[e - Len(w) + x])
        /\ cursor >= 1 /\ (cursor = 1 \/ cursor <= e - Len(w) - d)
    BY Zenon DEF Reached, w
  <1>3. /\ w = <<>> => \A p \in 1 .. Len(parts) : found(w, parts, p)
        /\ w # <<>> => /\ Len(parts) = Len(path) - d
                       /\ e - Len(w) + 1 - d \in 1 .. Len(parts)
                       /\ found(w, parts, e - Len(w) + 1 - d)
    BY <1>1, <1>2, PartIsFound, SMT
  <1>4. /\ mv \in 0 .. Len(parts)
        /\ \A from \in 1 .. Len(parts), p \in Nat :
              /\ cursor # 0 /\ from = IF k = Len(pv) THEN Len(parts) - size(w) + 1 ELSE cursor
              /\ from <= p /\ p <= Len(parts) /\ found(w, parts, p)
              => mv >= from + size(w) - 1 /\ mv <= p + size(w) - 1
    BY MoveTyped, SMT DEF w
  <1> HIDE DEF mv
  <1>5. (w = <<>> => size(w) = 1 /\ Len(w) = 0) /\ (w # <<>> => size(w) = Len(w) /\ Len(w) >= 1)
    BY <1>1, SMT DEF size
  <1>6. cursor \in 1 .. Len(parts)
    BY <1>1, <1>2, SMT
  <1>7. ASSUME k < Len(pv) PROVE mv >= 1 /\ (mv = 1 \/ mv <= e - d)
    <2>1. cursor # 0 /\ cursor = IF k = Len(pv) THEN Len(parts) - size(w) + 1 ELSE cursor
      BY <1>1, <1>2, <1>7, SMT
    <2>2. CASE w = <<>>
      <3>1. found(w, parts, cursor) /\ cursor <= cursor /\ cursor <= Len(parts) /\ cursor \in Nat
        BY <1>1, <1>3, <1>6, <2>2, SMT
      <3>2. mv >= cursor + size(w) - 1 /\ mv <= cursor + size(w) - 1
        BY <1>4, <1>6, <2>1, <3>1, Zenon
      <3> QED
        BY <1>1, <1>2, <1>4, <1>5, <2>2, <3>2, SMT
    <2>3. CASE w # <<>>
      <3> DEFINE p == e - Len(w) + 1 - d
      <3>1. found(w, parts, p) /\ cursor <= p /\ p <= Len(parts) /\ p \in Nat
        BY <1>1, <1>2, <1>3, <1>6, <2>3, SMT
      <3>2. mv >= cursor + size(w) - 1 /\ mv <= p + size(w) - 1
        <4> HIDE DEF p
        <4> QED
          BY <1>4, <1>6, <2>1, <3>1, Zenon
      <3> QED
        BY <1>1, <1>2, <1>4, <1>5, <2>3, <3>2, SMT
    <2> QED
      BY <2>2, <2>3, Zenon
  <1>8. ASSUME k = Len(pv), e = Len(path) PROVE mv # 0
    <2> DEFINE from == Len(parts) - size(w) + 1
    <2>1. from \in 1 .. Len(parts) /\ found(w, parts, from)
      <3>1. CASE w = <<>>
        BY <1>1, <1>3, <1>5, <3>1, SMT
      <3>2. CASE w # <<>>
        <4>1. from = e - Len(w) + 1 - d
          BY <1>1, <1>3, <1>5, <1>8, <3>2, SMT
        <4> QED
          BY <1>3, <3>2, <4>1, Zenon
      <3> QED
        BY <3>1, <3>2, Zenon
    <2>2. cursor # 0 /\ from = IF k = Len(pv) THEN Len(parts) - size(w) + 1 ELSE cursor
      BY <1>1, <1>2, <1>8, SMT
    <2>3. from <= from /\ from <= Len(parts) /\ from \in Nat
      BY <1>1, <2>1, SMT
    <2>4. mv >= from + size(w) - 1
      <3> HIDE DEF from
      <3> QED
        BY <1>4, <2>1, <2>2, <2>3, Zenon DEF from
    <2> QED
      BY <1>1, <1>4, <1>5, <2>4, SMT
  <1> QED
    BY <1>7, <1>8, Zenon DEF mv

\* What cut makes of the parts
Extended(old, new, g) ==
    /\ g = AnyDepth => /\ Len(new) = Len(old) + 1 /\ new[Len(old) + 1] = <<>>
                       /\ \A k \in 1 .. Len(old) : new[k] = old[k]
    /\ g # AnyDepth => Len(new) = Len(old) /\ new[Len(old)] = Append(old[Len(old)], g)

\* cut extends the parts by a segment.
LEMMA CutExtends ==
    ASSUME NEW parts \in Parts, NEW g \in Glob \cup {AnyDepth}
    PROVE  Extended(parts, cut(parts, g), g)
  BY CutTyped, Zenon DEF Extended

\* What is reached stays reached with one more segment.
LEMMA ReachedAppend ==
    ASSUME NEW path, NEW w \in Seq(Glob), NEW g \in Glob, NEW k \in Nat, NEW cursor \in Nat, NEW d \in Nat,
           NEW e \in Nat, Reached(e - 1, w, k, cursor, d, path), StandsFor(g, path[e])
    PROVE  Reached(e, Append(w, g), k, cursor, d, path)
  <1> DEFINE u == Append(w, g)
  <1>1. Len(w) \in Nat /\ Len(u) = Len(w) + 1 /\ u[Len(w) + 1] = g /\ \A x \in 1 .. Len(w) : u[x] = w[x]
    BY SMT
  <1> HIDE DEF u
  <1>2. /\ e - 1 >= d + Len(w) /\ (k = 1 => e - 1 = d + Len(w)) /\ cursor >= 1
        /\ cursor = 1 \/ cursor <= (e - 1) - Len(w) - d
        /\ \A x \in 1 .. Len(w) : StandsFor(w[x], path[(e - 1) - Len(w) + x])
    BY Zenon DEF Reached
  <1>3. /\ e >= d + Len(u) /\ (k = 1 => e = d + Len(u))
        /\ cursor = 1 \/ cursor <= e - Len(u) - d
    BY <1>1, <1>2, SMT
  <1>4. ASSUME NEW x \in 1 .. Len(u) PROVE StandsFor(u[x], path[e - Len(u) + x])
    <2>1. CASE x = Len(w) + 1
      <3>1. e - Len(u) + x = e
        BY <1>1, <2>1, SMT
      <3> QED
        BY <1>1, <2>1, <3>1, Zenon
    <2>2. CASE x # Len(w) + 1
      <3>1. x \in 1 .. Len(w) /\ e - Len(u) + x = (e - 1) - Len(w) + x
        BY <1>1, <2>2, SMT
      <3> QED
        BY <1>1, <1>2, <3>1, Zenon
    <2> QED
      BY <2>1, <2>2, Zenon
  <1>5. Reached(e, u, k, cursor, d, path)
    BY <1>2, <1>3, <1>4, Zenon DEF Reached
  <1> QED
    BY <1>5, Zenon DEF u

\* A "**" reaches any later segment, with an empty part.
LEMMA ReachedEmpty ==
    ASSUME NEW path, NEW w \in Seq(Glob), NEW k \in Nat, k >= 1, NEW cursor, NEW d \in Nat, NEW e \in Nat, NEW f \in Nat,
           NEW next \in Nat, Reached(f, w, k, cursor, d, path), f <= e, next >= 1, next = 1 \/ next <= f - d
    PROVE  Reached(e, <<>>, k + 1, next, d, path)
  <1>1. f >= d + Len(w) /\ Len(w) \in Nat
    BY SMT DEF Reached
  <1>2. e >= d + 0 /\ k + 1 # 1 /\ (next = 1 \/ next <= e - 0 - d)
    BY <1>1, SMT
  <1>3. Len(<<>>) = 0 /\ 1 .. 0 = {}
    BY SMT
  <1> QED
    BY <1>2, <1>3, Zenon DEF Reached

\* The runs for a pattern and a path below the directory of the pattern
Searched(pattern, path, ends, d, q, a, parts, c) ==
    /\ EndsOf(ends, pattern, path)
    /\ \A e \in ends[d] : e = d
    /\ Len(q) = Len(pattern) - d
    /\ \A i \in 1 .. Len(q) : q[i] = pattern[d + i]
    /\ SplitOf(a, q)
    /\ RestOf(parts, path, d)
    /\ MoveOf(c, a[Len(q)], parts)

\* Wherever the pattern may end, the search for its last part has got no further.
LEMMA PartsReached ==
    ASSUME NEW Segment, NEW pattern \in Seq(Glob \cup {AnyDepth}), NEW path \in Seq(Segment), NEW d \in 0 .. Len(pattern),
           NEW q \in Seq(Glob \cup {AnyDepth}), NEW Part, NEW parts \in Seq(Part), NEW ends, NEW a, NEW c,
           Searched(pattern, path, ends, d, q, a, parts, c)
    PROVE  \A e \in ends[Len(pattern)] :
              /\ d \in ends[d]
              /\ Reached(e, a[Len(q)][Len(a[Len(q)])], Len(a[Len(q)]), c[Len(a[Len(q)]) - 1], d, path)
  <1> DEFINE m == Len(q)
             pv == a[m]
             K(i) == Len(a[i])
             R(i, e) == Reached(e, a[i][K(i)], K(i), c[K(i) - 1], d, path)
             P(i) == \A e \in ends[d + i] : d \in ends[d] /\ R(i, e)
             N == {i \in 0 .. m : P(i)}
  <1>1. m \in Nat /\ m = Len(pattern) - d /\ d \in Nat /\ Len(path) \in Nat /\ Len(pattern) \in Nat /\ Len(parts) \in Nat
    BY SMT DEF Searched
  <1>2. \A i \in 0 .. m : /\ K(i) \in Nat /\ K(i) >= 1 /\ a[i][K(i)] \in Seq(Glob)
                          /\ K(m) \in Nat /\ K(i) <= K(m)
                          /\ \A k \in 1 .. K(i) - 1 : pv[k] = a[i][k]
    <2>1. SplitOf(a, q)
      BY Zenon DEF Searched
    <2>2. ASSUME NEW i \in 0 .. m
          PROVE  /\ K(i) \in Nat /\ K(i) >= 1 /\ a[i][K(i)] \in Seq(Glob)
                 /\ K(m) \in Nat /\ K(i) <= K(m)
                 /\ \A k \in 1 .. K(i) - 1 : pv[k] = a[i][k]
      BY <2>1, SplitStable, Zenon
    <2> QED
      BY <2>2, Zenon
  <1>3. a \in [0 .. m -> Parts] /\ a[0] = << <<>> >> /\ \A n \in 1 .. m : a[n] = cut(a[n - 1], q[n])
    BY Zenon DEF SplitOf, Searched
  <1>4. /\ c \in [0 .. Len(pv) -> 0 .. Len(parts)] /\ c[0] = 1
        /\ \A n \in 1 .. Len(pv) : c[n] = move(c[n - 1], n, pv, parts)
    BY Zenon DEF MoveOf, Searched
  <1>5. ends \in [0 .. Len(pattern) -> SUBSET (0 .. Len(path))] /\ EndsOf(ends, pattern, path)
    BY Zenon DEF EndsOf, Searched
  <1>10. \A i \in 1 .. m : q[i] = pattern[d + i]
    BY Zenon DEF Searched
  <1>11. RestOf(parts, path, d)
    BY Zenon DEF Searched
  <1> HIDE DEF m
  <1>6. 0 \in N
    <2>1. \A e \in ends[d] : e = d
      BY Zenon DEF Searched
    <2>2. d + 0 = d /\ K(0) = 1 /\ a[0][1] = <<>> /\ K(0) - 1 = 0 /\ 0 \in 0 .. m
      BY <1>1, <1>3, SMT
    <2>3. R(0, d)
      <3>1. Reached(d, <<>>, 1, 1, d, path)
        BY <1>1, SMT DEF Reached
      <3> QED
        BY <1>4, <2>2, <3>1, Zenon
    <2> QED
      BY <2>1, <2>2, <2>3, Zenon
  <1>7. ASSUME NEW i \in 0 .. m - 1, i \in N PROVE i + 1 \in N
    <2> DEFINE g == q[i + 1]
               k == K(i)
               w == a[i][k]
    <2>1. /\ i + 1 \in 1 .. m /\ i \in 0 .. m /\ i + 1 \in 0 .. m /\ (i + 1) - 1 = i
          /\ d + (i + 1) \in 1 .. Len(pattern) /\ (d + (i + 1)) - 1 = d + i /\ d + i \in 0 .. Len(pattern)
      BY <1>1, SMT
    <2>2. g = pattern[d + (i + 1)] /\ g \in Glob \cup {AnyDepth} /\ a[i] \in Parts /\ a[i + 1] = cut(a[i], g)
      <3>1. g \in Glob \cup {AnyDepth}
        BY <2>1, SMT DEF m
      <3> QED
        BY <1>3, <1>10, <2>1, <3>1, Zenon DEF m
    <2>3. k \in Nat /\ k >= 1 /\ w \in Seq(Glob) /\ k <= Len(pv) /\ Len(pv) \in Nat /\ Len(w) \in Nat
      <3>1. w \in Seq(Glob) /\ k \in Nat /\ k >= 1 /\ k <= Len(pv) /\ Len(pv) \in Nat
        BY <1>2, <2>1, Zenon
      <3> QED
        BY <3>1, SMT
    <2>4. ends[d + i] \subseteq 0 .. Len(path)
      BY <1>5, <2>1, Zenon
    <2>5. P(i)
      BY <1>7, Zenon
    <2>6. ASSUME NEW e \in ends[d + (i + 1)] PROVE d \in ends[d] /\ R(i + 1, e)
      <3>1. CASE g = AnyDepth
        <4>1. ends[d + (i + 1)] = {j \in 0 .. Len(path) : \E f \in ends[d + i] : f <= j}
          BY <1>5, <2>1, <2>2, <3>1, Zenon DEF EndsOf
        <4>2. PICK f \in ends[d + i] : f <= e
          BY <2>6, <4>1, Zenon
        <4>3. d \in ends[d] /\ R(i, f) /\ e \in 0 .. Len(path) /\ f \in 0 .. Len(path)
          BY <2>4, <2>5, <2>6, <4>1, <4>2, Zenon
        <4>4. K(i + 1) = k + 1 /\ a[i + 1][k + 1] = <<>> /\ \A x \in 1 .. k : a[i + 1][x] = a[i][x]
          <5>1. Extended(a[i], a[i + 1], g)
            BY <2>2, CutExtends, Zenon
          <5> QED
            BY <3>1, <5>1, Zenon DEF Extended
        <4>5. k + 1 <= Len(pv) /\ k < Len(pv) /\ k \in 1 .. Len(pv) /\ pv[k] = w /\ k \in 1 .. k
          <5>1. K(i + 1) <= Len(pv) /\ \A x \in 1 .. K(i + 1) - 1 : pv[x] = a[i + 1][x]
            BY <1>2, <2>1, Zenon
          <5>2. k \in 1 .. K(i + 1) - 1 /\ k \in 1 .. k /\ k + 1 <= Len(pv) /\ k < Len(pv) /\ k \in 1 .. Len(pv)
            BY <2>3, <4>4, <5>1, SMT
          <5> QED
            BY <4>4, <5>1, <5>2, Zenon
        <4>6. c[k - 1] \in 0 .. Len(parts) /\ c[k] = move(c[k - 1], k, pv, parts) /\ c[k] \in Nat
          <5>1. k - 1 \in 0 .. Len(pv) /\ k \in 0 .. Len(pv)
            BY <4>5, <2>3, SMT
          <5>2. c[k - 1] \in 0 .. Len(parts) /\ c[k] \in 0 .. Len(parts)
            BY <1>4, <5>1, Zenon
          <5> QED
            <6>1. c[k] \in Nat
              BY <1>1, <5>2, SMT
            <6>2. c[k] = move(c[k - 1], k, pv, parts)
              BY <1>4, <4>5, Zenon
            <6> QED
              BY <5>2, <6>1, <6>2, Zenon
        <4>7. pv \in Parts
          <5>1. m \in 0 .. m
            BY <1>1, SMT
          <5> QED
            BY <1>3, <5>1, Zenon
        <4>8. Reached(f, pv[k], k, c[k - 1], d, path)
          BY <4>3, <4>5, Zenon
        <4>9. c[k] >= 1 /\ (c[k] = 1 \/ c[k] <= f - d)
          <5> HIDE DEF pv, k
          <5>1. /\ move(c[k - 1], k, pv, parts) >= 1
                /\ move(c[k - 1], k, pv, parts) = 1 \/ move(c[k - 1], k, pv, parts) <= f - d
            BY <1>1, <1>11, <4>3, <4>5, <4>6, <4>7, <4>8, CursorFollows, Zenon
          <5> QED
            BY <4>6, <5>1, Zenon
        <4>10. f \in Nat /\ e \in Nat
          <5>1. f \in 0 .. Len(path) /\ e \in 0 .. Len(path) /\ Len(path) \in Nat
            BY <1>1, <4>3, Zenon
          <5> QED
            BY <5>1, SMT
        <4>11. Reached(e, <<>>, k + 1, c[k], d, path)
          <5> HIDE DEF k, w
          <5>1. Reached(f, w, k, c[k - 1], d, path)
            BY <4>3, Zenon DEF k, w
          <5> QED
            BY <1>1, <2>3, <4>2, <4>6, <4>9, <4>10, <5>1, ReachedEmpty, Zenon
        <4>12. (k + 1) - 1 = k
          BY <2>3, SMT
        <4> QED
          BY <4>3, <4>4, <4>11, <4>12, Zenon
      <3>2. CASE g # AnyDepth
        <4>1. ends[d + (i + 1)] = {j \in 1 .. Len(path) : j - 1 \in ends[d + i] /\ StandsFor(g, path[j])}
          BY <1>5, <2>1, <2>2, <3>2, Zenon DEF EndsOf
        <4>2. e \in 1 .. Len(path) /\ e - 1 \in ends[d + i] /\ StandsFor(g, path[e])
          BY <2>6, <4>1, Zenon
        <4>3. d \in ends[d] /\ R(i, e - 1)
          BY <2>5, <4>2, Zenon
        <4>4. K(i + 1) = k /\ a[i + 1][k] = Append(w, g)
          <5>1. Extended(a[i], a[i + 1], g)
            BY <2>2, CutExtends, Zenon
          <5> QED
            BY <3>2, <5>1, Zenon DEF Extended
        <4>5. g \in Glob /\ c[k - 1] \in Nat
          <5>1. k - 1 \in 0 .. Len(pv)
            BY <2>3, SMT
          <5>2. c[k - 1] \in 0 .. Len(parts)
            BY <1>4, <5>1, Zenon
          <5> QED
            BY <1>1, <2>2, <3>2, <5>2, SMT
        <4> HIDE DEF g, w, k
        <4>6. Reached(e, Append(w, g), k, c[k - 1], d, path)
          <5>1. Reached(e - 1, w, k, c[k - 1], d, path)
            BY <4>3, Zenon DEF k, w
          <5>2. e \in Nat
            BY <1>1, <4>2, SMT
          <5> QED
            BY <1>1, <2>3, <4>2, <4>5, <5>1, <5>2, ReachedAppend, Zenon
        <4> QED
          BY <4>3, <4>4, <4>6, Zenon DEF k, g, w
      <3> QED
        BY <3>1, <3>2, Zenon
    <2> QED
      BY <2>1, <2>6, Zenon
  <1> HIDE DEF N
  <1>8. 0 .. m \subseteq N
    BY <1>1, <1>6, <1>7, UpToInduction, Zenon
  <1>9. m \in 0 .. m /\ d + m = Len(pattern)
    BY <1>1, SMT
  <1> QED
    BY <1>8, <1>9, Zenon DEF N, m

\* Where parse ends the directory of a pattern
Shape(pattern, d) ==
    /\ d \in 0 .. Len(pattern)
    /\ parse(pattern).dir = SubSeq(pattern, 1, d)
    /\ parse(pattern).parsedValues = splitRecursive(SubSeq(pattern, d + 1, Len(pattern)))
    /\ \A i \in 1 .. d : pattern[i] \in Plain
    /\ IsDirectory(pattern) => d = Len(pattern)

\* parseFilePattern splits a pattern where its first wildcard is: the directory has none.
LEMMA ParseShape ==
    ASSUME NEW pattern \in Seq(Glob \cup {AnyDepth})
    PROVE  \E d : Shape(pattern, d)
  <1> DEFINE n == Len(pattern)
             starts(i) == \/ i = Len(pattern) /\ pattern[i] \in Dotted
                          \/ pattern[i] \notin Plain
             T == {i \in DOMAIN pattern : starts(i)}
             first == IF \E i \in DOMAIN pattern : starts(i)
                      THEN CHOOSE i \in DOMAIN pattern : starts(i) /\ \A j \in 1 .. i - 1 : ~starts(j)
                      ELSE Len(pattern) + 1
  <1>1. n \in Nat /\ DOMAIN pattern = 1 .. n
    BY SMT
  <1>2. /\ parse(pattern).dir = SubSeq(pattern, 1, first - 1)
        /\ parse(pattern).parsedValues = splitRecursive(SubSeq(pattern, first, Len(pattern)))
    BY Zenon DEF parse
  <1>3. first \in 1 .. n + 1 /\ \A j \in 1 .. first - 1 : j \in DOMAIN pattern /\ ~starts(j)
    <2>1. CASE T = {}
      <3>1. first = n + 1
        BY <2>1, Zenon
      <3>2. \A j \in 1 .. n : ~starts(j)
        BY <1>1, <2>1, Zenon
      <3>3. n + 1 \in 1 .. n + 1 /\ (n + 1) - 1 = n
        BY <1>1, SMT
      <3> HIDE DEF first, n, starts
      <3> QED
        BY <1>1, <3>1, <3>2, <3>3, Zenon
    <2>2. CASE T # {}
      <3>1. T \in SUBSET Nat
        BY <1>1, SMT
      <3>2. PICK i \in T : \A j \in T : i <= j
        <4> HIDE DEF T
        <4> QED
          BY <2>2, <3>1, LeastNat, Zenon
      <3>3. i \in DOMAIN pattern /\ starts(i)
        BY <3>2, Zenon
      <3>4. \A j \in 1 .. i - 1 : ~starts(j)
        <4> HIDE DEF starts
        <4> QED
          BY <1>1, <3>2, <3>3, SMT
      <3>5. first \in DOMAIN pattern /\ starts(first) /\ \A j \in 1 .. first - 1 : ~starts(j)
        <4> HIDE DEF starts
        <4> QED
          BY <3>3, <3>4, Zenon
      <3> HIDE DEF first, starts
      <3> QED
        BY <1>1, <3>5, SMT
    <2> QED
      BY <2>1, <2>2, Zenon
  <1>4. IsDirectory(pattern) => first = n + 1
    BY Zenon DEF IsDirectory
  <1> HIDE DEF first
  <1>5. first - 1 \in 0 .. n /\ (first - 1) + 1 = first /\ (first = n + 1 => first - 1 = n)
    <2>1. first \in 1 .. n + 1
      BY <1>3, Zenon
    <2> HIDE DEF n
    <2> QED
      BY <1>1, <2>1, SMT
  <1>6. \A i \in 1 .. first - 1 : pattern[i] \in Plain
    BY <1>3, Zenon
  <1>7. Shape(pattern, first - 1)
    BY <1>2, <1>4, <1>5, <1>6, Zenon DEF Shape
  <1> QED
    BY <1>7, Zenon

\* The path below the watched directory, as one empty segment if there is nothing.
LEMMA RestIs ==
    ASSUME NEW Segment, NEW blank, NEW path \in Seq(Segment), NEW d \in Nat, NEW parts,
           parts = IF SubSeq(path, d + 1, Len(path)) = <<>> THEN <<blank>> ELSE SubSeq(path, d + 1, Len(path))
    PROVE  parts \in Seq(Segment \cup {blank}) /\ parts # <<>> /\ RestOf(parts, path, d)
  <1> DEFINE rest == SubSeq(path, d + 1, Len(path))
  <1>1. Len(path) \in Nat
    BY SMT
  <1>2. /\ Len(path) > d => /\ rest \in Seq(Segment) /\ Len(rest) = Len(path) - d
                            /\ \A x \in 1 .. Len(rest) : rest[x] = path[d + x]
        /\ Len(path) <= d => rest = <<>>
    BY <1>1, SMT
  <1> HIDE DEF rest
  <1>3. CASE Len(path) > d
    <2>1. rest # <<>>
      BY <1>1, <1>2, <1>3, SMT
    <2>2. parts = rest
      BY <2>1, Zenon DEF rest
    <2> QED
      BY <1>1, <1>2, <1>3, <2>2, SMT DEF RestOf
  <1>4. CASE ~(Len(path) > d)
    <2>1. rest = <<>>
      BY <1>1, <1>2, <1>4, SMT
    <2>2. parts = <<blank>>
      BY <2>1, Zenon DEF rest
    <2>3. <<blank>> \in Seq(Segment \cup {blank}) /\ <<blank>> # <<>> /\ Len(<<blank>>) = 1 /\ 1 \in Nat /\ 1 >= 1
      BY SMT
    <2> QED
      BY <1>4, <2>2, <2>3, Zenon DEF RestOf
  <1> QED
    BY <1>3, <1>4, Zenon

\* The last part is found at the end of the path.
LEMMA LastIsFound ==
    ASSUME NEW Segment, NEW path \in Seq(Segment), NEW Part, NEW parts \in Seq(Part), NEW d \in Nat, RestOf(parts, path, d),
           NEW pv \in Parts, NEW cursor \in 0 .. Len(parts),
           Reached(Len(path), pv[Len(pv)], Len(pv), cursor, d, path)
    PROVE  move(cursor, Len(pv), pv, parts) # 0
  <1>1. Len(pv) \in 1 .. Len(pv) /\ Len(path) \in 0 .. Len(path)
    BY SMT DEF Parts
  <1> QED
    BY <1>1, CursorFollows, Zenon

\* A pattern that denotes a path matches it.
LEMMA DenotedIsValid ==
    ASSUME PlainAssumption, NEW Segment, NEW pattern \in Seq(Glob \cup {AnyDepth}), NEW path \in Seq(Segment),
           path # <<>>, Denotes(pattern, path)
    PROVE  isValidPattern(pattern, path)
  <1>1. PICK d : Shape(pattern, d)
    BY ParseShape, Zenon
  <1> DEFINE n == Len(pattern)
             L == Len(path)
             q == SubSeq(pattern, d + 1, Len(pattern))
             rest == SubSeq(path, d + 1, Len(path))
             parts == IF rest = <<>> THEN <<"">> ELSE rest
             Part == Segment \cup {""}
  <1>2. /\ d \in 0 .. n /\ parse(pattern).dir = SubSeq(pattern, 1, d)
        /\ parse(pattern).parsedValues = splitRecursive(q)
        /\ \A i \in 1 .. d : pattern[i] \in Plain
    BY <1>1, Zenon DEF Shape
  <1>3. d \in Nat /\ n \in Nat /\ L \in Nat
    BY <1>2, SMT
  <1>4. q \in Seq(Glob \cup {AnyDepth}) /\ Len(q) = n - d /\ \A i \in 1 .. Len(q) : q[i] = pattern[d + i]
    BY <1>2, SMT
  <1>5. parts \in Seq(Part) /\ parts # <<>> /\ RestOf(parts, path, d)
    <2> HIDE DEF parts
    <2>1. parts = IF SubSeq(path, d + 1, Len(path)) = <<>> THEN <<"">> ELSE SubSeq(path, d + 1, Len(path))
      BY Zenon DEF parts, rest
    <2> QED
      BY <1>3, <2>1, RestIs, Zenon
  <1>6. isValidPattern(pattern, path) <=>
           /\ HasPrefix(path, SubSeq(pattern, 1, d))
           /\ IF Len(splitRecursive(q)) = 1 THEN matchCurlyBracePattern(splitRecursive(q)[1], parts)
              ELSE matchPatterns(splitRecursive(q), parts)
    <2>1. Len(SubSeq(pattern, 1, d)) = d
      BY <1>2, SMT
    <2> QED
      BY <1>2, <2>1, Zenon DEF isValidPattern
  <1> HIDE DEF q, parts, Part
  <1>7. PICK ends : EndsOf(ends, pattern, path) /\ (Denotes(pattern, path) <=> L \in ends[n])
    BY DenotesRuns, Zenon
  <1>8. PICK a : SplitOf(a, q) /\ splitRecursive(q) = a[Len(q)]
    BY <1>4, SplitRuns, Zenon
  <1> DEFINE m == Len(q)
             pv == a[m]
             M == Len(pv)
  <1>9. m \in 0 .. m /\ pv \in Parts /\ M \in Nat /\ M >= 1 /\ m \in Nat
    <2>1. m \in 0 .. m /\ m \in Nat
      BY <1>4, SMT
    <2>2. pv \in Parts
      BY <1>8, <2>1, Zenon DEF SplitOf
    <2> HIDE DEF pv
    <2> QED
      BY <2>1, <2>2, SMT DEF Parts
  <1>10. PICK c : MoveOf(c, pv, parts) /\ (matchPatterns(pv, parts) <=> c[M] # 0)
    BY <1>5, <1>9, MoveRuns, Zenon
  <1>11. \A e \in ends[d] : e = d /\ \A x \in 1 .. d : path[x] = pattern[x]
    BY <1>2, <1>7, DirPrefix, SMT
  <1>12. Searched(pattern, path, ends, d, q, a, parts, c)
    BY <1>4, <1>5, <1>7, <1>8, <1>10, <1>11, Zenon DEF Searched
  <1>13. L \in ends[n]
    BY <1>7, Zenon
  <1>14. d \in ends[d] /\ Reached(L, pv[M], M, c[M - 1], d, path)
    <2>1. \A e \in ends[Len(pattern)] :
              /\ d \in ends[d]
              /\ Reached(e, a[Len(q)][Len(a[Len(q)])], Len(a[Len(q)]), c[Len(a[Len(q)]) - 1], d, path)
      BY <1>2, <1>4, <1>5, <1>12, PartsReached, Zenon
    <2> QED
      BY <1>13, <2>1, Zenon
  <1>15. d \in 0 .. L /\ \A x \in 1 .. d : path[x] = pattern[x]
    <2>1. ends[d] \subseteq 0 .. L
      BY <1>2, <1>7, Zenon DEF EndsOf
    <2> QED
      BY <1>11, <1>14, <2>1, Zenon
  <1>16. HasPrefix(path, SubSeq(pattern, 1, d))
    <2>1. Len(SubSeq(pattern, 1, d)) = d
      BY <1>2, SMT
    <2>2. SubSeq(path, 1, d) = SubSeq(pattern, 1, d)
      BY <1>2, <1>15, SMT
    <2>3. d <= L
      BY <1>3, <1>15, SMT
    <2> QED
      BY <2>1, <2>2, <2>3, Zenon DEF HasPrefix
  <1>17. CASE M = 1
    <2> DEFINE w == pv[M]
    <2>1. w \in Seq(Glob) /\ Len(w) \in Nat
      <3>1. w \in Seq(Glob)
        BY <1>9, SMT DEF Parts
      <3> QED
        BY <3>1, SMT
    <2> HIDE DEF w
    <2>2. L = d + Len(w) /\ \A x \in 1 .. Len(w) : StandsFor(w[x], path[L - Len(w) + x])
      BY <1>14, <1>17, Zenon DEF Reached, w
    <2>3. matchCurlyBracePattern(w, parts)
      <3>1. CASE w = <<>>
        BY <3>1, EmptyPart, Zenon
      <3>2. CASE w # <<>>
        <4>1. Len(w) >= 1
          BY <2>1, <3>2, SMT
        <4>2. L > d /\ L - d = Len(w) /\ \A x \in 1 .. Len(w) : L - Len(w) + x = d + x
          BY <1>3, <2>1, <2>2, <4>1, SMT
        <4>3. Len(parts) = Len(w) /\ \A x \in 1 .. Len(w) : parts[x] = path[d + x]
          BY <1>5, <4>2, Zenon DEF RestOf
        <4>4. \A x \in 1 .. Len(w) : StandsFor(w[x], parts[x])
          <5>1. ASSUME NEW x \in 1 .. Len(w) PROVE parts[x] = path[L - Len(w) + x]
            BY <4>2, <4>3, Zenon
          <5> QED
            BY <2>2, <5>1, Zenon
        <4> QED
          BY <1>5, <2>1, <4>3, <4>4, PartMatches, Zenon
      <3> QED
        BY <3>1, <3>2, Zenon
    <2> QED
      BY <1>6, <1>8, <1>16, <1>17, <2>3, Zenon DEF w
  <1>18. CASE M # 1
    <2>1. M - 1 \in 0 .. M /\ M \in 1 .. M /\ L \in 0 .. L
      BY <1>3, <1>9, SMT
    <2>2. c[M - 1] \in 0 .. Len(parts) /\ c[M] = move(c[M - 1], M, pv, parts)
      BY <1>10, <2>1, Zenon DEF MoveOf
    <2>3. move(c[M - 1], M, pv, parts) # 0
      <3> HIDE DEF pv
      <3> QED
        BY <1>3, <1>5, <1>9, <1>14, <2>2, LastIsFound, Zenon
    <2> QED
      BY <1>6, <1>8, <1>10, <1>16, <1>18, <2>2, <2>3, Zenon
  <1> QED
    BY <1>17, <1>18, Zenon

\* A pattern that is a directory matches every path below it.
LEMMA BelowIsValid ==
    ASSUME NEW Segment, NEW pattern \in Seq(Glob \cup {AnyDepth}), NEW path \in Seq(Segment),
           path # <<>>, IsDirectory(pattern), HasPrefix(path, pattern)
    PROVE  isValidPattern(pattern, path)
  <1>1. PICK d : Shape(pattern, d)
    BY ParseShape, Zenon
  <1> DEFINE q == SubSeq(pattern, d + 1, Len(pattern))
  <1>2. /\ d = Len(pattern) /\ parse(pattern).dir = SubSeq(pattern, 1, d)
        /\ parse(pattern).parsedValues = splitRecursive(q)
    BY <1>1, Zenon DEF Shape
  <1>3. SubSeq(pattern, 1, d) = pattern /\ q = <<>> /\ q \in Seq(Glob \cup {AnyDepth}) /\ Len(q) = 0
    BY <1>2, SMT
  <1>4. PICK a : SplitOf(a, q) /\ splitRecursive(q) = a[Len(q)]
    <2> HIDE DEF q
    <2> QED
      BY <1>3, SplitRuns, Zenon
  <1>5. splitRecursive(q) = << <<>> >>
    BY <1>3, <1>4, Zenon DEF SplitOf
  <1>6. Len(<< <<>> >>) = 1 /\ << <<>> >>[1] = <<>>
    BY SMT
  <1> HIDE DEF q
  <1>7. HasPrefix(path, parse(pattern).dir) /\ Len(parse(pattern).parsedValues) = 1
    BY <1>2, <1>3, <1>5, <1>6, Zenon
  <1>8. \A parts : matchCurlyBracePattern(parse(pattern).parsedValues[1], parts)
    BY <1>2, <1>5, <1>6, EmptyPart, Zenon
  <1> QED
    BY <1>7, <1>8, Zenon DEF isValidPattern

\* An event about a file reloads the workers if its pattern is about its path, for all
\* patterns and paths: allowReload misses no change.
THEOREM NoChangeIsMissed ==
    ASSUME PlainAssumption, NEW Segment, NEW pattern \in Seq(Glob \cup {AnyDepth}), NEW event,
           event.PathName \in Seq(Segment), event.AssociatedPathName \in Seq(Segment)
    PROVE  NoChangeMissed(pattern, event)
  <1>1. ASSUME NEW path \in Seq(Segment), path # <<>>,
               Denotes(pattern, path) \/ (IsDirectory(pattern) /\ pattern # path /\ HasPrefix(path, pattern))
        PROVE  isValidPattern(pattern, path)
    BY <1>1, DenotedIsValid, BelowIsValid, Zenon
  <1> QED
    BY <1>1, Zenon DEF NoChangeMissed, allowReload, isValidEvent

\* The same for the inputs of the state machine: WatchComplete holds.
THEOREM WatchIsComplete ==
    ASSUME PlainAssumption, NEW Segment,
           input.kind = "watch" => input.pattern \in Seq(Glob \cup {AnyDepth}),
           \A e \in Events : e.PathName \in Seq(Segment) /\ e.AssociatedPathName \in Seq(Segment)
    PROVE  WatchComplete
  BY NoChangeIsMissed, Zenon DEF WatchComplete
=============================================================================
