---------------------------- MODULE Declarations ----------------------------
(***************************************************************************)
(* The declarations of a configuration: how the Caddyfile's workers become *)
(* the options of Init (caddy/app.go, caddy/module.go), what Validate      *)
(* refuses, and what Init itself refuses (frankenphp.go, worker.go).       *)
(*                                                                         *)
(* A path is a value of Path; Resolve follows its symbolic links and       *)
(* OnDisk tells which exist; "" is the empty path, which resolves to the   *)
(* working directory.  A name is a sequence of tokens: a path or a word,   *)
(* qualified with a server it is <<server, ":">> before it, and numbered it *)
(* has <<"_", number>> after it.  A server is its position among the       *)
(* modules, 0 for the global workers.                                      *)
(***************************************************************************)
EXTENDS Input, Budget, Sequences, FiniteSetsExt

CONSTANTS
    Path,      \* file names
    Resolve,   \* EvalSymlinks, from Path to Path
    OnDisk,    \* the paths whose file exists
    Suffix     \* bound: the numbers put after a name, a sequence of tokens

NoServer == 0

\* A resolved path is not a symbolic link: it resolves to itself.
ASSUME ResolveAssumption ==
    /\ Resolve \in [Path -> Path]
    /\ \A p \in Path : Resolve[Resolve[p]] = Resolve[p]
    /\ \A p \in Path : p \in OnDisk <=> Resolve[p] \in OnDisk
-----------------------------------------------------------------------------
(* Init's side: options, Validate, initWorkers *)

\* calculateMaxThreads, for a worker of the options; w.num is 0 or less where it is
\* left out (the slice gets the default, the copy that is compared keeps its value)
countWorker(acc, w, maxThreads, maxProcs) ==
    IF \/ ~acc.ok
       \/ w.maxThreads > 0 /\ (w.maxThreads < w.num \/ (maxThreads > 0 /\ w.maxThreads > maxThreads))
    THEN [acc EXCEPT !.ok = FALSE]
    ELSE [acc EXCEPT !.numWorkers = @ + IF w.num <= 0 THEN maxProcs ELSE w.num,
                     !.fromWorkers = IF w.maxThreads > 0 THEN @ + w.maxThreads - w.num ELSE @]

\* calculateMaxThreads
calculateMaxThreads(opt, maxProcs) ==
    LET counted[i \in 0 .. Len(opt.workers)] ==
            IF i = 0 THEN [ok |-> TRUE, numWorkers |-> 0, fromWorkers |-> 0]
            ELSE countWorker(counted[i - 1], opt.workers[i], opt.maxThreads, maxProcs)
        sums == counted[Len(opt.workers)]
    IN  [numWorkers |-> sums.numWorkers, fromWorkers |-> sums.fromWorkers,
         budget |-> IF ~sums.ok THEN Refuse
                    ELSE Budget(opt.numThreads, opt.maxThreads, sums.numWorkers, sums.fromWorkers, maxProcs)]

\* resolveWorkerFile, of a file that exists
resolveWorkerFile(o) ==
    [o EXCEPT !.declared = o.file, !.file = Resolve[o.file],
              !.name = IF @ = <<>> THEN <<Resolve[o.file]>> ELSE @]

\* checkWorkerDeclaration: paths holds pairs of a server and a path
checkWorkerDeclaration(o, names, paths) ==
    /\ IF o.server = NoServer THEN <<NoServer, o.file>> \notin paths /\ ~o.match
       ELSE o.match \/ <<o.server, o.file>> \notin paths
    /\ o.name \notin names

\* Validate, for a worker: the names and the paths that are taken so far
validateWorker(acc, w) ==
    IF ~acc.ok \/ w.file \notin OnDisk THEN [acc EXCEPT !.ok = FALSE]
    ELSE LET o == resolveWorkerFile(w)
         IN  [ok    |-> checkWorkerDeclaration(o, acc.names, acc.paths),
              names |-> acc.names \cup {o.name},
              paths |-> IF o.match THEN acc.paths ELSE acc.paths \cup {<<o.server, o.file>>}]

Validate(workers) ==
    LET taken[i \in 0 .. Len(workers)] == IF i = 0 THEN [ok |-> TRUE, names |-> {}, paths |-> {}]
                                          ELSE validateWorker(taken[i - 1], workers[i])
    IN  taken[Len(workers)].ok

\* Server.addWorker: the map from paths to workers, as a set of paths; the
\* declared path leads to the worker too
addWorker(s, byPath, o) == byPath \cup {<<s, o.file>>, <<s, o.declared>>}

\* Mutated form: the path of a worker with a matcher is taken as well.
newWorkerMatched(acc, w) ==
    IF ~acc.ok \/ w.file \notin OnDisk THEN [acc EXCEPT !.ok = FALSE]
    ELSE LET o == resolveWorkerFile(w)
         IN  [ok     |-> checkWorkerDeclaration(o, acc.byName, acc.byPath),
              byName |-> acc.byName \cup {o.name},
              byPath |-> addWorker(o.server, acc.byPath, o)]

\* newWorker, and where initWorkers registers the worker: workersByName,
\* globalWorkersByPath and the server's workersByPath
newWorker(acc, w) ==
    IF ~acc.ok \/ w.file \notin OnDisk THEN [acc EXCEPT !.ok = FALSE]
    ELSE LET o == resolveWorkerFile(w)
         IN  [ok     |-> checkWorkerDeclaration(o, acc.byName, acc.byPath),
              byName |-> acc.byName \cup {o.name},
              byPath |-> IF o.match THEN acc.byPath ELSE addWorker(o.server, acc.byPath, o)]

\* initWorkers: newWorker for each
newWorkers(workers) ==
    LET registered[i \in 0 .. Len(workers)] == IF i = 0 THEN [ok |-> TRUE, byName |-> {}, byPath |-> {}]
                                               ELSE newWorker(registered[i - 1], workers[i])
    IN  registered[Len(workers)]
-----------------------------------------------------------------------------
(* The Caddyfile's side *)

\* FrankenPHPApp.UnmarshalCaddyfile: no matcher and no file twice in the global block
parseApp(workers) ==
    \A i \in 1 .. Len(workers) :
        ~workers[i].match /\ \A j \in 1 .. i - 1 : workers[i].file # workers[j].file

\* FrankenPHPModule.UnmarshalCaddyfile: no file that an earlier worker without a
\* matcher declared
parseModule(workers) ==
    \A i \in 1 .. Len(workers) : \A j \in 1 .. i - 1 :
        workers[i].file # workers[j].file \/ workers[j].match

\* FrankenPHPModule.Provision, when the root has no placeholder and its symbolic
\* links are resolved: so are those of the worker files, and the error of a file
\* that does not exist is dropped together with its name
Provision(module) ==
    LET resolved(file) == IF ~module.resolveRoot THEN file ELSE IF file \in OnDisk THEN Resolve[file] ELSE ""
    IN  [module EXCEPT !.workers =
            [i \in DOMAIN module.workers |-> [module.workers[i] EXCEPT !.file = resolved(module.workers[i].file)]]]

\* Mutated form: the name qualified with the server is taken unseen.
createUniqueWorkerNameOnce(used, wc, serverName) ==
    LET name == IF wc.name = <<>> THEN <<wc.file>> ELSE wc.name
        candidates == <<name>> \o [k \in DOMAIN Suffix |-> name \o <<"_", Suffix[k]>>]
    IN  IF name \in used /\ serverName # "" THEN <<serverName, ":">> \o name
        ELSE candidates[Min({k \in DOMAIN candidates : candidates[k] \notin used})]

\* createUniqueWorkerName: the name, the name qualified with the server, and then
\* the name with the first number that makes it new
createUniqueWorkerName(used, wc, serverName) ==
    LET name == IF wc.name = <<>> THEN <<wc.file>> ELSE wc.name
        qualified == IF serverName = "" THEN <<>> ELSE << <<serverName, ":">> \o name >>
        numbered == [k \in DOMAIN Suffix |-> name \o <<"_", Suffix[k]>>]
        candidates == <<name>> \o qualified \o numbered
    IN  candidates[Min({k \in DOMAIN candidates : candidates[k] \notin used})]

\* toWorkerOptions: what the configuration of a worker adds to its options; the
\* other settings are left out
toWorkerOptions(wc) == [match |-> wc.match]

\* WithWorkers, with those options and the scope of the server
WithWorkers(name, wc, server) ==
    [name |-> name, file |-> wc.file, declared |-> wc.file, server |-> server,
     match |-> toWorkerOptions(wc).match]

\* The options of a worker are put after those in acc
collectWorker(acc, wc, server, serverName) ==
    LET name == createUniqueWorkerName(acc.used, wc, serverName)
    IN  [acc EXCEPT !.used = @ \cup {name}, !.opts = Append(@, WithWorkers(name, wc, server))]

\* The options of a list of workers
collectWorkers(acc, workers, server, serverName) ==
    LET collected[i \in 0 .. Len(workers)] ==
            IF i = 0 THEN acc ELSE collectWorker(collected[i - 1], workers[i], server, serverName)
    IN  collected[Len(workers)]

\* collectModule: a server of its own, and the workers in its scope
collectModule(acc, module, i) ==
    [collectWorkers(acc, module.workers, i, module.name) EXCEPT !.server[i] = i]

\* collectModuleOptions, for a module: one with the index of an earlier one shares
\* its server and adds no workers
collectServer(acc, i, modules) ==
    LET first == Min({j \in DOMAIN modules : modules[j].index = modules[i].index})
    IN  IF modules[i].index # 0 /\ first < i THEN [acc EXCEPT !.server[i] = first]
        ELSE collectModule(acc, modules[i], i)

\* collectModuleOptions: the modules in the order of the configuration
collectModuleOptions(acc, modules) ==
    LET collected[i \in 0 .. Len(modules)] ==
            IF i = 0 THEN acc ELSE collectServer(collected[i - 1], i, modules)
    IN  collected[Len(modules)]

\* collectOptions: the global workers, then the modules
collectOptions(config) ==
    LET none == [used |-> {}, opts |-> <<>>, server |-> [i \in DOMAIN config.modules |-> NoServer]]
    IN  collectModuleOptions(collectWorkers(none, config.workers, NoServer, ""),
                             [i \in DOMAIN config.modules |-> Provision(config.modules[i])])
-----------------------------------------------------------------------------
(* What the two sides promise of each other *)

\* Validate and Init answer the same way: what Validate accepts on a reload, while
\* the old configuration still runs, Init does not refuse once that is gone
\* ("Validate reports whether Init() would accept a configuration").
SameAnswer(workers) == Validate(workers) <=> newWorkers(workers).ok

\* A Caddyfile that both parsers accept, whose files exist and are not each other's
\* symbolic links within a block, is accepted by Validate: the names that
\* createUniqueWorkerName makes up never collide, between blocks or with a name
\* that is configured.
ParsedIsAccepted(config) ==
    LET blocks == {config.workers} \cup {config.modules[i].workers : i \in DOMAIN config.modules}
        distinct(b) == \A i, j \in DOMAIN b : Resolve[b[i].file] = Resolve[b[j].file] => b[i].file = b[j].file
    IN  /\ parseApp(config.workers)
        /\ \A i \in DOMAIN config.modules : parseModule(config.modules[i].workers)
        /\ \A b \in blocks : distinct(b) /\ \A i \in DOMAIN b : b[i].file \in OnDisk
        => Validate(collectOptions(config).opts)

\* The handlers that one php_server directive adds to the routes share a server,
\* handlers of different directives do not, and the workers of a server are the
\* ones its directive declares, once each.
ServersShared(config) ==
    LET collected == collectOptions(config)
        declared(i) == config.modules[i].workers
    IN  \A i, j \in DOMAIN config.modules :
          /\ collected.server[i] = collected.server[j]
               <=> i = j \/ (config.modules[i].index = config.modules[j].index /\ config.modules[i].index # 0)
          /\ Cardinality({k \in DOMAIN collected.opts : collected.opts[k].server = collected.server[i]})
               = Len(declared(i))
-----------------------------------------------------------------------------
(* What holds of every input *)

\* Validate accepts the workers that Init accepts, and no others: SameAnswer of
\* frankenphp.Validate and initWorkers.
ValidateAgrees == input.kind = "workers" => SameAnswer(input.workers)

\* Every Caddyfile that is parsed and whose files exist passes Validate
\* (ParsedIsAccepted of collectOptions and createUniqueWorkerName), and the handlers
\* of a php_server directive share its server (ServersShared of
\* collectModuleOptions).
CaddyfileKept == input.kind = "config" => ParsedIsAccepted(input.config) /\ ServersShared(input.config)

\* The thread budget that calculateMaxThreads makes of the options and of their
\* workers is sound, with one or several CPUs and whatever the memory.
BudgetSound ==
    input.kind = "budget" =>
        \A maxProcs \in {1, 4}, memory \in {0, 1, 6} :
            LET c == calculateMaxThreads(input.opt, maxProcs)
            IN  c.budget.ok => SoundBudget(input.opt.numThreads, input.opt.maxThreads, c.numWorkers,
                                           c.fromWorkers, maxProcs, memory)
=============================================================================
