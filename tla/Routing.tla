------------------------------- MODULE Routing -------------------------------
(***************************************************************************)
(* From a URL to a script: the routes that php_server and the php-server   *)
(* command set up (caddy/module.go, caddy/php-server.go), and the script,  *)
(* the path info and the worker that a request which reaches the php       *)
(* handler gets (context.go, cgi.go).                                      *)
(*                                                                         *)
(* A path is the sequence of its segments, what its slashes separate: the  *)
(* last one is "" when the path ends with a slash.  Ext gives the          *)
(* extension of a segment in lower case.  A file system is a set of        *)
(* regular files, paths from the document root.  Caddy's matchers and      *)
(* handlers are external.                                                  *)
(***************************************************************************)
EXTENDS Input, Integers, Sequences, FiniteSetsExt

CONSTANTS
    Ext,          \* from segments to their extensions
    Index,        \* the segment index.php
    Root,         \* the document root, a path
    RouteConfigs  \* the options of php_server and of the php-server command

\* The segments that start with a dot
HasDot(seg) == seg \in {".", ".."}
-----------------------------------------------------------------------------
(* cgi.go *)

\* path.Clean, for a segment of a rooted path
cleanSegment(acc, seg) == IF seg \in {"", "."} THEN acc
                          ELSE IF seg # ".." THEN Append(acc, seg)
                          ELSE SubSeq(acc, 1, Len(acc) - 1)

\* path.Clean, of a rooted path
Clean(path) ==
    LET cleaned[i \in 0 .. Len(path)] == IF i = 0 THEN <<>> ELSE cleanSegment(cleaned[i - 1], path[i])
    IN  cleaned[Len(path)]

\* cleanRequestPath, not on Windows: a path without dot segments is left alone
cleanRequestPath(path) ==
    IF \A i \in DOMAIN path : ~HasDot(path[i]) THEN path
    ELSE LET cleaned == Clean(path)
         IN  IF cleaned = <<>> \/ path[Len(path)] = "" THEN Append(cleaned, "") ELSE cleaned

\* Mutated form: the position after the last segment with the extension.
splitPosLast(path, splitPath) ==
    LET ends(ext) == {i \in DOMAIN path : Ext[path[i]] = ext}
        found == {k \in DOMAIN splitPath : ends(splitPath[k]) # {}}
    IN  IF found = {} THEN 0 ELSE Max(ends(splitPath[Min(found)]))

\* splitPos: the number of segments up to the first that ends with the first of the
\* extensions that any segment ends with; 0 stands for -1
splitPos(path, splitPath) ==
    LET ends(ext) == {i \in DOMAIN path : Ext[path[i]] = ext}
        found == {k \in DOMAIN splitPath : ends(splitPath[k]) # {}}
    IN  IF found = {} THEN 0 ELSE Min(ends(splitPath[Min(found)]))

\* sanitizedPathJoin, of a script name
sanitizedPathJoin(root, path) == root \o Clean(path)

\* splitCgiPath: the script of a worker that is assigned, or else of the path.
\* byPath holds the files of the workers of the server and the global ones; no
\* worker is <<>>.
splitCgiPath(urlPath, splitPath, worker, byPath) ==
    LET path == cleanRequestPath(urlPath)
        pos == splitPos(path, splitPath)
        script == SubSeq(path, 1, pos)
        rest == IF pos = 0 THEN <<>> ELSE SubSeq(path, pos + 1, Len(path))
        inRoot == Len(Root) < Len(worker) /\ SubSeq(worker, 1, Len(Root)) = Root
        file == sanitizedPathJoin(Root, script)
    IN  IF worker # <<>>
        THEN [ok |-> TRUE, docURI |-> IF inRoot THEN script ELSE <<>>,
              pathInfo |-> IF inRoot THEN rest ELSE <<>>,
              scriptName |-> IF inRoot THEN SubSeq(worker, Len(Root) + 1, Len(worker)) ELSE <<>>,
              scriptFilename |-> worker, worker |-> worker]
        ELSE [ok |-> pos # 0, docURI |-> script, pathInfo |-> rest, scriptName |-> script,
              scriptFilename |-> file, worker |-> IF file \in byPath THEN file ELSE <<>>]

\* The path as Caddy's path matchers see it, dot segments resolved.  External.
CleanPath(path) ==
    LET cleaned == Clean(path)
    IN  IF cleaned = <<>> \/ path[Len(path)] = "" THEN Append(cleaned, "") ELSE cleaned

\* The request matcher of a worker: the paths below a segment.  External.
MatchPath(match, cleaned) == Len(cleaned) > 1 /\ cleaned[1] = match

\* The first of the workers whose matcher accepts the path; <<>> for none
matchRequest(workers, cleaned) ==
    LET accepting == {i \in DOMAIN workers : MatchPath(workers[i].match, cleaned)}
    IN  IF accepting = {} THEN <<>> ELSE workers[Min(accepting)].file

\* newContextFromRequest: the worker with a matcher for the request, or none
newContextFromRequest(path, splitPath, workers, byPath) ==
    splitCgiPath(path, splitPath, matchRequest(workers, CleanPath(path)), byPath)
-----------------------------------------------------------------------------
(* The routes *)

\* The pattern list "*.ext", "*.ext/*" for each extension.  External.
MatchExtensions(exts, cleaned) == \E i \in DOMAIN cleaned : Ext[cleaned[i]] \in Range(exts)

\* The file that a try_files entry stands for.  External.
TryFile(entry, cleaned) ==
    IF entry = "index" THEN <<Index>> ELSE cleaned \o (IF entry = "path" THEN <<>> ELSE <<Index>>)

\* Where try_files splits a file, at the end if no extension is in it.  External.
FirstSplit(file, exts) ==
    LET with == {i \in DOMAIN exts : \E j \in DOMAIN file : Ext[file[j]] = exts[i]}
        end == IF with = {} THEN Len(file) ELSE Min({j \in DOMAIN file : Ext[file[j]] = exts[Min(with)]})
    IN  [relative |-> SubSeq(file, 1, end), remainder |-> SubSeq(file, end + 1, Len(file))]

\* MatchFile: the first of the entries that is a regular file up to its split, as a
\* sequence of one file or none.  External.
MatchFile(entries, exts, cleaned, fs) ==
    LET tried == [i \in DOMAIN entries |-> FirstSplit(TryFile(entries[i], cleaned), exts)]
        hits == {i \in DOMAIN tried : tried[i].relative \in fs}
    IN  IF hits = {} THEN <<>> ELSE <<tried[Min(hits)]>>

Route(handler, tryFiles) == [handler |-> handler, tryFiles |-> tryFiles]

\* prependWorkerRoutes: the files that exist, then the paths of the matchers
prependWorkerRoutes(cfg) ==
    IF cfg.workers = <<>> THEN <<>>
    ELSE (IF cfg.fileServer THEN <<Route("existing", <<"path">>)>> ELSE <<>>)
         \o <<Route("worker", <<>>)>>

\* Mutated form: the file server gets whatever the php route leaves.
parsePhpServerOpen(cfg) ==
    LET rewrites == <<Route("redirect", <<"dirIndex">>), Route("rewrite", <<"path", "dirIndex", "index">>)>>
    IN  prependWorkerRoutes(cfg) \o (IF cfg.index THEN rewrites ELSE <<>>)
        \o <<Route("php", <<>>)>> \o (IF cfg.fileServer THEN <<Route("anyFile", <<>>)>> ELSE <<>>)

\* parsePhpServer: the routes of a php_server directive
parsePhpServer(cfg) ==
    LET tryFiles == IF cfg.tryFiles # <<>> THEN cfg.tryFiles
                    ELSE IF cfg.fileServer THEN <<"path", "dirIndex", "index">> ELSE <<"dirIndex", "index">>
        dirRedir == cfg.tryFiles = <<>> \/ "dirIndex" \in Range(cfg.tryFiles)
        indexRoutes == (IF dirRedir THEN <<Route("redirect", <<"dirIndex">>)>> ELSE <<>>)
                       \o <<Route("rewrite", tryFiles)>>
        fileRoutes == <<Route("file", <<>>), Route("notFound", <<>>)>>
    IN  prependWorkerRoutes(cfg) \o (IF cfg.index THEN indexRoutes ELSE <<>>)
        \o <<Route("php", <<>>)>> \o (IF cfg.fileServer THEN fileRoutes ELSE <<>>)

\* cmdPHPServer: the routes of the php-server command
cmdPHPServer == <<Route("redirect", <<"dirIndex">>), Route("rewrite", <<"path", "dirIndex", "index">>),
                  Route("php", <<>>), Route("anyFile", <<>>)>>

\* The matchers of a route, the conditions of those two functions; found tells if
\* the file matcher found one of its files
Matches(handler, cfg, found, cleaned) ==
    \/ handler = "existing" /\ found /\ ~MatchExtensions(<<".php">> \o cfg.exts, cleaned)
    \/ handler = "worker"   /\ matchRequest(cfg.workers, cleaned) # <<>>
    \/ handler = "redirect" /\ found /\ cleaned[Len(cleaned)] # ""
    \/ handler = "rewrite"  /\ found
    \/ handler = "php"      /\ MatchExtensions(cfg.exts, cleaned)
    \/ handler = "file"     /\ ~MatchExtensions(<<".php">>, cleaned)
    \/ handler = "notFound" /\ MatchExtensions(<<".php">>, cleaned)
    \/ handler = "anyFile"

\* The next route of a subroute, with what its file matcher found: the first that
\* matches handles the request, but for a rewrite, which goes on with the file it
\* matched.  External.
Try(acc, handler, cfg, hits, cleaned) ==
    IF acc.by # "none" \/ ~Matches(handler, cfg, hits # <<>>, cleaned) THEN acc
    ELSE IF handler # "rewrite" THEN [acc EXCEPT !.by = handler]
    ELSE [acc EXCEPT !.path = hits[1].relative \o hits[1].remainder, !.matched = hits[1].relative]

\* The request after one more route of a subroute.  External.
nextRoute(acc, route, cfg, fs) ==
    Try(acc, route.handler, cfg,
        MatchFile(route.tryFiles, IF route.handler = "rewrite" THEN cfg.exts ELSE <<>>, Clean(acc.path), fs),
        CleanPath(acc.path))

\* A subroute: its routes in turn.  matched is the file that the last rewrite matched,
\* <<>> for none.  External.
serve(routes, cfg, path, fs) ==
    LET routed[i \in 0 .. Len(routes)] == IF i = 0 THEN [by |-> "none", path |-> path, matched |-> <<>>]
                                          ELSE nextRoute(routed[i - 1], routes[i], cfg, fs)
    IN  routed[Len(routes)]

Routes(cfg) == IF cfg.command THEN cmdPHPServer ELSE parsePhpServer(cfg)
-----------------------------------------------------------------------------
\* A dot segment removed, wherever one can be: an empty one, ".", a ".." in front, or
\* a name together with the ".." after it
Shorter(path) ==
    LET drop == {i \in DOMAIN path : path[i] \in {"", "."} \/ (i = 1 /\ path[i] = "..")}
        back == {i \in 1 .. Len(path) - 1 : ~HasDot(path[i]) /\ path[i] # "" /\ path[i + 1] = ".."}
        without(i, j) == SubSeq(path, 1, i - 1) \o SubSeq(path, j + 1, Len(path))
    IN  IF drop # {} THEN LET i == CHOOSE i \in drop : TRUE IN without(i, i)
        ELSE IF back # {} THEN LET i == CHOOSE i \in back : TRUE IN without(i, i + 1)
        ELSE path

\* What a path means: no dot segment is left once each segment had its turn
Meaning(path) ==
    LET left[n \in 0 .. Len(path)] == IF n = 0 THEN path ELSE Shorter(left[n - 1])
    IN  left[Len(path)]

\* The router and the SAPI agree on the script: a request that the php route takes
\* has one ("so the script run is the one they matched"); it is the file that
\* try_files found when a rewrite led to it.  fc is the context of the request as
\* it was served.
ScriptIsMatched(served, fc) ==
    served.by = "php" =>
        /\ fc.ok
        /\ fc.worker = <<>> /\ served.matched # <<>> => fc.scriptFilename = Root \o served.matched

\* Whatever the dot segments, a script is below the document root, SCRIPT_NAME and
\* PATH_INFO put together mean what the request path means, and the file is what
\* SCRIPT_NAME names.
ScriptInRoot(fc, path) ==
    fc.ok => /\ fc.scriptFilename = Root \o Meaning(fc.scriptName)
             /\ Meaning(fc.scriptName \o fc.pathInfo) = Meaning(path)
             /\ \A i \in DOMAIN fc.pathInfo : ~HasDot(fc.pathInfo[i])

\* Neither a .php file nor one of the split extensions is served as a static file,
\* whichever options php_server has, and whether workers match paths or not.
SourceNotServed(cfg, served) ==
    served.by \in {"existing", "file", "anyFile"} =>
        ~MatchExtensions(<<".php">> \o cfg.exts, Clean(served.path))

\* A redirect to the canonical path of a directory leads to its index: next, the
\* request with the slash, runs that file, unless a worker matches its path or
\* index.php has none of the split extensions.
IndexReached(cfg, path, served, next) ==
    served.by = "redirect" /\ Ext[Index] \in Range(cfg.exts) =>
        \/ next.by = "worker"
        \/ next.by = "php" /\ next.matched = Append(Clean(path), Index)
-----------------------------------------------------------------------------
(* What holds of every input *)

\* What becomes of a request for a path
Served(cfg, path) == serve(Routes(cfg), cfg, path, input.fs)
Context(served, cfg) == newContextFromRequest(served.path, cfg.exts, cfg.workers, {})

\* Under every php_server configuration the router and splitCgiPath agree on the
\* script (ScriptIsMatched); and scripts stay below the root and keep what the path
\* means (ScriptInRoot of cleanRequestPath, splitPos and sanitizedPathJoin).
RouterAgrees ==
    input.kind = "url" =>
        /\ \A cfg \in RouteConfigs : \E served \in {Served(cfg, input.path)} :
              ScriptIsMatched(served, Context(served, cfg))
        /\ \A exts \in {c.exts : c \in RouteConfigs} :
              ScriptInRoot(newContextFromRequest(input.path, exts, <<>>, {}), input.path)

\* The file server never gets a script (SourceNotServed), and a directory that is
\* redirected serves its index (IndexReached): the routes of parsePhpServer.
RoutesComplete ==
    input.kind = "url" =>
        \A cfg \in RouteConfigs : \E served \in {Served(cfg, input.path)} :
            /\ SourceNotServed(cfg, served)
            /\ IndexReached(cfg, input.path, served, Served(cfg, Append(input.path, "")))
=============================================================================
