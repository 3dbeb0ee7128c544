------------------------------ MODULE MCServer ------------------------------
(***************************************************************************)
(* Runtime, and the algorithms on the way to and from it, instantiated for *)
(* TLC.  A behaviour either follows the runtime (input is "none") or       *)
(* stands for one input of one of the algorithms: declarations, routing,   *)
(* watch patterns, and the conversion of values.                           *)
(***************************************************************************)
EXTENDS Runtime, Declarations, Routing, WatchPattern, Values

Bounds(i, c, r, d) == [instances |-> i, changes |-> c, restarts |-> r, deaths |-> d]
NoRuntime == Bounds(0, 0, 0, 0)
MCScenario == {Bounds(2, 1, 0, 0), Bounds(2, 0, 1, 0), Bounds(2, 0, 0, 1), Bounds(1, 1, 1, 0),
               Bounds(1, 1, 0, 1), NoRuntime}
\* Three configurations, loaded one after the other
ReloadTwice == {Bounds(3, 0, 0, 0)}

\* Files and their links: "link" leads to "a", "gone" does not exist
MCPath == {"", "a", "b", "link", "gone", "cwd"}
MCResolve == [p \in MCPath |-> IF p = "link" THEN "a" ELSE IF p = "" THEN "cwd" ELSE p]
MCOnDisk == MCPath \ {"gone"}
MCSuffix == <<"1", "2", "3", "4">>

\* Lists of up to n elements of S
UpTo(S, n) == UNION {[1 .. k -> S] : k \in 0 .. n}

WorkerOpts == [name : {<<>>, <<"x">>}, file : {"a", "b", "link", "gone"}, declared : {""},
               server : {0, 1}, match : BOOLEAN]
ConfigWorkers == [name : {<<>>, <<"x">>, <<"s", ":", "x">>}, file : {"a", "b", "link", "gone"}, match : BOOLEAN]
NamedWorkers == {w \in ConfigWorkers : w.file \in {"a", "b"} /\ (w.match => w.name # <<>>)}
Module(index, list) == [index |-> index, name |-> "s", workers |-> list, resolveRoot |-> TRUE]
Configs ==
    {[workers |-> g, modules |-> <<Module(1, m)>>] : g \in UpTo(ConfigWorkers, 1), m \in UpTo(ConfigWorkers, 1)}
    \cup {[workers |-> g, modules |-> <<Module(1, m1), Module(2, m2)>>] :
             g \in UpTo(NamedWorkers, 1), m1 \in UpTo(NamedWorkers, 1), m2 \in UpTo(NamedWorkers, 1)}
    \cup {[workers |-> <<>>, modules |-> <<Module(i, m), Module(i, m), Module(2, <<>>)>>] :
             i \in {0, 1}, m \in UpTo(NamedWorkers, 2)}

BudgetWorkers == [num : {0, 1, 2}, maxThreads : {0, 2, 4}]
Budgets == [workers : UpTo(BudgetWorkers, 2), numThreads : {0, 1, 3}, maxThreads : {-1, 0, 3, 8}]

\* Segments and their extensions
Seg == {"d", "index.php", "a.php", "b.inc", "t.txt", "..", ".", ""}
MCExt == [s \in Seg |-> IF s \in {"index.php", "a.php"} THEN ".php" ELSE IF s = "b.inc" THEN ".inc" ELSE ""]
MCRoot == <<"root">>
Urls == (UpTo(Seg, 2) \cup UpTo(Seg \ {"."}, 3)) \ {<<>>}
FileSystems == {{<<"index.php">>, <<"t.txt">>, <<"d", "index.php">>},
                {<<"a.php">>, <<"b.inc">>, <<"d", "a.php">>, <<"d", "t.txt">>},
                {<<"index.php">>, <<"d", "index.php">>, <<"d", "b.inc">>, <<"d", "d", "index.php">>}, {}}
MatchedWorker == [file |-> <<"app", "w.php">>, match |-> "d"]
PhpServers ==
    [command : {FALSE}, index : BOOLEAN, tryFiles : {<<>>, <<"path">>, <<"path", "dirIndex">>},
     fileServer : BOOLEAN, exts : {<<".php">>, <<".inc">>, <<".inc", ".php">>},
     workers : {<<>>, <<MatchedWorker>>}]
MCRouteConfigs ==
    {c \in PhpServers : c.index \/ c.tryFiles = <<>>}
    \cup {[command |-> TRUE, index |-> TRUE, tryFiles |-> <<>>, fileServer |-> TRUE, exts |-> <<".php">>,
           workers |-> <<>>]}

\* Globs: a directory, a file, every file, the scripts, and braces around two of them
MCGlob == {"d", "x.php", "*", "*.php", "{d,x.php}"}
MCExpand == [g \in MCGlob |-> IF g = "{d,x.php}" THEN {"d", "x.php"} ELSE {g}]
MCAccepts == [g \in MCGlob |-> CASE g = "d" -> {"d"} [] g = "x.php" -> {"x.php"}
                                 [] g = "*" -> {"d", "x.php", "y"} [] g = "*.php" -> {"x.php"}
                                 [] OTHER -> {}]
Patterns == UpTo(MCGlob \cup {"**"}, 3) \cup {<<"d">> \o p : p \in UpTo({"**", "*", "d", "*.php"}, 4)}
MCEvents == {[aboutFile |-> f, PathName |-> p, AssociatedPathName |-> <<>>] : f \in BOOLEAN, p \in UpTo({"d", "x.php", "y"}, 4)}
            \cup {[aboutFile |-> TRUE, PathName |-> <<"d", "y">>, AssociatedPathName |-> <<"d", "x.php">>]}

\* An array "c" around "a", which can hold "b" and the reference "r", to which "b"
\* can lead too; the reference leads back to "a", to "b" or to a number
Zval(type, of) == [type |-> type, of |-> of]
MCItoa == [n \in 0 .. 2 |-> <<"0", "1", "2">>[n + 1]]
MCCase == {"known"}
Array(packed, immutable, keys, vals) ==
    [packed |-> packed, immutable |-> immutable,
     elements |-> [i \in DOMAIN vals |-> [key |-> keys[i], val |-> vals[i]]]]
ListKeys == <<Key(TRUE, "0"), Key(TRUE, "1")>>
HashKeys == {<<Key(TRUE, "1"), Key(FALSE, "k")>>, <<Key(FALSE, "k"), Key(TRUE, "1")>>,
             <<Key(FALSE, "1"), Key(TRUE, "1")>>}
Held == {Zval("null", "null"), Zval("string", "s"), Zval("object", "o"), Zval("enum", "known"),
         Zval("enum", "gone"), Zval("undef", ""), Zval("array", "b"), Zval("ref", "r")}
Heaps ==
    {[array |-> [a |-> a, b |-> b, c |-> Array(TRUE, FALSE, ListKeys, <<Zval("array", "a")>>)],
      ref |-> [r |-> r]] :
        a \in {Array(TRUE, FALSE, ListKeys, v) : v \in UpTo(Held, 2)}
              \cup {Array(FALSE, FALSE, k, v) : k \in HashKeys, v \in [1 .. 2 -> Held]},
        b \in {Array(TRUE, FALSE, ListKeys, <<Zval("string", "s")>>),
               Array(TRUE, TRUE, ListKeys, <<Zval("scalar", "i"), Zval("scalar", "i")>>),
               Array(FALSE, FALSE, <<Key(FALSE, "k")>>, <<Zval("ref", "r")>>)},
        r \in {Zval("scalar", "i"), Zval("array", "a"), Zval("array", "b")}}
Roots == {Zval("array", "a"), Zval("array", "c"), Zval("null", "null"), Zval("ref", "r")}

Inputs == [kind : {"workers"}, workers : UpTo(WorkerOpts, 2)]
          \cup [kind : {"config"}, config : Configs]
          \cup [kind : {"budget"}, opt : Budgets]
          \cup [kind : {"url"}, path : Urls, fs : FileSystems]
          \cup [kind : {"watch"}, pattern : Patterns]
          \cup [kind : {"value"}, heap : Heaps]

MCInit ==
    /\ Init
    /\ IF bound = NoRuntime THEN host = "library" /\ input \in Inputs ELSE input = [kind |-> "none"]
MCNext == Next /\ UNCHANGED input
MCSpec == MCInit /\ [][MCNext]_<<vars, input>> /\ Fairness
-----------------------------------------------------------------------------
\* Messages are converted, or refused, as documented: MessageArrives of SendMessage.
MessageKept == input.kind = "value" => \A zval \in Roots : MessageArrives(input.heap, zval)

\* Values survive persistent memory and leave nothing there: ComesBack of zval.h.
PersistRoundtrip == input.kind = "value" => \A zval \in Roots : ComesBack(input.heap, zval)
=============================================================================
