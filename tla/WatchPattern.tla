---------------------------- MODULE WatchPattern ----------------------------
(***************************************************************************)
(* Which file events reload the workers: the patterns of the watch option  *)
(* (internal/watcher/pattern.go).                                          *)
(*                                                                         *)
(* A path is a sequence of segments and a pattern a sequence of globs, one *)
(* of which may be "**".  expandCurlyBraces turns a glob into the          *)
(* alternatives of its braces, and Accepts holds the segments that         *)
(* filepath.Match accepts for a glob without braces.  File names of the    *)
(* watched directory itself are the path <<"">>.                           *)
(***************************************************************************)
EXTENDS Input, Integers, Sequences, FiniteSetsExt

CONSTANTS
    Glob,              \* globs of one segment, without "**"
    expandCurlyBraces, \* from Glob to sets of globs without braces
    Accepts,           \* from the latter to the sets of segments they match
    Plain,             \* the globs with none of the characters [ * ? {
    Dotted,            \* the globs with a dot
    Events             \* events of the file watcher

AnyDepth == "**"

\* A glob without those characters matches the segment that it spells.
ASSUME PlainAssumption ==
    /\ Plain \subseteq Glob /\ AnyDepth \notin Glob
    /\ \A g \in Plain : expandCurlyBraces[g] = {g} /\ Accepts[g] = {g}

\* A glob is put after the last part; a "**" starts another
cut(parts, g) == IF g = AnyDepth THEN Append(parts, <<>>)
                 ELSE [parts EXCEPT ![Len(parts)] = Append(@, g)]

\* The parts of a pattern between its "**"
splitRecursive(pattern) ==
    LET parts[i \in 0 .. Len(pattern)] == IF i = 0 THEN << <<>> >> ELSE cut(parts[i - 1], pattern[i])
    IN  parts[Len(pattern)]

\* pattern.parse: the directory ends before the first glob, or before a last
\* segment with a dot
parse(pattern) ==
    LET starts(i) == \/ i = Len(pattern) /\ pattern[i] \in Dotted
                     \/ pattern[i] \notin Plain
        first == IF \E i \in DOMAIN pattern : starts(i)
                 THEN CHOOSE i \in DOMAIN pattern : starts(i) /\ \A j \in 1 .. i - 1 : ~starts(j)
                 ELSE Len(pattern) + 1
    IN  [dir |-> SubSeq(pattern, 1, first - 1),
         parsedValues |-> splitRecursive(SubSeq(pattern, first, Len(pattern)))]

\* matchPattern: an empty pattern matches everything
matchPattern(value, parts) ==
    value = <<>> \/ (Len(value) = Len(parts) /\ \A i \in DOMAIN value : parts[i] \in Accepts[value[i]])

\* matchCurlyBracePattern: one of the alternatives of the braces
matchCurlyBracePattern(value, parts) ==
    \E alternative \in [DOMAIN value -> UNION {expandCurlyBraces[value[i]] : i \in DOMAIN value}] :
        /\ \A i \in DOMAIN value : alternative[i] \in expandCurlyBraces[value[i]]
        /\ matchPattern(alternative, parts)

\* The number of segments of a part, and whether it is found at j
size(v) == IF v = <<>> THEN 1 ELSE Len(v)
found(v, parts, j) ==
    j + size(v) <= Len(parts) + 1 /\ matchCurlyBracePattern(v, SubSeq(parts, j, j + size(v) - 1))

\* Mutated form: the search for the next part starts after the segments found.
moveApart(cursor, i, parsedValues, parts) ==
    LET v == parsedValues[i]
        from == IF i = Len(parsedValues) THEN Len(parts) - size(v) + 1 ELSE cursor
        here == {j \in from .. Len(parts) : found(v, parts, j)}
    IN  IF cursor = 0 \/ from < 1 \/ here = {} THEN 0 ELSE Min(here) + size(v)

\* matchPatterns, for the part i: the cursor stays on the last segment of a part
\* that it found, and the last part is looked for at the end of the path.  The model
\* counts from 1, and 0 is a part that is not found.
move(cursor, i, parsedValues, parts) ==
    LET v == parsedValues[i]
        from == IF i = Len(parsedValues) THEN Len(parts) - size(v) + 1 ELSE cursor
        here == {j \in from .. Len(parts) : found(v, parts, j)}
    IN  IF cursor = 0 \/ from < 1 \/ here = {} THEN 0 ELSE Min(here) + size(v) - 1

\* matchPatterns: a cursor runs through the segments, from the first
matchPatterns(parsedValues, parts) ==
    LET cursor[i \in 0 .. Len(parsedValues)] == IF i = 0 THEN 1 ELSE move(cursor[i - 1], i, parsedValues, parts)
    IN  cursor[Len(parsedValues)] # 0

\* strings.HasPrefix, of whole segments
HasPrefix(path, prefix) == Len(prefix) <= Len(path) /\ SubSeq(path, 1, Len(prefix)) = prefix

\* isValidPattern; no file name is the empty sequence
isValidPattern(pattern, fileName) ==
    LET p == parse(pattern)
        rest == SubSeq(fileName, Len(p.dir) + 1, Len(fileName))
        fileNameWithoutDir == IF rest = <<>> THEN <<"">> ELSE rest
    IN  /\ fileName # <<>> /\ HasPrefix(fileName, p.dir)
        /\ IF Len(p.parsedValues) = 1 THEN matchCurlyBracePattern(p.parsedValues[1], fileNameWithoutDir)
           ELSE matchPatterns(p.parsedValues, fileNameWithoutDir)

\* isValidEventType and isValidPathType: a change of a file, not of the watcher
isValidEvent(event) == event.aboutFile

\* allowReload: an editor that replaces the file by a
\* temporary one has the name it is about in AssociatedPathName
allowReload(pattern, event) ==
    /\ isValidEvent(event)
    /\ isValidPattern(pattern, event.PathName) \/ isValidPattern(pattern, event.AssociatedPathName)
-----------------------------------------------------------------------------
\* One of the alternatives of a glob matches the segment
StandsFor(g, seg) == \E h \in expandCurlyBraces[g] : seg \in Accepts[h]

\* What a pattern means: a glob stands for a segment that it matches, and "**" for
\* any number of segments.  ends[i] holds the numbers of segments that the first i
\* globs can stand for.
Denotes(pattern, path) ==
    LET ends[i \in 0 .. Len(pattern)] ==
            IF i = 0 THEN {0}
            ELSE IF pattern[i] = AnyDepth THEN {j \in 0 .. Len(path) : \E k \in ends[i - 1] : k <= j}
            ELSE {j \in 1 .. Len(path) : j - 1 \in ends[i - 1] /\ StandsFor(pattern[i], path[j])}
    IN  Len(path) \in ends[Len(pattern)]

\* A pattern without a glob is a directory, and stands for everything below it
IsDirectory(pattern) == \A i \in DOMAIN pattern :
    pattern[i] \in Plain /\ ~(i = Len(pattern) /\ pattern[i] \in Dotted)

\* No change is missed: an event whose path, or associated path, the pattern
\* denotes reloads the workers, however its "**" split the path.
NoChangeMissed(pattern, event) ==
    LET meant(path) == path # <<>> /\ \/ Denotes(pattern, path)
                                      \/ IsDirectory(pattern) /\ pattern # path /\ HasPrefix(path, pattern)
    IN  event.aboutFile /\ (meant(event.PathName) \/ meant(event.AssociatedPathName))
            => allowReload(pattern, event)
-----------------------------------------------------------------------------
(* What holds of every input *)

\* Every event that a watch pattern is about reloads: NoChangeMissed of allowReload.
WatchComplete == input.kind = "watch" => \A e \in Events : NoChangeMissed(input.pattern, e)
=============================================================================
