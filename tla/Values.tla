------------------------------- MODULE Values -------------------------------
(***************************************************************************)
(* Values that cross a boundary: between PHP and Go (types.go), as the     *)
(* messages of an extension and the answers to them do, and between the    *)
(* memory of a request and persistent memory (zval.h).                     *)
(*                                                                         *)
(* A zval has a type and what it is or points to.  Arrays and references   *)
(* are pointers into a heap, which can share an array or, through a        *)
(* reference, hold a cycle.  The elements of an array are in order; one of *)
(* type "undef" is a hole; an integer key is kept in its decimal form.  A  *)
(* "string" is one that is not interned: an interned one is a "scalar".    *)
(* What comes out of a conversion is a tree of its own.                    *)
(***************************************************************************)
EXTENDS Naturals, Sequences, SequencesExt

CONSTANTS
    Itoa,     \* the decimal forms of small numbers, from 0 on
    MaxDepth, \* PERSISTENT_ZVAL_MAX_DEPTH
    Case      \* the enum cases that the thread which reads can find

Nil == [go |-> "nil"]
\* nullMessage: a PHP null, where nil stands for no message
NullMessage == [go |-> "nullMessage"]

Key(int, name) == [int |-> int, name |-> name]
Null == [scalar |-> "null"]
-----------------------------------------------------------------------------
(* From PHP to Go *)

RECURSIVE goValue(_, _, _)

\* The elements of an array, until one cannot be converted; holes are left out
goElements(heap, elements, protected) ==
    LET step(acc, e) ==
          IF ~acc.ok \/ e.val.type = "undef" THEN acc
          ELSE LET r == goValue(heap, e.val, acc.protected)
               IN  [ok |-> r.ok, protected |-> r.protected,
                    got |-> Append(acc.got, [key |-> e.key.name, val |-> r.value])]
    IN  FoldLeft(step, [ok |-> TRUE, protected |-> protected, got |-> <<>>], elements)

\* GoPackedArray, and AssociativeArray with its map and its order
goSlice(got) == [list |-> [i \in DOMAIN got |-> got[i].val]]
goMap(got) ==
    [map |-> [k \in {got[i].key : i \in DOMAIN got} |->
                 got[SelectLastInSeq(got, LAMBDA e : e.key = k)].val],
     order |-> [i \in DOMAIN got |-> got[i].key]]

\* Mutated form: the array stays protected.
goArrayHeld(heap, id, protected) ==
    IF id \in protected THEN [ok |-> FALSE, protected |-> protected, value |-> Nil]
    ELSE LET array == heap.array[id]
             r == goElements(heap, array.elements,
                             IF array.immutable THEN protected ELSE protected \cup {id})
         IN  [ok |-> r.ok, protected |-> r.protected,
              value |-> IF array.packed THEN goSlice(r.got) ELSE goMap(r.got)]

\* An array while it is protected against recursion (one that is immutable cannot
\* be); the protection ends whatever happens
goArray(heap, id, protected) ==
    IF id \in protected THEN [ok |-> FALSE, protected |-> protected, value |-> Nil]
    ELSE LET array == heap.array[id]
             r == goElements(heap, array.elements,
                             IF array.immutable THEN protected ELSE protected \cup {id})
         IN  [ok |-> r.ok, protected |-> r.protected \ {id},
              value |-> IF array.packed THEN goSlice(r.got) ELSE goMap(r.got)]

\* goValue[any]: behind a reference, if it is one; other types are errors
goValue(heap, zval, protected) ==
    LET z == IF zval.type = "ref" THEN heap.ref[zval.of] ELSE zval
    IN  IF z.type = "array" THEN goArray(heap, z.of, protected)
        ELSE [ok |-> z.type \in {"null", "scalar", "string"}, protected |-> protected,
              value |-> IF z.type = "null" THEN Nil ELSE [scalar |-> z.of]]
-----------------------------------------------------------------------------
(* From Go to PHP *)

RECURSIVE phpValueInto(_)

\* phpArray: zend_hash_str_update for each key of the order, always a string key
phpArray(entries, order) ==
    LET update(acc, k) ==
          LET i == SelectInSeq(acc, LAMBDA e : e.key.name = k)
              e == [key |-> Key(FALSE, k), val |-> phpValueInto(entries[k])]
          IN  IF i = 0 THEN Append(acc, e) ELSE [acc EXCEPT ![i] = e]
    IN  FoldLeft(update, <<>>, order)

\* PHPPackedArray: zend_hash_next_index_insert
PHPPackedArray(slice) ==
    [i \in DOMAIN slice |-> [key |-> Key(TRUE, Itoa[i - 1]), val |-> phpValueInto(slice[i])]]

phpValueInto(value) ==
    IF value \in {Nil, NullMessage} THEN Null
    ELSE IF "scalar" \in DOMAIN value THEN value
    ELSE IF "list" \in DOMAIN value THEN [elements |-> PHPPackedArray(value.list)]
    ELSE [elements |-> phpArray(value.map, value.order)]

\* SendMessage, of a zval or (type "none") of a nil pointer
SendMessage(heap, zval) ==
    IF zval.type = "none" THEN [ok |-> TRUE, protected |-> {}, message |-> Nil]
    ELSE LET r == goValue(heap, zval, {})
         IN  [ok |-> r.ok, protected |-> r.protected, message |-> IF r.value = Nil THEN NullMessage ELSE r.value]

\* go_frankenphp_worker_handle_request_start: the parameters of the closure
parameters(message) == IF message = Nil THEN <<>> ELSE <<phpValueInto(message)>>
-----------------------------------------------------------------------------
(* Persistent memory *)

RECURSIVE persistent_zval_validate(_, _, _)
persistent_zval_validate(heap, z, depth) ==
    /\ depth <= MaxDepth
    /\ z.type \in {"null", "scalar", "string", "enum", "array"}
    /\ z.type = "array" /\ ~heap.array[z.of].immutable =>
          \A i \in DOMAIN heap.array[z.of].elements :
              LET e == heap.array[z.of].elements[i]
              IN  e.val.type = "undef" \/ persistent_zval_validate(heap, e.val, depth + 1)

Live(elements) == SelectSeq(elements, LAMBDA e : e.val.type # "undef")

\* persistent_zval_persist: strings and arrays are copied, unless they are interned
\* or immutable; an enum becomes the names of its class and its case
RECURSIVE persistent_zval_persist(_, _)
persistent_zval_persist(heap, z) ==
    IF z.type = "enum" THEN [enum |-> z.of]
    ELSE IF z.type # "array" THEN [scalar |-> z.of, copied |-> z.type = "string"]
    ELSE IF heap.array[z.of].immutable THEN [shared |-> z.of]
    ELSE LET live == Live(heap.array[z.of].elements)
         IN  [elements |-> [i \in DOMAIN live |->
                               [key |-> live[i].key, val |-> persistent_zval_persist(heap, live[i].val)]]]

\* Mutated form: the elements of an array are not freed.
persistent_zval_freeFlat(p) ==
    IF "elements" \in DOMAIN p \/ "enum" \in DOMAIN p \/ ("scalar" \in DOMAIN p /\ p.copied) THEN 1 ELSE 0

\* persistent_zval_free: how many values it frees
RECURSIVE persistent_zval_free(_)
persistent_zval_free(p) ==
    IF "elements" \in DOMAIN p
    THEN 1 + FoldLeft(LAMBDA n, e : n + persistent_zval_free(e.val), 0, p.elements)
    ELSE IF "enum" \in DOMAIN p \/ ("scalar" \in DOMAIN p /\ p.copied) THEN 1 ELSE 0

\* The value that PHP sees in a zval: what arrays hold and no holes
RECURSIVE Seen(_, _)
Seen(heap, z) ==
    IF z.type = "array"
    THEN LET live == Live(heap.array[z.of].elements)
         IN  [elements |-> [i \in DOMAIN live |-> [key |-> live[i].key, val |-> Seen(heap, live[i].val)]]]
    ELSE IF z.type = "enum" THEN [enum |-> z.of] ELSE [scalar |-> z.of]

\* persistent_zval_to_request: an enum is looked up, and an array ends where the
\* first one is not found
RECURSIVE persistent_zval_to_request(_, _)
persistent_zval_to_request(heap, p) ==
    IF "enum" \in DOMAIN p
    THEN [exception |-> p.enum \notin Case, val |-> IF p.enum \in Case THEN p ELSE Null]
    ELSE IF "scalar" \in DOMAIN p THEN [exception |-> FALSE, val |-> [scalar |-> p.scalar]]
    ELSE IF "shared" \in DOMAIN p
    THEN [exception |-> FALSE, val |-> Seen(heap, [type |-> "array", of |-> p.shared])]
    ELSE LET step(acc, e) ==
               IF acc.exception THEN acc
               ELSE LET r == persistent_zval_to_request(heap, e.val)
                    IN  [exception |-> r.exception,
                         got |-> IF r.exception THEN acc.got ELSE Append(acc.got, [e EXCEPT !.val = r.val])]
             r == FoldLeft(step, [exception |-> FALSE, got |-> <<>>], p.elements)
         IN  [exception |-> r.exception, val |-> [elements |-> r.got]]
-----------------------------------------------------------------------------
(* What is expected of the conversions *)

\* The zvals right below a zval, and all those that it leads to
Below(heap, z) ==
    CASE z.type = "ref" -> {heap.ref[z.of]}
      [] z.type = "array" -> {e.val : e \in ToSet(Live(heap.array[z.of].elements))}
      [] OTHER -> {}
RECURSIVE Reach(_, _)
Reach(heap, S) ==
    LET more == S \cup UNION {Below(heap, z) : z \in S}
    IN  IF more = S THEN S ELSE Reach(heap, more)

\* Converting it ends: no array leads to itself; and is possible
Convertible(heap, zval) ==
    \A z \in Reach(heap, {zval}) :
        /\ z.type \in {"null", "scalar", "string", "array", "ref"}
        /\ z.type = "array" => z \notin Reach(heap, Below(heap, z))

\* An array with an integer key and the same number as a string, which PHP makes
\* of one only when the string key came from Go
Ambiguous(heap, id) ==
    LET live == Live(heap.array[id].elements)
    IN  ~heap.array[id].packed /\ \E i, j \in DOMAIN live : i # j /\ live[i].key.name = live[j].key.name

\* The documented outcome: a list is numbered again, any other array gets string keys
RECURSIVE Received(_, _)
Received(heap, z) ==
    IF z.type = "ref" THEN Received(heap, heap.ref[z.of])
    ELSE IF z.type # "array" THEN [scalar |-> z.of]
    ELSE LET live == Live(heap.array[z.of].elements)
         IN  [elements |-> [i \in DOMAIN live |->
                 [key |-> IF heap.array[z.of].packed THEN Key(TRUE, Itoa[i - 1]) ELSE Key(FALSE, live[i].key.name),
                  val |-> Received(heap, live[i].val)]]]

\* How many copies persistent memory needs of a value
RECURSIVE Copies(_, _)
Copies(heap, z) ==
    CASE z.type \in {"string", "enum"} -> 1
      [] z.type = "array" /\ ~heap.array[z.of].immutable ->
             FoldLeft(LAMBDA n, e : n + Copies(heap, e.val), 1, Live(heap.array[z.of].elements))
      [] OTHER -> 0

\* A message that an extension sends is refused exactly if it holds a cycle or a
\* value of another type, and an array that merely occurs twice is not a cycle;
\* either way no array stays protected (goArray), so that the next conversion is
\* not refused.  The closure of the worker gets what the documentation says, and
\* gets null, rather than no argument, for null (SendMessage, phpValueInto).
MessageArrives(heap, zval) ==
    LET sent == SendMessage(heap, zval)
    IN  /\ sent.protected = {}
        /\ sent.ok <=> Convertible(heap, zval)
        /\ sent.ok /\ (\A z \in Reach(heap, {zval}) : z.type = "array" => ~Ambiguous(heap, z.of)) =>
              parameters(sent.message) = <<Received(heap, zval)>>

\* A value that persistent_zval_validate accepts comes back from persistent memory
\* as it was; if the thread that reads it misses one of its enums, it throws
\* (persistent_zval_to_request).  What was copied is freed, each copy once, and
\* what was shared is not (persistent_zval_free).
ComesBack(heap, zval) ==
    persistent_zval_validate(heap, zval, 0) =>
        LET p == persistent_zval_persist(heap, zval)
            back == persistent_zval_to_request(heap, p)
            missed == {z \in Reach(heap, {zval}) : z.type = "enum" /\ z.of \notin Case}
        IN  /\ back.exception <=> missed # {}
            /\ ~back.exception => back.val = Seen(heap, zval)
            /\ persistent_zval_free(p) = Copies(heap, zval)
=============================================================================
