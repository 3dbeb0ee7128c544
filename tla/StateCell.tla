------------------------------ MODULE StateCell ------------------------------
(***************************************************************************)
(* What internal/state promises the rest of the program: one cell holding  *)
(* the state of a thread, and waits that are answered by a PULSE.  A wait  *)
(* for a set of states is granted by the first value of the set that is    *)
(* put into the cell; the grant stays although the cell moves on.          *)
(* ThreadState implements this; PhpThreads is written against it.          *)
(***************************************************************************)
CONSTANTS State, Proc, Reserved

VARIABLES cell,     \* the current state
          want,     \* want[p]: the states p waits for, {} when it does not
          granted   \* processes whose wait was answered and that did not run yet

vars == <<cell, want, granted>>

Init ==
    /\ cell = Reserved
    /\ want = [p \in Proc |-> {}]
    /\ granted = {}

Put(s) ==
    /\ cell' = s
    /\ granted' = granted \cup {p \in Proc : s \in want[p]}
    /\ want' = [p \in Proc |-> IF s \in want[p] THEN {} ELSE want[p]]

\* A wait for states the cell does not hold; the other waits return at once.
Ask(p, S) ==
    /\ want[p] = {} /\ p \notin granted
    /\ cell \notin S
    /\ want' = [want EXCEPT ![p] = S]
    /\ UNCHANGED <<cell, granted>>

Return(p) ==
    /\ p \in granted
    /\ granted' = granted \ {p}
    /\ UNCHANGED <<cell, want>>

\* A wait that timed out.
Withdraw(p) ==
    /\ want[p] # {}
    /\ want' = [want EXCEPT ![p] = {}]
    /\ UNCHANGED <<cell, granted>>

Next ==
    \/ \E s \in State : Put(s)
    \/ \E p \in Proc, S \in SUBSET State : Ask(p, S)
    \/ \E p \in Proc : Return(p) \/ Withdraw(p)

Spec == Init /\ [][Next]_vars
=============================================================================
