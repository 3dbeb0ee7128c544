----------------------------- MODULE ThreadState -----------------------------
(***************************************************************************)
(* internal/state/state.go: the ThreadState object that Go goroutines and  *)
(* PHP threads share.  Every method takes ts.mu for one or more critical   *)
(* sections; a critical section is one action here, so what happens        *)
(* between two sections of one call is visible.                            *)
(*                                                                         *)
(* The order of the subscribers slice cannot be observed (a notification   *)
(* only closes channels), so it is a set.  The channel of a subscription   *)
(* is named by the process that made it: a process waits once at a time.   *)
(***************************************************************************)
CONSTANTS Proc,      \* the goroutines and threads that call the methods
          State,     \* the states used, see state.go
          WaitSet    \* the sets of states callers wait for

Stable == {"Ready", "Inactive"}
Refusing == {"Reserved", "ShuttingDown", "Done"}
SafeWait == Stable \cup {"Reserved", "Done"}

ASSUME StateAssumption ==
    /\ Stable \cup Refusing \subseteq State
    /\ WaitSet \subseteq (SUBSET State) \ {{}}

VARIABLES currentState,
          subscribers,  \* ts.subscribers: records [proc, states]
          closed,       \* processes whose channel sub.ch was closed
          pc,           \* what each process is doing
          next          \* argument of a RequestSafeStateChange in progress

vars == <<currentState, subscribers, closed, pc, next>>

PC == {"idle", "blocked", "timed", "expired", "requesting", "safeBlocked", "retry"}

Init ==
    /\ currentState = "Reserved"
    /\ subscribers = {}
    /\ closed = {}
    /\ pc = [p \in Proc |-> "idle"]
    /\ next = [p \in Proc |-> "Reserved"]
-----------------------------------------------------------------------------
\* Mutated form: nobody is woken.
SilentNotify(s) ==
    currentState' = s /\ UNCHANGED <<closed, subscribers>>

\* Assigning currentState and running notifySubscribers, under ts.mu.
notifySubscribers(s) ==
    /\ currentState' = s
    /\ closed' = closed \cup {x.proc : x \in {y \in subscribers : s \in y.states}}
    /\ subscribers' = {x \in subscribers : s \notin x.states}

Set(s) ==
    notifySubscribers(s) /\ UNCHANGED <<pc, next>>

CompareAndSwap(compareTo, swapTo) ==
    /\ currentState = compareTo
    /\ notifySubscribers(swapTo)
    /\ UNCHANGED <<pc, next>>

\* Mutated form: subscribes without looking at the state first.
BlindSubscribe(p, S) ==
    /\ subscribers' = subscribers \cup {[proc |-> p, states |-> S]}
    /\ UNCHANGED <<currentState, closed, next>>

\* The locked prefix of WaitFor and WaitForStateWithTimeout when the state is
\* not among the awaited ones (otherwise both return at once).
subscribe(p, S) ==
    /\ currentState \notin S
    /\ subscribers' = subscribers \cup {[proc |-> p, states |-> S]}
    /\ UNCHANGED <<currentState, closed, next>>

WaitFor(p, S) ==
    /\ pc[p] = "idle"
    /\ subscribe(p, S)
    /\ pc' = [pc EXCEPT ![p] = "blocked"]

WaitForStateWithTimeout(p, S) ==
    /\ pc[p] = "idle"
    /\ subscribe(p, S)
    /\ pc' = [pc EXCEPT ![p] = "timed"]

\* <-sub.ch
Wake(p) ==
    /\ pc[p] \in {"blocked", "timed", "safeBlocked"}
    /\ p \in closed
    /\ closed' = closed \ {p}
    /\ pc' = [pc EXCEPT ![p] = IF pc[p] = "safeBlocked" THEN "retry" ELSE "idle"]
    /\ UNCHANGED <<currentState, subscribers, next>>

\* The select picks the timer; the lock is only taken afterwards.
Timeout(p) ==
    /\ pc[p] = "timed"
    /\ pc' = [pc EXCEPT ![p] = "expired"]
    /\ UNCHANGED <<currentState, subscribers, closed, next>>

\* Mutated form: the subscription of a call that timed out stays.
LeakyUnsubscribe(p) ==
    /\ pc[p] = "expired"
    /\ closed' = closed \ {p}
    /\ pc' = [pc EXCEPT ![p] = "idle"]
    /\ UNCHANGED <<currentState, subscribers, next>>

\* DeleteFunc under the lock, then return false.  A channel that was closed
\* in between is dropped with the subscription.
Unsubscribe(p) ==
    /\ pc[p] = "expired"
    /\ subscribers' = {x \in subscribers : x.proc # p}
    /\ closed' = closed \ {p}
    /\ pc' = [pc EXCEPT ![p] = "idle"]
    /\ UNCHANGED <<currentState, next>>

\* The switch of RequestSafeStateChange, one critical section: refuse,
\* publish nextState, or give the lock back to wait.
requestSwitch(p, nextState) ==
    \/ /\ currentState \in Refusing
       /\ pc' = [pc EXCEPT ![p] = "idle"]
       /\ UNCHANGED <<currentState, subscribers, closed, next>>
    \/ /\ currentState \in Stable
       /\ notifySubscribers(nextState)
       /\ pc' = [pc EXCEPT ![p] = "idle"]
       /\ UNCHANGED next
    \/ /\ currentState \notin Refusing \cup Stable
       /\ pc' = [pc EXCEPT ![p] = "requesting"]
       /\ next' = [next EXCEPT ![p] = nextState]
       /\ UNCHANGED <<currentState, subscribers, closed>>

RequestSafeStateChange(p, nextState) ==
    pc[p] = "idle" /\ requestSwitch(p, nextState)

\* Mutated form: waits without looking at the state first.
RequestWaitBlind(p) ==
    /\ pc[p] = "requesting"
    /\ BlindSubscribe(p, SafeWait)
    /\ pc' = [pc EXCEPT ![p] = "safeBlocked"]

\* ts.WaitFor(Ready, Inactive, Reserved, Done) inside RequestSafeStateChange:
\* the state may have changed since the switch gave the lock back.
RequestWait(p) ==
    /\ pc[p] = "requesting"
    /\ \/ /\ currentState \in SafeWait
          /\ pc' = [pc EXCEPT ![p] = "retry"]
          /\ UNCHANGED <<currentState, subscribers, closed, next>>
       \/ /\ subscribe(p, SafeWait)
          /\ pc' = [pc EXCEPT ![p] = "safeBlocked"]

RequestRetry(p) ==
    pc[p] = "retry" /\ requestSwitch(p, next[p])

Next ==
    \/ \E s \in State : Set(s)
    \/ \E a, b \in State : CompareAndSwap(a, b)
    \/ \E p \in Proc, S \in WaitSet : WaitFor(p, S) \/ WaitForStateWithTimeout(p, S)
    \/ \E p \in Proc : \/ Wake(p) \/ Timeout(p) \/ Unsubscribe(p)
                       \/ RequestWait(p) \/ RequestRetry(p)
    \/ \E p \in Proc, s \in State : RequestSafeStateChange(p, s)

Spec == Init /\ [][Next]_vars

\* A runnable goroutine runs: the Go scheduler is fair, and ts.mu is held for
\* a few instructions only.
Fairness ==
    \A p \in Proc : WF_vars(Wake(p)) /\ WF_vars(Unsubscribe(p))
                    /\ WF_vars(RequestWait(p)) /\ WF_vars(RequestRetry(p))

FairSpec == Spec /\ Fairness
-----------------------------------------------------------------------------
Subscription == [proc : Proc, states : SUBSET State]

\* Every variable has its type.
TypeOK ==
    /\ currentState \in State
    /\ subscribers \subseteq Subscription
    /\ closed \subseteq Proc
    /\ pc \in [Proc -> PC]
    /\ next \in [Proc -> State]

\* A subscriber still in the list waits for a state other than the current
\* one: no Set, CompareAndSwap or RequestSafeStateChange ever passes a waiter
\* by, whatever critical sections come between its check and its wait.
NoLostWakeup ==
    \A x \in subscribers : currentState \notin x.states

\* The bookkeeping of the subscribers slice: a blocked call is registered or
\* has its channel closed, never both (notifySubscribers would close a closed
\* channel and panic), and a call that returned leaves nothing behind.
SubscriptionOwned ==
    /\ \A x, y \in subscribers : x.proc = y.proc => x = y
    /\ \A x \in subscribers :
          /\ x.proc \notin closed
          /\ pc[x.proc] \in {"blocked", "timed", "expired", "safeBlocked"}
    /\ \A p \in Proc : pc[p] \in {"blocked", "timed", "safeBlocked"}
          => p \in closed \/ \E x \in subscribers : x.proc = p
    /\ \A p \in closed : pc[p] \in {"blocked", "timed", "expired", "safeBlocked"}

\* A RequestSafeStateChange returns once the state stays among those it can
\* be answered in, whatever pulses came and went while it was not looking.
RequestAnswered ==
    <>[](currentState \in SafeWait) =>
        \A p \in Proc : (pc[p] \in {"requesting", "safeBlocked", "retry"}) ~> (pc[p] = "idle")

\* ThreadState implements StateCell: the critical sections add nothing to and
\* lose nothing from the pulses the abstract cell promises.
Cell == INSTANCE StateCell WITH
    Reserved <- "Reserved",
    cell <- currentState,
    want <- [p \in Proc |-> UNION {x.states : x \in {y \in subscribers : y.proc = p}}],
    granted <- closed

CellSpec == Cell!Spec
=============================================================================
