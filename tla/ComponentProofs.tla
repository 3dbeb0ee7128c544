-------------------------- MODULE ComponentProofs ---------------------------
(***************************************************************************)
(* Theorems about two components. ThreadState: for any set of callers, any *)
(* set of states that contains the stable and the refusing ones, and any   *)
(* awaited sets. The inductive invariant is the conjunction of the three   *)
(* invariants the model checker sees: SubscriptionOwned needs the types,   *)
(* NoLostWakeup needs both, and the refinement needs all of them. Routing: *)
(* for any paths, files, split extensions and php_server directives, the   *)
(* script a route leads to, the script the context runs, and the order of  *)
(* the routes of a site.                                                   *)
(***************************************************************************)
EXTENDS ThreadState, Routing, WellFoundedInduction, TLAPS

\* SubscriptionOwned says which steps a caller may be at while subscribed.
Waiting == {"blocked", "timed", "expired", "safeBlocked"}

\* The sets of states that are awaited are sets of states, SafeWait included.
LEMMA AwaitedStates == SafeWait \subseteq State /\ \A S \in WaitSet : S \subseteq State
  BY StateAssumption DEF SafeWait, Stable, Refusing

\* Every variable keeps its type.
LEMMA TypeStep == TypeOK /\ [Next]_vars => TypeOK'
<1> SUFFICES ASSUME TypeOK, [Next]_vars PROVE TypeOK'
  OBVIOUS
<1> USE DEF TypeOK, Subscription, PC
<1>n. ASSUME NEW s \in State, notifySubscribers(s)
      PROVE  currentState' \in State /\ closed' \subseteq Proc /\ subscribers' \subseteq Subscription
  BY <1>n DEF notifySubscribers
<1>s. ASSUME NEW p \in Proc, NEW S \in SUBSET State, subscribe(p, S)
      PROVE  currentState' \in State /\ closed' \subseteq Proc
             /\ subscribers' \subseteq Subscription /\ next' \in [Proc -> State]
  BY <1>s DEF subscribe
<1>r. ASSUME NEW p \in Proc, NEW s \in State, requestSwitch(p, s) PROVE TypeOK'
  BY <1>r, <1>n DEF requestSwitch
<1>1. CASE \E s \in State : Set(s)
  BY <1>1, <1>n DEF Set
<1>2. CASE \E a, b \in State : CompareAndSwap(a, b)
  BY <1>2, <1>n DEF CompareAndSwap
<1>3. CASE \E p \in Proc, S \in WaitSet : WaitFor(p, S) \/ WaitForStateWithTimeout(p, S)
  BY <1>3, <1>s, AwaitedStates DEF WaitFor, WaitForStateWithTimeout
<1>4. CASE \E p \in Proc : Wake(p) \/ Timeout(p) \/ Unsubscribe(p)
  BY <1>4 DEF Wake, Timeout, Unsubscribe
<1>5. CASE \E p \in Proc : RequestWait(p)
  BY <1>5, <1>s, AwaitedStates DEF RequestWait
<1>6. CASE \E p \in Proc : RequestRetry(p)
  BY <1>6, <1>r DEF RequestRetry
<1>7. CASE \E p \in Proc, s \in State : RequestSafeStateChange(p, s)
  BY <1>7, <1>r DEF RequestSafeStateChange
<1>8. CASE UNCHANGED vars
  BY <1>8 DEF vars
<1> QED
  BY <1>1, <1>2, <1>3, <1>4, <1>5, <1>6, <1>7, <1>8 DEF Next

\* The variables of every ThreadState object always have their types.
THEOREM TypeCorrect == Spec => []TypeOK
<1>1. Init => TypeOK
  BY StateAssumption DEF Init, TypeOK, Subscription, PC, Stable, Refusing
<1> QED
  BY <1>1, TypeStep, PTL DEF Spec
-----------------------------------------------------------------------------
\* What the three kinds of critical section do to the list of subscribers.
LEMMA NotifyOwned ==
  ASSUME TypeOK, SubscriptionOwned, NEW s \in State, notifySubscribers(s),
         \A p \in Proc : pc[p] \in Waiting => pc'[p] = pc[p],
         \A p \in Proc : pc'[p] \in Waiting => pc'[p] = pc[p]
  PROVE  SubscriptionOwned'
<1> USE DEF TypeOK, Subscription, Waiting
<1>1. \A x \in subscribers' : x \in subscribers /\ s \notin x.states
  BY DEF notifySubscribers
<1>2. \A p \in closed' : p \in closed \/ \E x \in subscribers : x.proc = p /\ s \in x.states
  BY DEF notifySubscribers
<1>3. \A x \in subscribers' : x.proc \notin closed'
  BY <1>1, <1>2 DEF SubscriptionOwned
<1>4. \A p \in Proc : pc'[p] \in {"blocked", "timed", "safeBlocked"}
         => p \in closed' \/ \E x \in subscribers' : x.proc = p
  BY DEF SubscriptionOwned, notifySubscribers
<1>5. \A p \in closed' : pc'[p] \in {"blocked", "timed", "expired", "safeBlocked"}
  BY <1>2 DEF SubscriptionOwned
<1> QED
  BY <1>1, <1>3, <1>4, <1>5 DEF SubscriptionOwned

\* A subscription made by WaitFor belongs to the caller that made it.
LEMMA SubscribeOwned ==
  ASSUME TypeOK, SubscriptionOwned, NEW p \in Proc, NEW S \in SUBSET State, subscribe(p, S),
         pc[p] \notin Waiting, NEW q \in {"blocked", "timed", "safeBlocked"},
         pc' = [pc EXCEPT ![p] = q]
  PROVE  SubscriptionOwned'
<1> USE DEF TypeOK, Subscription, Waiting, subscribe
<1>1. p \notin closed /\ \A x \in subscribers : x.proc # p
  BY DEF SubscriptionOwned
<1>2. \A x, y \in subscribers' : x.proc = y.proc => x = y
  BY <1>1 DEF SubscriptionOwned
<1>3. \A x \in subscribers' : x.proc \notin closed' /\ pc'[x.proc] \in {"blocked", "timed", "expired", "safeBlocked"}
  BY <1>1 DEF SubscriptionOwned
<1>4. \A r \in Proc : pc'[r] \in {"blocked", "timed", "safeBlocked"}
         => r \in closed' \/ \E x \in subscribers' : x.proc = r
  <2> TAKE r \in Proc
  <2>1. [proc |-> p, states |-> S] \in subscribers' /\ [proc |-> p, states |-> S].proc = p
    OBVIOUS
  <2>2. CASE r = p
    BY <2>1, <2>2
  <2>3. CASE r # p
    BY <2>3 DEF SubscriptionOwned
  <2> QED
    BY <2>2, <2>3
<1>5. \A r \in closed' : pc'[r] \in {"blocked", "timed", "expired", "safeBlocked"}
  BY <1>1 DEF SubscriptionOwned
<1> QED
  BY <1>2, <1>3, <1>4, <1>5 DEF SubscriptionOwned

\* No call on the state leaves a subscription behind that nobody waits on.
LEMMA OwnedStep == TypeOK /\ SubscriptionOwned /\ [Next]_vars => SubscriptionOwned'
<1> SUFFICES ASSUME TypeOK, SubscriptionOwned, [Next]_vars PROVE SubscriptionOwned'
  OBVIOUS
<1> USE DEF TypeOK, Waiting
<1>r. ASSUME NEW p \in Proc, NEW s \in State, requestSwitch(p, s), pc[p] \notin Waiting
      PROVE  SubscriptionOwned'
  <2>1. CASE currentState \in Stable /\ notifySubscribers(s) /\ pc' = [pc EXCEPT ![p] = "idle"]
    BY <1>r, <2>1, NotifyOwned
  <2>2. CASE UNCHANGED <<subscribers, closed>> /\ \E q \in {"idle", "requesting"} : pc' = [pc EXCEPT ![p] = q]
    BY <1>r, <2>2 DEF SubscriptionOwned, Subscription
  <2> QED
    BY <1>r, <2>1, <2>2 DEF requestSwitch
<1>1. CASE \E s \in State : Set(s)
  BY <1>1, NotifyOwned DEF Set
<1>2. CASE \E a, b \in State : CompareAndSwap(a, b)
  BY <1>2, NotifyOwned DEF CompareAndSwap
<1>3. CASE \E p \in Proc, S \in WaitSet : WaitFor(p, S) \/ WaitForStateWithTimeout(p, S)
  BY <1>3, SubscribeOwned, AwaitedStates DEF WaitFor, WaitForStateWithTimeout
<1>4. ASSUME NEW p \in Proc, Wake(p) PROVE SubscriptionOwned'
  BY <1>4 DEF Wake, SubscriptionOwned, Subscription, PC
<1>5. ASSUME NEW p \in Proc, Timeout(p) PROVE SubscriptionOwned'
  BY <1>5 DEF Timeout, SubscriptionOwned, Subscription, PC
<1>6. ASSUME NEW p \in Proc, Unsubscribe(p) PROVE SubscriptionOwned'
  BY <1>6 DEF Unsubscribe, SubscriptionOwned, Subscription, PC
<1>7. ASSUME NEW p \in Proc, RequestWait(p) PROVE SubscriptionOwned'
  <2>1. CASE subscribe(p, SafeWait) /\ pc' = [pc EXCEPT ![p] = "safeBlocked"]
    BY <1>7, <2>1, SubscribeOwned, AwaitedStates DEF RequestWait
  <2>2. CASE UNCHANGED <<subscribers, closed>> /\ pc' = [pc EXCEPT ![p] = "retry"]
    BY <1>7, <2>2 DEF RequestWait, SubscriptionOwned, Subscription
  <2> QED
    BY <1>7, <2>1, <2>2 DEF RequestWait
<1>8. CASE \E p \in Proc : RequestRetry(p)
  BY <1>8, <1>r DEF RequestRetry
<1>9. CASE \E p \in Proc, s \in State : RequestSafeStateChange(p, s)
  BY <1>9, <1>r DEF RequestSafeStateChange
<1>10. CASE UNCHANGED vars
  BY <1>10 DEF vars, SubscriptionOwned
<1> QED
  BY <1>1, <1>2, <1>3, <1>4, <1>5, <1>6, <1>7, <1>8, <1>9, <1>10 DEF Next

\* notifySubscribers never closes a channel twice, and a call that returned
\* from a wait has left nothing in ts.subscribers.
THEOREM Bookkeeping == Spec => []SubscriptionOwned
<1>1. Init => SubscriptionOwned
  BY DEF Init, SubscriptionOwned
<1> QED
  BY <1>1, OwnedStep, TypeCorrect, PTL DEF Spec
-----------------------------------------------------------------------------
\* No Set or CompareAndSwap passes by a caller that waits for the new state.
LEMMA WakeupStep == NoLostWakeup /\ [Next]_vars => NoLostWakeup'
<1> SUFFICES ASSUME NoLostWakeup, [Next]_vars PROVE NoLostWakeup'
  OBVIOUS
<1> USE DEF NoLostWakeup
<1>n. ASSUME NEW s, notifySubscribers(s) PROVE NoLostWakeup'
  BY <1>n DEF notifySubscribers
<1>s. ASSUME NEW p, NEW S, subscribe(p, S) PROVE NoLostWakeup'
  BY <1>s DEF subscribe
<1>r. ASSUME NEW p, NEW s, requestSwitch(p, s) PROVE NoLostWakeup'
  BY <1>r, <1>n DEF requestSwitch
<1>1. CASE \E s \in State : Set(s)
  BY <1>1, <1>n DEF Set
<1>2. CASE \E a, b \in State : CompareAndSwap(a, b)
  BY <1>2, <1>n DEF CompareAndSwap
<1>3. CASE \E p \in Proc, S \in WaitSet : WaitFor(p, S) \/ WaitForStateWithTimeout(p, S)
  BY <1>3, <1>s DEF WaitFor, WaitForStateWithTimeout
<1>4. CASE \E p \in Proc : Wake(p) \/ Timeout(p) \/ Unsubscribe(p)
  BY <1>4 DEF Wake, Timeout, Unsubscribe
<1>5. CASE \E p \in Proc : RequestWait(p)
  BY <1>5, <1>s DEF RequestWait
<1>6. CASE \E p \in Proc : RequestRetry(p)
  BY <1>6, <1>r DEF RequestRetry
<1>7. CASE \E p \in Proc, s \in State : RequestSafeStateChange(p, s)
  BY <1>7, <1>r DEF RequestSafeStateChange
<1>8. CASE UNCHANGED vars
  BY <1>8 DEF vars
<1> QED
  BY <1>1, <1>2, <1>3, <1>4, <1>5, <1>6, <1>7, <1>8 DEF Next

\* No waiter is passed by: the state is checked and the subscription made in
\* one critical section, and every store notifies in the section that stores.
THEOREM NoWaiterPassedBy == Spec => []NoLostWakeup
<1>1. Init => NoLostWakeup
  BY DEF Init, NoLostWakeup
<1> QED
  BY <1>1, WakeupStep, PTL DEF Spec
-----------------------------------------------------------------------------
(* ThreadState implements StateCell. *)

\* The states p waits for, as the abstract cell sees them.
Wanted(p) == UNION {x.states : x \in {y \in subscribers : y.proc = p}}

\* No subscription is for the empty set of states.
Substantial == \A x \in subscribers : x.states # {}

\* WaitFor and RequestSafeStateChange never subscribe to no state at all.
LEMMA SubstantialStep == Substantial /\ [Next]_vars => Substantial'
<1> SUFFICES ASSUME Substantial, [Next]_vars PROVE Substantial'
  OBVIOUS
<1> USE DEF Substantial
<1>n. ASSUME NEW s, notifySubscribers(s) PROVE Substantial'
  BY <1>n DEF notifySubscribers
<1>s. ASSUME NEW p, NEW S, subscribe(p, S), S # {} PROVE Substantial'
  BY <1>s DEF subscribe
<1>r. ASSUME NEW p, NEW s, requestSwitch(p, s) PROVE Substantial'
  BY <1>r, <1>n DEF requestSwitch
<1>1. CASE \E s \in State : Set(s)
  BY <1>1, <1>n DEF Set
<1>2. CASE \E a, b \in State : CompareAndSwap(a, b)
  BY <1>2, <1>n DEF CompareAndSwap
<1>3. CASE \E p \in Proc, S \in WaitSet : WaitFor(p, S) \/ WaitForStateWithTimeout(p, S)
  <2>1. \A S \in WaitSet : S # {}
    BY StateAssumption
  <2> QED
    BY <1>3, <1>s, <2>1 DEF WaitFor, WaitForStateWithTimeout
<1>4. CASE \E p \in Proc : Wake(p) \/ Timeout(p) \/ Unsubscribe(p)
  BY <1>4 DEF Wake, Timeout, Unsubscribe
<1>5. CASE \E p \in Proc : RequestWait(p)
  BY <1>5, <1>s DEF RequestWait, SafeWait, Stable
<1>6. CASE \E p \in Proc : RequestRetry(p)
  BY <1>6, <1>r DEF RequestRetry
<1>7. CASE \E p \in Proc, s \in State : RequestSafeStateChange(p, s)
  BY <1>7, <1>r DEF RequestSafeStateChange
<1>8. CASE UNCHANGED vars
  BY <1>8 DEF vars
<1> QED
  BY <1>1, <1>2, <1>3, <1>4, <1>5, <1>6, <1>7, <1>8 DEF Next

\* With at most one subscription per caller, Wanted reads it off.
LEMMA WantedIs ==
  ASSUME SubscriptionOwned
  PROVE  /\ \A x \in subscribers : Wanted(x.proc) = x.states
         /\ \A p : (\A x \in subscribers : x.proc # p) => Wanted(p) = {}
<1>1. ASSUME NEW x \in subscribers PROVE Wanted(x.proc) = x.states
  <2>1. \A y \in subscribers : y.proc = x.proc => y = x
    BY DEF SubscriptionOwned
  <2> QED
    BY <2>1 DEF Wanted
<1>2. ASSUME NEW p, \A x \in subscribers : x.proc # p PROVE Wanted(p) = {}
  BY <1>2 DEF Wanted
<1> QED
  BY <1>1, <1>2

\* A store with its notifications is a Put of the abstract cell.
LEMMA NotifyIsPut ==
  ASSUME TypeOK, SubscriptionOwned, SubscriptionOwned', NEW s \in State, notifySubscribers(s)
  PROVE  Cell!Put(s)
<1> DEFINE W == [p \in Proc |-> Wanted(p)]
<1>1. closed' = closed \cup {p \in Proc : s \in W[p]}
  <2>1. ASSUME NEW p \in Proc PROVE s \in Wanted(p) <=> \E x \in subscribers : x.proc = p /\ s \in x.states
    BY DEF Wanted
  <2>2. \A x \in subscribers : x.proc \in Proc
    BY DEF TypeOK, Subscription
  <2> QED
    BY <2>1, <2>2 DEF notifySubscribers
<1>2. ASSUME NEW p \in Proc PROVE Wanted(p)' = IF s \in Wanted(p) THEN {} ELSE Wanted(p)
  <2>1. CASE \E x \in subscribers : x.proc = p
    <3> PICK x \in subscribers : x.proc = p
      BY <2>1
    <3>1. Wanted(p) = x.states
      BY WantedIs
    <3>2. CASE s \in x.states
      <4>1. \A y \in subscribers' : y.proc # p
        BY <3>2 DEF notifySubscribers, SubscriptionOwned
      <4>2. Wanted(p)' = {}
        BY <4>1 DEF Wanted
      <4> QED
        BY <3>1, <3>2, <4>2
    <3>3. CASE s \notin x.states
      <4>1. {y \in subscribers' : y.proc = p} = {y \in subscribers : y.proc = p}
        BY <3>3 DEF notifySubscribers, SubscriptionOwned
      <4>2. Wanted(p)' = Wanted(p)
        BY <4>1 DEF Wanted
      <4> QED
        BY <3>1, <3>3, <4>2
    <3> QED
      BY <3>2, <3>3
  <2>2. CASE \A x \in subscribers : x.proc # p
    <3>1. Wanted(p) = {}
      BY <2>2, WantedIs
    <3>2. \A y \in subscribers' : y.proc # p
      BY <2>2 DEF notifySubscribers
    <3>3. Wanted(p)' = {}
      BY <3>2 DEF Wanted
    <3> QED
      BY <3>1, <3>3
  <2> QED
    BY <2>1, <2>2
<1>3. currentState' = s
  BY DEF notifySubscribers
<1> QED
  BY <1>1, <1>2, <1>3 DEF Cell!Put, Wanted

\* A new subscription is an Ask.
LEMMA SubscribeIsAsk ==
  ASSUME TypeOK, SubscriptionOwned, NEW p \in Proc, NEW S \in SUBSET State,
         subscribe(p, S), pc[p] \notin Waiting
  PROVE  Cell!Ask(p, S)
<1>1. p \notin closed /\ \A x \in subscribers : x.proc # p
  BY DEF SubscriptionOwned, Waiting
<1>2. Wanted(p) = {}
  BY <1>1, WantedIs
<1>3. {x \in subscribers' : x.proc = p} = {[proc |-> p, states |-> S]}
  BY <1>1 DEF subscribe
<1>4. Wanted(p)' = S
  <2>1. Wanted(p)' = UNION {x.states : x \in {[proc |-> p, states |-> S]}}
    BY <1>3 DEF Wanted
  <2>2. {x.states : x \in {[proc |-> p, states |-> S]}} = {S}
    OBVIOUS
  <2> QED
    BY <2>1, <2>2
<1>5. ASSUME NEW q \in Proc, q # p PROVE Wanted(q)' = Wanted(q)
  <2>1. {x \in subscribers' : x.proc = q} = {x \in subscribers : x.proc = q}
    BY <1>5 DEF subscribe
  <2> QED
    BY <2>1 DEF Wanted
<1>6. [q \in Proc |-> Wanted(q)]' = [[q \in Proc |-> Wanted(q)] EXCEPT ![p] = S]
  BY <1>4, <1>5
<1>7. currentState \notin S /\ UNCHANGED <<currentState, closed>>
  BY DEF subscribe
<1> QED
  BY <1>1, <1>2, <1>6, <1>7 DEF Cell!Ask, Wanted

\* Nothing the abstract cell can see changes.
LEMMA SameCell ==
  ASSUME UNCHANGED <<currentState, subscribers, closed>>
  PROVE  UNCHANGED Cell!vars
  BY DEF Cell!vars

\* Every step of the locked code is a step, or a stutter, of the atomic cell.
LEMMA CellStep ==
  TypeOK /\ SubscriptionOwned /\ SubscriptionOwned' /\ Substantial /\ [Next]_vars
    => [Cell!Next]_(Cell!vars)
<1> SUFFICES ASSUME TypeOK, SubscriptionOwned, SubscriptionOwned', Substantial, [Next]_vars
             PROVE  [Cell!Next]_(Cell!vars)
  OBVIOUS
<1>r. ASSUME NEW p \in Proc, NEW s \in State, requestSwitch(p, s) PROVE [Cell!Next]_(Cell!vars)
  BY <1>r, NotifyIsPut, SameCell DEF requestSwitch, Cell!Next
<1>1. CASE \E s \in State : Set(s)
  BY <1>1, NotifyIsPut DEF Set, Cell!Next
<1>2. CASE \E a, b \in State : CompareAndSwap(a, b)
  BY <1>2, NotifyIsPut DEF CompareAndSwap, Cell!Next
<1>3. CASE \E p \in Proc, S \in WaitSet : WaitFor(p, S) \/ WaitForStateWithTimeout(p, S)
  BY <1>3, SubscribeIsAsk, AwaitedStates DEF WaitFor, WaitForStateWithTimeout, Waiting, Cell!Next
<1>4. ASSUME NEW p \in Proc, Wake(p) PROVE [Cell!Next]_(Cell!vars)
  <2>1. Cell!Return(p)
    BY <1>4 DEF Wake, Cell!Return
  <2> QED
    BY <2>1 DEF Cell!Next
<1>5. ASSUME NEW p \in Proc, Timeout(p) PROVE [Cell!Next]_(Cell!vars)
  BY <1>5, SameCell DEF Timeout
<1>6. ASSUME NEW p \in Proc, Unsubscribe(p) PROVE [Cell!Next]_(Cell!vars)
  <2>1. CASE \E x \in subscribers : x.proc = p
    <3> PICK x \in subscribers : x.proc = p
      BY <2>1
    <3>1. p \notin closed /\ closed' = closed
      BY <1>6 DEF Unsubscribe, SubscriptionOwned
    <3>2. Wanted(p) # {}
      BY WantedIs DEF Substantial
    <3>3. \A q \in Proc : Wanted(q)' = IF q = p THEN {} ELSE Wanted(q)
      <4>1. ASSUME NEW q \in Proc, q # p PROVE Wanted(q)' = Wanted(q)
        <5>1. {y \in subscribers' : y.proc = q} = {y \in subscribers : y.proc = q}
          BY <1>6, <4>1 DEF Unsubscribe
        <5> QED
          BY <5>1 DEF Wanted
      <4>2. Wanted(p)' = {}
        <5>1. {y \in subscribers' : y.proc = p} = {}
          BY <1>6 DEF Unsubscribe
        <5> QED
          BY <5>1 DEF Wanted
      <4> QED
        BY <4>1, <4>2
    <3>4. [q \in Proc |-> Wanted(q)]' = [[q \in Proc |-> Wanted(q)] EXCEPT ![p] = {}]
      BY <3>3
    <3>5. Cell!Withdraw(p)
      BY <1>6, <3>1, <3>2, <3>4 DEF Unsubscribe, Cell!Withdraw, Wanted
    <3> QED
      BY <3>5 DEF Cell!Next
  <2>2. CASE \A x \in subscribers : x.proc # p
    <3>1. UNCHANGED <<currentState, subscribers>> /\ closed' = closed \ {p}
      BY <1>6, <2>2 DEF Unsubscribe
    <3>2. CASE p \in closed
      BY <3>1, <3>2 DEF Cell!Next, Cell!Return
    <3>3. CASE p \notin closed
      <4>1. closed' = closed
        BY <3>1, <3>3
      <4> QED
        BY <3>1, <4>1, SameCell
    <3> QED
      BY <3>2, <3>3
  <2> QED
    BY <2>1, <2>2
<1>7. ASSUME NEW p \in Proc, RequestWait(p) PROVE [Cell!Next]_(Cell!vars)
  BY <1>7, SubscribeIsAsk, AwaitedStates, SameCell DEF RequestWait, Waiting, Cell!Next
<1>8. CASE \E p \in Proc : RequestRetry(p)
  BY <1>8, <1>r DEF RequestRetry, TypeOK
<1>9. CASE \E p \in Proc, s \in State : RequestSafeStateChange(p, s)
  BY <1>9, <1>r DEF RequestSafeStateChange
<1>10. CASE UNCHANGED vars
  BY <1>10, SameCell DEF vars
<1> QED
  BY <1>1, <1>2, <1>3, <1>4, <1>5, <1>6, <1>7, <1>8, <1>9, <1>10 DEF Next

\* Every behaviour of the ThreadState object is a behaviour of the abstract
\* cell: callers may rely on the pulses of StateCell and on nothing else.
THEOREM ImplementsCell == Spec => CellSpec
<1>1. Init => Cell!Init
  BY DEF Init, Cell!Init
<1>2. Init => Substantial
  BY DEF Init, Substantial
<1> QED
  BY <1>1, <1>2, CellStep, SubstantialStep, TypeCorrect, Bookkeeping, PTL
  DEF Spec, CellSpec, Cell!Spec
-----------------------------------------------------------------------------
(* Induction on the steps of a loop *)

\* A nonempty set of naturals has a least element.
LEMMA LeastNat ==
    ASSUME NEW T \in SUBSET Nat, T # {}
    PROVE  \E n \in T : \A m \in T : n <= m
  <1>1. PICK n \in T : \A m \in T : ~(<<m, n>> \in OpToRel(<, Nat))
    BY WFMin, NatLessThanWellFounded, Zenon
  <1>2. \A m \in T : ~(m < n)
    BY <1>1, Zenon DEF OpToRel
  <1> QED
    BY <1>2

\* A set that holds 0, and with each number below k the next one, holds all of them up
\* to k: how the loops over lists in Declarations, Routing and WatchPattern are followed.
LEMMA UpToInduction ==
    ASSUME NEW S, NEW k \in Nat, 0 \in S, \A n \in 0 .. k - 1 : n \in S => n + 1 \in S
    PROVE  0 .. k \subseteq S
  <1> DEFINE T == {n \in 0 .. k : n \notin S}
  <1>1. ASSUME T # {} PROVE FALSE
    <2>0. T \in SUBSET Nat
      OBVIOUS
    <2> HIDE DEF T
    <2>1. PICK n \in T : \A m \in T : n <= m
      BY <1>1, <2>0, LeastNat, Zenon
    <2> USE DEF T
    <2>2. n # 0 /\ n \in 0 .. k /\ n \notin S
      BY <2>1
    <2>3. n - 1 \in 0 .. k - 1
      BY <2>2
    <2>4. n - 1 \notin T
      BY <2>1, <2>3
    <2>5. n - 1 \in S
      BY <2>3, <2>4
    <2>6. (n - 1) + 1 \in S
      BY <2>3, <2>5
    <2> QED
      BY <2>2, <2>6
  <1> QED
    BY <1>1

\* f is computed in k steps from b by G, with its values in V
Recurs(f, V, b, k, G) ==
    /\ f \in [0 .. k -> V]
    /\ f[0] = b
    /\ \A n \in 1 .. k : f[n - 1] \in V /\ f[n] = G[<<f[n - 1], n>>]

\* Such an f exists.
LEMMA RecursionExists ==
    ASSUME NEW V, NEW b \in V, NEW k \in Nat, NEW G \in [V \X (1 .. k) -> V]
    PROVE  \E f : Recurs(f, V, b, k, G)
  <1> DEFINE N == {n \in 0 .. k : \E f : Recurs(f, V, b, n, G)}
  <1>1. 0 \in N
    <2> DEFINE f == [m \in 0 .. 0 |-> b]
    <2>1. f \in [0 .. 0 -> V] /\ f[0] = b /\ 1 .. 0 = {} /\ 0 \in 0 .. k
      BY SMT
    <2> HIDE DEF f
    <2>2. Recurs(f, V, b, 0, G)
      BY <2>1, Zenon DEF Recurs
    <2> QED
      BY <2>1, <2>2, Zenon
  <1>2. ASSUME NEW n \in 0 .. k - 1, n \in N PROVE n + 1 \in N
    <2>1. PICK f : Recurs(f, V, b, n, G)
      BY <1>2, Zenon
    <2> DEFINE v == G[<<f[n], n + 1>>]
               g == [m \in 0 .. n + 1 |-> IF m = n + 1 THEN v ELSE f[m]]
    <2>2. /\ n + 1 \in 1 .. k /\ n + 1 \in 0 .. k /\ n \in 0 .. n /\ n + 1 \in 0 .. n + 1 /\ (n + 1) - 1 = n
          /\ 0 # n + 1 /\ 0 \in 0 .. n /\ 0 \in 0 .. n + 1
          /\ \A m \in 0 .. n + 1 : m # n + 1 => m \in 0 .. n
          /\ \A m \in 1 .. n + 1 : /\ m \in 0 .. n + 1 /\ m - 1 \in 0 .. n /\ m - 1 \in 0 .. n + 1 /\ m - 1 # n + 1
                                   /\ m # n + 1 => m \in 1 .. n
      BY SMT
    <2>3. /\ f \in [0 .. n -> V] /\ f[0] = b
          /\ \A m \in 1 .. n : f[m - 1] \in V /\ f[m] = G[<<f[m - 1], m>>]
      BY <2>1, Zenon DEF Recurs
    <2>4. v \in V
      BY <2>2, <2>3, Zenon
    <2>5. /\ g[n + 1] = v /\ \A m \in 0 .. n : m # n + 1 => g[m] = f[m]
      BY <2>2, SMT
    <2>6. g \in [0 .. n + 1 -> V]
      <3> HIDE DEF v
      <3>1. \A m \in 0 .. n + 1 : (IF m = n + 1 THEN v ELSE f[m]) \in V
        BY <2>2, <2>3, <2>4, Zenon
      <3> QED
        BY <3>1, Zenon
    <2> HIDE DEF g
    <2>7. ASSUME NEW m \in 1 .. n + 1 PROVE g[m - 1] \in V /\ g[m] = G[<<g[m - 1], m>>]
      <3>1. g[m - 1] = f[m - 1] /\ g[m - 1] \in V
        BY <2>2, <2>5, <2>6, Zenon
      <3>2. CASE m = n + 1
        BY <2>2, <2>5, <3>1, <3>2, Zenon
      <3>3. CASE m # n + 1
        <4>1. m \in 1 .. n /\ m \in 0 .. n
          BY <2>2, <3>3, SMT
        <4> QED
          BY <2>3, <2>5, <3>1, <3>3, <4>1, Zenon
      <3> QED
        BY <3>2, <3>3, Zenon
    <2>8. g[0] = b
      BY <2>2, <2>3, <2>5, Zenon
    <2>9. Recurs(g, V, b, n + 1, G)
      BY <2>6, <2>7, <2>8, Zenon DEF Recurs
    <2> QED
      BY <2>2, <2>9, Zenon
  <1> HIDE DEF N
  <1>3. 0 .. k \subseteq N
    BY <1>1, <1>2, UpToInduction, Zenon
  <1>4. k \in 0 .. k
    BY SMT
  <1> QED
    BY <1>3, <1>4, Zenon DEF N

\* The type that the first value has and every step keeps is the type of all values.
LEMMA RecursionTyped ==
    ASSUME NEW V, NEW k \in Nat, NEW F, F[0] \in V, \A n \in 1 .. k : F[n - 1] \in V => F[n] \in V
    PROVE  \A n \in 0 .. k : F[n] \in V
  <1> DEFINE N == {n \in 0 .. k : F[n] \in V}
  <1>1. 0 \in N
    BY SMT
  <1>2. ASSUME NEW n \in 0 .. k - 1, n \in N PROVE n + 1 \in N
    <2>1. n + 1 \in 1 .. k /\ n + 1 \in 0 .. k /\ (n + 1) - 1 = n
      BY SMT
    <2> QED
      BY <1>2, <2>1, Zenon
  <1> HIDE DEF N
  <1>3. 0 .. k \subseteq N
    BY <1>1, <1>2, UpToInduction, Zenon
  <1> QED
    BY <1>3, Zenon DEF N
-----------------------------------------------------------------------------
(* Routing *)

\* Min, which the loops pick with, is the least element of a set of naturals.
LEMMA LeastMember ==
    ASSUME NEW T \in SUBSET Nat, T # {}
    PROVE  Min(T) \in T /\ \A m \in T : Min(T) <= m
  <1>1. PICK n \in T : \A m \in T : n <= m
    BY LeastNat, Zenon
  <1> QED
    BY <1>1, Zenon DEF Min

\* The segments that Clean skips, the one that leads up, and the others, which name
\* something
Skip(seg) == seg \in {"", "."}
Up(seg) == seg = ".."
IsName(seg) == ~Skip(seg) /\ ~Up(seg)
Names(Segment) == {seg \in Segment : IsName(seg)}

\* What path.Clean does with a segment, by its kind: nothing, drop the last name, or
\* keep it.
LEMMA CleanStep ==
    ASSUME NEW acc, NEW seg
    PROVE  /\ Skip(seg) => cleanSegment(acc, seg) = acc
           /\ Up(seg) => cleanSegment(acc, seg) = SubSeq(acc, 1, Len(acc) - 1)
           /\ IsName(seg) => cleanSegment(acc, seg) = Append(acc, seg)
           /\ Skip(seg) \/ Up(seg) \/ IsName(seg)
  BY Zenon DEF cleanSegment, Skip, Up, IsName

\* path.Clean keeps a list of names.
LEMMA CleanStepTyped ==
    ASSUME NEW Segment, NEW acc \in Seq(Names(Segment)), NEW seg \in Segment
    PROVE  cleanSegment(acc, seg) \in Seq(Names(Segment))
  <1>1. CASE Skip(seg)
    BY <1>1, CleanStep, Zenon
  <1>2. CASE Up(seg)
    <2>1. cleanSegment(acc, seg) = SubSeq(acc, 1, Len(acc) - 1)
      BY <1>2, CleanStep, Zenon
    <2>2. SubSeq(acc, 1, Len(acc) - 1) \in Seq(Names(Segment))
      BY SMT
    <2> QED
      BY <2>1, <2>2, Zenon
  <1>3. CASE IsName(seg)
    <2>1. cleanSegment(acc, seg) = Append(acc, seg) /\ seg \in Names(Segment)
      BY <1>3, CleanStep, Zenon DEF Names
    <2>2. Append(acc, seg) \in Seq(Names(Segment))
      BY <2>1, SMT
    <2> QED
      BY <2>1, <2>2, Zenon
  <1> QED
    BY <1>1, <1>2, <1>3, CleanStep, Zenon

\* What Clean holds after each segment
CleanOf(r, p, Segment) ==
    /\ r \in [0 .. Len(p) -> Seq(Names(Segment))]
    /\ r[0] = <<>>
    /\ \A n \in 1 .. Len(p) : r[n] = cleanSegment(r[n - 1], p[n])
    /\ Clean(p) = r[Len(p)]

\* Clean takes the segments one after the other.
LEMMA CleanRuns ==
    ASSUME NEW Segment, NEW p \in Seq(Segment)
    PROVE  \E r : CleanOf(r, p, Segment)
  <1> DEFINE V == Seq(Names(Segment))
             k == Len(p)
             b == <<>>
             Step(e, i) == cleanSegment(e, p[i])
             G == [x \in V \X (1 .. k) |-> Step(x[1], x[2])]
             Rec(f) == f = [i \in 0 .. k |-> IF i = 0 THEN b ELSE Step(f[i - 1], i)]
             F == CHOOSE f : Rec(f)
  <1>1. k \in Nat /\ b \in V
    BY SMT
  <1>2. \A e \in V, i \in 1 .. k : Step(e, i) \in V
    <2>1. ASSUME NEW e \in Seq(Names(Segment)), NEW i \in 1 .. Len(p) PROVE cleanSegment(e, p[i]) \in Seq(Names(Segment))
      <3>1. p[i] \in Segment
        BY SMT
      <3> QED
        BY <3>1, CleanStepTyped, Zenon
    <2> QED
      BY <2>1, Zenon
  <1>3. Clean(p) = F[Len(p)]
    BY Zenon DEF Clean
  <1> HIDE DEF V, Step, k, b
  <1>4. G \in [V \X (1 .. k) -> V]
    BY <1>2, Zenon
  <1>5. PICK f : Recurs(f, V, b, k, G)
    <2> HIDE DEF G
    <2> QED
      BY <1>1, <1>4, RecursionExists, Zenon
  <1>6. /\ 0 \in 0 .. k
        /\ \A n \in 0 .. k : n # 0 => n \in 1 .. k
        /\ \A n \in 1 .. k : n \in 0 .. k /\ n # 0
    BY <1>1, SMT
  <1>7. \A n \in 1 .. k : f[n] = Step(f[n - 1], n)
    BY <1>5, Zenon DEF Recurs
  <1>8. Rec(F)
    <2>1. \A n \in 0 .. k : f[n] = IF n = 0 THEN b ELSE Step(f[n - 1], n)
      BY <1>5, <1>6, <1>7, Zenon DEF Recurs
    <2>2. Rec(f)
      BY <1>5, <2>1, Zenon DEF Recurs
    <2> HIDE DEF Rec
    <2> QED
      BY <2>2, Zenon
  <1> HIDE DEF F
  <1>9. F[0] = b /\ \A n \in 1 .. k : F[n] = Step(F[n - 1], n)
    BY <1>6, <1>8, Zenon
  <1>10. F \in [0 .. k -> V]
    <2>1. \A n \in 1 .. k : F[n - 1] \in V => F[n] \in V
      BY <1>2, <1>9, Zenon
    <2>2. \A n \in 0 .. k : F[n] \in V
      BY <1>1, <1>9, <2>1, RecursionTyped, Zenon
    <2> QED
      BY <1>8, <2>2, Zenon
  <1> QED
    BY <1>3, <1>9, <1>10, Zenon DEF V, Step, k, b, CleanOf

\* The path without its segments from i to j
Without(p, i, j) == SubSeq(p, 1, i - 1) \o SubSeq(p, j + 1, Len(p))

\* The elements of two sequences put together.
LEMMA ConcatIs ==
    ASSUME NEW Segment, NEW u \in Seq(Segment), NEW v \in Seq(Segment)
    PROVE  /\ u \o v \in Seq(Segment) /\ Len(u \o v) = Len(u) + Len(v)
           /\ \A x \in 1 .. Len(u) : (u \o v)[x] = u[x]
           /\ \A x \in Len(u) + 1 .. Len(u) + Len(v) : (u \o v)[x] = v[x - Len(u)]
  BY SMT

\* The elements of a path without its segments i to j.
LEMMA WithoutTyped ==
    ASSUME NEW Segment, NEW p \in Seq(Segment), NEW i \in 1 .. Len(p), NEW j \in i .. Len(p)
    PROVE  /\ Without(p, i, j) \in Seq(Segment)
           /\ Len(Without(p, i, j)) = Len(p) - (j - i + 1)
           /\ \A x \in 1 .. i - 1 : Without(p, i, j)[x] = p[x]
           /\ \A x \in i .. Len(p) - (j - i + 1) : Without(p, i, j)[x] = p[x + (j - i + 1)]
  <1> DEFINE u == SubSeq(p, 1, i - 1)
             v == SubSeq(p, j + 1, Len(p))
  <1>1. Len(p) \in Nat /\ i \in Nat /\ j \in Nat /\ i >= 1 /\ j >= i /\ j <= Len(p)
    BY SMT
  <1>2. u \in Seq(Segment) /\ Len(u) = i - 1 /\ \A x \in 1 .. i - 1 : u[x] = p[x]
    BY <1>1, SMT
  <1>3. v \in Seq(Segment) /\ Len(v) = Len(p) - j /\ \A x \in 1 .. Len(p) - j : v[x] = p[j + x]
    BY <1>1, SMT
  <1> HIDE DEF u, v
  <1>4. /\ u \o v \in Seq(Segment) /\ Len(u \o v) = Len(u) + Len(v)
        /\ \A x \in 1 .. Len(u) : (u \o v)[x] = u[x]
        /\ \A x \in Len(u) + 1 .. Len(u) + Len(v) : (u \o v)[x] = v[x - Len(u)]
    BY <1>2, <1>3, ConcatIs, Zenon
  <1>5. Without(p, i, j) = u \o v
    BY Zenon DEF Without, u, v
  <1> DEFINE o == u \o v
  <1>6. o \in Seq(Segment) /\ Len(o) = Len(p) - (j - i + 1) /\ \A x \in 1 .. i - 1 : o[x] = p[x]
    BY <1>1, <1>2, <1>3, <1>4, SMT
  <1>7. ASSUME NEW x \in i .. Len(p) - (j - i + 1) PROVE o[x] = p[x + (j - i + 1)]
    <2>1. /\ x \in Len(u) + 1 .. Len(u) + Len(v) /\ x - Len(u) \in 1 .. Len(p) - j
          /\ j + (x - Len(u)) = x + (j - i + 1)
      BY <1>1, <1>2, <1>3, SMT
    <2> QED
      BY <1>3, <1>4, <2>1, Zenon
  <1> QED
    BY <1>5, <1>6, <1>7, Zenon

\* Segments after which Clean holds what it held before them can be left out.
LEMMA RemovalKeeps ==
    ASSUME NEW Segment, NEW p \in Seq(Segment), NEW i \in 1 .. Len(p), NEW j \in i .. Len(p),
           NEW r, CleanOf(r, p, Segment), r[i - 1] = r[j]
    PROVE  Clean(Without(p, i, j)) = Clean(p)
  <1> DEFINE o == Without(p, i, j)
             c == j - i + 1
  <1>1. /\ Len(p) \in Nat /\ i \in Nat /\ j \in Nat /\ i >= 1 /\ j >= i /\ j <= Len(p) /\ c \in Nat /\ c >= 1
    BY SMT
  <1>2. /\ o \in Seq(Segment) /\ Len(o) = Len(p) - c
        /\ \A x \in 1 .. i - 1 : o[x] = p[x]
        /\ \A x \in i .. Len(p) - c : o[x] = p[x + c]
    BY WithoutTyped, Zenon
  <1> HIDE DEF o
  <1>3. PICK s : CleanOf(s, o, Segment)
    BY <1>2, CleanRuns, Zenon
  <1> DEFINE P(m) == (m <= i - 1 => s[m] = r[m]) /\ (m >= i - 1 => s[m] = r[m + c])
             N == {m \in 0 .. Len(o) : P(m)}
  <1>4. (i - 1) + c = j /\ Len(o) \in Nat /\ i - 1 <= Len(o) /\ Len(o) + c = Len(p) /\ Len(o) \in 0 .. Len(o) /\ Len(o) >= i - 1
    BY <1>1, <1>2, SMT
  <1>5. 0 \in N
    <2>1. s[0] = r[0] /\ 0 \in 0 .. Len(o)
      BY <1>3, <1>4, SMT DEF CleanOf
    <2>2. 0 >= i - 1 => i - 1 = 0 /\ 0 + c = j
      BY <1>1, <1>4, SMT
    <2> QED
      BY <2>1, <2>2, Zenon
  <1>6. ASSUME NEW m \in 0 .. Len(o) - 1, m \in N PROVE m + 1 \in N
    <2>1. m + 1 \in 1 .. Len(o) /\ m + 1 \in 0 .. Len(o) /\ (m + 1) - 1 = m
      BY <1>4, SMT
    <2>2. s[m + 1] = cleanSegment(s[m], o[m + 1])
      BY <1>3, <2>1, Zenon DEF CleanOf
    <2>3. P(m)
      BY <1>6, Zenon
    <2>4. CASE m + 1 <= i - 1
      <3>1. m + 1 \in 1 .. i - 1 /\ m + 1 \in 1 .. Len(p) /\ m <= i - 1
        BY <1>1, <2>4, SMT
      <3>2. r[m + 1] = cleanSegment(r[m], p[m + 1])
        BY <2>1, <3>1, Zenon DEF CleanOf
      <3>3. s[m + 1] = r[m + 1]
        BY <1>2, <2>2, <2>3, <3>1, <3>2, Zenon
      <3>4. m + 1 >= i - 1 => m + 1 = i - 1
        BY <1>1, <2>4, SMT
      <3> QED
        BY <1>4, <2>1, <3>3, <3>4, Zenon
    <2>5. CASE ~(m + 1 <= i - 1)
      <3>1. m + 1 \in i .. Len(p) - c /\ (m + 1) + c \in 1 .. Len(p) /\ m >= i - 1 /\ ((m + 1) + c) - 1 = m + c
        BY <1>1, <1>2, <2>1, <2>5, SMT
      <3>2. r[(m + 1) + c] = cleanSegment(r[m + c], p[(m + 1) + c])
        BY <3>1, Zenon DEF CleanOf
      <3>3. s[m + 1] = r[(m + 1) + c]
        BY <1>2, <2>2, <2>3, <3>1, <3>2, Zenon
      <3> QED
        BY <2>1, <2>5, <3>3, Zenon
    <2> QED
      BY <2>4, <2>5, Zenon
  <1> HIDE DEF N
  <1>7. 0 .. Len(o) \subseteq N
    BY <1>4, <1>5, <1>6, UpToInduction, Zenon
  <1>8. s[Len(o)] = r[Len(p)]
    BY <1>4, <1>7, Zenon DEF N
  <1> QED
    BY <1>3, <1>8, Zenon DEF CleanOf, o

\* A path of names is clean.
LEMMA NamesAreClean ==
    ASSUME NEW Segment, NEW p \in Seq(Names(Segment))
    PROVE  Clean(p) = p
  <1>1. p \in Seq(Segment) /\ Len(p) \in Nat /\ \A x \in 1 .. Len(p) : p[x] \in Names(Segment)
    BY SMT DEF Names
  <1>2. PICK r : CleanOf(r, p, Segment)
    BY <1>1, CleanRuns, Zenon
  <1> DEFINE N == {m \in 0 .. Len(p) : r[m] = SubSeq(p, 1, m)}
  <1>3. 0 \in N
    <2>1. 0 \in 0 .. Len(p) /\ SubSeq(p, 1, 0) = <<>>
      BY <1>1, SMT
    <2> QED
      BY <1>2, <2>1, Zenon DEF CleanOf
  <1>4. ASSUME NEW m \in 0 .. Len(p) - 1, m \in N PROVE m + 1 \in N
    <2>1. m + 1 \in 1 .. Len(p) /\ (m + 1) - 1 = m /\ m + 1 \in 0 .. Len(p)
      BY <1>1, SMT
    <2>2. r[m + 1] = cleanSegment(r[m], p[m + 1]) /\ IsName(p[m + 1])
      BY <1>1, <1>2, <2>1, Zenon DEF CleanOf, Names
    <2>3. r[m + 1] = Append(SubSeq(p, 1, m), p[m + 1])
      BY <1>4, <2>2, CleanStep, Zenon
    <2>4. Append(SubSeq(p, 1, m), p[m + 1]) = SubSeq(p, 1, m + 1)
      BY <1>1, <2>1, SMT
    <2> QED
      BY <2>1, <2>3, <2>4, Zenon
  <1> HIDE DEF N
  <1>5. 0 .. Len(p) \subseteq N
    BY <1>1, <1>3, <1>4, UpToInduction, Zenon
  <1>6. Len(p) \in 0 .. Len(p) /\ SubSeq(p, 1, Len(p)) = p
    BY <1>1, SMT
  <1>7. r[Len(p)] = p
    BY <1>5, <1>6, Zenon DEF N
  <1> QED
    BY <1>2, <1>7, Zenon DEF CleanOf

\* What Shorter does: it leaves out a segment, or a name and the segment that leads
\* up again, or else the path has only names.
ShorterBy(p, i, j) ==
    /\ i \in 1 .. Len(p) /\ j \in i .. Len(p)
    /\ \/ j = i /\ Skip(p[i])
       \/ j = i /\ i = 1 /\ Up(p[i])
       \/ j = i + 1 /\ IsName(p[i]) /\ Up(p[j])

\* Shorter removes a dot segment, alone or with the name before it, unless the path has
\* only names.
LEMMA ShorterCases ==
    ASSUME NEW Segment, NEW p \in Seq(Segment)
    PROVE  \/ \E i, j : ShorterBy(p, i, j) /\ Shorter(p) = Without(p, i, j)
           \/ Shorter(p) = p /\ p \in Seq(Names(Segment))
  <1> DEFINE drop == {i \in DOMAIN p : p[i] \in {"", "."} \/ (i = 1 /\ p[i] = "..")}
             back == {i \in 1 .. Len(p) - 1 : ~HasDot(p[i]) /\ p[i] # "" /\ p[i + 1] = ".."}
  <1>0. DOMAIN p = 1 .. Len(p) /\ Len(p) \in Nat /\ \A x \in 1 .. Len(p) : p[x] \in Segment
    BY SMT
  <1>1. CASE drop # {}
    <2> DEFINE i == CHOOSE i \in drop : TRUE
    <2>1. i \in drop
      BY <1>1, Zenon
    <2>2. Shorter(p) = Without(p, i, i)
      BY <1>1, Zenon DEF Shorter, Without
    <2>3. i \in 1 .. Len(p) /\ (Skip(p[i]) \/ (i = 1 /\ Up(p[i])))
      <3> HIDE DEF i
      <3> QED
        BY <1>0, <2>1, Zenon DEF Skip, Up
    <2> HIDE DEF i
    <2>4. i \in i .. Len(p)
      BY <1>0, <2>3, SMT
    <2>5. ShorterBy(p, i, i)
      BY <2>3, <2>4, Zenon DEF ShorterBy
    <2> QED
      BY <2>2, <2>5, Zenon
  <1>2. CASE drop = {} /\ back # {}
    <2> DEFINE i == CHOOSE i \in back : TRUE
    <2>1. i \in back
      BY <1>2, Zenon
    <2>2. Shorter(p) = Without(p, i, i + 1)
      BY <1>2, Zenon DEF Shorter, Without
    <2> HIDE DEF i
    <2>3. i \in 1 .. Len(p) - 1 /\ IsName(p[i]) /\ Up(p[i + 1])
      BY <2>1, Zenon DEF Skip, Up, IsName, HasDot
    <2>4. i \in 1 .. Len(p) /\ i + 1 \in i .. Len(p)
      BY <1>0, <2>3, SMT
    <2>5. ShorterBy(p, i, i + 1)
      BY <2>3, <2>4, Zenon DEF ShorterBy
    <2> QED
      BY <2>2, <2>5, Zenon
  <1>3. CASE drop = {} /\ back = {}
    <2>1. Shorter(p) = p
      BY <1>3, Zenon DEF Shorter
    <2>2. \A x \in 1 .. Len(p) : ~Skip(p[x]) /\ (x = 1 => ~Up(p[x]))
      BY <1>0, <1>3, Zenon DEF Skip, Up
    <2>3. \A x \in 1 .. Len(p) - 1 : IsName(p[x]) => ~Up(p[x + 1])
      BY <1>3, Zenon DEF Skip, Up, IsName, HasDot
    <2> DEFINE T == {x \in 1 .. Len(p) : Up(p[x])}
    <2>4. ASSUME T # {} PROVE FALSE
      <3>1. T \in SUBSET Nat
        BY SMT
      <3>2. PICK x \in T : \A y \in T : x <= y
        <4> HIDE DEF T
        <4> QED
          BY <2>4, <3>1, LeastNat, Zenon
      <3>3. x \in 1 .. Len(p) /\ Up(p[x]) /\ x # 1
        BY <2>2, <3>2, Zenon
      <3>4. x - 1 \in 1 .. Len(p) - 1 /\ x - 1 \in 1 .. Len(p) /\ (x - 1) + 1 = x /\ ~(x <= x - 1)
        BY <1>0, <3>3, SMT
      <3>5. ~Up(p[x - 1])
        BY <3>2, <3>4, Zenon
      <3>6. IsName(p[x - 1])
        BY <2>2, <3>4, <3>5, Zenon DEF IsName
      <3> QED
        BY <2>3, <3>3, <3>4, <3>6, Zenon
    <2>5. \A x \in 1 .. Len(p) : p[x] \in Names(Segment)
      BY <1>0, <2>2, <2>4, Zenon DEF Names, IsName
    <2>6. p \in Seq(Names(Segment))
      <3> HIDE DEF drop, back, T
      <3> QED
        BY <2>5, SMT
    <2> QED
      BY <2>1, <2>6, Zenon
  <1> QED
    BY <1>1, <1>2, <1>3, Zenon

\* A removal keeps what Clean makes of the path.
LEMMA ShorterKeeps ==
    ASSUME NEW Segment, NEW p \in Seq(Segment)
    PROVE  /\ Shorter(p) \in Seq(Segment)
           /\ Clean(Shorter(p)) = Clean(p)
           /\ \/ Shorter(p) = p /\ p \in Seq(Names(Segment))
              \/ p \notin Seq(Names(Segment)) /\ Len(Shorter(p)) < Len(p)
  <1>1. CASE Shorter(p) = p /\ p \in Seq(Names(Segment))
    BY <1>1, Zenon
  <1>2. CASE \E i, j : ShorterBy(p, i, j) /\ Shorter(p) = Without(p, i, j)
    <2>1. PICK i, j : ShorterBy(p, i, j) /\ Shorter(p) = Without(p, i, j)
      BY <1>2, Zenon
    <2>2. i \in 1 .. Len(p) /\ j \in i .. Len(p)
      BY <2>1, Zenon DEF ShorterBy
    <2>3. Without(p, i, j) \in Seq(Segment) /\ Len(Without(p, i, j)) = Len(p) - (j - i + 1)
      BY <2>2, WithoutTyped, Zenon
    <2>4. Len(Without(p, i, j)) < Len(p)
      BY <2>2, <2>3, SMT
    <2>5. PICK r : CleanOf(r, p, Segment)
      BY CleanRuns, Zenon
    <2>6. r[i - 1] = r[j]
      <3>1. /\ i - 1 \in 0 .. Len(p) /\ i \in 0 .. Len(p) /\ i \in 1 .. Len(p) /\ (i + 1) - 1 = i
            /\ 1 - 1 = 0 /\ i \in Nat
        BY <2>2, SMT
      <3>2. r[i] = cleanSegment(r[i - 1], p[i]) /\ r[i - 1] \in Seq(Names(Segment)) /\ r[0] = <<>>
        BY <2>5, <3>1, Zenon DEF CleanOf
      <3>3. CASE j = i /\ Skip(p[i])
        BY <3>2, <3>3, CleanStep, Zenon
      <3>4. CASE j = i /\ i = 1 /\ Up(p[i])
        <4>1. r[i] = SubSeq(r[i - 1], 1, Len(r[i - 1]) - 1) /\ r[i - 1] = <<>>
          BY <3>1, <3>2, <3>4, CleanStep, Zenon
        <4>2. SubSeq(<<>>, 1, Len(<<>>) - 1) = <<>>
          BY SMT
        <4> QED
          BY <3>4, <4>1, <4>2, Zenon
      <3>5. CASE j = i + 1 /\ IsName(p[i]) /\ Up(p[j])
        <4>1. j \in 1 .. Len(p) /\ j - 1 = i
          BY <2>2, <3>5, SMT
        <4>2. r[j] = cleanSegment(r[i], p[j])
          BY <2>5, <4>1, Zenon DEF CleanOf
        <4>3. r[i] = Append(r[i - 1], p[i])
          BY <3>2, <3>5, CleanStep, Zenon
        <4>4. r[j] = SubSeq(r[i], 1, Len(r[i]) - 1)
          BY <3>5, <4>2, CleanStep, Zenon
        <4> DEFINE a == r[i - 1]
                   x == p[i]
        <4>5. x \in Segment /\ IsName(x)
          BY <2>2, <3>5, SMT
        <4>6. x \in Names(Segment)
          BY <4>5, Zenon DEF Names
        <4>7. SubSeq(Append(a, x), 1, Len(Append(a, x)) - 1) = a
          <5>1. a \in Seq(Names(Segment))
            BY <3>2, Zenon
          <5> HIDE DEF a, x
          <5> QED
            BY <4>6, <5>1, SMT
        <4> QED
          BY <4>3, <4>4, <4>7, Zenon
      <3> QED
        BY <2>1, <3>3, <3>4, <3>5, Zenon DEF ShorterBy
    <2>7. Clean(Without(p, i, j)) = Clean(p)
      BY <2>2, <2>5, <2>6, RemovalKeeps, Zenon
    <2>8. ASSUME p \in Seq(Names(Segment)) PROVE FALSE
      <3>1. j \in 1 .. Len(p)
        BY <2>2, SMT
      <3>2. \A x \in 1 .. Len(p) : p[x] \in Names(Segment)
        BY <2>8, SMT
      <3> QED
        BY <2>1, <2>2, <3>1, <3>2, Zenon DEF ShorterBy, Names, IsName
    <2> QED
      BY <2>1, <2>3, <2>4, <2>7, <2>8, Zenon
  <1> QED
    BY <1>1, <1>2, ShorterCases, Zenon

\* What is left of a path after each removal
MeaningOf(f, p, Segment) ==
    /\ f \in [0 .. Len(p) -> Seq(Segment)]
    /\ f[0] = p
    /\ \A n \in 1 .. Len(p) : f[n] = Shorter(f[n - 1])
    /\ Meaning(p) = f[Len(p)]

\* Meaning removes segments one after the other.
LEMMA MeaningRuns ==
    ASSUME NEW Segment, NEW p \in Seq(Segment)
    PROVE  \E r : MeaningOf(r, p, Segment)
  <1> DEFINE V == Seq(Segment)
             k == Len(p)
             b == p
             Step(e, i) == Shorter(e)
             G == [x \in V \X (1 .. k) |-> Step(x[1], x[2])]
             Rec(f) == f = [i \in 0 .. k |-> IF i = 0 THEN b ELSE Step(f[i - 1], i)]
             F == CHOOSE f : Rec(f)
  <1>1. k \in Nat /\ b \in V
    BY SMT
  <1>2. \A e \in V, i \in 1 .. k : Step(e, i) \in V
    BY ShorterKeeps, Zenon
  <1>3. Meaning(p) = F[Len(p)]
    BY Zenon DEF Meaning
  <1> HIDE DEF V, Step, k, b
  <1>4. G \in [V \X (1 .. k) -> V]
    BY <1>2, Zenon
  <1>5. PICK f : Recurs(f, V, b, k, G)
    <2> HIDE DEF G
    <2> QED
      BY <1>1, <1>4, RecursionExists, Zenon
  <1>6. /\ 0 \in 0 .. k
        /\ \A n \in 0 .. k : n # 0 => n \in 1 .. k
        /\ \A n \in 1 .. k : n \in 0 .. k /\ n # 0
    BY <1>1, SMT
  <1>7. \A n \in 1 .. k : f[n] = Step(f[n - 1], n)
    BY <1>5, Zenon DEF Recurs
  <1>8. Rec(F)
    <2>1. \A n \in 0 .. k : f[n] = IF n = 0 THEN b ELSE Step(f[n - 1], n)
      BY <1>5, <1>6, <1>7, Zenon DEF Recurs
    <2>2. Rec(f)
      BY <1>5, <2>1, Zenon DEF Recurs
    <2> HIDE DEF Rec
    <2> QED
      BY <2>2, Zenon
  <1> HIDE DEF F
  <1>9. F[0] = b /\ \A n \in 1 .. k : F[n] = Step(F[n - 1], n)
    BY <1>6, <1>8, Zenon
  <1>10. F \in [0 .. k -> V]
    <2>1. \A n \in 1 .. k : F[n - 1] \in V => F[n] \in V
      BY <1>2, <1>9, Zenon
    <2>2. \A n \in 0 .. k : F[n] \in V
      BY <1>1, <1>9, <2>1, RecursionTyped, Zenon
    <2> QED
      BY <1>8, <2>2, Zenon
  <1> QED
    BY <1>3, <1>9, <1>10, Zenon DEF V, Step, k, b, MeaningOf

\* Clean computes what a path means, in whichever order its dot segments are removed.
THEOREM CleanIsMeaning ==
    ASSUME NEW Segment, NEW p \in Seq(Segment)
    PROVE  Meaning(p) = Clean(p)
  <1>1. PICK f : MeaningOf(f, p, Segment)
    BY MeaningRuns, Zenon
  <1> DEFINE P(n) == /\ Clean(f[n]) = Clean(p)
                     /\ f[n] \in Seq(Names(Segment)) \/ Len(f[n]) <= Len(p) - n
             N == {n \in 0 .. Len(p) : P(n)}
  <1>2. Len(p) \in Nat /\ 0 \in 0 .. Len(p) /\ Len(p) \in 0 .. Len(p)
    BY SMT
  <1>3. 0 \in N
    <2>1. Len(p) <= Len(p) - 0
      BY <1>2, SMT
    <2> QED
      BY <1>1, <1>2, <2>1, Zenon DEF MeaningOf
  <1>4. ASSUME NEW n \in 0 .. Len(p) - 1, n \in N PROVE n + 1 \in N
    <2>1. n + 1 \in 1 .. Len(p) /\ (n + 1) - 1 = n /\ n + 1 \in 0 .. Len(p) /\ n \in 0 .. Len(p)
      BY <1>2, SMT
    <2>2. f[n + 1] = Shorter(f[n]) /\ f[n] \in Seq(Segment) /\ f[n + 1] \in Seq(Segment)
      BY <1>1, <2>1, Zenon DEF MeaningOf
    <2>3. /\ Clean(Shorter(f[n])) = Clean(f[n])
          /\ \/ Shorter(f[n]) = f[n] /\ f[n] \in Seq(Names(Segment))
             \/ f[n] \notin Seq(Names(Segment)) /\ Len(Shorter(f[n])) < Len(f[n])
      BY <2>2, ShorterKeeps, Zenon
    <2>4. Clean(f[n + 1]) = Clean(p)
      BY <1>4, <2>2, <2>3, Zenon
    <2>5. f[n + 1] \in Seq(Names(Segment)) \/ Len(f[n + 1]) <= Len(p) - (n + 1)
      <3>1. CASE f[n] \in Seq(Names(Segment))
        BY <2>2, <2>3, <3>1, Zenon
      <3>2. CASE f[n] \notin Seq(Names(Segment))
        <4>1. Len(f[n + 1]) < Len(f[n]) /\ Len(f[n]) <= Len(p) - n
          BY <1>4, <2>2, <2>3, <3>2, Zenon
        <4>2. Len(f[n + 1]) \in Nat /\ Len(f[n]) \in Nat
          BY <2>2, SMT
        <4>3. Len(f[n + 1]) <= Len(p) - (n + 1)
          BY <1>2, <4>1, <4>2, SMT
        <4> QED
          BY <4>3, Zenon
      <3> QED
        BY <3>1, <3>2, Zenon
    <2> QED
      BY <2>1, <2>4, <2>5, Zenon
  <1> HIDE DEF N
  <1>5. 0 .. Len(p) \subseteq N
    BY <1>2, <1>3, <1>4, UpToInduction, Zenon
  <1>6. P(Len(p)) /\ f[Len(p)] \in Seq(Segment)
    BY <1>1, <1>2, <1>5, Zenon DEF N, MeaningOf
  <1>7. f[Len(p)] \in Seq(Names(Segment))
    <2> DEFINE q == f[Len(p)]
    <2>1. ASSUME Len(q) <= Len(p) - Len(p) PROVE q \in Seq(Names(Segment))
      <3>1. q \in Seq(Segment)
        BY <1>6, Zenon
      <3> HIDE DEF q
      <3> QED
        BY <1>2, <2>1, <3>1, SMT
    <2> QED
      BY <1>6, <2>1, Zenon
  <1>8. Clean(f[Len(p)]) = f[Len(p)]
    BY <1>7, NamesAreClean, Zenon
  <1> QED
    BY <1>1, <1>6, <1>8, Zenon DEF MeaningOf

\* Clean keeps names of the path, and nothing else.
LEMMA CleanTyped ==
    ASSUME NEW Segment, NEW p \in Seq(Segment)
    PROVE  /\ Clean(p) \in Seq(Names(Segment)) /\ Clean(p) \in Seq(Segment)
           /\ \A x \in 1 .. Len(Clean(p)) : \E y \in 1 .. Len(p) : Clean(p)[x] = p[y]
           /\ \A x \in 1 .. Len(Clean(p)) : IsName(Clean(p)[x])
  <1> DEFINE own == {p[y] : y \in 1 .. Len(p)}
  <1>1. p \in Seq(own) /\ Len(p) \in Nat
    BY SMT
  <1> HIDE DEF own
  <1>2. ASSUME NEW S, p \in Seq(S) PROVE Clean(p) \in Seq(Names(S))
    <2>1. PICK r : CleanOf(r, p, S)
      BY <1>2, CleanRuns, Zenon
    <2>2. Len(p) \in 0 .. Len(p)
      BY <1>1, SMT
    <2> QED
      BY <2>1, <2>2, Zenon DEF CleanOf
  <1>3. Clean(p) \in Seq(Names(own)) /\ Clean(p) \in Seq(Names(Segment))
    BY <1>1, <1>2, Zenon
  <1> DEFINE c == Clean(p)
  <1>4. /\ \A x \in 1 .. Len(c) : c[x] \in Names(own)
        /\ \A x \in 1 .. Len(c) : c[x] \in Names(Segment)
    <2> HIDE DEF c
    <2> QED
      BY <1>3, SMT DEF c
  <1>5. c \in Seq(Segment)
    <2> HIDE DEF c
    <2> QED
      BY <1>3, SMT DEF c, Names
  <1>6. \A x \in 1 .. Len(c) : \E y \in 1 .. Len(p) : c[x] = p[y]
    BY <1>4, Zenon DEF Names, own
  <1>7. \A x \in 1 .. Len(c) : IsName(c[x])
    BY <1>4, Zenon DEF Names
  <1> QED
    BY <1>3, <1>5, <1>6, <1>7, Zenon

\* A last segment that Clean skips makes no difference.
LEMMA CleanAppended ==
    ASSUME NEW Segment, NEW p \in Seq(Segment), NEW b, Skip(b)
    PROVE  Clean(Append(p, b)) = Clean(p) /\ Append(p, b) \in Seq(Segment \cup {b})
  <1> DEFINE q == Append(p, b)
             n == Len(p) + 1
             S == Segment \cup {b}
  <1>1. /\ q \in Seq(S) /\ Len(q) = n /\ q[n] = b /\ n \in 1 .. Len(q) /\ n \in n .. Len(q) /\ n \in Nat
        /\ n - 1 \in 0 .. Len(q)
    BY SMT
  <1>2. Without(q, n, n) = p
    <2>1. SubSeq(q, 1, n - 1) = p /\ SubSeq(q, n + 1, Len(q)) = <<>> /\ p \o <<>> = p
      BY <1>1, SMT
    <2> HIDE DEF q
    <2> QED
      BY <2>1, Zenon DEF Without
  <1> HIDE DEF q, n, S
  <1>3. PICK r : CleanOf(r, q, S)
    BY <1>1, CleanRuns, Zenon
  <1>4. r[n] = cleanSegment(r[n - 1], q[n])
    BY <1>1, <1>3, Zenon DEF CleanOf
  <1>5. r[n - 1] = r[n]
    BY <1>1, <1>4, CleanStep, Zenon
  <1>6. Clean(p) = Clean(q)
    BY <1>1, <1>2, <1>3, <1>5, RemovalKeeps, Zenon
  <1> QED
    BY <1>1, <1>6, Zenon DEF q, S

\* cleanRequestPath leaves no dot segment, and keeps what the path means.
LEMMA RequestPathKeeps ==
    ASSUME NEW Segment, NEW p \in Seq(Segment)
    PROVE  /\ cleanRequestPath(p) \in Seq(Segment \cup {""})
           /\ Clean(cleanRequestPath(p)) = Clean(p)
           /\ \A x \in 1 .. Len(cleanRequestPath(p)) : ~HasDot(cleanRequestPath(p)[x])
  <1> DEFINE c == Clean(p)
             b == ""
             S == Segment \cup {b}
  <1>1. Skip(b) /\ ~HasDot(b)
    BY Zenon DEF Skip, HasDot
  <1>2. \A seg : IsName(seg) => ~HasDot(seg)
    BY Zenon DEF IsName, Skip, Up, HasDot
  <1>3. c \in Seq(Names(Segment)) /\ c \in Seq(Segment) /\ \A x \in 1 .. Len(c) : IsName(c[x])
    BY CleanTyped, Zenon
  <1>4. cleanRequestPath(p) \in {c, Append(c, b)} \/ (cleanRequestPath(p) = p /\ \A x \in DOMAIN p : ~HasDot(p[x]))
    BY Zenon DEF cleanRequestPath
  <1> HIDE DEF c, b
  <1>5. DOMAIN p = 1 .. Len(p) /\ p \in Seq(S)
    BY SMT
  <1>6. CASE cleanRequestPath(p) = p /\ \A x \in DOMAIN p : ~HasDot(p[x])
    BY <1>5, <1>6, Zenon DEF b
  <1>7. CASE cleanRequestPath(p) = c
    <2>1. Clean(c) = c
      BY <1>3, NamesAreClean, Zenon
    <2>2. c \in Seq(S)
      BY <1>3, SMT
    <2> QED
      BY <1>2, <1>3, <1>7, <2>1, <2>2, Zenon DEF b, c
  <1>8. CASE cleanRequestPath(p) = Append(c, b)
    <2>1. Clean(Append(c, b)) = Clean(c) /\ Append(c, b) \in Seq(S)
      BY <1>1, <1>3, CleanAppended, Zenon
    <2>2. Clean(c) = c
      BY <1>3, NamesAreClean, Zenon
    <2>3. \A x \in 1 .. Len(Append(c, b)) : (x \in 1 .. Len(c) /\ Append(c, b)[x] = c[x]) \/ Append(c, b)[x] = b
      BY <1>3, SMT
    <2>4. \A x \in 1 .. Len(Append(c, b)) : ~HasDot(Append(c, b)[x])
      BY <1>1, <1>2, <1>3, <2>3, Zenon
    <2> QED
      BY <1>8, <2>1, <2>2, <2>4, Zenon DEF b, c
  <1> QED
    BY <1>4, <1>6, <1>7, <1>8, Zenon

\* A segment of the path has one of the extensions
HasExt(p, exts) == \E i \in 1 .. Len(p) : \E k \in 1 .. Len(exts) : Ext[p[i]] = exts[k]

\* splitPos finds a position if a segment has one of the extensions.
LEMMA SplitPosFinds ==
    ASSUME NEW Segment, NEW p \in Seq(Segment), NEW E, NEW exts \in Seq(E)
    PROVE  /\ splitPos(p, exts) \in 0 .. Len(p)
           /\ splitPos(p, exts) # 0 <=> HasExt(p, exts)
           /\ \A i \in 1 .. splitPos(p, exts) - 1 : Ext[p[i]] # Ext[p[splitPos(p, exts)]]
           /\ splitPos(p, exts) # 0 => \E k \in 1 .. Len(exts) : Ext[p[splitPos(p, exts)]] = exts[k]
  <1> DEFINE ends(ext) == {i \in DOMAIN p : Ext[p[i]] = ext}
             found == {k \in DOMAIN exts : ends(exts[k]) # {}}
             k0 == Min(found)
             pos == Min(ends(exts[k0]))
  <1>1. DOMAIN p = 1 .. Len(p) /\ Len(p) \in Nat /\ DOMAIN exts = 1 .. Len(exts) /\ Len(exts) \in Nat
    BY SMT
  <1>2. splitPos(p, exts) = IF found = {} THEN 0 ELSE pos
    BY Zenon DEF splitPos
  <1>3. found # {} <=> HasExt(p, exts)
    BY <1>1, Zenon DEF HasExt
  <1>4. CASE found = {}
    <2>1. splitPos(p, exts) = 0 /\ 0 \in 0 .. Len(p) /\ 1 .. 0 - 1 = {}
      BY <1>1, <1>2, <1>4, SMT
    <2> QED
      BY <1>3, <1>4, <2>1, Zenon
  <1>5. CASE found # {}
    <2>1. found \in SUBSET Nat /\ \A ext : ends(ext) \in SUBSET Nat /\ ends(ext) \subseteq 1 .. Len(p)
      BY <1>1, SMT
    <2> HIDE DEF found
    <2>2. k0 \in found
      BY <1>5, <2>1, LeastMember, Zenon
    <2> HIDE DEF k0
    <2>3. k0 \in 1 .. Len(exts) /\ ends(exts[k0]) # {}
      BY <1>1, <2>2, Zenon DEF found
    <2> DEFINE T == ends(exts[k0])
    <2>4. T \in SUBSET Nat /\ T # {} /\ T \subseteq 1 .. Len(p)
      BY <2>1, <2>3, Zenon
    <2> HIDE DEF T
    <2>5. Min(T) \in T /\ \A m \in T : Min(T) <= m
      BY <2>4, LeastMember, Zenon
    <2>6. pos = Min(T)
      BY Zenon DEF T
    <2> HIDE DEF pos
    <2>7. pos \in 1 .. Len(p) /\ Ext[p[pos]] = exts[k0]
      BY <2>4, <2>5, <2>6, Zenon DEF T
    <2>8. \A i \in 1 .. pos - 1 : i \in 1 .. Len(p) /\ ~(pos <= i)
      BY <1>1, <2>7, SMT
    <2>9. \A i \in 1 .. pos - 1 : Ext[p[i]] # exts[k0]
      BY <1>1, <2>5, <2>6, <2>8, Zenon DEF T
    <2>10. pos \in 0 .. Len(p) /\ pos # 0
      BY <1>1, <2>7, SMT
    <2> QED
      BY <1>2, <1>3, <1>5, <2>3, <2>7, <2>9, <2>10, Zenon
  <1> QED
    BY <1>4, <1>5, Zenon

\* splitCgiPath, when no worker is assigned.
LEMMA SplitUnassigned ==
    ASSUME NEW p, NEW exts, NEW byPath
    PROVE  LET q == cleanRequestPath(p)
               pos == splitPos(q, exts)
               fc == splitCgiPath(p, exts, <<>>, byPath)
           IN  /\ fc.ok <=> pos # 0
               /\ fc.scriptName = SubSeq(q, 1, pos)
               /\ pos # 0 => fc.pathInfo = SubSeq(q, pos + 1, Len(q))
               /\ fc.scriptFilename = Root \o Clean(SubSeq(q, 1, pos))
  BY Zenon DEF splitCgiPath, sanitizedPathJoin

\* The two parts of a path that is split at pos make up the path.
LEMMA SplitSeq ==
    ASSUME NEW S, NEW q \in Seq(S), NEW pos \in 0 .. Len(q)
    PROVE  /\ SubSeq(q, 1, pos) \in Seq(S) /\ SubSeq(q, pos + 1, Len(q)) \in Seq(S)
           /\ SubSeq(q, 1, pos) \o SubSeq(q, pos + 1, Len(q)) = q
           /\ \A x \in 1 .. Len(SubSeq(q, pos + 1, Len(q))) :
                SubSeq(q, pos + 1, Len(q))[x] = q[pos + x] /\ pos + x \in 1 .. Len(q)
  <1> DEFINE a == SubSeq(q, 1, pos)
             b == SubSeq(q, pos + 1, Len(q))
  <1>1. /\ a \in Seq(S) /\ Len(a) = pos /\ \A x \in 1 .. pos : a[x] = q[x]
        /\ Len(q) \in Nat /\ pos \in Nat
    BY SMT
  <1>2. b \in Seq(S) /\ Len(b) = Len(q) - pos /\ \A x \in 1 .. Len(b) : b[x] = q[pos + x]
    BY SMT
  <1> HIDE DEF a, b
  <1> DEFINE o == a \o b
  <1>3. /\ o \in Seq(S) /\ Len(o) = Len(a) + Len(b)
        /\ \A x \in 1 .. Len(a) : o[x] = a[x]
        /\ \A x \in Len(a) + 1 .. Len(a) + Len(b) : o[x] = b[x - Len(a)]
    BY <1>1, <1>2, ConcatIs, Zenon
  <1> HIDE DEF o
  <1>4. ASSUME NEW x \in 1 .. Len(q) PROVE o[x] = q[x]
    <2>1. CASE x <= pos
      BY <1>1, <1>3, <2>1, SMT
    <2>2. CASE ~(x <= pos)
      <3>1. x \in Len(a) + 1 .. Len(a) + Len(b) /\ x - Len(a) \in 1 .. Len(b) /\ pos + (x - Len(a)) = x
        BY <1>1, <1>2, <2>2, SMT
      <3> QED
        BY <1>2, <1>3, <3>1, Zenon
    <2> QED
      BY <2>1, <2>2, Zenon
  <1>5. o = q
    BY <1>1, <1>2, <1>3, <1>4, SMT
  <1>6. \A x \in 1 .. Len(b) : pos + x \in 1 .. Len(q)
    BY <1>1, <1>2, SMT
  <1> QED
    BY <1>1, <1>2, <1>5, <1>6, Zenon DEF a, b, o

\* Scripts are below the root, for all paths and split extensions.
THEOREM ScriptsStayInRoot ==
    ASSUME NEW Segment, NEW path \in Seq(Segment), NEW E, NEW exts \in Seq(E), NEW byPath
    PROVE  ScriptInRoot(splitCgiPath(path, exts, <<>>, byPath), path)
  <1> DEFINE q == cleanRequestPath(path)
             pos == splitPos(q, exts)
             fc == splitCgiPath(path, exts, <<>>, byPath)
             S == Segment \cup {""}
             script == SubSeq(q, 1, pos)
             rest == SubSeq(q, pos + 1, Len(q))
  <1>1. /\ q \in Seq(S) /\ Clean(q) = Clean(path)
        /\ \A x \in 1 .. Len(q) : ~HasDot(q[x])
    BY RequestPathKeeps, Zenon
  <1>2. /\ fc.ok <=> pos # 0
        /\ fc.scriptName = script
        /\ pos # 0 => fc.pathInfo = rest
        /\ fc.scriptFilename = Root \o Clean(script)
    BY SplitUnassigned, Zenon
  <1> HIDE DEF q, S, fc
  <1>3. pos \in 0 .. Len(q)
    BY <1>1, SplitPosFinds, Zenon
  <1> HIDE DEF pos
  <1>4. /\ script \in Seq(S) /\ script \o rest = q
        /\ DOMAIN rest = 1 .. Len(rest)
        /\ \A x \in 1 .. Len(rest) : rest[x] = q[pos + x] /\ pos + x \in 1 .. Len(q)
    <2>1. script \in Seq(S) /\ rest \in Seq(S) /\ script \o rest = q
      BY <1>1, <1>3, SplitSeq, Zenon
    <2>2. \A x \in 1 .. Len(rest) : rest[x] = q[pos + x] /\ pos + x \in 1 .. Len(q)
      BY <1>1, <1>3, SplitSeq, Zenon
    <2> HIDE DEF script, rest
    <2>3. DOMAIN rest = 1 .. Len(rest)
      BY <2>1, SMT
    <2> QED
      BY <2>1, <2>2, <2>3, Zenon
  <1> HIDE DEF script, rest
  <1>5. Meaning(script) = Clean(script) /\ Meaning(q) = Clean(q) /\ Meaning(path) = Clean(path)
    BY <1>1, <1>4, CleanIsMeaning, Zenon
  <1>6. ScriptInRoot(fc, path)
    BY <1>1, <1>2, <1>4, <1>5, Zenon DEF ScriptInRoot
  <1> QED
    BY <1>6, Zenon DEF fc

\* Where try_files splits a file is where splitCgiPath splits the path of that file.
LEMMA FirstSplitIs ==
    ASSUME NEW S, NEW file \in Seq(S), NEW E, NEW exts \in Seq(E)
    PROVE  LET f == FirstSplit(file, exts)
           IN  /\ f.relative \in Seq(S) /\ f.remainder \in Seq(S) /\ f.relative \o f.remainder = file
               /\ splitPos(file, exts) # 0 => f.relative = SubSeq(file, 1, splitPos(file, exts))
               /\ splitPos(file, exts) = 0 => f.relative = file
  <1> DEFINE with == {i \in DOMAIN exts : \E j \in DOMAIN file : Ext[file[j]] = exts[i]}
             ends(ext) == {i \in DOMAIN file : Ext[file[i]] = ext}
             found == {k \in DOMAIN exts : ends(exts[k]) # {}}
             end == IF with = {} THEN Len(file) ELSE Min({j \in DOMAIN file : Ext[file[j]] = exts[Min(with)]})
             pos == splitPos(file, exts)
             f == FirstSplit(file, exts)
  <1>1. with = found
    BY Zenon
  <1>2. pos = IF with = {} THEN 0 ELSE Min({j \in DOMAIN file : Ext[file[j]] = exts[Min(with)]})
    BY <1>1, Zenon DEF splitPos
  <1>3. with # {} => HasExt(file, exts)
    BY SMT DEF HasExt
  <1>4. pos \in 0 .. Len(file) /\ (pos # 0 <=> HasExt(file, exts))
    BY SplitPosFinds, Zenon
  <1>5. f.relative = SubSeq(file, 1, end) /\ f.remainder = SubSeq(file, end + 1, Len(file))
    BY Zenon DEF FirstSplit
  <1> HIDE DEF with, pos
  <1>6. end = IF pos = 0 THEN Len(file) ELSE pos
    BY <1>2, <1>3, <1>4, Zenon
  <1> HIDE DEF end
  <1>7. end \in 0 .. Len(file) /\ SubSeq(file, 1, Len(file)) = file
    BY <1>4, <1>6, SMT
  <1>8. /\ SubSeq(file, 1, end) \in Seq(S) /\ SubSeq(file, end + 1, Len(file)) \in Seq(S)
        /\ SubSeq(file, 1, end) \o SubSeq(file, end + 1, Len(file)) = file
    BY <1>7, SplitSeq, Zenon
  <1> QED
    BY <1>5, <1>6, <1>7, <1>8, Zenon DEF pos

\* The file each entry of try_files stands for, by the entry.
LEMMA TryFileTyped ==
    ASSUME NEW N, NEW cleaned \in Seq(N), Index \in N, NEW entry
    PROVE  /\ TryFile(entry, cleaned) \in Seq(N)
           /\ entry = "path" => TryFile(entry, cleaned) = cleaned
           /\ entry \notin {"path", "index"} => TryFile(entry, cleaned) = Append(cleaned, Index)
           /\ entry = "index" => TryFile(entry, cleaned) = <<Index>>
  <1>1. cleaned \o <<>> = cleaned /\ cleaned \o <<Index>> = Append(cleaned, Index) /\ <<Index>> \in Seq(N)
        /\ Append(cleaned, Index) \in Seq(N)
    BY SMT
  <1>2. "index" # "path"
    BY SMT
  <1> QED
    BY <1>1, <1>2, Zenon DEF TryFile

\* The file that the k-th of the entries stands for, up to its split
Candidate(entries, exts, cleaned, k) == FirstSplit(TryFile(entries[k], cleaned), exts)

\* try_files found its k-th candidate, and none of those before
FoundFile(hits, entries, exts, cleaned, fs, k) ==
    /\ k \in 1 .. Len(entries) /\ hits = <<Candidate(entries, exts, cleaned, k)>>
    /\ Candidate(entries, exts, cleaned, k).relative \in fs
    /\ \A j \in 1 .. k - 1 : Candidate(entries, exts, cleaned, j).relative \notin fs

\* What a file matcher finds is the first of its entries that is a file, if one is.
LEMMA MatchFileIs ==
    ASSUME NEW T, NEW entries \in Seq(T), NEW exts, NEW cleaned, NEW fs
    PROVE  LET hits == MatchFile(entries, exts, cleaned, fs)
               is(k) == Candidate(entries, exts, cleaned, k).relative \in fs
           IN  /\ hits = <<>> => \A k \in 1 .. Len(entries) : ~is(k)
               /\ hits # <<>> => \E k : FoundFile(hits, entries, exts, cleaned, fs, k)
  <1> DEFINE tried == [i \in DOMAIN entries |-> FirstSplit(TryFile(entries[i], cleaned), exts)]
             H == {i \in DOMAIN tried : tried[i].relative \in fs}
             is(k) == Candidate(entries, exts, cleaned, k).relative \in fs
             cand(k) == Candidate(entries, exts, cleaned, k)
             hits == MatchFile(entries, exts, cleaned, fs)
  <1>1. DOMAIN entries = 1 .. Len(entries) /\ Len(entries) \in Nat
    BY SMT
  <1>2. hits = IF H = {} THEN <<>> ELSE <<tried[Min(H)]>>
    BY Zenon DEF MatchFile
  <1>3. H = {k \in 1 .. Len(entries) : is(k)} /\ \A k \in 1 .. Len(entries) : tried[k] = cand(k)
    BY <1>1, Zenon DEF Candidate
  <1> HIDE DEF H, tried, is, cand, hits
  <1>4. CASE H = {}
    BY <1>2, <1>3, <1>4, Zenon DEF is, hits
  <1>5. CASE H # {}
    <2>1. H \in SUBSET Nat
      BY <1>1, <1>3, SMT
    <2>2. Min(H) \in H /\ \A m \in H : Min(H) <= m
      BY <1>5, <2>1, LeastMember, Zenon
    <2> DEFINE k == Min(H)
    <2> HIDE DEF k
    <2>3. k \in 1 .. Len(entries) /\ is(k) /\ hits = <<cand(k)>>
      BY <1>2, <1>3, <1>5, <2>2, Zenon DEF k
    <2>4. \A j \in 1 .. k - 1 : j \in 1 .. Len(entries) /\ ~(k <= j)
      BY <1>1, <2>3, SMT
    <2>5. \A j \in 1 .. k - 1 : ~is(j)
      BY <1>3, <2>2, <2>4, Zenon DEF k
    <2>6. hits # <<>>
      BY <2>3, SMT
    <2> QED
      BY <2>3, <2>5, <2>6, Zenon DEF is, cand, hits, FoundFile
  <1> QED
    BY <1>4, <1>5, Zenon

\* The values that serve goes through
Handlers == {"existing", "worker", "redirect", "rewrite", "php", "file", "notFound", "anyFile"}
Entries == {"path", "dirIndex", "index"}
Routed(Segment) == [by : Handlers \cup {"none"}, path : Seq(Segment), matched : Seq(Segment)]
RouteSet == [handler : Handlers, tryFiles : Seq(Entries)]

\* A step of serve: the next route leaves the request alone, takes it, or rewrites
\* it to a file that one of its entries stands for.
Rewritten(acc, route, cfg, fs, k, new) ==
    LET file == TryFile(route.tryFiles[k], Clean(acc.path))
        cand(j) == Candidate(route.tryFiles, cfg.exts, Clean(acc.path), j)
    IN  /\ k \in 1 .. Len(route.tryFiles) /\ route.handler = "rewrite"
        /\ new = [acc EXCEPT !.path = file, !.matched = cand(k).relative]
        /\ cand(k).relative \in fs
        /\ \A j \in 1 .. k - 1 : cand(j).relative \notin fs

\* What the file matcher of a route finds, and whether the route takes the request
FileHits(acc, route, cfg, fs) ==
    MatchFile(route.tryFiles, IF route.handler = "rewrite" THEN cfg.exts ELSE <<>>, Clean(acc.path), fs)
Takes(acc, route, cfg, fs) ==
    acc.by = "none" /\ Matches(route.handler, cfg, FileHits(acc, route, cfg, fs) # <<>>, CleanPath(acc.path))

\* A route does nothing, handles the request, or rewrites its path to a file that it
\* found (nextRoute).
LEMMA RouteStep ==
    ASSUME NEW Segment, Index \in Names(Segment), NEW acc \in Routed(Segment), NEW route \in RouteSet,
           NEW cfg, cfg.exts \in Seq(STRING), NEW fs
    PROVE  /\ ~Takes(acc, route, cfg, fs) => nextRoute(acc, route, cfg, fs) = acc
           /\ Takes(acc, route, cfg, fs) /\ route.handler # "rewrite"
                => nextRoute(acc, route, cfg, fs) = [acc EXCEPT !.by = route.handler]
           /\ Takes(acc, route, cfg, fs) /\ route.handler = "rewrite"
                => \E k : Rewritten(acc, route, cfg, fs, k, nextRoute(acc, route, cfg, fs))
  <1> DEFINE new == nextRoute(acc, route, cfg, fs)
             hits == FileHits(acc, route, cfg, fs)
             take == Takes(acc, route, cfg, fs)
             re == [acc EXCEPT !.path = hits[1].relative \o hits[1].remainder, !.matched = hits[1].relative]
  <1>1. new = IF ~take THEN acc ELSE IF route.handler # "rewrite" THEN [acc EXCEPT !.by = route.handler] ELSE re
    BY Zenon DEF nextRoute, Try, Takes, FileHits
  <1>2. ASSUME take, route.handler = "rewrite" PROVE \E k : Rewritten(acc, route, cfg, fs, k, new)
    <2> DEFINE cleaned == Clean(acc.path)
               cand(j) == Candidate(route.tryFiles, cfg.exts, cleaned, j)
    <2>1. hits = MatchFile(route.tryFiles, cfg.exts, cleaned, fs)
      BY <1>2, Zenon DEF FileHits
    <2>2. hits # <<>>
      <3> HIDE DEF hits
      <3>1. Matches(route.handler, cfg, hits # <<>>, CleanPath(acc.path))
        BY <1>2, Zenon DEF Takes, hits
      <3> QED
        BY <1>2, <3>1, SMT DEF Matches
    <2>3. route.tryFiles \in Seq(Entries) /\ acc.path \in Seq(Segment)
      BY Zenon DEF RouteSet, Routed
    <2> DEFINE mf == MatchFile(route.tryFiles, cfg.exts, cleaned, fs)
    <2>0. PICK k : FoundFile(hits, route.tryFiles, cfg.exts, cleaned, fs, k)
      <3>1. mf # <<>> => \E k : FoundFile(mf, route.tryFiles, cfg.exts, cleaned, fs, k)
        <4> HIDE DEF cleaned
        <4> QED
          BY <2>3, MatchFileIs
      <3> HIDE DEF mf, hits
      <3> QED
        BY <2>1, <2>2, <3>1, Zenon DEF mf
    <2>4. /\ k \in 1 .. Len(route.tryFiles) /\ hits = <<cand(k)>>
          /\ cand(k).relative \in fs /\ \A j \in 1 .. k - 1 : cand(j).relative \notin fs
      <3> HIDE DEF hits
      <3> QED
        BY <2>0, Zenon DEF FoundFile
    <2>5. cleaned \in Seq(Names(Segment))
      BY <2>3, CleanTyped, Zenon
    <2> DEFINE file == TryFile(route.tryFiles[k], cleaned)
    <2>6. file \in Seq(Names(Segment))
      BY <2>5, TryFileTyped, Zenon
    <2>7. cand(k).relative \o cand(k).remainder = file
      <3> HIDE DEF file
      <3>1. cand(k) = FirstSplit(file, cfg.exts)
        BY Zenon DEF Candidate, file
      <3> QED
        BY <2>6, <3>1, FirstSplitIs, Zenon
    <2>8. hits[1] = cand(k)
      BY <2>4, SMT
    <2>9. new = [acc EXCEPT !.path = file, !.matched = cand(k).relative]
      <3> HIDE DEF new, file, cand, hits
      <3> QED
        BY <1>1, <1>2, <2>7, <2>8, Zenon
    <2> HIDE DEF new
    <2> QED
      BY <1>2, <2>4, <2>9, Zenon DEF Rewritten
  <1> HIDE DEF new, take
  <1> QED
    BY <1>1, <1>2, Zenon DEF new, take

\* A step of serve keeps the type of what it goes through.
LEMMA RouteTyped ==
    ASSUME NEW Segment, Index \in Names(Segment), NEW acc \in Routed(Segment), NEW route \in RouteSet,
           NEW cfg, cfg.exts \in Seq(STRING), NEW fs
    PROVE  nextRoute(acc, route, cfg, fs) \in Routed(Segment)
  <1> DEFINE new == nextRoute(acc, route, cfg, fs)
  <1>1. /\ \/ new = acc \/ new = [acc EXCEPT !.by = route.handler]
           \/ \E k : Rewritten(acc, route, cfg, fs, k, new)
    BY RouteStep, Zenon
  <1> HIDE DEF new
  <1>2. CASE new = acc
    BY <1>2, Zenon DEF new
  <1>3. CASE new = [acc EXCEPT !.by = route.handler]
    <2>1. [acc EXCEPT !.by = route.handler] \in Routed(Segment)
      BY Zenon DEF Routed, RouteSet
    <2> QED
      BY <1>3, <2>1, Zenon DEF new
  <1>4. ASSUME NEW k, Rewritten(acc, route, cfg, fs, k, new) PROVE new \in Routed(Segment)
    <2> DEFINE cleaned == Clean(acc.path)
               file == TryFile(route.tryFiles[k], cleaned)
               relative == FirstSplit(file, cfg.exts).relative
    <2>1. acc.path \in Seq(Segment)
      BY Zenon DEF Routed
    <2>2. cleaned \in Seq(Segment) /\ Index \in Segment
      BY <2>1, CleanTyped, Zenon DEF Names
    <2>3. file \in Seq(Segment)
      BY <2>2, TryFileTyped, Zenon
    <2>4. new = [acc EXCEPT !.path = file, !.matched = relative]
      BY <1>4, Zenon DEF Rewritten, Candidate
    <2> HIDE DEF file
    <2>5. relative \in Seq(Segment)
      BY <2>3, FirstSplitIs, Zenon
    <2> HIDE DEF relative
    <2>6. [acc EXCEPT !.path = file, !.matched = relative] \in Routed(Segment)
      BY <2>3, <2>5, Zenon DEF Routed
    <2> QED
      BY <2>4, <2>6, Zenon
  <1> QED
    BY <1>1, <1>2, <1>3, <1>4, Zenon DEF new

\* f is what the routes make of a request, one after the other
ServeOf(f, routes, cfg, path, fs, Segment) ==
    /\ f \in [0 .. Len(routes) -> Routed(Segment)] /\ f[0] = [by |-> "none", path |-> path, matched |-> <<>>]
    /\ \A n \in 1 .. Len(routes) : f[n] = nextRoute(f[n - 1], routes[n], cfg, fs)
    /\ serve(routes, cfg, path, fs) = f[Len(routes)]

\* The loop of serve
LEMMA ServeRuns ==
    ASSUME NEW Segment, Index \in Names(Segment), NEW routes \in Seq(RouteSet), NEW path \in Seq(Segment),
           NEW cfg, cfg.exts \in Seq(STRING), NEW fs
    PROVE  \E f : ServeOf(f, routes, cfg, path, fs, Segment)
  <1> DEFINE V == Routed(Segment)
             k == Len(routes)
             b == [by |-> "none", path |-> path, matched |-> <<>>]
             Step(e, i) == nextRoute(e, routes[i], cfg, fs)
             G == [p \in V \X (1 .. k) |-> Step(p[1], p[2])]
             Rec(f) == f = [i \in 0 .. k |-> IF i = 0 THEN b ELSE Step(f[i - 1], i)]
             F == CHOOSE f : Rec(f)
  <1>1. k \in Nat /\ b \in V
    <2>1. Len(routes) \in Nat /\ <<>> \in Seq(Segment)
      BY SMT
    <2>2. "none" \in Handlers \cup {"none"}
      BY Zenon
    <2> QED
      BY <2>1, <2>2, Zenon DEF Routed
  <1>2. \A e \in V, i \in 1 .. k : Step(e, i) \in V
    <2>1. \A i \in 1 .. k : routes[i] \in RouteSet
      BY SMT
    <2> QED
      BY <2>1, RouteTyped, Zenon
  <1>3. serve(routes, cfg, path, fs) = F[k]
    BY Zenon DEF serve
  <1> HIDE DEF V, Step, k, b
  <1>4. G \in [V \X (1 .. k) -> V]
    BY <1>2, Zenon
  <1>5. PICK f : Recurs(f, V, b, k, G)
    <2> HIDE DEF G
    <2> QED
      BY <1>1, <1>4, RecursionExists, Zenon
  <1>6. /\ 0 \in 0 .. k
        /\ \A n \in 0 .. k : n # 0 => n \in 1 .. k
        /\ \A n \in 1 .. k : n \in 0 .. k /\ n # 0
    BY <1>1, SMT
  <1>7. \A n \in 1 .. k : f[n] = Step(f[n - 1], n)
    BY <1>5, Zenon DEF Recurs
  <1>8. Rec(F)
    <2>1. \A n \in 0 .. k : f[n] = IF n = 0 THEN b ELSE Step(f[n - 1], n)
      BY <1>5, <1>6, <1>7, Zenon DEF Recurs
    <2>2. Rec(f)
      BY <1>5, <2>1, Zenon DEF Recurs
    <2> HIDE DEF Rec
    <2> QED
      BY <2>2, Zenon
  <1> HIDE DEF F
  <1>9. F[0] = b /\ \A n \in 1 .. k : F[n] = Step(F[n - 1], n)
    BY <1>6, <1>8, Zenon
  <1>10. F \in [0 .. k -> V]
    <2>1. \A n \in 1 .. k : F[n - 1] \in V => F[n] \in V
      BY <1>2, <1>9, Zenon
    <2>2. \A n \in 0 .. k : F[n] \in V
      BY <1>1, <1>9, <2>1, RecursionTyped, Zenon
    <2> QED
      BY <1>8, <2>2, Zenon
  <1> QED
    BY <1>3, <1>9, <1>10, Zenon DEF V, Step, k, b, ServeOf

\* What holds of a request on its way through the routes: a rewrite leaves a path of
\* names, cut where try_files cuts it, and the php route takes no other path than
\* one with an extension.
OnRoute(acc, cfg, Segment) ==
    /\ acc.path # <<>>
    /\ acc.matched # <<>> => /\ acc.path \in Seq(Names(Segment))
                             /\ acc.matched = FirstSplit(acc.path, cfg.exts).relative
    /\ acc.by = "php" => MatchExtensions(cfg.exts, CleanPath(acc.path))

\* Every route keeps the request on its route (nextRoute).
LEMMA RouteKeeps ==
    ASSUME NEW Segment, Index \in Names(Segment), NEW acc \in Routed(Segment), NEW route \in RouteSet,
           NEW cfg, cfg.exts \in Seq(STRING), NEW fs, <<>> \notin fs, OnRoute(acc, cfg, Segment)
    PROVE  OnRoute(nextRoute(acc, route, cfg, fs), cfg, Segment)
  <1> DEFINE new == nextRoute(acc, route, cfg, fs)
             take == Takes(acc, route, cfg, fs)
  <1>1. \/ new = acc
        \/ take /\ new = [acc EXCEPT !.by = route.handler]
        \/ take /\ \E k : Rewritten(acc, route, cfg, fs, k, new)
    BY RouteStep
  <1>0. DOMAIN acc = {"by", "path", "matched"}
    BY SMT DEF Routed
  <1> HIDE DEF new
  <1>2. CASE new = acc
    BY <1>2, Zenon DEF new
  <1>3. CASE take /\ new = [acc EXCEPT !.by = route.handler]
    <2>1. new.path = acc.path /\ new.matched = acc.matched /\ new.by = route.handler
      BY <1>0, <1>3, SMT
    <2>2. route.handler = "php" => MatchExtensions(cfg.exts, CleanPath(acc.path))
      <3> DEFINE found == FileHits(acc, route, cfg, fs) # <<>>
      <3>1. Matches(route.handler, cfg, found, CleanPath(acc.path))
        BY <1>3, Zenon DEF Takes
      <3> HIDE DEF found
      <3> QED
        BY <3>1, SMT DEF Matches
    <2> QED
      BY <2>1, <2>2, Zenon DEF OnRoute, new
  <1>4. ASSUME take, NEW k, Rewritten(acc, route, cfg, fs, k, new) PROVE OnRoute(new, cfg, Segment)
    <2> DEFINE cleaned == Clean(acc.path)
               file == TryFile(route.tryFiles[k], cleaned)
               relative == FirstSplit(file, cfg.exts).relative
    <2>1. acc.path \in Seq(Segment)
      BY Zenon DEF Routed
    <2>2. cleaned \in Seq(Names(Segment))
      BY <2>1, CleanTyped, Zenon
    <2>3. file \in Seq(Names(Segment))
      BY <2>2, TryFileTyped, Zenon
    <2>4. new = [acc EXCEPT !.path = file, !.matched = relative] /\ relative \in fs
      BY <1>4, Zenon DEF Rewritten, Candidate
    <2> HIDE DEF file
    <2>5. relative \o FirstSplit(file, cfg.exts).remainder = file /\ relative \in Seq(Names(Segment))
          /\ FirstSplit(file, cfg.exts).remainder \in Seq(Names(Segment))
      BY <2>3, FirstSplitIs, Zenon
    <2>6. relative # <<>>
      BY <2>4, Zenon
    <2>7. file # <<>>
      <3> DEFINE r == relative
                 m == FirstSplit(file, cfg.exts).remainder
      <3> HIDE DEF r, m
      <3>1. r \o m = file /\ r \in Seq(Names(Segment)) /\ r # <<>> /\ m \in Seq(Names(Segment))
        BY <2>5, <2>6, Zenon DEF r, m
      <3> QED
        BY <3>1, SMT
    <2>8. new.path = file /\ new.matched = relative /\ new.by = "none"
      <3>1. acc.by = "none"
        BY <1>4, Zenon DEF Takes
      <3> HIDE DEF relative
      <3> QED
        BY <1>0, <2>4, <3>1, SMT
    <2>9. "none" # "php"
      BY SMT
    <2> QED
      BY <2>3, <2>7, <2>8, <2>9, Zenon DEF OnRoute
  <1> QED
    BY <1>1, <1>2, <1>3, <1>4, Zenon DEF new

\* A path that ends with a name means something.
LEMMA LastIsKept ==
    ASSUME NEW Segment, NEW p \in Seq(Segment), p # <<>>, IsName(p[Len(p)])
    PROVE  Clean(p) # <<>>
  <1> DEFINE n == Len(p)
  <1>1. n \in 1 .. n /\ n - 1 \in 0 .. n /\ n \in Nat
    BY SMT
  <1>2. PICK r : CleanOf(r, p, Segment)
    BY CleanRuns, Zenon
  <1> HIDE DEF n
  <1>3. r[n] = cleanSegment(r[n - 1], p[n]) /\ Clean(p) = r[n] /\ r[n - 1] \in Seq(Names(Segment))
    BY <1>1, <1>2, Zenon DEF CleanOf, n
  <1>4. r[n] = Append(r[n - 1], p[n])
    BY <1>3, CleanStep, Zenon DEF n
  <1>5. Append(r[n - 1], p[n]) # <<>>
    BY <1>3, SMT
  <1> QED
    BY <1>3, <1>4, <1>5, Zenon

\* An extension that the path matchers see is in the path that splitCgiPath splits.
LEMMA MatchedIsSplit ==
    ASSUME NEW Segment, NEW p \in Seq(Segment), p # <<>>, NEW exts \in Seq(STRING),
           MatchExtensions(exts, CleanPath(p))
    PROVE  HasExt(cleanRequestPath(p), exts)
  <1> DEFINE c == Clean(p)
             b == ""
             q == cleanRequestPath(p)
             m == CleanPath(p)
             n == Len(p)
             hit(seg) == \E k \in 1 .. Len(exts) : Ext[seg] = exts[k]
  <1>1. n \in 1 .. n /\ n \in Nat /\ DOMAIN p = 1 .. n
    BY SMT
  <1>2. /\ (\A x \in DOMAIN p : ~HasDot(p[x])) => q = p
        /\ ~(\A x \in DOMAIN p : ~HasDot(p[x])) => q = m
    BY Zenon DEF cleanRequestPath, CleanPath
  <1>3. m = IF c = <<>> \/ p[n] = b THEN Append(c, b) ELSE c
    BY Zenon DEF CleanPath
  <1>4. c \in Seq(Segment) /\ \A x \in 1 .. Len(c) : \E y \in 1 .. n : c[x] = p[y]
    BY CleanTyped, Zenon
  <1>5. \A s : ~HasDot(s) /\ s # b => IsName(s)
    BY Zenon DEF HasDot, IsName, Skip, Up
  <1>6. IsName(p[n]) => c # <<>>
    BY LastIsKept, Zenon
  <1> HIDE DEF c, b, q, m, n
  <1>7. m \in Seq(Segment \cup {b})
    BY <1>3, <1>4, SMT
  <1>8. \E i \in 1 .. Len(m) : hit(m[i])
    <2>1. PICK i \in DOMAIN m : Ext[m[i]] \in Range(exts)
      BY Zenon DEF MatchExtensions, m
    <2>2. i \in 1 .. Len(m)
      BY <1>7, SMT
    <2>3. \E k \in 1 .. Len(exts) : Ext[m[i]] = exts[k]
      BY <2>1, SMT DEF Range
    <2> QED
      BY <2>2, <2>3, Zenon
  <1>9. CASE ~(\A x \in DOMAIN p : ~HasDot(p[x]))
    BY <1>2, <1>8, <1>9, Zenon DEF HasExt, q
  <1>10. CASE \A x \in DOMAIN p : ~HasDot(p[x])
    <2>1. PICK i \in 1 .. Len(m) : hit(m[i])
      BY <1>8, Zenon
    <2>2. (\E x \in 1 .. Len(c) : m[i] = c[x]) \/ ((c = <<>> \/ p[n] = b) /\ m[i] = b)
      BY <1>3, <1>4, <2>1, SMT
    <2>3. \E y \in 1 .. n : m[i] = p[y]
      BY <1>1, <1>4, <1>5, <1>6, <1>10, <2>2, Zenon
    <2>4. q = p
      BY <1>2, <1>10, Zenon
    <2>5. \E y \in 1 .. n : hit(p[y])
      BY <2>1, <2>3, Zenon
    <2> QED
      BY <2>4, <2>5, Zenon DEF HasExt, q, n
  <1> QED
    BY <1>9, <1>10, Zenon

\* try_files splits a file where splitPos does: Caddy's first_split and cgi.go agree.
LEMMA SplitWhereFound ==
    ASSUME NEW S, NEW file \in Seq(S), NEW E, NEW exts \in Seq(E), splitPos(file, exts) # 0
    PROVE  FirstSplit(file, exts).relative = SubSeq(file, 1, splitPos(file, exts))
  BY FirstSplitIs, Zenon

\* splitCgiPath, when a worker is assigned.
LEMMA SplitAssigned ==
    ASSUME NEW p, NEW exts, NEW byPath, NEW worker, worker # <<>>
    PROVE  splitCgiPath(p, exts, worker, byPath).ok /\ splitCgiPath(p, exts, worker, byPath).worker = worker
  BY Zenon DEF splitCgiPath

\* The router and splitCgiPath agree on the script: for every sequence of routes, all
\* options, paths and files.
THEOREM RouterAndContextAgree ==
    ASSUME NEW Segment, Index \in Names(Segment), NEW routes \in Seq(RouteSet), NEW path \in Seq(Segment),
           path # <<>>, NEW cfg, cfg.exts \in Seq(STRING), NEW fs, <<>> \notin fs
    PROVE  LET served == serve(routes, cfg, path, fs)
           IN  ScriptIsMatched(served, newContextFromRequest(served.path, cfg.exts, cfg.workers, {}))
  <1>1. PICK f : ServeOf(f, routes, cfg, path, fs, Segment)
    BY ServeRuns, Zenon
  <1> DEFINE k == Len(routes)
             served == serve(routes, cfg, path, fs)
  <1>2. k \in Nat /\ k \in 0 .. k /\ (\A n \in 1 .. k : n - 1 \in 0 .. k) /\ (\A n \in 1 .. k : routes[n] \in RouteSet)
    BY SMT
  <1>3. OnRoute(served, cfg, Segment) /\ served \in Routed(Segment)
    <2>1. OnRoute(f[0], cfg, Segment)
      <3>1. f[0].path = path /\ f[0].matched = <<>> /\ f[0].by = "none" /\ "none" # "php"
        BY <1>1, SMT DEF ServeOf
      <3> QED
        BY <3>1, Zenon DEF OnRoute
    <2>2. ASSUME NEW n \in 1 .. k, OnRoute(f[n - 1], cfg, Segment) PROVE OnRoute(f[n], cfg, Segment)
      <3>1. f[n] = nextRoute(f[n - 1], routes[n], cfg, fs) /\ f[n - 1] \in Routed(Segment) /\ routes[n] \in RouteSet
        BY <1>1, <1>2, Zenon DEF ServeOf
      <3> QED
        BY <2>2, <3>1, RouteKeeps, Zenon
    <2> DEFINE V == {a \in Routed(Segment) : OnRoute(a, cfg, Segment)}
    <2>3. \A n \in 0 .. k : f[n] \in V
      <3>1. f[0] \in V /\ \A n \in 1 .. k : f[n - 1] \in V => f[n] \in V
        <4>1. 0 \in 0 .. k /\ \A n \in 1 .. k : n \in 0 .. k
          BY <1>2, SMT
        <4> QED
          BY <1>1, <2>1, <2>2, <4>1, Zenon DEF ServeOf
      <3> HIDE DEF V, k
      <3> QED
        BY <1>2, <3>1, RecursionTyped, Zenon
    <2> QED
      BY <1>1, <1>2, <2>3, Zenon DEF ServeOf
  <1> HIDE DEF served, k
  <1> DEFINE p == served.path
             worker == matchRequest(cfg.workers, CleanPath(p))
             fc == newContextFromRequest(p, cfg.exts, cfg.workers, {})
  <1> SUFFICES ASSUME served.by = "php"
               PROVE  fc.ok /\ (fc.worker = <<>> /\ served.matched # <<>> => fc.scriptFilename = Root \o served.matched)
    BY Zenon DEF ScriptIsMatched, served
  <1>4. fc = splitCgiPath(p, cfg.exts, worker, {})
    BY Zenon DEF newContextFromRequest
  <1>5. CASE worker # <<>>
    <2> DEFINE sc == splitCgiPath(p, cfg.exts, worker, {})
    <2>0. sc.ok /\ sc.worker = worker
      <3> HIDE DEF worker, p
      <3> QED
        BY <1>5, SplitAssigned
    <2> HIDE DEF worker, fc, sc
    <2>1. fc.ok /\ fc.worker = worker
      BY <1>4, <2>0, Zenon DEF sc
    <2> QED
      BY <1>5, <2>1, Zenon
  <1>6. CASE worker = <<>>
    <2> DEFINE q == cleanRequestPath(p)
               pos == splitPos(q, cfg.exts)
               sc == splitCgiPath(p, cfg.exts, <<>>, {})
    <2>0. (sc.ok <=> pos # 0) /\ sc.scriptFilename = Root \o Clean(SubSeq(q, 1, pos))
      <3> HIDE DEF worker, p
      <3> QED
        BY SplitUnassigned
    <2> HIDE DEF worker, fc, sc
    <2>1. (fc.ok <=> pos # 0) /\ fc.scriptFilename = Root \o Clean(SubSeq(q, 1, pos))
      <3>1. fc = sc
        BY <1>4, <1>6, Zenon DEF sc
      <3> QED
        BY <2>0, <3>1, Zenon
    <2>2. p \in Seq(Segment) /\ p # <<>> /\ MatchExtensions(cfg.exts, CleanPath(p))
      BY <1>3, Zenon DEF OnRoute, Routed
    <2> HIDE DEF p
    <2>3. q \in Seq(Segment \cup {""})
      BY <2>2, RequestPathKeeps, Zenon
    <2>4. HasExt(q, cfg.exts)
      BY <2>2, MatchedIsSplit, Zenon
    <2>5. pos # 0 /\ pos \in 0 .. Len(q)
      BY <2>3, <2>4, SplitPosFinds, Zenon
    <2>6. ASSUME served.matched # <<>> PROVE fc.scriptFilename = Root \o served.matched
      <3>1. p \in Seq(Names(Segment)) /\ served.matched = FirstSplit(p, cfg.exts).relative
        BY <1>3, <2>6, Zenon DEF OnRoute, p
      <3>2. \A s \in Names(Segment) : ~HasDot(s)
        BY Zenon DEF Names, IsName, Skip, Up, HasDot
      <3>3. \A x \in DOMAIN p : p[x] \in Names(Segment)
        BY <3>1, SMT
      <3>4. q = p
        BY <3>2, <3>3, Zenon DEF cleanRequestPath
      <3>5. served.matched = SubSeq(p, 1, pos)
        <4> DEFINE rel == FirstSplit(p, cfg.exts).relative
                   at == splitPos(p, cfg.exts)
        <4>1. at # 0 => rel = SubSeq(p, 1, at)
          BY <3>1, SplitWhereFound, Zenon
        <4> HIDE DEF rel
        <4> QED
          BY <2>5, <3>1, <3>4, <4>1, Zenon DEF rel
      <3>6. SubSeq(p, 1, pos) \in Seq(Names(Segment))
        <4> HIDE DEF pos
        <4> QED
          BY <2>5, <3>1, <3>4, SplitSeq, Zenon
      <3>7. Clean(SubSeq(p, 1, pos)) = SubSeq(p, 1, pos)
        <4> DEFINE s == SubSeq(p, 1, pos)
        <4> HIDE DEF s
        <4>1. s \in Seq(Names(Segment))
          BY <3>6, Zenon DEF s
        <4>2. Clean(s) = s
          BY <4>1, NamesAreClean, Zenon
        <4> QED
          BY <4>2, Zenon DEF s
      <3> QED
        BY <2>1, <3>4, <3>5, <3>7, Zenon
    <2> QED
      BY <2>1, <2>5, <2>6, Zenon
  <1> QED
    BY <1>5, <1>6, Zenon

\* What a step of serve does.
StepIs(acc, route, cfg, fs, new) ==
    /\ ~Takes(acc, route, cfg, fs) => new = acc
    /\ Takes(acc, route, cfg, fs) /\ route.handler # "rewrite" =>
         new.by = route.handler /\ new.path = acc.path /\ new.matched = acc.matched
    /\ Takes(acc, route, cfg, fs) /\ route.handler = "rewrite" =>
         new.by = "none" /\ \E k : Rewritten(acc, route, cfg, fs, k, new)

\* As ServeOf, with each step by its cases
Run(f, routes, cfg, path, fs, Segment) ==
    /\ Len(routes) \in Nat /\ f \in [0 .. Len(routes) -> Routed(Segment)]
    /\ f[0].by = "none" /\ f[0].path = path /\ f[0].matched = <<>>
    /\ \A n \in 1 .. Len(routes) : routes[n] \in RouteSet /\ StepIs(f[n - 1], routes[n], cfg, fs, f[n])
    /\ serve(routes, cfg, path, fs) = f[Len(routes)]

\* serve runs the routes one after the other, by the cases of RouteStep.
LEMMA RunOf ==
    ASSUME NEW Segment, Index \in Names(Segment), NEW routes \in Seq(RouteSet), NEW path \in Seq(Segment),
           NEW cfg, cfg.exts \in Seq(STRING), NEW fs
    PROVE  \E f : Run(f, routes, cfg, path, fs, Segment)
  <1>1. PICK f : ServeOf(f, routes, cfg, path, fs, Segment)
    BY ServeRuns, Zenon
  <1>2. /\ Len(routes) \in Nat /\ \A n \in 1 .. Len(routes) : routes[n] \in RouteSet
        /\ \A n \in 1 .. Len(routes) : n - 1 \in 0 .. Len(routes)
    BY SMT
  <1>3. f[0].by = "none" /\ f[0].path = path /\ f[0].matched = <<>>
    BY <1>1, SMT DEF ServeOf
  <1>4. ASSUME NEW n \in 1 .. Len(routes) PROVE StepIs(f[n - 1], routes[n], cfg, fs, f[n])
    <2> DEFINE acc == f[n - 1]
               route == routes[n]
               new == f[n]
    <2>1. acc \in Routed(Segment) /\ route \in RouteSet /\ new = nextRoute(acc, route, cfg, fs)
      BY <1>1, <1>2, Zenon DEF ServeOf
    <2> HIDE DEF acc, route, new
    <2>2. /\ ~Takes(acc, route, cfg, fs) => new = acc
          /\ Takes(acc, route, cfg, fs) /\ route.handler # "rewrite" => new = [acc EXCEPT !.by = route.handler]
          /\ Takes(acc, route, cfg, fs) /\ route.handler = "rewrite" => \E k : Rewritten(acc, route, cfg, fs, k, new)
      BY <2>1, RouteStep
    <2>3. DOMAIN acc = {"by", "path", "matched"}
      BY <2>1, SMT DEF Routed
    <2>4. ASSUME new = [acc EXCEPT !.by = route.handler]
          PROVE  new.by = route.handler /\ new.path = acc.path /\ new.matched = acc.matched
      BY <2>3, <2>4, SMT
    <2>5. ASSUME Takes(acc, route, cfg, fs), NEW k, Rewritten(acc, route, cfg, fs, k, new) PROVE new.by = "none"
      <3>1. PICK p, m : new = [acc EXCEPT !.path = p, !.matched = m]
        BY <2>5, Zenon DEF Rewritten
      <3>2. acc.by = "none"
        BY <2>5, Zenon DEF Takes
      <3> QED
        BY <2>3, <3>1, <3>2, SMT
    <2>6. StepIs(acc, route, cfg, fs, new)
      BY <2>2, <2>4, <2>5, Zenon DEF StepIs
    <2> QED
      BY <2>6, Zenon DEF acc, route, new
  <1> QED
    BY <1>1, <1>2, <1>3, <1>4, Zenon DEF Run, ServeOf

\* What no step from a to b changes is the same at b.
LEMMA Constant ==
    ASSUME NEW f, NEW a \in Nat, NEW b \in Nat, a <= b, \A i \in a + 1 .. b : f[i - 1] = f[a] => f[i] = f[a]
    PROVE  f[b] = f[a]
  <1> DEFINE S == {n \in Nat : f[a + n] = f[a]}
  <1>1. 0 \in S
    BY SMT
  <1>2. \A n \in 0 .. (b - a) - 1 : n \in S => n + 1 \in S
    <2> TAKE n \in 0 .. (b - a) - 1
    <2>1. /\ a + (n + 1) \in a + 1 .. b /\ (a + (n + 1)) - 1 = a + n /\ n + 1 \in Nat
      BY SMT
    <2> QED
      BY <2>1, Zenon
  <1>3. b - a \in Nat /\ b - a \in 0 .. b - a /\ a + (b - a) = b
    BY SMT
  <1>4. 0 .. b - a \subseteq S
    <2> HIDE DEF S
    <2> QED
      BY <1>1, <1>2, <1>3, UpToInduction, Zenon
  <1>5. f[a + (b - a)] = f[a]
    BY <1>3, <1>4, Zenon
  <1> QED
    BY <1>3, <1>5, Zenon

\* Once a route took the request, no other does.
LEMMA Sticks ==
    ASSUME NEW f, NEW routes, NEW cfg, NEW path, NEW fs, NEW Segment, Run(f, routes, cfg, path, fs, Segment),
           NEW n \in 0 .. Len(routes), NEW j \in n .. Len(routes), f[n].by # "none"
    PROVE  f[j] = f[n]
  <1>1. Len(routes) \in Nat
    BY Zenon DEF Run
  <1>2. n \in Nat /\ j \in Nat /\ n <= j /\ \A i \in n + 1 .. j : i \in 1 .. Len(routes)
    BY <1>1, SMT
  <1>3. ASSUME NEW i \in n + 1 .. j, f[i - 1] = f[n] PROVE f[i] = f[n]
    <2>1. StepIs(f[i - 1], routes[i], cfg, fs, f[i])
      BY <1>2, Zenon DEF Run
    <2>2. ~Takes(f[i - 1], routes[i], cfg, fs)
      BY <1>3, Zenon DEF Takes
    <2> QED
      BY <1>3, <2>1, <2>2, Zenon DEF StepIs
  <1> QED
    BY <1>2, <1>3, Constant, Zenon

\* Routes that do not take the request leave it alone, unless they rewrite it.
LEMMA Idles ==
    ASSUME NEW f, NEW routes, NEW cfg, NEW path, NEW fs, NEW Segment, Run(f, routes, cfg, path, fs, Segment),
           NEW n \in 0 .. Len(routes), NEW j \in n .. Len(routes), \A i \in n .. j : f[i].by = "none",
           \A i \in n + 1 .. j : routes[i].handler # "rewrite"
    PROVE  f[j] = f[n]
  <1>1. Len(routes) \in Nat
    BY Zenon DEF Run
  <1>2. n \in Nat /\ j \in Nat /\ n <= j /\ \A i \in n + 1 .. j : i \in 1 .. Len(routes) /\ i \in n .. j
    BY <1>1, SMT
  <1>3. ASSUME NEW i \in n + 1 .. j, f[i - 1] = f[n] PROVE f[i] = f[n]
    <2>1. StepIs(f[i - 1], routes[i], cfg, fs, f[i]) /\ routes[i] \in RouteSet
      BY <1>2, Zenon DEF Run
    <2>2. "none" \notin Handlers /\ routes[i].handler \in Handlers
      BY <2>1, SMT DEF Handlers, RouteSet
    <2>3. ~Takes(f[i - 1], routes[i], cfg, fs)
      BY <1>2, <1>3, <2>1, <2>2, Zenon DEF StepIs
    <2> QED
      BY <1>3, <2>1, <2>3, Zenon DEF StepIs
  <1> QED
    BY <1>2, <1>3, Constant, Zenon

\* The route that took the request.
TakenBy(f, routes, cfg, fs, n, new) ==
    /\ n \in 1 .. Len(routes) /\ Takes(f[n - 1], routes[n], cfg, fs) /\ routes[n].handler # "rewrite"
    /\ new.by = routes[n].handler /\ new.path = f[n - 1].path /\ new.matched = f[n - 1].matched
    /\ \A i \in 0 .. n - 1 : f[i].by = "none"

\* A request that is handled was taken by one of the routes, and by none before it.
LEMMA TakenOnce ==
    ASSUME NEW f, NEW routes, NEW cfg, NEW path, NEW fs, NEW Segment, Run(f, routes, cfg, path, fs, Segment),
           NEW j \in 0 .. Len(routes), f[j].by # "none"
    PROVE  \E n \in 1 .. j : TakenBy(f, routes, cfg, fs, n, f[j])
  <1> DEFINE T == {i \in 0 .. j : f[i].by # "none"}
  <1>1. Len(routes) \in Nat
    BY Zenon DEF Run
  <1>2. T \in SUBSET Nat /\ j \in T
    BY <1>1, SMT
  <1>3. PICK n \in T : \A m \in T : n <= m
    <2> HIDE DEF T
    <2> QED
      BY <1>2, LeastNat, Zenon
  <1>4. n \in 0 .. j /\ f[n].by # "none" /\ n # 0
    <2>1. f[0].by = "none"
      BY Zenon DEF Run
    <2> QED
      BY <2>1, Zenon
  <1>5. n \in 1 .. j /\ n \in 1 .. Len(routes) /\ n \in 0 .. Len(routes) /\ j \in n .. Len(routes) /\ n - 1 \in 0 .. n - 1
    BY <1>1, <1>4, SMT
  <1>6. \A i \in 0 .. n - 1 : i \in 0 .. j /\ ~(n <= i)
    BY <1>1, <1>4, SMT
  <1>7. \A i \in 0 .. n - 1 : f[i].by = "none"
    BY <1>3, <1>6, Zenon
  <1>8. f[j] = f[n]
    BY <1>4, <1>5, Sticks, Zenon
  <1>9. StepIs(f[n - 1], routes[n], cfg, fs, f[n])
    BY <1>5, Zenon DEF Run
  <1>10. f[n - 1].by = "none"
    BY <1>5, <1>7, Zenon
  <1>11. Takes(f[n - 1], routes[n], cfg, fs) /\ routes[n].handler # "rewrite"
    BY <1>4, <1>9, <1>10, Zenon DEF StepIs
  <1>12. f[j].by = routes[n].handler /\ f[j].path = f[n - 1].path /\ f[j].matched = f[n - 1].matched
    BY <1>8, <1>9, <1>11, Zenon DEF StepIs
  <1> QED
    BY <1>5, <1>7, <1>11, <1>12, Zenon DEF TakenBy

\* The routes that may come before the php route, and after it.
RoutesBefore == {r \in RouteSet : r.handler \in {"existing", "worker", "redirect", "rewrite"}}
RoutesAfter(cfg) == {r \in RouteSet : \/ r.handler \in {"file", "notFound"}
                                      \/ r.handler = "anyFile" /\ cfg.exts = <<".php">>}
Shaped(routes, k, cfg) ==
    /\ routes \in Seq(RouteSet) /\ k \in 1 .. Len(routes) /\ routes[k].handler = "php"
    /\ \A n \in 1 .. k - 1 : routes[n] \in RoutesBefore
    /\ \A n \in k + 1 .. Len(routes) : routes[n] \in RoutesAfter(cfg)

\* A route is made of its handler and its try_files.
LEMMA RouteIsRoute ==
    ASSUME NEW h \in Handlers, NEW t \in Seq(Entries)
    PROVE  Route(h, t) \in RouteSet /\ Route(h, t).handler = h /\ Route(h, t).tryFiles = t
  BY Zenon DEF Route, RouteSet

\* The lists of try_files that parsePhpServer and cmdPHPServer use.
LEMMA EntryLists ==
    /\ <<>> \in Seq(Entries) /\ <<"path">> \in Seq(Entries) /\ <<"dirIndex">> \in Seq(Entries)
    /\ <<"path", "dirIndex", "index">> \in Seq(Entries) /\ <<"dirIndex", "index">> \in Seq(Entries)
  BY SMT DEF Entries

\* The list of one element.
LEMMA OneRoute ==
    ASSUME NEW X, NEW r \in X
    PROVE  <<r>> \in Seq(X) /\ Len(<<r>>) = 1 /\ <<r>>[1] = r /\ <<>> \in Seq(X)
  BY SMT

\* The list of two elements.
LEMMA TwoRoutes ==
    ASSUME NEW X, NEW r \in X, NEW s \in X
    PROVE  <<r, s>> \in Seq(X)
  BY SMT

\* Routes put before and after the php route leave it where they meet.
LEMMA JoinShaped ==
    ASSUME NEW cfg, NEW u \in Seq(RoutesBefore), NEW r \in RouteSet, r.handler = "php", NEW v \in Seq(RoutesAfter(cfg))
    PROVE  Shaped((u \o <<r>>) \o v, Len(u) + 1, cfg)
  <1> DEFINE w == u \o <<r>>
             o == w \o v
             l == Len(u)
  <1>1. RoutesBefore \subseteq RouteSet /\ RoutesAfter(cfg) \subseteq RouteSet
    BY Zenon DEF RoutesBefore, RoutesAfter
  <1>2. u \in Seq(RouteSet) /\ v \in Seq(RouteSet) /\ <<r>> \in Seq(RouteSet) /\ Len(<<r>>) = 1 /\ <<r>>[1] = r
        /\ l \in Nat /\ Len(v) \in Nat
        /\ (\A n \in 1 .. l : u[n] \in RoutesBefore) /\ (\A n \in 1 .. Len(v) : v[n] \in RoutesAfter(cfg))
    BY <1>1, SMT
  <1>3. /\ w \in Seq(RouteSet) /\ Len(w) = l + Len(<<r>>)
        /\ \A x \in 1 .. l : w[x] = u[x]
        /\ \A x \in l + 1 .. l + Len(<<r>>) : w[x] = <<r>>[x - l]
    BY <1>2, ConcatIs, Zenon
  <1> HIDE DEF w, l
  <1>4. /\ o \in Seq(RouteSet) /\ Len(o) = Len(w) + Len(v)
        /\ \A x \in 1 .. Len(w) : o[x] = w[x]
        /\ \A x \in Len(w) + 1 .. Len(w) + Len(v) : o[x] = v[x - Len(w)]
    BY <1>2, <1>3, ConcatIs, Zenon
  <1> HIDE DEF o
  <1>5. /\ l + 1 \in 1 .. Len(o) /\ l + 1 \in l + 1 .. l + Len(<<r>>) /\ (l + 1) - l = 1 /\ l + 1 \in 1 .. Len(w)
        /\ \A n \in 1 .. (l + 1) - 1 : n \in 1 .. l /\ n \in 1 .. Len(w)
        /\ \A n \in (l + 1) + 1 .. Len(o) : n \in Len(w) + 1 .. Len(w) + Len(v) /\ n - Len(w) \in 1 .. Len(v)
    BY <1>2, <1>3, <1>4, SMT
  <1>6. o[l + 1] = r
    BY <1>2, <1>3, <1>4, <1>5, Zenon
  <1>7. Shaped(o, l + 1, cfg)
    BY <1>2, <1>3, <1>4, <1>5, <1>6, Zenon DEF Shaped
  <1> QED
    BY <1>7, Zenon DEF o, w, l

\* The options of php_server and of the command; the command has the default
\* extension.
IsConfig(cfg) ==
    /\ cfg.exts \in Seq(STRING) /\ cfg.tryFiles \in Seq(Entries)
    /\ cfg.command => cfg.exts = <<".php">>

\* The routes of prependWorkerRoutes
WorkerRoutes == {Route("existing", <<"path">>), Route("worker", <<>>)}

\* prependWorkerRoutes sets up routes for existing files and for workers only.
LEMMA PrependTyped ==
    ASSUME NEW cfg
    PROVE  prependWorkerRoutes(cfg) \in Seq(WorkerRoutes) /\ WorkerRoutes \subseteq RoutesBefore
  <1> DEFINE a == Route("existing", <<"path">>)
             b == Route("worker", <<>>)
  <1>1. prependWorkerRoutes(cfg) \in {<<>>, <<a>> \o <<b>>, <<>> \o <<b>>}
    BY Zenon DEF prependWorkerRoutes
  <1>2. a \in RoutesBefore /\ b \in RoutesBefore
    <2>1. "existing" \in Handlers /\ "worker" \in Handlers
      BY Zenon DEF Handlers
    <2> QED
      BY <2>1, RouteIsRoute, EntryLists, Zenon DEF RoutesBefore
  <1> HIDE DEF a, b
  <1>3. <<>> \in Seq({a, b}) /\ <<a>> \o <<b>> \in Seq({a, b}) /\ <<>> \o <<b>> \in Seq({a, b})
    BY SMT
  <1>4. WorkerRoutes = {a, b}
    BY Zenon DEF WorkerRoutes, a, b
  <1> QED
    BY <1>1, <1>2, <1>3, <1>4, Zenon

\* The routes of parsePhpServer: those of the workers, those of the index, the php
\* route, and those of the file server.
IndexRoutes(cfg, t) == (IF cfg.tryFiles = <<>> \/ "dirIndex" \in Range(cfg.tryFiles)
                        THEN <<Route("redirect", <<"dirIndex">>)>> ELSE <<>>) \o <<Route("rewrite", t)>>
ParsedRoutes(routes, cfg) ==
    \E i, v :
        /\ routes = ((prependWorkerRoutes(cfg) \o i) \o <<Route("php", <<>>)>>) \o v
        /\ v \in {<<>>, <<Route("file", <<>>), Route("notFound", <<>>)>>}
        /\ \/ i = <<>>
           \/ \E t \in {cfg.tryFiles, <<"path", "dirIndex", "index">>, <<"dirIndex", "index">>} :
                 i = IndexRoutes(cfg, t) /\ (cfg.tryFiles # <<>> => t = cfg.tryFiles)
                 /\ (cfg.tryFiles = <<>> => t # cfg.tryFiles)

\* parsePhpServer sets up its routes in this order, whatever the directive says.
LEMMA ParseIs ==
    ASSUME NEW cfg
    PROVE  ParsedRoutes(parsePhpServer(cfg), cfg)
  <1> DEFINE t == IF cfg.tryFiles # <<>> THEN cfg.tryFiles
                  ELSE IF cfg.fileServer THEN <<"path", "dirIndex", "index">> ELSE <<"dirIndex", "index">>
             i == IF cfg.index THEN IndexRoutes(cfg, t) ELSE <<>>
             v == IF cfg.fileServer THEN <<Route("file", <<>>), Route("notFound", <<>>)>> ELSE <<>>
  <1>1. parsePhpServer(cfg) = ((prependWorkerRoutes(cfg) \o i) \o <<Route("php", <<>>)>>) \o v
    BY Zenon DEF parsePhpServer, IndexRoutes
  <1>2. v \in {<<>>, <<Route("file", <<>>), Route("notFound", <<>>)>>}
    BY Zenon
  <1>3. /\ t \in {cfg.tryFiles, <<"path", "dirIndex", "index">>, <<"dirIndex", "index">>}
        /\ cfg.tryFiles # <<>> => t = cfg.tryFiles
        /\ cfg.tryFiles = <<>> => t # cfg.tryFiles
    <2>1. <<"path", "dirIndex", "index">> # <<>> /\ <<"dirIndex", "index">> # <<>>
      BY SMT
    <2> QED
      BY <2>1, Zenon
  <1>4. i = <<>> \/ i = IndexRoutes(cfg, t)
    BY Zenon
  <1> HIDE DEF t, i, v
  <1> QED
    BY <1>1, <1>2, <1>3, <1>4, Zenon DEF ParsedRoutes

\* Whatever the options, one php route divides the others.
LEMMA RoutesShaped ==
    ASSUME NEW cfg, IsConfig(cfg)
    PROVE  \E k : Shaped(Routes(cfg), k, cfg)
  <1> DEFINE re == Route("redirect", <<"dirIndex">>)
             php == Route("php", <<>>)
             file == Route("file", <<>>)
             no == Route("notFound", <<>>)
             any == Route("anyFile", <<>>)
  <1>0. {"redirect", "rewrite", "php", "file", "notFound", "anyFile"} \subseteq Handlers
    BY Zenon DEF Handlers
  <1>1. /\ re \in RoutesBefore /\ php \in RouteSet /\ php.handler = "php"
        /\ file \in RoutesAfter(cfg) /\ no \in RoutesAfter(cfg)
        /\ cfg.exts = <<".php">> => any \in RoutesAfter(cfg)
    BY <1>0, RouteIsRoute, EntryLists, Zenon DEF RoutesBefore, RoutesAfter
  <1>2. \A t \in Seq(Entries) : Route("rewrite", t) \in RoutesBefore
    <2> TAKE t \in Seq(Entries)
    <2>1. Route("rewrite", t) \in RouteSet /\ Route("rewrite", t).handler = "rewrite"
      <3>1. "rewrite" \in Handlers
        BY <1>0, Zenon
      <3> QED
        BY <3>1, RouteIsRoute, Zenon
    <2> QED
      BY <2>1, Zenon DEF RoutesBefore
  <1> HIDE DEF re, php, file, no, any
  <1>3. CASE cfg.command
    <2> DEFINE rw == Route("rewrite", <<"path", "dirIndex", "index">>)
    <2>1. Routes(cfg) = <<re, rw, php, any>>
      BY <1>3, Zenon DEF Routes, cmdPHPServer, re, php, any
    <2>2. rw \in RoutesBefore /\ any \in RoutesAfter(cfg)
      BY <1>1, <1>2, <1>3, EntryLists, Zenon DEF IsConfig
    <2> HIDE DEF rw
    <2>3. <<re, rw, php, any>> = (<<re, rw>> \o <<php>>) \o <<any>>
      BY SMT
    <2>4. <<re, rw>> \in Seq(RoutesBefore) /\ <<any>> \in Seq(RoutesAfter(cfg))
      BY <1>1, <2>2, SMT
    <2>5. Shaped((<<re, rw>> \o <<php>>) \o <<any>>, Len(<<re, rw>>) + 1, cfg)
      BY <1>1, <2>4, JoinShaped, Zenon
    <2> QED
      BY <2>1, <2>3, <2>5, Zenon
  <1>4. CASE ~cfg.command
    <2> DEFINE routes == Routes(cfg)
               w == prependWorkerRoutes(cfg)
    <2>1. ParsedRoutes(routes, cfg)
      BY <1>4, ParseIs, Zenon DEF Routes
    <2> HIDE DEF routes
    <2>2. PICK i, v :
             /\ routes = ((w \o i) \o <<php>>) \o v
             /\ v \in {<<>>, <<file, no>>}
             /\ i = <<>> \/ \E t \in {cfg.tryFiles, <<"path", "dirIndex", "index">>, <<"dirIndex", "index">>} : i = IndexRoutes(cfg, t)
      BY <2>1, Zenon DEF ParsedRoutes, php, file, no
    <2>3. w \in Seq(RoutesBefore)
      <3>1. w \in Seq(WorkerRoutes) /\ WorkerRoutes \subseteq RoutesBefore
        BY PrependTyped, Zenon
      <3> HIDE DEF w
      <3> QED
        BY <3>1, SMT
    <2>4. i \in Seq(RoutesBefore)
      <3>1. CASE i = <<>>
        BY <3>1, SMT
      <3>2. ASSUME NEW t \in {cfg.tryFiles, <<"path", "dirIndex", "index">>, <<"dirIndex", "index">>}, i = IndexRoutes(cfg, t)
            PROVE  i \in Seq(RoutesBefore)
        <4> DEFINE rw == Route("rewrite", t)
        <4>1. rw \in RoutesBefore
          BY <1>2, EntryLists, Zenon DEF IsConfig
        <4>2. i = <<re>> \o <<rw>> \/ i = <<>> \o <<rw>>
          BY <3>2, Zenon DEF IndexRoutes, re
        <4> HIDE DEF rw
        <4>3. <<re>> \in Seq(RoutesBefore) /\ <<>> \in Seq(RoutesBefore) /\ <<rw>> \in Seq(RoutesBefore)
          BY <1>1, <4>1, OneRoute, Zenon
        <4> QED
          BY <4>2, <4>3, ConcatIs, Zenon
      <3> QED
        BY <2>2, <3>1, <3>2, Zenon
    <2>5. v \in Seq(RoutesAfter(cfg))
      <3>1. <<>> \in Seq(RoutesAfter(cfg)) /\ <<file, no>> \in Seq(RoutesAfter(cfg))
        BY <1>1, OneRoute, TwoRoutes, Zenon
      <3> QED
        BY <2>2, <3>1, Zenon
    <2>6. w \o i \in Seq(RoutesBefore)
      <3> HIDE DEF w
      <3> QED
        BY <2>3, <2>4, SMT
    <2> DEFINE u == w \o i
    <2>7. u \in Seq(RoutesBefore) /\ routes = (u \o <<php>>) \o v
      BY <2>2, <2>6, Zenon
    <2> HIDE DEF u
    <2>8. Shaped((u \o <<php>>) \o v, Len(u) + 1, cfg)
      BY <1>1, <2>5, <2>7, JoinShaped, Zenon
    <2> QED
      BY <2>7, <2>8, Zenon DEF routes
  <1> QED
    BY <1>3, <1>4, Zenon

\* When a route takes a request that none has handled yet, by its handler: the conditions
\* of parsePhpServer and prependWorkerRoutes.
LEMMA TakesIs ==
    ASSUME NEW acc, NEW route, NEW cfg, NEW fs, acc.by = "none"
    PROVE  LET take == Takes(acc, route, cfg, fs)
               found == FileHits(acc, route, cfg, fs) # <<>>
               m == CleanPath(acc.path)
           IN  /\ route.handler = "existing" => (take <=> found /\ ~MatchExtensions(<<".php">> \o cfg.exts, m))
               /\ route.handler = "redirect" => (take <=> found /\ m[Len(m)] # "")
               /\ route.handler = "rewrite" => (take <=> found)
               /\ route.handler = "php" => (take <=> MatchExtensions(cfg.exts, m))
               /\ route.handler = "file" => (take <=> ~MatchExtensions(<<".php">>, m))
  <1> DEFINE take == Takes(acc, route, cfg, fs)
             found == FileHits(acc, route, cfg, fs) # <<>>
             m == CleanPath(acc.path)
             last == m[Len(m)] # ""
             a == MatchExtensions(<<".php">> \o cfg.exts, m)
             b == MatchExtensions(cfg.exts, m)
             c == MatchExtensions(<<".php">>, m)
             d == matchRequest(cfg.workers, m) # <<>>
             h == route.handler
  <1>1. take <=> \/ h = "existing" /\ found /\ ~a
                 \/ h = "worker"   /\ d
                 \/ h = "redirect" /\ found /\ last
                 \/ h = "rewrite"  /\ found
                 \/ h = "php"      /\ b
                 \/ h = "file"     /\ ~c
                 \/ h = "notFound" /\ c
                 \/ h = "anyFile"
    BY Zenon DEF Takes, Matches
  <1> HIDE DEF take, found, m, last, a, b, c, d, h
  <1>2. /\ h = "existing" => (take <=> found /\ ~a)
        /\ h = "redirect" => (take <=> found /\ last)
        /\ h = "rewrite" => (take <=> found)
        /\ h = "php" => (take <=> b)
        /\ h = "file" => (take <=> ~c)
    BY <1>1, SMT
  <1> QED
    BY <1>2, Zenon DEF take, found, m, last, a, b, c, h

\* The two lists of extensions of the route for files that exist.
LEMMA BothExtensions ==
    ASSUME NEW e, NEW exts \in Seq(STRING), NEW c, MatchExtensions(<<e>> \o exts, c)
    PROVE  MatchExtensions(<<e>>, c) \/ MatchExtensions(exts, c)
  <1>1. PICK i \in DOMAIN c : Ext[c[i]] \in Range(<<e>> \o exts)
    BY Zenon DEF MatchExtensions
  <1> DEFINE s == Ext[c[i]]
  <1>2. s \in Range(<<e>> \o exts)
    BY <1>1, Zenon
  <1> HIDE DEF s
  <1>3. s \in Range(<<e>>) \/ s \in Range(exts)
    <2> DEFINE a == <<e>>
               o == a \o exts
               X == STRING \cup {e}
    <2>1. a \in Seq(X) /\ exts \in Seq(X) /\ Len(a) = 1 /\ DOMAIN a = 1 .. 1 /\ DOMAIN exts = 1 .. Len(exts)
          /\ Len(exts) \in Nat
      BY SMT
    <2> HIDE DEF a, X
    <2>2. /\ o \in Seq(X) /\ Len(o) = Len(a) + Len(exts)
          /\ \A x \in 1 .. Len(a) : o[x] = a[x]
          /\ \A x \in Len(a) + 1 .. Len(a) + Len(exts) : o[x] = exts[x - Len(a)]
      BY <2>1, ConcatIs, Zenon
    <2> HIDE DEF o
    <2>3. DOMAIN o = 1 .. Len(o)
      BY <2>2, SMT
    <2>4. PICK x \in 1 .. Len(o) : s = o[x]
      BY <1>2, <2>3, Zenon DEF Range, o, a
    <2>5. (x \in 1 .. Len(a) /\ x \in DOMAIN a) \/ (x \in Len(a) + 1 .. Len(a) + Len(exts) /\ x - Len(a) \in DOMAIN exts)
      BY <2>1, <2>2, SMT
    <2>6. (\E y \in DOMAIN a : s = a[y]) \/ (\E y \in DOMAIN exts : s = exts[y])
      BY <2>2, <2>4, <2>5, Zenon
    <2> QED
      BY <2>6, Zenon DEF Range, a
  <1> QED
    BY <1>3, Zenon DEF MatchExtensions, s

\* What is in the clean path, the path matchers see.
LEMMA CleanIsSeen ==
    ASSUME NEW Segment, NEW p \in Seq(Segment), NEW exts, MatchExtensions(exts, Clean(p))
    PROVE  MatchExtensions(exts, CleanPath(p))
  <1> DEFINE c == Clean(p)
             m == CleanPath(p)
             b == ""
  <1>1. m = c \/ m = Append(c, b)
    BY Zenon DEF CleanPath
  <1>2. c \in Seq(Segment)
    BY CleanTyped, Zenon
  <1> HIDE DEF c, m, b
  <1>3. \A i \in DOMAIN c : i \in DOMAIN m /\ m[i] = c[i]
    BY <1>1, <1>2, SMT
  <1> QED
    BY <1>3, Zenon DEF MatchExtensions, c, m

\* No .php file and none with a split extension is served as a static file: for all
\* options, paths and files.
THEOREM SourcesAreNotServed ==
    ASSUME NEW Segment, Index \in Names(Segment), NEW path \in Seq(Segment), NEW cfg, IsConfig(cfg), NEW fs
    PROVE  SourceNotServed(cfg, serve(Routes(cfg), cfg, path, fs))
  <1> DEFINE routes == Routes(cfg)
             served == serve(routes, cfg, path, fs)
             both == <<".php">> \o cfg.exts
  <1>1. PICK k : Shaped(routes, k, cfg)
    BY RoutesShaped, Zenon
  <1>2. routes \in Seq(RouteSet) /\ cfg.exts \in Seq(STRING)
    BY <1>1, Zenon DEF Shaped, IsConfig
  <1> HIDE DEF routes
  <1>3. PICK f : Run(f, routes, cfg, path, fs, Segment)
    BY <1>2, RunOf, Zenon
  <1>4. served = f[Len(routes)] /\ Len(routes) \in Nat
    BY <1>3, Zenon DEF Run
  <1> HIDE DEF served
  <1> SUFFICES ASSUME served.by \in {"existing", "file", "anyFile"} PROVE ~MatchExtensions(both, Clean(served.path))
    BY Zenon DEF SourceNotServed, served, routes
  <1>5. Len(routes) \in 0 .. Len(routes) /\ served.by # "none"
    BY <1>4, SMT
  <1>6. PICK n \in 1 .. Len(routes) : TakenBy(f, routes, cfg, fs, n, served)
    BY <1>3, <1>4, <1>5, TakenOnce, Zenon
  <1>7. /\ Takes(f[n - 1], routes[n], cfg, fs) /\ served.by = routes[n].handler /\ served.path = f[n - 1].path
        /\ \A i \in 0 .. n - 1 : f[i].by = "none"
    BY <1>6, Zenon DEF TakenBy
  <1>8. n - 1 \in 0 .. n - 1 /\ n - 1 \in 0 .. Len(routes) /\ 0 \in 0 .. n - 1
    BY <1>4, SMT
  <1>9. f[n - 1].by = "none" /\ f[n - 1] \in Routed(Segment)
    BY <1>3, <1>7, <1>8, Zenon DEF Run
  <1>10. f[n - 1].path \in Seq(Segment)
    BY <1>9, Zenon DEF Routed
  <1> DEFINE p == f[n - 1].path
             m == CleanPath(p)
  <1>11. SUFFICES ~MatchExtensions(both, m)
    <2> DEFINE q == f[n - 1].path
    <2>1. q \in Seq(Segment) /\ served.path = q
      BY <1>7, <1>10, Zenon
    <2> HIDE DEF q, both
    <2>2. MatchExtensions(both, Clean(q)) => MatchExtensions(both, CleanPath(q))
      BY <2>1, CleanIsSeen, Zenon
    <2> QED
      BY <2>1, <2>2, Zenon DEF q
  <1>12. CASE served.by = "existing"
    BY <1>7, <1>9, <1>12, TakesIs, Zenon
  <1>13. CASE served.by \in {"file", "anyFile"}
    <2>1. routes[n].handler \in {"file", "anyFile"}
      BY <1>7, <1>13, Zenon
    <2>2. routes[n] \notin RoutesBefore /\ routes[n].handler # "php"
      BY <2>1, SMT DEF RoutesBefore
    <2>3. k \in 1 .. Len(routes) /\ routes[k].handler = "php" /\ (n \in 1 .. k - 1 => routes[n] \in RoutesBefore)
          /\ (\A i \in k + 1 .. Len(routes) : routes[i] \in RoutesAfter(cfg))
      BY <1>1, Zenon DEF Shaped
    <2>4. k < n
      BY <1>4, <2>2, <2>3, SMT
    <2>5. /\ k - 1 \in 0 .. n - 1 /\ k \in 0 .. n - 1 /\ k \in 0 .. Len(routes) /\ n - 1 \in k .. Len(routes)
          /\ n \in k + 1 .. Len(routes)
          /\ \A i \in k .. n - 1 : i \in 0 .. n - 1
          /\ \A i \in k + 1 .. n - 1 : i \in k + 1 .. Len(routes)
      BY <1>4, <2>3, <2>4, SMT
    <2>6. \A i \in k + 1 .. n - 1 : routes[i].handler # "rewrite"
      <3>1. \A r \in RoutesAfter(cfg) : r.handler # "rewrite"
        BY SMT DEF RoutesAfter
      <3> QED
        BY <2>3, <2>5, <3>1, Zenon
    <2>7. f[n - 1] = f[k]
      <3>1. \A i \in k .. n - 1 : f[i].by = "none"
        BY <1>7, <2>5, Zenon
      <3> QED
        BY <1>3, <2>5, <2>6, <3>1, Idles, Zenon
    <2>8. StepIs(f[k - 1], routes[k], cfg, fs, f[k])
      BY <1>3, <2>3, Zenon DEF Run
    <2>9. "php" # "none" /\ "php" # "rewrite"
      BY SMT
    <2>10. f[k - 1].by = "none" /\ f[k].by = "none"
      BY <1>7, <2>5, Zenon
    <2>11. ~Takes(f[k - 1], routes[k], cfg, fs) /\ f[k] = f[k - 1]
      BY <2>3, <2>8, <2>9, <2>10, Zenon DEF StepIs
    <2>12. ~MatchExtensions(cfg.exts, CleanPath(f[k - 1].path))
      BY <2>3, <2>10, <2>11, TakesIs, Zenon
    <2>13. ~MatchExtensions(cfg.exts, m)
      BY <2>7, <2>11, <2>12, Zenon
    <2>14. ~MatchExtensions(<<".php">>, m)
      <3>1. CASE routes[n].handler = "file"
        BY <1>7, <1>9, <3>1, TakesIs, Zenon
      <3>2. CASE routes[n].handler = "anyFile"
        <4>1. routes[n] \in RoutesAfter(cfg)
          BY <2>3, <2>5, Zenon
        <4>2. cfg.exts = <<".php">>
          BY <3>2, <4>1, SMT DEF RoutesAfter
        <4> QED
          BY <2>13, <4>2, Zenon
      <3> QED
        BY <2>1, <3>1, <3>2, Zenon
    <2> HIDE DEF m
    <2> QED
      BY <1>2, <2>13, <2>14, BothExtensions, Zenon
  <1> QED
    BY <1>12, <1>13, Zenon

\* No file is below another one, and no directory has the name of a script: one of
\* the split extensions.
FileTree(fs) == \A b \in fs : \A n \in 0 .. Len(b) - 1 : SubSeq(b, 1, n) \notin fs
PlainDirs(fs, exts) == \A b \in fs : \A n \in 1 .. Len(b) - 1 : \A k \in 1 .. Len(exts) : Ext[b[n]] # exts[k]

\* The directory index is tried before the index of the root.
TriesIndex(t) == \E d \in 1 .. Len(t) : t[d] = "dirIndex" /\ \A j \in 1 .. d - 1 : t[j] = "path"

\* Where the directory index is dealt with: a redirect, after it the rewrite, after
\* it the php route.
Indexed(routes, m) ==
    /\ m \in 1 .. Len(routes) /\ m + 1 \in 1 .. Len(routes) /\ m + 2 \in 1 .. Len(routes)
    /\ routes[m].handler = "redirect" /\ routes[m].tryFiles = <<"dirIndex">>
    /\ routes[m + 1].handler = "rewrite" /\ TriesIndex(routes[m + 1].tryFiles)
    /\ routes[m + 2].handler = "php"
    /\ \A n \in 1 .. m - 1 : routes[n] \in WorkerRoutes
    /\ \A n \in 1 .. Len(routes) : routes[n].handler = "redirect" => n = m

\* A file matcher without split extensions looks for the file that its entry stands
\* for.
LEMMA SingleHit ==
    ASSUME NEW N, NEW cleaned \in Seq(N), Index \in N, NEW e \in Entries, NEW fs,
           MatchFile(<<e>>, <<>>, cleaned, fs) # <<>>
    PROVE  TryFile(e, cleaned) \in fs
  <1> DEFINE hits == MatchFile(<<e>>, <<>>, cleaned, fs)
             t == <<e>>
             file == TryFile(e, cleaned)
  <1>1. t \in Seq(Entries) /\ Len(t) = 1 /\ t[1] = e /\ <<>> \in Seq(STRING) /\ Len(<<>>) = 0
    BY SMT
  <1>2. PICK k : FoundFile(hits, t, <<>>, cleaned, fs, k)
    <2> DEFINE mf == MatchFile(t, <<>>, cleaned, fs)
    <2>1. mf # <<>> => \E k : FoundFile(mf, t, <<>>, cleaned, fs, k)
      <3> HIDE DEF t
      <3> QED
        BY <1>1, MatchFileIs
    <2> QED
      BY <2>1, Zenon
  <1> HIDE DEF hits, t
  <1>3. k \in 1 .. 1 /\ Candidate(t, <<>>, cleaned, k).relative \in fs
    BY <1>1, <1>2, Zenon DEF FoundFile
  <1>4. k = 1
    BY <1>3, SMT
  <1>5. FirstSplit(file, <<>>).relative \in fs
    BY <1>1, <1>3, <1>4, Zenon DEF Candidate
  <1>6. file \in Seq(N)
    BY TryFileTyped, Zenon
  <1> HIDE DEF file
  <1>7. ~HasExt(file, <<>>)
    BY SMT DEF HasExt
  <1>8. splitPos(file, <<>>) = 0
    BY <1>1, <1>6, <1>7, SplitPosFinds, Zenon
  <1>9. FirstSplit(file, <<>>).relative = file
    BY <1>1, <1>6, <1>8, FirstSplitIs, Zenon
  <1> QED
    BY <1>5, <1>9, Zenon DEF file

\* In a file tree, the directory of an index is no file, and neither is its path up
\* to a split.
LEMMA DirIsNoFile ==
    ASSUME NEW N, NEW c \in Seq(N), NEW x \in N, NEW fs, FileTree(fs), Append(c, x) \in fs, NEW exts \in Seq(STRING)
    PROVE  c \notin fs /\ FirstSplit(c, exts).relative \notin fs
  <1> DEFINE b == Append(c, x)
             pos == splitPos(c, exts)
             rel == FirstSplit(c, exts).relative
  <1>1. Len(b) = Len(c) + 1 /\ Len(c) \in Nat /\ (\A n \in 0 .. Len(c) : SubSeq(b, 1, n) = SubSeq(c, 1, n))
        /\ SubSeq(c, 1, Len(c)) = c
    BY SMT
  <1>2. \A n \in 0 .. Len(b) - 1 : SubSeq(b, 1, n) \notin fs
    BY Zenon DEF FileTree
  <1> HIDE DEF b
  <1>3. 0 .. Len(b) - 1 = 0 .. Len(c) /\ Len(c) \in 0 .. Len(c)
    BY <1>1, SMT
  <1>4. \A n \in 0 .. Len(c) : SubSeq(c, 1, n) \notin fs
    BY <1>1, <1>2, <1>3, Zenon
  <1>5. c \notin fs
    BY <1>1, <1>3, <1>4, Zenon
  <1>6. pos \in 0 .. Len(c)
    BY SplitPosFinds, Zenon
  <1>7. (pos # 0 => rel = SubSeq(c, 1, pos)) /\ (pos = 0 => rel = c)
    <2>1. pos # 0 => rel = SubSeq(c, 1, pos)
      BY SplitWhereFound, Zenon
    <2>2. pos = 0 => rel = c
      BY FirstSplitIs, Zenon
    <2> QED
      BY <2>1, <2>2, Zenon
  <1> HIDE DEF pos, rel
  <1>8. rel \notin fs
    BY <1>4, <1>5, <1>6, <1>7, Zenon
  <1> QED
    BY <1>5, <1>8, Zenon DEF rel

\* The segment where splitPos splits has one of the extensions.
LEMMA SplitPosHas ==
    ASSUME NEW Segment, NEW p \in Seq(Segment), NEW E, NEW exts \in Seq(E), splitPos(p, exts) # 0
    PROVE  \E k \in 1 .. Len(exts) : Ext[p[splitPos(p, exts)]] = exts[k]
  BY SplitPosFinds, Zenon

\* With plain directories, an index is split at its end.
LEMMA IndexIsWhole ==
    ASSUME NEW N, NEW c \in Seq(N), Index \in N, NEW fs, Append(c, Index) \in fs, NEW exts \in Seq(STRING),
           PlainDirs(fs, exts), Ext[Index] \in Range(exts)
    PROVE  FirstSplit(Append(c, Index), exts).relative = Append(c, Index)
  <1> DEFINE b == Append(c, Index)
             pos == splitPos(b, exts)
             l == Len(c) + 1
  <1>1. b \in Seq(N) /\ Len(b) = l /\ l \in Nat /\ l \in 1 .. l /\ b[l] = Index /\ SubSeq(b, 1, l) = b
    BY SMT
  <1>2. \E k \in 1 .. Len(exts) : Ext[Index] = exts[k]
    BY SMT DEF Range
  <1>3. \A n \in 1 .. Len(b) - 1 : \A k \in 1 .. Len(exts) : Ext[b[n]] # exts[k]
    BY Zenon DEF PlainDirs
  <1> HIDE DEF b, l
  <1>4. HasExt(b, exts)
    BY <1>1, <1>2, Zenon DEF HasExt
  <1>5. pos \in 0 .. Len(b) /\ pos # 0 /\ \E k \in 1 .. Len(exts) : Ext[b[pos]] = exts[k]
    <2>1. pos \in 0 .. Len(b) /\ pos # 0
      BY <1>1, <1>4, SplitPosFinds, Zenon
    <2>2. pos # 0 => \E k \in 1 .. Len(exts) : Ext[b[pos]] = exts[k]
      BY <1>1, SplitPosHas, Zenon
    <2> QED
      BY <2>1, <2>2, Zenon
  <1>6. pos \notin 1 .. Len(b) - 1
    BY <1>3, <1>5, Zenon
  <1>7. pos = l
    BY <1>1, <1>5, <1>6, SMT
  <1>8. FirstSplit(b, exts).relative = SubSeq(b, 1, pos)
    BY <1>1, <1>5, SplitWhereFound, Zenon
  <1> QED
    BY <1>1, <1>7, <1>8, Zenon DEF b

\* The path matchers see the slash at the end, and a path of names as it is.
LEMMA CleanPathIs ==
    ASSUME NEW Segment, NEW path \in Seq(Segment)
    PROVE  /\ Clean(Append(path, "")) = Clean(path)
           /\ CleanPath(Append(path, "")) = Append(Clean(path), "")
           /\ CleanPath(Append(path, ""))[Len(CleanPath(Append(path, "")))] = ""
  <1> DEFINE b == ""
             q == Append(path, b)
             c == Clean(path)
             m == Append(c, b)
  <1>1. Skip(b)
    BY Zenon DEF Skip
  <1>2. CleanPath(q) = IF Clean(q) = <<>> \/ q[Len(q)] = b THEN Append(Clean(q), b) ELSE Clean(q)
    BY Zenon DEF CleanPath
  <1>3. c \in Seq(Segment)
    BY CleanTyped, Zenon
  <1> HIDE DEF b, c
  <1>4. Clean(q) = c
    BY <1>1, CleanAppended, Zenon DEF c
  <1>5. q[Len(q)] = b /\ m[Len(m)] = b
    BY <1>3, SMT
  <1> HIDE DEF q, m
  <1>6. CleanPath(q) = m
    BY <1>2, <1>4, <1>5, Zenon DEF m
  <1> QED
    BY <1>4, <1>5, <1>6, Zenon DEF b, c, m, q

\* The index of a directory matches the php route if index.php has a split extension.
LEMMA NamesAreSeen ==
    ASSUME NEW Segment, NEW c \in Seq(Names(Segment)), Index \in Names(Segment), NEW exts \in Seq(STRING),
           Ext[Index] \in Range(exts)
    PROVE  MatchExtensions(exts, CleanPath(Append(c, Index)))
  <1> DEFINE b == Append(c, Index)
  <1>1. b \in Seq(Names(Segment)) /\ Len(b) \in DOMAIN b /\ b[Len(b)] = Index
    BY SMT
  <1> HIDE DEF b
  <1>2. Clean(b) = b
    BY <1>1, NamesAreClean, Zenon
  <1>3. MatchExtensions(exts, Clean(b))
    BY <1>1, <1>2, Zenon DEF MatchExtensions
  <1>4. MatchExtensions(exts, CleanPath(b))
    BY <1>1, <1>3, CleanIsSeen, Zenon
  <1> QED
    BY <1>4, Zenon DEF b

\* The rewrite to the index of the directory
LEMMA RewriteToIndex ==
    ASSUME NEW Segment, Index \in Names(Segment), NEW c \in Seq(Names(Segment)), NEW fs, FileTree(fs),
           Append(c, Index) \in fs, NEW cfg, cfg.exts \in Seq(STRING), PlainDirs(fs, cfg.exts),
           Ext[Index] \in Range(cfg.exts), NEW acc \in Routed(Segment), Clean(acc.path) = c, acc.by = "none",
           NEW route \in RouteSet, route.handler = "rewrite", TriesIndex(route.tryFiles),
           NEW new, StepIs(acc, route, cfg, fs, new)
    PROVE  new.by = "none" /\ new.path = Append(c, Index) /\ new.matched = Append(c, Index)
  <1> DEFINE t == route.tryFiles
             b == Append(c, Index)
             cand(j) == Candidate(t, cfg.exts, c, j)
  <1>1. t \in Seq(Entries)
    BY Zenon DEF RouteSet
  <1>2. PICK d \in 1 .. Len(t) : t[d] = "dirIndex" /\ \A j \in 1 .. d - 1 : t[j] = "path"
    BY Zenon DEF TriesIndex
  <1>3. "dirIndex" \notin {"path", "index"}
    BY SMT
  <1>4. TryFile(t[d], c) = b /\ \A j \in 1 .. d - 1 : TryFile(t[j], c) = c
    <2>1. \A e : (e = "path" => TryFile(e, c) = c) /\ (e \notin {"path", "index"} => TryFile(e, c) = b)
      BY TryFileTyped, Zenon
    <2> HIDE DEF b
    <2> QED
      BY <1>2, <1>3, <2>1, Zenon
  <1>5. cand(d).relative = b
    <2>1. FirstSplit(b, cfg.exts).relative = b
      BY IndexIsWhole, Zenon
    <2> QED
      BY <1>4, <2>1, Zenon DEF Candidate
  <1>6. \A j \in 1 .. d - 1 : cand(j).relative \notin fs
    <2>1. FirstSplit(c, cfg.exts).relative \notin fs
      BY DirIsNoFile, Zenon
    <2> QED
      BY <1>4, <2>1, Zenon DEF Candidate
  <1>7. cand(d).relative \in fs
    BY <1>5, Zenon
  <1>8. Takes(acc, route, cfg, fs)
    <2> DEFINE mf == MatchFile(t, cfg.exts, c, fs)
    <2>1. mf = <<>> => \A k \in 1 .. Len(t) : ~(cand(k).relative \in fs)
      <3> HIDE DEF t
      <3> QED
        BY <1>1, MatchFileIs
    <2>2. mf # <<>>
      <3> HIDE DEF mf, t, cand
      <3> QED
        BY <1>7, <2>1, Zenon
    <2>3. FileHits(acc, route, cfg, fs) = mf
      BY Zenon DEF FileHits
    <2> HIDE DEF mf
    <2> QED
      BY <2>2, <2>3, TakesIs, Zenon
  <1>9. PICK k : new.by = "none" /\ Rewritten(acc, route, cfg, fs, k, new)
    BY <1>8, Zenon DEF StepIs
  <1>10. /\ k \in 1 .. Len(t) /\ cand(k).relative \in fs /\ \A j \in 1 .. k - 1 : cand(j).relative \notin fs
         /\ new = [acc EXCEPT !.path = TryFile(t[k], c), !.matched = cand(k).relative]
    BY <1>9, Zenon DEF Rewritten
  <1>11. k = d
    <2>1. k \notin 1 .. d - 1 /\ d \notin 1 .. k - 1
      BY <1>6, <1>7, <1>10, Zenon
    <2>2. Len(t) \in Nat
      BY <1>1, SMT
    <2> HIDE DEF t, cand
    <2> QED
      BY <1>10, <2>1, <2>2, SMT
  <1>12. new = [acc EXCEPT !.path = b, !.matched = b]
    BY <1>4, <1>5, <1>10, <1>11, Zenon
  <1>13. DOMAIN acc = {"by", "path", "matched"}
    BY SMT DEF Routed
  <1>14. new.path = b /\ new.matched = b
    <2> HIDE DEF b
    <2> QED
      BY <1>12, <1>13, SMT
  <1> QED
    BY <1>9, <1>14, Zenon

\* Two routes, one after the other, between others
TwoBetween(o, u, a, b, c, v) ==
    /\ Len(o) = Len(u) + 3 + Len(v) /\ Len(u) \in Nat /\ Len(v) \in Nat
    /\ \A n \in 1 .. Len(u) : o[n] = u[n]
    /\ o[Len(u) + 1] = a /\ o[Len(u) + 2] = b /\ o[Len(u) + 3] = c
    /\ \A n \in Len(u) + 4 .. Len(o) : n - (Len(u) + 3) \in 1 .. Len(v) /\ o[n] = v[n - (Len(u) + 3)]

\* Where the two index routes and the php route are in the list of all.
LEMMA JoinTwo ==
    ASSUME NEW X, NEW u \in Seq(X), NEW a \in X, NEW b \in X, NEW c \in X, NEW v \in Seq(X)
    PROVE  TwoBetween(((u \o (<<a>> \o <<b>>)) \o <<c>>) \o v, u, a, b, c, v)
  <1> DEFINE i == <<a>> \o <<b>>
             s == <<c>>
             w == u \o i
             y == w \o s
             o == y \o v
             l == Len(u)
  <1>1. /\ i \in Seq(X) /\ Len(i) = 2 /\ i[1] = a /\ i[2] = b
        /\ s \in Seq(X) /\ Len(s) = 1 /\ s[1] = c /\ l \in Nat /\ Len(v) \in Nat
    BY SMT
  <1> HIDE DEF i, s
  <1>2. /\ w \in Seq(X) /\ Len(w) = l + Len(i)
        /\ \A x \in 1 .. l : w[x] = u[x]
        /\ \A x \in l + 1 .. l + Len(i) : w[x] = i[x - l]
    BY <1>1, ConcatIs, Zenon
  <1> HIDE DEF w, l
  <1>3. /\ y \in Seq(X) /\ Len(y) = Len(w) + Len(s)
        /\ \A x \in 1 .. Len(w) : y[x] = w[x]
        /\ \A x \in Len(w) + 1 .. Len(w) + Len(s) : y[x] = s[x - Len(w)]
    BY <1>1, <1>2, ConcatIs, Zenon
  <1> HIDE DEF y
  <1>4. /\ o \in Seq(X) /\ Len(o) = Len(y) + Len(v)
        /\ \A x \in 1 .. Len(y) : o[x] = y[x]
        /\ \A x \in Len(y) + 1 .. Len(y) + Len(v) : o[x] = v[x - Len(y)]
    <2>1. y \in Seq(X)
      BY <1>3, Zenon
    <2> QED
      BY <2>1, ConcatIs, Zenon
  <1> HIDE DEF o
  <1>0. l \in Nat /\ Len(v) \in Nat
    BY <1>1, Zenon
  <1>5. Len(w) = l + 2 /\ Len(y) = l + 3 /\ Len(o) = l + 3 + Len(v)
    BY <1>1, <1>2, <1>3, <1>4, SMT
  <1>6. \A n \in 1 .. l : n \in 1 .. Len(w) /\ n \in 1 .. Len(y)
    BY <1>0, <1>5, SMT
  <1>7. /\ l + 1 \in l + 1 .. l + Len(i) /\ l + 2 \in l + 1 .. l + Len(i) /\ (l + 1) - l = 1 /\ (l + 2) - l = 2
        /\ l + 1 \in 1 .. Len(w) /\ l + 2 \in 1 .. Len(w) /\ l + 1 \in 1 .. Len(y) /\ l + 2 \in 1 .. Len(y)
        /\ l + 3 \in Len(w) + 1 .. Len(w) + Len(s) /\ (l + 3) - Len(w) = 1 /\ l + 3 \in 1 .. Len(y)
    BY <1>1, <1>5, SMT
  <1>8. \A n \in l + 4 .. Len(o) : n \in Len(y) + 1 .. Len(y) + Len(v) /\ n - (l + 3) \in 1 .. Len(v) /\ n - Len(y) = n - (l + 3)
    BY <1>1, <1>5, SMT
  <1>9. o[l + 1] = a /\ o[l + 2] = b
    <2>1. o[l + 1] = w[l + 1] /\ o[l + 2] = w[l + 2]
      BY <1>3, <1>4, <1>7, Zenon
    <2>2. w[l + 1] = i[1] /\ w[l + 2] = i[2]
      BY <1>2, <1>7, Zenon
    <2> QED
      BY <1>1, <2>1, <2>2, Zenon
  <1>10. o[l + 3] = c
    BY <1>1, <1>3, <1>4, <1>7, Zenon
  <1>11. \A n \in l + 4 .. Len(o) : o[n] = v[n - (l + 3)]
    BY <1>4, <1>8, Zenon
  <1>12. \A n \in 1 .. l : o[n] = u[n]
    BY <1>2, <1>3, <1>4, <1>6, Zenon
  <1> QED
    BY <1>1, <1>5, <1>8, <1>9, <1>10, <1>11, <1>12, Zenon DEF o, y, w, i, s, l, TwoBetween

\* The redirect comes right before the rewrite and the php route.
LEMMA JoinIndexed ==
    ASSUME NEW u \in Seq(WorkerRoutes), NEW a \in RouteSet, a.handler = "redirect", a.tryFiles = <<"dirIndex">>,
           NEW b \in RouteSet, b.handler = "rewrite", TriesIndex(b.tryFiles),
           NEW c \in RouteSet, c.handler = "php", NEW cfg, NEW v \in Seq(RoutesAfter(cfg))
    PROVE  Indexed(((u \o (<<a>> \o <<b>>)) \o <<c>>) \o v, Len(u) + 1)
  <1> DEFINE o == ((u \o (<<a>> \o <<b>>)) \o <<c>>) \o v
             l == Len(u)
  <1>1. WorkerRoutes \subseteq RouteSet /\ RoutesAfter(cfg) \subseteq RouteSet
    BY PrependTyped, Zenon DEF RoutesBefore, RoutesAfter
  <1>2. u \in Seq(RouteSet) /\ v \in Seq(RouteSet)
    BY <1>1, SMT
  <1>3. /\ Len(o) = l + 3 + Len(v) /\ l \in Nat /\ Len(v) \in Nat
        /\ \A n \in 1 .. l : o[n] = u[n]
        /\ o[l + 1] = a /\ o[l + 2] = b /\ o[l + 3] = c
        /\ \A n \in l + 4 .. Len(o) : n - (l + 3) \in 1 .. Len(v) /\ o[n] = v[n - (l + 3)]
    <2>1. TwoBetween(o, u, a, b, c, v)
      BY <1>2, JoinTwo, Zenon
    <2> HIDE DEF o
    <2> QED
      BY <2>1, Zenon DEF TwoBetween
  <1>4. /\ \A n \in 1 .. l : u[n] \in WorkerRoutes
        /\ \A n \in 1 .. Len(v) : v[n] \in RoutesAfter(cfg)
    BY SMT
  <1> HIDE DEF o, l
  <1>5. /\ l + 1 \in 1 .. Len(o) /\ (l + 1) + 1 \in 1 .. Len(o) /\ (l + 1) + 2 \in 1 .. Len(o)
        /\ (l + 1) + 1 = l + 2 /\ (l + 1) + 2 = l + 3 /\ (l + 1) - 1 = l
        /\ \A n \in 1 .. Len(o) : n \in 1 .. l \/ n = l + 1 \/ n = l + 2 \/ n = l + 3 \/ n \in l + 4 .. Len(o)
    BY <1>3, SMT
  <1>6. \A r \in WorkerRoutes : r.handler # "redirect"
    <2>1. Route("existing", <<"path">>).handler = "existing" /\ Route("worker", <<>>).handler = "worker"
      BY SMT DEF Route
    <2>2. "existing" # "redirect" /\ "worker" # "redirect"
      BY SMT
    <2> QED
      BY <2>1, <2>2, Zenon DEF WorkerRoutes
  <1>7. \A r \in RoutesAfter(cfg) : r.handler # "redirect"
    BY SMT DEF RoutesAfter
  <1>8. "redirect" # "rewrite" /\ "redirect" # "php"
    BY SMT
  <1>9. \A n \in 1 .. Len(o) : o[n].handler = "redirect" => n = l + 1
    BY <1>3, <1>4, <1>5, <1>6, <1>7, <1>8, Zenon
  <1>10. \A n \in 1 .. (l + 1) - 1 : o[n] \in WorkerRoutes
    BY <1>3, <1>4, <1>5, Zenon
  <1>11. Indexed(o, l + 1)
    BY <1>3, <1>5, <1>9, <1>10, Zenon DEF Indexed
  <1> QED
    BY <1>11, Zenon DEF o, l

\* What parsePhpServer and the command do about the directory index.
LEMMA RoutesIndexed ==
    ASSUME NEW cfg, IsConfig(cfg), "dirIndex" \in Range(cfg.tryFiles) => TriesIndex(cfg.tryFiles)
    PROVE  \/ \E m : Indexed(Routes(cfg), m)
           \/ \A n \in 1 .. Len(Routes(cfg)) : Routes(cfg)[n].handler # "redirect"
  <1> DEFINE re == Route("redirect", <<"dirIndex">>)
             php == Route("php", <<>>)
             file == Route("file", <<>>)
             no == Route("notFound", <<>>)
             any == Route("anyFile", <<>>)
  <1>0. {"redirect", "rewrite", "php", "file", "notFound", "anyFile"} \subseteq Handlers
    BY Zenon DEF Handlers
  <1>1. /\ re \in RouteSet /\ re.handler = "redirect" /\ re.tryFiles = <<"dirIndex">>
        /\ php \in RouteSet /\ php.handler = "php"
        /\ file \in RoutesAfter(cfg) /\ no \in RoutesAfter(cfg)
        /\ cfg.exts = <<".php">> => any \in RoutesAfter(cfg)
    BY <1>0, RouteIsRoute, EntryLists, Zenon DEF RoutesAfter
  <1>2. \A t \in Seq(Entries) : /\ Route("rewrite", t) \in RouteSet /\ Route("rewrite", t).handler = "rewrite"
                                /\ Route("rewrite", t).tryFiles = t
    <2> TAKE t \in Seq(Entries)
    <2>1. "rewrite" \in Handlers
      BY <1>0, Zenon
    <2> QED
      BY <2>1, RouteIsRoute, Zenon
  <1>3. TriesIndex(<<"path", "dirIndex", "index">>) /\ TriesIndex(<<"dirIndex", "index">>)
    <2>1. TriesIndex(<<"path", "dirIndex", "index">>)
      <3> DEFINE t == <<"path", "dirIndex", "index">>
      <3>1. 2 \in 1 .. Len(t) /\ t[2] = "dirIndex" /\ \A j \in 1 .. 2 - 1 : t[j] = "path"
        BY SMT
      <3> QED
        BY <3>1, Zenon DEF TriesIndex
    <2>2. TriesIndex(<<"dirIndex", "index">>)
      <3> DEFINE t == <<"dirIndex", "index">>
      <3>1. 1 \in 1 .. Len(t) /\ t[1] = "dirIndex" /\ \A j \in 1 .. 1 - 1 : t[j] = "path"
        BY SMT
      <3> QED
        BY <3>1, Zenon DEF TriesIndex
    <2> QED
      BY <2>1, <2>2, Zenon
  <1> HIDE DEF re, php, file, no, any
  <1>4. ASSUME NEW u \in Seq(WorkerRoutes), NEW t \in Seq(Entries), TriesIndex(t), NEW v \in Seq(RoutesAfter(cfg))
        PROVE  Indexed(((u \o (<<re>> \o <<Route("rewrite", t)>>)) \o <<php>>) \o v, Len(u) + 1)
    <2> DEFINE rw == Route("rewrite", t)
    <2>1. rw \in RouteSet /\ rw.handler = "rewrite" /\ TriesIndex(rw.tryFiles)
      BY <1>2, <1>4, Zenon
    <2> HIDE DEF rw
    <2>2. Indexed(((u \o (<<re>> \o <<rw>>)) \o <<php>>) \o v, Len(u) + 1)
      BY <1>1, <2>1, JoinIndexed, Zenon
    <2> QED
      BY <2>2, Zenon DEF rw
  <1>5. CASE cfg.command
    <2> DEFINE t == <<"path", "dirIndex", "index">>
               rw == Route("rewrite", t)
    <2>1. Routes(cfg) = <<re, rw, php, any>>
      BY <1>5, Zenon DEF Routes, cmdPHPServer, re, php, any
    <2>2. any \in RoutesAfter(cfg) /\ t \in Seq(Entries)
      BY <1>1, <1>5, EntryLists, Zenon DEF IsConfig
    <2>3. <<any>> \in Seq(RoutesAfter(cfg)) /\ <<>> \in Seq(WorkerRoutes)
      <3>1. <<>> \in Seq(WorkerRoutes)
        BY SMT
      <3> QED
        BY <2>2, <3>1, OneRoute, Zenon
    <2>4. Indexed(((<<>> \o (<<re>> \o <<rw>>)) \o <<php>>) \o <<any>>, Len(<<>>) + 1)
      <3> HIDE DEF t
      <3>1. TriesIndex(t)
        BY <1>3, Zenon DEF t
      <3> QED
        BY <1>4, <2>2, <2>3, <3>1, Zenon
    <2> HIDE DEF rw
    <2>5. <<re, rw, php, any>> = ((<<>> \o (<<re>> \o <<rw>>)) \o <<php>>) \o <<any>>
      BY SMT
    <2> QED
      BY <2>1, <2>4, <2>5, Zenon
  <1>6. CASE ~cfg.command
    <2> DEFINE routes == Routes(cfg)
               w == prependWorkerRoutes(cfg)
               ts == {cfg.tryFiles, <<"path", "dirIndex", "index">>, <<"dirIndex", "index">>}
    <2>1. ParsedRoutes(routes, cfg)
      BY <1>6, ParseIs, Zenon DEF Routes
    <2> HIDE DEF routes
    <2>2. PICK i, v :
             /\ routes = ((w \o i) \o <<php>>) \o v
             /\ v \in {<<>>, <<file, no>>}
             /\ \/ i = <<>>
                \/ \E t \in ts : /\ i = IndexRoutes(cfg, t) /\ (cfg.tryFiles # <<>> => t = cfg.tryFiles)
                                 /\ (cfg.tryFiles = <<>> => t # cfg.tryFiles)
      BY <2>1, Zenon DEF ParsedRoutes, php, file, no
    <2>3. w \in Seq(WorkerRoutes)
      BY PrependTyped, Zenon
    <2>4. v \in Seq(RoutesAfter(cfg))
      <3>1. <<>> \in Seq(RoutesAfter(cfg)) /\ <<file, no>> \in Seq(RoutesAfter(cfg))
        BY <1>1, OneRoute, TwoRoutes, Zenon
      <3> QED
        BY <2>2, <3>1, Zenon
    <2> HIDE DEF w
    <2>5. ASSUME NEW X, X = {r \in RouteSet : r.handler # "redirect"}, i \in Seq(X)
          PROVE  \A n \in 1 .. Len(routes) : routes[n].handler # "redirect"
      <3>1. WorkerRoutes \subseteq X /\ RoutesAfter(cfg) \subseteq X /\ php \in X
        <4>1. Route("existing", <<"path">>).handler = "existing" /\ Route("worker", <<>>).handler = "worker"
              /\ "existing" # "redirect" /\ "worker" # "redirect" /\ "php" # "redirect"
          BY SMT DEF Route
        <4>2. \A r \in RoutesAfter(cfg) : r.handler # "redirect"
          BY SMT DEF RoutesAfter
        <4>3. WorkerRoutes \subseteq RouteSet
          BY PrependTyped, Zenon DEF RoutesBefore
        <4> QED
          BY <1>1, <2>5, <4>1, <4>2, <4>3, Zenon DEF WorkerRoutes, RoutesAfter
      <3>2. w \in Seq(X) /\ v \in Seq(X) /\ <<php>> \in Seq(X)
        BY <2>3, <2>4, <3>1, SMT
      <3>3. w \o i \in Seq(X)
        BY <2>5, <3>2, ConcatIs, Zenon
      <3>4. (w \o i) \o <<php>> \in Seq(X)
        BY <3>2, <3>3, ConcatIs, Zenon
      <3>5. routes \in Seq(X)
        BY <2>2, <3>2, <3>4, ConcatIs, Zenon
      <3>6. \A n \in 1 .. Len(routes) : routes[n] \in X
        BY <3>5, SMT
      <3> QED
        BY <2>5, <3>6, Zenon
    <2>6. CASE i = <<>>
      <3> DEFINE X == {r \in RouteSet : r.handler # "redirect"}
      <3>1. i \in Seq(X)
        BY <2>6, SMT
      <3> HIDE DEF X
      <3> QED
        BY <2>5, <3>1, Zenon DEF X, routes
    <2>7. ASSUME NEW t \in ts, i = IndexRoutes(cfg, t), cfg.tryFiles # <<>> => t = cfg.tryFiles,
                 cfg.tryFiles = <<>> => t # cfg.tryFiles
          PROVE  \/ \E m : Indexed(routes, m)
                 \/ \A n \in 1 .. Len(routes) : routes[n].handler # "redirect"
      <3> DEFINE rw == Route("rewrite", t)
      <3>1. t \in Seq(Entries)
        BY <2>7, EntryLists, Zenon DEF IsConfig
      <3>2. CASE cfg.tryFiles = <<>> \/ "dirIndex" \in Range(cfg.tryFiles)
        <4>1. i = <<re>> \o <<rw>>
          BY <2>7, <3>2, Zenon DEF IndexRoutes, re
        <4>2. TriesIndex(t)
          BY <1>3, <2>7, <3>2, Zenon
        <4>3. Indexed(((w \o (<<re>> \o <<rw>>)) \o <<php>>) \o v, Len(w) + 1)
          BY <1>4, <2>3, <2>4, <3>1, <4>2, Zenon
        <4> QED
          BY <2>2, <4>1, <4>3, Zenon
      <3>3. CASE ~(cfg.tryFiles = <<>> \/ "dirIndex" \in Range(cfg.tryFiles))
        <4> DEFINE X == {r \in RouteSet : r.handler # "redirect"}
        <4>1. i = <<>> \o <<rw>>
          BY <2>7, <3>3, Zenon DEF IndexRoutes
        <4>2. rw \in X
          <5>1. "rewrite" # "redirect"
            BY SMT
          <5> QED
            BY <1>2, <3>1, <5>1, Zenon
        <4> HIDE DEF rw, X
        <4>3. i \in Seq(X)
          BY <4>1, <4>2, SMT
        <4> QED
          BY <2>5, <4>3, Zenon DEF X
      <3> QED
        BY <3>2, <3>3, Zenon
    <2> QED
      BY <2>2, <2>6, <2>7, Zenon DEF routes
  <1> QED
    BY <1>5, <1>6, Zenon

\* A worker route neither rewrites nor redirects.
LEMMA WorkerRouteIs ==
    ASSUME NEW r \in WorkerRoutes
    PROVE  /\ r.handler # "rewrite" /\ r.handler # "redirect"
           /\ r.handler = "worker" \/ (r.handler = "existing" /\ r.tryFiles = <<"path">>)
  <1>1. /\ Route("existing", <<"path">>).handler = "existing" /\ Route("worker", <<>>).handler = "worker"
        /\ Route("existing", <<"path">>).tryFiles = <<"path">>
        /\ "existing" # "redirect" /\ "worker" # "redirect" /\ "existing" # "rewrite" /\ "worker" # "rewrite"
    BY SMT DEF Route
  <1> QED
    BY <1>1, Zenon DEF WorkerRoutes

\* The file matcher of a route with one entry, when it is no rewrite
LEMMA OneEntryTakes ==
    ASSUME NEW Segment, Index \in Names(Segment), NEW acc \in Routed(Segment), NEW route, NEW cfg, NEW fs,
           NEW e \in Entries, route.tryFiles = <<e>>, route.handler \in {"existing", "redirect"},
           Takes(acc, route, cfg, fs)
    PROVE  TryFile(e, Clean(acc.path)) \in fs
  <1> DEFINE c == Clean(acc.path)
  <1>1. acc.by = "none" /\ acc.path \in Seq(Segment)
    BY Zenon DEF Takes, Routed
  <1>2. c \in Seq(Names(Segment))
    BY <1>1, CleanTyped, Zenon
  <1>3. FileHits(acc, route, cfg, fs) # <<>>
    BY <1>1, TakesIs, Zenon
  <1>4. route.handler # "rewrite"
    BY SMT
  <1>5. FileHits(acc, route, cfg, fs) = MatchFile(<<e>>, <<>>, c, fs)
    BY <1>4, Zenon DEF FileHits
  <1> HIDE DEF c
  <1>6. MatchFile(<<e>>, <<>>, c, fs) # <<>>
    BY <1>3, <1>5, Zenon
  <1>7. TryFile(e, c) \in fs
    BY <1>2, <1>6, SingleHit, Zenon
  <1> QED
    BY <1>7, Zenon DEF c

\* Before the redirect, only a route of a worker takes a request for the directory.
LEMMA DirRequest ==
    ASSUME NEW Segment, Index \in Names(Segment), NEW routes, NEW m, Indexed(routes, m), NEW cfg, NEW q, NEW fs,
           NEW c, Clean(q) = c, c \notin fs, NEW g, Run(g, routes, cfg, q, fs, Segment)
    PROVE  \/ g[Len(routes)].by = "worker"
           \/ g[m - 1].by = "none" /\ g[m - 1].path = q
  <1>1. /\ m \in 1 .. Len(routes) /\ Len(routes) \in Nat /\ \A n \in 1 .. m - 1 : routes[n] \in WorkerRoutes
    BY Zenon DEF Indexed, Run
  <1>2. /\ 0 \in 0 .. Len(routes) /\ m - 1 \in 0 .. Len(routes) /\ m - 1 \in 0 .. m - 1
        /\ Len(routes) \in m - 1 .. Len(routes)
    BY <1>1, SMT
  <1>3. ASSUME NEW n \in 0 .. m - 1, \A i \in 0 .. n : g[i].by = "none" PROVE g[n] = g[0]
    <2>1. n \in 0 .. Len(routes) /\ \A i \in 0 + 1 .. n : i \in 1 .. m - 1
      BY <1>1, SMT
    <2>2. \A i \in 0 + 1 .. n : routes[i].handler # "rewrite"
      BY <1>1, <2>1, WorkerRouteIs, Zenon
    <2> QED
      BY <1>2, <1>3, <2>1, <2>2, Idles, Zenon
  <1>4. g[0].path = q
    BY Zenon DEF Run
  <1>5. CASE g[m - 1].by # "none"
    <2>1. PICK n \in 1 .. m - 1 : TakenBy(g, routes, cfg, fs, n, g[m - 1])
      BY <1>2, <1>5, TakenOnce, Zenon
    <2>2. /\ Takes(g[n - 1], routes[n], cfg, fs) /\ g[m - 1].by = routes[n].handler
          /\ \A i \in 0 .. n - 1 : g[i].by = "none"
      BY <2>1, Zenon DEF TakenBy
    <2>3. n - 1 \in 0 .. m - 1 /\ n - 1 \in 0 .. Len(routes)
      BY <1>1, SMT
    <2>4. g[n - 1].path = q /\ g[n - 1] \in Routed(Segment)
      BY <1>3, <1>4, <2>2, <2>3, Zenon DEF Run
    <2>5. routes[n].handler = "worker"
      <3>1. ASSUME routes[n].handler = "existing" /\ routes[n].tryFiles = <<"path">> PROVE FALSE
        <4>1. "path" \in Entries
          BY Zenon DEF Entries
        <4>2. TryFile("path", Clean(g[n - 1].path)) \in fs
          BY <2>2, <2>4, <3>1, <4>1, OneEntryTakes, Zenon
        <4>3. TryFile("path", c) \in fs
          BY <2>4, <4>2, Zenon
        <4>4. q \in Seq(Segment)
          BY <2>4, Zenon DEF Routed
        <4>5. c \in Seq(Names(Segment))
          BY <4>4, CleanTyped, Zenon
        <4> QED
          BY <4>3, <4>5, TryFileTyped, Zenon
      <3> QED
        BY <1>1, <3>1, WorkerRouteIs, Zenon
    <2>6. g[Len(routes)] = g[m - 1]
      BY <1>2, <1>5, Sticks, Zenon
    <2> QED
      BY <2>2, <2>5, <2>6, Zenon
  <1>6. CASE g[m - 1].by = "none"
    <2>1. ASSUME NEW i \in 0 .. m - 1 PROVE g[i].by = "none"
      <3>1. i \in 0 .. Len(routes) /\ m - 1 \in i .. Len(routes)
        BY <1>1, SMT
      <3>2. g[i].by # "none" => g[m - 1] = g[i]
        BY <3>1, Sticks, Zenon
      <3> QED
        BY <1>6, <3>2, Zenon
    <2>2. g[m - 1] = g[0]
      BY <1>2, <1>3, <2>1, Zenon
    <2> QED
      BY <1>4, <1>6, <2>2, Zenon
  <1> QED
    BY <1>5, <1>6, Zenon

\* A request that the redirect took: the directory has an index.
LEMMA RedirectIs ==
    ASSUME NEW Segment, Index \in Names(Segment), NEW routes, NEW m, Indexed(routes, m), NEW cfg, NEW path, NEW fs,
           NEW f, Run(f, routes, cfg, path, fs, Segment), f[Len(routes)].by = "redirect"
    PROVE  Append(Clean(path), Index) \in fs
  <1>1. /\ m \in 1 .. Len(routes) /\ Len(routes) \in Nat /\ \A n \in 1 .. m - 1 : routes[n] \in WorkerRoutes
        /\ routes[m].handler = "redirect" /\ routes[m].tryFiles = <<"dirIndex">>
        /\ \A n \in 1 .. Len(routes) : routes[n].handler = "redirect" => n = m
    BY Zenon DEF Indexed, Run
  <1>2. /\ 0 \in 0 .. Len(routes) /\ m - 1 \in 0 .. Len(routes) /\ Len(routes) \in 0 .. Len(routes)
        /\ \A i \in 0 + 1 .. m - 1 : i \in 1 .. m - 1
    BY <1>1, SMT
  <1>3. "redirect" # "none"
    BY SMT
  <1>4. PICK n \in 1 .. Len(routes) : TakenBy(f, routes, cfg, fs, n, f[Len(routes)])
    BY <1>2, <1>3, TakenOnce, Zenon
  <1>5. n = m
    BY <1>1, <1>4, Zenon DEF TakenBy
  <1>6. Takes(f[m - 1], routes[m], cfg, fs) /\ \A i \in 0 .. m - 1 : f[i].by = "none"
    BY <1>4, <1>5, Zenon DEF TakenBy
  <1>7. \A i \in 0 + 1 .. m - 1 : routes[i].handler # "rewrite"
    BY <1>1, <1>2, WorkerRouteIs, Zenon
  <1>8. f[m - 1] = f[0]
    <2>1. \A i \in 0 .. m - 1 : f[i].by = "none"
      BY <1>6, Zenon
    <2>2. 0 \in 0 .. Len(routes) /\ m - 1 \in 0 .. Len(routes)
      BY <1>2, Zenon
    <2> DEFINE j == m - 1
    <2>3. /\ j \in 0 .. Len(routes) /\ (\A i \in 0 .. j : f[i].by = "none")
          /\ \A i \in 0 + 1 .. j : routes[i].handler # "rewrite"
      BY <1>7, <2>1, <2>2, Zenon
    <2> HIDE DEF j
    <2>4. f[j] = f[0]
      BY <2>2, <2>3, Idles
    <2> QED
      BY <2>4, Zenon DEF j
  <1>9. f[m - 1].path = path /\ f[m - 1] \in Routed(Segment)
    BY <1>2, <1>8, Zenon DEF Run
  <1>10. "dirIndex" \in Entries /\ "dirIndex" \notin {"path", "index"}
    BY SMT DEF Entries
  <1>11. TryFile("dirIndex", Clean(f[m - 1].path)) \in fs
    BY <1>1, <1>6, <1>9, <1>10, OneEntryTakes, Zenon
  <1>12. path \in Seq(Segment)
    BY <1>9, Zenon DEF Routed
  <1>13. Clean(path) \in Seq(Names(Segment))
    BY <1>12, CleanTyped, Zenon
  <1> QED
    BY <1>9, <1>10, <1>11, <1>13, TryFileTyped, Zenon

\* A directory that is redirected serves its index: for all options, paths and file
\* trees without a directory that has the name of a script.
THEOREM IndexIsReached ==
    ASSUME NEW Segment, Index \in Names(Segment), NEW path \in Seq(Segment), NEW cfg, IsConfig(cfg),
           "dirIndex" \in Range(cfg.tryFiles) => TriesIndex(cfg.tryFiles),
           NEW fs, FileTree(fs), PlainDirs(fs, cfg.exts)
    PROVE  IndexReached(cfg, path, serve(Routes(cfg), cfg, path, fs), serve(Routes(cfg), cfg, Append(path, ""), fs))
  <1> DEFINE routes == Routes(cfg)
             b == ""
             S == Segment \cup {b}
             q == Append(path, b)
             c == Clean(path)
             served == serve(routes, cfg, path, fs)
             again == serve(routes, cfg, q, fs)
  <1>1. routes \in Seq(RouteSet) /\ cfg.exts \in Seq(STRING)
    BY RoutesShaped, Zenon DEF Shaped, IsConfig
  <1>2. \/ \E m : Indexed(routes, m)
        \/ \A n \in 1 .. Len(routes) : routes[n].handler # "redirect"
    BY RoutesIndexed, Zenon
  <1>3. Clean(q) = c /\ CleanPath(q)[Len(CleanPath(q))] = b
    BY CleanPathIs, Zenon
  <1>4. c \in Seq(Names(Segment))
    BY CleanTyped, Zenon
  <1>5. Index \in Names(S) /\ Names(Segment) \subseteq Names(S)
    BY Zenon DEF Names
  <1> HIDE DEF routes, c
  <1>6. q \in Seq(S) /\ c \in Seq(Names(S))
    <2> DEFINE A == Names(Segment)
               B == Names(S)
    <2>1. A \subseteq B /\ c \in Seq(A)
      BY <1>4, <1>5, Zenon
    <2> HIDE DEF b, A, B
    <2>2. q \in Seq(S)
      BY SMT
    <2>3. c \in Seq(B)
      BY <2>1, SMT
    <2> QED
      BY <2>2, <2>3, Zenon DEF B
  <1> HIDE DEF q, S
  <1>7. PICK f : Run(f, routes, cfg, path, fs, Segment)
    BY <1>1, RunOf, Zenon
  <1>8. PICK g : Run(g, routes, cfg, q, fs, S)
    BY <1>1, <1>5, <1>6, RunOf, Zenon
  <1>9. served = f[Len(routes)] /\ again = g[Len(routes)] /\ Len(routes) \in Nat
    BY <1>7, <1>8, Zenon DEF Run
  <1> HIDE DEF served, again
  <1> SUFFICES ASSUME served.by = "redirect", Ext[Index] \in Range(cfg.exts)
               PROVE  again.by = "worker" \/ (again.by = "php" /\ again.matched = Append(c, Index))
    BY Zenon DEF IndexReached, served, again, routes, c, q, b
  <1>10. PICK m : Indexed(routes, m)
    <2>1. Len(routes) \in 0 .. Len(routes) /\ "redirect" # "none"
      BY <1>9, SMT
    <2>2. f[Len(routes)].by # "none"
      BY <1>9, <2>1, Zenon
    <2>3. PICK n \in 1 .. Len(routes) : TakenBy(f, routes, cfg, fs, n, f[Len(routes)])
      BY <1>7, <2>1, <2>2, TakenOnce, Zenon
    <2> QED
      BY <1>2, <1>9, <2>3, Zenon DEF TakenBy
  <1>11. Append(c, Index) \in fs
    BY <1>7, <1>9, <1>10, RedirectIs, Zenon DEF c
  <1>12. c \notin fs
    BY <1>1, <1>4, <1>11, DirIsNoFile, Zenon
  <1>13. g[Len(routes)].by = "worker" \/ (g[m - 1].by = "none" /\ g[m - 1].path = q)
    <2>1. Clean(q) = c /\ Index \in Names(S)
      BY <1>3, <1>5, Zenon
    <2> QED
      BY <1>8, <1>10, <1>12, <2>1, DirRequest
  <1>14. CASE g[m - 1].by = "none" /\ g[m - 1].path = q
    <2>1. /\ m \in 1 .. Len(routes) /\ m + 1 \in 1 .. Len(routes) /\ m + 2 \in 1 .. Len(routes)
          /\ routes[m].handler = "redirect"
          /\ routes[m + 1].handler = "rewrite" /\ TriesIndex(routes[m + 1].tryFiles)
          /\ routes[m + 2].handler = "php"
      BY <1>10, Zenon DEF Indexed
    <2>2. /\ (m + 1) - 1 = m /\ (m + 2) - 1 = m + 1 /\ m + 2 \in 0 .. Len(routes) /\ Len(routes) \in m + 2 .. Len(routes)
          /\ m \in 0 .. Len(routes)
      BY <1>9, <2>1, SMT
    <2>3. /\ StepIs(g[m - 1], routes[m], cfg, fs, g[m]) /\ StepIs(g[m], routes[m + 1], cfg, fs, g[m + 1])
          /\ StepIs(g[m + 1], routes[m + 2], cfg, fs, g[m + 2])
          /\ routes[m + 1] \in RouteSet /\ g[m] \in Routed(S)
      BY <1>8, <2>1, <2>2, Zenon DEF Run
    <2>4. g[m] = g[m - 1]
      <3>1. CleanPath(g[m - 1].path)[Len(CleanPath(g[m - 1].path))] = b
        BY <1>3, <1>14, Zenon
      <3>2. ~Takes(g[m - 1], routes[m], cfg, fs)
        BY <1>14, <2>1, <3>1, TakesIs, Zenon
      <3> QED
        BY <2>3, <3>2, Zenon DEF StepIs
    <2>5. g[m + 1].by = "none" /\ g[m + 1].path = Append(c, Index) /\ g[m + 1].matched = Append(c, Index)
      <3>1. Clean(g[m].path) = c /\ g[m].by = "none"
        BY <1>3, <1>14, <2>4, Zenon
      <3> DEFINE acc == g[m]
                 route == routes[m + 1]
                 new == g[m + 1]
      <3>2. /\ Index \in Names(S) /\ c \in Seq(Names(S)) /\ cfg.exts \in Seq(STRING)
            /\ acc \in Routed(S) /\ Clean(acc.path) = c /\ acc.by = "none" /\ route \in RouteSet
            /\ route.handler = "rewrite" /\ TriesIndex(route.tryFiles) /\ StepIs(acc, route, cfg, fs, new)
        BY <1>1, <1>5, <1>6, <2>1, <2>3, <3>1, Zenon
      <3> HIDE DEF acc, route, new
      <3>3. new.by = "none" /\ new.path = Append(c, Index) /\ new.matched = Append(c, Index)
        BY <1>11, <3>2, RewriteToIndex
      <3> QED
        BY <3>3, Zenon DEF new
    <2>6. MatchExtensions(cfg.exts, CleanPath(g[m + 1].path))
      <3>1. MatchExtensions(cfg.exts, CleanPath(Append(c, Index)))
        BY <1>1, <1>4, NamesAreSeen, Zenon
      <3> QED
        BY <2>5, <3>1, Zenon
    <2>7. Takes(g[m + 1], routes[m + 2], cfg, fs)
      BY <2>1, <2>5, <2>6, TakesIs, Zenon
    <2>8. "php" # "rewrite" /\ "php" # "none"
      BY SMT
    <2>9. g[m + 2].by = "php" /\ g[m + 2].matched = Append(c, Index)
      BY <2>1, <2>3, <2>5, <2>7, <2>8, Zenon DEF StepIs
    <2>10. g[Len(routes)] = g[m + 2]
      <3>1. g[m + 2].by # "none" /\ m + 2 \in 0 .. Len(routes) /\ Len(routes) \in m + 2 .. Len(routes)
        BY <2>2, <2>8, <2>9, Zenon
      <3> QED
        BY <1>8, <3>1, Sticks, Zenon
    <2> QED
      BY <1>9, <2>9, <2>10, Zenon
  <1> QED
    BY <1>9, <1>13, <1>14, Zenon

\* RouterAgrees and RoutesComplete, of every request.
IsRequest(Segment) ==
    /\ Index \in Names(Segment) /\ input.path \in Seq(Segment) /\ input.path # <<>> /\ <<>> \notin input.fs
    /\ \A cfg \in RouteConfigs : IsConfig(cfg)

\* RouterAgrees: for any request, files, split extensions and php_server directives, the
\* script that a request runs (splitCgiPath) is the one the router matched
\* (parsePhpServer), and it stays below the document root.
THEOREM RouterAgreement ==
    ASSUME NEW Segment, input.kind = "url" => IsRequest(Segment)
    PROVE  RouterAgrees
  <1> SUFFICES ASSUME IsRequest(Segment)
               PROVE  /\ \A cfg \in RouteConfigs : ScriptIsMatched(Served(cfg, input.path), Context(Served(cfg, input.path), cfg))
                      /\ \A exts \in {cfg.exts : cfg \in RouteConfigs} :
                            ScriptInRoot(newContextFromRequest(input.path, exts, <<>>, {}), input.path)
    BY Zenon DEF RouterAgrees
  <1>1. ASSUME NEW cfg \in RouteConfigs PROVE ScriptIsMatched(Served(cfg, input.path), Context(Served(cfg, input.path), cfg))
    <2>1. IsConfig(cfg)
      BY Zenon DEF IsRequest
    <2>2. Routes(cfg) \in Seq(RouteSet) /\ cfg.exts \in Seq(STRING)
      BY <2>1, RoutesShaped, Zenon DEF Shaped, IsConfig
    <2>3. /\ Index \in Names(Segment) /\ input.path \in Seq(Segment) /\ input.path # <<>> /\ <<>> \notin input.fs
      BY Zenon DEF IsRequest
    <2> DEFINE served == serve(Routes(cfg), cfg, input.path, input.fs)
    <2>4. ScriptIsMatched(served, newContextFromRequest(served.path, cfg.exts, cfg.workers, {}))
      BY <2>2, <2>3, RouterAndContextAgree, Zenon
    <2> QED
      BY <2>4, Zenon DEF Served, Context
  <1>2. ASSUME NEW cfg \in RouteConfigs PROVE ScriptInRoot(newContextFromRequest(input.path, cfg.exts, <<>>, {}), input.path)
    <2>1. cfg.exts \in Seq(STRING) /\ input.path \in Seq(Segment)
      BY Zenon DEF IsRequest, IsConfig
    <2>2. \A x : matchRequest(<<>>, x) = <<>>
      <3>1. DOMAIN <<>> = {}
        BY SMT
      <3> QED
        BY <3>1, Zenon DEF matchRequest
    <2>3. newContextFromRequest(input.path, cfg.exts, <<>>, {}) = splitCgiPath(input.path, cfg.exts, <<>>, {})
      BY <2>2, Zenon DEF newContextFromRequest
    <2>4. ScriptInRoot(splitCgiPath(input.path, cfg.exts, <<>>, {}), input.path)
      BY <2>1, ScriptsStayInRoot
    <2> QED
      BY <2>3, <2>4, Zenon
  <1> QED
    BY <1>1, <1>2, Zenon

\* RoutesComplete: for any request and directives, no script is served as a file, and a
\* directory that is redirected serves its index, provided that no directory is named
\* like a script, the parents of files are no files, and a try_files list with the
\* index of the directory tries it before the index of the root.
THEOREM RoutesCompleteness ==
    ASSUME NEW Segment,
           input.kind = "url" =>
               /\ IsRequest(Segment) /\ FileTree(input.fs)
               /\ \A cfg \in RouteConfigs : /\ PlainDirs(input.fs, cfg.exts)
                                            /\ "dirIndex" \in Range(cfg.tryFiles) => TriesIndex(cfg.tryFiles)
    PROVE  RoutesComplete
  <1> SUFFICES ASSUME input.kind = "url"
               PROVE  \A cfg \in RouteConfigs :
                         /\ SourceNotServed(cfg, Served(cfg, input.path))
                         /\ IndexReached(cfg, input.path, Served(cfg, input.path), Served(cfg, Append(input.path, "")))
    BY Zenon DEF RoutesComplete
  <1> TAKE cfg \in RouteConfigs
  <1>1. /\ IsConfig(cfg) /\ Index \in Names(Segment) /\ input.path \in Seq(Segment) /\ FileTree(input.fs)
        /\ PlainDirs(input.fs, cfg.exts)
        /\ "dirIndex" \in Range(cfg.tryFiles) => TriesIndex(cfg.tryFiles)
    BY Zenon DEF IsRequest
  <1>2. SourceNotServed(cfg, serve(Routes(cfg), cfg, input.path, input.fs))
    BY <1>1, SourcesAreNotServed, Zenon
  <1>3. IndexReached(cfg, input.path, serve(Routes(cfg), cfg, input.path, input.fs),
                     serve(Routes(cfg), cfg, Append(input.path, ""), input.fs))
    BY <1>1, IndexIsReached, Zenon
  <1> QED
    BY <1>2, <1>3, Zenon DEF Served
=============================================================================
