------------------------------- MODULE Budget -------------------------------
(***************************************************************************)
(* The thread budget: what calculateMaxThreads (frankenphp.go) makes of    *)
(* num_threads and max_threads, and how the main thread settles the limit  *)
(* when it is ready (phpmainthread.go).                                    *)
(*                                                                         *)
(* numThreads and maxThreads are the configured values (0 when left out, a *)
(* negative maxThreads for "auto"), numWorkers the number of worker        *)
(* threads, fromWorkers what the workers may grow by, maxProcs twice the   *)
(* number of CPUs.                                                         *)
(***************************************************************************)
EXTENDS Integers

Accept(numThreads, maxThreads) == [ok |-> TRUE, numThreads |-> numThreads, maxThreads |-> maxThreads]
Refuse == [ok |-> FALSE, numThreads |-> 0, maxThreads |-> 0]

\* Mutated form: the worker threads are not added to num_threads.
BudgetShared(numThreads, maxThreads, numWorkers, fromWorkers, maxProcs) ==
    LET numIsSet == numThreads > 0
        max == IF maxThreads = 0 /\ fromWorkers > 0
               THEN (IF numIsSet THEN numThreads ELSE numWorkers + 1) + fromWorkers
               ELSE maxThreads
        maxIsSet == max # 0
        fits(n) == maxThreads < 0 \/ n <= max
        least == IF numWorkers >= maxProcs THEN numWorkers + 1 ELSE maxProcs
    IN  IF numIsSet
        THEN IF ~maxIsSet THEN Accept(numThreads, numThreads) ELSE IF fits(numThreads) THEN Accept(numThreads, max) ELSE Refuse
        ELSE IF ~maxIsSet THEN Accept(least, least)
             ELSE IF fits(numWorkers + 1) THEN Accept(numWorkers + 1, max) ELSE Refuse

\* calculateMaxThreads, once the workers are added up
Budget(numThreads, maxThreads, numWorkers, fromWorkers, maxProcs) ==
    LET num == IF numThreads > 0 THEN numThreads + numWorkers ELSE numThreads
        numIsSet == num > 0
        max == IF maxThreads = 0 /\ fromWorkers > 0
               THEN (IF numIsSet THEN num ELSE numWorkers + 1) + fromWorkers
               ELSE maxThreads
        maxIsSet == max # 0
        fits(n) == maxThreads < 0 \/ n <= max
        least == IF numWorkers >= maxProcs THEN numWorkers + 1 ELSE maxProcs
    IN  IF numIsSet
        THEN IF ~maxIsSet THEN Accept(num, num) ELSE IF fits(num) THEN Accept(num, max) ELSE Refuse
        ELSE IF ~maxIsSet THEN Accept(least, least)
             ELSE IF fits(numWorkers + 1) THEN Accept(numWorkers + 1, max) ELSE Refuse

\* setAutomaticMaxThreads: memory is the number of threads that the system memory
\* has room for, 0 when the limits are not known
setAutomaticMaxThreads(budget, memory) ==
    IF budget.maxThreads >= 0 THEN budget.maxThreads
    ELSE IF memory = 0 THEN 2 * budget.numThreads ELSE memory

\* go_frankenphp_main_thread_is_ready: the number of slots of phpThreads
finalMaxThreads(budget, memory) ==
    LET max == setAutomaticMaxThreads(budget, memory)
    IN  IF max < budget.numThreads THEN budget.numThreads ELSE max

\* A budget that is accepted has a thread for every worker thread and at least one
\* for the requests that no worker serves; exactly num_threads of the latter when
\* that is set ("raising a worker's num never takes capacity away from the rest of
\* the site"); a slot for every thread that is started; and no more slots than a
\* max_threads that is set ("limits how many threads may run at once, workers
\* included").
SoundBudget(numThreads, maxThreads, numWorkers, fromWorkers, maxProcs, memory) ==
    LET budget == Budget(numThreads, maxThreads, numWorkers, fromWorkers, maxProcs)
        slots == finalMaxThreads(budget, memory)
    IN  budget.ok =>
          /\ budget.numThreads >= numWorkers + 1
          /\ numThreads > 0 => budget.numThreads - numWorkers = numThreads
          /\ slots >= budget.numThreads
          /\ maxThreads > 0 => slots = maxThreads
=============================================================================
