---------------------------- MODULE PhpThreadsInv ----------------------------
(***************************************************************************)
(* The inductive invariant behind TypeOK and TeardownSafe, in layers.      *)
(* Each layer is inductive given the layers before it; they need that no   *)
(* restart is asked for while Init runs.                                   *)
(***************************************************************************)
EXTENDS PhpThreads

\* Layer 0: the types, but for the two counters that are decremented.
Types ==
    /\ state \in [Thread -> State]
    /\ want \subseteq Role \X Thread /\ granted \subseteq Role \X Thread
    /\ handler \in [Thread -> Handler] /\ drained \in [Thread -> BOOLEAN]
    /\ cpc \in [Thread -> CStep] /\ requests \in [Thread -> Nat]
    /\ waiting \in [Thread -> BOOLEAN] /\ rpc \in [Thread -> RStep]
    /\ pool \in [Pool -> [Thread -> Nat]] /\ restoring \in [Pool -> Int]
    /\ autoScaled \subseteq Thread
    /\ mu \in {"free", "scale", "restore", "down", "reboot", "drain"}
    /\ target \in Pool \cup {"inactive"} /\ stopped \in Nat
    /\ task \in [Actor -> [Thread -> TaskStep]]
    /\ ini \in {"boot", "convert", "running", "failed", "over", "panic"}
    /\ left \in Int /\ left <= NumThreads /\ wpc \in [Thread -> {"none", "started"}] /\ failed \in BOOLEAN
    /\ main \in State /\ engine \in BOOLEAN
    /\ restarts \in Nat /\ scaled \in Nat /\ refused \in Nat

Started == {"running", "failed", "over"}

\* Layer 1: Init is alone until it returns, and leaves nothing behind.
Phases ==
    /\ ini \in Started => \A t \in Thread : task["init"][t] = "none" /\ wpc[t] = "none"
    /\ ini \notin Started =>
          /\ mu = "free" /\ main = "Ready" /\ autoScaled = {}
          /\ \A p \in Pool : restoring[p] = 0
          /\ \A t \in Thread : task["mu"][t] = "none" /\ requests[t] = 0 /\ rpc[t] = "none"
    /\ ini = "boot" =>
          \A t \in Thread : wpc[t] = "none" /\ task["init"][t] \in {"none", "create", "boot", "panic"}
    /\ ini = "running" => ~failed

AddSteps == {"none", "create", "boot", "convert", "safe", "close", "transit", "attach", "stable", "panic"}
DownSteps == {"none", "check", "convert", "safe", "close", "transit", "attach", "panic"}
RebootSteps == {"none", "force", "safeForce", "closeForce", "yield", "yielded", "skip", "down", "stable", "panic"}
DrainSteps == {"none", "shutdown", "safeDown", "closeDown", "exit", "join", "panic"}

\* Layer 2: the holder of scalingMu only takes steps of what it does.
MuSteps ==
    /\ mu = "free" => \A t \in Thread : task["mu"][t] = "none"
    /\ mu \in {"scale", "restore"} =>
          /\ \A t \in Thread : task["mu"][t] \in AddSteps
          /\ \A t, u \in Thread : task["mu"][t] # "none" /\ task["mu"][u] # "none" => t = u
    /\ mu = "down" => \A t \in Thread : task["mu"][t] \in DownSteps
    /\ mu = "reboot" => ini = "running" /\ \A t \in Thread : task["mu"][t] \in RebootSteps
    /\ mu = "drain" => ini \in {"running", "failed"} /\ \A t \in Thread : task["mu"][t] \in DrainSteps

\* Layer 3: only who is at a WaitFor is subscribed or answered, and not both.
Waits ==
    /\ \A t \in Thread :
          /\ <<"c", t>> \in want \cup granted => cpc[t] \in WaitStep
          /\ <<"respawn", t>> \in want \cup granted => rpc[t] \in WaitStep
          /\ <<"ready", t>> \in want \cup granted => wpc[t] \in WaitStep
          /\ \A a \in Actor : <<a, t>> \in want \cup granted => task[a][t] \in WaitStep
    /\ want \cap granted = {}

Gone == {"Reserved", "BootRequested", "Done", "YieldingForReboot"}
Leaving == {"Rebooting", "ForceRebooting", "ShuttingDown"}

\* startRebootedThread has to, or is about to, start a C thread.
Respawning(t) ==
    \/ rpc[t] \in {"create", "release", "reserve"}
    \/ <<"respawn", t>> \in granted
    \/ rpc[t] = "rebooted" /\ state[t] = "RebootReady"

\* Layer 4, for one thread: what its state says about its C thread and about
\* the waits that were answered.
Shape(t) ==
    /\ state[t] \in Gone => cpc[t] = "none"
    /\ Respawning(t) => state[t] = "RebootReady" /\ cpc[t] = "none"
    /\ cpc[t] = "leave" => state[t] \in Leaving
    /\ state[t] = "TransitionInProgress" => cpc[t] = "newHandler"
    /\ cpc[t] = "newHandler" /\ <<"c", t>> \in granted => state[t] = "TransitionComplete"
    /\ \A a \in Actor :
          task[a][t] = "transit" /\ <<a, t>> \in granted => state[t] = "TransitionInProgress"
    /\ <<"mu", t>> \in granted =>
          /\ task["mu"][t] = "yield" => state[t] = "YieldingForReboot"
          /\ task["mu"][t] = "exit" => state[t] = "Done"
          /\ task["mu"][t] = "join" => state[t] \in {"Done", "Reserved"}
    /\ task["mu"][t] \in {"yielded", "down"} => state[t] = "YieldingForReboot"
    /\ task["mu"][t] = "skip" => state[t] = "Reserved"
    /\ mu = "drain" /\ task["mu"][t] = "none" => state[t] = "Reserved"
    /\ state[t] \in {"ShuttingDown", "Done"} => failed \/ mu = "drain"

\* Layer 4, for the main thread.
MainShape ==
    /\ main \in {"Ready", "Rebooting", "YieldingForReboot", "ShuttingDown", "Done", "Reserved"}
    /\ ~engine => main \in {"Rebooting", "YieldingForReboot", "Done", "Reserved"}
    /\ main \in {"Rebooting", "YieldingForReboot"} =>
          /\ mu = "reboot"
          /\ \A t \in Thread : \/ task["mu"][t] = "down"
                               \/ task["mu"][t] = "none" /\ state[t] = "Reserved"
    /\ main = "ShuttingDown" => mu = "drain"
    /\ main = "Done" => mu = "drain"
    /\ main = "Reserved" => mu \in {"drain", "free", "down"} /\ (mu = "drain" \/ ini = "over")
    /\ main \in {"Done", "Reserved"} =>
          \A t \in Thread : state[t] = "Reserved" /\ task["mu"][t] \in {"none", "check"}
    /\ mu = "drain" => main \in {"ShuttingDown", "Done", "Reserved"}
    /\ ini = "over" => main = "Reserved"

InitSteps == {"none", "create", "boot", "convert", "safe", "close", "transit", "attach", "panic"}

\* Init is busy with the conversion of thread t.
Converting(t) == task["init"][t] \notin {"none", "panic"}

\* Layer 5: the counters.  Init has a conversion left while it makes one, and
\* a restoreThread that holds scalingMu is still counted.
Counts ==
    /\ left >= 0
    /\ \A t \in Thread : task["init"][t] \in InitSteps
    /\ ini # "boot" =>
          \A t \in Thread : Converting(t) =>
              left > 0 /\ \A u \in Thread : Converting(u) => u = t
    /\ \A p \in Pool : restoring[p] >= 0
    /\ mu = "restore" => main = "Ready" /\ target \in Pool /\ restoring[target] > 0

\* The inductive invariant.
IndInv ==
    /\ Types /\ Phases /\ MuSteps /\ Waits
    /\ \A t \in Thread : Shape(t)
    /\ MainShape /\ Counts
=============================================================================
