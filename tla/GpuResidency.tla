---------------------------- MODULE GpuResidency ----------------------------
(***************************************************************************)
(* ResidencyCoordinator (app/platform/gpu/residency.py) over the lifecycle *)
(* of the Qwen engines (app/services/embeddings/qwen.py and its twin in    *)
(* reranking), as JobExecutor drives them: ensure_gpu(target), then the    *)
(* inference.                                                              *)
(*                                                                         *)
(* JobExecutor holds its _gpu_lock around both and the coordinator its own *)
(* lock, so there is one call at a time; `pc` is where that call is.  Each *)
(* action is one thread the call awaits (moving weights, warming up, ...), *)
(* which may raise; what a failed move leaves on which device is unknown.  *)
(***************************************************************************)
EXTENDS Naturals, FiniteSets, Functions

CONSTANTS
    Models,         \* the managed models
    NoModel,        \* "no model"
    Vram,           \* resident_vram_gib of each model
    Overhead,       \* activation reserve and fragmentation margin
    Caps,           \* values of gpu_vram_cap_gib to consider
    MaxFailures     \* bound: threads that raise

ASSUME ModelsAssumption == IsFiniteSet(Models) /\ NoModel \notin Models
ASSUME BudgetAssumption ==
    Vram \in [Models -> Nat] /\ Overhead \in Nat /\ Caps \subseteq Nat
ASSUME BoundAssumption == MaxFailures \in Nat

VARIABLES
    mode,       \* the effective residency mode
    state,      \* ModelState of each model
    loaded,     \* _model is not None
    weights,    \* where the weights are: "none", "cpu" or "gpu"
    pc,         \* what the call awaits; "idle" if there is none
    purpose,    \* why `subject` is being moved: "target", "restore", "prepare"
    target,     \* the model the call wants on the GPU
    subject,    \* the model being prepared, moved or warmed
    displaced,  \* the list `active` of ensure_gpu
    pending,    \* those of `active` still to offload, or to restore
    failures    \* threads that raised so far

callVars == <<pc, purpose, target, subject, displaced, pending>>
vars == <<mode, state, loaded, weights, callVars, failures>>

ModelState ==
    {"unloaded", "cpu_ready", "gpu_loading", "gpu_ready", "cpu_offloading", "failed"}

EffectiveModes == {"dedicated", "co_resident", "swapping"}

Activating == {"prepare", "move", "warm"}

TypeOK ==
    /\ mode \in EffectiveModes
    /\ state \in [Models -> ModelState]
    /\ loaded \in [Models -> BOOLEAN]
    /\ weights \in [Models -> {"none", "cpu", "gpu"}]
    /\ pc \in {"idle", "offload", "serve"} \cup Activating
    /\ purpose \in {"target", "restore", "prepare"}
    /\ target \in Models \cup {NoModel}
    /\ subject \in Models \cup {NoModel}
    /\ displaced \subseteq Models
    /\ pending \subseteq Models
    /\ failures \in 0..MaxFailures

-----------------------------------------------------------------------------
(* Choice of the mode when the coordinator is constructed.                 *)

RequiredVram == FoldFunction(+, Overhead, Vram)

CanCoReside(cap) == RequiredVram <= cap

\* The constructor raises for the others, and the application does not start.
Constructible(configured, cap) ==
    /\ configured = "dedicated" => Cardinality(Models) = 1
    /\ configured = "co_resident" => CanCoReside(cap)

EffectiveMode(configured, cap) ==
    IF configured # "auto" THEN configured
    ELSE IF CanCoReside(cap) THEN "co_resident" ELSE "swapping"

Init ==
    /\ \E configured \in EffectiveModes \cup {"auto"}, cap \in Caps :
           /\ Constructible(configured, cap)
           /\ mode = EffectiveMode(configured, cap)
    /\ state = [m \in Models |-> "unloaded"]
    /\ loaded = [m \in Models |-> FALSE]
    /\ weights = [m \in Models |-> "none"]
    /\ pc = "idle"
    /\ purpose = "prepare"
    /\ target = NoModel
    /\ subject = NoModel
    /\ displaced = {}
    /\ pending = {}
    /\ failures = 0

-----------------------------------------------------------------------------
(* Steps within a call.  Each takes the states it leaves behind, as code   *)
(* between two awaits changes the state of one model and looks at others.  *)

Ready(states) == {m \in Models : states[m] = "gpu_ready"}

\* The call has ended, with a result or by raising.
Return ==
    /\ pc' = "idle"
    /\ target' = NoModel
    /\ subject' = NoModel
    /\ displaced' = {}
    /\ pending' = {}
    /\ UNCHANGED purpose

\* Mutant: the outcome of the activation is swallowed, ensure_gpu returns.
LoadFailsSilently(states) ==
    IF purpose = "target"
    THEN /\ state' = states
         /\ pc' = "serve"
         /\ UNCHANGED <<purpose, target, subject, displaced, pending>>
    ELSE state' = states /\ Return

\* Mutant: nothing is restored.
LoadFailsForGood(states) == state' = states /\ Return

\* load_gpu up to its first await.
BeginLoad(m, why, states) ==
    /\ subject' = m
    /\ purpose' = why
    /\ IF loaded[m]
       THEN pc' = "move" /\ state' = [states EXCEPT ![m] = "gpu_loading"]
       ELSE pc' = "prepare" /\ state' = states

\* offload_cpu up to its first await.
BeginOffload(m, states) ==
    /\ subject' = m
    /\ purpose' = "target"
    /\ pc' = "offload"
    /\ state' = [states EXCEPT ![m] = "cpu_offloading"]

\* _restore: the next model of `active`, if any; then ensure_gpu raises.
RestoreNext(waiting, states) ==
    IF waiting = {}
    THEN state' = states /\ Return
    ELSE \E m \in waiting :
             /\ BeginLoad(m, "restore", states)
             /\ pending' = waiting \ {m}
             /\ UNCHANGED <<target, displaced>>

\* The thread that load_gpu or warmup awaited has raised.
LoadFails(states) ==
    IF purpose = "prepare"
    THEN state' = states /\ Return
    ELSE RestoreNext(IF purpose = "target" THEN displaced ELSE pending, states)

OneFailure == failures < MaxFailures /\ failures' = failures + 1

-----------------------------------------------------------------------------
(* Calls.                                                                  *)

\* prepare(), one model of it.
Prepare(m) ==
    /\ pc = "idle"
    /\ state[m] = "unloaded"
    /\ pc' = "prepare"
    /\ purpose' = "prepare"
    /\ subject' = m
    /\ UNCHANGED <<mode, state, loaded, weights, target, displaced, pending, failures>>

\* ensure_gpu(m) finds the model ready.
EnsureReady(m) ==
    /\ pc = "idle"
    /\ state[m] = "gpu_ready"
    /\ pc' = "serve"
    /\ target' = m
    /\ UNCHANGED <<mode, state, loaded, weights, purpose, subject, displaced,
                   pending, failures>>

\* Mutant: nothing is offloaded in any mode.
ActiveNone(m) == {}

\* The models ensure_gpu moves out of the way of m.
Active(m) == IF mode = "co_resident" THEN {} ELSE Ready(state) \ {m}

\* ensure_gpu(m) has to activate the model, after offloading the active ones.
EnsureSwitch(m) ==
    /\ pc = "idle"
    /\ state[m] # "gpu_ready"
    /\ target' = m
    /\ displaced' = Active(m)
    /\ IF Active(m) = {}
       THEN BeginLoad(m, "target", state) /\ pending' = {}
       ELSE \E k \in Active(m) :
                BeginOffload(k, state) /\ pending' = Active(m) \ {k}
    /\ UNCHANGED <<mode, loaded, weights, failures>>

OffloadDone ==
    /\ pc = "offload"
    /\ weights' = [weights EXCEPT ![subject] = "cpu"]
    /\ LET states == [state EXCEPT ![subject] = "cpu_ready"]
       IN IF pending = {}
          THEN BeginLoad(target, "target", states) /\ UNCHANGED pending
          ELSE \E k \in pending :
                   BeginOffload(k, states) /\ pending' = pending \ {k}
    /\ UNCHANGED <<mode, loaded, target, displaced, failures>>

\* Not inside the try block of ensure_gpu: nothing is restored.
OffloadFails ==
    /\ pc = "offload"
    /\ \E where \in {"cpu", "gpu"} : weights' = [weights EXCEPT ![subject] = where]
    /\ state' = [state EXCEPT ![subject] = "failed"]
    /\ Return
    /\ OneFailure
    /\ UNCHANGED <<mode, loaded>>

\* Mutant: load_gpu returns once the model is prepared, warmup has nothing to do.
PrepareDoneReturns ==
    /\ pc = "prepare"
    /\ loaded' = [loaded EXCEPT ![subject] = TRUE]
    /\ weights' = [weights EXCEPT ![subject] = "cpu"]
    /\ state' = [state EXCEPT ![subject] = "cpu_ready"]
    /\ Return
    /\ UNCHANGED <<mode, failures>>

PrepareDone ==
    /\ pc = "prepare"
    /\ loaded' = [loaded EXCEPT ![subject] = TRUE]
    /\ weights' = [weights EXCEPT ![subject] = "cpu"]
    /\ IF purpose = "prepare"
       THEN state' = [state EXCEPT ![subject] = "cpu_ready"] /\ Return
       ELSE /\ state' = [state EXCEPT ![subject] = "gpu_loading"]
            /\ pc' = "move"
            /\ UNCHANGED <<purpose, target, subject, displaced, pending>>
    /\ UNCHANGED <<mode, failures>>

\* The state stays "unloaded" even if the model has been built by then.
PrepareFails ==
    /\ pc = "prepare"
    /\ \/ UNCHANGED <<loaded, weights>>
       \/ /\ loaded' = [loaded EXCEPT ![subject] = TRUE]
          /\ \E where \in {"cpu", "gpu"} :
                 weights' = [weights EXCEPT ![subject] = where]
    /\ LoadFails(state)
    /\ OneFailure
    /\ UNCHANGED mode

MoveDone ==
    /\ pc = "move"
    /\ weights' = [weights EXCEPT ![subject] = "gpu"]
    /\ pc' = "warm"
    /\ UNCHANGED <<mode, state, loaded, purpose, target, subject, displaced,
                   pending, failures>>

\* Mutant: the except block of load_gpu does not set FAILED.
MoveFailsUnmarked ==
    /\ pc = "move"
    /\ \E where \in {"cpu", "gpu"} : weights' = [weights EXCEPT ![subject] = where]
    /\ LoadFails(state)
    /\ OneFailure
    /\ UNCHANGED <<mode, loaded>>

\* Mutant: the model is marked with the device it was last moved to.
MoveFailsDevice ==
    /\ pc = "move"
    /\ \E where \in {"cpu", "gpu"} :
           /\ weights' = [weights EXCEPT ![subject] = where]
           /\ LoadFails([state EXCEPT ![subject] = where])
    /\ OneFailure
    /\ UNCHANGED <<mode, loaded>>

MoveFails ==
    /\ pc = "move"
    /\ \E where \in {"cpu", "gpu"} : weights' = [weights EXCEPT ![subject] = where]
    /\ LoadFails([state EXCEPT ![subject] = "failed"])
    /\ OneFailure
    /\ UNCHANGED <<mode, loaded>>

WarmDone ==
    /\ pc = "warm"
    /\ LET states == [state EXCEPT ![subject] = "gpu_ready"]
       IN IF purpose = "target"
          THEN /\ state' = states
               /\ pc' = "serve"
               /\ UNCHANGED <<purpose, target, subject, displaced, pending>>
          ELSE RestoreNext(pending, states)
    /\ UNCHANGED <<mode, loaded, weights, failures>>

WarmFails ==
    /\ pc = "warm"
    /\ LoadFails([state EXCEPT ![subject] = "failed"])
    /\ OneFailure
    /\ UNCHANGED <<mode, loaded, weights>>

\* embed or rerank has returned or raised; it does not change the engine.
InferenceEnds ==
    /\ pc = "serve"
    /\ Return
    /\ UNCHANGED <<mode, state, loaded, weights, failures>>

Progress ==
    OffloadDone \/ PrepareDone \/ MoveDone \/ WarmDone \/ InferenceEnds

Failure == OffloadFails \/ PrepareFails \/ MoveFails \/ WarmFails

Next ==
    \/ \E m \in Models : Prepare(m) \/ EnsureReady(m) \/ EnsureSwitch(m)
    \/ Progress
    \/ Failure

Spec == Init /\ [][Next]_vars

\* Every awaited thread returns or raises; no caller has to come back.
FairSpec == Spec /\ WF_vars(Progress)

-----------------------------------------------------------------------------

\* Outside co-residency at most one model is ready to serve, whatever fails.
AtMostOneReady ==
    mode # "co_resident" => \A m, n \in Ready(state) : m = n

\* A model's state never claims more than what is true of its weights, and no
\* transitional state outlives the call that set it: embed and rerank, which
\* look at the state alone, never run on an unintended device.
TruthfulStates ==
    \A m \in Models :
        /\ state[m] = "gpu_ready" => weights[m] = "gpu"
        /\ state[m] = "cpu_ready" => weights[m] = "cpu"
        /\ state[m] \in {"gpu_loading", "cpu_offloading"} =>
               m = subject /\ pc \in {"move", "warm", "offload"}

\* Inference runs on a model that is ready.
ServesReady == pc = "serve" => state[target] = "gpu_ready"

\* When ensure_gpu raises, a model that was serving before is serving again or
\* is marked as failed; a failed switch never just leaves it on the CPU.
FailedSwitchRestores ==
    [][pc \notin {"idle", "serve"} /\ pc' = "idle" =>
           \A m \in displaced : state'[m] \in {"gpu_ready", "failed"}]_vars

\* The inductive invariant behind these properties, in parts: where the call
\* is and whom it is about, ...
CallShape ==
    /\ pc = "idle" => subject = NoModel
    /\ pc \in {"idle", "prepare"} /\ purpose = "prepare" => displaced = {}
    /\ pc \in {"offload"} \cup Activating => subject \in Models
    /\ pc \in {"move", "warm"} => purpose # "prepare"
    /\ pc = "prepare" => purpose # "restore"
    /\ pc \in Activating /\ purpose = "target" => subject = target
    /\ pc = "offload" => purpose = "target" /\ target \in Models
    /\ pc = "serve" => target \in Models

\* ... which models it has moved out of the way and not yet moved back, ...
DisplacedShape ==
    /\ \A m, n \in displaced : m = n
    /\ mode = "co_resident" \/ pc = "idle" => displaced = {}
    /\ pending \subseteq displaced
    /\ \A m \in displaced : loaded[m]
    /\ pc = "offload" => subject \in displaced \ pending /\ target \notin displaced
    /\ pc \in Activating /\ purpose = "target" => target \notin displaced
    /\ pc \in Activating /\ purpose = "restore" =>
           /\ subject \in displaced \ pending
           /\ \A m \in displaced :
                  m = subject \/ m \in pending \/ state[m] \in {"gpu_ready", "failed"}

\* ... and what its steps have made of the states.
StateShape ==
    /\ \A m \in Models : state[m] # "unloaded" => loaded[m]
    /\ pc = "prepare" => state[subject] = "unloaded"
    /\ pc \in {"move", "warm"} => state[subject] = "gpu_loading"
    /\ pc = "warm" => weights[subject] = "gpu"
    /\ pc = "offload" => state[subject] = "cpu_offloading"
    /\ mode # "co_resident" /\ pc \in {"offload", "prepare", "move", "warm"} =>
           purpose = "prepare" \/ Ready(state) = {}

ResidencyInv ==
    /\ TypeOK
    /\ CallShape
    /\ DisplacedShape
    /\ StateShape
    /\ AtMostOneReady
    /\ TruthfulStates
    /\ ServesReady

\* Of the models that have been prepared, one is on the GPU between steps:
\* Logic/model-residency.md:7 says "`swapping` keeps one model on the GPU and
\* inactive models in CPU memory when possible".
SwappingKeepsOne ==
    mode = "swapping" /\ pc \in {"idle", "serve"} =>
        \A m, n \in {k \in Models : state[k] # "unloaded"} :
            weights[m] = "gpu" /\ weights[n] = "gpu" => m = n

\* Once threads stop raising, a call for any model, in whatever state earlier
\* failures have left it and the others, ends up serving: no state is a trap.
EnsureRecovers ==
    failures = MaxFailures /\ pc \notin {"idle", "serve"} /\ purpose = "target"
        ~> pc = "serve"

=============================================================================
