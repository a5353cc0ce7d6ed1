--------------------------- MODULE WorkerScheduler --------------------------
(***************************************************************************)
(* WorkerScheduler.run_once (app/workers/scheduler.py), called in a loop,  *)
(* over the broker it polls, the coordinator it asks for a model and the   *)
(* executor it hands a batch to.  Broker and executor are protocols that   *)
(* src/ only declares: they are modelled from how run_once uses them, and  *)
(* the coordinator by what a call of ensure_gpu may return.                *)
(*                                                                         *)
(* Every await is a place where items arrive, other workers claim, and     *)
(* time passes; run_once reads the clock once, when it begins.  Ages are   *)
(* counted in ticks and saturate at TimeCap, which no threshold exceeds.   *)
(***************************************************************************)
EXTENDS ResidencyPolicy, Sequences, FiniteSetsExt

CONSTANTS
    Swapping,       \* the coordinator's effective mode: swapping or co-resident
    BatchMaxCost,   \* batch_max_cost, where every item costs 1
    MaxPending,     \* bound: items in each queue
    TimeCap,        \* bound: ages are not told apart beyond this
    MaxFailures     \* bound: activations and executions that raise

ASSUME SchedulerAssumption ==
    /\ Swapping \in BOOLEAN /\ MaxPending \in [Kinds -> Nat] /\ MaxFailures \in Nat
    /\ BatchMaxCost \in Nat \ {0}
    /\ TimeCap \in Nat
    /\ \A limit \in {EpochMaxSeconds, MinResidencySeconds, SwitchCooldownSeconds,
                     QueueMaxWaitSeconds} : limit <= TimeCap

VARIABLES
    waits,      \* the broker: how long each item has waited, oldest first
    ready,      \* the coordinator: models that are GPU_READY
    current,    \* _current
    age,        \* now - _residency_started; _last_switch and _epoch_started are
                \* set with it, always to the same value
    cost,       \* _epoch_cost, not told apart beyond EpochMaxCost
    pc,         \* what run_once awaits
    lag,        \* time since run_once read the clock
    aged,       \* `age` when it did, until the policy has decided
    seen,       \* the queue states it has read, until the policy has decided
    decision,   \* what the policy has decided
    batch,      \* cost of the batch being executed
    late,       \* history: kinds with an overdue item when the policy decided
    passed,     \* history: batches of the other kind claimed over an overdue item,
                \* not told apart beyond 2
    failures

brokerVars == <<waits, passed>>
modelVars == <<ready, current, age, cost>>
callVars == <<aged, seen, decision, batch, late>>
vars == <<brokerVars, modelVars, pc, lag, callVars, failures>>

Later(t) == IF t < TimeCap THEN t + 1 ELSE t

QueueState(kind) ==
    [pending |-> Len(waits[kind]),
     oldest |-> IF waits[kind] = <<>> THEN 0 ELSE Head(waits[kind])]

NothingSeen == [k \in Kinds |-> [pending |-> 0, oldest |-> 0]]
NoDecision == Decision("idle", NoKind, "queues_empty")

TypeOK ==
    /\ waits \in [Kinds -> Seq(0..TimeCap)]
    /\ ready \subseteq Kinds
    /\ current \in Kinds \cup {NoKind}
    /\ age \in 0..TimeCap /\ lag \in 0..TimeCap
    /\ aged \in 0..TimeCap
    /\ cost \in 0..EpochMaxCost
    /\ pc \in {"idle", "embedding", "reranking", "ensure", "claim", "execute"}
    /\ seen \in [Kinds -> [pending : Nat, oldest : 0..TimeCap]]
    /\ decision \in Decisions
    /\ batch \in 0..BatchMaxCost
    /\ late \subseteq Kinds
    /\ passed \in [Kinds -> 0..2]
    /\ failures \in 0..MaxFailures

Init ==
    /\ waits = [k \in Kinds |-> <<>>]
    /\ ready = {}
    /\ current = NoKind
    /\ age = 0 /\ cost = 0 /\ lag = 0 /\ aged = 0
    /\ pc = "idle"
    /\ seen = NothingSeen
    /\ decision = NoDecision
    /\ batch = 0
    /\ late = {}
    /\ passed = [k \in Kinds |-> 0]
    /\ failures = 0

-----------------------------------------------------------------------------
(* The surroundings.                                                       *)

Tick ==
    /\ waits' = [k \in Kinds |-> [i \in DOMAIN waits[k] |-> Later(waits[k][i])]]
    /\ age' = Later(age)
    /\ lag' = IF pc = "idle" THEN lag ELSE Later(lag)
    /\ UNCHANGED <<passed, ready, current, cost, pc, callVars, failures>>

Submit(kind) ==
    /\ Len(waits[kind]) < MaxPending[kind]
    /\ waits' = [waits EXCEPT ![kind] = Append(@, 0)]
    /\ UNCHANGED <<passed, modelVars, pc, lag, callVars, failures>>

\* Another worker process claims from the same broker.
OtherClaims(kind) ==
    /\ waits[kind] # <<>>
    /\ waits' = [waits EXCEPT ![kind] = Tail(@)]
    /\ passed' = [passed EXCEPT ![kind] = 0]
    /\ UNCHANGED <<modelVars, pc, lag, callVars, failures>>

-----------------------------------------------------------------------------
(* run_once.                                                               *)

\* run_once returns or raises.
Return ==
    /\ pc' = "idle"
    /\ lag' = 0 /\ aged' = 0 /\ batch' = 0
    /\ seen' = NothingSeen
    /\ decision' = NoDecision
    /\ late' = {}

OneFailure == failures < MaxFailures /\ failures' = failures + 1

Begin ==
    /\ pc = "idle"
    /\ pc' = "embedding"
    /\ lag' = 0
    /\ aged' = age
    /\ UNCHANGED <<brokerVars, modelVars, seen, decision, batch, late, failures>>

SeeEmbedding ==
    /\ pc = "embedding"
    /\ pc' = "reranking"
    /\ seen' = [seen EXCEPT !["embedding"] = QueueState("embedding")]
    /\ UNCHANGED <<brokerVars, modelVars, lag, aged, decision, batch, late,
                   failures>>

SchedulerState ==
    [current |-> current,
     queues |-> [seen EXCEPT !["reranking"] = QueueState("reranking")],
     residency |-> aged, sinceSwitch |-> aged, epoch |-> aged, cost |-> cost]

Overdue(queue) ==
    queue.pending > 0 /\ queue.oldest >= QueueMaxWaitSeconds

\* The policy has decided; what it has decided from is not used again.
Adopt(decided) ==
    /\ decision' = decided
    /\ late' = {k \in Kinds : Overdue(SchedulerState.queues[k])}
    /\ seen' = NothingSeen
    /\ aged' = 0
    /\ pc' = IF decided.action = "stay" THEN "claim" ELSE "ensure"
    /\ UNCHANGED <<lag, batch>>

\* Mutant: _current is set before ensure_gpu is awaited.
DecideTooEarly ==
    /\ pc = "reranking"
    /\ LET decided == Decide(SchedulerState)
       IN IF decided.action = "idle"
          THEN Return /\ UNCHANGED current
          ELSE Adopt(decided) /\ current' = decided.target
    /\ UNCHANGED <<brokerVars, ready, age, cost, failures>>

SeeRerankingAndDecide ==
    /\ pc = "reranking"
    /\ LET decided == Decide(SchedulerState)
       IN IF decided.action = "idle" THEN Return ELSE Adopt(decided)
    /\ UNCHANGED <<brokerVars, modelVars, failures>>

\* Mutant: the decision's action is taken for its target.
EnsureDoneAction ==
    /\ pc = "ensure"
    /\ ready' = {decision.target} \cup (IF Swapping THEN {} ELSE ready)
    /\ current' = decision.action
    /\ age' = lag
    /\ cost' = 0
    /\ pc' = "claim"
    /\ UNCHANGED <<brokerVars, lag, callVars, failures>>

\* The stamps get the clock as run_once read it, before the activation.
EnsureDone ==
    /\ pc = "ensure"
    /\ ready' = {decision.target} \cup (IF Swapping THEN {} ELSE ready)
    /\ current' = decision.target
    /\ age' = lag
    /\ cost' = 0
    /\ pc' = "claim"
    /\ UNCHANGED <<brokerVars, lag, callVars, failures>>

\* ensure_gpu raises: the models it displaced have been restored or have failed.
EnsureFails ==
    /\ pc = "ensure"
    /\ decision.target \notin ready
    /\ ready' \in IF Swapping THEN SUBSET ready ELSE {ready}
    /\ OneFailure
    /\ Return
    /\ UNCHANGED <<brokerVars, current, age, cost>>

\* claim_batch returns None: somebody else was faster.
ClaimNothing ==
    /\ pc = "claim"
    /\ waits[decision.target] = <<>>
    /\ Return
    /\ UNCHANGED <<brokerVars, modelVars, failures>>

Claim ==
    /\ pc = "claim"
    /\ \E n \in 1..Min({BatchMaxCost, Len(waits[decision.target])}) :
           /\ batch' = n
           /\ waits' = [waits EXCEPT ![decision.target] = SubSeq(@, n + 1, Len(@))]
    /\ passed' = [k \in Kinds |->
                     IF k = decision.target \/ waits[k] = <<>> THEN 0
                     ELSE IF k \in late THEN Min({2, passed[k] + 1})
                     ELSE passed[k]]
    /\ pc' = "execute"
    /\ UNCHANGED <<modelVars, lag, aged, seen, decision, late, failures>>

ExecuteDone ==
    /\ pc = "execute"
    /\ decision.target \in ready
    /\ cost' = Min({EpochMaxCost, cost + batch})
    /\ Return
    /\ UNCHANGED <<brokerVars, ready, current, age, failures>>

\* The executor raises; it cannot but raise if the model is not ready.
ExecuteFails ==
    /\ pc = "execute"
    /\ IF decision.target \in ready THEN OneFailure ELSE UNCHANGED failures
    /\ Return
    /\ UNCHANGED <<brokerVars, modelVars>>

CallStep ==
    \/ Begin \/ SeeEmbedding \/ SeeRerankingAndDecide \/ EnsureDone
    \/ ClaimNothing \/ Claim
    \/ ExecuteDone

Next ==
    \/ Tick
    \/ \E k \in Kinds : Submit(k) \/ OtherClaims(k)
    \/ CallStep
    \/ EnsureFails
    \/ ExecuteFails

Spec == Init /\ [][Next]_vars

\* Time passes, the loop calls run_once again, and what it awaits returns or
\* raises.  Nothing is assumed of arrivals and of the other workers.
FairSpec == Spec /\ WF_vars(Tick) /\ WF_vars(CallStep \/ ExecuteFails)

-----------------------------------------------------------------------------

\* The scheduler never takes one model for resident when swapping has made the
\* other one ready, whatever activation failed and whatever was restored.
BelievesRight ==
    Swapping /\ current # NoKind => ready \subseteq {current}

\* An item that was seen overdue is passed over for a batch of the other kind
\* at most once, even if both queues are overdue and activations fail: overdue
\* queues take turns (decide 32-45, _initial_target 65-76 and run_once agree).
OverdueNotPassedTwice == \A k \in Kinds : passed[k] <= 1

\* No queue starves: while it has items, batches of it are claimed again and
\* again, however fast items arrive at the other queue.
NoStarvation ==
    \A k \in Kinds :
        waits[k] # <<>> ~> waits[k] = <<>> \/ (pc = "execute" /\ decision.target = k)

\* Logic/model-residency.md:12 says "A failed load leaves the target service
\* unavailable": once nothing fails any more, the items of every queue, that
\* of the displaced model included, are executed again.
ServiceRecovers ==
    \A k \in Kinds :
        waits[k] # <<>> ~>
            \/ waits[k] = <<>> /\ pc # "execute"
            \/ pc = "execute" /\ decision.target = k /\ k \in ready

=============================================================================
