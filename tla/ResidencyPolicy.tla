--------------------------- MODULE ResidencyPolicy --------------------------
(***************************************************************************)
(* ResidencyPolicy.decide (app/platform/gpu/policy.py): whether the worker *)
(* stays with the resident model, switches to the other one, loads a first *)
(* one or idles.  A pure function of the two queues and of how long, and   *)
(* for how much work, the current model has been resident.                 *)
(***************************************************************************)
EXTENDS Naturals

CONSTANTS
    EpochMaxSeconds, EpochMaxCost, MinResidencySeconds, SwitchCooldownSeconds,
    QueueMaxWaitSeconds

ASSUME PolicyAssumption ==
    /\ EpochMaxSeconds \in Nat /\ EpochMaxCost \in Nat
    /\ MinResidencySeconds \in Nat /\ SwitchCooldownSeconds \in Nat
    /\ QueueMaxWaitSeconds \in Nat

Kinds == {"embedding", "reranking"}
NoKind == "none"        \* no model is resident

Actions == {"idle", "stay", "load", "switch"}
Reasons ==
    {"queues_empty", "work_available", "no_competing_work", "current_queue_empty",
     "queue_deadline", "minimum_residency", "switch_cooldown", "epoch_time_budget",
     "epoch_cost_budget", "continue_epoch"}

Decisions ==
    [action : Actions, target : Kinds \cup {NoKind}, reason : Reasons]

Decision(action, target, reason) ==
    [action |-> action, target |-> target, reason |-> reason]

Alternative(kind) == IF kind = "embedding" THEN "reranking" ELSE "embedding"

\* The queue with the older item; embedding and reranking are not symmetric.
InitialTarget(queues) ==
    LET e == queues["embedding"]
        r == queues["reranking"]
    IN IF e.pending = 0 /\ r.pending = 0 THEN NoKind
       ELSE IF r.pending > 0 /\ (e.pending = 0 \/ r.oldest >= e.oldest)
            THEN "reranking"
            ELSE "embedding"

\* No model resident: load one for which there is work.
DecideFirst(s) ==
    LET target == InitialTarget(s.queues)
    IN IF target = NoKind THEN Decision("idle", NoKind, "queues_empty")
       ELSE Decision("load", target, "work_available")

\* Only the current model, or neither, has work.
DecideAlone(s) ==
    IF s.queues[s.current].pending = 0
    THEN Decision("idle", s.current, "queues_empty")
    ELSE Decision("stay", s.current, "no_competing_work")

\* Both have work and no item of the other queue is overdue.
DecideEpoch(s) ==
    LET stay(why) == Decision("stay", s.current, why)
        switch(why) == Decision("switch", Alternative(s.current), why)
    IN IF s.residency < MinResidencySeconds THEN stay("minimum_residency")
       ELSE IF s.sinceSwitch < SwitchCooldownSeconds THEN stay("switch_cooldown")
       ELSE IF s.epoch >= EpochMaxSeconds THEN switch("epoch_time_budget")
       ELSE IF s.cost >= EpochMaxCost THEN switch("epoch_cost_budget")
       ELSE stay("continue_epoch")

\* Mutant: the resident model drains its queue first.
DecideDraining(s) ==
    IF s.current = NoKind THEN DecideFirst(s)
    ELSE IF s.queues[s.current].pending > 0 THEN Decision("stay", s.current, "continue_epoch")
    ELSE IF s.queues[Alternative(s.current)].pending = 0 THEN DecideAlone(s)
    ELSE Decision("switch", Alternative(s.current), "current_queue_empty")

\* Mutant: the deadline is looked at only once the minimum residency is over.
DecideLateDeadline(s) ==
    LET other == Alternative(s.current)
    IN IF s.current = NoKind THEN DecideFirst(s)
       ELSE IF s.queues[other].pending = 0 THEN DecideAlone(s)
       ELSE IF s.queues[s.current].pending = 0
            THEN Decision("switch", other, "current_queue_empty")
       ELSE IF /\ s.queues[other].oldest >= QueueMaxWaitSeconds
               /\ s.residency >= MinResidencySeconds
            THEN Decision("switch", other, "queue_deadline")
       ELSE DecideEpoch(s)

Decide(s) ==
    LET other == Alternative(s.current)
    IN IF s.current = NoKind THEN DecideFirst(s)
       ELSE IF s.queues[other].pending = 0 THEN DecideAlone(s)
       ELSE IF s.queues[s.current].pending = 0
            THEN Decision("switch", other, "current_queue_empty")
       ELSE IF s.queues[other].oldest >= QueueMaxWaitSeconds
            THEN Decision("switch", other, "queue_deadline")
       ELSE DecideEpoch(s)

=============================================================================
