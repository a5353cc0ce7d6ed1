---------------------------- MODULE JobContract -----------------------------
(***************************************************************************)
(* What the JobStore protocol promises a client that polls GET /v1/jobs,   *)
(* one status per job and no queue, worker, cleanup or restart in sight:   *)
(*                                                                         *)
(*   - a submitted job stays visible, unfinished, until it has an outcome; *)
(*   - it gets at most one outcome, which never changes afterwards;        *)
(*   - only a job with an outcome may be removed, and it never comes back. *)
(*                                                                         *)
(* An active job may fall back to pending: a restart requeues it.  A store *)
(* that is not Durable may in addition lose everything at once, which is   *)
(* all that InMemoryJobStore promises about a restart of the API.          *)
(***************************************************************************)
CONSTANTS
    Jobs,       \* job ids
    Durable     \* TRUE if records outlive the process, else FALSE

VARIABLE status     \* what the client of each job would see

Outcomes == {"complete", "failed"}
Unfinished == {"pending", "active"}

ContractTypeOK ==
    status \in [Jobs -> {"none", "gone"} \cup Unfinished \cup Outcomes]

Init == status = [j \in Jobs |-> "none"]

Submit(j) ==
    /\ status[j] = "none"
    /\ status' = [status EXCEPT ![j] = "pending"]

Begin(j) ==
    /\ status[j] = "pending"
    /\ status' = [status EXCEPT ![j] = "active"]

Requeue(j) ==
    /\ status[j] = "active"
    /\ status' = [status EXCEPT ![j] = "pending"]

\* A pending job may get its outcome without ever having reported a stage.
Settle(j) ==
    /\ status[j] \in Unfinished
    /\ \E outcome \in Outcomes : status' = [status EXCEPT ![j] = outcome]

\* Cleanup may remove several jobs at once.
Remove(old) ==
    /\ \A j \in old : status[j] \in Outcomes
    /\ status' = [j \in Jobs |-> IF j \in old THEN "gone" ELSE status[j]]

ForgetAll ==
    /\ ~Durable
    /\ status' = [j \in Jobs |-> IF status[j] = "none" THEN "none" ELSE "gone"]

Next ==
    \/ \E j \in Jobs : Submit(j) \/ Begin(j) \/ Requeue(j) \/ Settle(j)
    \/ \E old \in SUBSET Jobs : Remove(old)
    \/ ForgetAll

Spec == Init /\ [][Next]_status

=============================================================================
