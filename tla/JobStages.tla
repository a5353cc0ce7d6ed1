------------------------------ MODULE JobStages ------------------------------
(***************************************************************************)
(* What a client that polls a job sees of its progress (JobStatus and      *)
(* `progress` in app/platform/jobs/types.py), with nothing of what the job *)
(* consists of: media are resolved before the model runs, the model is the *)
(* one of the job's kind, and the percentage rises until the job is at its *)
(* end.  A restart of the process begins the job anew.                     *)
(***************************************************************************)
EXTENDS Integers

VARIABLES
    kind,       \* the kind of the job
    stage,      \* its status
    progress    \* its percentage

stageVars == <<kind, stage, progress>>

Kinds == {"embedding", "reranking"}

Rank == [s \in {"queued", "resolving_media", "complete", "failed"} \cup Kinds |->
            CASE s = "queued" -> 0
              [] s = "resolving_media" -> 1
              [] s \in Kinds -> 2
              [] OTHER -> 3]

Queued == stage = "queued" /\ progress = 0

Init == kind \in Kinds /\ Queued

\* The job begins a stage, or gets on in the one it is in.
Work ==
    /\ stage' \in {"resolving_media", kind}
    /\ Rank[stage'] - Rank[stage] \in {0, 1}
    /\ progress' \in progress..99
    /\ UNCHANGED kind

Complete ==
    /\ stage = kind /\ stage' = "complete"
    /\ progress' = 100
    /\ UNCHANGED kind

\* In any stage before the end: a job may fail before its first report arrives.
Fail ==
    /\ Rank[stage] \in 0..2
    /\ stage' = "failed"
    /\ progress' = 0
    /\ UNCHANGED kind

Requeue ==
    /\ Rank[stage] \in {1, 2}
    /\ Queued'
    /\ UNCHANGED kind

\* The worker goes on to a job that is waiting.
NextJob ==
    /\ Rank[stage] = 3
    /\ kind' \in Kinds
    /\ Queued'

Next == Work \/ Complete \/ Fail \/ Requeue \/ NextJob

Spec == Init /\ [][Next]_stageVars

=============================================================================
