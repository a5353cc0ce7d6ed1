------------------------------ MODULE JobTypes ------------------------------
(***************************************************************************)
(* Job statuses of app/platform/jobs/types.py, shared by both job stores.  *)
(* Only the status of a JobRecord decides control flow; payload, progress, *)
(* labels and timestamps are abstracted away.  "absent" stands for a job   *)
(* key that is not in the store.                                           *)
(***************************************************************************)

TerminalStatuses == {"complete", "failed"}

\* Statuses JobExecutor reports through JobStore.update while it works.
ActiveStatuses ==
    {"resolving_media", "downloading", "probing_media", "segmenting",
     "embedding", "reranking"}

UnfinishedStatuses == {"queued"} \cup ActiveStatuses

JobStatus == UnfinishedStatuses \cup TerminalStatuses

\* What a client that polls GET /v1/jobs/{id} can tell of a job it has created.
ClientView(s) ==
    IF s = "absent" THEN "gone"
    ELSE IF s = "queued" THEN "pending"
    ELSE IF s \in ActiveStatuses THEN "active"
    ELSE s

=============================================================================
