--------------------------- MODULE MemoryJobStore ---------------------------
(***************************************************************************)
(* InMemoryJobStore (app/platform/jobs/store.py): the fallback store when  *)
(* Redis is not reachable.  Everything runs on the event loop, so a method *)
(* without a suspending await is one step; the only place the worker waits *)
(* while it holds a job is the handler.  The worker and the handler share  *)
(* the JobRecord object that get() returns, so there is nothing to save.   *)
(* The process may end at any time and takes every record with it.         *)
(***************************************************************************)
EXTENDS JobTypes, Naturals, Sequences, Functions

CONSTANTS
    Jobs,       \* the job ids uuid4 may generate
    NoJob,      \* the worker holds no job
    Stages,     \* the active statuses the handler reports
    MaxStarts   \* bound: lives of the API process

ASSUME JobsAssumption == NoJob \notin Jobs
ASSUME StagesAssumption == Stages \subseteq ActiveStatuses
ASSUME BoundAssumption == MaxStarts \in Nat

VARIABLES
    record,     \* _jobs: the status of each record, or "absent"
    queue,      \* _queue
    aged,       \* finished records older than job_ttl_hours
    worker,     \* "off", "idle" (in queue.get), "handle", "dead"
    wjob,       \* the job the handler is running
    created,    \* history: ids ever used
    starts      \* lives of the process so far

vars == <<record, queue, aged, worker, wjob, created, starts>>

Unfinished == {"queued"} \cup Stages
Queued == Range(queue)

TypeOK ==
    /\ record \in [Jobs -> {"absent"} \cup Unfinished \cup TerminalStatuses]
    /\ queue \in Seq(Jobs)
    /\ aged \subseteq Jobs
    /\ worker \in {"off", "idle", "handle", "dead"}
    /\ wjob \in Jobs \cup {NoJob}
    /\ created \subseteq Jobs
    /\ starts \in 0..MaxStarts

Init ==
    /\ record = [j \in Jobs |-> "absent"]
    /\ queue = <<>>
    /\ aged = {}
    /\ worker = "off"
    /\ wjob = NoJob
    /\ created = {}
    /\ starts = 0

-----------------------------------------------------------------------------

Start ==
    /\ worker = "off"
    /\ starts < MaxStarts
    /\ starts' = starts + 1
    /\ worker' = "idle"
    /\ UNCHANGED <<record, queue, aged, wjob, created>>

\* Mutants: the id is queued twice; the id is not queued; the record is not stored.
CreateTwice(j) ==
    /\ worker # "off"
    /\ j \notin created
    /\ created' = created \cup {j}
    /\ record' = [record EXCEPT ![j] = "queued"]
    /\ queue' = queue \o <<j, j>>
    /\ UNCHANGED <<aged, worker, wjob, starts>>

CreateUnqueued(j) ==
    /\ worker # "off"
    /\ j \notin created
    /\ created' = created \cup {j}
    /\ record' = [record EXCEPT ![j] = "queued"]
    /\ UNCHANGED <<queue, aged, worker, wjob, starts>>

CreateUnrecorded(j) ==
    /\ worker # "off"
    /\ j \notin created
    /\ created' = created \cup {j}
    /\ queue' = Append(queue, j)
    /\ UNCHANGED <<record, aged, worker, wjob, starts>>

\* The record is visible before its id is queued, with no await in between.
Create(j) ==
    /\ worker # "off"
    /\ j \notin created
    /\ created' = created \cup {j}
    /\ record' = [record EXCEPT ![j] = "queued"]
    /\ queue' = Append(queue, j)
    /\ UNCHANGED <<aged, worker, wjob, starts>>

\* queue.get, get, started_at and the call of the handler.  get() is outside
\* the try block: for an id without a record it would end the worker task.
Take ==
    /\ worker = "idle"
    /\ queue # <<>>
    /\ queue' = Tail(queue)
    /\ IF record[Head(queue)] = "absent"
       THEN worker' = "dead" /\ wjob' = NoJob
       ELSE worker' = "handle" /\ wjob' = Head(queue)
    /\ UNCHANGED <<record, aged, created, starts>>

\* The handler calls update().
Report(s) ==
    /\ worker = "handle"
    /\ record' = [record EXCEPT ![wjob] = s]
    /\ UNCHANGED <<queue, aged, worker, wjob, created, starts>>

\* Mutant: a status that JobStatus does not have.
HandlerEndsMisspelt(outcome) ==
    /\ worker = "handle"
    /\ record' = [record EXCEPT ![wjob] = "completed"]
    /\ worker' = "idle"
    /\ wjob' = NoJob
    /\ UNCHANGED <<queue, aged, created, starts>>

\* The handler returns or raises; the outcome goes into the shared record.
HandlerEnds(outcome) ==
    /\ worker = "handle"
    /\ record' = [record EXCEPT ![wjob] = outcome]
    /\ worker' = "idle"
    /\ wjob' = NoJob
    /\ UNCHANGED <<queue, aged, created, starts>>

TtlElapses(j) ==
    /\ record[j] \in TerminalStatuses
    /\ j \notin aged
    /\ aged' = aged \cup {j}
    /\ UNCHANGED <<record, queue, worker, wjob, created, starts>>

\* Mutant: every record older than the time to live, unfinished ones included.
ExpiredAny == {j \in created : record[j] # "absent"}

\* The records cleanup() removes, all in one step.
Expired == {j \in aged : record[j] \in TerminalStatuses}

Cleanup ==
    /\ worker # "off"
    /\ Expired # {}
    /\ record' = [j \in Jobs |-> IF j \in Expired THEN "absent" ELSE record[j]]
    /\ aged' = aged \ Expired
    /\ UNCHANGED <<queue, worker, wjob, created, starts>>

\* Crash, or shutdown: stop() cancels the worker and the process exits.
ProcessEnds ==
    /\ worker # "off"
    /\ record' = [j \in Jobs |-> "absent"]
    /\ queue' = <<>>
    /\ aged' = {}
    /\ worker' = "off"
    /\ wjob' = NoJob
    /\ UNCHANGED <<created, starts>>

Next ==
    \/ Start
    \/ \E j \in Jobs : Create(j) \/ TtlElapses(j)
    \/ Take
    \/ \E s \in Stages : Report(s)
    \/ \E outcome \in TerminalStatuses : HandlerEnds(outcome)
    \/ Cleanup
    \/ ProcessEnds

Spec == Init /\ [][Next]_vars

\* The worker task is resumed when an id is queued, and a handler ends: it
\* reports a bounded number of stages (Report is its only other step).
Fairness ==
    /\ WF_vars(Take)
    /\ WF_vars(\E outcome \in TerminalStatuses : HandlerEnds(outcome))

FairSpec == Spec /\ Fairness

-----------------------------------------------------------------------------

\* Every unfinished job is in exactly one place: queued once, or with the
\* handler.  So nothing is stranded, no job is handled twice, and the KeyError
\* that ends the worker of RedisJobStore cannot occur here (create 63-68,
\* cleanup 89-100 and _run 102-129 have to agree on it).
EveryJobInOnePlace ==
    /\ IsInjective(queue)
    /\ \A j \in Jobs : j \in Queued => record[j] = "queued" /\ j # wjob
    /\ \A j \in Jobs : record[j] \in Unfinished => j \in Queued \/ j = wjob

\* The worker task lives as long as the process.
WorkerSurvives == worker # "dead"

MemoryInv ==
    /\ TypeOK
    /\ EveryJobInOnePlace
    /\ WorkerSurvives
    /\ worker = "handle" => wjob \in Jobs /\ record[wjob] \in Unfinished
    /\ worker # "handle" => wjob = NoJob
    /\ worker = "off" => queue = <<>> /\ aged = {}
    /\ \A j \in Jobs : record[j] # "absent" => worker # "off" /\ j \in created
    /\ \A j \in aged : record[j] \in TerminalStatuses

clientStatus ==
    [j \in Jobs |-> IF j \in created THEN ClientView(record[j]) ELSE "none"]

Contract == INSTANCE JobContract WITH status <- clientStatus, Durable <- FALSE

\* The memory store keeps the promise of JobContract but for durability.
ImplementsVolatileContract == Contract!Spec

\* As the worker never dies, every job gets an outcome, or is lost with the
\* process; no fault, duplicate or expiry can stop the queue.
WaitingJobsFinish ==
    \A j \in Jobs : record[j] = "queued" ~> record[j] \notin Unfinished

=============================================================================
