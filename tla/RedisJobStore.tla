--------------------------- MODULE RedisJobStore ----------------------------
(***************************************************************************)
(* RedisJobStore (app/platform/jobs/redis_store.py): job records and a     *)
(* FIFO queue kept in Redis, one worker task in the API process, the       *)
(* requests that create jobs, the periodic cleanup, and restarts.          *)
(*                                                                         *)
(* One action per Redis command the code issues: every command runs in its *)
(* own asyncio.to_thread call, so anything may happen between two of them. *)
(* Redis survives the process; everything the process holds does not.      *)
(* A command may fail with or without its effect having reached Redis      *)
(* (socket_timeout 0.5 s): those failures are counted in `faults`.         *)
(***************************************************************************)
EXTENDS JobTypes, Naturals, Sequences, Functions, FiniteSets

CONSTANTS
    Jobs,       \* the job ids uuid4 may generate
    NoJob,      \* "no job", for slots that hold at most one
    Stages,     \* the active statuses the handler reports
    MaxStarts,  \* bound: lives of the API process
    MaxFaults   \* bound: failed Redis commands in one life

ASSUME JobsAssumption == NoJob \notin Jobs
ASSUME StagesAssumption == Stages \subseteq ActiveStatuses
ASSUME BoundsAssumption == MaxStarts \in Nat /\ MaxFaults \in Nat

VARIABLES
    \* Redis
    record,     \* status stored under <prefix>:job:<id>, or "absent"
    queue,      \* the list <prefix>:jobs:queue; may hold duplicates
    aged,       \* finished records older than job_ttl_hours
    \* the API process
    phase,      \* "down", "recovering" (inside start), "serving"
    scanned,    \* unfinished jobs _recover_unfinished_jobs has rewritten
    requeue,    \* rewritten by recovery but not pushed yet
    creating,   \* jobs whose create() has saved but not pushed
    wpc,        \* where _run is
    wjob,       \* the job id it popped
    wrec,       \* the status in its local JobRecord
    upd,        \* the status update() read-modified and is about to save
    cleaner,    \* the record _cleanup_terminal_jobs decided to delete
    \* history and bounds
    created,    \* ids ever used: uuid4 never repeats one
    attempts,   \* handler calls per job in this life of the process
    faults,     \* failed commands in this life of the process
    starts      \* lives so far

redisVars == <<record, queue, aged>>
recoverVars == <<scanned, requeue>>
workerVars == <<wpc, wjob, wrec, upd>>
boundVars == <<faults, starts>>
vars == <<record, queue, aged, phase, scanned, requeue, creating, wpc, wjob,
          wrec, upd, cleaner, created, attempts, faults, starts>>

Unfinished == {"queued"} \cup Stages
Queued == Range(queue)      \* the jobs with at least one entry in the list
Busy == {"handle", "merge", "finish"}

TypeOK ==
    /\ record \in [Jobs -> {"absent"} \cup Unfinished \cup TerminalStatuses]
    /\ queue \in Seq(Jobs)
    /\ aged \subseteq Jobs
    /\ phase \in {"down", "recovering", "serving"}
    /\ scanned \subseteq Jobs
    /\ requeue \in Jobs \cup {NoJob}
    /\ creating \subseteq Jobs
    /\ wpc \in {"off", "poll", "fetch", "mark", "dead"} \cup Busy
    /\ wjob \in Jobs \cup {NoJob}
    /\ wrec \in {"absent"} \cup Unfinished \cup TerminalStatuses
    /\ upd \in {"absent"} \cup Stages
    /\ cleaner \in Jobs \cup {NoJob}
    /\ created \subseteq Jobs
    /\ attempts \in [Jobs -> Nat]
    /\ faults \in 0..MaxFaults
    /\ starts \in 0..MaxStarts

Init ==
    /\ record = [j \in Jobs |-> "absent"]
    /\ queue = <<>>
    /\ aged = {}
    /\ phase = "down"
    /\ scanned = {}
    /\ requeue = NoJob
    /\ creating = {}
    /\ wpc = "off"
    /\ wjob = NoJob
    /\ wrec = "absent"
    /\ upd = "absent"
    /\ cleaner = NoJob
    /\ created = {}
    /\ attempts = [j \in Jobs |-> 0]
    /\ faults = 0
    /\ starts = 0

-----------------------------------------------------------------------------
(* What the steps of each actor leave alone, when its command succeeds (the *)
(* Frame) and when a Redis command fails (the Fault).                       *)

NoFault == faults' = faults

OneFault == faults < MaxFaults /\ faults' = faults + 1

RequestRest ==
    UNCHANGED <<aged, phase, recoverVars, workerVars, cleaner, attempts, starts>>

WorkerRest ==
    UNCHANGED <<aged, phase, recoverVars, creating, cleaner, created, starts>>

TtlRest ==
    UNCHANGED <<queue, phase, recoverVars, creating, workerVars, created,
                attempts, starts>>

RequestFrame == RequestRest /\ NoFault
RequestFault == RequestRest /\ OneFault
WorkerFrame == WorkerRest /\ NoFault
WorkerFault == WorkerRest /\ OneFault
TtlFrame == TtlRest /\ NoFault
TtlFault == TtlRest /\ OneFault

-----------------------------------------------------------------------------
(* Requests: create() saves the record, then pushes its id.                *)

BeginCreate(j) ==
    /\ phase = "serving"
    /\ j \notin created
    /\ created' = created \cup {j}
    /\ creating' = creating \cup {j}
    /\ record' = [record EXCEPT ![j] = "queued"]
    /\ UNCHANGED queue
    /\ RequestFrame

EnqueueCreated(j) ==
    /\ j \in creating
    /\ creating' = creating \ {j}
    /\ queue' = Append(queue, j)
    /\ UNCHANGED <<record, created>>
    /\ RequestFrame

\* RPUSH raises: the client gets an error, the record stays behind, and the
\* push itself may or may not have been carried out.
EnqueueFails(j) ==
    /\ j \in creating
    /\ creating' = creating \ {j}
    /\ queue' \in {queue, Append(queue, j)}
    /\ UNCHANGED <<record, created>>
    /\ RequestFault

-----------------------------------------------------------------------------
(* The worker: one iteration of _run.                                      *)

\* _run is back at BLPOP, or its task has ended with an exception.
WorkerIdle(pc) ==
    /\ wpc' = pc
    /\ wjob' = NoJob
    /\ wrec' = "absent"
    /\ upd' = "absent"

Pop ==
    /\ wpc = "poll"
    /\ queue # <<>>
    /\ queue' = Tail(queue)
    /\ wjob' = Head(queue)
    /\ wpc' = "fetch"
    /\ UNCHANGED <<record, wrec, upd, attempts>>
    /\ WorkerFrame

\* BLPOP blocks for longer than the socket timeout: an idle poll always ends
\* in TimeoutError, and an id popped just then is lost with the connection.
PopReplyLost ==
    /\ wpc = "poll"
    /\ queue # <<>>
    /\ queue' = Tail(queue)
    /\ UNCHANGED <<record, attempts, workerVars>>
    /\ WorkerFault

\* Any other Redis error in BLPOP is not caught: the worker task ends.
PopFails ==
    /\ wpc = "poll"
    /\ \/ UNCHANGED queue
       \/ queue # <<>> /\ queue' = Tail(queue)
    /\ WorkerIdle("dead")
    /\ UNCHANGED <<record, attempts>>
    /\ WorkerFault

\* get() raises KeyError outside the try block: the worker task ends.
FetchMissing ==
    /\ wpc = "fetch"
    /\ record[wjob] = "absent"
    /\ WorkerIdle("dead")
    /\ UNCHANGED <<record, queue, attempts>>
    /\ WorkerFrame

\* Mutant: `return` for `continue`, the worker leaves its loop.
FetchTerminalReturns ==
    /\ wpc = "fetch"
    /\ record[wjob] \in TerminalStatuses
    /\ WorkerIdle("off")
    /\ UNCHANGED <<record, queue, attempts>>
    /\ WorkerFrame

\* A duplicate id of a job that is done already.
FetchTerminal ==
    /\ wpc = "fetch"
    /\ record[wjob] \in TerminalStatuses
    /\ WorkerIdle("poll")
    /\ UNCHANGED <<record, queue, attempts>>
    /\ WorkerFrame

\* Mutant: no look at TERMINAL_STATUSES.
FetchAnyRecord ==
    /\ wpc = "fetch"
    /\ record[wjob] # "absent"
    /\ wrec' = record[wjob]
    /\ wpc' = "mark"
    /\ UNCHANGED <<record, queue, wjob, upd, attempts>>
    /\ WorkerFrame

FetchUnfinished ==
    /\ wpc = "fetch"
    /\ record[wjob] \in Unfinished
    /\ wrec' = record[wjob]
    /\ wpc' = "mark"
    /\ UNCHANGED <<record, queue, wjob, upd, attempts>>
    /\ WorkerFrame

\* GET or the save of started_at raises, again outside the try block.  That
\* save does not change the status, so it is the same whether it landed.
ClaimFails ==
    /\ wpc \in {"fetch", "mark"}
    /\ WorkerIdle("dead")
    /\ UNCHANGED <<record, queue, attempts>>
    /\ WorkerFault

\* started_at is saved and the handler is called.
Mark ==
    /\ wpc = "mark"
    /\ record' = [record EXCEPT ![wjob] = wrec]
    /\ attempts' = [attempts EXCEPT ![wjob] = @ + 1]
    /\ wpc' = "handle"
    /\ UNCHANGED <<queue, wjob, wrec, upd>>
    /\ WorkerFrame

\* The handler calls update(): it reads the stored record and changes it ...
ReportRead(s) ==
    /\ wpc = "handle"
    /\ upd' = s
    /\ wpc' = "merge"
    /\ UNCHANGED <<record, queue, wjob, wrec, attempts>>
    /\ WorkerFrame

\* ... and saves it.  The worker's own JobRecord is not touched.
ReportSave ==
    /\ wpc = "merge"
    /\ record' = [record EXCEPT ![wjob] = upd]
    /\ upd' = "absent"
    /\ wpc' = "handle"
    /\ UNCHANGED <<queue, wjob, wrec, attempts>>
    /\ WorkerFrame

HandlerEnds(outcome) ==
    /\ wpc = "handle"
    /\ wrec' = outcome
    /\ wpc' = "finish"
    /\ UNCHANGED <<record, queue, wjob, upd, attempts>>
    /\ WorkerFrame

\* update() raises inside the handler, which makes the job fail.
ReportFails ==
    /\ wpc = "merge"
    /\ \E landed \in {record[wjob], upd} :
           record' = [record EXCEPT ![wjob] = landed]
    /\ upd' = "absent"
    /\ wrec' = "failed"
    /\ wpc' = "finish"
    /\ UNCHANGED <<queue, wjob, attempts>>
    /\ WorkerFault

\* The finally block saves the outcome with a time to live.
Finish ==
    /\ wpc = "finish"
    /\ record' = [record EXCEPT ![wjob] = wrec]
    /\ WorkerIdle("poll")
    /\ UNCHANGED <<queue, attempts>>
    /\ WorkerFrame

\* That save raises: out of _run, so the worker task ends.
FinishFails ==
    /\ wpc = "finish"
    /\ \E landed \in {record[wjob], wrec} :
           record' = [record EXCEPT ![wjob] = landed]
    /\ WorkerIdle("dead")
    /\ UNCHANGED <<queue, attempts>>
    /\ WorkerFault

-----------------------------------------------------------------------------
(* Time to live: Redis expires the key, or cleanup() deletes it first.     *)

TtlElapses(j) ==
    /\ record[j] \in TerminalStatuses
    /\ j \notin aged
    /\ aged' = aged \cup {j}
    /\ UNCHANGED <<record, cleaner>>
    /\ TtlFrame

Discard(j) ==
    /\ record' = [record EXCEPT ![j] = "absent"]
    /\ aged' = aged \ {j}

ExpireKey(j) ==
    /\ j \in aged
    /\ Discard(j)
    /\ UNCHANGED cleaner
    /\ TtlFrame

\* Mutant: neither the status nor the age of the record is looked at.
CleanupReadAny(j) ==
    /\ phase = "serving"
    /\ cleaner = NoJob
    /\ cleaner' = j
    /\ UNCHANGED <<record, aged>>
    /\ TtlFrame

CleanupRead(j) ==
    /\ phase = "serving"
    /\ cleaner = NoJob
    /\ record[j] \in TerminalStatuses
    /\ j \in aged
    /\ cleaner' = j
    /\ UNCHANGED <<record, aged>>
    /\ TtlFrame

CleanupDelete ==
    /\ cleaner # NoJob
    /\ Discard(cleaner)
    /\ cleaner' = NoJob
    /\ TtlFrame

\* DELETE raises; CleanupService ignores it and tries again an hour later.
CleanupFails ==
    /\ cleaner # NoJob
    /\ cleaner' = NoJob
    /\ Discard(cleaner) \/ UNCHANGED <<record, aged>>
    /\ TtlFault

-----------------------------------------------------------------------------
(* The process: start() recovers before it creates the worker task.        *)

Start ==
    /\ phase = "down"
    /\ starts < MaxStarts
    /\ phase' = "recovering"
    /\ starts' = starts + 1
    /\ faults' = 0
    /\ attempts' = [j \in Jobs |-> 0]
    /\ UNCHANGED <<redisVars, recoverVars, creating, workerVars, cleaner,
                   created>>

\* Mutant: the status is not reset before the job is queued again.
RecoverKeepsStatus(j) ==
    /\ phase = "recovering"
    /\ requeue = NoJob
    /\ j \notin scanned
    /\ record[j] \in Unfinished
    /\ scanned' = scanned \cup {j}
    /\ requeue' = j
    /\ UNCHANGED <<redisVars, phase, creating, workerVars, cleaner, created,
                   attempts, boundVars>>

RecoverSave(j) ==
    /\ phase = "recovering"
    /\ requeue = NoJob
    /\ j \notin scanned
    /\ record[j] \in Unfinished
    /\ record' = [record EXCEPT ![j] = "queued"]
    /\ scanned' = scanned \cup {j}
    /\ requeue' = j
    /\ UNCHANGED <<queue, aged, phase, creating, workerVars, cleaner, created,
                   attempts, boundVars>>

\* Mutants: the id is not pushed; or it is cleared first and then pushed.
RecoverForgetsPush ==
    /\ requeue # NoJob
    /\ requeue' = NoJob
    /\ UNCHANGED <<redisVars, phase, scanned, creating, workerVars, cleaner,
                   created, attempts, boundVars>>

RecoverPushesCleared ==
    /\ requeue # NoJob
    /\ requeue' = NoJob
    /\ queue' = Append(queue, requeue')
    /\ UNCHANGED <<record, aged, phase, scanned, creating, workerVars, cleaner,
                   created, attempts, boundVars>>

\* The id is pushed even when the list still holds it from before.
RecoverPush ==
    /\ requeue # NoJob
    /\ queue' = Append(queue, requeue)
    /\ requeue' = NoJob
    /\ UNCHANGED <<record, aged, phase, scanned, creating, workerVars, cleaner,
                   created, attempts, boundVars>>

\* SCAN has returned every unfinished record.
Serve ==
    /\ phase = "recovering"
    /\ requeue = NoJob
    /\ \A j \in Jobs : record[j] \in Unfinished => j \in scanned
    /\ phase' = "serving"
    /\ WorkerIdle("poll")
    /\ UNCHANGED <<redisVars, recoverVars, creating, cleaner, created,
                   attempts, boundVars>>

\* What the process held is gone.
ProcessEnds ==
    /\ phase' = "down"
    /\ scanned' = {}
    /\ requeue' = NoJob
    /\ creating' = {}
    /\ cleaner' = NoJob
    /\ WorkerIdle("off")
    /\ UNCHANGED <<aged, created, attempts, boundVars>>

\* Killed, or start() raised because a Redis command of the recovery failed.
Crash ==
    /\ phase # "down"
    /\ ProcessEnds
    /\ UNCHANGED <<record, queue>>

\* What the cancelled worker leaves under the key of its job.  The finally
\* block saves the worker's own JobRecord, in which the stages reported through
\* update() are missing; a save in flight on its thread races with it.
StopLeaves ==
    {wrec} \cup (IF wpc = "merge" THEN {upd} ELSE {})
           \cup (IF wpc = "finish" THEN {record[wjob]} ELSE {})

\* A BLPOP in flight on its thread when the worker is cancelled may pop an id
\* that nobody looks at.
StopQueues ==
    IF wpc = "poll" /\ queue # <<>> THEN {queue, Tail(queue)} ELSE {queue}

\* Shutdown: requests have finished, stop() cancels the worker and waits.
Stop ==
    /\ phase = "serving"
    /\ creating = {}
    /\ queue' \in StopQueues
    /\ IF wpc \in Busy
       THEN \E left \in StopLeaves : record' = [record EXCEPT ![wjob] = left]
       ELSE record' = record
    /\ ProcessEnds

-----------------------------------------------------------------------------

RequestStep ==
    \E j \in Jobs : BeginCreate(j) \/ EnqueueCreated(j) \/ EnqueueFails(j)

WorkerFailure ==
    PopReplyLost \/ PopFails \/ ClaimFails \/ ReportFails \/ FinishFails

WorkerStep ==
    \/ Pop
    \/ FetchMissing \/ FetchTerminal \/ FetchUnfinished
    \/ Mark
    \/ \E s \in Stages : ReportRead(s)
    \/ ReportSave
    \/ \E outcome \in TerminalStatuses : HandlerEnds(outcome)
    \/ Finish
    \/ WorkerFailure

TtlStep ==
    \/ \E j \in Jobs : TtlElapses(j) \/ ExpireKey(j) \/ CleanupRead(j)
    \/ CleanupDelete
    \/ CleanupFails

ProcessStep ==
    \/ Start
    \/ \E j \in Jobs : RecoverSave(j)
    \/ RecoverPush
    \/ Serve
    \/ Crash
    \/ Stop

Next == RequestStep \/ WorkerStep \/ TtlStep \/ ProcessStep

Spec == Init /\ [][Next]_vars

\* Threads finish what they were given and the event loop resumes the task, so
\* every command that is pending is eventually issued.  The handler reports a
\* bounded number of stages: it cannot go on reporting for ever.  Nothing is
\* assumed of the clients, of time, of crashes or of restarts.
Fairness ==
    /\ \A j \in Jobs : WF_vars(EnqueueCreated(j)) /\ WF_vars(RecoverSave(j))
    /\ WF_vars(RecoverPush) /\ WF_vars(Serve)
    /\ WF_vars(Pop)
    /\ WF_vars(FetchMissing \/ FetchTerminal \/ FetchUnfinished)
    /\ WF_vars(Mark) /\ WF_vars(ReportSave) /\ WF_vars(Finish)
    /\ SF_vars(\E outcome \in TerminalStatuses : HandlerEnds(outcome))

FairSpec == Spec /\ Fairness

-----------------------------------------------------------------------------
(* Safety properties.                                                      *)

\* Unfinished jobs that nobody will take up in this life of the process: their id
\* is not in the list, the worker has not popped it, and no request is about to
\* push it.
Stranded ==
    {j \in Jobs : /\ record[j] \in Unfinished
                  /\ j \notin Queued \cup creating /\ wjob # j}

\* There are none unless a Redis command has failed in this life, and each failed
\* command (a lost BLPOP reply among them) strands at most one job.  (create
\* 57-61, _recover_unfinished_jobs 134-147 and _run 90-132 must agree on it.)
StrandedByFaults ==
    phase = "serving" => IsFiniteSet(Stranded) /\ Cardinality(Stranded) <= faults

\* Recovery pushes ids the list still holds, so ids are popped more than once;
\* the handler nevertheless runs at most once per job and life of the process
\* (the test of TERMINAL_STATUSES at line 106 is all there is against it).
AtMostOneAttempt == \A j \in Jobs : attempts[j] <= 1

\* A client that reads a stage ("embedding", ...) of a job sees the work of a
\* handler that is running it, unless the worker task has died: no stage is
\* left over from an earlier life or from a job the worker has let go.
NoPhantomProgress ==
    phase = "serving" =>
        \A j \in Jobs :
            record[j] \in Stages => (wjob = j /\ wpc \in Busy) \/ wpc = "dead"

\* A job that has an outcome is never handed to the handler again, not even by
\* a later life of the process.
FinishedNotRerun ==
    [][\A j \in Jobs : attempts'[j] > attempts[j] => record[j] \in Unfinished]_vars

-----------------------------------------------------------------------------
(* The inductive invariant behind the safety properties.                   *)

\* What the worker knows of the job it holds: from the moment it has seen the
\* record unfinished until it saves the outcome, nobody else settles or
\* removes the record.
WorkerShape ==
    /\ wpc \in {"off", "poll", "dead"} => wjob = NoJob
    /\ wpc \in {"fetch", "mark"} \cup Busy => wjob \in Jobs
    /\ wpc \in {"mark"} \cup Busy => record[wjob] \in Unfinished
    /\ wpc = "mark" => wrec = record[wjob]
    /\ wpc \in {"handle", "merge"} => wrec \in Unfinished
    /\ wpc = "merge" => upd \in Stages
    /\ wpc = "finish" => wrec \in TerminalStatuses

\* Which parts of the process exist in which phase.
ProcessShape ==
    /\ phase = "serving" <=> wpc # "off"
    /\ phase # "serving" => creating = {} /\ cleaner = NoJob
    /\ phase # "recovering" => requeue = NoJob
    /\ phase = "down" => scanned = {}

\* Only finished records age and only finished records are cleaned up.
TtlShape ==
    /\ \A j \in Jobs : record[j] # "absent" => j \in created
    /\ \A j \in aged : record[j] \in TerminalStatuses
    /\ cleaner # NoJob =>
           cleaner \in created /\ record[cleaner] \notin Unfinished

\* What recovery has rewritten is queued, in Redis and in the list.
RecoveryShape ==
    /\ requeue # NoJob => requeue \in scanned
    /\ phase = "recovering" =>
           \A j \in scanned : record[j] = "queued" /\ (j \in Queued \/ j = requeue)

\* A job whose handler has been called in this life is in the worker's hands
\* or settled, unless the worker is dead.
AttemptShape ==
    \A j \in Jobs :
        /\ attempts[j] \in {0, 1}
        /\ attempts[j] = 1 => j \in created
        /\ phase = "recovering" => attempts[j] = 0
        /\ attempts[j] = 1 /\ phase = "serving" =>
               \/ wjob = j /\ wpc \in Busy
               \/ wpc = "dead"
               \/ record[j] \notin Unfinished

\* The conjunction is inductive; RedisJobStoreProofs proves it.
Inv ==
    /\ TypeOK
    /\ WorkerShape
    /\ ProcessShape
    /\ TtlShape
    /\ RecoveryShape
    /\ AttemptShape
    /\ NoPhantomProgress

-----------------------------------------------------------------------------
(* What a client sees of a job, and the contract it implements.            *)

clientStatus ==
    [j \in Jobs |-> IF j \in created THEN ClientView(record[j]) ELSE "none"]

Contract == INSTANCE JobContract WITH status <- clientStatus, Durable <- TRUE

\* The Redis store keeps the promise of JobContract through any interleaving of
\* requests, worker, cleanup, failed commands, crashes and restarts.
ImplementsContract == Contract!Spec

-----------------------------------------------------------------------------
(* Liveness.                                                               *)

Settled(j) == record[j] \notin Unfinished

\* A queued job gets an outcome if the process keeps serving, none of its Redis
\* commands fails and its worker task does not end (create, _run).
QueuedJobsFinish ==
    \A j \in Jobs :
        phase = "serving" /\ record[j] = "queued"
            ~> Settled(j) \/ wpc = "dead" \/ faults > 0 \/ phase # "serving"

\* Logic/jobs-and-batching.md:15 says that Redis-backed jobs survive restarts
\* and are requeued on startup: with no Redis failure at all, a queued job of a
\* process that keeps serving then gets an outcome.
RequeuedJobsFinish ==
    \A j \in Jobs :
        phase = "serving" /\ record[j] = "queued"
            ~> Settled(j) \/ phase # "serving"

=============================================================================
