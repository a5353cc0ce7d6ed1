------------------------ MODULE RedisJobStoreProofs -------------------------
(***************************************************************************)
(* Proofs about RedisJobStore for any set of jobs, any set of stages and   *)
(* any bounds: the inductive invariant Inv, the safety properties it       *)
(* implies, and the refinement of JobContract.                             *)
(***************************************************************************)
EXTENDS RedisJobStore, QueueLemmas, FiniteSetTheorems

\* How the sets of statuses relate.
LEMMA StatusFacts ==
    /\ "queued" \notin Stages /\ "absent" \notin Stages
    /\ \A s \in Stages : s \notin TerminalStatuses
    /\ "queued" \notin TerminalStatuses /\ "absent" \notin TerminalStatuses
    /\ "queued" \notin ActiveStatuses /\ "absent" \notin ActiveStatuses
    /\ \A s \in ActiveStatuses : s \notin TerminalStatuses
    /\ Stages \subseteq ActiveStatuses
    /\ "absent" \notin Unfinished
    /\ "queued" \in Unfinished /\ Stages \subseteq Unfinished
    /\ \A s \in Unfinished : s \notin TerminalStatuses
    /\ \A s \in Unfinished : s = "queued" \/ s \in Stages
BY StagesAssumption DEF Unfinished, ActiveStatuses, TerminalStatuses

\* Creating a job preserves the invariant.
LEMMA RequestInv ==
    ASSUME Inv, RequestStep PROVE Inv'
<1> USE StatusFacts DEF Inv, TypeOK, WorkerShape, ProcessShape, TtlShape,
        RecoveryShape, AttemptShape, NoPhantomProgress, Busy,
        RequestFrame, RequestFault, RequestRest, NoFault, OneFault,
        recoverVars, workerVars, Queued
<1>1. ASSUME NEW j \in Jobs, BeginCreate(j) PROVE Inv'
  BY <1>1 DEF BeginCreate
<1>2. ASSUME NEW j \in Jobs, EnqueueCreated(j) PROVE Inv'
  BY <1>2, AppendFacts DEF EnqueueCreated
<1>3. ASSUME NEW j \in Jobs, EnqueueFails(j) PROVE Inv'
  <2>1. queue' \in Seq(Jobs) /\ Range(queue) \subseteq Range(queue')
    <3>1. CASE queue' = queue
      BY <3>1
    <3>2. CASE queue' = Append(queue, j)
      BY <3>2, AppendFacts
    <3> QED BY <1>3, <3>1, <3>2 DEF EnqueueFails
  <2>2. faults' \in 0..MaxFaults /\ faults' # 0
    BY <1>3, BoundsAssumption DEF EnqueueFails
  <2> QED BY <1>3, <2>1, <2>2 DEF EnqueueFails
<1> QED BY <1>1, <1>2, <1>3 DEF RequestStep

\* So does every step of the worker, ...
LEMMA WorkerInv ==
    ASSUME Inv, WorkerStep PROVE Inv'
<1> USE StatusFacts DEF Inv, TypeOK, WorkerShape, ProcessShape, TtlShape,
        RecoveryShape, AttemptShape, NoPhantomProgress, Busy,
        WorkerFrame, WorkerFault, WorkerRest, NoFault, OneFault, WorkerIdle,
        recoverVars, workerVars, Queued
<1>1. CASE Pop
  BY <1>1, TailFacts, JobsAssumption DEF Pop
<1>2. CASE FetchMissing
  BY <1>2 DEF FetchMissing
<1>3. CASE FetchTerminal
  BY <1>3 DEF FetchTerminal
<1>4. CASE FetchUnfinished
  BY <1>4 DEF FetchUnfinished
<1>5. CASE Mark
  BY <1>5 DEF Mark
<1>6. ASSUME NEW s \in Stages, ReportRead(s) PROVE Inv'
  BY <1>6 DEF ReportRead
<1>7. CASE ReportSave
  BY <1>7 DEF ReportSave
<1>8. ASSUME NEW outcome \in TerminalStatuses, HandlerEnds(outcome) PROVE Inv'
  BY <1>8 DEF HandlerEnds
<1>9. CASE Finish
  BY <1>9 DEF Finish
<1>10. CASE PopReplyLost
  BY <1>10, TailFacts, BoundsAssumption DEF PopReplyLost
<1>11. CASE PopFails
  <2>1. queue' \in Seq(Jobs)
    <3>1. CASE queue = <<>>
      BY <1>11, <3>1 DEF PopFails
    <3>2. CASE queue # <<>>
      <4>1. Tail(queue) \in Seq(Jobs)
        BY <3>2, TailFacts
      <4> QED BY <1>11, <4>1 DEF PopFails
    <3> QED BY <3>1, <3>2
  <2>2. faults' \in 0..MaxFaults /\ faults' # 0
    BY <1>11, BoundsAssumption DEF PopFails
  <2> QED BY <1>11, <2>1, <2>2 DEF PopFails
<1>12. CASE ClaimFails
  BY <1>12, BoundsAssumption DEF ClaimFails
<1>13. CASE ReportFails
  BY <1>13, BoundsAssumption DEF ReportFails, TerminalStatuses
<1>14. CASE FinishFails
  BY <1>14, BoundsAssumption DEF FinishFails
<1> QED
  BY <1>1, <1>2, <1>3, <1>4, <1>5, <1>6, <1>7, <1>8, <1>9, <1>10, <1>11, <1>12,
     <1>13, <1>14 DEF WorkerStep, WorkerFailure

\* ... every step of expiry and cleanup, ...
LEMMA TtlInv ==
    ASSUME Inv, TtlStep PROVE Inv'
<1> USE StatusFacts DEF Inv, TypeOK, WorkerShape, ProcessShape, TtlShape,
        RecoveryShape, AttemptShape, NoPhantomProgress, Busy,
        TtlFrame, TtlFault, TtlRest, NoFault, OneFault, Discard,
        recoverVars, workerVars, Queued
<1>1. ASSUME NEW j \in Jobs, TtlElapses(j) PROVE Inv'
  BY <1>1 DEF TtlElapses
<1>2. ASSUME NEW j \in Jobs, ExpireKey(j) PROVE Inv'
  BY <1>2 DEF ExpireKey
<1>3. ASSUME NEW j \in Jobs, CleanupRead(j) PROVE Inv'
  BY <1>3 DEF CleanupRead
<1>4. CASE CleanupDelete
  BY <1>4 DEF CleanupDelete
<1>5. CASE CleanupFails
  <2>1. faults' \in 0..MaxFaults
    BY <1>5, BoundsAssumption DEF CleanupFails
  <2>2. CASE UNCHANGED <<record, aged>>
    BY <1>5, <2>1, <2>2 DEF CleanupFails
  <2>3. CASE Discard(cleaner)
    BY <1>5, <2>1, <2>3 DEF CleanupFails
  <2> QED BY <1>5, <2>2, <2>3 DEF CleanupFails
<1> QED BY <1>1, <1>2, <1>3, <1>4, <1>5 DEF TtlStep

\* ... and every start, recovery step, crash and shutdown.
LEMMA ProcessInv ==
    ASSUME Inv, ProcessStep PROVE Inv'
<1> USE StatusFacts DEF Inv, TypeOK, WorkerShape, ProcessShape, TtlShape,
        RecoveryShape, AttemptShape, NoPhantomProgress, Busy,
        ProcessEnds, WorkerIdle, redisVars, boundVars, recoverVars, workerVars, Queued
<1>1. CASE Start
  BY <1>1, BoundsAssumption DEF Start
<1>2. ASSUME NEW j \in Jobs, RecoverSave(j) PROVE Inv'
  BY <1>2, JobsAssumption DEF RecoverSave
<1>3. CASE RecoverPush
  BY <1>3, AppendFacts DEF RecoverPush
<1>4. CASE Serve
  BY <1>4 DEF Serve
<1>5. CASE Crash
  BY <1>5 DEF Crash
<1>6. CASE Stop
  <2>1. queue' \in Seq(Jobs)
    <3>1. CASE queue = <<>>
      BY <1>6, <3>1 DEF Stop, StopQueues
    <3>2. CASE queue # <<>>
      <4>1. Tail(queue) \in Seq(Jobs)
        BY <3>2, TailFacts
      <4> QED BY <1>6, <4>1 DEF Stop, StopQueues
    <3> QED BY <3>1, <3>2
  <2>2. /\ record' \in [Jobs -> {"absent"} \cup Unfinished \cup TerminalStatuses]
        /\ \A j \in Jobs : record[j] = "absent" => record'[j] = "absent"
        /\ \A j \in aged : record'[j] = record[j]
    <3>1. CASE wpc \in Busy
      <4>1. wjob \in Jobs /\ record[wjob] \in Unfinished
        BY <3>1
      <4>2. StopLeaves \subseteq Unfinished \cup TerminalStatuses
        BY <3>1, <4>1 DEF StopLeaves
      <4>3. PICK s \in StopLeaves : record' = [record EXCEPT ![wjob] = s]
        BY <1>6, <3>1 DEF Stop
      <4> QED BY <4>1, <4>2, <4>3
    <3>2. CASE wpc \notin Busy
      BY <1>6, <3>2 DEF Stop
    <3> QED BY <3>1, <3>2
  <2> QED BY <1>6, <2>1, <2>2 DEF Stop
<1> QED BY <1>1, <1>2, <1>3, <1>4, <1>5, <1>6 DEF ProcessStep

\* The inductive invariant holds in every reachable state.
THEOREM Invariance == Spec => []Inv
<1>1. Init => Inv
  <2> SUFFICES ASSUME Init PROVE Inv
    OBVIOUS
  <2>1. TypeOK
    BY BoundsAssumption DEF Init, TypeOK
  <2>2. \A j \in Jobs : record[j] = "absent" /\ attempts[j] = 0
    BY DEF Init
  <2> QED
    BY <2>1, <2>2, JobsAssumption, StatusFacts DEF Init, Inv, WorkerShape, ProcessShape,
       TtlShape, RecoveryShape, AttemptShape, NoPhantomProgress, Busy
<1>2. Inv /\ [Next]_vars => Inv'
  <2> SUFFICES ASSUME Inv, [Next]_vars PROVE Inv'
    OBVIOUS
  <2>1. CASE RequestStep
    BY <2>1, RequestInv
  <2>2. CASE WorkerStep
    BY <2>2, WorkerInv
  <2>3. CASE TtlStep
    BY <2>3, TtlInv
  <2>4. CASE ProcessStep
    BY <2>4, ProcessInv
  <2>5. CASE UNCHANGED vars
    BY <2>5 DEF vars, Inv, TypeOK, WorkerShape, ProcessShape, TtlShape,
       RecoveryShape, AttemptShape, NoPhantomProgress, Busy, Queued
  <2> QED BY <2>1, <2>2, <2>3, <2>4, <2>5 DEF Next
<1> QED BY <1>1, <1>2, PTL DEF Spec

\* Every variable keeps its type.
THEOREM TypeCorrect == Spec => []TypeOK
<1>1. Inv => TypeOK
  BY DEF Inv
<1> QED BY <1>1, Invariance, PTL

\* A step strands at most one job, and only if its Redis command fails; recovery
\* takes up all that there are.
LEMMA StrandedStep ==
    ASSUME Inv, [Next]_vars, phase' = "serving"
    PROVE  \/ phase = "recovering" /\ Stranded' = {}
           \/ phase = "serving" /\ faults' = faults /\ Stranded' \subseteq Stranded
           \/ /\ phase = "serving" /\ faults' = faults + 1
              /\ \E x : Stranded' \subseteq Stranded \cup {x}
<1> USE StatusFacts DEF Stranded, Inv, TypeOK, WorkerShape, Queued, Busy,
        RequestFrame, RequestFault, RequestRest, WorkerFrame, WorkerFault, WorkerRest,
        TtlFrame, TtlFault, TtlRest, NoFault, OneFault, WorkerIdle, workerVars
<1>1. ASSUME NEW j \in Jobs, BeginCreate(j) \/ EnqueueCreated(j)
      PROVE  phase = "serving" /\ faults' = faults /\ Stranded' \subseteq Stranded
  <2>1. phase = "serving" /\ faults' = faults /\ wjob' = wjob
    BY <1>1 DEF BeginCreate, EnqueueCreated, ProcessShape
  <2>2. CASE BeginCreate(j)
    BY <2>1, <2>2 DEF BeginCreate
  <2>3. CASE EnqueueCreated(j)
    <3>1. Range(queue') = Range(queue) \cup {j}
      BY <2>3, AppendFacts DEF EnqueueCreated
    <3> QED BY <2>1, <2>3, <3>1 DEF EnqueueCreated
  <2> QED BY <1>1, <2>2, <2>3
<1>2. ASSUME NEW j \in Jobs, EnqueueFails(j)
      PROVE  /\ phase = "serving" /\ faults' = faults + 1
             /\ Stranded' \subseteq Stranded \cup {j}
  <2>1. phase = "serving" /\ faults' = faults + 1 /\ wjob' = wjob
    BY <1>2 DEF EnqueueFails, ProcessShape
  <2>2. Range(queue) \subseteq Range(queue')
    <3>1. queue \in Seq(Jobs)
      OBVIOUS
    <3>2. Range(Append(queue, j)) = Range(queue) \cup {j}
      BY <1>2, <3>1, AppendFacts
    <3> QED BY <1>2, <3>2 DEF EnqueueFails
  <2>3. Stranded' \subseteq Stranded \cup {j}
    BY <1>2, <2>1, <2>2 DEF EnqueueFails
  <2> QED BY <2>1, <2>3
<1>3. CASE Serve
  BY <1>3, JobsAssumption DEF Serve, RecoveryShape, redisVars, recoverVars
<1>4. ASSUME Pop PROVE phase = "serving" /\ faults' = faults /\ Stranded' \subseteq Stranded
  BY <1>4, TailFacts, JobsAssumption DEF Pop
<1>5. CASE PopReplyLost \/ PopFails
  <2>1. CASE queue' = queue
    BY <1>5, <2>1 DEF PopReplyLost, PopFails
  <2>2. CASE queue # <<>> /\ queue' = Tail(queue)
    <3>1. Stranded' \subseteq Stranded \cup {Head(queue)}
      BY <1>5, <2>2, TailFacts, JobsAssumption DEF PopReplyLost, PopFails
    <3> QED BY <1>5, <3>1 DEF PopReplyLost, PopFails, ProcessShape
  <2> QED BY <1>5, <2>1, <2>2 DEF PopReplyLost, PopFails
<1>6. CASE ClaimFails \/ ReportFails \/ FinishFails
  <2>1. Stranded' \subseteq Stranded \cup {wjob} /\ faults' = faults + 1
    BY <1>6 DEF ClaimFails, ReportFails, FinishFails
  <2> QED BY <1>6, <2>1 DEF ClaimFails, ReportFails, FinishFails, ProcessShape
<1>7. CASE FetchMissing \/ FetchTerminal \/ FetchUnfinished \/ Mark
  <2>1. phase = "serving" /\ faults' = faults
    BY <1>7 DEF FetchMissing, FetchTerminal, FetchUnfinished, Mark, ProcessShape
  <2>2. Stranded' \subseteq Stranded
    BY <1>7 DEF FetchMissing, FetchTerminal, FetchUnfinished, Mark
  <2> QED BY <2>1, <2>2
<1>8. ASSUME \/ \E s \in Stages : ReportRead(s)
             \/ ReportSave \/ Finish
             \/ \E outcome \in TerminalStatuses : HandlerEnds(outcome)
      PROVE  phase = "serving" /\ faults' = faults /\ Stranded' \subseteq Stranded
  <2>1. phase = "serving" /\ faults' = faults
    BY <1>8 DEF ReportRead, ReportSave, Finish, HandlerEnds, ProcessShape
  <2>2. Stranded' \subseteq Stranded
    BY <1>8 DEF ReportRead, ReportSave, Finish, HandlerEnds
  <2> QED BY <2>1, <2>2
<1>9. CASE TtlStep
  <2>1. phase = "serving" /\ UNCHANGED <<queue, creating, wjob>>
    BY <1>9 DEF TtlStep, TtlElapses, ExpireKey, CleanupRead, CleanupDelete, CleanupFails
  <2>2. \A j \in Jobs : record'[j] = record[j] \/ record'[j] = "absent"
    BY <1>9 DEF TtlStep, TtlElapses, ExpireKey, CleanupRead, CleanupDelete, CleanupFails, Discard
  <2>3. Stranded' \subseteq Stranded
    BY <2>1, <2>2
  <2>4. faults' = faults \/ faults' = faults + 1
    BY <1>9 DEF TtlStep, TtlElapses, ExpireKey, CleanupRead, CleanupDelete, CleanupFails
  <2> QED BY <2>1, <2>3, <2>4
<1>10. CASE Start \/ (\E j \in Jobs : RecoverSave(j)) \/ RecoverPush \/ Crash \/ Stop
  BY <1>10 DEF Start, RecoverSave, RecoverPush, Crash, Stop, ProcessEnds, ProcessShape
<1>11. CASE UNCHANGED vars
  BY <1>11 DEF vars
<1> QED
  BY <1>1, <1>2, <1>3, <1>4, <1>5, <1>6, <1>7, <1>8, <1>9, <1>10, <1>11
  DEF Next, RequestStep, WorkerStep, WorkerFailure, ProcessStep

\* Each failed command strands at most one job.
THEOREM Stranding == Spec => []StrandedByFaults
<1>1. Init => StrandedByFaults
  BY DEF Init, StrandedByFaults
<1>2. Inv /\ Inv' /\ StrandedByFaults /\ [Next]_vars => StrandedByFaults'
  <2> SUFFICES ASSUME Inv, Inv', StrandedByFaults, [Next]_vars, phase' = "serving"
               PROVE  IsFiniteSet(Stranded') /\ Cardinality(Stranded') <= faults'
    BY DEF StrandedByFaults
  <2>1. faults \in Nat /\ faults' \in Nat
    BY BoundsAssumption DEF Inv, TypeOK
  <2>2. CASE Stranded' = {}
    BY <2>1, <2>2, FS_EmptySet
  <2>3. ASSUME phase = "serving", faults' = faults, Stranded' \subseteq Stranded
        PROVE  IsFiniteSet(Stranded') /\ Cardinality(Stranded') <= faults'
    <3>1. IsFiniteSet(Stranded) /\ Cardinality(Stranded) <= faults
      BY <2>3 DEF StrandedByFaults
    <3>2. IsFiniteSet(Stranded') /\ Cardinality(Stranded') <= Cardinality(Stranded)
      BY <2>3, <3>1, FS_Subset
    <3>3. Cardinality(Stranded) \in Nat /\ Cardinality(Stranded') \in Nat
      BY <3>1, <3>2, FS_CardinalityType
    <3> QED BY <2>1, <2>3, <3>1, <3>2, <3>3
  <2>4. ASSUME phase = "serving", faults' = faults + 1,
               NEW x, Stranded' \subseteq Stranded \cup {x}
        PROVE  IsFiniteSet(Stranded') /\ Cardinality(Stranded') <= faults'
    <3> DEFINE more == Stranded \cup {x}
    <3>1. IsFiniteSet(Stranded) /\ Cardinality(Stranded) <= faults
      BY <2>4 DEF StrandedByFaults
    <3>2. Cardinality(Stranded) \in Nat
      BY <3>1, FS_CardinalityType
    <3>3. IsFiniteSet(more) /\ Cardinality(more) <= Cardinality(Stranded) + 1
      BY <3>1, <3>2, FS_AddElement
    <3>4. Stranded' \in SUBSET more
      BY <2>4
    <3> HIDE DEF more
    <3>5. IsFiniteSet(Stranded') /\ Cardinality(Stranded') <= Cardinality(more)
      BY <3>3, <3>4, FS_Subset
    <3>6. Cardinality(more) \in Nat /\ Cardinality(Stranded') \in Nat
      BY <3>3, <3>5, FS_CardinalityType
    <3> QED BY <2>1, <2>4, <3>1, <3>2, <3>3, <3>5, <3>6
  <2> QED BY <2>2, <2>3, <2>4, StrandedStep
<1> QED BY <1>1, <1>2, Invariance, PTL DEF Spec

\* The duplicates that recovery pushes never make the handler run twice.
THEOREM OneAttemptPerLife == Spec => []AtMostOneAttempt
<1>1. Inv => AtMostOneAttempt
  BY DEF Inv, AttemptShape, AtMostOneAttempt
<1> QED BY <1>1, Invariance, PTL

\* A stage a client sees is being worked on, or the worker task has died.
THEOREM ProgressIsReal == Spec => []NoPhantomProgress
<1>1. Inv => NoPhantomProgress
  BY DEF Inv
<1> QED BY <1>1, Invariance, PTL

-----------------------------------------------------------------------------
(* Refinement of JobContract.                                              *)

\* Every step of the store is a step of the contract or invisible.
LEMMA ContractStep ==
    Inv /\ [Next]_vars => [Contract!Next]_clientStatus
<1> SUFFICES ASSUME Inv, [Next]_vars PROVE [Contract!Next]_clientStatus
  OBVIOUS
<1>1. \* A step that changes neither records nor the ids used shows nothing.
      ASSUME record' = record, created' = created
      PROVE  UNCHANGED clientStatus
  BY <1>1 DEF clientStatus, ClientView
<1>2. \* Rewriting the record of an unfinished job is a step of the contract.
      ASSUME NEW j \in Jobs, record[j] \in Unfinished, NEW s \in Unfinished \cup TerminalStatuses, record' = [record EXCEPT ![j] = s], created' = created
      PROVE  [Contract!Next]_clientStatus
  <2> USE <1>2
  <2>1. j \in created /\ record \in [Jobs -> {"absent"} \cup Unfinished \cup TerminalStatuses]
    BY StatusFacts DEF Inv, TtlShape, TypeOK
  <2>2. clientStatus' = [clientStatus EXCEPT ![j] = ClientView(s)]
    BY <2>1 DEF clientStatus, ClientView
  <2>3. clientStatus[j] = ClientView(record[j])
    BY <2>1 DEF clientStatus
  <2>4. ClientView(record[j]) = IF record[j] = "queued" THEN "pending" ELSE "active"
    BY StatusFacts DEF ClientView
  <2>5. CASE s \in Unfinished
    <3>1. ClientView(s) \in {"pending", "active"}
      BY <2>5, StatusFacts DEF ClientView
    <3>2. \/ clientStatus' = clientStatus
          \/ Contract!Begin(j)
          \/ Contract!Requeue(j)
      BY <3>1, <2>2, <2>3, <2>4 DEF Contract!Begin, Contract!Requeue, clientStatus
    <3> QED BY <3>2 DEF Contract!Next
  <2>6. CASE s \in TerminalStatuses
    <3>1. ClientView(s) \in Contract!Outcomes
      BY <2>6, StatusFacts DEF ClientView, Contract!Outcomes, TerminalStatuses
    <3>2. Contract!Settle(j)
      BY <3>1, <2>2, <2>3, <2>4 DEF Contract!Settle, Contract!Unfinished
    <3> QED BY <3>2 DEF Contract!Next
  <2> QED BY <2>5, <2>6
<1>3. \* Discarding the record of a job that is not unfinished is one, too.
      ASSUME NEW j \in Jobs, j \in created, record[j] \notin Unfinished, record' = [record EXCEPT ![j] = "absent"], created' = created
      PROVE  [Contract!Next]_clientStatus
  <2> USE <1>3
  <2>1. record \in [Jobs -> {"absent"} \cup Unfinished \cup TerminalStatuses]
    BY DEF Inv, TypeOK
  <2>2. clientStatus' = [clientStatus EXCEPT ![j] = "gone"]
    BY <2>1 DEF clientStatus, ClientView
  <2>3. CASE record[j] = "absent"
    BY <2>2, <2>3 DEF clientStatus, ClientView
  <2>4. CASE record[j] \in TerminalStatuses
    <3>1. clientStatus[j] \in Contract!Outcomes
      BY <2>4, StatusFacts DEF clientStatus, ClientView, Contract!Outcomes, TerminalStatuses
    <3>2. Contract!Remove({j})
      BY <3>1, <2>2 DEF Contract!Remove, clientStatus
    <3> QED BY <3>2 DEF Contract!Next
  <2> QED BY <2>1, <2>3, <2>4
<1> USE DEF RequestFrame, RequestFault, RequestRest, WorkerFrame, WorkerFault,
        WorkerRest, TtlFrame, TtlFault, TtlRest, Discard, ProcessEnds,
        redisVars, recoverVars
<1>4. CASE RequestStep
  <2>1. ASSUME NEW j \in Jobs, BeginCreate(j) PROVE Contract!Submit(j)
    <3>1. clientStatus[j] = "none"
      BY <2>1 DEF BeginCreate, clientStatus
    <3>2. clientStatus' = [clientStatus EXCEPT ![j] = "pending"]
      BY <2>1 DEF BeginCreate, clientStatus, ClientView, Inv, TypeOK
    <3> QED BY <3>1, <3>2 DEF Contract!Submit
  <2>2. ASSUME NEW j \in Jobs, EnqueueCreated(j) \/ EnqueueFails(j)
        PROVE  UNCHANGED clientStatus
    BY <2>2, <1>1 DEF EnqueueCreated, EnqueueFails
  <2> QED BY <1>4, <2>1, <2>2 DEF RequestStep, Contract!Next
<1>5. CASE WorkerStep
  <2>1. CASE \/ Pop \/ FetchMissing \/ FetchTerminal \/ FetchUnfinished
             \/ PopReplyLost \/ PopFails \/ ClaimFails
             \/ \E s \in Stages : ReportRead(s)
             \/ \E outcome \in TerminalStatuses : HandlerEnds(outcome)
    BY <2>1, <1>1 DEF Pop, FetchMissing, FetchTerminal, FetchUnfinished,
       PopReplyLost, PopFails, ClaimFails, ReportRead, HandlerEnds
  <2>2. CASE Mark \/ ReportSave \/ ReportFails \/ Finish \/ FinishFails
    <3>1. wjob \in Jobs /\ record[wjob] \in Unfinished
      BY <2>2 DEF Mark, ReportSave, ReportFails, Finish, FinishFails, Inv,
         WorkerShape, Busy
    <3>2. created' = created
      BY <2>2 DEF Mark, ReportSave, ReportFails, Finish, FinishFails
    <3>3. \E s \in Unfinished \cup TerminalStatuses :
             record' = [record EXCEPT ![wjob] = s]
      BY <2>2, <3>1, StatusFacts DEF Mark, ReportSave, ReportFails, Finish,
         FinishFails, Inv, WorkerShape, Busy
    <3> QED BY <3>1, <3>2, <3>3, <1>2
  <2> QED BY <1>5, <2>1, <2>2 DEF WorkerStep, WorkerFailure
<1>6. CASE TtlStep
  <2>1. ASSUME NEW j \in Jobs, TtlElapses(j) \/ CleanupRead(j)
        PROVE  UNCHANGED clientStatus
    BY <2>1, <1>1 DEF TtlElapses, CleanupRead
  <2>2. ASSUME NEW j \in Jobs, ExpireKey(j) PROVE [Contract!Next]_clientStatus
    <3>1. j \in created /\ record[j] \notin Unfinished
      BY <2>2, StatusFacts DEF ExpireKey, Inv, TtlShape
    <3> QED BY <2>2, <3>1, <1>3 DEF ExpireKey
  <2>3. CASE CleanupDelete \/ CleanupFails
    <3>1. cleaner \in Jobs /\ cleaner \in created /\ record[cleaner] \notin Unfinished
      BY <2>3 DEF CleanupDelete, CleanupFails, Inv, TtlShape, TypeOK
    <3>2. /\ created' = created
          /\ record' = record \/ record' = [record EXCEPT ![cleaner] = "absent"]
      BY <2>3 DEF CleanupDelete, CleanupFails
    <3> QED BY <3>1, <3>2, <1>3, <1>1
  <2> QED BY <1>6, <2>1, <2>2, <2>3 DEF TtlStep
<1>7. CASE ProcessStep
  <2>1. CASE Start \/ RecoverPush \/ Serve \/ Crash
    BY <2>1, <1>1 DEF Start, RecoverPush, Serve, Crash
  <2>2. ASSUME NEW j \in Jobs, RecoverSave(j) PROVE [Contract!Next]_clientStatus
    BY <2>2, <1>2, StatusFacts DEF RecoverSave
  <2>3. CASE Stop
    <3>1. CASE wpc \in Busy
      <4>1. wjob \in Jobs /\ record[wjob] \in Unfinished
        BY <3>1 DEF Inv, WorkerShape
      <4>2. StopLeaves \subseteq Unfinished \cup TerminalStatuses
        BY <3>1, <4>1, StatusFacts DEF StopLeaves, Inv, WorkerShape, Busy
      <4>3. PICK s \in StopLeaves : record' = [record EXCEPT ![wjob] = s]
        BY <2>3, <3>1 DEF Stop
      <4> QED BY <2>3, <4>1, <4>2, <4>3, <1>2 DEF Stop
    <3>2. CASE wpc \notin Busy
      BY <2>3, <3>2, <1>1 DEF Stop
    <3> QED BY <3>1, <3>2
  <2> QED BY <1>7, <2>1, <2>2, <2>3 DEF ProcessStep
<1>8. CASE UNCHANGED vars
  BY <1>8, <1>1 DEF vars
<1> QED BY <1>4, <1>5, <1>6, <1>7, <1>8 DEF Next

\* RedisJobStore implements JobContract: outcomes are final, only finished jobs
\* are removed, and nothing removed comes back.
THEOREM Refinement == Spec => ImplementsContract
<1>1. Init => Contract!Init
  BY DEF Init, Contract!Init, clientStatus
<1> QED BY <1>1, Invariance, ContractStep, PTL DEF Spec, ImplementsContract, Contract!Spec

\* No step hands a job that has an outcome to the handler.
THEOREM NoRerun == Spec => FinishedNotRerun
<1>1. Inv /\ [Next]_vars =>
        [\A j \in Jobs : attempts'[j] > attempts[j] => record[j] \in Unfinished]_vars
  <2> SUFFICES ASSUME Inv, Next, NEW j \in Jobs, attempts'[j] > attempts[j]
               PROVE  record[j] \in Unfinished
    OBVIOUS
  <2>0. attempts \in [Jobs -> {0, 1}]
    BY DEF Inv, TypeOK, AttemptShape
  <2>1. CASE Mark
    BY <2>0, <2>1 DEF Mark, Inv, WorkerShape
  <2>2. CASE Start
    BY <2>0, <2>2 DEF Start
  <2>3. CASE ~Mark /\ ~Start
    <3>1. attempts' = attempts
      BY <2>3 DEF Next, RequestStep, WorkerStep, WorkerFailure, TtlStep,
         ProcessStep, BeginCreate, EnqueueCreated, EnqueueFails, Pop,
         PopReplyLost, PopFails, FetchMissing, FetchTerminal, FetchUnfinished,
         ClaimFails, ReportRead, ReportSave, HandlerEnds, ReportFails, Finish,
         FinishFails, TtlElapses, ExpireKey, CleanupRead, CleanupDelete,
         CleanupFails, RecoverSave, RecoverPush, Serve, Crash, Stop, ProcessEnds,
         RequestFrame, RequestFault, RequestRest, TtlFrame, TtlFault, TtlRest
    <3> QED BY <2>0, <3>1
  <2> QED BY <2>1, <2>2, <2>3
<1> QED BY <1>1, Invariance, PTL DEF Spec, FinishedNotRerun

=============================================================================
