------------------------ MODULE MemoryJobStoreProofs ------------------------
(***************************************************************************)
(* Proofs about MemoryJobStore for any set of jobs, stages and lives: its  *)
(* worker cannot die, no job is stranded or handled twice, and it refines  *)
(* the JobContract that is not durable.                                    *)
(***************************************************************************)
EXTENDS MemoryJobStore, QueueLemmas

\* How the sets of statuses relate.
LEMMA StatusFacts ==
    /\ "queued" \notin Stages /\ "absent" \notin Unfinished
    /\ "queued" \in Unfinished
    /\ Stages \subseteq ActiveStatuses /\ Stages \subseteq Unfinished
    /\ "queued" \notin ActiveStatuses /\ "absent" \notin ActiveStatuses
    /\ "absent" \notin TerminalStatuses /\ "queued" \notin TerminalStatuses
    /\ \A s \in Unfinished : s \notin TerminalStatuses
    /\ \A s \in Unfinished : s = "queued" \/ s \in ActiveStatuses
    /\ \A s \in ActiveStatuses : s \notin TerminalStatuses
BY StagesAssumption DEF Unfinished, ActiveStatuses, TerminalStatuses

\* What Take leaves in the queue, in terms of the jobs that are in it.
LEMMA TakeQueue ==
    ASSUME MemoryInv, Take
    PROVE  /\ queue' \in Seq(Jobs) /\ IsInjective(queue')
           /\ Head(queue) \in Jobs /\ record[Head(queue)] = "queued"
           /\ Queued' = Queued \ {Head(queue)}
<1>1. queue \in Seq(Jobs) /\ IsInjective(queue)
  BY DEF MemoryInv, TypeOK, EveryJobInOnePlace
<1>2. queue # <<>> /\ queue' = Tail(queue)
  BY DEF Take
<1>3. /\ Tail(queue) \in Seq(Jobs) /\ Head(queue) \in Jobs
      /\ Range(queue) = Range(Tail(queue)) \cup {Head(queue)}
  BY <1>1, <1>2, TailFacts
<1>4. IsInjective(Tail(queue)) /\ Head(queue) \notin Range(Tail(queue))
  BY <1>1, <1>2, TailFacts
<1>5. record[Head(queue)] = "queued"
  BY <1>3 DEF MemoryInv, EveryJobInOnePlace, Queued
<1> QED BY <1>2, <1>3, <1>4, <1>5 DEF Queued

\* The inductive invariant holds in every reachable state.
THEOREM Invariance == Spec => []MemoryInv
<1>1. Init => MemoryInv
  <2> SUFFICES ASSUME Init PROVE MemoryInv
    OBVIOUS
  <2>1. TypeOK
    BY BoundAssumption DEF Init, TypeOK
  <2>2. DOMAIN queue = {} /\ Queued = {}
    BY DEF Init, Queued, Range
  <2> QED
    BY <2>1, <2>2, StatusFacts
    DEF Init, MemoryInv, EveryJobInOnePlace, WorkerSurvives, IsInjective
<1>2. MemoryInv /\ [Next]_vars => MemoryInv'
  <2> SUFFICES ASSUME MemoryInv, [Next]_vars PROVE MemoryInv'
    OBVIOUS
  <2> USE StatusFacts DEF MemoryInv, TypeOK, EveryJobInOnePlace, WorkerSurvives
  <2>1. CASE Start
    BY <2>1, BoundAssumption DEF Start, Queued
  <2>2. ASSUME NEW j \in Jobs, Create(j) PROVE MemoryInv'
    <3>1. queue \in Seq(Jobs) /\ queue' = Append(queue, j) /\ j \notin Queued
      BY <2>2 DEF Create
    <3>2. queue' \in Seq(Jobs) /\ IsInjective(queue') /\ Queued' = Queued \cup {j}
      BY <3>1, AppendFacts DEF Queued
    <3>3. TypeOK'
      BY <2>2, <3>2 DEF Create
    <3>4. j # wjob
      BY <2>2, JobsAssumption DEF Create
    <3>5. EveryJobInOnePlace'
      BY <2>2, <3>2, <3>4 DEF Create
    <3> QED BY <2>2, <3>3, <3>5 DEF Create
  <2>3. ASSUME NEW j \in Jobs, TtlElapses(j) PROVE MemoryInv'
    BY <2>3 DEF TtlElapses, Queued
  <2>4. CASE Take
    <3>1. worker' = "handle" /\ wjob' = Head(queue) /\ record' = record
      BY <2>4, TakeQueue DEF Take
    <3>2. TypeOK'
      BY <2>4, <3>1, TakeQueue DEF Take
    <3>3. EveryJobInOnePlace'
      <4>1. IsInjective(queue') /\ Queued' = Queued \ {Head(queue)}
        BY <2>4, TakeQueue
      <4>2. wjob = NoJob
        BY <2>4 DEF Take
      <4> QED BY <3>1, <4>1, <4>2, JobsAssumption
    <3> QED BY <2>4, <3>1, <3>2, <3>3, TakeQueue DEF Take
  <2>5. ASSUME NEW s \in Stages, Report(s) PROVE MemoryInv'
    BY <2>5 DEF Report, Queued
  <2>6. ASSUME NEW outcome \in TerminalStatuses, HandlerEnds(outcome) PROVE MemoryInv'
    <3>1. TypeOK'
      BY <2>6 DEF HandlerEnds
    <3>2. EveryJobInOnePlace'
      BY <2>6, JobsAssumption DEF HandlerEnds, Queued
    <3>3. wjob \in Jobs /\ record[wjob] \in Unfinished
      BY <2>6 DEF HandlerEnds
    <3> QED BY <2>6, <3>1, <3>2, <3>3 DEF HandlerEnds
  <2>7. CASE Cleanup
    <3>1. /\ TypeOK'
          /\ \A j \in Jobs : record[j] \in Unfinished => record'[j] = record[j]
          /\ \A j \in Jobs : record'[j] = record[j] \/ record'[j] = "absent"
          /\ \A j \in aged' : record'[j] = record[j]
      BY <2>7 DEF Cleanup, Expired
    <3>2. EveryJobInOnePlace'
      BY <2>7, <3>1 DEF Cleanup, Queued, TypeOK
    <3> QED BY <2>7, <3>1, <3>2 DEF Cleanup
  <2>8. CASE ProcessEnds
    <3>1. queue' \in Seq(Jobs) /\ IsInjective(queue') /\ Queued' = {}
      BY <2>8 DEF ProcessEnds, Queued, Range, IsInjective
    <3> QED BY <2>8, <3>1 DEF ProcessEnds
  <2>9. CASE UNCHANGED vars
    BY <2>9 DEF vars, Queued
  <2> QED BY <2>1, <2>2, <2>3, <2>4, <2>5, <2>6, <2>7, <2>8, <2>9 DEF Next
<1> QED BY <1>1, <1>2, PTL DEF Spec

\* The store keeps its types: the queue holds jobs and nothing else, and the
\* worker handles one of them or none.
THEOREM TypeCorrect == Spec => []TypeOK
<1>1. MemoryInv => TypeOK
  BY DEF MemoryInv
<1> QED BY <1>1, Invariance, PTL

\* Every unfinished job is queued exactly once or being handled.
THEOREM OnePlace == Spec => []EveryJobInOnePlace
<1>1. MemoryInv => EveryJobInOnePlace
  BY DEF MemoryInv
<1> QED BY <1>1, Invariance, PTL

\* The worker task cannot end while the process lives.
THEOREM Survival == Spec => []WorkerSurvives
<1>1. MemoryInv => WorkerSurvives
  BY DEF MemoryInv
<1> QED BY <1>1, Invariance, PTL

-----------------------------------------------------------------------------

\* Every step of the store is a step of the contract or invisible.
LEMMA ContractStep == MemoryInv /\ [Next]_vars => [Contract!Next]_clientStatus
<1> SUFFICES ASSUME MemoryInv, [Next]_vars PROVE [Contract!Next]_clientStatus
  OBVIOUS
<1> USE StatusFacts DEF MemoryInv, TypeOK
<1>1. CASE record' = record /\ created' = created
  BY <1>1 DEF clientStatus
<1>2. ASSUME NEW j \in Jobs, Create(j) PROVE [Contract!Next]_clientStatus
  <2>1. clientStatus[j] = "none"
    BY <1>2 DEF Create, clientStatus
  <2>2. clientStatus' = [clientStatus EXCEPT ![j] = "pending"]
    BY <1>2 DEF Create, clientStatus, ClientView
  <2>3. Contract!Submit(j)
    BY <2>1, <2>2 DEF Contract!Submit
  <2> QED BY <2>3 DEF Contract!Next
<1>3. ASSUME NEW s \in Stages, Report(s) PROVE [Contract!Next]_clientStatus
  <2>1. wjob \in Jobs /\ wjob \in created /\ record[wjob] \in Unfinished
    BY <1>3 DEF Report
  <2>2. clientStatus' = [clientStatus EXCEPT ![wjob] = "active"]
    BY <1>3, <2>1 DEF Report, clientStatus, ClientView
  <2>3. clientStatus[wjob] \in {"pending", "active"}
    BY <2>1 DEF clientStatus, ClientView
  <2>4. clientStatus' = clientStatus \/ Contract!Begin(wjob)
    BY <2>1, <2>2, <2>3 DEF Contract!Begin, clientStatus
  <2> QED BY <2>1, <2>4 DEF Contract!Next
<1>4. ASSUME NEW outcome \in TerminalStatuses, HandlerEnds(outcome)
      PROVE  [Contract!Next]_clientStatus
  <2>1. wjob \in Jobs /\ wjob \in created /\ record[wjob] \in Unfinished
    BY <1>4 DEF HandlerEnds
  <2>2. ClientView(outcome) = outcome /\ outcome \in Contract!Outcomes
    BY DEF ClientView, Contract!Outcomes, TerminalStatuses
  <2>3. clientStatus' = [clientStatus EXCEPT ![wjob] = outcome]
    BY <1>4, <2>1, <2>2 DEF HandlerEnds, clientStatus
  <2>4. clientStatus[wjob] \in Contract!Unfinished
    BY <2>1 DEF clientStatus, ClientView, Contract!Unfinished
  <2>5. Contract!Settle(wjob)
    BY <2>2, <2>3, <2>4 DEF Contract!Settle
  <2> QED BY <2>1, <2>5 DEF Contract!Next
<1>5. CASE Cleanup
  <2>1. Expired \subseteq Jobs /\ Expired \subseteq created
    BY DEF Expired
  <2>2. \A j \in Expired : clientStatus[j] \in Contract!Outcomes
    BY <2>1 DEF Expired, clientStatus, ClientView, Contract!Outcomes, TerminalStatuses
  <2>3. clientStatus' =
          [j \in Jobs |-> IF j \in Expired THEN "gone" ELSE clientStatus[j]]
    BY <1>5, <2>1 DEF Cleanup, clientStatus, ClientView
  <2>4. Contract!Remove(Expired)
    BY <2>2, <2>3 DEF Contract!Remove
  <2> QED BY <2>1, <2>4 DEF Contract!Next
<1>6. CASE ProcessEnds
  <2>1. clientStatus' =
          [j \in Jobs |-> IF clientStatus[j] = "none" THEN "none" ELSE "gone"]
    <3>1. \A j \in created : ClientView(record[j]) # "none"
      BY <1>6 DEF ClientView, TerminalStatuses
    <3> QED BY <1>6, <3>1 DEF ProcessEnds, clientStatus, ClientView
  <2>2. Contract!ForgetAll
    BY <2>1 DEF Contract!ForgetAll
  <2> QED BY <2>2 DEF Contract!Next
<1> QED
  BY <1>1, <1>2, <1>3, <1>4, <1>5, <1>6 DEF Next, vars, Start, TtlElapses, Take

\* MemoryJobStore implements JobContract without durability.
THEOREM Refinement == Spec => ImplementsVolatileContract
<1>1. Init => Contract!Init
  BY DEF Init, Contract!Init, clientStatus
<1> QED
  BY <1>1, Invariance, ContractStep, PTL
  DEF Spec, ImplementsVolatileContract, Contract!Spec

=============================================================================
