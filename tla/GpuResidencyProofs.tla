------------------------- MODULE GpuResidencyProofs -------------------------
(***************************************************************************)
(* Proofs about GpuResidency for any number of models, any memory sizes    *)
(* and any number of failures.                                             *)
(***************************************************************************)
EXTENDS GpuResidency, TLAPS

\* The inductive invariant holds in every reachable state.
THEOREM Invariance == Spec => []ResidencyInv
<1>1. Init => ResidencyInv
  <2> SUFFICES ASSUME Init PROVE ResidencyInv
    OBVIOUS
  <2>1. mode \in EffectiveModes
    BY DEF Init, EffectiveMode, EffectiveModes
  <2>2. Ready(state) = {}
    BY DEF Init, Ready
  <2> QED
    BY <2>1, <2>2, ModelsAssumption, BoundAssumption
    DEF Init, ResidencyInv, TypeOK, CallShape,
       DisplacedShape, StateShape, AtMostOneReady, TruthfulStates, ServesReady,
       ModelState, Activating, Ready
<1>2. ResidencyInv /\ [Next]_vars => ResidencyInv'
  <2> SUFFICES ASSUME ResidencyInv, [Next]_vars PROVE ResidencyInv'
    OBVIOUS
  <2> USE ModelsAssumption, BoundAssumption
      DEF ResidencyInv, TypeOK, CallShape, DisplacedShape, StateShape, AtMostOneReady,
          TruthfulStates, ServesReady, ModelState, Activating, Ready
  <2>1. ASSUME NEW m \in Models, Prepare(m) PROVE ResidencyInv'
    BY <2>1 DEF Prepare
  <2>2. ASSUME NEW m \in Models, EnsureReady(m) PROVE ResidencyInv'
    BY <2>2 DEF EnsureReady
  <2>3. ASSUME NEW m \in Models, EnsureSwitch(m) PROVE ResidencyInv'
    BY <2>3 DEF EnsureSwitch, Active, BeginLoad, BeginOffload
  <2>4. CASE OffloadDone
    BY <2>4 DEF OffloadDone, BeginLoad, BeginOffload
  <2>5. CASE PrepareDone
    BY <2>5 DEF PrepareDone, Return
  <2>6. CASE MoveDone
    BY <2>6 DEF MoveDone
  <2>7. CASE WarmDone
    BY <2>7 DEF WarmDone, RestoreNext, Return, BeginLoad
  <2>8. CASE InferenceEnds
    BY <2>8 DEF InferenceEnds, Return
  <2>9. CASE OffloadFails
    BY <2>9 DEF OffloadFails, Return, OneFailure
  <2>10. CASE PrepareFails
    <3> USE DEF PrepareFails, OneFailure
    <3>1. /\ loaded' \in [Models -> BOOLEAN]
          /\ weights' \in [Models -> {"none", "cpu", "gpu"}]
          /\ \A m \in Models : loaded[m] => loaded'[m]
          /\ \A m \in Models \ {subject} : weights'[m] = weights[m]
      <4>1. CASE UNCHANGED <<loaded, weights>>
        BY <4>1
      <4>2. ASSUME NEW where \in {"cpu", "gpu"},
                   loaded' = [loaded EXCEPT ![subject] = TRUE],
                   weights' = [weights EXCEPT ![subject] = where]
            PROVE  /\ loaded' \in [Models -> BOOLEAN]
                   /\ weights' \in [Models -> {"none", "cpu", "gpu"}]
                   /\ \A m \in Models : loaded[m] => loaded'[m]
                   /\ \A m \in Models \ {subject} : weights'[m] = weights[m]
        <5>1. loaded' \in [Models -> BOOLEAN] /\ \A m \in Models : loaded[m] => loaded'[m]
          <6>1. loaded' \in [Models -> BOOLEAN]
            BY <2>10, <4>2
          <6>2. ASSUME NEW m \in Models, loaded[m] PROVE loaded'[m]
            <7>1. loaded \in [Models -> BOOLEAN] /\ subject \in Models
              BY <2>10
            <7>2. CASE m = subject
              BY <4>2, <7>1, <7>2, Zenon
            <7>3. CASE m # subject
              BY <4>2, <6>2, <7>1, <7>3, Zenon
            <7> QED BY <7>2, <7>3
          <6> QED BY <6>1, <6>2
        <5>2. weights' \in [Models -> {"none", "cpu", "gpu"}]
          BY <4>2
        <5>4. \A m \in Models \ {subject} : weights'[m] = weights[m]
          BY <4>2
        <5> QED BY <5>1, <5>2, <5>4
      <4> QED BY <2>10, <4>1, <4>2
    <3>2. subject \in Models /\ state[subject] = "unloaded"
      BY <2>10
    <3>3. CASE state' = state /\ Return
      BY <2>10, <3>1, <3>2, <3>3 DEF Return
    <3>4. ASSUME NEW m \in displaced, BeginLoad(m, "restore", state),
                 purpose # "prepare", UNCHANGED <<target, displaced>>,
                 pending' \subseteq displaced \ {m}, m # subject
          PROVE  ResidencyInv'
      <4>1. \A k \in displaced : k = m
        BY <3>4
      <4> QED BY <2>10, <3>1, <3>2, <3>4, <4>1 DEF BeginLoad
    <3> QED BY <2>10, <3>2, <3>3, <3>4 DEF LoadFails, RestoreNext
  <2>11. CASE MoveFails
    BY <2>11 DEF MoveFails, LoadFails, RestoreNext, Return, BeginLoad, OneFailure
  <2>12. CASE WarmFails
    BY <2>12 DEF WarmFails, LoadFails, RestoreNext, Return, BeginLoad, OneFailure
  <2>13. CASE UNCHANGED vars
    BY <2>13 DEF vars, callVars
  <2> QED
    BY <2>1, <2>2, <2>3, <2>4, <2>5, <2>6, <2>7, <2>8, <2>9, <2>10, <2>11, <2>12, <2>13
       DEF Next, Progress, Failure
<1> QED BY <1>1, <1>2, PTL DEF Spec

\* The coordinator keeps its types: every model has one of the states that the
\* engines know, and a call is where one of its awaits is.
THEOREM TypeCorrect == Spec => []TypeOK
<1>1. ResidencyInv => TypeOK
  BY DEF ResidencyInv
<1> QED BY <1>1, Invariance, PTL

\* Outside co-residency two models are never ready at once.
THEOREM OneReady == Spec => []AtMostOneReady
<1>1. ResidencyInv => AtMostOneReady
  BY DEF ResidencyInv
<1> QED BY <1>1, Invariance, PTL

\* The states the engines check before they run never lie about the device.
THEOREM Truthful == Spec => [](TruthfulStates /\ ServesReady)
<1>1. ResidencyInv => TruthfulStates /\ ServesReady
  BY DEF ResidencyInv
<1> QED BY <1>1, Invariance, PTL

\* A failed switch restores what it has displaced, or marks it as failed.
THEOREM Restores == Spec => FailedSwitchRestores
<1>1. ResidencyInv /\ [Next]_vars =>
        [pc \notin {"idle", "serve"} /\ pc' = "idle" =>
            \A m \in displaced : state'[m] \in {"gpu_ready", "failed"}]_vars
  <2> SUFFICES ASSUME ResidencyInv, Next, pc \notin {"idle", "serve"}, pc' = "idle",
                      NEW m \in displaced
               PROVE  state'[m] \in {"gpu_ready", "failed"}
    OBVIOUS
  <2> USE DEF ResidencyInv, TypeOK, CallShape, DisplacedShape, Activating, ModelState
  <2>1. ASSUME NEW k \in Models, Prepare(k) \/ EnsureReady(k) \/ EnsureSwitch(k)
        PROVE  FALSE
    BY <2>1 DEF Prepare, EnsureReady, EnsureSwitch
  <2>2. CASE OffloadDone \/ MoveDone \/ InferenceEnds
    BY <2>2 DEF OffloadDone, BeginLoad, BeginOffload, MoveDone, InferenceEnds
  <2>3. CASE OffloadFails
    BY <2>3 DEF OffloadFails, Return
  <2>4. CASE PrepareDone
    BY <2>4 DEF PrepareDone
  <2>5. CASE PrepareFails
    BY <2>5 DEF PrepareFails, LoadFails, RestoreNext, BeginLoad, StateShape
  <2>6. CASE MoveFails
    BY <2>6 DEF MoveFails, LoadFails, RestoreNext, BeginLoad
  <2>7. CASE WarmDone
    BY <2>7 DEF WarmDone, RestoreNext, BeginLoad
  <2>8. CASE WarmFails
    BY <2>8 DEF WarmFails, LoadFails, RestoreNext, BeginLoad
  <2> QED
    BY <2>1, <2>2, <2>3, <2>4, <2>5, <2>6, <2>7, <2>8 DEF Next, Progress, Failure
<1> QED BY <1>1, Invariance, PTL DEF Spec, FailedSwitchRestores

=============================================================================
