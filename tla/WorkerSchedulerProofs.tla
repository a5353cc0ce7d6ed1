------------------------ MODULE WorkerSchedulerProofs -----------------------
(***************************************************************************)
(* Proofs about WorkerScheduler for any thresholds, queue lengths and      *)
(* number of failures: overdue queues take turns.                          *)
(***************************************************************************)
EXTENDS WorkerScheduler, TLAPS

-----------------------------------------------------------------------------
(* The inductive invariant, in parts.                                      *)

\* What is being activated is one of the two models, and what is claimed for is
\* the one that is taken for resident, ...
CallShape ==
    /\ pc \in {"ensure", "claim", "execute"} => decision.target \in Kinds
    /\ pc \in {"claim", "execute"} => current = decision.target

\* ... and a queue that has been passed over still waits, while the other model
\* is resident or its own has just become so; if it was overdue when the policy
\* decided, the decision was for it.
TurnShape ==
    \A k \in Kinds :
        passed[k] >= 1 =>
            /\ waits[k] # <<>>
            /\ current = Alternative(k) \/ (pc = "claim" /\ decision.target = k)
            /\ k \in late /\ pc \in {"ensure", "claim"} => decision.target = k

IndInv ==
    /\ TypeOK
    /\ CallShape
    /\ TurnShape
    /\ BelievesRight
    /\ OverdueNotPassedTwice

-----------------------------------------------------------------------------

\* What the policy sees.
PolicyState(s) ==
    /\ s.current \in Kinds \cup {NoKind}
    /\ s.queues \in [Kinds -> [pending : Nat, oldest : Nat]]
    /\ {s.residency, s.sinceSwitch, s.epoch, s.cost} \subseteq Nat

\* A model with work is given up for an overdue queue, or when it has been
\* resident for long enough and has used up one of its budgets.
MayGiveUp(s, target) ==
    \/ s.queues[s.current].pending = 0
    \/ Overdue(s.queues[target])
    \/ /\ s.residency >= MinResidencySeconds
       /\ s.sinceSwitch >= SwitchCooldownSeconds
       /\ s.epoch >= EpochMaxSeconds \/ s.cost >= EpochMaxCost

WellJudged(s, d) ==
    /\ d \in Decisions
    /\ d.action = "idle" <=> \A k \in Kinds : s.queues[k].pending = 0
    /\ d.action # "idle" => d.target \in Kinds /\ s.queues[d.target].pending > 0
    /\ d.action = "stay" => d.target = s.current
    /\ d.action = "switch" => s.current = Alternative(d.target) /\ MayGiveUp(s, d.target)
    /\ \A k \in Kinds :
           s.current = Alternative(k) /\ Overdue(s.queues[k]) => d.target = k

\* decide idles only when both queues are empty, never asks for a model without
\* work, answers an overdue queue at once and otherwise gives up no model with work
\* before its time, for any thresholds and whatever is in the queues.
THEOREM Judgement == ASSUME NEW s, PolicyState(s) PROVE WellJudged(s, Decide(s))
<1> USE PolicyAssumption DEF Kinds, NoKind, PolicyState
<1> DEFINE q == s.queues
<1>1. \A k \in Kinds : q[k].pending \in Nat /\ q[k].oldest \in Nat
  OBVIOUS
<1>2. CASE s.current = NoKind
  <2>1. Decide(s) = DecideFirst(s)
    BY <1>2 DEF Decide
  <2>2. \A k \in Kinds : s.current # Alternative(k)
    BY <1>2 DEF Alternative
  <2>3. CASE \A k \in Kinds : q[k].pending = 0
    <3>1. Decide(s) = [action |-> "idle", target |-> NoKind, reason |-> "queues_empty"]
      BY <2>1, <2>3 DEF DecideFirst, InitialTarget, Decision
    <3>2. Decide(s) \in Decisions
      BY <3>1 DEF Decisions, Actions, Reasons
    <3> QED BY <2>2, <2>3, <3>1, <3>2 DEF WellJudged
  <2>4. CASE \E k \in Kinds : q[k].pending # 0
    <3> DEFINE t == InitialTarget(q)
    <3>1. t \in Kinds /\ q[t].pending > 0
      BY <1>1, <2>4 DEF InitialTarget
    <3>2. Decide(s) = [action |-> "load", target |-> t, reason |-> "work_available"]
      BY <2>1, <3>1 DEF DecideFirst, Decision
    <3> HIDE DEF t
    <3>3. Decide(s) \in Decisions
      BY <3>1, <3>2 DEF Decisions, Actions, Reasons
    <3> QED BY <2>2, <2>4, <3>1, <3>2, <3>3 DEF WellJudged
  <2> QED BY <2>3, <2>4
<1>3. CASE s.current \in Kinds
  <2> DEFINE other == Alternative(s.current)
  <2>1. /\ other \in Kinds /\ s.current = Alternative(other) /\ other # s.current
        /\ \A k \in Kinds : s.current = Alternative(k) => k = other
    BY <1>3 DEF Alternative
  <2> HIDE DEF other
  <2>2. ASSUME NEW r \in Reasons, ~Overdue(q[other]), q[s.current].pending # 0
        PROVE  WellJudged(s, Decision("stay", s.current, r))
    <3>1. Decision("stay", s.current, r) \in Decisions
      BY <1>3 DEF Decision, Decisions, Actions
    <3> QED BY <1>1, <1>3, <2>1, <2>2, <3>1 DEF WellJudged, Decision
  <2>3. ASSUME NEW r \in Reasons, q[other].pending # 0, MayGiveUp(s, other)
        PROVE  WellJudged(s, Decision("switch", other, r))
    <3>1. Decision("switch", other, r) \in Decisions
      BY <2>1 DEF Decision, Decisions, Actions
    <3> QED BY <1>1, <2>1, <2>3, <3>1 DEF WellJudged, Decision
  <2>4. CASE q[other].pending = 0 /\ q[s.current].pending = 0
    <3>1. Decide(s) = Decision("idle", s.current, "queues_empty")
      BY <1>3, <2>4 DEF Decide, DecideAlone, other
    <3>2. Decision("idle", s.current, "queues_empty") \in Decisions
      BY <1>3 DEF Decision, Decisions, Actions, Reasons
    <3>3. \A k \in Kinds : q[k].pending = 0
      BY <1>3, <2>1, <2>4
    <3>4. \A k \in Kinds : ~Overdue(q[k])
      BY <3>3 DEF Overdue
    <3> QED BY <3>1, <3>2, <3>3, <3>4 DEF WellJudged, Decision
  <2>5. CASE q[other].pending = 0 /\ q[s.current].pending # 0
    <3>1. Decide(s) = Decision("stay", s.current, "no_competing_work")
      BY <1>3, <2>5 DEF Decide, DecideAlone, other
    <3> QED BY <2>2, <2>5, <3>1 DEF Overdue, Reasons
  <2>6. CASE q[other].pending # 0 /\ q[s.current].pending = 0
    <3>1. Decide(s) = Decision("switch", other, "current_queue_empty")
      BY <1>3, <2>6 DEF Decide, other
    <3> QED BY <2>3, <2>6, <3>1 DEF MayGiveUp, Reasons
  <2>7. CASE q[other].pending # 0 /\ q[s.current].pending # 0 /\ Overdue(q[other])
    <3>1. Decide(s) = Decision("switch", other, "queue_deadline")
      BY <1>3, <2>7 DEF Decide, Overdue, other
    <3> QED BY <2>3, <2>7, <3>1 DEF MayGiveUp, Reasons
  <2>8. CASE q[other].pending # 0 /\ q[s.current].pending # 0 /\ ~Overdue(q[other])
    <3>1. Decide(s) = DecideEpoch(s)
      BY <1>1, <1>3, <2>1, <2>8 DEF Decide, Overdue, other
    <3>2. \/ \E r \in Reasons : DecideEpoch(s) = Decision("stay", s.current, r)
          \/ /\ MayGiveUp(s, other)
             /\ \E r \in Reasons : DecideEpoch(s) = Decision("switch", other, r)
      BY DEF DecideEpoch, MayGiveUp, Reasons, other
    <3> QED BY <2>2, <2>3, <2>8, <3>1, <3>2
  <2> QED BY <2>4, <2>5, <2>6, <2>7, <2>8
<1> QED BY <1>2, <1>3 DEF PolicyState

\* The invariant holds in every reachable state, because decide keeps to its
\* promises and run_once acts on them although its queues go on changing.
THEOREM Invariance == Spec => []IndInv
<1> USE PolicyAssumption, SchedulerAssumption
<1>1. ASSUME NEW a \in Nat, NEW b \in Nat
      PROVE  Min({a, b}) \in {a, b} /\ Min({a, b}) <= a /\ Min({a, b}) <= b
  <2>1. \E x \in {a, b} : \A y \in {a, b} : x <= y
    <3>1. CASE a <= b
      BY <3>1
    <3>2. CASE b <= a
      BY <3>2
    <3> QED BY <3>1, <3>2
  <2> QED BY <2>1 DEF Min
<1>2. Init => IndInv
  <2>1. NothingSeen \in [Kinds -> [pending : Nat, oldest : 0..TimeCap]]
    BY DEF NothingSeen
  <2>2. NoDecision \in Decisions
    BY DEF NoDecision, Decision, Decisions, Actions, Reasons
  <2> QED
    BY <2>1, <2>2 DEF Init, IndInv, TypeOK, CallShape, TurnShape, BelievesRight,
       OverdueNotPassedTwice, Kinds, NoKind
<1>3. IndInv /\ [Next]_vars => IndInv'
  <2> SUFFICES ASSUME IndInv, [Next]_vars PROVE IndInv'
    OBVIOUS
  <2>0. TypeOK /\ CallShape /\ TurnShape /\ BelievesRight /\ OverdueNotPassedTwice
    BY DEF IndInv
  <2>1. ASSUME NEW k \in Kinds
        PROVE  /\ waits[k] \in Seq(0..TimeCap) /\ passed[k] \in 0..2
               /\ QueueState(k) \in [pending : Nat, oldest : 0..TimeCap]
    <3>1. waits[k] \in Seq(0..TimeCap) /\ passed[k] \in 0..2
      BY <2>0 DEF TypeOK
    <3>2. waits[k] # <<>> => Head(waits[k]) \in 0..TimeCap
      BY <3>1
    <3> QED BY <3>1, <3>2 DEF QueueState
  <2>2. ASSUME Return PROVE TypeOK' <=> /\ waits' \in [Kinds -> Seq(0..TimeCap)]
                                        /\ passed' \in [Kinds -> 0..2]
                                        /\ ready' \subseteq Kinds
                                        /\ current' \in Kinds \cup {NoKind}
                                        /\ age' \in 0..TimeCap /\ cost' \in 0..EpochMaxCost
                                        /\ failures' \in 0..MaxFailures
    <3>1. NothingSeen \in [Kinds -> [pending : Nat, oldest : 0..TimeCap]]
      BY DEF NothingSeen
    <3>2. NoDecision \in Decisions
      BY DEF NoDecision, Decision, Decisions, Actions, Reasons
    <3> QED BY <2>2, <3>1, <3>2 DEF Return, TypeOK
  <2>3. CASE Tick
    <3>1. ASSUME NEW t \in 0..TimeCap PROVE Later(t) \in 0..TimeCap
      BY DEF Later
    <3>2. /\ waits' = [k \in Kinds |-> [i \in DOMAIN waits[k] |-> Later(waits[k][i])]]
          /\ UNCHANGED <<passed, ready, current, cost, pc, callVars, failures>>
          /\ age' \in 0..TimeCap /\ lag' \in 0..TimeCap
      BY <2>0, <2>3, <3>1 DEF Tick, TypeOK
    <3>3. ASSUME NEW k \in Kinds
          PROVE  waits'[k] \in Seq(0..TimeCap) /\ (waits[k] # <<>> => waits'[k] # <<>>)
      <4>1. /\ waits'[k] = [i \in 1..Len(waits[k]) |-> Later(waits[k][i])]
            /\ Len(waits[k]) \in Nat /\ \A i \in 1..Len(waits[k]) : waits[k][i] \in 0..TimeCap
        BY <2>1, <3>2
      <4>2. waits'[k] \in Seq(0..TimeCap) /\ Len(waits'[k]) = Len(waits[k])
        BY <3>1, <4>1
      <4> QED BY <2>1, <4>2
    <3>4. waits' \in [Kinds -> Seq(0..TimeCap)]
      BY <3>2, <3>3
    <3>5. TypeOK'
      BY <2>0, <3>2, <3>4 DEF TypeOK, callVars
    <3> QED
      BY <2>0, <3>2, <3>3, <3>5 DEF IndInv, CallShape, TurnShape, BelievesRight,
         OverdueNotPassedTwice, callVars
  <2>4. ASSUME NEW k \in Kinds, Submit(k) PROVE IndInv'
    <3>1. /\ waits' = [waits EXCEPT ![k] = Append(@, 0)]
          /\ UNCHANGED <<passed, modelVars, pc, lag, callVars, failures>>
      BY <2>4 DEF Submit
    <3>2. Append(waits[k], 0) \in Seq(0..TimeCap) /\ Append(waits[k], 0) # <<>>
      <4>1. ASSUME NEW q \in Seq(0..TimeCap)
            PROVE  Append(q, 0) \in Seq(0..TimeCap) /\ Append(q, 0) # <<>>
        <5>1. 0 \in 0..TimeCap
          OBVIOUS
        <5> HIDE SchedulerAssumption, PolicyAssumption
        <5> QED BY <5>1
      <4> QED BY <2>1, <4>1
    <3>3. waits' \in [Kinds -> Seq(0..TimeCap)]
      BY <2>0, <3>1, <3>2 DEF TypeOK
    <3>4. \A j \in Kinds : waits[j] # <<>> => waits'[j] # <<>>
      BY <2>0, <3>1, <3>2 DEF TypeOK
    <3>5. TypeOK'
      BY <2>0, <3>1, <3>3 DEF TypeOK, modelVars, callVars
    <3> QED
      BY <2>0, <3>1, <3>4, <3>5 DEF IndInv, CallShape, TurnShape, BelievesRight,
         OverdueNotPassedTwice, modelVars, callVars
  <2>5. ASSUME NEW k \in Kinds, OtherClaims(k) PROVE IndInv'
    <3>1. /\ waits' = [waits EXCEPT ![k] = Tail(@)] /\ waits[k] # <<>>
          /\ passed' = [passed EXCEPT ![k] = 0]
          /\ UNCHANGED <<modelVars, pc, lag, callVars, failures>>
      BY <2>5 DEF OtherClaims
    <3>2. Tail(waits[k]) \in Seq(0..TimeCap)
      <4>1. ASSUME NEW q \in Seq(0..TimeCap), q # <<>> PROVE Tail(q) \in Seq(0..TimeCap)
        BY <4>1
      <4> QED BY <2>1, <3>1, <4>1
    <3>3. waits' \in [Kinds -> Seq(0..TimeCap)] /\ passed' \in [Kinds -> 0..2]
      BY <2>0, <3>1, <3>2 DEF TypeOK
    <3>4. \A j \in Kinds : \/ passed'[j] = 0
                           \/ passed'[j] = passed[j] /\ waits'[j] = waits[j]
      BY <2>0, <3>1 DEF TypeOK
    <3>5. TypeOK'
      BY <2>0, <3>1, <3>3 DEF TypeOK, modelVars, callVars
    <3>6. UNCHANGED <<current, pc, decision, late>>
      BY <3>1 DEF modelVars, callVars
    <3>7. ASSUME NEW j \in Kinds, passed'[j] >= 1
          PROVE  passed'[j] = passed[j] /\ waits'[j] = waits[j] /\ passed[j] >= 1
      BY <3>4, <3>7
    <3>8. TurnShape'
      BY <2>0, <3>6, <3>7 DEF TurnShape
    <3>9. OverdueNotPassedTwice'
      BY <2>0, <3>4 DEF OverdueNotPassedTwice
    <3> QED
      BY <2>0, <3>1, <3>5, <3>8, <3>9 DEF IndInv, CallShape, BelievesRight, modelVars, callVars
  <2>6. CASE Begin
    <3>1. TypeOK'
      BY <2>0, <2>6 DEF Begin, TypeOK, brokerVars, modelVars
    <3> QED
      BY <2>0, <2>6, <3>1 DEF Begin, IndInv, CallShape, TurnShape, BelievesRight,
         OverdueNotPassedTwice, brokerVars, modelVars
  <2>7. CASE SeeEmbedding
    <3>1. TypeOK'
      BY <2>0, <2>1, <2>7 DEF SeeEmbedding, TypeOK, brokerVars, modelVars, Kinds
    <3> QED
      BY <2>0, <2>7, <3>1 DEF SeeEmbedding, IndInv, CallShape, TurnShape, BelievesRight,
         OverdueNotPassedTwice, brokerVars, modelVars
  <2>8. CASE SeeRerankingAndDecide
    <3> DEFINE s == SchedulerState
               decided == Decide(s)
    <3>1. /\ UNCHANGED <<brokerVars, modelVars, failures>> /\ pc = "reranking"
          /\ IF decided.action = "idle" THEN Return ELSE Adopt(decided)
      BY <2>8 DEF SeeRerankingAndDecide
    <3>2. /\ s.current = current
          /\ s.queues = [seen EXCEPT !["reranking"] = QueueState("reranking")]
          /\ s.residency = aged /\ s.sinceSwitch = aged /\ s.epoch = aged /\ s.cost = cost
      BY DEF SchedulerState
    <3> HIDE DEF s
    <3>3. WellJudged(s, decided)
      <4>1. s.queues \in [Kinds -> [pending : Nat, oldest : 0..TimeCap]]
        BY <2>0, <2>1, <3>2 DEF TypeOK, Kinds
      <4>2. PolicyState(s)
        BY <2>0, <3>2, <4>1 DEF TypeOK, PolicyState
      <4> QED BY <4>2, Judgement
    <3>4. /\ decided \in Decisions
          /\ decided.action # "idle" => decided.target \in Kinds
          /\ decided.action = "stay" => decided.target = current
          /\ \A k \in Kinds : current = Alternative(k) /\ Overdue(s.queues[k]) =>
                 decided.target = k
      BY <3>2, <3>3 DEF WellJudged
    <3> HIDE DEF decided
    <3>5. CASE Return
      BY <2>0, <2>2, <3>1, <3>5 DEF Return, IndInv, TypeOK, CallShape, TurnShape,
         BelievesRight, OverdueNotPassedTwice, brokerVars, modelVars
    <3>6. CASE Adopt(decided) /\ decided.action # "idle"
      <4>1. /\ decision' = decided /\ late' = {k \in Kinds : Overdue(s.queues[k])}
            /\ seen' = NothingSeen /\ aged' = 0 /\ UNCHANGED <<lag, batch>>
            /\ pc' = IF decided.action = "stay" THEN "claim" ELSE "ensure"
        BY <3>6 DEF Adopt, s
      <4>2. NothingSeen \in [Kinds -> [pending : Nat, oldest : 0..TimeCap]]
        BY DEF NothingSeen
      <4>3. TypeOK'
        BY <2>0, <3>1, <3>4, <4>1, <4>2 DEF TypeOK, brokerVars, modelVars
      <4>4. CallShape'
        BY <3>1, <3>4, <3>6, <4>1 DEF CallShape, modelVars
      <4>5. TurnShape'
        BY <2>0, <3>1, <3>4, <4>1 DEF TurnShape, brokerVars, modelVars
      <4> QED
        BY <2>0, <3>1, <4>3, <4>4, <4>5 DEF IndInv, BelievesRight, OverdueNotPassedTwice,
           brokerVars, modelVars
    <3> QED BY <3>1, <3>5, <3>6
  <2>9. CASE EnsureDone
    <3>1. /\ UNCHANGED <<brokerVars, lag, callVars, failures>> /\ pc = "ensure"
          /\ ready' = {decision.target} \cup (IF Swapping THEN {} ELSE ready)
          /\ current' = decision.target /\ age' = lag /\ cost' = 0 /\ pc' = "claim"
      BY <2>9 DEF EnsureDone
    <3>2. decision.target \in Kinds
      BY <2>0, <3>1 DEF CallShape
    <3>3. TypeOK'
      BY <2>0, <3>1, <3>2 DEF TypeOK, brokerVars, callVars
    <3>4. CallShape' /\ BelievesRight'
      BY <3>1, <3>2 DEF CallShape, BelievesRight, callVars
    <3>5. \A k \in Kinds : k = decision.target \/ Alternative(k) = decision.target
      BY <3>2 DEF Alternative, Kinds
    <3>6. TurnShape' /\ OverdueNotPassedTwice'
      BY <2>0, <3>1, <3>5 DEF TurnShape, OverdueNotPassedTwice, brokerVars, callVars
    <3> QED BY <3>3, <3>4, <3>6 DEF IndInv
  <2>10. CASE EnsureFails
    <3>1. /\ UNCHANGED <<brokerVars, current, age, cost>> /\ pc = "ensure"
          /\ ready' \subseteq ready /\ OneFailure /\ Return
      BY <2>10 DEF EnsureFails
    <3>2. failures' \in 0..MaxFailures
      BY <2>0, <3>1 DEF OneFailure, TypeOK
    <3>3. TypeOK'
      BY <2>0, <2>2, <3>1, <3>2 DEF TypeOK, brokerVars
    <3> QED
      BY <2>0, <3>1, <3>3 DEF Return, IndInv, CallShape, TurnShape, BelievesRight,
         OverdueNotPassedTwice, brokerVars
  <2>11. CASE ClaimNothing
    <3>1. /\ UNCHANGED <<brokerVars, modelVars, failures>> /\ pc = "claim"
          /\ waits[decision.target] = <<>> /\ Return
      BY <2>11 DEF ClaimNothing
    <3>2. TypeOK'
      BY <2>0, <2>2, <3>1 DEF TypeOK, brokerVars, modelVars
    <3> QED
      BY <2>0, <3>1, <3>2 DEF Return, IndInv, CallShape, TurnShape, BelievesRight,
         OverdueNotPassedTwice, brokerVars, modelVars
  <2>12. CASE Claim
    <3> DEFINE t == decision.target
    <3>1. /\ UNCHANGED <<modelVars, lag, aged, seen, decision, late, failures>>
          /\ pc = "claim" /\ pc' = "execute"
          /\ passed' = [k \in Kinds |->
                           IF k = t \/ waits[k] = <<>> THEN 0
                           ELSE IF k \in late THEN Min({2, passed[k] + 1})
                           ELSE passed[k]]
      BY <2>12 DEF Claim
    <3>2. PICK n \in 1..Min({BatchMaxCost, Len(waits[t])}) :
              /\ batch' = n
              /\ waits' = [waits EXCEPT ![t] = SubSeq(@, n + 1, Len(@))]
      BY <2>12 DEF Claim
    <3>3. t \in Kinds /\ current = t
      BY <2>0, <3>1 DEF CallShape
    <3> HIDE DEF t
    <3>4. batch' \in 0..BatchMaxCost /\ SubSeq(waits[t], n + 1, Len(waits[t])) \in Seq(0..TimeCap)
      <4>1. Len(waits[t]) \in Nat /\ BatchMaxCost \in Nat
        BY <2>1, <3>3
      <4>2. Min({BatchMaxCost, Len(waits[t])}) \in Nat
            /\ Min({BatchMaxCost, Len(waits[t])}) <= BatchMaxCost
        BY <1>1, <4>1
      <4>3. n \in Nat /\ n <= BatchMaxCost
        BY <4>1, <4>2
      <4>4. SubSeq(waits[t], n + 1, Len(waits[t])) \in Seq(0..TimeCap)
        BY <2>1, <3>3, <4>3
      <4> QED BY <3>2, <4>3, <4>4
    <3>5. waits' \in [Kinds -> Seq(0..TimeCap)] /\ \A k \in Kinds \ {t} : waits'[k] = waits[k]
      BY <2>0, <3>2, <3>3, <3>4 DEF TypeOK
    <3>6. ASSUME NEW k \in Kinds
          PROVE  /\ passed'[k] \in 0..1
                 /\ passed'[k] >= 1 => k # t /\ waits[k] # <<>>
      <4>1. CASE k = t \/ waits[k] = <<>>
        BY <3>1, <4>1
      <4>2. CASE k # t /\ waits[k] # <<>> /\ k \in late
        <5>1. ~(passed[k] >= 1)
          BY <2>0, <3>1, <4>2 DEF TurnShape, t
        <5>2. passed[k] \in 0..2
          BY <2>1
        <5>3. passed[k] = 0
          BY <5>1, <5>2
        <5>4. Min({2, 0 + 1}) \in {2, 1} /\ Min({2, 0 + 1}) <= 1
          BY <1>1
        <5>5. passed'[k] = Min({2, 0 + 1})
          BY <3>1, <4>2, <5>3
        <5> QED BY <4>2, <5>4, <5>5
      <4>3. CASE k # t /\ waits[k] # <<>> /\ k \notin late
        BY <2>0, <2>1, <3>1, <4>3 DEF OverdueNotPassedTwice
      <4> QED BY <4>1, <4>2, <4>3
    <3>7. passed' \in [Kinds -> 0..2]
      <4>1. passed' = [k \in Kinds |-> passed'[k]]
        BY <3>1
      <4>2. \A k \in Kinds : passed'[k] \in 0..2
        BY <3>6
      <4> HIDE SchedulerAssumption, PolicyAssumption
      <4> QED BY <4>1, <4>2
    <3>8. TypeOK'
      BY <2>0, <3>1, <3>4, <3>5, <3>7 DEF TypeOK, modelVars
    <3>9. CallShape' /\ BelievesRight'
      BY <2>0, <3>1, <3>3 DEF CallShape, BelievesRight, modelVars, t
    <3>10. \A k \in Kinds \ {t} : t = Alternative(k)
      BY <3>3 DEF Alternative, Kinds
    <3>11. TurnShape'
      <4>1. current' = t /\ pc' = "execute"
        BY <3>1, <3>3 DEF modelVars
      <4>2. ASSUME NEW k \in Kinds, passed'[k] >= 1
            PROVE  waits'[k] # <<>> /\ current' = Alternative(k)
        BY <3>5, <3>6, <3>10, <4>1, <4>2
      <4> QED BY <4>1, <4>2 DEF TurnShape
    <3>12. OverdueNotPassedTwice'
      BY <3>6 DEF OverdueNotPassedTwice
    <3> QED BY <3>8, <3>9, <3>11, <3>12 DEF IndInv
  <2>13. CASE ExecuteDone
    <3>1. /\ UNCHANGED <<brokerVars, ready, current, age, failures>> /\ pc = "execute"
          /\ cost' = Min({EpochMaxCost, cost + batch}) /\ Return
      BY <2>13 DEF ExecuteDone
    <3>2. EpochMaxCost \in Nat /\ cost + batch \in Nat
      BY <2>0 DEF TypeOK
    <3>3. cost' \in 0..EpochMaxCost
      BY <1>1, <3>1, <3>2
    <3>4. TypeOK'
      BY <2>0, <2>2, <3>1, <3>3 DEF TypeOK, brokerVars
    <3> QED
      BY <2>0, <3>1, <3>4 DEF Return, IndInv, CallShape, TurnShape, BelievesRight,
         OverdueNotPassedTwice, brokerVars
  <2>14. CASE ExecuteFails
    <3>1. /\ UNCHANGED <<brokerVars, modelVars>> /\ pc = "execute" /\ Return
          /\ failures' = failures \/ OneFailure
      BY <2>14 DEF ExecuteFails
    <3>2. failures' \in 0..MaxFailures
      BY <2>0, <3>1 DEF OneFailure, TypeOK
    <3>3. TypeOK'
      BY <2>0, <2>2, <3>1, <3>2 DEF TypeOK, brokerVars, modelVars
    <3> QED
      BY <2>0, <3>1, <3>3 DEF Return, IndInv, CallShape, TurnShape, BelievesRight,
         OverdueNotPassedTwice, brokerVars, modelVars
  <2>15. CASE UNCHANGED vars
    BY <2>0, <2>15 DEF vars, brokerVars, modelVars, callVars, IndInv, TypeOK, CallShape,
       TurnShape, BelievesRight, OverdueNotPassedTwice
  <2> QED
    BY <2>3, <2>4, <2>5, <2>6, <2>7, <2>8, <2>9, <2>10, <2>11, <2>12, <2>13, <2>14, <2>15
       DEF Next, CallStep
<1> QED BY <1>2, <1>3, PTL DEF Spec

\* run_once never leaves its types: ages, costs and counters stay within their
\* bounds, and a decision is one that the policy can take.
THEOREM TypeCorrect == Spec => []TypeOK
<1>1. IndInv => TypeOK
  BY DEF IndInv
<1> QED BY <1>1, Invariance, PTL

\* _current is never wrong about which model swapping has made ready, whatever
\* activation has failed.
THEOREM Believes == Spec => []BelievesRight
<1>1. IndInv => BelievesRight
  BY DEF IndInv
<1> QED BY <1>1, Invariance, PTL

\* decide and run_once let overdue queues take turns, whatever the thresholds.
THEOREM Turns == Spec => []OverdueNotPassedTwice
<1>1. IndInv => OverdueNotPassedTwice
  BY DEF IndInv
<1> QED BY <1>1, Invariance, PTL

=============================================================================
