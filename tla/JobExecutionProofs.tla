------------------------- MODULE JobExecutionProofs -------------------------
(***************************************************************************)
(* Proofs about JobExecution for any videos, payloads and batch limits and *)
(* any number of jobs and crashes.                                         *)
(***************************************************************************)
EXTENDS JobExecution, FiniteSetTheorems, TLAPS

-----------------------------------------------------------------------------
(* The inductive invariant, in parts.                                      *)

\* What a client sees of the job goes with where it is, ...
StageShape ==
    /\ pc = "new" => stage = "queued" /\ progress = 0
    /\ pc \in {"resolve", "cut"} => stage = "resolving_media" /\ progress \in 0..20
    /\ pc = "infer" =>
           /\ stage = job.kind
           /\ progress = IF job.kind = "reranking" THEN 55
                         ELSE IF inputs = <<>> THEN 45
                         ELSE 45 + (35 * Len(vectors)) \div Len(inputs)
    /\ pc \in Done => stage = pc

\* ... resolving stands at an item of the request, within a video only if that
\* is being segmented, ...
ResolveShape ==
    /\ index >= 1
    /\ pc = "new" => index = 1 /\ start = 0 /\ inputs = <<>> /\ query = <<>>
    /\ pc \in {"new", "resolve", "cut"} => position = 1 /\ vectors = <<>>
    /\ start > 0 => index <= Len(Order) /\ Segmenting
    /\ pc = "cut" =>
           /\ index <= Len(Order)
           /\ \/ Segmenting /\ ~AtEnd
              \/ item.type = "video_segment" /\ item.from < item.to
           /\ Clip \notin expired
    /\ pc = "infer" => index > Len(Order)
    /\ job.kind = "embedding" =>
           \A n \in DOMAIN inputs : inputs[n].item \in DOMAIN job.input

\* ... the videos before it are covered and this one is up to where it stands, ...
Covered(i, t) == \E c \in ClipsOf(i) : c.from <= t /\ t + 1 <= c.to

CoverShape ==
    job.kind = "embedding" =>
        \A i \in DOMAIN job.input :
            /\ ToBeSegmented(job.input[i])
            /\ job.input[i].chunk >= MIN_TAIL_SEGMENT_SECONDS
            => /\ i < index =>
                      \A t \in 0..(Duration[job.input[i].media] - MIN_TAIL_SEGMENT_SECONDS) :
                          Covered(i, t)
               /\ i = index =>
                      \A t \in 0..(start - 1) :
                          t < Duration[job.input[i].media] => Covered(i, t)

\* ... and the vectors are those of the inputs before the next batch.
VectorShape ==
    /\ position >= 1
    /\ Len(vectors) = IF position <= Len(inputs) THEN position - 1 ELSE Len(inputs)
    /\ \A n \in DOMAIN vectors : vectors[n] = n

IndInv ==
    /\ TypeOK
    /\ StageShape
    /\ ResolveShape
    /\ CoverShape
    /\ VectorShape
    /\ NoTinyTail
    /\ ResultsMatchInputs

-----------------------------------------------------------------------------

\* What is resolved is an item of the request, with a known video if it is to be
\* cut.
LEMMA ItemFacts ==
    ASSUME TypeOK
    PROVE  /\ job.kind \in {"embedding", "reranking"} /\ job.top_k \in Nat \ {0}
           /\ job.input \in Seq(Items) /\ Order \in Seq(Items)
           /\ \A i \in DOMAIN Order :
                  /\ Order[i] \in Items
                  /\ Order[i].type = "video_segment" \/ ToBeSegmented(Order[i]) =>
                         Order[i].media \in DOMAIN Duration
           /\ job.kind = "embedding" =>
                  /\ Len(job.input) <= Len(Order)
                  /\ \A i \in DOMAIN job.input : Order[i] = job.input[i]
<1>1. IsPayload(job)
  BY ExecutionAssumption DEF TypeOK
<1> DEFINE known(i) == i.type = "video_segment" \/ ToBeSegmented(i) => i.media \in DOMAIN Duration
           ip == job.input
           qu == job.query
<1>2. ip \in Seq(Items) /\ qu \in Seq(Items) /\ \A x \in ToSet(ip \o qu) : known(x)
  BY <1>1 DEF IsPayload
<1> HIDE DEF known, ip, qu
<1>3. \A i \in DOMAIN ip : known(ip[i])
  <2> SUFFICES ASSUME NEW i \in DOMAIN ip PROVE known(ip[i])
    OBVIOUS
  <2>1. i \in DOMAIN (ip \o qu) /\ (ip \o qu)[i] = ip[i]
    BY <1>2
  <2> QED BY <1>2, <2>1 DEF ToSet
<1>4. \A i \in DOMAIN qu : known(qu[i])
  <2> SUFFICES ASSUME NEW i \in DOMAIN qu PROVE known(qu[i])
    OBVIOUS
  <2>1. Len(ip) + i \in DOMAIN (ip \o qu) /\ (ip \o qu)[Len(ip) + i] = qu[i]
    BY <1>2
  <2> QED BY <1>2, <2>1 DEF ToSet
<1>5. ASSUME NEW p \in Seq(Items), NEW q \in Seq(Items),
             \A i \in DOMAIN p : known(p[i]), \A i \in DOMAIN q : known(q[i])
      PROVE  /\ p \o q \in Seq(Items) /\ Len(p) <= Len(p \o q)
             /\ \A i \in DOMAIN (p \o q) : (p \o q)[i] \in Items /\ known((p \o q)[i])
             /\ \A i \in DOMAIN p : (p \o q)[i] = p[i]
  <2>1. /\ p \o q \in Seq(Items) /\ Len(p) <= Len(p \o q)
        /\ \A i \in DOMAIN p : (p \o q)[i] = p[i]
    OBVIOUS
  <2>2. ASSUME NEW i \in DOMAIN (p \o q)
        PROVE  (p \o q)[i] \in Items /\ known((p \o q)[i])
    <3>1. CASE i \in DOMAIN p
      BY <1>5, <2>1, <3>1
    <3>2. CASE i \notin DOMAIN p
      <4>1. i - Len(p) \in DOMAIN q /\ (p \o q)[i] = q[i - Len(p)]
        BY <3>2
      <4> QED BY <1>5, <4>1
    <3> QED BY <3>1, <3>2
  <2> QED BY <2>1, <2>2
<1>6. Order = IF job.kind = "embedding" THEN ip \o qu ELSE qu \o ip
  BY DEF Order, ip, qu
<1>7. /\ ip \o qu \in Seq(Items) /\ Len(ip) <= Len(ip \o qu)
      /\ \A i \in DOMAIN (ip \o qu) : (ip \o qu)[i] \in Items /\ known((ip \o qu)[i])
      /\ \A i \in DOMAIN ip : (ip \o qu)[i] = ip[i]
  BY <1>2, <1>3, <1>4, <1>5
<1>8. /\ qu \o ip \in Seq(Items)
      /\ \A i \in DOMAIN (qu \o ip) : (qu \o ip)[i] \in Items /\ known((qu \o ip)[i])
  BY <1>2, <1>3, <1>4, <1>5
<1> QED BY <1>1, <1>2, <1>6, <1>7, <1>8 DEF known, IsPayload, ip, qu

\* A clip that is due is one of a known video; segmentation gets on with it.
LEMMA DueFacts ==
    ASSUME IndInv, ClipDue \/ pc = "cut"
    PROVE  /\ index \in DOMAIN Order /\ item \in Items /\ Clip \in Clips
           /\ Segmented =>
                  /\ Segmenting /\ ~AtEnd /\ SegmentEnd \in Nat /\ index \in DOMAIN job.input
                  /\ item.chunk - item.overlap \in Nat \ {0}
                  /\ Duration[item.media] \in Nat
           /\ ~Segmented => item.type = "video_segment"
<1>1. /\ index <= Len(Order)
      /\ \/ Segmenting /\ ~AtEnd
         \/ item.type = "video_segment" /\ item.from < item.to
  BY DEF ClipDue, Resolving, IndInv, ResolveShape
<1>2. TypeOK /\ index \in Nat \ {0} /\ start \in Nat
  BY DEF IndInv, TypeOK, ResolveShape
<1>3. index \in DOMAIN Order /\ item \in Items
  BY <1>1, <1>2, ItemFacts DEF item
<1>4. CASE Segmented
  <2>1. Segmenting /\ ~AtEnd
    BY <1>1, <1>4 DEF Segmented, ToBeSegmented
  <2>2. index \in DOMAIN job.input
    BY <1>2, <1>4, ItemFacts DEF Segmented, IsQuery
  <2>3. item.media \in DOMAIN Duration
    BY <1>3, <1>4, <1>2, ItemFacts DEF Segmented, item
  <2>4. Duration[item.media] \in Nat
    BY <2>1, <2>3, ExecutionAssumption DEF Segmenting
  <2>5. /\ item.chunk \in Nat /\ item.overlap \in Nat /\ item.overlap < item.chunk
    BY <1>3, <2>1 DEF Items, Segmenting
  <2>6. SegmentEnd \in Nat
    BY <1>2, <2>4, <2>5 DEF SegmentEnd
  <2>7. Clip \in Clips
    BY <1>2, <1>4, <2>3, <2>6 DEF Clip, Clips
  <2> QED BY <1>3, <1>4, <2>1, <2>2, <2>4, <2>5, <2>6, <2>7
<1>5. CASE ~Segmented
  <2>1. item.type = "video_segment"
    BY <1>1, <1>5 DEF Segmenting
  <2>2. item.media \in DOMAIN Duration
    BY <1>2, <1>3, <2>1, ItemFacts DEF item
  <2>3. Clip \in Clips
    BY <1>3, <1>5, <2>2 DEF Clip, Clips, Items
  <2> QED BY <1>3, <1>5, <2>1, <2>3
<1> QED BY <1>4, <1>5

\* One more input adds its clip to those of its item and takes none away.
LEMMA ClipsGrow ==
    ASSUME inputs \in Seq(Inputs), NEW x \in Inputs, NEW i,
           inputs' = inputs \/ inputs' = Append(inputs, x)
    PROVE  /\ ClipsOf(i) \subseteq ClipsOf(i)'
           /\ inputs' = Append(inputs, x) /\ x.item = i => x.clip \in ClipsOf(i)'
<1>1. CASE inputs' = inputs
  <2>1. Append(inputs, x) # inputs
    BY DEF Inputs
  <2> QED BY <1>1, <2>1 DEF ClipsOf
<1>2. CASE inputs' = Append(inputs, x)
  <2>1. /\ DOMAIN inputs' = 1..(Len(inputs) + 1) /\ DOMAIN inputs = 1..Len(inputs)
        /\ \A n \in DOMAIN inputs : inputs'[n] = inputs[n]
        /\ inputs'[Len(inputs) + 1] = x /\ Len(inputs) \in Nat
    BY <1>2
  <2>2. ClipsOf(i) \subseteq ClipsOf(i)'
    BY <2>1 DEF ClipsOf
  <2>3. x.item = i => x.clip \in ClipsOf(i)'
    BY <2>1 DEF ClipsOf
  <2> QED BY <2>2, <2>3
<1> QED BY <1>1, <1>2

\* Resolving goes on past a clip with its place, the cover and the tails in order.
LEMMA AdvanceShape ==
    ASSUME IndInv, ClipDue \/ pc = "cut", Advance
    PROVE  /\ inputs' \in Seq(Inputs) /\ query' \in Seq(Inputs)
           /\ index' \in Nat \ {0} /\ start' \in Nat /\ Order' = Order
           /\ start' > 0 => index' <= Len(Order) /\ Segmenting'
           /\ job.kind = "embedding" =>
                  \A n \in DOMAIN inputs' : inputs'[n].item \in DOMAIN job.input
           /\ NoTinyTail' /\ CoverShape'
<1> DEFINE input == [type |-> IF item.type = "video_segment" THEN "video" ELSE item.type,
                     item |-> index, clip |-> Clip]
<1>1. /\ inputs \in Seq(Inputs) /\ query \in Seq(Inputs) /\ index \in Nat \ {0}
      /\ start \in Nat /\ job \in Payloads /\ TypeOK
  BY DEF IndInv, TypeOK, ResolveShape
<1>2. job' = job /\ Order' = Order
  BY DEF Advance, Order
<1>3. input \in Inputs /\ input.item = index /\ input.clip = Clip
  <2>1. item.type \in InputKinds \cup {"video_segment"} /\ Clip \in Clips
    BY DueFacts DEF Items
  <2> QED BY <1>1, <2>1 DEF Inputs, InputKinds
<1>4. IF IsQuery THEN query' = Append(query, input) /\ inputs' = inputs
      ELSE inputs' = Append(inputs, input) /\ query' = query
  BY DEF Advance, Add
<1> HIDE DEF input
<1>5. inputs' \in Seq(Inputs) /\ query' \in Seq(Inputs)
  <2>1. Append(inputs, input) \in Seq(Inputs) /\ Append(query, input) \in Seq(Inputs)
    BY <1>1, <1>3
  <2> QED BY <1>1, <1>4, <2>1
<1>6. /\ job.kind = "embedding" /\ ~IsQuery => index \in DOMAIN job.input
      /\ index \in DOMAIN job.input /\ job.kind = "embedding" => item = job.input[index]
  BY <1>1, DueFacts, ItemFacts DEF IsQuery, item
<1>7. job.kind = "embedding" =>
          \A n \in DOMAIN inputs' : inputs'[n].item \in DOMAIN job.input
  <2> SUFFICES ASSUME job.kind = "embedding", NEW n \in DOMAIN inputs'
               PROVE  inputs'[n].item \in DOMAIN job.input
    OBVIOUS
  <2>1. CASE n \in DOMAIN inputs
    BY <1>1, <1>3, <1>4, <2>1 DEF IndInv, ResolveShape
  <2>2. CASE n \notin DOMAIN inputs
    BY <1>1, <1>3, <1>4, <1>6, <2>2
  <2> QED BY <2>1, <2>2
<1>8. /\ Segmented => start' = start + (item.chunk - item.overlap) /\ index' = index
      /\ ~Segmented => start' = start /\ index' = index + 1
  BY DEF Advance
<1>9. ~Segmented => start = 0
  BY <1>1 DEF IndInv, ResolveShape, Segmenting
<1>10. index' \in Nat \ {0} /\ start' \in Nat
  BY <1>1, <1>8, DueFacts
<1>11. start' > 0 => index' <= Len(Order) /\ Segmenting'
  <2> SUFFICES ASSUME start' > 0 PROVE index' <= Len(Order) /\ Segmenting'
    OBVIOUS
  <2>1. Segmented /\ index' = index
    BY <1>8, <1>9
  <2>2. Segmenting /\ index \in DOMAIN Order /\ Order \in Seq(Items)
    BY <1>1, <2>1, DueFacts, ItemFacts
  <2> QED BY <1>2, <2>1, <2>2 DEF Segmenting, Segmented, IsQuery, item
<1>12. NoTinyTail'
  <2> SUFFICES ASSUME job.kind = "embedding", NEW n \in DOMAIN inputs',
                      ToBeSegmented(job.input[inputs'[n].item]), inputs'[n].clip.from > 0
               PROVE  inputs'[n].clip.to - inputs'[n].clip.from >= MIN_TAIL_SEGMENT_SECONDS
    BY <1>2 DEF NoTinyTail, ToBeSegmented
  <2>1. CASE n \in DOMAIN inputs
    <3>1. inputs'[n] = inputs[n]
      BY <1>1, <1>3, <1>4, <2>1
    <3> QED BY <2>1, <3>1 DEF IndInv, NoTinyTail
  <2>2. CASE n \notin DOMAIN inputs
    <3>1. inputs'[n] = input /\ ~IsQuery
      BY <1>1, <1>3, <1>4, <2>2
    <3>2. Segmented
      BY <1>3, <1>6, <3>1 DEF Segmented
    <3>3. Clip.from = start /\ Clip.to = SegmentEnd /\ ~AtEnd /\ SegmentEnd \in Nat
      BY <3>2, DueFacts DEF Clip
    <3> QED BY <1>1, <1>3, <3>1, <3>3 DEF AtEnd, MIN_TAIL_SEGMENT_SECONDS
  <2> QED BY <2>1, <2>2
<1>13. CoverShape'
  <2> SUFFICES ASSUME job.kind = "embedding", NEW i \in DOMAIN job.input,
                      ToBeSegmented(job.input[i]),
                      job.input[i].chunk >= MIN_TAIL_SEGMENT_SECONDS
               PROVE  /\ i < index' =>
                             \A t \in 0..(Duration[job.input[i].media] - MIN_TAIL_SEGMENT_SECONDS) :
                                 Covered(i, t)'
                      /\ i = index' =>
                             \A t \in 0..(start' - 1) :
                                 t < Duration[job.input[i].media] => Covered(i, t)'
    BY <1>2 DEF CoverShape, ToBeSegmented
  <2>1. \A t : Covered(i, t) => Covered(i, t)'
    BY <1>1, <1>3, <1>4, ClipsGrow DEF Covered
  <2>2. /\ i < index =>
               \A t \in 0..(Duration[job.input[i].media] - MIN_TAIL_SEGMENT_SECONDS) :
                   Covered(i, t)
        /\ i = index =>
               \A t \in 0..(start - 1) :
                   t < Duration[job.input[i].media] => Covered(i, t)
    BY DEF IndInv, CoverShape
  <2>3. i \in Nat
    BY <1>1, ItemFacts
  <2>4. CASE Segmented
    <3> SUFFICES ASSUME i = index, NEW t \in 0..(start' - 1), t >= start,
                        t < Duration[job.input[i].media]
                 PROVE  Covered(i, t)'
      BY <1>1, <1>8, <2>1, <2>2, <2>4
    <3>1. item = job.input[i] /\ ~IsQuery
      BY <1>6, <2>4 DEF Segmented
    <3>2. Clip \in ClipsOf(i)'
      BY <1>1, <1>3, <1>4, <3>1, ClipsGrow
    <3>3. Clip.from = start /\ Clip.to = SegmentEnd
      BY <2>4 DEF Clip
    <3>4. item.chunk \in Nat /\ item.overlap \in Nat /\ Duration[item.media] \in Nat
      BY <2>4, DueFacts DEF Items
    <3>5. t + 1 <= SegmentEnd
      <4> DEFINE chunk == item.chunk
                 all == Duration[item.media]
                 next == start'
      <4>1. next = start + (chunk - item.overlap) /\ start \in Nat /\ t \in 0..(next - 1)
        BY <1>1, <1>8, <2>4
      <4>2. chunk \in Nat /\ item.overlap \in Nat /\ all \in Nat /\ t < all
        BY <3>1, <3>4
      <4>3. SegmentEnd = IF start + chunk < all THEN start + chunk ELSE all
        BY DEF SegmentEnd
      <4> HIDE DEF chunk, all, next
      <4>4. t \in Nat /\ t < start + chunk
        BY <4>1, <4>2
      <4> QED BY <4>1, <4>2, <4>3, <4>4
    <3> QED BY <3>2, <3>3, <3>5 DEF Covered
  <2>5. CASE ~Segmented
    <3>1. i # index
      BY <1>6, <2>5, DueFacts DEF ToBeSegmented
    <3> QED BY <1>1, <1>8, <1>9, <2>1, <2>2, <2>3, <2>5, <3>1
  <2> QED BY <2>4, <2>5
<1> QED BY <1>2, <1>5, <1>7, <1>10, <1>11, <1>12, <1>13

-----------------------------------------------------------------------------

\* The share of the inputs that is done is a percentage that grows with it.
LEMMA Share ==
    ASSUME NEW n \in Nat \ {0}, NEW d \in 0..n, NEW e \in d..n
    PROVE  /\ (35 * d) \div n \in 0..35 /\ (35 * d) \div n <= (35 * e) \div n
           /\ (35 * 0) \div n = 0
<1>1. ASSUME NEW x \in 0..n
      PROVE  LET q == (35 * x) \div n IN q \in Nat /\ n * q <= 35 * x /\ 35 * x < n * (q + 1)
  OBVIOUS
<1>2. ASSUME NEW a \in Nat, NEW b \in Nat, a < b PROVE n * (a + 1) <= n * b
  BY <1>2
<1>3. ASSUME NEW q \in Nat, NEW x \in 0..n, n * q <= 35 * x PROVE q <= 35
  <2> SUFFICES ASSUME 35 < q PROVE FALSE
    OBVIOUS
  <2>1. n * (35 + 1) <= n * q
    BY <1>2
  <2> QED BY <1>3, <2>1
<1>4. ASSUME NEW q \in Nat, NEW r \in Nat, n * q <= 35 * d, 35 * e < n * (r + 1)
      PROVE  q <= r
  <2> SUFFICES ASSUME r < q PROVE FALSE
    OBVIOUS
  <2>1. n * (r + 1) <= n * q
    BY <1>2
  <2> QED BY <1>4, <2>1
<1>5. d \in 0..n /\ e \in 0..n
  OBVIOUS
<1>6. (35 * d) \div n \in 0..35
  BY <1>1, <1>3, <1>5
<1>7. (35 * d) \div n <= (35 * e) \div n
  BY <1>1, <1>4, <1>5
<1>8. (35 * 0) \div n = 0
  OBVIOUS
<1> QED BY <1>6, <1>7, <1>8

-----------------------------------------------------------------------------
(* The theorems.                                                           *)

\* The invariant holds of every reachable state.
THEOREM Invariance == Spec => []IndInv
<1>1. Init => IndInv
  <2> SUFFICES ASSUME Init PROVE IndInv
    OBVIOUS
  <2>1. TypeOK
    BY ExecutionAssumption DEF Init, TypeOK, Done, Cached
  <2> QED
    BY <2>1, ItemFacts DEF Init, IndInv, StageShape, ResolveShape, CoverShape, VectorShape,
       NoTinyTail, ResultsMatchInputs, Done
<1>2. IndInv /\ [Next]_vars => IndInv'
  <2> SUFFICES ASSUME IndInv, [Next]_vars PROVE IndInv'
    OBVIOUS
  <2> USE ExecutionAssumption
  <2>1. TypeOK /\ StageShape /\ ResolveShape /\ VectorShape /\ ResultsMatchInputs
    BY DEF IndInv
  <2>2. ASSUME UNCHANGED <<job, resolveVars>>
        PROVE  /\ CoverShape' /\ NoTinyTail'
               /\ Order' = Order /\ (Segmenting' <=> Segmenting) /\ (AtEnd' <=> AtEnd)
               /\ item' = item
    <3>1. Order' = Order /\ item' = item
      BY <2>2 DEF Order, item, resolveVars
    <3>2. (Segmenting' <=> Segmenting) /\ (AtEnd' <=> AtEnd)
      BY <2>2, <3>1 DEF resolveVars, Segmenting, Segmented, IsQuery, AtEnd, SegmentEnd,
         ToBeSegmented
    <3>3. CoverShape' /\ NoTinyTail'
      BY <2>2 DEF IndInv, resolveVars, CoverShape, Covered, ClipsOf, NoTinyTail, ToBeSegmented
    <3> QED BY <3>1, <3>2, <3>3
  <2>3. ASSUME Renewed, job' \in Payloads, crashes' \in 0..MaxCrashes,
               whole' \subseteq Clips, torn' \subseteq Clips, whole' \cap torn' = {},
               expired' \subseteq whole' \cup torn'
        PROVE  IndInv'
    <3>1. TypeOK'
      BY <2>3 DEF Renewed, TypeOK, Cached, Done
    <3>2. job'.input \in Seq(Items)
      <4>1. IsPayload(job')
        BY <2>3
      <4> QED BY <4>1 DEF IsPayload
    <3>3. CoverShape'
      BY <2>3, <3>2 DEF Renewed, CoverShape
    <3>4. StageShape' /\ ResolveShape' /\ VectorShape' /\ NoTinyTail' /\ ResultsMatchInputs'
      BY <2>3 DEF Renewed, StageShape, ResolveShape, VectorShape, NoTinyTail,
         ResultsMatchInputs, Done
    <3> QED BY <3>1, <3>3, <3>4 DEF IndInv
  <2>4. ASSUME Fails, whole' = whole, torn' \subseteq torn, expired' = expired,
               expired \subseteq whole \cup torn'
        PROVE  IndInv'
    <3>1. UNCHANGED <<job, resolveVars, inferVars, crashes>> /\ pc' = "failed"
      BY <2>4 DEF Fails
    <3>2. TypeOK'
      BY <2>1, <2>4, <3>1 DEF Fails, TypeOK, Done, Cached, resolveVars, inferVars
    <3>3. CoverShape' /\ NoTinyTail' /\ Order' = Order /\ (Segmenting' <=> Segmenting)
      BY <2>2, <3>1
    <3>4. StageShape' /\ ResolveShape' /\ VectorShape' /\ ResultsMatchInputs'
      BY <2>1, <2>4, <3>1, <3>3 DEF Fails, resolveVars, inferVars, StageShape, ResolveShape,
         VectorShape, ResultsMatchInputs, Done
    <3> QED BY <3>2, <3>3, <3>4 DEF IndInv
  <2>5. CASE Begin
    <3>1. UNCHANGED <<job, resolveVars, inferVars, cacheVars, crashes>> /\ pc = "new"
      BY <2>5 DEF Begin
    <3>2. CoverShape' /\ NoTinyTail' /\ Order' = Order /\ (Segmenting' <=> Segmenting)
      BY <2>2, <3>1
    <3>3. TypeOK'
      BY <2>1, <2>5, <3>1 DEF Begin, TypeOK, Done, Cached, resolveVars, inferVars, cacheVars
    <3>4. StageShape' /\ ResolveShape' /\ VectorShape' /\ ResultsMatchInputs'
      BY <2>1, <2>5, <3>1, <3>2 DEF Begin, resolveVars, inferVars, StageShape, ResolveShape,
         VectorShape, ResultsMatchInputs, Done
    <3> QED BY <3>2, <3>3, <3>4 DEF IndInv
  <2>6. CASE Refuse \/ ReportFails
    BY <2>1, <2>4, <2>6 DEF Refuse, ReportFails, cacheVars, TypeOK, Cached
  <2>7. CASE CutFails
    <3>1. expired \subseteq whole \cup torn' /\ torn' \subseteq torn
      BY <2>1, <2>7 DEF CutFails, ResolveShape, TypeOK, Cached
    <3> QED BY <2>4, <2>7, <3>1 DEF CutFails
  <2>8. CASE Cut
    <3>1. UNCHANGED <<job, reportVars, resolveVars, inferVars, whole, expired, crashes>>
      BY <2>8 DEF Cut
    <3>2. /\ CoverShape' /\ NoTinyTail' /\ Order' = Order
          /\ (Segmenting' <=> Segmenting) /\ (AtEnd' <=> AtEnd) /\ item' = item
      BY <2>2, <3>1
    <3>3. Clip \in Clips /\ Clip' = Clip
      BY <2>8, <3>1, <3>2, DueFacts DEF Cut, Clip, Segmented, IsQuery, SegmentEnd, resolveVars
    <3>4. TypeOK'
      BY <2>1, <2>8, <3>1, <3>3 DEF Cut, TypeOK, Done, Cached, resolveVars, inferVars, reportVars
    <3>5. ResolveShape'
      BY <2>1, <2>8, <3>1, <3>2, <3>3 DEF Cut, ClipDue, Resolving, resolveVars, inferVars,
         ResolveShape, TypeOK, Cached
    <3>6. StageShape' /\ VectorShape' /\ ResultsMatchInputs'
      BY <2>1, <2>8, <3>1 DEF Cut, ClipDue, Resolving, resolveVars, inferVars, reportVars,
         StageShape, VectorShape, ResultsMatchInputs, Done
    <3> QED BY <3>2, <3>4, <3>5, <3>6 DEF IndInv
  <2>9. ASSUME ClipDue \/ pc = "cut", Advance, pc' = "resolve",
               whole' \subseteq Clips, torn' \subseteq Clips, whole' \cap torn' = {},
               expired' \subseteq whole' \cup torn'
        PROVE  IndInv'
    <3>1. UNCHANGED <<job, reportVars, inferVars, crashes>>
      BY <2>9 DEF Advance
    <3>2. pc \in {"resolve", "cut"}
      BY <2>9 DEF ClipDue, Resolving
    <3>3. TypeOK'
      BY <2>1, <2>9, <3>1, AdvanceShape DEF TypeOK, Done, Cached, inferVars, reportVars
    <3>4. ResolveShape'
      BY <2>1, <2>9, <3>1, <3>2, AdvanceShape DEF ResolveShape, inferVars
    <3>5. StageShape' /\ VectorShape' /\ ResultsMatchInputs'
      BY <2>1, <2>9, <3>1, <3>2, AdvanceShape DEF StageShape, VectorShape, ResolveShape,
         ResultsMatchInputs, inferVars, reportVars, Done
    <3> QED BY <2>9, <3>3, <3>4, <3>5, AdvanceShape DEF IndInv
  <2>10. CASE Reuse
    BY <2>1, <2>9, <2>10 DEF Reuse, cacheVars, ClipDue, Resolving, TypeOK, Cached
  <2>11. CASE CutDone
    BY <2>1, <2>9, <2>11, DueFacts DEF CutDone, TypeOK, Cached
  <2>12. CASE EndVideo
    <3>1. /\ UNCHANGED <<job, pc, reportVars, inputs, query, inferVars, cacheVars, crashes>>
          /\ index' = index + 1 /\ start' = 0 /\ pc = "resolve" /\ Order' = Order
      BY <2>12 DEF EndVideo, Resolving, Order
    <3>2. TypeOK'
      BY <2>1, <3>1 DEF TypeOK, Done, Cached, inferVars, reportVars, cacheVars
    <3>3. StageShape' /\ ResolveShape' /\ VectorShape' /\ ResultsMatchInputs' /\ NoTinyTail'
      BY <2>1, <3>1 DEF IndInv, StageShape, ResolveShape, VectorShape, NoTinyTail, TypeOK,
         ToBeSegmented, ResultsMatchInputs, inferVars, reportVars, cacheVars, Done
    <3>4. CoverShape'
      <4> SUFFICES ASSUME job.kind = "embedding", NEW i \in DOMAIN job.input,
                          ToBeSegmented(job.input[i]),
                          job.input[i].chunk >= MIN_TAIL_SEGMENT_SECONDS
                   PROVE  /\ i < index' =>
                                 \A t \in 0..(Duration[job.input[i].media]
                                                  - MIN_TAIL_SEGMENT_SECONDS) : Covered(i, t)'
                          /\ i = index' =>
                                 \A t \in 0..(start' - 1) :
                                     t < Duration[job.input[i].media] => Covered(i, t)'
        BY <3>1 DEF CoverShape, ToBeSegmented
      <4>1. \A t : Covered(i, t) => Covered(i, t)'
        BY <3>1 DEF Covered, ClipsOf
      <4>2. i \in Nat /\ index \in Nat
        BY <2>1, ItemFacts DEF TypeOK
      <4>3. CASE i # index
        BY <3>1, <4>1, <4>2, <4>3 DEF IndInv, CoverShape
      <4>4. CASE i = index
        <5>1. /\ Segmenting /\ AtEnd /\ start \in Nat /\ index \in DOMAIN Order
              /\ item = job.input[i] /\ item \in Items
          BY <2>1, <2>12, <4>4, ItemFacts DEF EndVideo, Resolving, item, TypeOK, ResolveShape
        <5>2. Duration[item.media] \in Nat /\ item.chunk \in Nat
          BY <2>1, <5>1, ItemFacts DEF Segmenting, Items, item
        <5>3. ASSUME NEW t \in 0..(Duration[item.media] - MIN_TAIL_SEGMENT_SECONDS)
              PROVE  Covered(i, t)'
          <6>1. t < start /\ t < Duration[item.media]
            BY <5>1, <5>2 DEF AtEnd, SegmentEnd, MIN_TAIL_SEGMENT_SECONDS
          <6> QED BY <4>1, <4>4, <5>1, <6>1 DEF IndInv, CoverShape
        <5> QED BY <3>1, <4>2, <4>4, <5>1, <5>3
      <4> QED BY <4>3, <4>4
    <3> QED BY <3>2, <3>3, <3>4 DEF IndInv
  <2>13. CASE ResolvePlain
    <3> DEFINE input == [type |-> IF item.type = "video_segment" THEN "video" ELSE item.type,
                         item |-> index, clip |-> NoClip]
    <3>1. /\ UNCHANGED <<job, pc, reportVars, start, inferVars, cacheVars, crashes>>
          /\ index' = index + 1 /\ pc = "resolve" /\ Order' = Order /\ ~Segmented
          /\ index \in DOMAIN Order /\ item \in Items /\ start = 0
      <4>1. /\ UNCHANGED <<job, pc, reportVars, start, inferVars, cacheVars, crashes>>
            /\ index' = index + 1 /\ pc = "resolve" /\ ~Segmented /\ index <= Len(Order)
        BY <2>13 DEF ResolvePlain, Resolving
      <4>2. index \in DOMAIN Order /\ item \in Items
        BY <2>1, <4>1, ItemFacts DEF item, TypeOK, ResolveShape
      <4>3. start = 0
        BY <2>1, <4>1 DEF TypeOK, ResolveShape, Segmenting
      <4>4. Order' = Order
        BY <4>1 DEF Order
      <4> QED BY <4>1, <4>2, <4>3, <4>4
    <3>2. input \in Inputs /\ input.item = index /\ input.clip = NoClip
      BY <2>1, <3>1 DEF Inputs, InputKinds, Items, TypeOK
    <3>3. IF IsQuery THEN query' = Append(query, input) /\ inputs' = inputs
          ELSE inputs' = Append(inputs, input) /\ query' = query
      BY <2>13 DEF ResolvePlain, Add
    <3> HIDE DEF input
    <3>4. inputs \in Seq(Inputs) /\ inputs' \in Seq(Inputs) /\ query' \in Seq(Inputs)
      <4>1. Append(inputs, input) \in Seq(Inputs) /\ Append(query, input) \in Seq(Inputs)
        BY <2>1, <3>2 DEF TypeOK
      <4> QED BY <2>1, <3>3, <4>1 DEF TypeOK
    <3>5. TypeOK'
      BY <2>1, <3>1, <3>4 DEF TypeOK, Done, Cached, inferVars, reportVars, cacheVars
    <3>6. job.kind = "embedding" =>
              /\ ~IsQuery => index \in DOMAIN job.input
              /\ index \in DOMAIN job.input => ~ToBeSegmented(job.input[index])
      BY <2>1, <3>1, ItemFacts DEF IsQuery, Segmented, item
    <3>7. \A n \in DOMAIN inputs' :
              \/ n \in DOMAIN inputs /\ inputs'[n] = inputs[n]
              \/ inputs'[n] = input /\ ~IsQuery
      BY <3>2, <3>3, <3>4
    <3>8. StageShape' /\ ResolveShape' /\ VectorShape' /\ ResultsMatchInputs' /\ NoTinyTail'
      <4>1. StageShape' /\ ResultsMatchInputs'
        BY <2>1, <3>1 DEF StageShape, ResultsMatchInputs, reportVars, Done
      <4>2. ResolveShape'
        <5>1. job.kind = "embedding" =>
                  \A n \in DOMAIN inputs' : inputs'[n].item \in DOMAIN job.input
          BY <2>1, <3>2, <3>6, <3>7 DEF ResolveShape
        <5> QED BY <2>1, <3>1, <5>1 DEF ResolveShape, inferVars, TypeOK
      <4>3. VectorShape'
        BY <2>1, <3>1, <3>4 DEF ResolveShape, VectorShape, inferVars
      <4>4. NoTinyTail'
        BY <3>1, <3>2, <3>7 DEF IndInv, NoTinyTail, NoClip, ToBeSegmented
      <4> QED BY <4>1, <4>2, <4>3, <4>4
    <3>9. CoverShape'
      <4> SUFFICES ASSUME job.kind = "embedding", NEW i \in DOMAIN job.input,
                          ToBeSegmented(job.input[i]),
                          job.input[i].chunk >= MIN_TAIL_SEGMENT_SECONDS,
                          i < index'
                   PROVE  \A t \in 0..(Duration[job.input[i].media] - MIN_TAIL_SEGMENT_SECONDS) :
                              Covered(i, t)'
        BY <3>1 DEF CoverShape, ToBeSegmented
      <4>1. i < index
        BY <2>1, <3>1, <3>6, ItemFacts DEF TypeOK
      <4>2. \A t : Covered(i, t) => Covered(i, t)'
        BY <3>2, <3>3, <3>4, ClipsGrow DEF Covered
      <4> QED BY <4>1, <4>2 DEF IndInv, CoverShape
    <3> QED BY <3>5, <3>8, <3>9 DEF IndInv
  <2>14. CASE Resolved
    <3>1. UNCHANGED <<job, resolveVars, inferVars, cacheVars, crashes>> /\ pc = "resolve"
      BY <2>14 DEF Resolved
    <3>2. CoverShape' /\ NoTinyTail' /\ Order' = Order /\ (Segmenting' <=> Segmenting)
      BY <2>2, <3>1
    <3>3. TypeOK'
      BY <2>1, <2>14, <3>1, ItemFacts DEF Resolved, TypeOK, Done, Cached, resolveVars, inferVars,
         cacheVars
    <3>4. ResolveShape' /\ VectorShape' /\ ResultsMatchInputs'
      BY <2>1, <2>14, <3>1, <3>2 DEF Resolved, resolveVars, inferVars, ResolveShape,
         VectorShape, ResultsMatchInputs, Done
    <3>5. StageShape'
      <4>1. inputs # <<>> => (35 * 0) \div Len(inputs) = 0
        <5>1. inputs # <<>> => Len(inputs) \in Nat \ {0}
          BY <2>1 DEF TypeOK
        <5> QED BY <5>1, Share
      <4>2. Len(vectors) = 0
        BY <2>1, <3>1 DEF ResolveShape
      <4> QED
        BY <2>1, <2>14, <3>1, <4>1, <4>2, ItemFacts DEF Resolved, StageShape, resolveVars,
           inferVars, Done
    <3> QED BY <3>2, <3>3, <3>4, <3>5 DEF IndInv
  <2>15. CASE InferFails
    BY <2>1, <2>4, <2>15 DEF InferFails, cacheVars, TypeOK, Cached
  <2>16. CASE NextJob
    BY <2>1, <2>3, <2>16 DEF NextJob, cacheVars, TypeOK, Cached
  <2>17. CASE Crash
    BY <2>1, <2>3, <2>17 DEF Crash, cacheVars, TypeOK, Cached
  <2>18. ASSUME UNCHANGED <<job, pc, reportVars, resolveVars, inferVars, crashes>>,
                whole' \subseteq whole, torn' \subseteq torn,
                expired' \subseteq whole' \cup torn',
                pc = "cut" => Clip \notin expired'
        PROVE  IndInv'
    <3>1. /\ CoverShape' /\ NoTinyTail' /\ Order' = Order
          /\ (Segmenting' <=> Segmenting) /\ (AtEnd' <=> AtEnd) /\ item' = item
      BY <2>2, <2>18
    <3>2. TypeOK'
      BY <2>1, <2>18 DEF TypeOK, Done, Cached, resolveVars, inferVars, reportVars
    <3>3. Clip' = Clip
      BY <2>18, <3>1 DEF Clip, Segmented, IsQuery, SegmentEnd, resolveVars, ToBeSegmented
    <3>4. ResolveShape'
      BY <2>1, <2>18, <3>1, <3>3 DEF ResolveShape, resolveVars, inferVars
    <3>5. StageShape' /\ VectorShape' /\ ResultsMatchInputs'
      BY <2>1, <2>18 DEF StageShape, VectorShape, ResultsMatchInputs, resolveVars, inferVars,
         reportVars, Done
    <3> QED BY <3>1, <3>2, <3>4, <3>5 DEF IndInv
  <2>19. CASE Age
    BY <2>1, <2>18, <2>19 DEF Age, Cached
  <2>20. ASSUME NEW clip \in expired, RemoveExpired(clip) PROVE IndInv'
    BY <2>1, <2>18, <2>20 DEF RemoveExpired, TypeOK, Cached, ResolveShape
  <2>21. CASE UNCHANGED vars
    BY <2>1, <2>18, <2>21 DEF vars, cacheVars, TypeOK, Cached, ResolveShape
  <2>22. CASE EmbedBatch
    <3> HIDE ExecutionAssumption
    <3>1. /\ UNCHANGED <<job, pc, stage, resolveVars, results, cacheVars, crashes>>
          /\ vectors' = vectors \o Batch /\ Report(BatchEnd)
          /\ position' = position + Limit[inputs[position].type]
          /\ pc = "infer" /\ job.kind = "embedding" /\ position <= Len(inputs)
      BY <2>22 DEF EmbedBatch, Embedding
    <3>2. /\ inputs \in Seq(Inputs) /\ vectors \in Seq(Nat) /\ position \in Nat \ {0}
          /\ Len(vectors) = position - 1 /\ \A n \in DOMAIN vectors : vectors[n] = n
      BY <2>1, <3>1 DEF TypeOK, VectorShape
    <3> DEFINE limit == Limit[inputs[position].type]
    <3>3. limit \in Nat \ {0}
      <4>1. position \in DOMAIN inputs
        BY <3>1, <3>2
      <4>2. inputs[position] \in Inputs
        BY <3>2, <4>1
      <4>3. inputs[position].type \in InputKinds
        BY <4>2 DEF Inputs
      <4> QED BY <4>3, ExecutionAssumption
    <3>4. /\ BatchEnd \in position..Len(inputs) /\ Len(inputs) \in Nat \ {0}
          /\ position' <= Len(inputs) => BatchEnd = position' - 1
          /\ position' > Len(inputs) => BatchEnd = Len(inputs)
          /\ position' \in Nat \ {0}
      <4>1. BatchEnd = IF position + limit - 1 < Len(inputs) THEN position + limit - 1
                       ELSE Len(inputs)
        BY DEF BatchEnd
      <4>2. Len(inputs) \in Nat /\ position' = position + limit
        BY <3>1, <3>2
      <4> HIDE DEF limit
      <4> QED BY <3>1, <3>2, <3>3, <4>1, <4>2
    <3>5. /\ vectors' \in Seq(Nat) /\ Len(vectors') = BatchEnd
          /\ \A n \in DOMAIN vectors' : vectors'[n] = n
      <4> DEFINE size == BatchEnd - position + 1
      <4>1. /\ size \in Nat /\ Batch = [n \in 1..size |-> position + n - 1]
            /\ BatchEnd = position - 1 + size
        BY <3>2, <3>4 DEF Batch
      <4> HIDE DEF size
      <4>2. /\ Batch \in Seq(Nat) /\ Len(Batch) = size
            /\ \A n \in 1..size : Batch[n] = position + n - 1
        BY <3>2, <4>1
      <4>3. /\ vectors \o Batch \in Seq(Nat) /\ Len(vectors \o Batch) = BatchEnd
            /\ DOMAIN vectors = 1..(position - 1)
        <5>1. vectors \o Batch \in Seq(Nat)
          BY <3>2, <4>2
        <5>2. Len(vectors \o Batch) = Len(vectors) + Len(Batch)
          <6>1. ASSUME NEW p \in Seq(Nat), NEW q \in Seq(Nat)
                PROVE  Len(p \o q) = Len(p) + Len(q)
            OBVIOUS
          <6> QED BY <3>2, <4>2, <6>1
        <5>3. DOMAIN vectors = 1..(position - 1)
          BY <3>2
        <5> QED BY <3>2, <4>1, <4>2, <5>1, <5>2, <5>3
      <4>4. ASSUME NEW n \in 1..BatchEnd PROVE (vectors \o Batch)[n] = n
        <5>1. CASE n \in 1..(position - 1)
          <6>1. (vectors \o Batch)[n] = vectors[n]
            BY <3>2, <4>2, <5>1
          <6> QED BY <3>2, <4>3, <5>1, <6>1
        <5>2. CASE n \notin 1..(position - 1)
          <6>1. n - (position - 1) \in 1..size
            BY <3>2, <4>1, <5>2
          <6>2. (vectors \o Batch)[n] = Batch[n - (position - 1)]
            BY <3>2, <4>2, <5>2, <6>1
          <6>3. Batch[n - (position - 1)] = position + (n - (position - 1)) - 1
            BY <4>2, <6>1
          <6> QED BY <3>2, <6>2, <6>3
        <5> QED BY <5>1, <5>2
      <4>5. DOMAIN vectors' = 1..BatchEnd
        BY <3>1, <3>2, <3>4, <4>3
      <4> QED BY <3>1, <4>3, <4>4, <4>5
    <3>6. progress' = 45 + (35 * BatchEnd) \div Len(inputs) /\ progress' \in 0..100
      <4>1. BatchEnd \in 0..Len(inputs) /\ BatchEnd \in BatchEnd..Len(inputs)
        BY <3>2, <3>4
      <4> DEFINE share == (35 * BatchEnd) \div Len(inputs)
      <4>2. share \in 0..35
        BY <3>4, <4>1, Share
      <4>3. progress' = 45 + share
        BY <3>1 DEF Report
      <4> HIDE DEF share
      <4>4. progress' \in 0..100
        BY <4>2, <4>3
      <4> QED BY <4>3, <4>4 DEF share
    <3>7. CoverShape' /\ NoTinyTail' /\ Order' = Order /\ (Segmenting' <=> Segmenting)
      BY <2>2, <3>1
    <3>8. TypeOK'
      BY <2>1, <3>1, <3>4, <3>5, <3>6 DEF TypeOK, Done, Cached, resolveVars, cacheVars
    <3>9. StageShape'
      BY <2>1, <3>1, <3>2, <3>5, <3>6 DEF StageShape, resolveVars, Done
    <3>10. ResolveShape' /\ ResultsMatchInputs'
      BY <2>1, <3>1, <3>7 DEF ResolveShape, ResultsMatchInputs, resolveVars
    <3>11. VectorShape'
      <4>1. inputs' = inputs
        BY <3>1 DEF resolveVars
      <4>2. position' >= 1 /\ Len(vectors') = IF position' <= Len(inputs) THEN position' - 1
                                              ELSE Len(inputs)
        <5>1. Len(vectors') = BatchEnd /\ position' \in Nat \ {0} /\ Len(inputs) \in Nat
          BY <3>4, <3>5
        <5> DEFINE next == position'
                   all == Len(inputs)
        <5>2. /\ next \in Nat \ {0} /\ all \in Nat
              /\ next <= all => Len(vectors') = next - 1
              /\ next > all => Len(vectors') = all
          BY <3>4, <5>1
        <5> HIDE DEF next, all
        <5>3. next >= 1 /\ Len(vectors') = IF next <= all THEN next - 1 ELSE all
          BY <5>2
        <5> QED BY <5>3 DEF next, all
      <4> QED BY <3>5, <4>1, <4>2 DEF VectorShape
    <3> QED BY <3>7, <3>8, <3>9, <3>10, <3>11 DEF IndInv
  <2>23. CASE Rerank
    <3>1. /\ UNCHANGED <<job, pc, reportVars, resolveVars, results, cacheVars, crashes>>
          /\ vectors' = [n \in 1..Len(inputs) |-> n] /\ position' = Len(inputs) + 1
          /\ pc = "infer" /\ job.kind = "reranking"
      BY <2>23 DEF Rerank
    <3>2. inputs \in Seq(Inputs) /\ Len(inputs) \in Nat
      BY <2>1 DEF TypeOK
    <3>3. /\ vectors' \in Seq(Nat) /\ Len(vectors') = Len(inputs)
          /\ \A n \in DOMAIN vectors' : vectors'[n] = n
      BY <3>1, <3>2
    <3>4. CoverShape' /\ NoTinyTail' /\ Order' = Order /\ (Segmenting' <=> Segmenting)
      BY <2>2, <3>1
    <3>5. TypeOK'
      BY <2>1, <3>1, <3>2, <3>3 DEF TypeOK, Done, Cached, reportVars, resolveVars, cacheVars
    <3>6. StageShape'
      BY <2>1, <3>1 DEF StageShape, reportVars, resolveVars, Done
    <3>7. ResolveShape' /\ VectorShape' /\ ResultsMatchInputs'
      BY <2>1, <3>1, <3>2, <3>3, <3>4 DEF ResolveShape, VectorShape, ResultsMatchInputs,
         resolveVars
    <3> QED BY <3>4, <3>5, <3>6, <3>7 DEF IndInv
  <2>24. CASE Complete
    <3>1. /\ UNCHANGED <<job, resolveVars, position, vectors, cacheVars, crashes>>
          /\ pc' = "complete" /\ stage' = "complete" /\ progress' = 100
          /\ pc = "infer" /\ position > Len(inputs) /\ results' \in Returned
      BY <2>24 DEF Complete
    <3>2. /\ inputs \in Seq(Inputs) /\ Len(inputs) \in Nat /\ vectors \in Seq(Nat)
          /\ Len(vectors) = Len(inputs) /\ \A n \in DOMAIN vectors : vectors[n] = n
          /\ position \in Nat
      BY <2>1, <3>1 DEF TypeOK, VectorShape
    <3>3. Scored = {<<n, n>> : n \in 1..Len(inputs)}
      BY <3>2 DEF Scored
    <3>4. IsFiniteSet(Scored) /\ Cardinality(Scored) = Len(inputs)
      <4> DEFINE f == [n \in 1..Len(inputs) |-> <<n, n>>]
      <4>1. ASSUME NEW k \in Nat PROVE IsFiniteSet(1..k) /\ Cardinality(1..k) = k
        <5>1. IsFiniteSet(1..k) /\ Cardinality(1..k) = IF 1 > k THEN 0 ELSE k - 1 + 1
          BY FS_Interval
        <5> QED BY <5>1
      <4>2. f \in Bijection(1..Len(inputs), Scored)
        BY <3>3 DEF Bijection, Injection, Surjection, IsInjective
      <4>3. ExistsBijection(1..Len(inputs), Scored)
        BY <4>2 DEF ExistsBijection
      <4>4. IsFiniteSet(1..Len(inputs)) /\ Cardinality(1..Len(inputs)) = Len(inputs)
        BY <3>2, <4>1
      <4> QED BY <4>3, <4>4, FS_Bijection
    <3>5. job.top_k \in Nat \ {0}
      BY <2>1, ItemFacts
    <3>6. /\ results' \subseteq Scored
          /\ Cardinality(results') =
                 IF query # <<>> /\ job.top_k < Len(inputs) THEN job.top_k ELSE Len(inputs)
      BY <3>1, <3>2, <3>4, <3>5 DEF Returned
    <3>7. ResultsMatchInputs'
      BY <3>1, <3>3, <3>6 DEF ResultsMatchInputs, resolveVars
    <3>8. CoverShape' /\ NoTinyTail' /\ Order' = Order /\ (Segmenting' <=> Segmenting)
      BY <2>2, <3>1
    <3>9. TypeOK'
      BY <2>1, <3>1, <3>2, <3>3, <3>6 DEF TypeOK, Done, Cached, resolveVars, cacheVars
    <3>10. StageShape' /\ ResolveShape' /\ VectorShape'
      BY <2>1, <3>1, <3>8 DEF StageShape, ResolveShape, VectorShape, resolveVars, Done
    <3> QED BY <3>7, <3>8, <3>9, <3>10 DEF IndInv
  <2> QED
    BY <2>5, <2>6, <2>7, <2>8, <2>10, <2>11, <2>12, <2>13, <2>14, <2>15, <2>16, <2>17, <2>19,
       <2>20, <2>21, <2>22, <2>23, <2>24 DEF Next, JobStep
<1> QED BY <1>1, <1>2, PTL DEF Spec

\* The executor never leaves its types: the percentage stays one, and a clip in
\* the cache is either whole or torn.
THEOREM TypeCorrect == Spec => []TypeOK
<1>1. IndInv => TypeOK
  BY DEF IndInv
<1> QED BY <1>1, Invariance, PTL

\* segment_video and expand_embedding_inputs leave out no second of a segmented
\* video but a short tail, whatever chunk, overlap and duration.
THEOREM Covers == Spec => []VideoCovered
<1>1. IndInv => VideoCovered
  <2> SUFFICES ASSUME IndInv, Embedding, NEW i \in DOMAIN job.input,
                      ToBeSegmented(job.input[i]),
                      job.input[i].chunk >= MIN_TAIL_SEGMENT_SECONDS
               PROVE  \A t \in 0..(Duration[job.input[i].media] - MIN_TAIL_SEGMENT_SECONDS) :
                          Covered(i, t)
    BY DEF VideoCovered, Covered
  <2>1. TypeOK /\ ResolveShape /\ CoverShape
    BY DEF IndInv
  <2>2. index > Len(Order) /\ index \in Nat /\ job.kind = "embedding"
    BY <2>1 DEF ResolveShape, TypeOK, Embedding
  <2>3. job.input \in Seq(Items) /\ Order \in Seq(Items) /\ Len(job.input) <= Len(Order)
    BY <2>1, <2>2, ItemFacts
  <2>4. i < index
    BY <2>2, <2>3
  <2> QED BY <2>1, <2>2, <2>4 DEF CoverShape
<1> QED BY <1>1, Invariance, PTL

\* No clip after the first is shorter than MIN_TAIL_SEGMENT_SECONDS.
THEOREM NoTail == Spec => []NoTinyTail
<1>1. IndInv => NoTinyTail
  BY DEF IndInv
<1> QED BY <1>1, Invariance, PTL

\* _score_embedding_items and _rerank_job give every result what was computed for
\* its own input, for any batch limits, and drop none but those beyond top_k.
THEOREM Match == Spec => []ResultsMatchInputs
<1>1. IndInv => ResultsMatchInputs
  BY DEF IndInv
<1> QED BY <1>1, Invariance, PTL

\* What a step changes of the job that clients see is a step of JobStages.
LEMMA StagesStep == IndInv /\ IndInv' /\ [Next]_vars => [Stages!Next]_(Stages!stageVars)
<1> SUFFICES ASSUME IndInv, IndInv', [Next]_vars PROVE [Stages!Next]_(Stages!stageVars)
  OBVIOUS
<1>1. TypeOK /\ StageShape /\ VectorShape /\ TypeOK' /\ StageShape' /\ VectorShape'
  BY DEF IndInv
<1>2. job.kind \in Stages!Kinds /\ job'.kind \in Stages!Kinds
  BY <1>1, ItemFacts, ExecutionAssumption DEF TypeOK, IsPayload, Stages!Kinds
<1>3. /\ Stages!Rank["queued"] = 0 /\ Stages!Rank["resolving_media"] = 1
      /\ \A k \in Stages!Kinds : Stages!Rank[k] = 2
      /\ Stages!Rank["complete"] = 3 /\ Stages!Rank["failed"] = 3
  BY DEF Stages!Rank, Stages!Kinds
<1>4. CASE UNCHANGED <<job, reportVars>>
  BY <1>4 DEF reportVars, Stages!stageVars
<1>5. ASSUME Fails, pc \in {"new", "resolve", "cut", "infer"} PROVE Stages!Fail
  <2>1. stage \in {"queued", "resolving_media", job.kind}
    BY <1>1, <1>5 DEF StageShape
  <2>2. Stages!Rank[stage] \in 0..2
    BY <1>2, <1>3, <2>1
  <2> QED BY <1>5, <2>2 DEF Fails, Stages!Fail
<1>6. CASE Begin
  <2>1. /\ stage = "queued" /\ progress = 0 /\ stage' = "resolving_media"
        /\ progress' \in {12, 20} /\ job' = job
    BY <1>1, <1>6 DEF Begin, StageShape
  <2>2. Stages!Work
    BY <1>3, <2>1 DEF Stages!Work
  <2> QED BY <2>2 DEF Stages!Next
<1>7. CASE Resolved
  <2>1. /\ stage = "resolving_media" /\ progress \in 0..20 /\ stage' = job.kind
        /\ progress' \in {45, 55} /\ job' = job
    BY <1>1, <1>7 DEF Resolved, StageShape
  <2>2. Stages!Work
    BY <1>2, <1>3, <2>1 DEF Stages!Work
  <2> QED BY <2>2 DEF Stages!Next
<1>8. CASE EmbedBatch
  <2>1. /\ job' = job /\ inputs' = inputs /\ stage = job.kind /\ stage' = stage
        /\ pc = "infer" /\ pc' = "infer" /\ job.kind = "embedding"
        /\ position <= Len(inputs) /\ vectors' = vectors \o Batch
    BY <1>1, <1>8 DEF EmbedBatch, Embedding, StageShape, resolveVars
  <2>2. /\ inputs \in Seq(Inputs) /\ inputs # <<>> /\ Len(inputs) \in Nat \ {0}
        /\ vectors \in Seq(Nat) /\ vectors' \in Seq(Nat)
    <3>1. inputs \in Seq(Inputs) /\ position >= 1 /\ position \in Nat
      BY <1>1 DEF TypeOK, VectorShape
    <3> QED BY <1>1, <2>1, <3>1 DEF TypeOK
  <2> DEFINE all == Len(inputs)
             done == Len(vectors)
             next == Len(vectors')
  <2>3. all \in Nat \ {0} /\ done \in 0..all /\ next \in 0..all
    <3>1. done <= all /\ done \in Nat /\ position \in Nat
      BY <1>1, <2>1, <2>2 DEF VectorShape, TypeOK
    <3>2. next \in Nat /\ position' \in Nat
      BY <1>1, <2>2 DEF TypeOK
    <3>3. next = IF position' <= all THEN position' - 1 ELSE all
      BY <1>1, <2>1 DEF VectorShape
    <3> HIDE DEF all, done, next
    <3>4. next <= all
      BY <2>2, <3>2, <3>3 DEF all
    <3> QED BY <2>2, <3>1, <3>2, <3>4 DEF all
  <2>4. done <= next
    <3>1. position' = position + Limit[inputs[position].type]
      BY <1>8 DEF EmbedBatch
    <3>2. position \in Nat /\ position' \in Nat /\ position >= 1
      BY <1>1 DEF TypeOK, VectorShape
    <3>3. inputs[position] \in Inputs
      BY <2>1, <2>2, <3>2
    <3>4. inputs[position].type \in InputKinds
      BY <3>3 DEF Inputs
    <3>5. Limit[inputs[position].type] \in Nat
      BY <3>4, ExecutionAssumption
    <3>6. position <= position'
      BY <3>1, <3>2, <3>5
    <3>7. done = position - 1
      BY <1>1, <2>1 DEF VectorShape
    <3> DEFINE beyond == position'
    <3>8. next = beyond - 1 \/ next = all
      BY <1>1, <2>1 DEF VectorShape
    <3>9. beyond \in Nat /\ position <= beyond
      BY <3>2, <3>6
    <3> HIDE DEF all, done, next, beyond
    <3> QED BY <2>3, <3>2, <3>7, <3>8, <3>9
  <2>5. progress = 45 + (35 * done) \div all /\ progress' = 45 + (35 * next) \div all
    BY <1>1, <2>1, <2>2 DEF StageShape
  <2> HIDE DEF all, done, next
  <2> DEFINE share == (35 * done) \div all
             more == (35 * next) \div all
  <2>6. share \in 0..35 /\ more \in 0..35 /\ share <= more
    <3>1. next \in done..all /\ next \in next..all
      BY <2>3, <2>4
    <3> QED BY <2>3, <3>1, Share
  <2>7. progress = 45 + share /\ progress' = 45 + more
    BY <2>5
  <2> HIDE DEF share, more
  <2>8. progress' \in progress..99
    BY <2>6, <2>7
  <2>9. Stages!Work
    BY <1>2, <1>3, <2>1, <2>8 DEF Stages!Work
  <2> QED BY <2>9 DEF Stages!Next
<1>9. CASE Complete
  <2>1. Stages!Complete
    BY <1>1, <1>9 DEF Complete, StageShape, Stages!Complete
  <2> QED BY <2>1 DEF Stages!Next
<1>10. CASE NextJob
  <2>1. stage \in {"complete", "failed"} /\ stage' = "queued" /\ progress' = 0
    BY <1>1, <1>10 DEF NextJob, Renewed, Done, StageShape
  <2>2. Stages!NextJob
    BY <1>2, <1>3, <2>1 DEF Stages!NextJob, Stages!Queued
  <2> QED BY <2>2 DEF Stages!Next
<1>11. CASE Crash
  <2>1. stage \in {"resolving_media", job.kind} /\ stage' = "queued" /\ progress' = 0
        /\ job' = job
    BY <1>1, <1>11 DEF Crash, Renewed, StageShape
  <2>2. Stages!Requeue
    BY <1>2, <1>3, <2>1 DEF Stages!Requeue, Stages!Queued
  <2> QED BY <2>2 DEF Stages!Next
<1>12. CASE Refuse \/ ReportFails \/ CutFails \/ InferFails
  BY <1>5, <1>12 DEF Refuse, Resolving, ReportFails, CutFails, InferFails, Stages!Next
<1>13. CASE ResolvePlain \/ EndVideo \/ Reuse \/ Cut \/ CutDone \/ Rerank
  BY <1>4, <1>13 DEF ResolvePlain, EndVideo, Reuse, Cut, CutDone, Advance, Rerank
<1>14. CASE Age \/ (\E clip \in expired : RemoveExpired(clip)) \/ UNCHANGED vars
  BY <1>4, <1>14 DEF Age, RemoveExpired, vars
<1> QED
  BY <1>6, <1>7, <1>8, <1>9, <1>10, <1>11, <1>12, <1>13, <1>14 DEF Next, JobStep

\* A client sees the stages of JobStages: the executor implements it.
THEOREM Refinement == Spec => ImplementsStages
<1>1. IndInv /\ Init => Stages!Init
  BY ItemFacts DEF Init, IndInv, Stages!Init, Stages!Queued, Stages!Kinds
<1> QED
  BY <1>1, StagesStep, Invariance, PTL DEF Spec, ImplementsStages, Stages!Spec

=============================================================================
