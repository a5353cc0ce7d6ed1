---------------------------- MODULE QueueLemmas -----------------------------
(***************************************************************************)
(* What pushing to and popping from a queue does to the set of jobs that   *)
(* have an entry in it, and to their being there only once.                *)
(***************************************************************************)
EXTENDS Naturals, Sequences, Functions, TLAPS

\* Pushing adds the job to the set, and keeps the entries distinct if it is new.
LEMMA AppendFacts ==
    ASSUME NEW S, NEW q \in Seq(S), NEW x \in S
    PROVE  /\ Append(q, x) \in Seq(S)
           /\ Range(Append(q, x)) = Range(q) \cup {x}
           /\ IsInjective(q) /\ x \notin Range(q) => IsInjective(Append(q, x))
<1>1. Append(q, x) \in Seq(S)
  OBVIOUS
<1>2. DOMAIN Append(q, x) = 1..(Len(q) + 1) /\ DOMAIN q = 1..Len(q)
  OBVIOUS
<1>3. /\ Append(q, x)[Len(q) + 1] = x
      /\ \A i \in 1..Len(q) : Append(q, x)[i] = q[i]
  OBVIOUS
<1>4. Range(Append(q, x)) \subseteq Range(q) \cup {x}
  BY <1>2, <1>3 DEF Range
<1>5. x \in Range(Append(q, x))
  BY <1>2, <1>3 DEF Range
<1>6. Range(q) \subseteq Range(Append(q, x))
  BY <1>2, <1>3 DEF Range
<1>7. ASSUME IsInjective(q), x \notin Range(q) PROVE IsInjective(Append(q, x))
  <2>1. \A i \in 1..Len(q) : q[i] # x
    BY <1>2, <1>7 DEF Range
  <2> QED BY <1>2, <1>3, <1>7, <2>1 DEF IsInjective
<1> QED BY <1>1, <1>4, <1>5, <1>6, <1>7

\* Popping removes at most the head from it, and from distinct entries for good.
LEMMA TailFacts ==
    ASSUME NEW S, NEW q \in Seq(S), q # <<>>
    PROVE  /\ Tail(q) \in Seq(S)
           /\ Head(q) \in S
           /\ Range(q) = Range(Tail(q)) \cup {Head(q)}
           /\ IsInjective(q) => IsInjective(Tail(q)) /\ Head(q) \notin Range(Tail(q))
<1>1. Tail(q) \in Seq(S) /\ Head(q) \in S
  OBVIOUS
<1>2. /\ DOMAIN Tail(q) = 1..(Len(q) - 1) /\ DOMAIN q = 1..Len(q)
      /\ Len(q) \in Nat /\ Len(q) # 0
  OBVIOUS
<1>3. /\ Head(q) = q[1]
      /\ \A i \in 1..(Len(q) - 1) : Tail(q)[i] = q[i + 1]
  OBVIOUS
<1>4. Range(Tail(q)) \subseteq Range(q)
  BY <1>2, <1>3 DEF Range
<1>5. Head(q) \in Range(q)
  BY <1>2, <1>3 DEF Range
<1>6. Range(q) \subseteq Range(Tail(q)) \cup {Head(q)}
  <2> SUFFICES ASSUME NEW i \in 1..Len(q)
               PROVE  q[i] \in Range(Tail(q)) \cup {Head(q)}
    BY <1>2 DEF Range
  <2>1. CASE i = 1
    BY <2>1, <1>3
  <2>2. CASE i # 1
    <3>1. i - 1 \in 1..(Len(q) - 1) /\ Tail(q)[i - 1] = q[i]
      BY <2>2, <1>2, <1>3
    <3> QED BY <3>1, <1>2 DEF Range
  <2> QED BY <2>1, <2>2
<1>7. ASSUME IsInjective(q)
      PROVE  IsInjective(Tail(q)) /\ Head(q) \notin Range(Tail(q))
  <2>1. IsInjective(Tail(q))
    <3> SUFFICES ASSUME NEW i \in 1..(Len(q) - 1), NEW k \in 1..(Len(q) - 1),
                        Tail(q)[i] = Tail(q)[k]
                 PROVE  i = k
      BY <1>2 DEF IsInjective
    <3>1. i + 1 \in DOMAIN q /\ k + 1 \in DOMAIN q /\ q[i + 1] = q[k + 1]
      BY <1>2, <1>3
    <3>2. i + 1 = k + 1
      BY <1>7, <3>1 DEF IsInjective
    <3> QED BY <3>2
  <2>2. Head(q) \notin Range(Tail(q))
    <3> SUFFICES ASSUME NEW i \in 1..(Len(q) - 1), Tail(q)[i] = Head(q)
                 PROVE  FALSE
      BY <1>2 DEF Range
    <3>1. i + 1 \in DOMAIN q /\ 1 \in DOMAIN q /\ q[i + 1] = q[1]
      BY <1>2, <1>3
    <3>2. i + 1 = 1
      BY <1>7, <3>1 DEF IsInjective
    <3> QED BY <3>2
  <2> QED BY <2>1, <2>2
<1> QED BY <1>1, <1>4, <1>5, <1>6, <1>7

=============================================================================
