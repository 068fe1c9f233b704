--------------------------- MODULE AgentBusProofs ---------------------------
(***************************************************************************)
(* What the bus guarantees for every set of agents, every policy and every *)
(* breaker setting, proved from BreakerCounts, which says which of the     *)
(* recorded failures a breaker has forgotten.                              *)
(* The second half is about AgentContext: what it guarantees of the        *)
(* requests the model gets, for every limit, history and store.            *)
(***************************************************************************)
EXTENDS AgentBus, AgentContext, FiniteSetTheorems, SequenceTheorems, WellFoundedInduction, TLAPS

(* Failures are recorded in order; the ones that a breaker does not count   *)
(* any more are Reset ticks old, and an open breaker was opened by the last *)
(* failure.                                                                 *)
BreakerCounts ==
  \A a \in Agents :
    /\ \A i, k \in 1..Len(strikes[a]) : i <= k => strikes[a][i] <= strikes[a][k]
    /\ \A i \in 1..Len(strikes[a]) : strikes[a][i] <= now
    /\ failures[a] <= Len(strikes[a])
    /\ \A i \in 1..(Len(strikes[a]) - failures[a]) : strikes[a][i] + Reset <= now
    /\ failures[a] >= Threshold => openedAt[a] = strikes[a][Len(strikes[a])]

-----------------------------------------------------------------------------
(* An envelope that send_message builds has the type of an envelope. *)
LEMMA EnvelopeType ==
  ASSUME NEW s \in Agents, NEW r \in Names, NEW type \in MessageTypes,
         NEW payload \in Payloads, now \in Nat
  PROVE  Envelope(s, r, type, payload) \in Envelopes
<1>1. Sanitize(payload, Trust[s]) \in Payloads
  BY DEF Sanitize, Payloads
<1>2. s \in Names
  BY AgentBusAssumption
<1>. QED
  BY <1>1, <1>2 DEF Envelope, Envelopes, Signature, Signed

(* Type correctness of the bus. *)
THEOREM BusTypeCorrect == Spec => []TypeOK
<1>1. Init => TypeOK
  BY DEF Init, RegisterAgents, TypeOK
<1>2. TypeOK /\ [Next]_vars => TypeOK'
  <2> SUFFICES ASSUME TypeOK, [Next]_vars PROVE TypeOK'
    OBVIOUS
  <2>1. ASSUME NEW s \in Names, NEW r \in Names, NEW type \in MessageTypes,
               NEW payload \in Payloads, SendMessage(s, r, type, payload)
        PROVE  TypeOK'
    <3>1. s \in Agents
      BY <2>1 DEF SendMessage
    <3>2. Envelope(s, r, type, payload) \in Envelopes
      BY <3>1, EnvelopeType DEF TypeOK
    <3>3. failures' \in [Agents -> Nat] /\ openedAt' \in [Agents -> Nat]
      <4>1. LookAtBreaker(s)
        BY <2>1 DEF SendMessage
      <4>2. CASE Recovered(s)
        <5>1. /\ failures' = [failures EXCEPT ![s] = 0]
              /\ openedAt' = [openedAt EXCEPT ![s] = 0]
          BY <4>1, <4>2 DEF LookAtBreaker
        <5>. QED
          BY <3>1, <5>1 DEF TypeOK
      <4>3. CASE ~Recovered(s)
        BY <4>1, <4>3 DEF LookAtBreaker, TypeOK
      <4>. QED
        BY <4>2, <4>3
    <3>4. sent' \subseteq [message : Envelopes, strikes : Seq(Nat)]
      <4>1. strikes[s] \in Seq(Nat)
        BY <3>1 DEF TypeOK
      <4>2. CASE sent' = sent \cup {[message |-> Envelope(s, r, type, payload),
                                     strikes |-> strikes[s]]}
        BY <3>2, <4>1, <4>2 DEF TypeOK
      <4>3. CASE sent' = sent
        BY <4>3 DEF TypeOK
      <4>. QED
        BY <2>1, <4>2, <4>3 DEF SendMessage
    <3>. QED
      BY <2>1, <3>3, <3>4 DEF SendMessage, TypeOK
  <2>3. ASSUME NEW a \in Agents, RecordFailure(a) PROVE TypeOK'
    BY <2>3 DEF RecordFailure, TypeOK
  <2>4. CASE Tick
    BY <2>4 DEF Tick, TypeOK
  <2>5. CASE UNCHANGED vars
    BY <2>5 DEF vars, TypeOK
  <2>. QED
    BY <2>1, <2>3, <2>4, <2>5 DEF Next
<1>. QED
  BY <1>1, <1>2, PTL DEF Spec

-----------------------------------------------------------------------------
(* A breaker that is closed when it is looked at has fewer than Threshold  *)
(* failures that are younger than Reset.                                   *)
LEMMA ClosedMeansOld ==
  ASSUME TypeOK, BreakerCounts, NEW a \in Agents, ~IsOpen(a),
         Len(strikes[a]) >= Threshold
  PROVE  strikes[a][Len(strikes[a]) - Threshold + 1] + Reset <= now
<1> DEFINE n == Len(strikes[a])
           k == n - Threshold + 1
<1>1. /\ n \in Nat /\ now \in Nat /\ failures[a] \in Nat /\ openedAt[a] \in Nat
      /\ Threshold \in Nat \ {0} /\ Reset \in Nat \ {0}
      /\ strikes[a] \in Seq(Nat)
  BY AgentBusAssumption DEF TypeOK
<1>a. k \in 1..n /\ n \in 1..n /\ k <= n
  BY <1>1
<1>b. \A i, j \in 1..n : i <= j => strikes[a][i] <= strikes[a][j]
  BY DEF BreakerCounts
<1>c. \A i \in 1..n : strikes[a][i] \in Nat
  BY <1>1
<1>2. /\ strikes[a][k] \in Nat /\ strikes[a][n] \in Nat
      /\ strikes[a][k] <= strikes[a][n]
  <2> HIDE DEF n, k
  <2>. QED
    BY <1>a, <1>b, <1>c
<1>3. CASE failures[a] < Threshold
  <2>1. k \in 1..(n - failures[a])
    BY <1>1, <1>3, SMTT(30)
  <2>. QED
    BY <2>1 DEF BreakerCounts
<1>4. CASE failures[a] >= Threshold
  <2>1. openedAt[a] = strikes[a][n]
    BY <1>4 DEF BreakerCounts
  <2>2. now - openedAt[a] >= Reset
    BY <1>4 DEF IsOpen, Recovered
  <2>3. strikes[a][k] + Reset <= now
    <3> HIDE DEF n, k
    <3>1. ASSUME NEW x \in Nat, NEW y \in Nat, x <= y, now - y >= Reset
          PROVE  x + Reset <= now
      BY <1>1, <3>1
    <3>2. now - strikes[a][n] >= Reset
      BY <2>1, <2>2
    <3>. QED
      BY <1>2, <3>1, <3>2
  <2>. QED
    BY <2>3
<1>. QED
  BY <1>1, <1>3, <1>4

(* What looking at a breaker does to it keeps the count right. *)
LEMMA LookKeepsCounts ==
  ASSUME TypeOK, BreakerCounts, NEW a \in Agents, LookAtBreaker(a),
         strikes' = strikes, now' = now
  PROVE  BreakerCounts'
<1>1. CASE ~Recovered(a)
  BY <1>1 DEF LookAtBreaker, BreakerCounts
<1>2. CASE Recovered(a)
  <2> DEFINE n == Len(strikes[a])
  <2>1. /\ failures' = [failures EXCEPT ![a] = 0]
        /\ openedAt' = [openedAt EXCEPT ![a] = 0]
    BY <1>2 DEF LookAtBreaker
  <2>2. /\ n \in Nat /\ now \in Nat /\ failures[a] \in Nat /\ Threshold \in Nat \ {0}
        /\ Reset \in Nat \ {0} /\ strikes[a] \in Seq(Nat)
    BY AgentBusAssumption DEF TypeOK
  <2>3. openedAt[a] = strikes[a][n] /\ now - openedAt[a] >= Reset
    BY <1>2 DEF Recovered, BreakerCounts
  <2>4. n >= 1
    BY <1>2, <2>2 DEF Recovered, BreakerCounts
  <2>5. ASSUME NEW i \in 1..n PROVE strikes[a][i] + Reset <= now
    <3>1. strikes[a][i] <= strikes[a][n]
      BY <2>2, <2>4 DEF BreakerCounts
    <3>2. strikes[a][i] \in Nat /\ strikes[a][n] \in Nat
      BY <2>2, <2>4
    <3>. QED
      BY <2>2, <2>3, <3>1, <3>2, SMTT(30)
  <2> SUFFICES ASSUME NEW b \in Agents
      PROVE /\ failures'[b] <= Len(strikes[b])
            /\ \A i \in 1..(Len(strikes[b]) - failures'[b]) : strikes[b][i] + Reset <= now
            /\ failures'[b] >= Threshold => openedAt'[b] = strikes[b][Len(strikes[b])]
    BY DEF BreakerCounts
  <2>6. CASE b = a
    <3>1. failures'[a] = 0
      BY <2>1 DEF TypeOK
    <3>. QED
      BY <2>2, <2>5, <2>6, <3>1
  <2>7. CASE b # a
    BY <2>1, <2>7 DEF BreakerCounts, TypeOK
  <2>. QED
    BY <2>6, <2>7
<1>. QED
  BY <1>1, <1>2

LEMMA FailureKeepsCounts ==
  ASSUME TypeOK, BreakerCounts, NEW a \in Agents, RecordFailure(a)
  PROVE  BreakerCounts'
<1> DEFINE n == Len(strikes[a])
           f == failures[a] + 1
           s == Append(strikes[a], now)
<1>1. /\ n \in Nat /\ now \in Nat /\ failures[a] \in Nat /\ strikes[a] \in Seq(Nat)
      /\ Threshold \in Nat \ {0} /\ Reset \in Nat \ {0}
  BY AgentBusAssumption DEF TypeOK
<1>2. /\ failures' = [failures EXCEPT ![a] = f]
      /\ strikes' = [strikes EXCEPT ![a] = s]
      /\ openedAt' = [openedAt EXCEPT ![a] = IF f >= Threshold THEN now ELSE @]
      /\ now' = now
  BY DEF RecordFailure
<1>3. /\ Len(s) = n + 1 /\ s[n + 1] = now
      /\ \A i \in 1..n : s[i] = strikes[a][i] /\ s[i] \in Nat
  BY <1>1, SMTT(30)
<1>4. \A i \in 1..(n + 1) : s[i] <= now
  <2>1. \A i \in 1..n : s[i] <= now
    BY <1>3 DEF BreakerCounts
  <2>. QED
    BY <1>1, <1>3, <2>1
<1>5. \A i, k \in 1..(n + 1) : i <= k => s[i] <= s[k]
  <2> SUFFICES ASSUME NEW i \in 1..(n + 1), NEW k \in 1..(n + 1), i <= k
               PROVE  s[i] <= s[k]
    OBVIOUS
  <2>1. CASE k = n + 1
    BY <1>3, <1>4, <2>1
  <2>2. CASE k # n + 1
    <3>1. i \in 1..n /\ k \in 1..n
      BY <1>1, <2>2, SMTT(30)
    <3>. QED
      BY <1>3, <3>1 DEF BreakerCounts
  <2>. QED
    BY <2>1, <2>2
<1>6. \A i \in 1..((n + 1) - f) : s[i] + Reset <= now
  <2>1. \A i \in 1..((n + 1) - f) : i \in 1..n /\ i \in 1..(n - failures[a])
    BY <1>1, SMTT(30)
  <2>. QED
    BY <1>3, <2>1 DEF BreakerCounts
<1>7. f <= n + 1
  BY <1>1 DEF BreakerCounts
<1> SUFFICES ASSUME NEW b \in Agents
    PROVE /\ \A i, k \in 1..Len(strikes'[b]) : i <= k => strikes'[b][i] <= strikes'[b][k]
          /\ \A i \in 1..Len(strikes'[b]) : strikes'[b][i] <= now'
          /\ failures'[b] <= Len(strikes'[b])
          /\ \A i \in 1..(Len(strikes'[b]) - failures'[b]) : strikes'[b][i] + Reset <= now'
          /\ failures'[b] >= Threshold => openedAt'[b] = strikes'[b][Len(strikes'[b])]
  BY DEF BreakerCounts
<1>8. CASE b = a
  <2>1. /\ strikes'[b] = s /\ failures'[b] = f
        /\ openedAt'[b] = IF f >= Threshold THEN now ELSE openedAt[a]
    BY <1>2, <1>8 DEF TypeOK
  <2>. QED
    BY <1>2, <1>3, <1>4, <1>5, <1>6, <1>7, <2>1
<1>9. CASE b # a
  <2>1. strikes'[b] = strikes[b] /\ failures'[b] = failures[b] /\ openedAt'[b] = openedAt[b]
    BY <1>2, <1>9 DEF TypeOK
  <2>. QED
    BY <1>2, <2>1 DEF BreakerCounts
<1>. QED
  BY <1>8, <1>9

LEMMA StepKeepsCounts ==
  ASSUME TypeOK, BreakerCounts, [Next]_vars PROVE BreakerCounts'
<1>1. ASSUME NEW s \in Names, NEW r \in Names, NEW type \in MessageTypes,
             NEW payload \in Payloads, SendMessage(s, r, type, payload)
      PROVE  BreakerCounts'
  BY <1>1, LookKeepsCounts DEF SendMessage
<1>3. ASSUME NEW a \in Agents, RecordFailure(a) PROVE BreakerCounts'
  BY <1>3, FailureKeepsCounts
<1>4. CASE Tick
  <2>1. /\ strikes' = strikes /\ failures' = failures /\ openedAt' = openedAt
        /\ now' = now + 1 /\ now \in Nat
    BY <1>4 DEF Tick, TypeOK
  <2>2. ASSUME NEW a \in Agents, NEW i \in 1..Len(strikes[a])
        PROVE  strikes[a][i] \in Nat /\ strikes[a][i] + Reset \in Nat
    BY AgentBusAssumption DEF TypeOK
  <2>3. ASSUME NEW a \in Agents, NEW i \in 1..(Len(strikes[a]) - failures[a])
        PROVE  i \in 1..Len(strikes[a])
    BY DEF TypeOK
  <2>. QED
    BY <2>1, <2>2, <2>3 DEF BreakerCounts
<1>5. CASE UNCHANGED vars
  BY <1>5 DEF vars, BreakerCounts
<1>. QED
  BY <1>1, <1>3, <1>4, <1>5 DEF Next

(* With Threshold failures in the last Reset ticks an agent cannot send,    *)
(* and an agent that cannot send has failed in the last Reset ticks.        *)
THEOREM BreakerIsRight == Spec => []BreakerIsExact
<1>1. Init => BreakerCounts /\ BreakerHolds
  BY AgentBusAssumption DEF Init, RegisterAgents, BreakerCounts, BreakerHolds
<1>2. ASSUME TypeOK, BreakerCounts, BreakerHolds, [Next]_vars PROVE BreakerHolds'
  <2>1. ASSUME NEW s \in Names, NEW r \in Names, NEW type \in MessageTypes,
               NEW payload \in Payloads, SendMessage(s, r, type, payload)
        PROVE  BreakerHolds'
    <3> DEFINE e == Envelope(s, r, type, payload)
               y == [message |-> e, strikes |-> strikes[s]]
    <3>1. s \in Agents /\ ~IsOpen(s)
      BY <2>1 DEF SendMessage
    <3>2. e.at = now
      BY DEF Envelope
    <3>3. Len(strikes[s]) >= Threshold =>
            strikes[s][Len(strikes[s]) - Threshold + 1] + Reset <= e.at
      BY <1>2, <3>1, <3>2, ClosedMeansOld
    <3>4. sent' = sent \/ sent' = sent \cup {y}
      BY <2>1 DEF SendMessage
    <3>. HIDE DEF e
    <3>. QED
      BY <1>2, <3>3, <3>4 DEF BreakerHolds
  <2>3. ASSUME NEW a \in Agents, RecordFailure(a) PROVE BreakerHolds'
    BY <1>2, <2>3 DEF RecordFailure, BreakerHolds
  <2>4. CASE Tick
    BY <1>2, <2>4 DEF Tick, BreakerHolds
  <2>5. CASE UNCHANGED vars
    BY <1>2, <2>5 DEF vars, BreakerHolds
  <2>. QED
    BY <1>2, <2>1, <2>3, <2>4, <2>5 DEF Next
<1>3. ASSUME TypeOK, BreakerCounts PROVE BreakerRecovers
  <2> SUFFICES ASSUME NEW a \in Agents, IsOpen(a)
               PROVE  \E i \in 1..Len(strikes[a]) : strikes[a][i] + Reset > now
    BY DEF BreakerRecovers
  <2> DEFINE n == Len(strikes[a])
  <2>1. /\ n \in Nat /\ now \in Nat /\ failures[a] \in Nat /\ openedAt[a] \in Nat
        /\ Threshold \in Nat \ {0} /\ Reset \in Nat \ {0}
    BY <1>3, AgentBusAssumption DEF TypeOK
  <2>2. failures[a] >= Threshold /\ ~(now - openedAt[a] >= Reset)
    BY DEF IsOpen, Recovered
  <2>3. openedAt[a] = strikes[a][n] /\ failures[a] <= n
    BY <1>3, <2>2 DEF BreakerCounts
  <2>4. n \in 1..n /\ strikes[a][n] + Reset > now
    BY <2>1, <2>2, <2>3
  <2>. QED
    BY <2>4
<1>4. Spec => [](BreakerCounts /\ BreakerHolds)
  BY <1>1, <1>2, StepKeepsCounts, BusTypeCorrect, PTL DEF Spec
<1>5. BreakerHolds /\ BreakerRecovers => BreakerIsExact
  BY DEF BreakerIsExact
<1>. QED
  BY <1>3, <1>4, <1>5, BusTypeCorrect, PTL

-----------------------------------------------------------------------------
(***************************************************************************)
(* What an agent is shown (AgentContext), for every limit, history and     *)
(* store.  First the arrangement of a list by an order on its indices,     *)
(* which trimming and the query of the memory share.                       *)
(***************************************************************************)
(* Every nonempty set of natural numbers has a least element. *)
LEMMA LeastNumber ==
  ASSUME NEW S, S \subseteq Nat, S # {}
  PROVE  \E x \in S : \A y \in S : x <= y
<1>1. PICK x \in S : \A y \in S : ~ (<<y, x>> \in OpToRel(<, Nat))
  BY NatLessThanWellFounded, WFMin
<1>2. \A y \in S : ~(y < x)
  BY <1>1 DEF OpToRel
<1>. QED
  BY <1>2

(* A nonempty set of numbers up to n has a greatest element. *)
LEMMA GreatestNumber ==
  ASSUME NEW n \in Nat, NEW S, S \subseteq 0..n, S # {}
  PROVE  \E x \in S : \A y \in S : y <= x
<1>1. PICK T : T = {u \in Nat : n - u \in S}
  OBVIOUS
<1>2. PICK z \in S : z \in 0..n
  OBVIOUS
<1>a. n - z \in T
  BY <1>1, <1>2
<1>b. T \subseteq Nat /\ T # {}
  BY <1>1, <1>a
<1>3. PICK t \in T : \A u \in T : t <= u
  BY <1>b, LeastNumber
<1>4. t \in Nat /\ n - t \in S
  BY <1>1, <1>3
<1>5. ASSUME NEW y \in S PROVE y <= n - t
  <2>1. y \in 0..n /\ n - (n - y) = y
    OBVIOUS
  <2>2. n - y \in T
    BY <1>1, <2>1
  <2>. QED
    BY <2>1, <2>2, <1>3, <1>4
<1>. QED
  BY <1>4, <1>5

(* How many elements of I are before i. *)
Rank(I, R, i) == Cardinality({l \in I : <<l, i>> \in R})

(* R is a strict total order on I. *)
Orders(R, I) ==
  /\ \A x \in I : <<x, x>> \notin R
  /\ \A x, y, z \in I : <<x, y>> \in R /\ <<y, z>> \in R => <<x, z>> \in R
  /\ \A x, y \in I : x # y => <<x, y>> \in R \/ <<y, x>> \in R

(* What is later in the order has the higher rank. *)
LEMMA RankGrows ==
  ASSUME NEW I, IsFiniteSet(I), NEW R, Orders(R, I),
         NEW i \in I, NEW k \in I, <<i, k>> \in R
  PROVE  Rank(I, R, i) < Rank(I, R, k)
<1>1. PICK A : A = {l \in I : <<l, i>> \in R}
  OBVIOUS
<1>2. PICK B : B = {l \in I : <<l, k>> \in R}
  OBVIOUS
<1>3. A \subseteq B /\ i \in B /\ i \notin A
  BY <1>1, <1>2 DEF Orders
<1>4. IsFiniteSet(B) /\ A \in SUBSET B /\ A # B
  BY <1>2, <1>3, FS_Subset
<1>5. IsFiniteSet(A)
  BY <1>4, FS_Subset
<1>6. Cardinality(A) <= Cardinality(B) /\ Cardinality(B) # Cardinality(A)
  BY <1>4, FS_Subset
<1>7. Cardinality(A) \in Nat /\ Cardinality(B) \in Nat
  BY <1>4, <1>5, FS_CardinalityType
<1>. QED
  BY <1>1, <1>2, <1>6, <1>7 DEF Rank

(* A rank is a number below the size of I. *)
LEMMA RankRange ==
  ASSUME NEW I, IsFiniteSet(I), NEW R, Orders(R, I), NEW i \in I
  PROVE  Rank(I, R, i) \in 0..(Cardinality(I) - 1)
<1>1. PICK A : A = {l \in I : <<l, i>> \in R}
  OBVIOUS
<1>2. A \in SUBSET I /\ i \notin A /\ A # I
  BY <1>1 DEF Orders
<1>3. IsFiniteSet(A) /\ Cardinality(A) <= Cardinality(I) /\ Cardinality(I) # Cardinality(A)
  BY <1>2, FS_Subset
<1>4. Cardinality(A) \in Nat /\ Cardinality(I) \in Nat
  BY <1>3, FS_CardinalityType
<1>. QED
  BY <1>1, <1>3, <1>4 DEF Rank

(* Every number below the size of I is the rank of one of its elements, so  *)
(* that the CHOOSE of Arranged always finds one.                            *)
LEMMA RankOnto ==
  ASSUME NEW I, IsFiniteSet(I), NEW R, Orders(R, I), NEW k \in 1..Cardinality(I)
  PROVE  \E i \in I : Rank(I, R, i) = k - 1
<1>1. Cardinality(I) \in Nat
  BY FS_CardinalityType
<1>2. PICK T : T = 0..(Cardinality(I) - 1)
  OBVIOUS
<1>3. PICK f : f = [i \in I |-> Rank(I, R, i)]
  OBVIOUS
<1>4. f \in [I -> T]
  BY <1>2, <1>3, RankRange
<1>5. ASSUME NEW x \in I, NEW y \in I, x # y
      PROVE  f[x] # f[y]
  <2>1. <<x, y>> \in R \/ <<y, x>> \in R
    BY <1>5 DEF Orders
  <2>2. f[x] < f[y] \/ f[y] < f[x]
    BY <2>1, <1>3, RankGrows
  <2>3. f[x] \in Nat /\ f[y] \in Nat
    BY <1>1, <1>2, <1>4
  <2>. QED
    BY <2>2, <2>3
<1>6. f \in Injection(I, T)
  BY <1>4, <1>5 DEF Injection, IsInjective
<1>7. IsFiniteSet(T) /\ Cardinality(T) = Cardinality(I)
  BY <1>1, <1>2, FS_Interval
<1>8. f \in Surjection(I, T)
  BY <1>6, <1>7, FS_Injection
<1>9. k - 1 \in T
  BY <1>1, <1>2
<1>10. PICK i \in I : f[i] = k - 1
  BY <1>8, <1>9 DEF Surjection
<1>. QED
  BY <1>3, <1>10


(* p lists the indices I in the order R. *)
Lists(p, I, R) ==
  /\ p \in [1..Cardinality(I) -> I]
  /\ \A k, l \in 1..Cardinality(I) : k < l => <<p[k], p[l]>> \in R
  /\ \A i \in I : p[Rank(I, R, i) + 1] = i /\ Rank(I, R, i) + 1 \in 1..Cardinality(I)

(* What Arranged makes of the indices I, in the order R: the elements at   *)
(* these indices, every one once, in that order.                           *)
LEMMA ArrangedShape ==
  ASSUME NEW s, NEW I, IsFiniteSet(I), NEW R, Orders(R, I)
  PROVE  \E p : Lists(p, I, R) /\ Arranged(s, I, R) = [k \in 1..Cardinality(I) |-> s[p[k]]]
<1>1. PICK p : p = [k \in 1..Cardinality(I) |-> CHOOSE i \in I : Rank(I, R, i) = k - 1]
  OBVIOUS
<1>2. Cardinality(I) \in Nat
  BY FS_CardinalityType
<1>3. ASSUME NEW k \in 1..Cardinality(I)
      PROVE  p[k] \in I /\ Rank(I, R, p[k]) = k - 1
  <2>1. \E i \in I : Rank(I, R, i) = k - 1
    BY RankOnto
  <2>2. p[k] = CHOOSE i \in I : Rank(I, R, i) = k - 1
    BY <1>1
  <2>. QED
    BY <2>1, <2>2
<1>4. p \in [1..Cardinality(I) -> I]
  BY <1>1, <1>3
<1>5. Arranged(s, I, R) = [k \in 1..Cardinality(I) |-> s[p[k]]]
  BY <1>1 DEF Arranged, Rank
<1>6. ASSUME NEW i \in I, NEW k \in I, Rank(I, R, i) = Rank(I, R, k)
      PROVE  i = k
  <2>1. CASE <<i, k>> \in R
    <3>1. Rank(I, R, i) < Rank(I, R, k)
      BY <2>1, RankGrows
    <3>. QED
      BY <3>1, <1>6, RankRange, <1>2
  <2>2. CASE <<k, i>> \in R
    <3>1. Rank(I, R, k) < Rank(I, R, i)
      BY <2>2, RankGrows
    <3>. QED
      BY <3>1, <1>6, RankRange, <1>2
  <2>. QED
    BY <2>1, <2>2 DEF Orders
<1>7. ASSUME NEW k \in 1..Cardinality(I), NEW l \in 1..Cardinality(I), k < l
      PROVE  <<p[k], p[l]>> \in R
  <2>1. /\ p[k] \in I /\ Rank(I, R, p[k]) = k - 1
        /\ p[l] \in I /\ Rank(I, R, p[l]) = l - 1
    BY <1>3
  <2>2. p[k] # p[l]
    BY <2>1, <1>7, <1>2
  <2>3. CASE <<p[l], p[k]>> \in R
    <3>1. Rank(I, R, p[l]) < Rank(I, R, p[k])
      BY <2>1, <2>3, RankGrows
    <3>. QED
      BY <3>1, <2>1, <1>7, <1>2
  <2>. QED
    BY <2>1, <2>2, <2>3 DEF Orders
<1>8. ASSUME NEW i \in I
      PROVE  p[Rank(I, R, i) + 1] = i /\ Rank(I, R, i) + 1 \in 1..Cardinality(I)
  <2>1. Rank(I, R, i) \in 0..(Cardinality(I) - 1)
    BY RankRange
  <2>2. PICK k \in 1..Cardinality(I) : k = Rank(I, R, i) + 1
    BY <2>1, <1>2
  <2>3. p[k] \in I /\ Rank(I, R, p[k]) = Rank(I, R, i)
    BY <1>3, <2>1, <2>2, <1>2
  <2>. QED
    BY <2>2, <2>3, <1>6
<1>. QED
  BY <1>4, <1>5, <1>7, <1>8 DEF Lists

-----------------------------------------------------------------------------
(* The messages of a request, and when a list of them is well formed: what *)
(* ResultsHaveCalls says of the messages that are shown.                   *)
Messages == [role : {"human", "ai", "tool", "memory"}, text : Texts, calls : Nat, call : Nat]

HasCall(ms, i) ==
  \E k \in 1..(i - 1) : /\ ms[k].role = "ai" /\ ms[k].calls >= ms[i].call
                        /\ \A l \in (k + 1)..(i - 1) : ms[l].role = "tool"

WellFormed(ms) == \A i \in 1..Len(ms) : ms[i].role = "tool" => HasCall(ms, i)

(* Every result has its call, except for those at the beginning. *)
Headless(ms) ==
  \A i \in 1..Len(ms) : ms[i].role = "tool" =>
    HasCall(ms, i) \/ \A l \in 1..(i - 1) : ms[l].role = "tool"

(* From f on, ms is what out is from g on. *)
EndsAlike(ms, f, out, g) ==
  /\ f \in 1..Len(ms) /\ g \in 1..Len(out) /\ Len(ms) - f = Len(out) - g
  /\ \A j \in 0..(Len(ms) - f) : out[g + j] = ms[f + j]

(* Every message of out is one of ms. *)
PartOf(out, ms) == \A k \in 1..Len(out) : \E i \in 1..Len(ms) : out[k] = ms[i]

(* Indices are ordered by Earlier. *)
LEMMA EarlierOrders ==
  ASSUME NEW I, I \subseteq Nat
  PROVE  /\ Orders(Earlier(I), I)
         /\ \A x, y \in I : <<x, y>> \in Earlier(I) <=> x < y
<1>1. \A x, y \in I : <<x, y>> \in Earlier(I) <=> x < y
  BY DEF Earlier
<1>. QED
  BY <1>1 DEF Orders

(* A function on 1..n is a sequence of n elements. *)
LEMMA FunctionIsSeq ==
  ASSUME NEW S, NEW n \in Nat, NEW q \in [1..n -> S]
  PROVE  q \in Seq(S) /\ Len(q) = n
OBVIOUS

(* p says where in ms the elements of out come from: the indices I. *)
Embeds(p, ms, I, out) ==
  /\ p \in [1..Len(out) -> I]
  /\ \A k \in 1..Len(out) : out[k] = ms[p[k]]
  /\ \A k, l \in 1..Len(out) : k < l => p[k] < p[l]
  /\ \A i \in I : \E k \in 1..Len(out) : p[k] = i /\ k = Rank(I, Earlier(I), i) + 1

(* The elements that are kept, in their order. *)
LEMMA KeptShape ==
  ASSUME NEW ms \in Seq(Messages), NEW I, I \subseteq 1..Len(ms),
         NEW out, out = Arranged(ms, I, Earlier(I))
  PROVE  /\ out \in Seq(Messages) /\ Len(out) = Cardinality(I) /\ IsFiniteSet(I)
         /\ \E p : Embeds(p, ms, I, out)
<1>1. PICK n \in Nat : n = Len(ms)
  OBVIOUS
<1>2. IsFiniteSet(I)
  <2>1. IsFiniteSet(1..n)
    BY FS_Interval
  <2>2. I \in SUBSET (1..n)
    BY <1>1
  <2>. QED
    BY <2>1, <2>2, FS_Subset
<1>3. I \subseteq Nat
  BY <1>1
<1>4. PICK c \in Nat : c = Cardinality(I)
  BY <1>2, FS_CardinalityType
<1>5. PICK R : R = Earlier(I)
  OBVIOUS
<1>6. Orders(R, I) /\ \A x, y \in I : <<x, y>> \in R <=> x < y
  BY <1>3, <1>5, EarlierOrders
<1>7. PICK p : Lists(p, I, R) /\ Arranged(ms, I, R) = [k \in 1..Cardinality(I) |-> ms[p[k]]]
  BY <1>2, <1>6, ArrangedShape
<1>8. p \in [1..c -> I] /\ out = [k \in 1..c |-> ms[p[k]]]
  BY <1>4, <1>5, <1>7 DEF Lists
<1>9. \A k \in 1..c : p[k] \in I /\ p[k] \in 1..n
  BY <1>1, <1>8
<1>10. \A k \in 1..c : ms[p[k]] \in Messages
  BY <1>1, <1>9
<1>11. out \in [1..c -> Messages]
  BY <1>8, <1>10
<1>12. out \in Seq(Messages) /\ Len(out) = c
  BY <1>11, FunctionIsSeq
<1>13. \A k \in 1..c : out[k] = ms[p[k]]
  BY <1>8
<1>14. \A k, l \in 1..c : k < l => p[k] < p[l]
  BY <1>4, <1>6, <1>7, <1>9 DEF Lists
<1>15. \A i \in I : \E k \in 1..c : p[k] = i /\ k = Rank(I, R, i) + 1
  BY <1>4, <1>7 DEF Lists
<1>. QED
  BY <1>2, <1>4, <1>5, <1>8, <1>12, <1>13, <1>14, <1>15, ZenonT(60) DEF Embeds

(* Without some of the tool results a well-formed history stays so. *)
LEMMA KeptWellFormed ==
  ASSUME NEW ms \in Seq(Messages), WellFormed(ms), NEW I, I \subseteq 1..Len(ms),
         \A i \in 1..Len(ms) : ms[i].role # "tool" => i \in I,
         NEW out, out = Arranged(ms, I, Earlier(I))
  PROVE  WellFormed(out)
<1>0. PICK p : Embeds(p, ms, I, out)
  BY KeptShape
<1>2. PICK c \in Nat : c = Len(out)
  BY KeptShape
<1>1. /\ p \in [1..c -> I]
      /\ \A k \in 1..c : out[k] = ms[p[k]]
      /\ \A k, l \in 1..c : k < l => p[k] < p[l]
      /\ \A i \in I : \E k \in 1..c : p[k] = i
  BY <1>0, <1>2 DEF Embeds
<1>3. PICK n \in Nat : n = Len(ms)
  OBVIOUS
<1>4. SUFFICES ASSUME NEW i \in 1..c, out[i].role = "tool"
      PROVE  HasCall(out, i)
  BY <1>2 DEF WellFormed
<1>5. p[i] \in 1..n /\ ms[p[i]].role = "tool"
  BY <1>1, <1>2, <1>3, <1>4
<1>6. PICK a \in 1..(p[i] - 1) :
        /\ ms[a].role = "ai" /\ ms[a].calls >= ms[p[i]].call
        /\ \A l \in (a + 1)..(p[i] - 1) : ms[l].role = "tool"
  BY <1>3, <1>5 DEF WellFormed, HasCall
<1>7. PICK k \in 1..c : p[k] = a
  <2>1. a \in 1..n
    BY <1>5
  <2>2. a \in I
    BY <1>3, <1>6, <2>1
  <2>. QED
    BY <1>1, <1>2, <2>2
<1>8. k \in 1..(i - 1)
  <2>1. p[k] < p[i]
    BY <1>5, <1>7
  <2>2. p[k] \in Nat /\ p[i] \in Nat
    BY <1>5, <1>6, <1>7
  <2>3. ~(i < k)
    BY <1>1, <2>1, <2>2
  <2>. QED
    BY <1>2, <2>1, <2>2, <2>3
<1>9. out[k].role = "ai" /\ out[k].calls >= out[i].call
  BY <1>1, <1>2, <1>6, <1>7
<1>10. ASSUME NEW l \in (k + 1)..(i - 1)
       PROVE  out[l].role = "tool"
  <2>1. l \in 1..c /\ k < l /\ l < i
    BY <1>2, <1>8
  <2>2. p[k] < p[l] /\ p[l] < p[i] /\ p[l] \in 1..n
    BY <1>1, <1>2, <1>3, <2>1
  <2>3. p[l] \in (a + 1)..(p[i] - 1)
    BY <1>5, <1>7, <2>2
  <2>. QED
    BY <1>1, <1>2, <1>6, <2>1, <2>3, SMTT(40)
<1>. QED
  BY <1>8, <1>9, <1>10 DEF HasCall

(* When everything from f on is kept, the end stays as it is. *)
LEMMA KeptEnd ==
  ASSUME NEW ms \in Seq(Messages), NEW I, I \subseteq 1..Len(ms),
         NEW f \in 1..Len(ms), f..Len(ms) \subseteq I,
         NEW out, out = Arranged(ms, I, Earlier(I))
  PROVE  \E g \in 1..Len(out) : EndsAlike(ms, f, out, g)
<1>0. PICK p : Embeds(p, ms, I, out)
  BY KeptShape
<1>a. out \in Seq(Messages)
  BY KeptShape
<1>2. PICK c \in Nat : c = Len(out)
  BY <1>a
<1>1. /\ \A k \in 1..c : out[k] = ms[p[k]]
      /\ \A i \in I : \E k \in 1..c : p[k] = i /\ k = Rank(I, Earlier(I), i) + 1
  BY <1>0, <1>2 DEF Embeds
<1>3. PICK n \in Nat : n = Len(ms)
  OBVIOUS
<1>4. IsFiniteSet(I) /\ Cardinality(I) = c
  BY <1>2, KeptShape
<1>5. ASSUME NEW i \in f..n
      PROVE  c - (n - i) \in 1..c /\ out[c - (n - i)] = ms[i]
  <2>1. i \in I
    BY <1>3
  <2>2. PICK k \in 1..c : p[k] = i /\ k = Rank(I, Earlier(I), i) + 1
    BY <1>1, <1>2, <2>1
  <2>3. Rank(I, Earlier(I), i) = Cardinality(I \ (i..n))
    <3>1. I \subseteq Nat
      BY <1>3
    <3>2. \A l \in I : <<l, i>> \in Earlier(I) <=> l < i
      BY <2>1, <3>1, EarlierOrders
    <3>3. \A l \in I : l < i <=> l \notin i..n
      BY <1>3
    <3>4. {l \in I : <<l, i>> \in Earlier(I)} = I \ (i..n)
      BY <3>2, <3>3
    <3>. QED
      BY <3>4 DEF Rank
  <2>4. Cardinality(I \ (i..n)) = Cardinality(I) - Cardinality(I \cap (i..n))
    BY <1>4, FS_Difference
  <2>5. I \cap (i..n) = i..n
    BY <1>3
  <2>6. Cardinality(i..n) = n - i + 1
    BY <1>3, FS_Interval
  <2>7. Rank(I, Earlier(I), i) = c - (n - i + 1)
    BY <1>4, <2>3, <2>4, <2>5, <2>6
  <2>8. k = c - (n - i + 1) + 1
    BY <2>2, <2>7
  <2>9. k = c - (n - i)
    BY <1>3, <2>8
  <2>. QED
    BY <1>1, <1>2, <2>2, <2>9
<1>6. PICK g : g = c - (n - f)
  OBVIOUS
<1>7. g \in 1..c /\ n - f = c - g
  BY <1>3, <1>5, <1>6
<1>8. \A j \in 0..(n - f) : out[g + j] = ms[f + j]
  <2>1. TAKE j \in 0..(n - f)
  <2>2. f + j \in f..n /\ c - (n - (f + j)) = g + j
    BY <1>3, <1>6
  <2>. QED
    BY <1>5, <2>2
<1>. QED
  BY <1>2, <1>3, <1>7, <1>8 DEF EndsAlike

(* The end of a sequence, from a on. *)
LEMMA Suffix ==
  ASSUME NEW ms \in Seq(Messages), NEW a \in 1..(Len(ms) + 1),
         NEW out, out = SubSeq(ms, a, Len(ms))
  PROVE  /\ out \in Seq(Messages) /\ Len(out) = Len(ms) - a + 1
         /\ \A k \in 1..Len(out) : out[k] = ms[k + a - 1] /\ k + a - 1 \in 1..Len(ms)
<1>1. PICK n \in Nat : n = Len(ms)
  OBVIOUS
<1>2. Len(out) = n - a + 1 /\ \A k \in 1..(n - a + 1) : out[k] = ms[a + k - 1]
  BY <1>1, SubSeqProperties
<1>3. out \in Seq(Messages)
  BY <1>1, SubSeqProperties
<1>4. \A k \in 1..(n - a + 1) : k + a - 1 \in 1..n /\ k + a - 1 = a + k - 1
  BY <1>1
<1>. QED
  BY <1>1, <1>2, <1>3, <1>4

(* A history cut at the front has its orphaned results at the beginning. *)
LEMMA SuffixHeadless ==
  ASSUME NEW ms \in Seq(Messages), WellFormed(ms), NEW a \in 1..(Len(ms) + 1),
         NEW out, out = SubSeq(ms, a, Len(ms))
  PROVE  Headless(out)
<1>1. PICK n \in Nat : n = Len(ms)
  OBVIOUS
<1>a. a \in 1..(Len(ms) + 1)
  BY <1>1
<1>b. Len(out) = Len(ms) - a + 1
  BY <1>a, Suffix
<1>2. PICK c \in Nat : c = Len(out) /\ c = n - a + 1
  BY <1>a, <1>b, <1>1
<1>3. \A k \in 1..c : out[k] = ms[k + a - 1] /\ k + a - 1 \in 1..n
  BY <1>a, <1>1, <1>2, Suffix
<1>4. SUFFICES ASSUME NEW i \in 1..c, out[i].role = "tool"
      PROVE  HasCall(out, i) \/ \A l \in 1..(i - 1) : out[l].role = "tool"
  BY <1>2 DEF Headless
<1>5. PICK j \in 1..n : j = i + a - 1
  BY <1>3
<1>6. ms[j].role = "tool" /\ ms[j] = out[i]
  BY <1>3, <1>4, <1>5
<1>7. PICK b \in 1..(j - 1) : /\ ms[b].role = "ai" /\ ms[b].calls >= ms[j].call
                              /\ \A l \in (b + 1)..(j - 1) : ms[l].role = "tool"
  BY <1>1, <1>6 DEF WellFormed, HasCall
<1>8. CASE b < a
  <2>1. ASSUME NEW l \in 1..(i - 1) PROVE out[l].role = "tool"
    <3>1. l + a - 1 \in (b + 1)..(j - 1) /\ l \in 1..c
      BY <1>1, <1>2, <1>5, <1>8
    <3>. QED
      BY <1>3, <1>7, <3>1
  <2>. QED
    BY <2>1
<1>9. CASE b >= a
  <2>1. PICK k : k = b - a + 1
    OBVIOUS
  <2>2. k \in 1..(i - 1) /\ k \in 1..c /\ k + a - 1 = b
    BY <1>1, <1>2, <1>5, <1>9, <2>1
  <2>3. out[k] = ms[b]
    BY <1>3, <2>2
  <2>4. ASSUME NEW l \in (k + 1)..(i - 1) PROVE out[l].role = "tool"
    <3>1. l + a - 1 \in (b + 1)..(j - 1) /\ l \in 1..c
      BY <1>1, <1>2, <1>5, <2>2
    <3>. QED
      BY <1>3, <1>7, <3>1
  <2>. QED
    BY <1>6, <1>7, <2>2, <2>3, <2>4 DEF HasCall
<1>10. b < a \/ b >= a
  BY <1>5, <1>7
<1>. QED
  BY <1>8, <1>9, <1>10

(* The end of the end. *)
LEMMA SuffixEnd ==
  ASSUME NEW ms \in Seq(Messages), NEW a \in 1..Len(ms), NEW f \in a..Len(ms),
         NEW out, out = SubSeq(ms, a, Len(ms))
  PROVE  EndsAlike(ms, f, out, f - a + 1)
<1>1. PICK n \in Nat : n = Len(ms)
  OBVIOUS
<1>a. a \in 1..(Len(ms) + 1)
  BY <1>1
<1>b. Len(out) = Len(ms) - a + 1
  BY <1>a, Suffix
<1>2. PICK c \in Nat : c = Len(out) /\ c = n - a + 1
  BY <1>a, <1>b, <1>1
<1>3. \A k \in 1..c : out[k] = ms[k + a - 1] /\ k + a - 1 \in 1..n
  BY <1>a, <1>1, <1>2, Suffix
<1>4. f \in 1..n /\ f - a + 1 \in 1..c /\ n - f = c - (f - a + 1)
  BY <1>1, <1>2
<1>5. ASSUME NEW j \in 0..(n - f)
      PROVE  out[(f - a + 1) + j] = ms[f + j]
  <2>1. (f - a + 1) + j \in 1..c /\ (f - a + 1) + j + a - 1 = f + j
    BY <1>1, <1>2
  <2>. QED
    BY <1>3, <2>1
<1>. QED
  BY <1>1, <1>2, <1>4, <1>5 DEF EndsAlike

(* Two ends that are alike begin alike. *)
LEMMA EndsAlikeStart ==
  ASSUME NEW ms \in Seq(Messages), NEW out \in Seq(Messages), NEW f, NEW g, EndsAlike(ms, f, out, g)
  PROVE  out[g] = ms[f]
<1>1. /\ f \in 1..Len(ms) /\ g \in 1..Len(out)
      /\ \A j \in 0..(Len(ms) - f) : out[g + j] = ms[f + j]
  BY DEF EndsAlike
<1>2. 0 \in 0..(Len(ms) - f) /\ g + 0 = g /\ f + 0 = f
  BY <1>1
<1>. QED
  BY <1>1, <1>2

(* Cutting twice keeps an end that each cut keeps. *)
LEMMA EndsAlikeTransitive ==
  ASSUME NEW ms \in Seq(Messages), NEW mid \in Seq(Messages), NEW out \in Seq(Messages),
         NEW f, NEW g, NEW h, EndsAlike(ms, f, mid, g), EndsAlike(mid, g, out, h)
  PROVE  EndsAlike(ms, f, out, h)
<1>1. \A j \in 0..(Len(ms) - f) : out[h + j] = ms[f + j]
  BY DEF EndsAlike
<1>. QED
  BY <1>1 DEF EndsAlike

(* heal_orphaned_tool_messages returns nothing, or what begins with the    *)
(* first message that is not a result.                                     *)
LEMMA HealShape ==
  ASSUME NEW ms \in Seq(Messages)
  PROVE  \/ /\ HealOrphanedToolMessages(ms) = << >>
            /\ \A k \in 1..Len(ms) : ms[k].role = "tool"
         \/ \E a \in 1..Len(ms) :
              /\ ms[a].role # "tool" /\ \A k \in 1..(a - 1) : ms[k].role = "tool"
              /\ HealOrphanedToolMessages(ms) = SubSeq(ms, a, Len(ms))
<1>1. PICK n \in Nat : n = Len(ms)
  OBVIOUS
<1>2. PICK others : others = {i \in DOMAIN ms : ms[i].role # "tool"}
  OBVIOUS
<1>3. others = {i \in 1..n : ms[i].role # "tool"}
  BY <1>1, <1>2
<1>4. CASE others = {}
  BY <1>1, <1>2, <1>3, <1>4 DEF HealOrphanedToolMessages
<1>5. CASE others # {}
  <2>1. PICK a : a = CHOOSE i \in others : \A k \in others : i <= k
    OBVIOUS
  <2>2. \E i \in others : \A k \in others : i <= k
    <3>1. others \subseteq Nat
      BY <1>3
    <3>. QED
      BY <1>5, <3>1, LeastNumber
  <2>3. a \in others /\ \A k \in others : a <= k
    BY <2>1, <2>2
  <2>4. HealOrphanedToolMessages(ms) = SubSeq(ms, a, Len(ms))
    BY <1>2, <1>5, <2>1 DEF HealOrphanedToolMessages
  <2>5. a \in 1..n /\ ms[a].role # "tool"
    BY <1>3, <2>3
  <2>6. \A k \in 1..(a - 1) : ms[k].role = "tool"
    BY <1>3, <2>3, <2>5
  <2>. QED
    BY <1>1, <2>4, <2>5, <2>6
<1>. QED
  BY <1>4, <1>5

(* Healing leaves no result without its call. *)
LEMMA Healed ==
  ASSUME NEW ms \in Seq(Messages), NEW out, out = HealOrphanedToolMessages(ms)
  PROVE  /\ out \in Seq(Messages) /\ PartOf(out, ms)
         /\ Headless(ms) => WellFormed(out)
         /\ \A f \in 1..Len(ms) : ms[f].role # "tool" => \E g : EndsAlike(ms, f, out, g)
<1>1. PICK n \in Nat : n = Len(ms)
  OBVIOUS
<1>2. CASE out = << >> /\ \A k \in 1..n : ms[k].role = "tool"
  <2>1. << >> \in Seq(Messages) /\ Len(<< >>) = 0
    OBVIOUS
  <2>. QED
    BY <1>1, <1>2, <2>1 DEF PartOf, WellFormed
<1>3. ASSUME NEW a \in 1..n, ms[a].role # "tool", \A k \in 1..(a - 1) : ms[k].role = "tool",
             out = SubSeq(ms, a, Len(ms))
      PROVE  /\ out \in Seq(Messages) /\ PartOf(out, ms)
             /\ Headless(ms) => WellFormed(out)
             /\ \A f \in 1..Len(ms) : ms[f].role # "tool" => \E g : EndsAlike(ms, f, out, g)
  <2>0. a \in 1..(Len(ms) + 1) /\ a \in 1..Len(ms)
    BY <1>1
  <2>b. Len(out) = Len(ms) - a + 1
    BY <1>3, <2>0, Suffix
  <2>1. PICK c \in Nat : c = Len(out) /\ c = n - a + 1
    BY <1>1, <2>0, <2>b
  <2>2. \A k \in 1..c : out[k] = ms[k + a - 1] /\ k + a - 1 \in 1..n
    BY <1>1, <1>3, <2>0, <2>1, Suffix
  <2>3. out \in Seq(Messages)
    BY <1>3, <2>0, Suffix
  <2>4. PartOf(out, ms)
    BY <1>1, <2>1, <2>2 DEF PartOf
  <2>5. ASSUME Headless(ms), NEW i \in 1..c, out[i].role = "tool"
        PROVE  HasCall(out, i)
    <3>1. PICK j \in 1..n : j = i + a - 1
      BY <2>2
    <3>2. ms[j] = out[i] /\ a < j
      <4>1. ms[j] = out[i]
        BY <2>2, <3>1
      <4>2. j # a
        BY <4>1, <1>3, <2>5
      <4>. QED
        BY <4>1, <4>2, <3>1
    <3>3. ~ \A l \in 1..(j - 1) : ms[l].role = "tool"
      BY <1>3, <3>2
    <3>4. PICK b \in 1..(j - 1) : /\ ms[b].role = "ai" /\ ms[b].calls >= ms[j].call
                                  /\ \A l \in (b + 1)..(j - 1) : ms[l].role = "tool"
      BY <1>1, <2>5, <3>2, <3>3 DEF Headless, HasCall
    <3>5. b >= a
      BY <1>3, <3>2, <3>4
    <3>6. PICK k : k = b - a + 1
      OBVIOUS
    <3>7. k \in 1..(i - 1) /\ k \in 1..c /\ k + a - 1 = b
      BY <3>1, <3>4, <3>5, <3>6, <2>1, <1>1
    <3>8. out[k] = ms[b]
      BY <2>2, <3>7
    <3>9. ASSUME NEW l \in (k + 1)..(i - 1) PROVE out[l].role = "tool"
      <4>1. l + a - 1 \in (b + 1)..(j - 1) /\ l \in 1..c
        BY <3>1, <3>4, <3>7, <2>1, <1>1
      <4>. QED
        BY <2>2, <3>4, <4>1
    <3>. QED
      BY <3>2, <3>4, <3>7, <3>8, <3>9 DEF HasCall
  <2>6. Headless(ms) => WellFormed(out)
    BY <2>1, <2>5 DEF WellFormed
  <2>7. ASSUME NEW f \in 1..Len(ms), ms[f].role # "tool"
        PROVE  \E g : EndsAlike(ms, f, out, g)
    <3>1. f \in a..Len(ms)
      BY <1>1, <1>3, <2>7
    <3>. QED
      BY <1>3, <2>0, <3>1, SuffixEnd
  <2>. QED
    BY <2>3, <2>4, <2>6, <2>7
<1>. QED
  BY <1>1, <1>2, <1>3, HealShape

(* A well-formed list has no orphans at the beginning either. *)
LEMMA WellFormedIsHeadless ==
  ASSUME NEW ms, WellFormed(ms)
  PROVE  Headless(ms)
BY DEF WellFormed, Headless

(* A part of a part is a part. *)
LEMMA PartOfTransitive ==
  ASSUME NEW ms, NEW mid, NEW out, PartOf(mid, ms), PartOf(out, mid)
  PROVE  PartOf(out, ms)
<1>1. SUFFICES ASSUME NEW k \in 1..Len(out)
      PROVE  \E i \in 1..Len(ms) : out[k] = ms[i]
  BY DEF PartOf
<1>2. PICK j \in 1..Len(mid) : out[k] = mid[j]
  BY DEF PartOf
<1>3. PICK i \in 1..Len(ms) : mid[j] = ms[i]
  BY DEF PartOf
<1>. QED
  BY <1>2, <1>3

(* The last results that are kept include those of an end with no more     *)
(* than KeepResults of them.                                               *)
LEMMA LaterResults ==
  ASSUME NEW ms \in Seq(Messages), NEW f \in 1..Len(ms), NEW i \in f..Len(ms),
         Cardinality({k \in f..Len(ms) : ms[k].role = "tool"}) <= KeepResults
  PROVE  Cardinality({k \in {l \in DOMAIN ms : ms[l].role = "tool"} : k >= i}) <= KeepResults
<1>1. PICK n \in Nat : n = Len(ms)
  OBVIOUS
<1>2. PICK A : A = {k \in f..n : ms[k].role = "tool"}
  OBVIOUS
<1>3. PICK B : B = {k \in {l \in DOMAIN ms : ms[l].role = "tool"} : k >= i}
  OBVIOUS
<1>4. DOMAIN ms = 1..n
  BY <1>1
<1>5. B \in SUBSET A
  BY <1>1, <1>2, <1>3, <1>4
<1>6. IsFiniteSet(A)
  <2>0. f \in Int /\ n \in Int
    BY <1>1
  <2>1. IsFiniteSet(f..n)
    BY <2>0, FS_Interval
  <2>2. A \in SUBSET (f..n)
    BY <1>2
  <2>. QED
    BY <2>1, <2>2, FS_Subset
<1>7. IsFiniteSet(B) /\ Cardinality(B) <= Cardinality(A)
  BY <1>5, <1>6, FS_Subset
<1>8. Cardinality(A) \in Nat /\ Cardinality(B) \in Nat /\ Cardinality(A) <= KeepResults
  BY <1>1, <1>2, <1>6, <1>7, FS_CardinalityType
<1>. QED
  BY <1>3, <1>7, <1>8, BoundAssumption

(* out consists of messages of ms, and is well formed when ms is. *)
Reflected(ms, out) ==
  /\ out \in Seq(Messages) /\ PartOf(out, ms)
  /\ WellFormed(ms) => WellFormed(out)

(* trim_tool_results keeps a history well formed, and its end when that    *)
(* has no more than KeepResults results.                                   *)
LEMMA TrimmedResults ==
  ASSUME NEW ms \in Seq(Messages), NEW out, out = TrimToolResults(ms)
  PROVE  /\ Reflected(ms, out)
         /\ \A f \in 1..Len(ms) :
              /\ ms[f].role # "tool"
              /\ Cardinality({k \in f..Len(ms) : ms[k].role = "tool"}) <= KeepResults
              => \E g : EndsAlike(ms, f, out, g)
<1>1. PICK n \in Nat : n = Len(ms)
  OBVIOUS
<1>2. PICK results : results = {i \in DOMAIN ms : ms[i].role = "tool"}
  OBVIOUS
<1>3. PICK kept : kept = {i \in DOMAIN ms : i \in results =>
                            Cardinality({k \in results : k >= i}) <= KeepResults}
  OBVIOUS
<1>4. DOMAIN ms = 1..n
  BY <1>1
<1>5. kept \subseteq 1..Len(ms)
  BY <1>1, <1>3, <1>4
<1>6. PICK mid : mid = Arranged(ms, kept, Earlier(kept))
  OBVIOUS
<1>7. out = ms \/ out = HealOrphanedToolMessages(mid)
  BY <1>2, <1>3, <1>6 DEF TrimToolResults
<1>8. CASE out = ms
  <2>1. PartOf(out, ms)
    BY <1>8 DEF PartOf
  <2>2. \A f \in 1..Len(ms) : EndsAlike(ms, f, out, f)
    BY <1>8 DEF EndsAlike
  <2>. QED
    BY <1>8, <2>1, <2>2 DEF Reflected
<1>9. CASE out = HealOrphanedToolMessages(mid)
  <2>1. mid \in Seq(Messages)
    BY <1>5, <1>6, KeptShape
  <2>2. PartOf(mid, ms)
    <3>1. PICK p : Embeds(p, ms, kept, mid)
      BY <1>5, <1>6, KeptShape
    <3>. QED
      BY <1>5, <3>1 DEF Embeds, PartOf
  <2>3. /\ out \in Seq(Messages) /\ PartOf(out, mid)
        /\ Headless(mid) => WellFormed(out)
        /\ \A f \in 1..Len(mid) : mid[f].role # "tool" => \E g : EndsAlike(mid, f, out, g)
    BY <1>9, <2>1, Healed
  <2>4. ASSUME WellFormed(ms) PROVE WellFormed(out)
    <3>1. \A i \in 1..Len(ms) : ms[i].role # "tool" => i \in kept
      BY <1>1, <1>2, <1>3, <1>4
    <3>2. WellFormed(mid)
      BY <1>5, <1>6, <2>4, <3>1, KeptWellFormed
    <3>. QED
      BY <2>3, <3>2, WellFormedIsHeadless
  <2>5. ASSUME NEW f \in 1..Len(ms), ms[f].role # "tool",
               Cardinality({k \in f..Len(ms) : ms[k].role = "tool"}) <= KeepResults
        PROVE  \E g : EndsAlike(ms, f, out, g)
    <3>1. ASSUME NEW i \in f..Len(ms) PROVE i \in kept
      <4>1. Cardinality({k \in results : k >= i}) <= KeepResults
        BY <1>2, <2>5, LaterResults
      <4>2. i \in DOMAIN ms
        BY <1>1, <1>4
      <4>. QED
        BY <1>3, <4>1, <4>2
    <3>2. f..Len(ms) \subseteq kept
      BY <3>1
    <3>3. PICK g \in 1..Len(mid) : EndsAlike(ms, f, mid, g)
      BY <1>5, <1>6, <3>2, KeptEnd
    <3>6. mid[g].role # "tool"
      BY <2>1, <2>5, <3>3, EndsAlikeStart
    <3>7. PICK h : EndsAlike(mid, g, out, h)
      BY <2>3, <3>6
    <3>. QED
      BY <2>1, <2>3, <3>3, <3>7, EndsAlikeTransitive
  <2>. QED
    BY <2>2, <2>3, <2>4, <2>5, PartOfTransitive DEF Reflected
<1>. QED
  BY <1>7, <1>8, <1>9

(* The same for all that the middleware cuts; the end has room when it has *)
(* no more than MaxMessages messages.                                      *)
LEMMA TrimmedMessages ==
  ASSUME NEW ms \in Seq(Messages), NEW out, out = TrimMessages(ms)
  PROVE  /\ Reflected(ms, out)
         /\ \A f \in 1..Len(ms) :
              /\ ms[f].role # "tool" /\ Len(ms) - f + 1 <= MaxMessages
              /\ Cardinality({k \in f..Len(ms) : ms[k].role = "tool"}) <= KeepResults
              => \E g : EndsAlike(ms, f, out, g)
<1>1. CASE ~ setup.trim
  <2>0. out = ms
    BY <1>1 DEF TrimMessages
  <2>1. PartOf(out, ms)
    BY <2>0 DEF PartOf
  <2>2. \A f \in 1..Len(ms) : EndsAlike(ms, f, out, f)
    BY <2>0 DEF EndsAlike
  <2>. QED
    BY <2>0, <2>1, <2>2 DEF Reflected
<1>2. CASE setup.trim
  <2>1. PICK trimmed : trimmed = TrimToolResults(ms)
    OBVIOUS
  <2>2. Reflected(ms, trimmed)
    BY <2>1, TrimmedResults
  <2>3. PICK n \in Nat : n = Len(trimmed)
    BY <2>2 DEF Reflected
  <2>4. PICK a : a = (IF n > MaxMessages THEN n - MaxMessages ELSE 0) + 1
    OBVIOUS
  <2>5. a \in 1..(n + 1) /\ (n > 0 => a \in 1..n)
    BY <2>3, <2>4, BoundAssumption
  <2>6. PICK mid : mid = SubSeq(trimmed, a, Len(trimmed))
    OBVIOUS
  <2>7. out = HealOrphanedToolMessages(mid)
    BY <1>2, <2>1, <2>3, <2>4, <2>6 DEF TrimMessages
  <2>8. trimmed \in Seq(Messages)
    BY <2>2 DEF Reflected
  <2>9. a \in 1..(Len(trimmed) + 1)
    BY <2>3, <2>5
  <2>10. /\ mid \in Seq(Messages) /\ Len(mid) = Len(trimmed) - a + 1
         /\ \A k \in 1..Len(mid) : mid[k] = trimmed[k + a - 1] /\ k + a - 1 \in 1..Len(trimmed)
    BY <2>6, <2>8, <2>9, Suffix
  <2>11. PartOf(mid, trimmed)
    BY <2>10 DEF PartOf
  <2>12. /\ out \in Seq(Messages) /\ PartOf(out, mid)
         /\ Headless(mid) => WellFormed(out)
         /\ \A f \in 1..Len(mid) : mid[f].role # "tool" => \E g : EndsAlike(mid, f, out, g)
    BY <2>7, <2>10, Healed
  <2>13. ASSUME WellFormed(ms) PROVE WellFormed(out)
    <3>1. WellFormed(trimmed)
      BY <2>2, <2>13 DEF Reflected
    <3>. QED
      BY <2>6, <2>8, <2>9, <2>12, <3>1, SuffixHeadless
  <2>14. PartOf(out, ms)
    <3>1. PartOf(trimmed, ms)
      BY <2>2 DEF Reflected
    <3>. QED
      BY <2>11, <2>12, <3>1, PartOfTransitive
  <2>15. ASSUME NEW f \in 1..Len(ms), ms[f].role # "tool", Len(ms) - f + 1 <= MaxMessages,
                Cardinality({k \in f..Len(ms) : ms[k].role = "tool"}) <= KeepResults
         PROVE  \E g : EndsAlike(ms, f, out, g)
    <3>1. PICK g : EndsAlike(ms, f, trimmed, g)
      BY <2>1, <2>15, TrimmedResults
    <3>2. PICK m \in Nat : m = Len(ms)
      OBVIOUS
    <3>3. g \in 1..n /\ m - f = n - g
      BY <2>3, <3>1, <3>2 DEF EndsAlike
    <3>4. trimmed[g].role # "tool"
      BY <2>8, <2>15, <3>1, EndsAlikeStart
    <3>5. a \in 1..n /\ g \in a..n
      BY <2>4, <2>5, <2>15, <3>2, <3>3, BoundAssumption
    <3>6. EndsAlike(trimmed, g, mid, g - a + 1)
      BY <2>3, <2>6, <2>8, <3>5, SuffixEnd
    <3>7. PICK h : h = g - a + 1
      OBVIOUS
    <3>8. h \in 1..Len(mid) /\ mid[h] = trimmed[h + a - 1]
      BY <2>3, <2>10, <3>5, <3>7
    <3>9. h + a - 1 = g
      BY <2>3, <3>5, <3>7
    <3>12. mid[h].role # "tool"
      BY <3>4, <3>8, <3>9
    <3>10. PICK e : EndsAlike(mid, h, out, e)
      BY <2>12, <3>8, <3>12
    <3>11. EndsAlike(trimmed, g, out, e)
      BY <2>8, <2>10, <2>12, <3>6, <3>7, <3>10, EndsAlikeTransitive
    <3>. QED
      BY <2>8, <2>12, <3>1, <3>11, EndsAlikeTransitive
  <2>. QED
    BY <2>12, <2>13, <2>14, <2>15 DEF Reflected
<1>. QED
  BY <1>1, <1>2

-----------------------------------------------------------------------------
(* The types of the variables. *)
Investigations == {f.inv : f \in Findings} \cup {Own}

Entries == [text : Texts, kind : {f.kind : f \in Findings}, trust : Nat, size : {f.size : f \in Findings},
            inv : Investigations, created : Nat,
            checksum : (Texts \X Investigations) \cup {NoChecksum}]

ContextTyped ==
  /\ setup \in Setups /\ reader \in BOOLEAN /\ attempts \in Nat /\ clock \in Nat
  /\ phase \in {"idle", "model", "tools"}
  /\ history \in Seq(Messages) /\ store \in Seq(Entries)

(* The checkpoint is well formed, and tools run for the answer at its end. *)
HistoryIsWellFormed ==
  WellFormed(history) /\ (phase = "tools" => history # << >> /\ history[Len(history)].role = "ai")

(* What was signed carried no mark; the store is in the order of time. *)
SignedClean(e) == e.checksum # NoChecksum => e.checksum[1].marks = {}

StoreIsSigned ==
  /\ \A i \in 1..Len(store) : SignedClean(store[i]) /\ store[i].created <= clock
  /\ \A i, k \in 1..Len(store) : i <= k => store[i].created <= store[k].created

(* The inductive invariant: it says nothing of what was shown, which is    *)
(* made from the history and the store at every call of the model.         *)
ContextInv == ContextTyped /\ HistoryIsWellFormed /\ StoreIsSigned

(* _sanitize_messages keeps the kind of a message; a text that is not hard *)
(* stays so and is delimited.                                              *)
LEMMA SanitizedText ==
  ASSUME NEW t \in Texts
  PROVE  /\ SanitizeText(t) \in Texts /\ SanitizeText(t).wrapped
         /\ Classify(t) # "hard" => Classify(SanitizeText(t)) # "hard"
<1>1. PICK M : M = HardMarks \cup SoftMarks \cup {"pii"}
  OBVIOUS
<1>2. Texts = [marks : SUBSET M, wrapped : BOOLEAN]
  BY <1>1 DEF Texts
<1>3. PICK u : u = SanitizeText(t)
  OBVIOUS
<1>4. CASE t.wrapped
  BY <1>2, <1>4 DEF SanitizeText
<1>5. CASE ~ t.wrapped
  <2>1. u = [marks |-> t.marks \ {"hard", "soft"}, wrapped |-> TRUE]
    BY <1>2, <1>3, <1>5 DEF SanitizeText, FilterPatterns
  <2>2. u \in Texts /\ u.wrapped /\ u.marks \subseteq t.marks
    BY <1>2, <2>1
  <2>3. t.marks \cap HardMarks = {} => u.marks \cap HardMarks = {}
    BY <2>2
  <2>4. Classify(t) # "hard" => Classify(u) # "hard"
    BY <2>3 DEF Classify
  <2>. QED
    BY <1>3, <2>2, <2>4
<1>. QED
  BY <1>4, <1>5

(* The same for a message, whose role and calls stay. *)
LEMMA DelimitedMessage ==
  ASSUME NEW m \in Messages
  PROVE  /\ Delimited(m) \in Messages /\ Delimited(m).role = m.role
         /\ Delimited(m).calls = m.calls /\ Delimited(m).call = m.call
         /\ ~ (IsUntrusted(m) /\ Classify(m.text) = "hard") /\ IsUntrusted(Delimited(m)) =>
              Classify(Delimited(m).text) # "hard" /\ Delimited(m).text.wrapped
<1>1. CASE ~ IsUntrusted(m)
  BY <1>1 DEF Delimited
<1>2. CASE IsUntrusted(m)
  <2>1. PICK u : u = SanitizeText(m.text)
    OBVIOUS
  <2>2. m.text \in Texts
    BY DEF Messages
  <2>3. /\ u \in Texts /\ u.wrapped
        /\ Classify(m.text) # "hard" => Classify(u) # "hard"
    BY <2>1, <2>2, SanitizedText
  <2>4. Delimited(m) = [m EXCEPT !.text = u]
    BY <1>2, <2>1 DEF Delimited
  <2>5. /\ Delimited(m) \in Messages /\ Delimited(m).role = m.role /\ Delimited(m).text = u
        /\ Delimited(m).calls = m.calls /\ Delimited(m).call = m.call
    BY <2>3, <2>4 DEF Messages
  <2>. QED
    BY <1>2, <2>3, <2>5
<1>. QED
  BY <1>1, <1>2

(* The messages that the steps add have the type of a message. *)
LEMMA MessageForms ==
  /\ Memory \in Messages
  /\ \A n \in Nat : Assistant(n) \in Messages
  /\ \A t \in Texts : Human(t) \in Messages
  /\ \A t \in Texts, c \in Nat : ToolResult(c, t) \in Messages
<1>1. [marks |-> {}, wrapped |-> FALSE] \in Texts /\ [marks |-> {}, wrapped |-> TRUE] \in Texts
  BY DEF Texts
<1>. QED
  BY <1>1 DEF Memory, Assistant, Human, ToolResult, Messages

(* WellFormed only looks at the kind of a message and at its calls. *)
LEMMA WellFormedAlike ==
  ASSUME NEW ms \in Seq(Messages), NEW out \in Seq(Messages), WellFormed(ms), Len(out) = Len(ms),
         \A i \in 1..Len(ms) : /\ out[i].role = ms[i].role
                              /\ out[i].calls = ms[i].calls /\ out[i].call = ms[i].call
  PROVE  WellFormed(out)
<1>1. PICK n \in Nat : n = Len(ms)
  OBVIOUS
<1>2. SUFFICES ASSUME NEW i \in 1..n, out[i].role = "tool"
      PROVE  HasCall(out, i)
  BY <1>1 DEF WellFormed
<1>3. PICK k \in 1..(i - 1) : /\ ms[k].role = "ai" /\ ms[k].calls >= ms[i].call
                              /\ \A l \in (k + 1)..(i - 1) : ms[l].role = "tool"
  BY <1>1, <1>2 DEF WellFormed, HasCall
<1>4. k \in 1..n /\ \A l \in (k + 1)..(i - 1) : l \in 1..n
  BY <1>1
<1>. QED
  BY <1>1, <1>2, <1>3, <1>4 DEF HasCall

(* A message that is not a result does not need a call. *)
LEMMA WellFormedAppend ==
  ASSUME NEW ms \in Seq(Messages), WellFormed(ms), NEW m \in Messages, m.role # "tool",
         NEW out, out = Append(ms, m)
  PROVE  out \in Seq(Messages) /\ WellFormed(out)
<1>1. PICK n \in Nat : n = Len(ms)
  OBVIOUS
<1>2. /\ out \in Seq(Messages) /\ Len(out) = n + 1
      /\ \A i \in 1..n : out[i] = ms[i]
      /\ out[n + 1] = m
  BY <1>1
<1>3. SUFFICES ASSUME NEW i \in 1..(n + 1), out[i].role = "tool"
      PROVE  HasCall(out, i)
  BY <1>2 DEF WellFormed
<1>4. i \in 1..n
  BY <1>2, <1>3
<1>5. PICK k \in 1..(i - 1) : /\ ms[k].role = "ai" /\ ms[k].calls >= ms[i].call
                              /\ \A l \in (k + 1)..(i - 1) : ms[l].role = "tool"
  BY <1>1, <1>2, <1>3, <1>4 DEF WellFormed, HasCall
<1>6. k \in 1..n /\ \A l \in (k + 1)..(i - 1) : l \in 1..n
  BY <1>1, <1>4
<1>. QED
  BY <1>2, <1>4, <1>5, <1>6 DEF HasCall

(* What the middlewares have before they trim: the history, delimited, and *)
(* perhaps the memory.                                                     *)
LEMMA InjectedShape ==
  ASSUME ContextInv, NEW t, t = InjectMemory(SanitizeMessages(history))
  PROVE  /\ t \in Seq(Messages) /\ WellFormed(t)
         /\ Len(t) \in {Len(history), Len(history) + 1}
         /\ \A i \in 1..Len(history) : t[i] = Delimited(history[i])
         /\ \A i \in 1..Len(t) : i > Len(history) => t[i].role = "memory"
<1>1. history \in Seq(Messages) /\ WellFormed(history)
  BY DEF ContextInv, ContextTyped, HistoryIsWellFormed
<1>2. PICK n \in Nat : n = Len(history)
  BY <1>1
<1>3. PICK s : s = SanitizeMessages(history)
  OBVIOUS
<1>4. DOMAIN history = 1..n
  BY <1>1, <1>2
<1>5. s = [i \in 1..n |-> Delimited(history[i])]
  BY <1>3, <1>4 DEF SanitizeMessages
<1>6. \A i \in 1..n : history[i] \in Messages
  BY <1>1, <1>2
<1>7. \A i \in 1..n : /\ Delimited(history[i]) \in Messages
                     /\ Delimited(history[i]).role = history[i].role
                     /\ Delimited(history[i]).calls = history[i].calls
                     /\ Delimited(history[i]).call = history[i].call
  BY <1>6, DelimitedMessage
<1>8. s \in [1..n -> Messages]
  BY <1>5, <1>7
<1>9. s \in Seq(Messages) /\ Len(s) = n
  BY <1>8, FunctionIsSeq
<1>10. \A i \in 1..n : s[i] = Delimited(history[i])
  BY <1>5
<1>11. WellFormed(s)
  BY <1>1, <1>2, <1>7, <1>9, <1>10, WellFormedAlike
<1>12. Memory \in Messages /\ Memory.role = "memory"
  BY MessageForms DEF Memory
<1>13. t = s \/ t = Append(s, Memory)
  BY <1>3 DEF InjectMemory
<1>14. CASE t = s
  BY <1>2, <1>9, <1>10, <1>11, <1>14
<1>15. CASE t = Append(s, Memory)
  <2>1. t \in Seq(Messages) /\ WellFormed(t)
    BY <1>9, <1>11, <1>12, <1>15, WellFormedAppend
  <2>2. /\ Len(t) = n + 1 /\ t[n + 1] = Memory
        /\ \A i \in 1..n : t[i] = s[i]
    BY <1>9, <1>12, <1>15
  <2>. QED
    BY <1>2, <1>10, <1>12, <2>1, <2>2
<1>. QED
  BY <1>13, <1>14, <1>15

(* The messages of a request. *)
LEMMA RequestReflects ==
  ASSUME ContextInv, NEW t, t = InjectMemory(SanitizeMessages(history)),
         NEW ms, ms = Request(history).messages
  PROVE  /\ ms = TrimMessages(t) /\ ms \in Seq(Messages) /\ WellFormed(ms) /\ PartOf(ms, t)
<1>1. t \in Seq(Messages) /\ WellFormed(t)
  BY InjectedShape
<1>2. ms = TrimMessages(t)
  BY DEF Request
<1>3. Reflected(t, ms)
  BY <1>1, <1>2, TrimmedMessages
<1>. QED
  BY <1>1, <1>2, <1>3 DEF Reflected

(* A call of the model shows no result without its call. *)
LEMMA RequestHasCalls ==
  ASSUME ContextInv, NEW n, ModelCall(n)
  PROVE  ResultsHaveCalls'
<1>1. PICK t : t = InjectMemory(SanitizeMessages(history))
  OBVIOUS
<1>2. PICK ms : ms = Request(history).messages
  OBVIOUS
<1>3. ms \in Seq(Messages) /\ WellFormed(ms)
  BY <1>1, <1>2, RequestReflects
<1>4. shown'.messages = ms
  BY <1>2 DEF ModelCall
<1>5. DOMAIN ms = 1..Len(ms)
  BY <1>3
<1>. QED
  BY <1>3, <1>4, <1>5 DEF ResultsHaveCalls, WellFormed, HasCall

(* A call of the model shows no hard text and no undelimited one. *)
LEMMA RequestIsSafe ==
  ASSUME ContextInv, NEW n, ModelCall(n)
  PROVE  UnsafeNeverShown'
<1>1. PICK t : t = InjectMemory(SanitizeMessages(history))
  OBVIOUS
<1>2. PICK ms : ms = Request(history).messages
  OBVIOUS
<1>3. ms \in Seq(Messages) /\ PartOf(ms, t)
  BY <1>1, <1>2, RequestReflects
<1>4. shown'.messages = ms
  BY <1>2 DEF ModelCall
<1>5. PICK l \in Nat : l = Len(history)
  BY DEF ContextInv, ContextTyped
<1>6. /\ t \in Seq(Messages) /\ Len(t) \in {l, l + 1}
      /\ \A i \in 1..l : t[i] = Delimited(history[i])
      /\ \A i \in 1..Len(t) : i > l => t[i].role = "memory"
  BY <1>1, <1>5, InjectedShape
<1>7. \A i \in 1..l : history[i] \in Messages /\ ~ (IsUntrusted(history[i]) /\ Classify(history[i].text) = "hard")
  <2>1. HardOnes = {}
    BY DEF ModelCall
  <2>2. history \in Seq(Messages)
    BY DEF ContextInv, ContextTyped
  <2>3. DOMAIN history = 1..l
    BY <1>5, <2>2
  <2>. QED
    BY <1>5, <2>1, <2>2, <2>3 DEF HardOnes, IsHard
<1>8. ASSUME NEW k \in 1..Len(ms), IsUntrusted(ms[k])
      PROVE  Classify(ms[k].text) # "hard" /\ ms[k].text.wrapped
  <2>1. PICK i \in 1..Len(t) : ms[k] = t[i]
    BY <1>3 DEF PartOf
  <2>2. ~ (i > l)
    BY <1>6, <1>8, <2>1 DEF IsUntrusted
  <2>3. i \in 1..l
    BY <1>5, <1>6, <2>2
  <2>4. ms[k] = Delimited(history[i])
    BY <1>6, <2>1, <2>3
  <2>. QED
    BY <1>7, <1>8, <2>3, <2>4, DelimitedMessage
<1>9. DOMAIN ms = 1..Len(ms)
  BY <1>3
<1>. QED
  BY <1>4, <1>8, <1>9 DEF UnsafeNeverShown, IsUntrusted, Classify

(* The verdicts of a sequence can be counted. *)
LEMMA VerdictsFinite ==
  ASSUME NEW ms \in Seq(Messages), NEW v
  PROVE  IsFiniteSet(Verdicts(ms, v)) /\ Cardinality(Verdicts(ms, v)) \in Nat
<1>1. PICK n \in Nat : n = Len(ms)
  OBVIOUS
<1>2. IsFiniteSet(1..n)
  BY FS_Interval
<1>3. Verdicts(ms, v) \in SUBSET (1..n)
  BY <1>1 DEF Verdicts
<1>4. IsFiniteSet(Verdicts(ms, v))
  BY <1>2, <1>3, FS_Subset
<1>. QED
  BY <1>4, FS_CardinalityType

(* What the monitor counts at a call is a number. *)
LEMMA NotedType ==
  ASSUME ContextInv
  PROVE  Noted \in Nat
<1>1. history \in Seq(Messages)
  BY DEF ContextInv, ContextTyped
<1>2. PICK V : V = Verdicts(history, "soft")
  OBVIOUS
<1>3. IsFiniteSet(V) /\ Cardinality(V) \in Nat
  BY <1>1, <1>2, VerdictsFinite
<1>4. PICK W : W = {i \in V : \A k \in HardOnes : i < k}
  OBVIOUS
<1>5. IsFiniteSet(W)
  BY <1>3, <1>4, FS_Subset
<1>6. Cardinality(W) \in Nat
  BY <1>5, FS_CardinalityType
<1>7. Noted = IF HardOnes = {} THEN Cardinality(V) ELSE Cardinality(W) + 1
  BY <1>2, <1>4 DEF Noted
<1>. QED
  BY <1>3, <1>6, <1>7

(* What comes before the message that was added last. *)
LEMMA FrontOfAppend ==
  ASSUME NEW h \in Seq(Messages), NEW m \in Messages
  PROVE  Front(Append(h, m)) = h
<1>1. PICK k \in Nat : k = Len(h)
  OBVIOUS
<1>2. Append(h, m) \in Seq(Messages)
  OBVIOUS
<1>3. PICK q \in Seq(Messages) : q = Append(h, m)
  BY <1>2
<1>4. Len(q) = k + 1 /\ \A i \in 1..k : q[i] = h[i]
  BY <1>1, <1>3
<1>5. PICK r : r = SubSeq(q, 1, k)
  OBVIOUS
<1>6. r \in Seq(Messages) /\ Len(r) = k /\ \A i \in 1..k : r[i] = q[i]
  BY <1>1, <1>4, <1>5, SubSeqProperties
<1>7. r = h
  BY <1>1, <1>4, <1>6
<1>8. Front(q) = SubSeq(q, 1, Len(q) - 1) /\ Len(q) - 1 = k
  BY <1>1, <1>4 DEF Front
<1>. QED
  BY <1>3, <1>5, <1>7, <1>8

(* A call of the model counts every soft message it passes on. *)
LEMMA RequestIsNoted ==
  ASSUME ContextInv, NEW n \in Nat, ModelCall(n)
  PROVE  SoftIsNoted'
<1>1. history \in Seq(Messages) /\ attempts \in Nat
  BY DEF ContextInv, ContextTyped
<1>2. PICK h \in Seq(Messages) : h = history
  BY <1>1
<1>3. PICK m \in Messages : m = Assistant(n)
  BY MessageForms
<1>4. history' = Append(h, m)
  BY <1>2, <1>3 DEF ModelCall
<1>5. Front(Append(h, m)) = h
  BY FrontOfAppend
<1>6. Front(history)' = h
  BY <1>4, <1>5
<1>7. PICK c \in Nat : c = Cardinality(Verdicts(h, "soft"))
  BY VerdictsFinite
<1>8. attempts' = attempts + c
  BY <1>2, <1>7 DEF ModelCall, Noted
<1>9. c <= attempts'
  BY <1>1, <1>7, <1>8
<1>. QED
  BY <1>6, <1>7, <1>9 DEF SoftIsNoted, Verdicts, IsUntrusted, Classify

(* The turn that LastTurn names begins with a message that is not a result, *)
(* and is all that follows it.                                             *)
LEMMA TurnShape ==
  ASSUME NEW ms \in Seq(Messages), WellFormed(ms), NEW T,
         T = {i \in 1..Len(ms) : \A k \in (i + 1)..Len(ms) : ms[k].role # "ai"}, T # {}
  PROVE  \E f \in 1..Len(ms) : ms[f].role # "tool" /\ T = f..Len(ms)
<1>1. PICK n \in Nat : n = Len(ms)
  OBVIOUS
<1>2. T \subseteq 1..n
  BY <1>1
<1>3. T \subseteq Nat
  BY <1>2
<1>4. PICK f \in T : \A y \in T : f <= y
  BY <1>3, LeastNumber
<1>5. f \in 1..n /\ \A k \in (f + 1)..n : ms[k].role # "ai"
  BY <1>1, <1>4
<1>6. \A i \in f..n : i \in T
  BY <1>1, <1>5
<1>7. T = f..n
  BY <1>2, <1>3, <1>4, <1>6
<1>8. ASSUME ms[f].role = "tool" PROVE FALSE
  <2>1. PICK k \in 1..(f - 1) : /\ ms[k].role = "ai"
                                /\ \A l \in (k + 1)..(f - 1) : ms[l].role = "tool"
    BY <1>1, <1>5, <1>8 DEF WellFormed, HasCall
  <2>2. k \in 1..n /\ k < f
    BY <1>5
  <2>3. ASSUME NEW l \in (k + 1)..n PROVE ms[l].role # "ai"
    <3>1. l \in (k + 1)..(f - 1) \/ l = f \/ l \in (f + 1)..n
      BY <1>5, <2>2
    <3>. QED
      BY <1>5, <1>8, <2>1, <3>1
  <2>4. k \in T
    BY <1>1, <2>2, <2>3
  <2>. QED
    BY <1>4, <1>5, <2>2, <2>4
<1>. QED
  BY <1>1, <1>5, <1>7, <1>8

(* A call of the model shows the last turn, when the limits leave room. *)
LEMMA RequestShowsTurn ==
  ASSUME ContextInv, NEW n \in Nat, ModelCall(n)
  PROVE  LastTurnShown'
<1>1. history \in Seq(Messages) /\ WellFormed(history)
  BY DEF ContextInv, ContextTyped, HistoryIsWellFormed
<1>2. PICK h \in Seq(Messages) : h = history
  BY <1>1
<1>3. PICK m \in Messages : m = Assistant(n)
  BY MessageForms
<1>4. history' = Append(h, m)
  BY <1>2, <1>3 DEF ModelCall
<1>5. PICK l \in Nat : l = Len(h)
  OBVIOUS
<1>6. Len(history') = l + 1 /\ \A i \in 1..l : history'[i] = h[i]
  BY <1>4, <1>5
<1>7. PICK T : T = {i \in 1..l : \A k \in (i + 1)..l : h[k].role # "ai"}
  OBVIOUS
<1>8. LastTurn' = T
  <2>1. Len(history') - 1 = l
    BY <1>5, <1>6
  <2>2. LastTurn' = {i \in 1..l : \A k \in (i + 1)..l : history'[k].role # "ai"}
    BY <2>1 DEF LastTurn
  <2>3. \A i \in 1..l : \A k \in (i + 1)..l : history'[k] = h[k]
    BY <1>5, <1>6
  <2>. QED
    BY <1>7, <2>2, <2>3
<1>9. PICK ms : ms = Request(history).messages
  OBVIOUS
<1>10. shown'.messages = ms
  BY <1>9 DEF ModelCall
<1>11. SUFFICES ASSUME Cardinality(T) + 1 <= MaxMessages,
                       Cardinality({i \in T : history'[i].role = "tool"}) <= KeepResults,
                       NEW i \in T
       PROVE  \E k \in DOMAIN ms : ms[k] = Delimited(history'[i])
  BY <1>8, <1>10 DEF LastTurnShown, Delimited, IsUntrusted, SanitizeText, FilterPatterns
<1>12. PICK f \in 1..l : h[f].role # "tool" /\ T = f..l
  <2>1. T = {k \in 1..Len(h) : \A j \in (k + 1)..Len(h) : h[j].role # "ai"} /\ T # {}
    BY <1>5, <1>7, <1>11
  <2>2. WellFormed(h)
    BY <1>1, <1>2
  <2>3. \E f \in 1..Len(h) : h[f].role # "tool" /\ T = f..Len(h)
    BY <2>1, <2>2, TurnShape
  <2>. QED
    BY <1>5, <2>3
<1>13. PICK t : t = InjectMemory(SanitizeMessages(history))
  OBVIOUS
<1>14. /\ t \in Seq(Messages) /\ Len(t) \in {l, l + 1}
       /\ \A k \in 1..l : t[k] = Delimited(h[k])
       /\ \A k \in 1..Len(t) : k > l => t[k].role = "memory"
  BY <1>2, <1>5, <1>13, InjectedShape
<1>15. ms = TrimMessages(t) /\ ms \in Seq(Messages)
  BY <1>9, <1>13, RequestReflects
<1>16. \A k \in 1..l : t[k].role = h[k].role
  <2>1. \A k \in 1..l : h[k] \in Messages
    BY <1>5
  <2>. QED
    BY <1>14, <2>1, DelimitedMessage
<1>17. PICK lt \in Nat : lt = Len(t) /\ lt \in {l, l + 1}
  BY <1>14
<1>18. f \in 1..Len(t) /\ t[f].role # "tool"
  BY <1>12, <1>16, <1>17
<1>19. Len(t) - f + 1 <= MaxMessages
  <2>1. f \in Int /\ l \in Int /\ f <= l
    BY <1>12
  <2>2. Cardinality(f..l) = l - f + 1
    BY <2>1, FS_Interval
  <2>. QED
    BY <1>11, <1>12, <1>17, <2>1, <2>2, BoundAssumption
<1>20. Cardinality({k \in f..Len(t) : t[k].role = "tool"}) <= KeepResults
  <2>1. ASSUME NEW k
        PROVE  k \in f..lt /\ t[k].role = "tool" <=> k \in f..l /\ h[k].role = "tool"
    <3>1. ASSUME k \in f..l PROVE t[k].role = h[k].role /\ k \in f..lt
      BY <1>12, <1>16, <1>17, <3>1
    <3>2. ASSUME k \in f..lt, k \notin f..l PROVE t[k].role = "memory"
      <4>1. k > l /\ k \in 1..lt
        BY <1>12, <1>17, <3>2
      <4>. QED
        BY <1>14, <1>17, <4>1
    <3>. QED
      BY <3>1, <3>2
  <2>2. {k \in f..Len(t) : t[k].role = "tool"} = {k \in f..l : h[k].role = "tool"}
    BY <1>17, <2>1
  <2>3. {k \in f..l : h[k].role = "tool"} = {k \in T : history'[k].role = "tool"}
    BY <1>6, <1>12
  <2>. QED
    BY <1>11, <2>2, <2>3
<1>21. PICK g : EndsAlike(t, f, ms, g)
  BY <1>14, <1>15, <1>18, <1>19, <1>20, TrimmedMessages
<1>22. i \in f..l
  BY <1>11, <1>12
<1>23. i - f \in 0..(lt - f) /\ f + (i - f) = i
  BY <1>12, <1>17, <1>22
<1>24. ms[g + (i - f)] = t[i]
  BY <1>17, <1>21, <1>23 DEF EndsAlike
<1>25. g + (i - f) \in 1..Len(ms)
  <2>1. PICK lm \in Nat : lm = Len(ms)
    BY <1>15
  <2>2. g \in 1..lm /\ lt - f = lm - g
    BY <1>17, <1>21, <2>1 DEF EndsAlike
  <2>. QED
    BY <1>12, <1>17, <1>22, <2>1, <2>2
<1>26. t[i] = Delimited(history'[i])
  BY <1>6, <1>12, <1>14, <1>22
<1>27. DOMAIN ms = 1..Len(ms)
  BY <1>15
<1>. QED
  BY <1>24, <1>25, <1>26, <1>27

-----------------------------------------------------------------------------
(* Entries are ordered by MoreTrusted. *)
LEMMA MoreTrustedOrders ==
  ASSUME NEW I, I \subseteq 1..Len(store), store \in Seq(Entries)
  PROVE  /\ Orders(MoreTrusted(I), I)
         /\ \A x, y \in I : <<x, y>> \in MoreTrusted(I) <=>
              \/ store[x].trust > store[y].trust
              \/ (store[x].trust = store[y].trust /\ x > y)
<1>1. \A x, y \in I : <<x, y>> \in MoreTrusted(I) <=>
              \/ store[x].trust > store[y].trust
              \/ (store[x].trust = store[y].trust /\ x > y)
  BY DEF MoreTrusted
<1>2. PICK n \in Nat : n = Len(store)
  OBVIOUS
<1>3. \A x \in I : x \in 1..n
  BY <1>2
<1>4. \A x \in I : x \in Nat /\ store[x] \in Entries
  BY <1>2, <1>3
<1>5. \A x \in I : store[x].trust \in Nat
  BY <1>4 DEF Entries
<1>6. PICK R : R = MoreTrusted(I)
  OBVIOUS
<1>7. ASSUME NEW x \in I PROVE <<x, x>> \notin R
  BY <1>1, <1>4, <1>5, <1>6
<1>8. ASSUME NEW x \in I, NEW y \in I, NEW z \in I, <<x, y>> \in R, <<y, z>> \in R
      PROVE  <<x, z>> \in R
  <2>1. /\ store[x].trust > store[y].trust \/ (store[x].trust = store[y].trust /\ x > y)
        /\ store[y].trust > store[z].trust \/ (store[y].trust = store[z].trust /\ y > z)
    BY <1>1, <1>6, <1>8
  <2>2. store[x].trust > store[z].trust \/ (store[x].trust = store[z].trust /\ x > z)
    BY <2>1, <1>4, <1>5
  <2>. QED
    BY <1>1, <1>6, <2>2
<1>9. ASSUME NEW x \in I, NEW y \in I, x # y PROVE <<x, y>> \in R \/ <<y, x>> \in R
  <2>1. \/ store[x].trust > store[y].trust \/ (store[x].trust = store[y].trust /\ x > y)
        \/ store[y].trust > store[x].trust \/ (store[y].trust = store[x].trust /\ y > x)
    BY <1>9, <1>4, <1>5
  <2>. QED
    BY <1>1, <1>6, <2>1
<1>10. Orders(R, I)
  BY <1>7, <1>8, <1>9 DEF Orders
<1>. QED
  BY <1>1, <1>6, <1>10

(* The entries that query_investigation returns. *)
LEMMA QueryShape ==
  ASSUME ContextInv, NEW Q, Q = QueryInvestigation
  PROVE  \E c \in Nat : \E p \in [1..c -> 1..Len(store)] :
           /\ Q \in Seq(Entries) /\ Len(Q) = c
           /\ \A k \in 1..c : /\ Q[k] = store[p[k]] /\ store[p[k]].inv = Own
                             /\ clock - store[p[k]].created <= TTL /\ VerifyChecksum(store[p[k]])
           /\ \A k, l \in 1..c : k < l =>
                \/ store[p[k]].trust > store[p[l]].trust
                \/ (store[p[k]].trust = store[p[l]].trust /\ p[k] > p[l])
<1>1. store \in Seq(Entries)
  BY DEF ContextInv, ContextTyped
<1>2. PICK n \in Nat : n = Len(store)
  BY <1>1
<1>3. PICK I : I = {i \in NewestEntries : clock - store[i].created <= TTL /\ VerifyChecksum(store[i])}
  OBVIOUS
<1>4. \A i \in I : /\ i \in 1..n /\ store[i].inv = Own
                  /\ clock - store[i].created <= TTL /\ VerifyChecksum(store[i])
  BY <1>1, <1>2, <1>3 DEF NewestEntries
<1>5. IsFiniteSet(I)
  <2>1. IsFiniteSet(1..n)
    BY FS_Interval
  <2>2. I \in SUBSET (1..n)
    BY <1>4
  <2>. QED
    BY <2>1, <2>2, FS_Subset
<1>6. PICK c \in Nat : c = Cardinality(I)
  BY <1>5, FS_CardinalityType
<1>7. PICK R : R = MoreTrusted(I)
  OBVIOUS
<1>8. /\ Orders(R, I)
      /\ \A x, y \in I : <<x, y>> \in R <=>
           \/ store[x].trust > store[y].trust
           \/ (store[x].trust = store[y].trust /\ x > y)
  <2>1. I \subseteq 1..Len(store)
    BY <1>2, <1>4
  <2>. QED
    BY <1>1, <1>7, <2>1, MoreTrustedOrders
<1>9. PICK s : s = store
  OBVIOUS
<1>10. PICK p : Lists(p, I, R) /\ Arranged(s, I, R) = [k \in 1..Cardinality(I) |-> s[p[k]]]
  BY <1>5, <1>8, ArrangedShape
<1>11. Q = Arranged(s, I, R)
  BY <1>3, <1>7, <1>9 DEF QueryInvestigation
<1>12. p \in [1..c -> I] /\ Q = [k \in 1..c |-> store[p[k]]]
  BY <1>6, <1>9, <1>10, <1>11 DEF Lists
<1>13. \A k \in 1..c : p[k] \in I /\ p[k] \in 1..n
  BY <1>4, <1>12
<1>14. \A k \in 1..c : store[p[k]] \in Entries
  BY <1>1, <1>2, <1>13
<1>15. Q \in [1..c -> Entries]
  BY <1>12, <1>14
<1>16. Q \in Seq(Entries) /\ Len(Q) = c
  BY <1>15, FunctionIsSeq
<1>17. p \in [1..c -> 1..Len(store)]
  BY <1>2, <1>12, <1>13
<1>18. \A k \in 1..c : /\ Q[k] = store[p[k]] /\ store[p[k]].inv = Own
                      /\ clock - store[p[k]].created <= TTL /\ VerifyChecksum(store[p[k]])
  BY <1>4, <1>12, <1>13
<1>19. \A k, l \in 1..c : k < l => <<p[k], p[l]>> \in R
  BY <1>6, <1>10 DEF Lists
<1>20. \A k, l \in 1..c : k < l =>
                \/ store[p[k]].trust > store[p[l]].trust
                \/ (store[p[k]].trust = store[p[l]].trust /\ p[k] > p[l])
  BY <1>8, <1>13, <1>19
<1>. QED
  BY <1>16, <1>17, <1>18, <1>20

(* format_for_prompt shows a prefix of them. *)
LEMMA FormatShape ==
  ASSUME NEW Q \in Seq(Entries), NEW out, out = FormatForPrompt(Q)
  PROVE  \E c \in 0..Len(Q) : /\ out \in Seq(Entries) /\ Len(out) = c
                              /\ \A k \in 1..c : out[k] = Q[k]
<1>1. PICK n \in Nat : n = Len(Q)
  OBVIOUS
<1>2. PICK fits : fits = {k \in 0..Len(Q) : \A l \in 1..k : Chars(SubSeq(Q, 1, l)) <= MaxChars}
  OBVIOUS
<1>3. fits \subseteq 0..n /\ 0 \in fits
  BY <1>1, <1>2
<1>4. \E k \in fits : \A l \in fits : l <= k
  BY <1>3, GreatestNumber
<1>5. PICK c : c = CHOOSE k \in fits : \A l \in fits : l <= k
  OBVIOUS
<1>6. c \in fits
  BY <1>4, <1>5
<1>7. out = SubSeq(Q, 1, c)
  BY <1>2, <1>5 DEF FormatForPrompt
<1>8. c \in 0..n
  BY <1>3, <1>6
<1>9. out \in Seq(Entries) /\ Len(out) = c /\ \A k \in 1..c : out[k] = Q[k]
  BY <1>1, <1>7, <1>8, SubSeqProperties
<1>. QED
  BY <1>1, <1>8, <1>9

(* A call of the model shows sound memory. *)
LEMMA RequestMemoryIsSound ==
  ASSUME ContextInv, NEW n, ModelCall(n)
  PROVE  MemoryIsSound'
<1>1. PICK out : out = Request(history).entries
  OBVIOUS
<1>2. shown'.entries = out /\ clock' = clock
  BY <1>1 DEF ModelCall
<1>3. CASE ~ reader
  <2>1. out = << >>
    BY <1>1, <1>3 DEF Request
  <2>. QED
    BY <1>2, <2>1 DEF MemoryIsSound
<1>4. CASE reader
  <2>1. PICK Q : Q = QueryInvestigation
    OBVIOUS
  <2>2. out = FormatForPrompt(Q)
    BY <1>1, <1>4, <2>1 DEF Request
  <2>3. PICK d \in Nat : \E p \in [1..d -> 1..Len(store)] :
           /\ Q \in Seq(Entries) /\ Len(Q) = d
           /\ \A k \in 1..d : /\ Q[k] = store[p[k]] /\ store[p[k]].inv = Own
                             /\ clock - store[p[k]].created <= TTL /\ VerifyChecksum(store[p[k]])
           /\ \A k, l \in 1..d : k < l =>
                \/ store[p[k]].trust > store[p[l]].trust
                \/ (store[p[k]].trust = store[p[l]].trust /\ p[k] > p[l])
    BY <2>1, QueryShape
  <2>4. PICK p \in [1..d -> 1..Len(store)] :
           /\ Q \in Seq(Entries) /\ Len(Q) = d
           /\ \A k \in 1..d : /\ Q[k] = store[p[k]] /\ store[p[k]].inv = Own
                             /\ clock - store[p[k]].created <= TTL /\ VerifyChecksum(store[p[k]])
           /\ \A k, l \in 1..d : k < l =>
                \/ store[p[k]].trust > store[p[l]].trust
                \/ (store[p[k]].trust = store[p[l]].trust /\ p[k] > p[l])
    BY <2>3
  <2>5. PICK c \in 0..d : /\ out \in Seq(Entries) /\ Len(out) = c
                          /\ \A k \in 1..c : out[k] = Q[k]
    BY <2>2, <2>4, FormatShape
  <2>6. DOMAIN out = 1..c
    BY <2>5
  <2>7. \A k \in 1..c : k \in 1..d /\ out[k] = store[p[k]] /\ p[k] \in 1..Len(store)
    BY <2>4, <2>5
  <2>8. store \in Seq(Entries) /\ StoreIsSigned
    BY DEF ContextInv, ContextTyped
  <2>9. \A k \in 1..c : store[p[k]] \in Entries
    BY <2>7, <2>8
  <2>10. ASSUME NEW i \in 1..c
         PROVE  /\ out[i].inv = Own /\ clock - out[i].created <= TTL
                /\ out[i].checksum # NoChecksum =>
                     out[i].checksum[2] = Own /\ out[i].text.marks = {}
    <3>1. /\ out[i].inv = Own /\ clock - out[i].created <= TTL
          /\ out[i].checksum # NoChecksum => out[i].checksum = <<out[i].text, out[i].inv>>
      BY <2>4, <2>7 DEF VerifyChecksum
    <3>2. out[i].checksum # NoChecksum => out[i].checksum[1].marks = {}
      BY <2>7, <2>8 DEF StoreIsSigned, SignedClean
    <3>. QED
      BY <3>1, <3>2
  <2>11. ASSUME NEW i \in 1..c, NEW k \in 1..(i - 1)
         PROVE  /\ out[k].trust >= out[i].trust
                /\ out[k].trust = out[i].trust => out[k].created >= out[i].created
    <3>1. k \in 1..c /\ k < i
      BY <2>5
    <3>2. PICK a \in 1..Len(store) : a = p[k] /\ out[k] = store[a] /\ store[a] \in Entries
      BY <2>7, <2>9, <3>1
    <3>3. PICK b \in 1..Len(store) : b = p[i] /\ out[i] = store[b] /\ store[b] \in Entries
      BY <2>7, <2>9
    <3>4. \/ store[a].trust > store[b].trust
          \/ (store[a].trust = store[b].trust /\ a > b)
      BY <2>4, <2>7, <3>1, <3>2, <3>3
    <3>5. store[a].trust \in Nat /\ store[b].trust \in Nat
      BY <3>2, <3>3 DEF Entries
    <3>6. a > b => store[b].created <= store[a].created
      BY <2>8 DEF StoreIsSigned
    <3>7. store[a].created \in Nat /\ store[b].created \in Nat
      BY <3>2, <3>3 DEF Entries
    <3>. QED
      BY <3>2, <3>3, <3>4, <3>5, <3>6, <3>7, SMTT(40)
  <2>. QED
    BY <1>2, <2>6, <2>10, <2>11 DEF MemoryIsSound
<1>. QED
  BY <1>3, <1>4

-----------------------------------------------------------------------------
(* The results of the last answer's calls follow it. *)
LEMMA ResultsFollow ==
  ASSUME NEW h \in Seq(Messages), WellFormed(h), h # << >>, h[Len(h)].role = "ai",
         NEW results \in [1..Last(h).calls -> Results],
         NEW out, out = h \o [c \in DOMAIN results |-> ToolResult(c, results[c])]
  PROVE  out \in Seq(Messages) /\ WellFormed(out)
<1>1. PICK n \in Nat : n = Len(h) /\ n > 0
  OBVIOUS
<1>2. h[n] \in Messages
  BY <1>1
<1>3. PICK k \in Nat : k = h[n].calls
  BY <1>2 DEF Messages
<1>4. DOMAIN results = 1..k /\ \A c \in 1..k : results[c] \in Texts
  BY <1>1, <1>3, TextAssumption DEF Last
<1>5. PICK q : q = [c \in 1..k |-> ToolResult(c, results[c])]
  OBVIOUS
<1>6. \A c \in 1..k : ToolResult(c, results[c]) \in Messages
  BY <1>4, MessageForms
<1>7. q \in [1..k -> Messages]
  BY <1>5, <1>6
<1>8. q \in Seq(Messages) /\ Len(q) = k
  BY <1>7, FunctionIsSeq
<1>9. \A c \in 1..k : q[c].role = "tool" /\ q[c].call = c
  BY <1>5 DEF ToolResult
<1>10. out = h \o q
  BY <1>4, <1>5
<1>11. /\ out \in Seq(Messages) /\ Len(out) = n + k
       /\ \A i \in 1..n : out[i] = h[i]
       /\ \A i \in (n + 1)..(n + k) : out[i] = q[i - n]
  <2>1. out \in Seq(Messages) /\ Len(out) = n + k
    BY <1>1, <1>8, <1>10, ConcatProperties
  <2>0. \A i \in 1 .. Len(h) + Len(q) : (h \o q)[i] = IF i <= Len(h) THEN h[i] ELSE q[i - Len(h)]
    BY <1>8, ConcatProperties
  <2>2. \A i \in 1..(n + k) : out[i] = IF i <= n THEN h[i] ELSE q[i - n]
    BY <1>1, <1>8, <1>10, <2>0
  <2>3. \A i \in 1..n : i \in 1..(n + k) /\ i <= n
    BY <1>1
  <2>4. \A i \in (n + 1)..(n + k) : i \in 1..(n + k) /\ ~(i <= n)
    BY <1>1
  <2>. QED
    BY <2>1, <2>2, <2>3, <2>4
<1>12. SUFFICES ASSUME NEW i \in 1..(n + k), out[i].role = "tool"
       PROVE  HasCall(out, i)
  BY <1>11 DEF WellFormed
<1>13. CASE i \in 1..n
  <2>1. PICK b \in 1..(i - 1) : /\ h[b].role = "ai" /\ h[b].calls >= h[i].call
                                /\ \A l \in (b + 1)..(i - 1) : h[l].role = "tool"
    BY <1>1, <1>11, <1>12, <1>13 DEF WellFormed, HasCall
  <2>2. b \in 1..n /\ \A l \in (b + 1)..(i - 1) : l \in 1..n
    BY <1>13
  <2>. QED
    BY <1>11, <1>13, <2>1, <2>2 DEF HasCall
<1>14. CASE i \in (n + 1)..(n + k)
  <2>1. i - n \in 1..k /\ n \in 1..(i - 1) /\ n \in 1..n
    BY <1>1, <1>14
  <2>2. out[n].role = "ai" /\ out[n].calls = k
    BY <1>1, <1>3, <1>11, <2>1
  <2>3. out[i].call = i - n
    BY <1>9, <1>11, <1>14, <2>1
  <2>4. ASSUME NEW l \in (n + 1)..(i - 1) PROVE out[l].role = "tool"
    <3>1. l \in (n + 1)..(n + k) /\ l - n \in 1..k
      BY <1>14
    <3>. QED
      BY <1>9, <1>11, <3>1, ZenonT(60)
  <2>6. PICK j \in 1..k : j = i - n
    BY <2>1
  <2>7. k >= j
    BY <2>6
  <2>5. out[n].calls >= out[i].call
    BY <2>2, <2>3, <2>6, <2>7
  <2>. QED
    BY <2>1, <2>2, <2>4, <2>5 DEF HasCall
<1>15. i \in 1..n \/ i \in (n + 1)..(n + k)
  BY <1>12
<1>. QED
  BY <1>13, <1>14, <1>15

(* An entry of a finding without a verdict is signed without a mark. *)
LEMMA EntryIsSigned ==
  ASSUME NEW f \in Findings, Classify(f.text) = "none", clock \in Nat
  PROVE  Entry(f) \in Entries /\ SignedClean(Entry(f)) /\ Entry(f).created = clock
<1>1. PICK t \in Texts : t = f.text
  BY TextAssumption
<1>2. PICK M : M = HardMarks \cup SoftMarks \cup {"pii"}
  OBVIOUS
<1>3. Texts = [marks : SUBSET M, wrapped : BOOLEAN]
  BY <1>2 DEF Texts
<1>4. t.marks \cap HardMarks = {} /\ t.marks \cap SoftMarks = {}
  BY <1>1 DEF Classify
<1>5. Validated(t) = [marks |-> (t.marks \ {"pii"}) \ {"hard", "soft"}, wrapped |-> t.wrapped]
  <2>1. PICK r : r = [marks |-> t.marks \ {"pii"}, wrapped |-> t.wrapped]
    OBVIOUS
  <2>2. Redact(t) = r
    BY <1>3, <2>1 DEF Redact
  <2>3. r.marks = t.marks \ {"pii"} /\ r.wrapped = t.wrapped
    BY <2>1
  <2>4. FilterPatterns(r) = [marks |-> r.marks \ {"hard", "soft"}, wrapped |-> r.wrapped]
    BY <2>1 DEF FilterPatterns
  <2>. QED
    BY <2>2, <2>3, <2>4 DEF Validated
<1>6. t.marks \subseteq M
  BY <1>3
<1>7. (t.marks \ {"pii"}) \ {"hard", "soft"} = {}
  BY <1>2, <1>4, <1>6
<1>8. Validated(t) \in Texts /\ Validated(t).marks = {}
  BY <1>3, <1>5, <1>7
<1>9. PICK v \in Texts : v = Validated(f.text) /\ v.marks = {}
  BY <1>1, <1>8
<1>10. Entry(f) = [text |-> v, kind |-> f.kind, trust |-> f.trust, size |-> f.size, inv |-> f.inv,
                   created |-> clock, checksum |-> <<v, f.inv>>]
  BY <1>9 DEF Entry
<1>11. f.inv \in Investigations /\ f.trust \in Nat
  BY TextAssumption DEF Investigations
<1>12. Entry(f) \in Entries
  BY <1>10, <1>11 DEF Entries
<1>13. Entry(f).checksum[1].marks = {} /\ Entry(f).created = clock
  BY <1>9, <1>10
<1>. QED
  BY <1>12, <1>13 DEF SignedClean

-----------------------------------------------------------------------------
(* The invariant holds initially. *)
LEMMA ContextStart ==
  ASSUME ContextInit
  PROVE  ContextInv
<1>1. << >> \in Seq(Messages) /\ << >> \in Seq(Entries) /\ Len(<< >>) = 0
  OBVIOUS
<1>2. history = << >> /\ store = << >> /\ phase = "idle"
  BY DEF ContextInit
<1>3. ContextTyped
  BY <1>1 DEF ContextInit, ContextTyped
<1>4. 1..Len(history) = {} /\ 1..Len(store) = {}
  BY <1>1, <1>2
<1>5. HistoryIsWellFormed
  BY <1>2, <1>4 DEF HistoryIsWellFormed, WellFormed
<1>6. StoreIsSigned
  BY <1>4 DEF StoreIsSigned
<1>. QED
  BY <1>3, <1>5, <1>6 DEF ContextInv

(* Steps that only add to the history. *)
LEMMA HistoryStep ==
  ASSUME ContextInv, UNCHANGED <<setup, store, clock>>, reader' \in BOOLEAN, attempts' \in Nat,
         phase' \in {"idle", "model", "tools"}, history' \in Seq(Messages), WellFormed(history)',
         phase' = "tools" => history' # << >> /\ history'[Len(history')].role = "ai"
  PROVE  ContextInv'
BY DEF ContextInv, ContextTyped, HistoryIsWellFormed, StoreIsSigned

(* Steps that only change the store or the clock. *)
LEMMA StoreStep ==
  ASSUME ContextInv, UNCHANGED <<setup, history, phase, reader, attempts>>,
         clock' \in Nat, store' \in Seq(Entries), StoreIsSigned'
  PROVE  ContextInv'
<1>1. ContextTyped'
  BY DEF ContextInv, ContextTyped
<1>2. WellFormed(history)'
  BY DEF ContextInv, HistoryIsWellFormed, WellFormed, HasCall
<1>3. phase' = "tools" => history' # << >> /\ history'[Len(history')].role = "ai"
  BY DEF ContextInv, HistoryIsWellFormed
<1>. QED
  BY <1>1, <1>2, <1>3 DEF ContextInv, HistoryIsWellFormed

(* An answer leaves the history well formed, and is its end. *)
LEMMA AnswerAdded ==
  ASSUME ContextInv, NEW n \in Nat, history' = Append(history, Assistant(n))
  PROVE  /\ history' \in Seq(Messages) /\ WellFormed(history)' /\ history' # << >>
         /\ history'[Len(history')].role = "ai"
<1>1. history \in Seq(Messages) /\ WellFormed(history)
  BY DEF ContextInv, ContextTyped, HistoryIsWellFormed
<1>2. PICK m \in Messages : m = Assistant(n) /\ m.role = "ai"
  BY MessageForms DEF Assistant
<1>3. PICK q : q = Append(history, m)
  OBVIOUS
<1>4. q \in Seq(Messages) /\ WellFormed(q)
  BY <1>1, <1>2, <1>3, WellFormedAppend
<1>5. Len(q) = Len(history) + 1 /\ q[Len(history) + 1] = m /\ q # << >>
  BY <1>1, <1>2, <1>3
<1>6. history' = q
  BY <1>2, <1>3
<1>7. WellFormed(history)'
  BY <1>4, <1>6 DEF WellFormed, HasCall
<1>. QED
  BY <1>2, <1>4, <1>5, <1>6, <1>7

(* So do the results of its calls. *)
LEMMA ResultsAdded ==
  ASSUME ContextInv, phase = "tools", NEW results \in [1..Last(history).calls -> Results],
         history' = history \o [c \in DOMAIN results |-> ToolResult(c, results[c])]
  PROVE  history' \in Seq(Messages) /\ WellFormed(history)'
<1>1. /\ history \in Seq(Messages) /\ WellFormed(history)
      /\ history # << >> /\ history[Len(history)].role = "ai"
  BY DEF ContextInv, ContextTyped, HistoryIsWellFormed
<1>2. PICK h : h = history
  OBVIOUS
<1>3. PICK q : q = h \o [c \in DOMAIN results |-> ToolResult(c, results[c])]
  OBVIOUS
<1>4. q \in Seq(Messages) /\ WellFormed(q)
  BY <1>1, <1>2, <1>3, ResultsFollow
<1>5. history' = q
  BY <1>2, <1>3
<1>. QED
  BY <1>4, <1>5, ZenonT(60) DEF WellFormed, HasCall

(* Every step preserves the invariant. *)
LEMMA ContextStep ==
  ASSUME ContextInv, ContextNext
  PROVE  ContextInv'
<1>0. setup \in Setups /\ setup.memory \in BOOLEAN /\ attempts \in Nat /\ reader \in BOOLEAN /\ clock \in Nat
  BY SetupsAssumption DEF ContextInv, ContextTyped
<1>1. ASSUME NEW text \in Inputs, Arun(text)
      PROVE  ContextInv'
  <2>1. PICK m : m = Human(SanitizeText(text))
    OBVIOUS
  <2>2. m \in Messages /\ m.role = "human"
    <3>1. SanitizeText(text) \in Texts
      BY TextAssumption, SanitizedText
    <3>. QED
      BY <2>1, <3>1, MessageForms DEF Human
  <2>3. history \in Seq(Messages) /\ WellFormed(history)
    BY DEF ContextInv, ContextTyped, HistoryIsWellFormed
  <2>4. PICK q : q = Append(history, m)
    OBVIOUS
  <2>5. q \in Seq(Messages) /\ WellFormed(q)
    BY <2>2, <2>3, <2>4, WellFormedAppend
  <2>6. history' = q
    BY <1>1, <2>1, <2>4 DEF Arun
  <2>7. WellFormed(history)'
    BY <2>5, <2>6 DEF WellFormed, HasCall
  <2>8. UNCHANGED <<setup, store, clock>> /\ reader' = setup.memory /\ attempts' = 0 /\ phase' = "model"
    BY <1>1 DEF Arun
  <2>. QED
    BY <1>0, <2>5, <2>6, <2>7, <2>8, HistoryStep
<1>2. CASE Refuse
  <2>1. 0 \in Nat /\ history' = Append(history, Assistant(0))
    BY <1>2 DEF Refuse
  <2>2. history' \in Seq(Messages) /\ WellFormed(history)'
    BY <2>1, AnswerAdded
  <2>3. UNCHANGED <<setup, reader, store, clock>> /\ attempts' = attempts + Noted /\ phase' = "idle"
    BY <1>2 DEF Refuse
  <2>4. attempts' \in Nat
    BY <1>0, <2>3, NotedType
  <2>. QED
    BY <1>0, <2>2, <2>3, <2>4, HistoryStep
<1>3. ASSUME NEW n \in 0..MaxCalls, ModelCall(n)
      PROVE  ContextInv'
  <2>1. n \in Nat /\ history' = Append(history, Assistant(n))
    BY <1>3, BoundAssumption DEF ModelCall
  <2>2. /\ history' \in Seq(Messages) /\ WellFormed(history)' /\ history' # << >>
        /\ history'[Len(history')].role = "ai"
    BY <2>1, AnswerAdded
  <2>3. /\ UNCHANGED <<setup, reader, store, clock>> /\ attempts' = attempts + Noted
        /\ phase' \in {"idle", "model", "tools"}
    BY <1>3 DEF ModelCall
  <2>4. attempts' \in Nat
    BY <1>0, <2>3, NotedType
  <2>. QED
    BY <1>0, <2>2, <2>3, <2>4, HistoryStep
<1>4. CASE ToolsReturn \/ Aresume
  <2>1. phase = "tools"
    BY <1>4 DEF ToolsReturn, Aresume
  <2>2. PICK results \in [1..Last(history).calls -> Results] :
          history' = history \o [c \in DOMAIN results |-> ToolResult(c, results[c])]
    BY <1>4 DEF ToolsReturn, Aresume
  <2>3. history' \in Seq(Messages) /\ WellFormed(history)'
    BY <2>1, <2>2, ResultsAdded
  <2>4. UNCHANGED <<setup, store, clock>> /\ phase' = "model"
    BY <1>4 DEF ToolsReturn, Aresume
  <2>5. (reader' = reader \/ reader' = FALSE) /\ (attempts' = attempts \/ attempts' = 0)
    BY <1>4 DEF ToolsReturn, Aresume
  <2>6. reader' \in BOOLEAN
    BY <1>0, <2>5
  <2>7. attempts' \in Nat
    BY <1>0, <2>5
  <2>. QED
    BY <2>3, <2>4, <2>6, <2>7, HistoryStep
<1>5. CASE ToolsRaise
  <2>1. UNCHANGED <<setup, history, reader, attempts, store, clock>> /\ phase' = "idle"
    BY <1>5 DEF ToolsRaise
  <2>. QED
    BY <2>1 DEF ContextInv, ContextTyped, HistoryIsWellFormed, StoreIsSigned, WellFormed, HasCall
<1>6. ASSUME NEW f \in Findings, AppendEntry(f)
      PROVE  ContextInv'
  <2>1. PICK e : e = Entry(f)
    OBVIOUS
  <2>2. e \in Entries /\ SignedClean(e) /\ e.created = clock
    BY <1>0, <1>6, <2>1, EntryIsSigned DEF AppendEntry
  <2>3. store' = Append(store, e) /\ clock' = clock /\ UNCHANGED <<setup, history, phase, reader, attempts>>
    BY <1>6, <2>1 DEF AppendEntry, Insert
  <2>4. store \in Seq(Entries) /\ StoreIsSigned
    BY DEF ContextInv, ContextTyped
  <2>5. PICK n \in Nat : n = Len(store)
    BY <2>4
  <2>6. /\ store' \in Seq(Entries) /\ Len(store') = n + 1 /\ store'[n + 1] = e
        /\ \A i \in 1..n : store'[i] = store[i]
    BY <2>2, <2>3, <2>4, <2>5
  <2>7. \A i \in 1..(n + 1) : i \in 1..n \/ i = n + 1
    BY <2>5
  <2>8. \A i \in 1..(n + 1) : SignedClean(store'[i]) /\ store'[i].created <= clock
    BY <1>0, <2>2, <2>4, <2>5, <2>6, <2>7 DEF StoreIsSigned
  <2>9. ASSUME NEW i \in 1..(n + 1), NEW k \in 1..(n + 1), i <= k
        PROVE  store'[i].created <= store'[k].created
    <3>1. CASE k = n + 1
      BY <2>2, <2>6, <2>8, <3>1
    <3>2. CASE k \in 1..n
      <4>1. i \in 1..n
        BY <2>9, <3>2
      <4>. QED
        BY <2>4, <2>5, <2>6, <2>9, <3>2, <4>1 DEF StoreIsSigned
    <3>. QED
      BY <2>7, <3>1, <3>2
  <2>10. StoreIsSigned'
    BY <2>3, <2>6, <2>8, <2>9 DEF StoreIsSigned
  <2>. QED
    BY <1>0, <2>3, <2>6, <2>10, StoreStep
<1>7. CASE Damage
  <2>1. UNCHANGED <<setup, history, phase, reader, attempts, clock>>
    BY <1>7 DEF Damage
  <2>2. store \in Seq(Entries) /\ StoreIsSigned
    BY DEF ContextInv, ContextTyped
  <2>3. PICK i \in DOMAIN store :
          \/ store' = [store EXCEPT ![i].text.marks = @ \cup {"soft"}]
          \/ store' = [store EXCEPT ![i].inv = Own]
          \/ store' = [store EXCEPT ![i].checksum = NoChecksum]
    BY <1>7 DEF Damage
  <2>4. PICK n \in Nat : n = Len(store) /\ DOMAIN store = 1..n
    BY <2>2
  <2>5. store[i] \in Entries
    BY <2>2, <2>3, <2>4
  <2>6. PICK e \in Entries : /\ store' = [store EXCEPT ![i] = e] /\ e.created = store[i].created
                             /\ SignedClean(e)
    <3>0. SignedClean(store[i])
      BY <2>2, <2>3, <2>4 DEF StoreIsSigned
    <3>1. CASE store' = [store EXCEPT ![i].text.marks = @ \cup {"soft"}]
      <4>1. PICK M : M = HardMarks \cup SoftMarks \cup {"pii"}
        OBVIOUS
      <4>2. Texts = [marks : SUBSET M, wrapped : BOOLEAN] /\ "soft" \in M
        BY <4>1 DEF Texts, SoftMarks
      <4>3. store[i].text \in Texts
        BY <2>5 DEF Entries
      <4>4. PICK t : t = [store[i].text EXCEPT !.marks = @ \cup {"soft"}]
        OBVIOUS
      <4>5. t \in Texts
        BY <4>2, <4>3, <4>4
      <4>6. PICK e : e = [store[i] EXCEPT !.text = t]
        OBVIOUS
      <4>7. e \in Entries /\ e.created = store[i].created /\ e.checksum = store[i].checksum
        BY <2>5, <4>5, <4>6 DEF Entries
      <4>8. store' = [store EXCEPT ![i] = e]
        BY <3>1, <4>4, <4>6
      <4>. QED
        BY <3>0, <4>7, <4>8 DEF SignedClean
    <3>2. CASE store' = [store EXCEPT ![i].inv = Own]
      <4>1. PICK e : e = [store[i] EXCEPT !.inv = Own]
        OBVIOUS
      <4>2. e \in Entries /\ e.created = store[i].created /\ e.checksum = store[i].checksum
        BY <2>5, <4>1 DEF Entries, Investigations
      <4>3. store' = [store EXCEPT ![i] = e]
        BY <3>2, <4>1
      <4>. QED
        BY <3>0, <4>2, <4>3 DEF SignedClean
    <3>3. CASE store' = [store EXCEPT ![i].checksum = NoChecksum]
      <4>1. PICK e : e = [store[i] EXCEPT !.checksum = NoChecksum]
        OBVIOUS
      <4>2. e \in Entries /\ e.created = store[i].created /\ e.checksum = NoChecksum
        BY <2>5, <4>1 DEF Entries
      <4>3. store' = [store EXCEPT ![i] = e]
        BY <3>3, <4>1
      <4>. QED
        BY <4>2, <4>3 DEF SignedClean
    <3>. QED
      BY <2>3, <3>1, <3>2, <3>3
  <2>7. /\ store' \in Seq(Entries) /\ Len(store') = n
        /\ \A k \in 1..n : store'[k] = IF k = i THEN e ELSE store[k]
    BY <2>2, <2>4, <2>6
  <2>8. \A k \in 1..n : store'[k].created = store[k].created /\ SignedClean(store'[k])
    BY <2>2, <2>4, <2>6, <2>7 DEF StoreIsSigned
  <2>9. StoreIsSigned'
    BY <2>1, <2>2, <2>4, <2>7, <2>8 DEF StoreIsSigned
  <2>. QED
    BY <1>0, <2>1, <2>7, <2>9, StoreStep
<1>8. CASE TimePasses
  <2>1. UNCHANGED <<setup, history, phase, reader, attempts, store>> /\ clock' = clock + 1
    BY <1>8 DEF TimePasses
  <2>2. store \in Seq(Entries) /\ StoreIsSigned
    BY DEF ContextInv, ContextTyped
  <2>5. \A i \in 1..Len(store) : store[i] \in Entries
    BY <2>2
  <2>3. \A i \in 1..Len(store) : store[i].created \in Nat
    BY <2>5 DEF Entries
  <2>4. StoreIsSigned'
    BY <1>0, <2>1, <2>2, <2>3 DEF StoreIsSigned
  <2>. QED
    BY <1>0, <2>1, <2>2, <2>4, StoreStep
<1>. QED
  BY <1>1, <1>2, <1>3, <1>4, <1>5, <1>6, <1>7, <1>8 DEF ContextNext

(* What was shown is gone after every other step. *)
LEMMA OtherSteps ==
  ASSUME ContextNext, ~ \E n \in 0..MaxCalls : ModelCall(n)
  PROVE  shown' = NoRequest
BY DEF ContextNext, Arun, Refuse, ToolsReturn, ToolsRaise, Aresume, AppendEntry, Damage, TimePasses

(* When nothing is shown, nothing wrong is. *)
LEMMA NothingShown ==
  ASSUME shown = NoRequest
  PROVE  ResultsHaveCalls /\ LastTurnShown /\ MemoryIsSound /\ ShownIsGuarded
<1>1. shown.messages = << >> /\ shown.entries = << >>
  BY DEF NoRequest
<1>2. DOMAIN shown.messages = {} /\ DOMAIN shown.entries = {}
  BY <1>1
<1>. QED
  BY <1>2 DEF ResultsHaveCalls, LastTurnShown, MemoryIsSound, ShownIsGuarded, UnsafeNeverShown, SoftIsNoted

(* Theorem: the invariant holds in every state of a session. *)
THEOREM ContextInvariant == ContextSpec => []ContextInv
<1>1. ContextInit => ContextInv
  BY ContextStart
<1>2. ContextInv /\ [ContextNext]_context => ContextInv'
  <2>1. SUFFICES ASSUME ContextInv, [ContextNext]_context PROVE ContextInv'
    OBVIOUS
  <2>2. CASE ContextNext
    BY <2>1, <2>2, ContextStep
  <2>3. CASE UNCHANGED context
    BY <2>1, <2>3 DEF context, ContextInv, ContextTyped, HistoryIsWellFormed, StoreIsSigned, WellFormed, HasCall
  <2>. QED
    BY <2>1, <2>2, <2>3
<1>. QED
  BY <1>1, <1>2, PTL DEF ContextSpec

(* Theorem: however a history of runs, parallel calls, failed tools and     *)
(* resumptions is cut, no result is shown without the answer that asked for *)
(* it (trim_tool_results, heal_orphaned_tool_messages, _maybe_summarize).   *)
THEOREM ContextResults == ContextSpec => []ResultsHaveCalls
<1>1. ContextInit => ResultsHaveCalls
  BY NothingShown DEF ContextInit
<1>2. ContextInv /\ ResultsHaveCalls /\ [ContextNext]_context => ResultsHaveCalls'
  <2>1. SUFFICES ASSUME ContextInv, ResultsHaveCalls, [ContextNext]_context PROVE ResultsHaveCalls'
    OBVIOUS
  <2>2. ASSUME NEW n \in 0..MaxCalls, ModelCall(n) PROVE ResultsHaveCalls'
    BY <2>1, <2>2, RequestHasCalls
  <2>3. CASE ContextNext /\ ~ \E n \in 0..MaxCalls : ModelCall(n)
    <3>1. shown' = NoRequest
      BY <2>3, OtherSteps
    <3>2. shown'.messages = << >>
      BY <3>1 DEF NoRequest
    <3>3. DOMAIN shown'.messages = {}
      BY <3>2
    <3>. QED
      BY <3>3 DEF ResultsHaveCalls
  <2>4. CASE UNCHANGED context
    BY <2>1, <2>4 DEF context, ResultsHaveCalls
  <2>. QED
    BY <2>1, <2>2, <2>3, <2>4
<1>. QED
  BY <1>1, <1>2, ContextInvariant, PTL DEF ContextSpec

(* Theorem: the last answer and all that followed it are shown, whenever    *)
(* they and the memory fit KEEP_TOOL_RESULTS and                            *)
(* CONTEXT_SUMMARY_MAX_MESSAGES.                                            *)
THEOREM ContextLastTurn == ContextSpec => []LastTurnShown
<1>1. ContextInit => LastTurnShown
  BY NothingShown DEF ContextInit
<1>2. ContextInv /\ LastTurnShown /\ [ContextNext]_context => LastTurnShown'
  <2>1. SUFFICES ASSUME ContextInv, LastTurnShown, [ContextNext]_context PROVE LastTurnShown'
    OBVIOUS
  <2>2. ASSUME NEW n \in 0..MaxCalls, ModelCall(n) PROVE LastTurnShown'
    <3>1. n \in Nat
      BY BoundAssumption
    <3>. QED
      BY <2>1, <2>2, <3>1, RequestShowsTurn
  <2>3. CASE ContextNext /\ ~ \E n \in 0..MaxCalls : ModelCall(n)
    <3>1. shown' = NoRequest
      BY <2>3, OtherSteps
    <3>. QED
      BY <3>1 DEF LastTurnShown, NoRequest
  <2>4. CASE UNCHANGED context
    BY <2>1, <2>4 DEF context, LastTurnShown, LastTurn, NoRequest, Delimited, IsUntrusted, SanitizeText, FilterPatterns
  <2>. QED
    BY <2>1, <2>2, <2>3, <2>4
<1>. QED
  BY <1>1, <1>2, ContextInvariant, PTL DEF ContextSpec

(* Theorem: what query_investigation and format_for_prompt show is of the   *)
(* session's investigation, current, unmarked and in order, whatever is     *)
(* written or damaged meanwhile.                                            *)
THEOREM ContextMemory == ContextSpec => []MemoryIsSound
<1>1. ContextInit => MemoryIsSound
  BY NothingShown DEF ContextInit
<1>2. ContextInv /\ MemoryIsSound /\ [ContextNext]_context => MemoryIsSound'
  <2>1. SUFFICES ASSUME ContextInv, MemoryIsSound, [ContextNext]_context PROVE MemoryIsSound'
    OBVIOUS
  <2>2. ASSUME NEW n \in 0..MaxCalls, ModelCall(n) PROVE MemoryIsSound'
    BY <2>1, <2>2, RequestMemoryIsSound
  <2>3. CASE ContextNext /\ ~ \E n \in 0..MaxCalls : ModelCall(n)
    <3>1. shown' = NoRequest
      BY <2>3, OtherSteps
    <3>2. shown'.entries = << >>
      BY <3>1 DEF NoRequest
    <3>3. DOMAIN shown'.entries = {}
      BY <3>2
    <3>. QED
      BY <3>3 DEF MemoryIsSound
  <2>4. CASE UNCHANGED context
    BY <2>1, <2>4 DEF context, MemoryIsSound
  <2>. QED
    BY <2>1, <2>2, <2>3, <2>4
<1>. QED
  BY <1>1, <1>2, ContextInvariant, PTL DEF ContextSpec

(* Theorem: the model is never shown a hard or undelimited text, also none  *)
(* that an earlier run left in the checkpoint, and every soft one is counted. *)
THEOREM ContextGuard == ContextSpec => []ShownIsGuarded
<1>1. ContextInit => ShownIsGuarded
  BY NothingShown DEF ContextInit
<1>2. ContextInv /\ ShownIsGuarded /\ [ContextNext]_context => ShownIsGuarded'
  <2>1. SUFFICES ASSUME ContextInv, ShownIsGuarded, [ContextNext]_context PROVE ShownIsGuarded'
    OBVIOUS
  <2>2. ASSUME NEW n \in 0..MaxCalls, ModelCall(n) PROVE ShownIsGuarded'
    <3>1. n \in Nat
      BY BoundAssumption
    <3>2. UnsafeNeverShown'
      BY <2>1, <2>2, RequestIsSafe
    <3>3. SoftIsNoted'
      BY <2>1, <2>2, <3>1, RequestIsNoted
    <3>. QED
      BY <3>2, <3>3 DEF ShownIsGuarded
  <2>3. CASE ContextNext /\ ~ \E n \in 0..MaxCalls : ModelCall(n)
    <3>1. shown' = NoRequest
      BY <2>3, OtherSteps
    <3>2. shown'.messages = << >>
      BY <3>1 DEF NoRequest
    <3>3. DOMAIN shown'.messages = {}
      BY <3>2
    <3>4. UnsafeNeverShown'
      BY <3>3 DEF UnsafeNeverShown
    <3>5. SoftIsNoted'
      BY <3>1 DEF SoftIsNoted, NoRequest
    <3>. QED
      BY <3>4, <3>5 DEF ShownIsGuarded
  <2>4. CASE UNCHANGED context
    <3>1. UnsafeNeverShown'
      BY <2>1, <2>4 DEF context, ShownIsGuarded, UnsafeNeverShown, IsUntrusted, Classify
    <3>2. SoftIsNoted'
      BY <2>1, <2>4 DEF context, ShownIsGuarded, SoftIsNoted, NoRequest, Front, Verdicts, IsUntrusted, Classify
    <3>. QED
      BY <3>1, <3>2 DEF ShownIsGuarded
  <2>. QED
    BY <2>1, <2>2, <2>3, <2>4
<1>. QED
  BY <1>1, <1>2, ContextInvariant, PTL DEF ContextSpec
=============================================================================
