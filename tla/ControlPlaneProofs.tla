------------------------- MODULE ControlPlaneProofs -------------------------
(***************************************************************************)
(* Proof that the coordinator daemon narrates the messages of the topic in *)
(* order, again only what it could not commit, and skips none as long as   *)
(* nothing fails, for any findings, deployments and number of faults and   *)
(* stops; and that the status feed, which the daemons and the API write    *)
(* to, shows a client the statuses in order and none twice.                *)
(*                                                                         *)
(* All but three kinds of step only move daemons between "down" and "poll" *)
(* and append to the topic (Rests).  The others fetch, commit and narrate; *)
(* CommittedFirst is what keeps the positions in order.  The feed has its *)
(* own state; what keeps it in order is that everything still to be sent   *)
(* comes after what was sent (PendingIsNew, SentIsSeen).                   *)
(***************************************************************************)
EXTENDS ControlPlane, StatusFeed, TLAPS

USE DEF Channels

Inv == TypeOK /\ OffsetInLog /\ CommittedFirst /\ NarratedInOrder

(* The first part of NarratedInOrder. *)
InTopicOrder ==
  \A i, k \in DOMAIN narratives : i < k =>
    /\ narratives[i].at <= narratives[k].at
    /\ Committed(narratives[i]) => narratives[i].at < narratives[k].at

-----------------------------------------------------------------------------
(* A step that neither fetches nor commits nor narrates.  Only a fault     *)
(* takes the coordinator daemon away from what it is handling.             *)
Rests ==
  /\ UNCHANGED <<offset, position, narratives>>
  /\ log' = log \/ \E m \in Messages : log' = Append(log, m)
  /\ daemon' \in [Channels -> {"down", "poll", "got", "handle"}]
  /\ \A d \in Channels : daemon'[d] \in {daemon[d], "down", "poll"}
  /\ faults' \in Nat
  /\ faults' = 0 => faults = 0 /\ (daemon["coordinator"] = "handle" => daemon'["coordinator"] = "handle")

LEMMA FaultCounts ==
  ASSUME TypeOK, Fault
  PROVE  faults' \in Nat /\ faults' # 0
  BY DEF TypeOK, Fault

LEMMA Kinds ==
  ASSUME TypeOK, [Next]_vars
  PROVE  \/ Rests
         \/ \E d \in Channels : GetOne(d) \/ CommitOffset(d) \/ CommitFails(d)
         \/ Narrate
<1> USE DEF TypeOK
<1>1. CASE PostEvent \/ CrashApi \/ Listen
  BY <1>1, FaultCounts DEF PostEvent, CrashApi, Listen, kafka, Rests
<1>2. ASSUME NEW m \in Messages, NEW process \in Processes,
             Publish(m, process) \/ PublishNowhere(m, process)
      PROVE  Rests
  BY <1>2, FaultCounts DEF Publish, PublishNowhere, KafkaPublish, kafka, Rests
<1>3. ASSUME NEW m \in Messages, PublishRaises(m) \/ HandleHere(m) \/ HandlerFailsHere(m)
      PROVE  Rests
  BY <1>3, FaultCounts DEF PublishRaises, HandleHere, HandlerFailsHere, kafka, Rests
<1>4. ASSUME NEW d \in Channels, HandlerFails(d) \/ Crash(d)
      PROVE  Rests
  <2>1. /\ faults' \in Nat /\ faults' # 0
        /\ UNCHANGED <<offset, position, narratives, log>> /\ daemon' = [daemon EXCEPT ![d] = "down"]
    BY <1>4, FaultCounts DEF HandlerFails, Crash, GoTo, kafka
  <2>2. QED
    BY <2>1 DEF Rests
<1>5. ASSUME NEW d \in Channels, StartDaemon(d) \/ Stop(d) \/ RequestStop(d) \/ (d = "critic" /\ Judge)
      PROVE  Rests
  <2>1. UNCHANGED <<offset, position, narratives, log, faults>>
    BY <1>5 DEF StartDaemon, Stop, RequestStop, Judge, kafka
  <2>2. \/ daemon' = daemon
        \/ daemon[d] # "handle" /\ \E s \in {"down", "poll"} : daemon' = [daemon EXCEPT ![d] = s]
        \/ d = "critic" /\ \E s \in {"down", "poll"} : daemon' = [daemon EXCEPT ![d] = s]
    BY <1>5 DEF StartDaemon, Stop, RequestStop, Judge, GoTo
  <2>3. QED
    BY <2>1, <2>2 DEF Rests
<1>6. CASE UNCHANGED vars
  BY <1>6 DEF vars, kafka, Rests
<1>7. QED
  BY <1>1, <1>2, <1>3, <1>4, <1>5, <1>6 DEF Next, Handle

-----------------------------------------------------------------------------
LEMMA RestsKeepsInv ==
  ASSUME Inv, Rests
  PROVE  Inv'
<1>1. /\ UNCHANGED <<offset, position, narratives>> /\ offset \in [Channels -> Nat]
      /\ position \in [Channels -> Nat]
      /\ \A d \in Channels : daemon'[d] \in {daemon[d], "down", "poll"}
      /\ \A d \in Channels : offset[d] <= Len(log)
  BY DEF Inv, Rests, TypeOK, OffsetInLog
<1>2. /\ log' \in Seq(Messages) /\ Len(log) <= Len(log')
      /\ \A p \in 1..Len(log) : log'[p] = log[p]
  <2>1. CASE log' = log
    BY <2>1 DEF Inv, TypeOK
  <2>2. ASSUME NEW m \in Messages, log' = Append(log, m)
        PROVE  /\ log' \in Seq(Messages) /\ Len(log) <= Len(log')
               /\ \A p \in 1..Len(log) : log'[p] = log[p]
    BY <2>2 DEF Inv, TypeOK
  <2>3. QED
    BY <2>1, <2>2 DEF Rests
<1>3. /\ Len(log) \in Nat /\ Len(log') \in Nat
      /\ DOMAIN log = 1..Len(log) /\ DOMAIN log' = 1..Len(log')
  BY <1>2 DEF Inv, TypeOK
<1>4. TypeOK'
  BY <1>2 DEF Inv, Rests, TypeOK
<1>5. OffsetInLog'
  <2> SUFFICES ASSUME NEW d \in Channels
               PROVE  /\ offset[d] <= Len(log')
                      /\ daemon'[d] = "got" => position[d] = offset[d] + 1 /\ position[d] <= Len(log')
                      /\ daemon'[d] = "handle" =>
                           /\ position[d] \in 1..Len(log') /\ position[d] \in {offset[d], offset[d] + 1}
                           /\ log'[position[d]].channel = d
    BY <1>1 DEF OffsetInLog
  <2>1. /\ offset[d] <= Len(log) /\ offset[d] \in Nat /\ position[d] \in Nat
        /\ daemon[d] = "got" => position[d] = offset[d] + 1 /\ position[d] <= Len(log)
        /\ daemon[d] = "handle" =>
             /\ position[d] \in 1..Len(log) /\ position[d] \in {offset[d], offset[d] + 1}
             /\ log[position[d]].channel = d
    BY <1>1 DEF Inv, OffsetInLog
  <2>2. position[d] \in 1..Len(log) => log'[position[d]] = log[position[d]]
    BY <1>2
  <2>3. daemon'[d] = "got" \/ daemon'[d] = "handle" => daemon[d] = daemon'[d]
    BY <1>1
  <2>4. QED
    BY <1>2, <1>3, <2>1, <2>2, <2>3
<1>6. CommittedFirst'
  BY <1>1 DEF Inv, CommittedFirst
<1>7. \A p \in 1..offset["coordinator"] : p \in 1..Len(log)
  BY <1>1, <1>3
<1>8. /\ InTopicOrder
      /\ \A i \in DOMAIN narratives : narratives[i].at \in DOMAIN log'
                                      /\ log'[narratives[i].at] = log[narratives[i].at]
  BY <1>2, <1>3 DEF Inv, NarratedInOrder, InTopicOrder
<1>9. NarratedInOrder'
  BY <1>1, <1>2, <1>7, <1>8, SMTT(30) DEF Inv, Rests, NarratedInOrder, InTopicOrder
<1>10. QED
  BY <1>4, <1>5, <1>6, <1>9 DEF Inv

LEMMA GetOneKeepsInv ==
  ASSUME Inv, NEW d \in Channels, GetOne(d)
  PROVE  Inv'
<1>1. /\ UNCHANGED <<log, offset, narratives, faults>>
      /\ position' = [position EXCEPT ![d] = offset[d] + 1]
      /\ daemon[d] = "poll" /\ daemon' = [daemon EXCEPT ![d] = "got"] /\ offset[d] < Len(log)
  BY DEF GetOne, GoTo
<1>2. /\ position'[d] = offset[d] + 1 /\ daemon'[d] = "got"
      /\ \A c \in Channels \ {d} : position'[c] = position[c] /\ daemon'[c] = daemon[c]
  BY <1>1 DEF Inv, TypeOK
<1>3. TypeOK'
  BY <1>1 DEF Inv, TypeOK
<1>4. OffsetInLog'
  BY <1>1, <1>2 DEF Inv, TypeOK, OffsetInLog
<1>5. daemon["coordinator"] = "handle" \/ daemon'["coordinator"] = "handle" =>
         daemon'["coordinator"] = daemon["coordinator"]
         /\ position'["coordinator"] = position["coordinator"]
  BY <1>1, <1>2
<1>6. CommittedFirst'
  BY <1>1, <1>5 DEF Inv, CommittedFirst
<1>7. NarratedInOrder'
  BY <1>1, <1>5 DEF Inv, NarratedInOrder
<1>8. QED
  BY <1>3, <1>4, <1>6, <1>7 DEF Inv

(* Both ends of the fetch: the offset is moved, or stays with a fault. *)
LEMMA CommitKeepsInv ==
  ASSUME Inv, NEW d \in Channels, CommitOffset(d) \/ CommitFails(d)
  PROVE  Inv'
<1> DEFINE next == offset[d] + 1
           to == IF Mine(d, log[position[d]]) THEN "handle" ELSE "poll"
<1>1. /\ UNCHANGED <<log, position, narratives>>
      /\ daemon[d] = "got" /\ daemon' = [daemon EXCEPT ![d] = to]
  BY DEF CommitOffset, CommitFails, Dispatch, GoTo, kafka
<1>2. /\ next \in Nat /\ next > 0 /\ next <= Len(log) /\ next > offset[d] /\ Len(log) \in Nat
      /\ \A p \in 1..next : p = next \/ p \in 1..offset[d]
      /\ position[d] = next /\ offset[d] \in Nat
  BY <1>1 DEF Inv, TypeOK, OffsetInLog
<1>3. to \in {"handle", "poll"} /\ (to = "handle" <=> log[next].channel = d)
  BY <1>2 DEF Mine
<1>4. \/ offset' = [offset EXCEPT ![d] = next] /\ faults' = faults
      \/ offset' = offset /\ faults' \in Nat /\ faults' # 0
  BY <1>2, FaultCounts DEF CommitOffset, CommitFails, kafka, Inv
<1> HIDE DEF next, to
<1>5. TypeOK'
  BY <1>1, <1>2, <1>3, <1>4 DEF Inv, TypeOK
<1>6. /\ offset'[d] = next \/ (offset'[d] = offset[d] /\ faults' # 0)
      /\ \A c \in Channels \ {d} : offset'[c] = offset[c]
  BY <1>1, <1>4 DEF Inv, TypeOK
<1>7. daemon'[d] = to /\ \A c \in Channels \ {d} : daemon'[c] = daemon[c]
  BY <1>1 DEF Inv, TypeOK
<1>8. OffsetInLog'
  <2> SUFFICES ASSUME NEW c \in Channels
               PROVE  /\ offset'[c] <= Len(log)
                      /\ daemon'[c] = "got" => position[c] = offset'[c] + 1 /\ position[c] <= Len(log)
                      /\ daemon'[c] = "handle" =>
                           /\ position[c] \in 1..Len(log)
                           /\ position[c] \in {offset'[c], offset'[c] + 1}
                           /\ log[position[c]].channel = c
    BY <1>1 DEF OffsetInLog
  <2>1. CASE c = d
    <3>1. offset'[d] = next \/ offset'[d] + 1 = next
      BY <1>2, <1>6 DEF next
    <3>2. offset'[d] <= Len(log) /\ next \in 1..Len(log)
      BY <1>2, <1>6
    <3>3. QED
      BY <1>2, <1>3, <1>7, <2>1, <3>1, <3>2
  <2>2. CASE c # d
    BY <1>6, <1>7, <2>2 DEF Inv, OffsetInLog
  <2>3. QED
    BY <2>1, <2>2
<1>9. \A i \in DOMAIN narratives : narratives[i].at \in Nat
  <2>1. PICK S : S = [at : Nat, offset : Nat]
    OBVIOUS
  <2>2. narratives \in Seq(S)
    BY <2>1 DEF Inv, TypeOK
  <2>3. \A i \in DOMAIN narratives : narratives[i] \in S
    BY <2>2
  <2>4. QED
    BY <2>1, <2>3
<1>10. CASE d = "coordinator"
  <2>1. ASSUME NEW i \in DOMAIN narratives
        PROVE  /\ narratives[i].at <= offset'[d] + 1
               /\ Committed(narratives[i]) => narratives[i].at <= offset'[d]
               /\ narratives[i].at <= next /\ (Committed(narratives[i]) => narratives[i].at < next)
    <3>1. /\ narratives[i].at <= offset[d] + 1
          /\ Committed(narratives[i]) => narratives[i].at <= offset[d]
      BY <1>10 DEF Inv, CommittedFirst
    <3>2. QED
      BY <1>2, <1>6, <1>9, <3>1 DEF next
  <2>2. CommittedFirst'
    BY <1>1, <1>2, <1>10, <2>1 DEF CommittedFirst
  <2>3. faults' = 0 => /\ faults = 0
                       /\ \A p \in 1..offset'[d] : p = next \/ p \in 1..offset[d]
                       /\ offset'[d] = next
    BY <1>2, <1>4, <1>6 DEF Inv, TypeOK
  <2>4. daemon["coordinator"] # "handle"
    BY <1>1, <1>10
  <2>5. NarratedInOrder'
    BY <1>1, <1>2, <1>3, <1>7, <1>10, <2>3, <2>4 DEF Inv, NarratedInOrder
  <2>6. QED
    BY <1>5, <1>8, <2>2, <2>5 DEF Inv
<1>11. CASE d # "coordinator"
  <2>1. offset'["coordinator"] = offset["coordinator"] /\ daemon'["coordinator"] = daemon["coordinator"]
    BY <1>6, <1>7, <1>11
  <2>2. faults' = 0 => faults = 0
    BY <1>4
  <2>3. CommittedFirst' /\ NarratedInOrder'
    BY <1>1, <2>1, <2>2 DEF Inv, CommittedFirst, NarratedInOrder
  <2>4. QED
    BY <1>5, <1>8, <2>3 DEF Inv
<1>12. QED
  BY <1>10, <1>11

LEMMA NarrateKeepsInv ==
  ASSUME Inv, Narrate
  PROVE  Inv'
<1>0. PICK last : last = position["coordinator"]
  OBVIOUS
<1>a. PICK new : new = [at |-> last, offset |-> offset["coordinator"]]
  OBVIOUS
<1> DEFINE n == Len(narratives)
<1>1. /\ UNCHANGED <<log, offset, position, faults>>
      /\ daemon["coordinator"] = "handle" /\ daemon' = [daemon EXCEPT !["coordinator"] = "poll"]
      /\ narratives' = Append(narratives, new)
  BY <1>0, <1>a DEF Narrate, GoTo, kafka
<1>2. /\ last \in Nat /\ last \in DOMAIN log /\ log[last].channel = "coordinator"
      /\ last \in {offset["coordinator"], offset["coordinator"] + 1}
  BY <1>0, <1>1 DEF Inv, TypeOK, OffsetInLog
<1>b. \A i \in DOMAIN narratives : /\ narratives[i].at <= last
                                   /\ Committed(narratives[i]) => narratives[i].at < last
  BY <1>0, <1>1 DEF Inv, CommittedFirst
<1>c. new \in [at : Nat, offset : Nat] /\ new.at = last
      /\ (Committed(new) => last <= offset["coordinator"]) /\ last <= offset["coordinator"] + 1
  BY <1>a, <1>2 DEF Inv, TypeOK, Committed
<1>3. /\ n \in Nat /\ narratives' \in Seq([at : Nat, offset : Nat])
      /\ DOMAIN narratives = 1..n /\ DOMAIN narratives' = 1..n + 1
      /\ narratives'[n + 1] = new
      /\ \A i \in 1..n : narratives'[i] = narratives[i]
  BY <1>1, <1>c DEF Inv, TypeOK
<1> HIDE DEF n
<1>d. \A i \in 1..n + 1 : i = n + 1 \/ i \in 1..n
  BY <1>3
<1>4. TypeOK' /\ OffsetInLog'
  BY <1>1, <1>3 DEF Inv, TypeOK, OffsetInLog
<1>5. CommittedFirst'
  <2>1. daemon'["coordinator"] # "handle"
    BY <1>1 DEF Inv, TypeOK
  <2>2. QED
    BY <1>1, <1>3, <1>c, <1>d, <2>1 DEF Inv, CommittedFirst
<1>6. InTopicOrder'
  <2> SUFFICES ASSUME NEW i \in 1..n + 1, NEW k \in 1..n + 1, i < k
               PROVE  /\ narratives'[i].at <= narratives'[k].at
                      /\ Committed(narratives'[i]) => narratives'[i].at < narratives'[k].at
    BY <1>3 DEF InTopicOrder
  <2>1. i \in 1..n
    BY <1>3
  <2>2. CASE k = n + 1
    <3>1. narratives'[k].at = last /\ narratives'[i] = narratives[i] /\ i \in DOMAIN narratives
      BY <1>3, <1>c, <2>1, <2>2
    <3>2. QED
      BY <1>b, <3>1
  <2>3. CASE k \in 1..n
    BY <1>3, <2>1, <2>3 DEF Inv, NarratedInOrder
  <2>4. QED
    BY <1>d, <2>2, <2>3
<1>e. ASSUME NEW i \in DOMAIN narratives'
      PROVE  narratives'[i].at \in DOMAIN log /\ log[narratives'[i].at].channel = "coordinator"
  <2>1. CASE i = n + 1
    BY <1>2, <1>3, <1>c, <2>1
  <2>2. CASE i \in 1..n
    BY <1>3, <2>2 DEF Inv, NarratedInOrder
  <2>3. QED
    BY <1>3, <1>d, <2>1, <2>2
<1>f. ASSUME faults = 0, NEW p \in 1..offset["coordinator"]
      PROVE  \/ log[p].channel # "coordinator"
             \/ \E i \in DOMAIN narratives' : narratives'[i].at = p
  <2>1. CASE p = last
    <3>1. n + 1 \in DOMAIN narratives' /\ narratives'[n + 1].at = p
      BY <1>3, <1>c, <2>1
    <3>2. QED
      BY <3>1
  <2>2. CASE \E i \in 1..n : narratives[i].at = p
    <3>1. PICK i \in 1..n : narratives[i].at = p
      BY <2>2
    <3>2. i \in 1..n + 1 /\ narratives'[i].at = p
      BY <1>3, <3>1
    <3>3. QED
      BY <1>3, <3>2
  <2>3. QED
    BY <1>0, <1>3, <1>f, <2>1, <2>2 DEF Inv, NarratedInOrder
<1>7. NarratedInOrder'
  BY <1>1, <1>6, <1>e, <1>f DEF NarratedInOrder, InTopicOrder
<1>8. QED
  BY <1>4, <1>5, <1>7 DEF Inv

-----------------------------------------------------------------------------
(* The coordinator daemon narrates in the order of the topic, a message    *)
(* again only if its commit failed, and without a fault none is skipped,   *)
(* whatever crashes between fetching, committing and handling.             *)
THEOREM CoordinatorKeepsOrder == Spec => []NarratedInOrder
<1>1. Init => Inv
  BY DEF Init, Inv, TypeOK, OffsetInLog, CommittedFirst, NarratedInOrder
<1>2. Inv /\ [Next]_vars => Inv'
  BY Kinds, RestsKeepsInv, GetOneKeepsInv, CommitKeepsInv, NarrateKeepsInv DEF Inv
<1>3. Inv => NarratedInOrder
  BY DEF Inv
<1>4. QED
  BY <1>1, <1>2, <1>3, PTL DEF Spec

-----------------------------------------------------------------------------
(* The status feed that the daemons and the API write to.                  *)

FeedInv ==
  FeedTypeOK /\ SentIsSeen /\ PendingIsNew /\ QueueIsKnown /\ ShownInOrder

(* A sequence in order that gets a larger last element is in order. *)
LEMMA AppendInOrder ==
  ASSUME NEW s \in Seq(Nat), NEW n \in Nat, InOrder(s), \A i \in DOMAIN s : s[i] < n
  PROVE  InOrder(Append(s, n))
  BY DEF InOrder

(* Without its first element it still is, and the rest is larger. *)
LEMMA TailInOrder ==
  ASSUME NEW s \in Seq(Nat), s # << >>, InOrder(s)
  PROVE  /\ InOrder(Tail(s)) /\ Tail(s) \in Seq(Nat) /\ Head(s) \in Nat
         /\ \A i \in DOMAIN Tail(s) : Tail(s)[i] > Head(s) /\ \E k \in DOMAIN s : Tail(s)[i] = s[k]
<1>1. Tail(s) \in Seq(Nat) /\ Len(Tail(s)) = Len(s) - 1 /\ Len(s) \in Nat /\ Len(s) > 0
  OBVIOUS
<1>2. \A i \in 1..(Len(s) - 1) : Tail(s)[i] = s[i + 1]
  OBVIOUS
<1>3. Head(s) = s[1] /\ DOMAIN s = 1..Len(s) /\ DOMAIN Tail(s) = 1..(Len(s) - 1)
  BY <1>1
<1>4. ASSUME NEW i \in DOMAIN Tail(s) PROVE i + 1 \in DOMAIN s /\ Tail(s)[i] = s[i + 1] /\ s[i + 1] > s[1]
  <2>1. i + 1 \in DOMAIN s /\ 1 \in DOMAIN s /\ 1 < i + 1
    BY <1>1, <1>3
  <2> QED BY <1>2, <1>3, <2>1 DEF InOrder
<1>5. InOrder(Tail(s))
  <2> SUFFICES ASSUME NEW i \in DOMAIN Tail(s), NEW k \in DOMAIN Tail(s), i < k
               PROVE  Tail(s)[i] < Tail(s)[k]
    BY DEF InOrder
  <2>1. i + 1 < k + 1
    BY <1>1, <1>3
  <2> QED BY <1>4, <2>1 DEF InOrder
<1> QED BY <1>1, <1>3, <1>4, <1>5

LEMMA FeedBegins ==
  ASSUME FeedInit
  PROVE  FeedInv
<1>1. << >> \in Seq(Nat) /\ DOMAIN << >> = {}
  OBVIOUS
<1>2. FeedTypeOK
  BY <1>1, StatusFeedAssumption DEF FeedInit, FeedTypeOK
<1> QED BY <1>1, <1>2
        DEF FeedInv, FeedInit, SentIsSeen, PendingIsNew, QueueIsKnown, ShownInOrder,
            InOrder

(* Records and transactions of Postgres do not touch the stream. *)
LEMMA FeedWrites ==
  ASSUME FeedInv, NEW w \in Writers, InsertRow(w) \/ CommitRow(w) \/ AbortRow(w)
  PROVE  FeedInv'
<1> USE DEF FeedInv, stream
<1>1. /\ lastSeen' = lastSeen /\ pending' = pending /\ shown' = shown /\ postgres' = postgres
      /\ client' = client /\ since' = since /\ connects' = connects
  BY DEF InsertRow, CommitRow, AbortRow
<1>2. lastId' \in Nat /\ lastId' >= lastId
  BY DEF InsertRow, CommitRow, AbortRow, FeedTypeOK
<1>3. inserting' \in [Writers -> Nat] /\ rows' \in Seq(Nat)
  <2>1. lastId \in Nat /\ inserting \in [Writers -> Nat] /\ rows \in Seq(Nat)
    BY DEF FeedTypeOK
  <2>2. CASE InsertRow(w)
    BY <2>1, <2>2 DEF InsertRow
  <2>3. CASE CommitRow(w)
    BY <2>1, <2>3 DEF CommitRow
  <2>4. CASE AbortRow(w)
    BY <2>1, <2>4 DEF AbortRow
  <2> QED BY <2>2, <2>3, <2>4
<1>4. FeedTypeOK'
  BY <1>1, <1>2, <1>3 DEF FeedTypeOK
<1>5. SentIsSeen' /\ PendingIsNew' /\ ShownInOrder'
  BY <1>1 DEF SentIsSeen, PendingIsNew, ShownInOrder, InOrder
<1>6. QueueIsKnown'
  <2>1. \A i \in DOMAIN pending : pending[i] \in Nat
    BY DEF FeedTypeOK
  <2> QED BY <1>1, <1>2, <2>1 DEF QueueIsKnown, FeedTypeOK
<1> QED BY <1>4, <1>5, <1>6

(* A record in memory goes behind everything in the subscription's queue. *)
LEMMA FeedRecords ==
  ASSUME FeedInv, NEW w \in Writers, RecordInMemory(w)
  PROVE  FeedInv'
<1> USE DEF FeedInv
<1>1. /\ lastSeen' = lastSeen /\ shown' = shown /\ postgres' = postgres /\ ~postgres
      /\ client' = client /\ since' = since /\ connects' = connects /\ inserting' = inserting
      /\ lastId' = lastId + 1 /\ lastId' \in Nat /\ lastId \in Nat /\ lastSeen \in Nat
      /\ rows' = Append(rows, lastId') /\ pending' \in {pending, Append(pending, lastId')}
  BY DEF RecordInMemory, Notify, FeedTypeOK
<1>2. pending \in Seq(Nat) /\ rows \in Seq(Nat) /\ \A i \in DOMAIN pending : pending[i] \in Nat
  BY DEF FeedTypeOK
<1>3. lastSeen <= lastId /\ \A i \in DOMAIN pending : pending[i] <= lastId
  BY <1>1 DEF QueueIsKnown
<1>4. pending' \in Seq(Nat) /\ rows' \in Seq(Nat)
  <2>1. PICK n \in Nat : n = lastId'
    BY <1>1
  <2>2. Append(pending, n) \in Seq(Nat) /\ Append(rows, n) \in Seq(Nat)
    BY <1>2
  <2> QED BY <1>1, <1>2, <2>1, <2>2
<1>5. FeedTypeOK'
  BY <1>1, <1>4 DEF FeedTypeOK
<1>6. \A i \in DOMAIN pending : pending[i] < lastId'
  BY <1>1, <1>2, <1>3
<1>7. \A i \in DOMAIN pending' : pending'[i] = lastId' \/ (i \in DOMAIN pending /\ pending'[i] = pending[i])
  <2>1. ASSUME NEW n \in Nat, NEW i \in DOMAIN Append(pending, n)
        PROVE  Append(pending, n)[i] = n \/ (i \in DOMAIN pending /\ Append(pending, n)[i] = pending[i])
    BY <1>2
  <2>2. pending' = pending \/ pending' = Append(pending, lastId')
    BY <1>1
  <2>3. PICK n \in Nat : n = lastId'
    BY <1>1
  <2> QED BY <2>1, <2>2, <2>3
<1>8. InOrder(pending')
  <2>1. PICK n \in Nat : n = lastId'
    BY <1>1
  <2>2. InOrder(Append(pending, n))
    BY <1>2, <1>6, <2>1, AppendInOrder DEF PendingIsNew
  <2> QED BY <1>1, <2>1, <2>2 DEF PendingIsNew
<1>9. PendingIsNew'
  <2>1. \A i \in DOMAIN pending' : pending'[i] > lastSeen'
    BY <1>1, <1>3, <1>7 DEF PendingIsNew
  <2> QED BY <1>8, <2>1 DEF PendingIsNew, InOrder
<1>10. QueueIsKnown'
  BY <1>1, <1>2, <1>3, <1>7 DEF QueueIsKnown
<1>11. SentIsSeen' /\ ShownInOrder'
  BY <1>1 DEF SentIsSeen, ShownInOrder, InOrder
<1> QED BY <1>5, <1>9, <1>10, <1>11

(* A batch is in order and after the last row that was seen. *)
LEMMA FeedFetches ==
  ASSUME FeedInv, FetchSince
  PROVE  FeedInv'
<1> USE DEF FeedInv
<1>1. /\ postgres' = postgres /\ postgres /\ lastId' = lastId /\ inserting' = inserting /\ rows' = rows
      /\ client' = client /\ since' = since /\ lastSeen' = lastSeen /\ shown' = shown
      /\ connects' = connects
  BY DEF FetchSince
<1>2. PICK n \in 1..FetchLimit : \E ids \in [1..n -> After(lastSeen)] :
        IsBatch(ids) /\ pending' = ids
  BY DEF FetchSince
<1>3. PICK ids \in [1..n -> After(lastSeen)] : IsBatch(ids) /\ pending' = ids
  BY <1>2
<1>4. \A id \in After(lastSeen) : id \in Nat /\ id > lastSeen
  BY DEF After, Range, FeedTypeOK
<1>5. n \in Nat
  BY StatusFeedAssumption
<1>6. ids \in Seq(Nat) /\ DOMAIN ids = 1..n /\ \A i \in DOMAIN ids : ids[i] > lastSeen
  BY <1>3, <1>4, <1>5
<1>7. FeedTypeOK'
  BY <1>1, <1>3, <1>6 DEF FeedTypeOK
<1>8. PendingIsNew'
  BY <1>1, <1>3, <1>6 DEF PendingIsNew, IsBatch, InOrder
<1>9. QueueIsKnown' /\ SentIsSeen' /\ ShownInOrder'
  BY <1>1 DEF SentIsSeen, ShownInOrder, InOrder, QueueIsKnown
<1> QED BY <1>7, <1>8, <1>9

(* What is sent comes after everything that was sent, and before the rest. *)
LEMMA FeedYields ==
  ASSUME FeedInv, Yield
  PROVE  FeedInv'
<1> USE DEF FeedInv
<1>1. /\ postgres' = postgres /\ lastId' = lastId /\ inserting' = inserting /\ rows' = rows
      /\ client' = client /\ since' = since /\ connects' = connects /\ pending # << >>
      /\ lastSeen' = Head(pending) /\ pending' = Tail(pending) /\ shown' = Append(shown, Head(pending))
  BY DEF Yield
<1>2. pending \in Seq(Nat) /\ shown \in Seq(Nat) /\ lastSeen \in Nat /\ InOrder(pending)
      /\ \A i \in DOMAIN shown : shown[i] \in Nat
  BY DEF FeedTypeOK, PendingIsNew
<1>3. /\ InOrder(Tail(pending)) /\ Tail(pending) \in Seq(Nat) /\ Head(pending) \in Nat
      /\ \A i \in DOMAIN Tail(pending) : /\ Tail(pending)[i] > Head(pending)
                                         /\ \E k \in DOMAIN pending : Tail(pending)[i] = pending[k]
  BY <1>1, <1>2, TailInOrder
<1>4. Head(pending) = pending[1] /\ 1 \in DOMAIN pending
  BY <1>1, <1>2
<1>5. Head(pending) > lastSeen
  BY <1>4 DEF PendingIsNew
<1>6. \A i \in DOMAIN shown : shown[i] < Head(pending)
  BY <1>2, <1>3, <1>5 DEF SentIsSeen
<1>7. FeedTypeOK'
  BY <1>1, <1>2, <1>3 DEF FeedTypeOK
<1>8. PendingIsNew'
  BY <1>1, <1>3 DEF PendingIsNew, InOrder
<1>9. QueueIsKnown'
  BY <1>1, <1>3, <1>4 DEF QueueIsKnown
<1>10. PICK n \in Nat : n = Head(pending)
  BY <1>3
<1>11. ShownInOrder'
  <2>1. InOrder(Append(shown, n))
    BY <1>2, <1>6, <1>10, AppendInOrder DEF ShownInOrder
  <2> QED BY <1>1, <1>10, <2>1 DEF ShownInOrder, InOrder
<1>12. SentIsSeen'
  <2>1. \A i \in DOMAIN Append(shown, n) : Append(shown, n)[i] <= n
    BY <1>2, <1>6, <1>10, SMTT(30)
  <2> QED BY <1>1, <1>10, <2>1 DEF SentIsSeen
<1> QED BY <1>7, <1>8, <1>9, <1>11, <1>12

(* A connection begins and ends with nothing to send. *)
LEMMA FeedConnects ==
  ASSUME FeedInv, Connect \/ Disconnect
  PROVE  FeedInv'
<1> USE DEF FeedInv
<1>1. << >> \in Seq(Nat) /\ DOMAIN << >> = {}
  OBVIOUS
<1>2. /\ postgres' = postgres /\ lastId' = lastId /\ inserting' = inserting /\ rows' = rows
      /\ pending' = << >> /\ client' \in BOOLEAN
      /\ (shown' = << >> /\ lastSeen' = 0) \/ (shown' = shown /\ lastSeen' = lastSeen)
  BY DEF Connect, Disconnect
<1>3. since' \in Nat /\ connects' \in Nat
  <2>1. lastId \in Nat /\ since \in Nat /\ connects \in Nat
    BY DEF FeedTypeOK
  <2>2. connects' = connects + 1 \/ connects' = connects
    BY DEF Connect, Disconnect
  <2>3. since' = (IF postgres THEN 0 ELSE lastId) \/ since' = since
    BY DEF Connect, Disconnect
  <2>4. since' = 0 \/ since' = lastId \/ since' = since
    BY <2>3
  <2> QED BY <2>1, <2>2, <2>4
<1>4. FeedTypeOK'
  <2>1. shown' \in Seq(Nat) /\ lastSeen' \in Nat
    <3>1. shown \in Seq(Nat) /\ lastSeen \in Nat
      BY DEF FeedTypeOK
    <3>2. (shown' = << >> /\ lastSeen' = 0) \/ (shown' = shown /\ lastSeen' = lastSeen)
      BY <1>2
    <3>3. << >> \in Seq(Nat) /\ 0 \in Nat
      OBVIOUS
    <3> QED BY <3>1, <3>2, <3>3
  <2>2. pending' \in Seq(Nat)
    BY <1>1, <1>2
  <2>3. postgres' \in BOOLEAN /\ lastId' \in Nat /\ inserting' \in [Writers -> Nat] /\ rows' \in Seq(Nat)
    BY <1>2 DEF FeedTypeOK
  <2>4. client' \in BOOLEAN
    BY <1>2
  <2> QED BY <1>3, <2>1, <2>2, <2>3, <2>4 DEF FeedTypeOK
<1>5. PendingIsNew' /\ QueueIsKnown'
  BY <1>1, <1>2 DEF PendingIsNew, QueueIsKnown, InOrder, FeedTypeOK
<1>6. SentIsSeen' /\ ShownInOrder'
  BY <1>1, <1>2 DEF SentIsSeen, ShownInOrder, InOrder
<1> QED BY <1>4, <1>5, <1>6

(* A connection to GET /status/stream sends no status twice and keeps the  *)
(* order of the ids, on either store, for any number of writing processes, *)
(* any size of a batch and any transactions that commit late or not.       *)
THEOREM StreamKeepsOrder == FeedSpec => []ShownInOrder
<1>1. FeedInit => FeedInv
  BY FeedBegins
<1>2. FeedInv /\ [FeedNext]_feed => FeedInv'
  <2> SUFFICES ASSUME FeedInv, [FeedNext]_feed PROVE FeedInv'
    OBVIOUS
  <2>1. CASE UNCHANGED feed
    BY <2>1 DEF FeedInv, feed, FeedTypeOK, SentIsSeen, PendingIsNew, QueueIsKnown,
                ShownInOrder, InOrder
  <2>2. CASE FeedNext
    BY <2>2, FeedWrites, FeedRecords, FeedFetches, FeedYields, FeedConnects DEF FeedNext, Finish
  <2> QED BY <2>1, <2>2
<1>3. FeedInv => ShownInOrder
  BY DEF FeedInv
<1> QED BY <1>1, <1>2, <1>3, PTL DEF FeedSpec
=============================================================================
