----------------------------- MODULE StatusFeed -----------------------------
(***************************************************************************)
(* The status feed of the control plane: the status stores                 *)
(* (interfaces/control_plane/status_store.py, postgres_status_store.py)    *)
(* and GET /status/stream (interfaces/api/app.py), which follows a store   *)
(* for one client.  The memory store calls its subscribers; the Postgres   *)
(* store is written by several processes, the API and the daemons, and the *)
(* stream asks it every two seconds for the rows after the last it has     *)
(* seen.                                                                   *)
(***************************************************************************)
EXTENDS Naturals, Sequences, FiniteSets, SequencesExt

CONSTANTS
  Writers,     \* the processes that record statuses
  Stores,      \* the stores to explore: TRUE PostgresStatusStore, FALSE MemoryStatusStore
  FetchLimit,  \* rows of one fetch_since
  MaxRecords,  \* bound: statuses that are recorded
  MaxConnects  \* bound: times the client connects

ASSUME StatusFeedAssumption ==
  /\ Stores \subseteq BOOLEAN /\ FetchLimit \in Nat \ {0}
  /\ MaxRecords \in Nat /\ MaxConnects \in Nat

VARIABLES
  postgres,   \* the store that is configured
  lastId,     \* the last value of the BIGSERIAL id, or the length of the lists
  inserting,  \* per writer: the id of its open transaction, or 0
  rows,       \* the ids of the records, in the order of their commits
  client,     \* is the client connected
  since,      \* lastId when it connected
  lastSeen,   \* last_id of the generator
  pending,    \* fetched rows, or the queue of the memory subscription
  shown,      \* what this connection has sent to the client
  connects

feed == <<postgres, lastId, inserting, rows, client, since, lastSeen, pending, shown, connects>>
stream == <<client, since, lastSeen, pending, shown, connects>>

FeedInit ==
  /\ postgres \in Stores
  /\ lastId = 0 /\ inserting = [w \in Writers |-> 0] /\ rows = << >>
  /\ client = FALSE /\ since = 0 /\ lastSeen = 0 /\ pending = << >> /\ shown = << >>
  /\ connects = 0

-----------------------------------------------------------------------------
(* PostgresStatusStore._insert: INSERT takes the next id ... *)
InsertRow(w) ==
  /\ postgres /\ lastId < MaxRecords /\ inserting[w] = 0
  /\ lastId' = lastId + 1
  /\ inserting' = [inserting EXCEPT ![w] = lastId + 1]
  /\ UNCHANGED <<postgres, rows, stream>>

(* ... and the row can be seen when the transaction commits. *)
CommitRow(w) ==
  /\ inserting[w] # 0
  /\ rows' = Append(rows, inserting[w])
  /\ inserting' = [inserting EXCEPT ![w] = 0]
  /\ UNCHANGED <<postgres, lastId, stream>>

(* The connection breaks: the id is never used. *)
AbortRow(w) ==
  /\ inserting[w] # 0
  /\ inserting' = [inserting EXCEPT ![w] = 0]
  /\ UNCHANGED <<postgres, lastId, rows, stream>>

(* Mutant: subscribers are not told. *)
Notify_Nobody(id) == UNCHANGED pending

(* MemoryStatusStore._notify: the stream's callback puts it into its queue. *)
Notify(id) == pending' = IF client THEN Append(pending, id) ELSE pending

(* MemoryStatusStore.record_*: append, then _notify. *)
RecordInMemory(w) ==
  /\ ~postgres /\ lastId < MaxRecords
  /\ lastId' = lastId + 1 /\ rows' = Append(rows, lastId')
  /\ Notify(lastId')
  /\ UNCHANGED <<postgres, inserting, client, since, lastSeen, shown, connects>>

-----------------------------------------------------------------------------
(* GET /status/stream: a new generator, for Postgres from last_id = 0. *)
Connect ==
  /\ ~client /\ connects < MaxConnects
  /\ client' = TRUE /\ connects' = connects + 1
  /\ since' = IF postgres THEN 0 ELSE lastId
  /\ lastSeen' = 0 /\ pending' = << >> /\ shown' = << >>
  /\ UNCHANGED <<postgres, lastId, inserting, rows>>

(* The client goes away and the generator is closed. *)
Disconnect ==
  /\ client /\ client' = FALSE
  /\ pending' = << >>
  /\ UNCHANGED <<postgres, lastId, inserting, rows, since, lastSeen, shown, connects>>

(* Mutant: rows from last_id on. *)
After_Inclusive(id) == {i \in Range(rows) : i >= id}

(* WHERE id > last_id *)
After(id) == {i \in Range(rows) : i > id}

(* fetch_since: ORDER BY id LIMIT FetchLimit. *)
InOrder(ids) == \A i, k \in DOMAIN ids : i < k => ids[i] < ids[k]

IsBatch(ids) ==
  /\ InOrder(ids)
  /\ \A id \in After(lastSeen) \ Range(ids) : Len(ids) = FetchLimit /\ id > ids[FetchLimit]

FetchSince ==
  /\ postgres /\ client /\ pending = << >>
  /\ \E n \in 1..FetchLimit : \E ids \in [1..n -> After(lastSeen)] : IsBatch(ids) /\ pending' = ids
  /\ UNCHANGED <<postgres, lastId, inserting, rows, client, since, lastSeen, shown, connects>>

(* The generator sends one status; between two of them the loop goes on    *)
(* with other tasks.                                                       *)
Yield ==
  /\ client /\ pending # << >>
  /\ lastSeen' = Head(pending)
  /\ shown' = Append(shown, Head(pending))
  /\ pending' = Tail(pending)
  /\ UNCHANGED <<postgres, lastId, inserting, rows, client, since, connects>>

-----------------------------------------------------------------------------
Finish(w) == CommitRow(w) \/ AbortRow(w)

FeedNext ==
  \/ \E w \in Writers : InsertRow(w) \/ Finish(w) \/ RecordInMemory(w)
  \/ Connect \/ Disconnect \/ FetchSince \/ Yield

FeedSpec == FeedInit /\ [][FeedNext]_feed

(* Transactions end, and the generator goes on while there is a client. *)
FairFeed ==
  /\ FeedSpec
  /\ \A w \in Writers : WF_feed(Finish(w))
  /\ WF_feed(FetchSince) /\ WF_feed(Yield)

-----------------------------------------------------------------------------
FeedTypeOK ==
  /\ postgres \in BOOLEAN /\ client \in BOOLEAN /\ connects \in Nat /\ since \in Nat
  /\ lastId \in Nat /\ inserting \in [Writers -> Nat] /\ rows \in Seq(Nat)
  /\ lastSeen \in Nat /\ pending \in Seq(Nat) /\ shown \in Seq(Nat)

(* What is still to be sent is in order, and comes after all that was sent; *)
(* the subscription's queue has nothing that the next record does not       *)
(* follow.                                                                  *)
SentIsSeen == \A i \in DOMAIN shown : shown[i] <= lastSeen
PendingIsNew == InOrder(pending) /\ \A i \in DOMAIN pending : pending[i] > lastSeen
QueueIsKnown == ~postgres => lastSeen <= lastId /\ \A i \in DOMAIN pending : pending[i] <= lastId

(* One connection shows no status twice and shows them in the order in     *)
(* which they were recorded, across batches and while writers go on.       *)
ShownInOrder == InOrder(shown)

(* The row is committed, and no row with a larger id was before it. *)
CommittedInOrder(id) ==
  \E k \in DOMAIN rows : rows[k] = id /\ \A j \in 1..(k - 1) : rows[j] < id

(* "Durable control-plane status feed": a status that is recorded while a    *)
(* client is connected, or before it connected to the Postgres store, is    *)
(* shown to it, whatever other processes commit or fail to commit meanwhile, *)
(* unless a row with a larger id was committed before it.                    *)
FeedIsComplete ==
  \A i \in 1..MaxRecords :
    (client /\ i > since /\ CommittedInOrder(i)) ~> (~client \/ i \in Range(shown))
=============================================================================
