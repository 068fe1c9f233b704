---------------------------- MODULE ControlPlane ----------------------------
(***************************************************************************)
(* Findings on their way from the workers to the critic and the            *)
(* coordinator: the bus transports (cys_core/infrastructure/kafka_bus.py,  *)
(* bus_transport.py), the services that handle an envelope                 *)
(* (interfaces/control_plane/critic_service.py, coordinator_service.py,    *)
(* narrate_investigation.py) and the daemons that run them (bus_consumer.py *)
(* critic_daemon.py, coordinator_daemon.py, daemon_runner.py).             *)
(*                                                                         *)
(* On Kafka a daemon makes a new consumer for every message, in a group of *)
(* its own; closing the consumer commits the offset, which may fail        *)
(* unnoticed, and only then is the message handled.  On Redis a thread of the critic daemon subscribes to  *)
(* the critic's channel.  With CONTROL_MODE "inprocess" the API process,   *)
(* which runs jobs too, also has the two services: a transport calls the   *)
(* handlers of its own process while it publishes.                         *)
(***************************************************************************)
EXTENDS Naturals, Sequences

CONSTANTS
  Findings,     \* the findings of workers
  Traffic,      \* what they publish
  Setups,       \* the deployments to explore
  MaxFaults,    \* bound: broker failures, crashes and failing stores
  MaxStops      \* bound: SIGTERMs

(* get_bus_transport: Kafka, or Redis, which is "local" when it did not     *)
(* answer the ping; mode: CONTROL_MODE.                                     *)
AllSetups == [bus : {"kafka", "redis", "local"}, mode : {"daemon", "inprocess"}]

Channels == {"critic", "coordinator"}
Processes == {"api", "worker"}
Messages == [finding : Findings, channel : Channels]

ASSUME ControlPlaneAssumption ==
  /\ Setups \subseteq AllSetups /\ Traffic \subseteq Messages
  /\ MaxFaults \in Nat /\ MaxStops \in Nat

VARIABLES
  setup,
  unsent,     \* what is still to be published
  log,        \* the topic bus.findings
  offset,     \* per consumer group: how much of the log is committed
  position,   \* per daemon: the position of the message that it fetched last
  daemon,     \* per daemon: "down", "poll", "got" or "handle"
  stopping,   \* daemons that have been told to stop
  thread,     \* the subscriber thread of the critic daemon: "none", "listening" or "dead"
  inbox,      \* what Redis has sent to that thread
  registered, \* the API process has the two services
  local,      \* the messages that handlers of the API process are working on
  told,       \* the findings narrated there
  narratives, \* those of the coordinator daemon: the position of their message
              \* in the log, and the offset of the group then
  faults, stops

kafka == <<log, offset, position>>
redis == <<thread, inbox>>
api == <<registered, local, told>>
vars == <<setup, unsent, kafka, daemon, stopping, redis, api, narratives, faults, stops>>

Init ==
  /\ setup \in Setups
  /\ unsent = Traffic
  /\ log = << >> /\ offset = [d \in Channels |-> 0] /\ position = [d \in Channels |-> 0]
  /\ daemon = [d \in Channels |-> "down"] /\ stopping = {}
  /\ thread = "none" /\ inbox = << >>
  /\ registered = FALSE /\ local = {} /\ told = {}
  /\ narratives = << >>
  /\ faults = 0 /\ stops = 0

Fault == faults < MaxFaults /\ faults' = faults + 1
GoTo(d, from, to) == daemon[d] = from /\ daemon' = [daemon EXCEPT ![d] = to]

-----------------------------------------------------------------------------
(* get_critic_service and get_coordinator_service: the first call makes    *)
(* the service and subscribes it.                                          *)
Subscribe == ~registered /\ registered' = TRUE

(* POST /events does both. *)
PostEvent ==
  /\ setup.mode = "inprocess" /\ Subscribe
  /\ UNCHANGED <<setup, unsent, kafka, daemon, stopping, redis, local, told, narratives,
                 faults, stops>>

(* A Redis transport without Redis keeps its handlers where publish does   *)
(* not look for them.                                                      *)
HasHandlers(process) == process = "api" /\ registered /\ setup.bus # "local"

(* InMemoryBusTransport.publish: the handlers run within publish. *)
CallHandlers(m, process) ==
  local' = IF HasHandlers(process) THEN local \cup {m} ELSE local

KafkaPublish(m) == log' = Append(log, m)

(* Redis keeps nothing for those who do not listen. *)
RedisPublish(m) ==
  inbox' = IF thread = "listening" /\ m.channel = "critic" THEN Append(inbox, m) ELSE inbox

(* transport.publish: over the network, then to the handlers at hand. *)
Publish(m, process) ==
  /\ m \in unsent /\ unsent' = unsent \ {m}
  /\ IF setup.bus = "kafka" THEN KafkaPublish(m) ELSE UNCHANGED log
  /\ IF setup.bus = "redis" THEN RedisPublish(m) ELSE UNCHANGED inbox
  /\ CallHandlers(m, process)
  /\ UNCHANGED <<setup, offset, position, daemon, stopping, thread, registered, told, narratives,
                 faults, stops>>

(* _ensure_producer fails: publish goes on as usual. *)
PublishNowhere(m, process) ==
  /\ setup.bus = "kafka" /\ m \in unsent /\ unsent' = unsent \ {m}
  /\ Fault /\ CallHandlers(m, process)
  /\ UNCHANGED <<setup, kafka, daemon, stopping, redis, registered, told, narratives, stops>>

(* The producer or Redis raises; the job fails and the finding is gone. *)
PublishRaises(m) ==
  /\ setup.bus # "local" /\ m \in unsent /\ unsent' = unsent \ {m}
  /\ Fault
  /\ UNCHANGED <<setup, kafka, daemon, stopping, redis, api, narratives, stops>>

-----------------------------------------------------------------------------
(* What CriticService._processor passes to ProcessFindingCritic, and what  *)
(* its constructor takes: handle_message raises a TypeError unless the     *)
(* processor can be made.                                                  *)
ProcessorArguments ==
  {"guardrails", "store", "trust_score_threshold", "publish_awaiting_approval",
   "publish_escalation_event", "memory_writer", "investigation_store",
   "record_memory_write", "enqueue_revision", "judge_backend"}
ConstructorParameters == {"trust_threshold"}
CanJudge == ProcessorArguments \subseteq ConstructorParameters

(* A handler of the API process ends: the coordinator's with a narrative,  *)
(* the critic's with the exception that publish passes on to the job.      *)
HandleHere(m) ==
  /\ m \in local /\ local' = local \ {m}
  /\ told' = IF m.channel = "coordinator" THEN told \cup {m.finding} ELSE told
  /\ UNCHANGED <<setup, unsent, kafka, daemon, stopping, redis, registered, narratives,
                 faults, stops>>

(* A store raises in the handler, or the process dies. *)
HandlerFailsHere(m) ==
  /\ Fault /\ m \in local /\ local' = local \ {m}
  /\ UNCHANGED <<setup, unsent, kafka, daemon, stopping, redis, registered, told, narratives, stops>>

CrashApi ==
  /\ Fault /\ registered /\ registered' = FALSE /\ local' = {}
  /\ UNCHANGED <<setup, unsent, kafka, daemon, stopping, redis, told, narratives, stops>>

-----------------------------------------------------------------------------
(* start_subscriber_loop of the critic daemon. *)
StartListening(d) ==
  IF d = "critic" /\ setup.bus = "redis"
  THEN thread' = "listening" /\ inbox' = << >> ELSE UNCHANGED redis

(* The thread goes with its process. *)
StopListening(d) ==
  IF d = "critic" THEN thread' = "none" /\ inbox' = << >> ELSE UNCHANGED redis

(* _dispatch_message in the thread, which an exception ends. *)
Listen ==
  /\ thread = "listening" /\ inbox # << >>
  /\ thread' = IF CanJudge THEN thread ELSE "dead"
  /\ inbox' = IF CanJudge THEN Tail(inbox) ELSE << >>
  /\ UNCHANGED <<setup, unsent, kafka, daemon, stopping, api, narratives, faults, stops>>

(* run_critic_daemon and run_coordinator_daemon, again after a restart. *)
StartDaemon(d) ==
  /\ GoTo(d, "down", "poll")
  /\ stopping' = stopping \ {d}
  /\ StartListening(d)
  /\ UNCHANGED <<setup, unsent, kafka, api, narratives, faults, stops>>

(* Mutant: off by one at the end of the topic. *)
GetOne_LeavesLast(d) ==
  /\ d \notin stopping /\ offset[d] + 1 < Len(log)
  /\ GoTo(d, "poll", "got")
  /\ position' = [position EXCEPT ![d] = offset[d] + 1]
  /\ UNCHANGED <<setup, unsent, log, offset, stopping, redis, api, narratives, faults, stops>>

(* consume_bus_finding: getone ... *)
GetOne(d) ==
  /\ d \notin stopping /\ offset[d] < Len(log)
  /\ GoTo(d, "poll", "got")
  /\ position' = [position EXCEPT ![d] = offset[d] + 1]
  /\ UNCHANGED <<setup, unsent, log, offset, stopping, redis, api, narratives, faults, stops>>

(* BusFindingsConsumer._matches_channel: publish has set both fields. *)
Mine(d, m) == m.channel = d

(* The envelope is returned; one for another channel is skipped. *)
Dispatch(d) == GoTo(d, "got", IF Mine(d, log[position[d]]) THEN "handle" ELSE "poll")

(* ... and stop, which commits ... *)
CommitOffset(d) ==
  /\ Dispatch(d)
  /\ offset' = [offset EXCEPT ![d] = position[d]]
  /\ UNCHANGED <<setup, unsent, log, position, stopping, redis, api, narratives, faults, stops>>

(* ... or does not: the consumer's last commit fails, which it only logs,  *)
(* and the message will be fetched again.                                  *)
CommitFails(d) ==
  /\ Fault /\ Dispatch(d)
  /\ UNCHANGED <<setup, unsent, kafka, stopping, redis, api, narratives, stops>>

(* CoordinatorService.handle_message: a narrative by the LLM or, when that  *)
(* fails, a fixed text.                                                     *)
Narrate ==
  /\ GoTo("coordinator", "handle", "poll")
  /\ narratives' = Append(narratives,
       [at |-> position["coordinator"], offset |-> offset["coordinator"]])
  /\ UNCHANGED <<setup, unsent, kafka, stopping, redis, api, faults, stops>>

(* CriticService.handle_message by the daemon, which an exception ends. *)
Judge ==
  /\ GoTo("critic", "handle", IF CanJudge THEN "poll" ELSE "down")
  /\ IF CanJudge THEN UNCHANGED redis ELSE StopListening("critic")
  /\ UNCHANGED <<setup, unsent, kafka, stopping, api, narratives, faults, stops>>

(* The investigation store or the status store raises and the daemon ends. *)
HandlerFails(d) ==
  /\ Fault /\ GoTo(d, "handle", "down") /\ StopListening(d)
  /\ UNCHANGED <<setup, unsent, kafka, stopping, api, narratives, stops>>

(* Mutant: the last commit has not reached the broker. *)
Crash_LosesCommit(d) ==
  /\ Fault /\ daemon[d] # "down" /\ daemon' = [daemon EXCEPT ![d] = "down"]
  /\ StopListening(d)
  /\ offset' = [offset EXCEPT ![d] = IF @ > 0 THEN @ - 1 ELSE @]
  /\ UNCHANGED <<setup, unsent, log, position, stopping, api, narratives, stops>>

Crash(d) ==
  /\ Fault /\ daemon[d] # "down" /\ daemon' = [daemon EXCEPT ![d] = "down"]
  /\ StopListening(d)
  /\ UNCHANGED <<setup, unsent, kafka, stopping, api, narratives, stops>>

(* SIGTERM sets a flag; run_poll_daemon looks at it between two messages.  *)
RequestStop(d) ==
  /\ stops < MaxStops /\ stops' = stops + 1
  /\ daemon[d] # "down" /\ stopping' = stopping \cup {d}
  /\ UNCHANGED <<setup, unsent, kafka, daemon, redis, api, narratives, faults>>

Stop(d) ==
  /\ d \in stopping /\ GoTo(d, "poll", "down") /\ StopListening(d)
  /\ UNCHANGED <<setup, unsent, kafka, stopping, api, narratives, faults, stops>>

-----------------------------------------------------------------------------
Handle(d) ==
  \/ GetOne(d) \/ CommitOffset(d) \/ Stop(d)
  \/ d = "coordinator" /\ Narrate
  \/ d = "critic" /\ Judge

Next ==
  \/ PostEvent
  \/ \E m \in Messages :
       \/ \E process \in Processes : Publish(m, process) \/ PublishNowhere(m, process)
       \/ PublishRaises(m) \/ HandleHere(m) \/ HandlerFailsHere(m)
  \/ CrashApi
  \/ Listen
  \/ \E d \in Channels :
       StartDaemon(d) \/ Handle(d) \/ CommitFails(d) \/ HandlerFails(d) \/ Crash(d) \/ RequestStop(d)

Spec == Init /\ [][Next]_vars

(* Daemons go on, and the platform starts them again; handlers end. *)
FairSpec ==
  /\ Spec
  /\ \A d \in Channels : WF_vars(StartDaemon(d)) /\ WF_vars(Handle(d))
  /\ \A m \in Messages : WF_vars(HandleHere(m))

-----------------------------------------------------------------------------
(* A narrative of a message that was committed before. *)
Committed(narrative) == narrative.at <= narrative.offset

(* The parts of the inductive invariant that NarratedInOrder needs. *)
TypeOK ==
  /\ log \in Seq(Messages) /\ offset \in [Channels -> Nat] /\ position \in [Channels -> Nat]
  /\ daemon \in [Channels -> {"down", "poll", "got", "handle"}]
  /\ narratives \in Seq([at : Nat, offset : Nat]) /\ faults \in Nat

(* No group is past the end of the topic; a daemon that has fetched a      *)
(* message finds it there, and the one that it handles is its own and is   *)
(* committed or the next to be.                                            *)
OffsetInLog ==
  \A d \in Channels :
    /\ offset[d] <= Len(log)
    /\ daemon[d] = "got" => position[d] = offset[d] + 1 /\ position[d] <= Len(log)
    /\ daemon[d] = "handle" =>
         /\ position[d] \in 1..Len(log) /\ position[d] \in {offset[d], offset[d] + 1}
         /\ log[position[d]].channel = d

(* The daemon is never behind what it has narrated, and is ahead of what   *)
(* it narrated after a commit.                                             *)
CommittedFirst ==
  \A i \in DOMAIN narratives :
    /\ narratives[i].at <= offset["coordinator"] + 1
    /\ Committed(narratives[i]) => narratives[i].at <= offset["coordinator"]
    /\ daemon["coordinator"] = "handle" =>
         /\ narratives[i].at <= position["coordinator"]
         /\ Committed(narratives[i]) => narratives[i].at < position["coordinator"]

-----------------------------------------------------------------------------
(* The daemon keeps the order of the topic and narrates a message again     *)
(* only if it could not be committed, through crashes between any two       *)
(* steps, restarts and the other daemon's use of the same topic: what was   *)
(* narrated after its commit never is again.  As long as nothing fails, a   *)
(* message for the coordinator whose offset is committed has been narrated, *)
(* or is the one that the daemon is about to narrate: stopping and starting *)
(* lose nothing.                                                            *)
NarratedInOrder ==
  /\ \A i, k \in DOMAIN narratives : i < k =>
       /\ narratives[i].at <= narratives[k].at
       /\ Committed(narratives[i]) => narratives[i].at < narratives[k].at
  /\ \A i \in DOMAIN narratives : /\ narratives[i].at \in DOMAIN log
                                  /\ log[narratives[i].at].channel = "coordinator"
  /\ faults = 0 =>
       \A p \in 1..offset["coordinator"] :
         \/ log[p].channel # "coordinator"
         \/ \E i \in DOMAIN narratives : narratives[i].at = p
         \/ p = position["coordinator"] /\ daemon["coordinator"] = "handle"

(* docs/ARCHITECTURE.md: `cys-agi coordinator` turns bus.findings into       *)
(* narratives.  A finding that is in the topic, or published where the       *)
(* services are, is narrated if nothing fails: the critic, which fails on    *)
(* each of its messages, does not keep the coordinator from it.              *)
FindingIsNarrated ==
  \A f \in Findings :
    LET m == [finding |-> f, channel |-> "coordinator"]
    IN  ((\E p \in DOMAIN log : log[p] = m) \/ m \in local)
          ~> \/ faults > 0
             \/ \E i \in DOMAIN narratives : log[narratives[i].at].finding = f
             \/ f \in told
=============================================================================
