------------------------------- MODULE Intake -------------------------------
(***************************************************************************)
(* From the SIEM to a worker, in the Kafka deployment: the poll connector  *)
(* (connectors/siem_poll/client.py) posts alerts to the API                *)
(* (interfaces/api/app.py, use_cases/route_and_enqueue.py), which publishes*)
(* them to the raw topic (infrastructure/kafka_events.py) or, when that    *)
(* fails, routes them itself; the router daemon                            *)
(* (interfaces/ingress/router_consumer.py) routes what is in the topic;    *)
(* either puts one job per persona in the job store and on the persona's   *)
(* topic (infrastructure/kafka_queue.py); a worker daemon                  *)
(* (interfaces/worker/daemon.py) takes each job, gives it a Kubernetes     *)
(* sandbox (infrastructure/k8s_sandbox.py) and runs it.  What running a    *)
(* job does is WorkerPlane's; here it is one step.                         *)
(***************************************************************************)
EXTENDS Routing

CONSTANTS
  Served,      \* personas with a worker daemon in the model
  Setups,      \* the settings modelled (see the variable setup)
  MaxPosts,    \* bound: requests to POST /events
  MaxFaults    \* bound: crashes, timeouts, outages and lost answers

ASSUME BoundAssumption == MaxPosts \in Nat \ {0} /\ MaxFaults \in Nat
ASSUME SetupsAssumption == Setups \subseteq [conductor : BOOLEAN, longIds : BOOLEAN]

VARIABLES
  setup,      \* [conductor, longIds]: USE_CONDUCTOR_FOR_EVENTS; event ids that
              \* fill the 63 characters of a Kubernetes name
  \* the poll connector and its caller
  since,      \* the caller's cursor: alerts before it are done
  polling, upto, next,
  waiting,    \* the request poll_once waits for, 0 for none
  \* API requests 1..MaxPosts and the router daemon, task 0
  tasks,      \* [step, alert, todo, at]
  started,    \* processes whose queue has a producer
  \* Kafka and the job store
  broker,     \* the brokers answer
  raw, offset,\* security.events.raw, and the router's committed offset
  jobs,       \* JobRecords [alert, persona, playbook, task, place]
  \* worker daemons, one per served persona
  worker,     \* [conn, pos, hand, phase, known]
  committed,  \* committed offset of the group workers-<persona>
  cluster,    \* names of the Kubernetes jobs
  \* histories
  accepted,   \* alerts a request for which was answered 200
  lost,       \* alerts whose offset was committed by a router that died
  done,       \* jobs that were run
  abandoned,  \* jobs whose offset was committed by a worker that died
  faults

pollVars == <<since, polling, upto, next, waiting>>
kafkaVars == <<raw, offset>>
workerVars == <<worker, committed, cluster, done, abandoned>>
vars == <<setup, pollVars, tasks, started, broker, kafkaVars, jobs, workerVars,
          accepted, lost, faults>>

Requests == 1..MaxPosts
Router == 0
ProcessOf(t) == IF t = Router THEN "router" ELSE "api"
NoName == << >>
NoTask == [step |-> "free", alert |-> 0, todo |-> << >>, at |-> 0]
IdleWorker == [conn |-> "none", pos |-> 0, hand |-> 0, phase |-> "idle", known |-> NoName]

Init ==
  /\ setup \in Setups
  /\ since = 0 /\ polling = FALSE /\ upto = 0 /\ next = 1 /\ waiting = 0
  /\ tasks = [t \in Requests \cup {Router} |-> NoTask]
  /\ started = {} /\ broker = TRUE
  /\ raw = << >> /\ offset = 0 /\ jobs = << >>
  /\ worker = [p \in Served |-> IdleWorker]
  /\ committed = [p \in Served |-> 0]
  /\ cluster = {} /\ accepted = {} /\ lost = {} /\ done = {} /\ abandoned = {}
  /\ faults = 0

Fault == faults < MaxFaults /\ faults' = faults + 1

Poisoned(a) == Alerts[a].poisoned

-----------------------------------------------------------------------------
(* poll_once.                                                              *)
(* fetch_alerts: what the SIEM has by now from the cursor on. *)
FetchAlerts ==
  /\ ~polling
  /\ upto' \in (since + 1)..Len(Alerts)
  /\ polling' = TRUE /\ next' = since + 1
  /\ UNCHANGED <<setup, since, waiting, tasks, started, broker, kafkaVars,
                 jobs, workerVars, accepted, lost, faults>>

(* sanitize_event found a hard injection: the alert is passed over. *)
SkipPoisoned ==
  /\ polling /\ waiting = 0 /\ next <= upto /\ Poisoned(next)
  /\ next' = next + 1
  /\ UNCHANGED <<setup, since, polling, upto, waiting, tasks, started, broker,
                 kafkaVars, jobs, workerVars, accepted, lost, faults>>

PostEvent(r) ==
  /\ polling /\ waiting = 0 /\ next <= upto /\ ~Poisoned(next)
  /\ tasks[r].step = "free" /\ \A q \in Requests : q < r => tasks[q].step # "free"
  /\ tasks' = [tasks EXCEPT ![r] = [@ EXCEPT !.step = "publish", !.alert = next]]
  /\ waiting' = r
  /\ UNCHANGED <<setup, since, polling, upto, next, started, broker, kafkaVars,
                 jobs, workerVars, accepted, lost, faults>>

(* The answer: 200 goes on to the next alert, anything else ends the poll. *)
PostAnswered ==
  /\ waiting # 0 /\ tasks[waiting].step = "answered"
  /\ next' = next + 1 /\ waiting' = 0
  /\ UNCHANGED <<setup, since, polling, upto, tasks, started, broker, kafkaVars,
                 jobs, workerVars, accepted, lost, faults>>

(* Mutant: the failure is caught and the loop goes on. *)
PollRaisesIgnored ==
  /\ waiting # 0
  /\ \/ tasks[waiting].step = "failed" /\ UNCHANGED faults
     \/ tasks[waiting].step \in {"publish", "jobs"} /\ Fault
  /\ next' = next + 1 /\ waiting' = 0
  /\ UNCHANGED <<setup, since, polling, upto, tasks, started, broker, kafkaVars,
                 jobs, workerVars, accepted, lost>>

(* raise_for_status, or httpx's timeout while the request goes on in the API. *)
PollRaises ==
  /\ waiting # 0
  /\ \/ tasks[waiting].step = "failed" /\ UNCHANGED faults
     \/ tasks[waiting].step \in {"publish", "jobs"} /\ Fault
  /\ polling' = FALSE /\ waiting' = 0
  /\ UNCHANGED <<setup, since, upto, next, tasks, started, broker, kafkaVars,
                 jobs, workerVars, accepted, lost>>

(* poll_once returns: only now does its caller move the cursor. *)
PollReturns ==
  /\ polling /\ waiting = 0 /\ next > upto
  /\ polling' = FALSE /\ since' = upto
  /\ UNCHANGED <<setup, upto, next, waiting, tasks, started, broker, kafkaVars,
                 jobs, workerVars, accepted, lost, faults>>

Poll == FetchAlerts \/ SkipPoisoned \/ (\E r \in Requests : PostEvent(r)) \/ PostAnswered
        \/ PollRaises \/ PollReturns

-----------------------------------------------------------------------------
(* POST /events and the router: RouteAndEnqueueEvent.aexecute and          *)
(* DispatchEvent.dispatch_async.                                           *)
Decision(a) == ApplyConductorRouting(Routes[a], setup.conductor)

(* Mutant: the personas of the plans, also where the conductor takes their place. *)
DispatchingRouted(task) == [task EXCEPT !.step = "jobs", !.todo = Routes[task.alert].personas]

(* A task that has its personas left to enqueue, or has finished. *)
Dispatching(task) == [task EXCEPT !.step = "jobs", !.todo = Decision(task.alert).personas]

(* publish_raw_event with a producer of its own: the message may be in the *)
(* topic although the call reports that it failed.                         *)
PublishRawEvent(r) ==
  /\ tasks[r].step = "publish"
  /\ \/ /\ broker
        /\ raw' = Append(raw, tasks[r].alert)
        /\ \/ /\ tasks' = [tasks EXCEPT ![r].step = "answered"]
              /\ accepted' = accepted \cup {tasks[r].alert}
              /\ UNCHANGED faults
           \/ /\ Fault
              /\ tasks' = [tasks EXCEPT ![r] = Dispatching(@)]
              /\ UNCHANGED accepted
     \/ /\ ~broker
        /\ tasks' = [tasks EXCEPT ![r] = Dispatching(@)]
        /\ UNCHANGED <<raw, accepted, faults>>
  /\ UNCHANGED <<setup, pollVars, started, broker, offset, jobs, workerVars, lost>>

(* The router's consume_raw_event starts a consumer, takes one record ... *)
ConsumeRawEvent ==
  /\ tasks[Router].step = "free" /\ broker /\ offset < Len(raw)
  /\ tasks' = [tasks EXCEPT ![Router] =
                 [@ EXCEPT !.step = "fetched", !.alert = raw[offset + 1], !.at = offset + 1]]
  /\ UNCHANGED <<setup, pollVars, started, broker, kafkaVars, jobs, workerVars, accepted,
                 lost, faults>>

(* Mutant: the consumer is stopped, and its offset committed, unhandled records included. *)
StopConsumerAhead ==
  /\ tasks[Router].step = "fetched"
  /\ offset' = IF broker THEN Len(raw) ELSE offset
  /\ tasks' = [tasks EXCEPT ![Router] = Dispatching(@)]
  /\ UNCHANGED <<setup, pollVars, started, broker, raw, jobs, workerVars, accepted, lost,
                 faults>>

(* ... and stops it: that commits the offset, before the event is routed. *)
StopConsumer ==
  /\ tasks[Router].step = "fetched"
  /\ offset' = IF broker THEN tasks[Router].at ELSE offset
  /\ tasks' = [tasks EXCEPT ![Router] = Dispatching(@)]
  /\ UNCHANGED <<setup, pollVars, started, broker, raw, jobs, workerVars, accepted, lost,
                 faults>>

(* A request that fails is answered 500; the router has no handler and its *)
(* process ends, with the event if the offset was committed.               *)
Fail(t) ==
  IF t = Router
  THEN /\ tasks' = [tasks EXCEPT ![t] = [NoTask EXCEPT !.step = "down"]]
       /\ lost' = IF tasks[t].at <= offset THEN lost \cup {tasks[t].alert} ELSE lost
  ELSE /\ tasks' = [tasks EXCEPT ![t].step = "failed"]
       /\ UNCHANGED lost

Record(t, place) ==
  jobs' = Append(jobs, [alert |-> tasks[t].alert, persona |-> Head(tasks[t].todo),
                        playbook |-> Decision(tasks[t].alert).playbook,
                        task |-> <<t, tasks[t].at>>, place |-> place])

(* One turn of _apersist_and_enqueue_jobs: upsert_pending, then aenqueue.  *)
(* Without a producer and without brokers the job goes to the process's    *)
(* own memory; with a producer the send raises, the job record remaining,  *)
(* and may do so although the message has arrived.                         *)
EnqueueJob(t) ==
  /\ tasks[t].step = "jobs" /\ tasks[t].todo # << >>
  /\ \/ /\ broker
        /\ Record(t, "topic")
        /\ started' = started \cup {ProcessOf(t)}
        /\ \/ tasks' = [tasks EXCEPT ![t].todo = Tail(@)] /\ UNCHANGED <<lost, faults>>
           \/ Fault /\ Fail(t)
     \/ /\ ~broker /\ ProcessOf(t) \notin started
        /\ Record(t, ProcessOf(t))
        /\ tasks' = [tasks EXCEPT ![t].todo = Tail(@)]
        /\ UNCHANGED <<started, lost, faults>>
     \/ /\ ~broker /\ ProcessOf(t) \in started
        /\ Record(t, "nowhere")
        /\ Fail(t)
        /\ UNCHANGED <<started, faults>>
  /\ UNCHANGED <<setup, pollVars, broker, kafkaVars, workerVars, accepted>>

(* All the jobs are enqueued: the answer is sent, or the router is free. *)
Dispatched(t) ==
  /\ tasks[t].step = "jobs" /\ tasks[t].todo = << >>
  /\ IF t = Router
     THEN tasks' = [tasks EXCEPT ![t] = NoTask] /\ UNCHANGED accepted
     ELSE /\ tasks' = [tasks EXCEPT ![t].step = "answered"]
          /\ accepted' = accepted \cup {tasks[t].alert}
  /\ UNCHANGED <<setup, pollVars, started, broker, kafkaVars, jobs, workerVars, lost, faults>>

(* Jobs in the memory of a process that ends are gone. *)
ForgetFallback(p) ==
  /\ jobs' = [j \in DOMAIN jobs |->
                IF jobs[j].place = p THEN [jobs[j] EXCEPT !.place = "nowhere"] ELSE jobs[j]]
  /\ started' = started \ {p}

(* The process manager starts the router again after it has ended. *)
RestartRouter ==
  /\ tasks[Router].step = "down"
  /\ tasks' = [tasks EXCEPT ![Router] = NoTask]
  /\ ForgetFallback("router")
  /\ UNCHANGED <<setup, pollVars, broker, kafkaVars, workerVars, accepted, lost, faults>>

CrashRouter ==
  /\ tasks[Router].step \in {"fetched", "jobs"}
  /\ Fault /\ Fail(Router)
  /\ UNCHANGED <<setup, pollVars, started, broker, kafkaVars, jobs, workerVars, accepted>>

(* The API process ends and is started again: its open requests fail. *)
CrashApi ==
  /\ \E r \in Requests : tasks[r].step \in {"publish", "jobs"}
  /\ Fault
  /\ tasks' = [t \in DOMAIN tasks |->
                 IF t # Router /\ tasks[t].step \in {"publish", "jobs"}
                 THEN [tasks[t] EXCEPT !.step = "failed"] ELSE tasks[t]]
  /\ ForgetFallback("api")
  /\ UNCHANGED <<setup, pollVars, broker, kafkaVars, workerVars, accepted, lost>>

(* POST /workers/process-one takes the oldest job of the API's own memory  *)
(* and runs it there; nothing does this for the router's.                  *)
ProcessOne ==
  /\ \E j \in DOMAIN jobs :
       /\ jobs[j].place = "api" /\ \A i \in 1..(j - 1) : jobs[i].place # "api"
       /\ jobs' = [jobs EXCEPT ![j].place = "taken"]
       /\ done' = done \cup {j}
  /\ UNCHANGED <<setup, pollVars, tasks, started, broker, kafkaVars, worker, committed,
                 cluster, abandoned, accepted, lost, faults>>

Outage ==
  /\ broker /\ Fault /\ broker' = FALSE
  /\ UNCHANGED <<setup, pollVars, tasks, started, kafkaVars, jobs, workerVars, accepted, lost>>

OutageEnds ==
  /\ ~broker /\ broker' = TRUE
  /\ UNCHANGED <<setup, pollVars, tasks, started, kafkaVars, jobs, workerVars, accepted,
                 lost, faults>>

-----------------------------------------------------------------------------
(* The worker daemon of persona p: run_poll_daemon calls process_next,     *)
(* which takes a job with adequeue and runs it in a sandbox.               *)
IsOn(j, p) == jobs[j].place = "topic" /\ jobs[j].persona = p
Topic(p) == SelectSeq([j \in DOMAIN jobs |-> j], LAMBDA j : IsOn(j, p))

(* Mutant: a new consumer starts at the end of the topic. *)
ConnectLatest(p) ==
  /\ worker[p].conn = "none" /\ broker
  /\ \/ /\ worker' = [worker EXCEPT ![p].conn = "up", ![p].pos = Len(Topic(p))]
        /\ UNCHANGED faults
     \/ Fault /\ worker' = [worker EXCEPT ![p].conn = "stuck"]
  /\ UNCHANGED <<setup, pollVars, tasks, started, broker, kafkaVars, jobs, committed,
                 cluster, done, abandoned, accepted, lost>>

(* _ensure_producer and _ensure_consumer.  A consumer that fails to start  *)
(* after the producer did leaves _connected FALSE, and with the producer   *)
(* in place nobody tries again: the daemon polls its own empty memory.     *)
Connect(p) ==
  /\ worker[p].conn = "none" /\ broker
  /\ \/ /\ worker' = [worker EXCEPT ![p].conn = "up", ![p].pos = committed[p]]
        /\ UNCHANGED faults
     \/ Fault /\ worker' = [worker EXCEPT ![p].conn = "stuck"]
  /\ UNCHANGED <<setup, pollVars, tasks, started, broker, kafkaVars, jobs, committed,
                 cluster, done, abandoned, accepted, lost>>

Adequeue(p) ==
  /\ worker[p].conn = "up" /\ worker[p].phase = "idle" /\ broker
  /\ worker[p].pos < Len(Topic(p))
  /\ worker' = [worker EXCEPT ![p].pos = @ + 1, ![p].phase = "create",
                              ![p].hand = Topic(p)[worker[p].pos + 1]]
  /\ UNCHANGED <<setup, pollVars, tasks, started, broker, kafkaVars, jobs, committed,
                 cluster, done, abandoned, accepted, lost, faults>>

(* The consumer commits what it has handed out whenever its timer fires. *)
AutoCommit(p) ==
  /\ worker[p].conn = "up" /\ broker /\ committed[p] < worker[p].pos
  /\ committed' = [committed EXCEPT ![p] = worker[p].pos]
  /\ UNCHANGED <<setup, pollVars, tasks, started, broker, kafkaVars, jobs, worker, cluster,
                 done, abandoned, accepted, lost, faults>>

(* _job_name: worker-<persona>-<run id>, cut at 63 characters; the part    *)
(* that tells two jobs for one persona and event apart comes last.         *)
JobName(j) == <<jobs[j].persona, jobs[j].alert, IF setup.longIds THEN 0 ELSE j>>

(* K8sSandboxConnector.create: a name in use is refused and an answer may  *)
(* be lost; both fall back to a local sandbox and no name is noted.        *)
CreateSandbox(p) ==
  LET name == JobName(worker[p].hand) IN
  /\ worker[p].phase = "create"
  /\ \/ /\ name \notin cluster
        /\ cluster' = cluster \cup {name}
        /\ \/ worker' = [worker EXCEPT ![p].phase = "run", ![p].known = name] /\ UNCHANGED faults
           \/ Fault /\ worker' = [worker EXCEPT ![p].phase = "run"]
     \/ /\ name \in cluster
        /\ worker' = [worker EXCEPT ![p].phase = "run"]
        /\ UNCHANGED <<cluster, faults>>
  /\ UNCHANGED <<setup, pollVars, tasks, started, broker, kafkaVars, jobs, committed, done,
                 abandoned, accepted, lost>>

(* RunWorkerJob.execute, whether the job completes or fails: then it also    *)
(* writes to the dead-letter topic, which nobody reads.  An error of that    *)
(* write ends the daemon after the sandbox is destroyed: CrashWorker.        *)
RunJob(p) ==
  /\ worker[p].phase = "run"
  /\ done' = done \cup {worker[p].hand}
  /\ worker' = [worker EXCEPT ![p].phase = "destroy"]
  /\ UNCHANGED <<setup, pollVars, tasks, started, broker, kafkaVars, jobs, committed,
                 cluster, abandoned, accepted, lost, faults>>

Free(w) == [w EXCEPT !.phase = "idle", !.hand = 0, !.known = NoName]

(* Mutant: the noted name is dropped first and then looked up. *)
DestroySandboxForgets(p) ==
  /\ worker[p].phase = "destroy"
  /\ worker' = [worker EXCEPT ![p] = Free(@)]
  /\ UNCHANGED <<setup, pollVars, tasks, started, broker, kafkaVars, jobs, committed, done,
                 cluster, abandoned, accepted, lost, faults>>

(* destroy: the noted job is deleted; an error of the deletion is dropped. *)
DestroySandbox(p) ==
  /\ worker[p].phase = "destroy"
  /\ \/ cluster' = cluster \ {worker[p].known} /\ UNCHANGED faults
     \/ worker[p].known # NoName /\ Fault /\ UNCHANGED cluster
  /\ worker' = [worker EXCEPT ![p] = Free(@)]
  /\ UNCHANGED <<setup, pollVars, tasks, started, broker, kafkaVars, jobs, committed, done,
                 abandoned, accepted, lost>>

(* The daemon is killed and started again: what it had not committed is    *)
(* delivered again, what it had committed and not run is not.              *)
CrashWorker(p) ==
  /\ worker[p].conn # "none"
  /\ Fault
  /\ worker' = [worker EXCEPT ![p] = IdleWorker]
  /\ abandoned' = IF worker[p].phase # "idle" /\ committed[p] >= worker[p].pos
                     /\ worker[p].hand \notin done
                  THEN abandoned \cup {worker[p].hand} ELSE abandoned
  /\ UNCHANGED <<setup, pollVars, tasks, started, broker, kafkaVars, jobs, committed,
                 cluster, done, accepted, lost>>

Work(p) == Connect(p) \/ Adequeue(p) \/ CreateSandbox(p) \/ RunJob(p) \/ DestroySandbox(p)
Handle(t) == EnqueueJob(t) \/ Dispatched(t)
Listen == ConsumeRawEvent \/ StopConsumer \/ RestartRouter

Next ==
  \/ Poll
  \/ \E r \in Requests : PublishRawEvent(r)
  \/ \E t \in Requests \cup {Router} : Handle(t)
  \/ Listen \/ CrashRouter \/ CrashApi \/ ProcessOne \/ Outage \/ OutageEnds
  \/ \E p \in Served : Work(p) \/ AutoCommit(p) \/ CrashWorker(p)

Spec == Init /\ [][Next]_vars

(* The API serves its requests, the daemons' loops go on, the process      *)
(* manager restarts the router and outages end; nobody need commit early,  *)
(* crash, poll or call process-one.                                        *)
Fairness ==
  /\ \A r \in Requests : WF_vars(PublishRawEvent(r))
  /\ \A t \in Requests \cup {Router} : WF_vars(Handle(t))
  /\ WF_vars(Listen) /\ WF_vars(OutageEnds)
  /\ \A p \in Served : WF_vars(Work(p))

FairSpec == Spec /\ Fairness

-----------------------------------------------------------------------------
(* The caller's cursor never passes an alert that was neither accepted by  *)
(* the API nor refused as poisoned: a poll that fails half way is repeated *)
(* from where it began (poll_once has no handler around post_event).       *)
NothingSkipped == \A a \in 1..since : Poisoned(a) \/ a \in accepted

(* Every job is for a persona that a matching rule of the plans names (or  *)
(* for the conductor in their place), carries the playbook of the last     *)
(* rule that names one, and no dispatch makes two jobs for one persona.    *)
JobsAreWanted ==
  /\ \A j \in DOMAIN jobs : /\ jobs[j].persona \in Wanted(jobs[j].alert, setup.conductor)
                            /\ jobs[j].playbook = PlaybookOf[jobs[j].alert]
                            /\ ~Poisoned(jobs[j].alert)
  /\ \A i, j \in DOMAIN jobs :
       jobs[i].task[1] # Router /\ jobs[i].task = jobs[j].task
       /\ jobs[i].persona = jobs[j].persona => i = j

HasItsJobs(a) ==
  \A p \in Wanted(a, setup.conductor) :
    \E j \in DOMAIN jobs : jobs[j].alert = a /\ jobs[j].persona = p

(* What the API has accepted gets a job for every persona it is meant for, *)
(* through outages, retries and crashes, unless the router died with it    *)
(* after committing its offset: again and again nothing accepted waits.    *)
AcceptedIsRouted == []<>(\A a \in accepted : HasItsJobs(a) \/ a \in lost)

(* The workers catch up with their topics: every job is run, unless the    *)
(* worker died with it after the offset was committed or is stuck without  *)
(* a consumer.                                                             *)
JobsAreRun ==
  []<>(\A p \in Served : \A j \in DOMAIN jobs :
         IsOn(j, p) => j \in done \cup abandoned \/ worker[p].conn = "stuck")

(* A sandbox a worker thinks it has exists, and every other Kubernetes job *)
(* that is still there was left by a fault of its own: a crash, a lost     *)
(* answer or a failed deletion.                                            *)
Busy == {p \in Served : worker[p].known # NoName}
SandboxesAccounted ==
  /\ \A p \in Busy : worker[p].known \in cluster
  /\ Cardinality(cluster) <= Cardinality(Busy) + faults
=============================================================================
