-------------------------- MODULE WorkerPlaneProofs --------------------------
(***************************************************************************)
(* Proofs about WorkerPlane for every plan, any number of workers and      *)
(* requests, both deployments and any bounds.  The frame lemmas say what   *)
(* the two kinds of process leave alone; the typing lemmas are proved      *)
(* together with the shape of the processes' locals, which they need; the  *)
(* safety theorems rest on PublishProgress, ApprovalOrder, DoneOnlyIfEnded,*)
(* SandboxHeld and WorkIsStarted; the refinement of JobLifecycle rests on  *)
(* SingleDelivery.                                                         *)
(***************************************************************************)
EXTENDS WorkerPlane, SequenceTheorems, TLAPS

USE DEF NoJob

(* Jobs are the positions of the plan; 0 stands for "no job". *)
LEMMA JobsFacts ==
  /\ Jobs = 1..Len(Plan) /\ Jobs \subseteq Nat /\ 0 \notin Jobs
  /\ NumRecipients \in Nat /\ NumRecipients > 0 /\ Len(Plan) \in Nat
  BY PlanAssumption, BoundAssumption DEF Jobs

(* What dequeue takes out of a queue of jobs is a job and a queue of jobs. *)
LEMMA HeadIsJob ==
  ASSUME QueueType, queue # << >>
  PROVE  Head(queue) \in Jobs /\ Tail(queue) \in Seq(Jobs)
  BY HeadTailProperties DEF QueueType

(* A worker step touches neither the dispatcher nor the requests nor the   *)
(* approvals.                                                              *)
LEMMA WorkerFrame ==
  ASSUME NEW w \in Workers, WorkerStep(w) \/ WorkerCrash(w)
  PROVE  UNCHANGED <<dispatchVars, approvalVars, requestVars>>
  BY DEF WorkerStep, PopLeft, XRead, XDel, DependencyReady, DependencyNotReady,
         CreateSandbox, UpsertRunning, AgentReturns, AgentPauses, Raises, ValidateOk,
         Publish, AppendMemory, ReadDocument, UpsertFinding, UpsertPersona,
         MarkCompleted, MarkFailed, DestroySandbox, WorkerCrash

(* A resume request touches only the job store, the approvals and its own  *)
(* locals.                                                                 *)
LEMMA RequestFrame ==
  ASSUME NEW r \in Requests, ResumeStep(r)
  PROVE  UNCHANGED <<dispatchVars, queue, invVars, delivered, workerVars, crashes>>
  BY DEF ResumeStep, ResumeGet, ResumeReject, ResumeApprove, ReplayPause,
         ReplayNothing, ExecuteTool, ResumedEnds, ResumedPauses, ResumeRaises,
         ResumeCompleted

(* The locals of the workers keep their types and their shape. *)
LEMMA WorkerLocals ==
  ASSUME WorkerType, WorkerShape, QueueType, DocumentType, [Next]_vars
  PROVE  WorkerType' /\ WorkerShape'
<1> USE DEF WorkerType, WorkerShape, WorkerPc, Executing, BeforePublish,
            AfterPublish, GoTo
<1>1. ASSUME NEW w \in Workers, PopLeft(w)
     PROVE  WorkerType' /\ WorkerShape'
  BY <1>1, JobsFacts, HeadIsJob DEF PopLeft
<1>2. ASSUME NEW w \in Workers, XRead(w)
     PROVE  WorkerType' /\ WorkerShape'
  BY <1>2, JobsFacts, HeadIsJob DEF XRead
<1>3. ASSUME NEW w \in Workers, XDel(w)
     PROVE  WorkerType' /\ WorkerShape'
  BY <1>3, JobsFacts DEF XDel
<1>4. ASSUME NEW w \in Workers, DependencyReady(w)
     PROVE  WorkerType' /\ WorkerShape'
  BY <1>4, JobsFacts DEF DependencyReady
<1>5. ASSUME NEW w \in Workers, DependencyNotReady(w)
     PROVE  WorkerType' /\ WorkerShape'
  BY <1>5, JobsFacts DEF DependencyNotReady, DropLocals, EmptyDocument, Document
<1>6. ASSUME NEW w \in Workers, CreateSandbox(w)
     PROVE  WorkerType' /\ WorkerShape'
  BY <1>6, JobsFacts DEF CreateSandbox
<1>7. ASSUME NEW w \in Workers, UpsertRunning(w)
     PROVE  WorkerType' /\ WorkerShape'
  BY <1>7, JobsFacts DEF UpsertRunning
<1>8. ASSUME NEW w \in Workers, NEW o \in {"ok", "error"}, AgentReturns(w, o)
     PROVE  WorkerType' /\ WorkerShape'
  BY <1>8, JobsFacts DEF AgentReturns
<1>9. ASSUME NEW w \in Workers, AgentPauses(w)
     PROVE  WorkerType' /\ WorkerShape'
  BY <1>9, JobsFacts DEF AgentPauses
<1>10. ASSUME NEW w \in Workers, Raises(w)
     PROVE  WorkerType' /\ WorkerShape'
  BY <1>10, JobsFacts DEF Raises
<1>11. ASSUME NEW w \in Workers, ValidateOk(w)
     PROVE  WorkerType' /\ WorkerShape'
  BY <1>11, JobsFacts DEF ValidateOk
<1>12. ASSUME NEW w \in Workers, Publish(w)
     PROVE  WorkerType' /\ WorkerShape'
  BY <1>12, JobsFacts DEF Publish
<1>13. ASSUME NEW w \in Workers, AppendMemory(w)
     PROVE  WorkerType' /\ WorkerShape'
  BY <1>13, JobsFacts DEF AppendMemory
<1>14. ASSUME NEW w \in Workers, ReadDocument(w)
     PROVE  WorkerType' /\ WorkerShape'
  BY <1>14, JobsFacts, ZenonT(60) DEF ReadDocument, DocumentType
<1>15. ASSUME NEW w \in Workers, UpsertFinding(w)
     PROVE  WorkerType' /\ WorkerShape'
  BY <1>15, JobsFacts DEF UpsertFinding
<1>16. ASSUME NEW w \in Workers, UpsertPersona(w)
     PROVE  WorkerType' /\ WorkerShape'
  BY <1>16, JobsFacts DEF UpsertPersona
<1>17. ASSUME NEW w \in Workers, MarkCompleted(w)
     PROVE  WorkerType' /\ WorkerShape'
  BY <1>17, JobsFacts DEF MarkCompleted
<1>18. ASSUME NEW w \in Workers, MarkFailed(w)
     PROVE  WorkerType' /\ WorkerShape'
  BY <1>18, JobsFacts DEF MarkFailed
<1>19. ASSUME NEW w \in Workers, DestroySandbox(w)
     PROVE  WorkerType' /\ WorkerShape'
  BY <1>19, JobsFacts DEF DestroySandbox, DropLocals, EmptyDocument, Document
<1>20. ASSUME NEW w \in Workers, WorkerCrash(w)
     PROVE  WorkerType' /\ WorkerShape'
  BY <1>20, JobsFacts DEF WorkerCrash, DropLocals, EmptyDocument, Document
<1>21. CASE UNCHANGED workerVars
  BY <1>21 DEF workerVars
<1>22. QED
  BY <1>1, <1>2, <1>3, <1>4, <1>5, <1>6, <1>7, <1>8, <1>9, <1>10, <1>11, <1>12, <1>13, <1>14, <1>15, <1>16, <1>17, <1>18, <1>19, <1>20, <1>21, RequestFrame
     DEF Next, vars, WorkerStep, PersistJob, EnqueueJob, ApiCrash

(* The locals of the requests keep their types and their shape. *)
LEMMA RequestLocals ==
  ASSUME RequestType, RequestShape, StoreType, [Next]_vars
  PROVE  RequestType' /\ RequestShape'
<1> USE DEF RequestType, RequestShape, RequestPc, RGoTo, REnd
<1>1. ASSUME NEW r \in Requests, NEW j \in Jobs, NEW a \in Nat, ResumeGet(r, j, a)
     PROVE  RequestType' /\ RequestShape'
  BY <1>1, JobsFacts DEF ResumeGet, StoreType
<1>2. ASSUME NEW r \in Requests, ResumeReject(r)
     PROVE  RequestType' /\ RequestShape'
  BY <1>2, JobsFacts DEF ResumeReject
<1>3. ASSUME NEW r \in Requests, ResumeApprove(r)
     PROVE  RequestType' /\ RequestShape'
  BY <1>3, JobsFacts DEF ResumeApprove
<1>4. ASSUME NEW r \in Requests, ReplayPause(r)
     PROVE  RequestType' /\ RequestShape'
  BY <1>4, JobsFacts DEF ReplayPause
<1>5. ASSUME NEW r \in Requests, ReplayNothing(r)
     PROVE  RequestType' /\ RequestShape'
  BY <1>5, JobsFacts DEF ReplayNothing
<1>6. ASSUME NEW r \in Requests, ExecuteTool(r)
     PROVE  RequestType' /\ RequestShape'
  BY <1>6, JobsFacts DEF ExecuteTool
<1>7. ASSUME NEW r \in Requests, ResumedEnds(r)
     PROVE  RequestType' /\ RequestShape'
  BY <1>7, JobsFacts DEF ResumedEnds
<1>8. ASSUME NEW r \in Requests, ResumedPauses(r)
     PROVE  RequestType' /\ RequestShape'
  BY <1>8, JobsFacts DEF ResumedPauses
<1>9. ASSUME NEW r \in Requests, ResumeRaises(r)
     PROVE  RequestType' /\ RequestShape'
  BY <1>9, JobsFacts DEF ResumeRaises
<1>10. ASSUME NEW r \in Requests, ResumeCompleted(r)
     PROVE  RequestType' /\ RequestShape'
  BY <1>10, JobsFacts DEF ResumeCompleted
<1>11. CASE ApiCrash
  BY <1>11, JobsFacts DEF ApiCrash
<1>12. CASE UNCHANGED requestVars
  BY <1>12 DEF requestVars
<1>13. ASSUME NEW r \in Requests, ResumeStep(r)
     PROVE  RequestType' /\ RequestShape'
  BY <1>1, <1>2, <1>3, <1>4, <1>5, <1>6, <1>7, <1>8, <1>9, <1>10, <1>13, JobsFacts DEF ResumeStep, StoreType
<1>14. QED
  BY <1>11, <1>12, <1>13, WorkerFrame DEF Next, vars, PersistJob, EnqueueJob

(* The dispatcher, the queue, the job store and the approvals are typed.   *)
LEMMA StoreTyped ==
  ASSUME TypeOK, WorkerShape, RequestShape, [Next]_vars
  PROVE  StoreType' /\ ApprovalType'
<1> USE DEF TypeOK, StoreType, ApprovalType, Statuses, SetStatus, MarkActive, MarkTerminal,
            RegisterPause
<1>1. CASE UNCHANGED <<jobVars, approvalVars>>
  BY <1>1 DEF jobVars, approvalVars
<1>2. CASE PersistJob
  BY <1>2 DEF PersistJob, approvalVars
<1>3. ASSUME NEW w \in Workers, UpsertRunning(w) \/ MarkCompleted(w) \/ MarkFailed(w)
     PROVE  StoreType' /\ ApprovalType'
  BY <1>3 DEF UpsertRunning, MarkCompleted, MarkFailed, approvalVars
<1>4. ASSUME NEW w \in Workers, AgentPauses(w)
     PROVE  StoreType' /\ ApprovalType'
  BY <1>4, DangerousAssumption DEF AgentPauses, approvalVars
<1>5. ASSUME NEW w \in Workers, NEW o \in {"ok", "error"}, AgentReturns(w, o)
     PROVE  StoreType' /\ ApprovalType'
  BY <1>5 DEF AgentReturns, approvalVars
<1>6. ASSUME NEW w \in Workers, WorkerStep(w) \/ WorkerCrash(w)
     PROVE  StoreType' /\ ApprovalType'
  <2>1. CASE UNCHANGED jobVars
    BY <1>1, <1>6, <2>1, WorkerFrame
  <2>2. QED
    BY <1>3, <1>4, <1>5, <1>6, <2>1
       DEF WorkerStep, WorkerCrash, PopLeft, XRead, XDel, DependencyReady,
           DependencyNotReady, CreateSandbox, Raises, ValidateOk, Publish,
           AppendMemory, ReadDocument, UpsertFinding, UpsertPersona, DestroySandbox
<1>7. ASSUME NEW r \in Requests, ResumeReject(r) \/ ResumeCompleted(r)
     PROVE  StoreType' /\ ApprovalType'
  BY <1>7 DEF ResumeReject, ResumeCompleted, approvalVars
<1>8. ASSUME NEW r \in Requests, ResumeApprove(r) \/ ExecuteTool(r)
     PROVE  StoreType' /\ ApprovalType'
  <2>1. rjob[r] \in Jobs /\ rseen[r] \in Nat
    BY <1>8, JobsFacts DEF RequestType, RequestShape, ResumeApprove, ExecuteTool, RGoTo
  <2>2. QED
    BY <1>8, <2>1 DEF ResumeApprove, ExecuteTool, jobVars
<1>9. ASSUME NEW r \in Requests, ReplayPause(r) \/ ResumedPauses(r) \/ ResumedEnds(r)
     PROVE  StoreType' /\ ApprovalType'
  BY <1>9 DEF ReplayPause, ResumedPauses, ResumedEnds, approvalVars
<1>10. ASSUME NEW r \in Requests, ResumeStep(r)
     PROVE  StoreType' /\ ApprovalType'
  BY <1>1, <1>7, <1>8, <1>9, <1>10
     DEF ResumeStep, ResumeGet, ReplayNothing, ResumeRaises
<1>11. QED
  BY <1>1, <1>2, <1>6, <1>10 DEF Next, vars, EnqueueJob, ApiCrash

(* Dispatcher and queue: jobs of the plan are the only entries, and what a *)
(* reader holds as the first entry is the first entry.                     *)
LEMMA QueueTyped ==
  ASSUME TypeOK, WorkerShape, ReadersShape, [Next]_vars
  PROVE  DispatchType' /\ QueueType' /\ ReadersShape'
<1> USE DEF TypeOK, DispatchType, WorkerType, ReadersShape, GoTo
<1> DEFINE Goal == DispatchType' /\ QueueType' /\ ReadersShape'
<1>0. queue \in Seq(Jobs)
  BY DEF QueueType
<1>1. CASE UNCHANGED <<dispatchVars, queue, workerVars>>
  BY <1>1 DEF dispatchVars, workerVars, QueueType
<1>2. CASE PersistJob
  BY <1>2, JobsFacts DEF PersistJob, workerVars, QueueType
<1>3. CASE EnqueueJob
  <2>1. persisted \in Jobs
    BY <1>3, JobsFacts DEF EnqueueJob
  <2>2. QueueType' /\ (queue # << >> => queue' # << >> /\ Head(queue') = Head(queue))
    BY <1>0, <1>3, <2>1, AppendProperties DEF EnqueueJob, Enqueue, QueueType
  <2>3. DispatchType' /\ ReadersShape'
    BY <1>3, <2>2, JobsFacts DEF EnqueueJob, Enqueue, workerVars
  <2>4. QED
    BY <2>2, <2>3
<1>4. ASSUME NEW w \in Workers, PopLeft(w) PROVE Goal
  BY <1>4, HeadIsJob DEF PopLeft, dispatchVars, QueueType
<1>5. ASSUME NEW w \in Workers, XRead(w) PROVE Goal
  BY <1>5, JobsFacts DEF XRead, dispatchVars, QueueType
<1>6. ASSUME NEW w \in Workers, XDel(w) PROVE Goal
  BY <1>6, JobsFacts, HeadIsJob DEF XDel, dispatchVars, QueueType
<1>7. ASSUME NEW w \in Workers, DependencyNotReady(w) PROVE Goal
  <2>1. cur[w] \in Jobs
    BY <1>7, JobsFacts DEF DependencyNotReady, WorkerShape
  <2>2. QueueType' /\ (queue # << >> => queue' # << >> /\ Head(queue') = Head(queue))
    BY <1>0, <1>7, <2>1, AppendProperties DEF DependencyNotReady, Enqueue, QueueType
  <2>3. DispatchType' /\ ReadersShape'
    BY <1>7, <2>2 DEF DependencyNotReady, Enqueue, DropLocals, dispatchVars
  <2>4. QED
    BY <2>2, <2>3
<1>8. ASSUME NEW w \in Workers,
             DependencyReady(w) \/ CreateSandbox(w) \/ UpsertRunning(w) \/ AgentPauses(w)
               \/ Raises(w) \/ ValidateOk(w) \/ Publish(w)
      PROVE  Goal
  BY <1>8 DEF DependencyReady, CreateSandbox, UpsertRunning, AgentPauses,
              Raises, ValidateOk, Publish, dispatchVars, QueueType
<1>9. ASSUME NEW w \in Workers,
             AppendMemory(w) \/ ReadDocument(w) \/ UpsertFinding(w) \/ UpsertPersona(w)
               \/ MarkCompleted(w) \/ MarkFailed(w)
      PROVE  Goal
  BY <1>9 DEF AppendMemory, ReadDocument, UpsertFinding, UpsertPersona,
              MarkCompleted, MarkFailed, dispatchVars, QueueType
<1>10. ASSUME NEW w \in Workers, NEW o \in {"ok", "error"}, AgentReturns(w, o) PROVE Goal
  BY <1>10 DEF AgentReturns, dispatchVars, QueueType
<1>11. ASSUME NEW w \in Workers, DestroySandbox(w) \/ WorkerCrash(w) PROVE Goal
  BY <1>11, ZenonT(60) DEF DestroySandbox, WorkerCrash, DropLocals, dispatchVars, QueueType
<1>12. ASSUME NEW r \in Requests, ResumeStep(r) PROVE Goal
  BY <1>1, <1>12, RequestFrame
<1>13. QED
  BY <1>1, <1>2, <1>3, <1>4, <1>5, <1>6, <1>7, <1>8, <1>9, <1>10, <1>11, <1>12
     DEF Next, WorkerStep, vars, ApiCrash

(* The investigation document and the deliveries are typed. *)
LEMMA DocumentTyped ==
  ASSUME TypeOK, WorkerShape, [Next]_vars
  PROVE  DocumentType' /\ DeliveryType' /\ crashes' \in Nat
<1> USE DEF TypeOK, DocumentType, DeliveryType
<1> DEFINE Goal == DocumentType' /\ DeliveryType' /\ crashes' \in Nat
<1>0. \A j \in Jobs : Plan[j] \in Personas
  BY DEF Personas
<1>1. CASE UNCHANGED <<invVars, delivered>> /\ crashes' \in Nat
  BY <1>1 DEF invVars
<1>2. ASSUME NEW w \in Workers, Publish(w) PROVE Goal
  <2>1. cur[w] \in Jobs /\ sent[w] + 1 \in 1..NumRecipients
    BY <1>2, JobsFacts DEF Publish, WorkerShape, WorkerType
  <2>2. QED
    BY <1>2, <2>1 DEF Publish, invVars
<1>3. ASSUME NEW w \in Workers, AppendMemory(w) PROVE Goal
  BY <1>1, <1>3 DEF AppendMemory
<1>4. ASSUME NEW w \in Workers, UpsertFinding(w) \/ UpsertPersona(w) PROVE Goal
  <2>1. cur[w] \in Jobs /\ Base(w) \in Document
    BY <1>4, JobsFacts DEF UpsertFinding, UpsertPersona, GoTo, WorkerShape, WorkerType, Base
  <2>2. QED
    BY <1>0, <1>4, <2>1 DEF UpsertFinding, UpsertPersona, Document
<1>5. ASSUME NEW w \in Workers, WorkerStep(w) \/ WorkerCrash(w) PROVE Goal
  BY <1>1, <1>2, <1>3, <1>4, <1>5
     DEF WorkerStep, WorkerCrash, PopLeft, XRead, XDel, DependencyReady,
         DependencyNotReady, CreateSandbox, UpsertRunning, AgentReturns, AgentPauses,
         Raises, ValidateOk, ReadDocument, MarkCompleted, MarkFailed, DestroySandbox
<1>6. ASSUME NEW r \in Requests, ResumeStep(r) PROVE Goal
  BY <1>1, <1>6, RequestFrame
<1>7. QED
  BY <1>1, <1>5, <1>6 DEF Next, vars, PersistJob, EnqueueJob, ApiCrash

(* The typing of the state and the shape of the processes' locals hold     *)
(* together.                                                               *)
Typed == TypeOK /\ WorkerShape /\ RequestShape /\ ReadersShape

LEMMA InitTyped == Init => Typed
  BY JobsFacts, PlanAssumption
     DEF Init, Typed, TypeOK, DispatchType, QueueType, StoreType, ApprovalType,
         DocumentType, DeliveryType, WorkerType, RequestType, WorkerShape,
         RequestShape, ReadersShape, Statuses, Document, EmptyDocument, WorkerPc,
         RequestPc, BeforePublish, AfterPublish, Executing

LEMMA NextTyped == Typed /\ [Next]_vars => Typed'
  BY WorkerLocals, RequestLocals, StoreTyped, QueueTyped, DocumentTyped DEF Typed, TypeOK

(* Every reachable state of the worker plane is well typed, and workers    *)
(* and requests hold a job exactly when they are not idle.                 *)
THEOREM TypeCorrect == Spec => []TypeOK
<1>1. Typed => TypeOK
  BY DEF Typed
<1>2. QED
  BY <1>1, InitTyped, NextTyped, PTL DEF Spec

-----------------------------------------------------------------------------
(* Publication: what the workers' loops have delivered. *)

LEMMA PublishStep ==
  ASSUME Typed, PublishProgress, [Next]_vars
  PROVE  PublishProgress'
<1> USE DEF PublishProgress, AfterPublish, Persona, GoTo
<1> DEFINE Shape == TypeOK /\ WorkerShape
<1>0. Shape
  BY DEF Typed
<1> HIDE DEF Shape
<1>1. ASSUME NEW w \in Workers, PopLeft(w)
     PROVE  PublishProgress'
  BY <1>1, JobsFacts, <1>0 DEF PopLeft, Shape, TypeOK, WorkerType, DeliveryType, WorkerShape, BeforePublish
<1>2. ASSUME NEW w \in Workers, XRead(w)
     PROVE  PublishProgress'
  BY <1>2, JobsFacts, <1>0 DEF XRead, Shape, TypeOK, WorkerType, DeliveryType, WorkerShape, BeforePublish
<1>3. ASSUME NEW w \in Workers, XDel(w)
     PROVE  PublishProgress'
  BY <1>3, JobsFacts, <1>0 DEF XDel, Shape, TypeOK, WorkerType, DeliveryType, WorkerShape, BeforePublish
<1>4. ASSUME NEW w \in Workers, DependencyReady(w)
     PROVE  PublishProgress'
  BY <1>4, JobsFacts, <1>0 DEF DependencyReady, Shape, TypeOK, WorkerType, DeliveryType, WorkerShape, BeforePublish
<1>5. ASSUME NEW w \in Workers, DependencyNotReady(w)
     PROVE  PublishProgress'
  BY <1>5, JobsFacts, <1>0 DEF DependencyNotReady, DropLocals, Shape, TypeOK, WorkerType, DeliveryType, WorkerShape, BeforePublish
<1>6. ASSUME NEW w \in Workers, CreateSandbox(w)
     PROVE  PublishProgress'
  BY <1>6, JobsFacts, <1>0 DEF CreateSandbox, Shape, TypeOK, WorkerType, DeliveryType, WorkerShape, BeforePublish
<1>7. ASSUME NEW w \in Workers, UpsertRunning(w)
     PROVE  PublishProgress'
  BY <1>7, JobsFacts, <1>0 DEF UpsertRunning, Shape, TypeOK, WorkerType, DeliveryType, WorkerShape, BeforePublish
<1>8. ASSUME NEW w \in Workers, NEW o \in {"ok", "error"}, AgentReturns(w, o)
     PROVE  PublishProgress'
  BY <1>8, JobsFacts, <1>0 DEF AgentReturns, Shape, TypeOK, WorkerType, DeliveryType, WorkerShape, BeforePublish
<1>9. ASSUME NEW w \in Workers, AgentPauses(w)
     PROVE  PublishProgress'
  BY <1>9, JobsFacts, <1>0 DEF AgentPauses, Shape, TypeOK, WorkerType, DeliveryType, WorkerShape, BeforePublish
<1>10. ASSUME NEW w \in Workers, Raises(w)
     PROVE  PublishProgress'
  BY <1>10, JobsFacts, <1>0 DEF Raises, Shape, TypeOK, WorkerType, DeliveryType, WorkerShape, BeforePublish
<1>11. ASSUME NEW w \in Workers, ValidateOk(w)
     PROVE  PublishProgress'
  BY <1>11, JobsFacts, <1>0 DEF ValidateOk, Shape, TypeOK, WorkerType, DeliveryType, WorkerShape, BeforePublish
<1>12. ASSUME NEW w \in Workers, Publish(w)
     PROVE  PublishProgress'
  <2> USE <1>0 DEF Shape, TypeOK, WorkerType, DeliveryType, WorkerShape
  <2>1. cur[w] \in Jobs /\ sent[w] \in Nat /\ sent[w] < NumRecipients
        /\ 1..sent[w] \subseteq delivered[cur[w]]
    BY <1>12, JobsFacts DEF Publish
  <2>2. /\ delivered'[cur[w]] = delivered[cur[w]] \cup {sent[w] + 1}
        /\ \A j \in Jobs : delivered[j] \subseteq delivered'[j]
        /\ \A j \in Jobs : delivered'[j] \subseteq 1..NumRecipients
    <3>1. sent[w] + 1 \in 1..NumRecipients
      BY <2>1, JobsFacts
    <3>2. delivered' = [delivered EXCEPT ![cur[w]] = @ \cup {sent[w] + 1}]
      BY <1>12 DEF Publish
    <3>3. \A j \in Jobs : delivered[j] \subseteq 1..NumRecipients
      OBVIOUS
    <3>4. QED
      BY <2>1, <3>1, <3>2, <3>3
  <2>3. sent'[w] = sent[w] + 1 /\ 1..(sent[w] + 1) \subseteq delivered'[cur[w]]
    BY <1>12, <2>1, <2>2 DEF Publish
  <2>4. pc'[w] = IF sent[w] + 1 = NumRecipients THEN "memory" ELSE "publish"
    BY <1>12 DEF Publish
  <2>5. \A v \in Workers \ {w} : pc'[v] = pc[v] /\ sent'[v] = sent[v]
    BY <1>12 DEF Publish
  <2>6. UNCHANGED <<cur, outcome>>
    BY <1>12 DEF Publish
  <2>7. pc'[w] = "memory" => delivered'[cur[w]] = 1..NumRecipients
    BY <2>1, <2>2, <2>3, <2>4
  <2>8. ASSUME NEW v \in Workers, v # w, pc[v] # "idle"
        PROVE  /\ cur[v] \in Jobs
               /\ pc[v] = "publish" => 1..sent[v] \subseteq delivered'[cur[v]]
               /\ (pc[v] \in AfterPublish \cup Persona /\ outcome[v] # "failed")
                    => delivered'[cur[v]] = 1..NumRecipients
    <3>1. cur[v] \in Jobs
      BY <2>8
    <3>2. delivered[cur[v]] \subseteq delivered'[cur[v]]
          /\ delivered'[cur[v]] \subseteq 1..NumRecipients
      BY <2>2, <3>1
    <3>3. QED
      BY <3>1, <3>2
  <2>9. QED
    BY <2>1, <2>3, <2>4, <2>5, <2>6, <2>7, <2>8
<1>13. ASSUME NEW w \in Workers, AppendMemory(w)
     PROVE  PublishProgress'
  BY <1>13, JobsFacts, <1>0 DEF AppendMemory, Shape, TypeOK, WorkerType, DeliveryType, WorkerShape, BeforePublish
<1>14. ASSUME NEW w \in Workers, ReadDocument(w)
     PROVE  PublishProgress'
  BY <1>14, JobsFacts, <1>0 DEF ReadDocument, Shape, TypeOK, WorkerType, DeliveryType, WorkerShape, BeforePublish
<1>15. ASSUME NEW w \in Workers, UpsertFinding(w)
     PROVE  PublishProgress'
  BY <1>15, JobsFacts, <1>0 DEF UpsertFinding, Shape, TypeOK, WorkerType, DeliveryType, WorkerShape, BeforePublish
<1>16. ASSUME NEW w \in Workers, UpsertPersona(w)
     PROVE  PublishProgress'
  BY <1>16, JobsFacts, <1>0 DEF UpsertPersona, Shape, TypeOK, WorkerType, DeliveryType, WorkerShape, BeforePublish
<1>17. ASSUME NEW w \in Workers, MarkCompleted(w)
     PROVE  PublishProgress'
  BY <1>17, JobsFacts, <1>0 DEF MarkCompleted, Shape, TypeOK, WorkerType, DeliveryType, WorkerShape, BeforePublish
<1>18. ASSUME NEW w \in Workers, MarkFailed(w)
     PROVE  PublishProgress'
  BY <1>18, JobsFacts, <1>0 DEF MarkFailed, Shape, TypeOK, WorkerType, DeliveryType, WorkerShape, BeforePublish
<1>19. ASSUME NEW w \in Workers, DestroySandbox(w)
     PROVE  PublishProgress'
  BY <1>19, JobsFacts, <1>0 DEF DestroySandbox, DropLocals, Shape, TypeOK, WorkerType, DeliveryType, WorkerShape, BeforePublish
<1>20. ASSUME NEW w \in Workers, WorkerCrash(w)
     PROVE  PublishProgress'
  BY <1>20, JobsFacts, <1>0 DEF WorkerCrash, DropLocals, Shape, TypeOK, WorkerType, DeliveryType, WorkerShape, BeforePublish
<1>21. CASE UNCHANGED <<pc, sent, outcome, cur, delivered>>
  BY <1>21
<1>22. QED
  BY <1>1, <1>2, <1>3, <1>4, <1>5, <1>6, <1>7, <1>8, <1>9, <1>10, <1>11, <1>12, <1>13, <1>14, <1>15, <1>16, <1>17, <1>18, <1>19, <1>20, <1>21, RequestFrame
     DEF Next, vars, WorkerStep, PersistJob, EnqueueJob, ApiCrash, workerVars

-----------------------------------------------------------------------------
(* Approvals. *)

Approvals == ApprovalOrder /\ ApprovalUsedOnce /\ ToolNeedsApproval

(* A store write that only drops or keeps the pending action. *)
LEMMA ApprovalsKept ==
  ASSUME Typed, Approvals, UNCHANGED <<pauses, approvalVars, requestVars>>,
         pending' \in [Jobs -> Nat],
         \A j \in Jobs : pending'[j] \in {0, pending[j]}
  PROVE  Approvals'
  BY DEF Approvals, ApprovalOrder, ApprovalUsedOnce, ToolNeedsApproval, approvalVars,
         requestVars, Typed, TypeOK, StoreType

(* A pause that is registered gets an id above every granted one. *)
LEMMA PauseKeepsApprovals ==
  ASSUME Typed, Approvals, NEW i \in Jobs, RegisterPause(i), UNCHANGED approvalVars,
         \/ UNCHANGED requestVars
         \/ \E r \in Requests :
              /\ rpc[r] \in Resumed /\ UNCHANGED <<rjob, rseen>>
              /\ \E to \in Resumed : rpc' = [rpc EXCEPT ![r] = to]
  PROVE  Approvals'
<1> USE DEF Typed, TypeOK, StoreType, RegisterPause
<1>1. \A j \in Jobs : pauses'[j] \in Nat /\ pauses[j] <= pauses'[j]
  OBVIOUS
<1>2. \A j \in Jobs : pending'[j] <= pauses'[j]
  BY DEF Approvals, ApprovalOrder
<1>3. \A g \in granted' : g[2] <= pauses'[g[1]]
  BY <1>1 DEF Approvals, ApprovalOrder, approvalVars, ApprovalType
<1>4. ApprovalUsedOnce'
  <2>1. <<i, pauses[i] + 1>> \notin granted
    BY DEF Approvals, ApprovalOrder
  <2>2. QED
    BY <2>1 DEF Approvals, ApprovalUsedOnce, approvalVars
<1>5. /\ \A r \in Requests : rpc'[r] \in Resumed => rpc[r] \in Resumed
      /\ \A r \in Requests : rpc'[r] = "deciding" => rpc[r] = "deciding"
      /\ UNCHANGED <<rjob, rseen, granted, executed>>
  BY DEF requestVars, approvalVars, RequestType, RequestPc, Resumed
<1>6. ASSUME NEW r \in Requests, rpc'[r] = "deciding"
      PROVE  rseen'[r] <= pauses'[rjob'[r]] /\ <<rjob'[r], rseen'[r]>> \notin granted'
  <2>1. rjob[r] \in Jobs /\ rseen[r] \in Nat
    BY <1>5, <1>6, JobsFacts DEF RequestType, RequestShape
  <2>2. QED
    BY <1>1, <1>5, <1>6, <2>1 DEF Approvals, ApprovalOrder
<1>7. \A r \in Requests : rpc'[r] \in Resumed => <<rjob'[r], rseen'[r]>> \in granted'
  BY <1>5 DEF Approvals, ApprovalOrder
<1>8. ToolNeedsApproval'
  BY DEF Approvals, ToolNeedsApproval, approvalVars
<1>9. QED
  BY <1>2, <1>3, <1>4, <1>6, <1>7, <1>8 DEF Approvals, ApprovalOrder

LEMMA ApprovalsStep ==
  ASSUME Typed, Approvals, [Next]_vars
  PROVE  Approvals'
<1>1. CASE UNCHANGED <<jobVars, approvalVars, requestVars>>
  BY <1>1, ApprovalsKept DEF jobVars, Typed, TypeOK, StoreType
<1>2. ASSUME NEW j \in Jobs, NEW s, MarkActive(j, s) \/ MarkTerminal(j, s),
             UNCHANGED <<approvalVars, requestVars>>
      PROVE  Approvals'
  BY <1>2, ApprovalsKept DEF MarkActive, MarkTerminal, Typed, TypeOK, StoreType
<1>3. CASE PersistJob
  <2>1. persisted + 1 \in Jobs
    BY <1>3, JobsFacts DEF PersistJob, Typed, TypeOK, DispatchType
  <2>2. QED
    BY <1>2, <1>3, <2>1 DEF PersistJob
<1>4. ASSUME NEW w \in Workers, UpsertRunning(w) \/ MarkCompleted(w) \/ MarkFailed(w)
      PROVE  Approvals'
  <2>1. cur[w] \in Jobs
    BY <1>4, JobsFacts DEF UpsertRunning, MarkCompleted, MarkFailed, GoTo, Typed, TypeOK,
                           WorkerType, WorkerShape
  <2>2. QED
    BY <1>2, <1>4, <2>1 DEF UpsertRunning, MarkCompleted, MarkFailed
<1>5. ASSUME NEW w \in Workers, AgentPauses(w) PROVE Approvals'
  BY <1>5, PauseKeepsApprovals, DangerousAssumption DEF AgentPauses
<1>6. ASSUME NEW w \in Workers, NEW o \in {"ok", "error"}, AgentReturns(w, o)
      PROVE  Approvals'
  BY <1>6, ApprovalsKept DEF AgentReturns, Typed, TypeOK, StoreType
<1>7. ASSUME NEW w \in Workers, WorkerStep(w) \/ WorkerCrash(w) PROVE Approvals'
  <2>1. CASE UNCHANGED jobVars
    BY <1>1, <1>7, <2>1, WorkerFrame
  <2>2. QED
    BY <1>4, <1>5, <1>6, <1>7, <2>1
       DEF WorkerStep, WorkerCrash, PopLeft, XRead, XDel, DependencyReady,
           DependencyNotReady, CreateSandbox, Raises, ValidateOk, Publish,
           AppendMemory, ReadDocument, UpsertFinding, UpsertPersona, DestroySandbox
<1>8. ASSUME NEW r \in Requests, rpc[r] # "idle"
      PROVE  rjob[r] \in Jobs /\ rseen[r] \in Nat
  BY <1>8, JobsFacts DEF Typed, TypeOK, RequestType, RequestShape
<1>9. ASSUME NEW r \in Requests, REnd(r), UNCHANGED <<pauses, approvalVars>>,
             pending' \in [Jobs -> Nat], \A j \in Jobs : pending'[j] \in {0, pending[j]}
      PROVE  Approvals'
  <2>1. \A q \in Requests :
          \/ rpc'[q] = "idle"
          \/ rpc'[q] = rpc[q] /\ rjob'[q] = rjob[q] /\ rseen'[q] = rseen[q]
    BY <1>9 DEF REnd, Typed, TypeOK, RequestType
  <2>2. QED
    BY <1>9, <2>1, SMTT(30) DEF Approvals, ApprovalOrder, ApprovalUsedOnce, ToolNeedsApproval,
                      approvalVars, Resumed, Typed, TypeOK, StoreType
<1>10. ASSUME NEW r \in Requests, ResumeReject(r) \/ ResumeCompleted(r) \/ ResumeRaises(r)
       PROVE  Approvals'
  <2>1. rjob[r] \in Jobs
    BY <1>8, <1>10 DEF ResumeReject, ResumeCompleted, ResumeRaises
  <2>2. UNCHANGED pauses /\ pending' \in [Jobs -> Nat]
        /\ \A j \in Jobs : pending'[j] \in {0, pending[j]}
    BY <1>10, <2>1 DEF ResumeReject, ResumeCompleted, ResumeRaises, MarkTerminal, jobVars,
                       Typed, TypeOK, StoreType
  <2>3. QED
    BY <1>9, <1>10, <2>2 DEF ResumeReject, ResumeCompleted, ResumeRaises
<1>11. ASSUME NEW r \in Requests, NEW j \in Jobs, NEW a \in Nat, ResumeGet(r, j, a)
       PROVE  Approvals'
  <2>1. \A q \in Requests : q # r =>
          rpc'[q] = rpc[q] /\ rjob'[q] = rjob[q] /\ rseen'[q] = rseen[q]
    BY <1>11 DEF ResumeGet, RGoTo, Typed, TypeOK, RequestType
  <2>2. rpc'[r] = "deciding" /\ rjob'[r] = j /\ rseen'[r] = pending[j] /\ pending[j] # 0
    BY <1>11 DEF ResumeGet, RGoTo, Typed, TypeOK, RequestType
  <2>3. QED
    BY <1>11, <2>1, <2>2
       DEF ResumeGet, Approvals, ApprovalOrder, ApprovalUsedOnce, ToolNeedsApproval,
           approvalVars, jobVars, Resumed
<1>12. ASSUME NEW r \in Requests, ResumeApprove(r) PROVE Approvals'
  <2>1. rpc[r] = "deciding" /\ rjob[r] \in Jobs /\ rseen[r] \in Nat
    BY <1>8, <1>12 DEF ResumeApprove, RGoTo
  <2>2. /\ UNCHANGED <<pauses, executed, rjob, rseen>>
        /\ granted' = granted \cup {<<rjob[r], rseen[r]>>}
        /\ rpc'[r] = "resuming" /\ \A q \in Requests : q # r => rpc'[q] = rpc[q]
    BY <1>12 DEF ResumeApprove, RGoTo, MarkActive, Typed, TypeOK, RequestType
  <2>3. pending'[rjob[r]] = 0 /\ \A j \in Jobs : pending'[j] \in {0, pending[j]}
    BY <1>12, <2>1 DEF ResumeApprove, MarkActive, Typed, TypeOK, StoreType
  <2>4. \A q \in Requests : rpc'[q] = "deciding" => rpc[q] = "deciding" /\ q # r
    BY <2>1, <2>2
  <2>5. \A q \in Requests : rpc'[q] # "deciding"
    BY <2>1, <2>4 DEF Typed, RequestShape
  <2>6. ApprovalUsedOnce'
    BY <2>1, <2>2, <2>3 DEF Approvals, ApprovalUsedOnce
  <2>7. \A g \in granted' : g[2] <= pauses'[g[1]]
    BY <2>1, <2>2 DEF Approvals, ApprovalOrder
  <2>8. \A j \in Jobs : pending'[j] <= pauses'[j]
    BY <2>2, <2>3 DEF Approvals, ApprovalOrder, Typed, TypeOK, StoreType
  <2>9. \A q \in Requests : rpc'[q] \in Resumed => <<rjob'[q], rseen'[q]>> \in granted'
    BY <2>2 DEF Approvals, ApprovalOrder
  <2>10. QED
    BY <2>2, <2>5, <2>6, <2>7, <2>8, <2>9 DEF Approvals, ApprovalOrder, ToolNeedsApproval
<1>13. ASSUME NEW r \in Requests, ReplayPause(r) \/ ResumedPauses(r) PROVE Approvals'
  <2>1. rpc[r] \in Resumed /\ \E to \in Resumed : rpc' = [rpc EXCEPT ![r] = to]
    BY <1>13 DEF ReplayPause, ResumedPauses, RGoTo, Resumed
  <2>2. rjob[r] \in Jobs
    BY <1>8, <2>1 DEF Resumed
  <2>3. QED
    BY <1>13, <2>1, <2>2, PauseKeepsApprovals DEF ReplayPause, ResumedPauses
<1>14. ASSUME NEW r \in Requests, ReplayNothing(r) \/ ResumedEnds(r) \/ ExecuteTool(r)
       PROVE  Approvals'
  <2>1. /\ UNCHANGED <<pauses, pending, granted, rjob, rseen>>
        /\ executed' \subseteq executed \cup {<<rjob[r], rseen[r]>>}
    BY <1>14 DEF ReplayNothing, ResumedEnds, ExecuteTool, jobVars, approvalVars
  <2>2. /\ rpc[r] \in Resumed
        /\ \A q \in Requests : rpc'[q] \in Resumed => rpc[q] \in Resumed
        /\ \A q \in Requests : rpc'[q] = "deciding" => rpc[q] = "deciding"
    BY <1>14 DEF ReplayNothing, ResumedEnds, ExecuteTool, RGoTo, Resumed, Typed, TypeOK,
                 RequestType
  <2>3. QED
    BY <2>1, <2>2 DEF Approvals, ApprovalOrder, ApprovalUsedOnce, ToolNeedsApproval
<1>15. ASSUME NEW r \in Requests, ResumeStep(r) PROVE Approvals'
  BY <1>10, <1>11, <1>12, <1>13, <1>14, <1>15 DEF ResumeStep, Typed, TypeOK, StoreType
<1>16. CASE ApiCrash
  BY <1>16 DEF ApiCrash, Approvals, ApprovalOrder, ApprovalUsedOnce, ToolNeedsApproval,
               approvalVars, jobVars, Resumed
<1>17. QED
  BY <1>1, <1>3, <1>7, <1>15, <1>16 DEF Next, vars, EnqueueJob

LEMMA InitApprovals == Init => Approvals
  BY DEF Init, Approvals, ApprovalOrder, ApprovalUsedOnce, ToolNeedsApproval, Resumed

(* Whatever the workers, the requests and the crashes interleave to, a     *)
(* tool above the HITL threshold runs only under an approval that was      *)
(* granted for its job and its pause.                                      *)
THEOREM ToolsAreApproved == Spec => []ToolNeedsApproval
<1>1. Approvals => ToolNeedsApproval
  BY DEF Approvals
<1>2. QED
  BY <1>1, InitTyped, NextTyped, InitApprovals, ApprovalsStep, PTL DEF Spec

(* No request can present an approval id that was granted before, although *)
(* a resumed node registers its pause again.                               *)
THEOREM ApprovalsAreFresh == Spec => []ApprovalUsedOnce
<1>1. Approvals => ApprovalUsedOnce
  BY DEF Approvals
<1>2. QED
  BY <1>1, InitTyped, NextTyped, InitApprovals, ApprovalsStep, PTL DEF Spec

(* What L1 HITL promises: a dangerous tool runs under a granted approval,   *)
(* and no approval can be used a second time.                               *)
THEOREM ApprovalsAreHeld == Spec => []ApprovalsHold
<1>1. ToolNeedsApproval /\ ApprovalUsedOnce => ApprovalsHold
  BY DEF ApprovalsHold
<1>2. QED
  BY <1>1, ToolsAreApproved, ApprovalsAreFresh, PTL

-----------------------------------------------------------------------------
(* Completion. *)

(* Deliveries and grants only grow. *)
LEMMA DeliveriesGrow ==
  ASSUME Typed, [Next]_vars
  PROVE  /\ granted \subseteq granted'
         /\ \A j \in Jobs : delivered[j] = 1..NumRecipients
                            => delivered'[j] = 1..NumRecipients
<1>1. granted \subseteq granted'
  <2>1. ASSUME NEW r \in Requests, ResumeStep(r) PROVE granted \subseteq granted'
    BY <2>1 DEF ResumeStep, ResumeGet, ResumeReject, ResumeApprove, ReplayPause,
                ReplayNothing, ExecuteTool, ResumedEnds, ResumedPauses, ResumeRaises,
                ResumeCompleted, approvalVars
  <2>2. QED
    BY <2>1, WorkerFrame DEF Next, vars, approvalVars, PersistJob, EnqueueJob, ApiCrash
<1>2. delivered' \in [Jobs -> SUBSET (1..NumRecipients)]
  BY DocumentTyped DEF Typed, DeliveryType
<1>3. CASE UNCHANGED delivered
  BY <1>1, <1>3
<1>4. ASSUME NEW w \in Workers, Publish(w)
      PROVE  \A j \in Jobs : delivered[j] \subseteq delivered'[j]
  BY <1>4 DEF Publish, Typed, TypeOK, DeliveryType
<1>5. ASSUME NEW w \in Workers, WorkerStep(w) \/ WorkerCrash(w)
      PROVE  UNCHANGED delivered \/ Publish(w)
  BY <1>5 DEF WorkerStep, WorkerCrash, PopLeft, XRead, XDel, DependencyReady,
         DependencyNotReady, CreateSandbox, UpsertRunning, AgentReturns, AgentPauses,
         Raises, ValidateOk, AppendMemory, ReadDocument, UpsertFinding, UpsertPersona,
         MarkCompleted, MarkFailed, DestroySandbox
<1>6. UNCHANGED delivered \/ \E w \in Workers : Publish(w)
  BY <1>5, RequestFrame DEF Next, vars, PersistJob, EnqueueJob, ApiCrash
<1>7. ASSUME NEW j \in Jobs, delivered[j] = 1..NumRecipients
      PROVE  delivered'[j] = 1..NumRecipients
  <2>1. delivered[j] \subseteq delivered'[j] /\ delivered'[j] \subseteq 1..NumRecipients
    BY <1>2, <1>4, <1>6
  <2>2. QED
    BY <1>7, <2>1
<1>8. QED
  BY <1>1, <1>7

(* A job becomes completed only by a worker that is through its publication *)
(* or by a request that was granted an approval for it.                    *)
LEMMA WhoCompletes ==
  ASSUME Typed, [Next]_vars, NEW j \in Jobs, status'[j] = "completed"
  PROVE  \/ status[j] = "completed"
         \/ \E w \in Workers : pc[w] = "complete" /\ cur[w] = j
         \/ \E r \in Requests : rpc[r] = "finish" /\ rjob[r] = j
<1> USE DEF SetStatus, MarkActive, MarkTerminal, RegisterPause, Typed, TypeOK, StoreType
<1>1. CASE UNCHANGED status
  BY <1>1
<1>2. CASE PersistJob
  BY <1>2 DEF PersistJob
<1>3. ASSUME NEW w \in Workers, UpsertRunning(w) \/ MarkFailed(w) \/ AgentPauses(w)
      PROVE  status[j] = "completed"
  BY <1>3 DEF UpsertRunning, MarkFailed, AgentPauses
<1>4. ASSUME NEW w \in Workers, MarkCompleted(w)
      PROVE  status[j] = "completed" \/ (pc[w] = "complete" /\ cur[w] = j)
  BY <1>4 DEF MarkCompleted, GoTo
<1>5. ASSUME NEW w \in Workers, WorkerStep(w) \/ WorkerCrash(w)
      PROVE  \/ UNCHANGED status \/ UpsertRunning(w) \/ MarkFailed(w)
             \/ AgentPauses(w) \/ MarkCompleted(w)
  BY <1>5 DEF WorkerStep, WorkerCrash, PopLeft, XRead, XDel, DependencyReady,
         DependencyNotReady, CreateSandbox, AgentReturns, Raises, ValidateOk, Publish,
         AppendMemory, ReadDocument, UpsertFinding, UpsertPersona, DestroySandbox, jobVars
<1>6. ASSUME NEW r \in Requests,
             ResumeReject(r) \/ ResumeApprove(r) \/ ReplayPause(r) \/ ResumedPauses(r)
      PROVE  status[j] = "completed"
  BY <1>6 DEF ResumeReject, ResumeApprove, ReplayPause, ResumedPauses
<1>7. ASSUME NEW r \in Requests, ResumeCompleted(r)
      PROVE  status[j] = "completed" \/ (rpc[r] = "finish" /\ rjob[r] = j)
  BY <1>7 DEF ResumeCompleted
<1>8. ASSUME NEW r \in Requests, ResumeStep(r)
      PROVE  \/ UNCHANGED status \/ ResumeCompleted(r)
             \/ ResumeReject(r) \/ ResumeApprove(r) \/ ReplayPause(r) \/ ResumedPauses(r)
  BY <1>8 DEF ResumeStep, ResumeGet, ReplayNothing, ExecuteTool, ResumedEnds,
              ResumeRaises, jobVars
<1>9. QED
  BY <1>1, <1>2, <1>3, <1>4, <1>5, <1>6, <1>7, <1>8
     DEF Next, vars, jobVars, EnqueueJob, ApiCrash

LEMMA CompletedStep ==
  ASSUME Typed, Approvals, PublishProgress, CompletedWasPublished, [Next]_vars
  PROVE  CompletedWasPublished'
<1> SUFFICES ASSUME NEW j \in Jobs, status'[j] = "completed"
             PROVE  delivered'[j] = 1..NumRecipients \/ \E g \in granted' : g[1] = j
  BY DEF CompletedWasPublished
<1>1. CASE status[j] = "completed"
  BY <1>1, DeliveriesGrow DEF CompletedWasPublished
<1>2. ASSUME NEW w \in Workers, pc[w] = "complete", cur[w] = j
      PROVE  delivered[j] = 1..NumRecipients
  <2>1. outcome[w] # "failed"
    BY <1>2 DEF Typed, WorkerShape, AfterPublish
  <2>2. QED
    BY <1>2, <2>1 DEF PublishProgress, AfterPublish
<1>3. ASSUME NEW r \in Requests, rpc[r] = "finish", rjob[r] = j
      PROVE  \E g \in granted : g[1] = j
  <2>1. <<j, rseen[r]>> \in granted
    BY <1>3 DEF Approvals, ApprovalOrder, Resumed
  <2>2. QED
    BY <2>1
<1>4. QED
  BY <1>1, <1>2, <1>3, WhoCompletes, DeliveriesGrow

(* A job is COMPLETED only when its finding went to every recipient, the   *)
(* critic included, or a human approved a pause of it.                     *)
THEOREM CompletionIsEarned == Spec => []CompletedWasPublished
<1>1. Init => PublishProgress /\ CompletedWasPublished
  BY DEF Init, PublishProgress, AfterPublish, Persona, CompletedWasPublished
<1>2. QED
  BY <1>1, InitTyped, NextTyped, InitApprovals, ApprovalsStep, PublishStep, CompletedStep, PTL
     DEF Spec

-----------------------------------------------------------------------------
(* Order of the personas. *)

(* Jobs that have ended stay ended, and no copy of the document gets ahead *)
(* of them.                                                                *)
LEMMA DoneStep ==
  ASSUME Typed, DoneOnlyIfEnded, [Next]_vars
  PROVE  DoneOnlyIfEnded' /\ ended \subseteq ended'
<1> DEFINE Goal == DoneOnlyIfEnded' /\ ended \subseteq ended'
<1>0. WorkerType /\ WorkerShape /\ DocumentType
  BY DEF Typed, TypeOK
<1>1. CASE UNCHANGED <<inv, ended, snap>>
  BY <1>1 DEF DoneOnlyIfEnded
<1>2. ASSUME NEW w \in Workers, ReadDocument(w) PROVE Goal
  BY <1>0, <1>2 DEF ReadDocument, DoneOnlyIfEnded, WorkerType, invVars
<1>3. ASSUME NEW w \in Workers,
             DependencyNotReady(w) \/ DestroySandbox(w) \/ WorkerCrash(w)
      PROVE  Goal
  <2>1. UNCHANGED <<inv, ended>>
    BY <1>3 DEF DependencyNotReady, DestroySandbox, WorkerCrash, invVars
  <2>2. \A v \in Workers : snap'[v].done \in {{}, snap[v].done}
    BY <1>0, <1>3 DEF DependencyNotReady, DestroySandbox, WorkerCrash, DropLocals,
                      EmptyDocument, WorkerType
  <2>3. QED
    BY <2>1, <2>2 DEF DoneOnlyIfEnded
<1>4. ASSUME NEW w \in Workers
      PROVE  Base(w) \in Document
             /\ \A p \in Personas : p \in Base(w).done => \E i \in ended : Plan[i] = p
  BY <1>0 DEF Base, DoneOnlyIfEnded, WorkerType, DocumentType
<1>5. ASSUME NEW w \in Workers, UpsertFinding(w) PROVE Goal
  <2>1. inv'.done = Base(w).done /\ UNCHANGED <<ended, snap>>
    BY <1>4, <1>5 DEF UpsertFinding, Document
  <2>2. QED
    BY <1>4, <2>1 DEF DoneOnlyIfEnded
<1>6. ASSUME NEW w \in Workers, UpsertPersona(w) PROVE Goal
  <2>1. inv'.done = Base(w).done \cup {Plan[cur[w]]} /\ UNCHANGED snap
        /\ ended' = ended \cup {cur[w]}
    BY <1>4, <1>6 DEF UpsertPersona, Document
  <2>2. QED
    BY <1>4, <2>1 DEF DoneOnlyIfEnded
<1>7. ASSUME NEW w \in Workers, WorkerStep(w) PROVE Goal
  BY <1>1, <1>2, <1>3, <1>5, <1>6, <1>7
     DEF WorkerStep, PopLeft, XRead, XDel, DependencyReady, CreateSandbox, UpsertRunning,
         AgentReturns, AgentPauses, Raises, ValidateOk, Publish, AppendMemory,
         MarkCompleted, MarkFailed, invVars
<1>8. ASSUME NEW r \in Requests, ResumeStep(r) PROVE Goal
  BY <1>1, <1>8, RequestFrame DEF invVars, workerVars
<1>9. QED
  BY <1>1, <1>3, <1>7, <1>8
     DEF Next, vars, PersistJob, EnqueueJob, ApiCrash, invVars, workerVars

(* Past the dependency check of run_job. *)
Started == {"ready", "created", "destroy"} \cup Executing

(* A worker gets past the dependency check only through DependencyReady.   *)
LEMMA WhoStarts ==
  ASSUME Typed, NEW w \in Workers, WorkerStep(w) \/ WorkerCrash(w),
         NEW v \in Workers, pc'[v] \in Started
  PROVE  \/ pc[v] \in Started /\ cur'[v] = cur[v]
         \/ v = w /\ DependencyReady(w) /\ cur'[v] = cur[v]
<1>0. WorkerType
  BY DEF Typed, TypeOK
<1> USE DEF Started, Executing, GoTo, WorkerType
<1>1. CASE PopLeft(w) \/ XRead(w) \/ XDel(w) \/ DependencyReady(w)
  BY <1>0, <1>1 DEF PopLeft, XRead, XDel, DependencyReady
<1>2. CASE DependencyNotReady(w) \/ DestroySandbox(w) \/ WorkerCrash(w)
  BY <1>0, <1>2 DEF DependencyNotReady, DestroySandbox, WorkerCrash, DropLocals
<1>3. CASE CreateSandbox(w) \/ UpsertRunning(w) \/ AgentPauses(w) \/ Raises(w)
           \/ ValidateOk(w) \/ Publish(w)
  BY <1>0, <1>3 DEF CreateSandbox, UpsertRunning, AgentPauses, Raises, ValidateOk, Publish
<1>4. CASE \E o \in {"ok", "error"} : AgentReturns(w, o)
  BY <1>0, <1>4 DEF AgentReturns
<1>5. CASE AppendMemory(w) \/ ReadDocument(w) \/ UpsertFinding(w) \/ UpsertPersona(w)
           \/ MarkCompleted(w) \/ MarkFailed(w)
  BY <1>0, <1>5 DEF AppendMemory, ReadDocument, UpsertFinding, UpsertPersona,
                    MarkCompleted, MarkFailed
<1>6. QED
  BY <1>1, <1>2, <1>3, <1>4, <1>5 DEF WorkerStep

LEMMA UpstreamStep ==
  ASSUME Typed, DoneOnlyIfEnded, UpstreamFirst, [Next]_vars
  PROVE  UpstreamFirst'
<1>1. UpstreamFirst <=> \A v \in Workers : (pc[v] \in Started /\ HasDependency(cur[v]))
                                => \E i \in ended : Plan[i] = DependsOn(cur[v])
  BY DEF UpstreamFirst, Started
<1>2. ASSUME NEW v \in Workers, pc'[v] \in Started, HasDependency(cur'[v])
      PROVE  \E i \in ended' : Plan[i] = DependsOn(cur'[v])
  <2>1. CASE pc[v] \in Started /\ cur'[v] = cur[v]
    BY <1>1, <1>2, <2>1, DoneStep
  <2>2. ASSUME DependencyReady(v), cur'[v] = cur[v]
        PROVE  \E i \in ended : Plan[i] = DependsOn(cur'[v])
    <3>1. cur[v] \in Jobs /\ cur[v] > 1 /\ DependsOn(cur[v]) \in inv.done
      BY <1>2, <2>2, JobsFacts DEF DependencyReady, GoTo, HasDependency, Typed, TypeOK,
                                   WorkerType, WorkerShape
    <3>2. DependsOn(cur[v]) \in Personas
      BY <3>1, JobsFacts DEF DependsOn, Personas
    <3>3. QED
      BY <2>2, <3>1, <3>2 DEF DoneOnlyIfEnded
  <2>3. CASE UNCHANGED workerVars
    BY <1>2, <2>1, <2>3 DEF workerVars
  <2>4. QED
    BY <1>2, <2>1, <2>2, <2>3, WhoStarts, DoneStep, RequestFrame
       DEF Next, vars, PersistJob, EnqueueJob, ApiCrash
<1>3. QED
  BY <1>2 DEF UpstreamFirst, Started

(* However the workers race and whatever stale document they write back, a *)
(* job runs only after a job of the persona it depends on has ended.       *)
THEOREM UpstreamEndsFirst == Spec => []UpstreamFirst
<1>1. Init => DoneOnlyIfEnded /\ UpstreamFirst
  BY DEF Init, DoneOnlyIfEnded, UpstreamFirst, EmptyDocument, Executing
<1>2. QED
  BY <1>1, InitTyped, NextTyped, DoneStep, UpstreamStep, PTL DEF Spec

-----------------------------------------------------------------------------
(* Sandboxes. *)

(* A worker has no other sandbox than that of its job, until a crash. *)
LEMMA SandboxStep ==
  ASSUME Typed, SandboxHeld, [Next]_vars
  PROVE  SandboxHeld'
<1>0. WorkerType
  BY DEF Typed, TypeOK
<1> USE DEF SandboxHeld, GoTo, WorkerType
<1>1. CASE UNCHANGED workerVars /\ (crashes' = 0 => crashes = 0)
  BY <1>1 DEF workerVars
<1>2. ASSUME NEW w \in Workers, PopLeft(w) \/ XRead(w) \/ XDel(w) \/ DependencyReady(w)
      PROVE  SandboxHeld'
  BY <1>0, <1>2 DEF PopLeft, XRead, XDel, DependencyReady
<1>3. ASSUME NEW w \in Workers, DependencyNotReady(w)
      PROVE  SandboxHeld'
  BY <1>0, <1>3 DEF DependencyNotReady, DropLocals
<1>4. ASSUME NEW w \in Workers, CreateSandbox(w)
      PROVE  SandboxHeld'
  BY <1>0, <1>4 DEF CreateSandbox
<1>5. ASSUME NEW w \in Workers, DestroySandbox(w)
      PROVE  SandboxHeld'
  BY <1>0, <1>5 DEF DestroySandbox, DropLocals
<1>6. ASSUME NEW w \in Workers, WorkerCrash(w)
      PROVE  SandboxHeld'
  BY <1>6 DEF WorkerCrash, Typed, TypeOK
<1>7. ASSUME NEW w \in Workers,
             \/ UpsertRunning(w) \/ AgentPauses(w) \/ Raises(w) \/ ValidateOk(w) \/ Publish(w)
             \/ \E o \in {"ok", "error"} : AgentReturns(w, o)
      PROVE  SandboxHeld'
  BY <1>0, <1>7 DEF UpsertRunning, AgentPauses, Raises, ValidateOk, Publish, AgentReturns
<1>8. ASSUME NEW w \in Workers,
             AppendMemory(w) \/ ReadDocument(w) \/ UpsertFinding(w) \/ UpsertPersona(w)
               \/ MarkCompleted(w) \/ MarkFailed(w)
      PROVE  SandboxHeld'
  BY <1>0, <1>8 DEF AppendMemory, ReadDocument, UpsertFinding, UpsertPersona,
                    MarkCompleted, MarkFailed
<1>9. ASSUME NEW r \in Requests, ResumeStep(r) PROVE SandboxHeld'
  BY <1>1, <1>9, RequestFrame
<1>10. QED
  BY <1>1, <1>2, <1>3, <1>4, <1>5, <1>6, <1>7, <1>8, <1>9
     DEF Next, vars, WorkerStep, PersistJob, EnqueueJob, ApiCrash, Typed, TypeOK

(* Until a process dies, a worker that is back at its queue has destroyed  *)
(* every sandbox it created, whatever path execute took.                   *)
THEOREM SandboxesAreReleased == Spec => []SandboxReleased
<1>1. Init => SandboxHeld
  BY DEF Init, SandboxHeld
<1>2. SandboxHeld => SandboxReleased
  BY DEF SandboxHeld, SandboxReleased
<1>3. QED
  BY <1>1, <1>2, InitTyped, NextTyped, SandboxStep, PTL DEF Spec

-----------------------------------------------------------------------------
(* Jobs in the queue and in the workers' hands. *)

(* What a dequeue and an enqueue do to the entries of the queue. *)
LEMMA TailEntries ==
  ASSUME NEW q \in Seq(Jobs), q # << >>
  PROVE  /\ Head(q) \in Jobs /\ Head(q) = q[1] /\ 1 \in DOMAIN q
         /\ Tail(q) \in Seq(Jobs) /\ DOMAIN q = 1..Len(q) /\ Len(q) \in Nat
         /\ DOMAIN Tail(q) = 1..(Len(q) - 1)
         /\ \A k \in DOMAIN Tail(q) : k + 1 \in DOMAIN q /\ Tail(q)[k] = q[k + 1]
         /\ \A k \in DOMAIN q : k # 1 => k - 1 \in DOMAIN Tail(q) /\ Tail(q)[k - 1] = q[k]
<1>1. Len(q) \in Nat /\ Len(q) > 0 /\ DOMAIN q = 1..Len(q)
  BY EmptySeq, LenProperties
<1>2. Tail(q) \in Seq(Jobs) /\ Len(Tail(q)) = Len(q) - 1
      /\ \A k \in 1..Len(Tail(q)) : Tail(q)[k] = q[k + 1]
  BY HeadTailProperties
<1>3. DOMAIN Tail(q) = 1..(Len(q) - 1)
  BY <1>2, LenProperties
<1>4. QED
  BY <1>1, <1>2, <1>3

LEMMA AppendEntries ==
  ASSUME NEW q \in Seq(Jobs), NEW j \in Jobs
  PROVE  /\ Append(q, j) \in Seq(Jobs) /\ DOMAIN q = 1..Len(q) /\ Len(q) \in Nat
         /\ DOMAIN Append(q, j) = 1..(Len(q) + 1)
         /\ Append(q, j)[Len(q) + 1] = j
         /\ \A k \in DOMAIN q : Append(q, j)[k] = q[k]
<1>1. Len(q) \in Nat /\ DOMAIN q = 1..Len(q)
  BY LenProperties
<1>2. QED
  BY <1>1, AppendProperties, LenProperties

(* A dequeue leaves every entry but the first, an enqueue adds one. *)
Entries(q) == {q[k] : k \in DOMAIN q}

LEMMA QueueEntries ==
  ASSUME NEW q \in Seq(Jobs)
  PROVE  /\ q # << >> => Head(q) \in Entries(q) /\ Entries(q) = Entries(Tail(q)) \cup {Head(q)}
         /\ \A j \in Jobs : Entries(Append(q, j)) = Entries(q) \cup {j}
<1>1. ASSUME q # << >>
      PROVE  Head(q) \in Entries(q) /\ Entries(q) = Entries(Tail(q)) \cup {Head(q)}
  <2>1. Head(q) \in Entries(q)
    BY <1>1, TailEntries DEF Entries
  <2>2. ASSUME NEW x \in Entries(Tail(q)) PROVE x \in Entries(q)
    BY <1>1, <2>2, TailEntries DEF Entries
  <2>3. ASSUME NEW x \in Entries(q), x # Head(q) PROVE x \in Entries(Tail(q))
    <3>1. PICK k \in DOMAIN q : x = q[k]
      BY DEF Entries
    <3>2. QED
      BY <1>1, <2>3, <3>1, TailEntries, ZenonT(60) DEF Entries
  <2>4. QED
    BY <2>1, <2>2, <2>3
<1>2. ASSUME NEW j \in Jobs PROVE Entries(Append(q, j)) = Entries(q) \cup {j}
  <2>1. ASSUME NEW x \in Entries(Append(q, j)) PROVE x \in Entries(q) \cup {j}
    <3>1. PICK k \in 1..(Len(q) + 1) : x = Append(q, j)[k]
      BY <2>1, AppendEntries DEF Entries
    <3>2. CASE k = Len(q) + 1
      BY <3>1, <3>2, AppendEntries
    <3>3. CASE k # Len(q) + 1
      <4>1. k \in DOMAIN q /\ Append(q, j)[k] = q[k]
        BY <3>3, AppendEntries
      <4>2. QED
        BY <3>1, <4>1 DEF Entries
    <3>4. QED
      BY <3>2, <3>3
  <2>2. j \in Entries(Append(q, j))
    <3>1. Len(q) + 1 \in DOMAIN Append(q, j) /\ Append(q, j)[Len(q) + 1] = j
      BY AppendEntries
    <3>2. QED
      BY <3>1 DEF Entries
  <2>3. ASSUME NEW x \in Entries(q) PROVE x \in Entries(Append(q, j))
    <3>1. PICK k \in DOMAIN q : x = q[k]
      BY <2>3 DEF Entries
    <3>2. k \in DOMAIN Append(q, j) /\ Append(q, j)[k] = x
      BY <3>1, AppendEntries
    <3>3. QED
      BY <3>2 DEF Entries
  <2>4. QED
    BY <2>1, <2>2, <2>3
<1>3. QED
  BY <1>1, <1>2

(* Only the dispatcher writes PENDING, and only for the next job. *)
LEMMA WhoIsPending ==
  ASSUME Typed, [Next]_vars, NEW j \in Jobs, status'[j] = "pending"
  PROVE  \/ status[j] = "pending"
         \/ PersistJob /\ j = persisted + 1 /\ persisted = enqueued
<1> USE DEF SetStatus, MarkActive, MarkTerminal, RegisterPause, Typed, TypeOK, StoreType
<1>1. CASE UNCHANGED status
  BY <1>1
<1>2. CASE PersistJob
  BY <1>2 DEF PersistJob
<1>3. ASSUME NEW w \in Workers, WorkerStep(w) \/ WorkerCrash(w)
      PROVE  status[j] = "pending"
  <2>1. CASE UpsertRunning(w) \/ MarkFailed(w) \/ AgentPauses(w) \/ MarkCompleted(w)
    BY <2>1 DEF UpsertRunning, MarkFailed, AgentPauses, MarkCompleted
  <2>2. QED
    BY <1>1, <1>3, <2>1
       DEF WorkerStep, WorkerCrash, PopLeft, XRead, XDel, DependencyReady,
         DependencyNotReady, CreateSandbox, AgentReturns, Raises, ValidateOk, Publish,
         AppendMemory, ReadDocument, UpsertFinding, UpsertPersona, DestroySandbox, jobVars
<1>4. ASSUME NEW r \in Requests, ResumeStep(r)
      PROVE  status[j] = "pending"
  BY <1>1, <1>4 DEF ResumeStep, ResumeGet, ResumeReject, ResumeApprove, ReplayPause,
         ReplayNothing, ExecuteTool, ResumedEnds, ResumedPauses, ResumeRaises,
         ResumeCompleted, jobVars
<1>5. QED
  BY <1>1, <1>2, <1>3, <1>4 DEF Next, vars, jobVars, EnqueueJob, ApiCrash

(* Dequeueing and requeueing move the jobs between queue and workers; they *)
(* hold no job that was not enqueued.                                      *)
LEMMA HeldWasEnqueued ==
  ASSUME Typed, WorkIsStarted, [Next]_vars
  PROVE  /\ persisted' <= enqueued' + 1
         /\ \A k \in DOMAIN queue' : queue'[k] <= enqueued'
         /\ \A w \in Workers : cur'[w] <= enqueued'
<1> DEFINE Goal == /\ persisted' <= enqueued' + 1
                   /\ \A x \in Entries(queue') : x <= enqueued'
                   /\ \A w \in Workers : cur'[w] <= enqueued'
<1> SUFFICES Goal
  BY DEF Entries
<1>0. /\ queue \in Seq(Jobs) /\ WorkerType /\ DispatchType /\ WorkerShape
      /\ \A x \in Entries(queue) : x <= enqueued
      /\ \A w \in Workers : cur[w] <= enqueued
      /\ enqueued \in Nat /\ persisted \in Nat /\ persisted <= enqueued + 1
  BY DEF Typed, TypeOK, QueueType, WorkIsStarted, DispatchType, Entries
<1>1. CASE UNCHANGED <<queue, cur, enqueued, persisted>>
  BY <1>0, <1>1
<1>2. CASE EnqueueJob
  <2>1. /\ persisted \in Jobs /\ persisted = enqueued + 1 /\ UNCHANGED <<persisted, cur>>
        /\ enqueued' = enqueued + 1
    BY <1>0, <1>2, JobsFacts DEF EnqueueJob, DispatchType, workerVars
  <2>2. Entries(queue') = Entries(queue) \cup {persisted}
    BY <1>0, <1>2, <2>1, QueueEntries DEF EnqueueJob, Enqueue
  <2>3. /\ Entries(queue) \subseteq Nat
        /\ \A w \in Workers : cur[w] \in Nat
    BY <1>0, JobsFacts DEF Entries, WorkerType
  <2>4. QED
    BY <1>0, <2>1, <2>2, <2>3
<1>3. CASE PersistJob
  BY <1>0, <1>3 DEF PersistJob, workerVars
<1>4. ASSUME NEW w \in Workers, PopLeft(w) \/ XRead(w) PROVE Goal
  BY <1>0, <1>4, QueueEntries, ZenonT(60) DEF PopLeft, XRead, dispatchVars, WorkerType
<1>5. ASSUME NEW w \in Workers, XDel(w) PROVE Goal
  <2>1. fresh[w] => queue # << >>
    BY DEF Typed, ReadersShape
  <2>2. Entries(queue') \subseteq Entries(queue)
    BY <1>0, <1>5, <2>1, QueueEntries DEF XDel
  <2>3. QED
    BY <1>0, <1>5, <2>2 DEF XDel, dispatchVars
<1>6. ASSUME NEW w \in Workers, DependencyNotReady(w) PROVE Goal
  <2>1. cur[w] \in Jobs
    BY <1>0, <1>6 DEF DependencyNotReady, WorkerShape, WorkerType
  <2>2. Entries(queue') = Entries(queue) \cup {cur[w]}
    BY <1>0, <1>6, <2>1, QueueEntries DEF DependencyNotReady, Enqueue
  <2>3. QED
    BY <1>0, <1>6, <2>2 DEF DependencyNotReady, DropLocals, dispatchVars, WorkerType
<1>7. ASSUME NEW w \in Workers, DestroySandbox(w) \/ WorkerCrash(w) PROVE Goal
  BY <1>0, <1>7 DEF DestroySandbox, WorkerCrash, DropLocals, dispatchVars, WorkerType
<1>8. ASSUME NEW w \in Workers, WorkerStep(w) PROVE Goal
  BY <1>1, <1>4, <1>5, <1>6, <1>7, <1>8
     DEF WorkerStep, DependencyReady, CreateSandbox, UpsertRunning, AgentReturns, AgentPauses,
         Raises, ValidateOk, Publish, AppendMemory, ReadDocument, UpsertFinding,
         UpsertPersona, MarkCompleted, MarkFailed, dispatchVars
<1>9. ASSUME NEW r \in Requests, ResumeStep(r) PROVE Goal
  BY <1>1, <1>9, RequestFrame DEF dispatchVars, workerVars
<1>10. QED
  BY <1>1, <1>2, <1>3, <1>7, <1>8, <1>9 DEF Next, vars, ApiCrash, dispatchVars, workerVars

(* Who has recorded a status of its job. *)
Recorded == (Executing \ {"failing"}) \cup {"destroy"}

(* A worker has recorded a status of its job before, or does so now. *)
LEMMA WhoRecords ==
  ASSUME Typed, NEW w \in Workers, WorkerStep(w) \/ WorkerCrash(w),
         NEW v \in Workers, pc'[v] \in Recorded
  PROVE  /\ cur'[v] = cur[v]
         /\ pc[v] \in Recorded \/ status'[cur[v]] # "pending"
<1>0. WorkerType /\ StoreType /\ (pc[v] # "idle" => cur[v] \in Jobs)
  BY DEF Typed, TypeOK, WorkerShape, WorkerType
<1> USE DEF Recorded, Executing, GoTo, WorkerType
<1>1. CASE PopLeft(w) \/ XRead(w) \/ XDel(w) \/ DependencyReady(w)
  BY <1>0, <1>1 DEF PopLeft, XRead, XDel, DependencyReady
<1>2. CASE DependencyNotReady(w) \/ DestroySandbox(w) \/ WorkerCrash(w)
  BY <1>0, <1>2 DEF DependencyNotReady, DestroySandbox, WorkerCrash, DropLocals
<1>3. CASE CreateSandbox(w) \/ Raises(w) \/ ValidateOk(w) \/ Publish(w)
  BY <1>0, <1>3 DEF CreateSandbox, Raises, ValidateOk, Publish
<1>4. CASE AgentPauses(w) \/ \E o \in {"ok", "error"} : AgentReturns(w, o)
  BY <1>0, <1>4 DEF AgentPauses, AgentReturns
<1>5. CASE UpsertRunning(w) \/ MarkFailed(w)
  BY <1>0, <1>5 DEF UpsertRunning, MarkFailed, MarkActive, MarkTerminal, SetStatus, StoreType
<1>6. CASE AppendMemory(w) \/ ReadDocument(w) \/ UpsertFinding(w) \/ UpsertPersona(w)
           \/ MarkCompleted(w)
  BY <1>0, <1>6 DEF AppendMemory, ReadDocument, UpsertFinding, UpsertPersona, MarkCompleted
<1>7. QED
  BY <1>1, <1>2, <1>3, <1>4, <1>5, <1>6 DEF WorkerStep

LEMMA StartedStep ==
  ASSUME Typed, WorkIsStarted, [Next]_vars
  PROVE  WorkIsStarted'
<1>1. ASSUME NEW v \in Workers, pc'[v] \in Recorded, status'[cur'[v]] = "pending"
      PROVE  FALSE
  <2>1. \/ UNCHANGED workerVars
        \/ \E w \in Workers : WorkerStep(w) \/ WorkerCrash(w)
    BY RequestFrame DEF Next, vars, PersistJob, EnqueueJob, ApiCrash
  <2>2. cur'[v] = cur[v] /\ pc[v] \in Recorded
    BY <1>1, <2>1, WhoRecords DEF workerVars
  <2>3. cur[v] \in Jobs /\ cur[v] <= enqueued /\ status[cur[v]] # "pending"
    BY <2>2 DEF Typed, TypeOK, WorkerType, WorkerShape, WorkIsStarted, Recorded, Executing
  <2>4. enqueued \in Nat /\ persisted \in Nat /\ cur[v] \in Nat
    BY <2>3, JobsFacts DEF Typed, TypeOK, DispatchType
  <2>5. QED
    BY <1>1, <2>2, <2>3, <2>4, WhoIsPending
<1>2. QED
  BY <1>1, HeldWasEnqueued DEF WorkIsStarted, Recorded

LEMMA NoJobLostStep ==
  ASSUME Typed, WorkIsStarted, NoJobLost, [Next]_vars
  PROVE  NoJobLost'
<1> SUFFICES ASSUME crashes' = 0, NEW j \in 1..enqueued', status'[j] = "pending",
                    \A w \in Workers : cur'[w] # j
             PROVE  j \in Entries(queue')
  BY DEF NoJobLost, Entries
<1>0. /\ queue \in Seq(Jobs) /\ WorkerType /\ DispatchType /\ WorkerShape /\ ReadersShape
      /\ enqueued \in Nat /\ persisted \in Nat /\ crashes \in Nat
  BY DEF Typed, TypeOK, QueueType, DispatchType
<1>1. CASE EnqueueJob
  <2>1. /\ persisted \in Jobs /\ enqueued' = persisted /\ persisted = enqueued + 1
        /\ UNCHANGED <<status, cur, crashes>>
    BY <1>0, <1>1, JobsFacts DEF EnqueueJob, DispatchType, jobVars, workerVars, WorkIsStarted
  <2>2. Entries(queue') = Entries(queue) \cup {persisted}
    BY <1>0, <1>1, <2>1, QueueEntries DEF EnqueueJob, Enqueue
  <2>3. CASE j # persisted
    <3>1. j \in 1..enqueued
      BY <1>0, <2>1, <2>3
    <3>2. j \in Entries(queue)
      BY <2>1, <3>1 DEF NoJobLost, Entries
    <3>3. QED
      BY <2>2, <3>2
  <2>4. QED
    BY <2>2, <2>3
<1>2. CASE ~EnqueueJob
  <2>1. UNCHANGED <<enqueued>>
    BY <1>2, WorkerFrame, RequestFrame DEF Next, vars, dispatchVars, PersistJob, ApiCrash
  <2>2. j \in Jobs /\ status[j] = "pending" /\ j \in 1..enqueued
    <3>1. j \in Jobs
      BY <1>0, <2>1, JobsFacts DEF DispatchType
    <3>2. QED
      BY <1>0, <2>1, <3>1, WhoIsPending
  <2>3. crashes = 0
    BY <1>0, RequestFrame
       DEF Next, vars, WorkerStep, WorkerCrash, PersistJob, EnqueueJob, ApiCrash, PopLeft, XRead,
           XDel, DependencyReady, DependencyNotReady, CreateSandbox, UpsertRunning,
           AgentReturns, AgentPauses, Raises, ValidateOk, Publish, AppendMemory,
           ReadDocument, UpsertFinding, UpsertPersona, MarkCompleted, MarkFailed,
           DestroySandbox
  <2>4. j \in Entries(queue) \/ \E w \in Workers : cur[w] = j
    BY <2>2, <2>3 DEF NoJobLost, Entries
  <2>5. CASE UNCHANGED <<queue, cur>>
    BY <2>4, <2>5
  <2>6. ASSUME NEW w \in Workers, PopLeft(w) \/ XRead(w) PROVE j \in Entries(queue')
    <3>1. cur[w] # j /\ cur'[w] = Head(queue)
      BY <1>0, <2>2, <2>6, JobsFacts DEF PopLeft, XRead, WorkerType, GoTo, WorkerShape
    <3>2. j # Head(queue)
      BY <3>1
    <3>3. j \in Entries(queue)
      BY <1>0, <2>4, <2>6, <3>1 DEF PopLeft, XRead, WorkerType
    <3>4. queue # << >> /\ (queue' = queue \/ queue' = Tail(queue))
      BY <2>6 DEF PopLeft, XRead
    <3>5. Entries(queue) = Entries(Tail(queue)) \cup {Head(queue)}
      BY <1>0, <3>4, QueueEntries
    <3>6. j \in Entries(Tail(queue))
      BY <3>2, <3>3, <3>5
    <3>7. QED
      BY <3>3, <3>4, <3>6
  <2>7. ASSUME NEW w \in Workers, XDel(w) PROVE j \in Entries(queue')
    <3>1. UNCHANGED cur /\ j \in Entries(queue)
      BY <2>4, <2>7 DEF XDel
    <3>2. fresh[w] => queue # << >> /\ j # Head(queue)
      BY <1>0, <3>1 DEF ReadersShape
    <3>3. QED
      BY <1>0, <2>7, <3>1, <3>2, QueueEntries DEF XDel
  <2>8. ASSUME NEW w \in Workers, DependencyNotReady(w) PROVE j \in Entries(queue')
    <3>1. cur[w] \in Jobs
      BY <1>0, <2>8 DEF DependencyNotReady, WorkerShape, WorkerType
    <3>2. Entries(queue') = Entries(queue) \cup {cur[w]}
      BY <1>0, <2>8, <3>1, QueueEntries DEF DependencyNotReady, Enqueue
    <3>3. QED
      BY <1>0, <2>4, <2>8, <3>2 DEF DependencyNotReady, DropLocals, WorkerType
  <2>9. ASSUME NEW w \in Workers, DestroySandbox(w) PROVE j \in Entries(queue')
    <3>1. cur[w] # j
      BY <2>2, <2>9 DEF DestroySandbox, WorkIsStarted, Executing
    <3>2. QED
      BY <1>0, <2>4, <2>9, <3>1 DEF DestroySandbox, DropLocals, WorkerType
  <2>10. ASSUME NEW w \in Workers, WorkerCrash(w) PROVE FALSE
    BY <1>0, <2>10 DEF WorkerCrash
  <2>11. ASSUME NEW w \in Workers, WorkerStep(w) PROVE j \in Entries(queue')
    BY <2>5, <2>6, <2>7, <2>8, <2>9, <2>11
       DEF WorkerStep, DependencyReady, CreateSandbox, UpsertRunning, AgentReturns,
           AgentPauses, Raises, ValidateOk, Publish, AppendMemory, ReadDocument,
           UpsertFinding, UpsertPersona, MarkCompleted, MarkFailed
  <2>12. QED
    BY <1>2, <2>5, <2>10, <2>11, RequestFrame DEF Next, vars, PersistJob, ApiCrash, workerVars
<1>3. QED
  BY <1>1, <1>2

(* Until a process dies, a job that was enqueued and has not started is in *)
(* the queue or in a worker's hands, however many workers read the same    *)
(* entry and however often a dependency puts it back.                      *)
THEOREM JobsAreNotLost == Spec => []NoJobLost
<1>1. Init => WorkIsStarted /\ NoJobLost
  <2>1. ASSUME Init PROVE DOMAIN queue = {} /\ 1..enqueued = {}
    BY <2>1 DEF Init
  <2>2. QED
    BY <2>1 DEF Init, WorkIsStarted, NoJobLost, Executing
<1>2. QED
  BY <1>1, InitTyped, NextTyped, StartedStep, NoJobLostStep, PTL DEF Spec

-----------------------------------------------------------------------------
(* Refinement of JobLifecycle, in one process and without dangerous tools. *)

Once(q) == \A i, k \in DOMAIN q : q[i] = q[k] => i = k

LEMMA OnceEntries ==
  ASSUME NEW q \in Seq(Jobs), Once(q)
  PROVE  /\ q # << >> => Once(Tail(q)) /\ Head(q) \notin Entries(Tail(q))
         /\ \A j \in Jobs : j \notin Entries(q) => Once(Append(q, j))
<1>1. ASSUME q # << >> PROVE Once(Tail(q)) /\ Head(q) \notin Entries(Tail(q))
  <2>1. DOMAIN Tail(q) \subseteq Nat
    BY <1>1, TailEntries
  <2>2. Once(Tail(q))
    BY <1>1, <2>1, TailEntries DEF Once
  <2>3. ASSUME NEW k \in DOMAIN Tail(q), Tail(q)[k] = Head(q) PROVE FALSE
    BY <1>1, <2>1, <2>3, TailEntries DEF Once
  <2>4. QED
    BY <2>2, <2>3 DEF Entries
<1>2. ASSUME NEW j \in Jobs, j \notin Entries(q) PROVE Once(Append(q, j))
  <2>1. \A k \in DOMAIN q : q[k] # j
    BY <1>2 DEF Entries
  <2>2. SUFFICES ASSUME NEW i \in 1..(Len(q) + 1), NEW k \in 1..(Len(q) + 1),
                        Append(q, j)[i] = Append(q, j)[k]
                 PROVE  i = k
    BY AppendEntries DEF Once
  <2>3. /\ Len(q) \in Nat /\ DOMAIN q = 1..Len(q) /\ Append(q, j)[Len(q) + 1] = j
        /\ \A n \in DOMAIN q : Append(q, j)[n] = q[n]
    BY AppendEntries
  <2>4. (i \in DOMAIN q \/ i = Len(q) + 1) /\ (k \in DOMAIN q \/ k = Len(q) + 1)
    BY <2>3
  <2>5. CASE i \in DOMAIN q /\ k \in DOMAIN q
    BY <2>2, <2>3, <2>5 DEF Once
  <2>6. CASE i \in DOMAIN q /\ k = Len(q) + 1
    BY <2>1, <2>2, <2>3, <2>6
  <2>7. CASE i = Len(q) + 1 /\ k \in DOMAIN q
    BY <2>1, <2>2, <2>3, <2>7
  <2>8. QED
    BY <2>4, <2>5, <2>6, <2>7
<1>3. QED
  BY <1>1, <1>2

(* The queue part of SingleDelivery, by entries. *)
LEMMA QueueOnceEntries ==
  QueueOnce <=> /\ \A x \in Entries(queue) :
                     /\ x <= enqueued /\ status[x] = "pending" /\ x \notin ended
                     /\ \A w \in Workers : cur[w] # x
                /\ Once(queue)
  BY DEF QueueOnce, Entries, Once

(* The steps that are left in one process when no tool is dangerous. *)
LocalStep(w) ==
  \/ DependencyReady(w) \/ CreateSandbox(w) \/ UpsertRunning(w)
  \/ \E o \in {"ok", "error"} : AgentReturns(w, o)
  \/ Raises(w) \/ ValidateOk(w) \/ Publish(w) \/ AppendMemory(w) \/ UpsertFinding(w)
  \/ UpsertPersona(w) \/ MarkCompleted(w) \/ MarkFailed(w)

LEMMA StepsLeft ==
  ASSUME InProcess, Dangerous = {}, WorkerOnce, NobodyWaits, [Next]_vars
  PROVE  \/ UNCHANGED vars \/ PersistJob \/ EnqueueJob
         \/ \E w \in Workers : \/ PopLeft(w) \/ DependencyNotReady(w)
                               \/ DestroySandbox(w) \/ LocalStep(w)
<1>1. ASSUME NEW r \in Requests, ResumeStep(r) PROVE FALSE
  BY <1>1 DEF ResumeStep, ResumeGet, ResumeReject, ResumeApprove, ReplayPause,
         ReplayNothing, ExecuteTool, ResumedEnds, ResumedPauses, ResumeRaises,
         ResumeCompleted, RGoTo, NobodyWaits
<1>2. ASSUME NEW w \in Workers PROVE ~XDel(w)
  BY <1>2 DEF XDel, GoTo, WorkerOnce, StatusFits
<1>3. ASSUME NEW w \in Workers, WorkerStep(w) \/ WorkerCrash(w)
      PROVE  PopLeft(w) \/ DependencyNotReady(w) \/ DestroySandbox(w) \/ LocalStep(w)
  BY <1>2, <1>3 DEF WorkerStep, XRead, ReadDocument, AgentPauses, WorkerCrash, LocalStep
<1>4. QED
  BY <1>1, <1>3 DEF Next, ApiCrash

(* What a step inside execute does to its job: the job stays where it is,  *)
(* and only its own status and end are recorded.                           *)
LEMMA LocalEffect ==
  ASSUME InProcess, Typed, SingleDelivery, NEW w \in Workers, LocalStep(w)
  PROVE  /\ cur[w] \in Jobs /\ pc[w] # "idle" /\ pc'[w] # "idle"
         /\ UNCHANGED <<queue, cur, persisted, enqueued, rpc>>
         /\ \A v \in Workers : v # w => pc'[v] = pc[v] /\ outcome'[v] = outcome[v]
         /\ \A j \in Jobs : j # cur[w] => status'[j] = status[j] /\ (j \in ended' <=> j \in ended)
         /\ status'[cur[w]] # "awaiting_approval"
         /\ StatusFits(pc'[w], status'[cur[w]], cur[w] \in ended', outcome'[w])
<1>0. /\ WorkerType /\ StoreType /\ WorkerShape
      /\ StatusFits(pc[w], status[cur[w]], cur[w] \in ended, outcome[w])
      /\ cur[w] \in Jobs => status[cur[w]] # "awaiting_approval"
  BY DEF Typed, TypeOK, SingleDelivery, WorkerOnce, NobodyWaits
<1> USE DEF GoTo, dispatchVars, requestVars, jobVars, invVars
<1>1. pc[w] # "idle" /\ cur[w] \in Jobs
  BY <1>0 DEF LocalStep, DependencyReady, CreateSandbox, UpsertRunning, AgentReturns, Raises,
         ValidateOk, Publish, AppendMemory, UpsertFinding, UpsertPersona, MarkCompleted,
         MarkFailed, WorkerShape, WorkerType
<1>2. UNCHANGED <<queue, cur, persisted, enqueued, rpc>>
  BY DEF LocalStep, DependencyReady, CreateSandbox, UpsertRunning, AgentReturns, Raises,
         ValidateOk, Publish, AppendMemory, UpsertFinding, UpsertPersona, MarkCompleted,
         MarkFailed
<1> DEFINE Rest == /\ pc'[w] # "idle"
                   /\ \A v \in Workers : v # w => pc'[v] = pc[v] /\ outcome'[v] = outcome[v]
                   /\ \A j \in Jobs : j # cur[w]
                        => status'[j] = status[j] /\ (j \in ended' <=> j \in ended)
                   /\ status'[cur[w]] # "awaiting_approval"
                   /\ StatusFits(pc'[w], status'[cur[w]], cur[w] \in ended', outcome'[w])
<1> USE DEF StatusFits, WorkerType, StoreType, MarkActive, MarkTerminal, SetStatus
<1>3. CASE DependencyReady(w) \/ CreateSandbox(w)
  <2>1. Rest
    BY <1>0, <1>1, <1>3 DEF DependencyReady, CreateSandbox
  <2>2. QED
    BY <1>1, <1>2, <2>1
<1>4. CASE UpsertRunning(w)
  <2>1. Rest
    BY <1>0, <1>1, <1>4 DEF UpsertRunning
  <2>2. QED
    BY <1>1, <1>2, <2>1
<1>5. CASE \E o \in {"ok", "error"} : AgentReturns(w, o)
  <2>1. Rest
    BY <1>0, <1>1, <1>5 DEF AgentReturns
  <2>2. QED
    BY <1>1, <1>2, <2>1
<1>6. CASE Raises(w)
  <2>1. Rest
    BY <1>0, <1>1, <1>6 DEF Raises
  <2>2. QED
    BY <1>1, <1>2, <2>1
<1>7. CASE ValidateOk(w) \/ Publish(w)
  <2>1. Rest
    BY <1>0, <1>1, <1>7 DEF ValidateOk, Publish
  <2>2. QED
    BY <1>1, <1>2, <2>1
<1>8. CASE AppendMemory(w)
  <2>1. Rest
    BY <1>0, <1>1, <1>8 DEF AppendMemory, WorkerShape, AfterPublish
  <2>2. QED
    BY <1>1, <1>2, <2>1
<1>9. CASE UpsertFinding(w)
  <2>1. Rest
    BY <1>0, <1>1, <1>9 DEF UpsertFinding, WorkerShape, AfterPublish
  <2>2. QED
    BY <1>1, <1>2, <2>1
<1>10. CASE UpsertPersona(w)
  <2>1. Rest
    BY <1>0, <1>1, <1>10 DEF UpsertPersona
  <2>2. QED
    BY <1>1, <1>2, <2>1
<1>11. CASE MarkCompleted(w)
  <2>1. Rest
    BY <1>0, <1>1, <1>11 DEF MarkCompleted
  <2>2. QED
    BY <1>1, <1>2, <2>1
<1>12. CASE MarkFailed(w)
  <2>1. Rest
    BY <1>0, <1>1, <1>12 DEF MarkFailed, WorkerShape
  <2>2. QED
    BY <1>1, <1>2, <2>1
<1>13. QED
  BY <1>3, <1>4, <1>5, <1>6, <1>7, <1>8, <1>9, <1>10, <1>11, <1>12 DEF LocalStep

LEMMA LocalOnce ==
  ASSUME InProcess, Typed, SingleDelivery, NEW w \in Workers, LocalStep(w)
  PROVE  SingleDelivery'
<1>0. /\ WorkerType /\ DispatchType /\ queue \in Seq(Jobs) /\ Entries(queue) \subseteq Jobs
      /\ enqueued \in Nat /\ persisted \in Nat /\ enqueued <= persisted
  BY JobsFacts DEF Typed, TypeOK, QueueType, DispatchType, Entries
<1>1. QueueOnce'
  <2>1. QueueOnce /\ \A x \in Entries(queue) : x \in Jobs /\ x # cur[w]
    BY <1>0, QueueOnceEntries DEF SingleDelivery
  <2>2. /\ \A x \in Entries(queue) : status'[x] = status[x] /\ (x \in ended' <=> x \in ended)
        /\ UNCHANGED <<queue, cur, enqueued>>
    BY <2>1, LocalEffect
  <2>3. QED
    BY <2>1, <2>2 DEF QueueOnce, Entries
<1>2. WorkerOnce'
  <2>1. ASSUME NEW v \in Workers, v # w
        PROVE  StatusFits(pc[v], status'[cur[v]], cur[v] \in ended', outcome[v])
    <3>1. StatusFits(pc[v], status[cur[v]], cur[v] \in ended, outcome[v])
      BY DEF SingleDelivery, WorkerOnce
    <3>2. CASE cur[v] \in Jobs
      <4>1. cur[v] # cur[w]
        BY <2>1, LocalEffect DEF SingleDelivery, WorkerOnce
      <4>2. QED
        BY <3>1, <3>2, <4>1, LocalEffect DEF StatusFits
    <3>3. CASE cur[v] = NoJob
      BY <3>3, JobsFacts DEF StatusFits, Typed, WorkerShape
    <3>4. QED
      BY <1>0, <3>2, <3>3 DEF WorkerType
  <2>2. UNCHANGED <<cur, enqueued>> /\ pc[w] # "idle"
    BY LocalEffect
  <2>3. \A v \in Workers : StatusFits(pc'[v], status'[cur'[v]], cur'[v] \in ended', outcome'[v])
    BY <2>1, LocalEffect
  <2>4. \A v \in Workers : pc'[v] = "idle" <=> pc[v] = "idle"
    BY LocalEffect
  <2>5. QED
    BY <2>2, <2>3, <2>4 DEF SingleDelivery, WorkerOnce
<1>3. cur[w] \in Jobs /\ cur[w] \in Nat /\ cur[w] <= enqueued
  BY LocalEffect, JobsFacts DEF SingleDelivery, WorkerOnce
<1>4. NotYetEnqueued'
  <2>1. NotYetEnqueued
    BY DEF SingleDelivery
  <2>2. ASSUME NEW j \in Jobs, j > enqueued
        PROVE  status'[j] = status[j] /\ (j \in ended' <=> j \in ended)
    BY <1>0, <1>3, <2>2, LocalEffect, JobsFacts
  <2>3. UNCHANGED <<persisted, enqueued>>
    BY LocalEffect
  <2>4. enqueued < persisted => persisted \in Jobs
    BY <1>0, JobsFacts DEF DispatchType
  <2>5. QED
    BY <1>0, <2>1, <2>2, <2>3, <2>4, JobsFacts DEF NotYetEnqueued
<1>5. NobodyWaits'
  BY LocalEffect DEF SingleDelivery, NobodyWaits
<1>6. QED
  BY <1>1, <1>2, <1>4, <1>5 DEF SingleDelivery

LEMMA OnceStep ==
  ASSUME InProcess, Dangerous = {}, Typed, SingleDelivery, [Next]_vars
  PROVE  SingleDelivery'
<1>0. /\ WorkerType /\ WorkerShape /\ DispatchType /\ StoreType
      /\ queue \in Seq(Jobs) /\ Entries(queue) \subseteq Jobs /\ Jobs \subseteq Nat
      /\ enqueued \in Nat /\ persisted \in Nat /\ enqueued <= persisted
      /\ \A w \in Workers : cur[w] \in Nat
  BY JobsFacts DEF Typed, TypeOK, QueueType, DispatchType, WorkerType, Entries
<1>1. QueueOnce /\ WorkerOnce /\ NotYetEnqueued /\ NobodyWaits
  BY DEF SingleDelivery
<1>2. Once(queue) /\ \A x \in Entries(queue) :
                       /\ x <= enqueued /\ status[x] = "pending" /\ x \notin ended
                       /\ \A w \in Workers : cur[w] # x
  BY <1>1, QueueOnceEntries
<1>3. CASE UNCHANGED vars
  BY <1>1, <1>3 DEF vars, SingleDelivery, QueueOnce, WorkerOnce, NotYetEnqueued, NobodyWaits,
                    dispatchVars, jobVars, invVars, workerVars, requestVars
<1>4. CASE PersistJob
  <2>1. /\ persisted' = persisted + 1 /\ persisted = enqueued /\ persisted + 1 \in Jobs
        /\ status' = [status EXCEPT ![persisted + 1] = "pending"]
        /\ UNCHANGED <<enqueued, queue, ended, cur, pc, outcome, rpc>>
    BY <1>0, <1>4, JobsFacts DEF PersistJob, MarkActive, SetStatus, invVars, workerVars, requestVars
  <2>2. \A j \in Jobs : j # persisted + 1 => status'[j] = status[j]
    BY <1>0, <2>1 DEF StoreType
  <2>3. status'[persisted + 1] = "pending"
    BY <1>0, <2>1 DEF StoreType
  <2>4. QueueOnce'
    <3>1. \A x \in Entries(queue) : status'[x] = status[x]
      BY <1>0, <1>2, <2>1, <2>2
    <3>2. QED
      BY <1>1, <2>1, <3>1 DEF QueueOnce, Entries
  <2>5. WorkerOnce'
    <3>1. ASSUME NEW w \in Workers
          PROVE  StatusFits(pc[w], status'[cur[w]], cur[w] \in ended, outcome[w])
      <4>1. cur[w] <= enqueued /\ StatusFits(pc[w], status[cur[w]], cur[w] \in ended, outcome[w])
        BY <1>1 DEF WorkerOnce
      <4>2. CASE cur[w] \in Jobs
        <5>1. status'[cur[w]] = status[cur[w]]
          BY <1>0, <2>1, <2>2, <4>1, <4>2
        <5>2. QED
          BY <4>1, <5>1
      <4>3. CASE cur[w] = NoJob
        BY <1>0, <4>3 DEF StatusFits, WorkerShape
      <4>4. QED
        BY <1>0, <4>2, <4>3 DEF WorkerType
    <3>2. QED
      BY <1>1, <2>1, <3>1 DEF WorkerOnce
  <2>6. NotYetEnqueued'
    BY <1>0, <1>1, <2>1, <2>2, <2>3 DEF NotYetEnqueued
  <2>7. NobodyWaits'
    BY <1>1, <2>1, <2>2, <2>3 DEF NobodyWaits
  <2>8. QED
    BY <2>4, <2>5, <2>6, <2>7 DEF SingleDelivery
<1>5. CASE EnqueueJob
  <2>1. /\ enqueued' = enqueued + 1 /\ persisted = enqueued + 1 /\ persisted \in Jobs
        /\ status[persisted] = "pending" /\ persisted \notin ended
        /\ UNCHANGED <<persisted, status, ended, cur, pc, outcome, rpc>>
    BY <1>0, <1>1, <1>5, JobsFacts
       DEF EnqueueJob, NotYetEnqueued, invVars, workerVars, requestVars, jobVars, DispatchType
  <2>2. queue' = Append(queue, persisted)
    BY <1>5 DEF EnqueueJob, Enqueue
  <2>3. persisted \notin Entries(queue) /\ \A w \in Workers : cur[w] # persisted
    BY <1>0, <1>1, <1>2, <2>1 DEF WorkerOnce
  <2>4. Entries(queue') = Entries(queue) \cup {persisted} /\ Once(queue')
    BY <1>0, <1>2, <2>1, <2>2, <2>3, QueueEntries, OnceEntries
  <2>5. \A x \in Entries(queue') :
          /\ x <= enqueued' /\ status'[x] = "pending" /\ x \notin ended'
          /\ \A w \in Workers : cur'[w] # x
    <3>1. ASSUME NEW x \in Entries(queue) PROVE x <= enqueued'
      <4>1. x \in Nat /\ enqueued \in Nat
        BY <1>0
      <4>2. x <= enqueued
        BY <1>2
      <4>3. QED
        BY <2>1, <4>1, <4>2
    <3>2. persisted <= enqueued'
      BY <1>0, <2>1
    <3>3. QED
      BY <1>2, <2>1, <2>3, <2>4, <3>1, <3>2
  <2>6. QueueOnce'
    BY <2>4, <2>5 DEF QueueOnce, Entries, Once
  <2>7. WorkerOnce'
    BY <1>0, <1>1, <2>1 DEF WorkerOnce
  <2>8. NotYetEnqueued' /\ NobodyWaits'
    BY <1>0, <1>1, <2>1 DEF NotYetEnqueued, NobodyWaits
  <2>9. QED
    BY <2>6, <2>7, <2>8 DEF SingleDelivery
<1>6. ASSUME NEW w \in Workers, PopLeft(w) PROVE SingleDelivery'
  <2>1. /\ queue # << >> /\ queue' = Tail(queue) /\ cur' = [cur EXCEPT ![w] = Head(queue)]
        /\ pc[w] = "idle" /\ pc' = [pc EXCEPT ![w] = "taken"]
        /\ UNCHANGED <<persisted, enqueued, status, ended, outcome, rpc>>
    BY <1>6 DEF PopLeft, GoTo, dispatchVars, jobVars, invVars, requestVars
  <2>2. /\ Head(queue) \in Entries(queue) /\ Entries(queue') \subseteq Entries(queue)
        /\ Once(queue') /\ Head(queue) \notin Entries(queue')
    BY <1>0, <1>2, <2>1, QueueEntries, OnceEntries
  <2>3. /\ cur'[w] = Head(queue) /\ pc'[w] = "taken"
        /\ \A v \in Workers : v # w => cur'[v] = cur[v] /\ pc'[v] = pc[v]
    BY <1>0, <2>1 DEF WorkerType
  <2>4. \A x \in Entries(queue') :
          /\ x <= enqueued' /\ status'[x] = "pending" /\ x \notin ended'
          /\ \A v \in Workers : cur'[v] # x
    BY <1>2, <2>1, <2>2, <2>3
  <2>5. QueueOnce'
    BY <2>2, <2>4 DEF QueueOnce, Entries, Once
  <2>6. WorkerOnce'
    <3>1. ASSUME NEW v \in Workers
          PROVE  /\ cur'[v] <= enqueued
                 /\ StatusFits(pc'[v], status[cur'[v]], cur'[v] \in ended, outcome[v])
      BY <1>1, <1>2, <2>2, <2>3 DEF WorkerOnce, StatusFits
    <3>2. ASSUME NEW v \in Workers, NEW u \in Workers, cur'[u] = cur'[v], pc'[v] # "idle"
          PROVE  u = v
      BY <1>1, <1>2, <2>2, <2>3, <3>2 DEF WorkerOnce
    <3>3. QED
      BY <2>1, <3>1, <3>2 DEF WorkerOnce
  <2>7. NotYetEnqueued' /\ NobodyWaits'
    BY <1>1, <2>1 DEF NotYetEnqueued, NobodyWaits
  <2>8. QED
    BY <2>5, <2>6, <2>7 DEF SingleDelivery
<1>7. ASSUME NEW w \in Workers, DependencyNotReady(w) PROVE SingleDelivery'
  <2>1. /\ queue' = Append(queue, cur[w]) /\ cur' = [cur EXCEPT ![w] = NoJob]
        /\ pc[w] = "taken" /\ pc' = [pc EXCEPT ![w] = "idle"]
        /\ outcome' = [outcome EXCEPT ![w] = "ok"] /\ cur[w] \in Jobs
        /\ UNCHANGED <<persisted, enqueued, status, ended, rpc>>
    BY <1>0, <1>7 DEF DependencyNotReady, DropLocals, Enqueue, dispatchVars, jobVars, invVars,
                      requestVars, WorkerShape, WorkerType
  <2>2. cur[w] \notin Entries(queue)
    BY <1>2
  <2>3. Entries(queue') = Entries(queue) \cup {cur[w]} /\ Once(queue')
    BY <1>0, <1>2, <2>1, <2>2, QueueEntries, OnceEntries
  <2>4. /\ cur'[w] = NoJob /\ pc'[w] = "idle"
        /\ \A v \in Workers : v # w => cur'[v] = cur[v] /\ pc'[v] = pc[v] /\ outcome'[v] = outcome[v]
    BY <1>0, <2>1 DEF WorkerType
  <2>5. /\ cur[w] <= enqueued /\ status[cur[w]] = "pending" /\ cur[w] \notin ended
        /\ \A v \in Workers : v # w => cur[v] # cur[w]
    BY <1>1, <2>1 DEF WorkerOnce, StatusFits
  <2>6. \A x \in Entries(queue') :
          /\ x <= enqueued' /\ status'[x] = "pending" /\ x \notin ended'
          /\ \A v \in Workers : cur'[v] # x
    BY <1>0, <1>2, <2>1, <2>3, <2>4, <2>5, JobsFacts
  <2>7. QueueOnce'
    BY <2>3, <2>6 DEF QueueOnce, Entries, Once
  <2>8. WorkerOnce'
    <3>1. ASSUME NEW v \in Workers
          PROVE  /\ cur'[v] <= enqueued
                 /\ StatusFits(pc'[v], status[cur'[v]], cur'[v] \in ended, outcome'[v])
      BY <1>0, <1>1, <2>4 DEF WorkerOnce, StatusFits
    <3>2. ASSUME NEW v \in Workers, NEW u \in Workers, cur'[u] = cur'[v], pc'[v] # "idle"
          PROVE  u = v
      BY <1>0, <1>1, <2>4, <3>2 DEF WorkerOnce, WorkerShape
    <3>3. QED
      BY <2>1, <3>1, <3>2 DEF WorkerOnce
  <2>9. NotYetEnqueued' /\ NobodyWaits'
    BY <1>1, <2>1 DEF NotYetEnqueued, NobodyWaits
  <2>10. QED
    BY <2>7, <2>8, <2>9 DEF SingleDelivery
<1>8. ASSUME NEW w \in Workers, DestroySandbox(w) PROVE SingleDelivery'
  <2>1. /\ cur' = [cur EXCEPT ![w] = NoJob] /\ pc' = [pc EXCEPT ![w] = "idle"]
        /\ outcome' = [outcome EXCEPT ![w] = "ok"]
        /\ UNCHANGED <<queue, persisted, enqueued, status, ended, rpc>>
    BY <1>0, <1>8 DEF DestroySandbox, DropLocals, dispatchVars, jobVars, invVars, requestVars
  <2>2. /\ cur'[w] = NoJob /\ pc'[w] = "idle"
        /\ \A v \in Workers : v # w => cur'[v] = cur[v] /\ pc'[v] = pc[v] /\ outcome'[v] = outcome[v]
    BY <1>0, <2>1 DEF WorkerType
  <2>3. \A x \in Entries(queue) :
          /\ x <= enqueued' /\ status'[x] = "pending" /\ x \notin ended'
          /\ \A v \in Workers : cur'[v] # x
    BY <1>0, <1>2, <2>1, <2>2, JobsFacts
  <2>4. QueueOnce'
    BY <1>2, <2>1, <2>3 DEF QueueOnce, Entries, Once
  <2>5. WorkerOnce'
    <3>1. ASSUME NEW v \in Workers
          PROVE  /\ cur'[v] <= enqueued
                 /\ StatusFits(pc'[v], status[cur'[v]], cur'[v] \in ended, outcome'[v])
      BY <1>0, <1>1, <2>2 DEF WorkerOnce, StatusFits
    <3>2. ASSUME NEW v \in Workers, NEW u \in Workers, cur'[u] = cur'[v], pc'[v] # "idle"
          PROVE  u = v
      BY <1>0, <1>1, <2>2, <3>2 DEF WorkerOnce, WorkerShape
    <3>3. QED
      BY <2>1, <3>1, <3>2 DEF WorkerOnce
  <2>6. NotYetEnqueued' /\ NobodyWaits'
    BY <1>1, <2>1 DEF NotYetEnqueued, NobodyWaits
  <2>7. QED
    BY <2>4, <2>5, <2>6 DEF SingleDelivery
<1>9. QED
  BY <1>1, <1>3, <1>4, <1>5, <1>6, <1>7, <1>8, StepsLeft, LocalOnce

(* Every step is a step of the abstract life cycle or leaves the statuses  *)
(* and the ended jobs alone.                                               *)
LEMMA LifecycleStep ==
  ASSUME InProcess, Dangerous = {}, Typed, SingleDelivery, UpstreamFirst, [Next]_vars
  PROVE  [Lifecycle!Next]_(Lifecycle!lifecycleVars)
<1> DEFINE Goal == Lifecycle!Next \/ UNCHANGED <<status, ended>>
<1> SUFFICES Goal
  BY DEF Lifecycle!lifecycleVars
<1>0. WorkerType /\ WorkerShape /\ StoreType /\ Jobs = DOMAIN Plan
  BY DEF Typed, TypeOK, Jobs
<1>1. WorkerOnce /\ NotYetEnqueued
  BY DEF SingleDelivery
<1> USE DEF Lifecycle!JobStep, Lifecycle!JobIds, GoTo, jobVars, invVars
<1>2. CASE PersistJob
  <2>1. persisted + 1 \in Jobs /\ status[persisted + 1] = "none"
    BY <1>1, <1>2, JobsFacts DEF PersistJob, NotYetEnqueued, Typed, TypeOK, DispatchType
  <2>2. Lifecycle!Accept(persisted + 1)
    BY <1>2, <2>1 DEF PersistJob, MarkActive, SetStatus, Lifecycle!Accept, Lifecycle!Becomes
  <2>3. QED
    BY <1>0, <2>1, <2>2 DEF Lifecycle!Next
<1>3. ASSUME NEW w \in Workers, pc[w] # "idle"
      PROVE  /\ cur[w] \in Jobs
             /\ StatusFits(pc[w], status[cur[w]], cur[w] \in ended, outcome[w])
             /\ pc[w] \in {"created", "failing"} => Lifecycle!Startable(cur[w])
  BY <1>0, <1>1, <1>3 DEF WorkerOnce, WorkerShape, WorkerType, UpstreamFirst, Executing,
                          HasDependency, DependsOn, Lifecycle!Startable
<1>4. ASSUME NEW w \in Workers, UpsertRunning(w) PROVE Goal
  <2>1. Lifecycle!Start(cur[w])
    BY <1>3, <1>4 DEF UpsertRunning, MarkActive, SetStatus, Lifecycle!Start, Lifecycle!Becomes, StatusFits
  <2>2. QED
    BY <1>0, <1>3, <1>4, <2>1 DEF Lifecycle!Next, UpsertRunning
<1>5. ASSUME NEW w \in Workers, UpsertPersona(w) PROVE Goal
  <2>1. cur[w] \in Jobs /\ Lifecycle!Release(cur[w])
    BY <1>3, <1>5 DEF UpsertPersona, Lifecycle!Release, StatusFits
  <2>2. QED
    BY <1>0, <2>1 DEF Lifecycle!Next
<1>6. ASSUME NEW w \in Workers, MarkCompleted(w) PROVE Goal
  <2>1. cur[w] \in Jobs /\ Lifecycle!Complete(cur[w])
    BY <1>3, <1>6 DEF MarkCompleted, MarkTerminal, SetStatus, Lifecycle!Complete,
                      Lifecycle!Becomes, StatusFits
  <2>2. QED
    BY <1>0, <2>1 DEF Lifecycle!Next
<1>7. ASSUME NEW w \in Workers, MarkFailed(w) PROVE Goal
  <2>1. cur[w] \in Jobs /\ (Lifecycle!Abort(cur[w]) \/ Lifecycle!Fail(cur[w]))
    BY <1>3, <1>7 DEF MarkFailed, MarkTerminal, SetStatus, Lifecycle!Abort, Lifecycle!Fail,
                      Lifecycle!Becomes, StatusFits
  <2>2. QED
    BY <1>0, <2>1 DEF Lifecycle!Next
<1>8. ASSUME NEW w \in Workers, LocalStep(w) PROVE Goal
  BY <1>4, <1>5, <1>6, <1>7, <1>8
     DEF LocalStep, DependencyReady, CreateSandbox, AgentReturns, Raises, ValidateOk, Publish,
         AppendMemory, UpsertFinding
<1>9. ASSUME NEW w \in Workers, PopLeft(w) \/ DependencyNotReady(w) \/ DestroySandbox(w) PROVE Goal
  BY <1>9 DEF PopLeft, DependencyNotReady, DestroySandbox
<1>10. QED
  BY <1>2, <1>8, <1>9, StepsLeft DEF SingleDelivery, vars, EnqueueJob

(* In one process, with any plan, any number of workers and no dangerous   *)
(* tool, the worker plane implements JobLifecycle: a job is accepted,      *)
(* started after its upstream was released, finished and released once, and *)
(* a terminal status is never left.                                        *)
THEOREM LifecycleIsImplemented ==
  ASSUME InProcess, Dangerous = {}
  PROVE  Spec => ImplementsLifecycle
<1>1. Init => Lifecycle!Init
  BY DEF Init, Lifecycle!Init, Lifecycle!JobIds, Jobs
<1>2. Init => SingleDelivery
  <2> SUFFICES ASSUME Init PROVE SingleDelivery
    OBVIOUS
  <2>1. DOMAIN queue = {}
    BY DEF Init
  <2>2. QED
    BY <2>1 DEF Init, SingleDelivery, QueueOnce, WorkerOnce, NotYetEnqueued, NobodyWaits, StatusFits
<1>3. Init => DoneOnlyIfEnded /\ UpstreamFirst
  BY DEF Init, DoneOnlyIfEnded, UpstreamFirst, EmptyDocument, Executing
<1>4. Typed /\ SingleDelivery /\ [Next]_vars => SingleDelivery'
  BY OnceStep
<1>5. Typed /\ SingleDelivery /\ UpstreamFirst /\ [Next]_vars
        => [Lifecycle!Next]_(Lifecycle!lifecycleVars)
  BY LifecycleStep
<1>6. QED
  BY <1>1, <1>2, <1>3, <1>4, <1>5, InitTyped, NextTyped, DoneStep, UpstreamStep, PTL
     DEF Spec, ImplementsLifecycle, Lifecycle!Spec

=============================================================================
