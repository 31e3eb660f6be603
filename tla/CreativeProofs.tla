---------------------------- MODULE CreativeProofs ----------------------------
(***************************************************************************)
(* Theorems about CreativeRun, for any number of workers and reconcilers   *)
(* and any number of attempts and faults.                                  *)
(***************************************************************************)
EXTENDS CreativeRun, TLAPS

\* The steps of an agent and the types of the control state.
StepsOf(a) == IF a \in Workers THEN WorkerStep ELSE ReconcilerStep
PcOK ==
    /\ pc \in [Agents -> WorkerStep \cup ReconcilerStep]
    /\ \A w \in Workers : pc[w] \in WorkerStep
    /\ \A r \in Reconcilers : pc[r] \in ReconcilerStep

\* The types of everything else but the queue.
DataOK ==
    /\ status \in Status
    /\ target \in {"none", "failed", "result_lost"}
    /\ recorded \in BOOLEAN
    /\ dropped \in BOOLEAN
    /\ phase \in Phase
    /\ attempts \in 0..(MaxAttempts - 1)
    /\ payload \in BOOLEAN
    /\ output \in BOOLEAN
    /\ claims \subseteq {"hold", "capture", "release"}
    /\ frozen \in Int
    /\ charged \in Nat
    /\ returned \in Nat
    /\ userGone \in BOOLEAN
    /\ event \in [Operation -> {"none", "pending", "done"} \cup Reconcilers]
    /\ creator \in CreatorStep
    /\ seen \in [Agents -> Status]
    /\ goal \in [Agents -> Goal]
    /\ op \in [Agents -> Operation]
    /\ faults \in 0..MaxFaults

\* What a later step relies on: a release has a target, and the phase a
\* reconciler writes is one.
RouteInv ==
    /\ status = "release_pending" => target # "none"
    /\ \A r \in Reconcilers :
          /\ pc[r] = "enqueue" => goal[r] \in {"none", "enqueued", "complete"}
          /\ pc[r] = "phase" => goal[r] \in {"enqueued", "complete"}

-----------------------------------------------------------------------------
(* The queue. *)

\* The operations of CreativeQueue and the release of the lock.
QueueOp ==
    \/ Enqueue
    \/ \E w \in Workers :
          \/ Reserve(w)
          \/ Ack(w)
          \/ RequeueAfter(w, TRUE)
          \/ RequeueAfter(w, FALSE)
          \/ TryAcquireJobLock(w)
          \/ joblock' = WithoutLock(w) /\ UNCHANGED <<ready, delayed, active, inflight>>
    \/ MoveDueDelayedToReady
    \/ RecoverStaleActive
    \/ ExpireJobLock

\* Every step is one operation on the queue or leaves it alone.
LEMMA QueueSteps == [CNext]_cvars => QueueOp \/ UNCHANGED qvars
<1> SUFFICES ASSUME [CNext]_cvars PROVE QueueOp \/ UNCHANGED qvars
  OBVIOUS
<1>1. CASE CreateNext
  BY <1>1 DEF CreateNext, CreateEnsure, CreateReserve, CreatePhase, CreateSave, CreateEnqueue,
     CreateAbort, CreateAbortEnsure, QueueOp
<1>2. CASE CreateFails
  BY <1>2 DEF CreateFails
<1>3. ASSUME NEW a \in Agents, ResultStep(a) \/ CallFails(a) \/ AgentCrash(a) PROVE UNCHANGED qvars
  BY <1>3 DEF ResultStep, FailRead, LostRead, FailWrite, FailEnsure, ReleaseRead, ReleaseFunds,
     ReleaseWrite, ReleaseDelete, CallFails, AgentCrash
<1>4. ASSUME NEW w \in Workers, WorkerStepOf(w) PROVE QueueOp \/ UNCHANGED qvars

  <2>1. CASE LockJob(w)
    BY <2>1 DEF LockJob, QueueOp, qvars

  <2>2. CASE Process(w)
    BY <2>2 DEF Process, Decides, QueueOp, qvars

  <2>3. CASE LoadPayload(w)
    BY <2>3 DEF LoadPayload, QueueOp, qvars

  <2>4. CASE Admit(w)
    BY <2>4 DEF Admit, Decides, QueueOp, qvars

  <2>5. CASE RunningRead(w)
    BY <2>5 DEF RunningRead, QueueOp, qvars

  <2>6. CASE MarkRunning(w)
    BY <2>6 DEF MarkRunning, QueueOp, qvars

  <2>7. CASE Recheck(w)
    BY <2>7 DEF Recheck, Decides, QueueOp, qvars

  <2>8. CASE UserMissing(w)
    BY <2>8 DEF UserMissing, QueueOp, qvars

  <2>9. CASE SucceedRead(w)
    BY <2>9 DEF SucceedRead, QueueOp, qvars

  <2>10. CASE RecordProviderOutcome(w)
    BY <2>10 DEF RecordProviderOutcome, QueueOp, qvars

  <2>11. CASE SaveOutput(w)
    BY <2>11 DEF SaveOutput, QueueOp, qvars

  <2>12. CASE SettleRead(w)
    BY <2>12 DEF SettleRead, Decides, QueueOp, qvars

  <2>13. CASE SettleMark(w)
    BY <2>13 DEF SettleMark, QueueOp, qvars

  <2>14. CASE Capture(w)
    BY <2>14 DEF Capture, QueueOp, qvars

  <2>15. CASE CompleteProviderOutcome(w)
    BY <2>15 DEF CompleteProviderOutcome, QueueOp, qvars

  <2>16. CASE FinishAck(w)
    BY <2>16 DEF FinishAck, QueueOp, qvars

  <2>17. CASE FinishRequeue(w)
    BY <2>17 DEF FinishRequeue, QueueOp, qvars

  <2>18. CASE Unlock(w)
    BY <2>18 DEF Unlock, Forget, QueueOp, qvars

  <2>19. QED
    BY <1>4, <2>1, <2>2, <2>3, <2>4, <2>5, <2>6, <2>7, <2>8, <2>9, <2>10, <2>11, <2>12, <2>13,
       <2>14, <2>15, <2>16, <2>17, <2>18 DEF WorkerStepOf

<1>5. ASSUME NEW w \in Workers,
             \/ ReserveJob(w) \/ StopRequeue(w) \/ NotAdmitted(w)
             \/ ExecuteError(w) \/ LoseLease(w)
      PROVE  QueueOp \/ UNCHANGED qvars
  BY <1>5 DEF ReserveJob, StopRequeue, NotAdmitted, ExecuteError, LoseLease, QueueOp
<1>6. ASSUME NEW r \in Reconcilers, (\E o \in Operation : ClaimEvent(r, o)) \/ ReconcilerStepOf(r)
      PROVE  QueueOp \/ UNCHANGED qvars
  BY <1>6 DEF ClaimEvent, ReconcilerStepOf, ReadEvent, ReconcileLoad, ReconcileEnqueue,
     ReconcilePhase, EndEvent, QueueOp
<1>7. CASE MoveDelayed \/ RecoverStale \/ ExpireLock
  BY <1>7 DEF MoveDelayed, RecoverStale, ExpireLock, QueueOp
<1>8. CASE ExpireTransient \/ DeleteUser \/ MarkRunResultLost
  BY <1>8 DEF ExpireTransient, DeleteUser, MarkRunResultLost
<1>9. CASE UNCHANGED cvars
  BY <1>9 DEF cvars
<1>10. QED
  BY <1>1, <1>2, <1>3, <1>4, <1>5, <1>6, <1>7, <1>8, <1>9 DEF CNext

\* An operation on the queue preserves its types and loses no job.
LEMMA QueueKept ==
  ASSUME QTypeOK, InflightIsQueued, QueueOp \/ UNCHANGED qvars
  PROVE  QTypeOK' /\ InflightIsQueued'
<1> USE DEF QTypeOK, InflightIsQueued
<1>1. CASE Enqueue
  BY <1>1 DEF Enqueue, qvars
<1>2. ASSUME NEW w \in Workers, Reserve(w) PROVE QTypeOK' /\ InflightIsQueued'
  BY <1>2 DEF Reserve
<1>3. ASSUME NEW w \in Workers, Ack(w) PROVE QTypeOK' /\ InflightIsQueued'
  BY <1>3 DEF Ack, Leased, qvars
<1>4. ASSUME NEW w \in Workers, RequeueAfter(w, TRUE) PROVE QTypeOK' /\ InflightIsQueued'
  BY <1>4 DEF RequeueAfter, Leased, qvars
<1>5. ASSUME NEW w \in Workers, RequeueAfter(w, FALSE) PROVE QTypeOK' /\ InflightIsQueued'
  <2>1. CASE Leased(w)
    <3>1. /\ active' = FALSE
          /\ delayed' = FALSE
          /\ ready' = ready + 1
          /\ inflight' = inflight /\ joblock' = joblock
      BY <1>5, <2>1 DEF RequeueAfter
    <3>2. ready' \in Nat /\ ready' > 0
      BY <3>1
    <3>3. QED
      BY <3>1, <3>2, Zenon
  <2>2. CASE ~Leased(w)
    BY <1>5, <2>2 DEF RequeueAfter, qvars
  <2>3. QED
    BY <2>1, <2>2
<1>6. ASSUME NEW w \in Workers,
             \/ TryAcquireJobLock(w)
             \/ joblock' = WithoutLock(w) /\ UNCHANGED <<ready, delayed, active, inflight>>
      PROVE  QTypeOK' /\ InflightIsQueued'
  BY <1>6 DEF TryAcquireJobLock, WithoutLock
<1>7. CASE MoveDueDelayedToReady \/ RecoverStaleActive \/ ExpireJobLock
  <2>1. CASE MoveDueDelayedToReady
    <3>1. ready' \in Nat /\ ready' > 0
      BY <2>1 DEF MoveDueDelayedToReady
    <3>2. QED
      BY <2>1, <3>1, Zenon DEF MoveDueDelayedToReady
  <2>2. CASE RecoverStaleActive
    <3>1. ready' \in Nat
      BY <2>2 DEF RecoverStaleActive
    <3>2. QED
      BY <2>2, <3>1, Zenon DEF RecoverStaleActive
  <2>3. CASE ExpireJobLock
    BY <2>3 DEF ExpireJobLock
  <2>4. QED
    BY <1>7, <2>1, <2>2, <2>3
<1>8. CASE UNCHANGED qvars
  BY <1>8 DEF qvars
<1>9. QED
  BY <1>1, <1>2, <1>3, <1>4, <1>5, <1>6, <1>7, <1>8 DEF QueueOp

\* The queue starts empty.
LEMMA QueueStarts == CInit => QTypeOK /\ InflightIsQueued
<1>1. ready = 0 /\ delayed = FALSE /\ active = FALSE /\ inflight = "none" /\ joblock = "none" =>
         QTypeOK /\ InflightIsQueued
  <2>1. 0 \in Nat
    OBVIOUS
  <2>2. QED
    BY <2>1, Zenon DEF QTypeOK, InflightIsQueued
<1>2. QED
  BY <1>1 DEF CInit, QInit

\* A job whose inflight key keeps Enqueue away is in the ready list, delayed
\* or active: no sequence of queue operations, by any number of workers,
\* strands it.
THEOREM NoJobIsStranded == CSpec => []InflightIsQueued
<1>1. CInit => QTypeOK /\ InflightIsQueued
  BY QueueStarts
<1>2. QTypeOK /\ InflightIsQueued /\ [CNext]_cvars => QTypeOK' /\ InflightIsQueued'
  BY QueueSteps, QueueKept
<1>3. QED
  BY <1>1, <1>2, PTL DEF CSpec

-----------------------------------------------------------------------------
(* Types. *)

\* Every label of the result operations belongs to the agent that runs them.
LEMMA StepNames ==
  ASSUME NEW a \in Agents
  PROVE  FailStep \cup {Returned(a), Raised(a), "idle"} \subseteq StepsOf(a)
<1> USE CreativeAssumption
<1>1. CASE a \in Workers
  BY <1>1 DEF Agents, StepsOf, WorkerStep, WorkStep, Returned, Raised
<1>2. CASE a \notin Workers
  BY <1>2 DEF Agents, StepsOf, ReconcilerStep, EventStep, Returned, Raised
<1>3. QED
  BY <1>1, <1>2

\* Going to a step of the agent keeps the types of the control state.
LEMMA GotoOK ==
  ASSUME PcOK, NEW a \in Agents, NEW x \in StepsOf(a), Goto(a, x)
  PROVE  PcOK'
BY CreativeAssumption DEF PcOK, Goto, Agents, StepsOf

\* The result operations keep the types.
LEMMA ResultTypes ==
  ASSUME PcOK, DataOK, RouteInv, NEW a \in Agents, ResultStep(a)
  PROVE  PcOK' /\ DataOK' /\ RouteInv'
<1>1. CASE FailRead(a)
  <2>1. \E x \in StepsOf(a) : Goto(a, x)
    BY <1>1, StepNames DEF FailRead, Step, At, FailStep
  <2>2. DataOK'
    BY <1>1, CreativeAssumption DEF FailRead, Sees, Step, At, runvars, funds, transient, DataOK, RouteInv,
       Status, Final, Goal, Operation
  <2>3. RouteInv'
    BY <1>1, CreativeAssumption DEF FailRead, Step, At, Returned, Raised, Goto, runvars, RouteInv,
       PcOK, DataOK, Agents
  <2>4. QED
    BY <2>1, <2>2, <2>3, GotoOK
<1>2. CASE LostRead(a)
  <2>1. \E x \in StepsOf(a) : Goto(a, x)
    BY <1>2, StepNames DEF LostRead, Step, At, FailStep
  <2>2. DataOK'
    BY <1>2, CreativeAssumption DEF LostRead, Sees, Step, At, runvars, funds, transient, DataOK, RouteInv,
       Status, Final, Goal, Operation
  <2>3. RouteInv'
    BY <1>2, CreativeAssumption DEF LostRead, Step, At, Returned, Raised, Goto, runvars, RouteInv,
       PcOK, DataOK, Agents
  <2>4. QED
    BY <2>1, <2>2, <2>3, GotoOK
<1>3. CASE FailWrite(a)
  <2>1. \E x \in StepsOf(a) : Goto(a, x)
    BY <1>3, StepNames DEF FailWrite, Step, At, FailStep
  <2>2. DataOK'
    BY <1>3, CreativeAssumption DEF FailWrite, Sees, Step, At, ToReleasePending, Target, runvars, funds,
       transient, DataOK, RouteInv, Status, Final, Goal, Operation
  <2>3. RouteInv'
    BY <1>3, CreativeAssumption DEF FailWrite, Step, At, ToReleasePending, Target, Returned, Raised,
       Goto, runvars, RouteInv, PcOK, DataOK, Agents
  <2>4. QED
    BY <2>1, <2>2, <2>3, GotoOK
<1>4. CASE FailEnsure(a)
  <2>1. \E x \in StepsOf(a) : Goto(a, x)
    BY <1>4, StepNames DEF FailEnsure, Step, At, FailStep
  <2>2. DataOK'
    BY <1>4, CreativeAssumption DEF FailEnsure, Step, At, Ensure, runvars, funds, transient, DataOK,
       RouteInv, Status, Final, Goal, Operation
  <2>3. RouteInv'
    BY <1>4, CreativeAssumption DEF FailEnsure, Step, At, Ensure, Returned, Raised, Goto, runvars,
       RouteInv, PcOK, DataOK, Agents
  <2>4. QED
    BY <2>1, <2>2, <2>3, GotoOK
<1>5. CASE ReleaseRead(a)
  <2>1. \E x \in StepsOf(a) : Goto(a, x)
    BY <1>5, StepNames DEF ReleaseRead, Step, At, FailStep
  <2>2. DataOK'
    BY <1>5, CreativeAssumption DEF ReleaseRead, Step, At, runvars, funds, transient, DataOK,
       RouteInv, Status, Final, Goal, Operation
  <2>3. RouteInv'
    BY <1>5, CreativeAssumption DEF ReleaseRead, Step, At, Returned, Raised, Goto, runvars,
       RouteInv, PcOK, DataOK, Agents
  <2>4. QED
    BY <2>1, <2>2, <2>3, GotoOK
<1>6. CASE ReleaseFunds(a)
  <2>1. \E x \in StepsOf(a) : Goto(a, x)
    BY <1>6, StepNames DEF ReleaseFunds, Step, At, FailStep
  <2>2. DataOK'
    <3>1. /\ ReleaseFundsOnce \/ UNCHANGED funds
          /\ UNCHANGED <<runvars, transient, event, creator, seen, goal, op, faults, userGone>>
      BY <1>6 DEF ReleaseFunds, ReleaseFundsOnce, funds
    <3>2. claims' \subseteq {"hold", "capture", "release"}
      BY <3>1 DEF ReleaseFundsOnce, funds, DataOK
    <3>3. frozen' \in Int /\ charged' \in Nat /\ returned' \in Nat
      BY <3>1 DEF ReleaseFundsOnce, funds, DataOK
    <3>4. QED
      BY <3>1, <3>2, <3>3 DEF DataOK, runvars, transient
  <2>3. RouteInv'
    BY <1>6, CreativeAssumption DEF ReleaseFunds, Step, At, ReleaseFundsOnce, Returned, Raised,
       Goto, runvars, RouteInv, PcOK, DataOK, Agents
  <2>4. QED
    BY <2>1, <2>2, <2>3, GotoOK
<1>7. CASE ReleaseWrite(a)
  <2>1. \E x \in StepsOf(a) : Goto(a, x)
    BY <1>7, StepNames DEF ReleaseWrite, Step, At, FailStep
  <2>2. DataOK'
    BY <1>7, CreativeAssumption DEF ReleaseWrite, Step, At, SetStatus, runvars, funds, transient,
       DataOK, RouteInv, Status, Final, Goal, Operation
  <2>3. RouteInv'
    BY <1>7, CreativeAssumption DEF ReleaseWrite, Step, At, SetStatus, Returned, Raised, Goto,
       runvars, RouteInv, PcOK, DataOK, Agents
  <2>4. QED
    BY <2>1, <2>2, <2>3, GotoOK
<1>8. CASE ReleaseDelete(a)
  <2>1. \E x \in StepsOf(a) : Goto(a, x)
    BY <1>8, StepNames DEF ReleaseDelete, Step, At, FailStep
  <2>2. DataOK'
    BY <1>8, CreativeAssumption DEF ReleaseDelete, Step, At, runvars, funds, transient, DataOK,
       RouteInv, Status, Final, Goal, Operation
  <2>3. RouteInv'
    BY <1>8, CreativeAssumption DEF ReleaseDelete, Step, At, Returned, Raised, Goto, runvars,
       RouteInv, PcOK, DataOK, Agents
  <2>4. QED
    BY <2>1, <2>2, <2>3, GotoOK
<1>9. QED
  BY <1>1, <1>2, <1>3, <1>4, <1>5, <1>6, <1>7, <1>8 DEF ResultStep

\* The steps of a worker keep the types.
LEMMA WorkerTypes ==
  ASSUME PcOK, DataOK, RouteInv, NEW w \in Workers,
         \/ WorkerStepOf(w) \/ ReserveJob(w) \/ StopRequeue(w) \/ NotAdmitted(w)
         \/ ExecuteError(w) \/ LoseLease(w)
  PROVE  PcOK' /\ DataOK' /\ RouteInv'
<1> w \in Agents
  BY DEF Agents
<1>1. CASE LockJob(w)
  <2>1. \E x \in StepsOf(w) : Goto(w, x)
    BY <1>1, StepNames DEF LockJob, Step, At, StepsOf, WorkerStep, WorkStep, FailStep
  <2>2. DataOK'
    BY <1>1, CreativeAssumption DEF LockJob, Step, At, runvars, funds, transient, DataOK, RouteInv,
       Status, Final, Goal, Operation
  <2>3. RouteInv'
    BY <1>1, CreativeAssumption DEF LockJob, Step, At, Goto, runvars, RouteInv, PcOK, DataOK, Agents
  <2>4. QED
    BY <2>1, <2>2, <2>3, GotoOK
<1>2. CASE Process(w)
  <2>1. \E x \in StepsOf(w) : Goto(w, x)
    BY <1>2, StepNames DEF Process, Decides, Step, At, StepsOf, WorkerStep, WorkStep, FailStep
  <2>2. DataOK'
    BY <1>2, CreativeAssumption DEF Process, Decides, Step, At, runvars, funds, transient, DataOK,
       RouteInv, Status, Final, Goal, Operation
  <2>3. RouteInv'
    BY <1>2, CreativeAssumption DEF Process, Decides, Step, At, Goto, runvars, RouteInv, PcOK,
       DataOK, Agents
  <2>4. QED
    BY <2>1, <2>2, <2>3, GotoOK
<1>3. CASE LoadPayload(w)
  <2>1. \E x \in StepsOf(w) : Goto(w, x)
    BY <1>3, StepNames DEF LoadPayload, Step, At, StepsOf, WorkerStep, WorkStep, FailStep
  <2>2. DataOK'
    BY <1>3, CreativeAssumption DEF LoadPayload, Step, At, runvars, funds, transient, DataOK,
       RouteInv, Status, Final, Goal, Operation
  <2>3. RouteInv'
    BY <1>3, CreativeAssumption DEF LoadPayload, Step, At, Goto, runvars, RouteInv, PcOK, DataOK,
       Agents
  <2>4. QED
    BY <2>1, <2>2, <2>3, GotoOK
<1>4. CASE Admit(w)
  <2>1. \E x \in StepsOf(w) : Goto(w, x)
    BY <1>4, StepNames DEF Admit, Decides, Step, At, StepsOf, WorkerStep, WorkStep, FailStep
  <2>2. DataOK'
    BY <1>4, CreativeAssumption DEF Admit, Decides, Step, At, runvars, funds, transient, DataOK,
       RouteInv, Status, Final, Goal, Operation
  <2>3. RouteInv'
    BY <1>4, CreativeAssumption DEF Admit, Decides, Step, At, Goto, runvars, RouteInv, PcOK, DataOK,
       Agents
  <2>4. QED
    BY <2>1, <2>2, <2>3, GotoOK
<1>5. CASE RunningRead(w)
  <2>1. \E x \in StepsOf(w) : Goto(w, x)
    BY <1>5, StepNames DEF RunningRead, Step, At, StepsOf, WorkerStep, WorkStep, FailStep
  <2>2. DataOK'
    BY <1>5, CreativeAssumption DEF RunningRead, Sees, Step, At, runvars, funds, transient, DataOK,
       RouteInv, Status, Final, Goal, Operation
  <2>3. RouteInv'
    BY <1>5, CreativeAssumption DEF RunningRead, Step, At, Goto, runvars, RouteInv, PcOK, DataOK,
       Agents
  <2>4. QED
    BY <2>1, <2>2, <2>3, GotoOK
<1>6. CASE MarkRunning(w)
  <2>1. \E x \in StepsOf(w) : Goto(w, x)
    BY <1>6, StepNames DEF MarkRunning, Step, At, StepsOf, WorkerStep, WorkStep, FailStep
  <2>2. DataOK'
    BY <1>6, CreativeAssumption DEF MarkRunning, Sees, Step, At, SetStatus, runvars, funds, transient,
       DataOK, RouteInv, Status, Final, Goal, Operation
  <2>3. RouteInv'
    BY <1>6, CreativeAssumption DEF MarkRunning, Step, At, SetStatus, Goto, runvars, RouteInv, PcOK,
       DataOK, Agents
  <2>4. QED
    BY <2>1, <2>2, <2>3, GotoOK
<1>7. CASE Recheck(w)
  <2>1. \E x \in StepsOf(w) : Goto(w, x)
    BY <1>7, StepNames DEF Recheck, Decides, Step, At, StepsOf, WorkerStep, WorkStep, FailStep
  <2>2. DataOK'
    BY <1>7, CreativeAssumption DEF Recheck, Decides, Step, At, runvars, funds, transient, DataOK,
       RouteInv, Status, Final, Goal, Operation
  <2>3. RouteInv'
    BY <1>7, CreativeAssumption DEF Recheck, Decides, Step, At, Goto, runvars, RouteInv, PcOK,
       DataOK, Agents
  <2>4. QED
    BY <2>1, <2>2, <2>3, GotoOK
<1>9. CASE SucceedRead(w)
  <2>1. \E x \in StepsOf(w) : Goto(w, x)
    BY <1>9, StepNames DEF SucceedRead, Step, At, StepsOf, WorkerStep, WorkStep, FailStep
  <2>2. DataOK'
    BY <1>9, CreativeAssumption DEF SucceedRead, Sees, Step, At, runvars, funds, transient, DataOK,
       RouteInv, Status, Final, Goal, Operation
  <2>3. RouteInv'
    BY <1>9, CreativeAssumption DEF SucceedRead, Step, At, Goto, runvars, RouteInv, PcOK, DataOK,
       Agents
  <2>4. QED
    BY <2>1, <2>2, <2>3, GotoOK
<1>10. CASE RecordProviderOutcome(w)
  <2>1. \E x \in StepsOf(w) : Goto(w, x)
    BY <1>10, StepNames DEF RecordProviderOutcome, Step, At, StepsOf, WorkerStep, WorkStep, FailStep
  <2>2. DataOK'
    <3>1. UNCHANGED <<target, phase, attempts, dropped, funds, transient, creator, goal, op, faults>>
      BY <1>10 DEF RecordProviderOutcome, runvars
    <3>7. seen' \in [Agents -> Status]
      BY <1>10 DEF RecordProviderOutcome, Sees, DataOK, Status
    <3>2. status' \in Status
      BY <1>10 DEF RecordProviderOutcome, runvars, DataOK, Status
    <3>3. recorded' = TRUE \/ recorded' = recorded
      BY <1>10 DEF RecordProviderOutcome, runvars
    <3>4. recorded' \in BOOLEAN
      BY <3>3, Zenon DEF DataOK
    <3>5. event' \in [Operation -> {"none", "pending", "done"} \cup Reconcilers]
      BY <1>10 DEF RecordProviderOutcome, Ensure, DataOK, Operation
    <3>6. QED
      BY <3>1, <3>2, <3>4, <3>5, <3>7 DEF DataOK, funds, transient
  <2>3. RouteInv'
    BY <1>10, CreativeAssumption DEF RecordProviderOutcome, Step, At, Ensure, Goto, runvars,
       RouteInv, PcOK, DataOK, Agents
  <2>4. QED
    BY <2>1, <2>2, <2>3, GotoOK
<1>11. CASE SaveOutput(w)
  <2>1. \E x \in StepsOf(w) : Goto(w, x)
    BY <1>11, StepNames DEF SaveOutput, Step, At, StepsOf, WorkerStep, WorkStep, FailStep
  <2>2. DataOK'
    <3>1. UNCHANGED <<runvars, funds, payload, event, creator, seen, goal, op>>
      BY <1>11 DEF SaveOutput
    <3>2. faults' \in 0..MaxFaults
      BY <1>11, CreativeAssumption DEF SaveOutput, Costs, DataOK
    <3>3. output' = TRUE \/ output' = output
      BY <1>11 DEF SaveOutput
    <3>4. output' \in BOOLEAN
      BY <3>3, Zenon DEF DataOK
    <3>5. QED
      BY <3>1, <3>2, <3>4 DEF DataOK, runvars, funds
  <2>3. RouteInv'
    BY <1>11, CreativeAssumption DEF SaveOutput, Step, At, Costs, Goto, runvars, RouteInv, PcOK,
       DataOK, Agents
  <2>4. QED
    BY <2>1, <2>2, <2>3, GotoOK
<1>12. CASE SettleRead(w)
  <2>1. \E x \in StepsOf(w) : Goto(w, x)
    BY <1>12, StepNames DEF SettleRead, Decides, Step, At, StepsOf, WorkerStep, WorkStep, FailStep
  <2>2. DataOK'
    BY <1>12, CreativeAssumption DEF SettleRead, Decides, Step, At, runvars, funds, transient,
       DataOK, RouteInv, Status, Final, Goal, Operation
  <2>3. RouteInv'
    BY <1>12, CreativeAssumption DEF SettleRead, Decides, Step, At, Goto, runvars, RouteInv, PcOK,
       DataOK, Agents
  <2>4. QED
    BY <2>1, <2>2, <2>3, GotoOK
<1>13. CASE SettleMark(w)
  <2>1. \E x \in StepsOf(w) : Goto(w, x)
    BY <1>13, StepNames DEF SettleMark, Step, At, StepsOf, WorkerStep, WorkStep, FailStep
  <2>2. DataOK'
    BY <1>13, CreativeAssumption DEF SettleMark, Step, At, SetStatus, runvars, funds, transient,
       DataOK, RouteInv, Status, Final, Goal, Operation
  <2>3. RouteInv'
    BY <1>13, CreativeAssumption DEF SettleMark, Step, At, SetStatus, Goto, runvars, RouteInv, PcOK,
       DataOK, Agents
  <2>4. QED
    BY <2>1, <2>2, <2>3, GotoOK
<1>14. CASE Capture(w)
  <2>1. \E x \in StepsOf(w) : Goto(w, x)
    BY <1>14, StepNames DEF Capture, Step, At, StepsOf, WorkerStep, WorkStep, FailStep
  <2>2. DataOK'
    <3>1. /\ CaptureFunds \/ UNCHANGED funds
          /\ UNCHANGED <<runvars, transient, event, creator, seen, goal, op, faults, userGone>>
      BY <1>14 DEF Capture, CaptureFunds, funds
    <3>2. claims' = claims \/ claims' = claims \cup {"capture"}
      BY <3>1 DEF CaptureFunds, funds
    <3>3. claims' \subseteq {"hold", "capture", "release"}
      BY <3>2 DEF DataOK
    <3>4. frozen' \in Int /\ charged' \in Nat /\ returned' \in Nat
      <4>1. frozen \in Int /\ charged \in Nat /\ returned \in Nat
        BY DEF DataOK
      <4>2. CASE UNCHANGED funds
        BY <4>1, <4>2 DEF funds
      <4>3. CASE frozen' = frozen - 1 /\ charged' = charged + 1 /\ returned' = returned
        BY <4>1, <4>3
      <4>4. QED
        BY <3>1, <4>2, <4>3 DEF CaptureFunds
    <3>5. QED
      BY <3>1, <3>3, <3>4 DEF DataOK, runvars, transient
  <2>3. RouteInv'
    BY <1>14, CreativeAssumption DEF Capture, Step, At, CaptureFunds, Goto, runvars, RouteInv, PcOK,
       DataOK, Agents
  <2>4. QED
    BY <2>1, <2>2, <2>3, GotoOK
<1>15. CASE CompleteProviderOutcome(w)
  <2>1. \E x \in StepsOf(w) : Goto(w, x)
    BY <1>15, StepNames DEF CompleteProviderOutcome, Step, At, StepsOf, WorkerStep, WorkStep,
       FailStep
  <2>2. DataOK'
    BY <1>15, CreativeAssumption DEF CompleteProviderOutcome, Step, At, SetStatus, Outcome, runvars,
       funds, transient, DataOK, RouteInv, Status, Final, Goal, Operation
  <2>3. RouteInv'
    BY <1>15, CreativeAssumption DEF CompleteProviderOutcome, Step, At, SetStatus, Outcome, Goto,
       runvars, RouteInv, PcOK, DataOK, Agents
  <2>4. QED
    BY <2>1, <2>2, <2>3, GotoOK
<1>16. CASE FinishAck(w)
  <2>1. \E x \in StepsOf(w) : Goto(w, x)
    BY <1>16, StepNames DEF FinishAck, Step, At, StepsOf, WorkerStep, WorkStep, FailStep
  <2>2. DataOK'
    BY <1>16, CreativeAssumption DEF FinishAck, Forget, Step, At, runvars, funds, transient, DataOK,
       RouteInv, Status, Final, Goal, Operation
  <2>3. RouteInv'
    BY <1>16, CreativeAssumption DEF FinishAck, Forget, Step, At, Goto, runvars, RouteInv, PcOK, DataOK,
       Agents
  <2>4. QED
    BY <2>1, <2>2, <2>3, GotoOK
<1>17. CASE FinishRequeue(w)
  <2>1. \E x \in StepsOf(w) : Goto(w, x)
    BY <1>17, StepNames DEF FinishRequeue, Step, At, StepsOf, WorkerStep, WorkStep, FailStep
  <2>2. DataOK'
    BY <1>17, CreativeAssumption DEF FinishRequeue, Forget, Step, At, runvars, funds, transient, DataOK,
       RouteInv, Status, Final, Goal, Operation
  <2>3. RouteInv'
    BY <1>17, CreativeAssumption DEF FinishRequeue, Forget, Step, At, Goto, runvars, RouteInv, PcOK, DataOK,
       Agents
  <2>4. QED
    BY <2>1, <2>2, <2>3, GotoOK
<1>18. CASE Unlock(w)
  <2>1. \E x \in StepsOf(w) : Goto(w, x)
    BY <1>18, StepNames DEF Unlock, Forget, Step, At, StepsOf, WorkerStep, WorkStep, FailStep
  <2>2. DataOK'
    BY <1>18, CreativeAssumption DEF Unlock, Forget, Step, At, runvars, funds, transient, DataOK, RouteInv,
       Status, Final, Goal, Operation
  <2>3. RouteInv'
    BY <1>18, CreativeAssumption DEF Unlock, Forget, Step, At, Goto, runvars, RouteInv, PcOK, DataOK, Agents
  <2>4. QED
    BY <2>1, <2>2, <2>3, GotoOK
<1>19. CASE ReserveJob(w)
  <2>1. \E x \in StepsOf(w) : Goto(w, x)
    BY <1>19, StepNames DEF ReserveJob, Step, At, StepsOf, WorkerStep, WorkStep, FailStep
  <2>2. DataOK'
    BY <1>19, CreativeAssumption DEF ReserveJob, Step, At, runvars, funds, transient, DataOK,
       RouteInv, Status, Final, Goal, Operation
  <2>3. RouteInv'
    BY <1>19, CreativeAssumption DEF ReserveJob, Step, At, Goto, runvars, RouteInv, PcOK, DataOK,
       Agents
  <2>4. QED
    BY <2>1, <2>2, <2>3, GotoOK
<1>20. CASE StopRequeue(w)
  <2>1. \E x \in StepsOf(w) : Goto(w, x)
    BY <1>20, StepNames DEF StopRequeue, Step, At, StepsOf, WorkerStep, WorkStep, FailStep
  <2>2. DataOK'
    BY <1>20, CreativeAssumption DEF StopRequeue, Step, At, Costs, runvars, funds, transient,
       DataOK, RouteInv, Status, Final, Goal, Operation
  <2>3. RouteInv'
    BY <1>20, CreativeAssumption DEF StopRequeue, Step, At, Costs, Goto, runvars, RouteInv, PcOK,
       DataOK, Agents
  <2>4. QED
    BY <2>1, <2>2, <2>3, GotoOK
<1>21. CASE NotAdmitted(w)
  <2>1. \E x \in StepsOf(w) : Goto(w, x)
    BY <1>21, StepNames DEF NotAdmitted, Step, At, StepsOf, WorkerStep, WorkStep, FailStep
  <2>2. DataOK'
    BY <1>21, CreativeAssumption DEF NotAdmitted, Step, At, Costs, runvars, funds, transient,
       DataOK, RouteInv, Status, Final, Goal, Operation
  <2>3. RouteInv'
    BY <1>21, CreativeAssumption DEF NotAdmitted, Step, At, Costs, Goto, runvars, RouteInv, PcOK,
       DataOK, Agents
  <2>4. QED
    BY <2>1, <2>2, <2>3, GotoOK
<1>22. CASE UserMissing(w)
  <2>1. \E x \in StepsOf(w) : Goto(w, x)
    BY <1>22, StepNames DEF UserMissing, Step, At, StepsOf, WorkerStep, WorkStep, FailStep
  <2>2. DataOK'
    BY <1>22, CreativeAssumption DEF UserMissing, Step, At, runvars, funds, transient, DataOK,
       RouteInv, Status, Final, Goal, Operation
  <2>3. RouteInv'
    BY <1>22, CreativeAssumption DEF UserMissing, Step, At, Goto, runvars, RouteInv, PcOK, DataOK,
       Agents
  <2>4. QED
    BY <2>1, <2>2, <2>3, GotoOK
<1>23. CASE ExecuteError(w)
  <2>1. \E x \in StepsOf(w) : Goto(w, x)
    BY <1>23, StepNames DEF ExecuteError, Step, At, StepsOf, WorkerStep, WorkStep, FailStep
  <2>2. DataOK'
    BY <1>23, CreativeAssumption DEF ExecuteError, Step, At, runvars, funds, transient, DataOK,
       RouteInv, Status, Final, Goal, Operation
  <2>3. RouteInv'
    BY <1>23, CreativeAssumption DEF ExecuteError, Step, At, Goto, runvars, RouteInv, PcOK, DataOK,
       Agents
  <2>4. QED
    BY <2>1, <2>2, <2>3, GotoOK
<1>24. CASE LoseLease(w)
  <2>1. \E x \in StepsOf(w) : Goto(w, x)
    BY <1>24, StepNames DEF LoseLease, Step, At, StepsOf, WorkerStep, WorkStep, FailStep
  <2>2. DataOK'
    BY <1>24, CreativeAssumption DEF LoseLease, Forget, Step, At, Costs, runvars, funds, transient, DataOK,
       RouteInv, Status, Final, Goal, Operation
  <2>3. RouteInv'
    BY <1>24, CreativeAssumption DEF LoseLease, Forget, Step, At, Costs, Goto, runvars, RouteInv, PcOK,
       DataOK, Agents
  <2>4. QED
    BY <2>1, <2>2, <2>3, GotoOK
<1>25. QED
  BY <1>1, <1>2, <1>3, <1>4, <1>5, <1>6, <1>7, <1>9, <1>10, <1>11, <1>12, <1>13, <1>14, <1>15,
     <1>16, <1>17, <1>18, <1>19, <1>20, <1>21, <1>22, <1>23, <1>24 DEF WorkerStepOf

\* The steps of a reconciler keep the types.
LEMMA ReconcilerTypes ==
  ASSUME PcOK, DataOK, RouteInv, NEW r \in Reconcilers,
         (\E o \in Operation : ClaimEvent(r, o)) \/ ReconcilerStepOf(r)
  PROVE  PcOK' /\ DataOK' /\ RouteInv'
<1> r \in Agents /\ r \notin Workers
  BY CreativeAssumption DEF Agents
<1>1. CASE ReadEvent(r)
  <2>1. \E x \in StepsOf(r) : Goto(r, x)
    BY <1>1, StepNames DEF ReadEvent, Step, At, StepsOf, ReconcilerStep, EventStep, FailStep
  <2>2. DataOK'
    BY <1>1, CreativeAssumption DEF ReadEvent, Step, At, runvars, funds, transient, DataOK,
       RouteInv, Status, Final, Goal, Operation
  <2>3. RouteInv'
    BY <1>1, CreativeAssumption DEF ReadEvent, Step, At, Goto, runvars, RouteInv, PcOK, DataOK,
       Agents
  <2>4. QED
    BY <2>1, <2>2, <2>3, GotoOK
<1>2. CASE ReconcileLoad(r)
  <2>1. \E x \in StepsOf(r) : Goto(r, x)
    BY <1>2, StepNames DEF ReconcileLoad, Step, At, StepsOf, ReconcilerStep, EventStep, FailStep
  <2>2. DataOK'
    BY <1>2, CreativeAssumption DEF ReconcileLoad, Step, At, Costs, runvars, funds, transient,
       DataOK, RouteInv, Status, Final, Goal, Operation
  <2>3. RouteInv'
    BY <1>2, CreativeAssumption DEF ReconcileLoad, Step, At, Costs, Goto, runvars, RouteInv, PcOK,
       DataOK, Agents
  <2>4. QED
    BY <2>1, <2>2, <2>3, GotoOK
<1>3. CASE ReconcileEnqueue(r)
  <2>1. \E x \in StepsOf(r) : Goto(r, x)
    BY <1>3, StepNames DEF ReconcileEnqueue, Step, At, StepsOf, ReconcilerStep, EventStep, FailStep
  <2>2. DataOK'
    BY <1>3, CreativeAssumption DEF ReconcileEnqueue, Step, At, runvars, funds, transient, DataOK,
       RouteInv, Status, Final, Goal, Operation
  <2>3. RouteInv'
    BY <1>3, CreativeAssumption DEF ReconcileEnqueue, Step, At, Goto, runvars, RouteInv, PcOK,
       DataOK, Agents
  <2>4. QED
    BY <2>1, <2>2, <2>3, GotoOK
<1>4. CASE ReconcilePhase(r)
  <2>1. \E x \in StepsOf(r) : Goto(r, x)
    BY <1>4, StepNames DEF ReconcilePhase, Step, At, StepsOf, ReconcilerStep, EventStep, FailStep
  <2>2. DataOK'
    BY <1>4, CreativeAssumption DEF ReconcilePhase, Step, At, SetPhase, Phase, runvars, funds,
       transient, DataOK, RouteInv, Status, Final, Goal, Operation
  <2>3. RouteInv'
    BY <1>4, CreativeAssumption DEF ReconcilePhase, Step, At, SetPhase, Goto, runvars, RouteInv,
       PcOK, DataOK, Agents
  <2>4. QED
    BY <2>1, <2>2, <2>3, GotoOK
<1>5. CASE EndEvent(r)
  <2>1. \E x \in StepsOf(r) : Goto(r, x)
    BY <1>5, StepNames DEF EndEvent, Forget, Step, At, StepsOf, ReconcilerStep, EventStep, FailStep
  <2>2. DataOK'
    BY <1>5, CreativeAssumption DEF EndEvent, Forget, Step, At, runvars, funds, transient, DataOK, RouteInv,
       Status, Final, Goal, Operation
  <2>3. RouteInv'
    BY <1>5, CreativeAssumption DEF EndEvent, Forget, Step, At, Goto, runvars, RouteInv, PcOK, DataOK,
       Agents
  <2>4. QED
    BY <2>1, <2>2, <2>3, GotoOK
<1>6. ASSUME NEW o \in Operation, ClaimEvent(r, o) PROVE PcOK' /\ DataOK' /\ RouteInv'
  <2>1. \E x \in StepsOf(r) : Goto(r, x)
    BY <1>6 DEF ClaimEvent, Step, StepsOf, ReconcilerStep, EventStep
  <2>2. DataOK'
    BY <1>6 DEF ClaimEvent, runvars, funds, transient, DataOK
  <2>3. RouteInv'
    BY <1>6, CreativeAssumption DEF ClaimEvent, Step, Goto, runvars, RouteInv, PcOK, DataOK, Agents
  <2>4. QED
    BY <2>1, <2>2, <2>3, GotoOK
<1>7. QED
  BY <1>1, <1>2, <1>3, <1>4, <1>5, <1>6 DEF ReconcilerStepOf

\* Creation, faults and the passing of time keep the types.
LEMMA OtherTypes ==
  ASSUME PcOK, DataOK, RouteInv,
         \/ CreateNext \/ CreateFails \/ MoveDelayed \/ RecoverStale \/ ExpireLock
         \/ ExpireTransient \/ MarkRunResultLost \/ DeleteUser \/ UNCHANGED cvars
         \/ \E a \in Agents : CallFails(a) \/ AgentCrash(a)
  PROVE  PcOK' /\ DataOK' /\ RouteInv'
<1> USE CreativeAssumption
<1>1. CASE CreateNext
  <2>1. DataOK'
    <3>1. CASE CreateEnsure
      BY <3>1 DEF CreateEnsure, Creates, CreatorStep, DataOK, runvars, funds, transient, agents
    <3>2. CASE CreateReserve
      <4>1. /\ UNCHANGED <<runvars, transient, event, agents, faults, userGone>>
            /\ creator' \in CreatorStep
        BY <3>2 DEF CreateReserve, ReserveFunds, CreatorStep, funds
      <4>2. ReserveFunds \/ UNCHANGED funds
        BY <3>2 DEF CreateReserve
      <4>3. /\ claims' \subseteq {"hold", "capture", "release"}
            /\ frozen' \in Int /\ charged' \in Nat /\ returned' \in Nat
        <5>1. claims \subseteq {"hold", "capture", "release"}
          BY DEF DataOK
        <5>2. frozen \in Int /\ charged \in Nat /\ returned \in Nat
          BY DEF DataOK
        <5>3. CASE ReserveFunds
          <6>1. claims' \subseteq {"hold", "capture", "release"}
            BY <5>1, <5>3 DEF ReserveFunds
          <6>2. frozen' \in Int /\ charged' \in Nat /\ returned' \in Nat
            BY <5>2, <5>3 DEF ReserveFunds
          <6>3. QED
            BY <6>1, <6>2
        <5>4. CASE UNCHANGED funds
          BY <5>1, <5>2, <5>4 DEF funds
        <5>5. QED
          BY <4>2, <5>3, <5>4
      <4>4. QED
        BY <4>1, <4>3 DEF DataOK, runvars, transient, agents
    <3>3. CASE CreatePhase("held", "hold_reserved", "save")
      BY <3>3 DEF CreatePhase, SetPhase, Phase, Creates, CreatorStep, DataOK, funds, transient, agents
    <3>4. CASE CreateSave
      BY <3>4 DEF CreateSave, Creates, CreatorStep, DataOK, runvars, funds, agents
    <3>5. CASE CreatePhase("saved", "transient_saved", "enqueue")
      BY <3>5 DEF CreatePhase, SetPhase, Phase, Creates, CreatorStep, DataOK, funds, transient, agents
    <3>6. CASE CreateEnqueue
      BY <3>6 DEF CreateEnqueue, Creates, CreatorStep, DataOK, runvars, funds, transient, agents
    <3>7. CASE CreatePhase("enqueued", "enqueued", "done")
      BY <3>7 DEF CreatePhase, SetPhase, Phase, Creates, CreatorStep, DataOK, funds, transient, agents
    <3>8. CASE CreateAbort
      BY <3>8 DEF CreateAbort, ToReleasePending, Status, Creates, CreatorStep, DataOK, runvars, funds,
         transient, agents
    <3>9. CASE CreateAbortEnsure
      BY <3>9 DEF CreateAbortEnsure, Ensure, Operation, Creates, CreatorStep, DataOK, runvars, funds,
         transient, agents
    <3>10. QED
      BY <1>1, <3>1, <3>2, <3>3, <3>4, <3>5, <3>6, <3>7, <3>8, <3>9 DEF CreateNext
  <2>2. UNCHANGED agents /\ ((status' = status /\ target' = target) \/ target' = "failed")
    BY <1>1 DEF CreateNext, CreateEnsure, CreateReserve, CreatePhase, CreateSave, CreateEnqueue,
       CreateAbort, CreateAbortEnsure, SetPhase, ToReleasePending, runvars
  <2>3. QED
    BY <2>1, <2>2 DEF PcOK, RouteInv, agents
<1>2. CASE CreateFails
  <2>1. /\ UNCHANGED <<runvars, funds, transient, event, agents>>
        /\ creator' \in CreatorStep
        /\ faults' \in 0..MaxFaults
    BY <1>2 DEF CreateFails, Costs, CreatorStep, DataOK
  <2>2. QED
    BY <2>1 DEF PcOK, DataOK, RouteInv, runvars, funds, transient, agents
<1>3. CASE MoveDelayed \/ ExpireLock \/ UNCHANGED cvars
  <2>1. UNCHANGED <<runvars, funds, transient, event, creator, agents, faults>>
    BY <1>3 DEF MoveDelayed, ExpireLock, cvars
  <2>2. QED
    BY <2>1 DEF PcOK, DataOK, RouteInv, runvars, funds, transient, agents
<1>4. CASE RecoverStale
  <2>1. /\ UNCHANGED <<runvars, funds, transient, event, creator, agents>>
        /\ faults' \in 0..MaxFaults
    BY <1>4 DEF RecoverStale, Costs, DataOK
  <2>2. QED
    BY <2>1 DEF PcOK, DataOK, RouteInv, runvars, funds, transient, agents
<1>5. CASE ExpireTransient
  <2>1. UNCHANGED <<runvars, funds, event, creator, agents, faults>>
    BY <1>5 DEF ExpireTransient
  <2>2. /\ payload' = FALSE \/ payload' = payload
        /\ output' = FALSE \/ output' = output
    BY <1>5 DEF ExpireTransient
  <2>3. payload' \in BOOLEAN /\ output' \in BOOLEAN
    BY <2>2, Zenon DEF DataOK
  <2>4. QED
    BY <2>1, <2>3 DEF PcOK, DataOK, RouteInv, runvars, funds, agents
<1>6. CASE MarkRunResultLost
  BY <1>6 DEF MarkRunResultLost, SetStatus, Status, Final, PcOK, DataOK, RouteInv, funds, transient,
     agents
<1>7. ASSUME NEW a \in Agents, CallFails(a) \/ AgentCrash(a) PROVE PcOK' /\ DataOK' /\ RouteInv'
  <2>1. PICK x \in {Raised(a), "idle"} : Goto(a, x)
    BY <1>7 DEF CallFails, AgentCrash
  <2>2. PcOK'
    BY <2>1, StepNames, GotoOK
  <2>3. /\ UNCHANGED <<runvars, funds, transient, event, creator>>
        /\ faults' \in 0..MaxFaults
    BY <1>7 DEF CallFails, AgentCrash, Costs, DataOK
  <2>4. UNCHANGED <<seen, goal, op>> \/ Forget(a)
    BY <1>7 DEF CallFails, AgentCrash
  <2>5. DataOK'
    BY <2>3, <2>4 DEF DataOK, Forget, Status, Final, Goal, Operation, runvars, funds, transient
  <2>6. x \notin {"enqueue", "phase"}
    BY DEF Raised
  <2>7. RouteInv'
    BY <2>1, <2>3, <2>4, <2>6 DEF RouteInv, DataOK, Forget, Goto, PcOK, Agents, runvars
  <2>8. QED
    BY <2>2, <2>5, <2>7
<1>8. CASE DeleteUser
  <2>1. /\ UNCHANGED <<runvars, claims, frozen, charged, returned, transient, event, creator, agents>>
        /\ faults' \in 0..MaxFaults
    BY <1>8 DEF DeleteUser, Costs, DataOK
  <2>2. userGone' \in BOOLEAN
    BY <1>8, Zenon DEF DeleteUser
  <2>3. QED
    BY <2>1, <2>2 DEF PcOK, DataOK, RouteInv, runvars, transient, agents
<1>9. QED
  BY <1>1, <1>2, <1>3, <1>4, <1>5, <1>6, <1>7, <1>8

\* A run starts well typed.
LEMMA CreativeStarts == CInit => PcOK /\ DataOK /\ RouteInv
<1> SUFFICES ASSUME CInit PROVE PcOK /\ DataOK /\ RouteInv
  OBVIOUS
<1>1. PcOK
  BY DEF CInit, PcOK, WorkerStep, ReconcilerStep, Agents
<1>2. RouteInv
  BY DEF CInit, RouteInv, Agents
<1>3. /\ recorded \in BOOLEAN /\ dropped \in BOOLEAN /\ userGone \in BOOLEAN
      /\ payload \in BOOLEAN /\ output \in BOOLEAN
  BY Zenon DEF CInit
<1>4. DataOK
  BY <1>3, CreativeAssumption DEF CInit, DataOK, Status, Phase, Operation, CreatorStep, Goal, Agents
<1>5. QED
  BY <1>1, <1>2, <1>4

\* Every variable keeps its type, for any number of workers, reconcilers,
\* attempts and faults: a reconciler writes a phase, an agent follows its own
\* labels, and a release leads to a terminal status.
THEOREM CTypes == CSpec => []CTypeOK
<1> DEFINE Inv == PcOK /\ DataOK /\ RouteInv
<1>1. CInit => Inv
  BY CreativeStarts
<1>2. Inv /\ [CNext]_cvars => Inv'
  BY ResultTypes, WorkerTypes, ReconcilerTypes, OtherTypes DEF CNext
<1>3. CInit => QTypeOK /\ InflightIsQueued
  BY QueueStarts
<1>4. QTypeOK /\ InflightIsQueued /\ [CNext]_cvars => QTypeOK' /\ InflightIsQueued'
  BY QueueSteps, QueueKept
<1>5. Inv /\ QTypeOK => CTypeOK
  BY DEF CTypeOK, PcOK, DataOK
<1>6. QED
  BY <1>1, <1>2, <1>3, <1>4, <1>5, PTL DEF CSpec

-----------------------------------------------------------------------------
(* The money of a run. *)

\* A run whose hold may be given back: no success is recorded, and none can
\* be recorded any more.
GivenUp == ~recorded /\ status \in {"release_pending", "failed", "result_lost"}

\* What an agent at step x has established and no later step of another agent
\* takes away.
GuardAt(x) ==
    /\ x = "rel_funds" => GivenUp
    /\ x \in {"settle_mark", "capture"} => recorded
    /\ x = "complete" => recorded /\ "capture" \in claims
GuardInv == \A a \in Agents : GuardAt(pc[a])

\* The status, the request ids and the money agree.
StatusInv ==
    /\ recorded => status \in {"provider_succeeded", "settlement_pending", "succeeded", "result_lost"}
    /\ status \in {"provider_succeeded", "settlement_pending", "succeeded"} => recorded
    /\ status = "succeeded" \/ (status = "result_lost" /\ recorded) => "capture" \in claims
ClaimsInv ==
    /\ "release" \in claims => GivenUp
    /\ "capture" \in claims => recorded /\ "hold" \in claims
AmountInv ==
    /\ charged = IF "capture" \in claims THEN 1 ELSE 0
    /\ returned \in {0, 1}
    /\ returned = 1 => "hold" \in claims /\ "release" \in claims
    /\ frozen = (IF "hold" \in claims THEN 1 ELSE 0) - charged - returned
MoneyInv == StatusInv /\ ClaimsInv /\ AmountInv

\* What never stops being true.
Lasting ==
    /\ GivenUp => GivenUp'
    /\ recorded => recorded'
    /\ claims \subseteq claims'

\* An agent that goes to a step whose guard holds keeps every guard.
LEMMA GuardKept ==
  ASSUME PcOK, GuardInv, Lasting, NEW a \in Agents, NEW x, Goto(a, x), GuardAt(x)'
  PROVE  GuardInv'
<1>1. SUFFICES ASSUME NEW b \in Agents PROVE GuardAt(pc[b])'
  BY DEF GuardInv
<1>2. CASE b = a
  BY <1>2 DEF Goto, PcOK
<1>3. CASE b # a
  <2>1. pc'[b] = pc[b] /\ GuardAt(pc[b])
    BY <1>3 DEF Goto, PcOK, GuardInv
  <2>2. QED
    BY <2>1 DEF GuardAt, Lasting
<1>4. QED
  BY <1>2, <1>3

\* A step that moves no agent keeps every guard.
LEMMA GuardUnmoved ==
  ASSUME GuardInv, Lasting, UNCHANGED pc
  PROVE  GuardInv'
BY DEF GuardInv, GuardAt, Lasting

\* A step that leaves status and money alone.
LEMMA MoneyUnmoved ==
  ASSUME MoneyInv, UNCHANGED <<status, recorded, funds>>
  PROVE  MoneyInv' /\ Lasting
BY DEF MoneyInv, StatusInv, ClaimsInv, AmountInv, Lasting, GivenUp, funds

\* The result operations keep the money in order.
LEMMA ResultMoney ==
  ASSUME PcOK, DataOK, RouteInv, MoneyInv, GuardInv, NEW a \in Agents, ResultStep(a)
  PROVE  MoneyInv' /\ GuardInv'
<1>1. CASE FailRead(a)
  <2>1. MoneyInv' /\ Lasting
    BY <1>1, MoneyUnmoved DEF FailRead, runvars
  <2>2. \E x : Goto(a, x) /\ GuardAt(x)'
    BY <1>1, <2>1 DEF FailRead, Step, At, Returned, Raised, runvars, funds, GuardInv, GuardAt,
       MoneyInv, StatusInv, GivenUp
  <2>3. QED
    BY <2>1, <2>2, GuardKept
<1>2. CASE LostRead(a)
  <2>1. MoneyInv' /\ Lasting
    BY <1>2, MoneyUnmoved DEF LostRead, runvars
  <2>2. \E x : Goto(a, x) /\ GuardAt(x)'
    BY <1>2, <2>1 DEF LostRead, Step, At, Returned, Raised, runvars, funds, GuardInv, GuardAt,
       MoneyInv, StatusInv, GivenUp
  <2>3. QED
    BY <2>1, <2>2, GuardKept
<1>3. CASE FailWrite(a)
  <2>1. MoneyInv' /\ Lasting
    BY <1>3 DEF FailWrite, Step, At, ToReleasePending, Target, runvars, funds, GuardInv, GuardAt,
       RouteInv, DataOK, IsTerminal, Final, CanTransition, StatusInv, ClaimsInv, AmountInv,
       MoneyInv, Lasting, GivenUp
  <2>2. \E x : Goto(a, x) /\ GuardAt(x)'
    BY <1>3, <2>1 DEF FailWrite, Step, At, ToReleasePending, Target, Returned, Raised, runvars,
       funds, GuardInv, GuardAt, MoneyInv, StatusInv, GivenUp
  <2>3. QED
    BY <2>1, <2>2, GuardKept
<1>4. CASE FailEnsure(a)
  <2>1. MoneyInv' /\ Lasting
    BY <1>4, MoneyUnmoved DEF FailEnsure, runvars
  <2>2. \E x : Goto(a, x) /\ GuardAt(x)'
    BY <1>4, <2>1 DEF FailEnsure, Step, At, Ensure, Returned, Raised, runvars, funds, GuardInv,
       GuardAt, MoneyInv, StatusInv, GivenUp
  <2>3. QED
    BY <2>1, <2>2, GuardKept
<1>5. CASE ReleaseRead(a)
  <2>1. MoneyInv' /\ Lasting
    BY <1>5, MoneyUnmoved DEF ReleaseRead, runvars
  <2>2. \E x : Goto(a, x) /\ GuardAt(x)'
    BY <1>5, <2>1 DEF ReleaseRead, Step, At, Returned, Raised, runvars, funds, GuardInv, GuardAt,
       MoneyInv, StatusInv, GivenUp
  <2>3. QED
    BY <2>1, <2>2, GuardKept
<1>6. CASE ReleaseFunds(a)
  <2>1. MoneyInv' /\ Lasting
    BY <1>6 DEF ReleaseFunds, Step, At, ReleaseFundsOnce, runvars, funds, GuardInv, GuardAt,
       RouteInv, DataOK, IsTerminal, Final, CanTransition, StatusInv, ClaimsInv, AmountInv,
       MoneyInv, Lasting, GivenUp
  <2>2. \E x : Goto(a, x) /\ GuardAt(x)'
    BY <1>6, <2>1 DEF ReleaseFunds, Step, At, ReleaseFundsOnce, Returned, Raised, runvars, funds,
       GuardInv, GuardAt, MoneyInv, StatusInv, GivenUp
  <2>3. QED
    BY <2>1, <2>2, GuardKept
<1>7. CASE ReleaseWrite(a)
  <2>1. MoneyInv' /\ Lasting
    BY <1>7 DEF ReleaseWrite, Step, At, SetStatus, runvars, funds, GuardInv, GuardAt, RouteInv,
       DataOK, IsTerminal, Final, CanTransition, StatusInv, ClaimsInv, AmountInv, MoneyInv, Lasting,
       GivenUp
  <2>2. \E x : Goto(a, x) /\ GuardAt(x)'
    BY <1>7, <2>1 DEF ReleaseWrite, Step, At, SetStatus, Returned, Raised, runvars, funds, GuardInv,
       GuardAt, MoneyInv, StatusInv, GivenUp
  <2>3. QED
    BY <2>1, <2>2, GuardKept
<1>8. CASE ReleaseDelete(a)
  <2>1. MoneyInv' /\ Lasting
    BY <1>8, MoneyUnmoved DEF ReleaseDelete, runvars
  <2>2. \E x : Goto(a, x) /\ GuardAt(x)'
    BY <1>8, <2>1 DEF ReleaseDelete, Step, At, Returned, Raised, runvars, funds, GuardInv, GuardAt,
       MoneyInv, StatusInv, GivenUp
  <2>3. QED
    BY <2>1, <2>2, GuardKept
<1>9. QED
  BY <1>1, <1>2, <1>3, <1>4, <1>5, <1>6, <1>7, <1>8 DEF ResultStep

\* The steps of a worker keep the money in order.
LEMMA WorkerMoney ==
  ASSUME PcOK, DataOK, RouteInv, MoneyInv, GuardInv, NEW w \in Workers,
         \/ WorkerStepOf(w) \/ ReserveJob(w) \/ StopRequeue(w) \/ NotAdmitted(w)
         \/ ExecuteError(w) \/ LoseLease(w)
  PROVE  MoneyInv' /\ GuardInv'
<1> w \in Agents
  BY DEF Agents
<1>1. CASE LockJob(w)
  <2>1. MoneyInv' /\ Lasting
    BY <1>1, MoneyUnmoved DEF LockJob, runvars
  <2>2. \E x : Goto(w, x) /\ GuardAt(x)'
    <3>1. Goto(w, "process") \/ Goto(w, "idle")
      BY <1>1 DEF LockJob
    <3>2. QED
      BY <3>1 DEF GuardAt
  <2>3. QED
    BY <2>1, <2>2, GuardKept
<1>2. CASE Process(w)
  <2>1. MoneyInv' /\ Lasting
    BY <1>2, MoneyUnmoved DEF Process, Decides, runvars
  <2>2. \E x : Goto(w, x) /\ GuardAt(x)'
    BY <1>2, <2>1 DEF Process, Decides, Step, At, runvars, funds, GuardInv, GuardAt, MoneyInv,
       StatusInv, GivenUp
  <2>3. QED
    BY <2>1, <2>2, GuardKept
<1>3. CASE LoadPayload(w)
  <2>1. MoneyInv' /\ Lasting
    BY <1>3, MoneyUnmoved DEF LoadPayload, runvars
  <2>2. \E x : Goto(w, x) /\ GuardAt(x)'
    BY <1>3, <2>1 DEF LoadPayload, Step, At, runvars, funds, GuardInv, GuardAt, MoneyInv, StatusInv,
       GivenUp
  <2>3. QED
    BY <2>1, <2>2, GuardKept
<1>4. CASE Admit(w)
  <2>1. MoneyInv' /\ Lasting
    BY <1>4, MoneyUnmoved DEF Admit, Decides, runvars
  <2>2. \E x : Goto(w, x) /\ GuardAt(x)'
    BY <1>4, <2>1 DEF Admit, Decides, Step, At, runvars, funds, GuardInv, GuardAt, MoneyInv,
       StatusInv, GivenUp
  <2>3. QED
    BY <2>1, <2>2, GuardKept
<1>5. CASE RunningRead(w)
  <2>1. MoneyInv' /\ Lasting
    BY <1>5, MoneyUnmoved DEF RunningRead, runvars
  <2>2. \E x : Goto(w, x) /\ GuardAt(x)'
    BY <1>5, <2>1 DEF RunningRead, Step, At, runvars, funds, GuardInv, GuardAt, MoneyInv, StatusInv,
       GivenUp
  <2>3. QED
    BY <2>1, <2>2, GuardKept
<1>6. CASE MarkRunning(w)
  <2>1. MoneyInv' /\ Lasting
    BY <1>6 DEF MarkRunning, Step, At, SetStatus, runvars, funds, GuardInv, GuardAt, RouteInv,
       DataOK, IsTerminal, Final, CanTransition, StatusInv, ClaimsInv, AmountInv, MoneyInv, Lasting,
       GivenUp
  <2>2. \E x : Goto(w, x) /\ GuardAt(x)'
    BY <1>6, <2>1 DEF MarkRunning, Step, At, SetStatus, runvars, funds, GuardInv, GuardAt, MoneyInv,
       StatusInv, GivenUp
  <2>3. QED
    BY <2>1, <2>2, GuardKept
<1>7. CASE Recheck(w)
  <2>1. MoneyInv' /\ Lasting
    BY <1>7, MoneyUnmoved DEF Recheck, Decides, runvars
  <2>2. \E x : Goto(w, x) /\ GuardAt(x)'
    BY <1>7, <2>1 DEF Recheck, Decides, Step, At, runvars, funds, GuardInv, GuardAt, MoneyInv,
       StatusInv, GivenUp
  <2>3. QED
    BY <2>1, <2>2, GuardKept
<1>9. CASE SucceedRead(w)
  <2>1. MoneyInv' /\ Lasting
    BY <1>9, MoneyUnmoved DEF SucceedRead, runvars
  <2>2. \E x : Goto(w, x) /\ GuardAt(x)'
    BY <1>9, <2>1 DEF SucceedRead, Step, At, runvars, funds, GuardInv, GuardAt, MoneyInv, StatusInv,
       GivenUp
  <2>3. QED
    BY <2>1, <2>2, GuardKept
<1>10. CASE RecordProviderOutcome(w)
  <2>1. MoneyInv' /\ Lasting
    BY <1>10 DEF RecordProviderOutcome, Step, At, Ensure, runvars, funds, GuardInv, GuardAt,
       RouteInv, DataOK, IsTerminal, Final, CanTransition, StatusInv, ClaimsInv, AmountInv,
       MoneyInv, Lasting, GivenUp
  <2>2. \E x : Goto(w, x) /\ GuardAt(x)'
    BY <1>10, <2>1 DEF RecordProviderOutcome, Step, At, Ensure, runvars, funds, GuardInv, GuardAt,
       MoneyInv, StatusInv, GivenUp
  <2>3. QED
    BY <2>1, <2>2, GuardKept
<1>11. CASE SaveOutput(w)
  <2>1. MoneyInv' /\ Lasting
    BY <1>11, MoneyUnmoved DEF SaveOutput, runvars
  <2>2. \E x : Goto(w, x) /\ GuardAt(x)'
    BY <1>11, <2>1 DEF SaveOutput, Step, At, Costs, runvars, funds, GuardInv, GuardAt, MoneyInv,
       StatusInv, GivenUp
  <2>3. QED
    BY <2>1, <2>2, GuardKept
<1>12. CASE SettleRead(w)
  <2>1. MoneyInv' /\ Lasting
    BY <1>12, MoneyUnmoved DEF SettleRead, Decides, runvars
  <2>2. \E x : Goto(w, x) /\ GuardAt(x)'
    BY <1>12, <2>1 DEF SettleRead, Decides, Step, At, runvars, funds, GuardInv, GuardAt, MoneyInv,
       StatusInv, GivenUp
  <2>3. QED
    BY <2>1, <2>2, GuardKept
<1>13. CASE SettleMark(w)
  <2>1. MoneyInv' /\ Lasting
    BY <1>13 DEF SettleMark, Step, At, SetStatus, runvars, funds, GuardInv, GuardAt, RouteInv,
       DataOK, IsTerminal, Final, CanTransition, StatusInv, ClaimsInv, AmountInv, MoneyInv, Lasting,
       GivenUp
  <2>2. \E x : Goto(w, x) /\ GuardAt(x)'
    BY <1>13, <2>1 DEF SettleMark, Step, At, SetStatus, runvars, funds, GuardInv, GuardAt, MoneyInv,
       StatusInv, GivenUp
  <2>3. QED
    BY <2>1, <2>2, GuardKept
<1>14. CASE Capture(w)
  <2>1. MoneyInv' /\ Lasting
    BY <1>14 DEF Capture, Step, At, CaptureFunds, runvars, funds, GuardInv, GuardAt, RouteInv,
       DataOK, IsTerminal, Final, CanTransition, StatusInv, ClaimsInv, AmountInv, MoneyInv, Lasting,
       GivenUp
  <2>2. \E x : Goto(w, x) /\ GuardAt(x)'
    BY <1>14, <2>1 DEF Capture, Step, At, CaptureFunds, runvars, funds, GuardInv, GuardAt, MoneyInv,
       StatusInv, GivenUp
  <2>3. QED
    BY <2>1, <2>2, GuardKept
<1>15. CASE CompleteProviderOutcome(w)
  <2>1. MoneyInv' /\ Lasting
    BY <1>15 DEF CompleteProviderOutcome, Step, At, SetStatus, Outcome, runvars, funds, GuardInv,
       GuardAt, RouteInv, DataOK, IsTerminal, Final, CanTransition, StatusInv, ClaimsInv, AmountInv,
       MoneyInv, Lasting, GivenUp
  <2>2. \E x : Goto(w, x) /\ GuardAt(x)'
    BY <1>15, <2>1 DEF CompleteProviderOutcome, Step, At, SetStatus, Outcome, runvars, funds,
       GuardInv, GuardAt, MoneyInv, StatusInv, GivenUp
  <2>3. QED
    BY <2>1, <2>2, GuardKept
<1>16. CASE FinishAck(w)
  <2>1. MoneyInv' /\ Lasting
    BY <1>16, MoneyUnmoved DEF FinishAck, runvars
  <2>2. \E x : Goto(w, x) /\ GuardAt(x)'
    BY <1>16, <2>1 DEF FinishAck, Step, At, runvars, funds, GuardInv, GuardAt, MoneyInv, StatusInv,
       GivenUp
  <2>3. QED
    BY <2>1, <2>2, GuardKept
<1>17. CASE FinishRequeue(w)
  <2>1. MoneyInv' /\ Lasting
    BY <1>17, MoneyUnmoved DEF FinishRequeue, runvars
  <2>2. \E x : Goto(w, x) /\ GuardAt(x)'
    BY <1>17, <2>1 DEF FinishRequeue, Step, At, runvars, funds, GuardInv, GuardAt, MoneyInv,
       StatusInv, GivenUp
  <2>3. QED
    BY <2>1, <2>2, GuardKept
<1>18. CASE Unlock(w)
  <2>1. MoneyInv' /\ Lasting
    BY <1>18, MoneyUnmoved DEF Unlock, Forget, runvars
  <2>2. \E x : Goto(w, x) /\ GuardAt(x)'
    BY <1>18, <2>1 DEF Unlock, Forget, Step, At, runvars, funds, GuardInv, GuardAt, MoneyInv, StatusInv,
       GivenUp
  <2>3. QED
    BY <2>1, <2>2, GuardKept
<1>19. CASE ReserveJob(w)
  <2>1. MoneyInv' /\ Lasting
    BY <1>19, MoneyUnmoved DEF ReserveJob, runvars
  <2>2. \E x : Goto(w, x) /\ GuardAt(x)'
    BY <1>19, <2>1 DEF ReserveJob, Step, At, runvars, funds, GuardInv, GuardAt, MoneyInv, StatusInv,
       GivenUp
  <2>3. QED
    BY <2>1, <2>2, GuardKept
<1>20. CASE StopRequeue(w)
  <2>1. MoneyInv' /\ Lasting
    BY <1>20, MoneyUnmoved DEF StopRequeue, runvars
  <2>2. \E x : Goto(w, x) /\ GuardAt(x)'
    BY <1>20, <2>1 DEF StopRequeue, Step, At, Costs, runvars, funds, GuardInv, GuardAt, MoneyInv,
       StatusInv, GivenUp
  <2>3. QED
    BY <2>1, <2>2, GuardKept
<1>21. CASE NotAdmitted(w)
  <2>1. MoneyInv' /\ Lasting
    BY <1>21, MoneyUnmoved DEF NotAdmitted, runvars
  <2>2. \E x : Goto(w, x) /\ GuardAt(x)'
    BY <1>21, <2>1 DEF NotAdmitted, Step, At, Costs, runvars, funds, GuardInv, GuardAt, MoneyInv,
       StatusInv, GivenUp
  <2>3. QED
    BY <2>1, <2>2, GuardKept
<1>22. CASE UserMissing(w)
  <2>1. MoneyInv' /\ Lasting
    BY <1>22, MoneyUnmoved DEF UserMissing, runvars
  <2>2. \E x : Goto(w, x) /\ GuardAt(x)'
    BY <1>22, <2>1 DEF UserMissing, Step, At, runvars, funds, GuardInv, GuardAt, MoneyInv,
       StatusInv, GivenUp
  <2>3. QED
    BY <2>1, <2>2, GuardKept
<1>23. CASE ExecuteError(w)
  <2>1. MoneyInv' /\ Lasting
    BY <1>23, MoneyUnmoved DEF ExecuteError, runvars
  <2>2. \E x : Goto(w, x) /\ GuardAt(x)'
    BY <1>23, <2>1 DEF ExecuteError, Step, At, runvars, funds, GuardInv, GuardAt, MoneyInv,
       StatusInv, GivenUp
  <2>3. QED
    BY <2>1, <2>2, GuardKept
<1>24. CASE LoseLease(w)
  <2>1. MoneyInv' /\ Lasting
    BY <1>24, MoneyUnmoved DEF LoseLease, runvars
  <2>2. \E x : Goto(w, x) /\ GuardAt(x)'
    BY <1>24, <2>1 DEF LoseLease, Step, At, Costs, runvars, funds, GuardInv, GuardAt, MoneyInv,
       StatusInv, GivenUp
  <2>3. QED
    BY <2>1, <2>2, GuardKept
<1>25. QED
  BY <1>1, <1>2, <1>3, <1>4, <1>5, <1>6, <1>7, <1>9, <1>10, <1>11, <1>12, <1>13, <1>14, <1>15,
     <1>16, <1>17, <1>18, <1>19, <1>20, <1>21, <1>22, <1>23, <1>24 DEF WorkerStepOf

\* The steps of a reconciler keep the money in order.
LEMMA ReconcilerMoney ==
  ASSUME PcOK, DataOK, RouteInv, MoneyInv, GuardInv, NEW r \in Reconcilers,
         (\E o \in Operation : ClaimEvent(r, o)) \/ ReconcilerStepOf(r)
  PROVE  MoneyInv' /\ GuardInv'
<1> r \in Agents
  BY DEF Agents
<1>1. CASE ReadEvent(r)
  <2>1. MoneyInv' /\ Lasting
    BY <1>1, MoneyUnmoved DEF ReadEvent, runvars
  <2>2. \E x : Goto(r, x) /\ GuardAt(x)'
    BY <1>1, <2>1 DEF ReadEvent, Step, At, runvars, funds, GuardInv, GuardAt, MoneyInv, StatusInv,
       GivenUp
  <2>3. QED
    BY <2>1, <2>2, GuardKept
<1>2. CASE ReconcileLoad(r)
  <2>1. MoneyInv' /\ Lasting
    BY <1>2, MoneyUnmoved DEF ReconcileLoad, runvars
  <2>2. \E x : Goto(r, x) /\ GuardAt(x)'
    BY <1>2, <2>1 DEF ReconcileLoad, Step, At, Costs, runvars, funds, GuardInv, GuardAt, MoneyInv,
       StatusInv, GivenUp
  <2>3. QED
    BY <2>1, <2>2, GuardKept
<1>3. CASE ReconcileEnqueue(r)
  <2>1. MoneyInv' /\ Lasting
    BY <1>3, MoneyUnmoved DEF ReconcileEnqueue, runvars
  <2>2. \E x : Goto(r, x) /\ GuardAt(x)'
    BY <1>3, <2>1 DEF ReconcileEnqueue, Step, At, runvars, funds, GuardInv, GuardAt, MoneyInv,
       StatusInv, GivenUp
  <2>3. QED
    BY <2>1, <2>2, GuardKept
<1>4. CASE ReconcilePhase(r)
  <2>1. MoneyInv' /\ Lasting
    BY <1>4, MoneyUnmoved DEF ReconcilePhase, SetPhase
  <2>2. \E x : Goto(r, x) /\ GuardAt(x)'
    BY <1>4, <2>1 DEF ReconcilePhase, Step, At, SetPhase, runvars, funds, GuardInv, GuardAt,
       MoneyInv, StatusInv, GivenUp
  <2>3. QED
    BY <2>1, <2>2, GuardKept
<1>5. CASE EndEvent(r)
  <2>1. MoneyInv' /\ Lasting
    BY <1>5, MoneyUnmoved DEF EndEvent, Forget, runvars
  <2>2. \E x : Goto(r, x) /\ GuardAt(x)'
    BY <1>5, <2>1 DEF EndEvent, Forget, Step, At, runvars, funds, GuardInv, GuardAt, MoneyInv, StatusInv,
       GivenUp
  <2>3. QED
    BY <2>1, <2>2, GuardKept
<1>6. ASSUME NEW o \in Operation, ClaimEvent(r, o) PROVE MoneyInv' /\ GuardInv'
  <2>1. MoneyInv' /\ Lasting
    BY <1>6, MoneyUnmoved DEF ClaimEvent, runvars
  <2>2. \E x : Goto(r, x) /\ GuardAt(x)'
    BY <1>6 DEF ClaimEvent, Step, GuardAt
  <2>3. QED
    BY <2>1, <2>2, GuardKept
<1>7. QED
  BY <1>1, <1>2, <1>3, <1>4, <1>5, <1>6 DEF ReconcilerStepOf

\* Creation, faults and the passing of time keep the money in order.
LEMMA OtherMoney ==
  ASSUME PcOK, DataOK, RouteInv, MoneyInv, GuardInv,
         \/ CreateNext \/ CreateFails \/ MoveDelayed \/ RecoverStale \/ ExpireLock
         \/ ExpireTransient \/ MarkRunResultLost \/ DeleteUser \/ UNCHANGED cvars
         \/ \E a \in Agents : CallFails(a) \/ AgentCrash(a)
  PROVE  MoneyInv' /\ GuardInv'
<1>1. CASE CreateNext
  <2>1. MoneyInv' /\ Lasting
    <3>1. CASE CreateReserve
      <4>1. UNCHANGED <<status, recorded>> /\ (ReserveFunds \/ UNCHANGED funds)
        BY <3>1 DEF CreateReserve, runvars
      <4>2. CASE ReserveFunds
        <5>1. claims' = claims \cup {"hold"} /\ UNCHANGED <<charged, returned>>
          BY <4>2 DEF ReserveFunds
        <5>2. /\ "hold" \in claims'
              /\ "capture" \in claims' <=> "capture" \in claims
              /\ "release" \in claims' <=> "release" \in claims
          BY <5>1
        <5>3. StatusInv' /\ ClaimsInv' /\ Lasting
          BY <4>1, <5>1, <5>2 DEF MoneyInv, StatusInv, ClaimsInv, Lasting, GivenUp
        <5>4. frozen' = 1 - charged - returned
          BY <4>2 DEF ReserveFunds, MoneyInv, AmountInv
        <5>5. AmountInv'
          BY <5>1, <5>2, <5>4 DEF MoneyInv, AmountInv
        <5>6. QED
          BY <5>3, <5>5 DEF MoneyInv
      <4>3. QED
        BY <4>1, <4>2, MoneyUnmoved
    <3>2. CASE CreateAbort
      <4>1. /\ UNCHANGED <<recorded, funds>>
            /\ \/ status' = status
               \/ status \in {"queued", "running"} /\ status' = "release_pending"
        BY <3>2 DEF CreateAbort, CanTransition, IsTerminal, Final, ToReleasePending, runvars
      <4>2. QED
        BY <4>1, MoneyUnmoved DEF MoneyInv, StatusInv, ClaimsInv, AmountInv, Lasting, GivenUp, funds
    <3>3. CASE \/ CreateEnsure \/ CreateSave \/ CreateEnqueue \/ CreateAbortEnsure
               \/ \E f, p, t : CreatePhase(f, p, t)
      BY <3>3, MoneyUnmoved DEF CreateEnsure, CreateSave, CreateEnqueue, CreateAbortEnsure, CreatePhase,
         SetPhase, runvars
    <3>4. QED
      BY <1>1, <3>1, <3>2, <3>3 DEF CreateNext
  <2>2. UNCHANGED pc
    BY <1>1 DEF CreateNext, CreateEnsure, CreateReserve, CreatePhase, CreateSave, CreateEnqueue,
       CreateAbort, CreateAbortEnsure, agents
  <2>3. QED
    BY <2>1, <2>2, GuardUnmoved
<1>2. CASE CreateFails \/ MoveDelayed \/ RecoverStale \/ ExpireLock \/ ExpireTransient \/ UNCHANGED cvars
  <2>1. UNCHANGED <<status, recorded, funds, pc>>
    BY <1>2 DEF CreateFails, MoveDelayed, RecoverStale, ExpireLock, ExpireTransient, cvars, runvars,
       agents
  <2>2. QED
    BY <2>1, MoneyUnmoved, GuardUnmoved
<1>3. CASE MarkRunResultLost
  <2>1. UNCHANGED pc /\ UNCHANGED <<recorded, funds>> /\ status = "succeeded" /\ status' = "result_lost"
    BY <1>3 DEF MarkRunResultLost, SetStatus, agents
  <2>2. MoneyInv' /\ Lasting
    BY <2>1 DEF MoneyInv, StatusInv, ClaimsInv, AmountInv, Lasting, GivenUp, funds
  <2>3. QED
    BY <2>1, <2>2, GuardUnmoved
<1>4. ASSUME NEW a \in Agents, CallFails(a) \/ AgentCrash(a) PROVE MoneyInv' /\ GuardInv'
  <2>1. MoneyInv' /\ Lasting
    BY <1>4, MoneyUnmoved DEF CallFails, AgentCrash, runvars
  <2>2. \E x : Goto(a, x) /\ GuardAt(x)'
    BY <1>4 DEF CallFails, AgentCrash, Raised, GuardAt
  <2>3. QED
    BY <2>1, <2>2, GuardKept
<1>5. CASE DeleteUser
  <2>1. UNCHANGED <<status, recorded, claims, frozen, charged, returned, pc>>
    BY <1>5 DEF DeleteUser, runvars, agents
  <2>2. MoneyInv' /\ Lasting
    BY <2>1 DEF MoneyInv, StatusInv, ClaimsInv, AmountInv, Lasting, GivenUp
  <2>3. QED
    BY <2>1, <2>2, GuardUnmoved
<1>6. QED
  BY <1>1, <1>2, <1>3, <1>4, <1>5

\* The whole inductive invariant.
CInv == PcOK /\ DataOK /\ RouteInv /\ MoneyInv /\ GuardInv

\* It is inductive, so it always holds.
LEMMA CreativeInductive == CSpec => []CInv
<1>1. CInit => CInv
  <2> SUFFICES ASSUME CInit PROVE CInv
    OBVIOUS
  <2>1. PcOK /\ DataOK /\ RouteInv
    BY CreativeStarts
  <2>2. GuardInv
    BY DEF CInit, GuardInv, GuardAt
  <2>3. MoneyInv
    BY DEF CInit, MoneyInv, StatusInv, ClaimsInv, AmountInv
  <2>4. QED
    BY <2>1, <2>2, <2>3 DEF CInv
<1>2. CInv /\ [CNext]_cvars => CInv'
  <2> SUFFICES ASSUME CInv, [CNext]_cvars PROVE CInv'
    OBVIOUS
  <2>1. PcOK' /\ DataOK' /\ RouteInv'
    BY ResultTypes, WorkerTypes, ReconcilerTypes, OtherTypes DEF CNext, CInv
  <2>2. MoneyInv' /\ GuardInv'
    BY ResultMoney, WorkerMoney, ReconcilerMoney, OtherMoney DEF CNext, CInv
  <2>3. QED
    BY <2>1, <2>2 DEF CInv
<1>3. QED
  BY <1>1, <1>2, PTL DEF CSpec

\* The hold of a run is captured or given back, never both and never twice,
\* with any number of workers and reconcilers at work on it and any number of
\* crashes, failing calls and lost leases.
THEOREM HoldIsMovedOnce == CSpec => []HoldMovesOnce
<1>1. CInv => HoldMovesOnce
  <2> SUFFICES ASSUME CInv PROVE HoldMovesOnce
    OBVIOUS
  <2>1. ~("capture" \in claims /\ "release" \in claims)
    BY DEF CInv, MoneyInv, ClaimsInv, GivenUp
  <2>2. "capture" \in claims => "hold" \in claims
    BY DEF CInv, MoneyInv, ClaimsInv
  <2>3. QED
    BY <2>1, <2>2 DEF CInv, MoneyInv, AmountInv, HoldMovesOnce
<1>2. QED
  BY <1>1, CreativeInductive, PTL

\* A succeeded run was charged, a failed one was not, and a lost result is
\* charged exactly if the provider's success was recorded.
THEOREM BillAgrees == CSpec => []BillMatchesStatus
<1>1. CInv => BillMatchesStatus
  BY DEF CInv, MoneyInv, StatusInv, ClaimsInv, AmountInv, BillMatchesStatus
<1>2. QED
  BY <1>1, CreativeInductive, PTL

-----------------------------------------------------------------------------
(* Open runs. *)

\* The job is in the queue; it needs no queue any more, or was dropped from
\* it; the run is given up or has ended.
Queued == ready > 0 \/ delayed \/ active
InHand == IsTerminal(status) \/ Queued \/ dropped
GivenBack == status = "release_pending" \/ IsTerminal(status)

\* A worker works on a job of the queue.  It comes to its acknowledgement by
\* the end of the run, by a failure that was refused or by a missing user.
WorkerReach(w) ==
    /\ pc[w] # "idle" => InHand
    /\ pc[w] = "ack" => IsTerminal(status) \/ goal[w] \in {"failed", "user_missing"}
    /\ pc[w] = "rel_delete" => IsTerminal(status)
    /\ pc[w] \in {"rel_funds", "rel_write"} => GivenBack
    /\ pc[w] \in {"fail_ensure", "rel_read"} => GivenBack \/ goal[w] = "failed"
    /\ pc[w] = "save" => recorded
    /\ pc[w] = "settle_read" => recorded \/ IsTerminal(status)

\* A reconciler completes an event only when the run has ended or is queued.
ReconcilerReach(r) ==
    /\ pc[r] \in {"phase", "finish"} => InHand
    /\ pc[r] = "rel_delete" => IsTerminal(status)
    /\ pc[r] \in {"rel_funds", "rel_write"} => GivenBack
    /\ pc[r] \in {"fail_ensure", "rel_read"} => status # "queued"
    /\ pc[r] = "fail_write" /\ status = "queued" => seen[r] = "queued"

\* A completed event has done its work, a recorded success has its event, a
\* run that a worker has started is in the queue.
EventInv ==
    /\ event["provision"] # "none"
    /\ recorded => event["settle"] # "none"
    /\ \A o \in Operation : event[o] = "done" => InHand
StartedInv == status \in {"queued", "release_pending"} \/ InHand

ReachInv ==
    /\ \A w \in Workers : WorkerReach(w)
    /\ \A r \in Reconcilers : ReconcilerReach(r)
    /\ EventInv
    /\ StartedInv

\* What a step never takes back.
Forward ==
    /\ IsTerminal(status) => IsTerminal(status)'
    /\ GivenBack => GivenBack'
    /\ status # "queued" => status' # "queued"
    /\ recorded => recorded'
    /\ dropped => dropped'

\* What every step but a worker's own does to the status.
Slides == status' = status \/ GivenBack'

\* The local variables of the other agents stay as they are.
LocalTo(a) ==
    \A b \in Agents : b # a => pc'[b] = pc[b] /\ seen'[b] = seen[b] /\ goal'[b] = goal[b]

\* An operation of the queue other than Ack keeps the job.
LEMMA QueueOpKeeps ==
  ASSUME QTypeOK, Queued,
         \/ Enqueue \/ MoveDueDelayedToReady \/ RecoverStaleActive \/ ExpireJobLock \/ UNCHANGED qvars
         \/ \E w \in Workers :
               \/ Reserve(w) \/ RequeueAfter(w, TRUE) \/ RequeueAfter(w, FALSE) \/ TryAcquireJobLock(w)
               \/ joblock' = WithoutLock(w) /\ UNCHANGED <<ready, delayed, active, inflight>>
  PROVE  Queued'
<1>1. CASE Enqueue
  <2>1. CASE UNCHANGED qvars
    BY <2>1 DEF qvars, Queued
  <2>2. CASE ready' = ready + 1
    BY <2>2 DEF QTypeOK, Queued
  <2>3. QED
    BY <1>1, <2>1, <2>2 DEF Enqueue
<1>2. CASE MoveDueDelayedToReady \/ RecoverStaleActive
  <2>1. ready' = ready + 1
    BY <1>2 DEF MoveDueDelayedToReady, RecoverStaleActive
  <2>2. QED
    BY <2>1 DEF QTypeOK, Queued
<1>3. CASE ExpireJobLock
  BY <1>3 DEF ExpireJobLock, Queued
<1>4. CASE UNCHANGED qvars
  BY <1>4 DEF qvars, Queued
<1>5. ASSUME NEW w \in Workers, Reserve(w) PROVE Queued'
  BY <1>5 DEF Reserve, Queued
<1>6. ASSUME NEW w \in Workers, RequeueAfter(w, TRUE) PROVE Queued'
  BY <1>6 DEF RequeueAfter, qvars, Queued
<1>7. ASSUME NEW w \in Workers, RequeueAfter(w, FALSE) PROVE Queued'
  <2>1. CASE UNCHANGED qvars
    BY <2>1 DEF qvars, Queued
  <2>2. CASE ready' = ready + 1
    BY <2>2 DEF QTypeOK, Queued
  <2>3. QED
    BY <1>7, <2>1, <2>2 DEF RequeueAfter
<1>8. ASSUME NEW w \in Workers,
             \/ TryAcquireJobLock(w)
             \/ joblock' = WithoutLock(w) /\ UNCHANGED <<ready, delayed, active, inflight>>
      PROVE  Queued'
  BY <1>8 DEF TryAcquireJobLock, Queued
<1>9. QED
  BY <1>1, <1>2, <1>3, <1>4, <1>5, <1>6, <1>7, <1>8

\* Only an acknowledgement takes the job out of the queue.
LEMMA JobKept ==
  ASSUME QTypeOK, Queued, [CNext]_cvars
  PROVE  Queued' \/ \E w \in Workers : FinishAck(w)
<1>1. CASE CreateNext
  BY <1>1, QueueOpKeeps DEF CreateNext, CreateEnsure, CreateReserve, CreatePhase, CreateSave,
     CreateEnqueue, CreateAbort, CreateAbortEnsure
<1>2. CASE CreateFails \/ ExpireTransient \/ DeleteUser \/ MarkRunResultLost \/ UNCHANGED cvars
  <2>1. UNCHANGED qvars
    BY <1>2 DEF CreateFails, ExpireTransient, DeleteUser, MarkRunResultLost, cvars
  <2>2. QED
    BY <2>1, QueueOpKeeps
<1>3. ASSUME NEW a \in Agents, ResultStep(a) \/ CallFails(a) \/ AgentCrash(a) PROVE Queued'
  <2>1. UNCHANGED qvars
    BY <1>3 DEF ResultStep, FailRead, LostRead, FailWrite, FailEnsure, ReleaseRead, ReleaseFunds,
       ReleaseWrite, ReleaseDelete, CallFails, AgentCrash
  <2>2. QED
    BY <2>1, QueueOpKeeps
<1>4. ASSUME NEW w \in Workers, WorkerStepOf(w), ~FinishAck(w) PROVE Queued'
  <2>1. CASE LockJob(w)
    BY <2>1, QueueOpKeeps DEF LockJob
  <2>2. CASE FinishRequeue(w)
    BY <2>2, QueueOpKeeps DEF FinishRequeue
  <2>3. CASE Unlock(w)
    BY <2>3, QueueOpKeeps DEF Unlock
  <2>4. CASE ~(LockJob(w) \/ FinishRequeue(w) \/ Unlock(w))
    <3>1. UNCHANGED qvars
      BY <1>4, <2>4 DEF WorkerStepOf, Process, LoadPayload, Admit, UserMissing, RunningRead, MarkRunning, Recheck,
         SucceedRead, RecordProviderOutcome, SaveOutput, SettleRead, SettleMark, Capture,
         CompleteProviderOutcome, Decides
    <3>2. QED
      BY <3>1, QueueOpKeeps
  <2>5. QED
    BY <2>1, <2>2, <2>3, <2>4
<1>5. ASSUME NEW w \in Workers,
             \/ ReserveJob(w) \/ StopRequeue(w) \/ NotAdmitted(w) \/ ExecuteError(w) \/ LoseLease(w)
      PROVE  Queued'
  BY <1>5, QueueOpKeeps DEF ReserveJob, StopRequeue, NotAdmitted, ExecuteError, LoseLease
<1>6. ASSUME NEW r \in Reconcilers, (\E o \in Operation : ClaimEvent(r, o)) \/ ReconcilerStepOf(r)
      PROVE  Queued'
  BY <1>6, QueueOpKeeps DEF ClaimEvent, ReconcilerStepOf, ReadEvent, ReconcileLoad, ReconcileEnqueue,
     ReconcilePhase, EndEvent
<1>7. CASE MoveDelayed \/ RecoverStale \/ ExpireLock
  BY <1>7, QueueOpKeeps DEF MoveDelayed, RecoverStale, ExpireLock
<1>8. QED
  BY <1>1, <1>2, <1>3, <1>4, <1>5, <1>6, <1>7 DEF CNext

\* A job that is acknowledged has ended or is dropped.
LEMMA InHandKept ==
  ASSUME QTypeOK, Forward, [CNext]_cvars
  PROVE  InHand => InHand'
<1>1. ASSUME Queued, NEW w \in Workers, FinishAck(w) PROVE InHand'
  <2>1. CASE Leased(w)
    <3>1. status' = status /\ (IsTerminal(status) \/ dropped')
      BY <1>1, <2>1 DEF FinishAck
    <3>2. QED
      BY <3>1 DEF InHand, IsTerminal
  <2>2. CASE ~Leased(w)
    BY <1>1, <2>2 DEF FinishAck, Ack, InHand, Queued, qvars
  <2>3. QED
    BY <2>1, <2>2
<1>2. QED
  BY <1>1, JobKept DEF InHand, Forward

\* Agents other than the one that moves keep what they know.
LEMMA OthersReach ==
  ASSUME ReachInv, Forward, InHand => InHand', NEW a, LocalTo(a)
  PROVE  /\ \A r \in Reconcilers : r # a => ReconcilerReach(r)'
         /\ \A w \in Workers : w # a => WorkerReach(w)'
<1>1. ASSUME NEW r \in Reconcilers, r # a PROVE ReconcilerReach(r)'
  <2>1. pc'[r] = pc[r] /\ seen'[r] = seen[r] /\ ReconcilerReach(r)
    BY <1>1 DEF LocalTo, Agents, ReachInv
  <2>2. QED
    BY <2>1 DEF ReconcilerReach, Forward
<1>2. ASSUME NEW w \in Workers, w # a PROVE WorkerReach(w)'
  <2>1. pc'[w] = pc[w] /\ goal'[w] = goal[w] /\ WorkerReach(w)
    BY <1>2 DEF LocalTo, Agents, ReachInv
  <2>2. QED
    BY <2>1 DEF WorkerReach, Forward
<1>3. QED
  BY <1>1, <1>2

\* The events and the status when a step completes no event.
LEMMA EventsKept ==
  ASSUME ReachInv, InHand => InHand', DataOK,
         recorded' = recorded \/ event'["settle"] # "none",
         \A o \in Operation : event'[o] = event[o] \/ event'[o] \notin {"none", "done"}
  PROVE  EventInv'
BY DEF ReachInv, EventInv, Operation

\* A run is started by a worker, which has its job from the queue.
LEMMA StartsKept ==
  ASSUME ReachInv, InHand => InHand', Slides \/ InHand
  PROVE  StartedInv'
<1>1. CASE InHand
  BY <1>1 DEF StartedInv
<1>2. CASE Slides
  BY <1>2 DEF Slides, GivenBack, ReachInv, StartedInv, InHand
<1>3. QED
  BY <1>1, <1>2

\* The status moves forward in the result operations.
LEMMA ResultSlides ==
  ASSUME DataOK, RouteInv, NEW a \in Agents, ResultStep(a)
  PROVE  Forward /\ Slides
<1> USE DEF Forward, Slides, GivenBack, IsTerminal, Final
<1>1. CASE FailWrite(a)
  BY <1>1 DEF FailWrite, CanTransition, ToReleasePending, runvars
<1>2. CASE ReleaseWrite(a)
  <2>1. status = "release_pending" => target \in {"failed", "result_lost"}
    BY DEF DataOK, RouteInv
  <2>2. QED
    BY <1>2, <2>1 DEF ReleaseWrite, SetStatus, runvars
<1>3. CASE ~(FailWrite(a) \/ ReleaseWrite(a))
  <2>1. UNCHANGED <<status, recorded, dropped>>
    BY <1>3 DEF ResultStep, FailRead, LostRead, FailEnsure, ReleaseRead, ReleaseFunds, ReleaseDelete,
       runvars
  <2>2. QED
    BY <2>1
<1>4. QED
  BY <1>1, <1>2, <1>3

\* The result operations, run by a worker or by a reconciler.
LEMMA ResultReach ==
  ASSUME QTypeOK, PcOK, DataOK, RouteInv, ReachInv, NEW a \in Agents, ResultStep(a)
  PROVE  ReachInv'
<1>1. Forward /\ Slides
  BY ResultSlides
<1>2. InHand => InHand'
  BY <1>1, InHandKept DEF CNext
<1>3. LocalTo(a)
  BY DEF ResultStep, FailRead, LostRead, FailWrite, FailEnsure, ReleaseRead, ReleaseFunds,
     ReleaseWrite, ReleaseDelete, Sees, Step, Goto, LocalTo, PcOK, DataOK
<1>4. EventInv'
  <2>1. event' = event \/ Ensure("release")
    BY DEF ResultStep, FailRead, LostRead, FailWrite, FailEnsure, ReleaseRead, ReleaseFunds,
       ReleaseWrite, ReleaseDelete
  <2>2. UNCHANGED recorded /\ (recorded => event["settle"] # "none")
    BY DEF ResultStep, FailRead, LostRead, FailWrite, FailEnsure, ReleaseRead, ReleaseFunds,
       ReleaseWrite, ReleaseDelete, SetStatus, ToReleasePending, runvars, ReachInv, EventInv
  <2>3. QED
    BY <1>2, <2>1, <2>2, EventsKept DEF Ensure, DataOK, Operation
<1>5. StartedInv'
  BY <1>1, <1>2, StartsKept
<1>6. ASSUME a \in Workers PROVE WorkerReach(a)'
  <2> USE DEF Step, At, Goto, Returned, Raised, Forward, GivenBack, IsTerminal, Final
  <2>1. WorkerReach(a) /\ a \notin Reconcilers /\ pc[a] \in WorkerStep
    BY <1>6, CreativeAssumption DEF ReachInv, PcOK
  <2>2. CASE FailRead(a)
    BY <1>1, <1>2, <1>6, <2>1, <2>2 DEF FailRead, WorkerReach, CanTransition, Target, runvars, PcOK,
       DataOK
  <2>3. CASE LostRead(a)
    BY <1>1, <1>2, <1>6, <2>1, <2>3 DEF LostRead, WorkerReach, CanTransition, Target, runvars, PcOK,
       DataOK
  <2>4. CASE FailWrite(a)
    <3>1. /\ pc[a] = "fail_write"
          /\ pc' = [pc EXCEPT ![a] = pc'[a]]
          /\ pc'[a] \in {"fail_ensure", "requeue"} \/ (pc'[a] = "ack" /\ goal[a] = "user_missing")
          /\ UNCHANGED goal
      BY <1>6, <2>1, <2>4 DEF FailWrite, WorkerReach, PcOK
    <3>2. pc'[a] = "fail_ensure" => GivenBack' \/ goal[a] = "failed"
      <4>1. CASE CanTransition(status, "release_pending") /\ ToReleasePending(Target(a))
        BY <4>1 DEF ToReleasePending
      <4>2. CASE Goto(a, IF goal[a] = "failed" THEN "fail_ensure" ELSE Raised(a))
        BY <1>6, <2>1, <4>2 DEF PcOK, Agents
      <4>3. QED
        BY <2>4, <4>1, <4>2 DEF FailWrite
    <3>3. QED
      BY <1>2, <2>1, <3>1, <3>2 DEF WorkerReach
  <2>5. CASE FailEnsure(a)
    BY <1>1, <1>2, <1>6, <2>1, <2>5 DEF FailEnsure, Ensure, WorkerReach, CanTransition, Target,
       runvars, PcOK, DataOK
  <2>6. CASE ReleaseRead(a)
    BY <1>1, <1>2, <1>6, <2>1, <2>6 DEF ReleaseRead, WorkerReach, CanTransition, Target, runvars,
       PcOK, DataOK
  <2>7. CASE ReleaseFunds(a)
    BY <1>1, <1>2, <1>6, <2>1, <2>7 DEF ReleaseFunds, WorkerReach, CanTransition, Target, runvars,
       PcOK, DataOK
  <2>8. CASE ReleaseWrite(a)
    BY <1>1, <1>2, <1>6, <2>1, <2>8 DEF ReleaseWrite, SetStatus, WorkerReach, CanTransition, Target,
       runvars, PcOK, DataOK
  <2>9. CASE ReleaseDelete(a)
    BY <1>1, <1>2, <1>6, <2>1, <2>9 DEF ReleaseDelete, WorkerReach, CanTransition, Target, runvars,
       PcOK, DataOK
  <2>10. QED
    BY <2>2, <2>3, <2>4, <2>5, <2>6, <2>7, <2>8, <2>9 DEF ResultStep
<1>7. ASSUME a \in Reconcilers PROVE ReconcilerReach(a)'
  <2> USE DEF Step, At, Goto, Returned, Raised, Forward, GivenBack, IsTerminal, Final
  <2>1. ReconcilerReach(a) /\ a \notin Workers /\ pc[a] \in ReconcilerStep
    BY <1>7, CreativeAssumption DEF ReachInv, PcOK
  <2>2. StartedInv /\ (IsTerminal(status) => InHand)
    BY DEF ReachInv, InHand
  <2>3. CASE FailRead(a)
    BY <1>1, <1>2, <1>7, <2>1, <2>2, <2>3 DEF FailRead, Sees, ReconcilerReach, StartedInv, CanTransition,
       runvars, PcOK, DataOK
  <2>4. CASE LostRead(a)
    BY <1>1, <1>2, <1>7, <2>1, <2>2, <2>4 DEF LostRead, Sees, ReconcilerReach, StartedInv, CanTransition,
       runvars, PcOK, DataOK
  <2>5. CASE FailWrite(a)
    BY <1>1, <1>2, <1>7, <2>1, <2>2, <2>5 DEF FailWrite, ToReleasePending, ReconcilerReach,
       StartedInv, CanTransition, runvars, PcOK, DataOK
  <2>6. CASE FailEnsure(a)
    BY <1>1, <1>2, <1>7, <2>1, <2>2, <2>6 DEF FailEnsure, Ensure, ReconcilerReach, StartedInv,
       CanTransition, runvars, PcOK, DataOK
  <2>7. CASE ReleaseRead(a)
    BY <1>1, <1>2, <1>7, <2>1, <2>2, <2>7 DEF ReleaseRead, ReconcilerReach, StartedInv,
       CanTransition, runvars, PcOK, DataOK
  <2>8. CASE ReleaseFunds(a)
    BY <1>1, <1>2, <1>7, <2>1, <2>2, <2>8 DEF ReleaseFunds, ReconcilerReach, StartedInv,
       CanTransition, runvars, PcOK, DataOK
  <2>9. CASE ReleaseWrite(a)
    BY <1>1, <1>2, <1>7, <2>1, <2>2, <2>9 DEF ReleaseWrite, SetStatus, ReconcilerReach, StartedInv,
       CanTransition, runvars, PcOK, DataOK
  <2>10. CASE ReleaseDelete(a)
    BY <1>1, <1>2, <1>7, <2>1, <2>2, <2>10 DEF ReleaseDelete, ReconcilerReach, StartedInv,
       CanTransition, runvars, PcOK, DataOK
  <2>11. QED
    BY <2>3, <2>4, <2>5, <2>6, <2>7, <2>8, <2>9, <2>10 DEF ResultStep
<1>8. QED
  BY <1>1, <1>2, <1>3, <1>4, <1>5, <1>6, <1>7, OthersReach DEF ReachInv

\* The steps of the worker.
LEMMA WorkerReachStep ==
  ASSUME QTypeOK, PcOK, DataOK, RouteInv, MoneyInv, GuardInv, ReachInv, NEW w \in Workers,
         \/ WorkerStepOf(w) \/ ReserveJob(w) \/ StopRequeue(w) \/ NotAdmitted(w)
         \/ ExecuteError(w) \/ LoseLease(w)
  PROVE  ReachInv'
<1> w \in Agents /\ w \notin Reconcilers
  BY CreativeAssumption DEF Agents
<1>1. Forward
  <2> USE DEF Forward, GivenBack, IsTerminal, Final
  <2>1. CASE MarkRunning(w)
    BY <2>1 DEF MarkRunning, SetStatus, runvars
  <2>2. CASE RecordProviderOutcome(w)
    BY <2>2 DEF RecordProviderOutcome, runvars
  <2>3. CASE SettleMark(w)
    BY <2>3 DEF SettleMark, SetStatus, runvars
  <2>4. CASE CompleteProviderOutcome(w)
    BY <2>4 DEF CompleteProviderOutcome, SetStatus, Outcome, runvars
  <2>5. CASE FinishAck(w)
    <3>1. UNCHANGED <<status, recorded>>
      BY <2>5 DEF FinishAck
    <3>2. dropped => dropped'
      BY <2>5, Zenon DEF FinishAck
    <3>3. QED
      BY <3>1, <3>2
  <2>6. CASE ~(\/ MarkRunning(w) \/ RecordProviderOutcome(w) \/ SettleMark(w)
              \/ CompleteProviderOutcome(w) \/ FinishAck(w))
    <3>1. UNCHANGED <<status, recorded, dropped>>
      BY <2>6 DEF WorkerStepOf, LockJob, Process, LoadPayload, Admit, RunningRead, Recheck,
         SucceedRead, SaveOutput, SettleRead, Capture, FinishRequeue, Unlock, ReserveJob,
         StopRequeue, NotAdmitted, UserMissing, ExecuteError, LoseLease, Decides, runvars
    <3>2. QED
      BY <3>1
  <2>7. QED
    BY <2>1, <2>2, <2>3, <2>4, <2>5, <2>6
<1>2. InHand => InHand'
  BY <1>1, InHandKept DEF CNext
<1>3. LocalTo(w)
  BY DEF WorkerStepOf, LockJob, Process, LoadPayload, Admit, RunningRead, MarkRunning, Recheck,
     SucceedRead, RecordProviderOutcome, SaveOutput, SettleRead, SettleMark, Capture,
     CompleteProviderOutcome, FinishAck, FinishRequeue, Unlock, ReserveJob, StopRequeue,
     NotAdmitted, UserMissing, ExecuteError, LoseLease, Decides, Step, Goto, Forget, Sees, LocalTo, PcOK,
     DataOK
<1>4. EventInv'
  <2>1. event' = event \/ Ensure("settle")
    BY DEF WorkerStepOf, LockJob, Process, LoadPayload, Admit, RunningRead, MarkRunning, Recheck,
       SucceedRead, RecordProviderOutcome, SaveOutput, SettleRead, SettleMark, Capture,
       CompleteProviderOutcome, FinishAck, FinishRequeue, Unlock, ReserveJob, StopRequeue,
       NotAdmitted, UserMissing, ExecuteError, LoseLease, Decides
  <2>2. recorded' = recorded \/ event'["settle"] # "none"
    <3>1. CASE RecordProviderOutcome(w)
      BY <3>1 DEF RecordProviderOutcome, Ensure, runvars, DataOK, Operation
    <3>2. CASE ~RecordProviderOutcome(w)
      BY <3>2 DEF WorkerStepOf, LockJob, Process, LoadPayload, Admit, RunningRead, MarkRunning, Recheck,
         SucceedRead, SaveOutput, SettleRead, SettleMark, Capture, CompleteProviderOutcome, FinishAck,
         FinishRequeue, Unlock, ReserveJob, StopRequeue, NotAdmitted, UserMissing, ExecuteError,
         LoseLease, Decides, SetStatus, runvars
    <3>3. QED
      BY <3>1, <3>2
  <2>3. QED
    BY <1>2, <2>1, <2>2, EventsKept DEF Ensure, DataOK
<1>5. WorkerReach(w) /\ pc[w] \in WorkerStep
  BY DEF ReachInv, PcOK
<1>6. pc[w] # "idle" => InHand
  BY <1>5 DEF WorkerReach
<1>7. StartedInv'
  <2>1. CASE ReserveJob(w)
    BY <1>2, <2>1, StartsKept DEF ReserveJob, runvars, Slides
  <2>2. CASE ~ReserveJob(w)
    <3>1. pc[w] # "idle"
      BY <2>2 DEF WorkerStepOf, LockJob, Process, LoadPayload, Admit, RunningRead, MarkRunning,
         Recheck, SucceedRead, RecordProviderOutcome, SaveOutput, SettleRead, SettleMark,
         Capture, CompleteProviderOutcome, FinishAck, FinishRequeue, Unlock, StopRequeue,
         NotAdmitted, UserMissing, ExecuteError, LoseLease, Decides, Step, At, WorkStep, FailStep
    <3>2. QED
      BY <1>2, <1>6, <3>1, StartsKept
  <2>3. QED
    BY <2>1, <2>2
<1>8. WorkerReach(w)'
  <2> USE DEF Step, At, Goto, Forward, GivenBack, IsTerminal, Final
  <2>1. /\ recorded => status \in {"provider_succeeded", "settlement_pending", "succeeded", "result_lost"}
        /\ status \in {"provider_succeeded", "settlement_pending", "succeeded"} => recorded
        /\ pc[w] = "complete" => recorded
    BY DEF MoneyInv, StatusInv, GuardInv, GuardAt
  <2>2. CASE LockJob(w)
    BY <1>1, <1>2, <1>5, <1>6, <2>1, <2>2 DEF LockJob, WorkerReach, runvars, PcOK, DataOK
  <2>3. CASE Process(w)
    BY <1>1, <1>2, <1>5, <1>6, <2>1, <2>3 DEF Process, Decides, WorkerReach, runvars, PcOK, DataOK
  <2>4. CASE LoadPayload(w)
    BY <1>1, <1>2, <1>5, <1>6, <2>1, <2>4 DEF LoadPayload, WorkerReach, runvars, PcOK, DataOK
  <2>5. CASE Admit(w)
    BY <1>1, <1>2, <1>5, <1>6, <2>1, <2>5 DEF Admit, Decides, WorkerReach, runvars, PcOK, DataOK
  <2>6. CASE RunningRead(w)
    BY <1>1, <1>2, <1>5, <1>6, <2>1, <2>6 DEF RunningRead, WorkerReach, runvars, PcOK, DataOK
  <2>7. CASE MarkRunning(w)
    BY <1>1, <1>2, <1>5, <1>6, <2>1, <2>7 DEF MarkRunning, SetStatus, WorkerReach, runvars, PcOK,
       DataOK
  <2>8. CASE Recheck(w)
    BY <1>1, <1>2, <1>5, <1>6, <2>1, <2>8 DEF Recheck, Decides, WorkerReach, runvars, PcOK, DataOK
  <2>9. CASE SucceedRead(w)
    BY <1>1, <1>2, <1>5, <1>6, <2>1, <2>9 DEF SucceedRead, WorkerReach, runvars, PcOK, DataOK
  <2>10. CASE RecordProviderOutcome(w)
    BY <1>1, <1>2, <1>5, <1>6, <2>1, <2>10 DEF RecordProviderOutcome, Ensure, WorkerReach, runvars,
       PcOK, DataOK
  <2>11. CASE SaveOutput(w)
    BY <1>1, <1>2, <1>5, <1>6, <2>1, <2>11 DEF SaveOutput, WorkerReach, runvars, PcOK, DataOK
  <2>12. CASE SettleRead(w)
    BY <1>1, <1>2, <1>5, <1>6, <2>1, <2>12 DEF SettleRead, Decides, WorkerReach, runvars, PcOK,
       DataOK
  <2>13. CASE SettleMark(w)
    BY <1>1, <1>2, <1>5, <1>6, <2>1, <2>13 DEF SettleMark, SetStatus, WorkerReach, runvars, PcOK,
       DataOK
  <2>14. CASE Capture(w)
    BY <1>1, <1>2, <1>5, <1>6, <2>1, <2>14 DEF Capture, WorkerReach, runvars, PcOK, DataOK
  <2>15. CASE CompleteProviderOutcome(w)
    BY <1>1, <1>2, <1>5, <1>6, <2>1, <2>15 DEF CompleteProviderOutcome, SetStatus, Outcome,
       WorkerReach, runvars, PcOK, DataOK
  <2>16. CASE FinishAck(w)
    BY <1>1, <1>2, <1>5, <1>6, <2>1, <2>16 DEF FinishAck, WorkerReach, runvars, PcOK, DataOK
  <2>17. CASE FinishRequeue(w)
    BY <1>1, <1>2, <1>5, <1>6, <2>1, <2>17 DEF FinishRequeue, WorkerReach, runvars, PcOK, DataOK
  <2>18. CASE Unlock(w)
    BY <1>1, <1>2, <1>5, <1>6, <2>1, <2>18 DEF Unlock, Forget, WorkerReach, runvars, PcOK, DataOK
  <2>19. CASE ReserveJob(w)
    <3>1. InHand'
      BY <2>19 DEF ReserveJob, Reserve, InHand, Queued
    <3>2. QED
      BY <1>5, <2>19, <3>1 DEF ReserveJob, WorkerReach, PcOK, DataOK
  <2>20. CASE StopRequeue(w)
    BY <1>1, <1>2, <1>5, <1>6, <2>1, <2>20 DEF StopRequeue, WorkerReach, runvars, PcOK, DataOK
  <2>21. CASE NotAdmitted(w)
    BY <1>1, <1>2, <1>5, <1>6, <2>1, <2>21 DEF NotAdmitted, WorkerReach, runvars, PcOK, DataOK
  <2>22. CASE UserMissing(w)
    BY <1>1, <1>2, <1>5, <1>6, <2>1, <2>22 DEF UserMissing, WorkerReach, runvars, PcOK, DataOK
  <2>23. CASE ExecuteError(w)
    BY <1>1, <1>2, <1>5, <1>6, <2>1, <2>23 DEF ExecuteError, WorkerReach, runvars, PcOK, DataOK
  <2>24. CASE LoseLease(w)
    BY <1>1, <1>2, <1>5, <1>6, <2>1, <2>24 DEF LoseLease, WorkStep, FailStep, WorkerReach, runvars,
       PcOK, DataOK
  <2>25. QED
    BY <2>2, <2>3, <2>4, <2>5, <2>6, <2>7, <2>8, <2>9, <2>10, <2>11, <2>12, <2>13, <2>14, <2>15,
       <2>16, <2>17, <2>18, <2>19, <2>20, <2>21, <2>22, <2>23, <2>24, <2>24 DEF WorkerStepOf
<1>9. QED
  BY <1>1, <1>2, <1>3, <1>4, <1>7, <1>8, OthersReach DEF ReachInv

\* The steps of a reconciler.
LEMMA ReconcilerReachStep ==
  ASSUME QTypeOK, InflightIsQueued, PcOK, DataOK, RouteInv, ReachInv, NEW r \in Reconcilers,
         (\E o \in Operation : ClaimEvent(r, o)) \/ ReconcilerStepOf(r)
  PROVE  ReachInv'
<1> r \in Agents /\ r \notin Workers
  BY CreativeAssumption DEF Agents
<1>1. UNCHANGED <<status, recorded, dropped>>
  BY DEF ClaimEvent, ReconcilerStepOf, ReadEvent, ReconcileLoad, ReconcileEnqueue, ReconcilePhase,
     EndEvent, SetPhase, runvars
<1>2. Forward /\ Slides
  BY <1>1 DEF Forward, Slides, GivenBack, IsTerminal
<1>3. InHand => InHand'
  BY <1>2, InHandKept DEF CNext
<1>4. LocalTo(r)
  BY DEF ClaimEvent, ReconcilerStepOf, ReadEvent, ReconcileLoad, ReconcileEnqueue, ReconcilePhase,
     EndEvent, Forget, Step, Goto, LocalTo, PcOK, DataOK
<1>5. ReconcilerReach(r)
  BY DEF ReachInv
<1>6. ReconcilerReach(r)' /\ EventInv'
  <2> USE DEF Step, At, Goto
  <2>1. ASSUME NEW o \in Operation, ClaimEvent(r, o) PROVE ReconcilerReach(r)' /\ EventInv'
    <3>1. ReconcilerReach(r)'
      BY <2>1 DEF ClaimEvent, ReconcilerReach, PcOK
    <3>2. EventInv'
      BY <1>1, <1>3, <2>1, EventsKept, CreativeAssumption DEF ClaimEvent, DataOK, ReachInv, EventInv, Operation
    <3>3. QED
      BY <3>1, <3>2
  <2>2. CASE ReadEvent(r)
    <3>1. ReconcilerReach(r)'
      <4>1. IsTerminal(status) => InHand'
        BY <1>3 DEF InHand
      <4>2. QED
        BY <2>2, <4>1 DEF ReadEvent, ReconcilerReach, PcOK
    <3>2. QED
      BY <1>1, <1>3, <2>2, <3>1, EventsKept DEF ReadEvent, ReachInv, EventInv
  <2>3. CASE ReconcileLoad(r)
    <3>1. ReconcilerReach(r)'
      BY <2>3 DEF ReconcileLoad, ReconcilerReach, PcOK
    <3>2. QED
      BY <1>1, <1>3, <2>3, <3>1, EventsKept DEF ReconcileLoad, ReachInv, EventInv
  <2>4. CASE ReconcileEnqueue(r)
    <3>1. Enqueue /\ event' = event
      BY <2>4 DEF ReconcileEnqueue
    <3>2. InHand'
      <4>1. CASE inflight = "none"
        BY <3>1, <4>1 DEF Enqueue, QTypeOK, InHand, Queued
      <4>2. CASE inflight # "none"
        BY <1>3, <4>2 DEF InflightIsQueued, InHand, Queued
      <4>3. QED
        BY <4>1, <4>2
    <3>3. ReconcilerReach(r)'
      BY <2>4, <3>2 DEF ReconcileEnqueue, ReconcilerReach, PcOK
    <3>4. QED
      BY <1>1, <1>3, <3>1, <3>3, EventsKept DEF ReachInv, EventInv
  <2>5. CASE ReconcilePhase(r)
    <3>1. ReconcilerReach(r)'
      BY <1>3, <1>5, <2>5 DEF ReconcilePhase, ReconcilerReach, PcOK
    <3>2. QED
      BY <1>1, <1>3, <2>5, <3>1, EventsKept DEF ReconcilePhase, ReachInv, EventInv
  <2>6. CASE EndEvent(r)
    <3>1. ReconcilerReach(r)'
      BY <2>6 DEF EndEvent, ReconcilerReach, PcOK
    <3>2. CASE pc[r] = "finish"
      <4>1. InHand'
        BY <1>3, <1>5, <3>2 DEF ReconcilerReach
      <4>2. event'["provision"] # "none" /\ (recorded' => event'["settle"] # "none")
        BY <1>1, <2>6 DEF EndEvent, DataOK, Operation, ReachInv, EventInv
      <4>3. QED
        BY <3>1, <4>1, <4>2 DEF EventInv
    <3>3. CASE pc[r] # "finish"
      BY <1>1, <1>3, <2>6, <3>1, <3>3, EventsKept DEF EndEvent, DataOK, ReachInv, EventInv, Operation
    <3>4. QED
      BY <3>2, <3>3
  <2>7. QED
    BY <2>1, <2>2, <2>3, <2>4, <2>5, <2>6 DEF ReconcilerStepOf
<1>7. StartedInv'
  BY <1>2, <1>3, StartsKept
<1>8. QED
  BY <1>2, <1>3, <1>4, <1>6, <1>7, OthersReach DEF ReachInv

\* Creation, faults and the passing of time.
LEMMA OtherReach ==
  ASSUME QTypeOK, PcOK, DataOK, RouteInv, ReachInv,
         \/ CreateNext \/ CreateFails \/ MoveDelayed \/ RecoverStale \/ ExpireLock
         \/ ExpireTransient \/ DeleteUser \/ MarkRunResultLost \/ UNCHANGED cvars
         \/ \E a \in Agents : CallFails(a) \/ AgentCrash(a)
  PROVE  ReachInv'
<1>1. Forward /\ Slides
  <2> USE DEF Forward, Slides, GivenBack, IsTerminal, Final
  <2>1. CASE CreateNext
    BY <2>1 DEF CreateNext, CreateEnsure, CreateReserve, CreatePhase, CreateSave, CreateEnqueue,
       CreateAbort, CreateAbortEnsure, SetPhase, ToReleasePending, CanTransition, runvars
  <2>2. CASE MarkRunResultLost
    BY <2>2 DEF MarkRunResultLost, SetStatus
  <2>3. CASE ~(CreateNext \/ MarkRunResultLost)
    <3>1. UNCHANGED <<status, recorded, dropped>>
      BY <2>3 DEF CreateFails, MoveDelayed, RecoverStale, ExpireLock, ExpireTransient, DeleteUser,
         CallFails, AgentCrash, cvars, runvars
    <3>2. QED
      BY <3>1
  <2>4. QED
    BY <2>1, <2>2, <2>3
<1>2. InHand => InHand'
  BY <1>1, InHandKept DEF CNext
<1>3. EventInv'
  <2>1. event' = event \/ Ensure("release")
    BY DEF CreateNext, CreateEnsure, CreateReserve, CreatePhase, CreateSave, CreateEnqueue, CreateAbort,
       CreateAbortEnsure, CreateFails, MoveDelayed, RecoverStale, ExpireLock, ExpireTransient, DeleteUser,
       MarkRunResultLost, CallFails, AgentCrash, cvars
  <2>2. UNCHANGED recorded /\ (recorded => event["settle"] # "none")
    BY DEF CreateNext, CreateEnsure, CreateReserve, CreatePhase, CreateSave, CreateEnqueue, CreateAbort,
       CreateAbortEnsure, CreateFails, MoveDelayed, RecoverStale, ExpireLock, ExpireTransient, DeleteUser,
       MarkRunResultLost, CallFails, AgentCrash, cvars, runvars, SetPhase, SetStatus, ToReleasePending,
       ReachInv, EventInv
  <2>3. QED
    BY <1>2, <2>1, <2>2, EventsKept DEF Ensure, DataOK, Operation
<1>4. StartedInv'
  BY <1>1, <1>2, StartsKept
<1>5. ASSUME NEW a \in Agents, CallFails(a) \/ AgentCrash(a) PROVE ReachInv'
  <2>1. LocalTo(a)
    BY <1>5 DEF CallFails, AgentCrash, Forget, Goto, LocalTo, PcOK, DataOK
  <2>2. pc'[a] \in {"idle", "retry", "ack", "requeue"}
    BY <1>5 DEF CallFails, AgentCrash, Raised, Goto, PcOK
  <2>3. ASSUME a \in Reconcilers PROVE ReconcilerReach(a)'
    BY <2>2 DEF ReconcilerReach
  <2>4. ASSUME a \in Workers PROVE WorkerReach(a)'
    <3>1. WorkerReach(a) /\ a \notin Reconcilers
      BY <2>4, CreativeAssumption DEF ReachInv
    <3>2. CASE CallFails(a)
      <4>1. /\ pc[a] # "idle" /\ goal'[a] = goal[a]
            /\ pc'[a] = "requeue" \/ (pc'[a] = "ack" /\ goal[a] = "user_missing")
        BY <2>4, <3>1, <3>2 DEF CallFails, Raised, Goto, WorkerReach, PcOK, WorkStep, EventStep, FailStep
      <4>2. QED
        BY <1>2, <3>1, <4>1 DEF WorkerReach
    <3>3. CASE AgentCrash(a)
      <4>1. pc'[a] = "idle" /\ goal'[a] = "none"
        BY <3>3 DEF AgentCrash, Forget, Goto, PcOK, DataOK
      <4>2. QED
        BY <4>1 DEF WorkerReach
    <3>4. QED
      BY <1>5, <3>2, <3>3
  <2>5. QED
    BY <1>1, <1>2, <1>3, <1>4, <2>1, <2>3, <2>4, OthersReach DEF ReachInv
<1>6. CASE UNCHANGED <<pc, seen, goal>>
  <2>1. \A a : LocalTo(a)
    BY <1>6 DEF LocalTo
  <2>2. "none" \notin Workers \cup Reconcilers
    BY CreativeAssumption, WorkersAssumption
  <2>3. QED
    BY <1>1, <1>2, <1>3, <1>4, <2>1, <2>2, OthersReach DEF ReachInv
<1>7. (\E a \in Agents : CallFails(a) \/ AgentCrash(a)) \/ UNCHANGED <<pc, seen, goal>>
  BY DEF CreateNext, CreateEnsure, CreateReserve, CreatePhase, CreateSave, CreateEnqueue, CreateAbort,
     CreateAbortEnsure, CreateFails, MoveDelayed, RecoverStale, ExpireLock, ExpireTransient, DeleteUser,
     MarkRunResultLost, cvars, agents
<1>8. QED
  BY <1>5, <1>6, <1>7

LEMMA ReachStarts == CInit => ReachInv
BY CreativeAssumption DEF CInit, ReachInv, WorkerReach, ReconcilerReach, EventInv, StartedInv, Operation,
   Agents

LEMMA ReachInductive == CSpec => [](QTypeOK /\ InflightIsQueued /\ CInv /\ ReachInv)
<1>1. QTypeOK /\ InflightIsQueued /\ CInv /\ ReachInv /\ [CNext]_cvars => ReachInv'
  BY ResultReach, WorkerReachStep, ReconcilerReachStep, OtherReach DEF CNext, CInv
<1>2. CSpec => [](QTypeOK /\ InflightIsQueued)
  BY QueueStarts, QueueSteps, QueueKept, PTL DEF CSpec
<1>3. QED
  BY ReachStarts, <1>1, <1>2, CreativeInductive, PTL DEF CSpec

\* A run that has not ended stays in somebody's hands or was dropped by an
\* early acknowledgement (worker.go:235, :424, outbox.go), for any number of
\* workers, reconcilers, attempts, failing calls, crashes and lost leases and
\* a user who may be deleted: an event is completed only when the run has
\* ended or its job is queued, and a recorded success always has its event.
THEOREM OpenRunIsReached == CSpec => []OpenRunIsReachable
<1>1. DataOK /\ ReachInv => OpenRunIsReachable
  BY DEF ReachInv, EventInv, InHand, Queued, OpenRunIsReachable, Operation
<1>2. CInv => DataOK
  BY DEF CInv
<1>3. QED
  BY <1>1, <1>2, ReachInductive, PTL

\* The job of a run that has not ended is acknowledged only by a worker that
\* has failed the run or missed its user (results.go:426, worker.go:320): no
\* other way through Process leads to the acknowledgement before the end of
\* the run, with any number of workers.
THEOREM EarlyAcksAreFailures == CSpec => OnlyFailureDrops
<1>1. ReachInv => \A w \in Workers :
        Acknowledges(w) => IsTerminal(status) \/ goal[w] \in {"failed", "user_missing"}
  BY DEF ReachInv, WorkerReach, Acknowledges, At
<1>2. QED
  BY <1>1, ReachInductive, PTL DEF OnlyFailureDrops
=============================================================================
