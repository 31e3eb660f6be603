----------------------------- MODULE CreativeRun -----------------------------
(***************************************************************************)
(* One run of Creative Studio from the transaction that creates it to its  *)
(* terminal status: the rest of Public.CreateRun (creative/public.go), the *)
(* queue workers (creative/worker.go), the outbox reconcilers and the      *)
(* result operations they share (creative/results.go), over the rows of    *)
(* creative/postgres and the task funds of billing/postgres/settlement.go. *)
(*                                                                         *)
(* Every status write is guarded by the version read just before.  Each    *)
(* such write changes the status and no status is ever entered twice, so   *)
(* "the version has changed" is "the status is not the one seen".  Where   *)
(* an operation reads the run, decides, and then calls a transition that   *)
(* reads again, the second read may lie anywhere before the write: the     *)
(* write succeeds if the present status allows it, and it may fail if the  *)
(* status has changed since the first read.                                *)
(*                                                                         *)
(* The legacy status cancelled, which no operation sets, and the free      *)
(* groups, which move no money, are left out.                              *)
(***************************************************************************)
EXTENDS CreativeQueue

CONSTANTS
    Reconcilers,    \* processes that run RunCreativeOutboxReconciler
    MaxAttempts,    \* executions of a run before it fails
    UserMayVanish,  \* the user may be deleted while the run waits
    MaxFaults       \* bound on failing calls, crashes, suspensions and full slots

ASSUME CreativeAssumption ==
    /\ MaxAttempts \in Nat \ {0}
    /\ MaxFaults \in Nat
    /\ UserMayVanish \in BOOLEAN
    /\ Workers \cap Reconcilers = {}
    /\ {"none", "pending", "done"} \cap Reconcilers = {}

VARIABLES
    status, target,     \* of the run; where release_pending leads
    recorded,           \* provider_result_recorded_at is set
    dropped,            \* history: a worker acknowledged the job before the run had ended
    phase,              \* provisioning_phase
    attempts,           \* attempt_count, below MaxAttempts
    payload, output,    \* the transient payload and the transient image exist
    claims,             \* request ids in usage_billing_dedup
    frozen,             \* holds frozen on the balance
    charged, returned,  \* captures and releases that moved the hold
    userGone,           \* the user has been deleted
    event,              \* outbox rows: "none", "pending", "done" or who leases it
    creator,            \* next step of CreateRun
    pc, seen, goal,     \* next step, status read and purpose of each agent
    op,                 \* outbox operation a reconciler works on
    faults

runvars == <<status, target, recorded, phase, attempts, dropped>>
funds == <<claims, frozen, charged, returned, userGone>>
transient == <<payload, output>>
agents == <<pc, seen, goal, op>>
cvars == <<qvars, runvars, funds, transient, event, creator, agents, faults>>

Agents == Workers \cup Reconcilers
Final == {"succeeded", "failed", "result_lost"}
Status == Final \cup {"queued", "running", "provider_succeeded", "settlement_pending", "release_pending"}
Operation == {"provision", "settle", "release"}
Phase == {"created", "hold_reserved", "transient_saved", "enqueued", "complete"}
CreatorStep == {"ensure", "reserve", "held", "save", "saved", "enqueue", "enqueued", "abort", "abort_ensure", "done"}
FailStep == {"fail_read", "lost_read", "fail_write", "fail_ensure", "rel_read", "rel_funds", "rel_write", "rel_delete"}
WorkStep ==
    FailStep \cup {"process", "payload", "admit", "run_read", "run_write", "recheck", "execute",
                   "succ_read", "record", "save", "settle_read", "settle_mark", "capture", "complete"}
WorkerStep == WorkStep \cup {"idle", "reserved", "ack", "requeue", "unlock"}
EventStep == FailStep \cup {"event", "load", "enqueue", "phase"}
ReconcilerStep == EventStep \cup {"idle", "finish", "retry"}
Goal == {"none", "failed", "result_lost", "user_missing", "enqueued", "complete"}

CTypeOK ==
    /\ QTypeOK
    /\ status \in Status
    /\ target \in {"none", "failed", "result_lost"}
    /\ recorded \in BOOLEAN
    /\ dropped \in BOOLEAN
    /\ phase \in Phase
    /\ attempts \in 0..(MaxAttempts - 1)
    /\ payload \in BOOLEAN
    /\ output \in BOOLEAN
    /\ claims \subseteq {"hold", "capture", "release"}
    /\ frozen \in Int
    /\ charged \in Nat
    /\ returned \in Nat
    /\ userGone \in BOOLEAN
    /\ event \in [Operation -> {"none", "pending", "done"} \cup Reconcilers]
    /\ creator \in CreatorStep
    /\ pc \in [Agents -> WorkerStep \cup ReconcilerStep]
    /\ \A w \in Workers : pc[w] \in WorkerStep
    /\ \A r \in Reconcilers : pc[r] \in ReconcilerStep
    /\ seen \in [Agents -> Status]
    /\ goal \in [Agents -> Goal]
    /\ op \in [Agents -> Operation]
    /\ faults \in 0..MaxFaults

(* CreateCreativeRun has committed: the row and its provision event. *)
CInit ==
    /\ QInit
    /\ status = "queued"
    /\ target = "none"
    /\ recorded = FALSE
    /\ dropped = FALSE
    /\ phase = "created"
    /\ attempts = 0
    /\ payload = FALSE
    /\ output = FALSE
    /\ claims = {}
    /\ frozen = 0
    /\ charged = 0
    /\ returned = 0
    /\ userGone = FALSE
    /\ event = [o \in Operation |-> IF o = "provision" THEN "pending" ELSE "none"]
    /\ creator = "ensure"
    /\ pc = [a \in Agents |-> "idle"]
    /\ seen = [a \in Agents |-> "queued"]
    /\ goal = [a \in Agents |-> "none"]
    /\ op = [a \in Agents |-> "provision"]
    /\ faults = 0

-----------------------------------------------------------------------------
(* Rows, funds and steps. *)

IsTerminal(s) == s \in Final

(* Mutant of CanTransition: a recorded success may still be released. *)
CanTransition_ReleaseAfterSuccess(from, to) ==
    \/ to = "release_pending" /\ from \in {"queued", "running", "provider_succeeded"}
    \/ to = "result_lost" /\ from = "succeeded"

CanTransition(from, to) ==
    IF IsTerminal(from) THEN from = "succeeded" /\ to = "result_lost"
    ELSE \/ to = "failed"
         \/ from = "queued" /\ to \in {"running", "result_lost", "release_pending"}
         \/ /\ from = "running"
            /\ to \in {"provider_succeeded", "settlement_pending", "succeeded", "result_lost", "release_pending"}
         \/ from = "provider_succeeded" /\ to \in {"settlement_pending", "succeeded", "result_lost"}
         \/ from = "settlement_pending" /\ to \in {"succeeded", "result_lost"}
         \/ from = "release_pending" /\ to = "result_lost"

SetStatus(s) == status' = s /\ UNCHANGED <<target, recorded, phase, attempts, dropped>>
SetPhase(p) == phase' = p /\ UNCHANGED <<status, target, recorded, attempts, dropped>>
(* Mutant of ToReleasePending: the release target is not stored. *)
ToReleasePending_NoTarget(t) == SetStatus("release_pending")

ToReleasePending(t) ==
    /\ status' = "release_pending"
    /\ target' = t
    /\ UNCHANGED <<recorded, phase, attempts, dropped>>

(* outbox.Ensure leaves an event alone that is leased or done. *)
Ensure(o) == event' = [event EXCEPT ![o] = IF @ = "none" THEN "pending" ELSE @]

(* billing.Funds, one transaction each.  A request id is claimed once; the *)
(* first claim locks the row of the user, and is refused and rolled back   *)
(* when the user is deleted, every time it is tried.                       *)
Claimable(id) == id \in claims \/ ~userGone

ReserveFunds ==
    /\ Claimable("hold")
    /\ claims' = claims \cup {"hold"}
    /\ frozen' = IF "hold" \in claims THEN frozen ELSE frozen + 1
    /\ UNCHANGED <<charged, returned, userGone>>

CaptureFunds ==
    \/ "capture" \in claims /\ UNCHANGED funds
    \/ /\ "capture" \notin claims
       /\ Claimable("capture")
       /\ "hold" \in claims
       /\ claims' = claims \cup {"capture"}
       /\ frozen' = frozen - 1
       /\ charged' = charged + 1
       /\ UNCHANGED <<returned, userGone>>

(* A release without a hold moves nothing and still claims its request id. *)
ReleaseFundsOnce ==
    /\ Claimable("release")
    /\ claims' = claims \cup {"release"}
    /\ LET moves == "release" \notin claims /\ "hold" \in claims IN
         /\ frozen' = IF moves THEN frozen - 1 ELSE frozen
         /\ returned' = IF moves THEN returned + 1 ELSE returned
    /\ UNCHANGED <<charged, userGone>>

Goto(a, step) == pc' = [pc EXCEPT ![a] = step]
At(a, step) == pc[a] = step
Step(a, from, to) == At(a, from) /\ Goto(a, to)

(* Where the result operations return to, and where their errors lead: a   *)
(* worker queues the run again and a reconciler retries the event, but the *)
(* error is dropped when the user was missing.                             *)
Returned(a) == IF a \in Workers THEN "ack" ELSE "finish"
Raised(a) ==
    IF a \in Reconcilers THEN "retry"
    ELSE IF goal[a] = "user_missing" THEN "ack" ELSE "requeue"

(* A read before a write is remembered until the write is done. *)
Sees(a) ==
    LET writes == pc'[a] \in {"fail_write", "run_write", "record"} IN
    seen' = [seen EXCEPT ![a] = IF writes THEN status ELSE "queued"]

(* The local variables of a call that has ended. *)
Forget(a) ==
    /\ seen' = [seen EXCEPT ![a] = "queued"]
    /\ goal' = [goal EXCEPT ![a] = "none"]
    /\ op' = [op EXCEPT ![a] = "provision"]

Costs == faults < MaxFaults /\ faults' = faults + 1

-----------------------------------------------------------------------------
(* Public.CreateRun after the row exists. *)

Creates(from, to) == creator = from /\ creator' = to

(* The event exists already, so Ensure changes nothing. *)
CreateEnsure ==
    /\ Creates("ensure", "reserve")
    /\ UNCHANGED <<qvars, runvars, funds, transient, event, agents, faults>>

CreateReserve ==
    /\ \/ creator' = "held" /\ ReserveFunds
       \/ creator' = "abort" /\ UNCHANGED funds      \* no user, or the balance or a quota is too low
    /\ creator = "reserve"
    /\ UNCHANGED <<qvars, runvars, transient, event, agents, faults>>

CreatePhase(from, p, to) ==
    /\ Creates(from, to)
    /\ SetPhase(p)
    /\ UNCHANGED <<qvars, funds, transient, event, agents, faults>>

CreateSave ==
    /\ Creates("save", "saved")
    /\ payload' = TRUE
    /\ UNCHANGED <<qvars, runvars, funds, output, event, agents, faults>>

CreateEnqueue ==
    /\ Creates("enqueue", "enqueued")
    /\ Enqueue
    /\ UNCHANGED <<runvars, funds, transient, event, agents, faults>>

(* FailRunAfterCreateError: a transition, its failure ignored, an event. *)
CreateAbort ==
    /\ Creates("abort", "abort_ensure")
    /\ IF CanTransition(status, "release_pending") THEN ToReleasePending("failed") ELSE UNCHANGED runvars
    /\ UNCHANGED <<qvars, funds, transient, event, agents, faults>>

CreateAbortEnsure ==
    /\ Creates("abort_ensure", "done")
    /\ Ensure("release")
    /\ UNCHANGED <<qvars, runvars, funds, transient, agents, faults>>

(* A call of CreateRun fails.  A failing Ensure or allowance mark returns  *)
(* at once; the request may also be cancelled, or the process may crash.   *)
CreateFails ==
    /\ creator # "done"
    /\ creator' \in {"done"} \cup
          (CASE creator \in {"reserve", "held", "save", "saved", "enqueue", "enqueued"} -> {"abort"}
             [] creator = "abort" -> {"abort_ensure"}
             [] OTHER -> {})
    /\ Costs
    /\ UNCHANGED <<qvars, runvars, funds, transient, event, agents>>

CreateNext ==
    \/ CreateEnsure
    \/ CreateReserve
    \/ CreatePhase("held", "hold_reserved", "save")
    \/ CreateSave
    \/ CreatePhase("saved", "transient_saved", "enqueue")
    \/ CreateEnqueue
    \/ CreatePhase("enqueued", "enqueued", "done")
    \/ CreateAbort
    \/ CreateAbortEnsure

-----------------------------------------------------------------------------
(* FailRun, MarkResultLost and ReleaseRun, called by workers and reconcilers. *)

FailRead(a) ==
    /\ At(a, "fail_read")
    /\ Goto(a, IF IsTerminal(status) THEN Returned(a)
               ELSE IF status = "release_pending" THEN "rel_read" ELSE "fail_write")
    /\ Sees(a)
    /\ goal' = [goal EXCEPT ![a] = "failed"]
    /\ UNCHANGED <<qvars, runvars, funds, transient, event, creator, op, faults>>

LostRead(a) ==
    /\ At(a, "lost_read")
    /\ Goto(a, IF IsTerminal(status) THEN Returned(a) ELSE "fail_write")
    /\ Sees(a)
    /\ UNCHANGED <<qvars, runvars, funds, transient, event, creator, goal, op, faults>>

Target(a) == IF goal[a] = "failed" THEN "failed" ELSE "result_lost"

(* The transition to release_pending.  FailRun goes on when it is refused, *)
(* MarkResultLost returns the error.                                       *)
FailWrite(a) ==
    /\ At(a, "fail_write")
    /\ \/ /\ CanTransition(status, "release_pending")
          /\ ToReleasePending(Target(a))
          /\ Goto(a, "fail_ensure")
       \/ /\ ~CanTransition(status, "release_pending") \/ status # seen[a]
          /\ Goto(a, IF goal[a] = "failed" THEN "fail_ensure" ELSE Raised(a))
          /\ UNCHANGED runvars
    /\ Sees(a)
    /\ UNCHANGED <<qvars, funds, transient, event, creator, goal, op, faults>>

FailEnsure(a) ==
    /\ Step(a, "fail_ensure", "rel_read")
    /\ Ensure("release")
    /\ UNCHANGED <<qvars, runvars, funds, transient, creator, seen, goal, op, faults>>

ReleaseRead(a) ==
    /\ At(a, "rel_read")
    /\ Goto(a, IF status = "release_pending" THEN "rel_funds" ELSE Returned(a))
    /\ UNCHANGED <<qvars, runvars, funds, transient, event, creator, seen, goal, op, faults>>

(* What is given back is what the row of the run says is reserved: all of  *)
(* the hold or, for a run read before its hold was reserved, nothing.  The *)
(* second needs a read that Reserve has overtaken; then the release runs   *)
(* before or after the reservation like the one modelled here.             *)
ReleaseFunds(a) ==
    /\ At(a, "rel_funds")
    /\ \/ ReleaseFundsOnce /\ Goto(a, "rel_write")
       \/ ~Claimable("release") /\ UNCHANGED funds /\ Goto(a, Raised(a))
    /\ UNCHANGED <<qvars, runvars, transient, event, creator, seen, goal, op, faults>>

(* A refused transition means that another agent has ended the run. *)
ReleaseWrite(a) ==
    /\ Step(a, "rel_write", "rel_delete")
    /\ IF status = "release_pending" THEN SetStatus(target) ELSE UNCHANGED runvars
    /\ UNCHANGED <<qvars, funds, transient, event, creator, seen, goal, op, faults>>

ReleaseDelete(a) ==
    /\ Step(a, "rel_delete", Returned(a))
    /\ payload' = FALSE
    /\ output' = FALSE
    /\ UNCHANGED <<qvars, runvars, funds, event, creator, seen, goal, op, faults>>

ResultStep(a) ==
    \/ FailRead(a)
    \/ LostRead(a)
    \/ FailWrite(a)
    \/ FailEnsure(a)
    \/ ReleaseRead(a)
    \/ ReleaseFunds(a)
    \/ ReleaseWrite(a)
    \/ ReleaseDelete(a)

-----------------------------------------------------------------------------
(* CreativeRunWorker.runOnce and Process. *)

ReserveJob(w) ==
    /\ Step(w, "idle", "reserved")
    /\ Reserve(w)
    /\ goal' = [goal EXCEPT ![w] = "none"]
    /\ UNCHANGED <<runvars, funds, transient, event, creator, seen, op, faults>>

(* The worker is being stopped, or the lock cannot be asked for: the job   *)
(* goes back, at once or after a delay.                                    *)
StopRequeue(w) ==
    /\ Step(w, "reserved", "idle")
    /\ Costs
    /\ RequeueAfter(w, FALSE) \/ RequeueAfter(w, TRUE)
    /\ UNCHANGED <<runvars, funds, transient, event, creator, seen, goal, op>>

LockJob(w) ==
    /\ At(w, "reserved")
    /\ \/ TryAcquireJobLock(w) /\ Goto(w, "process")
       \/ joblock # "none" /\ RequeueAfter(w, TRUE) /\ Goto(w, "idle")
    /\ UNCHANGED <<runvars, funds, transient, event, creator, seen, goal, op, faults>>

(* A step of Process that only reads and decides. *)
Decides(w, from, to) ==
    /\ Step(w, from, to)
    /\ UNCHANGED <<qvars, runvars, funds, transient, event, creator, seen, goal, op, faults>>

Process(w) ==
    Decides(w, "process",
            CASE IsTerminal(status) -> "ack"
              [] status = "release_pending" -> "rel_read"
              [] status \in {"provider_succeeded", "settlement_pending"} -> "settle_read"
              [] OTHER -> "payload")

LoadPayload(w) ==
    /\ Step(w, "payload", IF payload THEN "admit" ELSE "lost_read")
    /\ goal' = [goal EXCEPT ![w] = IF payload THEN "none" ELSE "result_lost"]
    /\ UNCHANGED <<qvars, runvars, funds, transient, event, creator, seen, op, faults>>

(* The slots of the user and of a provider are taken. *)
Admit(w) ==
    /\ ~userGone
    /\ Decides(w, "admit", "run_read")

(* No slot is free: the run is queued again. *)
NotAdmitted(w) ==
    /\ ~userGone
    /\ Step(w, "admit", "requeue")
    /\ Costs
    /\ UNCHANGED <<qvars, runvars, funds, transient, event, creator, seen, goal, op>>

(* AcquireUser reads the user.  A deleted one leads to MarkResultLost, and *)
(* whatever that returns the job is acknowledged.                          *)
UserMissing(w) ==
    /\ userGone
    /\ Step(w, "admit", "lost_read")
    /\ goal' = [goal EXCEPT ![w] = "user_missing"]
    /\ UNCHANGED <<qvars, runvars, funds, transient, event, creator, seen, op, faults>>

(* handleExecuteError after Prepare or Execute: a retryable error is tried *)
(* again; any other one, and the one that makes MaxAttempts, which need    *)
(* not be counted, fails the run.                                          *)
ExecuteError(w) ==
    /\ At(w, "execute") \/ (At(w, "admit") /\ ~userGone)
    /\ attempts' \in {attempts, attempts + 1} /\ attempts' < MaxAttempts
    /\ Goto(w, IF attempts' > attempts THEN "requeue" ELSE "fail_read")
    /\ UNCHANGED <<status, target, recorded, phase, dropped>>
    /\ UNCHANGED <<qvars, funds, transient, event, creator, seen, goal, op, faults>>

RunningRead(w) ==
    /\ At(w, "run_read")
    /\ Goto(w, CASE status = "queued" -> "run_write"
                 [] status = "running" \/ IsTerminal(status) -> "recheck"
                 [] OTHER -> "requeue")
    /\ Sees(w)
    /\ UNCHANGED <<qvars, runvars, funds, transient, event, creator, goal, op, faults>>

MarkRunning(w) ==
    /\ At(w, "run_write")
    /\ \/ status = "queued" /\ SetStatus("running") /\ Goto(w, "recheck")
       \/ status = "running" /\ UNCHANGED runvars /\ Goto(w, "recheck")
       \/ status # seen[w] /\ UNCHANGED runvars /\ Goto(w, "requeue")
    /\ Sees(w)
    /\ UNCHANGED <<qvars, funds, transient, event, creator, goal, op, faults>>

(* The last look at the run before the provider is called. *)
Recheck(w) == Decides(w, "recheck", IF IsTerminal(status) THEN "ack" ELSE "execute")

(* The provider has answered, or the answer could not be recorded yet:      *)
(* SucceedRun reads the run; one that has ended has nothing to record.      *)
SucceedRead(w) ==
    /\ pc[w] \in {"execute", "succ_read"}
    /\ Goto(w, IF IsTerminal(status) THEN "settle_read" ELSE "record")
    /\ Sees(w)
    /\ UNCHANGED <<qvars, runvars, funds, transient, event, creator, goal, op, faults>>

(* RecordProviderOutcome: the success, the outputs and the settle event in *)
(* one transaction.  A refusal is retried until the success is recorded or *)
(* the run has ended.                                                      *)
RecordProviderOutcome(w) ==
    /\ At(w, "record")
    /\ \/ /\ status = "running"
          /\ status' = "provider_succeeded"
          /\ recorded' = TRUE
          /\ Ensure("settle")
          /\ Goto(w, "save")
          /\ UNCHANGED <<target, phase, attempts, dropped>>
       \/ recorded /\ UNCHANGED <<runvars, event>> /\ Goto(w, "save")
       \/ /\ status # seen[w] \/ status # "running"
          /\ UNCHANGED <<runvars, event>>
          /\ Goto(w, IF recorded THEN "requeue" ELSE "succ_read")
    /\ Sees(w)
    /\ UNCHANGED <<qvars, funds, transient, creator, goal, op, faults>>

(* Three attempts to save the image; the run is settled in any case. *)
SaveOutput(w) ==
    /\ Step(w, "save", "settle_read")
    /\ \/ output' = TRUE /\ UNCHANGED faults
       \/ UNCHANGED output /\ Costs
    /\ UNCHANGED <<qvars, runvars, funds, payload, event, creator, seen, goal, op>>

(* Mutant of SettleRead: settlement_pending is taken for captured. *)
SettleRead_SkipCapture(w) ==
    Decides(w, "settle_read",
            CASE status = "provider_succeeded" -> "settle_mark"
              [] status = "settlement_pending" -> "complete"
              [] OTHER -> "ack")

(* Mutant of SettleRead: only a fresh success is settled. *)
SettleRead_OnlyFresh(w) ==
    Decides(w, "settle_read", IF status = "provider_succeeded" THEN "settle_mark" ELSE "ack")

SettleRead(w) ==
    Decides(w, "settle_read",
            CASE status = "provider_succeeded" -> "settle_mark"
              [] status = "settlement_pending" -> "capture"
              [] OTHER -> "ack")

SettleMark(w) ==
    /\ Step(w, "settle_mark", "capture")
    /\ IF status = "provider_succeeded" THEN SetStatus("settlement_pending") ELSE UNCHANGED runvars
    /\ UNCHANGED <<qvars, funds, transient, event, creator, seen, goal, op, faults>>

(* A refused capture leaves the run settlement_pending and its job queued. *)
Capture(w) ==
    /\ At(w, "capture")
    /\ \/ CaptureFunds /\ Goto(w, "complete")
       \/ ~Claimable("capture") /\ UNCHANGED funds /\ Goto(w, "requeue")
    /\ UNCHANGED <<qvars, runvars, transient, event, creator, seen, goal, op, faults>>

(* ResultDelivery.Lost. *)
Outcome == IF output THEN "succeeded" ELSE "result_lost"

(* CompleteProviderOutcome; a run that has ended is left alone. *)
CompleteProviderOutcome(w) ==
    /\ Step(w, "complete", "ack")
    /\ IF IsTerminal(status) \/ ~recorded THEN UNCHANGED runvars ELSE SetStatus(Outcome)
    /\ UNCHANGED <<qvars, funds, transient, event, creator, seen, goal, op, faults>>

FinishAck(w) ==
    /\ Step(w, "ack", "unlock")
    /\ Ack(w)
    /\ dropped' = (dropped \/ (Leased(w) /\ ~IsTerminal(status)))
    /\ Forget(w)
    /\ UNCHANGED <<status, target, recorded, phase, attempts>>
    /\ UNCHANGED <<funds, transient, event, creator, faults>>

FinishRequeue(w) ==
    /\ Step(w, "requeue", "unlock")
    /\ RequeueAfter(w, TRUE)
    /\ Forget(w)
    /\ UNCHANGED <<runvars, funds, transient, event, creator, faults>>

Unlock(w) ==
    /\ Step(w, "unlock", "idle")
    /\ joblock' = WithoutLock(w)
    /\ UNCHANGED <<ready, delayed, active, inflight, runvars, funds, transient, event, creator, faults>>
    /\ UNCHANGED <<seen, goal, op>>

(* The heartbeat finds the lease or the lock gone, or cannot reach Redis:  *)
(* the context is cancelled, and the worker neither writes nor queues.     *)
LoseLease(w) ==
    /\ Step(w, pc[w], "unlock")
    /\ pc[w] \in WorkStep
    /\ \/ ~(Leased(w) /\ joblock = w) /\ UNCHANGED faults
       \/ Costs
    /\ Forget(w)
    /\ UNCHANGED <<qvars, runvars, funds, transient, event, creator>>

WorkerStepOf(w) ==
    \/ LockJob(w)
    \/ Process(w)
    \/ LoadPayload(w)
    \/ Admit(w)
    \/ UserMissing(w)
    \/ RunningRead(w)
    \/ MarkRunning(w)
    \/ Recheck(w)
    \/ SucceedRead(w)
    \/ RecordProviderOutcome(w)
    \/ SaveOutput(w)
    \/ SettleRead(w)
    \/ SettleMark(w)
    \/ Capture(w)
    \/ CompleteProviderOutcome(w)
    \/ FinishAck(w)
    \/ FinishRequeue(w)
    \/ Unlock(w)

-----------------------------------------------------------------------------
(* ReconcileCreativeOutboxOnce. *)

(* Claim takes a pending event, or one whose lease has run out. *)
ClaimEvent(r, o) ==
    /\ Step(r, "idle", "event")
    /\ event[o] = "pending" \/ event[o] \in Reconcilers
    /\ event' = [event EXCEPT ![o] = r]
    /\ op' = [op EXCEPT ![r] = o]
    /\ UNCHANGED <<qvars, runvars, funds, transient, creator, seen, goal, faults>>

(* Mutant of ReadEvent: a saved payload is taken for a queued run. *)
ReadEvent_TrustsSaved(r) ==
    /\ At(r, "event")
    /\ Goto(r, IF op[r] # "provision" THEN IF IsTerminal(status) THEN "finish" ELSE "enqueue"
               ELSE CASE phase \in {"enqueued", "complete"} -> "enqueue"
                      [] phase = "transient_saved" -> "finish"
                      [] OTHER -> "fail_read")
    /\ goal' = [goal EXCEPT ![r] = IF op[r] = "provision" THEN "complete" ELSE "none"]
    /\ UNCHANGED <<qvars, runvars, funds, transient, event, creator, seen, op, faults>>

(* ReconcileCreativeOutboxEvent reads the run, and ReconcileCreativeProvision *)
(* follows the phase it has reached.                                          *)
ReadEvent(r) ==
    /\ At(r, "event")
    /\ Goto(r, IF op[r] # "provision" THEN IF IsTerminal(status) THEN "finish" ELSE "enqueue"
               ELSE CASE phase \in {"enqueued", "complete"} -> "enqueue"
                      [] phase = "transient_saved" -> "load"
                      [] OTHER -> "fail_read")
    /\ goal' = [goal EXCEPT ![r] = IF op[r] = "provision" THEN "complete" ELSE "none"]
    /\ UNCHANGED <<qvars, runvars, funds, transient, event, creator, seen, op, faults>>

(* Any error of LoadPayload is taken for a lost payload. *)
ReconcileLoad(r) ==
    /\ At(r, "load")
    /\ \/ /\ payload /\ UNCHANGED faults
          /\ Goto(r, "enqueue")
          /\ goal' = [goal EXCEPT ![r] = "enqueued"]
       \/ /\ \/ ~payload /\ UNCHANGED faults
             \/ Costs
          /\ Goto(r, "lost_read")
          /\ goal' = [goal EXCEPT ![r] = "result_lost"]
    /\ UNCHANGED <<qvars, runvars, funds, transient, event, creator, seen, op>>

ReconcileEnqueue(r) ==
    /\ Step(r, "enqueue", IF goal[r] = "none" THEN "finish" ELSE "phase")
    /\ Enqueue
    /\ UNCHANGED <<runvars, funds, transient, event, creator, seen, goal, op, faults>>

ReconcilePhase(r) ==
    /\ Step(r, "phase", "finish")
    /\ SetPhase(goal[r])
    /\ UNCHANGED <<qvars, funds, transient, event, creator, seen, goal, op, faults>>

(* Complete and Retry act on an event the reconciler still leases. *)
EndEvent(r) ==
    /\ pc[r] \in {"finish", "retry"}
    /\ Goto(r, "idle")
    /\ event' = IF event[op[r]] # r THEN event
                ELSE [event EXCEPT ![op[r]] = IF At(r, "finish") THEN "done" ELSE "pending"]
    /\ Forget(r)
    /\ UNCHANGED <<qvars, runvars, funds, transient, creator, faults>>

ReconcilerStepOf(r) ==
    \/ ReadEvent(r)
    \/ ReconcileLoad(r)
    \/ ReconcileEnqueue(r)
    \/ ReconcilePhase(r)
    \/ EndEvent(r)

-----------------------------------------------------------------------------
(* Faults and the passing of time. *)

(* A call of an agent fails with or without effect: a failure that hides   *)
(* an effect is the failure of the next call.                              *)
CallFails(a) ==
    /\ pc[a] \in WorkStep \cup EventStep
    /\ Goto(a, Raised(a))
    /\ Costs
    /\ UNCHANGED <<qvars, runvars, funds, transient, event, creator, seen, goal, op>>

(* The process of an agent dies.  Also a worker whose Ack or RequeueAfter  *)
(* fails leaves the job behind like this.                                  *)
AgentCrash(a) ==
    /\ ~At(a, "idle")
    /\ Goto(a, "idle")
    /\ Forget(a)
    /\ Costs
    /\ UNCHANGED <<qvars, runvars, funds, transient, event, creator>>

MoveDelayed ==
    /\ MoveDueDelayedToReady
    /\ UNCHANGED <<runvars, funds, transient, event, creator, agents, faults>>

Alive == \E w \in Workers : inflight = w /\ pc[w] # "idle"

(* The heartbeat has stopped: nobody processes the job any more, or the    *)
(* worker that does is suspended.                                          *)
RecoverStale ==
    /\ RecoverStaleActive
    /\ IF Alive THEN Costs ELSE UNCHANGED faults
    /\ UNCHANGED <<runvars, funds, transient, event, creator, agents>>

(* A lock is refreshed as long as the worker that has taken it keeps its   *)
(* lease.  Only a worker that is about to take it can tell it was gone.    *)
ExpireLock ==
    /\ \E w \in Workers : At(w, "reserved")
    /\ \A w \in Workers : Leased(w) /\ joblock = w => pc[w] \in {"idle", "reserved"}
    /\ ExpireJobLock
    /\ UNCHANGED <<runvars, funds, transient, event, creator, agents, faults>>

(* The transient keys have a time to live.  Nobody can tell when one was    *)
(* gone before the next look at it, so it goes when somebody is about to.   *)
ExpireTransient ==
    /\ \/ /\ payload /\ \E a \in Agents : pc[a] \in {"payload", "load"}
          /\ payload' = FALSE /\ UNCHANGED output
       \/ /\ output /\ \E w \in Workers : At(w, "complete")
          /\ output' = FALSE /\ UNCHANGED payload
    /\ UNCHANGED <<qvars, runvars, funds, event, creator, agents, faults>>

DeleteUser ==
    /\ UserMayVanish
    /\ ~userGone
    /\ userGone' = TRUE
    /\ Costs
    /\ UNCHANGED <<qvars, runvars, claims, frozen, charged, returned, transient, event, creator, agents>>

(* GetOutputContent finds the image of a succeeded run gone: it has expired. *)
MarkRunResultLost ==
    /\ status = "succeeded"
    /\ CanTransition(status, "result_lost")
    /\ SetStatus("result_lost")
    /\ output' = FALSE
    /\ UNCHANGED <<qvars, funds, payload, event, creator, agents, faults>>

CNext ==
    \/ CreateNext
    \/ CreateFails
    \/ \E a \in Agents : ResultStep(a) \/ CallFails(a) \/ AgentCrash(a)
    \/ \E w \in Workers :
          \/ ReserveJob(w)
          \/ WorkerStepOf(w)
          \/ StopRequeue(w)
          \/ NotAdmitted(w)
          \/ ExecuteError(w)
          \/ LoseLease(w)
    \/ \E r \in Reconcilers :
          \/ \E o \in Operation : ClaimEvent(r, o)
          \/ ReconcilerStepOf(r)
    \/ MoveDelayed
    \/ RecoverStale
    \/ ExpireLock
    \/ ExpireTransient
    \/ DeleteUser
    \/ MarkRunResultLost

CSpec == CInit /\ [][CNext]_cvars

-----------------------------------------------------------------------------
(* Properties. *)

(***************************************************************************)
(* The hold of a run moves once: it is captured or it is given back, never *)
(* both and never twice, whatever workers and reconcilers run at the same  *)
(* time.  Capture and Release do not look at each other's request id; only *)
(* the status machine keeps them apart.                                    *)
(***************************************************************************)
HoldMovesOnce == charged + returned <= 1 /\ frozen \in {0, 1}

(***************************************************************************)
(* What the user is told matches what the user paid: a succeeded run was   *)
(* captured, a failed one was not, and a lost result is charged exactly if *)
(* the provider's success was recorded.                                    *)
(***************************************************************************)
BillMatchesStatus ==
    /\ status = "succeeded" => charged = 1
    /\ status = "failed" => charged = 0
    /\ status = "result_lost" => charged = (IF recorded THEN 1 ELSE 0)

(***************************************************************************)
(* A run that has not ended is still in somebody's hands: its job is in    *)
(* the queue, an outbox event is open, or its creator goes on, which is of *)
(* no use to a recorded success.  Crashes, stale leases, a second lease of *)
(* the same job and a reconciler that runs ahead of the creator strand no  *)
(* run; only a worker that acknowledges the job of a run that has not      *)
(* ended does.                                                             *)
(***************************************************************************)
OpenRunIsReachable ==
    \/ IsTerminal(status)
    \/ ready > 0 \/ delayed \/ active
    \/ \E o \in Operation : event[o] \notin {"none", "done"}
    \/ creator # "done" /\ ~recorded
    \/ dropped

(* The worker w takes a job it has leased off the queue. *)
Acknowledges(w) == At(w, "ack") /\ Leased(w) /\ ~Leased(w)'

(***************************************************************************)
(* Who acknowledges the job of a run that has not ended: a worker that has *)
(* failed the run, when another one had moved it on, or that has missed    *)
(* its user.  A settlement is never given up like that.                    *)
(***************************************************************************)
OnlyFailureDrops ==
    [][\A w \in Workers :
          Acknowledges(w) => IsTerminal(status) \/ goal[w] \in {"failed", "user_missing"}]_cvars

(***************************************************************************)
(* docs/domains/creative_studio.md:139: "绝不 ACK 非终态任务", a job is    *)
(* never acknowledged before its run has ended.                            *)
(***************************************************************************)
AckedIsTerminal == [][\A w \in Workers : Acknowledges(w) => IsTerminal(status)]_cvars

(***************************************************************************)
(* A run that ends without a recorded success keeps no hold once CreateRun *)
(* has returned.                                                           *)
(***************************************************************************)
FailureFreesHold == IsTerminal(status) /\ ~recorded /\ creator = "done" => frozen = 0
=============================================================================
