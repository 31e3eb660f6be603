---------------------------- MODULE Fulfillment ----------------------------
(***************************************************************************)
(* payment.Fulfillment: a payment notification moves the order, a paid     *)
(* order is fulfilled under a time-limited lease, and the entitlement (a   *)
(* balance credit through a redeem code, or a subscription) is granted.    *)
(* Each action of a worker is one database access of the handler, so that  *)
(* other workers may run between any two of them.  Handlers end in tail    *)
(* calls, so a worker needs no stack: its program counter and the values   *)
(* it read are enough.                                                     *)
(***************************************************************************)
EXTENDS OrderStore, PaymentProvider

CONSTANTS
    RebateEnabled,  \* the affiliate rebate switch
    MaxFaults       \* bound on crashes and failing calls in a behaviour

ASSUME RebateAssumption == RebateEnabled \in BOOLEAN
ASSUME FaultsAssumption == MaxFaults \in Nat

VARIABLES
    orderType,  \* "balance" or "subscription"
    checkout,   \* the checkout request is "creating" the payment or "returned"
    code,       \* the order's redeem code row: none, unused or used
    subRow,     \* a user_subscriptions row with this source_order_id exists
    granted,    \* how many times the entitlement was given to the user
    rebates,    \* how many times the inviter was credited for this order
    audits,     \* audit actions recorded for the order
    notices,    \* success mails sent
    pc,         \* next database access of each worker
    msg,        \* notification or query answer a worker is applying
    seen,       \* order status a worker read last
    tries,      \* iterations of the retry loop a worker is in
    faults      \* faults so far

orderVars == <<orderType, checkout>>
entitlementVars == <<orderVars, code, subRow, granted, rebates, audits, notices>>
workerVars == <<pc, msg, seen, tries, faults>>
fvars == <<rowVars, providerVars, entitlementVars, workerVars>>

\* Mutant of SuccessAttempts: one retry only.
OneRetry == 2

SuccessAttempts == 5
FailureAttempts == 3

\* Steps a worker takes while it believes to hold the lease.
LeasedSteps == {"lookup", "create", "redeem", "checkAssigned", "assign",
                "auditAssigned", "rebate", "complete"}
\* (A worker reaches "handle" in OrderLifecycle only.)
FulfillmentSteps ==
    {"idle", "handle", "toPaid", "markProcessing", "markPaymentFailed",
     "execute", "claim", "readLease", "notify", "markFailed"} \cup LeasedSteps

\* Kept apart from FTypeOK so that OrderLifecycle can widen pc and msg.
EntitlementTypeOK ==
    /\ orderType \in {"balance", "subscription"}
    /\ checkout \in {"creating", "returned"}
    /\ code \in {"none", "unused", "used"}
    /\ subRow \in BOOLEAN
    /\ granted \in Nat
    /\ rebates \in Nat
    /\ notices \in Nat
    /\ audits \subseteq {"SUBSCRIPTION_ASSIGNED", "SUCCESS"}

FInit ==
    /\ RowInit
    /\ ProviderInit
    /\ orderType \in {"balance", "subscription"}
    /\ checkout = "creating"
    /\ code = "none"
    /\ subRow = FALSE
    /\ granted = 0
    /\ rebates = 0
    /\ audits = {}
    /\ notices = 0
    /\ pc = [w \in Workers |-> "idle"]
    /\ msg = [w \in Workers |-> "none"]
    /\ seen = [w \in Workers |-> "none"]
    /\ tries = [w \in Workers |-> 0]
    /\ faults = 0

-----------------------------------------------------------------------------
(* Control of a worker. *)

\* The worker goes on to step l and keeps what it has read.
Goto(w, l) ==
    /\ pc' = [pc EXCEPT ![w] = l]
    /\ UNCHANGED <<msg, seen, tries>>

\* The worker enters step l having read status s, t iterations into a loop;
\* the notification has served its purpose.
Enter(w, l, s, t) ==
    /\ pc' = [pc EXCEPT ![w] = l]
    /\ msg' = [msg EXCEPT ![w] = "none"]
    /\ seen' = [seen EXCEPT ![w] = s]
    /\ tries' = [tries EXCEPT ![w] = t]

\* The worker makes the tail call l, or returns; its local variables are gone.
Call(w, l) == Enter(w, l, "none", 0)
Return(w) == Call(w, "idle")

Fault ==
    /\ faults < MaxFaults
    /\ faults' = faults + 1

-----------------------------------------------------------------------------
(* The end of the checkout request that created the order. *)

\* Neither update compares the status.
EndCheckout(s) ==
    /\ checkout = "creating"
    /\ checkout' = "returned"
    /\ UpdateRow(s)
    /\ UNCHANGED <<paidAt, providerVars, orderType, code, subRow, granted, rebates,
                   audits, notices, workerVars>>

\* PersistCheckoutResponse: the channel's answer is saved.
PersistCheckoutResponse == EndCheckout(status)

\* FailCheckout: CreatePayment or the save failed.  The payment may exist at
\* the channel all the same.
FailCheckout == EndCheckout("FAILED")

\* The request dies, or the update of FailCheckout fails too, which
\* CreateOrder ignores: the order stays as it is.
AbandonCheckout ==
    /\ checkout = "creating"
    /\ Fault
    /\ checkout' = "returned"
    /\ UNCHANGED <<rowVars, providerVars, orderType, code, subRow, granted, rebates,
                   audits, notices, pc, msg, seen, tries>>

-----------------------------------------------------------------------------
(* Entry points. *)

\* RetryFulfillment, called by an administrator.
RetryFulfillment(w) ==
    /\ pc[w] = "idle"
    /\ paidAt
    /\ status \in FulfillableStatus
    /\ Goto(w, "execute")
    /\ UNCHANGED <<rowVars, providerVars, entitlementVars, faults>>

\* ReconcilePaidFulfillmentOrders, run by the background reconciler.
ReconcilePaidFulfillment(w) ==
    /\ pc[w] = "idle"
    /\ Recoverable
    /\ Goto(w, "execute")
    /\ UNCHANGED <<rowVars, providerVars, entitlementVars, faults>>

-----------------------------------------------------------------------------
(* Payment notifications and the status changes they make. *)

\* Mutant of HandlePaymentNotification: the amount is not compared.
AcceptAnyAmount(w, n) ==
    \/ n \in {"paid", "mismatch"} /\ Enter(w, "toPaid", status, 0)
    \/ n = "processing" /\ Enter(w, "markProcessing", status, 0)
    \/ n = "failed" /\ Enter(w, "markPaymentFailed", status, 0)

\* Find the order, check the notification against it and dispatch.  An
\* amount that is not the order's is refused by ConfirmPayment.
HandlePaymentNotification(w, n) ==
    \/ n = "paid" /\ Enter(w, "toPaid", status, 0)
    \/ n = "processing" /\ Enter(w, "markProcessing", status, 0)
    \/ n = "failed" /\ Enter(w, "markPaymentFailed", status, 0)
    \/ n = "mismatch" /\ Return(w)

\* A webhook delivers an emitted notification that passed verification.
Webhook(w) ==
    /\ pc[w] = "idle"
    /\ \E n \in notes : HandlePaymentNotification(w, n)
    /\ UNCHANGED <<rowVars, providerVars, entitlementVars, faults>>

MarkPaymentProcessing(w) ==
    /\ pc[w] = "markProcessing"
    /\ IF seen[w] = "PENDING" /\ CanTransition({"PENDING"})
         THEN UpdateRow("PROCESSING") /\ UNCHANGED paidAt
         ELSE UNCHANGED rowVars
    /\ Return(w)
    /\ UNCHANGED <<providerVars, entitlementVars, faults>>

\* One iteration of the loop of MarkPaymentFailed.
MarkPaymentFailed(w) ==
    /\ pc[w] = "markPaymentFailed"
    /\ \/ /\ seen[w] \notin {"PENDING", "PROCESSING"}
          /\ Return(w)
          /\ UNCHANGED rowVars
       \/ /\ seen[w] \in {"PENDING", "PROCESSING"}
          /\ CanTransition({seen[w]})
          /\ UpdateRow("EXPIRED")
          /\ Return(w)
          /\ UNCHANGED paidAt
       \/ /\ seen[w] \in {"PENDING", "PROCESSING"}
          /\ ~CanTransition({seen[w]})
          /\ IF tries[w] + 1 < FailureAttempts
               THEN Enter(w, "markPaymentFailed", status, tries[w] + 1)
               ELSE Return(w)
          /\ UNCHANGED rowVars
    /\ UNCHANGED <<providerVars, entitlementVars, faults>>

\* One iteration of the loop of ToPaid: a late success also recovers an
\* expired or cancelled order.
ToPaid(w) ==
    /\ pc[w] = "toPaid"
    /\ \/ /\ seen[w] \in UnpaidStatus
          /\ CanTransition({seen[w]})
          /\ UpdateRow("PAID")
          /\ paidAt' = TRUE
          /\ Call(w, "execute")
       \/ /\ seen[w] \in UnpaidStatus
          /\ ~CanTransition({seen[w]})
          /\ IF tries[w] + 1 < SuccessAttempts
               THEN Enter(w, "toPaid", status, tries[w] + 1)
               ELSE Return(w)
          /\ UNCHANGED rowVars
       \/ /\ seen[w] \in FulfillableStatus
          /\ Call(w, "execute")
          /\ UNCHANGED rowVars
       \/ /\ seen[w] \notin UnpaidStatus \cup FulfillableStatus
          /\ Return(w)
          /\ UNCHANGED rowVars
    /\ UNCHANGED <<providerVars, entitlementVars, faults>>

-----------------------------------------------------------------------------
(* ExecuteFulfillment: the lease. *)

\* ExecuteBalanceFulfillment and ExecuteSubscriptionFulfillment read the order.
ExecuteFulfillment(w) ==
    /\ pc[w] = "execute"
    /\ IF status \in FulfillableStatus THEN Goto(w, "claim") ELSE Return(w)
    /\ UNCHANGED <<rowVars, providerVars, entitlementVars, faults>>

\* First access of AcquirePaymentFulfillmentLease: claim the order.
ClaimFulfillment(w) ==
    /\ pc[w] = "claim"
    /\ IF CanClaim
         THEN /\ UpdateRow("RECHARGING")
              /\ Goto(w, "readLease")
              /\ UNCHANGED paidAt
         ELSE /\ Return(w)
              /\ UNCHANGED rowVars
    /\ UNCHANGED <<providerVars, entitlementVars, faults>>

\* Second access: read updated_at back as the version of the lease.
ReadLease(w) ==
    /\ pc[w] = "readLease"
    /\ IF status = "RECHARGING"
         THEN /\ holders' = holders \cup {w}
              /\ Goto(w, IF orderType = "balance" THEN "lookup" ELSE "checkAssigned")
              /\ UNCHANGED <<status, paidAt, age>>
         ELSE /\ Return(w)
              /\ UNCHANGED rowVars
    /\ UNCHANGED <<providerVars, entitlementVars, faults>>

-----------------------------------------------------------------------------
(* DoBalance *)

\* Mutant of LookupCode: an existing code counts as redeemed.
LookupSkipsUnused(w) ==
    /\ pc[w] = "lookup"
    /\ Goto(w, IF code = "none" THEN "create" ELSE "rebate")
    /\ UNCHANGED <<rowVars, providerVars, entitlementVars, faults>>

\* ResolveRedeemAction; a failing lookup counts as a missing code.
LookupCode(w) ==
    /\ pc[w] = "lookup"
    /\ \/ /\ UNCHANGED faults
          /\ Goto(w, CASE code = "none"   -> "create"
                       [] code = "unused" -> "redeem"
                       [] code = "used"   -> "rebate")
       \/ Fault /\ Goto(w, "create")
    /\ UNCHANGED <<rowVars, providerVars, entitlementVars>>

\* CreateCode; codes are unique, so a second insert fails.
CreateCode(w) ==
    /\ pc[w] = "create"
    /\ IF code = "none"
         THEN code' = "unused" /\ Goto(w, "redeem")
         ELSE UNCHANGED code /\ Goto(w, "markFailed")
    /\ UNCHANGED <<rowVars, providerVars, orderVars, subRow, granted, rebates,
                   audits, notices, faults>>

\* Mutant of Redeem: the state of the code is not checked under its lock.
RedeemAgain(w) ==
    /\ pc[w] = "redeem"
    /\ code' = "used"
    /\ granted' = granted + 1
    /\ Goto(w, "rebate")
    /\ UNCHANGED <<rowVars, providerVars, orderVars, subRow, rebates, audits,
                   notices, faults>>

\* Redeem: one transaction under the row lock of the code.  The code is read
\* again after the commit, and that read may fail.
Redeem(w) ==
    /\ pc[w] = "redeem"
    /\ IF code = "unused"
         THEN /\ code' = "used"
              /\ granted' = granted + 1
              /\ \/ Goto(w, "rebate") /\ UNCHANGED faults
                 \/ Goto(w, "markFailed") /\ Fault
         ELSE /\ Goto(w, "markFailed")
              /\ UNCHANGED <<code, granted, faults>>
    /\ UNCHANGED <<rowVars, providerVars, orderVars, subRow, rebates, audits, notices>>

-----------------------------------------------------------------------------
(* DoSub *)

\* The audit lookup; a failing lookup counts as a missing record.
CheckAssigned(w) ==
    /\ pc[w] = "checkAssigned"
    /\ \/ /\ Goto(w, IF audits # {} THEN "rebate" ELSE "assign")
          /\ UNCHANGED faults
       \/ Fault /\ Goto(w, "assign")
    /\ UNCHANGED <<rowVars, providerVars, entitlementVars>>

\* Mutant of AssignOrExtendSubscription: source_order_id is not looked up.
AssignAgain(w) ==
    /\ pc[w] = "assign"
    /\ subRow' = TRUE
    /\ granted' = granted + 1
    /\ Goto(w, "auditAssigned")
    /\ UNCHANGED <<rowVars, providerVars, orderVars, code, rebates, audits,
                   notices, faults>>

\* AssignOrExtendSubscription: under the user's row lock a subscription that
\* already carries this source_order_id is reused.
AssignOrExtendSubscription(w) ==
    /\ pc[w] = "assign"
    /\ IF subRow
         THEN UNCHANGED <<subRow, granted>>
         ELSE subRow' = TRUE /\ granted' = granted + 1
    /\ Goto(w, "auditAssigned")
    /\ UNCHANGED <<rowVars, providerVars, orderVars, code, rebates, audits,
                   notices, faults>>

\* Mutant of AuditAssigned: the record has a name no lookup knows.
AuditUnderOtherName(w) ==
    /\ pc[w] = "auditAssigned"
    /\ audits' = audits \cup {"SUBSCRIPTION_GRANTED"}
    /\ Goto(w, "rebate")
    /\ UNCHANGED <<rowVars, providerVars, orderVars, code, subRow, granted,
                   rebates, notices, faults>>

\* The best-effort audit record of the assignment.
AuditAssigned(w) ==
    /\ pc[w] = "auditAssigned"
    /\ \/ audits' = audits \cup {"SUBSCRIPTION_ASSIGNED"} /\ UNCHANGED faults
       \/ UNCHANGED audits /\ Fault
    /\ Goto(w, "rebate")
    /\ UNCHANGED <<rowVars, providerVars, orderVars, code, subRow, granted,
                   rebates, notices>>

-----------------------------------------------------------------------------
(* Shared tail of DoBalance and DoSub. *)

\* ApplyAffiliateRebateForOrder: the claim of the audit record and the
\* accrual are one transaction, and the record is unique per order.
ApplyRebate(w) ==
    /\ pc[w] = "rebate"
    /\ rebates' = IF RebateEnabled /\ rebates = 0 THEN 1 ELSE rebates
    /\ Goto(w, "complete")
    /\ UNCHANGED <<rowVars, providerVars, orderVars, code, subRow, granted,
                   audits, notices, faults>>

MarkCompleted(w) ==
    /\ pc[w] = "complete"
    /\ \/ /\ CanTransitionAs(w, {"RECHARGING"})
          /\ UpdateRow("COMPLETED")
          /\ Goto(w, "notify")
          /\ UNCHANGED paidAt
       \/ /\ ~CanTransitionAs(w, {"RECHARGING"})
          /\ IF status = "COMPLETED" THEN Return(w) ELSE Goto(w, "markFailed")
          /\ UNCHANGED rowVars
    /\ UNCHANGED <<providerVars, entitlementVars, faults>>

\* The success record and mail of MarkCompleted.  When the audit lookup or
\* the audit insert fails, the mail is sent all the same.
NotifyCompleted(w) ==
    /\ pc[w] = "notify"
    /\ \/ /\ audits' = audits \cup {"SUCCESS"}
          /\ notices' = IF "SUCCESS" \in audits THEN notices ELSE notices + 1
          /\ UNCHANGED faults
       \/ Fault /\ notices' = notices + 1 /\ UNCHANGED audits
    /\ Return(w)
    /\ UNCHANGED <<rowVars, providerVars, orderVars, code, subRow, granted, rebates>>

\* Mutant of MarkFailed: the status and the lease version are not compared.
MarkFailedAnyway(w) ==
    /\ pc[w] = "markFailed"
    /\ UpdateRow("FAILED") /\ UNCHANGED paidAt
    /\ Return(w)
    /\ UNCHANGED <<providerVars, entitlementVars, faults>>

\* MarkFailed: only the holder of the current lease version may fail it.
MarkFailed(w) ==
    /\ pc[w] = "markFailed"
    /\ IF CanTransitionAs(w, {"RECHARGING"})
         THEN UpdateRow("FAILED") /\ UNCHANGED paidAt
         ELSE UNCHANGED rowVars
    /\ Return(w)
    /\ UNCHANGED <<providerVars, entitlementVars, faults>>

-----------------------------------------------------------------------------
(* Failures. *)

\* A call made under the lease fails without effect: the handler goes on to
\* MarkFailed.
LeasedStepFails(w) ==
    /\ pc[w] \in LeasedSteps
    /\ Fault
    /\ Goto(w, "markFailed")
    /\ UNCHANGED <<rowVars, providerVars, entitlementVars>>

\* The process stops, the context is cancelled, or a call outside the lease
\* fails: nothing further is done.
Abort(w) ==
    /\ pc[w] # "idle"
    /\ Fault
    /\ Return(w)
    /\ UNCHANGED <<rowVars, providerVars, entitlementVars>>

-----------------------------------------------------------------------------
\* The step a running worker takes when no call fails for good.
FWorkerStep(w) ==
    \/ MarkPaymentProcessing(w)
    \/ MarkPaymentFailed(w)
    \/ ToPaid(w)
    \/ ExecuteFulfillment(w)
    \/ ClaimFulfillment(w)
    \/ ReadLease(w)
    \/ LookupCode(w)
    \/ CreateCode(w)
    \/ Redeem(w)
    \/ CheckAssigned(w)
    \/ AssignOrExtendSubscription(w)
    \/ AuditAssigned(w)
    \/ ApplyRebate(w)
    \/ MarkCompleted(w)
    \/ NotifyCompleted(w)
    \/ MarkFailed(w)

\* Time passes.  A worker that is silent for the whole lease duration has
\* stalled, which counts as a fault.
TimePasses ==
    /\ Tick
    /\ IF /\ status = "RECHARGING"
          /\ age + 1 = FulfillmentLeaseDuration
          /\ \E w \in Workers : pc[w] \in LeasedSteps \cup {"readLease", "markFailed"}
         THEN Fault
         ELSE UNCHANGED faults
    /\ UNCHANGED <<providerVars, entitlementVars, pc, msg, seen, tries>>

\* The buyer learns where to pay from the answer of CreateOrder, which is sent
\* after PersistCheckoutResponse; queries and cancellations do not wait for it.
FEnvironment ==
    \/ PersistCheckoutResponse
    \/ FailCheckout
    \/ AbandonCheckout
    \/ /\ checkout = "returned"
       /\ ProviderNext
       /\ UNCHANGED <<rowVars, entitlementVars, workerVars>>
    \/ TimePasses

FNext ==
    \/ FEnvironment
    \/ \E w \in Workers :
          \/ Webhook(w)
          \/ RetryFulfillment(w)
          \/ ReconcilePaidFulfillment(w)
          \/ FWorkerStep(w)
          \/ LeasedStepFails(w)
          \/ Abort(w)

FSpec == FInit /\ [][FNext]_fvars

-----------------------------------------------------------------------------
(* Fairness: running goroutines go on, time passes, and the background      *)
(* reconciler keeps ticking on a goroutine of its own.  Faults are finitely *)
(* many (MaxFaults).                                                        *)

FBackground ==
    /\ \A w \in Workers : WF_fvars(FWorkerStep(w))
    /\ WF_fvars(TimePasses)
    /\ SF_fvars(\E w \in Workers : ReconcilePaidFulfillment(w))

FBackgroundSpec == FSpec /\ FBackground

\* The channel also redelivers a success that was not acknowledged; the
\* handler returns without an error only when the order is complete.
DeliverSuccess(w) == status # "COMPLETED" /\ Webhook(w) /\ pc'[w] = "toPaid"

FFairSpec == FBackgroundSpec /\ SF_fvars(\E w \in Workers : DeliverSuccess(w))

-----------------------------------------------------------------------------
(* Properties. *)

\* A recorded payment is delivered by the background reconciler alone,
\* whichever worker crashed, failed or stalled under the lease meanwhile and
\* whether or not the channel ever calls again.
RecordedIsDelivered == paidAt ~> status = "COMPLETED"

\* The promise to the buyer, with the payment settled at the channel and
\* the status COMPLETED as the closed order.
Promise == INSTANCE EntitlementDelivery
    WITH funded <- (upstream = "paid"), deliveries <- granted,
         closed <- (status = "COMPLETED")

\* Fulfillment, with its leases, retries and faults, implements the promise:
\* every step is a step of the promise or invisible to it, and a payment is
\* eventually delivered and the order closed, whatever the order's status
\* was when the money arrived.
KeepsPromise == Promise!DSpec

\* "A stuck RECHARGING past the lease can be taken over": an order whose
\* fulfillment has begun is completed by the background reconciler.
BegunIsDelivered == status = "RECHARGING" ~> status = "COMPLETED"

\* Types of the fulfillment state on its own.
FTypeOK ==
    /\ RowTypeOK
    /\ ProviderTypeOK
    /\ EntitlementTypeOK
    /\ pc \in [Workers -> FulfillmentSteps]
    /\ msg \in [Workers -> Notification \cup {"none"}]
    /\ seen \in [Workers -> OrderStatus \cup {"none"}]
    /\ tries \in [Workers -> Nat]
    /\ faults \in 0 .. MaxFaults
===========================================================================
