--------------------------- MODULE OrderLifecycle ---------------------------
(***************************************************************************)
(* payment.OrderLifecycle: cancellation, expiry, forced expiry, active     *)
(* verification and the background reconciliation of an order, composed    *)
(* with the fulfillment it calls.  A handler reads the order, queries the  *)
(* channel, perhaps asks it to close the payment, and only then changes    *)
(* the row; anything may happen between these steps.                       *)
(***************************************************************************)
EXTENDS Fulfillment

VARIABLES
    cancelable, \* the channel supports CancelPayment
    due,        \* expires_at has passed
    cancelFailed, \* a PAYMENT_CANCEL_FAILED audit record exists
    missed,     \* history: a request to close the payment found no trade
    goal        \* what each worker's lifecycle handler is doing

lifecycleVars == <<cancelable, due, cancelFailed, missed, goal>>
vars == <<fvars, lifecycleVars>>

\* CancelCore runs for a cancellation or an expiry; the others only look.
CancelGoal == {"CANCELLED", "EXPIRED"}
Goal == CancelGoal \cup {"none", "verify", "reconcile"}

LifecycleSteps == {"query", "apply", "saveTrade", "cancelUpstream", "requery",
                   "reapply", "finalize", "recordFailure"}
Answer == Notification \cup {"none", "pending", "invalid"}

TypeOK ==
    /\ RowTypeOK
    /\ ProviderTypeOK
    /\ EntitlementTypeOK
    /\ cancelable \in BOOLEAN
    /\ due \in BOOLEAN
    /\ cancelFailed \in BOOLEAN
    /\ missed \in BOOLEAN
    /\ goal \in [Workers -> Goal]
    /\ pc \in [Workers -> FulfillmentSteps \cup LifecycleSteps]
    /\ msg \in [Workers -> Answer]
    /\ seen \in [Workers -> OrderStatus \cup {"none"}]
    /\ tries \in [Workers -> Nat]
    /\ faults \in 0 .. MaxFaults

Init ==
    /\ FInit
    /\ cancelable \in BOOLEAN
    /\ due = FALSE
    /\ cancelFailed = FALSE
    /\ missed = FALSE
    /\ goal = [w \in Workers |-> "none"]

-----------------------------------------------------------------------------
(* Entry points: what makes a handler look at the channel. *)

\* A handler for goal g starts by querying the channel.
Begin(w, g) ==
    /\ pc[w] = "idle"
    /\ goal' = [goal EXCEPT ![w] = g]
    /\ Goto(w, "query")
    /\ UNCHANGED <<rowVars, providerVars, entitlementVars, faults,
                   cancelable, due, cancelFailed, missed>>

\* CancelOrder and AdminCancelOrder.
CancelOrder(w) ==
    /\ status = "PENDING"
    /\ Begin(w, "CANCELLED")

\* Mutant of ExpireTimedOutOrder: a failed cancellation is never tried again.
ExpireOnlyOnce(w) ==
    /\ status = "PENDING" /\ due
    /\ ~cancelFailed
    /\ Begin(w, "EXPIRED")

\* ExpireTimedOutOrders with the back-off of ShouldRetryTimedOutOrder.
ExpireTimedOutOrder(w) ==
    /\ status = "PENDING" /\ due
    /\ cancelFailed => age >= PaymentExpiryRetryDelay
    /\ Begin(w, "EXPIRED")

\* VerifyOrderByOutTradeNo, and ReconcilePendingPaymentOrders for pending
\* orders that have not expired.
CheckPaid(w) ==
    /\ status \in {"PENDING", "EXPIRED"}
    /\ Begin(w, "verify")

ReconcileProcessingOrder(w) ==
    /\ status = "PROCESSING"
    /\ Begin(w, "reconcile")

\* ForceExpireOrder: one transaction, no access to the channel.
ForceExpireOrder ==
    /\ CanTransition({"PENDING"})
    /\ UpdateRow("EXPIRED")
    /\ UNCHANGED <<paidAt, providerVars, entitlementVars, workerVars, lifecycleVars>>

-----------------------------------------------------------------------------
(* The query and what is done with the answer. *)

\* The lifecycle handler is over; the row is left alone.
EndLifecycle(w) ==
    /\ Return(w)
    /\ goal' = [goal EXCEPT ![w] = "none"]

\* The lifecycle handler ends in a call of HandlePaymentNotification.
Notify(w, m) ==
    /\ pc' = [pc EXCEPT ![w] = "handle"]
    /\ msg' = [msg EXCEPT ![w] = m]
    /\ goal' = [goal EXCEPT ![w] = "none"]
    /\ UNCHANGED <<seen, tries>>

\* A query that fails: CancelCore records it, the others only log it.
QueryFails(w) ==
    /\ Fault
    /\ IF goal[w] \in CancelGoal
         THEN Goto(w, "recordFailure") /\ UNCHANGED goal
         ELSE EndLifecycle(w)

\* QueryPaymentOrderProvider
QueryProvider(w) ==
    /\ pc[w] = "query"
    /\ \/ /\ \E a \in QueryAnswers : msg' = [msg EXCEPT ![w] = a]
          /\ pc' = [pc EXCEPT ![w] = "apply"]
          /\ UNCHANGED <<seen, tries, faults, goal>>
       \/ QueryFails(w)
    /\ UNCHANGED <<rowVars, providerVars, entitlementVars, cancelable, due, cancelFailed, missed>>

\* RequeryPaidOrderOnce after an invalid amount: a valid answer is applied,
\* anything else leaves the state of the payment uncertain.
RequeryPaidOrderOnce(w) ==
    \/ /\ upstream \in {"paid", "mismatch"}
       /\ msg' = [msg EXCEPT ![w] = upstream]
       /\ pc' = [pc EXCEPT ![w] = "saveTrade"]
       /\ UNCHANGED <<seen, tries, faults, goal>>
    \/ QueryFails(w)

\* ApplyQueriedPaymentStatus followed by the caller's switch on its outcome;
\* `open' is what the caller does when the payment is still open.
ApplyQueriedPaymentStatus(w, open) ==
    \/ /\ msg[w] \in {"paid", "mismatch"}
       /\ Goto(w, "saveTrade")
       /\ UNCHANGED <<faults, goal>>
    \/ /\ msg[w] = "invalid"
       /\ RequeryPaidOrderOnce(w)
    \/ /\ msg[w] = "processing"
       /\ Notify(w, "processing")
       /\ UNCHANGED faults
    \/ /\ msg[w] = "failed"
       /\ CASE goal[w] \in CancelGoal -> Call(w, "finalize") /\ UNCHANGED goal
            [] goal[w] = "reconcile"  -> Enter(w, "markPaymentFailed", "PROCESSING", 0)
                                         /\ goal' = [goal EXCEPT ![w] = "none"]
            [] goal[w] = "verify"     -> EndLifecycle(w)
       /\ UNCHANGED faults
    \/ /\ msg[w] = "pending"
       /\ IF goal[w] \in CancelGoal
            THEN Call(w, open) /\ UNCHANGED goal
            ELSE EndLifecycle(w)
       /\ UNCHANGED faults

\* Mutant of ApplyFirstAnswer: the payment is not closed at the channel.
FinalizeWithoutCancel(w) ==
    /\ pc[w] = "apply"
    /\ ApplyQueriedPaymentStatus(w, "finalize")
    /\ UNCHANGED <<rowVars, providerVars, entitlementVars, cancelable, due, cancelFailed, missed>>

\* The answer to the first query; an open payment is closed at the channel
\* first when the channel can do that.
ApplyFirstAnswer(w) ==
    /\ pc[w] = "apply"
    /\ ApplyQueriedPaymentStatus(w, IF cancelable THEN "cancelUpstream" ELSE "finalize")
    /\ UNCHANGED <<rowVars, providerVars, entitlementVars, cancelable, due, cancelFailed, missed>>

\* SaveUpstreamTradeNumber runs before the success is handled when the
\* channel names another trade number; it has no status condition.
SaveUpstreamTradeNumber(w) ==
    /\ pc[w] = "saveTrade"
    /\ \/ UpdateRow(status) /\ UNCHANGED paidAt
       \/ UNCHANGED rowVars
    /\ Notify(w, msg[w])
    /\ UNCHANGED <<providerVars, entitlementVars, faults, cancelable, due, cancelFailed, missed>>

-----------------------------------------------------------------------------
(* The rest of CancelCore. *)

\* CancelPayment at the channel: an open payment is closed, a payment that
\* has moved on is not; an error may hide either outcome.  A trade that the
\* channel does not know counts as closed, although the buyer can still open
\* and pay it.
CancelPayment(w) ==
    /\ pc[w] = "cancelUpstream"
    /\ \/ /\ upstream = "absent"
          /\ missed' = TRUE
          /\ Goto(w, "finalize")
          /\ UNCHANGED <<upstream, faults>>
       \/ /\ upstream \in {"unpaid", "failed", "closed"}
          /\ upstream' = "closed"
          /\ Goto(w, "finalize")
          /\ UNCHANGED <<faults, missed>>
       \/ /\ upstream \in {"absent", "unpaid", "failed", "closed"}
          /\ upstream' \in {upstream, IF upstream = "absent" THEN "absent" ELSE "closed"}
          /\ Goto(w, "requery")
          /\ Fault
          /\ UNCHANGED missed
       \/ /\ upstream \in {"processing", "paid", "mismatch"}
          /\ Goto(w, "requery")
          /\ UNCHANGED <<upstream, faults, missed>>
    /\ UNCHANGED <<notes, rowVars, entitlementVars, cancelable, due, cancelFailed, goal>>

\* The second query after a failed cancellation.
RequeryAfterCancel(w) ==
    /\ pc[w] = "requery"
    /\ \/ /\ \E a \in QueryAnswers : msg' = [msg EXCEPT ![w] = a]
          /\ pc' = [pc EXCEPT ![w] = "reapply"]
          /\ UNCHANGED <<seen, tries, faults, goal>>
       \/ QueryFails(w)
    /\ UNCHANGED <<rowVars, providerVars, entitlementVars, cancelable, due, cancelFailed, missed>>

\* An answer that settles nothing is recorded as a failed cancellation.
ApplySecondAnswer(w) ==
    /\ pc[w] = "reapply"
    /\ ApplyQueriedPaymentStatus(w, "recordFailure")
    /\ UNCHANGED <<rowVars, providerVars, entitlementVars, cancelable, due, cancelFailed, missed>>

\* Mutants of FinalizePendingOrder: the status is not compared; the target
\* status is cleared before it is written.
FinalizeAnyStatus(w) ==
    /\ pc[w] = "finalize"
    /\ UpdateRow(goal[w]) /\ UNCHANGED paidAt
    /\ EndLifecycle(w)
    /\ UNCHANGED <<providerVars, entitlementVars, faults, cancelable, due, cancelFailed, missed>>

FinalizeAfterReset(w) ==
    /\ pc[w] = "finalize"
    /\ EndLifecycle(w)
    /\ IF CanTransition({"PENDING"})
         THEN UpdateRow(goal'[w]) /\ UNCHANGED paidAt
         ELSE UNCHANGED rowVars
    /\ UNCHANGED <<providerVars, entitlementVars, faults, cancelable, due, cancelFailed, missed>>

\* FinalizePendingOrder; losing the race changes nothing.
FinalizePendingOrder(w) ==
    /\ pc[w] = "finalize"
    /\ IF CanTransition({"PENDING"})
         THEN UpdateRow(goal[w]) /\ UNCHANGED paidAt
         ELSE UNCHANGED rowVars
    /\ EndLifecycle(w)
    /\ UNCHANGED <<providerVars, entitlementVars, faults, cancelable, due, cancelFailed, missed>>

\* RecordPaymentCancelFailure: the audit record, then TouchPending.
RecordPaymentCancelFailure(w) ==
    /\ pc[w] = "recordFailure"
    /\ \/ cancelFailed' = TRUE /\ UNCHANGED faults
       \/ UNCHANGED cancelFailed /\ Fault       \* the audit insert failed
    /\ IF CanTransition({"PENDING"})
         THEN UpdateRow("PENDING") /\ UNCHANGED paidAt
         ELSE UNCHANGED rowVars
    /\ EndLifecycle(w)
    /\ UNCHANGED <<providerVars, entitlementVars, cancelable, due, missed>>

\* A handler that queried the channel applies the answer as a notification.
HandleQueriedStatus(w) ==
    /\ pc[w] = "handle"
    /\ HandlePaymentNotification(w, msg[w])
    /\ UNCHANGED <<rowVars, providerVars, entitlementVars, faults>>

-----------------------------------------------------------------------------
\* The expiry time of the order passes.
BecomeDue ==
    /\ ~due
    /\ due' = TRUE
    /\ UNCHANGED <<fvars, cancelable, cancelFailed, missed, goal>>

\* A fault outside the lease ends a lifecycle handler too.
AbortLifecycle(w) ==
    /\ pc[w] \in LifecycleSteps
    /\ Fault
    /\ EndLifecycle(w)
    /\ UNCHANGED <<rowVars, providerVars, entitlementVars, cancelable, due, cancelFailed, missed>>

LifecycleStep(w) ==
    \/ QueryProvider(w)
    \/ ApplyFirstAnswer(w)
    \/ SaveUpstreamTradeNumber(w)
    \/ CancelPayment(w)
    \/ RequeryAfterCancel(w)
    \/ ApplySecondAnswer(w)
    \/ FinalizePendingOrder(w)
    \/ RecordPaymentCancelFailure(w)

\* HandlePaymentNotification and everything after it.
HandlerStep(w) ==
    \/ HandleQueriedStatus(w)
    \/ FWorkerStep(w)

WorkerStep(w) ==
    \/ LifecycleStep(w)
    \/ HandlerStep(w) /\ UNCHANGED lifecycleVars

Next ==
    \/ FEnvironment /\ UNCHANGED lifecycleVars
    \/ BecomeDue
    \/ ForceExpireOrder
    \/ \E w \in Workers :
          \/ CancelOrder(w)
          \/ ExpireTimedOutOrder(w)
          \/ CheckPaid(w)
          \/ ReconcileProcessingOrder(w)
          \/ Webhook(w) /\ UNCHANGED lifecycleVars
          \/ RetryFulfillment(w) /\ UNCHANGED lifecycleVars
          \/ ReconcilePaidFulfillment(w) /\ UNCHANGED lifecycleVars
          \/ WorkerStep(w)
          \/ LeasedStepFails(w) /\ UNCHANGED lifecycleVars
          \/ pc[w] \notin LifecycleSteps /\ Abort(w) /\ UNCHANGED lifecycleVars
          \/ AbortLifecycle(w)

Spec == Init /\ [][Next]_vars

-----------------------------------------------------------------------------
(* Fairness: running goroutines go on, time passes, and the background     *)
(* runner keeps looking for overdue orders and for payments that are not   *)
(* delivered, on a goroutine of its own.  Faults are finitely many         *)
(* (MaxFaults).                                                            *)

Fairness ==
    /\ \A w \in Workers : WF_vars(WorkerStep(w))
    /\ WF_vars(TimePasses /\ UNCHANGED lifecycleVars)
    /\ SF_vars(\E w \in Workers : ExpireTimedOutOrder(w))
    /\ SF_vars(\E w \in Workers : ReconcilePaidFulfillment(w) /\ UNCHANGED lifecycleVars)

FairSpec == Spec /\ Fairness

-----------------------------------------------------------------------------
(* Properties. *)

\* However many webhooks, verifications, retries and reconcilers race, and
\* wherever they crash, the order's entitlement is granted, its inviter
\* rewarded and its buyer notified at most once.
EffectsAtMostOnce == granted <= 1 /\ rebates <= 1 /\ notices <= 1

\* An entitlement is granted, and an order recorded as paid, only when the
\* channel really settled the amount of the order.
NoGrantWithoutPayment == (paidAt \/ granted > 0) => upstream = "paid"

\* COMPLETED is reached only when the entitlement and, where the switch is
\* on, the inviter's rebate have been delivered: a worker that skips a step
\* because an earlier attempt did it relies on what that attempt left.
CompletedIsDelivered ==
    status = "COMPLETED" => granted = 1 /\ (RebateEnabled => rebates = 1)

\* The retry loops of ToPaid and MarkPaymentFailed never run out of
\* iterations, so a payment result is never dropped because of races.
AttemptsSuffice ==
    \A w \in Workers :
        /\ pc[w] = "toPaid" /\ status # seen[w] => tries[w] + 1 < SuccessAttempts
        /\ pc[w] = "markPaymentFailed" /\ status # seen[w]
              => tries[w] + 1 < FailureAttempts \/ seen[w] \notin {"PENDING", "PROCESSING"}

\* A recorded payment is never lost: no late cancellation, expiry or failure
\* report takes a paid order back to an unpaid status.
PaymentNeverLost == [][paidAt => paidAt' /\ status' \notin UnpaidStatus]_vars

\* A completed order stays completed: neither a worker whose lease was taken
\* over nor a repeated notification moves it.
CompletedIsFinal == [][status = "COMPLETED" => status' = "COMPLETED"]_vars

\* An order is cancelled only after the channel closed its payment, so that
\* no buyer can still pay a cancelled order, whatever notifications, queries
\* and other handlers come in between.  There are three exceptions: a channel
\* that cannot close payments, a channel that reported a failure (taken for
\* the end of the payment), and a request to close that met a trade the
\* channel did not know yet, which CancelPayment takes for a closed one.
ClosedBeforeCancelled ==
    [][/\ status # "CANCELLED" /\ status' = "CANCELLED"
       /\ cancelable /\ "failed" \notin notes /\ ~missed
       => upstream = "closed"]_vars

\* An overdue order does not stay PENDING, unless the amount paid is wrong.
OverdueLeavesPending ==
    status = "PENDING" /\ due ~> status # "PENDING" \/ upstream = "mismatch"

===========================================================================
