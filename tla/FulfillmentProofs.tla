------------------------- MODULE FulfillmentProofs -------------------------
(***************************************************************************)
(* Proofs about Fulfillment, for any set of workers and any number of      *)
(* faults: the invariants that relate what a worker is about to do to the  *)
(* row, the channel and the entitlement, and that fulfillment implements   *)
(* the safety part of EntitlementDelivery.  OrderLifecycle adds steps and  *)
(* answers to the workers, so the lemmas leave the set S of steps and the  *)
(* set M of messages open; OrderLifecycleProofs uses them for the steps    *)
(* that the two specifications share.                                      *)
(***************************************************************************)
EXTENDS Fulfillment, TLAPS

\* The types, with the steps and the messages of a worker left open.
Shape(S, M) ==
    /\ RowTypeOK
    /\ ProviderTypeOK
    /\ EntitlementTypeOK
    /\ pc \in [Workers -> S]
    /\ msg \in [Workers -> M]
    /\ seen \in [Workers -> OrderStatus \cup {"none"}]
    /\ tries \in [Workers -> Nat]
    /\ faults \in 0 .. MaxFaults

\* Steps a worker reaches only with a success of the channel in hand, or on
\* an order whose payment is recorded.
PaidSteps ==
    {"toPaid", "execute", "claim", "readLease", "notify", "markFailed"} \cup LeasedSteps

\* Every trace of a payment, in the row, in a notification or in what a
\* worker is about to do, means that the channel settled the amount.
PaymentInv ==
    /\ paidAt => status \notin UnpaidStatus
    /\ paidAt \/ status \in {"PAID", "RECHARGING", "COMPLETED"} => upstream = "paid"
    /\ "paid" \in notes \/ granted > 0 => upstream = "paid"
    /\ checkout = "creating" => upstream # "paid"
    /\ \A w \in Workers : msg[w] = "paid" \/ pc[w] \in PaidSteps => upstream = "paid"

\* What each step of a fulfillment finds already delivered.
Delivered == code = "used" \/ subRow
Rewarded == RebateEnabled => rebates = 1
StepInv(w) ==
    /\ pc[w] \in {"lookup", "create", "redeem"} => orderType = "balance"
    /\ pc[w] \in {"checkAssigned", "assign", "auditAssigned"} => orderType = "subscription"
    /\ pc[w] \in {"auditAssigned", "rebate", "complete", "notify"} => Delivered
    /\ pc[w] \in {"complete", "notify"} => Rewarded
DeliveryInv ==
    /\ orderType = "balance" => ~subRow
    /\ orderType = "subscription" => code = "none"
    /\ granted = IF Delivered THEN 1 ELSE 0
    /\ rebates \in {0, 1}
    /\ audits # {} => Delivered
    /\ status = "COMPLETED" => Delivered /\ Rewarded
    /\ \A w \in Workers : StepInv(w)

-----------------------------------------------------------------------------
(* Types. *)

\* A fresh order satisfies the types.
LEMMA ShapeInit ==
    ASSUME FInit, NEW S, NEW M, "idle" \in S, "none" \in M
    PROVE  Shape(S, M)
<1>1. RowTypeOK
  <2>1. paidAt \in BOOLEAN
    BY DEF FInit, RowInit
  <2>2. QED
    BY <2>1 DEF FInit, RowInit, RowTypeOK, OrderStatus, UnpaidStatus, Ages,
                PaymentExpiryRetryDelay
<1>2. ProviderTypeOK
  BY DEF FInit, ProviderInit, ProviderTypeOK, UpstreamState
<1>3. EntitlementTypeOK
  BY DEF FInit, EntitlementTypeOK
<1>4. pc \in [Workers -> S] /\ msg \in [Workers -> M]
      /\ seen \in [Workers -> OrderStatus \cup {"none"}]
  BY DEF FInit
<1>5. tries \in [Workers -> Nat] /\ faults \in 0 .. MaxFaults
  BY FaultsAssumption DEF FInit
<1>6. QED  BY <1>1, <1>2, <1>3, <1>4, <1>5 DEF Shape

\* Every step of fulfillment preserves the types.
LEMMA ShapeStep ==
    ASSUME NEW S, NEW M, FulfillmentSteps \subseteq S, "none" \in M, Shape(S, M), [FNext]_fvars
    PROVE  Shape(S, M)'
<1> USE FaultsAssumption
    DEF Shape, RowTypeOK, ProviderTypeOK, EntitlementTypeOK, OrderStatus,
        UnpaidStatus, FulfillableStatus, Ages, PaymentExpiryRetryDelay,
        UpstreamState, Notification, FulfillmentSteps, LeasedSteps,
        rowVars, providerVars, orderVars,
        entitlementVars, workerVars, fvars, Goto, Enter, Call,
        Return, Fault, UpdateRow, CanTransition, CanTransitionAs
<1>1. CASE FEnvironment
  <2>1. ASSUME NEW s \in OrderStatus, EndCheckout(s)
        PROVE  Shape(S, M)'
    BY <2>1 DEF EndCheckout
  <2>2. CASE ProviderNext /\ UNCHANGED <<rowVars, entitlementVars, workerVars>>
    <3>1. ASSUME NEW s \in {"processing", "paid", "mismatch", "failed"}, Report(s)
          PROVE  Shape(S, M)'
      BY <2>2, <3>1 DEF Report
    <3>2. CASE OpenTrade
      BY <2>2, <3>2 DEF OpenTrade
    <3>3. QED
      BY <2>2, <3>1, <3>2 DEF ProviderNext, StartPayment, SettlePayment, FailPayment
  <2>3. CASE TimePasses
    BY <2>3 DEF TimePasses, Tick
  <2>4. CASE AbandonCheckout
    BY <2>4 DEF AbandonCheckout
  <2>5. QED
    BY <1>1, <2>1, <2>2, <2>3, <2>4 DEF FEnvironment, PersistCheckoutResponse, FailCheckout
<1>2. ASSUME NEW w \in Workers, Webhook(w)
      PROVE  Shape(S, M)'
  BY <1>2 DEF Webhook, HandlePaymentNotification
<1>3. ASSUME NEW w \in Workers, RetryFulfillment(w) \/ ReconcilePaidFulfillment(w)
      PROVE  Shape(S, M)'
  <2>1. /\ pc' = [pc EXCEPT ![w] = "execute"]
        /\ UNCHANGED <<rowVars, providerVars, entitlementVars, msg, seen, tries, faults>>
    BY <1>3 DEF RetryFulfillment, ReconcilePaidFulfillment
  <2>2. QED  BY <2>1
<1>4. ASSUME NEW w \in Workers, FWorkerStep(w)
      PROVE  Shape(S, M)'
  <2>1. CASE MarkPaymentProcessing(w)
    BY <2>1 DEF MarkPaymentProcessing
  <2>2. CASE MarkPaymentFailed(w)
    BY <2>2 DEF MarkPaymentFailed
  <2>3. CASE ToPaid(w)
    <3>1. paidAt' \in BOOLEAN
      BY <2>3 DEF ToPaid
    <3>2. QED  BY <2>3, <3>1 DEF ToPaid
  <2>4. CASE ExecuteFulfillment(w)
    BY <2>4 DEF ExecuteFulfillment
  <2>5. CASE ClaimFulfillment(w)
    BY <2>5 DEF ClaimFulfillment
  <2>6. CASE ReadLease(w)
    BY <2>6 DEF ReadLease
  <2>7. CASE LookupCode(w)
    BY <2>7 DEF LookupCode
  <2>8. CASE CreateCode(w)
    BY <2>8 DEF CreateCode
  <2>9. CASE Redeem(w)
    BY <2>9 DEF Redeem
  <2>10. CASE CheckAssigned(w)
    BY <2>10 DEF CheckAssigned
  <2>11. CASE AssignOrExtendSubscription(w)
    <3>1. subRow' \in BOOLEAN
      BY <2>11 DEF AssignOrExtendSubscription
    <3>2. QED  BY <2>11, <3>1 DEF AssignOrExtendSubscription
  <2>12. CASE AuditAssigned(w)
    <3>1. audits' \subseteq {"SUBSCRIPTION_ASSIGNED", "SUCCESS"}
      BY <2>12 DEF AuditAssigned
    <3>2. faults' \in 0 .. MaxFaults
      BY <2>12 DEF AuditAssigned
    <3>3. QED  BY <2>12, <3>1, <3>2 DEF AuditAssigned
  <2>13. CASE ApplyRebate(w)
    BY <2>13 DEF ApplyRebate
  <2>14. CASE NotifyCompleted(w)
    <3>1. audits' \subseteq {"SUBSCRIPTION_ASSIGNED", "SUCCESS"}
      BY <2>14 DEF NotifyCompleted
    <3>2. notices' \in Nat /\ faults' \in 0 .. MaxFaults
      BY <2>14 DEF NotifyCompleted
    <3>3. QED  BY <2>14, <3>1, <3>2 DEF NotifyCompleted
  <2>15. CASE MarkCompleted(w)
    BY <2>15 DEF MarkCompleted
  <2>16. CASE MarkFailed(w)
    BY <2>16 DEF MarkFailed
  <2>17. QED
    BY <1>4, <2>1, <2>2, <2>3, <2>4, <2>5, <2>6, <2>7, <2>8, <2>9, <2>10, <2>11, <2>12,
       <2>13, <2>14, <2>15, <2>16 DEF FWorkerStep
<1>5. ASSUME NEW w \in Workers, LeasedStepFails(w)
      PROVE  Shape(S, M)'
  BY <1>5 DEF LeasedStepFails
<1>6. ASSUME NEW w \in Workers, Abort(w)
      PROVE  Shape(S, M)'
  BY <1>6 DEF Abort
<1>7. CASE UNCHANGED fvars
  BY <1>7
<1>8. QED  BY <1>1, <1>2, <1>3, <1>4, <1>5, <1>6, <1>7 DEF FNext

\* The types of the fulfillment state are invariant: FNext assigns nothing
\* outside them, whichever worker runs into which fault.
THEOREM FTypeCorrect == FSpec => []FTypeOK
<1> DEFINE M == Notification \cup {"none"}
<1>1. FTypeOK <=> Shape(FulfillmentSteps, M)
  BY DEF FTypeOK, Shape
<1>2. FInit => Shape(FulfillmentSteps, M)
  BY ShapeInit DEF FulfillmentSteps
<1>3. Shape(FulfillmentSteps, M) /\ [FNext]_fvars => Shape(FulfillmentSteps, M)'
  BY ShapeStep
<1>4. QED  BY <1>1, <1>2, <1>3, PTL DEF FSpec

-----------------------------------------------------------------------------
(* Payment. *)

\* Nothing has been paid yet.
LEMMA PaymentInit == FInit => PaymentInv
BY DEF FInit, RowInit, ProviderInit, PaymentInv, PaidSteps, LeasedSteps

\* Every trace of a payment goes back to the channel, and stays true because
\* the channel never takes a settled payment back.
LEMMA FPaymentStep ==
    ASSUME NEW S, NEW M, Shape(S, M), PaymentInv, [FNext]_fvars
    PROVE  PaymentInv'
<1> USE DEF Shape, PaymentInv, PaidSteps, LeasedSteps, UnpaidStatus, FulfillableStatus,
            rowVars, providerVars, orderVars, entitlementVars, workerVars, fvars,
            Goto, Enter, Call, Return, UpdateRow, CanTransition, CanTransitionAs
<1>1. CASE FEnvironment
  <2>1. CASE PersistCheckoutResponse
    BY <2>1 DEF PersistCheckoutResponse, EndCheckout
  <2>2. CASE FailCheckout
    BY <2>2 DEF FailCheckout, EndCheckout
  <2>3. CASE /\ checkout = "returned" /\ ProviderNext
             /\ UNCHANGED <<rowVars, entitlementVars, workerVars>>
    BY <2>3 DEF ProviderNext, OpenTrade, StartPayment, SettlePayment, FailPayment, Report
  <2>4. CASE TimePasses
    BY <2>4 DEF TimePasses, Tick
  <2>5. CASE AbandonCheckout
    BY <2>5 DEF AbandonCheckout
  <2>6. QED  BY <1>1, <2>1, <2>2, <2>3, <2>4, <2>5 DEF FEnvironment
<1>2. ASSUME NEW w \in Workers, Webhook(w)
      PROVE  PaymentInv'
  BY <1>2 DEF Webhook, HandlePaymentNotification
<1>3. ASSUME NEW w \in Workers, RetryFulfillment(w)
      PROVE  PaymentInv'
  BY <1>3 DEF RetryFulfillment
<1>4. ASSUME NEW w \in Workers, ReconcilePaidFulfillment(w)
      PROVE  PaymentInv'
  BY <1>4 DEF ReconcilePaidFulfillment, Recoverable
<1>5. ASSUME NEW w \in Workers, FWorkerStep(w)
      PROVE  PaymentInv'
  <2>1. CASE MarkPaymentProcessing(w)
    BY <2>1 DEF MarkPaymentProcessing
  <2>2. CASE MarkPaymentFailed(w)
    BY <2>2 DEF MarkPaymentFailed
  <2>3. CASE ToPaid(w)
    BY <2>3 DEF ToPaid
  <2>4. CASE ExecuteFulfillment(w)
    BY <2>4 DEF ExecuteFulfillment
  <2>5. CASE ClaimFulfillment(w)
    BY <2>5 DEF ClaimFulfillment
  <2>6. CASE ReadLease(w)
    BY <2>6 DEF ReadLease
  <2>7. CASE LookupCode(w)
    BY <2>7 DEF LookupCode
  <2>8. CASE CreateCode(w)
    BY <2>8 DEF CreateCode
  <2>9. CASE Redeem(w)
    BY <2>9 DEF Redeem
  <2>10. CASE CheckAssigned(w)
    BY <2>10 DEF CheckAssigned
  <2>11. CASE AssignOrExtendSubscription(w)
    BY <2>11 DEF AssignOrExtendSubscription
  <2>12. CASE AuditAssigned(w)
    BY <2>12 DEF AuditAssigned
  <2>13. CASE ApplyRebate(w)
    BY <2>13 DEF ApplyRebate
  <2>14. CASE MarkCompleted(w)
    BY <2>14 DEF MarkCompleted
  <2>15. CASE NotifyCompleted(w)
    BY <2>15 DEF NotifyCompleted
  <2>16. CASE MarkFailed(w)
    BY <2>16 DEF MarkFailed
  <2>17. QED
    BY <1>5, <2>1, <2>2, <2>3, <2>4, <2>5, <2>6, <2>7, <2>8, <2>9, <2>10, <2>11, <2>12,
       <2>13, <2>14, <2>15, <2>16 DEF FWorkerStep
<1>6. ASSUME NEW w \in Workers, LeasedStepFails(w)
      PROVE  PaymentInv'
  BY <1>6 DEF LeasedStepFails
<1>7. ASSUME NEW w \in Workers, Abort(w)
      PROVE  PaymentInv'
  BY <1>7 DEF Abort
<1>8. CASE UNCHANGED fvars
  BY <1>8
<1>9. QED  BY <1>1, <1>2, <1>3, <1>4, <1>5, <1>6, <1>7, <1>8 DEF FNext

-----------------------------------------------------------------------------
(* The row only moves forward. *)

\* An UPDATE of this system: the payment stays recorded, and the status stays,
\* gains in rank, or changes among the fulfillment statuses.
RowMoves ==
    /\ paidAt => paidAt'
    /\ \/ status' = status
       \/ status = "PENDING" /\ status' # "PENDING"
       \/ status = "PROCESSING" /\ status' \notin {"PENDING", "PROCESSING"}
       \/ status \in {"EXPIRED", "CANCELLED"} /\ status' \notin UnpaidStatus
       \/ status \in FulfillableStatus /\ status' \notin UnpaidStatus

\* Whatever a worker read before its update, the row moves forward only, and
\* fulfillment cancels nothing.
LEMMA FRowStep ==
    ASSUME RowTypeOK, PaymentInv, [FNext]_fvars
    PROVE  RowMoves /\ (status' = "CANCELLED" => status = "CANCELLED")
<1> USE DEF RowMoves, UnpaidStatus, FulfillableStatus, rowVars, UpdateRow, CanTransition,
            CanTransitionAs
<1>1. CASE UNCHANGED rowVars
  BY <1>1
<1>2. CASE FEnvironment
  <2>1. CASE PersistCheckoutResponse
    BY <2>1 DEF PersistCheckoutResponse, EndCheckout
  <2>2. CASE FailCheckout
    BY <2>2 DEF FailCheckout, EndCheckout, PaymentInv, RowTypeOK, OrderStatus
  <2>3. CASE TimePasses
    BY <2>3 DEF TimePasses, Tick
  <2>4. QED  BY <1>1, <1>2, <2>1, <2>2, <2>3 DEF FEnvironment, AbandonCheckout
<1>3. ASSUME NEW w \in Workers, FWorkerStep(w)
      PROVE  RowMoves /\ (status' = "CANCELLED" => status = "CANCELLED")
  <2>1. CASE MarkPaymentProcessing(w)
    BY <2>1 DEF MarkPaymentProcessing
  <2>2. CASE MarkPaymentFailed(w)
    BY <2>2 DEF MarkPaymentFailed
  <2>3. CASE ToPaid(w)
    BY <2>3 DEF ToPaid
  <2>4. CASE ClaimFulfillment(w)
    BY <2>4 DEF ClaimFulfillment, CanClaim
  <2>5. CASE ReadLease(w)
    BY <2>5 DEF ReadLease
  <2>6. CASE MarkCompleted(w)
    BY <2>6 DEF MarkCompleted
  <2>7. CASE MarkFailed(w)
    BY <2>7 DEF MarkFailed
  <2>8. CASE \/ ExecuteFulfillment(w) \/ LookupCode(w)
             \/ CreateCode(w) \/ Redeem(w) \/ CheckAssigned(w)
             \/ AssignOrExtendSubscription(w) \/ AuditAssigned(w) \/ ApplyRebate(w)
             \/ NotifyCompleted(w)
    BY <1>1, <2>8 DEF ExecuteFulfillment, LookupCode, CreateCode, Redeem,
       CheckAssigned, AssignOrExtendSubscription, AuditAssigned, ApplyRebate, NotifyCompleted
  <2>9. QED
    BY <1>3, <2>1, <2>2, <2>3, <2>4, <2>5, <2>6, <2>7, <2>8 DEF FWorkerStep
<1>4. ASSUME NEW w \in Workers,
             \/ Webhook(w) \/ RetryFulfillment(w) \/ ReconcilePaidFulfillment(w)
             \/ LeasedStepFails(w) \/ Abort(w)
      PROVE  RowMoves /\ (status' = "CANCELLED" => status = "CANCELLED")
  BY <1>1, <1>4 DEF Webhook, RetryFulfillment, ReconcilePaidFulfillment, LeasedStepFails, Abort
<1>5. CASE UNCHANGED fvars
  BY <1>1, <1>5 DEF fvars
<1>6. QED  BY <1>2, <1>3, <1>4, <1>5 DEF FNext

-----------------------------------------------------------------------------
(* Delivery. *)

\* Worker w moves to a step at which it relies on nothing that was delivered
\* before, and touches no entitlement.
DeliverySteps == LeasedSteps \cup {"notify"}
Quiet(w) ==
    /\ \E l : l \notin DeliverySteps /\ pc' = [pc EXCEPT ![w] = l]
    /\ UNCHANGED entitlementVars
    /\ status' = "COMPLETED" => status = "COMPLETED"

\* The steps of a fulfillment that come before the lease is read back, and
\* those that give up, deliver nothing.
LEMMA FulfillmentQuiet ==
    ASSUME NEW w \in Workers,
           \/ Webhook(w) \/ RetryFulfillment(w) \/ ReconcilePaidFulfillment(w)
           \/ MarkPaymentProcessing(w) \/ MarkPaymentFailed(w)
           \/ ToPaid(w) \/ ExecuteFulfillment(w) \/ ClaimFulfillment(w) \/ MarkFailed(w)
           \/ LeasedStepFails(w) \/ Abort(w)
    PROVE  Quiet(w)
<1> USE DEF Quiet, DeliverySteps, LeasedSteps, Goto, Enter, Call, Return, UpdateRow, rowVars
<1>1. CASE Webhook(w)
  BY <1>1 DEF Webhook, HandlePaymentNotification
<1>2. CASE RetryFulfillment(w) \/ ReconcilePaidFulfillment(w) \/ ExecuteFulfillment(w)
  BY <1>2 DEF RetryFulfillment, ReconcilePaidFulfillment, ExecuteFulfillment
<1>3. CASE LeasedStepFails(w) \/ Abort(w)
  BY <1>3 DEF LeasedStepFails, Abort
<1>4. CASE MarkPaymentProcessing(w) \/ MarkPaymentFailed(w) \/ ToPaid(w)
  BY <1>4 DEF MarkPaymentProcessing, MarkPaymentFailed, ToPaid
<1>5. CASE ClaimFulfillment(w) \/ MarkFailed(w)
  BY <1>5 DEF ClaimFulfillment, MarkFailed
<1>6. QED  BY <1>1, <1>2, <1>3, <1>4, <1>5

\* The environment moves no worker and delivers nothing.
LEMMA FEnvironmentQuiet ==
    ASSUME FEnvironment \/ UNCHANGED fvars
    PROVE  /\ UNCHANGED <<pc, orderType, code, subRow, granted, rebates, audits, notices>>
           /\ status' = "COMPLETED" => status = "COMPLETED"
BY DEF FEnvironment, PersistCheckoutResponse, FailCheckout, EndCheckout, AbandonCheckout, TimePasses, Tick,
       UpdateRow, fvars, rowVars, orderVars, entitlementVars, workerVars

\* Nothing has been delivered yet.
LEMMA DeliveryInit == FInit => DeliveryInv
BY DEF FInit, RowInit, DeliveryInv, StepInv, Delivered

\* A quiet step leaves what was delivered alone.
LEMMA QuietDelivery ==
    ASSUME NEW S, NEW M, Shape(S, M), DeliveryInv, NEW w \in Workers, Quiet(w)
    PROVE  DeliveryInv'
BY DEF DeliveryInv, StepInv, Delivered, Rewarded, Quiet, DeliverySteps, LeasedSteps, Shape,
       entitlementVars, orderVars

\* The redeem code, the subscription row and the rebate record carry what a
\* later attempt needs to know of an earlier one.
LEMMA FDeliveryStep ==
    ASSUME NEW S, NEW M, Shape(S, M), DeliveryInv, [FNext]_fvars
    PROVE  DeliveryInv'
<1>1. CASE FEnvironment \/ UNCHANGED fvars
  BY <1>1, FEnvironmentQuiet DEF DeliveryInv, StepInv, Delivered, Rewarded
<1>2. ASSUME NEW w \in Workers, FWorkerStep(w), ~Quiet(w)
      PROVE  DeliveryInv'
  <2> USE DEF DeliveryInv, StepInv, Delivered, Rewarded, Shape, RowTypeOK, EntitlementTypeOK,
              rowVars, orderVars, entitlementVars, Goto, Enter, Call, Return, UpdateRow
  <2>1. CASE ReadLease(w)
    BY <2>1 DEF ReadLease
  <2>2. CASE LookupCode(w)
    BY <2>2 DEF LookupCode
  <2>3. CASE CreateCode(w)
    BY <2>3 DEF CreateCode
  <2>4. CASE Redeem(w)
    BY <2>4 DEF Redeem
  <2>5. CASE CheckAssigned(w)
    BY <2>5 DEF CheckAssigned
  <2>6. CASE AssignOrExtendSubscription(w)
    BY <2>6 DEF AssignOrExtendSubscription
  <2>7. CASE AuditAssigned(w)
    BY <2>7 DEF AuditAssigned
  <2>8. CASE ApplyRebate(w)
    BY <2>8, RebateAssumption DEF ApplyRebate
  <2>9. CASE MarkCompleted(w)
    BY <2>9 DEF MarkCompleted
  <2>10. CASE NotifyCompleted(w)
    BY <2>10 DEF NotifyCompleted
  <2>11. QED
    BY <1>2, <2>1, <2>2, <2>3, <2>4, <2>5, <2>6, <2>7, <2>8, <2>9, <2>10,
       FulfillmentQuiet DEF FWorkerStep
<1>3. QED  BY <1>1, <1>2, QuietDelivery, FulfillmentQuiet DEF FNext

-----------------------------------------------------------------------------
(* Fulfillment implements the safety part of the promise to the buyer. *)

\* A step that neither settles the payment, nor delivers, nor completes the
\* order is invisible to the promise.
PromiseKept ==
    /\ (upstream = "paid")' = (upstream = "paid")
    /\ granted' = granted
    /\ (status = "COMPLETED")' = (status = "COMPLETED")

\* A step that keeps what the promise is about is a stutter of it.
LEMMA KeptIsStutter ==
    ASSUME PromiseKept
    PROVE  [Promise!DNext]_(Promise!dvars)
BY DEF PromiseKept, Promise!dvars

\* A step of a worker that leaves the channel and the entitlement alone and
\* does not complete the order.
LEMMA QuietPromise ==
    ASSUME RowTypeOK, PaymentInv, [FNext]_fvars, NEW w \in Workers, Quiet(w), UNCHANGED upstream
    PROVE  [Promise!DNext]_(Promise!dvars)
<1>1. status = "COMPLETED" => status' = "COMPLETED"
  BY FRowStep DEF RowMoves, FulfillableStatus
<1>2. granted' = granted /\ (status' = "COMPLETED" => status = "COMPLETED")
  BY DEF Quiet, entitlementVars
<1>3. PromiseKept
  BY <1>1, <1>2 DEF PromiseKept
<1>4. QED  BY <1>3, KeptIsStutter

\* Every step of fulfillment is a step of the promise or invisible to it: the
\* channel's settlement funds the order, the redemption of the code or the
\* assignment of the subscription delivers it, and MarkCompleted closes it.
LEMMA FPromiseStep ==
    ASSUME NEW S, NEW M, Shape(S, M), PaymentInv, DeliveryInv, [FNext]_fvars
    PROVE  [Promise!DNext]_(Promise!dvars)
<1>0. RowTypeOK /\ EntitlementTypeOK /\ pc \in [Workers -> S]
  BY DEF Shape
<1>1. status = "COMPLETED" => status' = "COMPLETED"
  BY <1>0, FRowStep DEF RowMoves, FulfillableStatus
<1>2. CASE FEnvironment \/ UNCHANGED fvars
  <2>1. granted' = granted /\ (status' = "COMPLETED" => status = "COMPLETED")
    BY <1>2, FEnvironmentQuiet
  <2>2. CASE upstream' = upstream
    BY <1>1, <2>1, <2>2, KeptIsStutter DEF PromiseKept
  <2>3. CASE upstream' # upstream
    <3>1. ProviderNext
      BY <1>2, <2>3 DEF FEnvironment, PersistCheckoutResponse, FailCheckout, EndCheckout,
                        AbandonCheckout, TimePasses, providerVars, fvars
    <3>2. upstream # "paid"
      BY <3>1 DEF ProviderNext, OpenTrade, StartPayment, SettlePayment, FailPayment
    <3>3. CASE upstream' = "paid"
      <4>1. Promise!Fund
        BY <1>1, <2>1, <3>2, <3>3 DEF Promise!Fund
      <4>2. QED  BY <4>1 DEF Promise!DNext
    <3>4. CASE upstream' # "paid"
      BY <1>1, <2>1, <3>2, <3>4, KeptIsStutter DEF PromiseKept
    <3>5. QED  BY <3>3, <3>4
  <2>4. QED  BY <2>2, <2>3
<1>3. ASSUME NEW w \in Workers,
             \/ Webhook(w) \/ RetryFulfillment(w) \/ ReconcilePaidFulfillment(w)
             \/ MarkPaymentProcessing(w) \/ MarkPaymentFailed(w)
             \/ ToPaid(w) \/ ExecuteFulfillment(w) \/ ClaimFulfillment(w) \/ MarkFailed(w)
             \/ LeasedStepFails(w) \/ Abort(w)
      PROVE  [Promise!DNext]_(Promise!dvars)
  <2>1. upstream' = upstream
    BY <1>3 DEF Webhook, RetryFulfillment, ReconcilePaidFulfillment, MarkPaymentProcessing,
                MarkPaymentFailed, ToPaid, ExecuteFulfillment, ClaimFulfillment, MarkFailed,
                LeasedStepFails, Abort, providerVars
  <2>2. QED  BY <1>0, <1>3, <2>1, FulfillmentQuiet, QuietPromise
<1>4. ASSUME NEW w \in Workers,
             \/ ReadLease(w) \/ LookupCode(w) \/ CreateCode(w) \/ CheckAssigned(w)
             \/ AuditAssigned(w) \/ ApplyRebate(w) \/ NotifyCompleted(w)
      PROVE  [Promise!DNext]_(Promise!dvars)
  <2>1. PromiseKept
    BY <1>4 DEF PromiseKept, ReadLease, LookupCode, CreateCode, CheckAssigned, AuditAssigned,
                ApplyRebate, NotifyCompleted, providerVars, rowVars, entitlementVars
  <2>2. QED  BY <2>1, KeptIsStutter
<1>5. ASSUME NEW w \in Workers, Redeem(w) \/ AssignOrExtendSubscription(w)
      PROVE  [Promise!DNext]_(Promise!dvars)
  <2>1. upstream = "paid" /\ UNCHANGED <<upstream, status>>
    BY <1>5 DEF PaymentInv, PaidSteps, LeasedSteps, Redeem, AssignOrExtendSubscription,
                providerVars, rowVars
  <2>2. CASE granted' = granted
    BY <2>1, <2>2, KeptIsStutter DEF PromiseKept
  <2>3. CASE granted' # granted
    <3>1. ~Delivered /\ granted' = granted + 1
      BY <1>5, <2>3 DEF Redeem, AssignOrExtendSubscription, Delivered, DeliveryInv, StepInv
    <3>2. granted = 0
      BY <3>1 DEF DeliveryInv
    <3>3. Promise!Deliver
      BY <2>1, <3>1, <3>2 DEF Promise!Deliver
    <3>4. QED  BY <3>3 DEF Promise!DNext
  <2>4. QED  BY <2>2, <2>3
<1>6. ASSUME NEW w \in Workers, MarkCompleted(w)
      PROVE  [Promise!DNext]_(Promise!dvars)
  <2>1. UNCHANGED <<upstream, granted>>
    BY <1>6 DEF MarkCompleted, providerVars, entitlementVars
  <2>2. granted = 1
    BY <1>6 DEF MarkCompleted, DeliveryInv, StepInv
  <2>3. CASE status # "COMPLETED" /\ status' = "COMPLETED"
    <3>1. Promise!Close
      BY <2>1, <2>2, <2>3 DEF Promise!Close
    <3>2. QED  BY <3>1 DEF Promise!DNext
  <2>4. CASE status = "COMPLETED" \/ status' # "COMPLETED"
    BY <1>1, <2>1, <2>4, KeptIsStutter DEF PromiseKept
  <2>5. QED  BY <2>3, <2>4
<1>7. QED  BY <1>2, <1>3, <1>4, <1>5, <1>6 DEF FNext, FWorkerStep

\* A fresh order is a fresh promise.
LEMMA PromiseInit == FInit => Promise!DInit
BY DEF FInit, RowInit, ProviderInit, Promise!DInit

\* Fulfillment, with its leases, retries and faults, implements the safety
\* part of the promise: nothing is delivered before the channel settled the
\* payment, the entitlement is delivered once, and the order is closed only
\* after that and for good.
THEOREM FulfillmentImplementsPromise == FSpec => Promise!DSafe
<1> DEFINE M == Notification \cup {"none"}
           Inv == Shape(FulfillmentSteps, M) /\ PaymentInv /\ DeliveryInv
<1>1. FInit => Inv
  BY ShapeInit, PaymentInit, DeliveryInit DEF FulfillmentSteps
<1>2. Inv /\ [FNext]_fvars => Inv'
  BY ShapeStep, FPaymentStep, FDeliveryStep
<1>3. Inv /\ [FNext]_fvars => [Promise!DNext]_(Promise!dvars)
  BY FPromiseStep
<1> HIDE DEF Inv
<1>4. QED  BY <1>1, <1>2, <1>3, PromiseInit, PTL DEF FSpec, Promise!DSafe

=============================================================================
