------------------------ MODULE OrderLifecycleProofs ------------------------
(***************************************************************************)
(* Theorems about OrderLifecycle, for any set of workers and any number of *)
(* faults.  The run properties are not inductive: what a worker may do     *)
(* next depends on what it has read, so the inductive invariant below      *)
(* relates the program counters to the row, the channel and the            *)
(* entitlement.  FulfillmentProofs proves the steps that both systems      *)
(* share; here are those that the lifecycle handlers add.                  *)
(***************************************************************************)
EXTENDS OrderLifecycle, FulfillmentProofs

\* A lifecycle handler has a goal, and only CancelCore gets past the first
\* answer, so a status written by FinalizePendingOrder is CANCELLED or EXPIRED.
CancelSteps == {"cancelUpstream", "requery", "reapply", "finalize", "recordFailure"}
GoalOK(w) ==
    /\ pc[w] \in LifecycleSteps => goal[w] # "none"
    /\ pc[w] \in CancelSteps => goal[w] \in CancelGoal
GoalInv == \A w \in Workers : GoalOK(w)

\* The types are inductive together with GoalInv.
TypeInv == TypeOK /\ GoalInv

\* One worker completes the order and that worker sends the mail.
NoticeInv ==
    /\ notices \in {0, 1}
    /\ status # "COMPLETED" => notices = 0
    /\ \A w \in Workers : pc[w] = "notify" => status = "COMPLETED" /\ notices = 0
    /\ \A v, w \in Workers : pc[v] = "notify" /\ pc[w] = "notify" => v = w

\* How far an order has gone: no order returns to an earlier rank, so a loop
\* that lost a race has at most Rank(seen) iterations behind it.
Rank(s) ==
    IF s = "PENDING" THEN 0
    ELSE IF s = "PROCESSING" THEN 1
    ELSE IF s \in {"EXPIRED", "CANCELLED"} THEN 2
    ELSE 3
RaceOK(w) ==
    /\ pc[w] \in {"toPaid", "markPaymentFailed"} =>
          /\ seen[w] \in OrderStatus
          /\ status = seen[w] \/ Rank(seen[w]) < Rank(status) \/ Rank(seen[w]) = 3
          /\ tries[w] <= Rank(seen[w])
    /\ goal[w] = "reconcile" => status # "PENDING"
RaceInv == \A w \in Workers : RaceOK(w)

-----------------------------------------------------------------------------
(* Types. *)

\* The steps and the messages of a worker of the composed system.
Steps == FulfillmentSteps \cup LifecycleSteps
LifecycleTypeOK ==
    /\ cancelable \in BOOLEAN
    /\ due \in BOOLEAN
    /\ cancelFailed \in BOOLEAN
    /\ missed \in BOOLEAN
    /\ goal \in [Workers -> Goal]

\* The types of the lifecycle are those of fulfillment with more steps and answers.
LEMMA TypeIsShape ==
    /\ TypeOK <=> Shape(Steps, Answer) /\ LifecycleTypeOK
    /\ TypeOK' <=> Shape(Steps, Answer)' /\ LifecycleTypeOK'
    /\ FulfillmentSteps \subseteq Steps /\ "none" \in Answer /\ "idle" \in Steps
BY DEF TypeOK, Shape, LifecycleTypeOK, Steps, Answer, FulfillmentSteps

\* A step is a step of fulfillment, or one that the lifecycle adds.
LEMMA NextKinds ==
    ASSUME [Next]_vars
    PROVE  \/ [FNext]_fvars /\ UNCHANGED lifecycleVars
           \/ BecomeDue
           \/ ForceExpireOrder
           \/ \E w \in Workers :
                 \/ \E g \in Goal \ {"none"} : Begin(w, g)
                 \/ HandleQueriedStatus(w) /\ UNCHANGED lifecycleVars
                 \/ LifecycleStep(w)
                 \/ AbortLifecycle(w)
BY DEF Next, FNext, vars, WorkerStep, HandlerStep, CancelOrder, ExpireTimedOutOrder, CheckPaid,
       ReconcileProcessingOrder, Goal, CancelGoal

\* A fresh order satisfies the types.
LEMMA TypeInit == Init => TypeInv
<1> SUFFICES ASSUME Init PROVE TypeInv
  OBVIOUS
<1>1. Shape(Steps, Answer)
  BY ShapeInit, TypeIsShape DEF Init
<1>2. /\ cancelable \in BOOLEAN /\ due \in BOOLEAN
      /\ cancelFailed \in BOOLEAN /\ missed \in BOOLEAN
  BY DEF Init
<1>3. goal \in [Workers -> Goal]
  BY DEF Init, Goal
<1>4. GoalInv
  BY DEF Init, FInit, GoalInv, GoalOK, CancelSteps, LifecycleSteps
<1> QED
  BY <1>1, <1>2, <1>3, <1>4, TypeIsShape DEF TypeInv, LifecycleTypeOK

\* What becomes of an answer of the channel.
LEMMA AppliedAnswer ==
    ASSUME TypeOK, NEW w \in Workers, goal[w] # "none",
           NEW open, ApplyQueriedPaymentStatus(w, open)
    PROVE  \/ /\ msg[w] \in {"paid", "mismatch"}
              /\ Goto(w, "saveTrade") /\ UNCHANGED <<faults, goal>>
           \/ msg[w] = "invalid" /\ RequeryPaidOrderOnce(w)
           \/ Notify(w, "processing") /\ UNCHANGED faults
           \/ /\ goal[w] \in CancelGoal
              /\ \E l \in {"finalize", open} : Call(w, l)
              /\ UNCHANGED <<faults, goal>>
           \/ /\ goal[w] = "reconcile"
              /\ Enter(w, "markPaymentFailed", "PROCESSING", 0)
              /\ goal' = [goal EXCEPT ![w] = "none"] /\ UNCHANGED faults
           \/ EndLifecycle(w) /\ UNCHANGED faults
<1>1. goal[w] \in CancelGoal \/ goal[w] = "reconcile" \/ goal[w] = "verify"
  BY DEF TypeOK, Goal
<1>2. CASE goal[w] \in CancelGoal
  BY <1>2 DEF ApplyQueriedPaymentStatus
<1>3. CASE goal[w] = "reconcile"
  BY <1>3 DEF ApplyQueriedPaymentStatus, CancelGoal
<1>4. CASE goal[w] = "verify"
  BY <1>4 DEF ApplyQueriedPaymentStatus, CancelGoal
<1> QED
  BY <1>1, <1>2, <1>3, <1>4

\* Every step of the system preserves the types.
LEMMA TypeStep == TypeInv /\ [Next]_vars => TypeOK'
<1> SUFFICES ASSUME TypeOK, GoalInv, [Next]_vars PROVE TypeOK'
  BY DEF TypeInv
<1> USE FaultsAssumption
    DEF TypeOK, RowTypeOK, ProviderTypeOK, EntitlementTypeOK, OrderStatus,
        UnpaidStatus, FulfillableStatus, Ages, PaymentExpiryRetryDelay,
        UpstreamState, Notification, Answer, FulfillmentSteps, LeasedSteps,
        LifecycleSteps, Goal, CancelGoal, rowVars, providerVars, orderVars,
        entitlementVars, workerVars, fvars, lifecycleVars, Goto, Enter, Call,
        Return, Fault, UpdateRow, CanTransition, CanTransitionAs
<1>1. CASE [FNext]_fvars /\ UNCHANGED lifecycleVars
  <2>1. Shape(Steps, Answer)'
    BY ONLY <1>1, TypeOK, TypeIsShape, ShapeStep
  <2>2. LifecycleTypeOK'
    BY <1>1 DEF LifecycleTypeOK
  <2> QED
    BY ONLY <2>1, <2>2, TypeIsShape
<1>2. CASE BecomeDue
  <2>1. due' \in BOOLEAN
    BY <1>2 DEF BecomeDue
  <2> QED
    BY <1>2, <2>1 DEF BecomeDue
<1>10. CASE ForceExpireOrder
  BY <1>10 DEF ForceExpireOrder
<1>3. ASSUME NEW w \in Workers, NEW g \in Goal, Begin(w, g)
      PROVE  TypeOK'
  BY <1>3 DEF Begin
<1>5. ASSUME NEW w \in Workers, HandleQueriedStatus(w), UNCHANGED lifecycleVars
      PROVE  TypeOK'
  BY <1>5 DEF HandleQueriedStatus, HandlePaymentNotification
<1>6. ASSUME NEW w \in Workers, LifecycleStep(w)
      PROVE  TypeOK'
  <2> USE DEF EndLifecycle, QueryFails, Notify
  <2>1. CASE QueryProvider(w)
    <3>1. QueryAnswers \subseteq Answer
      BY DEF QueryAnswers
    <3> QED
      BY <2>1, <3>1 DEF QueryProvider
  <2>2. ASSUME NEW open \in LifecycleSteps, ApplyQueriedPaymentStatus(w, open),
               pc[w] \in LifecycleSteps,
               UNCHANGED <<rowVars, providerVars, entitlementVars, cancelable, due,
                           cancelFailed, missed>>
        PROVE  TypeOK'
    <3>1. CASE Goto(w, "saveTrade") /\ UNCHANGED <<faults, goal>>
      BY <2>2, <3>1
    <3>2. CASE RequeryPaidOrderOnce(w)
      BY <2>2, <3>2 DEF RequeryPaidOrderOnce
    <3>3. CASE Notify(w, "processing") /\ UNCHANGED faults
      BY <2>2, <3>3
    <3>4. CASE (\E l \in {"finalize", open} : Call(w, l)) /\ UNCHANGED <<faults, goal>>
      BY <2>2, <3>4
    <3>5. CASE /\ Enter(w, "markPaymentFailed", "PROCESSING", 0)
               /\ goal' = [goal EXCEPT ![w] = "none"] /\ UNCHANGED faults
      BY <2>2, <3>5
    <3>6. CASE EndLifecycle(w) /\ UNCHANGED faults
      BY <2>2, <3>6
    <3>7. goal[w] # "none"
      BY <2>2 DEF GoalInv, GoalOK
    <3> QED
      BY ONLY <2>2, <3>1, <3>2, <3>3, <3>4, <3>5, <3>6, <3>7, AppliedAnswer, TypeOK, w \in Workers
  <2>3. CASE ApplyFirstAnswer(w) \/ ApplySecondAnswer(w)
    BY <2>2, <2>3 DEF ApplyFirstAnswer, ApplySecondAnswer
  <2>4. CASE SaveUpstreamTradeNumber(w)
    BY <2>4 DEF SaveUpstreamTradeNumber
  <2>5. CASE CancelPayment(w)
    <3>1. missed' \in BOOLEAN
      BY <2>5 DEF CancelPayment
    <3> QED
      BY <2>5, <3>1 DEF CancelPayment
  <2>6. CASE RecordPaymentCancelFailure(w)
    <3>1. cancelFailed' \in BOOLEAN
      BY <2>6 DEF RecordPaymentCancelFailure
    <3> QED
      BY <2>6, <3>1 DEF RecordPaymentCancelFailure
  <2>7. CASE FinalizePendingOrder(w)
    <3>1. goal[w] \in CancelGoal
      BY <2>7 DEF FinalizePendingOrder, GoalInv, GoalOK, CancelSteps
    <3> QED
      BY <2>7, <3>1 DEF FinalizePendingOrder
  <2>8. CASE RequeryAfterCancel(w)
    <3>1. QueryAnswers \subseteq Answer
      BY DEF QueryAnswers
    <3> QED
      BY <2>8, <3>1 DEF RequeryAfterCancel
  <2> QED
    BY <1>6, <2>1, <2>3, <2>4, <2>5, <2>6, <2>7, <2>8 DEF LifecycleStep
<1>8. ASSUME NEW w \in Workers, AbortLifecycle(w)
      PROVE  TypeOK'
  BY <1>8 DEF AbortLifecycle, EndLifecycle
<1> QED
  BY <1>1, <1>2, <1>3, <1>5, <1>6, <1>8, <1>10, NextKinds

\* A step of the fulfillment leaves its worker at a fulfillment step.
LEMMA FulfillmentPc ==
    ASSUME TypeOK, NEW w \in Workers,
           \/ HandlerStep(w) \/ Webhook(w) \/ RetryFulfillment(w)
           \/ ReconcilePaidFulfillment(w) \/ LeasedStepFails(w) \/ Abort(w)
    PROVE  \E l \in FulfillmentSteps : pc' = [pc EXCEPT ![w] = l]
<1> USE DEF Goto, Enter, Call, Return, FulfillmentSteps, LeasedSteps
<1>1. CASE HandleQueriedStatus(w)
  BY <1>1 DEF HandleQueriedStatus, HandlePaymentNotification
<1>2. CASE MarkPaymentProcessing(w) \/ MarkPaymentFailed(w) \/ ToPaid(w)
  BY <1>2 DEF MarkPaymentProcessing, MarkPaymentFailed, ToPaid
<1>3. CASE ExecuteFulfillment(w) \/ ClaimFulfillment(w) \/ ReadLease(w)
  BY <1>3 DEF ExecuteFulfillment, ClaimFulfillment, ReadLease
<1>4. CASE LookupCode(w) \/ CreateCode(w) \/ Redeem(w)
  BY <1>4 DEF LookupCode, CreateCode, Redeem, TypeOK, EntitlementTypeOK
<1>5. CASE CheckAssigned(w) \/ AssignOrExtendSubscription(w) \/ AuditAssigned(w)
  BY <1>5 DEF CheckAssigned, AssignOrExtendSubscription, AuditAssigned
<1>6. CASE ApplyRebate(w) \/ MarkCompleted(w) \/ NotifyCompleted(w) \/ MarkFailed(w)
  BY <1>6 DEF ApplyRebate, MarkCompleted, NotifyCompleted, MarkFailed
<1>7. CASE Webhook(w)
  BY <1>7 DEF Webhook, HandlePaymentNotification
<1>8. CASE RetryFulfillment(w) \/ ReconcilePaidFulfillment(w)
  BY <1>8 DEF RetryFulfillment, ReconcilePaidFulfillment
<1>9. CASE LeasedStepFails(w) \/ Abort(w)
  BY <1>9 DEF LeasedStepFails, Abort
<1> QED
  BY <1>1, <1>2, <1>3, <1>4, <1>5, <1>6, <1>7, <1>8, <1>9 DEF HandlerStep, FWorkerStep

\* Only CancelCore reaches the steps that close the order.
LEMMA GoalStep == TypeInv /\ [Next]_vars => GoalInv'
<1> SUFFICES ASSUME TypeOK, GoalInv, [Next]_vars, NEW v \in Workers
             PROVE  GoalOK(v)'
  BY DEF TypeInv, GoalInv
<1> USE DEF GoalInv, GoalOK, LifecycleSteps, CancelSteps, CancelGoal
<1>1. CASE UNCHANGED <<pc, goal>>
  BY <1>1
<1>2. ASSUME NEW w \in Workers, UNCHANGED goal,
             \E l \in FulfillmentSteps : pc' = [pc EXCEPT ![w] = l]
      PROVE  GoalOK(v)'
  BY <1>2 DEF TypeOK, FulfillmentSteps, LeasedSteps
<1>3. ASSUME NEW w \in Workers, NEW g \in Goal \ {"none"}, Begin(w, g)
      PROVE  GoalOK(v)'
  BY <1>3 DEF Begin, Goto, TypeOK, Goal
<1>4. ASSUME NEW w \in Workers, LifecycleStep(w)
      PROVE  GoalOK(v)'
  <2> USE DEF Goto, Enter, Call, Return, EndLifecycle, QueryFails, Notify
  <2>1. CASE QueryProvider(w) \/ RequeryAfterCancel(w)
    BY <2>1 DEF QueryProvider, RequeryAfterCancel, TypeOK
  <2>2. ASSUME NEW open, ApplyQueriedPaymentStatus(w, open), pc[w] \in LifecycleSteps
        PROVE  GoalOK(v)'
    BY <2>2, AppliedAnswer DEF RequeryPaidOrderOnce, TypeOK
  <2>3. CASE ApplyFirstAnswer(w) \/ ApplySecondAnswer(w)
    BY <2>2, <2>3 DEF ApplyFirstAnswer, ApplySecondAnswer
  <2>4. CASE SaveUpstreamTradeNumber(w)
    BY <2>4 DEF SaveUpstreamTradeNumber, TypeOK
  <2>5. CASE CancelPayment(w)
    BY <2>5 DEF CancelPayment, TypeOK, lifecycleVars
  <2>6. CASE FinalizePendingOrder(w) \/ RecordPaymentCancelFailure(w)
    BY <2>6 DEF FinalizePendingOrder, RecordPaymentCancelFailure, TypeOK
  <2> QED
    BY <1>4, <2>1, <2>3, <2>4, <2>5, <2>6 DEF LifecycleStep
<1>5. ASSUME NEW w \in Workers, AbortLifecycle(w)
      PROVE  GoalOK(v)'
  BY <1>5 DEF AbortLifecycle, EndLifecycle, Return, Call, Enter, TypeOK
<1>6. CASE FEnvironment /\ UNCHANGED lifecycleVars
  BY <1>1, <1>6 DEF FEnvironment, PersistCheckoutResponse, FailCheckout, EndCheckout, AbandonCheckout,
                    TimePasses, workerVars, lifecycleVars
<1>7. CASE BecomeDue \/ ForceExpireOrder \/ UNCHANGED vars
  BY <1>1, <1>7 DEF BecomeDue, ForceExpireOrder, vars, fvars, workerVars, lifecycleVars
<1> QED
  BY <1>2, <1>3, <1>4, <1>5, <1>6, <1>7, FulfillmentPc
     DEF Next, WorkerStep, CancelOrder, ExpireTimedOutOrder, CheckPaid,
         ReconcileProcessingOrder, lifecycleVars, Goal

\* The types are inductive together with the goals.
LEMMA TypeInductive == TypeInv /\ [Next]_vars => TypeInv'
BY TypeStep, GoalStep DEF TypeInv

\* The types of the state are invariant; in particular no handler writes a
\* status that is not one (FinalizePendingOrder writes what its caller wants).
THEOREM TypeCorrect == Spec => []TypeOK
<1>1. TypeInv => TypeOK
  BY DEF TypeInv
<1> QED
  BY TypeInit, TypeInductive, <1>1, PTL DEF Spec

-----------------------------------------------------------------------------
(* Payment. *)

\* Every trace of a payment goes back to the channel, and stays true because
\* the channel never takes a settled payment back.
LEMMA PaymentStep == TypeInv /\ PaymentInv /\ [Next]_vars => PaymentInv'
<1> SUFFICES ASSUME TypeOK, GoalInv, PaymentInv, [Next]_vars PROVE PaymentInv'
  BY DEF TypeInv
<1> USE DEF TypeOK, PaymentInv, PaidSteps, LeasedSteps, UnpaidStatus, FulfillableStatus,
            rowVars, providerVars, orderVars, entitlementVars, workerVars, fvars,
            lifecycleVars, Goto, Enter, Call, Return, UpdateRow, CanTransition,
            CanTransitionAs
<1>1. CASE [FNext]_fvars
  BY ONLY <1>1, TypeOK, PaymentInv, TypeIsShape, FPaymentStep
<1>2. CASE BecomeDue
  BY <1>2 DEF BecomeDue
<1>3. CASE ForceExpireOrder
  BY <1>3 DEF ForceExpireOrder
<1>4. ASSUME NEW w \in Workers, NEW g, Begin(w, g)
      PROVE  PaymentInv'
  BY <1>4 DEF Begin
<1>8. ASSUME NEW w \in Workers, HandleQueriedStatus(w)
      PROVE  PaymentInv'
  BY <1>8 DEF HandleQueriedStatus, HandlePaymentNotification
<1>9. ASSUME NEW w \in Workers, LifecycleStep(w)
      PROVE  PaymentInv'
  <2> USE DEF EndLifecycle, QueryFails, Notify
  <2>1. QueryAnswers \in SUBSET {"pending", "processing", "mismatch", "failed", "invalid"}
           \/ upstream = "paid"
    BY DEF QueryAnswers
  <2>2. CASE QueryProvider(w)
    BY <2>1, <2>2 DEF QueryProvider
  <2>3. CASE RequeryAfterCancel(w)
    BY <2>1, <2>3 DEF RequeryAfterCancel
  <2>4. ASSUME NEW open \in LifecycleSteps, ApplyQueriedPaymentStatus(w, open),
               pc[w] \in LifecycleSteps, UNCHANGED <<rowVars, providerVars, entitlementVars>>
        PROVE  PaymentInv'
    <3>1. CASE Goto(w, "saveTrade")
      BY <2>4, <3>1
    <3>2. CASE RequeryPaidOrderOnce(w)
      BY <2>4, <3>2 DEF RequeryPaidOrderOnce
    <3>3. CASE Notify(w, "processing")
      BY <2>4, <3>3
    <3>4. CASE \E l \in {"finalize", open} : Call(w, l)
      BY <2>4, <3>4 DEF LifecycleSteps
    <3>5. CASE Enter(w, "markPaymentFailed", "PROCESSING", 0)
      BY <2>4, <3>5
    <3>6. CASE EndLifecycle(w)
      BY <2>4, <3>6
    <3>7. goal[w] # "none"
      BY <2>4 DEF GoalInv, GoalOK
    <3> QED
      BY ONLY <2>4, <3>1, <3>2, <3>3, <3>4, <3>5, <3>6, <3>7, AppliedAnswer, TypeOK, w \in Workers
  <2>5. CASE ApplyFirstAnswer(w)
    BY <2>4, <2>5 DEF ApplyFirstAnswer, LifecycleSteps
  <2>6. CASE ApplySecondAnswer(w)
    BY <2>4, <2>6 DEF ApplySecondAnswer, LifecycleSteps
  <2>7. CASE SaveUpstreamTradeNumber(w)
    BY <2>7 DEF SaveUpstreamTradeNumber
  <2>8. CASE CancelPayment(w)
    BY <2>8 DEF CancelPayment
  <2>9. CASE FinalizePendingOrder(w)
    <3>1. goal[w] \in CancelGoal
      BY <2>9 DEF FinalizePendingOrder, GoalInv, GoalOK, CancelSteps
    <3> QED
      BY <2>9, <3>1 DEF FinalizePendingOrder, CancelGoal
  <2>10. CASE RecordPaymentCancelFailure(w)
    BY <2>10 DEF RecordPaymentCancelFailure
  <2> QED
    BY <1>9, <2>2, <2>3, <2>5, <2>6, <2>7, <2>8, <2>9, <2>10 DEF LifecycleStep
<1>12. ASSUME NEW w \in Workers, AbortLifecycle(w)
       PROVE  PaymentInv'
  BY <1>12 DEF AbortLifecycle, EndLifecycle
<1> QED
  BY <1>1, <1>2, <1>3, <1>4, <1>8, <1>9, <1>12, NextKinds

\* No entitlement is granted, and no order recorded as paid, unless the channel
\* settled the amount of the order (HandlePaymentNotification, ConfirmPayment).
THEOREM PaymentSafety == Spec => []NoGrantWithoutPayment
<1>1. PaymentInv => NoGrantWithoutPayment
  BY DEF PaymentInv, NoGrantWithoutPayment
<1> QED
  BY TypeInit, PaymentInit, TypeInductive, PaymentStep, <1>1, PTL DEF Spec, Init

-----------------------------------------------------------------------------
(* The row only moves forward. *)

\* Whatever a worker read before its update, the row moves forward only.
LEMMA RowStep == TypeInv /\ PaymentInv /\ [Next]_vars => RowMoves
<1> SUFFICES ASSUME TypeOK, GoalInv, PaymentInv, [Next]_vars PROVE RowMoves
  BY DEF TypeInv
<1> USE DEF RowMoves, UnpaidStatus, FulfillableStatus, rowVars, UpdateRow, CanTransition,
            CanTransitionAs
<1>1. CASE UNCHANGED rowVars
  BY <1>1
<1>2. CASE [FNext]_fvars
  BY ONLY <1>2, TypeOK, PaymentInv, TypeIsShape, FRowStep DEF Shape
<1>3. CASE ForceExpireOrder
  BY <1>3 DEF ForceExpireOrder
<1>5. ASSUME NEW w \in Workers, LifecycleStep(w)
      PROVE  RowMoves
  <2>1. CASE SaveUpstreamTradeNumber(w)
    BY <2>1 DEF SaveUpstreamTradeNumber
  <2>2. CASE FinalizePendingOrder(w)
    <3>1. goal[w] \in CancelGoal
      BY <2>2 DEF FinalizePendingOrder, GoalInv, GoalOK, CancelSteps
    <3> QED
      BY <2>2, <3>1 DEF FinalizePendingOrder, CancelGoal
  <2>3. CASE RecordPaymentCancelFailure(w)
    BY <2>3 DEF RecordPaymentCancelFailure
  <2>4. CASE \/ QueryProvider(w) \/ ApplyFirstAnswer(w) \/ CancelPayment(w)
             \/ RequeryAfterCancel(w) \/ ApplySecondAnswer(w)
    BY <1>1, <2>4 DEF QueryProvider, ApplyFirstAnswer, CancelPayment, RequeryAfterCancel,
                      ApplySecondAnswer
  <2> QED
    BY <1>5, <2>1, <2>2, <2>3, <2>4 DEF LifecycleStep
<1>6. ASSUME NEW w \in Workers,
             (\E g \in Goal \ {"none"} : Begin(w, g)) \/ HandleQueriedStatus(w) \/ AbortLifecycle(w)
      PROVE  RowMoves
  BY <1>1, <1>6 DEF Begin, HandleQueriedStatus, AbortLifecycle
<1>7. CASE BecomeDue
  BY <1>1, <1>7 DEF BecomeDue, fvars
<1> QED
  BY <1>2, <1>3, <1>5, <1>6, <1>7, NextKinds

\* A recorded payment is never lost: the conditional updates of CancelCore,
\* ForceExpireOrder and MarkPaymentFailed never hit a paid order.
THEOREM PaymentKept == Spec => PaymentNeverLost
<1>1. TypeInv /\ PaymentInv /\ PaymentInv' /\ [Next]_vars
        => [paidAt => paidAt' /\ status' \notin UnpaidStatus]_vars
  BY RowStep DEF RowMoves, PaymentInv
<1> QED
  BY TypeInit, PaymentInit, TypeInductive, PaymentStep, <1>1, PTL DEF Spec, Init, PaymentNeverLost

\* A completed order stays completed, whichever worker still believes to hold
\* its lease (MarkCompleted, MarkFailed, ClaimFulfillment).
THEOREM CompletionFinal == Spec => CompletedIsFinal
<1>1. TypeInv /\ PaymentInv /\ [Next]_vars
        => [status = "COMPLETED" => status' = "COMPLETED"]_vars
  BY RowStep DEF RowMoves, FulfillableStatus
<1> QED
  BY TypeInit, PaymentInit, TypeInductive, PaymentStep, <1>1, PTL DEF Spec, Init, CompletedIsFinal

-----------------------------------------------------------------------------
(* Delivery. *)

\* A lifecycle handler delivers nothing itself.
LEMMA LifecycleQuiet ==
    ASSUME TypeInv, NEW w \in Workers,
           \/ LifecycleStep(w) \/ AbortLifecycle(w) \/ HandleQueriedStatus(w)
           \/ \E g : Begin(w, g)
    PROVE  Quiet(w)
<1> USE DEF Quiet, DeliverySteps, LeasedSteps, LifecycleSteps, Goto, Enter, Call, Return, EndLifecycle,
            Notify, QueryFails, UpdateRow, rowVars
<1>1. CASE QueryProvider(w) \/ RequeryAfterCancel(w)
  BY <1>1 DEF QueryProvider, RequeryAfterCancel
<1>2. ASSUME NEW open \in LifecycleSteps, ApplyQueriedPaymentStatus(w, open),
             pc[w] \in LifecycleSteps, UNCHANGED <<rowVars, entitlementVars>>
      PROVE  Quiet(w)
  <2>1. goal[w] # "none"
    BY <1>2 DEF TypeInv, GoalInv, GoalOK
  <2> QED
    BY <1>2, <2>1, AppliedAnswer DEF RequeryPaidOrderOnce, TypeInv
<1>3. CASE ApplyFirstAnswer(w) \/ ApplySecondAnswer(w)
  BY <1>2, <1>3 DEF ApplyFirstAnswer, ApplySecondAnswer
<1>4. CASE SaveUpstreamTradeNumber(w) \/ CancelPayment(w)
  BY <1>4 DEF SaveUpstreamTradeNumber, CancelPayment
<1>5. CASE FinalizePendingOrder(w)
  BY <1>5 DEF FinalizePendingOrder, TypeInv, GoalInv, GoalOK, CancelSteps, CancelGoal
<1>6. CASE RecordPaymentCancelFailure(w)
  BY <1>6 DEF RecordPaymentCancelFailure
<1>7. CASE AbortLifecycle(w) \/ \E g : Begin(w, g)
  BY <1>7 DEF AbortLifecycle, Begin
<1>8. CASE HandleQueriedStatus(w)
  BY <1>8 DEF HandleQueriedStatus, HandlePaymentNotification
<1> QED
  BY <1>1, <1>3, <1>4, <1>5, <1>6, <1>7, <1>8 DEF LifecycleStep

\* The environment moves no worker and delivers nothing.
LEMMA EnvironmentQuiet ==
    ASSUME FEnvironment \/ BecomeDue \/ ForceExpireOrder \/ UNCHANGED vars
    PROVE  /\ UNCHANGED <<pc, orderType, code, subRow, granted, rebates, audits, notices>>
           /\ status' = "COMPLETED" => status = "COMPLETED"
BY DEF FEnvironment, PersistCheckoutResponse, FailCheckout, EndCheckout, AbandonCheckout, TimePasses, Tick,
       BecomeDue, ForceExpireOrder, UpdateRow, vars, fvars, rowVars, orderVars,
       entitlementVars, workerVars

\* What a fulfillment finds delivered is what was delivered.
LEMMA DeliveryStep == TypeInv /\ DeliveryInv /\ [Next]_vars => DeliveryInv'
<1> SUFFICES ASSUME TypeInv, TypeOK, DeliveryInv, [Next]_vars PROVE DeliveryInv'
  BY DEF TypeInv
<1>0. Shape(Steps, Answer)
  BY TypeIsShape
<1>1. CASE [FNext]_fvars
  BY <1>0, <1>1, FDeliveryStep
<1>2. ASSUME NEW w \in Workers, Quiet(w)
      PROVE  DeliveryInv'
  BY <1>0, <1>2, QuietDelivery
<1>3. CASE BecomeDue \/ ForceExpireOrder
  BY <1>3, EnvironmentQuiet DEF DeliveryInv, StepInv, Delivered, Rewarded
<1> QED
  BY <1>1, <1>2, <1>3, LifecycleQuiet, NextKinds

\* MarkCompleted succeeds only with the entitlement granted and, where the
\* switch is on, the inviter credited.
THEOREM CompletionSound == Spec => []CompletedIsDelivered
<1>1. DeliveryInv => CompletedIsDelivered
  BY DEF DeliveryInv, CompletedIsDelivered, Rewarded
<1> QED
  BY TypeInit, DeliveryInit, TypeInductive, DeliveryStep, <1>1, PTL DEF Spec, Init

-----------------------------------------------------------------------------
(* Notification of the buyer. *)

\* No mail has been sent yet.
LEMMA NoticeInit == Init => NoticeInv
BY DEF Init, FInit, RowInit, NoticeInv

\* Exactly one worker moves the order to COMPLETED, because COMPLETED is final,
\* and only that worker sends the mail.
LEMMA NoticeStep ==
    TypeInv /\ PaymentInv /\ DeliveryInv /\ NoticeInv /\ [Next]_vars => NoticeInv'
<1> SUFFICES ASSUME TypeInv, TypeOK, PaymentInv, NoticeInv, [Next]_vars PROVE NoticeInv'
  BY DEF TypeInv
<1>1. status = "COMPLETED" => status' = "COMPLETED"
  BY RowStep DEF RowMoves, FulfillableStatus
<1> USE DEF NoticeInv
<1>2. ASSUME NEW w \in Workers, UNCHANGED notices, NEW l, l # "notify",
             pc' = [pc EXCEPT ![w] = l]
      PROVE  NoticeInv'
  BY <1>1, <1>2 DEF TypeOK
<1>3. ASSUME NEW w \in Workers, Quiet(w)
      PROVE  NoticeInv'
  BY <1>2, <1>3 DEF Quiet, DeliverySteps, entitlementVars
<1>4. CASE FEnvironment \/ BecomeDue \/ ForceExpireOrder \/ UNCHANGED vars
  BY <1>1, <1>4, EnvironmentQuiet
<1>5. ASSUME NEW w \in Workers, HandlerStep(w)
      PROVE  NoticeInv'
  <2> USE DEF Goto, Enter, Call, Return, entitlementVars
  <2>1. CASE ReadLease(w)
    BY <1>2, <2>1 DEF ReadLease
  <2>2. CASE LookupCode(w)
    BY <1>2, <2>2 DEF LookupCode, TypeOK, EntitlementTypeOK
  <2>3. CASE CreateCode(w)
    BY <1>2, <2>3 DEF CreateCode
  <2>4. CASE Redeem(w)
    BY <1>2, <2>4 DEF Redeem
  <2>5. CASE CheckAssigned(w)
    BY <1>2, <2>5 DEF CheckAssigned
  <2>6. CASE AssignOrExtendSubscription(w) \/ AuditAssigned(w) \/ ApplyRebate(w)
    BY <1>2, <2>6 DEF AssignOrExtendSubscription, AuditAssigned, ApplyRebate
  <2>7. CASE MarkCompleted(w)
    BY <1>1, <2>7 DEF MarkCompleted, CanTransitionAs, UpdateRow, rowVars, TypeOK
  <2>8. CASE NotifyCompleted(w)
    <3>1. status' = "COMPLETED" /\ notices' \in {0, 1}
      BY <1>1, <2>8 DEF NotifyCompleted
    <3>2. \A v \in Workers : pc'[v] # "notify"
      BY <2>8 DEF NotifyCompleted, TypeOK
    <3> QED
      BY <3>1, <3>2
  <2> QED
    BY <1>3, <1>5, <2>1, <2>2, <2>3, <2>4, <2>5, <2>6, <2>7, <2>8, FulfillmentQuiet,
       LifecycleQuiet DEF HandlerStep, FWorkerStep
<1> QED
  BY <1>3, <1>4, <1>5, LifecycleQuiet, FulfillmentQuiet
     DEF Next, WorkerStep, CancelOrder, ExpireTimedOutOrder, CheckPaid,
         ReconcileProcessingOrder

\* The entitlement (Redeem, AssignOrExtendSubscription), the rebate and the
\* success mail each happen at most once.
THEOREM AtMostOnce == Spec => []EffectsAtMostOnce
<1>1. DeliveryInv /\ NoticeInv => EffectsAtMostOnce
  BY DEF DeliveryInv, NoticeInv, EffectsAtMostOnce
<1> QED
  BY TypeInit, PaymentInit, DeliveryInit, NoticeInit, TypeInductive, PaymentStep, DeliveryStep,
     NoticeStep, <1>1, PTL DEF Spec, Init

-----------------------------------------------------------------------------
(* The retry loops. *)

\* No loop is running yet.
LEMMA RaceInit == Init => RaceInv
BY DEF Init, FInit, RaceInv, RaceOK

\* Whenever a worker loses a race the order has gained in rank.
LEMMA RaceStep == TypeInv /\ PaymentInv /\ RaceInv /\ [Next]_vars => RaceInv'
<1> SUFFICES ASSUME TypeInv, TypeOK, PaymentInv, RaceInv, [Next]_vars, NEW v \in Workers
             PROVE  RaceOK(v)'
  BY DEF TypeInv, RaceInv
<1>1. RowMoves /\ status \in OrderStatus /\ status' \in OrderStatus
  BY RowStep, TypeStep DEF TypeOK, RowTypeOK
<1>2. /\ \/ status' = status
         \/ Rank(status) < Rank(status')
         \/ Rank(status) = 3 /\ Rank(status') = 3
      /\ status' = "PENDING" => status = "PENDING"
  BY <1>1 DEF RowMoves, Rank, OrderStatus, UnpaidStatus, FulfillableStatus
<1>3. \A s \in OrderStatus : Rank(s) \in 0 .. 3
  BY DEF Rank
<1>4. RaceOK(v)
  BY DEF RaceInv
<1>5. CASE /\ pc'[v] = pc[v] /\ seen'[v] = seen[v] /\ tries'[v] = tries[v]
           /\ goal'[v] \in {goal[v], "none"}
  BY <1>1, <1>2, <1>3, <1>4, <1>5 DEF RaceOK, TypeOK
<1>6. CASE /\ pc'[v] \notin {"toPaid", "markPaymentFailed"}
           /\ goal'[v] \in {goal[v], "none"}
  BY <1>2, <1>4, <1>6 DEF RaceOK
<1>7. CASE /\ pc'[v] \in {"toPaid", "markPaymentFailed"} /\ goal'[v] \in {goal[v], "none"}
           /\ seen'[v] = status /\ tries'[v] = 0 /\ UNCHANGED status
  BY <1>1, <1>2, <1>3, <1>4, <1>7 DEF RaceOK
<1>8. CASE \/ FEnvironment /\ UNCHANGED lifecycleVars
           \/ BecomeDue \/ ForceExpireOrder \/ UNCHANGED vars
  BY <1>5, <1>8 DEF FEnvironment, PersistCheckoutResponse, FailCheckout, EndCheckout, AbandonCheckout,
     TimePasses, BecomeDue, ForceExpireOrder, vars, fvars, workerVars, lifecycleVars
<1> USE DEF TypeOK, Goto, Enter, Call, Return
<1>9. ASSUME NEW w \in Workers, NEW g, Begin(w, g), g = "reconcile" => status = "PROCESSING"
      PROVE  RaceOK(v)'
  <2>1. CASE w = v
    BY <1>9, <2>1 DEF Begin, RaceOK, rowVars
  <2>2. CASE w # v
    BY <1>5, <1>9, <2>2 DEF Begin
  <2> QED
    BY <2>1, <2>2
<1>10. ASSUME NEW w \in Workers, UNCHANGED goal, Webhook(w) \/ HandleQueriedStatus(w)
       PROVE  RaceOK(v)'
  BY <1>5, <1>6, <1>7, <1>10 DEF Webhook, HandleQueriedStatus, HandlePaymentNotification, rowVars
<1>11. ASSUME NEW w \in Workers, UNCHANGED goal, ToPaid(w)
       PROVE  RaceOK(v)'
  <2>1. CASE w # v \/ pc'[v] # "toPaid"
    BY <1>5, <1>6, <1>11, <2>1 DEF ToPaid
  <2>2. CASE w = v /\ pc'[v] = "toPaid"
    <3>1. /\ seen[v] \in UnpaidStatus /\ status # seen[v] /\ UNCHANGED status
          /\ seen'[v] = status /\ tries'[v] = tries[v] + 1 /\ pc[v] = "toPaid"
      BY <1>11, <2>2 DEF ToPaid, CanTransition, rowVars
    <3>2. Rank(seen[v]) < 3
      BY <3>1 DEF Rank, UnpaidStatus
    <3>3. tries[v] + 1 <= Rank(status)
      BY <1>1, <1>3, <1>4, <3>1, <3>2 DEF RaceOK
    <3> QED
      BY <1>1, <1>4, <1>11, <2>2, <3>1, <3>3 DEF RaceOK
  <2> QED
    BY <2>1, <2>2
<1>12. ASSUME NEW w \in Workers, UNCHANGED goal, MarkPaymentFailed(w)
       PROVE  RaceOK(v)'
  <2>1. CASE w # v \/ pc'[v] # "markPaymentFailed"
    BY <1>5, <1>6, <1>12, <2>1 DEF MarkPaymentFailed
  <2>2. CASE w = v /\ pc'[v] = "markPaymentFailed"
    <3>1. /\ seen[v] \in {"PENDING", "PROCESSING"} /\ status # seen[v] /\ UNCHANGED status
          /\ seen'[v] = status /\ tries'[v] = tries[v] + 1 /\ pc[v] = "markPaymentFailed"
      BY <1>12, <2>2 DEF MarkPaymentFailed, CanTransition, rowVars
    <3>2. Rank(seen[v]) < 3
      BY <3>1 DEF Rank
    <3>3. tries[v] + 1 <= Rank(status)
      BY <1>1, <1>3, <1>4, <3>1, <3>2 DEF RaceOK
    <3> QED
      BY <1>1, <1>4, <1>12, <2>2, <3>1, <3>3 DEF RaceOK
  <2> QED
    BY <2>1, <2>2
<1>13. ASSUME NEW w \in Workers, UNCHANGED goal,
              \/ RetryFulfillment(w) \/ ReconcilePaidFulfillment(w) \/ LeasedStepFails(w)
              \/ Abort(w) \/ MarkPaymentProcessing(w) \/ ExecuteFulfillment(w)
              \/ ClaimFulfillment(w) \/ ReadLease(w) \/ MarkFailed(w)
       PROVE  RaceOK(v)'
  BY <1>5, <1>6, <1>13 DEF RetryFulfillment, ReconcilePaidFulfillment, LeasedStepFails, Abort,
     MarkPaymentProcessing, ExecuteFulfillment, ClaimFulfillment, ReadLease, MarkFailed
<1>14. ASSUME NEW w \in Workers, UNCHANGED goal,
              \/ LookupCode(w) \/ CreateCode(w) \/ Redeem(w) \/ CheckAssigned(w)
              \/ AssignOrExtendSubscription(w) \/ AuditAssigned(w) \/ ApplyRebate(w)
              \/ MarkCompleted(w) \/ NotifyCompleted(w)
       PROVE  RaceOK(v)'
  BY <1>5, <1>6, <1>14 DEF EntitlementTypeOK, LookupCode, CreateCode, Redeem, CheckAssigned,
     AssignOrExtendSubscription, AuditAssigned, ApplyRebate, MarkCompleted, NotifyCompleted
<1>15. ASSUME NEW w \in Workers, LifecycleStep(w) \/ AbortLifecycle(w)
       PROVE  RaceOK(v)'
  <2> USE DEF EndLifecycle, Notify, QueryFails
  <2>1. CASE QueryProvider(w) \/ RequeryAfterCancel(w)
    BY <1>5, <1>6, <2>1 DEF QueryProvider, RequeryAfterCancel
  <2>2. ASSUME NEW open \in LifecycleSteps, ApplyQueriedPaymentStatus(w, open),
               pc[w] \in LifecycleSteps, UNCHANGED rowVars
        PROVE  RaceOK(v)'
    <3>1. goal[w] # "none"
      BY <2>2 DEF TypeInv, GoalInv, GoalOK
    <3>2. CASE /\ goal[w] = "reconcile"
               /\ Enter(w, "markPaymentFailed", "PROCESSING", 0)
               /\ goal' = [goal EXCEPT ![w] = "none"]
      <4>1. CASE w # v
        BY <1>5, <3>2, <4>1
      <4>2. CASE w = v
        BY <1>1, <1>4, <2>2, <3>2, <4>2 DEF RaceOK, Rank, OrderStatus, UnpaidStatus, rowVars
      <4> QED
        BY <4>1, <4>2
    <3> QED
      BY <1>5, <1>6, <2>2, <3>1, <3>2, AppliedAnswer DEF RequeryPaidOrderOnce, LifecycleSteps
  <2>3. CASE ApplyFirstAnswer(w) \/ ApplySecondAnswer(w)
    BY <2>2, <2>3 DEF ApplyFirstAnswer, ApplySecondAnswer, LifecycleSteps
  <2>4. CASE SaveUpstreamTradeNumber(w) \/ CancelPayment(w)
    BY <1>5, <1>6, <2>4 DEF SaveUpstreamTradeNumber, CancelPayment, lifecycleVars
  <2>5. CASE FinalizePendingOrder(w) \/ RecordPaymentCancelFailure(w) \/ AbortLifecycle(w)
    BY <1>5, <1>6, <2>5 DEF FinalizePendingOrder, RecordPaymentCancelFailure, AbortLifecycle
  <2> QED
    BY <1>15, <2>1, <2>3, <2>4, <2>5 DEF LifecycleStep
<1> QED
  BY <1>8, <1>9, <1>10, <1>11, <1>12, <1>13, <1>14, <1>15
     DEF Next, WorkerStep, HandlerStep, FWorkerStep, CancelOrder, ExpireTimedOutOrder, CheckPaid,
         ReconcileProcessingOrder, lifecycleVars

\* The five attempts of ToPaid and the three of MarkPaymentFailed suffice.
THEOREM LoopsSuffice == Spec => []AttemptsSuffice
<1>1. TypeInv /\ RaceInv => AttemptsSuffice
  <2> SUFFICES ASSUME TypeOK, RaceInv, NEW w \in Workers,
                      pc[w] \in {"toPaid", "markPaymentFailed"}
               PROVE  /\ tries[w] + 1 < 5
                      /\ seen[w] \in {"PENDING", "PROCESSING"} => tries[w] + 1 < 3
    BY DEF TypeInv, AttemptsSuffice, SuccessAttempts, FailureAttempts
  <2>1. tries[w] \in Nat /\ tries[w] <= Rank(seen[w])
    BY DEF TypeOK, RaceInv, RaceOK
  <2> QED
    BY <2>1 DEF Rank
<1> QED
  BY TypeInit, PaymentInit, RaceInit, TypeInductive, PaymentStep, RaceStep, <1>1, PTL DEF Spec, Init

-----------------------------------------------------------------------------
(* Cancellation. *)

\* A handler that is about to close the order has seen the payment fail or
\* has closed it at the channel: only a reported failure, or a request to
\* close a trade the channel does not know, lets it skip that.
ClosingOK(w) ==
    /\ pc[w] \in {"apply", "reapply"} /\ msg[w] = "failed" => upstream = "closed"
    /\ pc[w] = "finalize" /\ cancelable => upstream = "closed"
ClosingInv ==
    "failed" \notin notes /\ ~missed =>
      /\ upstream # "failed"
      /\ \A w \in Workers : ClosingOK(w)

\* No handler is running yet.
LEMMA ClosingInit == Init => ClosingInv
BY DEF Init, FInit, ProviderInit, ClosingInv, ClosingOK

\* A closed payment stays closed and a reported failure stays reported.
LEMMA ChannelStep ==
    ASSUME TypeInv, [Next]_vars
    PROVE  /\ notes \subseteq notes'
           /\ upstream = "closed" => upstream' = "closed"
           /\ "failed" \notin notes' /\ upstream # "failed" => upstream' # "failed"
           /\ cancelable' = cancelable
           /\ missed => missed'
<1>1. CASE UNCHANGED providerVars /\ UNCHANGED <<cancelable, missed>>
  BY <1>1 DEF providerVars
<1>2. CASE [FNext]_fvars /\ UNCHANGED lifecycleVars
  <2>1. CASE UNCHANGED providerVars
    BY <1>1, <1>2, <2>1 DEF lifecycleVars
  <2>2. CASE ProviderNext
    BY <1>2, <2>2 DEF ProviderNext, OpenTrade, StartPayment, SettlePayment, FailPayment, Report,
                      lifecycleVars
  <2>3. ASSUME NEW w \in Workers, FWorkerStep(w) PROVE UNCHANGED providerVars
    BY <2>3 DEF FWorkerStep, MarkPaymentProcessing, MarkPaymentFailed, ToPaid, ExecuteFulfillment,
                ClaimFulfillment, ReadLease, LookupCode, CreateCode, Redeem, CheckAssigned,
                AssignOrExtendSubscription, AuditAssigned, ApplyRebate, MarkCompleted,
                NotifyCompleted, MarkFailed
  <2>4. UNCHANGED providerVars \/ ProviderNext
    BY <1>2, <2>3 DEF FNext, fvars, FEnvironment, PersistCheckoutResponse, FailCheckout, EndCheckout,
       AbandonCheckout, TimePasses, Webhook, RetryFulfillment, ReconcilePaidFulfillment,
       LeasedStepFails, Abort
  <2> QED
    BY <2>1, <2>2, <2>4
<1>3. ASSUME NEW w \in Workers, LifecycleStep(w)
      PROVE  \/ UNCHANGED providerVars /\ UNCHANGED <<cancelable, missed>>
             \/ CancelPayment(w)
  BY <1>3 DEF LifecycleStep, QueryProvider, ApplyFirstAnswer, SaveUpstreamTradeNumber,
     RequeryAfterCancel, ApplySecondAnswer, FinalizePendingOrder, RecordPaymentCancelFailure
<1>4. ASSUME NEW w \in Workers, CancelPayment(w)
      PROVE  /\ notes' = notes /\ cancelable' = cancelable
             /\ upstream' = "closed" \/ upstream' = upstream
             /\ missed => missed'
  BY <1>4 DEF CancelPayment
<1>5. ASSUME NEW w \in Workers,
             \/ \E g \in Goal \ {"none"} : Begin(w, g)
             \/ HandleQueriedStatus(w) /\ UNCHANGED lifecycleVars
             \/ AbortLifecycle(w)
      PROVE  UNCHANGED providerVars /\ UNCHANGED <<cancelable, missed>>
  BY <1>5 DEF Begin, HandleQueriedStatus, AbortLifecycle, lifecycleVars
<1>6. CASE BecomeDue \/ ForceExpireOrder
  BY <1>1, <1>6 DEF BecomeDue, ForceExpireOrder, fvars, lifecycleVars
<1> QED
  BY <1>1, <1>2, <1>3, <1>4, <1>5, <1>6, NextKinds

\* What a handler knows of the closed payment when it comes to close the order.
LEMMA ClosingStep == TypeInv /\ ClosingInv /\ [Next]_vars => ClosingInv'
<1> SUFFICES ASSUME TypeInv, TypeOK, ClosingInv, [Next]_vars, "failed" \notin notes',
                    ~missed'
             PROVE  upstream' # "failed" /\ \A v \in Workers : ClosingOK(v)'
  BY DEF ClosingInv, TypeInv
<1>10. upstream' # "failed"
  BY ChannelStep DEF ClosingInv
<1> SUFFICES ASSUME NEW v \in Workers PROVE ClosingOK(v)'
  BY <1>10
<1>0. /\ "failed" \notin notes /\ ~missed /\ upstream # "failed" /\ ClosingOK(v)
      /\ upstream = "closed" => upstream' = "closed"
      /\ cancelable' = cancelable
  BY ChannelStep DEF ClosingInv
<1>1. CASE pc'[v] = pc[v] /\ msg'[v] = msg[v]
  BY <1>0, <1>1 DEF ClosingOK
<1>2. CASE pc'[v] \notin {"apply", "reapply", "finalize"}
  BY <1>0, <1>2 DEF ClosingOK
<1> USE DEF TypeOK, Goto, Enter, Call, Return, EndLifecycle, Notify, QueryFails
<1>3. ASSUME NEW w \in Workers, v # w,
             \/ \E g \in Goal \ {"none"} : Begin(w, g)
             \/ HandleQueriedStatus(w)
             \/ LifecycleStep(w)
             \/ AbortLifecycle(w)
      PROVE  pc'[v] = pc[v] /\ msg'[v] = msg[v]
  <2>1. CASE (\E g \in Goal \ {"none"} : Begin(w, g)) \/ HandleQueriedStatus(w) \/ AbortLifecycle(w)
    BY <1>3, <2>1 DEF Begin, HandleQueriedStatus, HandlePaymentNotification, AbortLifecycle
  <2>2. CASE ApplyFirstAnswer(w) \/ ApplySecondAnswer(w)
    <3>1. PICK open : ApplyQueriedPaymentStatus(w, open)
      BY <2>2 DEF ApplyFirstAnswer, ApplySecondAnswer
    <3>2. goal[w] # "none"
      BY <2>2 DEF ApplyFirstAnswer, ApplySecondAnswer, TypeInv, GoalInv, GoalOK, LifecycleSteps
    <3> QED
      BY <1>3, <3>1, <3>2, AppliedAnswer DEF RequeryPaidOrderOnce
  <2>3. CASE QueryProvider(w) \/ RequeryAfterCancel(w)
    BY <1>3, <2>3 DEF QueryProvider, RequeryAfterCancel
  <2>4. CASE \/ SaveUpstreamTradeNumber(w) \/ CancelPayment(w) \/ FinalizePendingOrder(w)
             \/ RecordPaymentCancelFailure(w)
    BY <1>3, <2>4 DEF SaveUpstreamTradeNumber, CancelPayment, FinalizePendingOrder,
                      RecordPaymentCancelFailure
  <2> QED
    BY <1>3, <2>1, <2>2, <2>3, <2>4 DEF LifecycleStep
<1>4. CASE [FNext]_fvars
  <2>1. ASSUME NEW w \in Workers, FWorkerStep(w) \/ Webhook(w) \/ RetryFulfillment(w)
                 \/ ReconcilePaidFulfillment(w) \/ LeasedStepFails(w) \/ Abort(w)
        PROVE  \/ pc'[v] = pc[v] /\ msg'[v] = msg[v]
               \/ pc'[v] \in FulfillmentSteps
    <3>1. PICK l \in FulfillmentSteps : pc' = [pc EXCEPT ![w] = l]
      BY <2>1, FulfillmentPc DEF HandlerStep
    <3>2. v # w => msg'[v] = msg[v]
      BY <2>1 DEF FWorkerStep, MarkPaymentProcessing, MarkPaymentFailed, ToPaid, ExecuteFulfillment,
            ClaimFulfillment, ReadLease, LookupCode, CreateCode, Redeem, CheckAssigned,
            AssignOrExtendSubscription, AuditAssigned, ApplyRebate, MarkCompleted,
            NotifyCompleted, MarkFailed, Webhook, HandlePaymentNotification, RetryFulfillment,
            ReconcilePaidFulfillment, LeasedStepFails, Abort
    <3> QED
      BY <3>1, <3>2
  <2>2. CASE FEnvironment \/ UNCHANGED fvars
    BY <1>1, <2>2 DEF FEnvironment, PersistCheckoutResponse, FailCheckout, EndCheckout, AbandonCheckout,
                      TimePasses, fvars, workerVars
  <2> QED
    BY <1>0, <1>1, <1>2, <1>4, <2>1, <2>2 DEF FNext, FulfillmentSteps, LeasedSteps
<1>5. CASE BecomeDue \/ ForceExpireOrder
  BY <1>0, <1>1, <1>5 DEF BecomeDue, ForceExpireOrder, fvars, workerVars
<1>6. CASE (\E g \in Goal \ {"none"} : Begin(v, g)) \/ HandleQueriedStatus(v) \/ AbortLifecycle(v)
  BY <1>0, <1>2, <1>6 DEF Begin, HandleQueriedStatus, HandlePaymentNotification, AbortLifecycle
<1>7. CASE LifecycleStep(v)
  <2>1. CASE QueryProvider(v) \/ RequeryAfterCancel(v)
    <3>1. "failed" \in QueryAnswers => upstream = "closed"
      BY <1>0 DEF QueryAnswers, ProviderTypeOK, UpstreamState
    <3> QED
      BY <1>0, <1>2, <2>1, <3>1 DEF QueryProvider, RequeryAfterCancel, ClosingOK, providerVars
  <2>2. CASE ApplyFirstAnswer(v)
    <3>1. goal[v] # "none"
      BY <2>2 DEF ApplyFirstAnswer, TypeInv, GoalInv, GoalOK, LifecycleSteps
    <3>2. CASE pc'[v] # "finalize"
      BY <1>0, <1>2, <2>2, <3>1, <3>2, AppliedAnswer DEF ApplyFirstAnswer, RequeryPaidOrderOnce
    <3>3. CASE pc'[v] = "finalize"
      <4>1. cancelable => msg[v] = "failed"
        BY <2>2, <3>3 DEF ApplyFirstAnswer, ApplyQueriedPaymentStatus, RequeryPaidOrderOnce
      <4> QED
        BY <1>0, <2>2, <3>3, <4>1 DEF ApplyFirstAnswer, ClosingOK
    <3> QED
      BY <3>2, <3>3
  <2>3. CASE ApplySecondAnswer(v)
    <3>1. goal[v] # "none"
      BY <2>3 DEF ApplySecondAnswer, TypeInv, GoalInv, GoalOK, LifecycleSteps
    <3>2. CASE pc'[v] # "finalize"
      BY <1>0, <1>2, <2>3, <3>1, <3>2, AppliedAnswer DEF ApplySecondAnswer, RequeryPaidOrderOnce
    <3>3. CASE pc'[v] = "finalize"
      <4>1. msg[v] = "failed"
        BY <2>3, <3>3 DEF ApplySecondAnswer, ApplyQueriedPaymentStatus, RequeryPaidOrderOnce
      <4> QED
        BY <1>0, <2>3, <3>3, <4>1 DEF ApplySecondAnswer, ClosingOK
    <3> QED
      BY <3>2, <3>3
  <2>4. CASE CancelPayment(v)
    BY <1>0, <2>4 DEF CancelPayment, ClosingOK
  <2>5. CASE SaveUpstreamTradeNumber(v) \/ FinalizePendingOrder(v) \/ RecordPaymentCancelFailure(v)
    BY <1>0, <1>2, <2>5 DEF SaveUpstreamTradeNumber, FinalizePendingOrder, RecordPaymentCancelFailure
  <2> QED
    BY <1>7, <2>1, <2>2, <2>3, <2>4, <2>5 DEF LifecycleStep
<1> QED
  BY <1>0, <1>1, <1>3, <1>4, <1>5, <1>6, <1>7, NextKinds

\* Only FinalizePendingOrder cancels an order.
LEMMA CancelledBy ==
    ASSUME TypeInv, PaymentInv, [Next]_vars, status # "CANCELLED", status' = "CANCELLED"
    PROVE  \E w \in Workers : FinalizePendingOrder(w)
<1>1. CASE [FNext]_fvars
  <2>1. RowTypeOK
    BY DEF TypeInv, TypeOK
  <2> QED
    BY <1>1, <2>1, FRowStep
<1>2. CASE BecomeDue \/ ForceExpireOrder
  BY <1>2 DEF BecomeDue, ForceExpireOrder, UpdateRow, fvars, rowVars
<1>3. ASSUME NEW w \in Workers,
             \/ \E g \in Goal \ {"none"} : Begin(w, g)
             \/ HandleQueriedStatus(w)
             \/ AbortLifecycle(w)
             \/ LifecycleStep(w)
      PROVE  FinalizePendingOrder(w)
  BY <1>3 DEF Begin, HandleQueriedStatus, AbortLifecycle, LifecycleStep, QueryProvider, ApplyFirstAnswer,
     SaveUpstreamTradeNumber, CancelPayment, RequeryAfterCancel, ApplySecondAnswer,
     RecordPaymentCancelFailure, UpdateRow, rowVars
<1> QED
  BY <1>1, <1>2, <1>3, NextKinds

\* CancelCore closes the payment at the channel before it cancels the order,
\* whatever the webhooks, queries and other handlers do in between, unless
\* the channel cannot close payments, reported a failure, or was asked to
\* close a trade it did not know yet.
THEOREM CancellationSound == Spec => ClosedBeforeCancelled
<1>1. TypeInv /\ PaymentInv /\ ClosingInv /\ [Next]_vars =>
        [/\ status # "CANCELLED" /\ status' = "CANCELLED"
         /\ cancelable /\ "failed" \notin notes /\ ~missed
         => upstream = "closed"]_vars
  <2> SUFFICES ASSUME TypeInv, PaymentInv, ClosingInv, [Next]_vars, status # "CANCELLED",
                      status' = "CANCELLED", cancelable, "failed" \notin notes, ~missed
               PROVE  upstream = "closed"
    OBVIOUS
  <2>1. PICK w \in Workers : FinalizePendingOrder(w)
    BY CancelledBy
  <2> QED
    BY <2>1 DEF FinalizePendingOrder, ClosingInv, ClosingOK
<1> QED
  BY TypeInit, PaymentInit, ClosingInit, TypeInductive, PaymentStep, ClosingStep, <1>1, PTL
     DEF Spec, Init, ClosedBeforeCancelled

-----------------------------------------------------------------------------
(* The composed system implements the safety part of the promise. *)

\* The lifecycle handlers neither settle a payment, nor deliver, nor complete.
LEMMA PromiseStep ==
    ASSUME TypeInv, PaymentInv, DeliveryInv, [Next]_vars
    PROVE  [Promise!DNext]_(Promise!dvars)
<1>1. Shape(Steps, Answer)
  BY TypeIsShape DEF TypeInv
<1>2. CASE [FNext]_fvars
  BY <1>1, <1>2, FPromiseStep
<1>3. status = "COMPLETED" => status' = "COMPLETED"
  BY RowStep DEF RowMoves, FulfillableStatus
<1>4. CASE BecomeDue \/ ForceExpireOrder
  <2>1. granted' = granted /\ (status' = "COMPLETED" => status = "COMPLETED") /\ upstream' = upstream
    BY <1>4, EnvironmentQuiet DEF BecomeDue, ForceExpireOrder, fvars, providerVars
  <2> QED
    BY <1>3, <2>1, KeptIsStutter DEF PromiseKept
<1>5. ASSUME NEW w \in Workers,
             \/ \E g \in Goal \ {"none"} : Begin(w, g)
             \/ HandleQueriedStatus(w)
             \/ LifecycleStep(w)
             \/ AbortLifecycle(w)
      PROVE  [Promise!DNext]_(Promise!dvars)
  <2>1. granted' = granted /\ (status' = "COMPLETED" => status = "COMPLETED")
    BY <1>5, LifecycleQuiet DEF Quiet, entitlementVars
  <2>2. upstream' = upstream \/ (upstream # "paid" /\ upstream' # "paid")
    <3>1. CASE CancelPayment(w)
      BY <3>1 DEF CancelPayment
    <3> QED
      BY <1>5, <3>1 DEF Begin, HandleQueriedStatus, AbortLifecycle, LifecycleStep, QueryProvider,
         ApplyFirstAnswer, SaveUpstreamTradeNumber, RequeryAfterCancel, ApplySecondAnswer,
         FinalizePendingOrder, RecordPaymentCancelFailure, providerVars
  <2> QED
    BY <1>3, <2>1, <2>2, KeptIsStutter DEF PromiseKept
<1> QED
  BY <1>2, <1>4, <1>5, NextKinds

\* Cancellation, expiry, verification and reconciliation, racing with the
\* fulfillment, keep its promise: an order is delivered once, after its
\* payment settled, and is closed only then and for good.
THEOREM LifecycleImplementsPromise == Spec => Promise!DSafe
<1>1. TypeInv /\ PaymentInv /\ DeliveryInv /\ [Next]_vars => [Promise!DNext]_(Promise!dvars)
  BY PromiseStep
<1> QED
  BY TypeInit, PaymentInit, DeliveryInit, TypeInductive, PaymentStep, DeliveryStep, PromiseInit, <1>1, PTL
     DEF Spec, Init, Promise!DSafe
=============================================================================
