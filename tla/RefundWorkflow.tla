--------------------------- MODULE RefundWorkflow ---------------------------
(***************************************************************************)
(* payment.RefundWorkflow and payment/postgres.RefundStore: the refund of  *)
(* one completed order.  The entitlement is taken back in a transaction    *)
(* that leaves a receipt, the channel is called outside any transaction,   *)
(* and a second transaction closes the refund or gives the entitlement     *)
(* back.  An administrator may ask the channel again for a refund that is  *)
(* pending or was left half-way.  Each action of an administrator is one   *)
(* transaction, read or channel call of the handler.                       *)
(*                                                                         *)
(* updated_at is the version every transaction compares; it grows with     *)
(* every update.  The operation id of a receipt and its version are        *)
(* created together and identify each other, so the version stands for     *)
(* both.                                                                   *)
(***************************************************************************)
EXTENDS Naturals, FiniteSets, FiniteSetsExt

CONSTANTS
    Admins,         \* requests of administrators handled concurrently
    Total,          \* amount of the order, credited to the user's balance
    PayTotal,       \* amount that was paid for it at the channel
    LatestOnly,     \* without a refund id the channel answers a query with
                    \* its latest refund (Stripe) instead of the refund of
                    \* the amount asked for (WeChat Pay)
    MaxVersion,     \* bound on the updates after which a refund may start
    MaxFaults       \* bound on crashes, failing calls and stray updates

ASSUME TotalAssumption == Total \in Nat \ {0} /\ PayTotal \in Nat \ {0}
ASSUME BoundsAssumption == MaxVersion \in Nat /\ MaxFaults \in Nat
ASSUME LatestAssumption == LatestOnly \in BOOLEAN

VARIABLES
    orderType,  \* "balance" or "subscription"
    extended,   \* the subscription outlasts the plan days of the order
    status,     \* payment_orders.status
    version,    \* payment_orders.updated_at
    refundAmount, \* payment_orders.refund_amount
    receipt,    \* REFUND_PREPARED record
    pending,    \* REFUND_PENDING record
    success,    \* balance deducted according to the REFUND_SUCCESS record
    balance,    \* balance of the user
    spent,      \* what the user has spent of the order's amount
    sub,        \* the subscription granted for the order
    refunds,    \* state of the refund of each gateway amount at the channel
    latest,     \* gateway amount of the latest refund, or 0
    pc, plan, answer, \* of each administrator: step, plan, channel's answer
    mistaken,   \* history: a query without a refund id was answered with
                \* another refund than the receipt's
    faults

orderVars == <<status, version, refundAmount>>
auditVars == <<receipt, pending, success>>
rightsVars == <<balance, spent, sub>>
channelVars == <<refunds, latest, mistaken>>
fixedVars == <<orderType, extended>>
adminVars == <<pc, plan, answer, faults>>
rvars == <<orderVars, auditVars, rightsVars, channelVars, fixedVars, adminVars>>

Amounts == 1 .. Total
RefundableStatus == {"COMPLETED", "REFUND_REQUESTED", "REFUND_PENDING", "REFUND_FAILED"}
RefundedStatus == {"REFUNDED", "PARTIALLY_REFUNDED"}
RefundStatus == RefundableStatus \cup RefundedStatus \cup {"REFUNDING"}
Steps == {"idle", "prepare", "gateway", "finish", "record", "queryRecovery",
          "finishRecovered", "queryPending", "finishPending"}

\* CalculateGatewayRefundAmount: the share of the payment, rounded half up; a
\* full refund is the whole payment.
GatewayAmount(a) ==
    IF a = Total THEN PayTotal ELSE (2 * PayTotal * a + Total) \div (2 * Total)

\* What a plan, a receipt and a pending record say of a refund: the order's
\* status and version when it was read or prepared, the amount, whether it
\* is forced, what is to be taken of the entitlement ("take" is an amount of
\* balance, or 1 for the days of the subscription) and whether the user or
\* the subscription to take it from was found (DeductionType and
\* SubscriptionID).  The id of a refund at the channel is its gateway amount;
\* 0 when it is not known.  A handler keeps the id of the channel's answer.
Facts == [status : RefundStatus, version : Nat, amount : 0 .. Total,
          force : BOOLEAN, deduct : BOOLEAN, take : 0 .. Total, found : BOOLEAN, id : Nat]
NoFacts == [status |-> "COMPLETED", version |-> 0, amount |-> 0, force |-> FALSE,
            deduct |-> FALSE, take |-> 0, found |-> FALSE, id |-> 0]

\* What a deduction of these facts really takes.
Taken(f) == IF f.found THEN f.take ELSE 0

RTypeOK ==
    /\ orderType \in {"balance", "subscription"} /\ extended \in BOOLEAN
    /\ status \in RefundStatus /\ version \in Nat /\ refundAmount \in 0 .. Total
    /\ receipt \in Facts /\ pending \in Facts /\ success \in 0 .. Total
    /\ balance \in 0 .. Total /\ spent \in 0 .. Total
    /\ sub \in {"whole", "shortened", "revoked", "ended"}
    /\ refunds \in [1 .. PayTotal -> {"none", "pending", "success", "failed"}]
    /\ latest \in 0 .. PayTotal
    /\ mistaken \in BOOLEAN
    /\ pc \in [Admins -> Steps]
    /\ plan \in [Admins -> Facts]
    /\ answer \in [Admins -> {"none", "pending", "success", "failed"}]
    /\ faults \in 0 .. MaxFaults

RInit ==
    /\ orderType \in {"balance", "subscription"}
    /\ extended \in BOOLEAN
    /\ status = "COMPLETED" /\ version = 1 /\ refundAmount = 0
    /\ receipt = NoFacts /\ pending = NoFacts /\ success = 0
    /\ balance = (IF orderType = "balance" THEN Total ELSE 0)
    /\ spent = 0
    /\ sub = "whole"
    /\ refunds = [g \in 1 .. PayTotal |-> "none"]
    /\ latest = 0
    /\ mistaken = FALSE
    /\ pc = [w \in Admins |-> "idle"]
    /\ plan = [w \in Admins |-> NoFacts]
    /\ answer = [w \in Admins |-> "none"]
    /\ faults = 0

-----------------------------------------------------------------------------
(* Helpers. *)

Goto(w, l) == pc' = [pc EXCEPT ![w] = l]

\* The handler returns; its local variables are gone.
Return(w) ==
    /\ Goto(w, "idle")
    /\ plan' = [plan EXCEPT ![w] = NoFacts]
    /\ answer' = [answer EXCEPT ![w] = "none"]

Fault ==
    /\ faults < MaxFaults
    /\ faults' = faults + 1

\* An UPDATE of the order; updated_at moves.
Save(s, amount) ==
    /\ status' = s
    /\ version' = version + 1
    /\ refundAmount' = amount

\* claimRefund: the row lock, then status and updated_at compared with what
\* the handler read.
Claimed(f) == status = f.status /\ version = f.version

\* expected(): REFUNDING at the version of the receipt, and the receipt is
\* still the recorded one.
ExpectReceipt(f) ==
    /\ status = "REFUNDING"
    /\ version = f.version
    /\ receipt.version = f.version

\* ApplyRefundDeduction: never more than the available balance.  A
\* subscription that is gone cannot be shortened.  The days of a plan without
\* a subscription are left in it, as if they had been deducted.
CanDeduct(f) == Taken(f) > 0 /\ orderType = "subscription" => sub = "whole"
Deducted(f) == IF orderType = "balance" THEN Min({f.take, balance}) ELSE f.take

ApplyRefundDeduction(f) ==
    /\ CanDeduct(f)
    /\ balance' = (IF orderType = "balance" THEN balance - Deducted(f) ELSE balance)
    /\ sub' = IF Taken(f) = 0 \/ orderType = "balance" THEN sub
              ELSE IF extended THEN "shortened" ELSE "revoked"
    /\ UNCHANGED spent

\* CompensateRefundDeduction fails when the subscription was revoked, by the
\* deduction or by its owner: the row is soft-deleted and cannot be extended.
CanCompensate(f) == Taken(f) > 0 /\ orderType = "subscription" => sub = "shortened"
CompensateRefundDeduction(f) ==
    /\ CanCompensate(f)
    /\ balance' = (IF orderType = "balance" THEN balance + f.take ELSE balance)
    /\ sub' = IF Taken(f) > 0 /\ orderType = "subscription" THEN "whole" ELSE sub
    /\ UNCHANGED spent

-----------------------------------------------------------------------------
(* Requests and preparation. *)

\* RequestRefund by the user of a balance order.
RequestRefund ==
    /\ orderType = "balance"
    /\ status = "COMPLETED"
    /\ balance >= Total
    /\ version < MaxVersion
    /\ Save("REFUND_REQUESTED", Total)
    /\ UNCHANGED <<auditVars, rightsVars, channelVars, fixedVars, adminVars>>

\* PrepDeduct: the possible deductions.  Without force the user or a live
\* subscription must be found, and the balance must suffice.  A forced refund
\* goes on without them; it plans the days of the subscription all the same.
PrepDeduct(a, force, read) ==
    LET found == read /\ (orderType = "subscription" => sub = "whole")
        take == CASE orderType = "subscription"      -> 1
                  [] orderType = "balance" /\ found  -> Min({a, balance})
                  [] OTHER                           -> 0
    IN IF force \/ (found /\ (orderType = "balance" => balance >= a))
         THEN {[take |-> take, found |-> found]} ELSE {}

NoDeduction == [take |-> 0, found |-> FALSE]

\* PrepareRefund of the workflow: read the order and plan the deduction; the
\* read of the user or of the subscriptions may fail.
PrepareRefund(w) ==
    /\ pc[w] = "idle"
    /\ status \in RefundableStatus
    /\ version < MaxVersion
    /\ \E a \in Amounts, force \in BOOLEAN, deduct \in BOOLEAN, read \in BOOLEAN :
         /\ IF read THEN UNCHANGED faults ELSE deduct /\ Fault
         /\ \E d \in IF deduct THEN PrepDeduct(a, force, read) ELSE {NoDeduction} :
              plan' = [plan EXCEPT ![w] =
                         [status |-> status, version |-> version, amount |-> a,
                          force |-> force, deduct |-> deduct, take |-> d.take,
                          found |-> d.found, id |-> 0]]
    /\ Goto(w, "prepare")
    /\ UNCHANGED <<orderVars, auditVars, rightsVars, channelVars, fixedVars, answer>>

\* Mutant of PrepareTx: the planned amount is deducted, not the available one.
DeductAsPlanned(w) ==
    LET p == plan[w]
        r == [p EXCEPT !.version = version + 1]
    IN /\ pc[w] = "prepare"
       /\ Claimed(p)
       /\ Save("REFUNDING", p.amount)
       /\ balance' = (IF orderType = "balance" THEN balance - p.take ELSE balance)
       /\ UNCHANGED <<sub, spent>>
       /\ receipt' = r
       /\ plan' = [plan EXCEPT ![w] = r]
       /\ Goto(w, "gateway")
       /\ UNCHANGED <<pending, success, channelVars, fixedVars, answer, faults>>

\* PrepareRefund of the store: one transaction claims the order, takes the
\* entitlement back and records what was really taken.
PrepareTx(w) ==
    LET p == plan[w]
        r == [p EXCEPT !.version = version + 1, !.take = Deducted(p)]
    IN /\ pc[w] = "prepare"
       /\ \/ /\ Claimed(p)
             /\ ApplyRefundDeduction(p)
             /\ Save("REFUNDING", p.amount)
             /\ receipt' = r
             /\ plan' = [plan EXCEPT ![w] = r]
             /\ Goto(w, "gateway")
             /\ UNCHANGED answer
          \/ /\ ~(Claimed(p) /\ CanDeduct(p))
             /\ Return(w)
             /\ UNCHANGED <<orderVars, receipt, rightsVars>>
       /\ UNCHANGED <<pending, success, channelVars, fixedVars, faults>>

-----------------------------------------------------------------------------
(* The channel (external). *)

\* What the channel has promised to pay back.
Committed ==
    MapThenSumSet(LAMBDA g : g,
                  {g \in DOMAIN refunds : refunds[g] \in {"pending", "success"}})

\* The channel makes, accepts or refuses a refund of gateway amount g.  The
\* amount is its idempotency key: a second request finds the first refund.
\* An amount of zero, or more than is left of the payment, is refused.
ChannelRefund(g, ans) ==
    \/ /\ g \in DOMAIN refunds
       /\ refunds[g] = "none" /\ Committed + g <= PayTotal
       /\ ans \in {"success", "pending"}
       /\ refunds' = [refunds EXCEPT ![g] = ans]
       /\ latest' = g
       /\ UNCHANGED mistaken
    \/ /\ g \in DOMAIN refunds => refunds[g] = "none"
       /\ ans = "failed"
       /\ UNCHANGED channelVars
    \/ /\ g \in DOMAIN refunds
       /\ refunds[g] # "none"
       /\ ans = (IF refunds[g] = "success" THEN "success" ELSE "pending")
       /\ UNCHANGED channelVars

\* A pending refund succeeds or fails.
ChannelSettles ==
    /\ \E g \in DOMAIN refunds :
         /\ refunds[g] = "pending"
         /\ \E s \in {"success", "failed"} : refunds' = [refunds EXCEPT ![g] = s]
    /\ UNCHANGED <<latest, mistaken, orderVars, auditVars, rightsVars, fixedVars, adminVars>>

\* The refund a query finds, or 0: the one with the given id, and without an
\* id the latest one or the one whose gateway amount is the amount asked for.
Found(id, amount) ==
    LET g == IF id # 0 THEN id ELSE IF LatestOnly THEN latest ELSE amount
    IN IF g \in DOMAIN refunds /\ refunds[g] # "none" THEN g ELSE 0

-----------------------------------------------------------------------------
(* ExecuteRefund after the preparation. *)

\* GwRefund.  A call whose answer is lost returns an error, which counts as
\* a failed refund whatever the channel did.
GwRefund(w) ==
    /\ pc[w] = "gateway"
    /\ plan' = [plan EXCEPT ![w].id = GatewayAmount(plan[w].amount)]
    /\ \E ans \in {"success", "pending", "failed"} :
         /\ ChannelRefund(plan'[w].id, ans)
         /\ \/ answer' = [answer EXCEPT ![w] = ans] /\ UNCHANGED faults
            \/ answer' = [answer EXCEPT ![w] = "failed"] /\ Fault
    /\ Goto(w, "finish")
    /\ UNCHANGED <<orderVars, auditVars, rightsVars, fixedVars>>

\* CompleteRefund when the deduction was made by the preparation.
CompletePrepared(f) ==
    /\ Save(IF f.amount < Total THEN "PARTIALLY_REFUNDED" ELSE "REFUNDED", f.amount)
    /\ success' = f.take
    /\ UNCHANGED <<receipt, pending, rightsVars>>

\* CompensateRefund after a pending answer: the entitlement is given back
\* until the channel confirms the refund whose id it answered with.
CompensatePending(f) ==
    /\ CompensateRefundDeduction(f)
    /\ Save("REFUND_PENDING", f.amount)
    /\ pending' = f
    /\ UNCHANGED <<receipt, success>>

\* CompensateRefund after a failure.
CompensateFailure(f) ==
    /\ CompensateRefundDeduction(f)
    /\ Save(IF f.status = "REFUND_REQUESTED" THEN "REFUND_REQUESTED" ELSE "COMPLETED",
            refundAmount)
    /\ UNCHANGED auditVars

\* Mutant of FinishRefund: an immediate success deducts once more.
FinishRefundTwice(w) ==
    /\ pc[w] = "finish"
    /\ ExpectReceipt(plan[w])
    /\ answer[w] = "success"
    /\ ApplyRefundDeduction(plan[w])
    /\ Save(IF plan[w].amount < Total THEN "PARTIALLY_REFUNDED" ELSE "REFUNDED", plan[w].amount)
    /\ success' = plan[w].take
    /\ Return(w)
    /\ UNCHANGED <<receipt, pending, channelVars, fixedVars, faults>>

\* FinishRefund and compensateFailure: one transaction, which leaves
\* everything alone when the receipt is no longer current or the
\* compensation fails.
FinishRefund(w) ==
    /\ pc[w] \in {"finish", "finishRecovered"}
    /\ \/ /\ ExpectReceipt(plan[w])
          /\ \/ answer[w] = "success" /\ CompletePrepared(plan[w])
             \/ answer[w] = "pending" /\ CompensatePending(plan[w])
             \/ answer[w] = "failed" /\ CompensateFailure(plan[w])
       \/ /\ ~(ExpectReceipt(plan[w]) /\ (answer[w] = "success" \/ CanCompensate(plan[w])))
          /\ UNCHANGED <<orderVars, auditVars, rightsVars>>
    /\ Return(w)
    /\ UNCHANGED <<channelVars, fixedVars, faults>>

-----------------------------------------------------------------------------
(* QueryAndFinalizeRefund. *)

\* Read the order.
QueryAndFinalizeRefund(w) ==
    /\ pc[w] = "idle"
    /\ status \in {"REFUND_PENDING", "REFUNDING"}
    /\ plan' = [plan EXCEPT ![w] = [NoFacts EXCEPT !.status = status, !.version = version,
                                                   !.amount = refundAmount]]
    /\ Goto(w, "record")
    /\ UNCHANGED <<orderVars, auditVars, rightsVars, channelVars, fixedVars, answer, faults>>

\* RefundRecovery: the receipt must be of the order as it was read.
RefundRecovery(w) ==
    /\ plan[w].status = "REFUNDING"
    /\ IF receipt.version = plan[w].version /\ receipt.amount = plan[w].amount
         THEN plan' = [plan EXCEPT ![w] = receipt] /\ Goto(w, "queryRecovery")
              /\ UNCHANGED answer
         ELSE Return(w)

\* PendingDetail: the pending record must be of the recorded receipt.  The
\* plan keeps the order as it was read, with the deduction of the record.
PendingDetail(w) ==
    /\ plan[w].status = "REFUND_PENDING"
    /\ IF receipt.version = pending.version
         THEN plan' = [plan EXCEPT ![w].take = pending.take, ![w].found = pending.found,
                                   ![w].deduct = pending.deduct, ![w].id = pending.id]
              /\ Goto(w, "queryPending") /\ UNCHANGED answer
         ELSE Return(w)

\* Read the record that says what to finish.
ReadRecord(w) ==
    /\ pc[w] = "record"
    /\ RefundRecovery(w) \/ PendingDetail(w)
    /\ UNCHANGED <<orderVars, auditVars, rightsVars, channelVars, fixedVars, faults>>

\* QueryRefund: by the id of the pending record, or without an id for a
\* receipt, with the order's refund amount and not the gateway's.  Nothing
\* found is an error, which changes nothing.
QueryRefund(w, next) ==
    LET g == Found(plan[w].id, plan[w].amount)
    IN /\ IF g = 0
            THEN Return(w)
            ELSE /\ answer' = [answer EXCEPT ![w] = refunds[g]]
                 /\ plan' = [plan EXCEPT ![w].id = g]
                 /\ Goto(w, next)
       /\ mistaken' = (mistaken \/ (g # 0 /\ plan[w].id = 0
                                     /\ g # GatewayAmount(plan[w].amount)))
       /\ UNCHANGED <<orderVars, auditVars, rightsVars, refunds, latest, fixedVars, faults>>

QueryRecovery(w) == pc[w] = "queryRecovery" /\ QueryRefund(w, "finishRecovered")
QueryPending(w) == pc[w] = "queryPending" /\ QueryRefund(w, "finishPending")

\* CompleteRefund of a pending refund: the entitlement is taken now.
CompletePending(w) ==
    /\ answer[w] = "success"
    /\ ApplyRefundDeduction(plan[w])
    /\ Save(IF plan[w].amount < Total THEN "PARTIALLY_REFUNDED" ELSE "REFUNDED",
            plan[w].amount)
    /\ success' = Deducted(plan[w])
    /\ UNCHANGED <<receipt, pending>>

\* FailPendingRefund
FailPendingRefund(w) ==
    /\ answer[w] = "failed"
    /\ Save("REFUND_FAILED", refundAmount)
    /\ UNCHANGED <<auditVars, rightsVars>>

\* Mutants of FinishPending: the version is not compared; a refund that is
\* still pending counts as made.
FinishPendingAnyVersion(w) ==
    /\ pc[w] = "finishPending"
    /\ CompletePending(w) \/ FailPendingRefund(w)
    /\ Return(w)
    /\ UNCHANGED <<channelVars, fixedVars, faults>>

FinishPendingEarly(w) ==
    /\ pc[w] = "finishPending"
    /\ Claimed(plan[w])
    /\ answer[w] = "pending"
    /\ ApplyRefundDeduction(plan[w])
    /\ Save(IF plan[w].amount < Total THEN "PARTIALLY_REFUNDED" ELSE "REFUNDED",
            plan[w].amount)
    /\ success' = Deducted(plan[w])
    /\ Return(w)
    /\ UNCHANGED <<receipt, pending, channelVars, fixedVars, faults>>

\* The end of QueryAndFinalizeRefund for a pending refund: nothing happens
\* while it is pending, when the order moved on, or when the deduction fails.
FinishPending(w) ==
    /\ pc[w] = "finishPending"
    /\ \/ Claimed(plan[w]) /\ (CompletePending(w) \/ FailPendingRefund(w))
       \/ /\ \/ answer[w] = "pending"
             \/ ~Claimed(plan[w])
             \/ answer[w] = "success" /\ ~CanDeduct(plan[w])
          /\ UNCHANGED <<orderVars, auditVars, rightsVars>>
    /\ Return(w)
    /\ UNCHANGED <<channelVars, fixedVars, faults>>

-----------------------------------------------------------------------------
(* The environment. *)

\* The user spends balance.
Spend ==
    /\ balance > 0
    /\ balance' = balance - 1
    /\ spent' = spent + 1
    /\ UNCHANGED <<sub, orderVars, auditVars, channelVars, fixedVars, adminVars>>

\* RevokeOwnExhaustedSubscription: the owner gives the subscription up.
RevokeOwnSubscription ==
    /\ orderType = "subscription"
    /\ sub \in {"whole", "shortened"}
    /\ sub' = "ended"
    /\ UNCHANGED <<balance, spent, orderVars, auditVars, channelVars, fixedVars, adminVars>>

\* The process stops or a call fails before the transaction commits.
Abort(w) ==
    /\ pc[w] # "idle"
    /\ Fault
    /\ Return(w)
    /\ UNCHANGED <<orderVars, auditVars, rightsVars, channelVars, fixedVars>>

\* A payment query that stalled since before the order was completed saves
\* the trade number: SaveUpstreamTradeNumber compares nothing and moves
\* updated_at.
StaleTradeNumber ==
    /\ Fault
    /\ Save(status, refundAmount)
    /\ UNCHANGED <<auditVars, rightsVars, channelVars, fixedVars, pc, plan, answer>>

RNext ==
    \/ RequestRefund
    \/ ChannelSettles
    \/ Spend
    \/ RevokeOwnSubscription
    \/ StaleTradeNumber
    \/ \E w \in Admins :
          \/ PrepareRefund(w)
          \/ PrepareTx(w)
          \/ GwRefund(w)
          \/ FinishRefund(w)
          \/ QueryAndFinalizeRefund(w)
          \/ ReadRecord(w)
          \/ QueryRecovery(w)
          \/ QueryPending(w)
          \/ FinishPending(w)
          \/ Abort(w)

RSpec == RInit /\ [][RNext]_rvars

-----------------------------------------------------------------------------
(* Properties. *)

\* What the records say is being withheld from the user for this order.  The
\* days of a subscription that was not found are in the records too, and only
\* the REFUND_PREPARED record tells that nobody took them.
Held ==
    CASE status = "REFUNDING"       -> Taken(receipt)
      [] status \in RefundedStatus  -> IF receipt.found THEN success ELSE 0
      [] OTHER                      -> 0

\* Through preparations, compensations, confirmations, crashes and races the
\* user's entitlement is accounted for by the status and its records alone:
\* nothing is deducted twice, given back twice, or kept after a refund that
\* did not take place.
RightsAccounted ==
    IF orderType = "balance"
      THEN balance + spent + Held = Total
      ELSE sub # "ended" => (sub # "whole" <=> Held > 0)

\* A query without an id may find another refund than the receipt's: the
\* latest one, or the one whose gateway amount is this order amount.
InexactQuery == LatestOnly \/ \E a \in Amounts : GatewayAmount(a) # a

Made(g) == g \in DOMAIN refunds /\ refunds[g] = "success"

\* An order becomes refunded only after the channel has paid back, and what it
\* paid back is the gateway amount of the refund the order records, whichever
\* handler, confirmation or retry closes it.  The exact amount is lost only
\* when QueryRefund had to ask without an id and was told of another refund,
\* which needs a channel or an amount for which such a query is inexact.
RefundedAtChannel ==
    [][status \notin RefundedStatus /\ status' \in RefundedStatus =>
         /\ \E g \in DOMAIN refunds : Made(g)
         /\ Made(GatewayAmount(refundAmount')) \/ (InexactQuery /\ mistaken)]_rvars

\* A late failure, a late confirmation or a stalled handler never changes a
\* refund that is closed, nor what was recorded and withheld for it.
RefundedIsFinal ==
    [][(status \in RefundedStatus) =>
         status' = status /\ refundAmount' = refundAmount /\ success' = success]_rvars

-----------------------------------------------------------------------------
\* An answer that is not known is never taken for a failure: an order that
\* is back in COMPLETED was not refunded by the channel.
FailureIsNotGuessed ==
    status = "COMPLETED" => \A g \in DOMAIN refunds : ~Made(g)
=============================================================================
