---------------------------- MODULE RefundProofs ----------------------------
(***************************************************************************)
(* Proofs about RefundWorkflow, for every number of administrators, every  *)
(* order amount and every bound.  The argument rests on updated_at: a      *)
(* transaction that compares the version it read writes over nothing it    *)
(* has not seen, so a plan whose version is current describes the order    *)
(* and its record as they are.                                             *)
(***************************************************************************)
EXTENDS RefundWorkflow, TLAPS

-----------------------------------------------------------------------------
(* The inductive invariant. *)

\* A balance order whose user was not found plans no deduction.
FactsOK(f) == orderType = "balance" /\ ~f.found => f.take = 0

\* The facts are those of the receipt.
Executes(f, r) == f.amount = r.amount /\ f.take = r.take /\ f.found = r.found

\* The id is of the refund of this amount, unless a query without an id was
\* answered with another one.
RightId(id, amount) == id = GatewayAmount(amount) \/ mistaken

\* updated_at only grows; a recorded receipt is of a prepared refund, and a
\* pending record is of a receipt and names the refund of the amount the
\* order records.
RecordInv ==
    /\ version > 0
    /\ receipt.version <= version /\ pending.version <= receipt.version
    /\ receipt.version > 0 => receipt.amount \in Amounts /\ receipt.id = 0
    /\ pending.version = receipt.version => pending.found = receipt.found
    /\ FactsOK(receipt) /\ FactsOK(pending)
    /\ status = "REFUND_PENDING" =>
         refundAmount \in Amounts /\ pending.id # 0 /\ RightId(pending.id, refundAmount)

\* What a handler holds: a plan it has prepared is of a refundable order; a
\* plan it executes is that of the receipt if it has the receipt's version; a
\* plan it finalizes describes the order if it has the order's version.
PlanInv(w) ==
    /\ plan[w].version <= version
    /\ FactsOK(plan[w])
    /\ pc[w] = "prepare" =>
         plan[w].status \in RefundableStatus /\ plan[w].amount \in Amounts /\ plan[w].id = 0
    /\ pc[w] \in {"gateway", "finish", "queryRecovery", "finishRecovered"} =>
         /\ plan[w].amount \in Amounts
         /\ plan[w].version = receipt.version => Executes(plan[w], receipt)
    /\ pc[w] = "queryRecovery" => plan[w].id = 0
    /\ pc[w] \in {"finish", "finishRecovered"} => RightId(plan[w].id, plan[w].amount)
    /\ pc[w] = "record" =>
         /\ plan[w].status \in {"REFUNDING", "REFUND_PENDING"} /\ plan[w].version > 0
         /\ plan[w].version = version => plan[w].status = status /\ plan[w].amount = refundAmount
    /\ pc[w] \in {"queryPending", "finishPending"} =>
         /\ plan[w].status = "REFUND_PENDING"
         /\ plan[w].version = version =>
              /\ status = "REFUND_PENDING" /\ plan[w].amount = refundAmount
              /\ plan[w].found = receipt.found
              /\ plan[w].id # 0 /\ RightId(plan[w].id, plan[w].amount)

\* What a handler was told of took place: the refund with the id of the
\* answer exists, and a success was made.
AnswerInv(w) ==
    pc[w] \in {"finish", "finishRecovered", "finishPending"} =>
      /\ answer[w] = "success" => Made(plan[w].id)
      /\ answer[w] = "pending" => plan[w].id # 0

\* An exact query is never answered with another refund.
ChannelInv == mistaken => InexactQuery

\* The balance is touched by balance orders only.
BalanceInv == orderType = "subscription" => balance = 0 /\ spent = 0

RefundInv ==
    /\ RTypeOK
    /\ RecordInv
    /\ \A w \in Admins : PlanInv(w)
    /\ \A w \in Admins : AnswerInv(w)
    /\ BalanceInv
    /\ RightsAccounted
    /\ ChannelInv

-----------------------------------------------------------------------------
(* Facts about the operators. *)

\* The lesser of two amounts, which a deduction takes.
LEMMA MinPair ==
    ASSUME NEW a \in Nat, NEW b \in Nat
    PROVE  /\ Min({a, b}) \in Nat
           /\ Min({a, b}) <= a /\ Min({a, b}) <= b
           /\ Min({a, b}) = a \/ Min({a, b}) = b
<1>1. \E x \in {a, b} : \A y \in {a, b} : x =< y
  OBVIOUS
<1>2. Min({a, b}) \in {a, b} /\ \A y \in {a, b} : Min({a, b}) =< y
  BY <1>1 DEF Min
<1>3. QED  BY <1>2

\* Deducted never exceeds the plan, nor the balance of a balance order.
LEMMA DeductedBound ==
    ASSUME RTypeOK, NEW f \in Facts
    PROVE  /\ Deducted(f) \in 0 .. Total
           /\ orderType = "balance" => Deducted(f) <= balance
           /\ orderType # "balance" => Deducted(f) = f.take
<1>1. f.take \in 0 .. Total /\ balance \in 0 .. Total
  BY DEF RTypeOK, Facts
<1>2. f.take \in Nat /\ balance \in Nat
  BY <1>1, TotalAssumption
<1>3. QED  BY <1>1, <1>2, MinPair, TotalAssumption DEF Deducted

\* The facts of a refund that is not known.
LEMMA NoFactsType ==
    NoFacts \in Facts /\ NoFacts.version = 0 /\ NoFacts.amount = 0 /\ NoFacts.take = 0
BY TotalAssumption DEF NoFacts, Facts, RefundStatus, RefundableStatus

\* A plan with the id of the channel's answer.
LEMMA FactsWithId ==
    ASSUME NEW f \in Facts, NEW i \in Nat
    PROVE  /\ [f EXCEPT !.id = i] \in Facts
           /\ [f EXCEPT !.id = i].id = i
BY DEF Facts

\* A gateway amount is a natural number.
LEMMA GatewayAmountType ==
    ASSUME NEW a \in 0 .. Total
    PROVE  GatewayAmount(a) \in Nat
<1>1. 2 * PayTotal * a + Total \in Nat /\ 2 * Total \in Nat /\ 2 * Total > 0
  BY TotalAssumption
<1>2. \A x, y \in Nat : y > 0 => x \div y \in Nat
  OBVIOUS
<1>3. (2 * PayTotal * a + Total) \div (2 * Total) \in Nat
  BY <1>1, <1>2
<1>4. QED  BY <1>3, TotalAssumption DEF GatewayAmount

\* PrepDeduct plans at most the amount of the order, and nothing of a balance
\* that was not found.
LEMMA PrepDeductType ==
    ASSUME RTypeOK, NEW a \in Amounts, NEW force \in BOOLEAN, NEW read \in BOOLEAN,
           NEW d \in PrepDeduct(a, force, read) \cup {NoDeduction}
    PROVE  /\ d.take \in 0 .. Total /\ d.found \in BOOLEAN
           /\ orderType = "balance" /\ ~d.found => d.take = 0
<1>1. a \in Nat /\ a <= Total /\ balance \in Nat /\ orderType \in {"balance", "subscription"}
  BY TotalAssumption DEF RTypeOK, Amounts
<1>2. Min({a, balance}) \in 0 .. Total
  BY <1>1, MinPair, TotalAssumption
<1>3. CASE d \in PrepDeduct(a, force, read)
  <2> DEFINE found == read /\ (orderType = "subscription" => sub = "whole")
             take == CASE orderType = "subscription"      -> 1
                       [] orderType = "balance" /\ found  -> Min({a, balance})
                       [] OTHER                           -> 0
  <2>1. d = [take |-> take, found |-> found]
    BY <1>3 DEF PrepDeduct
  <2>2. CASE orderType = "subscription"
    BY <2>1, <2>2, TotalAssumption
  <2>3. CASE orderType = "balance" /\ found
    <3>1. take = Min({a, balance})
      BY <2>3
    <3>2. QED  BY <1>2, <2>1, <2>3, <3>1
  <2>4. CASE orderType = "balance" /\ ~found
    <3>1. take = 0
      BY <2>4
    <3>2. QED  BY <2>1, <2>4, <3>1, TotalAssumption
  <2>5. QED  BY <1>1, <2>2, <2>3, <2>4
<1>4. CASE d = NoDeduction
  BY <1>4, TotalAssumption DEF NoDeduction
<1>5. QED  BY <1>3, <1>4

\* The plan that a preparation makes.
LEMMA PlannedFacts ==
    ASSUME RTypeOK, NEW w \in Admins, PrepareRefund(w)
    PROVE  \E f \in Facts :
             /\ plan' = [plan EXCEPT ![w] = f]
             /\ f.status = status /\ f.version = version /\ f.amount \in Amounts
             /\ f.id = 0 /\ FactsOK(f)
<1>1. PICK a \in Amounts, force \in BOOLEAN, deduct \in BOOLEAN, read \in BOOLEAN :
       /\ IF read THEN UNCHANGED faults ELSE deduct /\ Fault
       /\ \E d \in IF deduct THEN PrepDeduct(a, force, read) ELSE {NoDeduction} :
            plan' = [plan EXCEPT ![w] =
                       [status |-> status, version |-> version, amount |-> a,
                        force |-> force, deduct |-> deduct, take |-> d.take,
                        found |-> d.found, id |-> 0]]
  BY DEF PrepareRefund
<1>2. PICK d \in PrepDeduct(a, force, read) \cup {NoDeduction} :
            plan' = [plan EXCEPT ![w] =
                       [status |-> status, version |-> version, amount |-> a,
                        force |-> force, deduct |-> deduct, take |-> d.take,
                        found |-> d.found, id |-> 0]]
  BY <1>1
<1>3. /\ d.take \in 0 .. Total /\ d.found \in BOOLEAN
      /\ orderType = "balance" /\ ~d.found => d.take = 0
  BY <1>2, PrepDeductType
<1>4. a \in 0 .. Total
  BY TotalAssumption DEF Amounts
<1> DEFINE f == [status |-> status, version |-> version, amount |-> a,
                 force |-> force, deduct |-> deduct, take |-> d.take,
                 found |-> d.found, id |-> 0]
<1>5. f \in Facts
  BY <1>3, <1>4 DEF RTypeOK, Facts
<1>6. FactsOK(f)
  BY <1>3 DEF FactsOK
<1>7. f.status = status /\ f.version = version /\ f.amount \in Amounts /\ f.id = 0
  BY <1>1
<1>8. plan' = [plan EXCEPT ![w] = f]
  BY <1>2
<1>9. QED  BY <1>5, <1>6, <1>7, <1>8

-----------------------------------------------------------------------------
(* Types. *)

\* The handler returns.
LEMMA ReturnType ==
    ASSUME RTypeOK, NEW w \in Admins, Return(w)
    PROVE  /\ pc' \in [Admins -> Steps]
           /\ plan' \in [Admins -> Facts]
           /\ answer' \in [Admins -> {"none", "pending", "success", "failed"}]
BY NoFactsType DEF RTypeOK, Return, Goto, Steps

\* The entitlement stays within the order's amount when it is taken ...
LEMMA DeductionType ==
    ASSUME RTypeOK, NEW f \in Facts, ApplyRefundDeduction(f)
    PROVE  /\ balance' \in 0 .. Total /\ spent' \in 0 .. Total
           /\ sub' \in {"whole", "shortened", "revoked", "ended"}
<1>1. Deducted(f) \in 0 .. Total /\ (orderType = "balance" => Deducted(f) <= balance)
  BY DeductedBound
<1>2. balance \in 0 .. Total
  BY DEF RTypeOK
<1>3. balance' \in 0 .. Total
  BY <1>1, <1>2, TotalAssumption DEF ApplyRefundDeduction
<1>4. QED  BY <1>3 DEF RTypeOK, ApplyRefundDeduction

\* ... and when what a receipt says is given back.
LEMMA CompensationType ==
    ASSUME RTypeOK, RecordInv, RightsAccounted, status = "REFUNDING",
           NEW f, Executes(f, receipt), CompensateRefundDeduction(f)
    PROVE  /\ balance' \in 0 .. Total /\ spent' \in 0 .. Total
           /\ sub' \in {"whole", "shortened", "revoked", "ended"}
<1>1. receipt.take \in 0 .. Total /\ balance \in 0 .. Total /\ spent \in 0 .. Total
  BY DEF RTypeOK, Facts
<1>2. orderType = "balance" => Held = receipt.take
  BY DEF Held, RefundedStatus, Taken, RecordInv, FactsOK
<1>3. orderType = "balance" => balance + spent + receipt.take = Total
  BY <1>2 DEF RightsAccounted
<1>4. balance' \in 0 .. Total
  BY <1>1, <1>3, TotalAssumption DEF CompensateRefundDeduction, Executes
<1>5. QED  BY <1>1, <1>4 DEF RTypeOK, CompensateRefundDeduction

\* A plan that FinishRefund executes is that of the receipt.
LEMMA ExpectedIsReceipt ==
    ASSUME RTypeOK, NEW w \in Admins, PlanInv(w), pc[w] \in {"finish", "finishRecovered"},
           ExpectReceipt(plan[w])
    PROVE  /\ Executes(plan[w], receipt) /\ status = "REFUNDING"
           /\ plan[w] \in Facts /\ receipt \in Facts /\ plan[w].amount \in Amounts
BY DEF PlanInv, ExpectReceipt, RTypeOK

\* Preparing a refund keeps the types: the facts it reads are a plan.
LEMMA PrepareRefundType ==
    ASSUME RTypeOK, NEW w \in Admins, PrepareRefund(w)
    PROVE  RTypeOK'
<1>1. plan' \in [Admins -> Facts]
  BY PlannedFacts DEF RTypeOK
<1>2. pc' \in [Admins -> Steps]
  BY DEF RTypeOK, PrepareRefund, Goto, Steps
<1>3. faults' \in 0 .. MaxFaults
  BY BoundsAssumption DEF RTypeOK, PrepareRefund, Fault
<1>4. QED  BY <1>1, <1>2, <1>3 DEF RTypeOK, PrepareRefund, orderVars, auditVars, rightsVars,
                                  channelVars, fixedVars

\* The transaction that saves the plan and takes the entitlement keeps the types.
LEMMA PrepareTxType ==
    ASSUME RTypeOK, NEW w \in Admins, PrepareTx(w)
    PROVE  RTypeOK'
<1> DEFINE p == plan[w]
           r == [p EXCEPT !.version = version + 1, !.take = Deducted(p)]
<1>1. p \in Facts /\ Deducted(p) \in 0 .. Total /\ version + 1 \in Nat /\ p.amount \in 0 .. Total
  <2>1. p \in Facts  BY DEF RTypeOK
  <2>2. p.amount \in 0 .. Total  BY <2>1 DEF Facts
  <2>3. QED  BY <2>1, <2>2, DeductedBound DEF RTypeOK
<1>2. r \in Facts
  BY <1>1 DEF Facts
<1>3. CASE /\ Claimed(p)
           /\ ApplyRefundDeduction(p)
           /\ Save("REFUNDING", p.amount)
           /\ receipt' = r
           /\ plan' = [plan EXCEPT ![w] = r]
           /\ Goto(w, "gateway")
           /\ UNCHANGED answer
  <2> HIDE DEF r
  <2>1. /\ balance' \in 0 .. Total /\ spent' \in 0 .. Total
        /\ sub' \in {"whole", "shortened", "revoked", "ended"}
    BY <1>1, <1>3, DeductionType
  <2>2. receipt' \in Facts /\ plan' \in [Admins -> Facts]
    BY <1>2, <1>3 DEF RTypeOK
  <2>3. pc' \in [Admins -> Steps]
    BY <1>3 DEF RTypeOK, Goto, Steps
  <2>4. status' \in RefundStatus /\ version' \in Nat /\ refundAmount' \in 0 .. Total
    BY <1>1, <1>3 DEF Save, RefundStatus
  <2>5. QED  BY <1>3, <2>1, <2>2, <2>3, <2>4 DEF RTypeOK, PrepareTx, channelVars, fixedVars
<1>4. CASE Return(w) /\ UNCHANGED <<orderVars, receipt, rightsVars>>
  BY <1>4, ReturnType DEF RTypeOK, PrepareTx, orderVars, rightsVars, channelVars, fixedVars
<1>5. QED  BY <1>3, <1>4 DEF PrepareTx

\* The call of the channel keeps the types.
LEMMA GwRefundType ==
    ASSUME RTypeOK, NEW w \in Admins, GwRefund(w)
    PROVE  RTypeOK'
<1> DEFINE g == GatewayAmount(plan[w].amount)
<1>0. plan[w] \in Facts /\ g \in Nat
  BY GatewayAmountType DEF RTypeOK, Facts
<1>1. plan' = [plan EXCEPT ![w] = [plan[w] EXCEPT !.id = g]]
  BY DEF GwRefund, RTypeOK
<1> HIDE DEF g
<1>2. [plan[w] EXCEPT !.id = g] \in Facts /\ [plan[w] EXCEPT !.id = g].id = g
  BY <1>0, FactsWithId
<1>3. plan' \in [Admins -> Facts] /\ plan'[w].id = g
  BY <1>1, <1>2 DEF RTypeOK
<1>4. PICK ans \in {"success", "pending", "failed"} :
         /\ ChannelRefund(g, ans)
         /\ \/ answer' = [answer EXCEPT ![w] = ans] /\ UNCHANGED faults
            \/ answer' = [answer EXCEPT ![w] = "failed"] /\ Fault
  BY <1>3 DEF GwRefund
<1>5. /\ refunds' \in [1 .. PayTotal -> {"none", "pending", "success", "failed"}]
      /\ latest' \in 0 .. PayTotal /\ mistaken' \in BOOLEAN
  BY <1>0, <1>4, TotalAssumption DEF RTypeOK, ChannelRefund, channelVars
<1>6. answer' \in [Admins -> {"none", "pending", "success", "failed"}]
  BY <1>4 DEF RTypeOK
<1>7. faults' \in 0 .. MaxFaults
  BY <1>4, BoundsAssumption DEF RTypeOK, Fault
<1>8. pc' \in [Admins -> Steps]
  BY DEF RTypeOK, GwRefund, Goto, Steps
<1>9. QED  BY <1>3, <1>5, <1>6, <1>7, <1>8 DEF RTypeOK, GwRefund, orderVars, auditVars, rightsVars, fixedVars

\* The answer of the channel is applied within the types: what a compensation gives
\* back was taken before.
LEMMA FinishRefundType ==
    ASSUME RTypeOK, RecordInv, RightsAccounted, NEW w \in Admins, PlanInv(w), FinishRefund(w)
    PROVE  RTypeOK'
<1> USE DEF RefundStatus, RefundableStatus, RefundedStatus
<1>1. CASE ExpectReceipt(plan[w]) /\ answer[w] = "success" /\ CompletePrepared(plan[w])
  <2>1. plan[w] \in Facts
    BY DEF RTypeOK
  <2>2. plan[w].take \in 0 .. Total /\ plan[w].amount \in 0 .. Total
    BY <2>1 DEF Facts
  <2>3. status' \in RefundStatus /\ version' \in Nat /\ refundAmount' \in 0 .. Total
        /\ success' \in 0 .. Total /\ UNCHANGED <<receipt, pending, rightsVars>>
    BY <1>1, <2>2 DEF CompletePrepared, Save, RTypeOK
  <2>4. QED  BY <2>3, ReturnType DEF RTypeOK, FinishRefund, rightsVars, channelVars, fixedVars
<1>2. CASE ExpectReceipt(plan[w]) /\ answer[w] = "pending" /\ CompensatePending(plan[w])
  <2>1. Executes(plan[w], receipt) /\ plan[w] \in Facts /\ status = "REFUNDING"
    BY <1>2, ExpectedIsReceipt DEF FinishRefund
  <2>2. plan[w].amount \in 0 .. Total
    BY <2>1 DEF Facts
  <2>3. /\ balance' \in 0 .. Total /\ spent' \in 0 .. Total
        /\ sub' \in {"whole", "shortened", "revoked", "ended"}
    BY <1>2, <2>1, CompensationType DEF CompensatePending
  <2>4. status' \in RefundStatus /\ version' \in Nat /\ refundAmount' \in 0 .. Total
        /\ pending' \in Facts /\ UNCHANGED <<receipt, success>>
    BY <1>2, <2>1, <2>2 DEF CompensatePending, Save, RTypeOK
  <2>5. QED  BY <2>3, <2>4, ReturnType DEF RTypeOK, FinishRefund, channelVars, fixedVars
<1>3. CASE ExpectReceipt(plan[w]) /\ answer[w] = "failed" /\ CompensateFailure(plan[w])
  <2>1. Executes(plan[w], receipt) /\ status = "REFUNDING"
    BY <1>3, ExpectedIsReceipt DEF FinishRefund
  <2>2. /\ balance' \in 0 .. Total /\ spent' \in 0 .. Total
        /\ sub' \in {"whole", "shortened", "revoked", "ended"}
    BY <1>3, <2>1, CompensationType DEF CompensateFailure
  <2>3. status' \in RefundStatus /\ version' \in Nat /\ refundAmount' \in 0 .. Total
        /\ UNCHANGED auditVars
    BY <1>3 DEF CompensateFailure, Save, RTypeOK
  <2>4. QED  BY <2>2, <2>3, ReturnType DEF RTypeOK, FinishRefund, auditVars, channelVars, fixedVars
<1>4. CASE UNCHANGED <<orderVars, auditVars, rightsVars>>
  BY <1>4, ReturnType DEF RTypeOK, FinishRefund, orderVars, auditVars, rightsVars, channelVars, fixedVars
<1>5. QED  BY <1>1, <1>2, <1>3, <1>4 DEF FinishRefund

\* Recovery reads the order and its records into a plan.
LEMMA QueryType ==
    ASSUME RTypeOK, NEW w \in Admins, QueryAndFinalizeRefund(w) \/ ReadRecord(w)
    PROVE  RTypeOK'
<1> DEFINE q == [NoFacts EXCEPT !.status = status, !.version = version, !.amount = refundAmount]
<1>1. CASE QueryAndFinalizeRefund(w)
  <2>1. q \in Facts
    BY NoFactsType, TotalAssumption DEF RTypeOK, Facts
  <2> HIDE DEF q
  <2>2. plan' \in [Admins -> Facts]
    <3>1. plan' = [plan EXCEPT ![w] = q]  BY <1>1 DEF QueryAndFinalizeRefund, q
    <3>2. QED  BY <2>1, <3>1 DEF RTypeOK
  <2>3. pc' \in [Admins -> Steps]
    BY <1>1 DEF RTypeOK, QueryAndFinalizeRefund, Goto, Steps
  <2>4. QED  BY <1>1, <2>2, <2>3 DEF RTypeOK, QueryAndFinalizeRefund, orderVars, auditVars,
                                     rightsVars, channelVars, fixedVars
<1>2. CASE ReadRecord(w) /\ Return(w)
  BY <1>2, ReturnType DEF RTypeOK, ReadRecord, orderVars, auditVars, rightsVars, channelVars, fixedVars
<1>3. CASE ReadRecord(w) /\ plan' = [plan EXCEPT ![w] = receipt] /\ Goto(w, "queryRecovery")
           /\ UNCHANGED answer
  BY <1>3 DEF RTypeOK, ReadRecord, Goto, Steps, orderVars, auditVars, rightsVars, channelVars, fixedVars
<1>4. CASE ReadRecord(w) /\ Goto(w, "queryPending") /\ UNCHANGED answer
           /\ plan' = [plan EXCEPT ![w].take = pending.take, ![w].found = pending.found,
                                   ![w].deduct = pending.deduct, ![w].id = pending.id]
  <2> DEFINE q4 == [plan[w] EXCEPT !.take = pending.take, !.found = pending.found,
                                   !.deduct = pending.deduct, !.id = pending.id]
  <2>1. plan[w] \in Facts /\ pending \in Facts
    BY DEF RTypeOK
  <2>2. q4 \in Facts
    BY <2>1 DEF Facts
  <2>3. plan' = [plan EXCEPT ![w] = q4]
    BY <1>4 DEF RTypeOK, Facts
  <2> HIDE DEF q4
  <2>4. plan' \in [Admins -> Facts]
    BY <2>2, <2>3 DEF RTypeOK
  <2>5. QED  BY <1>4, <2>4 DEF RTypeOK, ReadRecord, Goto, Steps, orderVars, auditVars, rightsVars,
                               channelVars, fixedVars
<1>5. QED  BY <1>1, <1>2, <1>3, <1>4 DEF ReadRecord, RefundRecovery, PendingDetail

\* A query finds a refund of the channel.
LEMMA FoundType ==
    ASSUME RTypeOK, NEW i, NEW a, Found(i, a) # 0
    PROVE  /\ Found(i, a) \in 1 .. PayTotal
           /\ i # 0 => Found(i, a) = i
           /\ i = 0 /\ ~LatestOnly => Found(i, a) = a
BY DEF Found, RTypeOK

\* The query of the channel keeps the types.
LEMMA QueryRefundType ==
    ASSUME RTypeOK, NEW w \in Admins, NEW next \in {"finishRecovered", "finishPending"},
           QueryRefund(w, next)
    PROVE  RTypeOK'
<1> DEFINE g == Found(plan[w].id, plan[w].amount)
<1>0. refunds' = refunds /\ latest' = latest /\ mistaken' \in BOOLEAN
  BY DEF QueryRefund, RTypeOK
<1>1. CASE Return(w)
  BY <1>0, <1>1, ReturnType DEF RTypeOK, QueryRefund, orderVars, auditVars, rightsVars, fixedVars
<1>2. CASE g # 0 /\ answer' = [answer EXCEPT ![w] = refunds[g]] /\ Goto(w, next)
           /\ plan' = [plan EXCEPT ![w].id = g]
  <2>1. g \in 1 .. PayTotal
    BY <1>2, FoundType
  <2> HIDE DEF g
  <2>2. answer' \in [Admins -> {"none", "pending", "success", "failed"}]
    BY <1>2, <2>1 DEF RTypeOK
  <2>3. pc' \in [Admins -> Steps]
    BY <1>2 DEF RTypeOK, Goto, Steps
  <2>4. [plan[w] EXCEPT !.id = g] \in Facts
    BY <2>1, FactsWithId, TotalAssumption DEF RTypeOK
  <2>5. plan' \in [Admins -> Facts]
    BY <1>2, <2>4 DEF RTypeOK
  <2>6. QED  BY <1>0, <1>2, <2>2, <2>3, <2>5 DEF RTypeOK, QueryRefund, orderVars, auditVars, rightsVars,
                                                fixedVars
<1>3. QED  BY <1>1, <1>2 DEF QueryRefund

\* The end of a pending refund keeps the types.
LEMMA FinishPendingType ==
    ASSUME RTypeOK, NEW w \in Admins, FinishPending(w)
    PROVE  RTypeOK'
<1> USE DEF RefundStatus, RefundableStatus, RefundedStatus
<1>0. plan[w] \in Facts
  BY DEF RTypeOK
<1>1. CASE CompletePending(w)
  <2>1. /\ balance' \in 0 .. Total /\ spent' \in 0 .. Total
        /\ sub' \in {"whole", "shortened", "revoked", "ended"}
    BY <1>0, <1>1, DeductionType DEF CompletePending
  <2>2. plan[w].amount \in 0 .. Total /\ Deducted(plan[w]) \in 0 .. Total
    BY <1>0, DeductedBound DEF Facts
  <2>3. status' \in RefundStatus /\ version' \in Nat /\ refundAmount' \in 0 .. Total
        /\ success' \in 0 .. Total /\ UNCHANGED <<receipt, pending>>
    BY <1>1, <2>2 DEF CompletePending, Save, RTypeOK
  <2>4. QED  BY <2>1, <2>3, ReturnType DEF RTypeOK, FinishPending, channelVars, fixedVars
<1>2. CASE FailPendingRefund(w)
  <2>1. status' \in RefundStatus /\ version' \in Nat /\ refundAmount' \in 0 .. Total
        /\ UNCHANGED <<auditVars, rightsVars>>
    BY <1>2 DEF FailPendingRefund, Save, RTypeOK
  <2>2. QED  BY <2>1, ReturnType DEF RTypeOK, FinishPending, auditVars, rightsVars, channelVars, fixedVars
<1>3. CASE UNCHANGED <<orderVars, auditVars, rightsVars>>
  BY <1>3, ReturnType DEF RTypeOK, FinishPending, orderVars, auditVars, rightsVars, channelVars, fixedVars
<1>4. QED  BY <1>1, <1>2, <1>3 DEF FinishPending

\* Every step keeps the types.
LEMMA TypeStep ==
    RefundInv /\ [RNext]_rvars => RTypeOK'
<1> SUFFICES ASSUME RefundInv, [RNext]_rvars PROVE RTypeOK'
  OBVIOUS
<1>0. RTypeOK /\ RecordInv /\ RightsAccounted /\ BalanceInv /\ \A w \in Admins : PlanInv(w)
  BY DEF RefundInv
<1>1. CASE RequestRefund
  <2>1. status' \in RefundStatus /\ version' \in Nat /\ refundAmount' \in 0 .. Total
    BY <1>0, <1>1, TotalAssumption DEF RequestRefund, Save, RTypeOK, RefundStatus, RefundableStatus
  <2>2. QED  BY <1>0, <1>1, <2>1 DEF RequestRefund, RTypeOK, auditVars, rightsVars, channelVars,
                                     fixedVars, adminVars
<1>2. CASE ChannelSettles
  BY <1>0, <1>2 DEF ChannelSettles, RTypeOK, orderVars, auditVars, rightsVars, fixedVars, adminVars
<1>3. CASE Spend
  <2>1. balance \in 0 .. Total /\ spent \in 0 .. Total /\ balance > 0
    BY <1>0, <1>3 DEF RTypeOK, Spend
  <2>2. Held \in Nat
    <3>1. receipt.take \in 0 .. Total /\ success \in 0 .. Total
      BY <1>0 DEF RTypeOK, Facts
    <3>2. QED  BY <3>1, TotalAssumption DEF Held, Taken
  <2>3. orderType = "balance"
    BY <1>0, <2>1 DEF RTypeOK, BalanceInv
  <2>4. balance + spent + Held = Total
    BY <1>0, <2>3 DEF RightsAccounted
  <2>5. balance' \in 0 .. Total /\ spent' \in 0 .. Total
    BY <1>3, <2>1, <2>2, <2>4, TotalAssumption DEF Spend
  <2>6. QED  BY <1>0, <1>3, <2>5 DEF Spend, RTypeOK, orderVars, auditVars, channelVars, fixedVars, adminVars
<1>4. CASE RevokeOwnSubscription
  BY <1>0, <1>4 DEF RevokeOwnSubscription, RTypeOK, orderVars, auditVars, channelVars, fixedVars, adminVars
<1>5. CASE StaleTradeNumber
  BY <1>0, <1>5, BoundsAssumption DEF StaleTradeNumber, Save, Fault, RTypeOK, auditVars, rightsVars,
                                      channelVars, fixedVars
<1>6. ASSUME NEW w \in Admins, Abort(w) PROVE RTypeOK'
  BY <1>0, <1>6, ReturnType, BoundsAssumption DEF Abort, Fault, RTypeOK, orderVars, auditVars,
                                                  rightsVars, channelVars, fixedVars
<1>7. ASSUME NEW w \in Admins, QueryRecovery(w) \/ QueryPending(w) PROVE RTypeOK'
  BY <1>0, <1>7, QueryRefundType DEF QueryRecovery, QueryPending
<1>8. CASE UNCHANGED rvars
  BY <1>0, <1>8 DEF rvars, RTypeOK, orderVars, auditVars, rightsVars, channelVars, fixedVars, adminVars
<1>9. QED
  BY <1>0, <1>1, <1>2, <1>3, <1>4, <1>5, <1>6, <1>7, <1>8, PrepareRefundType, PrepareTxType, GwRefundType,
     FinishRefundType, QueryType, FinishPendingType DEF RNext

-----------------------------------------------------------------------------
(* The transactions: what a step may do to the order and its records. *)

Prepares(w) ==
    /\ pc[w] = "prepare" /\ Claimed(plan[w])
    /\ ApplyRefundDeduction(plan[w])
    /\ Save("REFUNDING", plan[w].amount)
    /\ receipt' = [plan[w] EXCEPT !.version = version + 1, !.take = Deducted(plan[w])]
    /\ UNCHANGED <<pending, success>>
Completes(w) ==
    /\ pc[w] \in {"finish", "finishRecovered"} /\ ExpectReceipt(plan[w])
    /\ answer[w] = "success" /\ CompletePrepared(plan[w])
Postpones(w) ==
    /\ pc[w] \in {"finish", "finishRecovered"} /\ ExpectReceipt(plan[w])
    /\ answer[w] = "pending" /\ CompensatePending(plan[w])
GivesUp(w) ==
    pc[w] \in {"finish", "finishRecovered"} /\ ExpectReceipt(plan[w]) /\ CompensateFailure(plan[w])
Confirms(w) ==
    pc[w] = "finishPending" /\ Claimed(plan[w]) /\ CompletePending(w)
Rejects(w) ==
    pc[w] = "finishPending" /\ Claimed(plan[w]) /\ FailPendingRefund(w)

Transaction(w) ==
    Prepares(w) \/ Completes(w) \/ Postpones(w) \/ GivesUp(w) \/ Confirms(w) \/ Rejects(w)

\* Every step is a transaction of a handler, the user's request, the stray
\* trade number, or leaves the order and its records alone.
LEMMA StepKinds ==
    ASSUME [RNext]_rvars
    PROVE  /\ UNCHANGED fixedVars
           /\ \/ \E w \in Admins : Transaction(w) /\ UNCHANGED channelVars
              \/ RequestRefund
              \/ StaleTradeNumber
              \/ /\ UNCHANGED <<orderVars, auditVars>>
                 /\ Spend \/ RevokeOwnSubscription \/ UNCHANGED rightsVars
<1> USE DEF Transaction, Prepares, Completes, Postpones, GivesUp, Confirms, Rejects
<1>1. ASSUME NEW w \in Admins, PrepareTx(w)
      PROVE  /\ UNCHANGED <<fixedVars, channelVars>>
             /\ Transaction(w) \/ UNCHANGED <<orderVars, auditVars, rightsVars>>
  BY <1>1 DEF PrepareTx, auditVars
<1>2. ASSUME NEW w \in Admins, FinishRefund(w)
      PROVE  /\ UNCHANGED <<fixedVars, channelVars>>
             /\ Transaction(w) \/ UNCHANGED <<orderVars, auditVars, rightsVars>>
  BY <1>2 DEF FinishRefund
<1>3. ASSUME NEW w \in Admins, FinishPending(w)
      PROVE  /\ UNCHANGED <<fixedVars, channelVars>>
             /\ Transaction(w) \/ UNCHANGED <<orderVars, auditVars, rightsVars>>
  BY <1>3 DEF FinishPending
<1>4. ASSUME NEW w \in Admins,
             \/ PrepareRefund(w) \/ GwRefund(w) \/ QueryAndFinalizeRefund(w) \/ ReadRecord(w)
             \/ QueryRecovery(w) \/ QueryPending(w) \/ Abort(w)
      PROVE  UNCHANGED <<fixedVars, orderVars, auditVars, rightsVars>>
  BY <1>4 DEF PrepareRefund, GwRefund, QueryAndFinalizeRefund, ReadRecord, QueryRecovery, QueryPending,
              QueryRefund, Abort
<1> HIDE DEF Transaction
<1>5. CASE Spend \/ RevokeOwnSubscription
  BY <1>5 DEF Spend, RevokeOwnSubscription
<1>6. CASE RequestRefund \/ StaleTradeNumber
  BY <1>6 DEF RequestRefund, StaleTradeNumber
<1>7. CASE ChannelSettles \/ UNCHANGED rvars
  BY <1>7 DEF ChannelSettles, rvars
<1>8. QED  BY <1>1, <1>2, <1>3, <1>4, <1>5, <1>6, <1>7 DEF RNext

\* The fields of the receipt that PrepareTx records.
LEMMA ReceiptFields ==
    ASSUME RTypeOK, NEW w \in Admins, Prepares(w)
    PROVE  /\ receipt'.version = version + 1 /\ receipt'.take = Deducted(plan[w])
           /\ receipt'.amount = plan[w].amount /\ receipt'.id = plan[w].id
           /\ receipt'.status = plan[w].status /\ receipt'.found = plan[w].found
<1>1. plan[w] \in Facts
  BY DEF RTypeOK
<1>2. QED  BY <1>1 DEF Prepares, Facts

\* A mistaken answer is not forgotten, and only a query gives one.
LEMMA MistakenStays ==
    ASSUME [RNext]_rvars
    PROVE  /\ mistaken => mistaken'
           /\ mistaken' # mistaken => \E w \in Admins : QueryRecovery(w) \/ QueryPending(w)
<1>1. ASSUME NEW w \in Admins, QueryRecovery(w) \/ QueryPending(w) PROVE mistaken => mistaken'
  BY <1>1 DEF QueryRecovery, QueryPending, QueryRefund
<1>2. ASSUME NEW w \in Admins,
             \/ PrepareRefund(w) \/ PrepareTx(w) \/ GwRefund(w) \/ FinishRefund(w)
             \/ QueryAndFinalizeRefund(w) \/ ReadRecord(w) \/ FinishPending(w) \/ Abort(w)
      PROVE  mistaken' = mistaken
  BY <1>2 DEF PrepareRefund, PrepareTx, GwRefund, ChannelRefund, FinishRefund, QueryAndFinalizeRefund,
              ReadRecord, FinishPending, Abort, channelVars
<1>3. CASE RequestRefund \/ ChannelSettles \/ Spend \/ RevokeOwnSubscription \/ StaleTradeNumber
           \/ UNCHANGED rvars
  BY <1>3 DEF RequestRefund, ChannelSettles, Spend, RevokeOwnSubscription, StaleTradeNumber, rvars, channelVars
<1>4. QED  BY <1>1, <1>2, <1>3 DEF RNext

\* The order and its receipt stay, or the version moves, and with it the
\* version of a receipt that is replaced.
RowStep ==
    /\ orderType' = orderType
    /\ mistaken => mistaken'
    /\ \/ UNCHANGED <<orderVars, receipt>>
       \/ /\ version' = version + 1
          /\ receipt' = receipt \/ receipt'.version = version + 1

\* Every step leaves row and record alone or writes them under the next version.
LEMMA RowSteps ==
    ASSUME RTypeOK, [RNext]_rvars
    PROVE  RowStep
<1>1. orderType' = orderType
  BY StepKinds DEF fixedVars
<1>2. mistaken => mistaken'
  BY MistakenStays
<1>3. ASSUME NEW w \in Admins, Prepares(w) PROVE RowStep
  <2>1. receipt'.version = version + 1
    BY <1>3, ReceiptFields
  <2>2. version' = version + 1
    BY <1>3 DEF Prepares, Save
  <2>3. QED  BY <1>1, <1>2, <2>1, <2>2 DEF RowStep
<1>4. ASSUME NEW w \in Admins, Completes(w) \/ Postpones(w) \/ GivesUp(w) \/ Confirms(w) \/ Rejects(w)
      PROVE  RowStep
  BY <1>1, <1>2, <1>4 DEF RowStep, Completes, Postpones, GivesUp, Confirms, Rejects, CompletePrepared,
              CompensatePending, CompensateFailure, CompletePending, FailPendingRefund, Save, auditVars
<1>5. CASE RequestRefund \/ StaleTradeNumber \/ UNCHANGED <<orderVars, auditVars>>
  BY <1>1, <1>2, <1>5 DEF RowStep, RequestRefund, StaleTradeNumber, Save, auditVars
<1>6. QED  BY <1>3, <1>4, <1>5, StepKinds DEF Transaction

-----------------------------------------------------------------------------
(* The records. *)

\* Every step preserves what is known of the records.
LEMMA RecordStep ==
    RefundInv /\ [RNext]_rvars => RecordInv'
<1> SUFFICES ASSUME RefundInv, [RNext]_rvars PROVE RecordInv'
  OBVIOUS
<1>0. RTypeOK /\ RTypeOK' /\ RecordInv /\ RowStep /\ \A w \in Admins : PlanInv(w) /\ AnswerInv(w)
  BY TypeStep, RowSteps DEF RefundInv
<1>1. /\ version \in Nat /\ version' \in Nat /\ receipt.version \in Nat /\ receipt'.version \in Nat
      /\ pending.version \in Nat /\ orderType' = orderType /\ (mistaken => mistaken')
  BY <1>0 DEF RTypeOK, Facts, RowStep
<1>2. version' > 0 /\ receipt'.version <= version'
  BY <1>0, <1>1 DEF RecordInv, RowStep, orderVars
<1>3. ASSUME NEW w \in Admins, Prepares(w) PROVE RecordInv'
  <2>1. plan[w].amount \in Amounts /\ plan[w].id = 0 /\ FactsOK(plan[w]) /\ plan[w] \in Facts
    BY <1>0, <1>3 DEF PlanInv, Prepares, RTypeOK
  <2>2. receipt'.amount \in Amounts /\ receipt'.id = 0 /\ receipt'.version = version + 1
        /\ receipt'.found = plan[w].found /\ receipt'.take = Deducted(plan[w])
    BY <1>0, <1>3, <2>1, ReceiptFields
  <2>3. status' = "REFUNDING" /\ pending' = pending
    BY <1>3 DEF Prepares, Save
  <2>4. pending'.version <= receipt'.version /\ pending'.version # receipt'.version
    BY <1>0, <1>1, <2>2, <2>3 DEF RecordInv
  <2>5. orderType = "balance" /\ plan[w].take = 0 => Deducted(plan[w]) = 0
    <3>1. Deducted(plan[w]) \in 0 .. Total
      BY <1>0, <2>1, DeductedBound
    <3>2. balance \in Nat
      BY <1>0, TotalAssumption DEF RTypeOK
    <3>3. QED  BY <3>1, <3>2, MinPair DEF Deducted
  <2>6. FactsOK(receipt)'
    BY <1>1, <2>1, <2>2, <2>5 DEF FactsOK
  <2>7. FactsOK(pending)'
    BY <1>0, <1>1, <2>3 DEF RecordInv, FactsOK
  <2>8. QED  BY <1>2, <2>2, <2>3, <2>4, <2>6, <2>7 DEF RecordInv, Amounts
<1>4. ASSUME NEW w \in Admins, Postpones(w) PROVE RecordInv'
  <2>1. /\ plan[w].amount \in Amounts /\ Executes(plan[w], receipt) /\ FactsOK(plan[w])
        /\ plan[w].version = receipt.version /\ RightId(plan[w].id, plan[w].amount)
    BY <1>0, <1>4, ExpectedIsReceipt DEF PlanInv, Postpones, ExpectReceipt
  <2>2. plan[w].id # 0
    BY <1>0, <1>4 DEF AnswerInv, Postpones
  <2>3. pending' = plan[w] /\ refundAmount' = plan[w].amount /\ receipt' = receipt
    BY <1>4 DEF Postpones, CompensatePending, Save
  <2>4. pending'.version <= receipt'.version /\ pending'.found = receipt'.found
    BY <1>1, <2>1, <2>3 DEF Executes
  <2>5. FactsOK(pending)' /\ FactsOK(receipt)'
    BY <1>0, <1>1, <2>1, <2>3 DEF FactsOK, RecordInv
  <2>6. RightId(pending.id, refundAmount)'
    BY <1>1, <2>1, <2>3 DEF RightId, GatewayAmount
  <2>7. QED  BY <1>0, <1>2, <2>1, <2>2, <2>3, <2>4, <2>5, <2>6 DEF RecordInv, Amounts
<1>5. ASSUME NEW w \in Admins, Completes(w) \/ GivesUp(w) \/ Confirms(w) \/ Rejects(w)
      PROVE  RecordInv'
  <2>1. status' # "REFUND_PENDING" /\ receipt' = receipt /\ pending' = pending
    BY <1>5 DEF Completes, GivesUp, Confirms, Rejects, CompletePrepared, CompensateFailure,
                CompletePending, FailPendingRefund, Save, auditVars
  <2>2. QED  BY <1>0, <1>1, <1>2, <2>1 DEF RecordInv, Amounts, FactsOK
<1>6. CASE RequestRefund \/ StaleTradeNumber \/ UNCHANGED <<orderVars, auditVars>>
  <2>1. /\ receipt' = receipt /\ pending' = pending
        /\ \/ status' = "REFUND_REQUESTED"
           \/ status' = status /\ refundAmount' = refundAmount
    BY <1>6 DEF RequestRefund, StaleTradeNumber, Save, auditVars, orderVars
  <2>2. QED  BY <1>0, <1>1, <1>2, <2>1 DEF RecordInv, Amounts, FactsOK, RightId, GatewayAmount
<1>7. QED  BY <1>3, <1>4, <1>5, <1>6, StepKinds DEF Transaction

-----------------------------------------------------------------------------
(* The entitlement. *)

\* What is withheld, by status.
LEMMA HeldValue ==
    /\ status = "REFUNDING" => Held = Taken(receipt)
    /\ status \in RefundedStatus => Held = IF receipt.found THEN success ELSE 0
    /\ status \in RefundableStatus => Held = 0
BY DEF Held, RefundedStatus, RefundableStatus

\* The same of the next state.
LEMMA HeldValueNext ==
    /\ status' = "REFUNDING" => Held' = IF receipt'.found THEN receipt'.take ELSE 0
    /\ status' \in RefundedStatus => Held' = IF receipt'.found THEN success' ELSE 0
    /\ status' \in RefundableStatus => Held' = 0
BY DEF Held, Taken, RefundedStatus, RefundableStatus

\* Both parts of what the entitlement invariant says.
RightsInv == BalanceInv /\ RightsAccounted

\* Taking the entitlement back when nothing was withheld.
LEMMA DeductionAccounted ==
    ASSUME RTypeOK, RightsInv, UNCHANGED fixedVars, NEW f \in Facts, FactsOK(f),
           ApplyRefundDeduction(f), Held = 0, Held' = IF f.found THEN Deducted(f) ELSE 0
    PROVE  RightsInv'
<1>1. /\ Deducted(f) \in 0 .. Total
      /\ orderType = "balance" => Deducted(f) <= balance
      /\ orderType # "balance" => Deducted(f) = f.take
  BY DeductedBound
<1>2. balance \in 0 .. Total /\ spent \in 0 .. Total /\ f.take \in 0 .. Total
      /\ orderType \in {"balance", "subscription"} /\ f.found \in BOOLEAN
  BY DEF RTypeOK, Facts
<1>3. CASE orderType = "balance"
  <2>1. balance' = balance - Deducted(f) /\ spent' = spent /\ orderType' = "balance"
    BY <1>3 DEF ApplyRefundDeduction, fixedVars
  <2>2. balance + spent = Total
    BY <1>2, <1>3, TotalAssumption DEF RightsInv, RightsAccounted
  <2>3. Held' = Deducted(f)
    <3>1. CASE ~f.found
      <4>1. f.take = 0 /\ f.take \in Nat /\ balance \in Nat
        BY <1>2, <1>3, <3>1, TotalAssumption DEF FactsOK
      <4>2. Min({f.take, balance}) \in Nat /\ Min({f.take, balance}) <= f.take
        BY <4>1, MinPair
      <4>3. Deducted(f) = Min({f.take, balance})
        BY <1>3 DEF Deducted
      <4>4. QED  BY <3>1, <4>1, <4>2, <4>3
    <3>2. QED  BY <3>1
  <2>4. balance' + spent' + Held' = Total
    BY <1>1, <1>2, <1>3, <2>1, <2>2, <2>3, TotalAssumption
  <2>5. QED  BY <2>1, <2>4 DEF RightsInv, RightsAccounted, BalanceInv
<1>4. CASE orderType = "subscription"
  <2>1. orderType' = "subscription" /\ balance' = balance /\ spent' = spent /\ Held' = Taken(f)
    BY <1>1, <1>4 DEF ApplyRefundDeduction, fixedVars, Taken
  <2>2. sub # "ended" => sub = "whole"
    BY <1>4 DEF RightsInv, RightsAccounted
  <2>3. CASE Taken(f) = 0
    BY <1>4, <2>1, <2>2, <2>3 DEF ApplyRefundDeduction, RightsInv, RightsAccounted, BalanceInv
  <2>4. CASE Taken(f) > 0
    <3>1. Taken(f) # 0 /\ sub' \in {"shortened", "revoked"}
      BY <1>4, <2>4 DEF ApplyRefundDeduction
    <3>2. QED  BY <1>4, <2>1, <2>4, <3>1 DEF RightsInv, RightsAccounted, BalanceInv
  <2>5. Taken(f) \in 0 .. Total
    BY <1>2, TotalAssumption DEF Taken
  <2>6. QED  BY <2>3, <2>4, <2>5
<1>5. QED  BY <1>2, <1>3, <1>4

\* Giving back what the receipt withholds.
LEMMA CompensationAccounted ==
    ASSUME RTypeOK, RecordInv, RightsInv, UNCHANGED fixedVars, status = "REFUNDING",
           NEW f, Executes(f, receipt), CompensateRefundDeduction(f), Held' = 0
    PROVE  RightsInv'
<1>1. Held = Taken(receipt) /\ Taken(f) = Taken(receipt) /\ receipt.take \in 0 .. Total
  BY HeldValue DEF RTypeOK, Facts, Executes, Taken
<1>2. balance \in 0 .. Total /\ spent \in 0 .. Total /\ orderType \in {"balance", "subscription"}
  BY DEF RTypeOK
<1>3. CASE orderType = "balance"
  <2>1. balance' = balance + receipt.take /\ spent' = spent /\ orderType' = "balance"
    BY <1>3 DEF CompensateRefundDeduction, fixedVars, Executes
  <2>2. Taken(receipt) = receipt.take
    BY <1>3 DEF RecordInv, FactsOK, Taken
  <2>3. balance + spent + receipt.take = Total
    BY <1>1, <1>3, <2>2 DEF RightsInv, RightsAccounted
  <2>4. balance' + spent' + Held' = Total
    BY <1>1, <1>2, <2>1, <2>3, TotalAssumption
  <2>5. QED  BY <2>1, <2>4 DEF RightsInv, RightsAccounted, BalanceInv
<1>4. CASE orderType = "subscription"
  <2>1. orderType' = "subscription" /\ balance' = balance /\ spent' = spent
    BY <1>4 DEF CompensateRefundDeduction, fixedVars
  <2>2. sub' # "ended" => sub' = "whole"
    BY <1>1, <1>4 DEF CompensateRefundDeduction, RightsInv, RightsAccounted, RTypeOK
  <2>3. QED  BY <1>4, <2>1, <2>2 DEF RightsInv, RightsAccounted, BalanceInv
<1>5. QED  BY <1>2, <1>3, <1>4

\* Nothing happens to the entitlement, and as much is withheld.
LEMMA RightsKept ==
    ASSUME RightsInv, UNCHANGED <<fixedVars, rightsVars>>, Held' = Held
    PROVE  RightsInv'
BY DEF RightsInv, BalanceInv, RightsAccounted, fixedVars, rightsVars

\* Every step keeps the entitlement accounted for.
LEMMA RightsStep ==
    RefundInv /\ [RNext]_rvars => RightsInv'
<1> SUFFICES ASSUME RefundInv, [RNext]_rvars PROVE RightsInv'
  OBVIOUS
<1> USE DEF RefundableStatus, RefundedStatus
<1>0. RTypeOK /\ RecordInv /\ RightsInv /\ UNCHANGED fixedVars /\ \A w \in Admins : PlanInv(w)
  BY StepKinds DEF RefundInv, RightsInv
<1>1. ASSUME NEW w \in Admins, Prepares(w) PROVE RightsInv'
  <2>1. plan[w] \in Facts /\ ApplyRefundDeduction(plan[w]) /\ FactsOK(plan[w])
    BY <1>0, <1>1 DEF RTypeOK, Prepares, PlanInv
  <2>2. Held = 0
    BY <1>0, <1>1, HeldValue DEF PlanInv, Prepares, Claimed
  <2>3. Held' = IF plan[w].found THEN Deducted(plan[w]) ELSE 0
    <3>1. receipt'.found = plan[w].found /\ receipt'.take = Deducted(plan[w])
      BY <1>0, <1>1, ReceiptFields
    <3>2. status' = "REFUNDING"
      BY <1>1 DEF Prepares, Save
    <3>3. QED  BY <3>1, <3>2, HeldValueNext
  <2>4. QED  BY <1>0, <2>1, <2>2, <2>3, DeductionAccounted
<1>2. ASSUME NEW w \in Admins, Completes(w) PROVE RightsInv'
  <2>1. Executes(plan[w], receipt) /\ status = "REFUNDING"
    BY <1>0, <1>2, ExpectedIsReceipt DEF Completes
  <2>2. success' = receipt.take /\ receipt' = receipt /\ status' \in RefundedStatus /\ UNCHANGED rightsVars
    BY <1>2, <2>1 DEF Completes, CompletePrepared, Save, Executes
  <2>3. Held' = Held
    BY <2>1, <2>2, HeldValue, HeldValueNext DEF Taken
  <2>4. QED  BY <1>0, <2>2, <2>3, RightsKept
<1>3. ASSUME NEW w \in Admins, Postpones(w) \/ GivesUp(w) PROVE RightsInv'
  <2>1. Executes(plan[w], receipt) /\ status = "REFUNDING"
    BY <1>0, <1>3, ExpectedIsReceipt DEF Postpones, GivesUp
  <2>2. Held' = 0 /\ CompensateRefundDeduction(plan[w])
    BY <1>3, HeldValueNext DEF Postpones, GivesUp, CompensatePending, CompensateFailure, Save
  <2>3. QED  BY <1>0, <2>1, <2>2, CompensationAccounted
<1>4. ASSUME NEW w \in Admins, Confirms(w) PROVE RightsInv'
  <2>1. plan[w] \in Facts /\ ApplyRefundDeduction(plan[w]) /\ FactsOK(plan[w])
    BY <1>0, <1>4 DEF RTypeOK, Confirms, CompletePending, PlanInv
  <2>2. Held = 0 /\ plan[w].found = receipt.found
    BY <1>0, <1>4, HeldValue DEF PlanInv, Confirms, Claimed
  <2>3. success' = Deducted(plan[w]) /\ receipt' = receipt /\ status' \in RefundedStatus
    BY <1>4 DEF Confirms, CompletePending, Save
  <2>4. Held' = IF plan[w].found THEN Deducted(plan[w]) ELSE 0
    BY <2>2, <2>3, HeldValueNext
  <2>5. QED  BY <1>0, <2>1, <2>2, <2>4, DeductionAccounted
<1>5. ASSUME NEW w \in Admins, Rejects(w) PROVE RightsInv'
  <2>1. Held = 0
    BY <1>0, <1>5, HeldValue DEF PlanInv, Rejects, Claimed
  <2>2. Held' = 0 /\ UNCHANGED rightsVars
    BY <1>5, HeldValueNext DEF Rejects, FailPendingRefund, Save
  <2>3. QED  BY <1>0, <2>1, <2>2, RightsKept
<1>6. CASE RequestRefund
  <2>1. Held = 0 /\ Held' = 0 /\ UNCHANGED rightsVars
    BY <1>6, HeldValue, HeldValueNext DEF RequestRefund, Save
  <2>2. QED  BY <1>0, <2>1, RightsKept
<1>7. CASE StaleTradeNumber \/ UNCHANGED <<orderVars, auditVars, rightsVars>>
  <2>1. Held' = Held /\ UNCHANGED rightsVars
    BY <1>7 DEF Held, Taken, StaleTradeNumber, Save, auditVars, orderVars
  <2>2. QED  BY <1>0, <2>1, RightsKept
<1>8. CASE Spend
  <2>1. Held' = Held
    BY <1>8 DEF Held, Taken, Spend, auditVars, orderVars
  <2>2. balance \in 0 .. Total /\ spent \in 0 .. Total /\ orderType \in {"balance", "subscription"}
    BY <1>0 DEF RTypeOK
  <2>3. orderType = "balance" /\ orderType' = "balance"
    BY <1>0, <1>8, <2>2 DEF Spend, RightsInv, BalanceInv, fixedVars
  <2>4. balance + spent + Held = Total
    BY <1>0, <2>3 DEF RightsInv, RightsAccounted
  <2>5. Held \in Nat
    <3>1. receipt.take \in 0 .. Total /\ success \in 0 .. Total
      BY <1>0 DEF RTypeOK, Facts
    <3>2. QED  BY <3>1, TotalAssumption DEF Held, Taken
  <2>6. balance' + spent' + Held' = Total
    BY <1>8, <2>1, <2>2, <2>4, <2>5, TotalAssumption DEF Spend
  <2>7. QED  BY <2>3, <2>6 DEF RightsInv, BalanceInv, RightsAccounted
<1>9. CASE RevokeOwnSubscription
  BY <1>0, <1>9 DEF RevokeOwnSubscription, RightsInv, BalanceInv, RightsAccounted, fixedVars
<1>10. QED  BY <1>1, <1>2, <1>3, <1>4, <1>5, <1>6, <1>7, <1>8, <1>9, StepKinds DEF Transaction

-----------------------------------------------------------------------------
(* The plans. *)

\* A handler that does not move keeps its plan: when another one moves the
\* order, the plan is of an older version.
LEMMA PlanKept ==
    ASSUME RTypeOK, RTypeOK', RowStep, NEW u \in Admins, PlanInv(u),
           pc'[u] = pc[u], plan'[u] = plan[u]
    PROVE  PlanInv(u)'
<1>1. plan[u] \in Facts /\ plan[u].version \in Nat /\ version \in Nat
  BY DEF RTypeOK, Facts
<1>0. orderType' = orderType /\ (mistaken => mistaken')
  BY DEF RowStep
<1>2. CASE UNCHANGED <<orderVars, receipt>>
  BY <1>0, <1>2 DEF PlanInv, orderVars, Amounts, RefundableStatus, FactsOK, Executes, RightId, GatewayAmount
<1>3. CASE /\ version' = version + 1
           /\ receipt' = receipt \/ receipt'.version = version + 1
  <2>1. plan[u].version <= version /\ plan'[u].version # version'
    BY <1>1, <1>3 DEF PlanInv
  <2>2. plan'[u].version <= version'
    BY <1>1, <1>3, <2>1
  <2>3. plan'[u].version = receipt'.version => receipt' = receipt
    BY <1>1, <1>3, <2>1
  <2>4. QED  BY <1>0, <2>1, <2>2, <2>3 DEF PlanInv, Amounts, RefundableStatus, FactsOK, Executes, RightId,
                                            GatewayAmount
<1>4. QED  BY <1>2, <1>3 DEF RowStep

\* A handler that returns has no plan.
LEMMA ReturnPlan ==
    ASSUME RTypeOK, RTypeOK', NEW w \in Admins, Return(w)
    PROVE  PlanInv(w)' /\ AnswerInv(w)'
<1>1. pc'[w] = "idle" /\ plan'[w] = NoFacts /\ answer'[w] = "none"
  BY DEF RTypeOK, Return, Goto
<1>2. plan'[w].version = 0 /\ plan'[w].take = 0 /\ version' \in Nat
  BY <1>1, NoFactsType DEF RTypeOK
<1>3. QED  BY <1>1, <1>2 DEF PlanInv, AnswerInv, FactsOK

\* One handler moves, the others keep their plans and answers.
OnlyMoves(w) ==
    \A u \in Admins \ {w} : pc'[u] = pc[u] /\ plan'[u] = plan[u] /\ answer'[u] = answer[u]

\* A step of one administrator leaves the plans and answers of the others alone.
LEMMA OneMoves ==
    ASSUME RTypeOK, NEW w \in Admins,
           \/ PrepareRefund(w) \/ PrepareTx(w) \/ GwRefund(w) \/ FinishRefund(w)
           \/ QueryAndFinalizeRefund(w) \/ ReadRecord(w) \/ QueryRecovery(w) \/ QueryPending(w)
           \/ FinishPending(w) \/ Abort(w)
    PROVE  OnlyMoves(w)
<1> USE DEF OnlyMoves, RTypeOK, Goto, Return
<1>1. CASE PrepareRefund(w)  BY <1>1 DEF PrepareRefund
<1>2. CASE PrepareTx(w)  BY <1>2 DEF PrepareTx
<1>3. CASE GwRefund(w)  BY <1>3 DEF GwRefund
<1>4. CASE FinishRefund(w) \/ FinishPending(w) \/ Abort(w)
  BY <1>4 DEF FinishRefund, FinishPending, Abort
<1>5. CASE QueryAndFinalizeRefund(w)  BY <1>5 DEF QueryAndFinalizeRefund
<1>6. CASE ReadRecord(w)  BY <1>6 DEF ReadRecord, RefundRecovery, PendingDetail
<1>7. CASE QueryRecovery(w) \/ QueryPending(w)
  BY <1>7 DEF QueryRecovery, QueryPending, QueryRefund
<1>8. QED  BY <1>1, <1>2, <1>3, <1>4, <1>5, <1>6, <1>7

\* The id is all that an answer changes of a plan.
LEMMA WithIdPlan ==
    ASSUME NEW f \in Facts, NEW i
    PROVE  LET h == [f EXCEPT !.id = i]
           IN  /\ h.status = f.status /\ h.version = f.version /\ h.amount = f.amount
               /\ h.take = f.take /\ h.found = f.found /\ h.id = i
BY DEF Facts

\* The plan of the handler that moves.
LEMMA PlanOfMover ==
    ASSUME RefundInv, [RNext]_rvars, RTypeOK', NEW w \in Admins,
           \/ PrepareRefund(w) \/ PrepareTx(w) \/ GwRefund(w) \/ FinishRefund(w)
           \/ QueryAndFinalizeRefund(w) \/ ReadRecord(w) \/ QueryRecovery(w) \/ QueryPending(w)
           \/ FinishPending(w) \/ Abort(w)
    PROVE  PlanInv(w)'
<1>0. RTypeOK /\ RecordInv /\ PlanInv(w) /\ plan[w] \in Facts /\ version \in Nat
  BY DEF RefundInv, RTypeOK
<1>1. CASE PrepareRefund(w)
  <2>1. PICK f \in Facts :
             /\ plan' = [plan EXCEPT ![w] = f]
             /\ f.status = status /\ f.version = version /\ f.amount \in Amounts
             /\ f.id = 0 /\ FactsOK(f)
    BY <1>0, <1>1, PlannedFacts
  <2>2. plan'[w] = f
    BY <1>0, <2>1 DEF RTypeOK
  <2>3. pc'[w] = "prepare" /\ status \in RefundableStatus /\ version' = version /\ orderType' = orderType
    BY <1>0, <1>1 DEF PrepareRefund, Goto, RTypeOK, orderVars, fixedVars
  <2>4. FactsOK(plan[w])'
    BY <2>1, <2>2, <2>3 DEF FactsOK
  <2>5. QED  BY <1>0, <2>1, <2>2, <2>3, <2>4 DEF PlanInv, Amounts
<1>2. CASE PrepareTx(w) /\ ~Return(w)
  <2>1. Prepares(w) /\ pc'[w] = "gateway" /\ plan' = [plan EXCEPT ![w] = receipt']
    BY <1>0, <1>2 DEF PrepareTx, Prepares, Goto, RTypeOK
  <2>2. plan'[w] = receipt'
    BY <1>0, <2>1 DEF RTypeOK
  <2>3. receipt'.version = version + 1 /\ receipt'.amount \in Amounts
    <3>1. receipt'.version = version + 1 /\ receipt'.amount = plan[w].amount
      BY <1>0, <2>1, ReceiptFields
    <3>2. plan[w].amount \in Amounts
      BY <1>0, <2>1 DEF PlanInv, Prepares
    <3>3. QED  BY <3>1, <3>2
  <2>4. version' = version + 1
    BY <2>1 DEF Prepares, Save
  <2>5. FactsOK(plan[w])' /\ Executes(plan[w], receipt)'
    BY <2>2, RecordStep DEF FactsOK, RecordInv, Executes
  <2>6. QED  BY <1>0, <2>1, <2>2, <2>3, <2>4, <2>5 DEF PlanInv, Amounts
<1>3. CASE GwRefund(w)
  <2>1. /\ pc[w] = "gateway" /\ pc'[w] = "finish" /\ receipt' = receipt
        /\ version' = version /\ orderType' = orderType
    BY <1>0, <1>3 DEF GwRefund, Goto, RTypeOK, auditVars, orderVars, fixedVars
  <2>2. plan'[w] = [plan[w] EXCEPT !.id = GatewayAmount(plan[w].amount)]
    BY <1>0, <1>3 DEF GwRefund, RTypeOK
  <2>3. QED  BY <1>0, <2>1, <2>2, WithIdPlan DEF PlanInv, Amounts, RightId, GatewayAmount, Executes, FactsOK
<1>4. CASE QueryAndFinalizeRefund(w)
  <2> DEFINE q == [NoFacts EXCEPT !.status = status, !.version = version, !.amount = refundAmount]
  <2>1. q.status = status /\ q.version = version /\ q.amount = refundAmount /\ q.take = 0
    BY NoFactsType DEF Facts
  <2>2. plan'[w] = q
    BY <1>0, <1>4 DEF QueryAndFinalizeRefund, RTypeOK
  <2> HIDE DEF q
  <2>3. pc'[w] = "record" /\ status \in {"REFUND_PENDING", "REFUNDING"} /\ UNCHANGED orderVars
    BY <1>0, <1>4 DEF QueryAndFinalizeRefund, Goto, RTypeOK
  <2>4. QED  BY <1>0, <2>1, <2>2, <2>3 DEF PlanInv, RecordInv, orderVars, FactsOK
<1>5. CASE ReadRecord(w) /\ RefundRecovery(w) /\ ~Return(w)
  <2>1. /\ pc[w] = "record" /\ pc'[w] = "queryRecovery" /\ receipt.version = plan[w].version
        /\ plan'[w] = receipt /\ receipt' = receipt /\ version' = version /\ orderType' = orderType
    BY <1>0, <1>5 DEF ReadRecord, RefundRecovery, Goto, RTypeOK, auditVars, orderVars, fixedVars
  <2>2. receipt.version > 0
    BY <1>0, <2>1 DEF PlanInv
  <2>3. QED  BY <1>0, <2>1, <2>2 DEF PlanInv, RecordInv, Amounts, FactsOK, Executes
<1>6. CASE ReadRecord(w) /\ PendingDetail(w) /\ ~Return(w)
  <2>1. /\ pc[w] = "record" /\ pc'[w] = "queryPending" /\ plan[w].status = "REFUND_PENDING"
        /\ UNCHANGED orderVars /\ receipt' = receipt /\ orderType' = orderType /\ mistaken' = mistaken
        /\ receipt.version = pending.version
    BY <1>0, <1>6 DEF ReadRecord, PendingDetail, Goto, RTypeOK, auditVars, fixedVars, channelVars
  <2>2. plan' = [plan EXCEPT ![w].take = pending.take, ![w].found = pending.found,
                             ![w].deduct = pending.deduct, ![w].id = pending.id]
    BY <1>6 DEF ReadRecord, PendingDetail
  <2>3. plan'[w] = [plan[w] EXCEPT !.take = pending.take, !.found = pending.found,
                                   !.deduct = pending.deduct, !.id = pending.id]
    BY <1>0, <2>2 DEF RTypeOK, Facts
  <2>4. /\ plan'[w].status = plan[w].status /\ plan'[w].version = plan[w].version
        /\ plan'[w].amount = plan[w].amount /\ plan'[w].id = pending.id
        /\ plan'[w].take = pending.take /\ plan'[w].found = pending.found
    BY <1>0, <2>3 DEF Facts
  <2>5. QED  BY <1>0, <2>1, <2>4 DEF PlanInv, RecordInv, orderVars, FactsOK, RightId, GatewayAmount
<1>7. CASE (QueryRecovery(w) \/ QueryPending(w)) /\ ~Return(w)
  <2> DEFINE g == Found(plan[w].id, plan[w].amount)
  <2>1. /\ g # 0 /\ UNCHANGED <<orderVars, auditVars>> /\ orderType' = orderType
        /\ plan' = [plan EXCEPT ![w].id = g]
        /\ mistaken' = (mistaken \/ (plan[w].id = 0 /\ g # GatewayAmount(plan[w].amount)))
        /\ \/ pc[w] = "queryRecovery" /\ pc'[w] = "finishRecovered"
           \/ pc[w] = "queryPending" /\ pc'[w] = "finishPending"
    BY <1>0, <1>7 DEF QueryRecovery, QueryPending, QueryRefund, Goto, RTypeOK, fixedVars
  <2>2. plan'[w] = [plan[w] EXCEPT !.id = g]
    BY <1>0, <2>1 DEF RTypeOK
  <2>3. g \in 1 .. PayTotal /\ (plan[w].id # 0 => g = plan[w].id)
    BY <1>0, <2>1, FoundType
  <2> HIDE DEF g
  <2>4. /\ plan'[w].status = plan[w].status /\ plan'[w].version = plan[w].version
        /\ plan'[w].amount = plan[w].amount /\ plan'[w].id = g
        /\ plan'[w].take = plan[w].take /\ plan'[w].found = plan[w].found
    BY <1>0, <2>2, WithIdPlan
  <2>5. pc[w] = "queryRecovery" => RightId(plan[w].id, plan[w].amount)'
    BY <1>0, <2>1, <2>4 DEF RightId, PlanInv, GatewayAmount
  <2>6. CASE pc[w] = "queryRecovery"
    BY <1>0, <2>1, <2>4, <2>5, <2>6 DEF PlanInv, orderVars, auditVars, Amounts, FactsOK, Executes
  <2>7. CASE pc[w] = "queryPending"
    BY <1>0, <2>1, <2>3, <2>4, <2>7 DEF PlanInv, orderVars, auditVars, FactsOK, RightId, GatewayAmount
  <2>8. QED  BY <2>1, <2>6, <2>7
<1>8. CASE Return(w)
  BY <1>0, <1>8, ReturnPlan
<1>9. QED
  BY <1>1, <1>2, <1>3, <1>4, <1>5, <1>6, <1>7, <1>8 DEF FinishRefund, FinishPending, Abort, ReadRecord

\* Every step preserves what is known of the plans.
LEMMA PlanStep ==
    RefundInv /\ [RNext]_rvars => \A u \in Admins : PlanInv(u)'
<1> SUFFICES ASSUME RefundInv, [RNext]_rvars, NEW u \in Admins PROVE PlanInv(u)'
  OBVIOUS
<1>0. RTypeOK /\ RTypeOK' /\ RowStep /\ PlanInv(u)
  BY TypeStep, RowSteps DEF RefundInv
<1>1. CASE pc'[u] = pc[u] /\ plan'[u] = plan[u]
  BY <1>0, <1>1, PlanKept
<1>2. CASE RequestRefund \/ ChannelSettles \/ Spend \/ RevokeOwnSubscription \/ StaleTradeNumber
           \/ UNCHANGED rvars
  <2>1. pc' = pc /\ plan' = plan
    BY <1>2 DEF RequestRefund, ChannelSettles, Spend, RevokeOwnSubscription, StaleTradeNumber, rvars, adminVars
  <2>2. QED  BY <1>1, <2>1
<1>3. ASSUME NEW w \in Admins,
             \/ PrepareRefund(w) \/ PrepareTx(w) \/ GwRefund(w) \/ FinishRefund(w)
             \/ QueryAndFinalizeRefund(w) \/ ReadRecord(w) \/ QueryRecovery(w) \/ QueryPending(w)
             \/ FinishPending(w) \/ Abort(w)
      PROVE  PlanInv(u)'
  <2>1. CASE u = w
    BY <1>0, <1>3, <2>1, PlanOfMover
  <2>2. CASE u # w
    BY <1>0, <1>1, <1>3, <2>2, OneMoves DEF OnlyMoves
  <2>3. QED  BY <2>1, <2>2
<1>4. QED  BY <1>2, <1>3 DEF RNext

-----------------------------------------------------------------------------
(* The channel. *)

\* A refund that was made stays so.
LEMMA SuccessIsStable ==
    ASSUME RTypeOK, RTypeOK', [RNext]_rvars, NEW g, Made(g)
    PROVE  g \in DOMAIN refunds' /\ refunds'[g] = "success"
<1>0. g \in 1 .. PayTotal /\ refunds[g] = "success"
  BY DEF Made, RTypeOK
<1>1. ASSUME NEW h, NEW ans, ChannelRefund(h, ans) PROVE refunds'[g] = "success"
  BY <1>0, <1>1 DEF ChannelRefund, channelVars, RTypeOK
<1>2. ASSUME NEW w \in Admins, GwRefund(w) PROVE refunds'[g] = "success"
  BY <1>1, <1>2 DEF GwRefund
<1>3. CASE ChannelSettles
  BY <1>0, <1>3 DEF ChannelSettles, RTypeOK
<1>4. ASSUME NEW w \in Admins,
             \/ PrepareRefund(w) \/ PrepareTx(w) \/ FinishRefund(w)
             \/ QueryAndFinalizeRefund(w) \/ ReadRecord(w) \/ QueryRecovery(w) \/ QueryPending(w)
             \/ FinishPending(w) \/ Abort(w)
      PROVE  refunds' = refunds
  BY <1>4 DEF PrepareRefund, PrepareTx, FinishRefund, QueryAndFinalizeRefund, ReadRecord, QueryRecovery,
              QueryPending, QueryRefund, FinishPending, Abort, channelVars
<1>5. (RequestRefund \/ Spend \/ RevokeOwnSubscription \/ StaleTradeNumber \/ UNCHANGED rvars)
        => refunds' = refunds
  BY DEF RequestRefund, Spend, RevokeOwnSubscription, StaleTradeNumber, rvars, channelVars
<1>6. refunds'[g] = "success"
  BY <1>0, <1>2, <1>3, <1>4, <1>5 DEF RNext
<1>7. g \in DOMAIN refunds'
  BY <1>0 DEF RTypeOK
<1>8. QED  BY <1>6, <1>7

\* An answer that is not touched stays true.
LEMMA AnswerKept ==
    ASSUME RefundInv, [RNext]_rvars, NEW u \in Admins,
           pc'[u] = pc[u], plan'[u] = plan[u], answer'[u] = answer[u]
    PROVE  AnswerInv(u)'
<1>1. AnswerInv(u) /\ RTypeOK /\ RTypeOK'
  BY TypeStep DEF RefundInv
<1>2. Made(plan[u].id) => plan[u].id \in DOMAIN refunds' /\ refunds'[plan[u].id] = "success"
  BY <1>1, SuccessIsStable
<1>3. QED  BY <1>1, <1>2 DEF AnswerInv, Made

\* The answer of the handler that moves.
LEMMA AnswerOfMover ==
    ASSUME RefundInv, RTypeOK', NEW w \in Admins,
           \/ PrepareRefund(w) \/ PrepareTx(w) \/ GwRefund(w) \/ FinishRefund(w)
           \/ QueryAndFinalizeRefund(w) \/ ReadRecord(w) \/ QueryRecovery(w) \/ QueryPending(w)
           \/ FinishPending(w) \/ Abort(w)
    PROVE  AnswerInv(w)'
<1>0. RTypeOK /\ plan[w] \in Facts
  BY DEF RefundInv, RTypeOK
<1>1. CASE PrepareRefund(w) \/ PrepareTx(w) \/ QueryAndFinalizeRefund(w) \/ ReadRecord(w)
  <2>1. pc'[w] \in {"idle", "prepare", "gateway", "record", "queryRecovery", "queryPending"}
    BY <1>0, <1>1 DEF PrepareRefund, PrepareTx, QueryAndFinalizeRefund, ReadRecord, RefundRecovery,
                      PendingDetail, Goto, Return, RTypeOK
  <2>2. QED  BY <2>1 DEF AnswerInv
<1>2. CASE GwRefund(w)
  <2>1. PICK ans \in {"success", "pending", "failed"} :
         /\ ChannelRefund(plan'[w].id, ans)
         /\ \/ answer' = [answer EXCEPT ![w] = ans] /\ UNCHANGED faults
            \/ answer' = [answer EXCEPT ![w] = "failed"] /\ Fault
    BY <1>2 DEF GwRefund
  <2>2. answer'[w] \in {ans, "failed"}
    BY <1>0, <2>1 DEF RTypeOK
  <2>3. ans \in {"success", "pending"} => plan'[w].id \in 1 .. PayTotal
    BY <1>0, <2>1 DEF ChannelRefund, RTypeOK
  <2>4. ans = "success" => refunds'[plan'[w].id] = "success"
    BY <1>0, <2>1 DEF ChannelRefund, channelVars, RTypeOK
  <2>5. DOMAIN refunds' = 1 .. PayTotal
    BY DEF RTypeOK
  <2>6. QED  BY <2>2, <2>3, <2>4, <2>5, TotalAssumption DEF AnswerInv, Made
<1>3. CASE (QueryRecovery(w) \/ QueryPending(w)) /\ ~Return(w)
  <2> DEFINE g == Found(plan[w].id, plan[w].amount)
  <2>1. /\ g # 0 /\ refunds' = refunds /\ answer'[w] = refunds[g]
        /\ plan' = [plan EXCEPT ![w].id = g]
    BY <1>0, <1>3 DEF QueryRecovery, QueryPending, QueryRefund, RTypeOK
  <2>2. plan'[w] = [plan[w] EXCEPT !.id = g]
    BY <1>0, <2>1 DEF RTypeOK
  <2>3. g \in 1 .. PayTotal
    BY <1>0, <2>1, FoundType
  <2> HIDE DEF g
  <2>4. plan'[w].id = g
    BY <1>0, <2>2, WithIdPlan
  <2>5. DOMAIN refunds' = 1 .. PayTotal
    BY DEF RTypeOK
  <2>6. QED  BY <2>1, <2>3, <2>4, <2>5, TotalAssumption DEF AnswerInv, Made
<1>4. CASE Return(w)
  BY <1>0, <1>4, ReturnPlan
<1>5. QED
  BY <1>1, <1>2, <1>3, <1>4 DEF FinishRefund, FinishPending, Abort

\* Every step preserves what is known of the answers.
LEMMA AnswerStep ==
    RefundInv /\ [RNext]_rvars => \A u \in Admins : AnswerInv(u)'
<1> SUFFICES ASSUME RefundInv, [RNext]_rvars, NEW u \in Admins PROVE AnswerInv(u)'
  OBVIOUS
<1>0. RTypeOK /\ RTypeOK'
  BY TypeStep DEF RefundInv
<1>1. CASE pc'[u] = pc[u] /\ plan'[u] = plan[u] /\ answer'[u] = answer[u]
  BY <1>0, <1>1, AnswerKept
<1>2. CASE RequestRefund \/ ChannelSettles \/ Spend \/ RevokeOwnSubscription \/ StaleTradeNumber
           \/ UNCHANGED rvars
  <2>1. pc' = pc /\ plan' = plan /\ answer' = answer
    BY <1>2 DEF RequestRefund, ChannelSettles, Spend, RevokeOwnSubscription, StaleTradeNumber, rvars, adminVars
  <2>2. QED  BY <1>1, <2>1
<1>3. ASSUME NEW w \in Admins,
             \/ PrepareRefund(w) \/ PrepareTx(w) \/ GwRefund(w) \/ FinishRefund(w)
             \/ QueryAndFinalizeRefund(w) \/ ReadRecord(w) \/ QueryRecovery(w) \/ QueryPending(w)
             \/ FinishPending(w) \/ Abort(w)
      PROVE  AnswerInv(u)'
  <2>1. CASE u = w
    BY <1>0, <1>3, <2>1, AnswerOfMover
  <2>2. CASE u # w
    BY <1>0, <1>1, <1>3, <2>2, OneMoves DEF OnlyMoves
  <2>3. QED  BY <2>1, <2>2
<1>4. QED  BY <1>2, <1>3 DEF RNext

\* A refund that is closed stays closed, and only a success closes one.
LEMMA ClosedStep ==
    ASSUME RefundInv, [RNext]_rvars
    PROVE  /\ status \in RefundedStatus =>
                status' = status /\ refundAmount' = refundAmount /\ success' = success
           /\ status \notin RefundedStatus /\ status' \in RefundedStatus =>
                \E w \in Admins : (Completes(w) \/ Confirms(w)) /\ UNCHANGED channelVars
<1> USE DEF RefundedStatus, RefundableStatus
<1>0. \A w \in Admins : PlanInv(w)
  BY DEF RefundInv
<1>1. ASSUME NEW w \in Admins, Transaction(w) PROVE status \notin RefundedStatus
  BY <1>0, <1>1 DEF Transaction, Prepares, Completes, Postpones, GivesUp, Confirms, Rejects, ExpectReceipt,
                    Claimed, PlanInv
<1>2. ASSUME NEW w \in Admins, Transaction(w), status' \in RefundedStatus
      PROVE  Completes(w) \/ Confirms(w)
  BY <1>2 DEF Transaction, Prepares, Postpones, GivesUp, Rejects, CompensatePending, CompensateFailure,
              FailPendingRefund, Save
<1>3. CASE RequestRefund
  BY <1>3 DEF RequestRefund, Save
<1>4. CASE StaleTradeNumber \/ UNCHANGED <<orderVars, auditVars>>
  BY <1>4 DEF StaleTradeNumber, Save, orderVars, auditVars
<1>5. QED  BY <1>1, <1>2, <1>3, <1>4, StepKinds

\* A step that closes a refund has the success of the channel ...
LEMMA ClosedAtChannel ==
    ASSUME RefundInv, [RNext]_rvars, status \notin RefundedStatus, status' \in RefundedStatus
    PROVE  /\ \E g \in DOMAIN refunds : Made(g)
           /\ Made(GatewayAmount(refundAmount')) \/ (InexactQuery /\ mistaken)
<1>0. ChannelInv /\ \A w \in Admins : PlanInv(w) /\ AnswerInv(w)
  BY DEF RefundInv
<1>1. PICK w \in Admins : Completes(w) \/ Confirms(w)
  BY ClosedStep
<1>2. answer[w] = "success" /\ refundAmount' = plan[w].amount
  BY <1>1 DEF Completes, Confirms, CompletePrepared, CompletePending, Save
<1>3. pc[w] \in {"finish", "finishRecovered", "finishPending"} /\ RightId(plan[w].id, plan[w].amount)
  BY <1>0, <1>1 DEF Completes, Confirms, Claimed, PlanInv
<1>4. Made(plan[w].id)
  BY <1>0, <1>2, <1>3 DEF AnswerInv
<1>5. plan[w].id = GatewayAmount(refundAmount') \/ mistaken
  BY <1>2, <1>3 DEF RightId
<1>6. \E g \in DOMAIN refunds : Made(g)
  BY <1>4 DEF Made
<1>7. QED  BY <1>0, <1>4, <1>5, <1>6 DEF ChannelInv

\* ... and an answer is mistaken only where queries are inexact.
LEMMA ChannelStep ==
    RefundInv /\ [RNext]_rvars => ChannelInv'
<1> SUFFICES ASSUME RefundInv, [RNext]_rvars, mistaken' PROVE InexactQuery
  BY DEF ChannelInv, InexactQuery, GatewayAmount, Amounts
<1>0. RTypeOK /\ ChannelInv /\ \A w \in Admins : PlanInv(w)
  BY DEF RefundInv
<1>1. CASE mistaken' = mistaken
  BY <1>0, <1>1 DEF ChannelInv
<1>2. CASE mistaken' # mistaken
  <2>1. PICK w \in Admins : QueryRecovery(w) \/ QueryPending(w)
    BY <1>2, MistakenStays
  <2> DEFINE g == Found(plan[w].id, plan[w].amount)
  <2>2. mistaken' = (mistaken \/ (g # 0 /\ plan[w].id = 0 /\ g # GatewayAmount(plan[w].amount)))
    BY <2>1 DEF QueryRecovery, QueryPending, QueryRefund
  <2>3. g # 0 /\ plan[w].id = 0 /\ g # GatewayAmount(plan[w].amount)
    BY <1>0, <1>2, <2>2 DEF RTypeOK
  <2>4. ~LatestOnly => GatewayAmount(plan[w].amount) # plan[w].amount
    BY <1>0, <2>3, FoundType
  <2>5. g \in 1 .. PayTotal
    BY <1>0, <2>3, FoundType
  <2>6. ~LatestOnly => plan[w].amount \in Amounts
    <3>1. ~LatestOnly => g = plan[w].amount
      BY <1>0, <2>3, FoundType
    <3>2. plan[w].amount \in 0 .. Total
      BY <1>0 DEF RTypeOK, Facts
    <3>3. QED  BY <2>5, <3>1, <3>2, TotalAssumption DEF Amounts
  <2>7. QED  BY <2>4, <2>6 DEF InexactQuery
<1>3. QED  BY <1>1, <1>2

-----------------------------------------------------------------------------
(* The theorems. *)

\* The inductive invariant holds at the start ...
LEMMA RefundInit == RInit => RefundInv
<1> SUFFICES ASSUME RInit PROVE RefundInv
  OBVIOUS
<1> USE TotalAssumption DEF RInit
<1>1. RTypeOK
  <2>1. refunds \in [1 .. PayTotal -> {"none", "pending", "success", "failed"}]
        /\ latest \in 0 .. PayTotal /\ faults \in 0 .. MaxFaults
    BY BoundsAssumption
  <2>2. plan \in [Admins -> Facts] /\ receipt \in Facts /\ pending \in Facts
        /\ pc \in [Admins -> Steps]
    BY NoFactsType DEF Steps
  <2>3. balance \in 0 .. Total /\ spent \in 0 .. Total /\ success \in 0 .. Total
        /\ refundAmount \in 0 .. Total
    OBVIOUS
  <2>4. QED  BY <2>1, <2>2, <2>3 DEF RTypeOK, RefundStatus, RefundableStatus
<1>2. RecordInv
  BY NoFactsType DEF RecordInv, FactsOK
<1>3. \A w \in Admins : PlanInv(w) /\ AnswerInv(w)
  BY NoFactsType DEF PlanInv, AnswerInv, FactsOK
<1>4. Held = 0
  BY HeldValue DEF RefundableStatus
<1>5. BalanceInv /\ RightsAccounted
  BY <1>4 DEF BalanceInv, RightsAccounted
<1>6. ChannelInv
  BY DEF ChannelInv
<1>7. QED  BY <1>1, <1>2, <1>3, <1>5, <1>6 DEF RefundInv

\* ... and is kept by every step.
LEMMA RefundInductive == RefundInv /\ [RNext]_rvars => RefundInv'
<1> SUFFICES ASSUME RefundInv, [RNext]_rvars PROVE RefundInv'
  OBVIOUS
<1>1. BalanceInv' /\ RightsAccounted'
  BY RightsStep DEF RightsInv
<1>2. (\A w \in Admins : PlanInv(w))' /\ (\A w \in Admins : AnswerInv(w))'
  BY PlanStep, AnswerStep
<1>3. RTypeOK' /\ RecordInv' /\ ChannelInv'
  BY TypeStep, RecordStep, ChannelStep
<1>4. QED  BY <1>1, <1>2, <1>3 DEF RefundInv

\* The plans, the records and the channel's answers describe the order
\* whenever a transaction compares their version with the order's.
THEOREM RefundInvCorrect == RSpec => []RefundInv
<1>1. QED  BY RefundInit, RefundInductive, PTL DEF RSpec

\* The types of the refund workflow's state.  That the balance and what was
\* spent stay within the order's amount is not a matter of the assignments:
\* it needs the accounting below.
THEOREM RTypeCorrect == RSpec => []RTypeOK
<1>1. RefundInv => RTypeOK
  BY DEF RefundInv
<1>2. QED  BY <1>1, RefundInvCorrect, PTL

\* Whatever the interleaving of preparations, compensations, confirmations,
\* crashes and spending, the status and its record account for the user's
\* entitlement: nothing is taken or given back twice, or kept without a
\* refund.
THEOREM RightsAccountedCorrect == RSpec => []RightsAccounted
<1>1. RefundInv => RightsAccounted
  BY DEF RefundInv
<1>2. QED  BY <1>1, RefundInvCorrect, PTL

\* Whatever the channel answers a query with, an order is closed as refunded
\* only after the channel paid back, and unless a query without an id was told
\* of another refund it paid back the gateway amount of the refund that the
\* order records.
THEOREM RefundedAtChannelCorrect == RSpec => RefundedAtChannel
<1>1. RefundInv /\ [RNext]_rvars =>
        [status \notin RefundedStatus /\ status' \in RefundedStatus =>
           /\ \E g \in DOMAIN refunds : Made(g)
           /\ Made(GatewayAmount(refundAmount')) \/ (InexactQuery /\ mistaken)]_rvars
  BY ClosedAtChannel
<1>2. QED  BY <1>1, RefundInvCorrect, PTL DEF RSpec, RefundedAtChannel

\* No late failure, confirmation or stalled handler changes a closed refund.
THEOREM RefundedIsFinalCorrect == RSpec => RefundedIsFinal
<1>1. RefundInv /\ [RNext]_rvars =>
        [(status \in RefundedStatus) =>
           status' = status /\ refundAmount' = refundAmount /\ success' = success]_rvars
  BY ClosedStep
<1>2. QED  BY <1>1, RefundInvCorrect, PTL DEF RSpec, RefundedIsFinal

=============================================================================
