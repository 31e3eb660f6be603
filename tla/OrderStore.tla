---------------------------- MODULE OrderStore ----------------------------
(***************************************************************************)
(* One row of the payment order table and the conditional updates that     *)
(* payment/postgres offers on it.  Orders share no state that the payment  *)
(* state machine reads, so one row is enough.                              *)
(*                                                                         *)
(* Every UPDATE moves updated_at (the ent schema's update default), and    *)
(* updated_at doubles as the version of a fulfillment lease.  The code     *)
(* compares versions for equality only, so the model keeps, instead of     *)
(* timestamps, the set `holders' of workers whose remembered version is    *)
(* still the row's, and the coarse age of updated_at that the SQL          *)
(* conditions tell apart.                                                  *)
(***************************************************************************)
EXTENDS Naturals

CONSTANT Workers        \* goroutines that may handle this order

VARIABLES
    status,     \* payment_orders.status
    paidAt,     \* payment_orders.paid_at IS NOT NULL
    age,        \* how long ago updated_at was set, in the steps below
    holders     \* workers whose lease version equals updated_at

rowVars == <<status, paidAt, age, holders>>

\* Statuses an unpaid order moves through, and the fulfillment statuses.
UnpaidStatus == {"PENDING", "PROCESSING", "EXPIRED", "CANCELLED"}
FulfillableStatus == {"PAID", "FAILED", "RECHARGING"}
OrderStatus == UnpaidStatus \cup FulfillableStatus \cup {"COMPLETED"}

\* The delays the code measures from updated_at: one minute before a paid
\* order is retried, five before a lease may be taken over, fifteen before
\* a failed upstream cancellation is tried again.
FulfillmentRetryDelay == 1
FulfillmentLeaseDuration == 2
PaymentExpiryRetryDelay == 3
Ages == 0 .. PaymentExpiryRetryDelay

RowTypeOK ==
    /\ status \in OrderStatus
    /\ paidAt \in BOOLEAN
    /\ age \in Ages
    /\ holders \subseteq Workers

RowInit ==
    /\ status = "PENDING"
    /\ paidAt = FALSE
    /\ age = 0
    /\ holders = {}

\* An UPDATE of the row: updated_at moves, so no remembered version is current.
UpdateRow(s) ==
    /\ status' = s
    /\ age' = 0
    /\ holders' = {}

\* TransitionOrder without a version: WHERE status IN from.
CanTransition(from) == status \in from

\* TransitionOrder with a version: WHERE status IN from AND updated_at = v.
CanTransitionAs(w, from) == status \in from /\ w \in holders

\* The condition of ClaimFulfillment: a paid or failed order, or a lease
\* whose holder has been silent for the lease duration.
CanClaim ==
    \/ status \in {"PAID", "FAILED"}
    \/ status = "RECHARGING" /\ age >= FulfillmentLeaseDuration

\* Mutant of Recoverable: an abandoned lease is not selected.
RecoverableWithoutLeases ==
    paidAt /\ status \in {"PAID", "FAILED"} /\ age >= FulfillmentRetryDelay

\* What RecoverableFulfillmentIDs selects.
Recoverable ==
    /\ paidAt
    /\ \/ status \in {"PAID", "FAILED"} /\ age >= FulfillmentRetryDelay
       \/ status = "RECHARGING" /\ age >= FulfillmentLeaseDuration

\* Time passes.
Tick ==
    /\ age < PaymentExpiryRetryDelay
    /\ age' = age + 1
    /\ UNCHANGED <<status, paidAt, holders>>
===========================================================================
