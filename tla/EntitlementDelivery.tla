------------------------ MODULE EntitlementDelivery ------------------------
(***************************************************************************)
(* What a payment order promises its buyer, without leases, workers or     *)
(* retries: once the payment is recorded the entitlement is delivered,     *)
(* exactly once, and after that the order is closed for good.              *)
(***************************************************************************)
EXTENDS Naturals

VARIABLES
    funded,     \* the payment is recorded
    deliveries, \* how many times the entitlement was delivered
    closed      \* the order is complete

dvars == <<funded, deliveries, closed>>

DInit == funded = FALSE /\ deliveries = 0 /\ closed = FALSE

Fund ==
    /\ ~funded
    /\ funded' = TRUE
    /\ UNCHANGED <<deliveries, closed>>

Deliver ==
    /\ funded /\ deliveries = 0
    /\ deliveries' = 1
    /\ UNCHANGED <<funded, closed>>

Close ==
    /\ deliveries = 1 /\ ~closed
    /\ closed' = TRUE
    /\ UNCHANGED <<funded, deliveries>>

DNext == Fund \/ Deliver \/ Close

\* The safety part of the promise.
DSafe == DInit /\ [][DNext]_dvars

DSpec == DSafe /\ WF_dvars(Deliver) /\ WF_dvars(Close)
=============================================================================
