-------------------------- MODULE PaymentProvider --------------------------
(***************************************************************************)
(* The payment channel as the payment package uses it: the state of the    *)
(* upstream payment, the notifications it has emitted, and the answers to  *)
(* a status query and to a request to close the payment.  A notification,  *)
(* once emitted, may be delivered any number of times, in any order, or    *)
(* never.                                                                  *)
(***************************************************************************)
VARIABLES
    upstream,   \* state of the payment at the channel
    notes       \* notifications the channel has emitted

providerVars == <<upstream, notes>>

\* "absent": the channel does not know the trade until the buyer opens it, as
\* with an Alipay QR code that nobody has scanned.  "mismatch" is a settled
\* payment whose amount is not the order's.
UpstreamState == {"absent", "unpaid", "processing", "paid", "mismatch", "failed",
                  "closed"}
Notification == {"processing", "paid", "mismatch", "failed"}

ProviderTypeOK ==
    /\ upstream \in UpstreamState
    /\ notes \subseteq Notification

ProviderInit ==
    /\ upstream \in {"absent", "unpaid"}
    /\ notes = {}

\* The channel reports the new state of the payment.
Report(s) ==
    /\ upstream' = s
    /\ notes' = notes \cup {s}

\* The buyer opens the payment page, which creates the trade.
OpenTrade ==
    /\ upstream = "absent"
    /\ upstream' = "unpaid"
    /\ UNCHANGED notes

\* The buyer starts an asynchronous payment.
StartPayment ==
    /\ upstream = "unpaid"
    /\ Report("processing")

\* The payment succeeds, also on a second try after a reported failure.
SettlePayment ==
    /\ upstream \in {"unpaid", "processing", "failed"}
    /\ \E s \in {"paid", "mismatch"} : Report(s)

\* The channel reports that a payment attempt failed.
FailPayment ==
    /\ upstream \in {"unpaid", "processing"}
    /\ Report("failed")

ProviderNext == OpenTrade \/ StartPayment \/ SettlePayment \/ FailPayment

\* Answers QueryOrder may give.  A settled payment may be answered with an
\* amount that is not a finite positive number ("invalid").  A trade that the
\* channel does not know is answered as an open one.
QueryAnswers ==
    CASE upstream \in {"absent", "unpaid"} -> {"pending"}
      [] upstream = "processing"           -> {"processing"}
      [] upstream = "paid"                 -> {"paid", "invalid"}
      [] upstream = "mismatch"             -> {"mismatch", "invalid"}
      [] OTHER                             -> {"failed"}
===========================================================================
