--------------------------- MODULE OperationLease ---------------------------
(***************************************************************************)
(* maintenance.SystemOperationLockService and the statements of            *)
(* idempotency/postgres/operation_lease.go: the lock that serialises       *)
(* system operations.  It is one row of idempotency_records, claimed with  *)
(* a fresh owner token, renewed by a goroutine of the holder and finished  *)
(* by Release.  An operation is one call of Acquire, so it stands for its  *)
(* token.                                                                  *)
(*                                                                         *)
(* Acquire reads the clock before it claims and the renewal loop before it *)
(* renews; the statement may run later.  What an operation keeps in local  *)
(* variables is forgotten when it is no longer needed.                     *)
(***************************************************************************)
EXTENDS Integers

CONSTANTS
    Ops,            \* operations
    Lease,          \* how long a claim or a renewal locks the row
    RowTTL,         \* retention of the row
    MaxTime         \* bound on the clock

ASSUME LeaseAssumption ==
    /\ Lease \in Nat \ {0}
    /\ RowTTL \in Nat
    /\ RowTTL >= Lease
    /\ MaxTime \in Nat

VARIABLES
    now,
    row,        \* the row of the lock, or NoRow
    hold,       \* what each operation has of the lock
    at,         \* clock as the claim or renewal under way has read it, or 0
    ctx,        \* the context of the operation is not cancelled
    loop,       \* renewal loop of the operation
    lease,      \* end of the last lease the operation knows it has written
    succeeded,  \* outcome handed to Release
    overrun     \* history: somebody outlived the lease it counts on

lvars == <<now, row, hold, at, ctx, loop, lease, succeeded, overrun>>

NoLock == -1
NoRow == [owner |-> "nobody"]
Row == [owner : Ops, status : {"processing", "succeeded", "failed_retryable"}, lock : Int, exp : Int]
HoldState == {"none", "claiming", "held", "releasing", "released", "refused", "dead"}
LoopState == {"off", "waiting", "renewing", "ended"}

LTypeOK ==
    /\ now \in Nat
    /\ row \in Row \cup {NoRow}
    /\ hold \in [Ops -> HoldState]
    /\ at \in [Ops -> Nat]
    /\ ctx \in [Ops -> BOOLEAN]
    /\ loop \in [Ops -> LoopState]
    /\ lease \in [Ops -> Nat]
    /\ succeeded \in [Ops -> BOOLEAN]
    /\ overrun \in BOOLEAN

LInit ==
    /\ now = 0
    /\ row = NoRow
    /\ hold = [o \in Ops |-> "none"]
    /\ at = [o \in Ops |-> 0]
    /\ ctx = [o \in Ops |-> FALSE]
    /\ loop = [o \in Ops |-> "off"]
    /\ lease = [o \in Ops |-> 0]
    /\ succeeded = [o \in Ops |-> FALSE]
    /\ overrun = FALSE

-----------------------------------------------------------------------------
Hold(o, s) == hold' = [hold EXCEPT ![o] = s]

(* The comparison of RenewOperation and FinishOperation. *)
OwnsLock(o) == row # NoRow /\ row.owner = o /\ row.status = "processing"

(* Acquire reads the clock and draws a token. *)
BeginAcquire(o) ==
    /\ hold[o] = "none"
    /\ Hold(o, "claiming")
    /\ at' = [at EXCEPT ![o] = now]
    /\ UNCHANGED <<now, overrun, row, ctx, loop, lease, succeeded>>

(* Mutant of Claimable: the lock is compared with the retention. *)
Claimable_Retention(o) == row # NoRow => row.lock <= at[o] + Lease

Claimable(o) == row # NoRow => row.lock <= at[o]

ClaimedRow(o) ==
    [owner |-> o, status |-> "processing", lock |-> at[o] + Lease, exp |-> at[o] + RowTTL]

(* ClaimOperation inserts the row or replaces one whose lock has ended; the *)
(* holder starts its renewal loop.                                          *)
ClaimOperation(o) ==
    /\ hold[o] = "claiming"
    /\ Claimable(o)
    /\ row' = ClaimedRow(o)
    /\ Hold(o, "held")
    /\ ctx' = [ctx EXCEPT ![o] = TRUE]
    /\ loop' = [loop EXCEPT ![o] = "waiting"]
    /\ lease' = [lease EXCEPT ![o] = at[o] + Lease]
    /\ at' = [at EXCEPT ![o] = 0]
    /\ UNCHANGED <<now, overrun, succeeded>>

(* Another operation is in progress, or the statement fails: it may have   *)
(* claimed the row although its answer is lost.                            *)
AcquireRefused(o) ==
    /\ hold[o] = "claiming"
    /\ \/ UNCHANGED row
       \/ Claimable(o) /\ row' = ClaimedRow(o)
    /\ Hold(o, "refused")
    /\ at' = [at EXCEPT ![o] = 0]
    /\ UNCHANGED <<now, overrun, ctx, loop, lease, succeeded>>

(* The ticker of the renewal loop fires. *)
RenewTick(o) ==
    /\ loop[o] = "waiting"
    /\ hold[o] = "held"
    /\ loop' = [loop EXCEPT ![o] = "renewing"]
    /\ at' = [at EXCEPT ![o] = now]
    /\ UNCHANGED <<now, overrun, row, hold, ctx, lease, succeeded>>

RenewedRow(o) == [row EXCEPT !.lock = at[o] + Lease, !.exp = at[o] + RowTTL]

(* Mutant of RenewOperation: the loop goes on when the owner was replaced. *)
RenewOperation_GoesOn(o) ==
    /\ loop[o] = "renewing"
    /\ row' = IF OwnsLock(o) THEN RenewedRow(o) ELSE row
    /\ loop' = [loop EXCEPT ![o] = "waiting"]
    /\ at' = [at EXCEPT ![o] = 0]
    /\ UNCHANGED <<now, overrun, hold, ctx, lease, succeeded>>

(* The row is renewed, or the owner was replaced: the loop then cancels the *)
(* operation and ends.                                                      *)
RenewOperation(o) ==
    /\ loop[o] = "renewing"
    /\ \/ /\ OwnsLock(o)
          /\ row' = RenewedRow(o)
          /\ lease' = [lease EXCEPT ![o] = at[o] + Lease]
          /\ loop' = [loop EXCEPT ![o] = "waiting"]
          /\ UNCHANGED ctx
       \/ /\ ~OwnsLock(o)
          /\ ctx' = [ctx EXCEPT ![o] = FALSE]
          /\ loop' = [loop EXCEPT ![o] = "ended"]
          /\ UNCHANGED <<row, lease>>
    /\ at' = [at EXCEPT ![o] = 0]
    /\ UNCHANGED <<now, overrun, hold, succeeded>>

(* A renewal fails or its context ends, perhaps after the row was renewed: *)
(* the loop tries again later.                                             *)
RenewFails(o) ==
    /\ loop[o] = "renewing"
    /\ \/ UNCHANGED row
       \/ OwnsLock(o) /\ row' = RenewedRow(o)
    /\ loop' = [loop EXCEPT ![o] = "waiting"]
    /\ at' = [at EXCEPT ![o] = 0]
    /\ UNCHANGED <<now, overrun, hold, ctx, lease, succeeded>>

(* The contexts of operations S are cancelled from outside. *)
CancelWork(S) ==
    /\ \A o \in S : hold[o] = "held"
    /\ ctx' = [o \in Ops |-> ctx[o] /\ o \notin S]
    /\ UNCHANGED <<now, overrun, row, hold, at, loop, lease, succeeded>>

(* Release closes stopCh, cancels the context and waits for the loop. *)
StartRelease(o, success) ==
    /\ hold[o] = "held"
    /\ Hold(o, "releasing")
    /\ ctx' = [ctx EXCEPT ![o] = FALSE]
    /\ succeeded' = [succeeded EXCEPT ![o] = success]
    /\ UNCHANGED <<now, overrun, row, at, loop, lease>>

LoopStops(o) ==
    /\ hold[o] = "releasing"
    /\ loop[o] = "waiting"
    /\ loop' = [loop EXCEPT ![o] = "ended"]
    /\ UNCHANGED <<now, overrun, row, hold, at, ctx, lease, succeeded>>

(* FinishOperation; the row is left alone when the owner was replaced or   *)
(* the statement fails.                                                    *)
FinishOperation(o) ==
    /\ hold[o] = "releasing"
    /\ loop[o] = "ended"
    /\ \/ UNCHANGED row
       \/ /\ OwnsLock(o)
          /\ row' = [row EXCEPT !.status = IF succeeded[o] THEN "succeeded" ELSE "failed_retryable",
                                !.lock = IF succeeded[o] THEN NoLock ELSE now,
                                !.exp = now + RowTTL]
    /\ Hold(o, "released")
    /\ lease' = [lease EXCEPT ![o] = 0]
    /\ succeeded' = [succeeded EXCEPT ![o] = FALSE]
    /\ UNCHANGED <<now, overrun, at, ctx, loop>>

(* The process of operations S dies. *)
Crash(S) ==
    /\ S # {}
    /\ \A o \in S : hold[o] \in {"claiming", "held", "releasing"}
    /\ hold' = [o \in Ops |-> IF o \in S THEN "dead" ELSE hold[o]]
    /\ ctx' = [o \in Ops |-> ctx[o] /\ o \notin S]
    /\ loop' = [o \in Ops |-> IF o \in S THEN "ended" ELSE loop[o]]
    /\ at' = [o \in Ops |-> IF o \in S THEN 0 ELSE at[o]]
    /\ lease' = [o \in Ops |-> IF o \in S THEN 0 ELSE lease[o]]
    /\ succeeded' = [o \in Ops |-> succeeded[o] /\ o \notin S]
    /\ UNCHANGED <<now, overrun, row>>

(* The cleanup service deletes the row like any other expired record. *)
DeleteExpiredRow ==
    /\ row # NoRow
    /\ row.exp <= now
    /\ row' = NoRow
    /\ UNCHANGED <<now, overrun, hold, at, ctx, loop, lease, succeeded>>

(* Time passes, perhaps past the lease that a claim on its way would write *)
(* or that a holder has written: its process is suspended or cut off.      *)
Outlives(o) ==
    \/ hold[o] = "claiming" /\ now + 1 >= at[o] + Lease
    \/ hold[o] \in {"held", "releasing"} /\ now + 1 >= lease[o]

LeaseTick ==
    /\ now < MaxTime
    /\ now' = now + 1
    /\ overrun' = (overrun \/ \E o \in Ops : Outlives(o))
    /\ UNCHANGED <<row, hold, at, ctx, loop, lease, succeeded>>

LeaseStep(o) ==
    \/ BeginAcquire(o)
    \/ ClaimOperation(o)
    \/ AcquireRefused(o)
    \/ RenewTick(o)
    \/ RenewOperation(o)
    \/ RenewFails(o)
    \/ \E success \in BOOLEAN : StartRelease(o, success)
    \/ LoopStops(o)
    \/ FinishOperation(o)

LNext ==
    \/ \E o \in Ops : LeaseStep(o)
    \/ \E S \in SUBSET Ops : Crash(S) \/ CancelWork(S)
    \/ DeleteExpiredRow
    \/ LeaseTick

LSpec == LInit /\ [][LNext]_lvars

-----------------------------------------------------------------------------
(* Until the lease it has last written ends, the lock is the operation's:  *)
(* no claim, late renewal, release or cleanup of others takes it away, so  *)
(* two operations overlap only when one was suspended or cut off from the  *)
(* store for a whole lease (operation_lease.go:14).                        *)
LeaseIsExclusive ==
    \A o \in Ops : hold[o] \in {"held", "releasing"} /\ now < lease[o] => OwnsLock(o)
=============================================================================
