------------------------ MODULE OperationLeaseProofs ------------------------
(***************************************************************************)
(* Theorems about OperationLease, for any number of operations, any lease  *)
(* and any retention that is at least as long as the lease.                *)
(***************************************************************************)
EXTENDS OperationLease, TLAPS

\* Clock readings lie in the past, so a claim that finds the lock ended finds
\* it ended now.
ReadingInv == \A o \in Ops : at[o] <= now

\* The row of a holder whose lease lasts is locked and kept until it ends.
Holds(o) == hold[o] \in {"held", "releasing"} /\ now < lease[o]
HolderInv ==
    \A o \in Ops : Holds(o) => OwnsLock(o) /\ row.lock >= lease[o] /\ row.exp >= lease[o]

\* A renewal under way would not shorten the lease: the row may be renewed
\* although the holder does not learn of it.
RenewalInv ==
    \A o \in Ops :
        /\ lease[o] <= now + Lease
        /\ loop[o] = "renewing" => hold[o] \in {"held", "releasing"} /\ lease[o] <= at[o] + Lease

LeaseParts == ReadingInv /\ HolderInv /\ RenewalInv
LeaseInv == LTypeOK /\ LeaseParts

-----------------------------------------------------------------------------
(* Types. *)

\* The first state satisfies the types.
LEMMA LTypeInit == LInit => LTypeOK
<1> SUFFICES ASSUME LInit PROVE LTypeOK
  OBVIOUS
<1>1. overrun \in BOOLEAN /\ ctx \in [Ops -> BOOLEAN] /\ succeeded \in [Ops -> BOOLEAN]
  BY DEF LInit
<1>2. QED
  BY <1>1 DEF LInit, LTypeOK, HoldState, LoopState, NoRow

\* A renewed row is the owner's.
LEMMA RenewedTypes ==
  ASSUME LTypeOK, NEW o \in Ops, OwnsLock(o)
  PROVE /\ RenewedRow(o) \in Row
        /\ RenewedRow(o) # NoRow
        /\ RenewedRow(o).owner = o
        /\ RenewedRow(o).status = "processing"
        /\ RenewedRow(o).lock = at[o] + Lease
        /\ RenewedRow(o).exp = at[o] + RowTTL
<1>1. row \in Row
  BY DEF OwnsLock, LTypeOK
<1>2. at[o] + Lease \in Int /\ at[o] + RowTTL \in Int
  BY LeaseAssumption DEF LTypeOK
<1>3. RenewedRow(o) \in Row
  BY <1>1, <1>2 DEF RenewedRow, Row
<1>4. QED
  BY <1>1, <1>3 DEF RenewedRow, OwnsLock, Row, NoRow

\* Every step preserves the types.
LEMMA LTypeStep == LTypeOK /\ [LNext]_lvars => LTypeOK'
<1> SUFFICES ASSUME LTypeOK, [LNext]_lvars PROVE LTypeOK'
  OBVIOUS
<1> USE LeaseAssumption
<1>1. ASSUME NEW o \in Ops, LeaseStep(o) PROVE LTypeOK'
  <2>1. CASE BeginAcquire(o)
    BY <2>1 DEF BeginAcquire, Hold, LTypeOK, HoldState, LoopState, Row, NoRow
  <2>2. CASE ClaimOperation(o)
    BY <2>2 DEF ClaimOperation, Claimable, ClaimedRow, Hold, LTypeOK, HoldState, LoopState, Row,
       NoRow
  <2>3. CASE AcquireRefused(o)
    BY <2>3 DEF AcquireRefused, Claimable, ClaimedRow, Hold, LTypeOK, HoldState, LoopState, Row,
       NoRow
  <2>4. CASE RenewTick(o)
    BY <2>4 DEF RenewTick, LTypeOK, HoldState, LoopState, Row, NoRow
  <2>5. CASE RenewOperation(o)
    <3>1. row' \in Row \cup {NoRow}
      BY <2>5, RenewedTypes DEF RenewOperation, LTypeOK
    <3>2. lease' \in [Ops -> Nat] /\ loop' \in [Ops -> LoopState]
      BY <2>5 DEF RenewOperation, LTypeOK, LoopState
    <3>3. ctx' \in [Ops -> BOOLEAN]
      BY <2>5 DEF RenewOperation, LTypeOK
    <3>4. QED
      BY <2>5, <3>1, <3>2, <3>3 DEF RenewOperation, LTypeOK
  <2>6. CASE RenewFails(o)
    BY <2>6, RenewedTypes DEF RenewFails, LTypeOK, LoopState
  <2>7. ASSUME NEW success \in BOOLEAN, StartRelease(o, success) PROVE LTypeOK'
    BY <2>7 DEF StartRelease, Hold, LTypeOK, HoldState, LoopState, Row, NoRow
  <2>8. CASE LoopStops(o)
    BY <2>8 DEF LoopStops, LTypeOK, HoldState, LoopState, Row, NoRow
  <2>9. CASE FinishOperation(o)
    <3>1. CASE row' = row
      BY <2>9, <3>1 DEF FinishOperation, Hold, LTypeOK, HoldState
    <3>2. CASE row' # row
      <4>1. row \in Row
        BY <2>9, <3>2 DEF FinishOperation, OwnsLock, LTypeOK
      <4>2. row' = [row EXCEPT !.status = IF succeeded[o] THEN "succeeded" ELSE "failed_retryable",
                               !.lock = IF succeeded[o] THEN NoLock ELSE now,
                               !.exp = now + RowTTL]
        BY <2>9, <3>2 DEF FinishOperation
      <4>3. NoLock \in Int /\ now \in Int /\ now + RowTTL \in Int
        BY DEF NoLock, LTypeOK
      <4>4. row' \in Row
        BY <4>1, <4>2, <4>3 DEF Row
      <4>5. QED
        BY <2>9, <4>4 DEF FinishOperation, Hold, LTypeOK, HoldState
    <3>3. QED
      BY <3>1, <3>2
  <2>10. QED
    BY <1>1, <2>1, <2>2, <2>3, <2>4, <2>5, <2>6, <2>7, <2>8, <2>9 DEF LeaseStep
<1>2. ASSUME NEW S \in SUBSET Ops, Crash(S) PROVE LTypeOK'
  BY <1>2 DEF Crash, LTypeOK, HoldState, LoopState, Row, NoRow
<1>3. ASSUME NEW S \in SUBSET Ops, CancelWork(S) PROVE LTypeOK'
  BY <1>3 DEF CancelWork, LTypeOK, HoldState, LoopState, Row, NoRow
<1>4. CASE DeleteExpiredRow
  BY <1>4 DEF DeleteExpiredRow, LTypeOK, HoldState, LoopState, Row, NoRow
<1>5. CASE LeaseTick
  BY <1>5 DEF LeaseTick, Outlives, LTypeOK, HoldState, LoopState, Row, NoRow
<1>6. CASE UNCHANGED lvars
  BY <1>6 DEF lvars, LTypeOK, HoldState, LoopState, Row, NoRow
<1>7. QED
  BY <1>1, <1>2, <1>3, <1>4, <1>5, <1>6 DEF LNext

\* Type correctness of the maintenance lock (lock.go:83).
THEOREM LCorrectTypes == LSpec => []LTypeOK
<1>1. QED
  BY LTypeInit, LTypeStep, PTL DEF LSpec

-----------------------------------------------------------------------------
(* Exclusion. *)

\* The first state satisfies the invariant.
LEMMA LeaseInit == LInit => LeaseInv
BY LTypeInit, LeaseAssumption DEF LInit, LeaseInv, LeaseParts, ReadingInv, HolderInv, RenewalInv, Holds

\* Every step preserves the invariant.
LEMMA LeaseInvStep == LeaseInv /\ [LNext]_lvars => LeaseParts'
<1> SUFFICES ASSUME LeaseInv, [LNext]_lvars PROVE LeaseParts'
  OBVIOUS
<1> USE LeaseAssumption
<1>1. ASSUME NEW o \in Ops, LeaseStep(o) PROVE LeaseParts'
  <2>1. CASE BeginAcquire(o)
    BY <2>1 DEF BeginAcquire, Hold, LeaseInv, LeaseParts, ReadingInv, HolderInv, RenewalInv, Holds, OwnsLock,
       LTypeOK, Row, NoRow
  <2>2. CASE ClaimOperation(o)
    <3>1. /\ row' # NoRow
          /\ row'.owner = o /\ row'.status = "processing"
          /\ row'.lock = at[o] + Lease /\ row'.exp = at[o] + RowTTL
      BY <2>2 DEF ClaimOperation, ClaimedRow, NoRow
    <3>2. /\ hold' = [hold EXCEPT ![o] = "held"]
          /\ lease' = [lease EXCEPT ![o] = at[o] + Lease]
          /\ at' = [at EXCEPT ![o] = 0]
          /\ now' = now
      BY <2>2 DEF ClaimOperation, Hold
    <3>3. ReadingInv'
      BY <3>2 DEF LeaseInv, LeaseParts, ReadingInv, LTypeOK
    <3>4. ASSUME NEW p \in Ops, Holds(p) PROVE FALSE
      <4>1. row # NoRow /\ row.lock >= lease[p] /\ now < lease[p]
        BY <3>4 DEF LeaseInv, LeaseParts, HolderInv, RenewalInv, Holds, OwnsLock
      <4>2. row.lock <= at[o] /\ at[o] <= now
        BY <2>2, <4>1 DEF ClaimOperation, Claimable, LeaseInv, LeaseParts, ReadingInv
      <4>3. row.lock \in Int /\ at[o] \in Nat /\ now \in Nat /\ lease[p] \in Nat
        BY <4>1 DEF LeaseInv, LTypeOK, Row
      <4>4. QED
        BY <4>1, <4>2, <4>3
    <3>5. HolderInv'
      BY <3>1, <3>2, <3>4 DEF HolderInv, RenewalInv, Holds, OwnsLock, LeaseInv, LTypeOK
    <3>6. RenewalInv'
      BY <2>2, <3>2 DEF ClaimOperation, RenewalInv, ReadingInv, LeaseInv, LeaseParts, LTypeOK
    <3>7. QED
      BY <3>3, <3>5, <3>6 DEF LeaseParts
  <2>3. CASE AcquireRefused(o)
    BY <2>3 DEF AcquireRefused, Claimable, ClaimedRow, Hold, LeaseInv, LeaseParts, ReadingInv,
       HolderInv, RenewalInv, Holds, OwnsLock, LTypeOK, Row, NoRow
  <2>4. CASE RenewTick(o)
    BY <2>4 DEF RenewTick, LeaseInv, LeaseParts, ReadingInv, HolderInv, RenewalInv, Holds, OwnsLock, LTypeOK,
       Row, NoRow
  <2>5. CASE RenewOperation(o)
    <3>1. CASE OwnsLock(o)
      <4>1. /\ row' = RenewedRow(o)
            /\ lease' = [lease EXCEPT ![o] = at[o] + Lease]
            /\ loop' = [loop EXCEPT ![o] = "waiting"]
            /\ at' = [at EXCEPT ![o] = 0]
            /\ UNCHANGED <<now, hold>>
        BY <2>5, <3>1 DEF RenewOperation
      <4>2. \A p \in Ops : Holds(p) => p = o
        BY <3>1 DEF OwnsLock, LeaseInv, LeaseParts, HolderInv
      <4>3. ReadingInv' /\ RenewalInv'
        BY <4>1 DEF LeaseInv, LeaseParts, ReadingInv, RenewalInv, LTypeOK
      <4>4. HolderInv'
        BY <3>1, <4>1, <4>2, RenewedTypes DEF LeaseInv, HolderInv, Holds, OwnsLock, LTypeOK
      <4>5. QED
        BY <4>3, <4>4 DEF LeaseParts
    <3>2. CASE ~OwnsLock(o)
      BY <2>5, <3>2 DEF RenewOperation, LeaseInv, LeaseParts, ReadingInv, HolderInv, RenewalInv, Holds, OwnsLock,
         LTypeOK
    <3>3. QED
      BY <3>1, <3>2
  <2>6. CASE RenewFails(o)
    <3>1. CASE row' = row
      BY <2>6, <3>1 DEF RenewFails, LeaseInv, LeaseParts, ReadingInv, HolderInv, RenewalInv, Holds,
         OwnsLock, LTypeOK
    <3>2. CASE row' # row
      <4>1. /\ OwnsLock(o)
            /\ row' = RenewedRow(o)
            /\ loop[o] = "renewing"
            /\ loop' = [loop EXCEPT ![o] = "waiting"]
            /\ at' = [at EXCEPT ![o] = 0]
            /\ UNCHANGED <<now, hold, lease>>
        BY <2>6, <3>2 DEF RenewFails
      <4>2. \A p \in Ops : Holds(p) => p = o
        BY <4>1 DEF OwnsLock, LeaseInv, LeaseParts, HolderInv
      <4>3. ReadingInv' /\ RenewalInv'
        BY <4>1 DEF LeaseInv, LeaseParts, ReadingInv, RenewalInv, LTypeOK
      <4>4. HolderInv'
        BY <4>1, <4>2, RenewedTypes DEF LeaseInv, LeaseParts, RenewalInv, HolderInv, Holds, OwnsLock,
           LTypeOK
      <4>5. QED
        BY <4>3, <4>4 DEF LeaseParts
    <3>3. QED
      BY <3>1, <3>2
  <2>7. ASSUME NEW success \in BOOLEAN, StartRelease(o, success) PROVE LeaseParts'
    BY <2>7 DEF StartRelease, Hold, LeaseInv, LeaseParts, ReadingInv, HolderInv, RenewalInv, Holds, OwnsLock,
       LTypeOK, Row, NoRow
  <2>8. CASE LoopStops(o)
    BY <2>8 DEF LoopStops, LeaseInv, LeaseParts, ReadingInv, HolderInv, RenewalInv, Holds, OwnsLock, LTypeOK,
       Row, NoRow
  <2>9. CASE FinishOperation(o)
    BY <2>9 DEF FinishOperation, OwnsLock, Hold, LeaseInv, LeaseParts, ReadingInv, HolderInv,
       RenewalInv, Holds, OwnsLock, LTypeOK, Row, NoRow
  <2>10. QED
    BY <1>1, <2>1, <2>2, <2>3, <2>4, <2>5, <2>6, <2>7, <2>8, <2>9 DEF LeaseStep
<1>2. ASSUME NEW S \in SUBSET Ops, Crash(S) PROVE LeaseParts'
  BY <1>2 DEF Crash, LeaseInv, LeaseParts, ReadingInv, HolderInv, RenewalInv, Holds, OwnsLock, LTypeOK, Row,
     NoRow
<1>3. ASSUME NEW S \in SUBSET Ops, CancelWork(S) PROVE LeaseParts'
  BY <1>3 DEF CancelWork, LeaseInv, LeaseParts, ReadingInv, HolderInv, RenewalInv, Holds, OwnsLock, LTypeOK,
     Row, NoRow
<1>4. CASE DeleteExpiredRow
  BY <1>4 DEF DeleteExpiredRow, LeaseInv, LeaseParts, ReadingInv, HolderInv, RenewalInv, Holds, OwnsLock,
     LTypeOK, Row, NoRow
<1>5. CASE LeaseTick
  BY <1>5 DEF LeaseTick, Outlives, LeaseInv, LeaseParts, ReadingInv, HolderInv, RenewalInv, Holds, OwnsLock, LTypeOK,
     Row, NoRow
<1>6. CASE UNCHANGED lvars
  BY <1>6 DEF lvars, LeaseInv, LeaseParts, ReadingInv, HolderInv, RenewalInv, Holds, OwnsLock, LTypeOK, Row,
     NoRow
<1>7. QED
  BY <1>1, <1>2, <1>3, <1>4, <1>5, <1>6 DEF LNext

\* A lease that was written keeps the lock for its holder until it ends
\* (operation_lease.go:14-24): whatever other holders, former holders and the
\* cleanup do meanwhile.
THEOREM LeaseExcludes == LSpec => []LeaseIsExclusive
<1>1. LeaseInv /\ [LNext]_lvars => LeaseInv'
  BY LTypeStep, LeaseInvStep DEF LeaseInv
<1>2. LeaseInv => LeaseIsExclusive
  BY DEF LeaseInv, LeaseParts, HolderInv, RenewalInv, Holds, LeaseIsExclusive
<1>3. QED
  BY LeaseInit, <1>1, <1>2, PTL DEF LSpec
=============================================================================
