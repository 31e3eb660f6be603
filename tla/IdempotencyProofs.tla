------------------------- MODULE IdempotencyProofs -------------------------
(***************************************************************************)
(* Theorems about IdempotencyCoordinator, for any number of requests, any  *)
(* payloads, any timeouts and without a bound on the clock's range.        *)
(*                                                                         *)
(* SingleOwner is not inductive: that no other request can claim the row   *)
(* of an owner follows from the lock and the expiry it has written, which  *)
(* lie beyond the end of its two contexts, and from every request          *)
(* comparing them with a clock reading of its past.                        *)
(***************************************************************************)
EXTENDS IdempotencyCoordinator, TLAPS

\* No request has read the clock before it was there.
ReadingsInv == \A r \in Requests : at[r] <= now

\* The two contexts of a timed request end before the lock it has written.
ContextInv ==
    Timed => \A r \in Requests :
        /\ pc[r] = "execute" => now <= at[r] + ExecutionTimeout
        /\ pc[r] = "persist" => until[r] <= at[r] + ExecutionTimeout + Grace

\* The row of an owner is the one it has claimed, locked and kept beyond the
\* end of the owner's contexts.
RowOf(r) ==
    /\ rec # NoRecord
    /\ rec.id = own[r]
    /\ rec.status = "processing"
    /\ rec.lock >= at[r] + ExecutionTimeout + Grace
    /\ rec.exp >= at[r] + ExecutionTimeout + Grace
RowInv == Timed => \A r \in Requests : Owner(r) => RowOf(r)

OwnerParts == ReadingsInv /\ ContextInv /\ RowInv /\ SingleOwner
OwnerInv == ITypeOK /\ OwnerParts

\* Rows are numbered in the order of their creation, and a row keeps the
\* payload it was created with.
NumberInv ==
    /\ rec # NoRecord => rec.id < nextId
    /\ \A r \in Requests :
          /\ pc[r] \in {"execute", "persist"} =>
                own[r] < nextId /\ (rec # NoRecord /\ rec.id = own[r] => rec.fp = PayloadOf[r])
          /\ pc[r] \in {"reclaim_expired", "reclaim_failed"} =>
                /\ seen[r] # NoRecord
                /\ seen[r].id < nextId
                /\ rec # NoRecord /\ rec.id = seen[r].id => rec.fp = PayloadOf[r]

\* A stored response belongs to the payload of its row.
BodyInv ==
    rec # NoRecord =>
        /\ rec.body \in Requests => PayloadOf[rec.body] = rec.fp
        /\ rec.status = "succeeded" => rec.body # NoBody

\* A request that was answered takes no further step.
AnswerInv == \A r \in Requests : result[r] = "replayed" => pc[r] = "done"

PayloadParts == NumberInv /\ BodyInv /\ AnswerInv /\ ReplayMatchesPayload
PayloadInv == ITypeOK /\ PayloadParts

\* What a request knows that is about to claim a row: it owns none yet, and if
\* it has found the row expired, a success stored since is younger than its
\* clock reading.
ClaimOK(r) ==
    /\ pc[r] \in ClaimSteps \cup {"new"} => own[r] = 0
    /\ pc[r] = "reclaim_failed" => seen[r].status = "failed_retryable"
    /\ pc[r] = "reclaim_expired" =>
          (rec # NoRecord /\ rec.status = "succeeded" /\ rec.exp > at[r] => at[r] <= StoredAt)
ClaimInv == Timed => \A r \in Requests : ClaimOK(r)

\* A request that has found the row expired read the clock before the command
\* of the owner returned, because the row of an owner does not expire.
ReturnInv ==
    Timed => \A r, s \in Requests :
                pc[r] = "reclaim_expired" /\ pc[s] = "persist" /\ PersistInTime(s) =>
                    at[r] <= ReturnedAt(s)

-----------------------------------------------------------------------------
(* Types. *)

\* The retention and the lock are natural numbers that cover a timed command
\* and the write of its result.
LEMMA Durations ==
    /\ EffectiveTTL \in Nat \ {0}
    /\ EffectiveLock \in Nat \ {0}
    /\ Timed => EffectiveTTL >= ExecutionTimeout + Grace /\ EffectiveLock >= ExecutionTimeout + Grace
BY TimesAssumption DEF EffectiveTTL, EffectiveLock, AtLeast, Timed

\* The first state satisfies the types.
LEMMA ITypeInit == IInit => ITypeOK
BY DEF IInit, ITypeOK, RequestStep, NoRecord

\* Every step preserves the types.
LEMMA ITypeStep == ITypeOK /\ [INext]_ivars => ITypeOK'
<1> SUFFICES ASSUME ITypeOK, [INext]_ivars PROVE ITypeOK'
  OBVIOUS
<1> USE Durations, TimesAssumption, PayloadAssumption
<1>1. ASSUME NEW r \in Requests, RequestNext(r) PROVE ITypeOK'
  <2>1. CASE Begin(r)
    BY <2>1 DEF Begin, Goto, ITypeOK, RequestStep, ClaimSteps, Outcome, Answer, Record,
       RecordStatus, NoRecord, NoBody, NoLock, Truncated, ResultExpiry
  <2>2. CASE CreateProcessing(r)
    BY <2>2 DEF CreateProcessing, Goto, NoRecord, Record, RecordStatus, ITypeOK, RequestStep,
       ClaimSteps, Outcome, Answer, Record, RecordStatus, NoRecord, NoBody, NoLock, Truncated,
       ResultExpiry
  <2>3. CASE GetByScopeAndKeyHash(r)
    BY <2>3 DEF GetByScopeAndKeyHash, ReadRow, FollowStatus, Goto, Reply, ITypeOK, RequestStep,
       ClaimSteps, Outcome, Answer, Record, RecordStatus, NoRecord, NoBody, NoLock, Truncated,
       ResultExpiry
  <2>4. CASE TryReclaim(r)
    <3>1. CASE Reclaimable(r)
      <4>1. rec \in Record
        BY <3>1 DEF Reclaimable, ITypeOK
      <4>2. rec' = [rec EXCEPT !.status = "processing", !.lock = at[r] + EffectiveLock,
                               !.exp = at[r] + EffectiveTTL]
        BY <2>4, <3>1 DEF TryReclaim
      <4>3. at[r] + EffectiveLock \in Int /\ at[r] + EffectiveTTL \in Int /\ rec.id \in Nat
        BY <4>1 DEF ITypeOK, Record
      <4>4. rec' \in Record
        BY <4>1, <4>2, <4>3 DEF Record, RecordStatus
      <4>5. QED
        BY <2>4, <3>1, <4>3, <4>4 DEF TryReclaim, Goto, ITypeOK, RequestStep
    <3>2. CASE ~Reclaimable(r)
      BY <2>4, <3>2 DEF TryReclaim, Goto, Reply, ITypeOK, RequestStep, ClaimSteps, Answer
    <3>3. QED
      BY <3>1, <3>2
  <2>5. CASE ExecuteCommand(r)
    BY <2>5 DEF ExecuteCommand, Goto, ITypeOK, RequestStep, ClaimSteps, Outcome, Answer, Record,
       RecordStatus, NoRecord, NoBody, NoLock, Truncated, ResultExpiry
  <2>6. CASE MarkSucceeded(r)
    <3>1. rec' \in Record \cup {NoRecord}
      <4>1. CASE OwnsRow(r)
        <5>1. rec \in Record
          BY <4>1 DEF OwnsRow, ITypeOK
        <5>2. rec' = [rec EXCEPT !.status = "succeeded", !.lock = NoLock, !.exp = ResultExpiry(r),
                               !.body = IF result[r] = "ok" THEN r ELSE Truncated]
          BY <2>6, <4>1 DEF MarkSucceeded
        <5>3. NoLock \in Int /\ ResultExpiry(r) \in Int
          BY TimesAssumption DEF NoLock, ResultExpiry, ReturnedAt, ITypeOK
        <5>4. QED
          BY <5>1, <5>2, <5>3 DEF Record, RecordStatus, Truncated
      <4>2. CASE ~OwnsRow(r)
        BY <2>6, <4>2 DEF MarkSucceeded, ITypeOK
      <4>3. QED
        BY <4>1, <4>2
    <3>2. QED
      BY <2>6, <3>1 DEF MarkSucceeded, Reply, Goto, ITypeOK, RequestStep, Answer
  <2>7. CASE RefuseResponse(r)
    BY <2>7 DEF RefuseResponse, Reply, Goto, ITypeOK, RequestStep, ClaimSteps, Outcome, Answer,
       Record, RecordStatus, NoRecord, NoBody, NoLock, Truncated, ResultExpiry
  <2>8. CASE MarkFailedRetryable(r)
    <3>1. rec' \in Record \cup {NoRecord}
      <4>1. CASE OwnsRow(r)
        <5>1. rec \in Record
          BY <4>1 DEF OwnsRow, ITypeOK
        <5>2. rec' = [rec EXCEPT !.status = FailedStatus, !.lock = ReturnedAt(r) + RetryBackoff, !.exp = ResultExpiry(r)]
          BY <2>8, <4>1 DEF MarkFailedRetryable
        <5>3. ReturnedAt(r) + RetryBackoff \in Int /\ ResultExpiry(r) \in Int
          BY TimesAssumption DEF NoLock, ResultExpiry, ReturnedAt, ITypeOK
        <5>4. QED
          BY <5>1, <5>2, <5>3 DEF Record, RecordStatus, FailedStatus
      <4>2. CASE ~OwnsRow(r)
        BY <2>8, <4>2 DEF MarkFailedRetryable, ITypeOK
      <4>3. QED
        BY <4>1, <4>2
    <3>2. QED
      BY <2>8, <3>1 DEF MarkFailedRetryable, Reply, Goto, ITypeOK, RequestStep, Answer
  <2>9. CASE Abandon(r)
    BY <2>9 DEF Abandon, Reply, Goto, ITypeOK, RequestStep, ClaimSteps, Outcome, Answer, Record,
       RecordStatus, NoRecord, NoBody, NoLock, Truncated, ResultExpiry
  <2>10. QED
    BY <1>1, <2>1, <2>2, <2>3, <2>4, <2>5, <2>6, <2>7, <2>8, <2>9 DEF RequestNext
<1>2. CASE DeleteExpired
  BY <1>2 DEF DeleteExpired, ITypeOK, RequestStep, ClaimSteps, Outcome, Answer, Record,
     RecordStatus, NoRecord, NoBody, NoLock, Truncated, ResultExpiry
<1>3. CASE Tick
  BY <1>3 DEF Tick, ITypeOK, RequestStep, ClaimSteps, Outcome, Answer, Record, RecordStatus,
     NoRecord, NoBody, NoLock, Truncated, ResultExpiry
<1>4. CASE UNCHANGED ivars
  BY <1>4 DEF ivars, ITypeOK, RequestStep, ClaimSteps, Outcome, Answer, Record, RecordStatus,
     NoRecord, NoBody, NoLock, Truncated, ResultExpiry
<1>5. QED
  BY <1>1, <1>2, <1>3, <1>4 DEF INext

\* Type correctness of the coordinator (idempotency.go:196).
THEOREM ICorrectTypes == ISpec => []ITypeOK
<1>1. QED
  BY ITypeInit, ITypeStep, PTL DEF ISpec

-----------------------------------------------------------------------------
(* One owner of a timed command. *)

\* The first state satisfies the invariant.
LEMMA OwnerInit == IInit => OwnerInv
BY ITypeInit, TimesAssumption DEF IInit, OwnerInv, OwnerParts, ReadingsInv, ContextInv, RowInv,
   SingleOwner,
   Owner

\* Every step preserves the invariant.
LEMMA OwnerStep == OwnerInv /\ [INext]_ivars => OwnerParts'
<1> SUFFICES ASSUME OwnerInv, [INext]_ivars PROVE OwnerParts'
  OBVIOUS
<1> USE Durations, TimesAssumption
<1>1. ASSUME NEW r \in Requests, RequestNext(r) PROVE OwnerParts'
  <2>1. CASE Begin(r)
    BY <2>1 DEF Begin, Goto, OwnerInv, OwnerParts, ReadingsInv, ContextInv, RowInv, RowOf,
       SingleOwner, Owner,
       InTime, PersistInTime, ITypeOK, ResultExpiry, Record, RecordStatus, ClaimSteps
  <2>2. CASE CreateProcessing(r)
    BY <2>2 DEF CreateProcessing, Goto, NoRecord, Record, RecordStatus, OwnerInv, OwnerParts,
       ReadingsInv,
       ContextInv, RowInv, RowOf, SingleOwner, Owner, InTime, PersistInTime, ITypeOK,
       ResultExpiry, Record, RecordStatus, ClaimSteps
  <2>3. CASE GetByScopeAndKeyHash(r)
    BY <2>3 DEF GetByScopeAndKeyHash, ReadRow, FollowStatus, Goto, Reply, OwnerInv, OwnerParts,
       ReadingsInv,
       ContextInv, RowInv, RowOf, SingleOwner, Owner, InTime, PersistInTime, ITypeOK,
       ResultExpiry, Record, RecordStatus, ClaimSteps
  <2>4. CASE TryReclaim(r)
    <3>1. CASE Reclaimable(r)
      <4>1. rec \in Record
        BY <3>1 DEF Reclaimable, OwnerInv, ITypeOK
      <4>2. /\ rec'.id = rec.id
            /\ rec'.status = "processing"
            /\ rec'.lock = at[r] + EffectiveLock
            /\ rec'.exp = at[r] + EffectiveTTL
            /\ rec' # NoRecord
        BY <2>4, <3>1, <4>1 DEF TryReclaim, Record, NoRecord
      <4>3. Timed => \A s \in Requests : ~Owner(s)
        BY <3>1, <4>1 DEF Reclaimable, OwnerInv, OwnerParts, ReadingsInv, ContextInv, RowInv,
           RowOf, Owner,
                          PersistInTime, ITypeOK, Record
      <4>4. /\ pc' = [pc EXCEPT ![r] = "execute"]
            /\ own' = [own EXCEPT ![r] = rec.id]
            /\ UNCHANGED <<now, at, until>>
            /\ InTime(r)
            /\ pc[r] \in {"reclaim_expired", "reclaim_failed"}
        BY <2>4, <3>1 DEF TryReclaim, Goto
      <4>5. QED
        BY <4>2, <4>3, <4>4 DEF OwnerInv, OwnerParts, ReadingsInv, ContextInv, RowInv, RowOf,
           SingleOwner,
                                Owner, InTime, PersistInTime, ITypeOK
    <3>2. CASE ~Reclaimable(r)
      BY <2>4, <3>2 DEF TryReclaim, Goto, Reply, OwnerInv, OwnerParts, ReadingsInv, ContextInv,
         RowInv, RowOf,
                        SingleOwner, Owner, PersistInTime, ITypeOK
    <3>3. QED
      BY <3>1, <3>2
  <2>5. CASE ExecuteCommand(r)
    BY <2>5 DEF ExecuteCommand, Goto, OwnerInv, OwnerParts, ReadingsInv, ContextInv, RowInv, RowOf,
       SingleOwner, Owner, InTime, PersistInTime, ITypeOK, ResultExpiry, Record, RecordStatus,
       ClaimSteps
  <2>6. CASE MarkSucceeded(r)
    BY <2>6 DEF MarkSucceeded, OwnsRow, Reply, Goto, OwnerInv, OwnerParts, ReadingsInv,
       ContextInv, RowInv,
       RowOf, SingleOwner, Owner, InTime, PersistInTime, ITypeOK, ResultExpiry, Record,
       RecordStatus, ClaimSteps
  <2>7. CASE RefuseResponse(r)
    BY <2>7 DEF RefuseResponse, Reply, Goto, OwnerInv, OwnerParts, ReadingsInv, ContextInv,
       RowInv, RowOf,
       SingleOwner, Owner, InTime, PersistInTime, ITypeOK, ResultExpiry, Record, RecordStatus,
       ClaimSteps
  <2>8. CASE MarkFailedRetryable(r)
    BY <2>8 DEF MarkFailedRetryable, FailedStatus, OwnsRow, Reply, Goto, OwnerInv, OwnerParts,
       ReadingsInv,
       ContextInv,
       RowInv, RowOf, SingleOwner, Owner, InTime, PersistInTime, ITypeOK, ResultExpiry, Record,
       RecordStatus, ClaimSteps
  <2>9. CASE Abandon(r)
    BY <2>9 DEF Abandon, Reply, Goto, OwnerInv, OwnerParts, ReadingsInv, ContextInv, RowInv, RowOf,
       SingleOwner, Owner, InTime, PersistInTime, ITypeOK, ResultExpiry, Record, RecordStatus,
       ClaimSteps
  <2>10. QED
    BY <1>1, <2>1, <2>2, <2>3, <2>4, <2>5, <2>6, <2>7, <2>8, <2>9 DEF RequestNext
<1>2. CASE DeleteExpired
  BY <1>2 DEF DeleteExpired, OwnerInv, OwnerParts, ReadingsInv, ContextInv, RowInv, RowOf,
     SingleOwner, Owner,
     InTime, PersistInTime, ITypeOK, ResultExpiry, Record, RecordStatus, ClaimSteps
<1>3. CASE Tick
  BY <1>3 DEF Tick, OwnerInv, OwnerParts, ReadingsInv, ContextInv, RowInv, RowOf, SingleOwner,
     Owner, InTime,
     PersistInTime, ITypeOK, ResultExpiry, Record, RecordStatus, ClaimSteps
<1>4. CASE UNCHANGED ivars
  BY <1>4 DEF ivars, OwnerInv, OwnerParts, ReadingsInv, ContextInv, RowInv, RowOf, SingleOwner,
     Owner, InTime,
     PersistInTime, ITypeOK, ResultExpiry, Record, RecordStatus, ClaimSteps
<1>5. QED
  BY <1>1, <1>2, <1>3, <1>4 DEF INext

\* While a timed command runs, or its result can still be written, no other
\* request executes it: Execute's extended lock and retention
\* (idempotency.go:239-248) keep the row for its owner.
THEOREM OneOwnerAtATime == ISpec => []SingleOwner
<1>1. OwnerInv /\ [INext]_ivars => OwnerInv'
  BY ITypeStep, OwnerStep DEF OwnerInv
<1>2. OwnerInv => SingleOwner
  BY DEF OwnerInv, OwnerParts
<1>3. QED
  BY OwnerInit, <1>1, <1>2, PTL DEF ISpec

\* A failed command waits for its backoff: TryReclaim compares the lock with a
\* clock reading of the past (repository.go:118-120).
THEOREM BackoffIsKept == ISpec => BackoffHolds
<1> DEFINE Kept ==
      (/\ rec # NoRecord
       /\ rec.status = "failed_retryable"
       /\ rec' = NoRecord \/ rec'.status = "processing") => rec.lock <= now \/ rec.exp <= now
<1>1. OwnerInv /\ [INext]_ivars => OwnerInv'
  BY ITypeStep, OwnerStep DEF OwnerInv
<1>2. OwnerInv /\ [INext]_ivars => [Kept]_ivars
  <2> SUFFICES ASSUME OwnerInv, INext, rec # NoRecord, rec.status = "failed_retryable",
                      rec' = NoRecord \/ rec'.status = "processing"
               PROVE  rec.lock <= now \/ rec.exp <= now
    OBVIOUS
  <2>1. rec \in Record
    BY DEF OwnerInv, ITypeOK
  <2>2. rec' # rec
    BY <2>1 DEF Record, NoRecord
  <2>3. CASE DeleteExpired
    BY <2>3 DEF DeleteExpired
  <2>4. ASSUME NEW r \in Requests, TryReclaim(r) PROVE rec.lock <= now
    BY <2>1, <2>2, <2>4 DEF TryReclaim, Reclaimable, OwnerInv, OwnerParts, ReadingsInv, ITypeOK,
       Record
  <2>5. ASSUME NEW r \in Requests, MarkSucceeded(r) \/ MarkFailedRetryable(r) PROVE FALSE
    BY <2>1, <2>2, <2>5 DEF MarkSucceeded, MarkFailedRetryable, FailedStatus, Record, NoRecord
  <2>6. QED
    BY <2>2, <2>3, <2>4, <2>5 DEF INext, RequestNext, Begin, CreateProcessing,
         GetByScopeAndKeyHash, ExecuteCommand, RefuseResponse, Abandon, Tick
<1>3. QED
  BY OwnerInit, <1>1, <1>2, PTL DEF ISpec, BackoffHolds

-----------------------------------------------------------------------------
(* Stored results of timed commands. *)

\* The first state satisfies the invariants.
LEMMA ClaimInit == IInit => ClaimInv /\ ReturnInv
BY DEF IInit, ClaimInv, ClaimOK, ReturnInv

\* Every step preserves that an expired row was read before the return.
LEMMA ReturnStep == OwnerInv /\ ReturnInv /\ [INext]_ivars => ReturnInv'
<1> SUFFICES ASSUME OwnerInv, ReturnInv, [INext]_ivars, Timed, NEW u \in Requests, NEW s \in Requests,
                    pc'[u] = "reclaim_expired", pc'[s] = "persist", PersistInTime(s)'
             PROVE  (at[u] <= ReturnedAt(s))'
  BY DEF ReturnInv, Timed
<1> USE TimesAssumption DEF ReturnedAt, PersistInTime
<1>0. ITypeOK /\ ReadingsInv /\ ContextInv /\ RowInv
  BY DEF OwnerInv, OwnerParts
<1>1. ASSUME NEW r \in Requests, RequestNext(r) PROVE at'[u] <= until'[s] - Grace
  <2>1. CASE ExecuteCommand(r)
    BY <1>0, <2>1 DEF ExecuteCommand, Goto, ReturnInv, ReadingsInv, ITypeOK
  <2>2. CASE GetByScopeAndKeyHash(r) /\ r = u
    <3>1. /\ pc[u] # "reclaim_expired" /\ pc[s] = "persist" /\ now < until[s] /\ s # u
          /\ rec # NoRecord /\ rec.exp <= at[u]
      BY <1>0, <2>2 DEF GetByScopeAndKeyHash, ReadRow, FollowStatus, Reply, Goto, ITypeOK
    <3>2. RowOf(s)
      BY <1>0, <3>1 DEF RowInv, Owner
    <3>3. rec \in Record
      BY <1>0, <3>1 DEF ITypeOK
    <3>4. at[u] <= now /\ until[s] <= at[s] + ExecutionTimeout + Grace
      BY <1>0, <3>1 DEF ReadingsInv, ContextInv
    <3>5. QED
      BY <1>0, <3>1, <3>2, <3>3, <3>4 DEF RowOf, Record, ITypeOK
  <2>3. CASE GetByScopeAndKeyHash(r) /\ r # u
    BY <1>0, <2>3 DEF GetByScopeAndKeyHash, ReadRow, FollowStatus, Reply, Goto, ReturnInv, ITypeOK
  <2>4. CASE Begin(r) \/ CreateProcessing(r) \/ TryReclaim(r)
    BY <1>0, <2>4 DEF Begin, CreateProcessing, TryReclaim, Reply, Goto, ReturnInv, ITypeOK
  <2>5. CASE MarkSucceeded(r) \/ RefuseResponse(r) \/ MarkFailedRetryable(r) \/ Abandon(r)
    BY <1>0, <2>5 DEF MarkSucceeded, RefuseResponse, MarkFailedRetryable, Abandon, Reply, Goto, ReturnInv,
                      ITypeOK
  <2>6. QED
    BY <1>1, <2>1, <2>2, <2>3, <2>4, <2>5 DEF RequestNext
<1>2. CASE DeleteExpired \/ UNCHANGED ivars
  BY <1>2 DEF DeleteExpired, ivars, ReturnInv
<1>3. CASE Tick
  BY <1>0, <1>3 DEF Tick, ReturnInv, ITypeOK
<1>4. QED
  BY <1>1, <1>2, <1>3 DEF INext

\* Every step preserves what is known of the requests about to claim.
LEMMA ClaimStep == OwnerInv /\ ClaimInv /\ ReturnInv /\ [INext]_ivars => ClaimInv'
<1> SUFFICES ASSUME OwnerInv, ClaimInv, ReturnInv, [INext]_ivars PROVE ClaimInv'
  OBVIOUS
<1> USE Durations, TimesAssumption
<1>1. ASSUME NEW r \in Requests, RequestNext(r) PROVE ClaimInv'
  <2>1. CASE Begin(r)
    BY <2>1 DEF Begin, Goto, ClaimInv, ClaimOK, StoredAt, ClaimSteps, NoRecord, Record, OwnerInv,
       OwnerParts, ReadingsInv, ITypeOK
  <2>2. CASE CreateProcessing(r)
    BY <2>2 DEF CreateProcessing, Goto, ClaimInv, ClaimOK, StoredAt, ClaimSteps, NoRecord, Record,
       OwnerInv, OwnerParts, ReadingsInv, ITypeOK
  <2>3. CASE GetByScopeAndKeyHash(r)
    BY <2>3 DEF GetByScopeAndKeyHash, ReadRow, FollowStatus, Goto, Reply, ClaimInv, ClaimOK,
       StoredAt, ClaimSteps, NoRecord, Record, OwnerInv, OwnerParts, ReadingsInv, ITypeOK
  <2>4. CASE TryReclaim(r)
    <3>1. CASE Reclaimable(r)
      <4>1. rec \in Record
        BY <3>1 DEF Reclaimable, OwnerInv, ITypeOK
      <4>2. rec'.status = "processing"
        BY <2>4, <3>1, <4>1 DEF TryReclaim, Record
      <4>3. QED
        BY <2>4, <3>1, <4>2 DEF TryReclaim, Goto, ClaimInv, ClaimOK, ClaimSteps, OwnerInv, ITypeOK
    <3>2. CASE ~Reclaimable(r)
      BY <2>4, <3>2 DEF TryReclaim, Goto, Reply, ClaimInv, ClaimOK, ClaimSteps, StoredAt,
                        OwnerInv, ITypeOK
    <3>3. QED
      BY <3>1, <3>2
  <2>5. CASE ExecuteCommand(r)
    BY <2>5 DEF ExecuteCommand, Goto, ClaimInv, ClaimOK, StoredAt, ClaimSteps, NoRecord, Record,
       OwnerInv, OwnerParts, ReadingsInv, ITypeOK
  <2>6. CASE MarkSucceeded(r)
    BY <2>6 DEF MarkSucceeded, ResultExpiry, Reply, Goto, ClaimInv, ClaimOK, StoredAt, ClaimSteps,
       NoRecord, Record, OwnerInv, OwnerParts, ReturnInv, ReturnedAt, ITypeOK
  <2>7. CASE RefuseResponse(r)
    BY <2>7 DEF RefuseResponse, Reply, Goto, ClaimInv, ClaimOK, StoredAt, ClaimSteps, NoRecord,
       Record, OwnerInv, OwnerParts, ReadingsInv, ITypeOK
  <2>8. CASE MarkFailedRetryable(r)
    BY <2>8 DEF MarkFailedRetryable, FailedStatus, Reply, Goto, ClaimInv, ClaimOK, StoredAt,
       ClaimSteps,
       NoRecord, Record, OwnerInv, OwnerParts, ReadingsInv, ITypeOK
  <2>9. CASE Abandon(r)
    BY <2>9 DEF Abandon, Reply, Goto, ClaimInv, ClaimOK, StoredAt, ClaimSteps, NoRecord, Record,
       OwnerInv, OwnerParts, ReadingsInv, ITypeOK
  <2>10. QED
    BY <1>1, <2>1, <2>2, <2>3, <2>4, <2>5, <2>6, <2>7, <2>8, <2>9 DEF RequestNext
<1>2. CASE DeleteExpired
  BY <1>2 DEF DeleteExpired, ClaimInv, ClaimOK, ClaimSteps, NoRecord
<1>3. CASE Tick
  BY <1>3 DEF Tick, ClaimInv, ClaimOK, ClaimSteps, StoredAt
<1>4. CASE UNCHANGED ivars
  BY <1>4 DEF ivars, ClaimInv, ClaimOK, ClaimSteps, StoredAt
<1>5. QED
  BY <1>1, <1>2, <1>3, <1>4 DEF INext

\* A request that begins after a timed command returned its stored result gets
\* that result: only a request that found the row expired earlier takes it
\* from its stored success (idempotency.go:279-290).
THEOREM LaterRequestsReplay == ISpec => LaterRequestReplays
<1> DEFINE Kept ==
      (/\ Timed
       /\ rec # NoRecord
       /\ rec.status = "succeeded"
       /\ rec.exp > now
       /\ rec' # rec) => \E r \in Requests : own'[r] # own[r] /\ at[r] <= StoredAt
<1> DEFINE Inv == OwnerInv /\ ClaimInv /\ ReturnInv
<1>1. Inv /\ [INext]_ivars => Inv'
  BY ITypeStep, OwnerStep, ClaimStep, ReturnStep DEF OwnerInv
<1>2. Inv /\ [INext]_ivars => [Kept]_ivars
  <2> SUFFICES ASSUME Inv, INext, Timed, rec # NoRecord, rec.status = "succeeded",
                      rec.exp > now, rec' # rec
               PROVE  \E r \in Requests : own'[r] # own[r] /\ at[r] <= StoredAt
    OBVIOUS
  <2>1. rec \in Record
    BY DEF OwnerInv, ITypeOK
  <2>2. ~DeleteExpired
    BY <2>1 DEF DeleteExpired, OwnerInv, ITypeOK, Record
  <2>3. ASSUME NEW r \in Requests, TryReclaim(r) PROVE own'[r] # own[r] /\ at[r] <= StoredAt
    <3>1. pc[r] = "reclaim_expired" /\ Reclaimable(r)
      BY <2>3 DEF TryReclaim, Reclaimable, ClaimInv, ClaimOK
    <3>2. own[r] = 0 /\ own'[r] = rec.id /\ rec.id # 0
      BY <2>1, <2>3, <3>1 DEF TryReclaim, ClaimInv, ClaimOK, ClaimSteps, Record, OwnerInv, ITypeOK
    <3>3. rec.exp > at[r]
      BY <2>1 DEF OwnerInv, OwnerParts, ReadingsInv, ITypeOK, Record
    <3>4. QED
      BY <3>1, <3>2, <3>3 DEF ClaimInv, ClaimOK
  <2>4. ASSUME NEW r \in Requests, MarkSucceeded(r) \/ MarkFailedRetryable(r) PROVE FALSE
    <3>1. Owner(r)
      BY <2>4 DEF MarkSucceeded, MarkFailedRetryable, Owner
    <3>2. QED
      BY <3>1 DEF OwnerInv, OwnerParts, RowInv, RowOf
  <2>5. QED
    BY <2>2, <2>3, <2>4 DEF INext, RequestNext, Begin, CreateProcessing,
         GetByScopeAndKeyHash, ExecuteCommand, RefuseResponse, Abandon, Tick
<1>3. IInit => Inv
  BY OwnerInit, ClaimInit
<1>4. QED
  BY <1>1, <1>2, <1>3, PTL DEF ISpec, LaterRequestReplays

-----------------------------------------------------------------------------
(* Replayed responses. *)

\* The first state satisfies the invariant.
LEMMA PayloadInit == IInit => PayloadInv
BY ITypeInit DEF IInit, PayloadInv, PayloadParts, NumberInv, BodyInv, AnswerInv,
   ReplayMatchesPayload, NoRecord

\* Every step preserves the invariant.
LEMMA PayloadStep == PayloadInv /\ [INext]_ivars => PayloadParts'
<1> SUFFICES ASSUME PayloadInv, [INext]_ivars PROVE PayloadParts'
  OBVIOUS
<1> USE Durations, PayloadAssumption, RequestAssumption
<1>1. ASSUME NEW r \in Requests, RequestNext(r) PROVE PayloadParts'
  <2>1. CASE Begin(r)
    BY <2>1 DEF Begin, Goto, PayloadInv, PayloadParts, NumberInv, BodyInv, AnswerInv,
       ReplayMatchesPayload,
       ITypeOK, Record, RecordStatus, NoBody, Truncated, NoRecord, Outcome, ClaimSteps
  <2>2. CASE CreateProcessing(r)
    BY <2>2 DEF CreateProcessing, Goto, NoRecord, Record, RecordStatus, PayloadInv, PayloadParts,
       NumberInv,
       BodyInv, AnswerInv, ReplayMatchesPayload, ITypeOK, Record, RecordStatus, NoBody, Truncated,
       NoRecord, Outcome, ClaimSteps
  <2>3. CASE GetByScopeAndKeyHash(r)
    BY <2>3 DEF GetByScopeAndKeyHash, ReadRow, FollowStatus, Goto, Reply, PayloadInv,
       PayloadParts, NumberInv,
       BodyInv, AnswerInv, ReplayMatchesPayload, ITypeOK, Record, RecordStatus, NoBody, Truncated,
       NoRecord, Outcome, ClaimSteps
  <2>4. CASE TryReclaim(r)
    <3>1. CASE Reclaimable(r)
      <4>1. rec \in Record
        BY <3>1 DEF Reclaimable, PayloadInv, ITypeOK
      <4>2. /\ rec'.id = rec.id
            /\ rec'.fp = rec.fp
            /\ rec'.body = rec.body
            /\ rec'.status = "processing"
        BY <2>4, <3>1, <4>1 DEF TryReclaim, Record
      <4>3. /\ pc' = [pc EXCEPT ![r] = "execute"]
            /\ own' = [own EXCEPT ![r] = rec.id]
            /\ UNCHANGED <<nextId, seen, result>>
            /\ pc[r] \in {"reclaim_expired", "reclaim_failed"}
        BY <2>4, <3>1 DEF TryReclaim, Goto
      <4>4. rec # NoRecord /\ rec.id < nextId /\ rec.fp = PayloadOf[r]
        BY <3>1, <4>3 DEF Reclaimable, PayloadInv, PayloadParts, NumberInv
      <4>5. QED
        BY <4>1, <4>2, <4>3, <4>4 DEF PayloadInv, PayloadParts, NumberInv, BodyInv, AnswerInv,
                                      ReplayMatchesPayload, ITypeOK
    <3>2. CASE ~Reclaimable(r)
      BY <2>4, <3>2 DEF TryReclaim, Goto, Reply, PayloadInv, PayloadParts, NumberInv, BodyInv,
         AnswerInv,
                        ReplayMatchesPayload, ITypeOK
    <3>3. QED
      BY <3>1, <3>2
  <2>5. CASE ExecuteCommand(r)
    BY <2>5 DEF ExecuteCommand, Goto, PayloadInv, PayloadParts, NumberInv, BodyInv, AnswerInv,
       ReplayMatchesPayload, ITypeOK, Record, RecordStatus, NoBody, Truncated, NoRecord, Outcome,
       ClaimSteps
  <2>6. CASE MarkSucceeded(r)
    BY <2>6 DEF MarkSucceeded, OwnsRow, Reply, Goto, PayloadInv, PayloadParts, NumberInv, BodyInv,
       AnswerInv,
       ReplayMatchesPayload, ITypeOK, Record, RecordStatus, NoBody, Truncated, NoRecord, Outcome,
       ClaimSteps
  <2>7. CASE RefuseResponse(r)
    BY <2>7 DEF RefuseResponse, Reply, Goto, PayloadInv, PayloadParts, NumberInv, BodyInv,
       AnswerInv,
       ReplayMatchesPayload, ITypeOK, Record, RecordStatus, NoBody, Truncated, NoRecord, Outcome,
       ClaimSteps
  <2>8. CASE MarkFailedRetryable(r)
    BY <2>8 DEF MarkFailedRetryable, FailedStatus, OwnsRow, Reply, Goto, PayloadInv, PayloadParts,
       NumberInv,
       BodyInv,
       AnswerInv, ReplayMatchesPayload, ITypeOK, Record, RecordStatus, NoBody, Truncated,
       NoRecord, Outcome, ClaimSteps
  <2>9. CASE Abandon(r)
    BY <2>9 DEF Abandon, Reply, Goto, PayloadInv, PayloadParts, NumberInv, BodyInv, AnswerInv,
       ReplayMatchesPayload, ITypeOK, Record, RecordStatus, NoBody, Truncated, NoRecord, Outcome,
       ClaimSteps
  <2>10. QED
    BY <1>1, <2>1, <2>2, <2>3, <2>4, <2>5, <2>6, <2>7, <2>8, <2>9 DEF RequestNext
<1>2. CASE DeleteExpired
  BY <1>2 DEF DeleteExpired, PayloadInv, PayloadParts, NumberInv, BodyInv, AnswerInv,
     ReplayMatchesPayload,
     ITypeOK, Record, RecordStatus, NoBody, Truncated, NoRecord, Outcome, ClaimSteps
<1>3. CASE Tick
  BY <1>3 DEF Tick, PayloadInv, PayloadParts, NumberInv, BodyInv, AnswerInv, ReplayMatchesPayload,
     ITypeOK,
     Record, RecordStatus, NoBody, Truncated, NoRecord, Outcome, ClaimSteps
<1>4. CASE UNCHANGED ivars
  BY <1>4 DEF ivars, PayloadInv, PayloadParts, NumberInv, BodyInv, AnswerInv,
     ReplayMatchesPayload, ITypeOK,
     Record, RecordStatus, NoBody, Truncated, NoRecord, Outcome, ClaimSteps
<1>5. QED
  BY <1>1, <1>2, <1>3, <1>4 DEF INext

\* A response is only replayed to a request with the payload of the command
\* that returned it: rows are written by their id (repository.go:175-215) and
\* an id is never used for another payload.
THEOREM ReplaysMatch == ISpec => []ReplayMatchesPayload
<1>1. PayloadInv /\ [INext]_ivars => PayloadInv'
  BY ITypeStep, PayloadStep DEF PayloadInv
<1>2. PayloadInv => ReplayMatchesPayload
  BY DEF PayloadInv, PayloadParts
<1>3. QED
  BY PayloadInit, <1>1, <1>2, PTL DEF ISpec
=============================================================================
