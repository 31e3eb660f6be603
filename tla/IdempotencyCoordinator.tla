----------------------- MODULE IdempotencyCoordinator -----------------------
(***************************************************************************)
(* idempotency.IdempotencyCoordinator.Execute and the record it keeps in   *)
(* idempotency_records: the commands sent under one scope and one          *)
(* Idempotency-Key.  Every action of a request is one statement on the     *)
(* record or the execution of the command; between two of them other       *)
(* requests, the cleanup service and the clock may take steps.             *)
(*                                                                         *)
(* A request reads the clock once, before its first statement, and         *)
(* compares the record with that reading from then on.  Time is counted in *)
(* units of the instance; a request with an execution timeout has a        *)
(* context that ends ExecutionTimeout after that reading, the write of its *)
(* result one that ends Grace after the command returned.                  *)
(***************************************************************************)
EXTENDS Integers

CONSTANTS
    Requests,           \* requests that carry the key
    Payloads,           \* fingerprints of their payloads
    PayloadOf,          \* the fingerprint of each request
    TTL,                \* retention of a record
    ProcessingTimeout,  \* lock of a record that is processed
    RetryBackoff,       \* lock of a record whose command failed
    ExecutionTimeout,   \* time limit of a command, or 0 for no limit
    Grace,              \* time limit of writing the result of such a command
    StrictLimit,        \* requests whose caller limits the stored response
    MaxTime             \* bound on the clock

ASSUME PayloadAssumption == PayloadOf \in [Requests -> Payloads]
ASSUME TimesAssumption ==
    /\ TTL \in Nat \ {0}
    /\ ProcessingTimeout \in Nat \ {0}
    /\ RetryBackoff \in Nat \ {0}
    /\ Grace \in Nat \ {0}
    /\ ExecutionTimeout \in Nat
    /\ MaxTime \in Nat
ASSUME LimitAssumption == StrictLimit \subseteq Requests
ASSUME RequestAssumption == {"none", "truncated"} \cap Requests = {}

VARIABLES
    now,    \* the clock
    rec,    \* the row of the key, or NoRecord
    nextId, \* the id of the next row
    pc,     \* next step of each request
    at,     \* clock as each request has read it
    seen,   \* the row as each request has read it last
    own,    \* the row each request has claimed
    until,  \* end of the context in which a result is written
    result  \* what the command of each request returned, or its answer

ivars == <<now, rec, nextId, pc, at, seen, own, until, result>>

NoLock == -1
NoBody == "none"
Truncated == "truncated"
NoRecord == [id |-> 0]
RecordStatus == {"processing", "succeeded", "failed_retryable"}
(* A body is the request whose command returned it. *)
Record == [id : Nat \ {0}, fp : Payloads, status : RecordStatus,
           body : Requests \cup {NoBody, Truncated}, lock : Int, exp : Int]

ClaimSteps == {"create", "get", "reclaim_expired", "get_again", "reclaim_failed"}
RequestStep == ClaimSteps \cup {"new", "execute", "persist", "done"}
Outcome == {"ok", "oversize", "error"}
Answer == {"replayed", "executed", "failed", "unavailable", "conflict", "in_progress", "backoff"}

ITypeOK ==
    /\ now \in Nat
    /\ rec \in Record \cup {NoRecord}
    /\ nextId \in Nat \ {0}
    /\ pc \in [Requests -> RequestStep]
    /\ at \in [Requests -> Nat]
    /\ seen \in [Requests -> Record \cup {NoRecord}]
    /\ own \in [Requests -> Nat]
    /\ until \in [Requests -> Nat]
    /\ result \in [Requests -> Outcome \cup Answer \cup {"none"}]

IInit ==
    /\ now = 0
    /\ rec = NoRecord
    /\ nextId = 1
    /\ pc = [r \in Requests |-> "new"]
    /\ at = [r \in Requests |-> 0]
    /\ seen = [r \in Requests |-> NoRecord]
    /\ own = [r \in Requests |-> 0]
    /\ until = [r \in Requests |-> 0]
    /\ result = [r \in Requests |-> "none"]

-----------------------------------------------------------------------------
Timed == ExecutionTimeout > 0

AtLeast(a, b) == IF a < b THEN b ELSE a

(* Mutant of EffectiveTTL: the retention ignores the execution timeout. *)
EffectiveTTL_Plain == TTL

EffectiveTTL == IF Timed THEN AtLeast(TTL, ExecutionTimeout + Grace) ELSE TTL

EffectiveLock ==
    IF Timed THEN AtLeast(ProcessingTimeout, ExecutionTimeout + Grace) ELSE ProcessingTimeout

(* The context of r allows another statement. *)
InTime(r) == Timed => now < at[r] + ExecutionTimeout

Goto(r, step) == pc' = [pc EXCEPT ![r] = step]

Reply(r, answer) ==
    /\ Goto(r, "done")
    /\ result' = [result EXCEPT ![r] = answer]

(* Execute normalises the key, computes the fingerprint and reads the clock. *)
Begin(r) ==
    /\ pc[r] = "new"
    /\ Goto(r, "create")
    /\ at' = [at EXCEPT ![r] = now]
    /\ UNCHANGED <<now, rec, nextId, seen, own, until, result>>

(* INSERT ... ON CONFLICT DO NOTHING: the request owns a row it has created. *)
CreateProcessing(r) ==
    /\ pc[r] = "create"
    /\ InTime(r)
    /\ \/ /\ rec = NoRecord
          /\ rec' = [id |-> nextId, fp |-> PayloadOf[r], status |-> "processing", body |-> NoBody,
                     lock |-> at[r] + EffectiveLock, exp |-> at[r] + EffectiveTTL]
          /\ nextId' = nextId + 1
          /\ own' = [own EXCEPT ![r] = nextId]
          /\ Goto(r, "execute")
       \/ /\ rec # NoRecord
          /\ Goto(r, "get")
          /\ UNCHANGED <<rec, nextId, own>>
    /\ UNCHANGED <<now, at, seen, until, result>>

(* Mutant of FollowStatus: a response that cannot be decoded is claimed. *)
FollowStatus_Undecodable(r, e) ==
    \/ /\ e.status = "succeeded"
       /\ e.body # Truncated
       /\ Reply(r, "replayed")
    \/ /\ e.status = "succeeded"
       /\ e.body = Truncated
       /\ Goto(r, "reclaim_failed")
       /\ UNCHANGED result
    \/ /\ e.status = "processing"
       /\ Reply(r, "in_progress")
    \/ /\ e.status = "failed_retryable"
       /\ Reply(r, "backoff")

(* The answer to a request that finds row e of its own payload. *)
FollowStatus(r, e) ==
    \/ /\ e.status = "succeeded"
       /\ Reply(r, IF e.body = Truncated THEN "unavailable" ELSE "replayed")
    \/ /\ e.status = "processing"
       /\ Reply(r, "in_progress")
    \/ /\ e.status = "failed_retryable"
       /\ e.lock > at[r]
       /\ Reply(r, "backoff")
    \/ /\ e.status = "failed_retryable"
       /\ e.lock <= at[r]
       /\ Goto(r, "reclaim_failed")
       /\ UNCHANGED result

(* Mutant of ReadRow: the fingerprint of an expired row is not compared. *)
ReadRow_ReclaimsAny(r) ==
    /\ seen' = [seen EXCEPT ![r] = rec]
    /\ \/ rec = NoRecord /\ Reply(r, "unavailable")
       \/ /\ rec # NoRecord
          /\ pc[r] = "get" /\ rec.exp <= at[r]
          /\ Goto(r, "reclaim_expired")
          /\ UNCHANGED result
       \/ /\ rec # NoRecord
          /\ rec.fp # PayloadOf[r]
          /\ pc[r] = "get" => rec.exp > at[r]
          /\ Reply(r, "conflict")
       \/ /\ rec # NoRecord
          /\ rec.fp = PayloadOf[r]
          /\ pc[r] = "get" => rec.exp > at[r]
          /\ FollowStatus(r, rec)

(* The row is read and answered; an expired one is claimed first, and read *)
(* again when another request was faster.                                  *)
ReadRow(r) ==
    /\ seen' = [seen EXCEPT ![r] = rec]
    /\ \/ rec = NoRecord /\ Reply(r, "unavailable")
       \/ /\ rec # NoRecord
          /\ rec.fp # PayloadOf[r]
          /\ Reply(r, "conflict")
       \/ /\ rec # NoRecord
          /\ rec.fp = PayloadOf[r]
          /\ pc[r] = "get" /\ rec.exp <= at[r]
          /\ Goto(r, "reclaim_expired")
          /\ UNCHANGED result
       \/ /\ rec # NoRecord
          /\ rec.fp = PayloadOf[r]
          /\ pc[r] = "get" => rec.exp > at[r]
          /\ FollowStatus(r, rec)

GetByScopeAndKeyHash(r) ==
    /\ pc[r] \in {"get", "get_again"}
    /\ InTime(r)
    /\ ReadRow(r)
    /\ UNCHANGED <<now, rec, nextId, at, own, until>>

(* Mutant of Reclaimable: the lock of a failed command is not compared. *)
Reclaimable_IgnoresBackoff(r) ==
    /\ rec # NoRecord
    /\ rec.id = seen[r].id
    /\ rec.status = seen[r].status
    /\ rec.status # "failed_retryable" => rec.lock <= at[r]

(* The condition of TryReclaim's UPDATE. *)
Reclaimable(r) ==
    /\ rec # NoRecord
    /\ rec.id = seen[r].id
    /\ rec.status = seen[r].status
    /\ rec.lock <= at[r]

TryReclaim(r) ==
    /\ pc[r] \in {"reclaim_expired", "reclaim_failed"}
    /\ InTime(r)
    /\ \/ /\ Reclaimable(r)
          /\ rec' = [rec EXCEPT !.status = "processing", !.lock = at[r] + EffectiveLock,
                                !.exp = at[r] + EffectiveTTL]
          /\ own' = [own EXCEPT ![r] = rec.id]
          /\ Goto(r, "execute")
          /\ UNCHANGED result
       \/ /\ ~Reclaimable(r)
          /\ pc[r] = "reclaim_expired"
          /\ Goto(r, "get_again")
          /\ UNCHANGED <<rec, own, result>>
       \/ /\ ~Reclaimable(r)
          /\ pc[r] = "reclaim_failed"
          /\ Reply(r, "in_progress")
          /\ UNCHANGED <<rec, own>>
    /\ UNCHANGED <<now, nextId, at, seen, until>>

(* The command returns; one with a time limit may return what it has done  *)
(* when the limit is reached.                                              *)
ExecuteCommand(r) ==
    /\ pc[r] = "execute"
    /\ \E outcome \in Outcome : result' = [result EXCEPT ![r] = outcome]
    /\ Goto(r, "persist")
    /\ until' = [until EXCEPT ![r] = now + Grace]
    /\ UNCHANGED <<now, rec, nextId, at, seen, own>>

(* The clock when the command returned, which the times written with its   *)
(* result are computed from.                                               *)
ReturnedAt(r) == until[r] - Grace

(* expires_at written with the result. *)
ResultExpiry(r) == (IF Timed THEN ReturnedAt(r) ELSE at[r]) + EffectiveTTL

(* UPDATE ... WHERE id: no row is changed once the row has been deleted. *)
OwnsRow(r) == rec # NoRecord /\ rec.id = own[r]

PersistInTime(r) == Timed => now < until[r]

(* MarkSucceeded; a response over the configured limit is cut. *)
MarkSucceeded(r) ==
    /\ pc[r] = "persist"
    /\ PersistInTime(r)
    /\ result[r] = "ok" \/ (result[r] = "oversize" /\ r \notin StrictLimit)
    /\ rec' = IF OwnsRow(r)
              THEN [rec EXCEPT !.status = "succeeded", !.lock = NoLock, !.exp = ResultExpiry(r),
                               !.body = IF result[r] = "ok" THEN r ELSE Truncated]
              ELSE rec
    /\ Reply(r, "executed")
    /\ UNCHANGED <<now, nextId, at, seen, own, until>>

(* Mutant of FailedStatus: a status the coordinator does not know. *)
FailedStatus_Short == "failed"

FailedStatus == "failed_retryable"

(* A response over the caller's limit is refused and nothing is written. *)
RefuseResponse(r) ==
    /\ pc[r] = "persist"
    /\ result[r] = "oversize" /\ r \in StrictLimit
    /\ Reply(r, "unavailable")
    /\ UNCHANGED <<now, rec, nextId, at, seen, own, until>>

MarkFailedRetryable(r) ==
    /\ pc[r] = "persist"
    /\ PersistInTime(r)
    /\ result[r] = "error"
    /\ rec' = IF OwnsRow(r)
              THEN [rec EXCEPT !.status = FailedStatus, !.lock = ReturnedAt(r) + RetryBackoff,
                               !.exp = ResultExpiry(r)]
              ELSE rec
    /\ Reply(r, "failed")
    /\ UNCHANGED <<now, nextId, at, seen, own, until>>

(* A statement fails, the client disconnects, a context ends or the process *)
(* dies: the request takes no further step and leaves the row as it is.     *)
Abandon(r) ==
    /\ pc[r] \in ClaimSteps \cup {"execute", "persist"}
    /\ Reply(r, "unavailable")
    /\ UNCHANGED <<now, rec, nextId, at, seen, own, until>>

(* IdempotencyCleanupService.cleanupOnce. *)
DeleteExpired ==
    /\ rec # NoRecord
    /\ rec.exp <= now
    /\ rec' = NoRecord
    /\ UNCHANGED <<now, nextId, pc, at, seen, own, until, result>>

(* A command that has a time limit does not run past it. *)
Tick ==
    /\ now < MaxTime
    /\ Timed => \A r \in Requests : pc[r] = "execute" => now < at[r] + ExecutionTimeout
    /\ now' = now + 1
    /\ UNCHANGED <<rec, nextId, pc, at, seen, own, until, result>>

RequestNext(r) ==
    \/ Begin(r)
    \/ CreateProcessing(r)
    \/ GetByScopeAndKeyHash(r)
    \/ TryReclaim(r)
    \/ ExecuteCommand(r)
    \/ MarkSucceeded(r)
    \/ RefuseResponse(r)
    \/ MarkFailedRetryable(r)
    \/ Abandon(r)

INext ==
    \/ \E r \in Requests : RequestNext(r)
    \/ DeleteExpired
    \/ Tick

ISpec == IInit /\ [][INext]_ivars

-----------------------------------------------------------------------------
(* The command of r is running, or its result can still be written. *)
Owner(r) == pc[r] = "execute" \/ (pc[r] = "persist" /\ PersistInTime(r))

(* A command with a time limit has one owner at a time: while a request    *)
(* executes or writes its result, its row neither expires nor is claimed   *)
(* by another request (idempotency.go:239, "a batch record must not expire *)
(* and be taken over while it is executed or written back").               *)
SingleOwner == Timed => \A r, s \in Requests : Owner(r) /\ Owner(s) => r = s

(* A replayed response was returned by a command with the payload of the   *)
(* request it is replayed to, although rows are deleted, created again     *)
(* under the same key and written by requests that lost them.              *)
ReplayMatchesPayload ==
    \A r \in Requests :
        result[r] = "replayed" =>
            /\ seen[r].body \in Requests
            /\ PayloadOf[seen[r].body] = PayloadOf[r]

(* A command that has failed is not tried again before its backoff has     *)
(* passed or its row has expired, whichever request tries and whenever it  *)
(* has read the row.                                                       *)
BackoffHolds ==
    [][(/\ rec # NoRecord
        /\ rec.status = "failed_retryable"
        /\ rec' = NoRecord \/ rec'.status = "processing") => rec.lock <= now \/ rec.exp <= now]_ivars

(* The moment at which the timed command whose result is stored returned. *)
StoredAt == rec.exp - EffectiveTTL

(* A request that begins after a timed command returned the result that is *)
(* stored does not execute the command while the row is kept: a row is     *)
(* taken from its stored success only by a request that was already under  *)
(* way then.                                                               *)
LaterRequestReplays ==
    [][(/\ Timed
        /\ rec # NoRecord
        /\ rec.status = "succeeded"
        /\ rec.exp > now
        /\ rec' # rec) =>
            \E r \in Requests : own'[r] # own[r] /\ at[r] <= StoredAt]_ivars

(* The stored result of a command is what a retry of it gets: no request   *)
(* claims a row whose success has not expired (idempotency.go:408).        *)
StoredResultIsKept ==
    [][(/\ rec # NoRecord
        /\ rec.status = "succeeded"
        /\ rec.exp > now) => rec' = rec]_ivars
=============================================================================
