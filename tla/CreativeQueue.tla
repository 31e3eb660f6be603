---------------------------- MODULE CreativeQueue ----------------------------
(***************************************************************************)
(* The Redis queue of Creative Studio, creative/rediscache/queue.go, as it *)
(* appears to one job.  Every operation is one Lua script or one command,  *)
(* hence one atomic step.  The ready list may hold the job several times;  *)
(* the sorted sets delayed and active hold it at most once.  The inflight  *)
(* key is the mark of Enqueue or the lease token of the last Reserve.  A   *)
(* worker has one lease at a time, so it stands for its token.             *)
(*                                                                         *)
(* The key's own expiry, seven days, is left out.                          *)
(***************************************************************************)
EXTENDS Integers

CONSTANT Workers

ASSUME WorkersAssumption == {"none", "queued"} \cap Workers = {}

VARIABLES
    ready,      \* occurrences of the job in the ready list
    delayed,    \* it is in the delayed set
    active,     \* it is in the active set
    inflight,   \* "none", "queued" or the worker whose token is stored
    joblock     \* "none" or the worker that holds the lock of the job

qvars == <<ready, delayed, active, inflight, joblock>>

QTypeOK ==
    /\ ready \in Nat
    /\ delayed \in BOOLEAN
    /\ active \in BOOLEAN
    /\ inflight \in Workers \cup {"none", "queued"}
    /\ joblock \in Workers \cup {"none"}

QInit ==
    /\ ready = 0
    /\ delayed = FALSE
    /\ active = FALSE
    /\ inflight = "none"
    /\ joblock = "none"

(* The comparison that the scripts of Heartbeat, Ack and RequeueAfter make. *)
Leased(w) == active /\ inflight = w

(* creativeEnqueueScript: a job that is in flight is not queued again. *)
Enqueue ==
    \/ /\ inflight = "none"
       /\ inflight' = "queued"
       /\ ready' = ready + 1
       /\ UNCHANGED <<delayed, active, joblock>>
    \/ inflight # "none" /\ UNCHANGED qvars

(* Mutant of Reserve: the job is popped first and made active later. *)
Reserve_PopOnly(w) ==
    /\ ready > 0
    /\ ready' = ready - 1
    /\ inflight' = w
    /\ UNCHANGED <<delayed, active, joblock>>

Reserve(w) ==
    /\ ready > 0
    /\ ready' = ready - 1
    /\ active' = TRUE
    /\ inflight' = w
    /\ UNCHANGED <<delayed, joblock>>

Ack(w) ==
    \/ /\ Leased(w)
       /\ active' = FALSE
       /\ delayed' = FALSE
       /\ inflight' = "none"
       /\ UNCHANGED <<ready, joblock>>
    \/ ~Leased(w) /\ UNCHANGED qvars

(* A delay of zero puts the job back into the ready list. *)
RequeueAfter(w, delay) ==
    \/ /\ Leased(w)
       /\ active' = FALSE
       /\ delayed' = delay
       /\ ready' = IF delay THEN ready ELSE ready + 1
       /\ UNCHANGED <<inflight, joblock>>
    \/ ~Leased(w) /\ UNCHANGED qvars

MoveDueDelayedToReady ==
    /\ delayed
    /\ delayed' = FALSE
    /\ ready' = ready + 1
    /\ UNCHANGED <<active, inflight, joblock>>

(* The job goes back to ready and its inflight key is deleted, so that the *)
(* old lease is void and Enqueue may push the job a second time.           *)
RecoverStaleActive ==
    /\ active
    /\ active' = FALSE
    /\ ready' = ready + 1
    /\ inflight' = "none"
    /\ UNCHANGED <<delayed, joblock>>

TryAcquireJobLock(w) ==
    /\ joblock = "none"
    /\ joblock' = w
    /\ UNCHANGED <<ready, delayed, active, inflight>>

(* What joblock is once w has run the release script. *)
WithoutLock(w) == IF joblock = w THEN "none" ELSE joblock

ExpireJobLock ==
    /\ joblock # "none"
    /\ joblock' = "none"
    /\ UNCHANGED <<ready, delayed, active, inflight>>

(***************************************************************************)
(* A job whose inflight key blocks Enqueue is in one of the structures     *)
(* that bring it to a worker again: Reserve pops and activates it in one   *)
(* script, and no script drops it without deleting the key.                *)
(***************************************************************************)
InflightIsQueued == inflight # "none" => ready > 0 \/ delayed \/ active
=============================================================================
