------------------------ MODULE MaintenanceOperations -----------------------
(***************************************************************************)
(* ops/maintenance.Operations and ops/provider.BinaryInstaller: update,    *)
(* rollback and restart of the program under the maintenance lock, and the *)
(* shutdown that cancels and awaits them.  An update downloads a release   *)
(* under the operation's context and then replaces the executable by       *)
(* renaming files, which is not interrupted.                               *)
(***************************************************************************)
EXTENDS OperationLease

CONSTANTS
    Hosts,      \* processes, each with an executable of its own
    HostOf,     \* the process that handles each operation
    MaxFaults   \* bound on file operations that fail

ASSUME HostAssumption == HostOf \in [Ops -> Hosts]
ASSUME FaultAssumption == MaxFaults \in Nat

VARIABLES
    stage,      \* next step of the work of each operation
    exe,        \* version of the executable of each host, or NoFile
    backup,     \* version of its backup, or NoFile
    closed,     \* the host is shutting down
    faults

fileVars == <<exe, backup, faults>>
mvars == <<lvars, stage, fileVars, closed>>

NoFile == "none"
ReplaceStage == {"remove_backup", "move_out", "move_in", "restore"}
Stage == {"idle", "accepted", "prepare", "check", "stat", "swap", "succeeded", "rolled_back", "failed"} \cup
         ReplaceStage
Version == Ops \cup {"installed"}

ASSUME VersionAssumption == NoFile \notin Ops

MTypeOK ==
    /\ LTypeOK
    /\ stage \in [Ops -> Stage]
    /\ exe \in [Hosts -> Version \cup {NoFile}]
    /\ backup \in [Hosts -> Version \cup {NoFile}]
    /\ closed \in [Hosts -> BOOLEAN]
    /\ faults \in 0 .. MaxFaults

MInit ==
    /\ LInit
    /\ stage = [o \in Ops |-> "idle"]
    /\ exe = [h \in Hosts |-> "installed"]
    /\ backup = [h \in Hosts |-> NoFile]
    /\ closed = [h \in Hosts |-> FALSE]
    /\ faults = 0

-----------------------------------------------------------------------------
Becomes(o, s) == stage' = [stage EXCEPT ![o] = s]
Fault == faults < MaxFaults /\ faults' = faults + 1

(* A crash between the renames leaves no executable to start again. *)
Down(h) ==
    /\ exe[h] = NoFile
    /\ \E o \in Ops : HostOf[o] = h /\ hold[o] = "dead" /\ stage[o] \in {"move_in", "restore"}

(* Operations.acquire counts the operation unless the host is closed. *)
Accept(o) ==
    /\ ~closed[HostOf[o]]
    /\ ~Down(HostOf[o])
    /\ BeginAcquire(o)
    /\ UNCHANGED <<stage, fileVars, closed>>

Acquired(o) ==
    /\ ClaimOperation(o)
    /\ Becomes(o, "accepted")
    /\ UNCHANGED <<fileVars, closed>>

(* Mutant of CancelledBy: only a shutdown that comes later cancels. *)
CancelledBy_LaterStop(o) == FALSE

(* context.AfterFunc cancels at once when the host has closed meanwhile. *)
CancelledBy(o) == closed[HostOf[o]]

(* Mutant of StartWork: the work gets a context of its own. *)
StartWork_Detached(o) ==
    /\ stage[o] = "accepted"
    /\ hold[o] = "held"
    /\ ctx' = [ctx EXCEPT ![o] = ~CancelledBy(o)]
    /\ \E s \in {"prepare", "check"} : Becomes(o, s)
    /\ UNCHANGED <<now, overrun, row, hold, at, loop, lease, succeeded, fileVars, closed>>

(* The shutdown is tied to the operation's context and the work starts. *)
StartWork(o) ==
    /\ stage[o] = "accepted"
    /\ hold[o] = "held"
    /\ ctx' = [ctx EXCEPT ![o] = ctx[o] /\ ~CancelledBy(o)]
    /\ \E s \in {"prepare", "check"} : Becomes(o, s)
    /\ UNCHANGED <<now, overrun, row, hold, at, loop, lease, succeeded, fileVars, closed>>

(* A release is looked up, downloaded and verified.  There may be none, and *)
(* a lookup that fails or is cancelled counts as none; a cancelled context  *)
(* is noticed at the latest before the replacement.                         *)
Prepare(o) ==
    /\ stage[o] = "prepare"
    /\ hold[o] = "held"
    /\ \/ Becomes(o, "failed")
       \/ Becomes(o, "succeeded")
       \/ ctx[o] /\ Becomes(o, "remove_backup")
    /\ UNCHANGED <<lvars, fileVars, closed>>

(* Rollback and Restart look at the context before they start; a rollback  *)
(* to a version installs that release, a restart may be refused.           *)
CheckContext(o) ==
    /\ stage[o] = "check"
    /\ hold[o] = "held"
    /\ \/ Becomes(o, "failed")
       \/ ctx[o] /\ \E s \in {"prepare", "stat", "succeeded"} : Becomes(o, s)
    /\ UNCHANGED <<lvars, fileVars, closed>>

RemoveBackup(o) ==
    /\ stage[o] = "remove_backup"
    /\ hold[o] = "held"
    /\ backup' = [backup EXCEPT ![HostOf[o]] = NoFile]
    /\ Becomes(o, "move_out")
    /\ UNCHANGED <<lvars, exe, faults, closed>>

(* rename(exePath, backupPath) *)
MoveOut(o) ==
    LET h == HostOf[o] IN
    /\ stage[o] = "move_out"
    /\ hold[o] = "held"
    /\ \/ /\ exe[h] # NoFile
          /\ backup' = [backup EXCEPT ![h] = exe[h]]
          /\ exe' = [exe EXCEPT ![h] = NoFile]
          /\ Becomes(o, "move_in")
          /\ UNCHANGED faults
       \/ /\ IF exe[h] = NoFile THEN UNCHANGED faults ELSE Fault
          /\ Becomes(o, "failed")
          /\ UNCHANGED <<exe, backup>>
    /\ UNCHANGED <<lvars, closed>>

(* Mutant of AfterFailedReplace: the backup is not put back. *)
AfterFailedReplace_Return == "failed"

(* Mutant of AfterFailedReplace: a stage that does not exist. *)
AfterFailedReplace_Retry == "retry"

AfterFailedReplace == "restore"

(* rename(newBinaryPath, exePath) *)
MoveIn(o) ==
    /\ stage[o] = "move_in"
    /\ hold[o] = "held"
    /\ \/ /\ exe' = [exe EXCEPT ![HostOf[o]] = o]
          /\ Becomes(o, "succeeded")
          /\ UNCHANGED <<backup, faults>>
       \/ /\ Fault
          /\ Becomes(o, AfterFailedReplace)
          /\ UNCHANGED <<exe, backup>>
    /\ UNCHANGED <<lvars, closed>>

(* rename(backupPath, exePath), of a failed replacement or of Rollback. *)
PutBack(o, from, outcome) ==
    LET h == HostOf[o] IN
    /\ stage[o] = from
    /\ hold[o] = "held"
    /\ \/ /\ backup[h] # NoFile
          /\ exe' = [exe EXCEPT ![h] = backup[h]]
          /\ backup' = [backup EXCEPT ![h] = NoFile]
          /\ Becomes(o, outcome)
          /\ UNCHANGED faults
       \/ /\ IF backup[h] = NoFile THEN UNCHANGED faults ELSE Fault
          /\ Becomes(o, "failed")
          /\ UNCHANGED <<exe, backup>>
    /\ UNCHANGED <<lvars, closed>>

Restore(o) == PutBack(o, "restore", "failed")

(* Rollback looks for the backup, then renames it. *)
StatBackup(o) ==
    /\ stage[o] = "stat"
    /\ hold[o] = "held"
    /\ Becomes(o, IF backup[HostOf[o]] = NoFile THEN "failed" ELSE "swap")
    /\ UNCHANGED <<lvars, fileVars, closed>>

Rollback(o) == PutBack(o, "swap", "rolled_back")

(* The deferred release of Update, Rollback and Restart. *)
ReleaseLock(o) ==
    /\ stage[o] \in {"succeeded", "rolled_back", "failed"}
    /\ StartRelease(o, stage[o] # "failed")
    /\ UNCHANGED <<stage, fileVars, closed>>

(* BeginStop closes the host and cancels the operations tied to it. *)
BeginStop(h) ==
    /\ ~closed[h]
    /\ closed' = [closed EXCEPT ![h] = TRUE]
    /\ ctx' = [o \in Ops |-> ctx[o] /\ (HostOf[o] = h => stage[o] = "accepted" \/ hold[o] # "held")]
    /\ UNCHANGED <<now, overrun, row, hold, at, loop, lease, succeeded, stage, fileVars>>

(* The lock's own steps. *)
LockStep(o) ==
    /\ \/ AcquireRefused(o)
       \/ RenewTick(o)
       \/ RenewOperation(o)
       \/ RenewFails(o)
       \/ LoopStops(o)
       \/ FinishOperation(o)
    /\ UNCHANGED <<stage, fileVars, closed>>

(* The operations a process has not finished. *)
Pending(h) == {o \in Ops : HostOf[o] = h /\ hold[o] \in {"claiming", "held", "releasing"}}

CrashHost(h) == Crash(Pending(h)) /\ UNCHANGED <<stage, fileVars, closed>>

Background == (DeleteExpiredRow \/ LeaseTick) /\ UNCHANGED <<stage, fileVars, closed>>

Work(o) ==
    \/ StartWork(o)
    \/ Prepare(o)
    \/ CheckContext(o)
    \/ RemoveBackup(o)
    \/ MoveOut(o)
    \/ MoveIn(o)
    \/ Restore(o)
    \/ StatBackup(o)
    \/ Rollback(o)
    \/ ReleaseLock(o)

MNext ==
    \/ \E o \in Ops : Accept(o) \/ Acquired(o) \/ Work(o) \/ LockStep(o)
    \/ \E h \in Hosts : BeginStop(h) \/ CrashHost(h)
    \/ Background

(* What the goroutine of an operation does next, unless its work goes on. *)
Foreground(o) ==
    \/ Acquired(o)
    \/ StartWork(o)
    \/ ~ctx[o] /\ Work(o)
    \/ (AcquireRefused(o) \/ LoopStops(o) \/ FinishOperation(o)) /\ UNCHANGED <<stage, fileVars, closed>>

Renewal(o) ==
    (RenewTick(o) \/ RenewOperation(o) \/ RenewFails(o)) /\ UNCHANGED <<stage, fileVars, closed>>

(* Statements end, at the latest with their context; work whose context is *)
(* cancelled returns; the ticker of a loop fires again and again, and the  *)
(* store does not refuse every renewal.                                    *)
MFairness ==
    \A o \in Ops :
        /\ WF_mvars(Foreground(o))
        /\ WF_mvars(Renewal(o))
        /\ SF_mvars(RenewOperation(o) /\ UNCHANGED <<stage, fileVars, closed>>)

MSpec == MInit /\ [][MNext]_mvars
MFairSpec == MSpec /\ MFairness

-----------------------------------------------------------------------------
(* Every step of the maintenance operations is a step of the lock or leaves *)
(* it alone: the work, the shutdown and a crash use it as lock.go promises. *)
LeaseProtocol == LSpec

(* The executable is missing only while a replacement is under way or was  *)
(* cut off by a crash: a failing rename puts the backup back, and no other *)
(* operation removes that backup (provider/binary.go:139-154).  It holds   *)
(* for one failing file operation, as long as nobody outlives its lease.   *)
ExecutableKept ==
    \A h \in Hosts :
        ~overrun /\ exe[h] = NoFile => \E o \in Ops : HostOf[o] = h /\ stage[o] \in {"move_in", "restore"}

(* An operation whose lock was taken over learns of it: its context is      *)
(* cancelled or it has ended (lock.go:177-180).                             *)
LossIsNoticed ==
    \A o \in Ops : (hold[o] = "held" /\ ~OwnsLock(o)) ~> (~ctx[o] \/ hold[o] # "held")

(* StopContext returns: every operation the host has accepted ends after    *)
(* BeginStop, those included whose Acquire returned while it was closing    *)
(* (operations.go:43-60).                                                   *)
StopDrains == \A h \in Hosts : closed[h] ~> (Pending(h) = {})
=============================================================================
