------------------------- MODULE MaintenanceProofs -------------------------
(***************************************************************************)
(* The maintenance operations implement the protocol of their lock: every  *)
(* step of MaintenanceOperations is a step of OperationLease or leaves its *)
(* variables alone, so what is proved of the lock holds for them.          *)
(***************************************************************************)
EXTENDS MaintenanceOperations, OperationLeaseProofs

\* Cancelling the contexts of some operations, as a step of the lock.
LEMMA CancelIsLeaseStep ==
    ASSUME LTypeOK, NEW S \in SUBSET Ops, \A o \in S : hold[o] = "held",
           ctx' = [o \in Ops |-> ctx[o] /\ o \notin S],
           UNCHANGED <<now, overrun, row, hold, at, loop, lease, succeeded>>
    PROVE  [LNext]_lvars
<1>1. CancelWork(S)
  BY DEF CancelWork
<1>2. QED
  BY <1>1 DEF LNext

\* The work of an operation leaves the lock alone, cancels the operation or
\* releases the lock.
LEMMA WorkIsLeaseStep ==
    ASSUME LTypeOK, NEW o \in Ops, Work(o) PROVE [LNext]_lvars
<1>1. CASE StartWork(o)
  <2>1. CASE CancelledBy(o)
    <3>1. ctx' = [p \in Ops |-> ctx[p] /\ p \notin {o}]
      BY <1>1, <2>1 DEF StartWork, LTypeOK
    <3>2. {o} \in SUBSET Ops /\ \A p \in {o} : hold[p] = "held"
      BY <1>1 DEF StartWork
    <3>3. UNCHANGED <<now, overrun, row, hold, at, loop, lease, succeeded>>
      BY <1>1 DEF StartWork
    <3>4. QED
      BY <3>1, <3>2, <3>3, CancelIsLeaseStep
  <2>2. CASE ~CancelledBy(o)
    <3>1. ctx' = ctx
      BY <1>1, <2>2 DEF StartWork, LTypeOK
    <3>2. QED
      BY <1>1, <3>1 DEF StartWork, lvars
  <2>3. QED
    BY <2>1, <2>2
<1>2. CASE ReleaseLock(o)
  <2>1. \E success \in BOOLEAN : StartRelease(o, success)
    BY <1>2 DEF ReleaseLock
  <2>2. QED
    BY <2>1 DEF LNext, LeaseStep
<1>3. CASE Prepare(o) \/ CheckContext(o) \/ RemoveBackup(o) \/ StatBackup(o)
  BY <1>3 DEF Prepare, CheckContext, RemoveBackup, StatBackup
<1>4. CASE MoveOut(o) \/ MoveIn(o) \/ Restore(o) \/ Rollback(o)
  BY <1>4 DEF MoveOut, MoveIn, Restore, Rollback, PutBack
<1>5. QED
  BY <1>1, <1>2, <1>3, <1>4 DEF Work

\* Every step of the operations is a step of the lock or a stutter.
LEMMA MaintenanceStep == LTypeOK /\ [MNext]_mvars => [LNext]_lvars
<1> SUFFICES ASSUME LTypeOK, [MNext]_mvars PROVE [LNext]_lvars
  OBVIOUS
<1>1. ASSUME NEW o \in Ops, Accept(o) \/ Acquired(o) PROVE [LNext]_lvars
  BY <1>1 DEF Accept, Acquired, LNext, LeaseStep
<1>2. ASSUME NEW o \in Ops, Work(o) PROVE [LNext]_lvars
  BY <1>2, WorkIsLeaseStep
<1>3. ASSUME NEW o \in Ops, LockStep(o) PROVE [LNext]_lvars
  BY <1>3 DEF LockStep, LNext, LeaseStep
<1>4. ASSUME NEW h \in Hosts, BeginStop(h) PROVE [LNext]_lvars
  <2> DEFINE S == {o \in Ops : HostOf[o] = h /\ stage[o] # "accepted" /\ hold[o] = "held"}
  <2>1. ctx' = [o \in Ops |-> ctx[o] /\ o \notin S]
    BY <1>4 DEF BeginStop
  <2>2. QED
    BY <1>4, <2>1, CancelIsLeaseStep DEF BeginStop
<1>5. ASSUME NEW h \in Hosts, CrashHost(h) PROVE [LNext]_lvars
  <2>1. Pending(h) \in SUBSET Ops
    BY DEF Pending
  <2>2. QED
    BY <1>5, <2>1 DEF CrashHost, LNext
<1>6. CASE Background
  BY <1>6 DEF Background, LNext
<1>7. CASE UNCHANGED mvars
  BY <1>7 DEF mvars
<1>8. QED
  BY <1>1, <1>2, <1>3, <1>4, <1>5, <1>6, <1>7 DEF MNext

\* Update, Rollback, Restart, the shutdown and a crash of the process use the
\* lock as lock.go promises (operations.go:66-105).
THEOREM MaintenanceUsesLease == MSpec => LeaseProtocol
<1>1. MInit => LInit
  BY DEF MInit
<1>2. LTypeOK /\ [MNext]_mvars => LTypeOK'
  BY MaintenanceStep, LTypeStep
<1>3. QED
  BY <1>1, <1>2, MaintenanceStep, LTypeInit, PTL DEF MSpec, LeaseProtocol, LSpec

\* Two maintenance operations overlap only after a whole lease without a
\* renewal.
THEOREM MaintenanceExcludes == MSpec => []LeaseIsExclusive
BY MaintenanceUsesLease, LeaseExcludes DEF LeaseProtocol

-----------------------------------------------------------------------------
(* Types. *)

\* The part of the types that is not the lock's.
FilesOK ==
    /\ stage \in [Ops -> Stage]
    /\ exe \in [Hosts -> Version \cup {NoFile}]
    /\ backup \in [Hosts -> Version \cup {NoFile}]
    /\ closed \in [Hosts -> BOOLEAN]
    /\ faults \in 0 .. MaxFaults

\* The work of an operation preserves the types.
LEMMA WorkTypes == ASSUME FilesOK, NEW o \in Ops, Work(o) PROVE FilesOK'
<1> USE HostAssumption, FaultAssumption DEF FilesOK, Becomes, Fault, fileVars
<1>1. CASE StartWork(o)
  BY <1>1 DEF StartWork, Stage
<1>2. CASE Prepare(o)
  BY <1>2 DEF Prepare, Stage, ReplaceStage
<1>3. CASE CheckContext(o)
  BY <1>3 DEF CheckContext, Stage
<1>4. CASE RemoveBackup(o)
  BY <1>4 DEF RemoveBackup, Stage, ReplaceStage
<1>5. CASE MoveOut(o)
  BY <1>5 DEF MoveOut, Stage, ReplaceStage
<1>6. CASE MoveIn(o)
  BY <1>6 DEF MoveIn, AfterFailedReplace, Stage, ReplaceStage, Version
<1>7. CASE Restore(o)
  BY <1>7 DEF Restore, PutBack, Stage
<1>8. CASE StatBackup(o)
  BY <1>8 DEF StatBackup, Stage
<1>9. CASE Rollback(o)
  BY <1>9 DEF Rollback, PutBack, Stage
<1>10. CASE ReleaseLock(o)
  BY <1>10 DEF ReleaseLock
<1>11. QED
  BY <1>1, <1>2, <1>3, <1>4, <1>5, <1>6, <1>7, <1>8, <1>9, <1>10 DEF Work

\* Every step preserves the types.
LEMMA FileTypes == FilesOK /\ [MNext]_mvars => FilesOK'
<1> SUFFICES ASSUME FilesOK, [MNext]_mvars PROVE FilesOK'
  OBVIOUS
<1>1. ASSUME NEW o \in Ops, Accept(o) \/ LockStep(o) PROVE FilesOK'
  BY <1>1 DEF Accept, LockStep, FilesOK, fileVars
<1>2. ASSUME NEW o \in Ops, Acquired(o) PROVE FilesOK'
  BY <1>2 DEF Acquired, Becomes, FilesOK, fileVars, Stage
<1>3. ASSUME NEW o \in Ops, Work(o) PROVE FilesOK'
  BY <1>3, WorkTypes
<1>4. ASSUME NEW h \in Hosts, BeginStop(h) PROVE FilesOK'
  BY <1>4 DEF BeginStop, FilesOK, fileVars
<1>5. ASSUME NEW h \in Hosts, CrashHost(h) PROVE FilesOK'
  BY <1>5 DEF CrashHost, FilesOK, fileVars
<1>6. CASE Background
  BY <1>6 DEF Background, FilesOK, fileVars
<1>7. CASE UNCHANGED mvars
  BY <1>7 DEF mvars, FilesOK, fileVars
<1>8. QED
  BY <1>1, <1>2, <1>3, <1>4, <1>5, <1>6, <1>7 DEF MNext

\* Type correctness of the maintenance operations, for any operations, hosts
\* and durations: in particular a failed replacement (provider/binary.go:147)
\* goes on with a step the operation has.
THEOREM MCorrectTypes == MSpec => []MTypeOK
<1>1. MInit => FilesOK
  BY FaultAssumption DEF MInit, FilesOK, Stage, Version
<1>2. LTypeOK /\ FilesOK => MTypeOK
  BY DEF FilesOK, MTypeOK
<1>3. MSpec => []FilesOK
  BY <1>1, FileTypes, PTL DEF MSpec
<1>4. MSpec => []LTypeOK
  BY MaintenanceUsesLease, LCorrectTypes DEF LeaseProtocol
<1>5. QED
  BY <1>2, <1>3, <1>4, PTL

-----------------------------------------------------------------------------
(* The executable. *)

\* The steps between the rename that takes the executable away and the one
\* that brings an executable back, and the steps after the work.
Replacing == {"move_in", "restore"}
Finished == {"succeeded", "rolled_back", "failed"}

\* The work begins with the lock and ends before its release.
StageInv ==
    \A o \in Ops :
        /\ hold[o] \in {"none", "claiming", "refused"} => stage[o] = "idle"
        /\ hold[o] \in {"releasing", "released"} => stage[o] \in Finished

\* As long as nobody outlives its lease, every claim and every lease lasts.
InTime ==
    ~overrun => \A o \in Ops :
        /\ hold[o] = "claiming" => now < at[o] + Lease
        /\ hold[o] \in {"held", "releasing"} => now < lease[o]

\* An operation between the renames finds the executable in the backup, where
\* it has put it; when it has died there, its host does not start again.
Between(o) ==
    /\ exe[HostOf[o]] = NoFile
    /\ backup[HostOf[o]] # NoFile
    /\ hold[o] = "dead" => Pending(HostOf[o]) = {}
    /\ stage[o] = "restore" => faults >= 1
ReplaceInv == ~overrun => \A o \in Ops : stage[o] \in Replacing => Between(o)

\* The executable is kept until a second file operation fails.
KeptInv == faults <= 1 => ExecutableKept

FileParts == StageInv /\ InTime /\ ReplaceInv /\ KeptInv
FileInv == LeaseInv /\ FilesOK /\ FileParts

\* The clock and the history variable of a step of the lock: a lease that is
\* renewed ends no earlier, and whoever outlives a lease is noted.
LEMMA InTimeStep == LeaseInv /\ InTime /\ [LNext]_lvars => InTime' /\ (overrun => overrun')
<1> SUFFICES ASSUME LeaseInv, InTime, [LNext]_lvars PROVE InTime' /\ (overrun => overrun')
  OBVIOUS
<1> USE LeaseAssumption DEF InTime, LeaseInv, LTypeOK
<1>1. ASSUME NEW o \in Ops, LeaseStep(o) PROVE InTime' /\ (overrun => overrun')
  <2>1. CASE BeginAcquire(o)
    BY <2>1 DEF BeginAcquire, Hold
  <2>2. CASE ClaimOperation(o)
    BY <2>2 DEF ClaimOperation, Hold
  <2>3. CASE AcquireRefused(o)
    BY <2>3 DEF AcquireRefused, Hold
  <2>4. CASE RenewTick(o)
    BY <2>4 DEF RenewTick
  <2>5. CASE RenewOperation(o)
    BY <2>5 DEF RenewOperation, LeaseParts, RenewalInv
  <2>6. CASE RenewFails(o)
    BY <2>6 DEF RenewFails, LeaseParts, RenewalInv
  <2>7. ASSUME NEW success \in BOOLEAN, StartRelease(o, success) PROVE InTime' /\ (overrun => overrun')
    BY <2>7 DEF StartRelease, Hold
  <2>8. CASE LoopStops(o)
    BY <2>8 DEF LoopStops
  <2>9. CASE FinishOperation(o)
    BY <2>9 DEF FinishOperation, Hold
  <2>10. QED
    BY <1>1, <2>1, <2>2, <2>3, <2>4, <2>5, <2>6, <2>7, <2>8, <2>9 DEF LeaseStep
<1>2. ASSUME NEW S \in SUBSET Ops, Crash(S) \/ CancelWork(S) PROVE InTime' /\ (overrun => overrun')
  BY <1>2 DEF Crash, CancelWork
<1>3. CASE DeleteExpiredRow
  BY <1>3 DEF DeleteExpiredRow
<1>4. CASE LeaseTick
  <2>1. now' = now + 1 /\ UNCHANGED <<hold, at, lease>>
    BY <1>4 DEF LeaseTick
  <2>2. overrun => overrun'
    BY <1>4 DEF LeaseTick
  <2>3. ~overrun' => ~overrun /\ \A o \in Ops : ~Outlives(o)
    BY <1>4 DEF LeaseTick
  <2>4. ASSUME ~overrun' PROVE InTime'
    BY <2>1, <2>3, <2>4 DEF Outlives
  <2>5. QED
    BY <2>2, <2>4
<1>5. CASE UNCHANGED lvars
  BY <1>5 DEF lvars
<1>6. QED
  BY <1>1, <1>2, <1>3, <1>4, <1>5 DEF LNext

\* One operation at a time holds the lock while every lease lasts, so no other
\* operation of the host is between its renames.
LEMMA NobodyBetween ==
  ASSUME FileInv, ~overrun, NEW o \in Ops, hold[o] = "held", stage[o] \notin Replacing
  PROVE  \A p \in Ops : HostOf[p] = HostOf[o] => stage[p] \notin Replacing
<1> SUFFICES ASSUME NEW p \in Ops, HostOf[p] = HostOf[o], stage[p] \in Replacing PROVE FALSE
  OBVIOUS
<1>1. hold[p] \in {"held", "dead"}
  BY DEF FileInv, FileParts, StageInv, Replacing, Finished, LeaseInv, LTypeOK, HoldState
<1>2. CASE hold[p] = "held"
  <2>1. Holds(o) /\ Holds(p)
    BY <1>2 DEF FileInv, FileParts, InTime, Holds
  <2>2. OwnsLock(o) /\ OwnsLock(p)
    BY <2>1 DEF FileInv, LeaseInv, LeaseParts, HolderInv
  <2>3. o = p
    BY <2>2 DEF OwnsLock
  <2>4. QED
    BY <2>3
<1>3. CASE hold[p] = "dead"
  <2>1. Pending(HostOf[p]) = {}
    BY <1>3 DEF FileInv, FileParts, ReplaceInv, Between
  <2>2. o \in Pending(HostOf[p])
    BY DEF Pending
  <2>3. QED
    BY <2>1, <2>2
<1>4. QED
  BY <1>1, <1>2, <1>3

\* The same for an operation that is between the renames itself.
LEMMA AloneBetween ==
  ASSUME FileInv, ~overrun, NEW o \in Ops, hold[o] = "held", stage[o] \in Replacing
  PROVE  \A p \in Ops : HostOf[p] = HostOf[o] /\ stage[p] \in Replacing => p = o
<1> SUFFICES ASSUME NEW p \in Ops, HostOf[p] = HostOf[o], stage[p] \in Replacing PROVE p = o
  OBVIOUS
<1>1. hold[p] \in {"held", "dead"}
  BY DEF FileInv, FileParts, StageInv, Replacing, Finished, LeaseInv, LTypeOK, HoldState
<1>2. CASE hold[p] = "held"
  <2>1. Holds(o) /\ Holds(p)
    BY <1>2 DEF FileInv, FileParts, InTime, Holds
  <2>2. OwnsLock(o) /\ OwnsLock(p)
    BY <2>1 DEF FileInv, LeaseInv, LeaseParts, HolderInv
  <2>3. QED
    BY <2>2 DEF OwnsLock
<1>3. CASE hold[p] = "dead"
  <2>1. Pending(HostOf[p]) = {}
    BY <1>3 DEF FileInv, FileParts, ReplaceInv, Between
  <2>2. o \in Pending(HostOf[p])
    BY DEF Pending
  <2>3. QED
    BY <2>1, <2>2
<1>4. QED
  BY <1>1, <1>2, <1>3

\* Steps that change neither the work nor the files, and make no operation
\* pending at a host that is down.
LEMMA FilesAlone ==
  ASSUME FileInv, UNCHANGED <<stage, fileVars>>, overrun => overrun',
         \A o \in Ops : stage[o] \in Replacing /\ hold'[o] = "dead" /\ ~overrun =>
                            Pending(HostOf[o])' = {}
  PROVE  ReplaceInv' /\ KeptInv'
<1>1. ReplaceInv'
  BY DEF fileVars, FileInv, FileParts, ReplaceInv, Between
<1>2. KeptInv'
  BY DEF fileVars, FileInv, FileParts, KeptInv, ExecutableKept
<1>3. QED
  BY <1>1, <1>2

\* The work of an operation preserves what is known of the files.
LEMMA WorkOnFiles ==
  ASSUME FileInv, NEW o \in Ops, Work(o) PROVE StageInv' /\ ReplaceInv' /\ KeptInv'
<1> USE HostAssumption
<1> DEFINE h == HostOf[o]
<1>1. stage \in [Ops -> Stage] /\ exe \in [Hosts -> Version \cup {NoFile}] /\
      backup \in [Hosts -> Version \cup {NoFile}] /\ hold \in [Ops -> HoldState] /\ faults \in Nat /\ h \in Hosts
  BY FaultAssumption DEF FileInv, FilesOK, LeaseInv, LTypeOK
<1>2. StageInv /\ ReplaceInv /\ KeptInv
  BY DEF FileInv, FileParts
<1>3. hold[o] = "held"
  BY DEF Work, StartWork, Prepare, CheckContext, RemoveBackup, MoveOut, MoveIn, Restore, Rollback, PutBack,
     StatBackup, ReleaseLock, StartRelease
<1>4. CASE ReleaseLock(o)
  <2>1. /\ hold' = [hold EXCEPT ![o] = "releasing"]
        /\ UNCHANGED <<stage, fileVars, overrun>>
        /\ stage[o] \in Finished
    BY <1>4 DEF ReleaseLock, StartRelease, Hold, Finished
  <2>2. StageInv'
    BY <1>1, <1>2, <2>1 DEF StageInv
  <2>3. \A p \in Ops : hold'[p] = "dead" => hold[p] = "dead"
    BY <1>1, <2>1
  <2>4. \A g : Pending(g)' \subseteq Pending(g)
    BY <1>1, <1>3, <2>1 DEF Pending
  <2>5. ASSUME NEW p \in Ops, stage[p] \in Replacing, hold'[p] = "dead", ~overrun
        PROVE  Pending(HostOf[p])' = {}
    BY <1>2, <2>3, <2>4, <2>5 DEF ReplaceInv, Between
  <2>6. QED
    BY <2>1, <2>2, <2>5, FilesAlone
<1>5. CASE ~ReleaseLock(o)
  <2>1. UNCHANGED <<hold, overrun>>
    BY <1>5 DEF Work, StartWork, Prepare, CheckContext, RemoveBackup, MoveOut, MoveIn, Restore, Rollback, PutBack,
       StatBackup, lvars
  <2>2. \A p \in Ops : p # o => stage'[p] = stage[p]
    BY <1>1, <1>5 DEF Work, StartWork, Prepare, CheckContext, RemoveBackup, MoveOut, MoveIn, Restore, Rollback,
       PutBack, StatBackup, ReleaseLock, Becomes, fileVars
  <2>3. StageInv'
    BY <1>2, <1>3, <2>1, <2>2 DEF StageInv
  <2>4. \A g : Pending(g)' = Pending(g)
    BY <2>1 DEF Pending
  <2>5. \A g \in Hosts : g # h => exe'[g] = exe[g] /\ backup'[g] = backup[g]
    BY <1>1, <1>5 DEF Work, StartWork, Prepare, CheckContext, RemoveBackup, MoveOut, MoveIn, Restore, Rollback,
       PutBack, StatBackup, fileVars
  <2>6. faults <= faults' /\ faults' \in Nat
    BY <1>1, <1>5 DEF Work, StartWork, Prepare, CheckContext, RemoveBackup, MoveOut, MoveIn, Restore, Rollback,
       PutBack, StatBackup, Fault, fileVars
  <2>7. ASSUME ~overrun, NEW p \in Ops, HostOf[p] # h, stage[p] \in Replacing PROVE Between(p)'
    BY <1>1, <1>2, <2>1, <2>2, <2>4, <2>5, <2>6, <2>7 DEF ReplaceInv, Between
  <2>8. ASSUME ~overrun, stage[o] \notin Replacing,
               stage'[o] \in Replacing => Between(o)'
        PROVE  ReplaceInv'
    <3>1. ASSUME NEW p \in Ops, stage'[p] \in Replacing PROVE Between(p)'
      BY <1>3, <2>2, <2>7, <2>8, <3>1, NobodyBetween
    <3>2. QED
      BY <3>1 DEF ReplaceInv
  <2>9. ASSUME ~overrun, stage[o] \in Replacing,
               stage'[o] \in Replacing => Between(o)'
        PROVE  ReplaceInv'
    <3>1. ASSUME NEW p \in Ops, stage'[p] \in Replacing PROVE Between(p)'
      BY <1>3, <2>2, <2>7, <2>9, <3>1, AloneBetween
    <3>2. QED
      BY <3>1 DEF ReplaceInv
  <2>10. ASSUME ~overrun, faults' <= 1 =>
                  exe'[h] # NoFile \/ stage'[o] \in Replacing \/ (exe[h] = NoFile /\ stage[o] \notin Replacing)
        PROVE  KeptInv'
    <3> SUFFICES ASSUME faults' <= 1, NEW g \in Hosts, exe'[g] = NoFile
                 PROVE  \E p \in Ops : HostOf[p] = g /\ stage'[p] \in Replacing
      BY DEF KeptInv, ExecutableKept, Replacing
    <3>1. CASE g = h /\ stage'[o] \in Replacing
      BY <3>1
    <3>2. CASE ~(g = h /\ stage'[o] \in Replacing)
      <4>1. exe[g] = NoFile /\ (g = h => stage[o] \notin Replacing)
        BY <2>5, <2>10, <3>2
      <4>2. PICK p \in Ops : HostOf[p] = g /\ stage[p] \in Replacing
        BY <1>1, <1>2, <2>6, <2>10, <4>1 DEF KeptInv, ExecutableKept, Replacing
      <4>3. p # o
        BY <4>1, <4>2
      <4>4. QED
        BY <2>2, <4>2, <4>3
    <3>3. QED
      BY <3>1, <3>2
  <2>11. CASE overrun
    BY <2>1, <2>3, <2>11 DEF ReplaceInv, KeptInv, ExecutableKept
  <2>12. CASE ~overrun
    <3> USE <2>12
    <3>1. CASE StartWork(o) \/ Prepare(o) \/ CheckContext(o) \/ StatBackup(o) \/ RemoveBackup(o)
      <4>1. stage[o] \notin Replacing /\ stage'[o] \notin Replacing /\ exe' = exe
        BY <1>1, <3>1 DEF StartWork, Prepare, CheckContext, StatBackup, RemoveBackup, Becomes, Replacing, fileVars
      <4>2. QED
        BY <2>3, <2>8, <2>10, <4>1
    <3>2. CASE MoveOut(o)
      <4>1. stage[o] \notin Replacing
        BY <3>2 DEF MoveOut, Replacing
      <4>2. CASE exe[h] # NoFile /\ stage'[o] = "move_in"
        <5>1. exe'[h] = NoFile /\ backup'[h] = exe[h]
          BY <1>1, <3>2, <4>2 DEF MoveOut, Becomes
        <5>2. Between(o)'
          BY <1>3, <2>1, <4>2, <5>1 DEF Between
        <5>3. QED
          BY <2>3, <2>8, <2>10, <4>1, <4>2, <5>2 DEF Replacing
      <4>3. CASE ~(exe[h] # NoFile /\ stage'[o] = "move_in")
        <5>1. stage'[o] = "failed" /\ exe' = exe
          BY <1>1, <3>2, <4>3 DEF MoveOut, Becomes
        <5>2. QED
          BY <2>3, <2>8, <2>10, <4>1, <5>1 DEF Replacing
      <4>4. QED
        BY <4>2, <4>3
    <3>3. CASE MoveIn(o)
      <4>1. stage[o] = "move_in" /\ Between(o)
        BY <1>2, <3>3 DEF MoveIn, ReplaceInv, Replacing
      <4>2. CASE stage'[o] = "succeeded"
        <5>1. exe'[h] = o /\ o # NoFile
          BY <1>1, <3>3, <4>2, VersionAssumption DEF MoveIn, Becomes, AfterFailedReplace
        <5>2. QED
          BY <2>3, <2>9, <2>10, <4>1, <4>2, <5>1 DEF Replacing
      <4>3. CASE stage'[o] # "succeeded"
        <5>1. stage'[o] = "restore" /\ exe' = exe /\ backup' = backup /\ faults' = faults + 1
          BY <1>1, <3>3, <4>3 DEF MoveIn, Becomes, AfterFailedReplace, Fault
        <5>2. Between(o)'
          BY <1>1, <1>3, <2>1, <4>1, <5>1 DEF Between
        <5>3. QED
          BY <2>3, <2>9, <2>10, <4>1, <5>1, <5>2 DEF Replacing
      <4>4. QED
        BY <4>2, <4>3
    <3>4. CASE Restore(o)
      <4>1. stage[o] = "restore" /\ Between(o)
        BY <1>2, <3>4 DEF Restore, PutBack, ReplaceInv, Replacing
      <4>2. backup[h] # NoFile /\ faults >= 1
        BY <4>1 DEF Between
      <4>3. stage'[o] = "failed"
        BY <1>1, <3>4 DEF Restore, PutBack, Becomes
      <4>4. exe'[h] = backup[h] \/ faults' = faults + 1
        BY <1>1, <3>4, <4>2 DEF Restore, PutBack, Fault
      <4>5. faults' <= 1 => exe'[h] # NoFile
        BY <1>1, <4>2, <4>4
      <4>6. QED
        BY <2>3, <2>9, <2>10, <4>1, <4>3, <4>5 DEF Replacing
    <3>5. CASE Rollback(o)
      <4>1. stage[o] \notin Replacing /\ stage'[o] \notin Replacing
        BY <1>1, <3>5 DEF Rollback, PutBack, Becomes, Replacing
      <4>2. exe'[h] # NoFile \/ exe' = exe
        BY <1>1, <3>5 DEF Rollback, PutBack
      <4>3. QED
        BY <2>3, <2>8, <2>10, <4>1, <4>2
    <3>6. QED
      BY <1>5, <3>1, <3>2, <3>3, <3>4, <3>5 DEF Work
  <2>13. QED
    BY <2>11, <2>12
<1>6. QED
  BY <1>4, <1>5

\* Every step preserves what is known of the work and the files.
LEMMA FilePartsStep == FileInv /\ [MNext]_mvars => FileParts'
<1> SUFFICES ASSUME FileInv, [MNext]_mvars PROVE FileParts'
  OBVIOUS
<1> USE HostAssumption
<1>1. InTime' /\ (overrun => overrun')
  BY InTimeStep, MaintenanceStep DEF FileInv, FileParts, LeaseInv
<1>2. stage \in [Ops -> Stage] /\ hold \in [Ops -> HoldState] /\ StageInv /\ ReplaceInv
  BY DEF FileInv, FilesOK, FileParts, LeaseInv, LTypeOK
<1>3. ASSUME NEW o \in Ops, Accept(o) PROVE FileParts'
  <2>1. hold[o] = "none" /\ hold' = [hold EXCEPT ![o] = "claiming"] /\ UNCHANGED <<stage, fileVars>>
    BY <1>3 DEF Accept, BeginAcquire, Hold
  <2>2. StageInv'
    BY <1>2, <2>1 DEF StageInv
  <2>3. ASSUME NEW p \in Ops, stage[p] \in Replacing, hold'[p] = "dead", ~overrun
        PROVE  Pending(HostOf[p])' = {}
    <3>1. hold[p] = "dead" /\ Between(p)
      BY <1>2, <2>1, <2>3 DEF ReplaceInv
    <3>2. HostOf[p] # HostOf[o]
      BY <1>3, <2>3, <3>1 DEF Accept, Down, Between, Replacing
    <3>3. QED
      BY <1>2, <2>1, <3>1, <3>2 DEF Pending, Between
  <2>4. QED
    BY <1>1, <2>1, <2>2, <2>3, FilesAlone DEF FileParts
<1>4. ASSUME NEW o \in Ops, Acquired(o) PROVE FileParts'
  <2>1. /\ hold[o] = "claiming" /\ stage[o] = "idle"
        /\ hold' = [hold EXCEPT ![o] = "held"] /\ stage' = [stage EXCEPT ![o] = "accepted"]
        /\ UNCHANGED <<fileVars, overrun>>
    BY <1>2, <1>4 DEF Acquired, ClaimOperation, Hold, Becomes, StageInv
  <2>2. StageInv'
    BY <1>2, <2>1 DEF StageInv
  <2>3. \A g : Pending(g)' = Pending(g)
    BY <1>2, <2>1 DEF Pending
  <2>4. \A p \in Ops : /\ stage'[p] \in Replacing <=> stage[p] \in Replacing
                       /\ stage'[p] \in Replacing => stage'[p] = stage[p] /\ hold'[p] = hold[p]
    BY <1>2, <2>1 DEF Replacing
  <2>5. ReplaceInv'
    BY <1>2, <2>1, <2>3, <2>4 DEF ReplaceInv, Between, fileVars
  <2>6. KeptInv'
    BY <2>1, <2>4 DEF FileInv, FileParts, KeptInv, ExecutableKept, Replacing, fileVars
  <2>7. QED
    BY <1>1, <2>2, <2>5, <2>6 DEF FileParts
<1>5. ASSUME NEW o \in Ops, Work(o) PROVE FileParts'
  BY <1>1, <1>5, WorkOnFiles DEF FileParts
<1>6. ASSUME UNCHANGED <<stage, fileVars>>, StageInv',
             \A p \in Ops : hold'[p] = "dead" => hold[p] = "dead", \A g : Pending(g)' \subseteq Pending(g)
      PROVE  FileParts'
  <2>1. ASSUME NEW p \in Ops, stage[p] \in Replacing, hold'[p] = "dead", ~overrun
        PROVE  Pending(HostOf[p])' = {}
    BY <1>2, <1>6, <2>1 DEF ReplaceInv, Between
  <2>2. QED
    BY <1>1, <1>6, <2>1, FilesAlone DEF FileParts
<1>7. ASSUME NEW o \in Ops, LockStep(o) PROVE FileParts'
  <2>1. \/ hold' = hold
        \/ hold[o] = "claiming" /\ hold' = [hold EXCEPT ![o] = "refused"]
        \/ hold[o] = "releasing" /\ hold' = [hold EXCEPT ![o] = "released"]
    BY <1>7 DEF LockStep, AcquireRefused, RenewTick, RenewOperation, RenewFails, LoopStops, FinishOperation, Hold
  <2>2. UNCHANGED <<stage, fileVars>>
    BY <1>7 DEF LockStep
  <2>3. StageInv'
    BY <1>2, <2>1, <2>2 DEF StageInv
  <2>4. \A p \in Ops : hold'[p] = "dead" => hold[p] = "dead"
    BY <1>2, <2>1
  <2>5. \A g : Pending(g)' \subseteq Pending(g)
    BY <1>2, <2>1 DEF Pending
  <2>6. QED
    BY <1>6, <2>2, <2>3, <2>4, <2>5
<1>8. ASSUME UNCHANGED <<stage, fileVars, hold>> PROVE FileParts'
  BY <1>2, <1>6, <1>8 DEF StageInv, Pending
<1>9. ASSUME NEW h \in Hosts, BeginStop(h) PROVE FileParts'
  BY <1>8, <1>9 DEF BeginStop
<1>10. ASSUME NEW h \in Hosts, CrashHost(h) PROVE FileParts'
  <2>1. hold' = [o \in Ops |-> IF o \in Pending(h) THEN "dead" ELSE hold[o]] /\ UNCHANGED <<stage, fileVars>>
    BY <1>10 DEF CrashHost, Crash
  <2>2. StageInv'
    BY <1>2, <2>1 DEF StageInv
  <2>3. ASSUME NEW p \in Ops, stage[p] \in Replacing, hold'[p] = "dead", ~overrun
        PROVE  Pending(HostOf[p])' = {}
    <3>1. CASE HostOf[p] = h
      BY <2>1, <3>1 DEF Pending
    <3>2. CASE HostOf[p] # h
      <4>1. hold[p] = "dead"
        BY <2>1, <2>3, <3>2 DEF Pending
      <4>2. Pending(HostOf[p]) = {}
        BY <1>2, <2>3, <4>1 DEF ReplaceInv, Between
      <4>3. QED
        BY <2>1, <4>2 DEF Pending
    <3>3. QED
      BY <3>1, <3>2
  <2>4. QED
    BY <1>1, <2>1, <2>2, <2>3, FilesAlone DEF FileParts
<1>11. CASE Background
  BY <1>8, <1>11 DEF Background, DeleteExpiredRow, LeaseTick
<1>12. CASE UNCHANGED mvars
  BY <1>8, <1>12 DEF mvars, lvars
<1>13. QED
  BY <1>3, <1>4, <1>5, <1>7, <1>9, <1>10, <1>11, <1>12 DEF MNext

\* The invariant of the lock, the work and the files.
LEMMA FileInvCorrect == MSpec => []FileInv
<1>1. MInit => FileInv
  <2>1. MInit => LeaseInv /\ FilesOK
    BY LeaseInit, FaultAssumption DEF MInit, FilesOK, Stage, Version
  <2>2. MInit => StageInv /\ InTime /\ ReplaceInv
    BY DEF MInit, LInit, StageInv, InTime, ReplaceInv, Replacing
  <2>3. MInit => KeptInv
    BY DEF MInit, KeptInv, ExecutableKept, NoFile
  <2>4. QED
    BY <2>1, <2>2, <2>3 DEF FileInv, FileParts
<1>2. LeaseInv /\ [MNext]_mvars => LeaseInv'
  BY MaintenanceStep, LTypeStep, LeaseInvStep DEF LeaseInv
<1>3. FileInv /\ [MNext]_mvars => FileInv'
  BY <1>2, FileTypes, FilePartsStep DEF FileInv
<1>4. QED
  BY <1>1, <1>3, PTL DEF MSpec

\* Nobody leaves a host without its executable (provider/binary.go:139-154):
\* as long as every operation ends or renews within its lease, an executable
\* is missing only while a replacement is between its two renames or was cut
\* off there by a crash, until a second file operation fails.
THEOREM ExecutableSafe == MSpec => [](faults <= 1 => ExecutableKept)
<1>1. FileInv => (faults <= 1 => ExecutableKept)
  BY DEF FileInv, FileParts, KeptInv
<1>2. QED
  BY <1>1, FileInvCorrect, PTL

\* The same as the property the run checks, whose bound is one fault.
THEOREM ExecutableKeptCorrect == ASSUME MaxFaults <= 1 PROVE MSpec => []ExecutableKept
<1>1. FileInv => ExecutableKept
  <2>1. FileInv => faults <= 1
    BY FaultAssumption DEF FileInv, FilesOK
  <2>2. QED
    BY <2>1 DEF FileInv, FileParts, KeptInv
<1>2. QED
  BY <1>1, FileInvCorrect, PTL
=============================================================================
