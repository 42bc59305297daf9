---------------------------- MODULE SuiteProofs ----------------------------
(***************************************************************************)
(* Type correctness, that the transactions implement AtomicPolicy, that    *)
(* one which has not expired is undone only where it was asked for, and    *)
(* that a remote one has its timer.  Control is what a process that holds  *)
(* the lock knows of the records at each point of store.py: nothing but    *)
(* its own steps changes them.                                             *)
(*                                                                         *)
(* Then the journal: it accounts for all the kernel holds, however the     *)
(* processes, the timers, the reboots and third parties interleave,        *)
(* provided that the operator confirms only tokens that were delivered and *)
(* not rolled back; and with no third party no mixture of two policies     *)
(* outlives it.                                                            *)
(***************************************************************************)
EXTENDS SuiteProps, TLAPS

\* Where the process is in the middle of a journal.
JournalLocations == {"rbExec", "rbCurrent", "rbLast", "rbClear", "apArm", "apUnarm",
                     "apInvalidate", "apExec", "apVerify", "cfRecord", "cfClear"}

Control ==
  /\ pc \in JournalLocations => pending # None
  /\ pc \in {"rbLast", "rbClear", "apArm", "apUnarm", "apInvalidate"} => current = pending.previous
  /\ pc \in {"apArm", "apUnarm", "apInvalidate", "apExec", "apVerify"} => job.tok = pending.tok
  /\ pc \in {"cfRecord", "cfClear"} => current = pending.candidate
  /\ pc \in {"rbRecord", "svBoot"} => current # None
  /\ pc = "gdInstall" => bootPolicy # None

\* The arguments of no command are of the type of a command's.
LEMMA NoJobType == NoJob \in Job
  BY BoundsAssumption DEF NoJob, Job, Bundle, Operations, Continuations

\* An empty store has its type.
LEMMA InitType == Init => TypeOK
  BY BoundsAssumption, NoJobType DEF Init, TypeOK, Kernel, Bundle, Locations

\* The ways a step moves on keep pc and job in their types: it ends, goes
\* on, calls rollback_locked or returns from it.
LEMMA FinishType == Finish => pc' \in Locations /\ job' \in Job
  BY NoJobType DEF Finish, Locations

\* To the next location of the same call.
LEMMA GotoType ==
  ASSUME TypeOK, NEW l \in Locations, Goto(l)
  PROVE  pc' \in Locations /\ job' \in Job
  BY DEF Goto, TypeOK

\* To rollback_locked.
LEMMA UndoType ==
  ASSUME TypeOK, NEW m \in 0..MaxToken, NEW e \in BOOLEAN, NEW l \in Continuations, Undo(m, e, l)
  PROVE  pc' \in Locations /\ job' \in Job
  BY DEF Undo, TypeOK, Job, Locations

\* Back from rollback_locked, maybe to the end of the command.
LEMMA ReturnType ==
  ASSUME TypeOK, NEW l \in Locations, Return(l)
  PROVE  pc' \in Locations /\ job' \in Job
  BY FinishType, GotoType DEF Return

\* Where rollback_locked returns to is a location.
LEMMA ContType == TypeOK => job.cont \in Locations
  BY DEF TypeOK, Job, Continuations, Locations

\* The recovery of whatever journal has expired.
LEMMA RecoverType ==
  ASSUME TypeOK, NEW l \in Continuations, Undo(0, TRUE, l)
  PROVE  pc' \in Locations /\ job' \in Job
<1>1. 0 \in 0..MaxToken
  BY BoundsAssumption
<1> QED
  BY <1>1, UndoType

\* The steps of rollback_locked (store.py 110-140) keep the types.
LEMMA RollbackType == TypeOK /\ Control /\ RollbackStep => TypeOK'
<1> SUFFICES ASSUME TypeOK, Control, RollbackStep PROVE TypeOK'
  OBVIOUS
<1>1. CASE UndoNothing
  BY <1>1, ReturnType, ContType DEF UndoNothing, TypeOK, disk
<1>2. CASE UndoBegin
  <2>1. pc' \in Locations /\ job' \in Job
    BY <1>2, BoundsAssumption DEF UndoBegin, TypeOK, Job, Locations
  <2> QED
    BY <1>2, <2>1 DEF UndoBegin, TypeOK
<1>3. CASE UndoRefused
  BY <1>3, FinishType DEF UndoRefused, TypeOK, disk
<1>4. CASE RollbackExec
  <2>1. pc' \in Locations /\ job' \in Job
    BY <1>4, BoundsAssumption DEF RollbackExec, Goto, TypeOK, Job, Locations
  <2>2. kernel' \in Kernel
    BY <1>4 DEF RollbackExec, Control, JournalLocations, TypeOK, Journal, Kernel, Job, Unit
  <2> QED
    BY <1>4, <2>1, <2>2 DEF RollbackExec, TypeOK, disk
<1>5. CASE RollbackFails
  <2>1. kernel' \in Kernel
    BY <1>5 DEF RollbackFails, Control, JournalLocations, TypeOK, Journal, Kernel, Job, Unit
  <2> QED
    BY <1>5, <2>1, FinishType DEF RollbackFails, TypeOK, disk
<1>6. CASE RollbackCurrent
  BY <1>6 DEF RollbackCurrent, Goto, Control, JournalLocations, TypeOK, Journal, Locations
<1>7. CASE RollbackLast
  BY <1>7, BoundsAssumption DEF RollbackLast, Goto, Control, JournalLocations, TypeOK, Journal, Token, Locations
<1>8. CASE RollbackClear
  <2>1. pc' \in Locations /\ job' \in Job
    BY <1>8, ReturnType, ContType, GotoType DEF RollbackClear, Locations
  <2> QED
    BY <1>8, <2>1 DEF RollbackClear, TypeOK
<1>9. CASE RollbackRecord
  <2>1. pc' \in Locations /\ job' \in Job
    BY <1>9, ReturnType, ContType DEF RollbackRecord
  <2>2. installed' \in Installation \cup {None}
    BY <1>9 DEF RollbackRecord, Control, TypeOK, Installation, Bundle
  <2> QED
    BY <1>9, <2>1, <2>2 DEF RollbackRecord, TypeOK
<1> QED
  BY <1>1, <1>2, <1>3, <1>4, <1>5, <1>6, <1>7, <1>8, <1>9 DEF RollbackStep

\* The steps of confirm_locked (store.py 142-156) keep the types.
LEMMA ConfirmType == TypeOK /\ Control /\ ConfirmStep => TypeOK'
<1> SUFFICES ASSUME TypeOK, Control, ConfirmStep PROVE TypeOK'
  OBVIOUS
<1>1. CASE ConfirmUnknown
  BY <1>1, FinishType DEF ConfirmUnknown, TypeOK, disk
<1>2. CASE ConfirmExpired
  <2>1. pc' \in Locations /\ job' \in Job
    BY <1>2 DEF ConfirmExpired, Undo, TypeOK, Job, Locations, Continuations
  <2> QED
    BY <1>2, <2>1 DEF ConfirmExpired, TypeOK, disk
<1>3. CASE ConfirmCurrent
  BY <1>3 DEF ConfirmCurrent, Goto, TypeOK, Journal, Locations
<1>4. CASE ConfirmRecord
  <2>1. installed' \in Installation \cup {None}
    BY <1>4 DEF ConfirmRecord, Control, JournalLocations, TypeOK, Journal, Installation, Bundle
  <2> QED
    BY <1>4, <2>1 DEF ConfirmRecord, Goto, TypeOK, Locations
<1>5. CASE ConfirmRecordFails
  <2>1. pc' \in Locations /\ job' \in Job
    BY <1>5, FinishType, ZenonT(60) DEF ConfirmRecordFails, Undo, TypeOK, Job, Locations, Continuations
  <2> QED
    BY <1>5, <2>1 DEF ConfirmRecordFails, TypeOK, disk
<1>6. CASE ConfirmClear
  <2>1. pc' \in Locations /\ job' \in Job
    BY <1>6, ReturnType DEF ConfirmClear, Locations
  <2> QED
    BY <1>6, <2>1 DEF ConfirmClear, TypeOK
<1> QED
  BY <1>1, <1>2, <1>3, <1>4, <1>5, <1>6 DEF ConfirmStep

\* What apply_locked journals (store.py 197-204) is a journal.
LEMMA JournalType == ASSUME TypeOK, ApplyJournal PROVE pending' \in Journal
<1>1. Snapshot \in Kernel
  BY DEF Snapshot, TypeOK, Kernel, Bundle
<1> QED
  BY <1>1, BoundsAssumption DEF ApplyJournal, TypeOK, Journal, Job, Token

\* The steps of apply_locked (store.py 158-231) keep the types.
LEMMA ApplyType == TypeOK /\ Control /\ ApplyStep => TypeOK'
<1> SUFFICES ASSUME TypeOK, Control, ApplyStep PROVE TypeOK'
  OBVIOUS
<1>1. CASE ApplyRecover
  <2>1. pc' \in Locations /\ job' \in Job
    BY <1>1, RecoverType DEF ApplyRecover, Continuations
  <2> QED
    BY <1>1, <2>1 DEF ApplyRecover, TypeOK, disk
<1>2. CASE ApplyRefused
  BY <1>2, FinishType DEF ApplyRefused, TypeOK, disk
<1>3. CASE ApplyJournal
  <2>1. pc' \in Locations /\ job' \in Job /\ nextTok' \in 1..(MaxToken + 1)
    BY <1>3, BoundsAssumption DEF ApplyJournal, TypeOK, Job, Locations
  <2>2. pending' \in Journal
    BY <1>3, JournalType
  <2> QED
    BY <1>3, <2>1, <2>2 DEF ApplyJournal, TypeOK
<1>4. CASE ApplyArm
  <2>1. job.tok \in Token
    BY <1>4 DEF ApplyArm, Control, JournalLocations, TypeOK, Journal
  <2> QED
    BY <1>4, <2>1 DEF ApplyArm, Goto, TypeOK, Locations, disk
<1>5. CASE ApplyArmFails
  <2>1. job.tok \in Token
    BY <1>5 DEF ApplyArmFails, Control, JournalLocations, TypeOK, Journal
  <2> QED
    BY <1>5, <2>1 DEF ApplyArmFails, Goto, TypeOK, Locations, disk
<1>6. CASE ApplyUnarm
  BY <1>6, FinishType DEF ApplyUnarm, TypeOK
<1>7. CASE ApplyInvalidate
  <2>1. pc' \in Locations /\ job' \in Job
    BY <1>7, BoundsAssumption DEF ApplyInvalidate, TypeOK, Job, Locations
  <2> QED
    BY <1>7, <2>1 DEF ApplyInvalidate, TypeOK
<1>8. CASE ApplyExec
  <2>1. pc' \in Locations /\ job' \in Job
    BY <1>8, BoundsAssumption DEF ApplyExec, Goto, TypeOK, Job, Locations
  <2>2. kernel' \in Kernel
    BY <1>8 DEF ApplyExec, TypeOK, Kernel, Job, Unit
  <2> QED
    BY <1>8, <2>1, <2>2 DEF ApplyExec, TypeOK, disk
<1>9. CASE ApplyExecFails
  <2>1. pc' \in Locations /\ job' \in Job
    BY <1>9 DEF ApplyExecFails, Undo, TypeOK, Job, Locations, Continuations
  <2>2. kernel' \in Kernel
    BY <1>9 DEF ApplyExecFails, TypeOK, Kernel, Job, Unit
  <2> QED
    BY <1>9, <2>1, <2>2 DEF ApplyExecFails, TypeOK, disk
<1>10. CASE ApplyRejected
  <2>1. pc' \in Locations /\ job' \in Job
    BY <1>10 DEF ApplyRejected, Undo, TypeOK, Job, Locations, Continuations
  <2> QED
    BY <1>10, <2>1 DEF ApplyRejected, TypeOK, disk
<1>11. CASE ApplyAccepted
  BY <1>11 DEF ApplyAccepted, Goto, TypeOK, Locations, disk
<1>12. CASE ApplyHandOver
  <2>1. job.tok \in Token
    BY <1>12 DEF ApplyHandOver, Control, JournalLocations, TypeOK, Journal
  <2> QED
    BY <1>12, <2>1, FinishType DEF ApplyHandOver, TypeOK, disk
<1> QED
  BY <1>1, <1>2, <1>3, <1>4, <1>5, <1>6, <1>7, <1>8, <1>9, <1>10, <1>11, <1>12 DEF ApplyStep

\* The steps of boot.py keep the types.
LEMMA BootType == TypeOK /\ Control /\ BootStep => TypeOK'
<1> SUFFICES ASSUME TypeOK, Control, BootStep PROVE TypeOK'
  OBVIOUS
<1>1. ASSUME NEW o \in Owner, BootPrepare(o) PROVE TypeOK'
  <2>1. bootPolicy' \in Manifest
    BY <1>1 DEF BootPrepare, PrepareAllowed, TypeOK, Bundle, Manifest
  <2> QED
    BY <1>1, <2>1, FinishType DEF BootPrepare, TypeOK
<1>2. CASE BootPrepareRefused
  BY <1>2, FinishType DEF BootPrepareRefused, TypeOK, disk
<1>3. CASE GuardInvalidate
  BY <1>3 DEF GuardInvalidate, Goto, TypeOK, Locations
<1>4. CASE GuardInstall
  <2>1. pc' \in Locations /\ job' \in Job
    BY <1>4, FinishType, RecoverType DEF GuardInstall, Continuations
  <2>2. guard' \in Owner
    BY <1>4 DEF GuardInstall, Control, TypeOK, Manifest
  <2> QED
    BY <1>4, <2>1, <2>2 DEF GuardInstall, TypeOK, disk
<1>5. CASE GuardRefused
  BY <1>5, FinishType DEF GuardRefused, TypeOK, disk
<1>6. CASE Restore
  <2>1. pc' \in Locations /\ job' \in Job
    BY <1>6 DEF Restore, TypeOK, Job, Locations
  <2> QED
    BY <1>6, <2>1 DEF Restore, TypeOK, disk
<1>7. CASE RestoreRefused
  BY <1>7, FinishType DEF RestoreRefused, TypeOK, disk
<1>8. CASE Release
  BY <1>8 DEF Release, Goto, TypeOK, Locations, disk
<1>9. CASE ReleaseRefused
  BY <1>9, FinishType DEF ReleaseRefused, TypeOK, disk
<1>10. CASE Unguard
  BY <1>10, FinishType DEF Unguard, TypeOK, disk
<1>11. CASE DisarmGuard
  BY <1>11 DEF DisarmGuard, Goto, TypeOK, Locations, disk
<1>12. CASE DisarmRefused
  BY <1>12, FinishType DEF DisarmRefused, TypeOK, disk
<1>13. CASE DisarmManifest
  BY <1>13 DEF DisarmManifest, Goto, TypeOK, Locations
<1>14. CASE DisarmInstalled
  BY <1>14, FinishType DEF DisarmInstalled, TypeOK
<1> QED
  BY <1>1, <1>2, <1>3, <1>4, <1>5, <1>6, <1>7, <1>8, <1>9, <1>10, <1>11, <1>12, <1>13, <1>14
     DEF BootStep

\* The bodies of the commands (fw.py 267-327) keep the types.
LEMMA BodyType == TypeOK /\ Control /\ BodyStep => TypeOK'
<1> SUFFICES ASSUME TypeOK, Control, BodyStep PROVE TypeOK'
  OBVIOUS
<1>1. CASE BodyApply
  <2>1. pc' \in Locations /\ job' \in Job
    BY <1>1 DEF BodyApply, Goto, TypeOK, Job, Locations
  <2> QED
    BY <1>1, <2>1 DEF BodyApply, TypeOK, disk
<1>2. CASE BodyConfirm
  BY <1>2 DEF BodyConfirm, Goto, TypeOK, Locations, disk
<1>3. CASE Save
  BY <1>3 DEF Save, Goto, TypeOK, Locations
<1>4. CASE SaveManifest
  <2>1. bootPolicy' \in Manifest \cup {None}
    BY <1>4 DEF SaveManifest, Control, TypeOK, Manifest, Bundle
  <2> QED
    BY <1>4, <2>1, FinishType DEF SaveManifest, TypeOK
<1>5. CASE BodyEnds
  BY <1>5, FinishType DEF BodyEnds, TypeOK, disk
<1> QED
  BY <1>1, <1>2, <1>3, <1>4, <1>5 DEF BodyStep

\* A command or a timer that takes the lock keeps the types.
LEMMA StartType == TypeOK /\ (CommandStarts \/ \E t \in Token : StartTimer(t)) => TypeOK'
<1> SUFFICES ASSUME TypeOK, CommandStarts \/ \E t \in Token : StartTimer(t) PROVE TypeOK'
  OBVIOUS
<1> USE BoundsAssumption
<1>1. ASSUME NEW j \in Job, StartRecovering(j) PROVE TypeOK'
  <2>1. pc' \in Locations /\ job' \in Job
    BY <1>1 DEF StartRecovering, Job, Locations, Continuations
  <2> QED
    BY <1>1, <2>1 DEF StartRecovering, Untouched, TypeOK, disk
<1>2. ASSUME NEW op \in {"apply", "load", "disable"}, NEW c \in Bundle, NEW local \in BOOLEAN,
             NEW verify \in BOOLEAN, StartApply(op, c, local, verify)
      PROVE  TypeOK'
  <2>1. [NoJob EXCEPT !.op = op, !.candidate = c, !.local = local, !.verify = verify] \in Job
    BY NoJobType DEF Job, Operations
  <2> QED
    BY <1>1, <1>2, <2>1 DEF StartApply
<1>3. ASSUME NEW t \in Token, StartConfirm(t) PROVE TypeOK'
  <2> t \in 0..MaxToken
    BY DEF Token
  <2>1. [NoJob EXCEPT !.op = "confirm", !.tok = t] \in Job
    BY NoJobType DEF Job, Operations
  <2> QED
    BY <1>1, <1>3, <2>1 DEF StartConfirm
<1>4. ASSUME NEW op \in {"status", "save"}, StartPlain(op) PROVE TypeOK'
  <2>1. [NoJob EXCEPT !.op = op] \in Job
    BY NoJobType DEF Job, Operations
  <2> QED
    BY <1>1, <1>4, <2>1 DEF StartPlain
<1>5. ASSUME NEW t \in 0..MaxToken, StartRollback(t) PROVE TypeOK'
  <2>1. pc' \in Locations /\ job' \in Job
    BY <1>5, NoJobType DEF StartRollback, Job, Operations, Locations
  <2> QED
    BY <1>5, <2>1 DEF StartRollback, Untouched, TypeOK, disk
<1>6. ASSUME NEW t \in Token, StartTimer(t) PROVE TypeOK'
  <2> t \in 0..MaxToken
    BY DEF Token
  <2>1. pc' \in Locations /\ job' \in Job
    BY <1>6, NoJobType DEF StartTimer, Job, Operations, Locations
  <2> QED
    BY <1>6, <2>1 DEF StartTimer, Untouched, TypeOK, disk
<1>7. ASSUME NEW op \in {"boot-prepare", "boot-guard", "boot-restore", "boot-disarm"}, StartBoot(op)
      PROVE  TypeOK'
  <2>1. pc' \in Locations /\ job' \in Job
    BY <1>7, NoJobType DEF StartBoot, Job, Operations, Locations
  <2> QED
    BY <1>7, <2>1 DEF StartBoot, Untouched, TypeOK, disk
<1> QED
  BY <1>2, <1>3, <1>4, <1>5, <1>6, <1>7 DEF CommandStarts, Bundle

\* So do deadlines, crashes, reboots and third parties.
LEMMA EnvironmentType == TypeOK /\ Environment => TypeOK'
<1> SUFFICES ASSUME TypeOK, Environment PROVE TypeOK'
  OBVIOUS
<1>1. ASSUME NEW t \in Token, Expire(t) PROVE TypeOK'
  BY <1>1 DEF Expire, TypeOK, disk
<1>2. CASE Crash
  BY <1>2, FinishType DEF Crash, TypeOK, disk
<1>3. CASE Reboot
  BY <1>3, FinishType, BoundsAssumption DEF Reboot, TypeOK, disk, Kernel, Bundle
<1>4. ASSUME NEW u \in Unit, Flush(u) PROVE TypeOK'
  BY <1>4 DEF Flush, TypeOK, disk, Kernel, Bundle
<1> QED
  BY <1>1, <1>2, <1>3, <1>4 DEF Environment

\* Every step of the process that holds the lock keeps the types.
LEMMA ProcessType == TypeOK /\ Control /\ ProcessStep => TypeOK'
  BY RollbackType, ConfirmType, ApplyType, BootType, BodyType DEF ProcessStep

\* Every step does.
LEMMA StepType == TypeOK /\ Control /\ [Next]_vars => TypeOK'
<1>1. ASSUME TypeOK, UNCHANGED vars PROVE TypeOK'
  BY <1>1 DEF TypeOK, vars, disk
<1> QED
  BY <1>1, StartType, ProcessType, EnvironmentType DEF Next
----------------------------------------------------------------------------
\* Where Control claims nothing of the records.
QuietLocations == {"idle", "body", "undo", "apply", "restore", "release", "unguard", "cfCheck",
                   "gdInvalidate", "daGuard", "daManifest", "daInstalled"}

\* A step to such a place has nothing to show.
LEMMA QuietControl == pc' \in QuietLocations => Control'
  BY DEF QuietLocations, Control, JournalLocations

\* rollback_locked returns to such a place.
LEMMA ReturnQuiet == ASSUME TypeOK, Return(job.cont) PROVE pc' \in QuietLocations
  BY DEF TypeOK, Job, Continuations, Return, Goto, Finish, QuietLocations

\* Every step keeps Control.
LEMMA StepControl == TypeOK /\ Control /\ [Next]_vars => Control'
<1> SUFFICES ASSUME TypeOK, Control, [Next]_vars PROVE Control'
  OBVIOUS
<1> USE QuietControl
<1>1. CASE RollbackStep
  <2>1. CASE UndoNothing \/ UndoRefused \/ RollbackFails \/ RollbackRecord
    BY <2>1, ReturnQuiet DEF UndoNothing, UndoRefused, RollbackFails, RollbackRecord, Finish, QuietLocations
  <2>2. CASE UndoBegin
    BY <2>2 DEF UndoBegin, NothingToUndo, Control, JournalLocations
  <2>3. CASE RollbackExec
    BY <2>3 DEF RollbackExec, Goto, Control, JournalLocations, disk
  <2>4. CASE RollbackCurrent
    BY <2>4 DEF RollbackCurrent, Goto, Control, JournalLocations
  <2>5. CASE RollbackLast
    BY <2>5 DEF RollbackLast, Goto, Control, JournalLocations
  <2>6. CASE RollbackClear
    BY <2>6, ReturnQuiet DEF RollbackClear, Goto, Control, JournalLocations
  <2> QED
    BY <1>1, <2>1, <2>2, <2>3, <2>4, <2>5, <2>6 DEF RollbackStep
<1>2. CASE ConfirmStep
  <2>1. CASE ConfirmUnknown \/ ConfirmExpired \/ ConfirmRecordFails \/ ConfirmClear
    BY <2>1 DEF ConfirmUnknown, ConfirmExpired, ConfirmRecordFails, ConfirmClear,
                Return, Goto, Undo, Finish, QuietLocations
  <2>2. CASE ConfirmCurrent
    BY <2>2 DEF ConfirmCurrent, Goto, Control, JournalLocations
  <2>3. CASE ConfirmRecord
    BY <2>3 DEF ConfirmRecord, Goto, Control, JournalLocations
  <2> QED
    BY <1>2, <2>1, <2>2, <2>3 DEF ConfirmStep
<1>3. CASE ApplyStep
  <2>1. CASE \/ ApplyRecover \/ ApplyRefused \/ ApplyUnarm \/ ApplyExecFails
             \/ ApplyRejected \/ ApplyAccepted \/ ApplyHandOver
    BY <2>1 DEF ApplyRecover, ApplyRefused, ApplyUnarm, ApplyExecFails,
                ApplyRejected, ApplyAccepted, ApplyHandOver, Goto, Undo, Finish, QuietLocations
  <2>2. CASE ApplyJournal
    <3>1. pending' # None /\ pending'.previous = current /\ pending'.tok = nextTok
          /\ job'.tok = nextTok
      <4>1. pending' \in Journal
        BY <2>2, JournalType
      <4> QED
        BY <2>2, <4>1, NoneAssumption DEF ApplyJournal, TypeOK, Job
    <3> QED
      BY <2>2, <3>1 DEF ApplyJournal, Control, JournalLocations
  <2>3. CASE ApplyArm \/ ApplyArmFails
    BY <2>3 DEF ApplyArm, ApplyArmFails, Goto, Control, JournalLocations, disk
  <2>4. CASE ApplyInvalidate
    BY <2>4 DEF ApplyInvalidate, Control, JournalLocations, TypeOK, Job
  <2>5. CASE ApplyExec
    BY <2>5 DEF ApplyExec, Goto, Control, JournalLocations, TypeOK, Job, disk
  <2> QED
    BY <1>3, <2>1, <2>2, <2>3, <2>4, <2>5 DEF ApplyStep
<1>4. CASE BootStep
  <2>1. CASE GuardInvalidate
    BY <2>1 DEF GuardInvalidate, Goto, Control, JournalLocations
  <2>2. CASE BootStep /\ ~GuardInvalidate
    BY <2>2 DEF BootStep, BootPrepare, BootPrepareRefused, GuardInstall, GuardRefused, Restore,
                RestoreRefused, Release, ReleaseRefused, Unguard, DisarmGuard, DisarmRefused,
                DisarmManifest, DisarmInstalled, Goto, Undo, Finish, QuietLocations
  <2> QED
    BY <1>4, <2>1, <2>2
<1>5. CASE BodyStep
  <2>1. CASE Save
    BY <2>1 DEF Save, SaveAllowed, Goto, Control, JournalLocations
  <2>2. CASE BodyStep /\ ~Save
    BY <2>2 DEF BodyStep, BodyApply, BodyConfirm, SaveManifest, BodyEnds, Goto, Finish, QuietLocations
  <2> QED
    BY <1>5, <2>1, <2>2
<1>6. CASE CommandStarts \/ \E t \in Token : StartTimer(t)
  BY <1>6 DEF CommandStarts, StartApply, StartConfirm, StartPlain, StartRollback, StartTimer,
              StartBoot, StartRecovering, QuietLocations
<1>7. CASE Environment
  <2>1. CASE Crash \/ Reboot
    BY <2>1 DEF Crash, Reboot, Finish, QuietLocations
  <2>2. CASE \E t \in Token : Expire(t)
    BY <2>2 DEF Expire, Control, disk
  <2>3. CASE \E u \in Unit : Flush(u)
    BY <2>3 DEF Flush, Control, disk
  <2> QED
    BY <1>7, <2>1, <2>2, <2>3 DEF Environment
<1>8. CASE UNCHANGED vars
  BY <1>8 DEF vars, disk, Control
<1> QED
  BY <1>1, <1>2, <1>3, <1>4, <1>5, <1>6, <1>7, <1>8 DEF Next, ProcessStep

\* Every record, token and argument of every reachable state is of its type,
\* whatever the policies, the commits of a transaction and the commands.
THEOREM TypeCorrect == Spec => []TypeOK
<1>1. Init => TypeOK /\ Control
  BY InitType DEF Init, Control, JournalLocations
<1>2. TypeOK /\ Control /\ [Next]_vars => (TypeOK /\ Control)'
  BY StepType, StepControl
<1> QED
  BY <1>1, <1>2, PTL DEF Spec

\* What the process assumes of the records holds wherever it is (store.py
\* 110-231): the journal it is in the middle of is still there and is its own.
THEOREM ControlCorrect == Spec => [](TypeOK /\ Control)
<1>1. Init => TypeOK /\ Control
  BY InitType DEF Init, Control, JournalLocations
<1>2. TypeOK /\ Control /\ [Next]_vars => (TypeOK /\ Control)'
  BY StepType, StepControl
<1> QED
  BY <1>1, <1>2, PTL DEF Spec
----------------------------------------------------------------------------
\* What the abstract state is computed from.
Records == <<current, pending, nextTok>>

\* What a step may do to it.
Decides == [A!ANext]_(A!aVars) /\ (Official' # Official => pc = "cfClear")

\* A step that leaves the records alone is a stutter of AtomicPolicy.
LEMMA StutterDecision == UNCHANGED Records => Decides
  BY DEF Records, Decides, A!aVars, Official

\* Every step of the suite offers, accepts, withdraws or stutters, and accepts
\* only where confirm_locked deletes the journal.
LEMMA StepDecision == TypeOK /\ Control /\ [Next]_vars => Decides
<1> SUFFICES ASSUME TypeOK, Control, [Next]_vars PROVE Decides
  OBVIOUS
<1> USE StutterDecision
<1>1. CASE RollbackStep
  <2>1. CASE RollbackCurrent
    BY <2>1 DEF RollbackCurrent, Control, JournalLocations, Decides, A!aVars, Official
  <2>2. CASE RollbackClear
    BY <2>2 DEF RollbackClear, Control, JournalLocations, Decides, A!ANext, A!Withdraw, Official
  <2>3. CASE RollbackStep /\ ~RollbackCurrent /\ ~RollbackClear
    BY <2>3 DEF RollbackStep, UndoNothing, UndoBegin, UndoRefused, RollbackExec, RollbackFails,
                RollbackLast, RollbackRecord, Records, disk
  <2> QED
    BY <1>1, <2>1, <2>2, <2>3
<1>2. CASE ConfirmStep
  <2>1. CASE ConfirmCurrent
    BY <2>1 DEF ConfirmCurrent, Decides, A!aVars, Official
  <2>2. CASE ConfirmClear
    BY <2>2 DEF ConfirmClear, Control, JournalLocations, Decides, A!ANext, A!Accept, Official
  <2>3. CASE ConfirmStep /\ ~ConfirmCurrent /\ ~ConfirmClear
    BY <2>3 DEF ConfirmStep, ConfirmUnknown, ConfirmExpired, ConfirmRecord, ConfirmRecordFails,
                Records, disk
  <2> QED
    BY <1>2, <2>1, <2>2, <2>3
<1>3. CASE ApplyStep
  <2>1. CASE ApplyJournal
    <3>1. pending' \in Journal
      BY <2>1, JournalType
    <3>2. pending' # None
      BY <3>1, NoneAssumption
    <3>3. A!Offer(job.candidate)
      BY <2>1, <3>2 DEF ApplyJournal, TypeOK, A!Offer, Official
    <3>4. job.candidate \in Policy \cup {None}
      BY DEF TypeOK, Job, Bundle
    <3>5. Official' = Official
      BY <2>1, <3>2 DEF ApplyJournal, Official
    <3> QED
      BY <3>3, <3>4, <3>5 DEF Decides, A!ANext
  <2>2. CASE ApplyUnarm
    BY <2>2 DEF ApplyUnarm, Control, JournalLocations, Decides, A!ANext, A!Withdraw, Official
  <2>3. CASE ApplyStep /\ ~ApplyJournal /\ ~ApplyUnarm
    BY <2>3 DEF ApplyStep, ApplyRecover, ApplyRefused, ApplyArm, ApplyArmFails, ApplyInvalidate,
                ApplyExec, ApplyExecFails, ApplyRejected, ApplyAccepted, ApplyHandOver, Records, disk
  <2> QED
    BY <1>3, <2>1, <2>2, <2>3
<1>4. CASE BootStep
  BY <1>4 DEF BootStep, BootPrepare, BootPrepareRefused, GuardInvalidate, GuardInstall, GuardRefused,
              Restore, RestoreRefused, Release, ReleaseRefused, Unguard, DisarmGuard, DisarmRefused,
              DisarmManifest, DisarmInstalled, Records, disk
<1>5. CASE BodyStep
  BY <1>5 DEF BodyStep, BodyApply, BodyConfirm, Save, SaveManifest, BodyEnds, Records, disk
<1>6. CASE CommandStarts \/ \E t \in Token : StartTimer(t)
  BY <1>6 DEF CommandStarts, StartApply, StartConfirm, StartPlain, StartRollback, StartTimer,
              StartBoot, StartRecovering, Untouched, Records, disk
<1>7. CASE Environment
  BY <1>7 DEF Environment, Expire, Crash, Reboot, Flush, Records, disk
<1>8. CASE UNCHANGED vars
  BY <1>8 DEF vars, disk, Records
<1> QED
  BY <1>1, <1>2, <1>3, <1>4, <1>5, <1>6, <1>7, <1>8 DEF Next, ProcessStep

\* The transactions of store.py implement AtomicPolicy: each is decided once,
\* and only its confirmation changes the official policy, however crashes,
\* timers and repeated rollbacks interleave.
THEOREM DecidedOnce == Spec => OneDecision
<1>1. Init => A!AInit
  BY DEF Init, A!AInit, Official
<1>2. TypeOK /\ Control /\ [Next]_vars
         => [A!ANext]_(A!aVars) /\ [Official' # Official => pc = "cfClear"]_vars
  BY StepDecision DEF Decides
<1> QED
  BY <1>1, <1>2, ControlCorrect, PTL DEF Spec, OneDecision, A!ASpec
----------------------------------------------------------------------------
\* An unconditional recovery names its transaction, unless an operator asks for
\* it, and what is being undone is that transaction or an expired one.
Asked ==
  /\ pc = "undo" /\ ~job.expiredOnly => job.op = "rollback" \/ (job.match = job.tok /\ job.tok # 0)
  /\ pc \in {"rbExec", "rbCurrent", "rbLast", "rbClear"} =>
       Expired(pending) \/ job.op = "rollback" \/ job.tok = pending.tok
  /\ pc \in {"cfRecord", "cfClear"} => job.tok = pending.tok

\* Where Asked claims nothing.
LEMMA AskedElsewhere ==
  ASSUME pc' \notin {"undo", "rbExec", "rbCurrent", "rbLast", "rbClear", "cfRecord", "cfClear"}
  PROVE  Asked'
  BY DEF Asked

\* A recovery of what has expired asks nobody.
LEMMA AskedExpired ==
  ASSUME TypeOK, NEW l \in Continuations, Undo(0, TRUE, l)
  PROVE  Asked'
  BY DEF Undo, TypeOK, Job, Asked

\* An application or a confirmation undoes its own transaction.
LEMMA AskedOwn ==
  ASSUME TypeOK, job.tok \in Token, NEW l \in Continuations, Undo(job.tok, FALSE, l)
  PROVE  Asked'
  BY DEF Undo, TypeOK, Job, Token, Asked

\* Every step keeps Asked.
LEMMA StepAsked == TypeOK /\ Control /\ Asked /\ [Next]_vars => Asked'
<1> SUFFICES ASSUME TypeOK, Control, Asked, [Next]_vars PROVE Asked'
  OBVIOUS
<1>1. CASE RollbackStep
  <2>1. CASE UndoBegin
    <3>1. pending # None /\ (job.match \in {0, pending.tok}) /\ (job.expiredOnly => Expired(pending))
      BY <2>1 DEF UndoBegin, NothingToUndo
    <3>2. job'.op = job.op /\ job'.tok = job.tok /\ pending' = pending /\ Expired(pending)' = Expired(pending)
      BY <2>1 DEF UndoBegin, TypeOK, Job, Expired
    <3> QED
      BY <2>1, <3>1, <3>2 DEF UndoBegin, Asked
  <2>2. CASE RollbackExec
    BY <2>2 DEF RollbackExec, Goto, TypeOK, Job, Asked, Expired, disk
  <2>3. CASE RollbackCurrent \/ RollbackLast
    BY <2>3 DEF RollbackCurrent, RollbackLast, Goto, Asked, Expired
  <2>4. CASE RollbackStep /\ ~UndoBegin /\ ~RollbackExec /\ ~RollbackCurrent /\ ~RollbackLast
    BY <2>4, AskedElsewhere DEF RollbackStep, UndoNothing, UndoRefused, RollbackFails, RollbackClear,
       RollbackRecord, Return, Goto, Finish, TypeOK, Job, Continuations
  <2> QED
    BY <1>1, <2>1, <2>2, <2>3, <2>4
<1>2. CASE ConfirmStep
  <2>1. CASE ConfirmExpired
    <3>1. job.tok \in Token
      BY <2>1 DEF ConfirmExpired, TypeOK, Journal
    <3> QED
      BY <2>1, <3>1, AskedOwn DEF ConfirmExpired, Continuations
  <2>2. CASE ConfirmRecordFails
    <3>1. job.tok \in Token
      BY <2>2 DEF ConfirmRecordFails, Control, JournalLocations, Asked, TypeOK, Journal
    <3> QED
      BY <2>2, <3>1, AskedOwn, AskedElsewhere DEF ConfirmRecordFails, Finish, Continuations
  <2>3. CASE ConfirmCurrent \/ ConfirmRecord
    BY <2>3 DEF ConfirmCurrent, ConfirmRecord, Goto, Asked
  <2>4. CASE ConfirmUnknown \/ ConfirmClear
    BY <2>4, AskedElsewhere DEF ConfirmUnknown, ConfirmClear, Return, Goto, Finish
  <2> QED
    BY <1>2, <2>1, <2>2, <2>3, <2>4 DEF ConfirmStep
<1>3. CASE ApplyStep
  <2>1. CASE ApplyRecover
    BY <2>1, AskedExpired DEF ApplyRecover, Continuations
  <2>2. CASE ApplyExecFails \/ ApplyRejected
    <3>1. job.tok \in Token
      BY <2>2 DEF ApplyExecFails, ApplyRejected, Control, JournalLocations, TypeOK, Journal
    <3> QED
      BY <2>2, <3>1, AskedOwn DEF ApplyExecFails, ApplyRejected, Continuations
  <2>3. CASE ApplyStep /\ ~ApplyRecover /\ ~ApplyExecFails /\ ~ApplyRejected
    BY <2>3, AskedElsewhere DEF ApplyStep, ApplyRefused, ApplyJournal, ApplyArm, ApplyArmFails,
       ApplyUnarm, ApplyInvalidate, ApplyExec, ApplyAccepted, ApplyHandOver, Goto, Finish
  <2> QED
    BY <1>3, <2>1, <2>2, <2>3
<1>4. CASE BootStep
  <2>1. CASE GuardInstall
    BY <2>1, AskedExpired, AskedElsewhere DEF GuardInstall, Finish, Continuations
  <2>2. CASE BootStep /\ ~GuardInstall
    BY <2>2, AskedElsewhere DEF BootStep, BootPrepare, BootPrepareRefused, GuardInvalidate, GuardRefused,
       Restore, RestoreRefused, Release, ReleaseRefused, Unguard, DisarmGuard, DisarmRefused,
       DisarmManifest, DisarmInstalled, Goto, Finish
  <2> QED
    BY <1>4, <2>1, <2>2
<1>5. CASE BodyStep
  BY <1>5, AskedElsewhere DEF BodyStep, BodyApply, BodyConfirm, Save, SaveManifest, BodyEnds, Goto, Finish
<1>6. CASE CommandStarts
  BY <1>6, BoundsAssumption DEF CommandStarts, StartApply, StartConfirm, StartPlain, StartRollback,
     StartBoot, StartRecovering, NoJob, Asked
<1>7. ASSUME NEW t \in Token, StartTimer(t) PROVE Asked'
  BY <1>7, BoundsAssumption DEF StartTimer, NoJob, Asked, Token
<1>8. CASE Environment
  <2>1. CASE Crash \/ Reboot
    BY <2>1, AskedElsewhere DEF Crash, Reboot, Finish
  <2>2. ASSUME NEW t \in Token, Expire(t) PROVE Asked'
    BY <2>2 DEF Expire, Asked, Expired, disk
  <2>3. ASSUME NEW u \in Unit, Flush(u) PROVE Asked'
    BY <2>3 DEF Flush, Asked, Expired, disk
  <2> QED
    BY <1>8, <2>1, <2>2, <2>3 DEF Environment
<1>9. CASE UNCHANGED vars
  BY <1>9 DEF vars, disk, Asked, Expired
<1> QED
  BY <1>1, <1>2, <1>3, <1>4, <1>5, <1>6, <1>7, <1>8, <1>9 DEF Next, ProcessStep

\* Within its deadline a transaction is undone by the operator or by the very
\* command that started or names it, never by an earlier transaction's timer or
\* another command's recovery (store.py 110-140).
THEOREM UnexpiredSafe == Spec => UnexpiredKept
<1>1. Init => Asked
  BY DEF Init, NoJob, Asked
<1>2. TypeOK /\ Control /\ Asked /\ [Next]_vars => Asked'
  BY StepAsked
<1>3. Asked => (pc = "rbClear" /\ pending # None /\ pending' = None /\ ~Expired(pending)
                  => job.op = "rollback" \/ job.tok = pending.tok)
  BY DEF Asked
<1>4. Asked /\ [Next]_vars
        => [pc = "rbClear" /\ pending # None /\ pending' = None /\ ~Expired(pending)
              => job.op = "rollback" \/ job.tok = pending.tok]_vars
  BY <1>3
<1> QED
  BY <1>1, <1>2, <1>4, ControlCorrect, PTL DEF Spec, UnexpiredKept
----------------------------------------------------------------------------
\* Tokens are not used twice and journals are not of a later boot ...
Fresh ==
  /\ \A t \in handed : t < nextTok
  /\ pending # None => pending.tok < nextTok /\ pending.boot <= boot

\* ... so a timer that is armed before the first commit stays armed until the
\* deadline or a reboot.
Guarded == pending.tok \in handed \/ (pc \in {"apInvalidate", "apExec", "apVerify"} /\ ~job.local)
Armed == pending # None /\ ~Expired(pending) /\ Guarded => pending.tok \in timers

\* The steps that leave journal and timers alone and do not come to guard more.
LEMMA KeepsArmed ==
  ASSUME Fresh, Armed, UNCHANGED <<pending, boot, timers, nextTok>>, handed' \subseteq handed,
         expired \subseteq expired',
         \/ pc' \notin {"apInvalidate", "apExec", "apVerify"}
         \/ pc \in {"apInvalidate", "apExec"} /\ job'.local = job.local
  PROVE  Fresh' /\ Armed'
  BY DEF Fresh, Armed, Guarded, Expired

\* The steps that drop the journal.
LEMMA ClearsArmed ==
  ASSUME Fresh, pending' = None, UNCHANGED <<handed, nextTok>>
  PROVE  Fresh' /\ Armed'
  BY DEF Fresh, Armed

\* Every step keeps the timer of a transaction that needs one.
LEMMA StepArmed == TypeOK /\ Control /\ Fresh /\ Armed /\ [Next]_vars => (Fresh /\ Armed)'
<1> SUFFICES ASSUME TypeOK, Control, Fresh, Armed, [Next]_vars PROVE Fresh' /\ Armed'
  OBVIOUS
<1>1. CASE RollbackStep
  <2>1. CASE RollbackClear
    BY <2>1, ClearsArmed DEF RollbackClear
  <2>2. CASE RollbackStep /\ ~RollbackClear
    BY <2>2, KeepsArmed DEF RollbackStep, UndoNothing, UndoBegin, UndoRefused, RollbackExec,
       RollbackFails, RollbackCurrent, RollbackLast, RollbackRecord, Return, Goto, Finish, TypeOK, Job,
       Continuations, disk
  <2> QED
    BY <1>1, <2>1, <2>2
<1>2. CASE ConfirmStep
  <2>1. CASE ConfirmClear
    BY <2>1, ClearsArmed DEF ConfirmClear
  <2>2. CASE ConfirmStep /\ ~ConfirmClear
    BY <2>2, KeepsArmed DEF ConfirmStep, ConfirmUnknown, ConfirmExpired, ConfirmCurrent, ConfirmRecord,
       ConfirmRecordFails, Undo, Goto, Finish, disk
  <2> QED
    BY <1>2, <2>1, <2>2
<1>3. CASE ApplyStep
  <2>1. CASE ApplyJournal
    <3>1. /\ pending'.tok = nextTok /\ pending'.boot = boot /\ nextTok' = nextTok + 1
          /\ handed' = handed /\ boot' = boot
      BY <2>1 DEF ApplyJournal
    <3>2. nextTok \in Nat /\ boot \in Nat /\ handed \subseteq Nat
      BY BoundsAssumption DEF TypeOK, Token
    <3>3. Fresh'
      BY <3>1, <3>2 DEF Fresh
    <3>4. pending'.tok \notin handed'
      BY <3>1, <3>2 DEF Fresh
    <3>5. ~(pc' \in {"apInvalidate", "apExec", "apVerify"} /\ ~job'.local)
      BY <2>1 DEF ApplyJournal, TypeOK, Job
    <3> QED
      BY <3>3, <3>4, <3>5 DEF Armed, Guarded
  <2>2. CASE ApplyArm
    BY <2>2 DEF ApplyArm, Goto, Control, Fresh, Armed, disk
  <2>3. CASE ApplyArmFails
    BY <2>3 DEF ApplyArmFails, Goto, Fresh, Armed, Guarded, Expired, disk
  <2>4. CASE ApplyUnarm
    BY <2>4, ClearsArmed DEF ApplyUnarm
  <2>5. CASE ApplyInvalidate \/ ApplyExec
    BY <2>5, KeepsArmed DEF ApplyInvalidate, ApplyExec, Goto, TypeOK, Job, disk
  <2>6. CASE ApplyHandOver
    <3>1. pending # None /\ job.tok = pending.tok
      BY <2>6 DEF ApplyHandOver, Control, JournalLocations
    <3> QED
      BY <2>6, <3>1 DEF ApplyHandOver, Finish, Fresh, Armed, Guarded, Expired, disk
  <2>7. CASE \/ ApplyRecover \/ ApplyRefused \/ ApplyExecFails \/ ApplyRejected \/ ApplyAccepted
    BY <2>7, KeepsArmed DEF ApplyRecover, ApplyRefused, ApplyExecFails, ApplyRejected, ApplyAccepted,
       Undo, Goto, Finish, disk
  <2> QED
    BY <1>3, <2>1, <2>2, <2>3, <2>4, <2>5, <2>6, <2>7 DEF ApplyStep
<1>4. CASE BootStep
  BY <1>4, KeepsArmed DEF BootStep, BootPrepare, BootPrepareRefused, GuardInvalidate, GuardInstall,
     GuardRefused, Restore, RestoreRefused, Release, ReleaseRefused, Unguard, DisarmGuard,
     DisarmRefused, DisarmManifest, DisarmInstalled, Undo, Goto, Finish, disk
<1>5. CASE BodyStep
  BY <1>5, KeepsArmed DEF BodyStep, BodyApply, BodyConfirm, Save, SaveManifest, BodyEnds, Goto, Finish, disk
<1>6. CASE CommandStarts
  BY <1>6, KeepsArmed DEF CommandStarts, StartApply, StartConfirm, StartPlain, StartRollback,
     StartBoot, StartRecovering, Untouched, disk
<1>7. ASSUME NEW t \in Token, StartTimer(t) PROVE Fresh' /\ Armed'
  BY <1>7 DEF StartTimer, Untouched, Fresh, Armed, Guarded, Expired, disk
<1>8. CASE Environment
  <2>1. ASSUME NEW t \in Token, Expire(t) PROVE Fresh' /\ Armed'
    BY <2>1 DEF Expire, Fresh, Armed, Guarded, Expired, disk
  <2>2. CASE Crash
    BY <2>2, KeepsArmed DEF Crash, Finish, disk
  <2>3. CASE Reboot
    BY <2>3 DEF Reboot, Fresh, Armed, Expired, TypeOK, Journal, disk
  <2>4. ASSUME NEW u \in Unit, Flush(u) PROVE Fresh' /\ Armed'
    BY <2>4 DEF Flush, Fresh, Armed, Guarded, Expired, disk
  <2> QED
    BY <1>8, <2>1, <2>2, <2>3, <2>4 DEF Environment
<1>9. CASE UNCHANGED vars
  BY <1>9 DEF vars, disk, Fresh, Armed, Guarded, Expired
<1> QED
  BY <1>1, <1>2, <1>3, <1>4, <1>5, <1>6, <1>7, <1>8, <1>9 DEF Next, ProcessStep

\* A transaction that may be confirmed by hand, or that changes the kernel for a
\* remote operator, has its timer armed until its deadline passes or the machine
\* restarts (store.py 202-231).
THEOREM WatchedSafe == Spec => []Watched
<1>1. Init => Fresh /\ Armed
  BY DEF Init, Fresh, Armed
<1>2. TypeOK /\ Control /\ Fresh /\ Armed /\ [Next]_vars => (Fresh /\ Armed)'
  BY StepArmed
<1>3. Armed => Watched
  BY DEF Armed, Guarded, Watched
<1> QED
  BY <1>1, <1>2, <1>3, ControlCorrect, PTL DEF Spec

(***************************************************************************)
(* The journal and the kernel                                              *)
(***************************************************************************)
\* The kernel holds nothing but these.
Holds(ps) == \A u \in Unit : kernel[u] \in {None} \cup ps

Applying   == {"apArm", "apUnarm", "apInvalidate", "apExec", "apVerify"}
Confirming == {"cfCheck", "cfRecord", "cfClear"}
Restoring  == {"rbExec", "rbCurrent", "rbLast", "rbClear"}

\* Only the process that wrote a journal, or a confirmation, gets to the steps
\* that rename the transaction of a command.
Roles ==
  /\ pc \in Applying \cup {"apply"} \/ job.cont = "apply" => job.op \in ApplyOps
  /\ pc = "restore" \/ job.cont = "restore" => job.op = "boot-restore"
  /\ pc \in Confirming => job.op \in ApplyOps \cup {"confirm"}
  /\ job.op = "confirm" => job.tok \in handed
  /\ job.op = "timer" => job.tok \in expired /\ job.match = job.tok

\* Tokens are fresh, and a snapshot restores nothing but the previous policy.
Journals ==
  /\ \A t \in handed : t < nextTok
  /\ pending # None =>
       /\ pending.tok < nextTok
       /\ \A u \in Unit : pending.snapshot[u] \in {None, pending.previous}

\* A delivered token stands for a complete application ...
Delivered ==
  pending # None /\ ~Expired(pending) /\ pending.tok \in handed => Holds({pending.candidate})

\* ... so a transaction is undone only if its token cannot be confirmed any more.
Undoable == Expired(pending) \/ pending.tok \notin handed
UndoJustified ==
  /\ pc = "undo" /\ ~NothingToUndo => job.op = "rollback" \/ Undoable
  /\ pc \in Restoring => Undoable

RollbackProgress ==
  /\ pc = "rbExec" =>
       \A u \in Unit : u < job.unit => kernel[u] \in {None, pending.previous}
  /\ pc \in {"rbCurrent", "rbLast", "rbClear"} => Holds({pending.previous})

ApplyProgress ==
  /\ pc \in Applying => pending.tok \notin handed /\ pending.candidate = job.candidate
  /\ pc \in {"apArm", "apUnarm", "apInvalidate"} => Holds({pending.previous})
  /\ pc = "apExec" =>
       \A u \in Unit : u < job.unit => kernel[u] \in {None, pending.candidate}
  /\ pc = "apVerify" => Holds({pending.candidate})

ConfirmProgress ==
  /\ pc = "cfCheck" /\ pending # None /\ job.tok = pending.tok =>
       /\ ~Expired(pending) => Holds({pending.candidate})
       /\ job.op \in ApplyOps => pending.tok \notin handed
  /\ pc \in {"cfRecord", "cfClear"} =>
       /\ Holds({pending.candidate})
       /\ job.tok = pending.tok
       /\ job.op \in ApplyOps => pending.tok \notin handed

Ledger ==
  /\ KernelJournaled
  /\ Roles
  /\ Journals
  /\ Delivered
  /\ UndoJustified
  /\ RollbackProgress
  /\ ApplyProgress
  /\ ConfirmProgress
----------------------------------------------------------------------------
\* A step that changes nothing but where the process is.
Still == UNCHANGED <<current, pending, kernel, handed, boot, expired, nextTok>>
Halfway == Applying \cup Confirming \cup Restoring \cup {"undo"}

\* Outside a transaction there is nothing to show but the roles.
LEMMA Quiet ==
  ASSUME Ledger, Still, Roles', pc' \notin Halfway
  PROVE  Ledger'
  BY DEF Halfway, Still, Ledger, KernelJournaled, Journals, Delivered, UndoJustified,
         RollbackProgress, ApplyProgress, ConfirmProgress, Holds, Expired, Applying, Confirming,
         Restoring

\* A command that ends without a write keeps the ledger.
LEMMA Ends == ASSUME Ledger, Still, Finish PROVE Ledger'
<1>1. Roles' /\ pc' \notin Halfway
  BY DEF Finish, NoJob, Roles, Halfway, Applying, Confirming, Restoring
<1> QED
  BY <1>1, Quiet

\* A call of rollback_locked.
LEMMA Calls ==
  ASSUME Ledger, Still, Roles', pc' = "undo",
         ~NothingToUndo' => job'.op = "rollback" \/ Undoable'
  PROVE  Ledger'
  BY DEF Still, Ledger, KernelJournaled, Journals, Delivered, UndoJustified, RollbackProgress,
         ApplyProgress, ConfirmProgress, Holds, Expired, Applying, Confirming, Restoring

\* Its return.
LEMMA Returns ==
  ASSUME TypeOK, Ledger, Return(job.cont), handed' = handed, expired' = expired
  PROVE  Roles' /\ pc' \notin Halfway
  BY DEF TypeOK, Job, Continuations, Return, Goto, Finish, NoJob, Ledger, Roles, Halfway,
         Applying, Confirming, Restoring
----------------------------------------------------------------------------
\* rollback_locked keeps the ledger: what it undoes cannot be confirmed any more.
LEMMA RollbackLedger == TypeOK /\ Control /\ Ledger /\ RollbackStep => Ledger'
<1> SUFFICES ASSUME TypeOK, Control, Ledger, RollbackStep PROVE Ledger'
  OBVIOUS
<1>1. CASE UndoNothing
  BY <1>1, Returns, Quiet DEF UndoNothing, Still, disk
<1>2. CASE UndoBegin
  <2>1. Undoable' /\ pending # None
    BY <1>2 DEF UndoBegin, NothingToUndo, Ledger, UndoJustified, Undoable, Expired
  <2>2. Roles'
    BY <1>2 DEF UndoBegin, TypeOK, Job, Ledger, Roles, Applying, Confirming
  <2>3. RollbackProgress' /\ UndoJustified'
    BY <1>2, <2>1 DEF UndoBegin, TypeOK, Job, Unit, RollbackProgress, UndoJustified
  <2> QED
    BY <1>2, <2>1, <2>2, <2>3 DEF UndoBegin, Ledger, KernelJournaled, Journals, Delivered, Expired,
       Holds, ApplyProgress, ConfirmProgress, Applying
<1>3. CASE UndoRefused
  BY <1>3, Ends DEF UndoRefused, Still, disk
<1>4. CASE RollbackExec
  <2>1. pending' = pending /\ pending # None /\ Undoable /\ job'.op = job.op
    BY <1>4 DEF RollbackExec, Goto, TypeOK, Job, disk, Control, JournalLocations, Ledger,
       UndoJustified, Restoring
  <2>2. \A u \in Unit : pending.snapshot[u] \in {None, pending.previous}
    BY <2>1 DEF Ledger, Journals
  <2>3. \A u \in Unit : u <= job.unit => kernel'[u] \in {None, pending.previous}
    BY <1>4, <2>2 DEF RollbackExec, Ledger, RollbackProgress, TypeOK, Kernel, Job, Unit
  <2>4. KernelJournaled'
    BY <1>4, <2>1, <2>2 DEF RollbackExec, Ledger, KernelJournaled, TypeOK, Kernel, Unit
  <2>5. CASE job.unit < NUnits
    <3>1. RollbackProgress'
      BY <1>4, <2>1, <2>3, <2>5 DEF RollbackExec, RollbackProgress, TypeOK, Job, Unit
    <3> QED
      BY <1>4, <2>1, <2>4, <2>5, <3>1 DEF RollbackExec, Ledger, Roles, Journals, Delivered, Expired,
         UndoJustified, Undoable, ApplyProgress, ConfirmProgress, Applying, Confirming, Restoring,
         TypeOK, Job, disk
  <2>6. CASE ~(job.unit < NUnits)
    <3>1. RollbackProgress'
      BY <1>4, <2>1, <2>3, <2>6, BoundsAssumption
         DEF RollbackExec, Goto, RollbackProgress, Holds, TypeOK, Job, Unit
    <3> QED
      BY <1>4, <2>1, <2>4, <2>6, <3>1 DEF RollbackExec, Goto, Ledger, Roles, Journals, Delivered,
         Expired, UndoJustified, Undoable, ApplyProgress, ConfirmProgress, Applying, Confirming,
         Restoring, disk
  <2> QED
    BY <2>5, <2>6
<1>5. CASE RollbackFails
  <2>1. pending # None /\ Undoable
    BY <1>5 DEF RollbackFails, Control, JournalLocations, Ledger, UndoJustified, Restoring
  <2>2. KernelJournaled'
    BY <1>5, <2>1 DEF RollbackFails, Ledger, KernelJournaled, Journals, TypeOK, Kernel, Unit, disk
  <2> QED
    BY <1>5, <2>1, <2>2 DEF RollbackFails, Finish, NoJob, Ledger, Roles, Journals, Delivered, Undoable,
       Expired, UndoJustified, RollbackProgress, ApplyProgress, ConfirmProgress, Applying, Confirming,
       Restoring, disk
<1>6. CASE RollbackCurrent \/ RollbackLast
  BY <1>6 DEF RollbackCurrent, RollbackLast, Goto, Control, JournalLocations, Ledger, KernelJournaled,
     Roles, Journals, Delivered, Undoable, Expired, UndoJustified, RollbackProgress, ApplyProgress,
     ConfirmProgress, Holds, Applying, Confirming, Restoring
<1>7. CASE RollbackClear
  <2>1. KernelJournaled'
    BY <1>7 DEF RollbackClear, Control, Ledger, RollbackProgress, KernelJournaled, Holds
  <2>2. Roles' /\ pc' \notin Halfway
    BY <1>7, Returns DEF RollbackClear, Goto, Ledger, Roles, Halfway, Applying, Confirming, Restoring
  <2> QED
    BY <1>7, <2>1, <2>2 DEF RollbackClear, Ledger, Journals, Delivered, UndoJustified, RollbackProgress,
       ApplyProgress, ConfirmProgress, Halfway, Applying, Confirming, Restoring
<1>8. CASE RollbackRecord
  BY <1>8, Returns, Quiet DEF RollbackRecord, Still
<1> QED
  BY <1>1, <1>2, <1>3, <1>4, <1>5, <1>6, <1>7, <1>8 DEF RollbackStep

\* confirm_locked keeps it: what it confirms was applied in full.
LEMMA ConfirmLedger == TypeOK /\ Control /\ Ledger /\ ConfirmStep => Ledger'
<1> SUFFICES ASSUME TypeOK, Control, Ledger, ConfirmStep PROVE Ledger'
  OBVIOUS
<1>1. CASE ConfirmUnknown
  BY <1>1, Ends DEF ConfirmUnknown, Still, disk
<1>2. CASE ConfirmExpired
  <2>1. Still /\ pc' = "undo" /\ Undoable'
    BY <1>2 DEF ConfirmExpired, Undo, Still, Undoable, Expired, disk
  <2>2. Roles'
    BY <1>2 DEF ConfirmExpired, Undo, TypeOK, Job, Ledger, Roles, Applying, Confirming
  <2> QED
    BY <2>1, <2>2, Calls
<1>3. CASE ConfirmCurrent
  BY <1>3 DEF ConfirmCurrent, Goto, Ledger, KernelJournaled, Roles, Journals, Delivered, Expired,
     UndoJustified, RollbackProgress, ApplyProgress, ConfirmProgress, Holds, Applying, Confirming,
     Restoring
<1>4. CASE ConfirmRecord
  BY <1>4 DEF ConfirmRecord, Goto, Control, JournalLocations, Ledger, KernelJournaled, Roles, Journals,
     Delivered, Expired, UndoJustified, RollbackProgress, ApplyProgress, ConfirmProgress, Holds,
     Applying, Confirming, Restoring
<1>5. CASE ConfirmRecordFails
  <2>1. CASE job.op \in ApplyOps
    <3>1. Still /\ pc' = "undo" /\ Undoable'
      BY <1>5, <2>1 DEF ConfirmRecordFails, Undo, Still, Ledger, ConfirmProgress, Undoable, disk
    <3>2. job'.op = job.op /\ job'.cont = "idle"
      BY <1>5, <2>1 DEF ConfirmRecordFails, Undo, TypeOK, Job
    <3>3. Roles'
      BY <2>1, <3>1, <3>2 DEF Roles, ApplyOps, Applying, Confirming
    <3> QED
      BY <3>1, <3>3, Calls
  <2>2. CASE job.op \notin ApplyOps
    BY <1>5, <2>2, Ends DEF ConfirmRecordFails, Still, disk
  <2> QED
    BY <2>1, <2>2
<1>6. CASE ConfirmClear
  <2>1. KernelJournaled'
    BY <1>6 DEF ConfirmClear, Control, Ledger, ConfirmProgress, KernelJournaled, Holds
  <2>2. Roles' /\ pc' \in {"idle", "release"}
    BY <1>6 DEF ConfirmClear, Return, Goto, Finish, NoJob, Ledger, Roles, Applying, Confirming
  <2> QED
    BY <1>6, <2>1, <2>2 DEF ConfirmClear, Ledger, Journals, Delivered, UndoJustified, RollbackProgress,
       ApplyProgress, ConfirmProgress, Applying, Restoring
<1> QED
  BY <1>1, <1>2, <1>3, <1>4, <1>5, <1>6 DEF ConfirmStep

\* apply_locked keeps it: the journal comes before the first commit.
LEMMA ApplyLedger == TypeOK /\ Control /\ Ledger /\ ApplyStep => Ledger'
<1> SUFFICES ASSUME TypeOK, Control, Ledger, ApplyStep PROVE Ledger'
  OBVIOUS
<1>1. CASE ApplyRecover
  <2>1. Still /\ pc' = "undo" /\ Undoable'
    BY <1>1 DEF ApplyRecover, Undo, Still, Undoable, Expired, disk
  <2>2. Roles'
    BY <1>1 DEF ApplyRecover, Undo, TypeOK, Job, ApplyOps, Ledger, Roles, Applying, Confirming
  <2> QED
    BY <2>1, <2>2, Calls
<1>2. CASE ApplyRefused
  BY <1>2, Ends DEF ApplyRefused, Still, disk
<1>3. CASE ApplyJournal
  <2>1. pending' # None
    BY <1>3, JournalType, NoneAssumption
  <2>2. Journals'
    <3>1. \A t \in handed' : t < nextTok'
      BY <1>3, BoundsAssumption DEF ApplyJournal, Ledger, Journals, TypeOK, Token
    <3>2. pending'.tok < nextTok'
      BY <1>3, BoundsAssumption DEF ApplyJournal, TypeOK
    <3>3. \A u \in Unit : pending'.snapshot[u] \in {None, pending'.previous}
      BY <1>3 DEF ApplyJournal, Snapshot, Ledger, KernelJournaled
    <3> QED
      BY <3>1, <3>2, <3>3 DEF Journals
  <2>3. pending'.tok \notin handed'
    BY <1>3, BoundsAssumption DEF ApplyJournal, Ledger, Journals, TypeOK, Token
  <2>4. KernelJournaled' /\ ApplyProgress'
    BY <1>3, <2>1, <2>3 DEF ApplyJournal, Ledger, KernelJournaled, ApplyProgress, Holds, TypeOK, Job
  <2>5. Roles'
    BY <1>3 DEF ApplyJournal, TypeOK, Job, ApplyOps, Ledger, Roles, Applying, Confirming
  <2> QED
    BY <1>3, <2>2, <2>3, <2>4, <2>5 DEF ApplyJournal, Ledger, Delivered, UndoJustified, RollbackProgress,
       ConfirmProgress, Restoring
<1>4. CASE ApplyArm \/ ApplyArmFails
  BY <1>4 DEF ApplyArm, ApplyArmFails, Goto, Ledger, KernelJournaled, Roles, Journals, Delivered,
     Expired, UndoJustified, RollbackProgress, ApplyProgress, ConfirmProgress, Holds, Applying,
     Confirming, Restoring, disk
<1>5. CASE ApplyUnarm
  <2>1. KernelJournaled'
    BY <1>5 DEF ApplyUnarm, Control, Ledger, ApplyProgress, KernelJournaled, Holds
  <2> QED
    BY <1>5, <2>1 DEF ApplyUnarm, Finish, NoJob, Ledger, Roles, Journals, Delivered, UndoJustified,
       RollbackProgress, ApplyProgress, ConfirmProgress, Applying, Confirming, Restoring
<1>6. CASE ApplyInvalidate
  <2>1. Roles' /\ job'.unit = 1 /\ job'.candidate = job.candidate
    BY <1>6 DEF ApplyInvalidate, TypeOK, Job, Ledger, Roles, Applying, Confirming
  <2> QED
    BY <1>6, <2>1 DEF ApplyInvalidate, Ledger, KernelJournaled, Journals, Delivered, Expired,
       UndoJustified, RollbackProgress, ApplyProgress, ConfirmProgress, Holds, Applying, Restoring, Unit
<1>7. CASE ApplyExec
  <2>1. pending' = pending /\ handed' = handed /\ pending # None /\ job'.candidate = job.candidate
    BY <1>7 DEF ApplyExec, Goto, TypeOK, Job, Control, JournalLocations, disk
  <2>2. pending.tok \notin handed /\ pending.candidate = job.candidate
    BY <1>7 DEF ApplyExec, Ledger, ApplyProgress, Applying
  <2>3. \A u \in Unit : u <= job.unit => kernel'[u] \in {None, pending.candidate}
    BY <1>7, <2>2 DEF ApplyExec, Ledger, ApplyProgress, TypeOK, Kernel, Job, Unit
  <2>4. KernelJournaled'
    BY <1>7, <2>1, <2>2 DEF ApplyExec, Ledger, KernelJournaled, TypeOK, Kernel, Unit
  <2>5. CASE job.unit < NUnits
    <3>1. ApplyProgress'
      BY <1>7, <2>1, <2>2, <2>3, <2>5 DEF ApplyExec, ApplyProgress, TypeOK, Job, Unit
    <3> QED
      BY <1>7, <2>1, <2>2, <2>4, <2>5, <3>1 DEF ApplyExec, Ledger, Roles, Journals, Delivered,
         UndoJustified, RollbackProgress, ConfirmProgress, Applying, Confirming, Restoring, TypeOK,
         Job, disk
  <2>6. CASE ~(job.unit < NUnits)
    <3>1. ApplyProgress'
      BY <1>7, <2>1, <2>2, <2>3, <2>6, BoundsAssumption
         DEF ApplyExec, Goto, ApplyProgress, Holds, TypeOK, Job, Unit
    <3> QED
      BY <1>7, <2>1, <2>2, <2>4, <2>6, <3>1 DEF ApplyExec, Goto, Ledger, Roles, Journals, Delivered,
         UndoJustified, RollbackProgress, ConfirmProgress, Applying, Confirming, Restoring, disk
  <2> QED
    BY <2>5, <2>6
<1>8. CASE ApplyExecFails
  <2>1. pending # None /\ pending.tok \notin handed /\ pending.candidate = job.candidate
    BY <1>8 DEF ApplyExecFails, Control, JournalLocations, Ledger, ApplyProgress, Applying
  <2>2. KernelJournaled'
    BY <1>8, <2>1 DEF ApplyExecFails, Ledger, KernelJournaled, TypeOK, Kernel, Unit, disk
  <2>3. Roles'
    BY <1>8 DEF ApplyExecFails, Undo, TypeOK, Job, ApplyOps, Ledger, Roles, Applying, Confirming
  <2> QED
    BY <1>8, <2>1, <2>2, <2>3 DEF ApplyExecFails, Undo, Ledger, Journals, Delivered, UndoJustified,
       Undoable, RollbackProgress, ApplyProgress, ConfirmProgress, Applying, Restoring, disk
<1>9. CASE ApplyRejected
  <2>1. Still /\ pc' = "undo" /\ Undoable'
    BY <1>9 DEF ApplyRejected, Undo, Still, Ledger, ApplyProgress, Applying, Undoable, disk
  <2>2. Roles'
    BY <1>9 DEF ApplyRejected, Undo, TypeOK, Job, ApplyOps, Ledger, Roles, Applying, Confirming
  <2> QED
    BY <2>1, <2>2, Calls
<1>10. CASE ApplyAccepted
  BY <1>10 DEF ApplyAccepted, Goto, Control, Ledger, KernelJournaled, Roles, Journals, Delivered, Expired,
     UndoJustified, RollbackProgress, ApplyProgress, ConfirmProgress, Holds, Applying, Confirming,
     Restoring, disk
<1>11. CASE ApplyHandOver
  <2>1. pending # None /\ job.tok = pending.tok /\ Holds({pending.candidate})
    BY <1>11 DEF ApplyHandOver, Control, JournalLocations, Ledger, ApplyProgress
  <2>2. Roles' /\ pc' = "idle"
    BY <1>11 DEF ApplyHandOver, Finish, NoJob, Roles, Applying, Confirming
  <2> QED
    BY <1>11, <2>1, <2>2 DEF ApplyHandOver, Ledger, KernelJournaled, Journals, Delivered, Holds,
       UndoJustified, RollbackProgress, ApplyProgress, ConfirmProgress, Applying, Restoring, disk
<1> QED
  BY <1>1, <1>2, <1>3, <1>4, <1>5, <1>6, <1>7, <1>8, <1>9, <1>10, <1>11 DEF ApplyStep

\* The boot operations leave the suite's objects to apply_locked.
LEMMA BootLedger == TypeOK /\ Ledger /\ BootStep => Ledger'
<1> SUFFICES ASSUME TypeOK, Ledger, BootStep PROVE Ledger'
  OBVIOUS
<1>1. CASE \/ \E o \in Owner : BootPrepare(o)
           \/ BootPrepareRefused \/ GuardRefused \/ RestoreRefused \/ ReleaseRefused
           \/ Unguard \/ DisarmRefused \/ DisarmInstalled
  BY <1>1, Ends DEF BootPrepare, BootPrepareRefused, GuardRefused, RestoreRefused, ReleaseRefused,
     Unguard, DisarmRefused, DisarmInstalled, Still, disk
<1>2. CASE GuardInvalidate \/ Release \/ DisarmGuard \/ DisarmManifest
  <2>1. Still /\ pc' \notin Halfway
    BY <1>2 DEF GuardInvalidate, Release, DisarmGuard, DisarmManifest, Goto, Still, Halfway,
       Applying, Confirming, Restoring, disk
  <2>2. Roles'
    BY <1>2 DEF GuardInvalidate, Release, DisarmGuard, DisarmManifest, Goto, Ledger, Roles,
       Applying, Confirming, disk
  <2> QED
    BY <2>1, <2>2, Quiet
<1>3. CASE GuardInstall
  <2>1. CASE job.op = "boot-restore"
    <3>1. Still /\ pc' = "undo"
      BY <1>3, <2>1 DEF GuardInstall, Undo, Still, disk
    <3>2. job'.op = job.op /\ job'.cont = "restore" /\ job'.expiredOnly
      BY <1>3, <2>1 DEF GuardInstall, Undo, TypeOK, Job
    <3>3. Roles'
      BY <2>1, <3>1, <3>2 DEF Roles, ApplyOps, Applying, Confirming
    <3>4. ~NothingToUndo' => Undoable'
      BY <3>2 DEF NothingToUndo, Undoable, Expired
    <3> QED
      BY <3>1, <3>3, <3>4, Calls
  <2>2. CASE job.op # "boot-restore"
    BY <1>3, <2>2, Ends DEF GuardInstall, Still, disk
  <2> QED
    BY <2>1, <2>2
<1>4. CASE Restore
  <2>1. Still /\ pc' \notin Halfway
    BY <1>4 DEF Restore, Still, Halfway, Applying, Confirming, Restoring, disk
  <2>2. Roles'
    BY <1>4 DEF Restore, TypeOK, Job, ApplyOps, Ledger, Roles, Applying, Confirming
  <2> QED
    BY <2>1, <2>2, Quiet
<1> QED
  BY <1>1, <1>2, <1>3, <1>4 DEF BootStep

\* So do the bodies of the commands.
LEMMA BodyLedger == TypeOK /\ Ledger /\ BodyStep => Ledger'
<1> SUFFICES ASSUME TypeOK, Ledger, BodyStep PROVE Ledger'
  OBVIOUS
<1>1. CASE BodyApply
  <2>1. Still /\ pc' \notin Halfway
    BY <1>1 DEF BodyApply, Goto, Still, Halfway, Applying, Confirming, Restoring, disk
  <2>2. Roles'
    BY <1>1 DEF BodyApply, Goto, TypeOK, Job, ApplyOps, Ledger, Roles, Applying, Confirming
  <2> QED
    BY <2>1, <2>2, Quiet
<1>2. CASE BodyConfirm
  BY <1>2 DEF BodyConfirm, Goto, ApplyOps, Ledger, KernelJournaled, Roles, Journals, Delivered,
     UndoJustified, RollbackProgress, ApplyProgress, ConfirmProgress, Holds, Expired, Applying,
     Confirming, Restoring, disk
<1>3. CASE Save
  <2>1. Still /\ pc' \notin Halfway /\ Roles'
    BY <1>3 DEF Save, Goto, Still, Halfway, Applying, Confirming, Restoring, Ledger, Roles
  <2> QED
    BY <2>1, Quiet
<1>4. CASE SaveManifest \/ BodyEnds
  BY <1>4, Ends DEF SaveManifest, BodyEnds, Still, disk
<1> QED
  BY <1>1, <1>2, <1>3, <1>4 DEF BodyStep

\* This is where the discipline of the operator comes in: StartConfirm.
LEMMA StartLedger ==
  ASSUME Disciplined, TypeOK, Ledger, CommandStarts \/ \E t \in Token : StartTimer(t)
  PROVE  Ledger'
<1>1. ASSUME NEW j \in Job, StartRecovering(j), j.op = "confirm" => j.tok \in handed,
             j.op # "timer"
      PROVE  Ledger'
  <2>1. Still /\ pc' = "undo" /\ job'.expiredOnly /\ job'.cont = "body"
        /\ job'.op = j.op /\ job'.tok = j.tok
    BY <1>1 DEF StartRecovering, Untouched, Still, Job, disk
  <2>2. Roles'
    BY <1>1, <2>1 DEF Roles, Still, Applying, Confirming
  <2>3. ~NothingToUndo' => Undoable'
    BY <2>1 DEF NothingToUndo, Undoable, Expired
  <2> QED
    BY <2>1, <2>2, <2>3, Calls
<1>2. ASSUME NEW op \in {"apply", "load", "disable"}, NEW c \in Bundle, NEW local \in BOOLEAN,
             NEW verify \in BOOLEAN, StartApply(op, c, local, verify)
      PROVE  Ledger'
  <2> DEFINE j == [NoJob EXCEPT !.op = op, !.candidate = c, !.local = local, !.verify = verify]
  <2>1. j \in Job /\ j.op = op
    BY NoJobType DEF Job, Operations
  <2> QED
    BY <1>1, <1>2, <2>1 DEF StartApply
<1>3. ASSUME NEW t \in Token, StartConfirm(t) PROVE Ledger'
  <2> DEFINE j == [NoJob EXCEPT !.op = "confirm", !.tok = t]
  <2>1. t \in 0..MaxToken /\ t \in handed
    BY <1>3 DEF StartConfirm, Confirmable, Token
  <2>2. j \in Job /\ j.op = "confirm" /\ j.tok = t
    BY <2>1, NoJobType DEF Job, Operations
  <2> QED
    BY <1>1, <1>3, <2>1, <2>2 DEF StartConfirm
<1>4. ASSUME NEW op \in {"status", "save"}, StartPlain(op) PROVE Ledger'
  <2>1. [NoJob EXCEPT !.op = op] \in Job /\ [NoJob EXCEPT !.op = op].op = op
    BY NoJobType DEF Job, Operations
  <2> QED
    BY <1>1, <1>4, <2>1 DEF StartPlain
<1>5. ASSUME NEW t \in 0..MaxToken, StartRollback(t) PROVE Ledger'
  <2>1. Still /\ pc' = "undo" /\ job'.op = "rollback" /\ job'.cont = "idle"
    BY <1>5 DEF StartRollback, Untouched, Still, NoJob, disk
  <2>2. Roles'
    BY <2>1 DEF Roles, Applying, Confirming
  <2> QED
    BY <2>1, <2>2, Calls
<1>6. ASSUME NEW t \in Token, StartTimer(t) PROVE Ledger'
  <2>1. Still /\ pc' = "undo" /\ t \in expired'
        /\ job'.op = "timer" /\ job'.cont = "idle" /\ job'.tok = t /\ job'.match = t
    BY <1>6 DEF StartTimer, Untouched, Still, NoJob, disk
  <2>2. Roles'
    BY <2>1 DEF Roles, Applying, Confirming
  <2>3. ~NothingToUndo' => Undoable'
    BY <2>1, BoundsAssumption DEF NothingToUndo, Undoable, Expired, Token
  <2> QED
    BY <2>1, <2>2, <2>3, Calls
<1>7. ASSUME NEW op \in {"boot-prepare", "boot-guard", "boot-restore", "boot-disarm"}, StartBoot(op)
      PROVE  Ledger'
  <2>1. Still /\ pc' \notin Halfway
    BY <1>7 DEF StartBoot, Untouched, Still, Halfway, Applying, Confirming, Restoring, disk
  <2>2. Roles'
    BY <1>7 DEF StartBoot, NoJob, Roles, Applying, Confirming
  <2> QED
    BY <2>1, <2>2, Quiet
<1> QED
  BY <1>2, <1>3, <1>4, <1>5, <1>6, <1>7 DEF CommandStarts, Bundle

\* A deadline, a crash, a reboot and a third party only take things away.
LEMMA EnvironmentLedger == TypeOK /\ Ledger /\ Environment => Ledger'
<1> SUFFICES ASSUME TypeOK, Ledger, Environment PROVE Ledger'
  OBVIOUS
<1>1. ASSUME NEW t \in Token, Expire(t) PROVE Ledger'
  BY <1>1 DEF Expire, Ledger, KernelJournaled, Roles, Journals, Delivered, UndoJustified, Undoable,
     NothingToUndo, RollbackProgress, ApplyProgress, ConfirmProgress, Holds, Expired, disk
<1>2. CASE Crash
  BY <1>2, Ends DEF Crash, Still, disk
<1>3. CASE Reboot
  BY <1>3 DEF Reboot, Finish, NoJob, Ledger, KernelJournaled, Roles, Journals, Delivered,
     UndoJustified, RollbackProgress, ApplyProgress, ConfirmProgress, Holds, Applying, Confirming,
     Restoring, disk
<1>4. ASSUME NEW u \in Unit, Flush(u) PROVE Ledger'
  <2>1. \A v \in Unit : kernel'[v] \in {None, kernel[v]}
    BY <1>4 DEF Flush, TypeOK, Kernel
  <2> QED
    BY <1>4, <2>1 DEF Flush, Ledger, KernelJournaled, Roles, Journals, Delivered, UndoJustified,
       Undoable, NothingToUndo, RollbackProgress, ApplyProgress, ConfirmProgress, Holds, Expired, disk
<1> QED
  BY <1>1, <1>2, <1>3, <1>4 DEF Environment
----------------------------------------------------------------------------
\* An empty store accounts for an empty kernel.
LEMMA InitLedger == Init => Ledger
  BY DEF Init, NoJob, Ledger, KernelJournaled, Roles, Journals, Delivered, UndoJustified,
     RollbackProgress, ApplyProgress, ConfirmProgress, Applying, Confirming, Restoring

\* Every step keeps the ledger.
LEMMA StepLedger ==
  ASSUME Disciplined, TypeOK, Control, Ledger, [Next]_vars
  PROVE  Ledger'
<1>1. CASE UNCHANGED vars
  BY <1>1 DEF vars, disk, Ledger, KernelJournaled, Roles, Journals, Delivered, UndoJustified, Undoable,
     NothingToUndo, RollbackProgress, ApplyProgress, ConfirmProgress, Holds, Expired
<1> QED
  BY <1>1, RollbackLedger, ConfirmLedger, ApplyLedger, BootLedger, BodyLedger, StartLedger,
     EnvironmentLedger DEF Next, ProcessStep

\* While a journal is open every unit of the kernel holds the previous policy,
\* the candidate or nothing; without one, the current policy or nothing
\* (the order of the writes in store.py 110-231).
THEOREM AccountedFor == ASSUME Disciplined PROVE Spec => []KernelJournaled
<1>1. Init => Ledger
  BY InitLedger
<1>2. TypeOK /\ Control /\ Ledger /\ [Next]_vars => Ledger'
  BY StepLedger
<1>3. Ledger => KernelJournaled
  BY DEF Ledger
<1> QED
  BY <1>1, <1>2, <1>3, ControlCorrect, PTL DEF Spec
----------------------------------------------------------------------------
\* Where no third party takes objects away, the kernel is one policy's or empty
\* whenever a transaction is over: what is undone is put back as the snapshot
\* found it, and what is confirmed was applied in full.
Whole(p)   == \A u \in Unit : kernel[u] = p
Uniform(k) == \A u, v \in Unit : k[u] = k[v]
CanConfirm == pending.tok \in handed \/ (pc = "cfCheck" /\ job.tok = pending.tok)

Even ==
  /\ pending = None => Uniform(kernel)
  /\ pending # None => Uniform(pending.snapshot)
  /\ pending # None /\ ~Expired(pending) /\ CanConfirm => Whole(pending.candidate)
  /\ pc = "rbExec" => \A u \in Unit : u < job.unit => kernel[u] = pending.snapshot[u]
  /\ pc \in {"rbCurrent", "rbLast", "rbClear"} => Uniform(kernel)
  /\ pc \in {"apArm", "apUnarm", "apInvalidate"} => Uniform(kernel)
  /\ pc = "apExec" => \A u \in Unit : u < job.unit => kernel[u] = pending.candidate
  /\ pc \in {"apVerify", "cfRecord", "cfClear"} => Whole(pending.candidate)

\* Where the process has something to show for Even.
EvenLocations == {"rbExec", "rbCurrent", "rbLast", "rbClear", "apArm", "apUnarm", "apInvalidate",
                  "apExec", "apVerify", "cfCheck", "cfRecord", "cfClear"}

\* The steps that only move on, to a place that asks for nothing.
LEMMA KeepsEven ==
  ASSUME Even, UNCHANGED <<pending, kernel, boot>>, handed' \subseteq handed, expired \subseteq expired',
         pc' \notin EvenLocations
  PROVE  Even'
  BY DEF Even, EvenLocations, Whole, Uniform, CanConfirm, Expired

\* rollback_locked restores the kernel as the snapshot has it.
LEMMA RollbackEven == TypeOK /\ Control /\ Ledger /\ Even /\ RollbackStep => Even'
<1> SUFFICES ASSUME TypeOK, Control, Ledger, Even, RollbackStep PROVE Even'
  OBVIOUS
<1>1. CASE UndoBegin
  BY <1>1 DEF UndoBegin, TypeOK, Job, Unit, Even, Whole, Uniform, CanConfirm, Expired
<1>2. CASE RollbackExec
  <2>1. pending' = pending /\ pending # None /\ Undoable /\ handed' = handed /\ Expired(pending)' = Expired(pending)
    BY <1>2 DEF RollbackExec, disk, Control, JournalLocations, Ledger, UndoJustified, Restoring, Expired
  <2>2. kernel \in Kernel /\ job.unit \in Unit /\ job \in Job /\ pending.snapshot \in Kernel
    BY <2>1 DEF TypeOK, Job, Unit, Journal
  <2>3. \A u \in Unit : u <= job.unit => kernel'[u] = pending.snapshot[u]
    BY <1>2, <2>2 DEF RollbackExec, Even, Kernel, Unit
  <2>4. pc' # "cfCheck"
    BY <1>2 DEF RollbackExec, Goto
  <2>5. ~(~Expired(pending)' /\ CanConfirm')
    BY <2>1, <2>4 DEF Undoable, CanConfirm
  <2>6. CASE job.unit < NUnits
    <3>1. pc' = "rbExec" /\ job'.unit = job.unit + 1
      BY <1>2, <2>2, <2>6 DEF RollbackExec, Job
    <3>2. \A u \in Unit : u < job'.unit => kernel'[u] = pending'.snapshot[u]
      BY <2>1, <2>2, <2>3, <3>1 DEF Unit
    <3> QED
      BY <2>1, <2>5, <3>1, <3>2 DEF Even
  <2>7. CASE ~(job.unit < NUnits)
    <3>1. pc' = "rbCurrent"
      BY <1>2, <2>7 DEF RollbackExec, Goto
    <3>2. \A u \in Unit : kernel'[u] = pending.snapshot[u]
      BY <2>2, <2>3, <2>7, BoundsAssumption DEF Unit
    <3>3. Uniform(kernel)'
      BY <2>1, <3>2 DEF Even, Uniform
    <3> QED
      BY <2>1, <2>5, <3>1, <3>3 DEF Even
  <2> QED
    BY <2>6, <2>7
<1>3. CASE RollbackFails
  <2>1. pending' = pending /\ pending # None /\ Undoable /\ handed' = handed /\ Expired(pending)' = Expired(pending)
        /\ pc' = "idle"
    BY <1>3 DEF RollbackFails, Finish, disk, Control, JournalLocations, Ledger, UndoJustified, Restoring, Expired
  <2> QED
    BY <2>1 DEF Even, Undoable, CanConfirm
<1>4. CASE RollbackCurrent \/ RollbackLast
  BY <1>4 DEF RollbackCurrent, RollbackLast, Goto, Even, Whole, Uniform, CanConfirm, Expired
<1>5. CASE RollbackClear
  <2>1. pc' \notin EvenLocations
    BY <1>5, Returns DEF RollbackClear, Return, Goto, Finish, TypeOK, Job, Continuations, EvenLocations
  <2> QED
    BY <1>5, <2>1 DEF RollbackClear, Even, EvenLocations, Uniform
<1>6. CASE UndoNothing \/ UndoRefused \/ RollbackRecord
  BY <1>6, KeepsEven DEF UndoNothing, UndoRefused, RollbackRecord, Return, Goto, Finish, TypeOK, Job,
     Continuations, EvenLocations, disk
<1> QED
  BY <1>1, <1>2, <1>3, <1>4, <1>5, <1>6 DEF RollbackStep

\* confirm_locked drops the journal of a policy that is there as a whole.
LEMMA ConfirmEven == TypeOK /\ Control /\ Ledger /\ Even /\ ConfirmStep => Even'
<1> SUFFICES ASSUME TypeOK, Control, Ledger, Even, ConfirmStep PROVE Even'
  OBVIOUS
<1>1. CASE ConfirmCurrent
  BY <1>1 DEF ConfirmCurrent, Goto, Even, Whole, Uniform, CanConfirm, Expired
<1>2. CASE ConfirmRecord
  BY <1>2 DEF ConfirmRecord, Goto, Even, Whole, Uniform, CanConfirm, Expired
<1>3. CASE ConfirmClear
  <2>1. pc' \notin EvenLocations
    BY <1>3 DEF ConfirmClear, Return, Goto, Finish, EvenLocations
  <2>2. Uniform(kernel)
    BY <1>3 DEF ConfirmClear, Even, Whole, Uniform
  <2> QED
    BY <1>3, <2>1, <2>2 DEF ConfirmClear, Even, EvenLocations, Uniform
<1>4. CASE ConfirmUnknown \/ ConfirmExpired \/ ConfirmRecordFails
  BY <1>4, KeepsEven DEF ConfirmUnknown, ConfirmExpired, ConfirmRecordFails, Undo, Goto, Finish,
     EvenLocations, disk
<1> QED
  BY <1>1, <1>2, <1>3, <1>4 DEF ConfirmStep

\* apply_locked takes its snapshot of such a kernel, and hands out a token only
\* after the last commit.
LEMMA ApplyEven == TypeOK /\ Control /\ Ledger /\ Even /\ ApplyStep => Even'
<1> SUFFICES ASSUME TypeOK, Control, Ledger, Even, ApplyStep PROVE Even'
  OBVIOUS
<1>1. CASE ApplyJournal
  <2>1. pending' # None
    BY <1>1, JournalType, NoneAssumption
  <2>2. Uniform(kernel) /\ Uniform(Snapshot)
    BY <1>1 DEF ApplyJournal, Even, Uniform, Snapshot
  <2>3. pending'.snapshot = Snapshot /\ pending'.tok = nextTok /\ handed' = handed /\ kernel' = kernel
    BY <1>1 DEF ApplyJournal
  <2>4. Uniform(pending'.snapshot) /\ Uniform(kernel)'
    BY <2>2, <2>3 DEF Uniform
  <2>5. pending'.tok \notin handed'
    BY <2>3, BoundsAssumption DEF Ledger, Journals, TypeOK, Token
  <2>6. pc' \in {"apArm", "apInvalidate"}
    BY <1>1 DEF ApplyJournal
  <2>7. Uniform(pending.snapshot)'
    BY <2>4 DEF Uniform
  <2> QED
    BY <2>1, <2>4, <2>5, <2>6, <2>7 DEF Even, CanConfirm
<1>2. CASE ApplyArm \/ ApplyArmFails
  BY <1>2 DEF ApplyArm, ApplyArmFails, Goto, Even, Whole, Uniform, CanConfirm, Expired, disk
<1>3. CASE ApplyUnarm
  BY <1>3 DEF ApplyUnarm, Finish, Even, Uniform
<1>4. CASE ApplyInvalidate
  BY <1>4 DEF ApplyInvalidate, TypeOK, Job, Unit, Even, Whole, Uniform, CanConfirm, Expired
<1>5. CASE ApplyExec
  <2>1. pending' = pending /\ pending # None /\ handed' = handed /\ pending.tok \notin handed
        /\ pending.candidate = job.candidate
    BY <1>5 DEF ApplyExec, disk, Control, JournalLocations, Ledger, ApplyProgress, Applying
  <2>2. kernel \in Kernel /\ job.unit \in Unit /\ job \in Job
    BY DEF TypeOK, Job, Unit
  <2>3. \A u \in Unit : u <= job.unit => kernel'[u] = pending.candidate
    BY <1>5, <2>1, <2>2 DEF ApplyExec, Even, Kernel, Unit
  <2>4. ~CanConfirm'
    BY <1>5, <2>1 DEF ApplyExec, Goto, CanConfirm
  <2>5. CASE job.unit < NUnits
    <3>1. pc' = "apExec" /\ job'.unit = job.unit + 1
      BY <1>5, <2>2, <2>5 DEF ApplyExec, Job
    <3>2. \A u \in Unit : u < job'.unit => kernel'[u] = pending'.candidate
      BY <2>1, <2>2, <2>3, <3>1 DEF Unit
    <3> QED
      BY <2>1, <2>4, <3>1, <3>2 DEF Even
  <2>6. CASE ~(job.unit < NUnits)
    <3>1. pc' = "apVerify"
      BY <1>5, <2>6 DEF ApplyExec, Goto
    <3>2. Whole(pending.candidate)'
      BY <2>1, <2>2, <2>3, <2>6, BoundsAssumption DEF Unit, Whole
    <3> QED
      BY <2>1, <2>4, <3>1, <3>2 DEF Even
  <2> QED
    BY <2>5, <2>6
<1>6. CASE ApplyExecFails
  <2>1. pending' = pending /\ pending # None /\ handed' = handed /\ pending.tok \notin handed /\ pc' = "undo"
    BY <1>6 DEF ApplyExecFails, Undo, disk, Control, JournalLocations, Ledger, ApplyProgress, Applying
  <2> QED
    BY <2>1 DEF Even, CanConfirm
<1>7. CASE ApplyAccepted
  BY <1>7 DEF ApplyAccepted, Goto, Control, Even, Whole, Uniform, CanConfirm, Expired, disk
<1>8. CASE ApplyHandOver
  <2>1. Whole(pending.candidate) /\ pc' = "idle" /\ UNCHANGED <<pending, kernel>> /\ pending # None
    BY <1>8 DEF ApplyHandOver, Finish, Control, JournalLocations, Even, disk
  <2> QED
    BY <2>1 DEF Even, Whole, Uniform
<1>9. CASE ApplyRecover \/ ApplyRefused \/ ApplyRejected
  BY <1>9, KeepsEven DEF ApplyRecover, ApplyRefused, ApplyRejected, Undo, Finish, EvenLocations, disk
<1> QED
  BY <1>1, <1>2, <1>3, <1>4, <1>5, <1>6, <1>7, <1>8, <1>9 DEF ApplyStep

\* Every step keeps it, the start of a confirmation by the operator's discipline.
LEMMA StepEven ==
  ASSUME ~Flushes, TypeOK, Control, Fresh, Ledger, Even, [Next]_vars
  PROVE  Even'
<1>1. CASE BootStep
  BY <1>1, KeepsEven DEF BootStep, BootPrepare, BootPrepareRefused, GuardInvalidate, GuardInstall,
     GuardRefused, Restore, RestoreRefused, Release, ReleaseRefused, Unguard, DisarmGuard,
     DisarmRefused, DisarmManifest, DisarmInstalled, Undo, Goto, Finish, EvenLocations, disk
<1>2. CASE BodyStep
  <2>1. CASE BodyConfirm
    <3>1. job.tok \in handed
      BY <2>1 DEF BodyConfirm, Ledger, Roles
    <3> QED
      BY <2>1, <3>1 DEF BodyConfirm, Goto, Even, Whole, Uniform, CanConfirm, Expired, disk
  <2>2. CASE BodyStep /\ ~BodyConfirm
    BY <2>2, KeepsEven DEF BodyStep, BodyApply, Save, SaveManifest, BodyEnds, Goto, Finish, EvenLocations, disk
  <2> QED
    BY <1>2, <2>1, <2>2
<1>3. CASE CommandStarts \/ \E t \in Token : StartTimer(t)
  BY <1>3, KeepsEven DEF CommandStarts, StartApply, StartConfirm, StartPlain, StartRollback, StartTimer,
     StartBoot, StartRecovering, Untouched, EvenLocations, disk
<1>4. CASE Environment
  <2>1. ASSUME NEW t \in Token, Expire(t) PROVE Even'
    BY <2>1 DEF Expire, Even, Whole, Uniform, CanConfirm, Expired, disk
  <2>2. CASE Crash
    BY <2>2, KeepsEven DEF Crash, Finish, EvenLocations, disk
  <2>3. CASE Reboot
    <3>1. Uniform(kernel)' /\ pc' = "idle" /\ pending' = pending
      BY <2>3 DEF Reboot, Finish, Uniform, disk
    <3>2. pending # None => Expired(pending)'
      BY <2>3 DEF Reboot, Expired, Fresh, TypeOK, Journal, disk
    <3> QED
      BY <3>1, <3>2 DEF Even
  <2> QED
    BY <1>4, <2>1, <2>2, <2>3 DEF Environment, Flush
<1>5. CASE UNCHANGED vars
  BY <1>5 DEF vars, disk, Even, Whole, Uniform, CanConfirm, Expired
<1> QED
  BY <1>1, <1>2, <1>3, <1>4, <1>5, RollbackEven, ConfirmEven, ApplyEven DEF Next, ProcessStep

\* No sequence of crashes, failures and recoveries leaves two policies side by
\* side once the transaction is over (store.py 110-156), provided that the
\* operator is disciplined and nobody else takes objects away.
THEOREM NothingMixed == ASSUME Disciplined, ~Flushes PROVE Spec => []NoMixture
<1>1. Init => Fresh /\ Armed /\ Ledger /\ Even
  BY InitLedger DEF Init, Fresh, Armed, Even, Uniform
<1>2. TypeOK /\ Control /\ Fresh /\ Armed /\ Ledger /\ Even /\ [Next]_vars
        => (Fresh /\ Armed /\ Ledger /\ Even)'
  BY StepArmed, StepLedger, StepEven
<1>3. Even => NoMixture
  BY DEF Even, Uniform, NoMixture
<1> QED
  BY <1>1, <1>2, <1>3, ControlCorrect, PTL DEF Spec
----------------------------------------------------------------------------
(* What "ready" promises of the kernel; that the boot barrier in the       *)
(* kernel is always the one its manifest registers, that every policy that *)
(* may be loaded has its scope, and that it goes only once the confirmed   *)
(* policy is in the kernel.                                                *)

\* An installation record was taken from a kernel that held its policy whole;
\* a rollback takes it after it has dropped the journal.
Recorded ==
  /\ installed # None => \A u \in Unit : installed.objects[u] = installed.policy
  /\ pc = "rbRecord" => pending = None

\* The steps that neither take an installation record nor get to taking one.
LEMMA KeepsRecord ==
  ASSUME Recorded, installed' \in {None, installed}, pc' # "rbRecord"
  PROVE  Recorded'
  BY DEF Recorded

\* Every step keeps the installation record truthful.
LEMMA StepRecorded == TypeOK /\ Control /\ Ledger /\ Recorded /\ [Next]_vars => Recorded'
<1> SUFFICES ASSUME TypeOK, Control, Ledger, Recorded, [Next]_vars PROVE Recorded'
  OBVIOUS
<1>1. CASE RollbackStep
  <2>1. CASE RollbackRecord
    <3>1. pc' # "rbRecord"
      BY <2>1, Returns DEF RollbackRecord, Return, Goto, Finish, TypeOK, Job, Continuations
    <3>2. CASE installed' = None
      BY <3>1, <3>2, KeepsRecord
    <3>3. CASE Present(current) /\ installed' = [boot |-> boot, policy |-> current, objects |-> kernel]
      <4>1. \A u \in Unit : kernel[u] = current
        BY <2>1, <3>3 DEF RollbackRecord, Present, Recorded, Ledger, KernelJournaled
      <4> QED
        BY <3>1, <3>3, <4>1 DEF Recorded
    <3> QED
      BY <2>1, <3>2, <3>3 DEF RollbackRecord
  <2>2. CASE RollbackClear
    BY <2>2 DEF RollbackClear, Recorded
  <2>3. CASE RollbackStep /\ ~RollbackRecord /\ ~RollbackClear
    BY <2>3, KeepsRecord DEF RollbackStep, UndoNothing, UndoBegin, UndoRefused, RollbackExec,
       RollbackFails, RollbackCurrent, RollbackLast, Return, Goto, Finish, TypeOK, Job,
       Continuations, disk
  <2> QED
    BY <1>1, <2>1, <2>2, <2>3
<1>2. CASE ConfirmStep
  <2>1. CASE ConfirmRecord
    <3>1. CASE pending.candidate # None
      <4>1. \A u \in Unit : kernel[u] = pending.candidate
        BY <2>1, <3>1 DEF ConfirmRecord, Present, Ledger, ConfirmProgress, Holds
      <4> QED
        BY <2>1, <3>1, <4>1 DEF ConfirmRecord, Goto, Recorded
    <3>2. CASE pending.candidate = None
      BY <2>1, <3>2, KeepsRecord DEF ConfirmRecord, Goto
    <3> QED
      BY <3>1, <3>2
  <2>2. CASE ConfirmStep /\ ~ConfirmRecord
    BY <2>2, KeepsRecord DEF ConfirmStep, ConfirmUnknown, ConfirmExpired, ConfirmCurrent,
       ConfirmRecordFails, ConfirmClear, Return, Goto, Undo, Finish, disk
  <2> QED
    BY <1>2, <2>1, <2>2
<1>3. CASE ApplyStep
  BY <1>3, KeepsRecord DEF ApplyStep, ApplyRecover, ApplyRefused, ApplyJournal, ApplyArm,
     ApplyArmFails, ApplyUnarm, ApplyInvalidate, ApplyExec, ApplyExecFails, ApplyRejected,
     ApplyAccepted, ApplyHandOver, Goto, Undo, Finish, disk
<1>4. CASE BootStep
  BY <1>4, KeepsRecord DEF BootStep, BootPrepare, BootPrepareRefused, GuardInvalidate, GuardInstall,
     GuardRefused, Restore, RestoreRefused, Release, ReleaseRefused, Unguard, DisarmGuard,
     DisarmRefused, DisarmManifest, DisarmInstalled, Goto, Undo, Finish, disk
<1>5. CASE BodyStep
  BY <1>5, KeepsRecord DEF BodyStep, BodyApply, BodyConfirm, Save, SaveManifest, BodyEnds, Goto,
     Finish, disk
<1>6. CASE CommandStarts \/ \E t \in Token : StartTimer(t)
  BY <1>6, KeepsRecord DEF CommandStarts, StartApply, StartConfirm, StartPlain, StartRollback,
     StartTimer, StartBoot, StartRecovering, Untouched, disk
<1>7. CASE Environment
  BY <1>7 DEF Environment, Expire, Crash, Reboot, Flush, Finish, Recorded, disk
<1>8. CASE UNCHANGED vars
  BY <1>8 DEF vars, disk, Recorded
<1> QED
  BY <1>1, <1>2, <1>3, <1>4, <1>5, <1>6, <1>7, <1>8 DEF Next, ProcessStep

\* When "ready" succeeds, behind the barrier or without it, every object the
\* suite has in the kernel is the confirmed policy's (boot.py 91-102).
THEOREM ReadySound == ASSUME Disciplined PROVE Spec => []ReadyMeansInstalled
<1>1. Init => Ledger /\ Recorded
  BY InitLedger DEF Init, Recorded
<1>2. TypeOK /\ Control /\ Ledger /\ Recorded /\ [Next]_vars => (Ledger /\ Recorded)'
  BY StepLedger, StepRecorded
<1>3. Recorded => ReadyMeansInstalled
  BY DEF Recorded, ReadyMeansInstalled, Verified
<1> QED
  BY <1>1, <1>2, <1>3, ControlCorrect, PTL DEF Spec
----------------------------------------------------------------------------
\* disarm deletes the table before the manifest.
Registered ==
  /\ GuardRegistered
  /\ pc = "daManifest" => guard = None

\* The steps that touch neither the barrier nor its manifest.
LEMMA KeepsGuard ==
  ASSUME Registered, UNCHANGED <<guard, bootPolicy>>, pc' # "daManifest"
  PROVE  Registered'
  BY DEF Registered, GuardRegistered

\* Every step keeps the barrier registered.
LEMMA StepRegistered == TypeOK /\ Control /\ Registered /\ [Next]_vars => Registered'
<1> SUFFICES ASSUME TypeOK, Control, Registered, [Next]_vars PROVE Registered'
  OBVIOUS
<1>1. CASE RollbackStep
  BY <1>1, KeepsGuard DEF RollbackStep, UndoNothing, UndoBegin, UndoRefused, RollbackExec,
     RollbackFails, RollbackCurrent, RollbackLast, RollbackClear, RollbackRecord, Return, Goto,
     Finish, TypeOK, Job, Continuations, disk
<1>2. CASE ConfirmStep
  BY <1>2, KeepsGuard DEF ConfirmStep, ConfirmUnknown, ConfirmExpired, ConfirmCurrent, ConfirmRecord,
     ConfirmRecordFails, ConfirmClear, Return, Goto, Undo, Finish, disk
<1>3. CASE ApplyStep
  BY <1>3, KeepsGuard DEF ApplyStep, ApplyRecover, ApplyRefused, ApplyJournal, ApplyArm,
     ApplyArmFails, ApplyUnarm, ApplyInvalidate, ApplyExec, ApplyExecFails, ApplyRejected,
     ApplyAccepted, ApplyHandOver, Goto, Undo, Finish, disk
<1>4. CASE BootStep
  <2>1. CASE \E o \in Owner : BootPrepare(o)
    BY <2>1 DEF BootPrepare, PrepareAllowed, Verified, Finish, Registered, GuardRegistered
  <2>2. CASE GuardInstall
    BY <2>2 DEF GuardInstall, Control, Undo, Finish, Registered, GuardRegistered, disk
  <2>3. CASE Unguard \/ DisarmGuard
    BY <2>3 DEF Unguard, DisarmGuard, Registered, GuardRegistered
  <2>4. CASE DisarmManifest
    BY <2>4 DEF DisarmManifest, Goto, Registered, GuardRegistered
  <2>5. CASE \/ BootPrepareRefused \/ GuardInvalidate \/ GuardRefused \/ Restore \/ RestoreRefused
             \/ Release \/ ReleaseRefused \/ DisarmRefused \/ DisarmInstalled
    BY <2>5, KeepsGuard DEF BootPrepareRefused, GuardInvalidate, GuardRefused, Restore, RestoreRefused,
       Release, ReleaseRefused, DisarmRefused, DisarmInstalled, Goto, Finish, disk
  <2> QED
    BY <1>4, <2>1, <2>2, <2>3, <2>4, <2>5 DEF BootStep
<1>5. CASE BodyStep
  <2>1. CASE SaveManifest
    <3>1. bootPolicy # None => bootPolicy' # None /\ bootPolicy'.owner = bootPolicy.owner
      <4>1. CASE bootPolicy # None
        <5>1. bootPolicy' = [bootPolicy EXCEPT !.policy = current] /\ bootPolicy' \in Manifest
          BY <2>1, <4>1 DEF SaveManifest, Control, TypeOK, Manifest, Bundle
        <5> QED
          BY <4>1, <5>1, NoneAssumption DEF TypeOK, Manifest
      <4> QED
        BY <4>1
    <3>2. guard' = guard /\ pc' = "idle"
      BY <2>1 DEF SaveManifest, Finish
    <3> QED
      BY <3>1, <3>2 DEF Registered, GuardRegistered
  <2>2. CASE BodyStep /\ ~SaveManifest
    BY <2>2, KeepsGuard DEF BodyStep, BodyApply, BodyConfirm, Save, BodyEnds, Goto, Finish, disk
  <2> QED
    BY <1>5, <2>1, <2>2
<1>6. CASE CommandStarts \/ \E t \in Token : StartTimer(t)
  BY <1>6, KeepsGuard DEF CommandStarts, StartApply, StartConfirm, StartPlain, StartRollback,
     StartTimer, StartBoot, StartRecovering, Untouched, disk
<1>7. CASE Environment
  BY <1>7 DEF Environment, Expire, Crash, Reboot, Flush, Finish, Registered, GuardRegistered, disk
<1>8. CASE UNCHANGED vars
  BY <1>8 DEF vars, disk, Registered, GuardRegistered
<1> QED
  BY <1>1, <1>2, <1>3, <1>4, <1>5, <1>6, <1>7, <1>8 DEF Next, ProcessStep

\* The barrier table in the kernel is the registered one, so release and
\* disarm can always remove it (boot.py 206-254).
THEOREM BarrierRegistered == Spec => []GuardRegistered
<1>1. Init => Registered
  BY DEF Init, Registered, GuardRegistered
<1>2. TypeOK /\ Control /\ Registered /\ [Next]_vars => Registered'
  BY StepRegistered
<1>3. Registered => GuardRegistered
  BY DEF Registered
<1> QED
  BY <1>1, <1>2, <1>3, ControlCorrect, PTL DEF Spec
----------------------------------------------------------------------------
\* The steps that touch none of the policies a prepared barrier is about.
LEMMA KeepsScope ==
  ASSUME ScopeHeld, UNCHANGED <<current, persisted, pending, bootPolicy>>
  PROVE  ScopeHeld'
  BY DEF ScopeHeld

\* Every step keeps them in the scope the barrier was made for.
LEMMA StepScope == TypeOK /\ Control /\ ScopeHeld /\ [Next]_vars => ScopeHeld'
<1> SUFFICES ASSUME TypeOK, Control, ScopeHeld, [Next]_vars PROVE ScopeHeld'
  OBVIOUS
<1>1. CASE RollbackStep
  <2>1. CASE RollbackCurrent
    BY <2>1 DEF RollbackCurrent, Control, JournalLocations, ScopeHeld
  <2>2. CASE RollbackClear
    BY <2>2 DEF RollbackClear, ScopeHeld
  <2>3. CASE RollbackStep /\ ~RollbackCurrent /\ ~RollbackClear
    BY <2>3, KeepsScope DEF RollbackStep, UndoNothing, UndoBegin, UndoRefused, RollbackExec,
       RollbackFails, RollbackLast, RollbackRecord, disk
  <2> QED
    BY <1>1, <2>1, <2>2, <2>3
<1>2. CASE ConfirmStep
  <2>1. CASE ConfirmCurrent
    BY <2>1 DEF ConfirmCurrent, ScopeHeld
  <2>2. CASE ConfirmClear
    BY <2>2 DEF ConfirmClear, ScopeHeld
  <2>3. CASE ConfirmStep /\ ~ConfirmCurrent /\ ~ConfirmClear
    BY <2>3, KeepsScope DEF ConfirmStep, ConfirmUnknown, ConfirmExpired, ConfirmRecord,
       ConfirmRecordFails, disk
  <2> QED
    BY <1>2, <2>1, <2>2, <2>3
<1>3. CASE ApplyStep
  <2>1. CASE ApplyJournal
    BY <2>1 DEF ApplyJournal, InScope, ScopeHeld
  <2>2. CASE ApplyUnarm
    BY <2>2 DEF ApplyUnarm, ScopeHeld
  <2>3. CASE ApplyStep /\ ~ApplyJournal /\ ~ApplyUnarm
    BY <2>3, KeepsScope DEF ApplyStep, ApplyRecover, ApplyRefused, ApplyArm, ApplyArmFails,
       ApplyInvalidate, ApplyExec, ApplyExecFails, ApplyRejected, ApplyAccepted, ApplyHandOver, disk
  <2> QED
    BY <1>3, <2>1, <2>2, <2>3
<1>4. CASE BootStep
  <2>1. CASE \E o \in Owner : BootPrepare(o)
    BY <2>1 DEF BootPrepare, PrepareAllowed, ScopeHeld
  <2>2. CASE DisarmManifest
    BY <2>2 DEF DisarmManifest, ScopeHeld
  <2>3. CASE BootStep /\ ~(\E o \in Owner : BootPrepare(o)) /\ ~DisarmManifest
    BY <2>3, KeepsScope DEF BootStep, BootPrepareRefused, GuardInvalidate, GuardInstall, GuardRefused,
       Restore, RestoreRefused, Release, ReleaseRefused, Unguard, DisarmGuard, DisarmRefused,
       DisarmInstalled, disk
  <2> QED
    BY <1>4, <2>1, <2>2, <2>3
<1>5. CASE BodyStep
  <2>1. CASE Save
    BY <2>1 DEF Save, SaveAllowed, InScope, ScopeHeld
  <2>2. CASE SaveManifest
    <3>1. CASE bootPolicy # None
      <4>1. bootPolicy' = [bootPolicy EXCEPT !.policy = current] /\ bootPolicy \in Manifest
        BY <2>2, <3>1 DEF SaveManifest, TypeOK
      <4>2. bootPolicy'.scope = bootPolicy.scope /\ bootPolicy'.policy = current
        BY <4>1 DEF Manifest
      <4> QED
        BY <2>2, <3>1, <4>2 DEF SaveManifest, ScopeHeld
    <3>2. CASE bootPolicy = None
      BY <2>2, <3>2 DEF SaveManifest, ScopeHeld
    <3> QED
      BY <3>1, <3>2
  <2>3. CASE BodyStep /\ ~Save /\ ~SaveManifest
    BY <2>3, KeepsScope, SMTT(60) DEF BodyStep, BodyApply, BodyConfirm, BodyEnds, disk
  <2> QED
    BY <1>5, <2>1, <2>2, <2>3
<1>6. CASE CommandStarts \/ \E t \in Token : StartTimer(t)
  BY <1>6, KeepsScope DEF CommandStarts, StartApply, StartConfirm, StartPlain, StartRollback,
     StartTimer, StartBoot, StartRecovering, Untouched, disk
<1>7. CASE Environment
  BY <1>7, KeepsScope DEF Environment, Expire, Crash, Reboot, Flush, disk
<1>8. CASE UNCHANGED vars
  BY <1>8, KeepsScope DEF vars, disk
<1> QED
  BY <1>1, <1>2, <1>3, <1>4, <1>5, <1>6, <1>7, <1>8 DEF Next, ProcessStep

\* Once a barrier is prepared, every policy that can be current, confirmed, rolled
\* back to or loaded at boot has the scope its text was made for (boot.py 156-194).
THEOREM ScopeSafe == Spec => []ScopeHeld
<1>1. Init => ScopeHeld
  BY DEF Init, ScopeHeld
<1>2. TypeOK /\ Control /\ ScopeHeld /\ [Next]_vars => ScopeHeld'
  BY StepScope
<1> QED
  BY <1>1, <1>2, ControlCorrect, PTL DEF Spec
----------------------------------------------------------------------------
\* Between the verification in release and the removal of the table nothing but
\* the process itself changes the kernel or the records.
Releasing ==
  /\ pc = "unguard" => pending = None /\ \A u \in Unit : kernel[u] # None /\ kernel[u] = current
  /\ pc = "daGuard" => job.op = "boot-disarm"

\* Elsewhere there is nothing to show.
LEMMA ReleasingElsewhere == pc' \notin {"unguard", "daGuard"} => Releasing'
  BY DEF Releasing

\* Every step keeps it; Release is where the verification counts.
LEMMA StepReleasing ==
  ASSUME ~Flushes, TypeOK, Recorded, Releasing, [Next]_vars
  PROVE  Releasing'
<1>1. CASE RollbackStep
  BY <1>1, ReleasingElsewhere DEF RollbackStep, UndoNothing, UndoBegin, UndoRefused, RollbackExec,
     RollbackFails, RollbackCurrent, RollbackLast, RollbackClear, RollbackRecord, Return, Goto,
     Finish, TypeOK, Job, Continuations
<1>2. CASE ConfirmStep
  BY <1>2, ReleasingElsewhere DEF ConfirmStep, ConfirmUnknown, ConfirmExpired, ConfirmCurrent,
     ConfirmRecord, ConfirmRecordFails, ConfirmClear, Return, Goto, Undo, Finish
<1>3. CASE ApplyStep
  BY <1>3, ReleasingElsewhere DEF ApplyStep, ApplyRecover, ApplyRefused, ApplyJournal, ApplyArm,
     ApplyArmFails, ApplyUnarm, ApplyInvalidate, ApplyExec, ApplyExecFails, ApplyRejected,
     ApplyAccepted, ApplyHandOver, Goto, Undo, Finish
<1>4. CASE BootStep
  <2>1. CASE Release
    <3>1. pending = None /\ current # None /\ \A u \in Unit : kernel[u] = current
      BY <2>1 DEF Release, Verified, Recorded
    <3> QED
      BY <2>1, <3>1 DEF Release, Goto, Releasing, disk
  <2>2. CASE BootStep /\ ~Release
    BY <2>2, ReleasingElsewhere DEF BootStep, BootPrepare, BootPrepareRefused, GuardInvalidate,
       GuardInstall, GuardRefused, Restore, RestoreRefused, ReleaseRefused, Unguard, DisarmGuard,
       DisarmRefused, DisarmManifest, DisarmInstalled, Goto, Undo, Finish
  <2> QED
    BY <1>4, <2>1, <2>2
<1>5. CASE BodyStep
  BY <1>5, ReleasingElsewhere DEF BodyStep, BodyApply, BodyConfirm, Save, SaveManifest, BodyEnds, Goto,
     Finish
<1>6. CASE CommandStarts \/ \E t \in Token : StartTimer(t)
  BY <1>6 DEF CommandStarts, StartApply, StartConfirm, StartPlain, StartRollback, StartTimer,
     StartBoot, StartRecovering, NoJob, Releasing
<1>7. CASE Environment
  BY <1>7 DEF Environment, Expire, Crash, Reboot, Flush, Finish, Releasing, disk
<1>8. CASE UNCHANGED vars
  BY <1>8 DEF vars, disk, Releasing
<1> QED
  BY <1>1, <1>2, <1>3, <1>4, <1>5, <1>6, <1>7, <1>8 DEF Next, ProcessStep

\* What BarrierKept says of a step.
KeepsBarrier ==
  guard # None /\ guard' = None /\ boot' = boot
    => \/ job.op = "boot-disarm"
       \/ pending = None /\ \A u \in Unit : kernel[u] # None /\ kernel[u] = current

\* Only Unguard, DisarmGuard and a reboot take the table away.
LEMMA StepBarrier ==
  ASSUME TypeOK, Control, Releasing, [Next]_vars
  PROVE  KeepsBarrier
<1>1. CASE BootStep
  <2>1. CASE Unguard \/ DisarmGuard
    BY <2>1 DEF Unguard, DisarmGuard, Releasing, KeepsBarrier
  <2>2. CASE GuardInstall
    <3>1. guard' # None
      BY <2>2, NoneAssumption DEF GuardInstall, Control, TypeOK, Manifest
    <3> QED
      BY <3>1 DEF KeepsBarrier
  <2>3. CASE BootStep /\ ~Unguard /\ ~DisarmGuard /\ ~GuardInstall
    BY <2>3 DEF BootStep, BootPrepare, BootPrepareRefused, GuardInvalidate, GuardRefused, Restore,
       RestoreRefused, Release, ReleaseRefused, DisarmRefused, DisarmManifest, DisarmInstalled,
       KeepsBarrier
  <2> QED
    BY <1>1, <2>1, <2>2, <2>3
<1>2. CASE RollbackStep \/ ConfirmStep
  BY <1>2 DEF RollbackStep, UndoNothing, UndoBegin, UndoRefused, RollbackExec, RollbackFails,
     RollbackCurrent, RollbackLast, RollbackClear, RollbackRecord, ConfirmStep, ConfirmUnknown,
     ConfirmExpired, ConfirmCurrent, ConfirmRecord, ConfirmRecordFails, ConfirmClear, KeepsBarrier
<1>3. CASE ApplyStep
  BY <1>3 DEF ApplyStep, ApplyRecover, ApplyRefused, ApplyJournal, ApplyArm, ApplyArmFails,
     ApplyUnarm, ApplyInvalidate, ApplyExec, ApplyExecFails, ApplyRejected, ApplyAccepted,
     ApplyHandOver, KeepsBarrier
<1>4. CASE BodyStep
  BY <1>4 DEF BodyStep, BodyApply, BodyConfirm, Save, SaveManifest, BodyEnds, KeepsBarrier
<1>5. CASE CommandStarts \/ \E t \in Token : StartTimer(t)
  BY <1>5 DEF CommandStarts, StartApply, StartConfirm, StartPlain, StartRollback, StartTimer,
     StartBoot, StartRecovering, Untouched, KeepsBarrier
<1>6. CASE Environment
  BY <1>6 DEF Environment, Expire, Crash, Reboot, Flush, TypeOK, KeepsBarrier
<1>7. CASE UNCHANGED vars
  BY <1>7 DEF vars, KeepsBarrier
<1> QED
  BY <1>1, <1>2, <1>3, <1>4, <1>5, <1>6, <1>7 DEF Next, ProcessStep

\* Short of a reboot or of boot-disarm the barrier goes only when the kernel holds
\* the current policy as a whole and nothing is pending (boot.py 225-243), provided
\* that nobody empties the suite's objects meanwhile.
THEOREM BarrierSafe == ASSUME Disciplined, ~Flushes PROVE Spec => BarrierKept
<1>1. Init => Ledger /\ Recorded /\ Releasing
  BY InitLedger DEF Init, Recorded, Releasing
<1>2. TypeOK /\ Control /\ Ledger /\ Recorded /\ Releasing /\ [Next]_vars
        => (Ledger /\ Recorded /\ Releasing)'
  BY StepLedger, StepRecorded, StepReleasing
<1>3. TypeOK /\ Control /\ Releasing /\ [Next]_vars => [KeepsBarrier]_vars
  BY StepBarrier
<1>4. [KeepsBarrier]_vars
        <=> [guard # None /\ guard' = None /\ boot' = boot
               => \/ job.op = "boot-disarm"
                  \/ pending = None /\ \A u \in Unit : kernel[u] # None /\ kernel[u] = current]_vars
  BY DEF KeepsBarrier
<1> QED
  BY <1>1, <1>2, <1>3, <1>4, ControlCorrect, PTL DEF Spec, BarrierKept
=============================================================================
