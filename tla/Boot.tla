-------------------------------- MODULE Boot --------------------------------
(***************************************************************************)
(* The early boot barrier of src/core/boot.py: an nftables table of its    *)
(* own, outside every snapshot, registered in boot-policy.json.  restore   *)
(* raises it, applies the persisted policy as a local transaction and      *)
(* removes it only after the verification "ready" makes.                   *)
(***************************************************************************)
EXTENDS Transaction

\* Faulty variant: a barrier that is still up is not asked for.
PrepareAllowedGuarded ==
  /\ pending = None
  /\ current # None
  /\ persisted = current
  /\ Verified(TRUE)

\* boot-prepare: the manifest of a confirmed, saved and verified policy.
PrepareAllowed ==
  /\ pending = None
  /\ current # None
  /\ persisted = current
  /\ Verified(FALSE)

BootPrepare(o) ==
  /\ pc = "body"
  /\ job.op = "boot-prepare"
  /\ PrepareAllowed
  /\ bootPolicy' = [owner |-> o, scope |-> Scope[current], policy |-> current]
  /\ Finish
  /\ UNCHANGED <<current, persisted, pending, installed, lastRollback,
                 kernel, guard, boot, timers, expired, nextTok, handed>>

BootPrepareRefused ==
  /\ pc = "body"
  /\ job.op = "boot-prepare"
  /\ ~PrepareAllowed \/ Faults
  /\ Finish
  /\ UNCHANGED <<disk, kernel, guard, boot, timers, expired, nextTok, handed>>
----------------------------------------------------------------------------
(* guard *)

GuardInvalidate ==
  /\ pc = "gdInvalidate"
  /\ bootPolicy # None
  /\ installed' = None
  /\ Goto("gdInstall")
  /\ UNCHANGED <<current, persisted, pending, lastRollback, bootPolicy,
                 kernel, guard, boot, timers, expired, nextTok, handed>>

\* A barrier of another owner is neither adopted nor replaced.
GuardInstall ==
  /\ pc = "gdInstall"
  /\ guard \in {None, bootPolicy.owner}
  /\ guard' = bootPolicy.owner
  /\ IF job.op = "boot-restore" THEN Undo(0, TRUE, "restore") ELSE Finish
  /\ UNCHANGED <<disk, kernel, boot, timers, expired, nextTok, handed>>

GuardRefused ==
  /\ \/ pc = "gdInvalidate" /\ bootPolicy = None
     \/ pc = "gdInstall" /\ (Faults \/ guard \notin {None, bootPolicy.owner})
  /\ Finish
  /\ UNCHANGED <<disk, kernel, guard, boot, timers, expired, nextTok, handed>>
----------------------------------------------------------------------------
(* restore, after guard and the recovery of an expired journal *)

Restore ==
  /\ pc = "restore"
  /\ persisted # None
  /\ persisted = bootPolicy.policy
  /\ pc' = "apply"
  /\ job' = [job EXCEPT !.candidate = persisted, !.local = TRUE]
  /\ UNCHANGED <<disk, kernel, guard, boot, timers, expired, nextTok, handed>>

\* Faulty variant: the barrier goes although nothing was restored.
RestoreRefusedOpen ==
  /\ pc = "restore"
  /\ persisted = None \/ persisted # bootPolicy.policy
  /\ Goto("unguard")
  /\ UNCHANGED <<disk, kernel, guard, boot, timers, expired, nextTok, handed>>

RestoreRefused ==
  /\ pc = "restore"
  /\ persisted = None \/ persisted # bootPolicy.policy
  /\ Finish
  /\ UNCHANGED <<disk, kernel, guard, boot, timers, expired, nextTok, handed>>

\* release verifies, then removes the table; a failure leaves the barrier.
Release ==
  /\ pc = "release"
  /\ Verified(TRUE)
  /\ guard = bootPolicy.owner
  /\ Goto("unguard")
  /\ UNCHANGED <<disk, kernel, guard, boot, timers, expired, nextTok, handed>>

ReleaseRefused ==
  /\ \/ pc = "release" /\ (Faults \/ ~Verified(TRUE) \/ guard # bootPolicy.owner)
     \/ pc = "unguard" /\ Faults
  /\ Finish
  /\ UNCHANGED <<disk, kernel, guard, boot, timers, expired, nextTok, handed>>

Unguard ==
  /\ pc = "unguard"
  /\ guard' = None
  /\ Finish
  /\ UNCHANGED <<disk, kernel, boot, timers, expired, nextTok, handed>>
----------------------------------------------------------------------------
(* disarm *)

DisarmGuard ==
  /\ pc = "daGuard"
  /\ pending = None
  /\ bootPolicy # None
  /\ guard \in {None, bootPolicy.owner}
  /\ guard' = None
  /\ Goto("daManifest")
  /\ UNCHANGED <<disk, kernel, boot, timers, expired, nextTok, handed>>

DisarmRefused ==
  /\ pc = "daGuard"
  /\ \/ pending # None
     \/ Faults
     \/ bootPolicy # None => guard \notin {None, bootPolicy.owner}
  /\ Finish
  /\ UNCHANGED <<disk, kernel, guard, boot, timers, expired, nextTok, handed>>

DisarmManifest ==
  /\ pc = "daManifest"
  /\ bootPolicy' = None
  /\ Goto("daInstalled")
  /\ UNCHANGED <<current, persisted, pending, installed, lastRollback,
                 kernel, guard, boot, timers, expired, nextTok, handed>>

DisarmInstalled ==
  /\ pc = "daInstalled"
  /\ installed' = None
  /\ Finish
  /\ UNCHANGED <<current, persisted, pending, lastRollback, bootPolicy,
                 kernel, guard, boot, timers, expired, nextTok, handed>>

FreshOwner(o) == bootPolicy # None => bootPolicy.owner # o

BootStep == \/ \E o \in Owner : FreshOwner(o) /\ BootPrepare(o)
            \/ BootPrepareRefused
            \/ GuardInvalidate \/ GuardInstall \/ GuardRefused
            \/ Restore \/ RestoreRefused \/ Release \/ ReleaseRefused \/ Unguard
            \/ DisarmGuard \/ DisarmRefused \/ DisarmManifest \/ DisarmInstalled
============================================================================
