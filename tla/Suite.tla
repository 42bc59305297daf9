------------------------------- MODULE Suite -------------------------------
(***************************************************************************)
(* The privileged commands of src/core/fw.py over one store, and the world *)
(* they run in: deadlines that pass, watchdog timers that fire, processes  *)
(* killed at any point, reboots, and third parties that remove rules.      *)
(***************************************************************************)
EXTENDS Boot

CONSTANTS
  Commands,     \* the operations invoked in this instance
  CrashOps,     \* the operations whose process may be killed
  Flushes,      \* a third party may remove the suite's objects
  Disciplined   \* the operator confirms only a delivered token not being rolled back
ASSUME SuiteAssumption ==
  /\ Commands \subseteq Operations
  /\ CrashOps \subseteq Operations
  /\ Flushes \in BOOLEAN
  /\ Disciplined \in BOOLEAN
----------------------------------------------------------------------------
(* A command takes the lock.  All but the boot operations and rollback     *)
(* itself recover an expired journal first.                                *)

Enter(op) == pc = "idle" /\ op \in Commands

Untouched == UNCHANGED <<disk, kernel, guard, boot, expired, nextTok, handed>>

StartRecovering(j) ==
  /\ pc' = "undo"
  /\ job' = [j EXCEPT !.expiredOnly = TRUE, !.cont = "body"]
  /\ UNCHANGED timers
  /\ Untouched

StartApply(op, c, local, verify) ==
  /\ Enter(op)
  /\ nextTok <= MaxToken
  /\ StartRecovering([NoJob EXCEPT !.op = op, !.candidate = c, !.local = local, !.verify = verify])

\* status prints the token of any open transaction, delivered or not.
Confirmable == IF Disciplined THEN handed ELSE 1..(nextTok - 1)

StartConfirm(t) ==
  /\ Enter("confirm")
  /\ t \in Confirmable
  /\ StartRecovering([NoJob EXCEPT !.op = "confirm", !.tok = t])

StartPlain(op) ==
  /\ op \in {"status", "save"}
  /\ Enter(op)
  /\ StartRecovering([NoJob EXCEPT !.op = op])

\* rollback --token t, or of whatever is pending (t = 0)
StartRollback(t) ==
  /\ Enter("rollback")
  /\ t < nextTok
  /\ pc' = "undo"
  /\ job' = [NoJob EXCEPT !.op = "rollback", !.tok = t, !.match = t]
  /\ UNCHANGED timers
  /\ Untouched

\* Faulty variant: the timer gives up when another process holds the lock.
StartTimerImpatient(t) ==
  /\ t \in timers
  /\ t \in expired
  /\ timers' = timers \ {t}
  /\ IF pc = "idle"
       THEN pc' = "undo" /\ job' = [NoJob EXCEPT !.op = "timer", !.tok = t, !.match = t]
       ELSE UNCHANGED <<pc, job>>
  /\ Untouched

\* A watchdog timer fires once, after its delay, and runs rollback --token t.
StartTimer(t) ==
  /\ pc = "idle"
  /\ t \in timers
  /\ t \in expired
  /\ timers' = timers \ {t}
  /\ pc' = "undo"
  /\ job' = [NoJob EXCEPT !.op = "timer", !.tok = t, !.match = t]
  /\ Untouched

StartBoot(op) ==
  /\ Enter(op)
  /\ op = "boot-restore" => nextTok <= MaxToken
  /\ \/ op = "boot-prepare" /\ pc' = "body"
     \/ op \in {"boot-guard", "boot-restore"} /\ pc' = "gdInvalidate"
     \/ op = "boot-disarm" /\ pc' = "daGuard"
  /\ job' = [NoJob EXCEPT !.op = op]
  /\ UNCHANGED timers
  /\ Untouched
----------------------------------------------------------------------------
(* The rest of main, after the recovery. *)

BodyApply ==
  /\ pc = "body"
  /\ \/ job.op = "apply" /\ Goto("apply")
     \/ /\ job.op = "load"
        /\ persisted # None
        /\ pc' = "apply"
        /\ job' = [job EXCEPT !.candidate = persisted]
     \/ job.op = "disable" /\ current # None /\ Goto("apply")
  /\ UNCHANGED <<disk, kernel, guard, boot, timers, expired, nextTok, handed>>

BodyConfirm ==
  /\ pc = "body"
  /\ job.op = "confirm"
  /\ Goto("cfCheck")
  /\ UNCHANGED <<disk, kernel, guard, boot, timers, expired, nextTok, handed>>

SaveAllowed == current # None /\ pending = None /\ InScope(current)

\* save: two writes, the policy and then the digest the barrier expects.
Save ==
  /\ pc = "body"
  /\ job.op = "save"
  /\ SaveAllowed
  /\ persisted' = current
  /\ Goto("svBoot")
  /\ UNCHANGED <<current, pending, installed, lastRollback, bootPolicy,
                 kernel, guard, boot, timers, expired, nextTok, handed>>

SaveManifest ==
  /\ pc = "svBoot"
  /\ bootPolicy' = IF bootPolicy = None THEN None ELSE [bootPolicy EXCEPT !.policy = current]
  /\ Finish
  /\ UNCHANGED <<current, persisted, pending, installed, lastRollback,
                 kernel, guard, boot, timers, expired, nextTok, handed>>

BodyEnds ==
  /\ pc = "body"
  /\ \/ job.op = "status"
     \/ job.op = "load" /\ persisted = None
     \/ job.op = "disable" /\ current = None
     \/ job.op = "save" /\ ~SaveAllowed
  /\ Finish
  /\ UNCHANGED <<disk, kernel, guard, boot, timers, expired, nextTok, handed>>

BodyStep == BodyApply \/ BodyConfirm \/ Save \/ SaveManifest \/ BodyEnds

ProcessStep == RollbackStep \/ ConfirmStep \/ ApplyStep \/ BootStep \/ BodyStep
----------------------------------------------------------------------------
(* The environment. *)

\* The monotonic deadline of an issued transaction passes.
Expire(t) ==
  /\ t \in 1..(nextTok - 1)
  /\ t \notin expired
  /\ expired' = expired \cup {t}
  /\ UNCHANGED <<disk, kernel, guard, boot, timers, nextTok, handed, pc, job>>

\* SIGKILL, SIGHUP of a lost session: no cleanup runs, the lock is released.
Crash ==
  /\ pc # "idle"
  /\ job.op \in CrashOps
  /\ Finish
  /\ UNCHANGED <<disk, kernel, guard, boot, timers, expired, nextTok, handed>>

\* Only the records of the store survive.
Reboot ==
  /\ boot < MaxBoot
  /\ boot' = boot + 1
  /\ kernel' = [u \in Unit |-> None]
  /\ guard' = None
  /\ timers' = {}
  /\ Finish
  /\ UNCHANGED <<disk, expired, nextTok, handed>>

\* The lock does not bind other administrators.
Flush(u) ==
  /\ Flushes
  /\ kernel' = [kernel EXCEPT ![u] = None]
  /\ UNCHANGED <<disk, guard, boot, timers, expired, nextTok, handed, pc, job>>

CommandStarts ==
  \/ \E c \in Policy, local, verify \in BOOLEAN : StartApply("apply", c, local, verify)
  \/ \E local, verify \in BOOLEAN :
       StartApply("load", None, local, verify) \/ StartApply("disable", None, local, verify)
  \/ \E t \in Token : StartConfirm(t)
  \/ \E op \in {"status", "save"} : StartPlain(op)
  \/ \E t \in 0..MaxToken : StartRollback(t)
  \/ \E op \in {"boot-prepare", "boot-guard", "boot-restore", "boot-disarm"} : StartBoot(op)

Environment ==
  \/ \E t \in Token : Expire(t)
  \/ Crash
  \/ Reboot
  \/ \E u \in Unit : Flush(u)

Next ==
  \/ CommandStarts
  \/ \E t \in Token : StartTimer(t)
  \/ ProcessStep
  \/ Environment

Spec == Init /\ [][Next]_vars

\* A process that is not killed runs on; time passes; a timer that is due
\* gets the lock in the end, whatever other commands take it in between.
Fairness ==
  /\ WF_vars(ProcessStep)
  /\ \A t \in Token : WF_vars(Expire(t)) /\ SF_vars(StartTimer(t))

FairSpec == Spec /\ Fairness
============================================================================
