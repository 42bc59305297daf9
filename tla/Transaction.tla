---------------------------- MODULE Transaction ----------------------------
(***************************************************************************)
(* The timed transaction of src/core/store.py: rollback_locked,            *)
(* confirm_locked and apply_locked, cut at every durable write and every   *)
(* kernel commit, since the process may die between any two of them.       *)
(* Each action is a step of the process that holds writer.lock.            *)
(***************************************************************************)
EXTENDS Store

CONSTANT Faults   \* a kernel command may fail: nft, iptables-restore, systemd-run
ASSUME FaultsAssumption == Faults \in BOOLEAN

ApplyOps == {"apply", "load", "disable", "boot-restore"}

\* The command ends, with or without an error, and the lock is released.
Finish == pc' = "idle" /\ job' = NoJob
Goto(l) == pc' = l /\ UNCHANGED job
Return(l) == IF l = "idle" THEN Finish ELSE Goto(l)
\* Call rollback_locked(match, expired_only) and continue at l.
Undo(match, expiredOnly, l) ==
  /\ pc' = "undo"
  /\ job' = [job EXCEPT !.match = match, !.expiredOnly = expiredOnly, !.cont = l]
----------------------------------------------------------------------------
(* rollback_locked *)

\* Faulty variant: the token a timer carries is not compared with the journal's.
NothingToUndoAnyToken == pending # None => job.expiredOnly /\ ~Expired(pending)

NothingToUndo ==
  pending # None => \/ job.match \notin {0, pending.tok}
                    \/ job.expiredOnly /\ ~Expired(pending)

UndoNothing ==
  /\ pc = "undo"
  /\ NothingToUndo
  /\ Return(job.cont)
  /\ UNCHANGED <<disk, kernel, guard, boot, timers, expired, nextTok, handed>>

\* inspect, prepare and check passed: readiness goes before the first commit.
UndoBegin ==
  /\ pc = "undo"
  /\ ~NothingToUndo
  /\ installed' = None
  /\ pc' = "rbExec"
  /\ job' = [job EXCEPT !.unit = 1]
  /\ handed' = IF job.op = "rollback" THEN handed \ {pending.tok} ELSE handed
  /\ UNCHANGED <<current, persisted, pending, lastRollback, bootPolicy,
                 kernel, guard, boot, timers, expired, nextTok>>

UndoRefused ==
  /\ Faults
  /\ pc = "undo"
  /\ ~NothingToUndo
  /\ Finish
  /\ UNCHANGED <<disk, kernel, guard, boot, timers, expired, nextTok, handed>>

\* Faulty variant: what the snapshot says was absent is not removed.
RollbackExecPresent ==
  /\ pc = "rbExec"
  /\ kernel' = IF pending.snapshot[job.unit] = None THEN kernel
               ELSE [kernel EXCEPT ![job.unit] = pending.snapshot[job.unit]]
  /\ IF job.unit < NUnits
       THEN pc' = "rbExec" /\ job' = [job EXCEPT !.unit = @ + 1]
       ELSE Goto("rbCurrent")
  /\ UNCHANGED <<disk, guard, boot, timers, expired, nextTok, handed>>

\* engine.execute of the snapshot, one commit; it has no deadline.
RollbackExec ==
  /\ pc = "rbExec"
  /\ kernel' = [kernel EXCEPT ![job.unit] = pending.snapshot[job.unit]]
  /\ IF job.unit < NUnits
       THEN pc' = "rbExec" /\ job' = [job EXCEPT !.unit = @ + 1]
       ELSE Goto("rbCurrent")
  /\ UNCHANGED <<disk, guard, boot, timers, expired, nextTok, handed>>

\* Faulty variant: the failed commit is ignored and the records go on.
RollbackFailsQuietly ==
  /\ Faults
  /\ pc = "rbExec"
  /\ Goto("rbCurrent")
  /\ UNCHANGED <<disk, kernel, guard, boot, timers, expired, nextTok, handed>>

\* A commit that fails, or whose command is killed after it took effect,
\* raises out of the command.  The journal stays.
RollbackFails ==
  /\ Faults
  /\ pc = "rbExec"
  /\ kernel' \in {kernel, [kernel EXCEPT ![job.unit] = pending.snapshot[job.unit]]}
  /\ Finish
  /\ UNCHANGED <<disk, guard, boot, timers, expired, nextTok, handed>>

\* Faulty variant: current is left for the next command to put right.
RollbackCurrentKept ==
  /\ pc = "rbCurrent"
  /\ Goto("rbLast")
  /\ UNCHANGED <<disk, kernel, guard, boot, timers, expired, nextTok, handed>>

RollbackCurrent ==
  /\ pc = "rbCurrent"
  /\ current' = pending.previous
  /\ Goto("rbLast")
  /\ UNCHANGED <<persisted, pending, installed, lastRollback, bootPolicy,
                 kernel, guard, boot, timers, expired, nextTok, handed>>

RollbackLast ==
  /\ pc = "rbLast"
  /\ lastRollback' = pending.tok
  /\ Goto("rbClear")
  /\ UNCHANGED <<current, persisted, pending, installed, bootPolicy,
                 kernel, guard, boot, timers, expired, nextTok, handed>>

RollbackClear ==
  /\ pc = "rbClear"
  /\ pending' = None
  /\ IF pending.previous = None THEN Return(job.cont) ELSE Goto("rbRecord")
  /\ UNCHANGED <<current, persisted, installed, lastRollback, bootPolicy,
                 kernel, guard, boot, timers, expired, nextTok, handed>>

\* The restored policy is recorded if its objects are there; any failure
\* leaves it unrecorded.  current is the previous policy since RollbackCurrent.
RollbackRecord ==
  /\ pc = "rbRecord"
  /\ \/ /\ Present(current)
        /\ installed' = [boot |-> boot, policy |-> current, objects |-> kernel]
     \/ /\ Present(current) => Faults
        /\ installed' = None
  /\ Return(job.cont)
  /\ UNCHANGED <<current, persisted, pending, lastRollback, bootPolicy,
                 kernel, guard, boot, timers, expired, nextTok, handed>>

RollbackStep == \/ UndoNothing \/ UndoBegin \/ UndoRefused
                \/ RollbackExec \/ RollbackFails \/ RollbackCurrent
                \/ RollbackLast \/ RollbackClear \/ RollbackRecord
----------------------------------------------------------------------------
(* confirm_locked *)

ConfirmUnknown ==
  /\ pc = "cfCheck"
  /\ pending # None => job.tok # pending.tok
  /\ Finish
  /\ UNCHANGED <<disk, kernel, guard, boot, timers, expired, nextTok, handed>>

ConfirmExpired ==
  /\ pc = "cfCheck"
  /\ pending # None
  /\ job.tok = pending.tok
  /\ Expired(pending)
  /\ Undo(job.tok, FALSE, "idle")
  /\ UNCHANGED <<disk, kernel, guard, boot, timers, expired, nextTok, handed>>

\* The candidate becomes durable before the journal is dropped.
ConfirmCurrent ==
  /\ pc = "cfCheck"
  /\ pending # None
  /\ job.tok = pending.tok
  /\ ~Expired(pending)
  /\ current' = pending.candidate
  /\ Goto("cfRecord")
  /\ UNCHANGED <<persisted, pending, installed, lastRollback, bootPolicy,
                 kernel, guard, boot, timers, expired, nextTok, handed>>

ConfirmRecord ==
  /\ pc = "cfRecord"
  /\ IF pending.candidate = None
       THEN installed' = None
       ELSE /\ Present(pending.candidate)
            /\ installed' = [boot |-> boot, policy |-> pending.candidate, objects |-> kernel]
  /\ Goto("cfClear")
  /\ UNCHANGED <<current, persisted, pending, lastRollback, bootPolicy,
                 kernel, guard, boot, timers, expired, nextTok, handed>>

\* Within an application the exception undoes it; a confirm command just
\* fails, and leaves the journal with current already naming the candidate.
ConfirmRecordFails ==
  /\ pc = "cfRecord"
  /\ pending.candidate # None
  /\ Present(pending.candidate) => Faults
  /\ IF job.op \in ApplyOps THEN Undo(job.tok, FALSE, "idle") ELSE Finish
  /\ UNCHANGED <<disk, kernel, guard, boot, timers, expired, nextTok, handed>>

ConfirmClear ==
  /\ pc = "cfClear"
  /\ pending' = None
  /\ Return(IF job.op = "boot-restore" THEN "release" ELSE "idle")
  /\ UNCHANGED <<current, persisted, installed, lastRollback, bootPolicy,
                 kernel, guard, boot, timers, expired, nextTok, handed>>

ConfirmStep == \/ ConfirmUnknown \/ ConfirmExpired \/ ConfirmCurrent
               \/ ConfirmRecord \/ ConfirmRecordFails \/ ConfirmClear
----------------------------------------------------------------------------
(* apply_locked *)

\* Its own recovery of an expired journal, after the one of the command.
ApplyRecover ==
  /\ pc = "apply"
  /\ pending # None
  /\ Expired(pending)
  /\ Undo(0, TRUE, "apply")
  /\ UNCHANGED <<disk, kernel, guard, boot, timers, expired, nextTok, handed>>

\* A journal that is still open, a candidate out of scope, preflight, or
\* any test of the engine: nothing has been written yet.
ApplyRefused ==
  /\ pc = "apply"
  /\ \/ pending # None /\ ~Expired(pending)
     \/ pending = None /\ (Faults \/ ~InScope(job.candidate) \/ ~Preflight(job.candidate))
  /\ Finish
  /\ UNCHANGED <<disk, kernel, guard, boot, timers, expired, nextTok, handed>>

\* Everything is checked and the snapshot taken; the journal is written
\* before anything can change, with a fresh token and this boot's deadline.
ApplyJournal ==
  /\ pc = "apply"
  /\ pending = None
  /\ InScope(job.candidate)
  /\ Preflight(job.candidate)
  /\ nextTok <= MaxToken
  /\ pending' = [tok |-> nextTok, boot |-> boot, previous |-> current,
                 snapshot |-> Snapshot, candidate |-> job.candidate]
  /\ nextTok' = nextTok + 1
  /\ pc' = IF job.local THEN "apInvalidate" ELSE "apArm"
  /\ job' = [job EXCEPT !.tok = nextTok]
  /\ UNCHANGED <<current, persisted, installed, lastRollback, bootPolicy,
                 kernel, guard, boot, timers, expired, handed>>

ApplyArm ==
  /\ pc = "apArm"
  /\ timers' = timers \cup {job.tok}
  /\ Goto("apInvalidate")
  /\ UNCHANGED <<disk, kernel, guard, boot, expired, nextTok, handed>>

\* Faulty variant: the exit status of systemd-run is not looked at.
ApplyArmFailsUnseen ==
  /\ Faults
  /\ pc = "apArm"
  /\ timers' \in {timers, timers \cup {job.tok}}
  /\ Goto("apInvalidate")
  /\ UNCHANGED <<disk, kernel, guard, boot, expired, nextTok, handed>>

\* systemd-run failed, perhaps after it created the timer.
ApplyArmFails ==
  /\ Faults
  /\ pc = "apArm"
  /\ timers' \in {timers, timers \cup {job.tok}}
  /\ Goto("apUnarm")
  /\ UNCHANGED <<disk, kernel, guard, boot, expired, nextTok, handed>>

ApplyUnarm ==
  /\ pc = "apUnarm"
  /\ pending' = None
  /\ Finish
  /\ UNCHANGED <<current, persisted, installed, lastRollback, bootPolicy,
                 kernel, guard, boot, timers, expired, nextTok, handed>>

ApplyInvalidate ==
  /\ pc = "apInvalidate"
  /\ installed' = None
  /\ pc' = "apExec"
  /\ job' = [job EXCEPT !.unit = 1]
  /\ UNCHANGED <<current, persisted, pending, lastRollback, bootPolicy,
                 kernel, guard, boot, timers, expired, nextTok, handed>>

\* Faulty variant: one commit too many is counted.
ApplyExecOffByOne ==
  /\ pc = "apExec"
  /\ job.tok \notin expired
  /\ kernel' = [kernel EXCEPT ![job.unit] = job.candidate]
  /\ IF job.unit <= NUnits
       THEN pc' = "apExec" /\ job' = [job EXCEPT !.unit = @ + 1]
       ELSE Goto("apVerify")
  /\ UNCHANGED <<disk, guard, boot, timers, expired, nextTok, handed>>

\* engine.execute, one commit: refused once the deadline has passed.
ApplyExec ==
  /\ pc = "apExec"
  /\ job.tok \notin expired
  /\ kernel' = [kernel EXCEPT ![job.unit] = job.candidate]
  /\ IF job.unit < NUnits
       THEN pc' = "apExec" /\ job' = [job EXCEPT !.unit = @ + 1]
       ELSE Goto("apVerify")
  /\ UNCHANGED <<disk, guard, boot, timers, expired, nextTok, handed>>

\* Faulty variant: execution_started is not set before the first commit.
ApplyExecFailsUnstarted ==
  /\ pc = "apExec"
  /\ \/ Faults /\ kernel' \in {kernel, [kernel EXCEPT ![job.unit] = job.candidate]}
     \/ job.tok \in expired /\ UNCHANGED kernel
  /\ Goto("apUnarm")
  /\ UNCHANGED <<disk, guard, boot, timers, expired, nextTok, handed>>

\* A commit fails or its command is killed by the deadline: undo.
ApplyExecFails ==
  /\ pc = "apExec"
  /\ \/ Faults /\ kernel' \in {kernel, [kernel EXCEPT ![job.unit] = job.candidate]}
     \/ job.tok \in expired /\ UNCHANGED kernel
  /\ Undo(job.tok, FALSE, "idle")
  /\ UNCHANGED <<disk, guard, boot, timers, expired, nextTok, handed>>

\* Past the deadline, or the external verifier failed or timed out: undo.
ApplyRejected ==
  /\ pc = "apVerify"
  /\ job.tok \in expired \/ job.verify
  /\ Undo(job.tok, FALSE, "idle")
  /\ UNCHANGED <<disk, kernel, guard, boot, timers, expired, nextTok, handed>>

\* Confirmed at once for the console, or by the external verifier, which may
\* have taken the transaction past its deadline meanwhile.
ApplyAccepted ==
  /\ pc = "apVerify"
  /\ IF job.verify THEN TRUE ELSE job.local /\ job.tok \notin expired
  /\ Goto("cfCheck")
  /\ UNCHANGED <<disk, kernel, guard, boot, timers, expired, nextTok, handed>>

\* The token is printed; the operator tests a new connection and confirms.
ApplyHandOver ==
  /\ pc = "apVerify"
  /\ ~job.local
  /\ ~job.verify
  /\ job.tok \notin expired
  /\ handed' = handed \cup {job.tok}
  /\ Finish
  /\ UNCHANGED <<disk, kernel, guard, boot, timers, expired, nextTok>>

ApplyStep == \/ ApplyRecover \/ ApplyRefused \/ ApplyJournal
             \/ ApplyArm \/ ApplyArmFails \/ ApplyUnarm \/ ApplyInvalidate
             \/ ApplyExec \/ ApplyExecFails
             \/ ApplyRejected \/ ApplyAccepted \/ ApplyHandOver
============================================================================
