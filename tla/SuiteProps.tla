----------------------------- MODULE SuiteProps -----------------------------
(***************************************************************************)
(* The properties of the suite's transactions.                             *)
(***************************************************************************)
EXTENDS Suite

\* The policy the store stands for: what a rollback would return to.
Official == IF pending = None THEN current ELSE pending.previous

\* The transactions, seen as offers to replace the official policy.
A == INSTANCE AtomicPolicy WITH
       official <- Official,
       offers   <- IF pending = None THEN {}
                   ELSE {[number |-> pending.tok, policy |-> pending.candidate]},
       last     <- nextTok - 1

----------------------------------------------------------------------------
(* Safety. *)

\* Write-ahead (store.py 208-231, 110-140): whatever the suite finds in the
\* kernel after any crash is accounted for by the records.  Without a journal
\* it is the current policy; with one, the previous policy or the candidate.
KernelJournaled ==
  \A u \in Unit : kernel[u] \in
    {None} \cup (IF pending = None THEN {current} ELSE {pending.previous, pending.candidate})

\* The commits of an iptables transaction are not atomic together, yet no
\* sequence of crashes, failures and recoveries leaves two policies side by
\* side once the transaction is over (store.py 110-156).
NoMixture ==
  pending = None => \A u, v \in Unit : kernel[u] = kernel[v]

\* "ready" (boot.py 91-102) compares digests and fingerprints recorded
\* earlier, maybe by a rollback.  When they agree, every object in the kernel
\* is the confirmed policy's.
ReadyMeansInstalled ==
  Verified(TRUE) => \A u \in Unit : kernel[u] = current

\* A transaction that may be confirmed by hand, and one that is changing the
\* kernel for a remote operator, has its timer armed for as long as its
\* deadline has not passed (store.py 202-231: armed first, fires not earlier).
Watched ==
  /\ pending # None
  /\ ~Expired(pending)
  /\ pending.tok \in handed \/ (pc \in {"apExec", "apVerify"} /\ ~job.local)
  => pending.tok \in timers

\* Once a barrier is prepared, every policy that can be current, confirmed,
\* rolled back to or loaded at boot has the scope its text was made for
\* (boot.py 156-194, require_scope in apply_locked and save).
ScopeHeld ==
  bootPolicy # None =>
    /\ \A p \in {current, persisted} \cup
                (IF pending = None THEN {} ELSE {pending.previous, pending.candidate}) :
         p # None /\ Scope[p] = bootPolicy.scope
    /\ Scope[bootPolicy.policy] = bootPolicy.scope

\* A barrier table in the kernel is always the one the manifest registers, so
\* that release and disarm can remove it (boot.py 206-254).
GuardRegistered ==
  guard # None => bootPolicy # None /\ guard = bootPolicy.owner
----------------------------------------------------------------------------
(* What a step may never do. *)

\* Every transaction is decided once, and only the last write of its confirmation
\* changes the official policy: not a crash between the two writes of confirm,
\* not a rollback that is interrupted and repeated, not a stale timer
\* (store.py 110-156).
OneDecision == A!ASpec /\ [][Official' # Official => pc = "cfClear"]_vars

\* A rollback of a transaction that is still within its deadline comes from
\* the operator or from the very command that started it: neither the timer of
\* an earlier transaction nor another command's recovery undoes it.
UnexpiredKept ==
  [][pc = "rbClear" /\ pending # None /\ pending' = None /\ ~Expired(pending)
       => job.op = "rollback" \/ job.tok = pending.tok]_vars

\* Short of a reboot or of boot-disarm, the barrier goes only when the kernel
\* holds the current policy and nothing is pending (boot.py 225-243).
BarrierKept ==
  [][guard # None /\ guard' = None /\ boot' = boot
       => \/ job.op = "boot-disarm"
          \/ pending = None /\ \A u \in Unit : kernel[u] # None /\ kernel[u] = current]_vars
----------------------------------------------------------------------------
(* Liveness. *)

\* A transaction whose timer is armed is decided: it does not stay pending
\* however the other commands compete for the lock (store.py 86-92, 110-140).
Open(t) == pending # None /\ pending.tok = t
TimedIsDecided == \A t \in Token : (Open(t) /\ t \in timers) ~> ~Open(t)
============================================================================
