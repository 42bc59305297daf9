------------------------------- MODULE Store -------------------------------
(***************************************************************************)
(* The state the suite keeps: the JSON records of the store directory      *)
(* (src/core/store.py), the kernel objects they describe, and the one      *)
(* process that holds writer.lock.  The operators below are the questions  *)
(* the code asks of that state; the steps are in Transaction and Boot.     *)
(***************************************************************************)
EXTENDS Integers, FiniteSets

CONSTANTS
  Policy,     \* compiled bundles, told apart by their digest
  None,       \* an absent record; as a candidate, the bundle marked disabled
  Shape,      \* Shape[p]: the names of the kernel objects p owns
  Scope,      \* Scope[p]: the guard text boot.guard_text makes of p
  Owner,      \* ownership identifiers of the boot barrier
  NUnits,     \* commits of one transaction: 1 for nft, one per table and family for iptables
  MaxToken,   \* bound: transactions of one behaviour
  MaxBoot     \* bound: boots of one behaviour

Unit   == 1..NUnits
Token  == 1..MaxToken
Bundle == Policy \cup {None}
Kernel == [Unit -> Bundle]

Journal == [tok: Token, boot: Nat, previous: Bundle, snapshot: Kernel, candidate: Bundle]
Installation == [boot: Nat, policy: Policy, objects: Kernel]
Manifest == [owner: Owner, scope: {Scope[p] : p \in Policy}, policy: Policy]

ASSUME BoundsAssumption ==
  /\ NUnits \in Nat \ {0}
  /\ MaxToken \in Nat
  /\ MaxBoot \in Nat
ASSUME NoneAssumption ==
  /\ None \notin Policy
  /\ None \notin Owner
  /\ None \notin Journal
  /\ None \notin Installation
  /\ None \notin Manifest

VARIABLES
  \* durable: <name>.json in the store directory, each replaced atomically
  current, persisted, pending, installed, lastRollback, bootPolicy,
  \* the kernel: what each unit of suite objects holds, and the barrier table's owner
  kernel, guard,
  \* the machine: boot id, armed watchdog timers, transactions past their deadline
  boot, timers, expired,
  \* tokens: the next fresh one, and those an operator may still confirm
  nextTok, handed,
  \* the holder of writer.lock: where it is ("idle": lock free) and its arguments
  pc, job

disk == <<current, persisted, pending, installed, lastRollback, bootPolicy>>
vars == <<disk, kernel, guard, boot, timers, expired, nextTok, handed, pc, job>>

Locations == {"idle", "body", "undo", "rbExec", "rbCurrent", "rbLast", "rbClear",
              "rbRecord", "apply", "apArm", "apUnarm", "apInvalidate", "apExec", "apVerify",
              "cfCheck", "cfRecord", "cfClear", "svBoot", "gdInvalidate", "gdInstall",
              "restore", "release", "unguard", "daGuard", "daManifest", "daInstalled"}
\* Where rollback_locked may return to.
Continuations == {"idle", "body", "apply", "restore"}
Operations == {"none", "apply", "load", "disable", "confirm", "rollback", "status", "save", "timer",
               "boot-prepare", "boot-guard", "boot-restore", "boot-disarm"}
\* tok: the transaction the command names or started; match, expiredOnly: the
\* arguments of rollback_locked; cont: where it returns to; unit: the next commit.
Job == [op: Operations, candidate: Bundle, local: BOOLEAN, verify: BOOLEAN,
        tok: 0..MaxToken, match: 0..MaxToken, expiredOnly: BOOLEAN,
        cont: Continuations, unit: 1..NUnits]
NoJob == [op |-> "none", candidate |-> None, local |-> FALSE, verify |-> FALSE,
          tok |-> 0, match |-> 0, expiredOnly |-> FALSE, cont |-> "idle", unit |-> 1]

TypeOK ==
  /\ current \in Bundle
  /\ persisted \in Bundle
  /\ pending \in Journal \cup {None}
  /\ installed \in Installation \cup {None}
  /\ lastRollback \in 0..MaxToken
  /\ bootPolicy \in Manifest \cup {None}
  /\ kernel \in Kernel
  /\ guard \in Owner \cup {None}
  /\ boot \in Nat
  /\ timers \subseteq Token
  /\ expired \subseteq Token
  /\ nextTok \in 1..(MaxToken + 1)
  /\ handed \subseteq Token
  /\ pc \in Locations
  /\ job \in Job

Init ==
  /\ current = None
  /\ persisted = None
  /\ pending = None
  /\ installed = None
  /\ lastRollback = 0
  /\ bootPolicy = None
  /\ kernel = [u \in Unit |-> None]
  /\ guard = None
  /\ boot = 1
  /\ timers = {}
  /\ expired = {}
  /\ nextTok = 1
  /\ handed = {}
  /\ pc = "idle"
  /\ job = NoJob
----------------------------------------------------------------------------
\* remaining(pending) <= 0: a journal of another boot, or past its monotonic deadline.
Expired(p) == p.boot # boot \/ p.tok \in expired

\* engine.require_owned_present and the hook test of boot.fingerprint: every
\* object of p exists.  The test is by name: the rules inside are not compared.
Present(p) == \A u \in Unit : kernel[u] # None /\ Shape[kernel[u]] = Shape[p]

\* engine.snapshot: the live contents of the objects the previous policy registered.
Snapshot == IF current = None THEN [u \in Unit |-> None] ELSE kernel

\* engine.preflight with an iptables candidate refuses a layout of which only
\* a part is present; none present is a boot, and disabling is always allowed.
Preflight(c) == \/ c = None
                \/ \A u \in Unit : kernel[u] = None
                \/ \A u \in Unit : kernel[u] # None

\* Faulty variant: only disabling is refused, the guard text is not compared.
InScopeEnabled(c) == bootPolicy # None => c # None

\* boot.require_scope
InScope(c) == bootPolicy # None => c # None /\ Scope[c] = bootPolicy.scope

\* Faulty variant: the kernel is not fingerprinted again.
VerifiedOnPaper(allowGuard) ==
  /\ pending = None
  /\ current # None
  /\ installed # None
  /\ installed.boot = boot
  /\ installed.policy = current
  /\ allowGuard \/ guard = None

\* boot.verify, the check of "ready"
Verified(allowGuard) ==
  /\ pending = None
  /\ current # None
  /\ installed # None
  /\ installed.boot = boot
  /\ installed.policy = current
  /\ Present(current)
  /\ installed.objects = kernel
  /\ allowGuard \/ guard = None
============================================================================
