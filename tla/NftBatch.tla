------------------------------ MODULE NftBatch ------------------------------
(***************************************************************************)
(* The nftables engine (core/engine.py): one commit that replaces the      *)
(* tables of the suite and, in Docker's DOCKER-USER chain, the few rules   *)
(* that carry a mark of the suite.  These are found by their mark, checked *)
(* against the registered ones and deleted by handle; other programs may   *)
(* change the chain between the inventory and the commit.                  *)
(***************************************************************************)
EXTENDS Integers, FiniteSets, Sequences

CONSTANTS
  Policy, None,
  Mark,           \* comments l4d2-suite:s2s:..., one for each meaning of a rule
  Shared,         \* Shared[p]: the marks of its shared rules, in order
  Name, Objects,  \* Objects[p]: the names of its tables
  Disturbances,   \* what other programs do
  MaxDisturbances, MaxApplies  \* bounds: how often they do, and kills; transactions

\* What a transaction installs: a policy, or what a snapshot found of one (None
\* where a table or a rule was absent).
Contents == [tables : [Name -> Policy \cup {None}], shared : Seq(Mark \cup {None})]
Journal == [previous : Policy \cup {None}, candidate : Policy, disabled : BOOLEAN,
            snapshot : Contents, handed : BOOLEAN]

Kinds == {"insert", "delete", "alter", "copy", "reboot", "docker", "kill"}
ASSUME NftAssumption ==
  /\ None \notin Policy /\ None \notin Mark /\ None \notin Journal
  /\ \A p \in Policy : Objects[p] \subseteq Name
  /\ Shared \in [Policy -> Seq(Mark)]
  /\ Disturbances \subseteq Kinds
  /\ MaxDisturbances \in Nat /\ MaxApplies \in Nat

\* The networks a policy joins are sets: each pair is described once (compiler.py 378-389).
ASSUME DistinctMarks ==
  \A p \in Policy : \A i, j \in DOMAIN Shared[p] : Shared[p][i] = Shared[p][j] => i = j

VARIABLES
  tables,   \* whose text each table holds
  chain,    \* the rules of DOCKER-USER
  docker,   \* the chain exists, and FORWARD enters it first
  next,     \* the kernel's next handle; none is used twice
  current, journal, pc,
  tx,       \* the prepared file
  fresh,    \* no other program has changed anything since it was prepared
  found, calm, \* the suite's part before the pending transaction; nobody else changed it since
  tampered, \* another program has copied or replaced a marked rule
  disturbed, applied

kernel == <<tables, chain, docker, next>>
ghosts == <<found, calm, tampered>>
vars == <<kernel, current, journal, pc, tx, fresh, ghosts, disturbed, applied>>

Rule == [handle : Nat, front : BOOLEAN, mark : Mark \cup {None}, intact : BOOLEAN]
Place(r) == IF r.front THEN -r.handle ELSE r.handle
Marked(m) == {r \in chain : r.mark = m}
Ran(s) == {s[i] : i \in DOMAIN s}
Marks(p) == IF p = None THEN {} ELSE Ran(Shared[p])
Tables(p) == IF p = None THEN {} ELSE Objects[p]

Empty == [tables |-> [n \in Name |-> None], shared |-> <<>>]
Bundle(p) == [tables |-> [n \in Name |-> IF n \in Objects[p] THEN p ELSE None], shared |-> Shared[p]]

\* Ambiguous or changed rules refuse the snapshot.
Sane(m) == Cardinality(Marked(m)) <= 1 /\ \A r \in Marked(m) : r.intact
Snapshot(p) ==
  IF p = None THEN Empty ELSE
  [tables |-> [n \in Name |-> IF n \in Objects[p] THEN tables[n] ELSE None],
   shared |-> [i \in DOMAIN Shared[p] |-> IF Marked(Shared[p][i]) # {} THEN Shared[p][i] ELSE None]]

\* nft_transaction: the rules it finds are registered and are what was registered.
Acceptable(marks, registered) ==
  /\ marks # {} => docker
  /\ \A m \in marks : Sane(m) /\ (Marked(m) # {} => m \in registered)

\* Faulty variant: the registered rules are not looked for.
TransactionWithoutMarks(target, names, marks) ==
  [drop |-> {n \in names : tables[n] # None}, add |-> target.tables, delete |-> {}, insert |-> target.shared]

\* Faulty variant: Docker's chain is emptied before the rules go in.
TransactionFlushing(target, names, marks) ==
  [drop |-> {n \in names : tables[n] # None}, add |-> target.tables,
   delete |-> {r.handle : r \in chain}, insert |-> target.shared]

\* Faulty variant: only the rules it inserts again are deleted.
TransactionReplacing(target, names, marks) ==
  [drop |-> {n \in names : tables[n] # None}, add |-> target.tables,
   delete |-> {r.handle : r \in {s \in chain : s.mark \in Ran(target.shared)}}, insert |-> target.shared]

Transaction(target, names, marks) ==
  [drop   |-> {n \in names : tables[n] # None},
   add    |-> target.tables,
   delete |-> {r.handle : r \in {s \in chain : s.mark \in marks}},
   insert |-> target.shared]

NoTx == [drop |-> {}, add |-> Empty.tables, delete |-> {}, insert |-> <<>>]
----------------------------------------------------------------------------
Init ==
  /\ tables = [n \in Name |-> None]
  /\ chain = {}
  /\ docker = TRUE
  /\ next = 1
  /\ current = None
  /\ journal = None
  /\ pc = "idle"
  /\ tx = NoTx
  /\ fresh = TRUE
  /\ found = [tables |-> [n \in Name |-> None], marks |-> {}]
  /\ calm = TRUE
  /\ tampered = FALSE
  /\ disturbed = 0
  /\ applied = 0

Own == [tables |-> tables, marks |-> {r.mark : r \in chain} \ {None}]

\* preflight: tables that exist are registered; shared rules need Docker's chain.
Preflight(p, previous) ==
  /\ \A n \in Objects[p] : tables[n] # None => n \in Tables(previous)
  /\ Marks(p) \cup Marks(previous) # {} => docker

\* apply_locked up to the journal.
Apply(p, disabled) ==
  /\ pc = "idle" /\ journal = None
  /\ applied < MaxApplies
  /\ disabled => p = current
  /\ Preflight(p, current)
  /\ \A m \in Marks(current) : Sane(m)
  /\ Acceptable(Marks(p) \cup Marks(current), Marks(current))
  /\ journal' = [previous |-> current, candidate |-> p, disabled |-> disabled,
                 snapshot |-> Snapshot(current), handed |-> FALSE]
  /\ tx' = Transaction(IF disabled THEN Empty ELSE Bundle(p),
                       Objects[p] \cup Tables(current), Marks(p) \cup Marks(current))
  /\ pc' = "apply"
  /\ fresh' = TRUE
  /\ found' = Own
  /\ calm' = TRUE
  /\ applied' = applied + 1
  /\ UNCHANGED <<kernel, current, tampered, disturbed>>

\* nft -f: all of it or nothing. The rules go in one before the other.
Inserted == {[handle |-> next + i, front |-> TRUE, mark |-> tx.insert[i], intact |-> TRUE] :
               i \in {j \in DOMAIN tx.insert : tx.insert[j] # None}}
Accepted ==
  /\ \A n \in tx.drop : tables[n] # None
  /\ tx.delete \subseteq {r.handle : r \in chain}
  /\ Ran(tx.insert) \ {None} # {} => docker

TakeEffect ==
  /\ Accepted
  /\ tables' = [n \in Name |-> IF tx.add[n] # None THEN tx.add[n]
                               ELSE IF n \in tx.drop THEN None ELSE tables[n]]
  /\ chain' = {r \in chain : r.handle \notin tx.delete} \cup Inserted
  /\ next' = next + Len(tx.insert) + 1
  /\ UNCHANGED docker

Commit ==
  /\ pc \in {"apply", "rollback"}
  /\ TakeEffect
  /\ pc' = IF pc = "apply" THEN "applied" ELSE "rolled back"
  /\ UNCHANGED <<current, journal, tx, fresh, disturbed, applied, ghosts>>

\* Refused, or killed by its timeout: apply recovers at once, a recovery gives up.
CommitFails ==
  /\ pc \in {"apply", "rollback"}
  /\ pc' = IF pc = "apply" THEN "recover" ELSE "idle"
  /\ tx' = NoTx
  /\ UNCHANGED <<kernel, current, journal, fresh, disturbed, applied, ghosts>>

\* The token is printed.
Applied ==
  /\ pc = "applied"
  /\ journal' = [journal EXCEPT !.handed = TRUE]
  /\ pc' = "idle"
  /\ tx' = NoTx
  /\ UNCHANGED <<kernel, current, fresh, disturbed, applied, ghosts>>

\* Faulty variant: only the rules of the previous policy are registered.
RegisteredBefore == Marks(journal.previous)

\* rollback_locked: the rules of the candidate are registered too.
Registered == Marks(journal.previous) \cup Marks(journal.candidate)

\* Faulty variant: the tables of the candidate are not dropped.
RollbackForgetting ==
  /\ pc \in {"idle", "recover"} /\ journal # None
  /\ tx' = Transaction(journal.snapshot, Tables(journal.previous), Registered)
  /\ pc' = "rollback"
  /\ fresh' = TRUE
  /\ journal' = [journal EXCEPT !.handed = FALSE]
  /\ UNCHANGED <<kernel, current, disturbed, applied, ghosts>>

RecoveryPossible == Acceptable(Marks(journal.previous) \cup Marks(journal.candidate), Registered)
Rollback ==
  /\ pc \in {"idle", "recover"} /\ journal # None
  /\ IF RecoveryPossible
       THEN /\ tx' = Transaction(journal.snapshot, Tables(journal.previous) \cup Objects[journal.candidate],
                                 Marks(journal.previous) \cup Marks(journal.candidate))
            /\ pc' = "rollback"
            /\ fresh' = TRUE
            /\ journal' = [journal EXCEPT !.handed = FALSE]
       ELSE /\ pc' = "idle"
            /\ UNCHANGED <<tx, fresh, journal>>
  /\ UNCHANGED <<kernel, current, disturbed, applied, ghosts>>

\* Faulty variant: the snapshot becomes the current policy.
RolledBackSnapshot ==
  /\ pc = "rolled back"
  /\ current' = IF journal.previous = None THEN None ELSE journal.snapshot
  /\ journal' = None
  /\ pc' = "idle"
  /\ tx' = NoTx
  /\ UNCHANGED <<kernel, fresh, disturbed, applied, ghosts>>

RolledBack ==
  /\ pc = "rolled back"
  /\ journal' = None
  /\ current' = journal.previous
  /\ pc' = "idle"
  /\ tx' = NoTx
  /\ UNCHANGED <<kernel, fresh, disturbed, applied, ghosts>>

NothingPending == pc = "idle" /\ journal = None /\ UNCHANGED vars

\* require_owned_present: every table, every shared rule once and as registered,
\* and no rule of another program before the last of them.
Installed(p) ==
  /\ \A n \in Objects[p] : tables[n] # None
  /\ \A m \in Marks(p) : Cardinality(Marked(m)) = 1 /\ Sane(m)
  /\ \A r \in chain, s \in chain : r.mark = None /\ s.mark \in Marks(p) => Place(s) < Place(r)

\* confirm_locked of a printed token, when record_installed accepts what it finds.
Confirm ==
  /\ pc = "idle" /\ journal # None
  /\ journal.handed
  /\ \/ journal.disabled
     \/ Preflight(journal.candidate, journal.candidate) /\ Installed(journal.candidate)
  /\ current' = IF journal.disabled THEN None ELSE journal.candidate
  /\ journal' = None
  /\ UNCHANGED <<kernel, pc, tx, fresh, disturbed, applied, ghosts>>

\* record_installed refuses, or the process is killed before the journal goes:
\* current is the candidate already, and the transaction is still pending.
ConfirmStops ==
  /\ pc = "idle" /\ journal # None
  /\ journal.handed
  /\ current' = IF journal.disabled THEN None ELSE journal.candidate
  /\ UNCHANGED <<kernel, journal, pc, tx, fresh, disturbed, applied, ghosts>>

Kill ==
  /\ "kill" \in Disturbances
  /\ disturbed < MaxDisturbances
  /\ disturbed' = disturbed + 1
  /\ pc' = "idle"
  /\ tx' = NoTx
  /\ UNCHANGED <<current, journal, fresh, applied, ghosts>>

Killed == pc # "idle" /\ Kill /\ UNCHANGED kernel

\* While nft runs, and the file takes effect.
LateKill == pc \in {"apply", "rollback"} /\ Kill /\ TakeEffect

----------------------------------------------------------------------------
(* Other programs, between any two of these steps.                         *)

Disturb(kind) ==
  /\ kind \in Disturbances
  /\ disturbed < MaxDisturbances
  /\ disturbed' = disturbed + 1
  /\ fresh' = FALSE
  /\ calm' = FALSE
  /\ UNCHANGED <<current, found, applied>>

ForeignInserts(front) ==
  /\ Disturb("insert")
  /\ docker
  /\ chain' = chain \cup {[handle |-> next, front |-> front, mark |-> None, intact |-> TRUE]}
  /\ next' = next + 1
  /\ UNCHANGED <<tables, docker, journal, pc, tx, tampered>>

\* One of its own rules, or one of the suite's.
ForeignDeletes(r) ==
  /\ Disturb("delete")
  /\ chain' = chain \ {r}
  /\ UNCHANGED <<tables, docker, next, journal, pc, tx, tampered>>

\* A marked rule is replaced by another with the mark, or copied.
ForeignAlters(r, kind) ==
  /\ Disturb(kind)
  /\ kind \in {"alter", "copy"}
  /\ r.mark # None
  /\ chain' = (IF kind = "alter" THEN chain \ {r} ELSE chain)
              \cup {[r EXCEPT !.handle = next, !.intact = (kind = "copy")]}
  /\ next' = next + 1
  /\ tampered' = TRUE
  /\ UNCHANGED <<tables, docker, journal, pc, tx>>

\* A new boot has an empty kernel; the journal has expired.
Reboot ==
  /\ Disturb("reboot")
  /\ tables' = [n \in Name |-> None]
  /\ chain' = {}
  /\ docker' = FALSE
  /\ next' = 1
  /\ journal' = IF journal = None THEN None ELSE [journal EXCEPT !.handed = FALSE]
  /\ pc' = "idle"
  /\ tx' = NoTx
  /\ UNCHANGED tampered

DockerStarts ==
  /\ Disturb("docker")
  /\ ~docker
  /\ docker' = TRUE
  /\ UNCHANGED <<tables, chain, next, journal, pc, tx, tampered>>

Foreign ==
  \/ \E front \in BOOLEAN : ForeignInserts(front)
  \/ \E r \in chain : ForeignDeletes(r) \/ \E kind \in {"alter", "copy"} : ForeignAlters(r, kind)
  \/ Reboot
  \/ DockerStarts

Next ==
  \/ \E p \in Policy, disabled \in BOOLEAN : Apply(p, disabled)
  \/ Commit \/ CommitFails \/ LateKill \/ Applied
  \/ Rollback \/ RolledBack \/ NothingPending \/ Confirm \/ ConfirmStops \/ Killed
  \/ Foreign

Spec == Init /\ [][Next]_vars
----------------------------------------------------------------------------
TypeOK ==
  /\ tables \in [Name -> Policy \cup {None}]
  /\ chain \subseteq Rule
  /\ next \in Nat /\ docker \in BOOLEAN
  /\ current \in Policy \cup {None}
  /\ journal \in Journal \cup {None}
  /\ tx \in [drop : SUBSET Name, add : [Name -> Policy \cup {None}],
            delete : SUBSET Nat, insert : Seq(Mark \cup {None})]
  /\ pc \in {"idle", "apply", "applied", "recover", "rollback", "rolled back"}

\* No commit changes, adds or removes a rule of another program, although the
\* handles it deletes were read before (engine.py 368-380; docs/firewall/transactions.md,
\* "Reglas ajenas quedan fuera de la transacción").
Unmarked == {r \in chain : r.mark = None}
ForeignKept == [][Commit \/ LateKill => Unmarked' = Unmarked]_vars

\* After the commit of an application the suite's part of the kernel is the
\* candidate, and each of its rules is there once.
Exact ==
  pc = "applied" /\ fresh /\ ~tampered =>
    LET p == journal.candidate IN
    IF journal.disabled THEN Own.marks = {} /\ \A n \in Objects[p] : tables[n] = None
    ELSE /\ Own.marks = Marks(p)
         /\ \A m \in Marks(p) : Cardinality(Marked(m)) = 1
         /\ \A n \in Name : tables[n] = IF n \in Objects[p] THEN p ELSE None

\* A finished recovery leaves the suite's part as the transaction found it.
Restored == [][RolledBack /\ calm => Own = found]_vars

\* Unless another program has copied or replaced one, every marked rule is known
\* to the records: one that is not could never be removed, and every later
\* transaction that uses its mark would be refused.
NoOrphans ==
  ~tampered => {r.mark : r \in chain} \subseteq
    {None} \cup Marks(current)
    \cup (IF journal = None THEN {} ELSE Marks(journal.previous) \cup Marks(journal.candidate))

\* With Docker up, a pending transaction can be undone: what it finds is
\* recognised, whatever point it was stopped at and whatever was deleted meanwhile.
Recoverable ==
  ~tampered =>
  /\ journal # None /\ docker => RecoveryPossible
  /\ pc \in {"apply", "rollback"} /\ fresh => Accepted
=============================================================================
