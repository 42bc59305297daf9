------------------------------ MODULE IptBatch ------------------------------
(***************************************************************************)
(* The iptables engine (core/engine.py): the commands by which a policy    *)
(* replaces another in tables that other programs share, one commit for    *)
(* each family and table, and the recovery of a transaction that stopped   *)
(* between two of them.  Other programs do not take writer.lock.           *)
(***************************************************************************)
EXTENDS Naturals, SequencesExt

CONSTANTS
  Policy, None,
  Family,          \* in the order of their commits
  Rules,           \* Rules[p][f][t][c]: the rules of chain c of the suite
  Hooks,           \* Hooks[p]: the integration points, after actual_hooks
  SuiteChain,      \* the names the suite has reserved
  Shared,          \* Shared[t]: the chains that are always there
  ForeignRule, Spots, \* rules of other programs, and the chains they use
  Disturbances,    \* what they do
  MaxDisturbances  \* bound: how often

Table == DOMAIN Shared
IsHook(r) == r.name = "l4d2-suite:integration"

ASSUME IptAssumption ==
  /\ None \notin Policy
  /\ Family \in Seq(Range(Family)) /\ IsInjective(Family)
  /\ IsFiniteSet(Table) /\ "filter" \in Table /\ "FORWARD" \in Shared["filter"]
  /\ IsFiniteSet(SuiteChain) /\ "DOCKER-USER" \notin SuiteChain /\ None \notin SuiteChain /\ \A t \in Table : Shared[t] \cap SuiteChain = {}
  /\ \A p \in Policy, i \in DOMAIN Family : DOMAIN Rules[p][Family[i]] \subseteq Table
  /\ \A p \in Policy, i \in DOMAIN Family : \A t \in DOMAIN Rules[p][Family[i]] :
       LET chains == Rules[p][Family[i]][t] IN
       /\ DOMAIN chains \subseteq SuiteChain /\ chains = [c \in DOMAIN chains |-> chains[c]]
       /\ \A c \in DOMAIN chains : chains[c] \in Seq(Range(chains[c])) /\ \A r \in Range(chains[c]) : ~IsHook(r)
  /\ \A p \in Policy : IsFiniteSet(Hooks[p]) /\ \A h \in Hooks[p] :
       /\ h = [table |-> h.table, parent |-> h.parent, chain |-> h.chain]
       /\ h.parent \notin SuiteChain /\ h.chain \in SuiteChain
  /\ \A r \in ForeignRule : ~IsHook(r)
  /\ \A s \in Spots : s.family \in Range(Family) /\ s.table \in Table /\ s.chain \notin SuiteChain
  /\ Disturbances \subseteq {"insert", "remove", "refer", "reboot", "docker"}
  /\ MaxDisturbances \in Nat

VARIABLES
  kernel,   \* kernel[f][t]: the rules of the chains that exist
  current,  \* the confirmed policy
  journal,  \* pending.json
  pc,       \* what the holder of writer.lock does
  batch,    \* the commits it has still to make
  fresh,    \* no other program has changed the kernel since it was inspected
  found,    \* the kernel before the pending transaction
  disturbed

vars == <<kernel, current, journal, pc, batch, fresh, found, disturbed>>

Families == Range(Family)
Hook(c) == [name |-> "l4d2-suite:integration", to |-> c]
DockerJump == [name |-> "docker", to |-> "DOCKER-USER"]
Bundle(p) == [rules |-> Rules[p], hooks |-> Hooks[p]]
NoBundle == [rules |-> [f \in Families |-> <<>>], hooks |-> {}]  \* None in the code, which does without either
NoJournal == [candidate |-> None]  \* no pending.json
Count(rules, r) == Cardinality({i \in DOMAIN rules : rules[i] = r})
First(rules, r) == rules # <<>> /\ rules[1] = r
Empty == [f \in Families |-> [t \in Table |-> [c \in Shared[t] |-> <<>>]]]
WithDocker(k) ==
  [f \in Families |-> [k[f] EXCEPT !["filter"] =
     [c \in DOMAIN @ \cup {"DOCKER-USER"} |->
        IF c = "FORWARD" THEN <<DockerJump>> \o @[c]
        ELSE IF c \in DOMAIN @ THEN @[c] ELSE <<>>]]]
----------------------------------------------------------------------------
(* iptables-restore --noflush: one table, all or nothing.                  *)

Command(do, c, r) == [do |-> do, chain |-> c, rule |-> r]
Plain(do, c) == Command(do, c, None)

Jumps(table, c) == \E d \in DOMAIN table : \E i \in DOMAIN table[d] : table[d][i].to = c
Extend(table, c, rules) == [d \in DOMAIN table \cup {c} |-> IF d = c THEN rules ELSE table[d]]

\* None when the table cannot be changed so.
Do(table, cmd) ==
  LET c == cmd.chain
      r == cmd.rule IN
  CASE table = None -> None
    [] table # None /\ cmd.do = "declare" -> Extend(table, c, <<>>)
    [] OTHER ->
       CASE c \notin DOMAIN table -> None
         [] c \in DOMAIN table /\ cmd.do = "flush" -> [table EXCEPT ![c] = <<>>]
         [] c \in DOMAIN table /\ cmd.do = "delete" ->
            IF Count(table[c], r) = 0 THEN None ELSE [table EXCEPT ![c] = RemoveFirst(@, r)]
         [] c \in DOMAIN table /\ cmd.do \in {"insert", "append"} ->
            IF r.to # None /\ r.to \notin DOMAIN table THEN None
            ELSE [table EXCEPT ![c] = IF cmd.do = "insert" THEN <<r>> \o @ ELSE @ \o <<r>>]
         [] c \in DOMAIN table /\ cmd.do = "remove" ->
            IF table[c] # <<>> \/ Jumps(table, c) THEN None
            ELSE [d \in DOMAIN table \ {c} |-> table[d]]

Run(commands, table) == FoldLeft(Do, table, commands)
----------------------------------------------------------------------------
(* ip_transaction, for one table of one family.                            *)

\* The commands of each member, one after another (in the code: sorted).
Each(S, Commands(_)) ==
  LET order == SetToSeq(S) IN FlattenSeq([i \in DOMAIN order |-> Commands(order[i])])
Repeat(n, cmd) == [i \in 1..n |-> cmd]

\* Faulty variant: declares the chains it is hooked in.
DeclareParents(owned, desired, present) ==
  Each(owned \cup {"DOCKER-USER"}, LAMBDA c :
    (IF c \in DOMAIN desired THEN <<Plain("declare", c)>> ELSE <<>>) \o
    (IF c \in present \cup DOMAIN desired THEN <<Plain("flush", c)>> ELSE <<>>))

DeclareAndFlush(owned, desired, present) ==
  Each(owned, LAMBDA c :
    (IF c \in DOMAIN desired THEN <<Plain("declare", c)>> ELSE <<>>) \o
    (IF c \in present \cup DOMAIN desired THEN <<Plain("flush", c)>> ELSE <<>>))

\* Faulty variant: one more hook for each application.
HookAgain(h, wanted, live) == IF h \in wanted THEN <<Command("insert", h.parent, Hook(h.chain))>> ELSE <<>>

\* The one existing integration stays in place.
HookCommands(h, wanted, live) ==
  LET count == IF h.parent \in DOMAIN live THEN Count(live[h.parent], Hook(h.chain)) ELSE 0 IN
  IF h \in wanted /\ count = 1 THEN <<>>
  ELSE Repeat(count, Command("delete", h.parent, Hook(h.chain))) \o
       (IF h \in wanted THEN <<Command("insert", h.parent, Hook(h.chain))>> ELSE <<>>)

Appends(desired) ==
  Each(DOMAIN desired, LAMBDA c : [i \in DOMAIN desired[c] |-> Command("append", c, desired[c][i])])

\* Faulty variant: the chains of the replaced policy are left.
KeepOld(owned, desired, present) == <<>>

\* Only chains that no rule of another program refers to can go.
RemoveOld(owned, desired, present) ==
  Each((owned \ DOMAIN desired) \cap present, LAMBDA c : <<Plain("remove", c)>>)

\* Faulty variant: the chains go before the hooks to them.
ChainsFirst(flushes, hooks, appends, removes) == flushes \o removes \o hooks \o appends

Ordered(flushes, hooks, appends, removes) == flushes \o hooks \o appends \o removes

TableCommands(target, union, live, f, t) ==
  LET bundles == {b \in union : t \in DOMAIN b.rules[f]}
      desired == IF t \in DOMAIN target.rules[f] THEN target.rules[f][t] ELSE <<>>
      owned   == (UNION {DOMAIN b.rules[f][t] : b \in bundles}) \cup DOMAIN desired
      wanted  == target.hooks
      hooks   == {h \in (UNION {b.hooks : b \in union}) \cup wanted : h.table = t}
      present == DOMAIN live[f][t]
  IN Ordered(DeclareAndFlush(owned, desired, present),
             Each(hooks, LAMBDA h : HookCommands(h, wanted, live[f][t])),
             Appends(desired), RemoveOld(owned, desired, present))

\* prepare: filter first in each family, tables that no bundle has are left out.
Prepare(target, union, live) ==
  LET tables(f) == UNION {DOMAIN b.rules[f] : b \in union}
      order(f)  == (IF "filter" \in tables(f) THEN <<"filter">> ELSE <<>>) \o SetToSeq(tables(f) \ {"filter"})
      commits(f) == [i \in DOMAIN order(f) |->
        [family |-> f, table |-> order(f)[i], commands |-> TableCommands(target, union, live, f, order(f)[i])]]
  IN FlattenSeq([i \in DOMAIN Family |-> commits(Family[i])])

Present(p) == p # None
Bundles(S) == {Bundle(p) : p \in {q \in S : Present(q)}}

\* What exists of the registered chains, and every registered hook.
Snapshot(p, live) ==
  IF p = None THEN NoBundle ELSE
  [rules |-> [f \in Families |-> [t \in DOMAIN Rules[p][f] |->
     [c \in DOMAIN Rules[p][f][t] \cap DOMAIN live[f][t] |-> live[f][t][c]]]],
   hooks |-> Hooks[p]]
----------------------------------------------------------------------------
Owned(p, f, t) == IF t \in DOMAIN Rules[p][f] THEN DOMAIN Rules[p][f][t] ELSE {}
Containers(p) == \E h \in Hooks[p] : h.parent = "DOCKER-USER"

\* Docker enters DOCKER-USER by one rule, the first of FORWARD, and finds the
\* registered hook first there.
DockerDiagnostic(previous, live) ==
  \A f \in Families :
    LET filter == live[f]["filter"] IN
    /\ "DOCKER-USER" \in DOMAIN filter
    /\ First(filter["FORWARD"], DockerJump)
    /\ Count(filter["FORWARD"], DockerJump) = 1
    /\ previous # None =>
         \A h \in Hooks[previous] :
           h.parent = "DOCKER-USER" /\ h.chain \in Owned(previous, f, "filter") \cap DOMAIN filter
           => First(filter["DOCKER-USER"], Hook(h.chain)) /\ Count(filter["DOCKER-USER"], Hook(h.chain)) = 1

Preflight(p, previous, live, disabled) ==
  /\ \A f \in Families : \A t \in DOMAIN Rules[p][f] :
       \A c \in DOMAIN Rules[p][f][t] \cap DOMAIN live[f][t] : previous # None /\ c \in Owned(previous, f, t)
  /\ Containers(p) /\ ~disabled => DockerDiagnostic(previous, live)
  /\ (previous # None /\ ~disabled
      /\ \E f \in Families : \E t \in DOMAIN Rules[previous][f] : Owned(previous, f, t) \cap DOMAIN live[f][t] # {})
     => \A f \in Families : \A h \in Hooks[previous] :
          \/ h.parent = "DOCKER-USER" /\ ~Containers(p)
          \/ h.chain \notin Owned(previous, f, h.table)
          \/ h.parent \in DOMAIN live[f][h.table] /\ First(live[f][h.table][h.parent], Hook(h.chain))

\* fingerprint: the registered chains are there and their hooks come first.
Installed(p, live) ==
  \A f \in Families : \A t \in DOMAIN Rules[p][f] :
    /\ DOMAIN Rules[p][f][t] \subseteq DOMAIN live[f][t]
    /\ \A h \in Hooks[p] : h.table = t /\ h.chain \in DOMAIN Rules[p][f][t] =>
         h.parent \in DOMAIN live[f][t] /\ First(live[f][t][h.parent], Hook(h.chain))
----------------------------------------------------------------------------
Init ==
  /\ kernel = WithDocker(Empty)
  /\ current = None
  /\ journal = NoJournal
  /\ pc = "idle"
  /\ batch = <<>>
  /\ fresh = TRUE
  /\ found = WithDocker(Empty)
  /\ disturbed = 0

\* apply_locked up to the journal.  What --test already refuses changes nothing.
Apply(p, disabled) ==
  /\ pc = "idle" /\ journal = NoJournal
  /\ disabled => p = current
  /\ Preflight(p, current, kernel, disabled)
  /\ journal' = [previous |-> current, candidate |-> p, disabled |-> disabled,
                 snapshot |-> Snapshot(current, kernel), handed |-> FALSE]
  /\ batch' = Prepare(IF disabled THEN NoBundle ELSE Bundle(p), Bundles({current, p}), kernel)
  /\ pc' = "apply"
  /\ fresh' = TRUE
  /\ found' = kernel
  /\ UNCHANGED <<kernel, current, disturbed>>

Outcome == LET commit == Head(batch) IN Run(commit.commands, kernel[commit.family][commit.table])

Changed == [kernel EXCEPT ![Head(batch).family][Head(batch).table] = Outcome]

Commit ==
  /\ pc \in {"apply", "rollback"}
  /\ batch # <<>>
  /\ Outcome # None
  /\ kernel' = Changed
  /\ batch' = Tail(batch)
  /\ UNCHANGED <<current, journal, pc, fresh, disturbed, found>>

\* iptables-restore refuses, or is killed by its timeout, perhaps too late: apply
\* recovers at once, a recovery gives up.
CommitFails ==
  /\ pc \in {"apply", "rollback"}
  /\ batch # <<>>
  /\ \/ UNCHANGED kernel
     \/ Outcome # None /\ kernel' = Changed
  /\ batch' = <<>>
  /\ pc' = IF pc = "apply" THEN "recover" ELSE "idle"
  /\ UNCHANGED <<current, journal, fresh, disturbed, found>>

\* The token is printed.
Applied ==
  /\ pc = "apply" /\ batch = <<>>
  /\ journal' = [journal EXCEPT !.handed = TRUE]
  /\ pc' = "idle"
  /\ UNCHANGED <<kernel, current, batch, fresh, disturbed, found>>

\* Faulty variant: the union leaves the candidate out.
RollbackForgetting ==
  /\ pc \in {"idle", "recover"} /\ journal # NoJournal
  /\ batch' = Prepare(journal.snapshot, Bundles({journal.previous}) \cup {journal.snapshot}, kernel)
  /\ pc' = "rollback"
  /\ fresh' = TRUE
  /\ journal' = [journal EXCEPT !.handed = FALSE]
  /\ UNCHANGED <<kernel, current, disturbed, found>>

\* rollback_locked: of the command itself, of the timer, of an operator.
Rollback ==
  /\ pc \in {"idle", "recover"} /\ journal # NoJournal
  /\ batch' = Prepare(journal.snapshot,
                      Bundles({journal.previous, journal.candidate}) \cup {journal.snapshot}, kernel)
  /\ pc' = "rollback"
  /\ fresh' = TRUE
  /\ journal' = [journal EXCEPT !.handed = FALSE]
  /\ UNCHANGED <<kernel, current, disturbed, found>>

\* Faulty variant: what is recorded as the current policy is the snapshot.
RecordSnapshot ==
  /\ pc = "rollback" /\ batch = <<>>
  /\ journal' = NoJournal
  /\ current' = journal.snapshot
  /\ pc' = "idle"
  /\ UNCHANGED <<kernel, batch, fresh, disturbed, found>>

RolledBack ==
  /\ pc = "rollback" /\ batch = <<>>
  /\ journal' = NoJournal
  /\ current' = journal.previous
  /\ pc' = "idle"
  /\ UNCHANGED <<kernel, batch, fresh, disturbed, found>>

\* confirm_locked of a printed token, when record_installed accepts what it finds.
Confirm ==
  /\ pc = "idle" /\ journal # NoJournal
  /\ journal.handed
  /\ \/ journal.disabled
     \/ Preflight(journal.candidate, journal.candidate, kernel, FALSE) /\ Installed(journal.candidate, kernel)
  /\ current' = IF journal.disabled THEN None ELSE journal.candidate
  /\ journal' = NoJournal
  /\ UNCHANGED <<kernel, pc, batch, fresh, disturbed, found>>

\* record_installed refuses, or the process is killed before the journal goes:
\* current is the candidate already, and the transaction is still pending.
ConfirmStops ==
  /\ pc = "idle" /\ journal # NoJournal
  /\ journal.handed
  /\ current' = IF journal.disabled THEN None ELSE journal.candidate
  /\ UNCHANGED <<kernel, journal, pc, batch, fresh, disturbed, found>>

Killed ==
  /\ pc # "idle"
  /\ pc' = "idle"
  /\ batch' = <<>>
  /\ UNCHANGED <<kernel, current, journal, fresh, disturbed, found>>
----------------------------------------------------------------------------
(* Other programs, between any two of these steps.                         *)

Disturb(kind) ==
  /\ kind \in Disturbances
  /\ disturbed < MaxDisturbances
  /\ disturbed' = disturbed + 1
  /\ fresh' = FALSE
  /\ UNCHANGED <<current, found>>

ForeignInserts(s, r, front) ==
  /\ Disturb(IF r.to \in SuiteChain THEN "refer" ELSE "insert")
  /\ s.chain \in DOMAIN kernel[s.family][s.table]
  /\ r.to \in DOMAIN kernel[s.family][s.table] \cup {None}
  /\ kernel' = [kernel EXCEPT ![s.family][s.table][s.chain] = IF front THEN <<r>> \o @ ELSE @ \o <<r>>]
  /\ UNCHANGED <<journal, pc, batch>>

ForeignRemoves(s, r) ==
  /\ Disturb("remove")
  /\ s.chain \in DOMAIN kernel[s.family][s.table]
  /\ Count(kernel[s.family][s.table][s.chain], r) > 0
  /\ kernel' = [kernel EXCEPT ![s.family][s.table][s.chain] = RemoveFirst(@, r)]
  /\ UNCHANGED <<journal, pc, batch>>

\* A new boot has an empty kernel; Docker comes later.  The journal has expired.
Reboot ==
  /\ Disturb("reboot")
  /\ journal' = IF journal = NoJournal THEN NoJournal ELSE [journal EXCEPT !.handed = FALSE]
  /\ kernel' = Empty
  /\ pc' = "idle"
  /\ batch' = <<>>

DockerStarts ==
  /\ Disturb("docker")
  /\ \E f \in Families : "DOCKER-USER" \notin DOMAIN kernel[f]["filter"]
  /\ kernel' = WithDocker(kernel)
  /\ UNCHANGED <<journal, pc, batch>>

Foreign ==
  \/ \E s \in Spots, r \in ForeignRule : ForeignRemoves(s, r) \/ \E front \in BOOLEAN : ForeignInserts(s, r, front)
  \/ Reboot
  \/ DockerStarts

Next ==
  \/ \E p \in Policy, disabled \in BOOLEAN : Apply(p, disabled)
  \/ Commit \/ CommitFails \/ Applied
  \/ Rollback \/ RolledBack \/ Confirm \/ ConfirmStops \/ Killed
  \/ Foreign

Spec == Init /\ [][Next]_vars
----------------------------------------------------------------------------
\* A chain without the hooks of the suite, in its order.
WithoutHooks(rules) ==
  LET upto[n \in 0..Len(rules)] ==
        IF n = 0 THEN <<>> ELSE IF IsHook(rules[n]) THEN upto[n - 1] ELSE Append(upto[n - 1], rules[n])
  IN upto[Len(rules)]
Others(k) ==
  [f \in Families |-> [t \in Table |-> [c \in DOMAIN k[f][t] \ SuiteChain |-> WithoutHooks(k[f][t][c])]]]
Own(k) ==
  [f \in Families |-> [t \in Table |->
     [chains |-> [c \in DOMAIN k[f][t] \cap SuiteChain |-> k[f][t][c]],
      hooks  |-> {at \in (DOMAIN k[f][t]) \X {Hook(d) : d \in SuiteChain} : Count(k[f][t][at[1]], at[2]) > 0}]]]
OwnOf(p) ==
  [f \in Families |-> [t \in Table |->
     [chains |-> IF t \in DOMAIN Rules[p][f] THEN Rules[p][f][t] ELSE <<>>,
      hooks  |-> {<<h.parent, Hook(h.chain)>> : h \in {g \in Hooks[p] : g.table = t /\ g.chain \in Owned(p, f, t)}}]]]
NothingOwn == [f \in Families |-> [t \in Table |-> [chains |-> <<>>, hooks |-> {}]]]
Referred == \E s \in Spots : \E r \in ForeignRule :
              r.to \in SuiteChain /\ s.chain \in DOMAIN kernel[s.family][s.table]
              /\ Count(kernel[s.family][s.table][s.chain], r) > 0

TypeOK ==
  /\ \A f \in Families, t \in Table : Shared[t] \subseteq DOMAIN kernel[f][t]
  /\ current \in Policy \cup {None}
  /\ pc \in {"idle", "apply", "recover", "rollback"}
  /\ disturbed \in 0..MaxDisturbances

\* No commit of the suite changes a rule of another program or the chains that
\* are not its own, not even prepared from a kernel that has changed since
\* (docs/firewall/transactions.md, "se declaran/vacían solamente las propias").
ForeignKept == [][Commit \/ CommitFails => Others(kernel') = Others(kernel)]_vars

\* A hook is never there twice, whatever was interrupted and repeated (ip_transaction
\* counts it in the kernel as it was inspected).
HookOnce ==
  \A f \in Families, t \in Table : \A c \in DOMAIN kernel[f][t] : \A d \in SuiteChain :
    Count(kernel[f][t][c], Hook(d)) <= 1

\* After the last commit the kernel holds the candidate and nothing else of the
\* suite, whatever mixture the commits started from and whatever other programs
\* did to their own rules after the commands were prepared.
Exact ==
  pc = "apply" /\ batch = <<>> =>
    Own(kernel) = IF journal.disabled THEN NothingOwn ELSE OwnOf(journal.candidate)

\* A finished recovery, from any point and however often it was begun, leaves the
\* suite's part of the kernel as the transaction found it, also after a reboot.
Restored == [][RolledBack => Own(kernel) = Own(found)]_vars

\* What is built from the kernel as it is, is accepted by it, but for a rule of
\* another program that refers to a chain which has to go, for DOCKER-USER before
\* Docker has started, and for a recovery of a policy that was not whole when
\* the transaction began (RecoverySucceeds).
Whole(snapshot, p) ==
  \A f \in Families : \A t \in DOMAIN Rules[p][f] : DOMAIN snapshot.rules[f][t] = DOMAIN Rules[p][f][t]
BatchAccepted ==
  pc \in {"apply", "rollback"} /\ batch # <<>> /\ fresh /\ ~Referred
  /\ (\A f \in Families : "DOCKER-USER" \in DOMAIN kernel[f]["filter"])
  /\ (pc = "rollback" /\ journal.previous # None => Whole(journal.snapshot, journal.previous))
  => Outcome # None

\* A recovery succeeds, also when its snapshot is of an empty boot
\* (core/store.py 137-138, "Recovery still succeeds").
RecoverySucceeds == pc = "rollback" /\ batch # <<>> /\ fresh /\ ~Referred => Outcome # None
=============================================================================
