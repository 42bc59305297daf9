------------------------------ MODULE Handover ------------------------------
(***************************************************************************)
(* core/legacy.py with the branch of core/store.py apply_locked that       *)
(* serves it: nftables tables an operator has reviewed are handed over to  *)
(* a first policy, while other administrators, whom the lock does not      *)
(* stop, go on changing the kernel, and the process may die at any step.   *)
(*                                                                         *)
(* A table is known by family and name.  Its handle is "reviewed" while it *)
(* is the table of the manifest, "later" once it was created anew; its     *)
(* contents are "reviewed", "policy" (the candidate's), or somebody else's *)
(* ("changed", which never become the reviewed ones again).                *)
(***************************************************************************)
EXTENDS Integers, FiniteSets, Sequences

CONSTANTS
  Reviewed,     \* the tables of the manifest
  Objects,      \* the tables of the candidate
  Others,       \* other tables, Docker's
  MaxOutside,   \* bound: steps of other administrators
  MaxCrashes    \* bound: deaths of the process
ASSUME HandoverAssumption == Reviewed \cap Others = {}

VARIABLES
  tables,       \* the kernel: name -> [handle, contents], for the tables there are
  step,         \* how far the process that holds the lock has come
  live,         \* the names it found when it inspected the kernel
  copied,       \* the contents it read for the snapshot
  journal,      \* pending: the snapshot of a handover not confirmed yet
  currentKept,  \* whether current holds the policy
  outside, crashes
handoverVars == <<tables, step, live, copied, journal, currentKept, outside, crashes>>
process == <<step, live, copied>>
store == <<journal, currentKept>>

Table(handle, contents) == [handle |-> handle, contents |-> contents]
AsReviewed == Table("reviewed", "reviewed")
Lacking(f, names) == [n \in DOMAIN f \ names |-> f[n]]

\* verify: the inventory of the reviewed tables equals the manifest.
Verified == Reviewed \subseteq DOMAIN tables /\ \A n \in Reviewed : tables[n] = AsReviewed

\* A batch of nft is all or nothing.  A table created where one is there only adds its
\* rules to it.
Created(kernel, new) ==
  [n \in DOMAIN kernel \cup DOMAIN new |->
     IF n \notin DOMAIN kernel THEN Table("later", new[n])
     ELSE IF n \in DOMAIN new THEN Table(kernel[n].handle, "changed") ELSE kernel[n]]

HandoverInit ==
  /\ tables = [n \in Reviewed \cup Others |-> AsReviewed]
  /\ step = "none" /\ live = {} /\ copied = << >>
  /\ journal = <<>> /\ currentKept = FALSE /\ outside = 0 /\ crashes = 0

Goes(from, to) == step = from /\ step' = to
Leaves == step' = "none" /\ live' = {} /\ copied' = << >>

(***************************************************************************)
(* apply with a manifest                                                   *)
(***************************************************************************)
\* The kernel is inspected; a table of the candidate that is there has to be a reviewed
\* one (preflight), and there is no current policy and no unfinished change.
Inspect ==
  /\ Goes("none", "inspected")
  /\ journal = <<>> /\ ~currentKept
  /\ Objects \cap DOMAIN tables \subseteq Reviewed /\ Reviewed \subseteq DOMAIN tables
  /\ live' = DOMAIN tables
  /\ UNCHANGED <<tables, copied, store, outside, crashes>>

\* prepare: verify, copy every reviewed table, verify again.
Verify == Goes("inspected", "verified") /\ Verified /\ UNCHANGED <<tables, live, copied, store, outside, crashes>>
Copy ==
  /\ Goes("verified", "copied") /\ Reviewed \subseteq DOMAIN tables
  /\ copied' = [n \in Reviewed |-> tables[n].contents]
  /\ UNCHANGED <<tables, live, store, outside, crashes>>
VerifyAgain == Goes("copied", "prepared") /\ Verified /\ UNCHANGED <<tables, live, copied, store, outside, crashes>>

\* The journal is written before the watchdog is armed and the kernel is changed.
Record ==
  /\ Goes("prepared", "recorded")
  /\ journal' = <<copied>>
  /\ UNCHANGED <<tables, live, copied, currentKept, outside, crashes>>
\* The watchdog is armed, and the tables are verified a last time.
Arm == Goes("recorded", "armed") /\ UNCHANGED <<tables, live, copied, store, outside, crashes>>
VerifyLast == Goes("armed", "ready") /\ Verified /\ UNCHANGED <<tables, live, copied, store, outside, crashes>>

\* A step before the batch is refused: nothing was written, so the journal is dropped.
Refused ==
  /\ step \in {"inspected", "verified", "copied", "prepared", "recorded", "armed", "ready"}
  /\ journal' = <<>> /\ Leaves
  /\ UNCHANGED <<tables, currentKept, outside, crashes>>

\* Faulty variant: the reviewed tables are deleted by name.
TakenByName(kernel) ==
  IF Reviewed \subseteq DOMAIN kernel THEN {Lacking(kernel, Reviewed)} ELSE {}

\* pin_transaction: each reviewed table is deleted by its handle, and destroyed by name
\* for the batch's own view of it; a handle that is gone fails the batch.
Taken(kernel) ==
  IF \A n \in Reviewed : n \in DOMAIN kernel /\ kernel[n].handle = "reviewed"
    THEN {Lacking(kernel, Reviewed)} ELSE {}
Commit ==
  /\ Goes("ready", "committed")
  /\ \E kernel \in Taken(tables) : tables' = Created(kernel, [n \in Objects |-> "policy"])
  /\ UNCHANGED <<live, copied, store, outside, crashes>>
\* The batch fails, or the deadline is exceeded: the change is rolled back.
Fails ==
  /\ \/ Goes("ready", "rollback") /\ Taken(tables) = {}
     \/ Goes("committed", "rollback")
  /\ live' = DOMAIN tables
  /\ UNCHANGED <<tables, copied, store, outside, crashes>>
Succeeds == step = "committed" /\ Leaves /\ UNCHANGED <<tables, store, outside, crashes>>

(***************************************************************************)
(* confirm and rollback                                                    *)
(***************************************************************************)
\* current is written before the journal goes, so that a rollback can follow.
Keep ==
  /\ Goes("none", "kept") /\ journal # <<>>
  /\ currentKept' = TRUE
  /\ UNCHANGED <<tables, live, copied, journal, outside, crashes>>
Kept == step = "kept" /\ journal' = <<>> /\ Leaves /\ UNCHANGED <<tables, currentKept, outside, crashes>>

\* The timer, the operator or the next operation rolls back what is pending.
RollBack ==
  /\ Goes("none", "rollback") /\ journal # <<>>
  /\ live' = DOMAIN tables
  /\ UNCHANGED <<tables, copied, store, outside, crashes>>

\* Faulty variant: only the candidate's tables are taken out of the way.
OwnedByCandidate == Objects
\* union: what the rollback takes out of the way, the tables it restores included.
OwnedByPending == Objects \cup DOMAIN journal[1]
Restore ==
  /\ Goes("rollback", "restored")
  /\ LET deleted == OwnedByPending \cap live IN
       /\ deleted \subseteq DOMAIN tables
       /\ tables' = Created(Lacking(tables, deleted), journal[1])
  /\ UNCHANGED <<live, copied, store, outside, crashes>>
\* A name it wanted to delete is gone: the change stays pending.
RestoreFails ==
  /\ step = "rollback" /\ ~(OwnedByPending \cap live \subseteq DOMAIN tables)
  /\ Leaves
  /\ UNCHANGED <<tables, store, outside, crashes>>
Forget ==
  /\ step = "restored"
  /\ currentKept' = FALSE /\ journal' = <<>> /\ Leaves
  /\ UNCHANGED <<tables, outside, crashes>>

(***************************************************************************)
(* Everybody else                                                          *)
(***************************************************************************)
Dies ==
  /\ step # "none" /\ crashes < MaxCrashes
  /\ crashes' = crashes + 1 /\ Leaves
  /\ UNCHANGED <<tables, store, outside>>
\* Rules of a table are changed, a table is replaced, removed or made.
Outside ==
  /\ outside < MaxOutside
  /\ outside' = outside + 1
  /\ \E n \in Reviewed \cup Objects :
       \/ n \in DOMAIN tables /\ tables' = [tables EXCEPT ![n].contents = "changed"]
       \/ tables' = [m \in DOMAIN tables \cup {n} |-> IF m = n THEN Table("later", "changed") ELSE tables[m]]
       \/ n \in DOMAIN tables /\ tables' = Lacking(tables, {n})
  /\ UNCHANGED <<process, store, crashes>>

HandoverNext ==
  \/ Inspect \/ Verify \/ Copy \/ VerifyAgain \/ Record \/ Arm \/ VerifyLast \/ Refused
  \/ Commit \/ Fails \/ Succeeds \/ Keep \/ Kept \/ RollBack \/ Restore \/ RestoreFails \/ Forget
  \/ Dies \/ Outside
HandoverSpec == HandoverInit /\ [][HandoverNext]_handoverVars

(***************************************************************************)
(* Properties                                                              *)
(***************************************************************************)
\* The batch takes away only what the operator reviewed and the journal can give back:
\* every table gone or changed by it is the very table of the manifest (or one somebody
\* made under a name of the candidate since the inspection, which gets the rules added),
\* and the journal holds the reviewed contents of each, whatever was done to them between
\* the copy and the commit.
TakenAsReviewed ==
  [][step = "ready" /\ step' = "committed" =>
       /\ journal = <<[n \in Reviewed |-> "reviewed"]>>
       /\ \A n \in DOMAIN tables : n \notin DOMAIN tables' \/ tables'[n] # tables[n] =>
            \/ n \in Reviewed /\ tables[n].handle = "reviewed"
            \/ n \in Objects \ live]_handoverVars

\* A handover that is over and was not confirmed has left nothing behind: if nobody else
\* touched the tables, the reviewed ones have their contents, the candidate's are gone,
\* the others are as they were, and there is no current policy; and this whichever step
\* the process died at, and however often the rollback was begun again.
RestoredAsReviewed ==
  step = "none" /\ journal = <<>> /\ ~currentKept /\ outside = 0 =>
    /\ DOMAIN tables = Reviewed \cup Others
    /\ \A n \in DOMAIN tables : tables[n].contents = "reviewed"
    /\ \A n \in Others : tables[n] = AsReviewed
=============================================================================
