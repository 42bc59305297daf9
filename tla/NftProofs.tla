----------------------------- MODULE NftProofs -----------------------------
(***************************************************************************)
(* Handles are what protects the rules of other programs: the kernel gives *)
(* none twice, so a number read before the commit names the marked rule it *)
(* was read from, or nothing.  The records always know the marked ones,    *)
(* so a transaction leaves exactly the candidate and can always be undone. *)
(***************************************************************************)
EXTENDS NftBatch, FiniteSetTheorems, TLAPS

\* A handle names one rule, and those given out are below the next.
Handles ==
  /\ \A r \in chain : r.handle < next
  /\ \A r, s \in chain : r.handle = s.handle => r = s

\* The handles in the file were read from marked rules.
Aimed ==
  /\ \A h \in tx.delete : h < next
  /\ \A r \in chain : r.handle \in tx.delete => r.mark # None

\* A step of a transaction has a journal.
Busy == pc # "idle" => journal # None

HandleInv == TypeOK /\ Handles /\ Aimed /\ Busy

\* The types of a snapshot and of a policy's contents.
LEMMA ContentsType ==
  ASSUME TypeOK
  PROVE  /\ Empty \in Contents
         /\ \A p \in Policy : Bundle(p) \in Contents
         /\ \A p \in Policy \cup {None} : Snapshot(p) \in Contents
<1>1. Empty \in Contents
  BY DEF Empty, Contents
<1>2. ASSUME NEW p \in Policy PROVE Bundle(p) \in Contents
  BY NftAssumption DEF Bundle, Contents
<1>3. ASSUME NEW p \in Policy PROVE Snapshot(p) \in Contents
  <2>1. [i \in DOMAIN Shared[p] |-> IF Marked(Shared[p][i]) # {} THEN Shared[p][i] ELSE None] \in Seq(Mark \cup {None})
    BY NftAssumption
  <2> QED
    BY <2>1, NftAssumption DEF Snapshot, Contents, TypeOK
<1>4. Snapshot(None) \in Contents
  BY <1>1 DEF Snapshot
<1> QED
  BY <1>1, <1>2, <1>3, <1>4

\* A transaction deletes marked rules only, whatever it installs.
LEMMA TransactionAims ==
  ASSUME TypeOK, Handles, NEW target \in Contents, NEW names \in SUBSET Name, NEW marks \in SUBSET Mark,
         tx' = Transaction(target, names, marks)
  PROVE  /\ tx' \in [drop : SUBSET Name, add : [Name -> Policy \cup {None}],
                     delete : SUBSET Nat, insert : Seq(Mark \cup {None})]
         /\ \A h \in tx'.delete : h < next
         /\ \A r \in chain : r.handle \in tx'.delete <=> r.mark \in marks
         /\ Ran(tx'.insert) = Ran(target.shared)
<1>1. \A r \in chain : r.handle \in Nat /\ r.mark \in Mark \cup {None}
  BY DEF TypeOK, Rule
<1>2. tx'.delete = {r.handle : r \in {s \in chain : s.mark \in marks}}
  BY DEF Transaction
<1>3. tx'.insert = target.shared /\ tx'.add = target.tables /\ tx'.drop \in SUBSET Name
  BY DEF Transaction
<1>4. tx' \in [drop : SUBSET Name, add : [Name -> Policy \cup {None}],
               delete : SUBSET Nat, insert : Seq(Mark \cup {None})]
  BY <1>1 DEF Transaction, Contents
<1>5. \A r \in chain : r.handle \in tx'.delete <=> r.mark \in marks
  BY <1>2 DEF Handles
<1> QED
  BY <1>1, <1>2, <1>3, <1>4, <1>5 DEF Handles

\* The marks and tables that policies register.
LEMMA MarksType ==
  \A p \in Policy \cup {None} : Marks(p) \in SUBSET Mark /\ Tables(p) \in SUBSET Name
<1>1. ASSUME NEW p \in Policy PROVE Ran(Shared[p]) \in SUBSET Mark
  BY NftAssumption DEF Ran
<1> QED
  BY <1>1, NftAssumption DEF Marks, Tables

\* An idle suite has no file.
LEMMA NoTxType ==
  /\ NoTx \in [drop : SUBSET Name, add : [Name -> Policy \cup {None}],
               delete : SUBSET Nat, insert : Seq(Mark \cup {None})]
  /\ NoTx.delete = {}
  BY DEF NoTx, Empty

\* What the file inserts has marks and new handles.
LEMMA InsertedRules ==
  ASSUME HandleInv
  PROVE  /\ Inserted \subseteq Rule
         /\ \A r \in Inserted : /\ next < r.handle /\ r.handle < next + Len(tx.insert) + 1
                                /\ r.mark # None /\ r.mark \in Ran(tx.insert)
         /\ \A r, s \in Inserted : r.handle = s.handle => r = s
         /\ Len(tx.insert) \in Nat
<1>1. /\ tx.insert \in Seq(Mark \cup {None}) /\ next \in Nat
      /\ Len(tx.insert) \in Nat /\ DOMAIN tx.insert = 1..Len(tx.insert)
  <2>1. tx.insert \in Seq(Mark \cup {None}) /\ next \in Nat
    BY DEF HandleInv, TypeOK
  <2> QED
    BY <2>1
<1>2. \A r \in Inserted : \E i \in 1..Len(tx.insert) :
        /\ r = [handle |-> next + i, front |-> TRUE, mark |-> tx.insert[i], intact |-> TRUE]
        /\ tx.insert[i] # None /\ tx.insert[i] \in Mark /\ tx.insert[i] \in Ran(tx.insert)
  BY <1>1 DEF Inserted, Ran
<1>3. ASSUME NEW r \in Inserted
      PROVE /\ r \in Rule /\ next < r.handle /\ r.handle < next + Len(tx.insert) + 1
            /\ r.mark # None /\ r.mark \in Ran(tx.insert)
  <2>1. PICK i \in 1..Len(tx.insert) :
        /\ r = [handle |-> next + i, front |-> TRUE, mark |-> tx.insert[i], intact |-> TRUE]
        /\ tx.insert[i] # None /\ tx.insert[i] \in Mark /\ tx.insert[i] \in Ran(tx.insert)
    BY <1>2
  <2> QED
    BY <2>1, <1>1 DEF Rule
<1>4. ASSUME NEW r \in Inserted, NEW s \in Inserted, r.handle = s.handle PROVE r = s
  <2>1. PICK i \in 1..Len(tx.insert) : r = [handle |-> next + i, front |-> TRUE, mark |-> tx.insert[i], intact |-> TRUE]
    BY <1>2
  <2>2. PICK j \in 1..Len(tx.insert) : s = [handle |-> next + j, front |-> TRUE, mark |-> tx.insert[j], intact |-> TRUE]
    BY <1>2
  <2>3. i = j
    BY <2>1, <2>2, <1>1, <1>4
  <2> QED
    BY <2>1, <2>2, <2>3
<1> QED
  BY <1>1, <1>3, <1>4

\* A commit keeps every rule that has no mark, and the handles unique.
LEMMA EffectKeeps ==
  ASSUME HandleInv, TakeEffect
  PROVE  /\ Unmarked' = Unmarked
         /\ tables' \in [Name -> Policy \cup {None}]
         /\ chain' \subseteq Rule /\ next' \in Nat /\ docker' \in BOOLEAN
         /\ Handles'
         /\ \A h \in tx.delete : h < next'
         /\ \A r \in chain' : r.handle \notin tx.delete
<1>1. /\ chain' = {r \in chain : r.handle \notin tx.delete} \cup Inserted
      /\ next' = next + Len(tx.insert) + 1 /\ docker' = docker
  BY DEF TakeEffect
<1>2. next \in Nat /\ chain \subseteq Rule /\ \A r \in chain : r.handle \in Nat
  BY DEF HandleInv, TypeOK, Rule
<1>3. Unmarked' = Unmarked
  BY <1>1, InsertedRules DEF HandleInv, Unmarked, Aimed
<1>4. tables' \in [Name -> Policy \cup {None}]
  BY DEF TakeEffect, HandleInv, TypeOK
<1>5. next' \in Nat /\ next < next'
  BY <1>1, <1>2, InsertedRules
<1>6. chain' \subseteq Rule /\ docker' \in BOOLEAN
  BY <1>1, <1>2, InsertedRules DEF HandleInv, TypeOK
<1>7. ASSUME NEW r \in chain' PROVE r.handle < next'
  BY <1>1, <1>2, <1>5, InsertedRules DEF HandleInv, Handles
<1>8. ASSUME NEW r \in chain', NEW s \in chain', r.handle = s.handle PROVE r = s
  <2>1. ~(next < r.handle /\ s.handle < next) /\ ~(next < s.handle /\ r.handle < next)
    BY <1>1, <1>2, <1>8, InsertedRules DEF Rule
  <2> QED
    BY <1>1, <1>8, <2>1, InsertedRules DEF HandleInv, Handles
<1>9. \A h \in tx.delete : h \in Nat /\ h < next
  BY DEF HandleInv, Aimed, TypeOK
<1>10. \A h \in tx.delete : h < next'
  BY <1>9, <1>5, <1>2
<1>11. ASSUME NEW r \in chain' PROVE r.handle \notin tx.delete
  BY <1>1, <1>2, <1>9, InsertedRules DEF Rule
<1> QED
  BY <1>3, <1>4, <1>5, <1>6, <1>7, <1>8, <1>10, <1>11 DEF Handles

\* No file, no harm.
LEMMA NoTxAims ==
  ASSUME tx' = NoTx
  PROVE  Aimed'
  BY NoTxType DEF Aimed

\* Another program changes nothing of the records; a new rule gets a new handle.
LEMMA ForeignHandles ==
  ASSUME HandleInv, Foreign
  PROVE  HandleInv'
<1>0. /\ next \in Nat /\ chain \subseteq Rule /\ \A r \in chain : r.handle \in Nat /\ r.handle < next
      /\ \A r, s \in chain : r.handle = s.handle => r = s
      /\ \A h \in tx.delete : h \in Nat /\ h < next
      /\ \A r \in chain : r.handle \in tx.delete => r.mark # None
  BY DEF HandleInv, Handles, Aimed, TypeOK, Rule
<1>1. ASSUME NEW front \in BOOLEAN, ForeignInserts(front) PROVE HandleInv'
  <2>1. [handle |-> next, front |-> front, mark |-> None, intact |-> TRUE] \in Rule
    BY <1>0 DEF Rule
  <2> DEFINE new == [handle |-> next, front |-> front, mark |-> None, intact |-> TRUE]
  <2>2. /\ new \in Rule /\ new.handle = next
        /\ chain' = chain \cup {new} /\ next' = next + 1 /\ tx' = tx
    BY <1>1, <2>1 DEF ForeignInserts
  <2> HIDE DEF new
  <2>3. chain' \subseteq Rule /\ next' \in Nat
    BY <2>2, <1>0
  <2>4. TypeOK' /\ Busy'
    BY <1>1, <2>3 DEF ForeignInserts, Disturb, HandleInv, TypeOK, Busy
  <2>5. Handles'
    BY <2>2, <1>0 DEF Handles
  <2>6. Aimed'
    BY <2>2, <1>0 DEF Aimed
  <2> QED
    BY <2>4, <2>5, <2>6 DEF HandleInv
<1>2. ASSUME NEW r \in chain, ForeignDeletes(r) PROVE HandleInv'
  BY <1>2, <1>0 DEF ForeignDeletes, Disturb, HandleInv, TypeOK, Handles, Aimed, Busy
<1>3. ASSUME NEW r \in chain, NEW kind \in {"alter", "copy"}, ForeignAlters(r, kind) PROVE HandleInv'
  <2> DEFINE new == [r EXCEPT !.handle = next, !.intact = (kind = "copy")]
  <2>1. new \in Rule /\ new.handle = next /\ new.mark = r.mark
    BY <1>0 DEF Rule
  <2>2. /\ chain' \subseteq chain \cup {new} /\ next' = next + 1 /\ tx' = tx
        /\ r.mark # None
    BY <1>3 DEF ForeignAlters
  <2> HIDE DEF new
  <2>a. chain' \subseteq Rule /\ next' \in Nat
    BY <2>1, <2>2, <1>0
  <2>3. TypeOK' /\ Busy'
    BY <1>3, <2>2, <2>a DEF ForeignAlters, Disturb, HandleInv, TypeOK, Busy
  <2>4. Handles' /\ Aimed'
    BY <2>1, <2>2, <1>0 DEF Handles, Aimed
  <2> QED
    BY <2>3, <2>4 DEF HandleInv
<1>4. CASE Reboot
  <2>1. TypeOK'
    BY <1>4, NoTxType DEF Reboot, Disturb, HandleInv, TypeOK, Journal
  <2> QED
    BY <1>4, <2>1, NoTxAims DEF Reboot, HandleInv, Handles, Busy
<1>5. CASE DockerStarts
  BY <1>5 DEF DockerStarts, Disturb, HandleInv, TypeOK, Handles, Aimed, Busy
<1> QED
  BY <1>1, <1>2, <1>3, <1>4, <1>5 DEF Foreign

\* Every step of the suite aims at marked rules only.
LEMMA SuiteHandles ==
  ASSUME HandleInv, Next, ~Foreign
  PROVE  HandleInv'
<1> USE DEF HandleInv
<1>1. ASSUME NEW p \in Policy, NEW disabled \in BOOLEAN, Apply(p, disabled) PROVE HandleInv'
  <2> DEFINE target == IF disabled THEN Empty ELSE Bundle(p)
             names == Objects[p] \cup Tables(current)
             marks == Marks(p) \cup Marks(current)
  <2>1. target \in Contents /\ names \in SUBSET Name /\ marks \in SUBSET Mark
    BY ContentsType, MarksType, NftAssumption DEF TypeOK
  <2>2. tx' = Transaction(target, names, marks) /\ UNCHANGED kernel
    BY <1>1 DEF Apply
  <2>3. journal' \in Journal
    BY <1>1, ContentsType DEF Apply, Journal, TypeOK
  <2> HIDE DEF target, names, marks
  <2>4. /\ tx' \in [drop : SUBSET Name, add : [Name -> Policy \cup {None}],
                     delete : SUBSET Nat, insert : Seq(Mark \cup {None})]
        /\ \A h \in tx'.delete : h < next
        /\ \A r \in chain : r.handle \in tx'.delete => r.mark \in marks
    BY <2>1, <2>2, TransactionAims
  <2>5. TypeOK' /\ Handles' /\ Busy'
    BY <1>1, <2>2, <2>3, <2>4, NftAssumption, ZenonT(60) DEF Apply, TypeOK, kernel, Handles, Busy
  <2>6. Aimed'
    BY <2>1, <2>2, <2>4, NftAssumption DEF Aimed, kernel
  <2> QED
    BY <2>5, <2>6
<1>2. CASE Commit
  <2>1. TypeOK' /\ Busy'
    BY <1>2, EffectKeeps DEF Commit, TypeOK, Busy
  <2> QED
    BY <1>2, <2>1, EffectKeeps DEF Commit, Aimed
<1>3. CASE CommitFails
  <2>1. TypeOK' /\ Handles' /\ Busy'
    BY <1>3, NoTxType DEF CommitFails, TypeOK, kernel, Handles, Busy
  <2> QED
    BY <1>3, <2>1, NoTxAims DEF CommitFails
<1>4. CASE LateKill
  <2>1. TypeOK' /\ Handles' /\ Busy'
    BY <1>4, EffectKeeps, NoTxType DEF LateKill, Kill, TypeOK, Busy
  <2> QED
    BY <1>4, <2>1, NoTxAims DEF LateKill, Kill
<1>5. CASE Applied
  <2>1. TypeOK' /\ Handles' /\ Busy'
    BY <1>5, NoTxType DEF Applied, TypeOK, kernel, Handles, Journal, Busy
  <2> QED
    BY <1>5, <2>1, NoTxAims DEF Applied
<1>6. CASE Rollback
  <2> DEFINE names == Tables(journal.previous) \cup Objects[journal.candidate]
             marks == Marks(journal.previous) \cup Marks(journal.candidate)
  <2>1. journal \in Journal
    BY <1>6 DEF Rollback, TypeOK
  <2>2. journal.snapshot \in Contents /\ names \in SUBSET Name /\ marks \in SUBSET Mark
    BY <2>1, MarksType, NftAssumption DEF Journal
  <2>3. CASE RecoveryPossible
    <3>1. tx' = Transaction(journal.snapshot, names, marks) /\ UNCHANGED kernel
      BY <1>6, <2>3 DEF Rollback
    <3>2. journal' \in Journal
      BY <1>6, <2>1, <2>3 DEF Rollback, Journal
    <3> HIDE DEF names, marks
    <3>3. /\ tx' \in [drop : SUBSET Name, add : [Name -> Policy \cup {None}],
                       delete : SUBSET Nat, insert : Seq(Mark \cup {None})]
          /\ \A h \in tx'.delete : h < next
          /\ \A r \in chain : r.handle \in tx'.delete => r.mark \in marks
      BY <2>2, <3>1, TransactionAims
    <3>4. TypeOK' /\ Handles' /\ Busy'
      BY NftAssumption, <1>6, <2>3, <3>1, <3>2, <3>3, ZenonT(60) DEF Rollback, TypeOK, kernel, Handles, Busy
    <3>5. Aimed'
      BY <2>2, <3>1, <3>3, NftAssumption DEF Aimed, kernel
    <3> QED
      BY <3>4, <3>5
  <2>4. CASE ~RecoveryPossible
    BY <1>6, <2>4 DEF Rollback, TypeOK, kernel, Handles, Aimed, Busy
  <2> QED
    BY <2>3, <2>4
<1>7. CASE RolledBack
  <2>1. TypeOK' /\ Handles' /\ Busy'
    BY <1>7, NoTxType DEF RolledBack, TypeOK, kernel, Handles, Journal, Busy
  <2> QED
    BY <1>7, <2>1, NoTxAims DEF RolledBack
<1>8. CASE NothingPending
  BY <1>8 DEF NothingPending, vars, kernel, TypeOK, Handles, Aimed, Busy
<1>9. CASE Confirm
  BY <1>9 DEF Confirm, kernel, TypeOK, Journal, Handles, Aimed, Busy
<1>11. CASE ConfirmStops
  BY <1>11 DEF ConfirmStops, kernel, TypeOK, Journal, Handles, Aimed, Busy
<1>10. CASE Killed
  <2>1. TypeOK' /\ Handles' /\ Busy'
    BY <1>10, NoTxType DEF Killed, Kill, TypeOK, kernel, Handles, Busy
  <2> QED
    BY <1>10, <2>1, NoTxAims DEF Killed, Kill
<1> QED
  BY <1>1, <1>2, <1>3, <1>4, <1>5, <1>6, <1>7, <1>8, <1>9, <1>10, <1>11 DEF Next

\* Nothing is there at first.
LEMMA InitHandles == Init => HandleInv
  BY NoTxType, NftAssumption DEF Init, HandleInv, TypeOK, Handles, Aimed, Busy

\* The types, and what the handles in a prepared file name, in every reachable state.
THEOREM HandlesSound == Spec => [](TypeOK /\ Handles /\ Aimed /\ Busy)
<1>1. HandleInv /\ [Next]_vars => HandleInv'
  <2> SUFFICES ASSUME HandleInv, [Next]_vars PROVE HandleInv'
    OBVIOUS
  <2>1. CASE UNCHANGED vars
    BY <2>1 DEF vars, kernel, HandleInv, TypeOK, Handles, Aimed, Busy
  <2> QED
    BY <2>1, ForeignHandles, SuiteHandles
<1> QED
  BY <1>1, InitHandles, PTL DEF Spec, HandleInv

\* No commit of the suite changes a rule of another program, whatever the others
\* insert, delete, copy or replace between the inventory and the commit, and
\* also when the process is killed while it commits (engine.py 356-384).
THEOREM ForeignSafe == Spec => ForeignKept
<1>1. HandleInv /\ (Commit \/ LateKill) => Unmarked' = Unmarked
  BY EffectKeeps DEF Commit, LateKill
<1>2. HandleInv /\ [Next]_vars => [Commit \/ LateKill => Unmarked' = Unmarked]_vars
  BY <1>1
<1>3. Spec => []HandleInv
  BY HandlesSound DEF HandleInv
<1> QED
  BY <1>2, <1>3, PTL DEF Spec, ForeignKept
----------------------------------------------------------------------------
\* What the pending transaction leaves in the chain.
Result == IF journal.disabled THEN {} ELSE Marks(journal.candidate)
ChainMarks == {r.mark : r \in chain}
Complete == \A r \in chain : r.mark # None => r.handle \in tx.delete

\* At each step the chain holds marks that some record knows, and the file,
\* before it is committed, replaces all of them.
Tracked ==
  ChainMarks \subseteq
    {None} \cup Marks(current)
    \cup (IF journal = None THEN {} ELSE Marks(journal.previous) \cup Marks(journal.candidate))
Known ==
  /\ Tracked
  /\ journal # None =>
       /\ Marks(current) \subseteq Marks(journal.previous) \cup Marks(journal.candidate)
       /\ Ran(journal.snapshot.shared) \subseteq {None} \cup Marks(journal.previous)
       /\ journal.handed => pc = "idle" /\ ChainMarks \subseteq {None} \cup Result
  /\ pc = "apply" => Complete /\ Ran(tx.insert) \subseteq {None} \cup Result
  /\ pc = "applied" => ChainMarks \subseteq {None} \cup Result
  /\ pc = "rollback" => Complete /\ Ran(tx.insert) \subseteq {None} \cup Marks(journal.previous)
  /\ pc = "rolled back" => ChainMarks \subseteq {None} \cup Marks(journal.previous)

\* A complete file leaves only what it inserts.
LEMMA CompleteEffect ==
  ASSUME HandleInv, Complete, TakeEffect
  PROVE  ChainMarks' \subseteq {None} \cup Ran(tx.insert)
<1>1. chain' = {r \in chain : r.handle \notin tx.delete} \cup Inserted
  BY DEF TakeEffect
<1> QED
  BY <1>1, InsertedRules DEF Complete, ChainMarks

\* Other programs that neither copy nor replace a marked rule bring no mark.
LEMMA ForeignKnown ==
  ASSUME ~tampered', HandleInv, Known, Foreign
  PROVE  Known'
<1>1. \A r \in chain : r.handle \in Nat /\ r.handle < next
  BY DEF HandleInv, Handles, TypeOK, Rule
<1>2. ASSUME NEW front \in BOOLEAN, ForeignInserts(front) PROVE Known'
  <2>1. ChainMarks' \subseteq {None} \cup ChainMarks
    BY <1>2 DEF ForeignInserts, ChainMarks
  <2>2. Complete => Complete'
    BY <1>2 DEF ForeignInserts, Complete
  <2>3. UNCHANGED <<current, journal, pc, tx>>
    BY <1>2 DEF ForeignInserts, Disturb
  <2> QED
    BY <2>1, <2>2, <2>3 DEF Known, Tracked, ChainMarks, Result
<1>3. ASSUME NEW r \in chain, ForeignDeletes(r) PROVE Known'
  <2>1. ChainMarks' \subseteq ChainMarks /\ (Complete => Complete')
    BY <1>3 DEF ForeignDeletes, ChainMarks, Complete
  <2>2. UNCHANGED <<current, journal, pc, tx>>
    BY <1>3 DEF ForeignDeletes, Disturb
  <2> QED
    BY <2>1, <2>2 DEF Known, Tracked, ChainMarks, Result
<1>4. ASSUME NEW r \in chain, NEW kind \in {"alter", "copy"}, ForeignAlters(r, kind) PROVE FALSE
  BY <1>4 DEF ForeignAlters
<1>5. CASE Reboot
  <2>1. chain' = {} /\ pc' = "idle" /\ current' = current
        /\ journal' = IF journal = None THEN None ELSE [journal EXCEPT !.handed = FALSE]
    BY <1>5 DEF Reboot, Disturb
  <2>2. journal = None \/ journal \in Journal
    BY DEF HandleInv, TypeOK
  <2> QED
    BY <2>1, <2>2 DEF Known, Tracked, ChainMarks, Journal
<1>6. CASE DockerStarts
  BY <1>6 DEF DockerStarts, Disturb, Known, Tracked, ChainMarks, Result, Complete
<1> QED
  BY <1>2, <1>3, <1>4, <1>5, <1>6 DEF Foreign

\* The steps of the suite keep the records complete.
LEMMA SuiteKnown ==
  ASSUME HandleInv, HandleInv', Known, Next, ~Foreign
  PROVE  Known'
<1>0. /\ TypeOK /\ Handles /\ (journal = None \/ journal \in Journal) /\ None \notin Journal
      /\ \A r \in chain : r.mark \in Mark \cup {None}
  BY NftAssumption DEF HandleInv, TypeOK, Rule
<1>1. ASSUME NEW p \in Policy, NEW disabled \in BOOLEAN, Apply(p, disabled) PROVE Known'
  <2> DEFINE target == IF disabled THEN Empty ELSE Bundle(p)
             names == Objects[p] \cup Tables(current)
             marks == Marks(p) \cup Marks(current)
  <2>1. target \in Contents /\ names \in SUBSET Name /\ marks \in SUBSET Mark
    BY <1>0, ContentsType, MarksType, NftAssumption DEF TypeOK
  <2>2. tx' = Transaction(target, names, marks) /\ UNCHANGED kernel /\ UNCHANGED current /\ pc' = "apply"
    BY <1>1 DEF Apply
  <2>3. journal' = [previous |-> current, candidate |-> p, disabled |-> disabled,
                    snapshot |-> Snapshot(current), handed |-> FALSE]
    BY <1>1 DEF Apply
  <2>4. Ran(Snapshot(current).shared) \subseteq {None} \cup Marks(current)
    <3>1. CASE current = None
      BY <3>1 DEF Snapshot, Empty, Ran
    <3>2. CASE current # None
      <4>1. Snapshot(current).shared =
              [i \in DOMAIN Shared[current] |-> IF Marked(Shared[current][i]) # {} THEN Shared[current][i] ELSE None]
        BY <3>2 DEF Snapshot
      <4> QED
        BY <3>2, <4>1 DEF Ran, Marks
    <3> QED
      BY <3>1, <3>2
  <2>5. Ran(target.shared) \subseteq IF disabled THEN {} ELSE Marks(p)
    BY NftAssumption DEF Empty, Bundle, Ran, Marks
  <2>6. ChainMarks \subseteq {None} \cup marks
    BY <1>1 DEF Known, Tracked, ChainMarks, Apply
  <2> HIDE DEF target, names
  <2>7. /\ \A r \in chain : r.handle \in tx'.delete <=> r.mark \in marks
        /\ Ran(tx'.insert) = Ran(target.shared)
    BY <1>0, <2>1, <2>2, TransactionAims
  <2>8. Complete'
    BY <2>2, <2>6, <2>7 DEF Complete, ChainMarks, kernel
  <2>9. Ran(tx'.insert) \subseteq {None} \cup Result'
    BY <2>3, <2>5, <2>7 DEF Result
  <2>10. Tracked'
    BY <2>2, <2>3, <2>6, <1>1 DEF Tracked, ChainMarks, kernel, Known, Apply
  <2> QED
    BY <2>2, <2>3, <2>4, <2>8, <2>9, <2>10 DEF Known
<1>2. CASE Commit
  <2>1. Complete /\ journal \in Journal /\ ~journal.handed /\ UNCHANGED <<current, journal>>
    BY <1>2, <1>0 DEF Commit, Known, HandleInv, Busy
  <2>2. ChainMarks' \subseteq {None} \cup Ran(tx.insert)
    BY <1>2, <2>1, CompleteEffect DEF Commit
  <2>3. CASE pc = "apply"
    BY <1>2, <1>0, <2>1, <2>2, <2>3 DEF Commit, Known, Tracked, ChainMarks, Result
  <2>4. CASE pc = "rollback"
    BY <1>2, <1>0, <2>1, <2>2, <2>4 DEF Commit, Known, Tracked, ChainMarks, Result
  <2> QED
    BY <1>2, <2>3, <2>4 DEF Commit
<1>3. CASE CommitFails
  BY <1>3, <1>0 DEF CommitFails, Known, Tracked, ChainMarks, Result, kernel
<1>4. CASE LateKill
  <2>1. Complete /\ journal \in Journal /\ ~journal.handed /\ UNCHANGED <<current, journal>> /\ pc' = "idle"
    BY <1>4, <1>0 DEF LateKill, Kill, Known, HandleInv, Busy
  <2>2. ChainMarks' \subseteq {None} \cup Ran(tx.insert)
    BY <1>4, <2>1, CompleteEffect DEF LateKill
  <2> QED
    BY <1>4, <1>0, <2>1, <2>2 DEF LateKill, Kill, Known, Tracked, ChainMarks, Result
<1>5. CASE Applied
  <2>1. journal \in Journal /\ journal' = [journal EXCEPT !.handed = TRUE] /\ pc' = "idle" /\ UNCHANGED <<chain, current>>
    BY <1>5, <1>0 DEF Applied, kernel, HandleInv, Busy
  <2>2. Result' = Result /\ journal'.previous = journal.previous /\ journal'.candidate = journal.candidate
        /\ journal'.snapshot = journal.snapshot /\ journal' \in Journal
    BY <2>1 DEF Result, Journal
  <2> QED
    BY <1>5, <1>0, <2>1, <2>2 DEF Applied, Known, Tracked, ChainMarks
<1>6. CASE Rollback
  <2> DEFINE names == Tables(journal.previous) \cup Objects[journal.candidate]
             marks == Marks(journal.previous) \cup Marks(journal.candidate)
  <2>1. journal \in Journal /\ UNCHANGED kernel /\ UNCHANGED current
    BY <1>6, <1>0 DEF Rollback
  <2>2. journal.snapshot \in Contents /\ names \in SUBSET Name /\ marks \in SUBSET Mark
    BY <2>1, MarksType, NftAssumption DEF Journal
  <2>3. CASE RecoveryPossible
    <3>1. /\ tx' = Transaction(journal.snapshot, names, marks) /\ pc' = "rollback"
          /\ journal' = [journal EXCEPT !.handed = FALSE]
      BY <1>6, <2>3 DEF Rollback
    <3>2. /\ journal'.previous = journal.previous /\ journal'.candidate = journal.candidate
          /\ journal'.snapshot = journal.snapshot /\ ~journal'.handed /\ journal' \in Journal
      BY <3>1, <2>1 DEF Journal
    <3>3. ChainMarks \subseteq {None} \cup marks
      BY <1>0, <2>1, NftAssumption DEF Known, Tracked, ChainMarks
    <3> HIDE DEF names
    <3>4. /\ \A r \in chain : r.handle \in tx'.delete <=> r.mark \in marks
          /\ Ran(tx'.insert) = Ran(journal.snapshot.shared)
      BY <1>0, <2>2, <3>1, TransactionAims
    <3>5. Complete'
      BY <2>1, <3>3, <3>4 DEF Complete, ChainMarks, kernel
    <3>6. Ran(tx'.insert) \subseteq {None} \cup Marks(journal'.previous)
      BY <1>0, <2>1, <3>2, <3>4 DEF Known
    <3>7. ChainMarks' = ChainMarks /\ current' = current
      BY <2>1 DEF ChainMarks, kernel
    <3>8. Tracked'
      BY <1>0, <2>1, <3>2, <3>7 DEF Known, Tracked
    <3> QED
      BY <1>0, <2>1, <3>1, <3>2, <3>5, <3>6, <3>7, <3>8 DEF Known
  <2>4. CASE ~RecoveryPossible
    <3>1. pc' = "idle" /\ UNCHANGED <<kernel, current, journal, tx>>
      BY <1>6, <2>4 DEF Rollback
    <3> QED
      BY <3>1 DEF Known, Tracked, ChainMarks, Result, kernel
  <2> QED
    BY <2>3, <2>4
<1>7. CASE RolledBack
  BY <1>7, <1>0 DEF RolledBack, Known, Tracked, ChainMarks, kernel
<1>8. CASE NothingPending
  BY <1>8 DEF NothingPending, vars, kernel, Known, Tracked, ChainMarks, Result, Complete
<1>9. CASE Confirm
  <2>1. journal \in Journal /\ journal' = None /\ pc' = "idle" /\ UNCHANGED chain
        /\ current' = IF journal.disabled THEN None ELSE journal.candidate
    BY <1>9, <1>0 DEF Confirm, kernel
  <2>2. ChainMarks \subseteq {None} \cup Result
    BY <1>9 DEF Confirm, Known
  <2> QED
    BY <2>1, <2>2 DEF Known, Tracked, ChainMarks, Result, Marks
<1>11. CASE ConfirmStops
  <2>1. /\ UNCHANGED <<kernel, journal, pc, tx>>
        /\ current' = IF journal.disabled THEN None ELSE journal.candidate
    BY <1>11 DEF ConfirmStops
  <2>2. journal # None /\ ChainMarks \subseteq {None} \cup Result /\ Marks(current') = Result
    BY <1>11, <1>0, NftAssumption DEF ConfirmStops, Known, Result, Marks, Journal
  <2> QED
    BY <1>0, <2>1, <2>2 DEF Known, Tracked, ChainMarks, Result, Complete, Marks, kernel
<1>10. CASE Killed
  BY <1>10, <1>0 DEF Killed, Kill, Known, Tracked, ChainMarks, Result, kernel
<1> QED
  BY <1>1, <1>2, <1>3, <1>4, <1>5, <1>6, <1>7, <1>8, <1>9, <1>10, <1>11 DEF Next

\* Unless another program copies or replaces a marked rule, the records of the
\* suite know every mark in Docker's chain, however its transactions fail or are
\* killed: none is left that no transaction would remove (engine.py 356-384, store.py 110-140).
THEOREM MarksKnown == Spec => []NoOrphans
<1> DEFINE Inv == ~tampered => Known
<1>1. Init => Inv
  BY DEF Init, Known, Tracked, ChainMarks
<1>2. HandleInv /\ HandleInv' /\ Inv /\ [Next]_vars => Inv'
  <2> SUFFICES ASSUME HandleInv, HandleInv', Inv, [Next]_vars, ~tampered' PROVE Known'
    OBVIOUS
  <2>0. ~tampered
    BY DEF Next, Foreign, Reboot, DockerStarts, ForeignInserts, ForeignDeletes, ForeignAlters,
           Apply, Commit, CommitFails, LateKill, Kill, Killed, Applied, Rollback, RolledBack,
           NothingPending, Confirm, ConfirmStops, vars, ghosts
  <2>1. CASE UNCHANGED vars
    BY <2>0, <2>1 DEF vars, kernel, Known, Tracked, ChainMarks, Result, Complete
  <2> QED
    BY <2>0, <2>1, ForeignKnown, SuiteKnown
<1>3. Spec => []HandleInv
  BY HandlesSound DEF HandleInv
<1>4. Inv => NoOrphans
  BY DEF Known, Tracked, NoOrphans, ChainMarks
<1> HIDE DEF Inv
<1> QED
  BY <1>1, <1>2, <1>3, <1>4, PTL DEF Spec
----------------------------------------------------------------------------
\* No mark twice.
Distinct(s) == \A i, j \in DOMAIN s : s[i] # None /\ s[i] = s[j] => i = j
Wanted == IF journal.disabled THEN Empty.tables ELSE Bundle(journal.candidate).tables
Reach == Tables(journal.previous) \cup Objects[journal.candidate]
Filled == {n \in Name : tables[n] # None}

\* A snapshot takes the registered tables as they are, and the registered marks
\* that are there, each once.
LEMMA SnapshotFacts ==
  ASSUME TypeOK, NEW p \in Policy \cup {None}
  PROVE  /\ \A m : m \in Ran(Snapshot(p).shared) \ {None} <=> m \in Marks(p) /\ Marked(m) # {}
         /\ Distinct(Snapshot(p).shared)
         /\ \A n \in Name : Snapshot(p).tables[n] = IF n \in Tables(p) THEN tables[n] ELSE None
<1>1. CASE p = None
  BY <1>1 DEF Snapshot, Empty, Ran, Marks, Tables, Distinct
<1>2. CASE p # None
  <2>1. p \in Policy /\ Shared[p] \in Seq(Mark) /\ Marks(p) = Ran(Shared[p]) /\ Tables(p) = Objects[p]
    BY <1>2, NftAssumption DEF Marks, Tables
  <2>2. /\ Snapshot(p).shared = [i \in DOMAIN Shared[p] |-> IF Marked(Shared[p][i]) # {} THEN Shared[p][i] ELSE None]
        /\ Snapshot(p).tables = [n \in Name |-> IF n \in Objects[p] THEN tables[n] ELSE None]
    BY <1>2 DEF Snapshot
  <2>3. \A i \in DOMAIN Shared[p] : Shared[p][i] \in Mark /\ Shared[p][i] # None
    BY <2>1, NftAssumption
  <2> DEFINE taken == Snapshot(p).shared
  <2>4. /\ DOMAIN taken = DOMAIN Shared[p]
        /\ \A i \in DOMAIN taken : taken[i] = IF Marked(Shared[p][i]) # {} THEN Shared[p][i] ELSE None
    BY <2>2
  <2> HIDE DEF taken
  <2>5. Distinct(taken)
    BY <2>1, <2>4, DistinctMarks DEF Distinct
  <2>6. \A m : m \in Ran(taken) \ {None} <=> m \in Marks(p) /\ Marked(m) # {}
    <3>1. \A m : m \in Ran(taken) <=> \E i \in DOMAIN Shared[p] : taken[i] = m
      BY <2>4 DEF Ran
    <3>2. \A m : m \in Marks(p) <=> \E i \in DOMAIN Shared[p] : Shared[p][i] = m
      BY <2>1 DEF Ran
    <3>3. \A m \in Ran(taken) \ {None} : m \in Marks(p) /\ Marked(m) # {}
      BY <3>1, <3>2, <2>4
    <3>4. \A m \in Marks(p) : Marked(m) # {} => m \in Ran(taken) \ {None}
      BY <3>1, <3>2, <2>3, <2>4
    <3> QED
      BY <3>3, <3>4
  <2>7. \A n \in Name : Snapshot(p).tables[n] = IF n \in Tables(p) THEN tables[n] ELSE None
    BY <2>1, <2>2
  <2> QED
    BY <2>5, <2>6, <2>7 DEF taken
<1> QED
  BY <1>1, <1>2

\* What a policy installs has each of its marks once.
LEMMA BundleFacts ==
  ASSUME NEW p \in Policy
  PROVE  /\ Ran(Bundle(p).shared) = Marks(p) /\ None \notin Marks(p)
         /\ Distinct(Bundle(p).shared)
         /\ \A n \in Name : Bundle(p).tables[n] = IF n \in Tables(p) THEN p ELSE None
<1>1. /\ Shared[p] \in Seq(Mark) /\ Marks(p) = Ran(Shared[p]) /\ Tables(p) = Objects[p]
      /\ Bundle(p).shared = Shared[p]
  BY NftAssumption DEF Marks, Tables, Bundle
<1>2. None \notin Marks(p)
  BY <1>1, NftAssumption DEF Ran
<1>3. Distinct(Bundle(p).shared)
  BY <1>1, DistinctMarks DEF Distinct
<1> QED
  BY <1>1, <1>2, <1>3 DEF Bundle

\* Nothing is installed for a policy that is disabled.
LEMMA EmptyFacts ==
  Ran(Empty.shared) = {} /\ Distinct(Empty.shared) /\ \A n \in Name : Empty.tables[n] = None
  BY DEF Empty, Ran, Distinct

----------------------------------------------------------------------------
\* A prepared file that no other program has overtaken is accepted.
Ready == pc \in {"apply", "rollback"} /\ fresh => Accepted

\* A transaction names tables that exist and rules that are there, and needs the
\* chain only when it inserts rules whose marks it was checked for.
LEMMA TransactionAccepted ==
  ASSUME NEW target \in Contents, NEW names \in SUBSET Name, NEW marks \in SUBSET Mark,
         tx' = Transaction(target, names, marks), UNCHANGED kernel,
         Ran(target.shared) \subseteq {None} \cup marks, marks # {} => docker
  PROVE  Accepted'
<1>1. /\ tx'.drop = {n \in names : tables[n] # None}
      /\ tx'.delete = {r.handle : r \in {s \in chain : s.mark \in marks}}
      /\ tx'.insert = target.shared
  BY DEF Transaction
<1>2. Ran(tx'.insert) \ {None} \subseteq marks
  BY <1>1 DEF Ran
<1> QED
  BY <1>1, <1>2 DEF Accepted, kernel

\* Nothing but the preparation of a file leads to its commit.
LEMMA ReadyKept ==
  ASSUME HandleInv, Known, Ready, [Next]_vars
  PROVE  Ready'
<1>0. TypeOK
  BY DEF HandleInv
<1>1. ASSUME NEW p \in Policy, NEW disabled \in BOOLEAN, Apply(p, disabled) PROVE Ready'
  <2> DEFINE target == IF disabled THEN Empty ELSE Bundle(p)
             names == Objects[p] \cup Tables(current)
             marks == Marks(p) \cup Marks(current)
  <2>1. target \in Contents /\ names \in SUBSET Name /\ marks \in SUBSET Mark
    BY <1>0, ContentsType, MarksType, NftAssumption DEF TypeOK
  <2>2. tx' = Transaction(target, names, marks) /\ UNCHANGED kernel
    BY <1>1 DEF Apply
  <2>3. Ran(target.shared) \subseteq {None} \cup marks
    BY EmptyFacts, BundleFacts
  <2>4. marks # {} => docker
    BY <1>1 DEF Apply, Acceptable
  <2> HIDE DEF target, names, marks
  <2> QED
    BY <2>1, <2>2, <2>3, <2>4, TransactionAccepted DEF Ready
<1>2. CASE Rollback
  <2> DEFINE names == Tables(journal.previous) \cup Objects[journal.candidate]
             marks == Marks(journal.previous) \cup Marks(journal.candidate)
  <2>1. journal \in Journal
    BY <1>2, <1>0 DEF Rollback, TypeOK
  <2>2. journal.snapshot \in Contents /\ names \in SUBSET Name /\ marks \in SUBSET Mark
    BY <2>1, MarksType, NftAssumption DEF Journal
  <2>3. CASE RecoveryPossible
    <3>1. tx' = Transaction(journal.snapshot, names, marks) /\ UNCHANGED kernel
      BY <1>2, <2>3 DEF Rollback
    <3>2. marks # {} => docker
      BY <2>3 DEF RecoveryPossible, Acceptable
    <3>3. Ran(journal.snapshot.shared) \subseteq {None} \cup marks
      BY <1>2 DEF Known, Rollback
    <3> HIDE DEF names, marks
    <3> QED
      BY <2>2, <3>1, <3>2, <3>3, TransactionAccepted DEF Ready
  <2>4. CASE ~RecoveryPossible
    BY <1>2, <2>4 DEF Rollback, Ready
  <2> QED
    BY <2>3, <2>4
<1>3. CASE Commit \/ CommitFails \/ LateKill \/ Applied \/ RolledBack \/ Killed
  BY <1>3 DEF Commit, CommitFails, LateKill, Kill, Killed, Applied, RolledBack, Ready
<1>4. CASE NothingPending \/ UNCHANGED vars
  BY <1>4 DEF NothingPending, vars, kernel, Ready, Accepted
<1>5. CASE Confirm \/ ConfirmStops
  BY <1>5 DEF Confirm, ConfirmStops, Ready
<1>6. CASE Foreign
  BY <1>6 DEF Foreign, ForeignInserts, ForeignDeletes, ForeignAlters, Reboot, DockerStarts, Disturb, Ready
<1> QED
  BY <1>1, <1>2, <1>3, <1>4, <1>5, <1>6 DEF Next

----------------------------------------------------------------------------
\* Each mark is there once, on a rule as it was registered, and no file inserts
\* one twice.
Single ==
  /\ \A r, s \in chain : r.mark # None /\ r.mark = s.mark => r = s
  /\ \A r \in chain : r.mark # None => r.intact
  /\ journal # None => Distinct(journal.snapshot.shared)
  /\ pc \in {"apply", "rollback"} => Distinct(tx.insert)

\* A complete file replaces all marked rules by its own, one for each mark.
LEMMA EffectSingle ==
  ASSUME HandleInv, Complete, Distinct(tx.insert), TakeEffect
  PROVE  /\ \A r, s \in chain' : r.mark # None /\ r.mark = s.mark => r = s
         /\ \A r \in chain' : r.mark # None => r.intact
         /\ Ran(tx.insert) \subseteq {None} \cup ChainMarks'
<1>0. tx.insert \in Seq(Mark \cup {None})
  BY DEF HandleInv, TypeOK
<1>1. chain' = {r \in chain : r.handle \notin tx.delete} \cup Inserted
  BY DEF TakeEffect
<1>2. \A r \in chain' : r.mark # None => r \in Inserted
  BY <1>1 DEF Complete
<1>3. \A r \in Inserted : \E i \in DOMAIN tx.insert :
        tx.insert[i] # None /\ r = [handle |-> next + i, front |-> TRUE, mark |-> tx.insert[i], intact |-> TRUE]
  BY DEF Inserted
<1>4. ASSUME NEW r \in Inserted, NEW s \in Inserted, r.mark = s.mark PROVE r = s
  <2>1. PICK i \in DOMAIN tx.insert :
          tx.insert[i] # None /\ r = [handle |-> next + i, front |-> TRUE, mark |-> tx.insert[i], intact |-> TRUE]
    BY <1>3
  <2>2. PICK j \in DOMAIN tx.insert :
          tx.insert[j] # None /\ s = [handle |-> next + j, front |-> TRUE, mark |-> tx.insert[j], intact |-> TRUE]
    BY <1>3
  <2>3. i = j
    BY <2>1, <2>2, <1>4 DEF Distinct
  <2> QED
    BY <2>1, <2>2, <2>3
<1>5. \A r \in Inserted : r.intact
  BY <1>3
<1>6. ASSUME NEW i \in DOMAIN tx.insert, tx.insert[i] # None PROVE tx.insert[i] \in ChainMarks'
  <2> DEFINE r == [handle |-> next + i, front |-> TRUE, mark |-> tx.insert[i], intact |-> TRUE]
  <2>1. r \in Inserted /\ r.mark = tx.insert[i]
    BY <1>6 DEF Inserted
  <2> HIDE DEF r
  <2> QED
    BY <2>1, <1>1 DEF ChainMarks
<1> QED
  BY <1>2, <1>4, <1>5, <1>6 DEF Ran

\* The suite adds no second rule of a mark.
LEMMA SingleKept ==
  ASSUME HandleInv, Known, Single, [Next]_vars, ~tampered'
  PROVE  Single'
<1>0. TypeOK /\ (journal = None \/ journal \in Journal) /\ None \notin Journal
  BY NftAssumption DEF HandleInv, TypeOK
<1>1. ASSUME NEW p \in Policy, NEW disabled \in BOOLEAN, Apply(p, disabled) PROVE Single'
  <2>1. current \in Policy \cup {None} /\ chain' = chain
    BY <1>1, <1>0 DEF Apply, TypeOK, kernel
  <2>2. journal'.snapshot = Snapshot(current) /\ tx'.insert = IF disabled THEN Empty.shared ELSE Bundle(p).shared
    BY <1>1 DEF Apply, Transaction
  <2> QED
    BY <2>1, <2>2, <1>0, SnapshotFacts, BundleFacts, EmptyFacts DEF Single
<1>2. CASE Commit
  BY <1>2, EffectSingle DEF Commit, Single, Known
<1>3. CASE LateKill
  BY <1>3, EffectSingle DEF LateKill, Kill, Single, Known
<1>4. CASE Applied
  BY <1>4, <1>0 DEF Applied, Single, kernel, Journal, HandleInv, Busy
<1>5. CASE Rollback
  BY <1>5, <1>0 DEF Rollback, Single, kernel, Journal, Transaction
<1>6. CASE CommitFails \/ RolledBack \/ Confirm \/ ConfirmStops \/ Killed
  BY <1>6 DEF CommitFails, RolledBack, Confirm, ConfirmStops, Killed, Kill, Single, kernel
<1>7. CASE NothingPending \/ UNCHANGED vars
  BY <1>7 DEF NothingPending, vars, kernel, Single
<1>8. ASSUME NEW front \in BOOLEAN, ForeignInserts(front) PROVE Single'
  BY <1>8 DEF ForeignInserts, Disturb, Single
<1>9. CASE \E r \in chain : ForeignDeletes(r)
  BY <1>9 DEF ForeignDeletes, Disturb, Single
<1>10. CASE Reboot
  BY <1>10, <1>0 DEF Reboot, Disturb, Single, Journal
<1>11. CASE DockerStarts
  BY <1>11 DEF DockerStarts, Disturb, Single
<1>12. ASSUME NEW r \in chain, NEW kind \in {"alter", "copy"}, ForeignAlters(r, kind) PROVE FALSE
  BY <1>12 DEF ForeignAlters
<1> QED
  BY <1>1, <1>2, <1>3, <1>4, <1>5, <1>6, <1>7, <1>8, <1>9, <1>10, <1>11, <1>12 DEF Next, Foreign

----------------------------------------------------------------------------
\* The tables that hold something are known to the records, a file prepared to
\* be applied holds all of the candidate, and its commit leaves just that.
Furnished ==
  /\ Filled \subseteq Tables(current) \cup (IF journal = None THEN {} ELSE Reach)
  /\ journal # None =>
       /\ Tables(current) \subseteq Reach
       /\ \A n \in Name : journal.snapshot.tables[n] # None => n \in Tables(journal.previous)
       /\ journal.handed => pc = "idle" /\ \A n \in Filled : Wanted[n] # None
  /\ pc = "apply" => Filled \subseteq tx.drop /\ tx.add = Wanted /\ Result \subseteq Ran(tx.insert)
  /\ pc = "applied" => tables = Wanted /\ (fresh => Result \subseteq ChainMarks)
  /\ pc = "rollback" => Filled \subseteq tx.drop /\ tx.add = journal.snapshot.tables
  /\ pc = "rolled back" => Filled \subseteq Tables(journal.previous)

\* What is wanted fills tables of the candidate only.
LEMMA WantedFacts ==
  ASSUME journal \in Journal
  PROVE  /\ Wanted \in [Name -> Policy \cup {None}]
         /\ \A n \in Name : Wanted[n] = IF ~journal.disabled /\ n \in Objects[journal.candidate]
                                        THEN journal.candidate ELSE None
         /\ \A n \in Name : Wanted[n] # None => n \in Tables(IF journal.disabled THEN None ELSE journal.candidate)
<1>1. journal.candidate \in Policy /\ journal.candidate # None /\ journal.disabled \in BOOLEAN
  BY NftAssumption DEF Journal
<1>2. Tables(journal.candidate) = Objects[journal.candidate]
  BY <1>1 DEF Tables
<1>3. CASE journal.disabled
  BY <1>3 DEF Wanted, Empty
<1>4. CASE ~journal.disabled
  <2>1. Wanted = [n \in Name |-> IF n \in Objects[journal.candidate] THEN journal.candidate ELSE None]
    BY <1>4 DEF Wanted, Bundle
  <2> QED
    BY <1>1, <1>2, <1>4, <2>1
<1> QED
  BY <1>1, <1>3, <1>4

\* A file that drops every table there leaves those it adds.
LEMMA EffectTables ==
  ASSUME HandleInv, Filled \subseteq tx.drop, TakeEffect
  PROVE  tables' = tx.add
<1>1. /\ tables' = [n \in Name |-> IF tx.add[n] # None THEN tx.add[n]
                                   ELSE IF n \in tx.drop THEN None ELSE tables[n]]
      /\ tx.add \in [Name -> Policy \cup {None}]
  BY DEF TakeEffect, HandleInv, TypeOK
<1>2. \A n \in Name : tables'[n] = tx.add[n]
  BY <1>1 DEF Filled
<1> QED
  BY <1>1, <1>2

\* What a commit inserts is there.
LEMMA EffectMarks ==
  ASSUME TakeEffect
  PROVE  Ran(tx.insert) \subseteq {None} \cup ChainMarks'
<1>1. chain' = {r \in chain : r.handle \notin tx.delete} \cup Inserted
  BY DEF TakeEffect
<1>2. ASSUME NEW i \in DOMAIN tx.insert, tx.insert[i] # None PROVE tx.insert[i] \in ChainMarks'
  <2> DEFINE r == [handle |-> next + i, front |-> TRUE, mark |-> tx.insert[i], intact |-> TRUE]
  <2>1. r \in Inserted /\ r.mark = tx.insert[i]
    BY <1>2 DEF Inserted
  <2> HIDE DEF r
  <2> QED
    BY <2>1, <1>1 DEF ChainMarks
<1> QED
  BY <1>2 DEF Ran

\* Every step keeps the tables known.
LEMMA FurnishedKept ==
  ASSUME HandleInv, HandleInv', Furnished, [Next]_vars
  PROVE  Furnished'
<1>0. TypeOK /\ (journal = None \/ journal \in Journal) /\ None \notin Journal
  BY NftAssumption DEF HandleInv, TypeOK
<1>1. ASSUME NEW p \in Policy, NEW disabled \in BOOLEAN, Apply(p, disabled) PROVE Furnished'
  <2> DEFINE target == IF disabled THEN Empty ELSE Bundle(p)
             names == Objects[p] \cup Tables(current)
             marks == Marks(p) \cup Marks(current)
  <2>1. /\ tx' = Transaction(target, names, marks) /\ UNCHANGED <<kernel, current>>
        /\ pc' = "apply" /\ journal = None
        /\ journal' = [previous |-> current, candidate |-> p, disabled |-> disabled,
                       snapshot |-> Snapshot(current), handed |-> FALSE]
    BY <1>1 DEF Apply
  <2>2. /\ tx'.drop = {n \in names : tables[n] # None} /\ tx'.add = target.tables
        /\ tx'.insert = target.shared
    BY <2>1 DEF Transaction
  <2>3. current \in Policy \cup {None} /\ journal' # None
    BY <1>0, <2>1 DEF HandleInv, TypeOK, Busy
  <2>4. Filled \subseteq Tables(current)
    BY <2>1 DEF Furnished
  <2>5. Filled' \subseteq tx'.drop
    BY <2>1, <2>2, <2>4, NftAssumption DEF Filled, kernel
  <2>6. tx'.add = Wanted'
    BY <2>1, <2>2 DEF Wanted
  <2>7. Result' \subseteq Ran(tx'.insert)
    BY <2>1, <2>2, BundleFacts DEF Result
  <2>8. \A n \in Name : journal'.snapshot.tables[n] # None => n \in Tables(journal'.previous)
    BY <1>0, <2>1, <2>3, SnapshotFacts
  <2>9. Reach' = Tables(current) \cup Objects[p]
    BY <2>1 DEF Reach
  <2>10. Filled' = Filled /\ Tables(current') = Tables(current)
    BY <2>1 DEF Filled, kernel
  <2> QED
    BY <2>1, <2>3, <2>4, <2>5, <2>6, <2>7, <2>8, <2>9, <2>10 DEF Furnished
<1>2. ASSUME TakeEffect, pc \in {"apply", "rollback"}, UNCHANGED <<current, journal>>
      PROVE  /\ journal \in Journal /\ ~journal.handed
             /\ tables' = tx.add /\ Filled' \subseteq Reach
             /\ pc = "apply" => tables' = Wanted' /\ Result' \subseteq ChainMarks'
             /\ pc = "rollback" => Filled' \subseteq Tables(journal.previous)
  <2>1. journal \in Journal /\ ~journal.handed
    BY <1>0, <1>2 DEF Furnished, HandleInv, Busy
  <2>2. tables' = tx.add
    BY <1>2, EffectTables DEF Furnished
  <2>3. CASE pc = "apply"
    <3>1. tables' = Wanted' /\ Wanted' = Wanted /\ Result' = Result
      BY <1>2, <2>2, <2>3 DEF Furnished, Wanted, Result
    <3>2. Result' \subseteq ChainMarks'
      <4>1. None \notin Result
        BY <2>1, BundleFacts DEF Result, Journal
      <4> QED
        BY <1>2, <2>3, <3>1, <4>1, EffectMarks DEF Furnished
    <3>3. Filled' \subseteq Reach
      BY <2>1, <3>1, WantedFacts DEF Filled, Reach
    <3> QED
      BY <2>1, <2>2, <2>3, <3>1, <3>2, <3>3
  <2>4. CASE pc = "rollback"
    <3>1. Filled' \subseteq Tables(journal.previous)
      BY <1>0, <2>1, <2>2, <2>4 DEF Furnished, Filled
    <3> QED
      BY <2>1, <2>2, <2>4, <3>1 DEF Reach
  <2> QED
    BY <1>2, <2>3, <2>4
<1>3. CASE Commit
  <2>1. journal' = journal /\ current' = current
    BY <1>3 DEF Commit
  <2>2. Reach' = Reach /\ Wanted' = Wanted
    BY <2>1 DEF Reach, Wanted
  <2> QED
    BY <1>2, <1>3, <1>0, <2>1, <2>2 DEF Commit, Furnished
<1>4. CASE LateKill
  <2>1. journal' = journal /\ current' = current
    BY <1>4 DEF LateKill, Kill
  <2>2. Reach' = Reach /\ Wanted' = Wanted
    BY <2>1 DEF Reach, Wanted
  <2> QED
    BY <1>2, <1>4, <1>0, <2>1, <2>2 DEF LateKill, Kill, Furnished
<1>5. CASE CommitFails \/ Killed
  <2>1. pc' \in {"idle", "recover"} /\ UNCHANGED <<kernel, current, journal>> /\ pc # "idle"
    BY <1>5 DEF CommitFails, Killed, Kill
  <2> QED
    BY <2>1 DEF Furnished, Reach, Wanted, Filled, kernel
<1>6. CASE Applied
  <2>1. journal \in Journal /\ journal' = [journal EXCEPT !.handed = TRUE] /\ pc' = "idle" /\ UNCHANGED <<kernel, current>>
        /\ pc = "applied"
    BY <1>6, <1>0 DEF Applied, HandleInv, Busy
  <2>2. /\ journal'.previous = journal.previous /\ journal'.candidate = journal.candidate
        /\ journal'.disabled = journal.disabled /\ journal'.snapshot = journal.snapshot
        /\ journal' \in Journal /\ journal # None /\ journal' # None
    BY <2>1, <1>0 DEF Journal
  <2>3. Reach' = Reach /\ Wanted' = Wanted /\ Filled' = Filled
    BY <2>1, <2>2 DEF Reach, Wanted, Filled, kernel
  <2>4. \A n \in Filled : Wanted[n] # None
    BY <2>1 DEF Furnished, Filled
  <2> QED
    BY <1>0, <2>1, <2>2, <2>3, <2>4 DEF Furnished
<1>7. CASE Rollback
  <2>1. journal \in Journal /\ UNCHANGED <<kernel, current>> /\ pc \in {"idle", "recover"}
    BY <1>7, <1>0 DEF Rollback
  <2>2. CASE RecoveryPossible
    <3>1. /\ tx' = Transaction(journal.snapshot, Reach, Registered) /\ pc' = "rollback"
          /\ journal' = [journal EXCEPT !.handed = FALSE]
      BY <1>7, <2>2 DEF Rollback, Reach, Registered
    <3>2. tx'.drop = {n \in Reach : tables[n] # None} /\ tx'.add = journal.snapshot.tables
      BY <3>1 DEF Transaction
    <3>3. /\ journal'.previous = journal.previous /\ journal'.candidate = journal.candidate
          /\ journal'.snapshot = journal.snapshot /\ ~journal'.handed
          /\ journal' \in Journal /\ journal # None /\ journal' # None
      BY <1>0, <2>1, <3>1 DEF Journal
    <3>4. Reach' = Reach /\ Filled' = Filled /\ current' = current
      BY <2>1, <3>3 DEF Reach, Filled, kernel
    <3>5. Filled \subseteq tx'.drop
      BY <1>0, <2>1, <3>2 DEF Furnished, Filled
    <3> QED
      BY <1>0, <2>1, <3>1, <3>2, <3>3, <3>4, <3>5 DEF Furnished
  <2>3. CASE ~RecoveryPossible
    <3>1. pc' = "idle" /\ journal' = journal
      BY <1>7, <2>3 DEF Rollback
    <3> QED
      BY <2>1, <3>1 DEF Furnished, Reach, Wanted, Filled, kernel
  <2> QED
    BY <2>2, <2>3
<1>8. CASE RolledBack
  <2>1. journal' = None /\ current' = journal.previous /\ pc' = "idle" /\ tables' = tables /\ pc = "rolled back"
    BY <1>8 DEF RolledBack, kernel
  <2> QED
    BY <2>1 DEF Furnished, Filled
<1>9. CASE Confirm
  <2>1. /\ journal \in Journal /\ journal.handed /\ journal' = None /\ pc' = "idle" /\ tables' = tables
        /\ current' = IF journal.disabled THEN None ELSE journal.candidate
    BY <1>9, <1>0 DEF Confirm, kernel
  <2>2. Filled' \subseteq Tables(current')
    BY <2>1, <1>0, WantedFacts DEF Furnished, Filled
  <2> QED
    BY <2>1, <2>2 DEF Furnished
<1>10. CASE ConfirmStops
  <2>1. /\ journal \in Journal /\ UNCHANGED <<kernel, journal, pc, tx, fresh>>
        /\ current' = IF journal.disabled THEN None ELSE journal.candidate
    BY <1>10, <1>0 DEF ConfirmStops
  <2>2. Tables(current') \subseteq Reach
    BY <2>1, NftAssumption DEF Tables, Reach, Journal
  <2>3. Filled' = Filled /\ Reach' = Reach /\ Wanted' = Wanted /\ Result' = Result /\ ChainMarks' = ChainMarks
    BY <2>1 DEF Filled, Reach, Wanted, Result, ChainMarks, kernel
  <2>4. Filled \subseteq Reach
    BY <1>0, <2>1 DEF Furnished
  <2> QED
    BY <1>0, <2>1, <2>2, <2>3, <2>4 DEF Furnished, kernel
<1>11. CASE NothingPending \/ UNCHANGED vars
  <2>1. UNCHANGED <<tables, chain, current, journal, pc, tx, fresh>>
    BY <1>11 DEF NothingPending, vars, kernel
  <2> QED
    BY <2>1 DEF Furnished, Filled, Reach, Wanted, Result, ChainMarks
<1>12. CASE Foreign /\ ~Reboot
  <2>1. UNCHANGED <<tables, current, journal, pc, tx>> /\ ~fresh'
    BY <1>12 DEF Foreign, ForeignInserts, ForeignDeletes, ForeignAlters, DockerStarts, Disturb
  <2> QED
    BY <2>1 DEF Furnished, Filled, Reach, Wanted, Result
<1>13. CASE Reboot
  <2>1. /\ Filled' = {} /\ pc' = "idle" /\ current' = current
        /\ journal' = IF journal = None THEN None ELSE [journal EXCEPT !.handed = FALSE]
    BY <1>13 DEF Reboot, Disturb, Filled
  <2>2. CASE journal = None
    BY <2>1, <2>2 DEF Furnished
  <2>3. CASE journal # None
    <3>1. /\ journal'.previous = journal.previous /\ journal'.candidate = journal.candidate
          /\ journal'.snapshot = journal.snapshot /\ ~journal'.handed
      BY <1>0, <2>1, <2>3 DEF Journal
    <3> QED
      BY <2>1, <2>3, <3>1 DEF Furnished, Reach
  <2> QED
    BY <2>2, <2>3
<1> QED
  BY <1>1, <1>3, <1>4, <1>5, <1>6, <1>7, <1>8, <1>9, <1>10, <1>11, <1>12, <1>13 DEF Next

----------------------------------------------------------------------------
Standing == ~tampered => Known /\ Ready /\ Single

\* A mark of the suite finds one rule at most, and that as it was registered.
LEMMA MarkedOnce ==
  ASSUME Single, NEW m \in Mark
  PROVE  Sane(m) /\ (m \in ChainMarks => Cardinality(Marked(m)) = 1)
<1>1. m # None
  BY NftAssumption
<1>2. CASE Marked(m) = {}
  <2>1. Cardinality(Marked(m)) = 0 /\ m \notin ChainMarks
    BY <1>2, FS_EmptySet DEF Marked, ChainMarks
  <2> QED
    BY <1>2, <2>1 DEF Sane
<1>3. CASE Marked(m) # {}
  <2>1. PICK r \in chain : r.mark = m
    BY <1>3 DEF Marked
  <2>2. Marked(m) = {r}
    BY <1>1, <2>1 DEF Marked, Single
  <2>3. Cardinality(Marked(m)) = 1
    BY <2>2, FS_Singleton
  <2> QED
    BY <1>1, <2>1, <2>2, <2>3 DEF Sane, Single
<1> QED
  BY <1>2, <1>3

\* Nothing is tampered with, and everything is in place.
LEMMA StandingKept ==
  ASSUME HandleInv, HandleInv', Standing, [Next]_vars
  PROVE  Standing'
<1> SUFFICES ASSUME ~tampered' PROVE Known' /\ Ready' /\ Single'
  BY DEF Standing
<1>1. ~tampered
  BY DEF Next, Foreign, Reboot, DockerStarts, ForeignInserts, ForeignDeletes, ForeignAlters,
         Apply, Commit, CommitFails, LateKill, Kill, Killed, Applied, Rollback, RolledBack,
         NothingPending, Confirm, ConfirmStops, vars, ghosts
<1>2. Known /\ Ready /\ Single
  BY <1>1 DEF Standing
<1>3. Known'
  <2>1. CASE UNCHANGED vars
    BY <1>2, <2>1 DEF vars, kernel, Known, Tracked, ChainMarks, Result, Complete
  <2> QED
    BY <1>2, <2>1, ForeignKnown, SuiteKnown
<1> QED
  BY <1>2, <1>3, ReadyKept, SingleKept

\* What the two theorems rest on, in every reachable state.
LEMMA AllStands == Spec => [](HandleInv /\ Standing /\ Furnished)
<1>1. Init => Standing
  BY DEF Init, Standing, Known, Tracked, ChainMarks, Ready, Single
<1>2. Init => Furnished
  BY DEF Init, Furnished, Filled
<1>3. HandleInv /\ HandleInv' /\ Standing /\ Furnished /\ [Next]_vars => Standing' /\ Furnished'
  BY StandingKept, FurnishedKept
<1>4. Spec => []HandleInv
  BY HandlesSound DEF HandleInv
<1> QED
  BY <1>1, <1>2, <1>3, <1>4, PTL DEF Spec

\* However an earlier transaction ended, the commit of an application that no other
\* program overtakes leaves in the suite's part of the kernel the candidate whole,
\* each of its rules once, and nothing else: unless one copies or replaces a marked
\* rule (engine.py 356-384, 456-475).
THEOREM ExactSafe == Spec => []Exact
<1>1. ASSUME HandleInv, Standing, Furnished PROVE Exact
  <2> SUFFICES ASSUME pc = "applied", fresh, ~tampered
               PROVE LET p == journal.candidate IN
                     IF journal.disabled THEN Own.marks = {} /\ \A n \in Objects[p] : tables[n] = None
                     ELSE /\ Own.marks = Marks(p)
                          /\ \A m \in Marks(p) : Cardinality(Marked(m)) = 1
                          /\ \A n \in Name : tables[n] = IF n \in Objects[p] THEN p ELSE None
    BY DEF Exact
  <2>1. Known /\ Single
    BY <1>1 DEF Standing
  <2>2. journal \in Journal /\ journal.candidate \in Policy
    BY <1>1 DEF HandleInv, TypeOK, Busy, Journal
  <2>3. tables = Wanted /\ Result \subseteq ChainMarks
    BY <1>1 DEF Furnished
  <2>4. ChainMarks \subseteq {None} \cup Result
    BY <2>1 DEF Known
  <2>5. None \notin Result
    BY <2>2, BundleFacts DEF Result
  <2>6. Own.marks = Result
    BY <2>3, <2>4, <2>5 DEF Own, ChainMarks
  <2>7. CASE journal.disabled
    BY <2>2, <2>3, <2>6, <2>7, WantedFacts, NftAssumption DEF Result
  <2>8. CASE ~journal.disabled
    <3>1. Result = Marks(journal.candidate) /\ Result \subseteq Mark
      BY <2>2, <2>8, MarksType DEF Result
    <3>2. \A m \in Result : Cardinality(Marked(m)) = 1
      BY <2>1, <2>3, <3>1, MarkedOnce
    <3> QED
      BY <2>2, <2>3, <2>6, <2>8, <3>1, <3>2, WantedFacts
  <2> QED
    BY <2>7, <2>8
<1> QED
  BY <1>1, AllStands, PTL

\* With Docker up, whatever point a transaction was stopped at and whatever others
\* deleted meanwhile, its rollback recognises what it finds, and the file it or an
\* application has prepared is accepted by the kernel it was prepared from: unless
\* another program copies or replaces a marked rule (engine.py 356-384, store.py 110-140).
THEOREM RecoverableSafe == Spec => []Recoverable
<1>1. ASSUME HandleInv, Standing PROVE Recoverable
  <2> SUFFICES ASSUME ~tampered
               PROVE /\ journal # None /\ docker => RecoveryPossible
                     /\ pc \in {"apply", "rollback"} /\ fresh => Accepted
    BY DEF Recoverable
  <2>1. Single /\ Ready
    BY <1>1 DEF Standing
  <2>2. ASSUME journal # None, docker PROVE RecoveryPossible
    <3>1. journal.previous \in Policy \cup {None} /\ journal.candidate \in Policy
      BY <1>1, <2>2 DEF HandleInv, TypeOK, Journal
    <3>2. Marks(journal.previous) \cup Marks(journal.candidate) \subseteq Mark
      BY <3>1, MarksType
    <3> QED
      BY <2>1, <2>2, <3>2, MarkedOnce DEF RecoveryPossible, Acceptable, Registered
  <2> QED
    BY <2>1, <2>2 DEF Ready
<1> QED
  BY <1>1, AllStands, PTL

----------------------------------------------------------------------------
\* While only the suite works, its journal has what the transaction found of the
\* tables and marks it may touch, the others are still as it found them, and a
\* prepared file touches none of these.
Within ==
  /\ \A r \in chain : r.handle \in tx.delete <=> r.mark \in Registered
  /\ tx.drop = {n \in Reach : tables[n] # None}
  /\ Ran(tx.insert) \subseteq {None} \cup Registered
  /\ \A n \in Name : tx.add[n] # None => n \in Reach
Noted ==
  /\ found.marks \cap Registered = Ran(journal.snapshot.shared) \ {None}
  /\ \A n \in Reach : found.tables[n] = journal.snapshot.tables[n]
  /\ \A n \in Name \ Reach : journal.snapshot.tables[n] = None
Apart ==
  /\ Own.marks \ Registered = found.marks \ Registered
  /\ \A n \in Name \ Reach : found.tables[n] = tables[n]
Undoable ==
  /\ found \in [tables : [Name -> Policy \cup {None}], marks : SUBSET Mark]
  /\ calm /\ journal # None => Noted /\ Apart
  /\ calm /\ pc \in {"apply", "rollback"} => Within
  /\ calm /\ pc = "rollback" => tx.add = journal.snapshot.tables /\ tx.insert = journal.snapshot.shared
  /\ calm /\ pc = "rolled back" => Own = found

\* The suite's part of the kernel.
LEMMA OwnType ==
  ASSUME TypeOK
  PROVE  /\ Own \in [tables : [Name -> Policy \cup {None}], marks : SUBSET Mark]
         /\ Own = [tables |-> tables, marks |-> ChainMarks \ {None}]
<1>1. \A r \in chain : r.mark \in Mark \cup {None}
  BY DEF TypeOK, Rule
<1>2. ChainMarks \ {None} \in SUBSET Mark
  BY <1>1 DEF ChainMarks
<1>3. Own = [tables |-> tables, marks |-> ChainMarks \ {None}]
  BY DEF Own, ChainMarks
<1> QED
  BY <1>2, <1>3 DEF TypeOK

\* A commit within the reach of the transaction leaves the rest alone; what it
\* inserts and adds is all that is left within.
LEMMA EffectWithin ==
  ASSUME HandleInv, journal \in Journal, Within, TakeEffect
  PROVE  /\ \A n \in Name \ Reach : tables'[n] = tables[n]
         /\ \A n \in Reach : tables'[n] = tx.add[n]
         /\ (ChainMarks' \ {None}) \ Registered = (ChainMarks \ {None}) \ Registered
         /\ ChainMarks' \cap Registered = Ran(tx.insert) \ {None}
<1>0. Reach \subseteq Name /\ Registered \subseteq Mark /\ None \notin Registered
  BY MarksType, NftAssumption DEF Reach, Registered, Journal
<1>1. /\ tables' = [n \in Name |-> IF tx.add[n] # None THEN tx.add[n]
                                   ELSE IF n \in tx.drop THEN None ELSE tables[n]]
      /\ chain' = {r \in chain : r.handle \notin tx.delete} \cup Inserted
  BY DEF TakeEffect
<1>2. \A n \in Name \ Reach : tables'[n] = tables[n]
  BY <1>1 DEF Within
<1>3. \A n \in Reach : tables'[n] = tx.add[n]
  BY <1>0, <1>1 DEF Within
<1>4. \A r \in chain' : (r \in chain /\ r.mark \notin Registered) \/ r \in Inserted
  BY <1>1 DEF Within
<1>5. \A r \in chain : r.mark \notin Registered => r \in chain'
  BY <1>1 DEF Within
<1>6. \A r \in Inserted : r.mark \in Ran(tx.insert) \ {None} /\ r.mark \in Registered
  BY InsertedRules DEF Within
<1>7. Ran(tx.insert) \ {None} \subseteq ChainMarks'
  BY EffectMarks
<1>8. Ran(tx.insert) \ {None} \subseteq Registered
  BY DEF Within
<1>9. \A m : m \in ChainMarks' /\ m \notin Registered => m \in ChainMarks
  BY <1>4, <1>6 DEF ChainMarks
<1>10. \A m : m \in ChainMarks /\ m \notin Registered => m \in ChainMarks'
  BY <1>5 DEF ChainMarks
<1>11. \A m : m \in ChainMarks' /\ m \in Registered => m \in Ran(tx.insert) \ {None}
  BY <1>4, <1>6 DEF ChainMarks
<1> QED
  BY <1>2, <1>3, <1>7, <1>8, <1>9, <1>10, <1>11

\* What is taken down at the beginning can be put back.
LEMMA ApplyUndoable ==
  ASSUME HandleInv, HandleInv', NEW p \in Policy, NEW disabled \in BOOLEAN, Apply(p, disabled)
  PROVE  Undoable'
<1> DEFINE target == IF disabled THEN Empty ELSE Bundle(p)
           names == Objects[p] \cup Tables(current)
           marks == Marks(p) \cup Marks(current)
<1>0. TypeOK /\ current \in Policy \cup {None}
  BY DEF HandleInv, TypeOK
<1>1. /\ tx' = Transaction(target, names, marks) /\ UNCHANGED kernel
      /\ pc' = "apply" /\ found' = Own
      /\ journal' = [previous |-> current, candidate |-> p, disabled |-> disabled,
                     snapshot |-> Snapshot(current), handed |-> FALSE]
  BY DEF Apply
<1>2. target \in Contents /\ names \in SUBSET Name /\ marks \in SUBSET Mark
  BY <1>0, ContentsType, MarksType, NftAssumption
<1>3. Reach' = names /\ Registered' = marks
  BY <1>1 DEF Reach, Registered
<1>4. Ran(target.shared) \subseteq {None} \cup marks /\ \A n \in Name : target.tables[n] # None => n \in names
  BY EmptyFacts, BundleFacts, NftAssumption DEF Tables
<1>5. \A m \in marks : Marked(m) # {} => m \in Marks(current)
  BY DEF Apply, Acceptable
<1>6. \A n \in names : tables[n] # None => n \in Tables(current)
  BY DEF Apply, Preflight
<1> HIDE DEF target
<1>7. /\ \A r \in chain : r.handle \in tx'.delete <=> r.mark \in marks
      /\ Ran(tx'.insert) = Ran(target.shared)
  BY <1>0, <1>1, <1>2, TransactionAims DEF HandleInv
<1>8. tx'.drop = {n \in names : tables[n] # None} /\ tx'.add = target.tables
  BY <1>1 DEF Transaction
<1>9. Within'
  BY <1>1, <1>3, <1>4, <1>7, <1>8 DEF Within, kernel
<1>10. found'.tables = tables /\ found'.marks = ChainMarks \ {None}
  BY <1>0, <1>1, OwnType
<1>11. \A m \in Mark : Marked(m) # {} <=> m \in ChainMarks
  BY DEF Marked, ChainMarks
<1>12. found'.marks \cap Registered' = Ran(journal'.snapshot.shared) \ {None}
  <2>1. \A m : m \in Ran(Snapshot(current).shared) \ {None} <=> m \in Marks(current) /\ Marked(m) # {}
    BY <1>0, SnapshotFacts
  <2>2. Marks(current) \subseteq marks /\ marks \subseteq Mark /\ None \notin marks
    BY <1>2, NftAssumption
  <2>3. \A m : m \in (ChainMarks \ {None}) \cap marks <=> m \in Marks(current) /\ Marked(m) # {}
    BY <2>2, <1>5, <1>11
  <2> QED
    BY <1>1, <1>3, <1>10, <2>1, <2>3
<1>13. /\ \A n \in Reach' : found'.tables[n] = journal'.snapshot.tables[n]
       /\ \A n \in Name \ Reach' : journal'.snapshot.tables[n] = None
  <2>1. \A n \in Name : Snapshot(current).tables[n] = IF n \in Tables(current) THEN tables[n] ELSE None
    BY <1>0, SnapshotFacts
  <2> QED
    BY <1>1, <1>2, <1>3, <1>6, <1>10, <2>1
<1>14. Noted'
  BY <1>12, <1>13 DEF Noted
<1>15. Own' = Own /\ tables' = tables
  BY <1>1 DEF Own, kernel
<1>16. Apart'
  BY <1>1, <1>10, <1>15 DEF Apart
<1>17. found' \in [tables : [Name -> Policy \cup {None}], marks : SUBSET Mark]
  BY <1>0, <1>1, OwnType
<1> QED
  BY <1>1, <1>9, <1>14, <1>16, <1>17 DEF Undoable

\* A commit keeps it so; that of a recovery puts it back.
LEMMA EffectUndoable ==
  ASSUME HandleInv, HandleInv', Undoable, TakeEffect, pc \in {"apply", "rollback"},
         UNCHANGED <<journal, found, calm>>,
         pc' = (IF pc = "apply" THEN "applied" ELSE "rolled back") \/ pc' = "idle"
  PROVE  Undoable'
<1> SUFFICES ASSUME calm
             PROVE  Noted' /\ Apart' /\ (pc' = "rolled back" => Own' = found')
  BY DEF Undoable
<1>1. journal \in Journal /\ None \notin Journal /\ TypeOK /\ TypeOK'
  BY NftAssumption DEF HandleInv, TypeOK, Busy
<1>2. Within /\ Noted /\ Apart
  BY <1>1 DEF Undoable
<1>3. Noted' /\ Reach' = Reach /\ Registered' = Registered
  BY <1>2 DEF Noted, Reach, Registered
<1>4. /\ \A n \in Name \ Reach : tables'[n] = tables[n]
      /\ \A n \in Reach : tables'[n] = tx.add[n]
      /\ (ChainMarks' \ {None}) \ Registered = (ChainMarks \ {None}) \ Registered
      /\ ChainMarks' \cap Registered = Ran(tx.insert) \ {None}
  BY <1>1, <1>2, EffectWithin
<1>5. /\ Own.marks = ChainMarks \ {None}
      /\ Own' = [tables |-> tables', marks |-> ChainMarks' \ {None}]
      /\ Own'.marks = ChainMarks' \ {None}
      /\ tables' \in [Name -> Policy \cup {None}]
  BY <1>1 DEF Own, ChainMarks, TypeOK
<1>6. Apart'
  BY <1>2, <1>3, <1>4, <1>5 DEF Apart
<1>7. ASSUME pc = "rollback" PROVE Own' = found
  <2>1. tx.add = journal.snapshot.tables /\ tx.insert = journal.snapshot.shared
    BY <1>7 DEF Undoable
  <2>2. found \in [tables : [Name -> Policy \cup {None}], marks : SUBSET Mark]
    BY DEF Undoable
  <2> DEFINE before == found.tables
  <2>b. found = [tables |-> before, marks |-> found.marks]
    BY <2>2
  <2>c. tables' \in [Name -> Policy \cup {None}] /\ before \in [Name -> Policy \cup {None}]
    BY <1>1, <2>2 DEF TypeOK
  <2>3. \A n \in Name : tables'[n] = before[n]
    BY <1>2, <1>4, <2>1 DEF Noted, Apart
  <2> HIDE DEF before
  <2>4. tables' = before
    <3>1. tables' = [n \in Name |-> tables'[n]]
      BY <2>c
    <3>2. before = [n \in Name |-> before[n]]
      BY <2>c
    <3>3. [n \in Name |-> tables'[n]] = [n \in Name |-> before[n]]
      BY <2>3
    <3> QED
      BY <3>1, <3>2, <3>3
  <2>0. None \notin Registered
    BY <1>1, MarksType, NftAssumption DEF Registered, Journal
  <2>5. (ChainMarks' \ {None}) \ Registered = found.marks \ Registered
    BY <1>2, <1>4, <1>5 DEF Apart
  <2>6. ChainMarks' \ {None} = found.marks
    BY <1>2, <1>4, <2>0, <2>1, <2>5 DEF Noted
  <2> QED
    BY <1>5, <2>b, <2>4, <2>6
<1> QED
  BY <1>3, <1>6, <1>7

\* The journal keeps what it needs to undo the transaction.
LEMMA UndoableKept ==
  ASSUME HandleInv, HandleInv', Undoable, [Next]_vars
  PROVE  Undoable'
<1>0. TypeOK /\ (journal = None \/ journal \in Journal) /\ None \notin Journal
  BY NftAssumption DEF HandleInv, TypeOK
<1>1. ASSUME NEW p \in Policy, NEW disabled \in BOOLEAN, Apply(p, disabled) PROVE Undoable'
  BY <1>1, ApplyUndoable
<1>2. CASE Commit
  BY <1>2, EffectUndoable DEF Commit, ghosts
<1>3. CASE LateKill
  BY <1>3, EffectUndoable DEF LateKill, Kill, ghosts
<1>4. CASE CommitFails \/ Killed
  <2>1. pc' \in {"idle", "recover"} /\ UNCHANGED <<kernel, journal, found, calm>>
    BY <1>4 DEF CommitFails, Killed, Kill, ghosts
  <2> QED
    BY <2>1 DEF Undoable, Noted, Apart, Reach, Registered, Own, kernel
<1>5. CASE Applied
  <2>1. journal \in Journal /\ journal' = [journal EXCEPT !.handed = TRUE] /\ pc' = "idle"
        /\ UNCHANGED <<kernel, found, calm>>
    BY <1>5, <1>0 DEF Applied, ghosts, HandleInv, Busy
  <2>2. /\ journal'.previous = journal.previous /\ journal'.candidate = journal.candidate
        /\ journal'.snapshot = journal.snapshot /\ journal # None
    BY <2>1, <1>0 DEF Journal
  <2> QED
    BY <2>1, <2>2 DEF Undoable, Noted, Apart, Reach, Registered, Own, kernel
<1>6. CASE Rollback
  <2>1. journal \in Journal /\ UNCHANGED <<kernel, found, calm>> /\ pc \in {"idle", "recover"}
    BY <1>6, <1>0 DEF Rollback, ghosts
  <2>2. CASE RecoveryPossible
    <3>1. /\ tx' = Transaction(journal.snapshot, Reach, Registered) /\ pc' = "rollback"
          /\ journal' = [journal EXCEPT !.handed = FALSE]
      BY <1>6, <2>2 DEF Rollback, Reach, Registered
    <3>2. journal.snapshot \in Contents /\ Reach \in SUBSET Name /\ Registered \in SUBSET Mark
      BY <2>1, MarksType, NftAssumption DEF Journal, Reach, Registered
    <3>3. \A r \in chain : r.handle \in tx'.delete <=> r.mark \in Registered
      BY <1>0, <3>1, <3>2, TransactionAims DEF HandleInv
    <3>4. /\ tx'.drop = {n \in Reach : tables[n] # None} /\ tx'.add = journal.snapshot.tables
          /\ tx'.insert = journal.snapshot.shared
      BY <3>1 DEF Transaction
    <3>5. /\ journal'.previous = journal.previous /\ journal'.candidate = journal.candidate
          /\ journal'.snapshot = journal.snapshot /\ journal # None
      BY <1>0, <2>1, <3>1 DEF Journal
    <3>6. Reach' = Reach /\ Registered' = Registered /\ Own' = Own
      BY <2>1, <3>5 DEF Reach, Registered, Own, kernel
    <3>7. ASSUME calm PROVE Noted' /\ Apart' /\ Within'
      <4>1. Noted /\ Apart
        BY <3>5, <3>7 DEF Undoable
      <4>2. Noted' /\ Apart'
        BY <2>1, <3>5, <3>6, <4>1 DEF Noted, Apart, kernel
      <4>3. Ran(tx'.insert) \subseteq {None} \cup Registered
        BY <3>4, <4>1 DEF Noted
      <4>4. \A n \in Name : tx'.add[n] # None => n \in Reach
        BY <3>4, <4>1 DEF Noted
      <4>5. chain' = chain /\ tables' = tables
        BY <2>1 DEF kernel
      <4> QED
        BY <3>3, <3>4, <3>6, <4>2, <4>3, <4>4, <4>5 DEF Within
    <3> QED
      BY <2>1, <3>1, <3>4, <3>5, <3>7 DEF Undoable
  <2>3. CASE ~RecoveryPossible
    <3>1. pc' = "idle" /\ journal' = journal
      BY <1>6, <2>3 DEF Rollback
    <3> QED
      BY <2>1, <3>1 DEF Undoable, Noted, Apart, Reach, Registered, Own, kernel
  <2> QED
    BY <2>2, <2>3
<1>7. CASE RolledBack \/ Confirm
  BY <1>7 DEF RolledBack, Confirm, Undoable, ghosts
<1>8. CASE ConfirmStops \/ NothingPending \/ UNCHANGED vars
  <2>1. UNCHANGED <<tables, chain, journal, pc, tx, found, calm>>
    BY <1>8 DEF ConfirmStops, NothingPending, vars, kernel, ghosts
  <2> QED
    BY <2>1 DEF Undoable, Noted, Apart, Within, Reach, Registered, Own
<1>9. CASE Foreign
  <2>1. ~calm' /\ found' = found
    BY <1>9 DEF Foreign, ForeignInserts, ForeignDeletes, ForeignAlters, Reboot, DockerStarts, Disturb
  <2> QED
    BY <2>1 DEF Undoable
<1> QED
  BY <1>1, <1>2, <1>3, <1>4, <1>5, <1>6, <1>7, <1>8, <1>9 DEF Next

\* A recovery that finishes leaves the suite's part of the kernel as its transaction
\* found it, from whatever point and however often it was begun, refused or killed,
\* when no other program has changed anything since (engine.py 323-345, 356-384).
THEOREM RestoredSafe == Spec => Restored
<1>1. Init => Undoable
  BY DEF Init, Undoable
<1>2. HandleInv /\ HandleInv' /\ Undoable /\ [Next]_vars => Undoable'
  BY UndoableKept
<1>3. HandleInv /\ Undoable => [RolledBack /\ calm => Own = found]_vars
  BY DEF RolledBack, Undoable
<1>4. Spec => []HandleInv
  BY HandlesSound DEF HandleInv
<1> QED
  BY <1>1, <1>2, <1>3, <1>4, PTL DEF Spec, Restored
=============================================================================
