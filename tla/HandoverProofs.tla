---------------------------- MODULE HandoverProofs ----------------------------
(***************************************************************************)
(* For any tables and any number of interventions and deaths: the batch of *)
(* a handover takes only what was reviewed, and a handover that is over    *)
(* without a confirmation has put everything back.                         *)
(*                                                                         *)
(* The first needs that contents which were not the reviewed ones when     *)
(* they were copied cannot be the reviewed ones when they are verified     *)
(* again, by which the journal is right whatever others do (Sound).  The   *)
(* second follows the kernel through the two shapes it has while nobody    *)
(* else touches it, before and after the batch (Undisturbed).              *)
(***************************************************************************)
EXTENDS Handover, TLAPS

Contents == [n \in Reviewed |-> "reviewed"]
TableType == [handle : {"reviewed", "later"}, contents : {"reviewed", "policy", "changed"}]
BeforeBatch == {"inspected", "verified", "copied", "prepared", "recorded", "armed", "ready"}
Journaled == {"recorded", "armed", "ready", "committed", "rollback", "restored", "kept"}

KernelTyped ==
  /\ tables = [n \in DOMAIN tables |-> tables[n]]
  /\ \A n \in DOMAIN tables : tables[n] \in TableType
JournalTyped == journal = <<>> \/ journal = <<Contents>>
\* A copy that is not the reviewed one is of a table that can never be verified again.
CopyTold ==
  step = "copied" =>
    /\ copied = [n \in Reviewed |-> copied[n]]
    /\ \A n \in Reviewed : copied[n] = "reviewed" \/ ~(n \in DOMAIN tables /\ tables[n] = AsReviewed)
CopySound == step = "prepared" => copied = Contents
JournalSound == step \in Journaled => journal = <<Contents>>
NamesInspected == step \in BeforeBatch => Objects \cap live \subseteq Reviewed
Sound ==
  /\ step \in {"none"} \cup BeforeBatch \cup Journaled /\ outside \in Nat
  /\ KernelTyped /\ JournalTyped /\ CopyTold /\ CopySound /\ JournalSound /\ NamesInspected

LEMMA TableTyped ==
  ASSUME NEW h \in {"reviewed", "later"}, NEW c \in {"reviewed", "policy", "changed"}
  PROVE  Table(h, c) \in TableType /\ Table(h, c).handle = h /\ Table(h, c).contents = c
BY DEF Table, TableType

\* A batch that creates tables of one content leaves a kernel of the right type.
LEMMA BatchTyped ==
  ASSUME KernelTyped, NEW names, NEW S, NEW c \in {"reviewed", "policy"},
         tables' = Created(Lacking(tables, names), [n \in S |-> c])
  PROVE  KernelTyped'
<1>1. \A n \in DOMAIN tables : tables[n] \in TableType /\ tables[n].handle \in {"reviewed", "later"}
  BY DEF KernelTyped, TableType
<1>2. tables' = [n \in (DOMAIN tables \ names) \cup S |->
                   IF n \notin DOMAIN tables \ names THEN Table("later", c)
                   ELSE IF n \in S THEN Table(tables[n].handle, "changed") ELSE tables[n]]
  BY DEF Created, Lacking
<1>3. ASSUME NEW n \in DOMAIN tables' PROVE tables'[n] \in TableType
  <2>1. CASE n \notin DOMAIN tables \ names
    BY <2>1, <1>2, <1>3, TableTyped
  <2>2. CASE n \in DOMAIN tables \ names /\ n \in S
    BY <2>2, <1>1, <1>2, <1>3, TableTyped
  <2>3. CASE n \in DOMAIN tables \ names /\ n \notin S
    BY <2>3, <1>1, <1>2, <1>3
  <2> QED BY <2>1, <2>2, <2>3
<1>4. tables' = [n \in DOMAIN tables' |-> tables'[n]]
  BY <1>2
<1> QED BY <1>3, <1>4 DEF KernelTyped

\* What somebody else does to a table does not make it the reviewed one again.
LEMMA OutsideSpoils ==
  ASSUME KernelTyped, Outside
  PROVE  /\ KernelTyped'
         /\ \A n \in DOMAIN tables' : tables'[n] = AsReviewed => n \in DOMAIN tables /\ tables[n] = AsReviewed
<1>1. PICK n \in Reviewed \cup Objects :
        \/ n \in DOMAIN tables /\ tables' = [tables EXCEPT ![n].contents = "changed"]
        \/ tables' = [m \in DOMAIN tables \cup {n} |-> IF m = n THEN Table("later", "changed") ELSE tables[m]]
        \/ n \in DOMAIN tables /\ tables' = Lacking(tables, {n})
  BY DEF Outside
<1>2. \A m \in DOMAIN tables : tables[m] \in TableType
  BY DEF KernelTyped
<1>3. Table("later", "changed") \in TableType /\ Table("later", "changed") # AsReviewed
  BY TableTyped DEF AsReviewed, Table
<1>4. CASE n \in DOMAIN tables /\ tables' = [tables EXCEPT ![n].contents = "changed"]
  <2>1. tables' = [m \in DOMAIN tables |-> IF m = n THEN [tables[n] EXCEPT !.contents = "changed"] ELSE tables[m]]
    BY <1>4 DEF KernelTyped
  <2>2. [tables[n] EXCEPT !.contents = "changed"] \in TableType
    BY <1>2, <1>4 DEF TableType
  <2>3. [tables[n] EXCEPT !.contents = "changed"] # AsReviewed
    BY <1>2, <1>4 DEF TableType, AsReviewed, Table
  <2> QED BY <1>2, <2>1, <2>2, <2>3 DEF KernelTyped
<1>5. CASE tables' = [m \in DOMAIN tables \cup {n} |-> IF m = n THEN Table("later", "changed") ELSE tables[m]]
  BY <1>2, <1>3, <1>5 DEF KernelTyped
<1>6. CASE n \in DOMAIN tables /\ tables' = Lacking(tables, {n})
  BY <1>2, <1>6 DEF KernelTyped, Lacking
<1> QED BY <1>1, <1>4, <1>5, <1>6

\* The journal of a handover has the reviewed contents, whatever others do meanwhile.
LEMMA SoundInv == HandoverSpec => []Sound
<1>1. HandoverInit => Sound
  BY DEF HandoverInit, Sound, KernelTyped, JournalTyped, CopyTold, CopySound, JournalSound, NamesInspected,
         BeforeBatch, Journaled, TableType, AsReviewed, Table
<1>2. Sound /\ [HandoverNext]_handoverVars => Sound'
  <2> SUFFICES ASSUME Sound, [HandoverNext]_handoverVars PROVE Sound'
    OBVIOUS
  <2> USE DEF Sound, BeforeBatch, Journaled
  <2>1. ASSUME tables' = tables PROVE KernelTyped'
    BY <2>1 DEF KernelTyped
  <2>2. CASE Inspect
    <3>1. Objects \cap live' \subseteq Reviewed /\ step' = "inspected"
      BY <2>2 DEF Inspect, Goes
    <3> QED BY <2>1, <2>2, <3>1 DEF Inspect, Goes, store, JournalTyped, CopyTold, CopySound, JournalSound, NamesInspected
  <2>3. CASE Verify \/ Record \/ Arm \/ VerifyLast
    BY <2>1, <2>3 DEF Verify, Record, Arm, VerifyLast, Goes, store,
                      JournalTyped, CopyTold, CopySound, JournalSound, NamesInspected
  <2>4. CASE Copy
    BY <2>1, <2>4 DEF Copy, Goes, store, AsReviewed, Table,
                      JournalTyped, CopyTold, CopySound, JournalSound, NamesInspected
  <2>5. CASE VerifyAgain
    <3>1. copied' = Contents
      BY <2>5 DEF VerifyAgain, Goes, Verified, CopyTold, Contents
    <3> QED BY <2>1, <2>5, <3>1 DEF VerifyAgain, Goes, store, JournalTyped, CopyTold, CopySound, JournalSound, NamesInspected
  <2>6. CASE Refused \/ Succeeds \/ Keep \/ Kept \/ RestoreFails \/ Forget \/ Dies
    BY <2>1, <2>6 DEF Refused, Succeeds, Keep, Kept, RestoreFails, Forget, Dies, Leaves, Goes, store,
                      JournalTyped, CopyTold, CopySound, JournalSound, NamesInspected
  <2>7. CASE Fails \/ RollBack
    BY <2>1, <2>7 DEF Fails, RollBack, Goes, store, JournalTyped, CopyTold, CopySound, JournalSound, NamesInspected
  <2>8. CASE Commit
    <3>1. tables' = Created(Lacking(tables, Reviewed), [n \in Objects |-> "policy"])
      BY <2>8 DEF Commit, Taken
    <3>2. KernelTyped'
      BY <3>1, BatchTyped
    <3> QED BY <2>8, <3>2 DEF Commit, Goes, store, JournalTyped, CopyTold, CopySound, JournalSound, NamesInspected
  <2>9. CASE Restore
    <3>1. PICK names : tables' = Created(Lacking(tables, names), journal[1])
      BY <2>9 DEF Restore
    <3>2. journal[1] = [n \in Reviewed |-> "reviewed"]
      BY <2>9 DEF Restore, Goes, JournalSound, Contents
    <3>3. KernelTyped'
      BY <3>1, <3>2, BatchTyped
    <3> QED BY <2>9, <3>3 DEF Restore, Goes, store, JournalTyped, CopyTold, CopySound, JournalSound, NamesInspected
  <2>10. CASE Outside
    <3>1. outside' \in Nat /\ UNCHANGED <<process, store>>
      BY <2>10 DEF Outside
    <3> QED BY <2>10, <3>1, OutsideSpoils DEF process, store, JournalTyped, CopyTold, CopySound, JournalSound, NamesInspected
  <2>11. CASE UNCHANGED handoverVars
    BY <2>1, <2>11 DEF handoverVars, JournalTyped, CopyTold, CopySound, JournalSound, NamesInspected
  <2> QED BY <2>2, <2>3, <2>4, <2>5, <2>6, <2>7, <2>8, <2>9, <2>10, <2>11 DEF HandoverNext
<1> QED BY <1>1, <1>2, PTL DEF HandoverSpec

\* The batch of a handover takes away only tables the operator reviewed, and the journal
\* can give back the reviewed contents of each (Store.apply_locked, legacy.pin_transaction).
THEOREM HandoverTakes == HandoverSpec => TakenAsReviewed
<1>1. ASSUME Sound, [HandoverNext]_handoverVars, step = "ready", step' = "committed"
      PROVE  /\ journal = <<[n \in Reviewed |-> "reviewed"]>>
             /\ \A n \in DOMAIN tables : n \notin DOMAIN tables' \/ tables'[n] # tables[n] =>
                  \/ n \in Reviewed /\ tables[n].handle = "reviewed"
                  \/ n \in Objects \ live
  <2>1. journal = <<[n \in Reviewed |-> "reviewed"]>>
    BY <1>1 DEF Sound, JournalSound, Journaled, Contents
  <2>2. Commit
    BY <1>1 DEF HandoverNext, Inspect, Verify, Copy, VerifyAgain, Record, Arm, VerifyLast, Refused, Fails, Succeeds,
                Keep, Kept, RollBack, Restore, RestoreFails, Forget, Dies, Outside, Goes, Leaves, process, handoverVars
  <2>3. /\ tables' = Created(Lacking(tables, Reviewed), [n \in Objects |-> "policy"])
        /\ \A n \in Reviewed : n \in DOMAIN tables /\ tables[n].handle = "reviewed"
    BY <2>2 DEF Commit, Taken
  <2>4. tables' = [n \in (DOMAIN tables \ Reviewed) \cup Objects |->
                     IF n \notin DOMAIN tables \ Reviewed THEN Table("later", "policy")
                     ELSE IF n \in Objects THEN Table(tables[n].handle, "changed") ELSE tables[n]]
    BY <2>3 DEF Created, Lacking
  <2>5. Objects \cap live \subseteq Reviewed
    BY <1>1 DEF Sound, NamesInspected, BeforeBatch
  <2> QED BY <2>1, <2>3, <2>4, <2>5
<1> QED BY <1>1, SoundInv, PTL DEF HandoverSpec, TakenAsReviewed

\* The two shapes of the kernel while nobody else touches it: before the batch or after a
\* rollback, and after the batch.
Whole(kernel) ==
  /\ kernel = [n \in Reviewed \cup Others |-> kernel[n]]
  /\ \A n \in Reviewed \cup Others : kernel[n].contents = "reviewed"
  /\ \A n \in Others : kernel[n] = AsReviewed
Replaced(kernel) ==
  /\ kernel = [n \in Objects \cup Others |-> kernel[n]]
  /\ \A n \in Others : kernel[n] = AsReviewed
Undisturbed ==
  outside = 0 =>
    /\ Whole(tables) \/ Replaced(tables)
    /\ journal = <<>> /\ ~currentKept => Whole(tables)
    /\ step \in BeforeBatch => Whole(tables) /\ ~currentKept
    /\ step \in {"restored"} => Whole(tables)
    /\ step = "kept" => currentKept
    /\ step = "rollback" => live = DOMAIN tables
    /\ step \in BeforeBatch \/ journal # <<>> => Objects \cap Others = {}
    /\ step = "copied" => copied = Contents

LEMMA UndisturbedInv == HandoverSpec => []Undisturbed
<1>1. HandoverInit => Undisturbed
  BY DEF HandoverInit, Undisturbed, Whole, BeforeBatch, AsReviewed, Table
<1>2. Sound /\ Undisturbed /\ [HandoverNext]_handoverVars => Undisturbed'
  <2> SUFFICES ASSUME Sound, Undisturbed, [HandoverNext]_handoverVars, outside' = 0 PROVE Undisturbed'
    BY DEF Undisturbed
  <2> USE DEF BeforeBatch
  <2>1. CASE Outside
    BY <2>1 DEF Outside, Sound
  <2>2. CASE ~Outside
    <3>1. outside = 0
      BY <2>2 DEF HandoverNext, Inspect, Verify, Copy, VerifyAgain, Record, Arm, VerifyLast, Refused, Commit, Fails,
                  Succeeds, Keep, Kept, RollBack, Restore, RestoreFails, Forget, Dies, handoverVars
    <3> USE <3>1 DEF Undisturbed
    <3>2. CASE Inspect
      <4>1. Whole(tables) /\ tables' = tables
        BY <3>2 DEF Inspect
      <4>2. Objects \cap Others = {}
        BY <3>2, <4>1, HandoverAssumption DEF Inspect, Whole
      <4> QED BY <3>2, <4>1, <4>2 DEF Inspect, Goes, store, Whole, Replaced
    <3>3. CASE Verify \/ VerifyAgain \/ Arm \/ VerifyLast
      BY <3>3 DEF Verify, VerifyAgain, Arm, VerifyLast, Goes, store, Whole, Replaced
    <3>4. CASE Copy
      <4>1. copied' = Contents
        BY <3>4 DEF Copy, Goes, Whole, Contents
      <4> QED BY <3>4, <4>1 DEF Copy, Goes, store, Whole, Replaced
    <3>5. CASE Record
      BY <3>5 DEF Record, Goes, Whole, Replaced
    <3>6. CASE Refused
      BY <3>6 DEF Refused, Leaves, Whole, Replaced
    <3>7. CASE Commit
      <4>1. tables' = Created(Lacking(tables, Reviewed), [n \in Objects |-> "policy"])
        BY <3>7 DEF Commit, Taken
      <4>2. Whole(tables) /\ Objects \cap Others = {}
        BY <3>7 DEF Commit, Goes
      <4>3. tables' = [n \in (DOMAIN tables \ Reviewed) \cup Objects |->
                         IF n \notin DOMAIN tables \ Reviewed THEN Table("later", "policy")
                         ELSE IF n \in Objects THEN Table(tables[n].handle, "changed") ELSE tables[n]]
        BY <4>1 DEF Created, Lacking
      <4>4. DOMAIN tables = Reviewed \cup Others
        BY <4>2 DEF Whole
      <4>5. DOMAIN tables' = Objects \cup Others
        BY <4>2, <4>3, <4>4, HandoverAssumption
      <4>6. \A n \in Others : tables'[n] = AsReviewed
        BY <4>2, <4>3, <4>4, HandoverAssumption DEF Whole
      <4>7. Replaced(tables')
        BY <4>3, <4>5, <4>6 DEF Replaced
      <4>8. journal # <<>>
        BY <3>7 DEF Commit, Goes, Sound, JournalSound, Journaled
      <4> QED BY <3>7, <4>2, <4>7, <4>8 DEF Commit, Goes, store
    <3>8. CASE Fails \/ RollBack
      <4>1. journal # <<>>
        BY <3>8 DEF Fails, RollBack, Goes, Sound, JournalSound, Journaled
      <4> QED BY <3>8, <4>1 DEF Fails, RollBack, Goes, store, Whole, Replaced
    <3>9. CASE Succeeds \/ RestoreFails \/ Dies
      BY <3>9 DEF Succeeds, RestoreFails, Dies, Leaves, store, Whole, Replaced
    <3>10. CASE Keep \/ Kept
      BY <3>10 DEF Keep, Kept, Goes, Leaves, Whole, Replaced
    <3>11. CASE Restore
      <4>0. step = "rollback" /\ journal = <<Contents>>
        BY <3>11 DEF Restore, Goes, Sound, JournalSound, Journaled
      <4>1. journal = <<Contents>> /\ Objects \cap Others = {} /\ live = DOMAIN tables
        BY <4>0
      <4>2. OwnedByPending \cap live = (Objects \cup Reviewed) \cap DOMAIN tables
        BY <4>1 DEF OwnedByPending, Contents
      <4>3. tables' = Created(Lacking(tables, (Objects \cup Reviewed) \cap DOMAIN tables), [n \in Reviewed |-> "reviewed"])
        BY <3>11, <4>1, <4>2 DEF Restore, Contents
      <4>4. tables' = [n \in (DOMAIN tables \ (Objects \cup Reviewed)) \cup Reviewed |->
                         IF n \in Reviewed THEN Table("later", "reviewed") ELSE tables[n]]
        BY <4>3 DEF Created, Lacking
      <4>5. DOMAIN tables \ (Objects \cup Reviewed) = Others /\ \A n \in Others : tables[n] = AsReviewed
        BY <4>1, HandoverAssumption DEF Whole, Replaced
      <4>6. Whole(tables')
        BY <4>4, <4>5, HandoverAssumption DEF Whole, AsReviewed, Table
      <4> QED BY <3>11, <4>1, <4>6 DEF Restore, Goes, store
    <3>12. CASE Forget
      BY <3>12 DEF Forget, Leaves, Whole, Replaced
    <3>13. CASE UNCHANGED handoverVars
      BY <3>13 DEF handoverVars, Whole, Replaced
    <3> QED BY <2>2, <3>2, <3>3, <3>4, <3>5, <3>6, <3>7, <3>8, <3>9, <3>10, <3>11, <3>12, <3>13 DEF HandoverNext
  <2> QED BY <2>1, <2>2
<1> QED BY <1>1, <1>2, SoundInv, PTL DEF HandoverSpec

\* A handover that is over and was not confirmed has put everything back, unless somebody
\* else touched the tables (Store.rollback_locked, repeated or not).
THEOREM HandoverRestores == HandoverSpec => []RestoredAsReviewed
<1>1. Undisturbed => RestoredAsReviewed
  BY DEF Undisturbed, RestoredAsReviewed, Whole
<1> QED BY <1>1, UndisturbedInv, PTL
=============================================================================
