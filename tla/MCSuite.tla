------------------------------ MODULE MCSuite ------------------------------
(* Small instances of the suite for TLC. *)
EXTENDS SuiteProps, TLC

CONSTANTS p1, p2, p3

\* p1 and p2 own objects of the same names, as two versions of a configuration
\* do; p3 has objects and a guard text of its own.
MCShape == [p \in Policy |-> IF p = p3 THEN "other" ELSE "usual"]
MCScope == [p \in Policy |-> IF p = p3 THEN "wide" ELSE "narrow"]

Timed == {"apply", "confirm", "rollback", "status"}
Console == {"apply", "disable", "confirm", "rollback", "save", "load"}
AtBoot == {"apply", "save", "boot-prepare", "boot-guard", "boot-restore", "boot-disarm"}
AllOps == Operations

\* Barrier owners are only compared with each other.
OwnerSymmetry == Permutations(Owner)
NotTheTimer == Operations \ {"timer"}
============================================================================
