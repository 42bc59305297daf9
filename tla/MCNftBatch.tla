----------------------------- MODULE MCNftBatch -----------------------------
(* Small instances of the nftables engine for TLC. *)
EXTENDS NftBatch

CONSTANTS plain, routed, both, m1, m2
\* A policy without shared rules, one with a rule, one with this and another.
PolicyShared == [p \in Policy |-> IF p = plain THEN <<>> ELSE IF p = routed THEN <<m1>> ELSE <<m2, m1>>]
\* The NAT table comes and goes.
PolicyObjects == [p \in Policy |-> IF p = both THEN {"l4d2", "l4d2_nat4"} ELSE {"l4d2"}]
=============================================================================
