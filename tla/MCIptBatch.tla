----------------------------- MODULE MCIptBatch -----------------------------
(* Small instances of the iptables engine for TLC. *)
EXTENDS IptBatch

CONSTANTS host, docker

Both == <<"4", "6">>
One == <<"4">>
TablesOf == [filter |-> {"INPUT", "FORWARD"}, nat |-> {"POSTROUTING"}]
Chains == {"in", "fwd", "a2s", "post"}

Accept(n) == [name |-> n, to |-> None]
To(c) == [name |-> "go", to |-> c]
At(t, parent, c) == [table |-> t, parent |-> parent, chain |-> c]

\* host: two chains.  docker: another text for both, a third chain that is jumped
\* to, and NAT, but only in IPv4.
PolicyRules ==
  [p \in Policy |-> [f \in Families |->
     IF p = host THEN [filter |-> [in |-> <<Accept("ssh")>>, fwd |-> <<Accept("lan")>>]]
     ELSE IF f = "6"
     THEN [filter |-> [in |-> <<To("a2s")>>, fwd |-> <<Accept("web")>>, a2s |-> <<Accept("limit")>>]]
     ELSE [filter |-> [in |-> <<To("a2s")>>, fwd |-> <<Accept("web")>>, a2s |-> <<Accept("limit")>>],
           nat    |-> [post |-> <<Accept("masquerade")>>]]]]
PolicyHooks ==
  [p \in Policy |->
     IF p = host THEN {At("filter", "INPUT", "in"), At("filter", "FORWARD", "fwd")}
     ELSE {At("filter", "INPUT", "in"), At("filter", "DOCKER-USER", "fwd"), At("nat", "POSTROUTING", "post")}]

Neighbour == {Accept("other")}
NeighbourAndReference == {Accept("other"), To("in")}
Places == {[family |-> "4", table |-> "filter", chain |-> c] : c \in {"INPUT", "DOCKER-USER"}}
=============================================================================
