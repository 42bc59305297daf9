------------------------------ MODULE Compiler ------------------------------
(***************************************************************************)
(* core/compiler.py with the packet modules it composes (modules/nf and    *)
(* modules/ip): the chains a configuration compiles to, for each backend,  *)
(* and what they make of a packet.                                         *)
(*                                                                         *)
(* A rule is a conjunction of conditions on fields of the packet, each the *)
(* set of values it accepts, and a target.  A chain is named by its        *)
(* context (Host, or the index of a container grant) and its own name.   *)
(* The per-domain chains of nftables, which no rule leaves early, are in   *)
(* line; the meters of a limit (per source, global) are one field: under,  *)
(* over, or full when the kernel has no room for another source.  Rules    *)
(* that only log are left out.                                             *)
(***************************************************************************)
EXTENDS Configuration
SX == INSTANCE SequencesExt

Host == 0
Rule(on, to) == [on |-> on, to |-> to, chain |-> <<>>]
Jump(on, chain) == [on |-> on, to |-> "jump", chain |-> chain]
Only(condition, rules) == IF condition THEN rules ELSE <<>>
Both(on, rules) ==
  [i \in DOMAIN rules |-> [on |-> on @@ rules[i].on, to |-> rules[i].to, chain |-> rules[i].chain]]
EachOf(S, Op(_)) == LET s == SX!SetToSeq(S) IN [i \in DOMAIN s |-> Op(s[i])]

Replies == [state |-> {"established", "related"}]
EstablishedOnly == <<Rule(Replies, "accept"), Rule(<<>>, "drop")>>
InFamily(net) == [fam |-> {Family(net)}]

(***************************************************************************)
(* core: what comes before every service                                   *)
(***************************************************************************)
Icmp(f, types) == [proto |-> {"icmp"}, fam |-> {f}, icmp |-> types]
Discovery == [hops |-> {255}] @@ Icmp(6, {"discovery"})
CoreInput(v) ==
  <<Rule([iif |-> {"lo"}], "accept"), Rule([state |-> {"invalid"}], "drop"),
    Rule(Icmp(4, {"error"}), "accept"), Rule(Icmp(6, {"error"}), "accept"), Rule(Discovery, "accept"),
    Rule([meter |-> {"under"}] @@ Icmp(4, {"echo"}), "accept"),
    Rule([meter |-> {"under"}] @@ Icmp(6, {"echo"}), "accept"),
    Rule(Icmp(4, {"echo"}), "drop"), Rule(Icmp(6, {"echo"}), "drop")>>
  \o Only(v.FAMILY_POLICY = "ipv4-block-ipv6", <<Rule([fam |-> {6}], "drop")>>)
CoreForward(v) ==
  Only(v.FAMILY_POLICY = "ipv4-block-ipv6", <<Rule([fam |-> {6}], "drop")>>)
  \o <<Rule([proto |-> {"icmp"}, state |-> {"related"}], "accept"), Rule([state |-> {"invalid"}], "drop")>>

(***************************************************************************)
(* grants and vpn: explicit exceptions, ahead of the service controls      *)
(***************************************************************************)
\* guard: the packets of a grant, or the replies to them.
Guard(g) ==
  [src |-> g.source, dst |-> g.destination, iif |-> {g.input}, proto |-> {g.protocol}, dport |-> g.ports]
  @@ InFamily(g.source) @@ IF "output" \in DOMAIN g THEN [oif |-> {g.output}] ELSE << >>
ReplyGuard(g) ==
  [src |-> g.destination, dst |-> g.source, iif |-> {g.output}, oif |-> {g.input}, proto |-> {g.protocol},
   sport |-> g.ports, reply |-> {TRUE}] @@ Replies @@ InFamily(g.source)

HostGrants(access) == LET Accept(g) == Rule(Guard(g), "accept") IN EachOf(access.host, Accept)
ForwardGrants(access) ==
  LET Accept(g) == Rule(Guard(g), "accept")
      Reply(g) == Rule(ReplyGuard(g), "accept")
  IN EachOf(access.forward, Accept) \o EachOf(access.forward, Reply)
Bypass(v) ==
  LET Accept(net) == Rule([src |-> net] @@ InFamily(net), "accept")
  IN Only(v.PRIVILEGED_BYPASS, EachOf(v.BYPASS_SOURCE_IPS, Accept))
VpnPort(v, names) ==
  Only("openvpn_server" \in names /\ v.HOST_SERVICES,
       <<Rule([proto |-> {v.OVPNSRV_PROTO}, dport |-> {v.OVPNSRV_PORT}], "accept")>>)

(***************************************************************************)
(* The service modules.  v has the ports they are to serve: those of the   *)
(* configuration on the host, those of a grant in front of a container.    *)
(***************************************************************************)
Tcp(ports) == [proto |-> {"tcp"}, dport |-> ports]
Udp(ports) == [proto |-> {"udp"}, dport |-> ports]
New == [state |-> {"new"}]
Under == [meter |-> {"under"}]
Over == [meter |-> {"over"}]

AllowlistRules(v) ==
  Only(v.BYPASS_UDP_PORTS # {}, <<Rule(Udp(v.BYPASS_UDP_PORTS), "accept")>>)
  \o Only(v.BYPASS_TCP_PORTS # {}, <<Rule(Tcp(v.BYPASS_TCP_PORTS), "accept")>>)
SshRules(v) == Both(Tcp(v.SSH_PORT), <<Rule(New @@ Under, "accept"), Rule(New, "drop"), Rule(Replies, "accept")>>)
WebRules(v) == Both(Tcp(v.HTTP_HTTPS_PORTS), <<Rule(New @@ Under, "accept"), Rule(New, "drop")>>)
RconRules(nft, v) ==
  Both(Tcp(v.L4D2_GAMESERVER_TCP_PORTS),
       <<Rule(New @@ Under, "accept"), Rule(IF nft THEN New @@ Over ELSE New, "drop")>>)

\* The game modules.  A length counts the UDP header: "empty" is 0-8, "malformed"
\* one of 10-12, 26 and 40, "short" anything else up to 50, "large" at least what
\* the large filter drops, "huge" above 2500.
Short == [size |-> {"empty", "malformed", "short"}]
Signature(sigs) == [sig |-> sigs]
AllGamePorts(v) == v.L4D2_GAMESERVER_UDP_PORTS \cup v.L4D2_SOURCETV_UDP_PORTS

ValidationRules(v) ==
  LET sizes == <<Rule([size |-> {"empty"}], "drop"), Rule([size |-> {"huge"}], "drop")>>
               \o Only(v.ENABLE_MALFORMED_FILTER, <<Rule([size |-> {"malformed"}], "drop")>>)
  IN Both(Udp(v.L4D2_GAMESERVER_UDP_PORTS), sizes) \o Both(Udp(v.L4D2_SOURCETV_UDP_PORTS), sizes)

\* Signatures iptables leaves to the query and login chains.
SteamSignatures(nft, v) == IF nft THEN v.STEAM_GROUP_SIGNATURES ELSE v.STEAM_GROUP_SIGNATURES \ {"54", "71"}
QueryRules(nft, v, ctx) ==
  LET login == Udp(v.L4D2_GAMESERVER_UDP_PORTS) @@ Short @@ Signature({"71"}) IN
  Both(Udp(AllGamePorts(v)),
       <<Jump(Signature({"54"}), <<ctx, "a2s_limit">>)>>
       \o Only(v.ENABLE_STEAM_GROUP_FILTER,
               <<Jump(Signature(SteamSignatures(nft, v)), <<ctx, "steam_group_limit">>)>>))
  \o IF nft THEN <<Jump([verb |-> {"connect", "reserve"}] @@ login, <<ctx, "login_limit">>), Rule(login, "drop")>>
            ELSE <<Jump(login, <<ctx, "login_limit">>)>>

BaseRules(v, ctx) ==
  <<Jump(Udp(v.L4D2_GAMESERVER_UDP_PORTS) @@ New, <<ctx, "udp_new_limit">>),
    Jump(Udp(v.L4D2_SOURCETV_UDP_PORTS) @@ New, <<ctx, "udp_new_limit_sourcetv">>),
    Jump(Udp(v.L4D2_GAMESERVER_UDP_PORTS) @@ [state |-> {"established"}], <<ctx, "udp_established_limit">>),
    Jump(Udp(v.L4D2_SOURCETV_UDP_PORTS) @@ [state |-> {"established"}], <<ctx, "udp_established_limit">>)>>

\* The packets BaseRules leaves to the chains that classify them.
LeftToQueries(v) ==
  {"54"} \cup IF v.ENABLE_STEAM_GROUP_FILTER THEN v.STEAM_GROUP_SIGNATURES \ {"54", "71"} ELSE {}

\* Faulty variant: the compiler adds nothing to the limit chains of nftables.
LimitChainOpen(nft, accepted) ==
  IF nft THEN <<Rule(accepted @@ Under, "accept"), Rule(accepted @@ Over, "drop")>>
  ELSE <<Rule(accepted @@ Under, "accept"), Rule(<<>>, "drop")>>

\* Under the limit accepted, over it dropped; the compiler closes the chain for
\* packets the kernel could not count (nft_records: fail closed).
LimitChain(nft, accepted) ==
  <<Rule(accepted @@ Under, "accept")>>
  \o Only(nft, <<Rule(accepted @@ Over, "drop")>>) \o <<Rule(<<>>, "drop")>>
Limiter(nft, rate, burst, accepted) ==
  IF rate = 0 \/ burst = 0 THEN <<Rule(<<>>, "accept")>> ELSE LimitChain(nft, accepted)

GameChains(nft, v, ctx) ==
  LET verbs == IF nft THEN << >> ELSE [verb |-> {"connect", "reserve"}]
      left == Only(v.ENABLE_UDP_NEW_FFFFFFFF_BYPASS, <<Rule(Signature(LeftToQueries(v)), "return")>>)
      logins == Only(v.ENABLE_UDP_NEW_FFFFFFFF_BYPASS,
                     <<Rule(Udp(v.L4D2_GAMESERVER_UDP_PORTS) @@ Signature({"71"}), "return")>>)
      large == Only(v.ENABLE_UDP_NEW_LARGE_FILTER, <<Rule([size |-> {"large", "huge"}], "drop")>>)
  IN <<ctx, "a2s_limit">> :> Limiter(nft, v.A2S_RATE, v.A2S_BURST, << >>)
     @@ <<ctx, "steam_group_limit">> :> Limiter(nft, v.A2S_RATE, v.A2S_BURST, << >>)
     @@ <<ctx, "login_limit">> :> Limiter(nft, v.L4D2_LOGIN_RATE, v.L4D2_LOGIN_BURST, verbs)
     @@ <<ctx, "udp_new_limit">> :> left \o logins \o large \o LimitChain(nft, << >>)
     @@ <<ctx, "udp_new_limit_sourcetv">> :> left \o LimitChain(nft, << >>)
     @@ <<ctx, "udp_established_limit">> :> LimitChain(nft, << >>)

\* geo_country_filter: the gate before the other controls of the game ports.  geo
\* has the prefixes read when the policy was generated.
GeoSets(v, files) ==
  [deny |-> files.manual.deny, allow |-> files.manual.allow,
   denied |-> UNION {files.country[c] : c \in v.GEO_POLICY_DENIED_COUNTRIES},
   allowed |-> UNION {files.country[c] : c \in v.GEO_POLICY_ALLOWED_COUNTRIES}]
GeoGate(v, geo) ==
  LET From(S, to) == Only(S # {}, <<Rule([src |-> S], to)>>)
      country == IF v.GEO_POLICY_MODE = "denylist"
                   THEN From(geo.denied, "drop") \o <<Rule(<<>>, "return")>>
                   ELSE From(geo.allowed, "return") \o <<Rule(<<>>, "drop")>>
  IN From(geo.deny, "drop") \o From(geo.allow, "return") \o country
GeoRules(v, names) ==
  Only(GeoOn(v, names), <<Jump([fam |-> {4}] @@ Udp(AllGamePorts(v)), <<Host, "geo_country_gate_v4">>)>>)
GeoDeniesV6(v, names) ==
  Only(GeoOn(v, names) /\ v.GEO_IPV6_POLICY = "deny", <<Rule([fam |-> {6}] @@ Udp(AllGamePorts(v)), "drop")>>)

(***************************************************************************)
(* The services of the host                                                *)
(***************************************************************************)
\* Administrative sources restrict the SSH rules.  nftables knows them by their
\* chain, iptables by their port list.  The faulty variants forget the metered rules,
\* and know the default port only.
AdminOnlyUnmetered(v, rules) ==
  LET restricted == IF v.ADMIN_SOURCES = {} THEN rules ELSE Both([src |-> UNION v.ADMIN_SOURCES], rules)
  IN [i \in DOMAIN rules |-> IF "meter" \in DOMAIN rules[i].on THEN rules[i] ELSE restricted[i]]
AdminOnly(v, rules) ==
  IF v.ADMIN_SOURCES = {} THEN rules ELSE Both([src |-> UNION v.ADMIN_SOURCES], rules)
AdminByPortDefault(v, rules) ==
  [i \in DOMAIN rules |-> IF Get(rules[i].on, "dport", {}) = {22} THEN AdminOnly(v, <<rules[i]>>)[1] ELSE rules[i]]
AdminByPort(v, rules) ==
  [i \in DOMAIN rules |->
     IF "SSH_PORT" \in DOMAIN v /\ Get(rules[i].on, "dport", {}) = v.SSH_PORT
       THEN AdminOnly(v, <<rules[i]>>)[1] ELSE rules[i]]

\* Validation first, then the queries, then the limits of all packets.
GameRules(nft, v, ctx) == ValidationRules(v) \o QueryRules(nft, v, ctx) \o BaseRules(v, ctx)

\* iptables has the rules of the modules for IPv4 alone where games are served.
ForFamilies(nft, names, rules) ==
  IF ~nft /\ names \cap Game # {} THEN Both([fam |-> {4}], rules) ELSE rules
HostServices(nft, v, names) ==
  LET ssh == Only("tcp_ssh" \in names, IF nft THEN AdminOnly(v, SshRules(v)) ELSE SshRules(v))
      tcp == Only("allowlist_ports" \in names, AllowlistRules(v)) \o ssh
             \o Only("l4d2_tcp_protect" \in names /\ v.L4D2_GAMESERVER_TCP_PORTS # {}, RconRules(nft, v))
             \o Only("http_https_protect" \in names, WebRules(v))
      udp == GeoDeniesV6(v, names) \o GeoRules(v, names)
             \o Only(Game \subseteq names, GameRules(nft, v, Host))
      rules == tcp \o udp
  IN ForFamilies(nft, names, IF nft THEN rules ELSE AdminByPort(v, rules))

(***************************************************************************)
(* containers: for each grant a chain of its service, entered by what was  *)
(* really published, and nothing else into the containers' bridges         *)
(***************************************************************************)
Reach(ranges) == UNION {r[1]..r[2] : r \in {ranges[i] : i \in DOMAIN ranges}}
\* The configuration as the service module sees it in front of a container.
Serving(v, g) ==
  LET ports == Reach(g.ports)
      other == {Highest({65533, 65534, 65535} \ ports)}
  IN (CASE g.service = "tcp_ssh" -> [SSH_PORT |-> ports]
        [] g.service = "http_https_protect" -> [HTTP_HTTPS_PORTS |-> ports]
        [] g.service = "allowlist_ports" ->
             IF g.protocol = "tcp" THEN [BYPASS_TCP_PORTS |-> ports] ELSE [BYPASS_UDP_PORTS |-> ports]
        [] g.service = "l4d2_udp_base" ->
             [L4D2_GAMESERVER_UDP_PORTS |-> IF g.role = "gameserver" THEN ports ELSE other,
              L4D2_SOURCETV_UDP_PORTS |-> IF g.role = "sourcetv" THEN ports ELSE other]
        [] OTHER -> << >>) @@ v
ServiceRules(nft, v, g, ctx) ==
  CASE g.service = "tcp_ssh" -> SshRules(v)
    [] g.service = "http_https_protect" -> WebRules(v)
    [] g.service = "allowlist_ports" -> AllowlistRules(v)
    [] g.service = "l4d2_udp_base" -> GameRules(nft, v, ctx)
ContainerChain(nft, v, names, g, ctx) ==
  IF g.service = "openvpn_server" THEN <<Rule(<<>>, "accept")>>
  ELSE ForFamilies(nft, names, ServiceRules(nft, Serving(v, g), g, ctx)) \o EstablishedOnly

ContainerEntries(access) ==
  LET Scoped(g, j) == [g EXCEPT !.ports = g.ports[j][1]..g.ports[j][2]]
      Published(g, j) == [dnat |-> {TRUE}, odst |-> {g.public}, odport |-> g.publicPorts[j][1]..g.publicPorts[j][2]]
      Entries(i) == LET g == access.containers[i] IN
        SX!FlattenSeq([j \in DOMAIN g.ports |->
          <<Jump(Guard(Scoped(g, j)) @@ Published(g, j), <<i, "service">>),
            Rule(ReplyGuard(Scoped(g, j)) @@ Published(g, j), "accept")>>])
  IN SX!FlattenSeq([i \in DOMAIN access.containers |-> Entries(i)])

\* Faulty variant: in ingress mode only replies are kept out of the drop.
ForwardTailIngressOpen(v, access) == <<Rule(<<>>, IF v.ROUTED_POLICY = "drop" THEN "drop" ELSE "return")>>

ForwardTail(v, access) ==
  LET bridges == {g.output : g \in Containers(access)}
      Isolate(b) ==
        IF v.CONTAINER_POLICY = "ingress" THEN
          <<Rule([iif |-> {b}, oif |-> {b}], "return"),
            Rule([oif |-> {b}, reply |-> {TRUE}, dnat |-> {FALSE}] @@ Replies, "return"),
            Rule([oif |-> {b}], "drop")>>
        ELSE <<Rule([oif |-> {b}], "drop"), Rule([iif |-> {b}], "drop")>>
  IN IF v.ROUTED_POLICY = "drop" THEN <<Rule(<<>>, "drop")>>
     ELSE SX!FlattenSeq(EachOf(bridges, Isolate)) \o <<Rule(<<>>, "return")>>

(***************************************************************************)
(* vpn: NAT, and the grants of a site-to-site tunnel that go into the      *)
(* chain Docker leaves to its users                                        *)
(***************************************************************************)
Translate(base, src, dst, out) == [base |-> base, family |-> Family(src), src |-> src, dst |-> dst, oif |-> out]
Translations(v, names) ==
  LET remotes == IF "openvpn_sitetosite" \in names THEN v.OVPNS2S_REMOTE_SUBNETS ELSE {}
      aliases == Get(v, "OVPNS2S_ROUTER_ALIAS", {})
      out == Get(v, "OVPNS2S_LOCAL_INTERFACE", "")
  IN (IF "openvpn_server" \in names /\ Get(v, "OVPNSRV_ENABLE_NAT", FALSE)
        THEN {Translate("postrouting", v.OVPNSRV_SUBNET, v.OVPNSRV_LAN_SUBNET, v.OVPNSRV_LAN_INTERFACE)} ELSE {})
     \cup (IF Get(v, "OVPNS2S_ENABLE_NAT", FALSE)
             THEN {Translate("postrouting", q[1], q[2], out) : q \in remotes \X v.OVPNS2S_LOCAL_SUBNETS} ELSE {})
     \cup {Translate("prerouting", q[1], {q[2][2]}, "") : q \in remotes \X aliases}
     \cup (IF Get(v, "OVPNS2S_ROUTER_ALIAS_SNAT", FALSE)
             THEN {Translate("postrouting", q[1], {q[2][1]}, out) : q \in remotes \X aliases} ELSE {})

\* What is translated is of one family, and leaves by a named interface.
NatValid(nat) ==
  \A t \in nat : Family(t.dst) = t.family /\ (t.base = "postrouting" => t.oif # "")

SharedRules(v, names) ==
  LET pairs == {q \in v.OVPNS2S_REMOTE_SUBNETS \X v.OVPNS2S_LOCAL_SUBNETS : Family(q[1]) = Family(q[2])}
      In(q) == Rule([iif |-> {v.OVPNS2S_INTERFACE}, oif |-> {v.OVPNS2S_LOCAL_INTERFACE}, src |-> q[1], dst |-> q[2]]
                    @@ InFamily(q[1]), "accept")
      Back(q) == Rule([iif |-> {v.OVPNS2S_LOCAL_INTERFACE}, oif |-> {v.OVPNS2S_INTERFACE}, src |-> q[2], dst |-> q[1],
                       reply |-> {TRUE}] @@ Replies @@ InFamily(q[1]), "accept")
  IN IF "openvpn_sitetosite" \in names /\ Get(v, "OVPNS2S_ALLOW_LAN", FALSE)
       THEN EachOf(pairs, In) \o EachOf(pairs, Back) ELSE <<>>

(***************************************************************************)
(* build                                                                   *)
(***************************************************************************)
InputChain(nft, v, names, access) ==
  CoreInput(v) \o HostGrants(access) \o Bypass(v) \o VpnPort(v, names)
  \o Only(v.HOST_SERVICES, HostServices(nft, v, names)) \o EstablishedOnly
ForwardChain(v, access) ==
  CoreForward(v) \o ForwardGrants(access) \o ContainerEntries(access) \o ForwardTail(v, access)

ContainerChains(nft, v, names, access) ==
  LET Chains(i) == LET g == access.containers[i] IN
        <<i, "service">> :> ContainerChain(nft, v, names, g, i)
        @@ IF g.service = "l4d2_udp_base" THEN GameChains(nft, Serving(v, g), i) ELSE << >>
  IN [name \in UNION {DOMAIN Chains(i) : i \in DOMAIN access.containers} |-> Chains(name[1])[name]]

ChainsOf(nft, v, names, access, files) ==
  <<Host, "input">> :> InputChain(nft, v, names, access)
  @@ <<Host, "forward">> :> ForwardChain(v, access)
  @@ <<Host, "shared">> :> SharedRules(v, names)
  @@ ContainerChains(nft, v, names, access)
  @@ (IF Game \subseteq names THEN GameChains(nft, v, Host) ELSE << >>)
  @@ IF GeoOn(v, names) THEN <<Host, "geo_country_gate_v4">> :> GeoGate(v, GeoSets(v, files)) ELSE << >>

\* The policy of a configuration: none when the compiler refuses it.
Generated(c, files) ==
  LET chains == ChainsOf(c.backend = "nftables", c.config, c.selected, c.access, files)
  IN IF NatValid(Translations(c.config, c.selected))
       THEN {[schema |-> IF chains[<<Host, "shared">>] # <<>> THEN 3 ELSE 2, chains |-> chains] @@ c}
       ELSE {}

(***************************************************************************)
(* What the kernel makes of a packet                                       *)
(***************************************************************************)
Matches(rule, p) == \A field \in DOMAIN rule.on : p[field] \in rule.on[field]
\* A rule that matches decides, a jump only when the chain it enters does: says is
\* what each chain makes of the packet when it is entered.
Decides(rule, p, says) == Matches(rule, p) /\ (rule.to = "jump" => says[rule.chain] # "return")
FirstOf(rules, p, says) ==
  IF \A i \in DOMAIN rules : ~Decides(rules[i], p, says) THEN "return"
  ELSE LET rule == rules[CHOOSE i \in DOMAIN rules :
                           /\ Decides(rules[i], p, says)
                           /\ \A j \in 1..(i - 1) : ~Decides(rules[j], p, says)]
       IN IF rule.to = "jump" THEN says[rule.chain] ELSE rule.to

\* A base chain enters the gate, a limit or the service of a container; that enters
\* a limit; and those enter no other.
Says(chains, p, inner) == [name \in DOMAIN chains |-> FirstOf(chains[name], p, inner)]
Walk(chains, name, p) ==
  LET nowhere == [c \in DOMAIN chains |-> "return"]
  IN FirstOf(chains[name], p, Says(chains, p, Says(chains, p, nowhere)))
Accepts(policy, p) == Walk(policy.chains, <<Host, "input">>, p) = "accept"

\* A packet the suite hands back to the rest of the forwarding rules meets the
\* grants in Docker's chain there; what becomes of it otherwise is not the suite's.
Forwards(policy, p) ==
  LET verdict == Walk(policy.chains, <<Host, "forward">>, p) IN
  IF verdict = "return" /\ Walk(policy.chains, <<Host, "shared">>, p) = "accept" THEN "accept" ELSE verdict
============================================================================
