---------------------------- MODULE MCOperations ----------------------------
EXTENDS PolicyProps, Handover, LogSummary

VARIABLE part   \* the component this behaviour is about; they share no state

MCV4 == {"self", "adm", "cl", "us", "cn", "tunnel", "lanhost", "remote", "site", "ctr", "pub"}
MCV6 == {"adm6", "six", "remote6", "site6"}

(***************************************************************************)
(* The disk                                                                *)
(***************************************************************************)
Grant(source, destination, protocol, ports, input) ==
  [source |-> source, destination |-> destination, protocol |-> protocol, ports |-> ports, input |-> input]
ToHost == Grant({"cl", "us"}, {"self"}, "tcp", {8080}, "eth0")
Routed == [output |-> "lan"] @@ Grant({"tunnel"}, {"lanhost"}, "tcp", {445}, "tun")
Published(protocol, public, ports, service, role) ==
  [source |-> {"cl", "cn", "us"}, destination |-> {"ctr"}, protocol |-> protocol, ports |-> <<ports>>, input |-> "eth0",
   output |-> "br", public |-> "pub", publicPorts |-> <<public>>, service |-> service, role |-> role]
GameServer == Published("udp", <<27015, 27016>>, <<28015, 28016>>, "l4d2_udp_base", "gameserver")
Shell == Published("tcp", <<2222, 2222>>, <<22, 22>>, "tcp_ssh", "")

Access(host, forward, containers) == [host |-> host, forward |-> forward, containers |-> containers]
Acl == "" :> NoAccess @@ "host" :> Access({ToHost}, {}, <<>>) @@ "routed" :> Access({}, {Routed}, <<>>)
       @@ "docker" :> Access({}, {}, <<GameServer, Shell>>)
MCEdited == [Acl EXCEPT !["host"] = Access({ToHost, [ToHost EXCEPT !.source = {"cn"}, !.ports = {9000}]}, {}, <<>>)]
MCDisk ==
  [access |-> Acl, country |-> [CL |-> {"cl"}, US |-> {"us", "adm"}, CN |-> {"cn"}],
   manual |-> [deny |-> {"us"}, allow |-> {"remote", "us"}],
   dns |-> [vps |-> {"site", "adm6"}]]
MCRefreshed == [CL |-> {"cl", "cn"}, CN |-> {}]
MCTargets == {{"adm"}, {"us"}, {"cn"}, {"cl", "us"}, {"remote"}, {"adm", "cl"}, {"site"}, {"cn", "lanhost"}}

(***************************************************************************)
(* Files of options with a command line                                    *)
(***************************************************************************)
File(backend, supplied) == Fresh(backend, supplied, <<>>, <<>>)
Whole == [PROFILE |-> {"games", "web"}]
Admin == [ADMIN_SOURCES |-> {{"adm"}, {"adm6"}}]
V4Only == [FAMILY_POLICY |-> "ipv4-block-ipv6"]
Docker(policy) == [CONTAINER_POLICY |-> policy, ROUTED_POLICY |-> "unmanaged", ACCESS_POLICY |-> "docker"]
Geo(mode, denied) ==
  [MODULES_ONLY |-> Game \cup {"geo_country_filter", "tcp_ssh", "whitelist"}, GEO_POLICY_MODE |-> mode,
   GEO_POLICY_ALLOWED_COUNTRIES |-> {"CL", "US"}, GEO_POLICY_DENIED_COUNTRIES |-> denied, GEO_IPV6_POLICY |-> "deny"]
Bypass1 == [PRIVILEGED_BYPASS |-> TRUE, BYPASS_SOURCE_IPS |-> {{"adm"}}]
Site == [MODULES_ONLY |-> {"openvpn_sitetosite", "tcp_ssh"}, OVPNS2S_INTERFACE |-> "tun", OVPNS2S_LOCAL_INTERFACE |-> "lan",
         OVPNS2S_LOCAL_SUBNETS |-> {{"site"}, {"site6"}}, OVPNS2S_REMOTE_SUBNETS |-> {{"remote"}, {"remote6"}},
         ROUTED_POLICY |-> "unmanaged"]
Ports == [MODULES_ONLY |-> {"tcp_ssh", "http_https_protect", "allowlist_ports", "l4d2_tcp_protect", "openvpn_server"},
          BYPASS_TCP_PORTS |-> {8000}, BYPASS_UDP_PORTS |-> {9000}, L4D2_GAMESERVER_TCP_PORTS |-> {27015}]

MCRequests ==
  {File("nftables", Geo("denylist", {"CN"})),
   File("nftables", Bypass1 @@ [ENABLE_MALFORMED_FILTER |-> TRUE] @@ Geo("allowlist", {})),
   File("nftables", [GEO_POLICY_MODE |-> "off"] @@ Geo("off", {})),
   File("nftables", Admin @@ [ACCESS_POLICY |-> "host"] @@ Ports),
   File("iptables", Admin @@ [ACCESS_POLICY |-> "host"] @@ Ports),
   File("nftables", Whole @@ [L4D2_LOGIN_RATE |-> 0, ENABLE_UDP_NEW_LARGE_FILTER |-> TRUE]),
   File("nftables", Whole @@ V4Only @@ Docker("ingress")),
   File("nftables", Whole @@ Docker("restrict")),
   File("iptables", Whole @@ V4Only @@ Admin @@ Docker("restrict")),
   File("iptables", [SSH_PORT |-> {27015}] @@ Whole @@ V4Only @@ Admin),
   File("iptables", [HOST_SERVICES |-> FALSE] @@ Whole @@ V4Only),
   File("iptables", Whole),                                               \* refused: IPv6 payloads
   File("nftables", [OVPNS2S_ALLOW_LAN |-> TRUE] @@ Site),
   File("iptables", [OVPNS2S_ENABLE_NAT |-> TRUE] @@ Site),               \* refused: NAT of both families
   File("nftables", [PROFILE |-> {"vpn-gateway"}, ACCESS_POLICY |-> "routed"]),
   File("nftables", [TYPECHAIN |-> 1, MODULES_ONLY |-> {"tcp_ssh", "http_https_protect"}]),
   File("iptables", [TYPECHAIN |-> 0, PROFILE |-> {"web"}, SSH_BURST |-> 90]),
   File("iptables", [MODULES_ONLY |-> {"tcp_ssh", "whitelist"}, PRIVILEGED_BYPASS |-> TRUE,
                     BYPASS_SOURCE_DOMAINS |-> {"vps"}, DNS_ALLOWED_CIDRS |-> {{"site"}, {"adm6"}}]),
   Fresh("nftables", [PROFILE |-> {"web"}], <<{}>>, <<>>),
   Fresh("nftables", [BYPASS_TCP_PORTS |-> {22}, MODULES_ONLY |-> {"tcp_ssh", "allowlist_ports"}], <<>>, <<{}>>), \* refused: one port, two modules
   Fresh("nftables", [MODULES_EXCLUDE |-> {"allowlist_ports"}] @@ Ports, <<>>, <<{"http_https_protect"}>>)}

MCUpdates ==
  {[only |-> {"http_https_protect"}, set |-> << >>], [only |-> {"tcp_ssh"}, set |-> [SSH_PORT |-> {2022}]],
   [only |-> {"whitelist"}, set |-> [BYPASS_SOURCE_IPS |-> {{"adm"}, {"cl"}}]],
   [only |-> {"http_https_protect"}, set |-> [SSH_PORT |-> {2022}]],
   [only |-> Game, set |-> [L4D2_GAMESERVER_UDP_PORTS |-> {27016}]],
   [only |-> Game, set |-> [FAMILY_POLICY |-> "ipv4-block-ipv6"]]}
MCRemovals ==
  {[names |-> n, set |-> << >>] : n \in {{"tcp_ssh"}, {"http_https_protect"}, Game, {"allowlist_ports"}, {"openvpn_server"}}}
  \cup {[names |-> {"http_https_protect"}, set |-> [ACCESS_POLICY |-> "host"]]}

(***************************************************************************)
(* Packets                                                                 *)
(***************************************************************************)
Blank ==
  [fam |-> 4, src |-> "cn", dst |-> "self", iif |-> "eth0", oif |-> "none", proto |-> "tcp", dport |-> 0, sport |-> 40000,
   state |-> "new", meter |-> "under", icmp |-> "none", hops |-> 64, size |-> "none", sig |-> "none", verb |-> "none",
   reply |-> FALSE, dnat |-> FALSE, odst |-> "none", odport |-> 0]
From(a) == [Blank EXCEPT !.src = a, !.fam = Family({a})]
States == {"new", "established", "related", "invalid"}
TcpArrivals ==
  {[From(a) EXCEPT !.dport = d, !.state = s, !.meter = m] :
     a \in {"adm", "cn", "cl", "six"}, d \in {9, 22, 2022, 80, 8000, 8080, 9000, 27015}, s \in States, m \in {"under", "over"}}
UdpArrivals ==
  {[From(a) EXCEPT !.proto = "udp", !.dport = d, !.state = s, !.size = "short", !.meter = m] :
     a \in {"cn", "six"}, d \in {9, 22, 1194, 9000}, s \in States, m \in {"under", "over"}}
GameArrivals ==
  {[From(a) EXCEPT !.proto = "udp", !.dport = d, !.state = s, !.meter = m, !.size = x[1], !.sig = x[2], !.verb = x[3]] :
     a \in {"adm", "cn", "us", "cl", "six"}, d \in {27015, 27020}, s \in {"new", "established"}, m \in {"under", "over", "full"},
     x \in {<<"short", "54", "none">>, <<"short", "69", "none">>, <<"short", "71", "connect">>,
            <<"large", "71", "none">>, <<"short", "none", "none">>, <<"empty", "none", "none">>}}
  \cup {[From(a) EXCEPT !.proto = "udp", !.dport = d, !.state = s, !.size = z] :
     a \in {"adm", "cn"}, d \in {27015, 27020}, s \in States, z \in {"malformed", "huge", "large"}}
OtherArrivals ==
  {[From(a) EXCEPT !.proto = "icmp", !.icmp = i, !.state = s, !.hops = h, !.meter = m] :
     a \in {"cn", "six"}, i \in {"error", "echo", "discovery"}, s \in {"new", "invalid"}, h \in {64, 255}, m \in {"under", "over"}}
  \cup {[From("cn") EXCEPT !.iif = "lo", !.state = s] : s \in States}
MCArrivals == TcpArrivals \cup UdpArrivals \cup GameArrivals \cup OtherArrivals

MCTransits ==
  {[From(a) EXCEPT !.dst = "ctr", !.oif = "br", !.iif = i, !.proto = "udp", !.dport = d, !.state = s, !.dnat = n,
                   !.odst = o, !.odport = q, !.size = "short"] :
     a \in {"cn", "ctr"}, i \in {"eth0", "br"}, d \in {28015, 28016, 22}, s \in {"new", "established"}, n \in BOOLEAN,
     o \in {"pub", "ctr"}, q \in {27015, 27016}}
  \cup {[From(a) EXCEPT !.dst = "ctr", !.oif = "br", !.dport = 22, !.state = s, !.dnat = n, !.odst = "pub", !.odport = 2222, !.meter = m] :
     a \in {"cn", "site"}, s \in States, n \in BOOLEAN, m \in {"under", "over"}}
  \cup {[From(a) EXCEPT !.dst = t, !.iif = i, !.oif = o, !.dport = 445, !.sport = 445, !.state = s, !.reply = (s = "established")] :
     a \in {"tunnel", "remote", "site", "site6", "remote6", "lanhost"}, t \in {"lanhost", "site", "remote", "site6", "tunnel"},
     i \in {"tun", "lan"}, o \in {"tun", "lan"}, s \in {"new", "established"}}

vars == <<policyVars, handoverVars, logVars, part>>
Init ==
  /\ PolicyInit /\ HandoverInit /\ LogInit
  /\ part \in {"policy", "handover", "log"}
  /\ part # "policy" => record = <<>>
Next ==
  \/ part = "policy" /\ PolicyNext /\ UNCHANGED <<handoverVars, logVars, part>>
  \/ part = "handover" /\ HandoverNext /\ UNCHANGED <<policyVars, logVars, part>>
  \/ part = "log" /\ LogNext /\ UNCHANGED <<policyVars, handoverVars, part>>
Spec == Init /\ [][Next]_vars
=============================================================================
