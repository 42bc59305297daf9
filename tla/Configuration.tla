--------------------------- MODULE Configuration ---------------------------
(***************************************************************************)
(* core/config.py: what the suite makes of a file of options, a command    *)
(* line and an access file.  A configuration is refused, or comes out with *)
(* its modules selected, the defaults of those modules filled in, its      *)
(* timeouts fitted to its rates and its grants parsed.  The record of a    *)
(* policy keeps that result, and every later --partial or --remove reads   *)
(* it back through the same code (from_normalized).                        *)
(*                                                                         *)
(* Options are a record with a field for every option that has a value.    *)
(* A port list is the set of its ports, a CIDR the set of its addresses, a *)
(* list of CIDRs a set of such sets.  An argument that may be absent is a  *)
(* sequence of length 0 or 1.                                              *)
(***************************************************************************)
EXTENDS Integers, FiniteSets, Sequences

CONSTANTS V4, V6      \* the addresses of each family

ASSUME ConfigurationAssumption == V4 \cap V6 = {}

\* Functions put together, the left one first (as in TLC.tla, which the provers do
\* not look into).
f @@ g == [x \in DOMAIN f \cup DOMAIN g |-> IF x \in DOMAIN f THEN f[x] ELSE g[x]]
x :> y == [z \in {x} |-> y]

Game == {"l4d2_udp_base", "l4d2_packet_validation", "l4d2_a2s_filters"}
Catalog(backend) ==
  Game \cup {"whitelist", "allowlist_ports", "openvpn_server", "openvpn_sitetosite",
             "tcp_ssh", "l4d2_tcp_protect", "http_https_protect"}
       \cup (IF backend = "nftables" THEN {"geo_country_filter"} ELSE {})

Profiles == [p \in {"host-minimal", "web", "games", "vpn-gateway"} |->
  {"tcp_ssh"} \cup (CASE p = "web" -> {"http_https_protect"} [] p = "games" -> Game
                      [] p = "vpn-gateway" -> {"openvpn_server"} [] OTHER -> {})]

CoreDefaults ==
  [PROFILE |-> {"host-minimal"}, MODULES_ONLY |-> {}, MODULES_EXCLUDE |-> {},
   FAMILY_POLICY |-> "dual", HOST_SERVICES |-> TRUE, ROUTED_POLICY |-> "drop",
   CONTAINER_POLICY |-> "off", ACCESS_POLICY |-> "", PRIVILEGED_BYPASS |-> FALSE,
   SSH_METER_TIMEOUT |-> 60, ADMIN_SOURCES |-> {}, BYPASS_SOURCE_IPS |-> {},
   BYPASS_SOURCE_DOMAINS |-> {}, DNS_ALLOWED_CIDRS |-> {}, GEO_IPV6_POLICY |-> ""]

GamePorts == [L4D2_GAMESERVER_UDP_PORTS |-> {27015}, L4D2_SOURCETV_UDP_PORTS |-> {27020}]

\* DEFAULTS of the modules' metadata, with those config.py adds for the HTTP and
\* game meters.  One rate stands for the rates that share a timeout.
DefaultsOf(m) ==
  CASE m = "tcp_ssh" -> [SSH_PORT |-> {22}, SSH_RATE |-> [count |-> 60, per |-> 60], SSH_BURST |-> 20]
    [] m = "http_https_protect" ->
         [HTTP_HTTPS_PORTS |-> {80, 443}, HTTP_HTTPS_RATE |-> [count |-> 180, per |-> 60],
          HTTP_HTTPS_BURST |-> 360, NFT_HTTP_HTTPS_METER_TIMEOUT |-> 300]
    [] m = "allowlist_ports" -> [BYPASS_TCP_PORTS |-> {}, BYPASS_UDP_PORTS |-> {}]
    [] m = "l4d2_tcp_protect" -> [L4D2_GAMESERVER_TCP_PORTS |-> {}]
    [] m = "l4d2_packet_validation" -> GamePorts @@ [ENABLE_MALFORMED_FILTER |-> FALSE]
    [] m = "l4d2_a2s_filters" ->
         GamePorts @@ [A2S_RATE |-> 6, A2S_BURST |-> 30, L4D2_LOGIN_RATE |-> 4, L4D2_LOGIN_BURST |-> 16,
                       ENABLE_STEAM_GROUP_FILTER |-> TRUE, STEAM_GROUP_SIGNATURES |-> {"69"},
                       NFT_A2S_METER_TIMEOUT |-> 5, NFT_LOGIN_METER_TIMEOUT |-> 1]
    [] m = "l4d2_udp_base" ->
         GamePorts @@ [L4D2_CMD_LIMIT |-> 100, UDP_NEW_RATE |-> 8, UDP_NEW_BURST |-> 24,
                       ENABLE_STEAM_GROUP_FILTER |-> TRUE, STEAM_GROUP_SIGNATURES |-> {"69"},
                       ENABLE_UDP_NEW_FFFFFFFF_BYPASS |-> TRUE, ENABLE_UDP_NEW_LARGE_FILTER |-> FALSE,
                       NFT_UDP_NEW_METER_TIMEOUT |-> 5, NFT_UDP_EST_METER_TIMEOUT |-> 5]
    [] m = "geo_country_filter" ->
         GamePorts @@ [GEO_POLICY_MODE |-> "off", GEO_POLICY_ALLOWED_COUNTRIES |-> {"CL", "US"},
                       GEO_POLICY_DENIED_COUNTRIES |-> {}]
    [] m = "openvpn_server" ->
         [OVPNSRV_PROTO |-> "udp", OVPNSRV_PORT |-> 1194, OVPNSRV_SUBNET |-> {"tunnel"},
          OVPNSRV_INTERFACE |-> "tun", OVPNSRV_LAN_SUBNET |-> {"lanhost"}, OVPNSRV_LAN_INTERFACE |-> "",
          OVPNSRV_ENABLE_NAT |-> FALSE]
    [] m = "openvpn_sitetosite" ->
         [OVPNS2S_ENABLE_NAT |-> FALSE, OVPNS2S_ALLOW_LAN |-> FALSE, OVPNS2S_LOCAL_INTERFACE |-> "",
          OVPNS2S_ROUTER_ALIAS |-> {}, OVPNS2S_ROUTER_ALIAS_SNAT |-> FALSE]
    [] OTHER -> << >>

\* REQUIRED_VARS and OPTIONAL_VARS: what --partial may set along with a module.
VarsOf(backend, m) ==
  (CASE m = "whitelist" -> {"BYPASS_SOURCE_IPS", "BYPASS_SOURCE_DOMAINS"}
     [] m = "openvpn_sitetosite" -> DOMAIN DefaultsOf(m) \cup
          {"OVPNS2S_INTERFACE", "OVPNS2S_LOCAL_SUBNETS", "OVPNS2S_REMOTE_SUBNETS"}
     [] OTHER -> DOMAIN DefaultsOf(m))
  \ (IF backend = "nftables" THEN {"OVPNSRV_LAN_INTERFACE", "OVPNSRV_ENABLE_NAT"}
      ELSE {"NFT_HTTP_HTTPS_METER_TIMEOUT", "NFT_A2S_METER_TIMEOUT", "NFT_LOGIN_METER_TIMEOUT",
            "NFT_UDP_NEW_METER_TIMEOUT", "NFT_UDP_EST_METER_TIMEOUT"})

\* REQUIRED_VARS without a default.
RequiredOf(m) ==
  IF m = "openvpn_sitetosite"
    THEN {"OVPNS2S_INTERFACE", "OVPNS2S_LOCAL_SUBNETS", "OVPNS2S_REMOTE_SUBNETS"} ELSE {}

Get(v, k, default) == IF k \in DOMAIN v THEN v[k] ELSE default
Ceil(a, b) == (a + b - 1) \div b
Highest(S) == CHOOSE x \in S : \A y \in S : y <= x
Family(net) == IF net \subseteq V4 THEN 4 ELSE 6

(***************************************************************************)
(* Configuration.__init__: the modules and the values                      *)
(***************************************************************************)

\* TYPECHAIN, the old option, is translated; it may not contradict the new ones.
Translation(typechain) ==
  [HOST_SERVICES |-> typechain # 1, CONTAINER_POLICY |-> IF typechain = 0 THEN "off" ELSE "restrict"]
Translatable(supplied) ==
  "TYPECHAIN" \in DOMAIN supplied =>
    \A k \in {"HOST_SERVICES", "CONTAINER_POLICY"} \cap DOMAIN supplied :
      supplied[k] = Translation(supplied.TYPECHAIN)[k]
Translated(supplied) ==
  IF "TYPECHAIN" \notin DOMAIN supplied THEN supplied
  ELSE [k \in DOMAIN supplied \ {"TYPECHAIN"} |-> supplied[k]] @@ Translation(supplied.TYPECHAIN)

\* A module list on the command line replaces the one of the file, even when it is
\* empty; the profiles are used only where neither names a module.
Listed(r, v) == IF r.only # <<>> THEN r.only[1] ELSE v.MODULES_ONLY
FallsBack(r, v) == r.only = <<>> /\ v.MODULES_ONLY = {}
ChosenProfiles(r, v) == IF r.profiles # <<>> THEN r.profiles[1] ELSE v.PROFILE
Excluded(r, v) == IF r.skip # <<>> THEN r.skip[1] ELSE v.MODULES_EXCLUDE
Selection(r, v) ==
  (Listed(r, v) \cup IF FallsBack(r, v) THEN UNION {Profiles[p] : p \in ChosenProfiles(r, v)} ELSE {})
    \ Excluded(r, v)

SelectionValid(r, v) ==
  LET names == Selection(r, v) IN
    /\ r.backend \in {"nftables", "iptables"}
    /\ FallsBack(r, v) => ChosenProfiles(r, v) # {} /\ ChosenProfiles(r, v) \subseteq DOMAIN Profiles
    /\ Listed(r, v) \cup Excluded(r, v) \subseteq Catalog(r.backend)
    /\ ~({"openvpn_server", "openvpn_sitetosite"} \subseteq names)
    /\ names \cap Game # {} => Game \subseteq names

\* The defaults of the selected modules, below what was supplied.
WithDefaults(v, names) ==
  LET keys == UNION {DOMAIN DefaultsOf(m) : m \in names}
      filled == v @@ [k \in keys |-> DefaultsOf(CHOOSE m \in names : k \in DOMAIN DefaultsOf(m))[k]]
  IN filled @@ (IF "UDP_NEW_RATE" \in DOMAIN filled
                  THEN [SOURCETV_UDP_NEW_RATE |-> filled.UDP_NEW_RATE,
                        SOURCETV_UDP_NEW_BURST |-> filled.UDP_NEW_BURST]
                  ELSE << >>)

\* How long the state of each meter must be kept for its tokens to refill.
Refill(v, rates) ==
  Highest({1} \cup {Ceil(v[k[2]], v[k[1]]) : k \in {q \in rates : v[q[1]] # 0 /\ v[q[2]] # 0}})
TcpMeters ==
  {<<"SSH_RATE", "SSH_BURST", "SSH_METER_TIMEOUT">>,
   <<"HTTP_HTTPS_RATE", "HTTP_HTTPS_BURST", "NFT_HTTP_HTTPS_METER_TIMEOUT">>}
\* The rate of a meter is of no use without its burst and its timeout.
MetersComplete(v) == \A q \in TcpMeters : q[1] \in DOMAIN v => {q[2], q[3]} \subseteq DOMAIN v
Needs(v, names) ==
  {<<q[3], Ceil(v[q[2]] * v[q[1]].per, v[q[1]].count)>> : q \in {m \in TcpMeters : m[1] \in DOMAIN v}}
     \cup IF ~(Game \subseteq names) THEN {} ELSE
       {<<"NFT_A2S_METER_TIMEOUT", Refill(v, {<<"A2S_RATE", "A2S_BURST">>})>>,
        <<"NFT_LOGIN_METER_TIMEOUT", Refill(v, {<<"L4D2_LOGIN_RATE", "L4D2_LOGIN_BURST">>})>>,
        <<"NFT_UDP_NEW_METER_TIMEOUT",
          Refill(v, {<<"UDP_NEW_RATE", "UDP_NEW_BURST">>,
                     <<"SOURCETV_UDP_NEW_RATE", "SOURCETV_UDP_NEW_BURST">>})>>}

\* A timeout nobody gave grows to what its meter needs.
Covered(v, need) == need[2] <= v[need[1]]
Fitted(v, names, explicit) ==
  LET short == {q \in Needs(v, names) : q[1] \notin explicit /\ ~Covered(v, q)}
  IN [k \in {q[1] : q \in short} |-> (CHOOSE q \in short : q[1] = k)[2]] @@ v
TimeoutsCover(v, names) ==
  /\ \A q \in Needs(v, names) : Covered(v, q) /\ v[q[1]] <= 86400
  /\ names \cap Game # {} =>
       /\ v.L4D2_CMD_LIMIT \in 10..10000
       /\ Ceil(v.L4D2_CMD_LIMIT + 30, v.L4D2_CMD_LIMIT + 10) <= v.NFT_UDP_EST_METER_TIMEOUT
       /\ v.NFT_UDP_EST_METER_TIMEOUT <= 86400

(***************************************************************************)
(* validate: what the values must be among themselves                      *)
(***************************************************************************)
PoliciesValid(b, v) ==
  /\ v.FAMILY_POLICY \in {"dual", "ipv4-block-ipv6"} /\ v.ROUTED_POLICY \in {"drop", "unmanaged"}
  /\ v.CONTAINER_POLICY \in {"off", "restrict", "ingress"}
  /\ v.CONTAINER_POLICY = "ingress" => b = "nftables"

LanValid(b, v, names) ==
  Get(v, "OVPNS2S_ALLOW_LAN", FALSE) =>
    /\ b = "nftables" /\ "openvpn_sitetosite" \in names /\ v.ROUTED_POLICY = "unmanaged"
    /\ v.OVPNS2S_LOCAL_INTERFACE \notin {"", v.OVPNS2S_INTERFACE}
    /\ v.OVPNS2S_LOCAL_SUBNETS # {}
    /\ {Family(n) : n \in v.OVPNS2S_LOCAL_SUBNETS} = {Family(n) : n \in v.OVPNS2S_REMOTE_SUBNETS}

\* iptables can look into game packets of IPv4 only.
PayloadsValid(b, v, names) ==
  b = "iptables" /\ names \cap Game # {} => v.FAMILY_POLICY = "ipv4-block-ipv6"

BypassValid(v, names) ==
  v.BYPASS_SOURCE_IPS # {} \/ v.BYPASS_SOURCE_DOMAINS # {} =>
    /\ "whitelist" \in names /\ v.PRIVILEGED_BYPASS
    /\ v.BYPASS_SOURCE_DOMAINS # {} => v.DNS_ALLOWED_CIDRS # {}

\* The filter is for IPv4: dual families must say what happens to IPv6.
GeoOn(v, names) == "geo_country_filter" \in names /\ v.GEO_POLICY_MODE # "off"
GeoValid(v, names) ==
  GeoOn(v, names) /\ v.FAMILY_POLICY = "dual" => v.GEO_IPV6_POLICY = "deny"

PortList(ports) == ports # {} /\ \A port \in ports : port \in Nat /\ 1 <= port /\ port <= 65535
GameValid(v, names) ==
  names \cap Game # {} =>
    /\ Get(v, "BYPASS_UDP_PORTS", {}) = {}
    /\ PortList(v.L4D2_GAMESERVER_UDP_PORTS) /\ PortList(v.L4D2_SOURCETV_UDP_PORTS)
    /\ v.L4D2_GAMESERVER_UDP_PORTS \cap v.L4D2_SOURCETV_UDP_PORTS = {}

\* No TCP port is under the control of two modules.
ControlledPorts(v, names) ==
  [m \in names \cap {"tcp_ssh", "http_https_protect", "l4d2_tcp_protect"} |->
     CASE m = "tcp_ssh" -> v.SSH_PORT [] m = "http_https_protect" -> v.HTTP_HTTPS_PORTS
       [] OTHER -> v.L4D2_GAMESERVER_TCP_PORTS]
TcpValid(v, names) ==
  LET control == ControlledPorts(v, names) IN
    /\ \A m, n \in DOMAIN control : m # n => control[m] \cap control[n] = {}
    /\ "allowlist_ports" \in names =>
         \A m \in DOMAIN control : control[m] \cap v.BYPASS_TCP_PORTS = {}

VpnValid(v) ==
  /\ Get(v, "OVPNSRV_PROTO", "udp") \in {"tcp", "udp"}
  /\ Get(v, "OVPNSRV_ENABLE_NAT", FALSE) => Get(v, "OVPNSRV_LAN_INTERFACE", "") # ""
  /\ Get(v, "OVPNS2S_ENABLE_NAT", FALSE) => Get(v, "OVPNS2S_LOCAL_INTERFACE", "") # ""
  /\ \A pair \in Get(v, "OVPNS2S_ROUTER_ALIAS", {}) : {pair[1], pair[2]} \subseteq V4

(***************************************************************************)
(* The grants of the access file                                           *)
(***************************************************************************)
NoAccess == [host |-> {}, forward |-> {}, containers |-> <<>>]
Containers(access) == {access.containers[i] : i \in DOMAIN access.containers}
Grants(access) == access.host \cup access.forward \cup Containers(access)

\* validate_access: one family; a public address; public and internal ranges that
\* line up one by one.
AccessValid(access) ==
  /\ \A g \in Grants(access) : Family(g.source) = Family(g.destination) /\ g.protocol \in {"tcp", "udp"}
  /\ \A g \in Containers(access) :
       /\ Family({g.public}) = Family(g.source)
       /\ Len(g.ports) = Len(g.publicPorts)
       /\ \A i \in DOMAIN g.ports :
            g.ports[i][2] - g.ports[i][1] = g.publicPorts[i][2] - g.publicPorts[i][1]
       /\ g.service \in {"tcp_ssh", "http_https_protect", "l4d2_udp_base", "allowlist_ports", "openvpn_server"}
       /\ g.service = "l4d2_udp_base" => g.protocol = "udp" /\ g.role \in {"gameserver", "sourcetv"}
       /\ g.service \in {"tcp_ssh", "http_https_protect"} => g.protocol = "tcp"

\* What the grants ask of the rest of the configuration.
AccessFits(v, names, access) ==
  /\ access.containers # <<>> => v.CONTAINER_POLICY \in {"restrict", "ingress"}
  /\ v.CONTAINER_POLICY = "ingress" => v.ROUTED_POLICY = "unmanaged" /\ access.containers # <<>>
  /\ access.forward # {} => v.ROUTED_POLICY = "drop"
  /\ v.FAMILY_POLICY # "dual" => \A g \in Grants(access) : Family(g.source) = 4
  /\ \A g \in Containers(access) :
       /\ g.service \in names
       /\ g.service = "openvpn_server" => g.protocol = v.OVPNSRV_PROTO

\* validate_geo: the file of every country named is there.
GeoFilesPresent(v, names, files) ==
  GeoOn(v, names) => v.GEO_POLICY_ALLOWED_COUNTRIES \cup v.GEO_POLICY_DENIED_COUNTRIES \subseteq DOMAIN files.country

\* resolve_dns: the domains become addresses, for good.
Answers(v, files) == UNION {files.dns[d] : d \in v.BYPASS_SOURCE_DOMAINS}
DnsValid(v, files) ==
  /\ \A d \in v.BYPASS_SOURCE_DOMAINS : d \in DOMAIN files.dns /\ files.dns[d] # {}
  /\ Answers(v, files) \subseteq UNION v.DNS_ALLOWED_CIDRS
Resolved(v, files) ==
  [ACCESS_POLICY |-> "", BYPASS_SOURCE_DOMAINS |-> {},
   BYPASS_SOURCE_IPS |-> v.BYPASS_SOURCE_IPS \cup {{a} : a \in Answers(v, files)}] @@ v

(***************************************************************************)
(* A request, and the configuration it gives: none when it is refused.     *)
(* files is what the disk and DNS say now: access files, country prefixes, *)
(* answers.                                                                *)
(***************************************************************************)
Configured(r, files) ==
  LET v0 == Translated(r.supplied) @@ CoreDefaults
      names == Selection(r, v0)
      v1 == WithDefaults(v0, names)
      v == Fitted(v1, names, r.explicit)
      access == IF r.normalized THEN r.access ELSE files.access[v0.ACCESS_POLICY]
      present == \A m \in names : RequiredOf(m) \subseteq DOMAIN v0
  IN IF /\ Translatable(r.supplied) /\ (r.normalized => "TYPECHAIN" \notin DOMAIN r.supplied)
        /\ SelectionValid(r, v0) /\ present
        /\ r.normalized \/ v0.ACCESS_POLICY \in DOMAIN files.access
        /\ PoliciesValid(r.backend, v1) /\ LanValid(r.backend, v1, names)
        /\ PayloadsValid(r.backend, v1, names) /\ BypassValid(v1, names)
        /\ MetersComplete(v1) /\ TimeoutsCover(v, names)
        /\ GeoValid(v, names) /\ GameValid(v, names) /\ TcpValid(v, names) /\ VpnValid(v)
        /\ AccessValid(access) /\ AccessFits(v, names, access)
        /\ GeoFilesPresent(v, names, files) /\ DnsValid(v, files)
     THEN {[backend |-> r.backend, config |-> Resolved(v, files), selected |-> names, access |-> access]}
     ELSE {}

\* A file of options and a command line.
Fresh(backend, supplied, only, skip) ==
  [backend |-> backend, supplied |-> supplied, only |-> only, skip |-> skip, profiles |-> <<>>,
   normalized |-> FALSE, access |-> NoAccess, explicit |-> DOMAIN supplied]

\* from_normalized: a record is read back with its modules for a command line.
Normalized(backend, config, selected, access, explicit) ==
  [backend |-> backend, supplied |-> [ACCESS_POLICY |-> ""] @@ config, only |-> <<selected>>, skip |-> <<>>,
   profiles |-> <<>>, normalized |-> TRUE, access |-> access, explicit |-> explicit]
============================================================================
