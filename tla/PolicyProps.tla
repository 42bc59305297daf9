---------------------------- MODULE PolicyProps -----------------------------
(***************************************************************************)
(* What a policy promises of the packets it meets, and what the operations *)
(* that compose the next policy from it may change.                        *)
(***************************************************************************)
EXTENDS Policy, GeoTool

CONSTANTS
  Arrivals,     \* packets to the host
  Transits,     \* packets to forward
  Targets       \* what the tool is asked about

ASSUME ArrivalsAssumption == \A k \in Arrivals \cup Transits : k.fam \in {4, 6}
\* The tool refuses what is not IPv4.
ASSUME TargetsAssumption == \A target \in Targets : target \subseteq V4
\* A CIDR is of one family.
ASSUME NetworksAssumption ==
  \A r \in Requests : \A net \in Get(r.supplied, "BYPASS_SOURCE_IPS", {}) : net \subseteq V4 \/ net \cap V4 = {}

\* The compiled policy of the record, when the record is of this release.
Compiled == {p \in {record[i] : i \in DOMAIN record} : p.schema # 1}
\* A step of another variable leaves the policy as it was checked.
Settled == files = read /\ updating = <<>>

(***************************************************************************)
(* What an option, a grant or a module admits, written from the point of   *)
(* view of a packet                                                        *)
(***************************************************************************)
ByGrant(g, k) ==
  k.src \in g.source /\ k.dst \in g.destination /\ k.iif = g.input /\ k.proto = g.protocol /\ k.dport \in g.ports
ByCore(k) ==
  \/ k.icmp = "error" \/ (k.icmp = "echo" /\ k.meter = "under")
  \/ k.icmp = "discovery" /\ k.fam = 6 /\ k.hops = 255
ByBypass(v, k) == v.PRIVILEGED_BYPASS /\ \E net \in v.BYPASS_SOURCE_IPS : k.src \in net
ByVpn(v, names, k) ==
  "openvpn_server" \in names /\ v.HOST_SERVICES /\ k.proto = v.OVPNSRV_PROTO /\ k.dport = v.OVPNSRV_PORT
Exempt(p, k) ==
  k.iif = "lo" \/ ByBypass(p.config, k) \/ ByVpn(p.config, p.selected, k) \/ \E g \in p.access.host : ByGrant(g, k)
ToGame(v, k) == k.proto = "udp" /\ k.dport \in AllGamePorts(v)
ByService(v, names, k) ==
  \/ /\ "allowlist_ports" \in names
     /\ k.dport \in (IF k.proto = "tcp" THEN v.BYPASS_TCP_PORTS ELSE v.BYPASS_UDP_PORTS)
  \/ /\ k.proto = "tcp" /\ k.meter = "under"
     /\ \/ /\ "tcp_ssh" \in names /\ k.dport \in v.SSH_PORT
           /\ v.ADMIN_SOURCES # {} => k.src \in UNION v.ADMIN_SOURCES
        \/ "http_https_protect" \in names /\ k.dport \in v.HTTP_HTTPS_PORTS
        \/ "l4d2_tcp_protect" \in names /\ k.dport \in v.L4D2_GAMESERVER_TCP_PORTS
  \/ Game \subseteq names /\ ToGame(v, k)

\* The host accepts nothing that an option of the configuration does not account for:
\* no invalid packet but on loopback, no IPv6 but core ICMP when it is blocked, and no
\* new packet without its grant, its exemption or a selected service under its limit.
AcceptedIsGranted ==
  \A p \in Compiled : Settled => \A k \in Arrivals : Accepts(p, k) =>
    \/ k.iif = "lo"
    \/ k.state # "invalid" /\ k.proto = "icmp" /\ ByCore(k)
    \/ /\ k.state # "invalid" /\ (k.fam = 6 => p.config.FAMILY_POLICY = "dual")
       /\ \/ Exempt(p, k) \/ k.state \in {"established", "related"}
          \/ p.config.HOST_SERVICES /\ ByService(p.config, p.selected, k)

(***************************************************************************)
(* Game traffic                                                            *)
(***************************************************************************)
\* The addresses the country filter lets through.
Passes(v, geo, a) ==
  /\ a \notin geo.deny
  /\ a \notin geo.allow => IF v.GEO_POLICY_MODE = "denylist" THEN a \notin geo.denied ELSE a \in geo.allowed
Disabled(v, k) ==
  \/ k.sig \in {"54"} \cup v.STEAM_GROUP_SIGNATURES /\ (v.A2S_RATE = 0 \/ v.A2S_BURST = 0)
  \/ k.sig = "71" /\ (v.L4D2_LOGIN_RATE = 0 \/ v.L4D2_LOGIN_BURST = 0)

\* iptables knows the rules of SSH by their list of ports, and takes those of a game with
\* the same list for them: other sources than the administrators' would then get around.
TakenForSsh(p) ==
  /\ p.backend = "iptables" /\ p.config.ADMIN_SOURCES # {} /\ "SSH_PORT" \in DOMAIN p.config
  /\ p.config.SSH_PORT \in {p.config.L4D2_GAMESERVER_UDP_PORTS, p.config.L4D2_SOURCETV_UDP_PORTS, AllGamePorts(p.config)}

\* No packet reaches a game or SourceTV port of the host around the controls: not an
\* established one, nor one that a service with an overlapping port would accept.  What is
\* accepted without an exemption has a valid size, comes from a country let in, and was
\* counted under a limit unless that limit is switched off.
GameChecked ==
  \A p \in Compiled : Settled /\ Game \subseteq p.selected /\ p.config.HOST_SERVICES /\ ~TakenForSsh(p) =>
    \A k \in Arrivals : ToGame(p.config, k) /\ Accepts(p, k) /\ ~Exempt(p, k) =>
      /\ k.size \notin {"empty", "huge"} \cup IF p.config.ENABLE_MALFORMED_FILTER THEN {"malformed"} ELSE {}
      /\ GeoOn(p.config, p.selected) => k.fam = 4 /\ Passes(p.config, GeoSets(p.config, read), k.src)
      /\ k.state \in {"new", "established"} => k.meter = "under" \/ Disabled(p.config, k)

(***************************************************************************)
(* Two backends                                                            *)
(***************************************************************************)
OtherBackend(p) ==
  LET other == IF p.backend = "nftables" THEN "iptables" ELSE "nftables" IN
  UNION {Generated(c, read) : c \in
    Configured(Normalized(other, [p.config EXCEPT !.MODULES_EXCLUDE = {}], p.selected \ {"geo_country_filter"},
                          p.access, {}), read)}

\* Where the backends are known to differ: a login payload that is neither connect nor
\* reserve when the login limit is off, a signature listed twice, and a port of another
\* service that happens to be the SSH port.
KnownToDiffer(p, k) ==
  LET v == p.config IN
  \/ k.sig = "71" /\ k.verb \notin {"connect", "reserve"} /\ 0 \in {Get(v, "L4D2_LOGIN_RATE", 0), Get(v, "L4D2_LOGIN_BURST", 0)}
  \/ k.sig = "71" /\ "71" \in Get(v, "STEAM_GROUP_SIGNATURES", {})
  \/ /\ v.ADMIN_SOURCES # {} /\ k.dport \in Get(v, "SSH_PORT", {})
     /\ ~(k.proto = "tcp" /\ "tcp_ssh" \in p.selected)

\* A configuration that both backends take means the same to them: each packet to the
\* host and each packet to forward has the same verdict from both.
BackendsAgree ==
  \A p \in Compiled : Settled /\ ~GeoOn(p.config, p.selected) => \A q \in OtherBackend(p) :
    /\ \A k \in Arrivals : ~KnownToDiffer(p, k) => Accepts(p, k) = Accepts(q, k)
    /\ \A k \in Transits : ~KnownToDiffer(p, k) => Forwards(p, k) = Forwards(q, k)

(***************************************************************************)
(* Forwarding                                                              *)
(***************************************************************************)
ByPublication(g, k) ==
  k.dnat /\ k.odst = g.public
  /\ \E j \in DOMAIN g.ports :
       k.odport \in g.publicPorts[j][1]..g.publicPorts[j][2] /\ k.dport \in g.ports[j][1]..g.ports[j][2]
  /\ k.src \in g.source /\ k.dst \in g.destination /\ k.iif = g.input /\ k.oif = g.output /\ k.proto = g.protocol
ByForward(g, k) == ByGrant(g, k) /\ k.oif = g.output
ByLan(v, names, k) ==
  /\ "openvpn_sitetosite" \in names /\ Get(v, "OVPNS2S_ALLOW_LAN", FALSE)
  /\ k.iif = v.OVPNS2S_INTERFACE /\ k.oif = v.OVPNS2S_LOCAL_INTERFACE
  /\ k.src \in UNION v.OVPNS2S_REMOTE_SUBNETS /\ k.dst \in UNION v.OVPNS2S_LOCAL_SUBNETS

\* Nothing new is forwarded, or let through to the containers' bridges, but what a grant
\* names: as really published for a container, from the tunnel to the local network for
\* a site-to-site VPN.
ForwardedIsGranted ==
  \A p \in Compiled : Settled => \A k \in Transits : k.state = "new" =>
    /\ Forwards(p, k) = "accept" =>
         \/ \E g \in p.access.forward : ByForward(g, k)
         \/ \E g \in Containers(p.access) : ByPublication(g, k)
         \/ ByLan(p.config, p.selected, k)
    /\ Forwards(p, k) = "return" /\ p.config.CONTAINER_POLICY # "off" =>
         \A g \in Containers(p.access) : k.oif = g.output => k.iif = g.output

(***************************************************************************)
(* Composing the next policy                                               *)
(***************************************************************************)
\* What the record keeps is enough to compile the policy again: read back with no change,
\* the record of this release and the one migrated from an older release give the same
\* modules, options and chains.  (A recorded MODULES_EXCLUDE that a command line had
\* replaced is the exception: it names modules the policy has, or none there is.)
RecordReplays ==
  \A p \in Current : Settled /\ p.config.MODULES_EXCLUDE \subseteq Catalog(p.backend) \ p.selected =>
    UNION {Generated(c, files) : c \in Reread(p, p.config, p.selected, p.access, << >>)} = {p}

PortsOf(v, m) ==
  CASE m = "tcp_ssh" -> v.SSH_PORT [] m = "http_https_protect" -> v.HTTP_HTTPS_PORTS
    [] m = "l4d2_tcp_protect" -> v.L4D2_GAMESERVER_TCP_PORTS [] m = "openvpn_server" -> {v.OVPNSRV_PORT}
    [] m = "allowlist_ports" -> v.BYPASS_TCP_PORTS \cup v.BYPASS_UDP_PORTS
    [] m \in Game \cup {"geo_country_filter"} -> AllGamePorts(v) [] OTHER -> {}
Concerns(p, names, k) ==
  \/ k.dport \in UNION {PortsOf(p.config, m) : m \in names \cap p.selected}
  \/ "whitelist" \in names /\ ByBypass(p.config, k)

PrefixesKept(p) == GeoOn(p.config, p.selected) => files.country = read.country

\* A partial update reaches no further than the modules it names: the selection and the
\* grants are kept, and every packet that concerns none of those modules, before or after,
\* has the verdict it had.  The country prefixes are the exception: they are read again
\* from the disk, whatever the module named, so they have to be those of the policy.
PartialConfined ==
  [][last'.op = "partial" /\ last' # last => \A p \in Current, q \in Current' :
       p.config.MODULES_EXCLUDE \cap p.selected = {} /\ PrefixesKept(p) =>
         /\ q.selected = p.selected /\ q.access = p.access
         /\ \A k \in Arrivals : ~Concerns(p, last'.names, k) /\ ~Concerns(q, last'.names, k) =>
              Accepts(p, k) = Accepts(q, k)]_policyVars

\* Removing modules, other than the country filter, opens nothing: no new packet is
\* accepted or forwarded that the policy before refused, whatever has become of the access
\* file that policy was read from.  (The prefixes are read again here too.)
RemovalOpensNothing ==
  [][last'.op = "remove" /\ last' # last /\ last'.set = << >> => \A p \in Current, q \in Current' :
       "geo_country_filter" \notin p.selected \ q.selected /\ PrefixesKept(p) =>
         /\ \A k \in Arrivals : k.state = "new" /\ Accepts(q, k) => Accepts(p, k)
         /\ \A k \in Transits : k.state = "new" /\ Forwards(q, k) = "accept" => Forwards(p, k) = "accept"]_policyVars

\* The next policy has the modules of the confirmed one.
\* (docs/firewall/persistence.md: a partial operation starts from a confirmed policy.)
PartialKeepsSelection ==
  [][last'.op = "partial" /\ last' # last =>
       \A p \in Current, q \in Current' : q.selected = p.selected]_policyVars

(***************************************************************************)
(* The tool that explains the country filter                               *)
(***************************************************************************)
Query(v, a) ==
  [fam |-> 4, src |-> a, dst |-> "self", iif |-> "eth0", oif |-> "none", proto |-> "udp",
   dport |-> Highest(v.L4D2_GAMESERVER_UDP_PORTS), sport |-> 27005, state |-> "new", meter |-> "under",
   icmp |-> "none", hops |-> 64, size |-> "short", sig |-> "54", verb |-> "none", reply |-> FALSE,
   dnat |-> FALSE, odst |-> "none", odport |-> 0]
GeoOptions == {"GEO_POLICY_MODE", "GEO_POLICY_ALLOWED_COUNTRIES", "GEO_POLICY_DENIED_COUNTRIES"}

\* While the prefixes on the disk are those the policy was compiled from, the tool is right
\* about it: a game query from each address of an allowed target is accepted, and from none
\* of a denied one.  The file of options names the mode and both country lists (the tool
\* does not know the defaults of the module), and the VPN server has another port (the
\* tool knows nothing of it).
GeoToolAgrees ==
  \A p \in Compiled :
    /\ Settled /\ last.op = "apply" /\ GeoOptions \subseteq DOMAIN last.set
    /\ Game \cup {"geo_country_filter"} \subseteq p.selected /\ p.config.HOST_SERVICES
    /\ \A a \in V4 : ~ByVpn(p.config, p.selected, Query(p.config, a))
    => \A target \in Targets :
         LET answer == Decide(last.set, files, target, TRUE)
             Heard(a) == Accepts(p, Query(p.config, a))
         IN /\ answer = "ALLOW" => \A a \in target : Heard(a)
            /\ answer = "DENY" => \A a \in target : Heard(a) => \E g \in p.access.host : ByGrant(g, Query(p.config, a))
=============================================================================
